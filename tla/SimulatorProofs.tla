--------------------------- MODULE SimulatorProofs ---------------------------
(***************************************************************************)
(* A call of step, for every width of a word, every program, every file    *)
(* system and every host. First the control alone: what is counted, what a *)
(* throw leaves behind, what the trace knows. Then the values: types, what *)
(* an instruction has computed and written in each of its phases, and from *)
(* it that what retires follows the instruction set (IsaProofs has its     *)
(* arithmetic) and what a dump in the middle of a step shows.              *)
(***************************************************************************)
EXTENDS Simulator, IsaProofs, FiniteSetTheorems, TLAPS

Phases == {"none", "cycle", "exec", "load", "setreg", "jalr", "store", "byte", "setpc", "thrown"}

(* The fields of the records.                                              *)
CallFields   == {"phase", "limit", "ins", "value", "addr", "k", "next"}
TraceFields  == {"on", "toFile", "open", "masked", "bad"}
StatusFields == {"loaded", "last", "total"}
Has(x, fields) == x = [f \in fields |-> x[f]]

Shape ==
    /\ Has(job, CallFields) /\ job.phase \in Phases
    /\ Has(trace, TraceFields) /\ Has(regs, RegId)
    /\ Has(status, StatusFields)
    /\ status.last \in Nat /\ status.total \in Nat /\ retired \in Nat
    /\ InCall => Has(before, {"mem", "regs", "pc", "endian"}) /\ Has(before.regs, RegId)

(* Who is in a call: the program at one of two places, or a DPI function   *)
(* that asked for one step.                                                *)
Hosted ==
    /\ host \in {"app", "dpi"}
    /\ host = "app" => config.isDPI = FALSE /\ (InCall => at \in {"step", "simple_step"})
    /\ host = "dpi" /\ InCall => job.limit = 1 /\ fn = "step" /\ rc = None
    /\ host = "dpi" /\ InCall /\ job.phase # "cycle" => status.last = 0

(* Where an instruction may have written: nowhere before its register, and *)
(* jalr its link before its jump.                                          *)
Linked == /\ job.ins.section = "JALR"
          /\ Arch = [before EXCEPT !.regs = IsaRegs(job.ins, before, before.pc)]
Place ==
    /\ job.phase \in {"cycle", "exec", "load", "setreg", "store"} => Arch = before
    /\ job.phase = "load" => job.ins.section # "JALR"
    /\ job.phase = "setreg" /\ job.ins.section = "JALR" => job.value = pc
    /\ job.phase = "jalr" => Linked
    /\ job.phase = "thrown" => Arch = before \/ (trace.bad /\ Throws(trace) /\ Linked)

(* A store in progress has its record.                                     *)
Recorded == job.phase = "byte" /\ trace.on => rec = MemoryRecord(job.addr, job.value)

SimInv == Shape /\ Hosted /\ StepsAreCounted /\ Place /\ Recorded
-----------------------------------------------------------------------------
(***************************************************************************)
(* Records, and what a record of the trace leaves.                         *)
(***************************************************************************)
LEMMA Moved ==
    ASSUME NEW j, Has(j, CallFields), NEW p
    PROVE  /\ Has([j EXCEPT !.phase = p], CallFields)
           /\ [j EXCEPT !.phase = p].phase = p /\ [j EXCEPT !.phase = p].limit = j.limit
           /\ [j EXCEPT !.phase = p].ins = j.ins /\ [j EXCEPT !.phase = p].value = j.value
           /\ [j EXCEPT !.phase = p].addr = j.addr /\ [j EXCEPT !.phase = p].next = j.next
  BY DEF Has, CallFields

LEMMA GotoFacts ==
    ASSUME Has(job, CallFields), NEW p, Goto(p)
    PROVE  /\ Has(job', CallFields) /\ job'.phase = p /\ job'.limit = job.limit
           /\ job'.ins = job.ins /\ job'.value = job.value /\ job'.addr = job.addr
  BY Moved DEF Goto

LEMMA NoCallFacts == Has(NoCall, CallFields) /\ NoCall.phase = "none"
  BY DEF Has, CallFields, NoCall

LEMMA TraceEdits ==
    ASSUME NEW t, Has(t, TraceFields)
    PROVE  /\ Has(Broken(t), TraceFields) /\ Broken(t).bad = TRUE /\ Broken(t).on = t.on
           /\ Broken(t).toFile = t.toFile /\ Broken(t).masked = t.masked
           /\ Has(Written(t), TraceFields) /\ Written(t).on = t.on
  BY DEF Has, TraceFields, Broken, Written

LEMMA TracedFacts ==
    ASSUME Has(trace, TraceFields), NEW r, Traced(r)
    PROVE  /\ Has(trace', TraceFields) /\ trace'.on = trace.on
           /\ trace.on => rec' = r
           /\ ~ trace.on => rec' = rec
  BY TraceEdits DEF Traced

LEMMA TraceFailsFacts ==
    ASSUME Has(trace, TraceFields), TraceFails
    PROVE  /\ Has(trace', TraceFields) /\ trace'.on = trace.on
           /\ trace'.bad /\ Throws(trace') /\ rec' = rec
  BY TraceEdits DEF TraceFails, Throws
-----------------------------------------------------------------------------
(***************************************************************************)
(* A micro-step that does not retire an instruction or end the call.       *)
(***************************************************************************)
Within ==
    /\ UNCHANGED <<status, retired, before, config>>
    /\ Has(job', CallFields) /\ job'.limit = job.limit
    /\ job'.phase \in Phases \ {"none"}
    /\ job'.phase = "cycle" => job.phase = "cycle"
    /\ job.phase = "cycle" /\ job'.phase # "cycle" => status.last < job.limit
    /\ Has(trace', TraceFields) /\ Has(regs', RegId)
    /\ proc = "running"

LEMMA WithinKeeps ==
    ASSUME SimInv, InCall, Within, UNCHANGED <<host, at, fn, rc>>
    PROVE  Shape' /\ Hosted' /\ StepsAreCounted'
<1>1. Shape'
  BY DEF SimInv, Shape, Within, InCall
<1>2. Hosted'
  BY DEF SimInv, Shape, Hosted, Within, InCall
<1>3. StepsAreCounted'
  BY DEF SimInv, StepsAreCounted, Within, InCall
<1> QED
  BY <1>1, <1>2, <1>3

LEMMA InPhase ==
    ASSUME SimInv, NEW p \in Phases \ {"none"}, In(p)
    PROVE  /\ InCall /\ proc = "running" /\ job.phase = p
           /\ Has(job, CallFields) /\ Has(trace, TraceFields) /\ Has(regs, RegId)
           /\ Has(before, {"mem", "regs", "pc", "endian"}) /\ Has(before.regs, RegId)
           /\ status.last \in Nat
  BY DEF In, InCall, SimInv, Shape

(* The phases of the value that an instruction has computed.               *)
LEMMA ResultFacts ==
    ASSUME NEW offset, Valid(job.ins)
    PROVE  LET r == Result(job.ins, offset)
           IN /\ "phase" \in DOMAIN r /\ "limit" \notin DOMAIN r /\ "ins" \notin DOMAIN r
              /\ r.phase \in {"setreg", "setpc", "load", "store"}
              /\ r.phase = "load" => job.ins.section # "JALR"
              /\ r.phase = "setreg" /\ job.ins.section = "JALR" =>
                     "value" \in DOMAIN r /\ r.value = pc
<1> DEFINE i == job.ins
           r == Result(i, offset)
<1>0. i.section \in {"R", "I_R", "LUI", "AUIPC", "JAL", "JALR", "SB", "LOAD", "STORE"}
  BY DEF Valid, Sections, SYSTEM
<1>1. CASE i.section \in {"R", "I_R", "LUI", "AUIPC"}
  BY <1>1 DEF Result
<1>2. CASE i.section = "JAL"
  BY <1>2 DEF Result
<1>3. CASE i.section = "JALR"
  BY <1>3 DEF Result, Link
<1>4. CASE i.section = "SB"
  BY <1>4 DEF Result
<1>5. CASE i.section = "LOAD"
  BY <1>5 DEF Result
<1>6. CASE i.section = "STORE"
  BY <1>6 DEF Result
<1> QED
  BY <1>0, <1>1, <1>2, <1>3, <1>4, <1>5, <1>6

LEMMA FetchStep ==
    ASSUME SimInv, Fetch
    PROVE  Within /\ Place' /\ Recorded'
<1>1. In("cycle") /\ status.last < job.limit /\ Stay
  BY DEF Fetch
<1>2. /\ proc = "running" /\ job.phase = "cycle" /\ Has(job, CallFields)
      /\ Has(trace, TraceFields) /\ Has(regs, RegId)
  BY <1>1, InPhase DEF Phases
<1>3. Arch' = Arch /\ Arch = before /\ before' = before /\ UNCHANGED <<status, retired, config, regs>>
  BY <1>1, <1>2 DEF Stay, archVars, Arch, SimInv, Place
<1>4. CASE Throw /\ (UNCHANGED <<trace, rec>> \/ TraceFails)
  <2>1. /\ Has(job', CallFields) /\ job'.phase = "thrown" /\ job'.limit = job.limit
    BY <1>2, <1>4, GotoFacts DEF Throw
  <2>2. Has(trace', TraceFields)
    BY <1>2, <1>4, TraceFailsFacts
  <2> QED
    BY <1>1, <1>2, <1>3, <2>1, <2>2 DEF Within, Place, Recorded, Phases
<1>5. CASE Abort /\ UNCHANGED <<trace, rec>>
  BY <1>1, <1>2, <1>3, <1>5 DEF Within, Place, Recorded, Phases, Abort
<1>6. CASE /\ Traced(None)
           /\ \E word \in ReadValues(pc, WORD_SIZE) :
                 job' = [job EXCEPT !.phase = "exec", !.ins = Decode(word), !.next = ToWord(pc + WORD_SIZE)]
  <2>1. /\ Has(job', CallFields) /\ job'.phase = "exec" /\ job'.limit = job.limit
    BY <1>2, <1>6 DEF Has, CallFields
  <2>2. Has(trace', TraceFields)
    BY <1>2, <1>6, TracedFacts
  <2> QED
    BY <1>1, <1>2, <1>3, <2>1, <2>2 DEF Within, Place, Recorded, Phases
<1> QED
  BY <1>4, <1>5, <1>6 DEF Fetch

LEMMA InvalidStep ==
    ASSUME SimInv, Invalid
    PROVE  Within /\ Place' /\ Recorded'
<1>1. In("exec") /\ Goto("thrown") /\ Stay /\ UNCHANGED <<trace, rec>>
  BY DEF Invalid, Throw
<1>2. /\ proc = "running" /\ job.phase = "exec" /\ Has(job, CallFields)
      /\ Has(trace, TraceFields) /\ Has(regs, RegId)
  BY <1>1, InPhase DEF Phases
<1>3. Arch' = Arch /\ Arch = before /\ before' = before /\ UNCHANGED <<status, retired, config, regs>>
  BY <1>1, <1>2 DEF Stay, archVars, Arch, SimInv, Place
<1>4. Has(job', CallFields) /\ job'.phase = "thrown" /\ job'.limit = job.limit
  BY <1>1, <1>2, GotoFacts
<1> QED
  BY <1>1, <1>2, <1>3, <1>4 DEF Within, Place, Recorded, Phases

LEMMA ExecStep ==
    ASSUME SimInv, Exec
    PROVE  Within /\ Place' /\ Recorded'
<1>1. In("exec") /\ Valid(job.ins) /\ Stay
  BY DEF Exec
<1>2. /\ proc = "running" /\ job.phase = "exec" /\ Has(job, CallFields)
      /\ Has(trace, TraceFields) /\ Has(regs, RegId)
  BY <1>1, InPhase DEF Phases
<1>3. /\ Arch' = Arch /\ Arch = before /\ before' = before
      /\ UNCHANGED <<status, retired, config, regs, pc>>
  BY <1>1, <1>2 DEF Stay, archVars, Arch, SimInv, Place
<1>4. CASE TraceFails /\ Goto("thrown")
  <2>1. Has(job', CallFields) /\ job'.phase = "thrown" /\ job'.limit = job.limit
    BY <1>2, <1>4, GotoFacts
  <2>2. Has(trace', TraceFields)
    BY <1>2, <1>4, TraceFailsFacts
  <2> QED
    BY <1>2, <1>3, <2>1, <2>2 DEF Within, Place, Recorded, Phases
<1>5. ASSUME Traced(None) \/ UNCHANGED <<trace, rec>>, NEW offset,
             job' = [f \in DOMAIN job |-> IF f \in DOMAIN Result(job.ins, offset)
                                          THEN Result(job.ins, offset)[f] ELSE job[f]]
      PROVE  Within /\ Place' /\ Recorded'
  <2> DEFINE r == Result(job.ins, offset)
  <2>1. /\ "phase" \in DOMAIN r /\ "limit" \notin DOMAIN r /\ "ins" \notin DOMAIN r
        /\ r.phase \in {"setreg", "setpc", "load", "store"}
        /\ r.phase = "load" => job.ins.section # "JALR"
        /\ r.phase = "setreg" /\ job.ins.section = "JALR" => "value" \in DOMAIN r /\ r.value = pc
    BY <1>1, ResultFacts
  <2>2. job' = [f \in DOMAIN job |-> IF f \in DOMAIN r THEN r[f] ELSE job[f]]
    BY <1>5
  <2> HIDE DEF r
  <2>3. /\ Has(job', CallFields) /\ job'.phase = r.phase /\ job'.limit = job.limit
        /\ job'.ins = job.ins /\ ("value" \in DOMAIN r => job'.value = r.value)
    BY <1>2, <2>1, <2>2 DEF Has, CallFields
  <2>4. Has(trace', TraceFields)
    BY <1>2, <1>5, TracedFacts
  <2> QED
    BY <1>2, <1>3, <2>1, <2>3, <2>4 DEF Within, Place, Recorded, Phases
<1> QED
  BY <1>4, <1>5 DEF Exec

LEMMA LoadReadStep ==
    ASSUME SimInv, LoadRead
    PROVE  Within /\ Place' /\ Recorded'
<1>1. In("load") /\ Stay
  BY DEF LoadRead
<1>2. /\ proc = "running" /\ job.phase = "load" /\ Has(job, CallFields)
      /\ Has(trace, TraceFields) /\ Has(regs, RegId)
  BY <1>1, InPhase DEF Phases
<1>3. /\ Arch' = Arch /\ Arch = before /\ before' = before
      /\ UNCHANGED <<status, retired, config, regs, pc>>
      /\ job.ins.section # "JALR"
  BY <1>1, <1>2 DEF Stay, archVars, Arch, SimInv, Place
<1>4. CASE Throw /\ (UNCHANGED <<trace, rec>> \/ TraceFails)
  <2>1. Has(job', CallFields) /\ job'.phase = "thrown" /\ job'.limit = job.limit
    BY <1>2, <1>4, GotoFacts DEF Throw
  <2>2. Has(trace', TraceFields)
    BY <1>2, <1>4, TraceFailsFacts
  <2> QED
    BY <1>2, <1>3, <2>1, <2>2 DEF Within, Place, Recorded, Phases
<1>5. CASE Abort /\ UNCHANGED <<trace, rec>>
  BY <1>1, <1>2, <1>3, <1>5 DEF Within, Place, Recorded, Phases, Abort
<1>6. CASE Traced(None) /\ \E v : job' = [job EXCEPT !.phase = "setreg", !.value = v]
  <2>1. /\ Has(job', CallFields) /\ job'.phase = "setreg" /\ job'.limit = job.limit
        /\ job'.ins = job.ins
    BY <1>2, <1>6 DEF Has, CallFields
  <2>2. Has(trace', TraceFields)
    BY <1>2, <1>6, TracedFacts
  <2> QED
    BY <1>2, <1>3, <1>6, <2>1, <2>2 DEF Within, Place, Recorded, Phases
<1> QED
  BY <1>4, <1>5, <1>6 DEF LoadRead

(* The register is written, or the trace that comes first has failed.      *)
LEMMA SetRegStep ==
    ASSUME SimInv, SetReg
    PROVE  Within /\ Place' /\ Recorded'
<1>1. In("setreg") /\ UNCHANGED <<mem, endian, pc, config, status, proc, before, retired>>
  BY DEF SetReg
<1>2. /\ proc = "running" /\ job.phase = "setreg" /\ Has(job, CallFields)
      /\ Has(trace, TraceFields) /\ Has(regs, RegId)
      /\ Has(before, {"mem", "regs", "pc", "endian"}) /\ Has(before.regs, RegId)
  BY <1>1, InPhase DEF Phases
<1>3. Arch = before /\ (job.ins.section = "JALR" => job.value = pc)
  BY <1>2 DEF SimInv, Place
<1>4. CASE TraceFails /\ Goto("thrown") /\ UNCHANGED regs
  <2>1. Has(job', CallFields) /\ job'.phase = "thrown" /\ job'.limit = job.limit
    BY <1>2, <1>4, GotoFacts
  <2>2. Has(trace', TraceFields)
    BY <1>2, <1>4, TraceFailsFacts
  <2>3. Arch' = before'
    BY <1>1, <1>3, <1>4 DEF Arch
  <2> QED
    BY <1>1, <1>2, <1>4, <2>1, <2>2, <2>3 DEF Within, Place, Recorded, Phases
<1>5. CASE /\ Traced(RegisterRecord(job.ins.rd, job.value))
           /\ regs' = IF job.ins.rd = 0 THEN regs ELSE [regs EXCEPT ![job.ins.rd] = job.value]
           /\ Goto(IF job.ins.section = "JALR" THEN "jalr" ELSE "setpc")
  <2>1. /\ Has(job', CallFields) /\ job'.limit = job.limit /\ job'.ins = job.ins
        /\ job'.phase = IF job.ins.section = "JALR" THEN "jalr" ELSE "setpc"
    BY <1>2, <1>5, GotoFacts
  <2>2. Has(trace', TraceFields)
    BY <1>2, <1>5, TracedFacts
  <2>3. Has(regs', RegId)
    BY <1>2, <1>5 DEF Has
  <2>4. ASSUME job.ins.section = "JALR" PROVE Linked'
    <3>1. regs' = IsaRegs(job.ins, before, before.pc)
      <4>1. before.regs = regs /\ before.pc = pc
        BY <1>3 DEF Arch
      <4>2. regs' = [x \in RegId |-> IF x = job.ins.rd /\ x # 0 THEN pc ELSE regs[x]]
        BY <1>2, <1>3, <1>5, <2>4 DEF Has
      <4> QED
        BY <4>1, <4>2 DEF IsaRegs
    <3>2. Arch' = [before EXCEPT !.regs = IsaRegs(job.ins, before, before.pc)]
      BY <1>1, <1>2, <1>3, <3>1 DEF Arch, Has
    <3>3. IsaRegs(job.ins, before, before.pc)' = IsaRegs(job.ins, before, before.pc)
      BY <1>1, <2>1 DEF IsaRegs
    <3> QED
      BY <1>1, <2>1, <2>4, <3>2, <3>3 DEF Linked
  <2> QED
    BY <1>1, <1>2, <2>1, <2>2, <2>3, <2>4 DEF Within, Place, Recorded, Phases
<1> QED
  BY <1>1, <1>4, <1>5 DEF SetReg

(* jalr: what it has written is its link.                                  *)
LEMMA JalrStep ==
    ASSUME SimInv, JalrTarget
    PROVE  Within /\ Place' /\ Recorded'
<1>1. In("jalr") /\ Stay
  BY DEF JalrTarget
<1>2. /\ proc = "running" /\ job.phase = "jalr" /\ Has(job, CallFields)
      /\ Has(trace, TraceFields) /\ Has(regs, RegId)
  BY <1>1, InPhase DEF Phases
<1>3. /\ Arch' = Arch /\ before' = before /\ Linked
      /\ UNCHANGED <<status, retired, config, regs>>
  BY <1>1, <1>2 DEF Stay, archVars, Arch, SimInv, Place
<1>4. CASE TraceFails /\ Goto("thrown")
  <2>1. /\ Has(job', CallFields) /\ job'.phase = "thrown" /\ job'.limit = job.limit
        /\ job'.ins = job.ins
    BY <1>2, <1>4, GotoFacts
  <2>2. Has(trace', TraceFields) /\ trace'.bad /\ Throws(trace')
    BY <1>2, <1>4, TraceFailsFacts
  <2>3. Linked'
    BY <1>3, <2>1 DEF Linked, IsaRegs
  <2>4. Throws(trace)'
    BY <2>2 DEF Throws
  <2> QED
    BY <1>2, <1>3, <2>1, <2>2, <2>3, <2>4 DEF Within, Place, Recorded, Phases
<1>5. CASE Traced(None) /\ \E n : job' = [job EXCEPT !.phase = "setpc", !.next = n]
  <2>1. Has(job', CallFields) /\ job'.phase = "setpc" /\ job'.limit = job.limit
    BY <1>2, <1>5 DEF Has, CallFields
  <2>2. Has(trace', TraceFields)
    BY <1>2, <1>5, TracedFacts
  <2> QED
    BY <1>2, <1>3, <2>1, <2>2 DEF Within, Place, Recorded, Phases
<1> QED
  BY <1>4, <1>5 DEF JalrTarget

(* A store: its record before its first byte.                              *)
LEMMA StoreBeginStep ==
    ASSUME SimInv, StoreBegin
    PROVE  Within /\ Place' /\ Recorded'
<1>1. In("store") /\ Stay
  BY DEF StoreBegin
<1>2. /\ proc = "running" /\ job.phase = "store" /\ Has(job, CallFields)
      /\ Has(trace, TraceFields) /\ Has(regs, RegId)
  BY <1>1, InPhase DEF Phases
<1>3. /\ Arch' = Arch /\ Arch = before /\ before' = before
      /\ UNCHANGED <<status, retired, config, regs, pc>>
  BY <1>1, <1>2 DEF Stay, archVars, Arch, SimInv, Place
<1>4. CASE Goto("thrown") /\ (TraceFails \/ Traced(MemoryRecord(job.addr, job.value)))
  <2>1. Has(job', CallFields) /\ job'.phase = "thrown" /\ job'.limit = job.limit
    BY <1>2, <1>4, GotoFacts
  <2>2. Has(trace', TraceFields)
    BY <1>2, <1>4, TraceFailsFacts, TracedFacts
  <2> QED
    BY <1>2, <1>3, <2>1, <2>2 DEF Within, Place, Recorded, Phases
<1>5. CASE /\ Traced(MemoryRecord(job.addr, job.value))
           /\ job' = [job EXCEPT !.phase = "byte", !.k = 0]
  <2>1. /\ Has(job', CallFields) /\ job'.phase = "byte" /\ job'.limit = job.limit
        /\ job'.addr = job.addr /\ job'.value = job.value
    BY <1>2, <1>5 DEF Has, CallFields
  <2>2. /\ Has(trace', TraceFields) /\ trace'.on = trace.on
        /\ trace.on => rec' = MemoryRecord(job.addr, job.value)
    BY <1>2, <1>5, TracedFacts
  <2>3. Recorded'
    BY <2>1, <2>2 DEF Recorded, MemoryRecord
  <2> QED
    BY <1>2, <1>3, <2>1, <2>2, <2>3 DEF Within, Place, Phases
<1> QED
  BY <1>4, <1>5 DEF StoreBegin

LEMMA StoreByteStep ==
    ASSUME SimInv, StoreByte
    PROVE  Within /\ Place' /\ Recorded'
<1>1. /\ In("byte")
      /\ UNCHANGED <<endian, regs, pc, trace, config, status, proc, before, retired, rec>>
      /\ \E k, p : job' = [job EXCEPT !.k = k, !.phase = p] /\ p \in {"setpc", "byte"}
  BY DEF StoreByte
<1>2. /\ proc = "running" /\ job.phase = "byte" /\ Has(job, CallFields)
      /\ Has(trace, TraceFields) /\ Has(regs, RegId)
  BY <1>1, InPhase DEF Phases
<1>3. /\ Has(job', CallFields) /\ job'.phase \in {"setpc", "byte"} /\ job'.limit = job.limit
      /\ job'.addr = job.addr /\ job'.value = job.value
  BY <1>1, <1>2 DEF Has, CallFields
<1>4. Recorded'
  BY <1>1, <1>2, <1>3 DEF SimInv, Recorded, MemoryRecord
<1> QED
  BY <1>1, <1>2, <1>3, <1>4 DEF Within, Place, Phases

LEMMA StoreAbortsStep ==
    ASSUME SimInv, StoreAborts
    PROVE  Within /\ Place' /\ Recorded'
<1>1. In("byte") /\ Stay /\ UNCHANGED <<trace, rec, job>>
  BY DEF StoreAborts, Abort
<1>2. /\ proc = "running" /\ job.phase = "byte" /\ Has(job, CallFields)
      /\ Has(trace, TraceFields) /\ Has(regs, RegId)
  BY <1>1, InPhase DEF Phases
<1>3. UNCHANGED <<status, retired, before, config, regs>>
  BY <1>1 DEF Stay, archVars
<1>4. Recorded'
  BY <1>1 DEF SimInv, Recorded, MemoryRecord
<1> QED
  BY <1>1, <1>2, <1>3, <1>4 DEF Within, Place, Phases
-----------------------------------------------------------------------------
(***************************************************************************)
(* An instruction retires; a call returns; and what happens between calls. *)
(***************************************************************************)
LEMMA SetPcStep ==
    ASSUME SimInv, SetPc, UNCHANGED <<host, at, fn, rc>>
    PROVE  SimInv'
<1>1. /\ In("setpc") /\ pc' = job.next /\ Goto("cycle") /\ retired' = retired + 1
      /\ status' = [status EXCEPT !.last = @ + 1] /\ before' = [Arch EXCEPT !.pc = job.next]
      /\ UNCHANGED <<mem, endian, regs, trace, config, proc, rec>>
  BY DEF SetPc
<1>2. /\ proc = "running" /\ job.phase = "setpc" /\ Has(job, CallFields) /\ InCall
      /\ Has(trace, TraceFields) /\ Has(regs, RegId) /\ status.last \in Nat
  BY <1>1, InPhase DEF Phases
<1>3. Has(job', CallFields) /\ job'.phase = "cycle" /\ job'.limit = job.limit
  BY <1>1, <1>2, GotoFacts
<1>4. /\ Has(status, StatusFields) /\ status.total \in Nat /\ retired \in Nat
      /\ retired = status.total + status.last
  BY <1>2 DEF SimInv, Shape, StepsAreCounted
<1>5. /\ Has(status', StatusFields) /\ status'.last = status.last + 1 /\ status'.total = status.total
  BY <1>1, <1>4 DEF Has, StatusFields
<1>6. before' = Arch'
  BY <1>1 DEF Arch
<1>7. Shape'
  <2>1. Has(before', {"mem", "regs", "pc", "endian"}) /\ Has(before'.regs, RegId)
    BY <1>1, <1>2, <1>6 DEF Arch, Has
  <2> QED
    BY <1>1, <1>2, <1>3, <1>4, <1>5, <2>1 DEF Shape, Phases
<1>8. Hosted'
  BY <1>1, <1>2, <1>3 DEF SimInv, Hosted, InCall
<1>9. StepsAreCounted'
  BY <1>1, <1>2, <1>3, <1>4, <1>5 DEF StepsAreCounted, InCall
<1>10. Place' /\ Recorded'
  BY <1>3, <1>6 DEF Place, Recorded
<1> QED
  BY <1>7, <1>8, <1>9, <1>10 DEF SimInv

(* No call is in progress afterwards, and the count holds.                 *)
Rests ==
    /\ host' = host /\ Has(job', CallFields) /\ job'.phase = "none"
    /\ Has(trace', TraceFields) /\ Has(regs', RegId)
    /\ Has(status', StatusFields) /\ status'.last \in Nat /\ status'.total \in Nat
    /\ retired' \in Nat
    /\ proc' = "running" => retired' = status'.total
    /\ host = "app" => config'.isDPI = FALSE

LEMMA RestsKeeps ==
    ASSUME SimInv, Rests
    PROVE  SimInv'
<1>1. Shape'
  BY DEF Rests, Shape, InCall, Phases
<1>2. Hosted'
  BY DEF SimInv, Hosted, Rests, InCall
<1>3. StepsAreCounted'
  BY DEF SimInv, Shape, StepsAreCounted, Rests, InCall
<1>4. Place' /\ Recorded'
  BY DEF Rests, Place, Recorded
<1> QED
  BY <1>1, <1>2, <1>3, <1>4 DEF SimInv

LEMMA ReturnStep ==
    ASSUME SimInv, Return, UNCHANGED host
    PROVE  Rests
<1>1. /\ job' = NoCall /\ status' = [status EXCEPT !.total = @ + status.last]
      /\ UNCHANGED <<regs, trace, config, proc, retired>>
  BY DEF Return, archVars
<1>2. proc = "running" /\ InCall
  BY InPhase DEF Return, Phases
<1>3. /\ Has(trace, TraceFields) /\ Has(regs, RegId) /\ Has(status, StatusFields)
      /\ status.last \in Nat /\ status.total \in Nat /\ retired \in Nat
      /\ retired = status.total + status.last /\ (host = "app" => config.isDPI = FALSE)
  BY <1>2 DEF SimInv, Shape, StepsAreCounted, Hosted
<1>4. /\ Has(status', StatusFields) /\ status'.last = status.last
      /\ status'.total = status.total + status.last
  BY <1>1, <1>3 DEF Has, StatusFields
<1> QED
  BY <1>1, <1>3, <1>4, NoCallFacts DEF Rests

LEMMA BeginsKeeps ==
    ASSUME SimInv, ~ InCall, proc = "running", NEW n, StepCall(n),
           UNCHANGED <<mem, regs, pc, endian, host, config, retired>>, Has(trace', TraceFields),
           host = "app" => at' \in {"step", "simple_step"},
           host = "dpi" => n = 1 /\ fn' = "step" /\ rc' = None
    PROVE  SimInv'
<1>1. /\ Has(regs, RegId) /\ Has(status, StatusFields) /\ status.total \in Nat
      /\ retired \in Nat /\ retired = status.total
      /\ host \in {"app", "dpi"} /\ (host = "app" => config.isDPI = FALSE)
  BY DEF SimInv, Shape, StepsAreCounted, Hosted
<1>2. /\ Has(status', StatusFields) /\ status'.last = 0 /\ status'.total = status.total
  BY <1>1 DEF StepCall, Has, StatusFields
<1>3. Has(job', CallFields) /\ job'.phase \in {"thrown", "cycle"} /\ job'.limit = n
  BY DEF StepCall, NoCall, Has, CallFields
<1>4. before' = Arch' /\ Has(before', {"mem", "regs", "pc", "endian"}) /\ Has(before'.regs, RegId)
  BY <1>1 DEF StepCall, Arch, Has
<1>5. Shape'
  BY <1>1, <1>2, <1>3, <1>4 DEF Shape, Phases
<1>6. Hosted'
  BY <1>1, <1>2, <1>3 DEF Hosted
<1>7. StepsAreCounted'
  BY <1>1, <1>2 DEF StepsAreCounted
<1>8. Place' /\ Recorded'
  BY <1>3, <1>4 DEF Place, Recorded
<1> QED
  BY <1>5, <1>6, <1>7, <1>8 DEF SimInv

LEMMA ExitStep ==
    ASSUME SimInv, NEW d, Exit(d), UNCHANGED host
    PROVE  Rests
  BY NoCallFacts DEF Exit, archVars, SimInv, Shape, Hosted, Rests

(* The process hangs, or nothing of the model changes.                     *)
LEMMA FrozenKeeps ==
    ASSUME SimInv, UNCHANGED <<archVars, endian, trace, config, status, job, before, retired, rec>>,
           UNCHANGED <<host, at, fn, rc>>, proc = "running" \/ proc' = proc
    PROVE  SimInv'
<1>1. Shape' /\ Hosted'
  BY DEF SimInv, Shape, Hosted, InCall, archVars
<1>2. StepsAreCounted'
  BY DEF SimInv, StepsAreCounted, InCall
<1>3. Place'
  <2>1. Arch' = Arch /\ Linked' = Linked /\ Throws(trace)' = Throws(trace)
    BY DEF Arch, archVars, Linked, IsaRegs, Throws
  <2> QED
    BY <2>1 DEF SimInv, Place, archVars
<1>4. Recorded'
  BY DEF SimInv, Recorded, MemoryRecord
<1> QED
  BY <1>1, <1>2, <1>3, <1>4 DEF SimInv

(* Between calls: what the job and the counts are.                         *)
LEMMA AtRest ==
    ASSUME SimInv, ~ InCall
    PROVE  /\ Has(job, CallFields) /\ job.phase = "none"
           /\ Has(trace, TraceFields) /\ Has(regs, RegId) /\ Has(status, StatusFields)
           /\ status.last \in Nat /\ status.total \in Nat /\ retired \in Nat
           /\ proc = "running" => retired = status.total
           /\ host = "app" => config.isDPI = FALSE
  BY DEF SimInv, Shape, StepsAreCounted, Hosted, InCall

LEMMA Second == ASSUME NEW x, NEW y PROVE <<x, y>>[2] = y
  OBVIOUS

LEMMA ResetFacts ==
    ASSUME Has(trace, TraceFields), NEW toFile, NEW r \in Reset(trace, toFile)
    PROVE  Has(r[2], TraceFields) /\ r[2].on = trace.on
<1> DEFINE closed == [trace EXCEPT !.open = FALSE, !.bad = TRUE]
           opened == [trace EXCEPT !.toFile = TRUE, !.open = TRUE, !.bad = FALSE, !.masked = TRUE]
           failed == [trace EXCEPT !.toFile = TRUE, !.open = FALSE, !.bad = TRUE]
           other  == [trace EXCEPT !.toFile = FALSE, !.open = FALSE]
<1>1. /\ Has(closed, TraceFields) /\ closed.on = trace.on /\ Has(opened, TraceFields) /\ opened.on = trace.on
      /\ Has(failed, TraceFields) /\ failed.on = trace.on /\ Has(other, TraceFields) /\ other.on = trace.on
  BY DEF Has, TraceFields
<1>2. r \in (IF trace.open /\ trace.masked THEN {<<FALSE, closed>>} ELSE {})
          \cup (IF toFile THEN {<<TRUE, opened>>, <<FALSE, failed>>} ELSE {<<TRUE, other>>})
  BY DEF Reset
<1> HIDE DEF closed, opened, failed, other
<1>3. r \in {<<FALSE, closed>>, <<TRUE, opened>>, <<FALSE, failed>>, <<TRUE, other>>}
  BY <1>2
<1>4. \/ r = <<FALSE, closed>> \/ r = <<TRUE, opened>>
      \/ r = <<FALSE, failed>> \/ r = <<TRUE, other>>
  BY <1>3
<1>5. r[2] = closed \/ r[2] = opened \/ r[2] = failed \/ r[2] = other
  BY ONLY <1>4, Second
<1> QED
  BY <1>1, <1>5

LEMMA SetConfigFacts ==
    ASSUME Has(trace, TraceFields), NEW c, NEW t, SetConfig(c, TRUE, t)
    PROVE  /\ Has(trace', TraceFields) /\ Has(regs', RegId)
           /\ config'.isDPI = c.isDPI
<1>1. Has(t, TraceFields)
  BY ResetFacts DEF SetConfig
<1>2. trace' = [t EXCEPT !.on = c.trace] /\ regs' = [r \in RegId |-> 0]
      /\ config' = [resize |-> c.resize, isDPI |-> c.isDPI]
  BY DEF SetConfig
<1>3. Has(trace', TraceFields)
  BY <1>1, <1>2 DEF Has, TraceFields
<1>4. Has(regs', RegId)
  BY <1>2 DEF Has
<1> QED
  BY <1>2, <1>3, <1>4

LEMMA LoadFacts ==
    ASSUME Has(status, StatusFields), NEW image, NEW addr, Load(image, addr)
    PROVE  /\ Has(status', StatusFields) /\ status'.last = status.last
           /\ status'.total = status.total
<1>1. status' = [status EXCEPT !.loaded = TRUE] \/ status' = status
  BY DEF Load
<1> QED
  BY <1>1 DEF Has, StatusFields
-----------------------------------------------------------------------------
(***************************************************************************)
(* The program: it acts on the model only between calls, but for Ctrl-C.   *)
(***************************************************************************)
LEMMA AppKeeps ==
    ASSUME SimInv, AppStep, UNCHANGED dpiVars, UNCHANGED host, host = "app"
    PROVE  SimInv'
<1>0. UNCHANGED <<fn, rc>>
  BY DEF dpiVars
<1>1. ASSUME at \notin {"step", "simple_step"} PROVE ~ InCall
  BY <1>1 DEF SimInv, Hosted
<1>2. ASSUME NEW d, Exit(d) PROVE SimInv'
  BY <1>2, ExitStep, RestsKeeps
<1>3. ASSUME NoModel, ~ InCall PROVE SimInv'
  <2>1. UNCHANGED <<regs, trace, config, status, job, proc, retired>>
    BY <1>3 DEF NoModel, modelVars
  <2>2. Rests
    BY <1>3, <2>1, AtRest DEF Rests
  <2> QED
    BY <2>2, RestsKeeps
<1>4. CASE Start
  <2>1. ~ InCall
    BY <1>1, <1>4 DEF Start
  <2>2. PICK o \in CommandLines :
            \/ Exit(Arch) \/ Fail
            \/ /\ SetConfig(Options(o), TRUE, [trace EXCEPT !.toFile = FALSE, !.open = FALSE])
               /\ UNCHANGED <<status, job, proc, before, retired, rec>>
    BY <1>4 DEF Start
  <2>3. CASE Exit(Arch) \/ Fail
    BY <2>3, <1>2 DEF Fail
  <2>4. CASE /\ SetConfig(Options(o), TRUE, [trace EXCEPT !.toFile = FALSE, !.open = FALSE])
             /\ UNCHANGED <<status, job, proc, before, retired, rec>>
    <3>1. Has(trace', TraceFields) /\ Has(regs', RegId) /\ config'.isDPI = Options(o).isDPI
      BY <2>1, <2>4, AtRest, SetConfigFacts
    <3>2. Options(o).isDPI = FALSE
      BY DEF Options
    <3>3. Rests
      BY <2>1, <2>4, <3>1, <3>2, AtRest DEF Rests
    <3> QED
      BY <3>3, RestsKeeps
  <2> QED
    BY <2>2, <2>3, <2>4
<1>5. CASE SimpleLoad
  <2>1. ~ InCall
    BY <1>1, <1>5 DEF SimpleLoad
  <2>2. CASE Fail
    BY <2>2, <1>2 DEF Fail
  <2>3. CASE /\ Load(Files[params.image], 0)
             /\ UNCHANGED <<endian, regs, pc, trace, config, job, proc, before, retired, rec>>
    <3>1. /\ Has(status', StatusFields) /\ status'.last = status.last
          /\ status'.total = status.total
      BY <2>1, <2>3, AtRest, LoadFacts
    <3>2. Rests
      BY <2>1, <2>3, <3>1, AtRest DEF Rests
    <3> QED
      BY <3>2, RestsKeeps
  <2> QED
    BY <1>5, <2>2, <2>3 DEF SimpleLoad
<1>6. CASE SimpleStep
  <2>1. ~ InCall
    BY <1>1, <1>6 DEF SimpleStep
  <2>2. /\ proc = "running" /\ StepCall(params.steps) /\ at' = "simple_step"
        /\ UNCHANGED <<mem, regs, pc, endian, trace, config, retired>>
    BY <1>6 DEF SimpleStep, Go, archVars
  <2>3. Has(trace', TraceFields)
    BY <2>1, <2>2, AtRest
  <2> QED
    BY <2>1, <2>2, <2>3, BeginsKeeps
<1>7. CASE SimpleDone
  BY <1>7, <1>2 DEF SimpleDone
<1>8. CASE ReadLine
  <2>1. ~ InCall
    BY <1>1, <1>8 DEF ReadLine
  <2> QED
    BY <2>1, <1>8, <1>2, <1>3 DEF ReadLine, Fail
<1>9. CASE ShowCmd
  BY <1>9, <1>1, <1>3 DEF ShowCmd
<1>10. CASE Quit
  BY <1>10, <1>2 DEF Quit
<1>11. CASE LoadCmd
  <2>1. ~ InCall
    BY <1>1, <1>11 DEF LoadCmd, Eval
  <2>2. /\ UNCHANGED <<endian, regs, pc, trace, config, job, proc, before, retired, rec>>
        /\ \/ UNCHANGED <<mem, status>>
           \/ \E image, addr : Load(image, addr)
    BY <1>11 DEF LoadCmd
  <2>3. /\ Has(status', StatusFields) /\ status'.last = status.last
        /\ status'.total = status.total
    BY <2>1, <2>2, AtRest, LoadFacts
  <2>4. Rests
    BY <2>1, <2>2, <2>3, AtRest DEF Rests
  <2> QED
    BY <2>4, RestsKeeps
<1>12. CASE Tracing
  <2>1. ~ InCall
    BY <1>1, <1>12 DEF Tracing, Eval
  <2>2. /\ trace' = [trace EXCEPT !.on = Arg.tracing]
        /\ UNCHANGED <<regs, config, status, job, proc, retired>>
    BY <1>12 DEF Tracing, archVars
  <2>3. Has(trace', TraceFields)
    BY <2>1, <2>2, AtRest DEF Has, TraceFields
  <2>4. Rests
    BY <2>1, <2>2, <2>3, AtRest DEF Rests
  <2> QED
    BY <2>4, RestsKeeps
<1>13. CASE TouchPc
  <2>1. ~ InCall /\ UNCHANGED <<regs, trace, config, status, job, proc, retired>>
    BY <1>1, <1>13 DEF TouchPc, Eval
  <2>2. Rests
    BY <2>1, AtRest DEF Rests
  <2> QED
    BY <2>2, RestsKeeps
<1>14. CASE StepCmd
  <2>1. ~ InCall
    BY <1>1, <1>14 DEF StepCmd, Eval
  <2>2. /\ proc = "running" /\ StepCall(Arg.step) /\ at' = "step"
        /\ UNCHANGED <<mem, regs, pc, endian, trace, config, retired>>
    BY <1>14 DEF StepCmd, Eval, Go, archVars
  <2>3. Has(trace', TraceFields)
    BY <2>1, <2>2, AtRest
  <2> QED
    BY <2>1, <2>2, <2>3, BeginsKeeps
<1>15. CASE StepCmdDone
  BY <1>15, <1>3 DEF StepCmdDone
<1>16. CASE Disas
  <2>1. ~ InCall /\ proc = "running"
    BY <1>1, <1>16 DEF Disas, Eval
  <2>2. CASE NoModel
    BY <2>1, <2>2, <1>3
  <2>3. CASE /\ proc' = "aborted"
             /\ UNCHANGED <<archVars, endian, trace, config, status, job, before, retired, rec, appVars>>
    BY <2>1, <2>3, <1>0, FrozenKeeps DEF appVars
  <2> QED
    BY <1>16, <2>2, <2>3 DEF Disas
<1>17. CASE Interrupt
  <2>1. CASE Exit(Arch)
    BY <2>1, <1>2
  <2>2. CASE /\ proc = "running"
             /\ UNCHANGED <<archVars, endian, trace, config, status, job, before, retired, rec, appVars>>
    BY <2>2, <1>0, FrozenKeeps DEF appVars
  <2> QED
    BY <1>17, <2>1, <2>2 DEF Interrupt
<1> QED
  BY <1>4, <1>5, <1>6, <1>7, <1>8, <1>9, <1>10, <1>11, <1>12, <1>13, <1>14, <1>15, <1>16, <1>17
     DEF AppStep
-----------------------------------------------------------------------------
(***************************************************************************)
(* The DPI library: its functions run between calls, but for step.         *)
(***************************************************************************)
LEMMA HandlerFacts ==
    ASSUME NEW t, Has(t, TraceFields), Handler(t)
    PROVE  Has(trace', TraceFields)
  BY TraceEdits DEF Handler

LEMMA AnnounceFacts ==
    ASSUME Has(trace, TraceFields)
    PROVE  /\ AnnounceFails => Has(trace', TraceFields) /\ Keep
           /\ CoreFails => Has(trace', TraceFields)
           /\ CoreTraces => Has(trace', TraceFields)
           /\ Has(Announced, TraceFields)
<1>1. Has(Broken(trace), TraceFields) /\ Has(Written(trace), TraceFields)
  BY TraceEdits
<1> QED
  BY <1>1, HandlerFacts DEF AnnounceFails, CoreFails, CoreTraces, Announced

(* An access: nothing of a call, and a register file that is still one.    *)
LEMMA AccessKeeps ==
    ASSUME SimInv, ~ InCall, proc = "running", host = "dpi", UNCHANGED <<host, status, job, retired>>,
           Has(trace', TraceFields), Has(regs', RegId)
    PROVE  SimInv'
<1>1. Rests
  BY AtRest DEF Rests
<1> QED
  BY <1>1, RestsKeeps

LEMMA DpiInitStep ==
    ASSUME Has(trace, TraceFields), DpiInit
    PROVE  UNCHANGED <<status, job, retired>> /\ Has(trace', TraceFields) /\ Has(regs', RegId)
<1>1. regs' = [x \in RegId |-> 0] /\ UNCHANGED <<status, job, retired>>
  BY DEF DpiInit
<1>2. Has(regs', RegId)
  BY <1>1 DEF Has
<1>3. PICK p \in DpiParams : \E r \in Reset(trace, p.toFile) :
          \/ \E c : SetConfig(c, TRUE, r[2])
          \/ Handler(r[2])
  BY DEF DpiInit
<1>3a. PICK r \in Reset(trace, p.toFile) :
          \/ \E c : SetConfig(c, TRUE, r[2])
          \/ Handler(r[2])
  BY <1>3
<1>4. Has(r[2], TraceFields)
  BY ResetFacts
<1>5. Has(trace', TraceFields)
  BY <1>3a, <1>4, SetConfigFacts, HandlerFacts
<1> QED
  BY <1>1, <1>2, <1>5

LEMMA AccessStep ==
    ASSUME Has(trace, TraceFields), Has(regs, RegId),
           DumpState \/ SetMem \/ GetMem \/ GetReg \/ SetRegCall \/ GetPc \/ SetPcCall
    PROVE  UNCHANGED <<status, job, retired>> /\ Has(trace', TraceFields) /\ Has(regs', RegId)
<1>1. /\ AnnounceFails => Has(trace', TraceFields) /\ Keep
      /\ CoreFails => Has(trace', TraceFields)
      /\ CoreTraces => Has(trace', TraceFields)
      /\ Has(Announced, TraceFields)
  BY AnnounceFacts
<1>2. Handler(Announced) => Has(trace', TraceFields)
  BY <1>1, HandlerFacts
<1>3. Keep => UNCHANGED <<status, job, retired, regs>>
  BY DEF Keep, archVars
<1>4. CASE DumpState
  BY <1>3, <1>4 DEF DumpState
<1>5. CASE SetMem
  BY <1>1, <1>2, <1>3, <1>5 DEF SetMem
<1>6. CASE GetMem
  BY <1>1, <1>2, <1>3, <1>6 DEF GetMem
<1>7. CASE GetReg
  BY <1>1, <1>3, <1>7 DEF GetReg, BadReg
<1>8. CASE SetRegCall
  <2>1. PICK id \in DpiRegs, v \in DpiValues :
           \/ AnnounceFails
           \/ CoreFails /\ Keep
           \/ BadReg(id)
           \/ /\ CoreTraces
              /\ regs' = IF id = 0 THEN regs ELSE [regs EXCEPT ![id] = v]
              /\ UNCHANGED <<status, job, retired>>
    BY <1>8 DEF SetRegCall
  <2>2. regs' = (IF id = 0 THEN regs ELSE [regs EXCEPT ![id] = v]) => Has(regs', RegId)
    BY DEF Has
  <2> QED
    BY <1>1, <1>3, <2>1, <2>2 DEF BadReg
<1>9. CASE GetPc
  BY <1>1, <1>3, <1>9 DEF GetPc
<1>10. CASE SetPcCall
  BY <1>1, <1>3, <1>10 DEF SetPcCall
<1> QED
  BY <1>4, <1>5, <1>6, <1>7, <1>8, <1>9, <1>10

LEMMA DpiKeeps ==
    ASSUME SimInv, DpiStep, UNCHANGED appVars, UNCHANGED host, host = "dpi"
    PROVE  SimInv'
<1>0. UNCHANGED at
  BY DEF appVars
<1>1. Has(trace, TraceFields) /\ Has(regs, RegId)
  BY DEF SimInv, Shape
<1>2. CASE DpiInit \/ DumpState \/ SetMem \/ GetMem \/ GetReg \/ SetRegCall \/ GetPc \/ SetPcCall
  <2>1. ~ InCall /\ proc = "running"
    BY <1>2 DEF DpiInit, DumpState, SetMem, GetMem, GetReg, SetRegCall, GetPc, SetPcCall, Called, Idle
  <2>2. UNCHANGED <<status, job, retired>> /\ Has(trace', TraceFields) /\ Has(regs', RegId)
    BY <1>1, <1>2, DpiInitStep, AccessStep
  <2> QED
    BY <2>1, <2>2, AccessKeeps
<1>3. CASE StepBegin
  <2>1. ~ InCall /\ proc = "running" /\ fn' = "step"
    BY <1>3 DEF StepBegin, Called, Idle
  <2>2. CASE AnnounceFails
    <3>1. Has(trace', TraceFields) /\ UNCHANGED <<status, job, retired, regs>>
      BY <1>1, <2>2, AnnounceFacts DEF Keep, archVars
    <3> QED
      BY <1>1, <2>1, <3>1, AccessKeeps
  <2>3. CASE /\ trace' = Announced /\ rc' = None /\ StepCall(1)
             /\ UNCHANGED <<archVars, endian, config, proc, retired, rec>>
    <3>1. Has(trace', TraceFields)
      BY <1>1, <2>3, AnnounceFacts
    <3>2. UNCHANGED <<mem, regs, pc, endian, host, config, retired>>
      BY <2>3 DEF archVars
    <3> QED
      BY <2>1, <2>3, <3>1, <3>2, BeginsKeeps
  <2> QED
    BY <1>3, <2>2, <2>3 DEF StepBegin
<1>4. CASE StepEnd
  <2>1. /\ ~ InCall /\ proc = "running"
        /\ UNCHANGED <<status, job, retired, trace, regs>>
    BY <1>4 DEF StepEnd, modelVars
  <2> QED
    BY <1>1, <2>1, AccessKeeps
<1>5. CASE StepThrew
  <2>1. /\ In("thrown") /\ Handler(trace) /\ job' = NoCall
        /\ UNCHANGED <<regs, status, retired>>
    BY <1>5 DEF StepThrew, archVars
  <2>2. InCall /\ proc = "running" /\ job.phase = "thrown"
    BY <2>1, InPhase DEF Phases
  <2>3. /\ Has(status, StatusFields) /\ status.last = 0 /\ status.total \in Nat
        /\ retired \in Nat /\ retired = status.total + status.last
    BY <2>2 DEF SimInv, Shape, Hosted, StepsAreCounted
  <2>4. Has(trace', TraceFields)
    BY <1>1, <2>1, HandlerFacts
  <2>5. Rests
    BY <1>1, <2>1, <2>3, <2>4, NoCallFacts DEF Rests
  <2> QED
    BY <2>5, RestsKeeps
<1> QED
  BY <1>2, <1>3, <1>4, <1>5 DEF DpiStep
-----------------------------------------------------------------------------
LEMMA MicroStepKeeps ==
    ASSUME SimInv, MicroStep, UNCHANGED <<appVars, dpiVars>>, UNCHANGED host
    PROVE  SimInv'
<1>1. UNCHANGED <<host, at, fn, rc>>
  BY DEF appVars, dpiVars
<1>2. CASE Within /\ Place' /\ Recorded' /\ InCall
  BY <1>1, <1>2, WithinKeeps DEF SimInv
<1>3. CASE SetPc
  BY <1>1, <1>3, SetPcStep
<1>4. CASE Return
  BY <1>1, <1>4, ReturnStep, RestsKeeps
<1>5. CASE Fetch \/ Invalid \/ Exec \/ LoadRead \/ SetReg \/ JalrTarget
           \/ StoreBegin \/ StoreByte \/ StoreAborts
  <2>1. InCall
    BY <1>5 DEF InCall, In, Fetch, Invalid, Exec, LoadRead, SetReg, JalrTarget,
                StoreBegin, StoreByte, StoreAborts
  <2>2. Within /\ Place' /\ Recorded'
    BY <1>5, FetchStep, InvalidStep, ExecStep, LoadReadStep, SetRegStep, JalrStep,
       StoreBeginStep, StoreByteStep, StoreAbortsStep, SMTT(60)
  <2> QED
    BY <1>2, <2>1, <2>2
<1> QED
  BY <1>3, <1>4, <1>5 DEF MicroStep

LEMMA InitHolds == SimInit => SimInv
<1> SUFFICES ASSUME SimInit PROVE SimInv
  OBVIOUS
<1>1. /\ Has(job, CallFields) /\ job.phase = "none"
      /\ Has(trace, TraceFields) /\ Has(regs, RegId) /\ Has(status, StatusFields)
      /\ status.last = 0 /\ status.total = 0 /\ retired = 0 /\ config.isDPI = FALSE
  BY NoCallFacts DEF SimInit, Init, Has, TraceFields, StatusFields
<1>2. host \in {"app", "dpi"}
  BY HostAssumption DEF SimInit
<1> QED
  BY <1>1, <1>2 DEF SimInv, Shape, Phases, InCall, Hosted, StepsAreCounted, Place, Recorded

LEMMA NextKeeps == SimInv /\ [Next]_vars => SimInv'
<1> SUFFICES ASSUME SimInv, [Next]_vars PROVE SimInv'
  OBVIOUS
<1>1. CASE UNCHANGED vars
  BY <1>1, FrozenKeeps DEF vars, modelVars, appVars, dpiVars, archVars
<1>2. CASE Next
  BY <1>2, AppKeeps, DpiKeeps, MicroStepKeeps DEF Next
<1> QED
  BY <1>1, <1>2

LEMMA AlwaysSimInv == Spec => []SimInv
  BY InitHolds, NextKeeps, PTL DEF Spec
-----------------------------------------------------------------------------
(* Whatever calls of step failed in between, the instructions retired are  *)
(* those status reports (Model::step, model_step): for every program and   *)
(* memory, under sim and under a Verilog simulation.                       *)
THEOREM StepsCounted == Spec => []StepsAreCounted
  BY AlwaysSimInv, PTL DEF SimInv

(* A step that throws (Core::step, Model::step) leaves registers, pc and   *)
(* memory where the last instruction retired left them, unless the trace   *)
(* failed between the two halves of a jalr.                                *)
THEOREM FailedStepsKeepPlace == Spec => []FailedStepKeepsPlace
<1>1. SimInv => FailedStepKeepsPlace
  BY DEF SimInv, Place, FailedStepKeepsPlace, Linked
<1> QED
  BY <1>1, AlwaysSimInv, PTL
-----------------------------------------------------------------------------
(***************************************************************************)
(* The trace: a write is recorded before it is made.                       *)
(***************************************************************************)
LEMMA CallStep ==
    ASSUME SimInv, Next, InCall, proc' = "running"
    PROVE  \/ UNCHANGED <<regs, mem>>
           \/ SetReg
           \/ StoreByte
<1>1. CASE host = "app" /\ AppStep
  <2>1. at \in {"step", "simple_step"}
    BY <1>1 DEF SimInv, Hosted
  <2> QED
    BY <1>1, <2>1 DEF AppStep, Start, SimpleLoad, SimpleStep, SimpleDone, ReadLine, ShowCmd, Quit,
       LoadCmd, Tracing, TouchPc, StepCmd, StepCmdDone, Disas, Interrupt, Eval, Exit
<1>2. CASE host = "dpi" /\ DpiStep
  <2>1. StepThrew
    BY <1>2, SMTT(60) DEF DpiStep, DpiInit, DumpState, SetMem, GetMem, GetReg, SetRegCall, GetPc, SetPcCall,
       StepBegin, StepEnd, Called, Idle
  <2> QED
    BY <2>1 DEF StepThrew, archVars
<1>3. CASE MicroStep
  BY <1>3 DEF MicroStep, Fetch, Invalid, Exec, LoadRead, JalrTarget, StoreBegin, StoreAborts,
     SetPc, Return, Stay, archVars
<1> QED
  BY <1>1, <1>2, <1>3 DEF Next

LEMMA TracedSetReg ==
    ASSUME SimInv, SetReg, trace.on
    PROVE  /\ mem' = mem
           /\ \A r \in RegId : regs'[r] # regs[r] => rec' = <<"reg", r, regs'[r]>>
<1>1. Has(regs, RegId) /\ Has(trace, TraceFields) /\ mem' = mem
  BY DEF SimInv, Shape, SetReg
<1>2. CASE UNCHANGED regs
  BY <1>1, <1>2
<1>3. CASE /\ Traced(RegisterRecord(job.ins.rd, job.value))
           /\ regs' = IF job.ins.rd = 0 THEN regs ELSE [regs EXCEPT ![job.ins.rd] = job.value]
  <2>1. rec' = <<"reg", job.ins.rd, job.value>>
    BY <1>1, <1>3, TracedFacts DEF RegisterRecord
  <2>2. \A r \in RegId : regs'[r] # regs[r] => r = job.ins.rd /\ regs'[r] = job.value
    BY <1>1, <1>3 DEF Has
  <2> QED
    BY <1>1, <2>1, <2>2
<1> QED
  BY <1>2, <1>3 DEF SetReg

LEMMA TracedStoreByte ==
    ASSUME SimInv, StoreByte, trace.on
    PROVE  UNCHANGED regs /\ rec' = <<"mem", job.addr, job.value>>
  BY DEF SimInv, Recorded, MemoryRecord, StoreByte, In

(* While the core is traced, a step changes no register and no byte of     *)
(* memory that the last record does not name with its value (set_reg and   *)
(* write_mem of core.h write the trace first), whatever throws in between. *)
THEOREM TraceShowsWrites == Spec => NothingUntraced
<1> DEFINE Shown == InCall /\ trace.on /\ proc' = "running" =>
                      /\ \A r \in RegId : regs'[r] # regs[r] => rec' = <<"reg", r, regs'[r]>>
                      /\ mem' # mem => rec' = <<"mem", job.addr, job.value>>
<1>1. ASSUME SimInv, [Next]_vars PROVE [Shown]_vars
  <2>1. CASE UNCHANGED vars
    BY <2>1
  <2>2. CASE Next
    <3> SUFFICES ASSUME InCall, trace.on, proc' = "running"
                 PROVE  /\ \A r \in RegId : regs'[r] # regs[r] => rec' = <<"reg", r, regs'[r]>>
                        /\ mem' # mem => rec' = <<"mem", job.addr, job.value>>
      OBVIOUS
    <3>1. UNCHANGED <<regs, mem>> \/ SetReg \/ StoreByte
      BY <1>1, <2>2, CallStep
    <3>2. CASE UNCHANGED <<regs, mem>>
      BY <3>2
    <3>3. CASE SetReg
      BY <1>1, <3>3, TracedSetReg
    <3>4. CASE StoreByte
      BY <1>1, <3>4, TracedStoreByte
    <3> QED
      BY <3>1, <3>2, <3>3, <3>4
  <2> QED
    BY <1>1, <2>1, <2>2
<1>2. SimInv /\ [Next]_vars => [Shown]_vars
  BY <1>1
<1> QED
  BY <1>2, AlwaysSimInv, PTL DEF Spec, NothingUntraced
-----------------------------------------------------------------------------
(***************************************************************************)
(* A DPI call that fails: memory grows or stays, and keeps what it held.   *)
(***************************************************************************)
Bounded(m) == \E n \in Nat : DOMAIN m = 0 .. n - 1
MemInv == host = "dpi" => Bounded(mem)

LEMMA WholePages ==
    ASSUME NEW size \in Nat
    PROVE  /\ Pages(size) * PageBytes \in Nat
           /\ size < WordSpan => Pages(size) * PageBytes >= size
           /\ size % WordSpan = 0 => Pages(size) * PageBytes = 0
<1> DEFINE s == size % WordSpan
<1>1. s \in Nat /\ (size < WordSpan => s = size)
  <2> HIDE DEF WordSpan
  <2> QED
    BY Widths
<1>2. Pages(size) = (s + PageBytes - 1) \div PageBytes
  BY DEF Pages
<1> HIDE DEF s
<1>3. PageBytes \in Nat \ {0}
  BY PageAssumption
<1>4. ((s + PageBytes - 1) \div PageBytes) * PageBytes \in Nat
  BY <1>1, <1>3
<1>5. ((s + PageBytes - 1) \div PageBytes) * PageBytes >= s
  BY <1>1, <1>3
<1>6. s = 0 => (s + PageBytes - 1) \div PageBytes = 0
  BY <1>1, <1>3
<1> QED
  BY <1>1, <1>2, <1>3, <1>4, <1>5, <1>6 DEF s

LEMMA SizeOf ==
    ASSUME NEW m, NEW n \in Nat, DOMAIN m = 0 .. n - 1
    PROVE  Size(m) = n
  BY FS_Interval DEF Size

LEMMA ResizedBounded ==
    ASSUME NEW m, NEW size \in Nat
    PROVE  Bounded(Resized(m, size))
<1>1. DOMAIN Resized(m, size) = 0 .. Pages(size) * PageBytes - 1
  BY DEF Resized
<1> QED
  BY <1>1, WholePages DEF Bounded

(* What Model::write_mem makes of the memory before it writes.             *)
LEMMA GrownKeeps ==
    ASSUME Bounded(mem), NEW addr \in Word
    PROVE  /\ Bounded(Grown(addr))
           /\ \/ \A a \in DOMAIN mem : a \in DOMAIN Grown(addr) /\ Grown(addr)[a] = mem[a]
              \/ DOMAIN Grown(addr) = {}
<1>1. CASE Grown(addr) = mem
  BY <1>1
<1>2. CASE Grown(addr) # mem
  <2> DEFINE size == ToWord(addr + 1)
             top  == Pages(size) * PageBytes
  <2>1. addr >= Size(mem) /\ Grown(addr) = Resized(mem, size)
    BY <1>2 DEF Grown
  <2>2. PICK n \in Nat : DOMAIN mem = 0 .. n - 1
    BY DEF Bounded
  <2>3. n <= addr
    BY <2>1, <2>2, SizeOf
  <2>4. addr \in Nat /\ size \in Nat /\ size < WordSpan /\ (size = addr + 1 \/ size = 0)
    <3> DEFINE W == WordSpan
    <3>1. W \in Nat \ {0} /\ addr \in 0 .. W - 1 /\ size = (addr + 1) % W
      BY Widths DEF Word, ToWord
    <3> HIDE DEF W, size
    <3>2. addr \in Nat /\ size \in Nat /\ size < W
      BY <3>1
    <3>3. size = addr + 1 \/ size = 0
      <4>1. CASE addr + 1 < W
        BY <3>1, <4>1
      <4>2. CASE addr + 1 = W
        BY <3>1, <4>2
      <4> QED
        BY <3>1, <4>1, <4>2
    <3> QED
      BY <3>2, <3>3 DEF W
  <2>5. Resized(mem, size) = [a \in 0 .. top - 1 |-> IF a \in DOMAIN mem THEN mem[a] ELSE Fresh]
    BY DEF Resized
  <2> HIDE DEF size
  <2>6. top \in Nat /\ top >= size /\ (size = 0 => top = 0)
    <3>1. size = 0 => size % WordSpan = 0
      BY Widths
    <3> QED
      BY <2>4, <3>1, WholePages
  <2> HIDE DEF top
  <2>7. CASE size = 0
    BY <2>1, <2>4, <2>5, <2>6, <2>7, ResizedBounded
  <2>8. CASE size = addr + 1
    <3>1. \A a \in 0 .. n - 1 : a \in 0 .. top - 1
      BY <2>2, <2>3, <2>4, <2>6, <2>8
    <3> QED
      BY <2>1, <2>2, <2>4, <2>5, <3>1, ResizedBounded
  <2> QED
    BY <2>4, <2>7, <2>8
<1> QED
  BY <1>1, <1>2

LEMMA DpiInitMem ==
    ASSUME Bounded(mem), DpiInit
    PROVE  Bounded(mem')
<1>1. PICK p \in DpiParams : \E r \in Reset(trace, p.toFile) :
          \/ mem' = mem
          \/ mem' = IF Size(mem) < p.mem_size THEN Resized(mem, p.mem_size) ELSE mem
  BY DEF DpiInit, SetConfig
<1>2. p.mem_size \in Nat
  BY DpiAssumption
<1>3. Bounded(Resized(mem, p.mem_size))
  BY <1>2, ResizedBounded
<1>4. mem' = mem \/ mem' = Resized(mem, p.mem_size)
  BY <1>1
<1> QED
  BY <1>3, <1>4

(* The outcomes of set_mem: nothing; the memory grown; or a word written.  *)
LEMMA SetMemOutcomes ==
    ASSUME SetMem
    PROVE  /\ UNCHANGED <<regs, pc>>
           /\ \E addr \in Word : \/ mem' = mem
                                 \/ mem' = Grown(addr)
                                 \/ rc' = "success" /\ \E v : mem' = Put(Grown(addr), addr, v)
<1>1. PICK w \in DpiWrites :
          /\ UNCHANGED <<regs, pc>>
          /\ \/ mem' = mem
             \/ mem' = Grown(w[1])
             \/ rc' = "success" /\ mem' = Put(Grown(w[1]), w[1], w[2])
  BY DEF SetMem, AnnounceFails, Keep, archVars, Ok
<1>2. w[1] \in Word
  BY DpiAssumption
<1> QED
  BY <1>1, <1>2

LEMMA PutBounded ==
    ASSUME NEW m, Bounded(m), NEW addr, NEW v
    PROVE  Bounded(Put(m, addr, v))
<1>1. DOMAIN Put(m, addr, v) = DOMAIN m
  BY DEF Put
<1> QED
  BY <1>1 DEF Bounded

LEMMA StoreByteMem ==
    ASSUME Bounded(mem), StoreByte
    PROVE  Bounded(mem')
<1>1. PICK a, b : mem' = [mem EXCEPT ![a] = b] \/ mem' = mem
  BY DEF StoreByte
<1>2. DOMAIN mem' = DOMAIN mem
  BY <1>1
<1> QED
  BY <1>2 DEF Bounded

LEMMA MemInvKeeps == MemInv /\ [Next]_vars => MemInv'
<1> SUFFICES ASSUME Bounded(mem), [Next]_vars, host = "dpi" PROVE Bounded(mem')
  BY DEF MemInv, Bounded, Next, vars
<1>1. CASE UNCHANGED vars
  BY <1>1, SMTT(60) DEF vars, modelVars
<1>2. CASE MicroStep
  <2>1. CASE StoreByte
    BY <2>1, StoreByteMem
  <2>2. CASE UNCHANGED mem
    BY <2>2
  <2> QED
    BY <1>2, <2>1, <2>2 DEF MicroStep, Fetch, Invalid, Exec, LoadRead, SetReg, JalrTarget,
       StoreBegin, StoreAborts, SetPc, Return, Stay, archVars
<1>3. CASE DpiStep
  <2>1. CASE DpiInit
    BY <2>1, DpiInitMem
  <2>2. CASE SetMem
    <3>1. PICK addr \in Word : \/ mem' = mem \/ mem' = Grown(addr)
                               \/ \E v : mem' = Put(Grown(addr), addr, v)
      BY <2>2, SetMemOutcomes
    <3>2. Bounded(Grown(addr))
      BY GrownKeeps
    <3> QED
      BY <3>1, <3>2, PutBounded
  <2>3. CASE UNCHANGED mem
    BY <2>3
  <2> QED
    BY <1>3, <2>1, <2>2, <2>3 DEF DpiStep, DumpState, GetMem, GetReg, SetRegCall, GetPc, SetPcCall,
       StepBegin, StepEnd, StepThrew, AnnounceFails, BadReg, Keep, archVars, modelVars
<1> QED
  BY <1>1, <1>2, <1>3 DEF Next

LEMMA AlwaysMemInv == Spec => []MemInv
<1>1. SimInit => MemInv
  <2>1. DOMAIN [a \in {} |-> 0] = 0 .. 0 - 1
    OBVIOUS
  <2> QED
    BY <2>1 DEF SimInit, Init, MemInv, Bounded
<1> QED
  BY <1>1, MemInvKeeps, PTL DEF Spec

(* What changes nothing of the core, whatever it answers.                  *)
LEMMA FailedAccess ==
    ASSUME SimInv, MemInv, Next, host = "dpi", Fails("access")
    PROVE  /\ regs' = regs /\ pc' = pc
           /\ \/ \A a \in DOMAIN mem : a \in DOMAIN mem' /\ mem'[a] = mem[a]
              \/ DOMAIN mem' = {}
<1>1. rc' = "fail" /\ fn' = "access" /\ (calls' # calls \/ rc = None)
  BY DEF Fails
<1>2. CASE UNCHANGED <<regs, pc, mem>>
  BY <1>2
<1>3. CASE MicroStep /\ UNCHANGED dpiVars
  <2>1. InCall /\ fn = "access"
    BY <1>1, <1>3 DEF dpiVars, InCall, In, MicroStep, Fetch, Invalid, Exec, LoadRead, SetReg,
       JalrTarget, StoreBegin, StoreByte, StoreAborts, SetPc, Return
  <2>2. fn = "step"
    BY <2>1, SMTT(60) DEF SimInv, Hosted
  <2> QED
    BY <2>1, <2>2
<1>4. CASE SetMem
  <2>1. UNCHANGED <<regs, pc>>
    BY <1>4, SetMemOutcomes
  <2>2. PICK addr \in Word : mem' = mem \/ mem' = Grown(addr)
    BY <1>1, <1>4, SetMemOutcomes
  <2>3. \/ \A a \in DOMAIN mem : a \in DOMAIN Grown(addr) /\ Grown(addr)[a] = mem[a]
        \/ DOMAIN Grown(addr) = {}
    BY GrownKeeps DEF MemInv
  <2> QED
    BY <2>1, <2>2, <2>3
<1>5. CASE DpiStep /\ ~ SetMem
  <2>1. DumpState \/ GetMem \/ GetReg \/ SetRegCall \/ GetPc \/ SetPcCall \/ StepEnd \/ StepThrew
    BY <1>1, <1>5 DEF DpiStep, DpiInit, StepBegin, Called
  <2> QED
    BY <1>1, <1>2, <2>1 DEF DumpState, GetMem, GetReg, SetRegCall, GetPc, SetPcCall, StepEnd,
       StepThrew, AnnounceFails, BadReg, Ok, Keep, archVars, modelVars
<1> QED
  BY <1>3, <1>4, <1>5 DEF Next

LEMMA FailedStep ==
    ASSUME SimInv, Next, host = "dpi", InCall, Fails("step")
    PROVE  Arch' = before
<1>1. rc' = "fail" /\ rc = None
  BY DEF Fails, SimInv, Hosted
<1>2. rc' # rc
  BY <1>1, DpiAssumption
<1>3. DpiStep
  BY <1>2 DEF Next, dpiVars
<1>4. StepThrew
  BY <1>3 DEF DpiStep, DpiInit, DumpState, SetMem, GetMem, GetReg, SetRegCall, GetPc, SetPcCall,
     StepBegin, StepEnd, Called, Idle
<1>5. job.phase = "thrown" /\ Handler(trace) /\ UNCHANGED <<archVars, endian>>
  BY <1>4 DEF StepThrew, In
<1>6. ~ (Throws(trace) /\ trace.bad)
  BY <1>1, <1>5, DpiAssumption DEF Handler
<1>7. Arch = before
  BY <1>5, <1>6 DEF SimInv, Place
<1> QED
  BY <1>5, <1>7 DEF Arch, archVars

(* A DPI call that answers RC_FAIL (the handlers of core_model_dpi.cpp) has *)
(* torn nothing: step leaves the core at the last instruction retired, an  *)
(* access leaves registers and pc and every byte there was, for every      *)
(* memory size, address and program, whether the trace failed or the core. *)
THEOREM FailedCallsKeepState == Spec => FailedCallKeepsState
<1> DEFINE Kept == host = "dpi" =>
         /\ InCall /\ Fails("step") => Arch' = before
         /\ Fails("access") =>
               /\ regs' = regs /\ pc' = pc
               /\ \/ \A a \in DOMAIN mem : a \in DOMAIN mem' /\ mem'[a] = mem[a]
                  \/ DOMAIN mem' = {}
<1>1. SimInv /\ MemInv /\ [Next]_vars => [Kept]_vars
  BY FailedStep, FailedAccess
<1> QED
  BY <1>1, AlwaysSimInv, AlwaysMemInv, PTL DEF Spec, FailedCallKeepsState
-----------------------------------------------------------------------------
(***************************************************************************)
(* Types: every value is a word, a byte or a record of the code's, and     *)
(* memory is whole pages below the end of addr_t.                          *)
(***************************************************************************)
TraceSet == [on : BOOLEAN, toFile : BOOLEAN, open : BOOLEAN, masked : BOOLEAN, bad : BOOLEAN]

MemTyped(m) == \E n \in Nat : m \in [0 .. n - 1 -> Byte] /\ n % PageBytes = 0 /\ n <= WordSpan

Working == {"load", "setreg", "jalr", "store", "byte", "setpc"}
JobTyped(j) ==
    /\ j.value \in Word /\ j.addr \in Word /\ j.next \in Word /\ IsDecoded(j.ins)
    /\ j.phase \in Working => Valid(j.ins)
    /\ j.phase = "load" => j.ins.section = "LOAD"
    /\ j.phase \in {"store", "byte"} => j.ins.section = "STORE"
    /\ j.phase = "byte" => j.k \in 0 .. StoreSize[j.ins.name] - 1

RegsTyped == regs \in [RegId -> Word] /\ regs[0] = 0 /\ pc \in Word
OutTyped  == /\ proc \in {"running", "exited", "aborted", "escaped", "hung"}
             /\ rc \in {"success", "fail", None}
LineTyped == token \in Lines \cup {None} /\ last_valid \in Lines \cup {None}

TypeInv == MemTyped(mem) /\ RegsTyped /\ trace \in TraceSet /\ JobTyped(job) /\ OutTyped /\ LineTyped

LEMMA ZeroTypes == 0 \in Byte /\ 0 \in Word /\ 0 \in RegId /\ 0 \in Immediate
<1> DEFINE h == 2^Top
           W == WordSpan
<1>1. W \in Nat \ {0} /\ Span(1) \in Nat \ {0} /\ h \in Nat \ {0} /\ W = 2 * h
  BY Widths, Sizes
<1>5. /\ 0 \in Word <=> 0 \in 0 .. W - 1
      /\ 0 \in Immediate <=> 0 \in - (W \div 2) .. (W \div 2) - 1
  BY DEF Word, Immediate
<1> HIDE DEF h, W
<1>6. W \div 2 = h
  BY <1>1
<1>2. 0 \in Word /\ 0 \in Immediate
  BY <1>1, <1>5, <1>6
<1>3. 0 \in Byte
  BY <1>1 DEF Byte
<1>4. 0 \in RegId
  BY WidthAssumption DEF RegId
<1> QED
  BY <1>2, <1>3, <1>4

LEMMA MemSize ==
    ASSUME NEW m, MemTyped(m)
    PROVE  /\ Size(m) \in Nat /\ m \in [0 .. Size(m) - 1 -> Byte] /\ DOMAIN m = 0 .. Size(m) - 1
           /\ Size(m) % PageBytes = 0 /\ Size(m) <= WordSpan
<1>1. PICK n \in Nat : m \in [0 .. n - 1 -> Byte] /\ n % PageBytes = 0 /\ n <= WordSpan
  BY DEF MemTyped
<1>2. DOMAIN m = 0 .. n - 1
  BY <1>1
<1>3. Size(m) = n
  BY <1>2, SizeOf
<1> QED
  BY <1>1, <1>2, <1>3

LEMMA PagesFit ==
    ASSUME NEW size \in Nat
    PROVE  /\ Pages(size) * PageBytes \in Nat
           /\ (Pages(size) * PageBytes) % PageBytes = 0
           /\ Pages(size) * PageBytes <= WordSpan
<1> DEFINE W == WordSpan
           B == PageBytes
           s == size % W
           p == Pages(size)
           c == W \div B
<1>1. W \in Nat \ {0} /\ B \in Nat \ {0} /\ W % B = 0
  BY Widths, PageAssumption
<1>2. p = (s + B - 1) \div B
  BY DEF Pages
<1> HIDE DEF W, B, p
<1>3. s \in 0 .. W - 1 /\ s \in Nat
  BY <1>1
<1> HIDE DEF s
<1>4. c \in Int /\ W = B * c
  <2>1. c \in Int /\ W = B * c + (W % B)
    BY <1>1, DivMod
  <2> QED
    BY <1>1, <2>1
<1>5. c \in Nat
  <2>1. CASE c < 0
    <3>1. PICK d \in Nat : c = - 1 - d
      BY <1>4, <2>1, - 1 - c \in Nat
    <3>2. B * c = - B - B * d /\ B * d \in Nat
      BY <1>1, <3>1
    <3> QED
      BY <1>1, <1>4, <3>2
  <2> QED
    BY <1>4, <2>1
<1> HIDE DEF c
<1>6. p \in 0 .. c
  <2>1. c + 1 \in Nat \ {0} /\ B * (c + 1) = B * c + B /\ s + B - 1 \in Int
    BY <1>1, <1>3, <1>5
  <2>2. 0 <= s + B - 1 /\ s + B - 1 < B * (c + 1)
    BY <1>1, <1>3, <1>4, <2>1
  <2>3. (s + B - 1) \div B \in 0 .. (c + 1) - 1
    BY <1>1, <2>1, <2>2, QuotientRange
  <2> QED
    BY <1>2, <1>5, <2>3
<1>7. p * B \in Nat /\ p * B <= W
  <2>1. PICK d \in Nat : c = p + d
    BY <1>5, <1>6, c - p \in Nat
  <2>2. B * c = p * B + B * d /\ B * d \in Nat /\ p * B \in Nat
    BY <1>1, <1>6, <2>1
  <2> QED
    BY <1>4, <2>2
<1>8. (p * B) % B = 0
  <2>1. p * B = B * p + 0 /\ 0 \in 0 .. B - 1 /\ p \in Int /\ p * B \in Int
    BY <1>1, <1>6, <1>7
  <2> QED
    BY <1>1, <2>1, DivIs
<1> QED
  BY <1>7, <1>8 DEF p, B, W

LEMMA ResizedTyped ==
    ASSUME NEW m, MemTyped(m), NEW size \in Nat
    PROVE  MemTyped(Resized(m, size))
<1> DEFINE n == Pages(size) * PageBytes
<1>1. n \in Nat /\ n % PageBytes = 0 /\ n <= WordSpan
  BY PagesFit
<1>2. Resized(m, size) = [a \in 0 .. n - 1 |-> IF a \in DOMAIN m THEN m[a] ELSE Fresh]
  BY DEF Resized
<1> HIDE DEF n
<1>3. \A a \in DOMAIN m : m[a] \in Byte
  BY MemSize
<1>4. Resized(m, size) \in [0 .. n - 1 -> Byte]
  BY <1>2, <1>3, ZeroTypes DEF Fresh
<1> QED
  BY <1>1, <1>4 DEF MemTyped

LEMMA EditTyped ==
    ASSUME NEW m, MemTyped(m), NEW w, DOMAIN w = DOMAIN m, w = [a \in DOMAIN m |-> w[a]],
           \A a \in DOMAIN m : w[a] \in Byte
    PROVE  MemTyped(w)
<1>1. PICK n \in Nat : m \in [0 .. n - 1 -> Byte] /\ n % PageBytes = 0 /\ n <= WordSpan
  BY DEF MemTyped
<1>2. w \in [0 .. n - 1 -> Byte]
  BY <1>1
<1> QED
  BY <1>1, <1>2 DEF MemTyped

LEMMA TraceTypes ==
    ASSUME NEW t \in TraceSet
    PROVE  /\ Broken(t) \in TraceSet /\ Written(t) \in TraceSet
           /\ \A b \in BOOLEAN : [t EXCEPT !.on = b] \in TraceSet
           /\ [t EXCEPT !.open = FALSE, !.bad = TRUE] \in TraceSet
           /\ [t EXCEPT !.toFile = TRUE, !.open = TRUE, !.bad = FALSE, !.masked = TRUE] \in TraceSet
           /\ [t EXCEPT !.toFile = TRUE, !.open = FALSE, !.bad = TRUE] \in TraceSet
           /\ [t EXCEPT !.toFile = FALSE, !.open = FALSE] \in TraceSet
<1>1. Broken(t) \in TraceSet
  BY DEF TraceSet, Broken
<1> QED
  BY <1>1 DEF TraceSet, Written

LEMMA TracedTypes ==
    ASSUME trace \in TraceSet
    PROVE  /\ TraceFails => trace' \in TraceSet
           /\ \A r : Traced(r) => trace' \in TraceSet
  BY TraceTypes DEF TraceFails, Traced

(* The value of a unit that has passed the checks of memory_t.             *)
LEMMA ReadTyped ==
    ASSUME MemTyped(mem), NEW addr \in Word, NEW n \in {1, 2, 4}, ~ Asserts(mem, addr, n),
           NEW v \in ReadValues(addr, n)
    PROVE  v \in 0 .. Span(n) - 1
<1>1. PICK stray \in IF Overruns(mem, addr, n) THEN StrayBytes ELSE {0} :
         v = Unit([k \in 0 .. n - 1 |-> LET a == (addr + k) % WordSpan
                                        IN IF a = Size(mem) THEN stray ELSE mem[a]], endian, n)
  BY DEF ReadValues
<1> DEFINE cell == [k \in 0 .. n - 1 |-> LET a == (addr + k) % WordSpan
                                         IN IF a = Size(mem) THEN stray ELSE mem[a]]
<1>2. /\ Size(mem) \in Nat /\ DOMAIN mem = 0 .. Size(mem) - 1
      /\ \A a \in DOMAIN mem : mem[a] \in Byte
  BY MemSize
<1>3. ASSUME NEW k \in 0 .. n - 1 PROVE cell[k] \in Byte
  <2> DEFINE a == (addr + k) % WordSpan
  <2>1. a \in Nat
    <3>1. WordSpan \in Nat \ {0} /\ addr \in Nat
      BY Widths, WordIs
    <3> HIDE DEF WordSpan
    <3> QED
      BY <3>1
  <2>2. a \in Places(addr, n)
    BY DEF Places
  <2>3. cell[k] = IF a = Size(mem) THEN stray ELSE mem[a]
    OBVIOUS
  <2> HIDE DEF a, cell
  <2>4. CASE a = Size(mem)
    <3>1. Overruns(mem, addr, n)
      BY <2>2, <2>4 DEF Overruns
    <3> QED
      BY <2>3, <2>4, <3>1, StrayAssumption
  <2>5. CASE a # Size(mem)
    <3>1. ~ (a > Size(mem))
      BY <2>2 DEF Asserts
    <3> QED
      BY <1>2, <2>1, <2>3, <2>5, <3>1
  <2> QED
    BY <2>4, <2>5
<1>4. v = Unit(cell, endian, n)
  BY <1>1
<1> HIDE DEF cell
<1>5. \A i \in 0 .. n - 1 : cell[Pos(endian, n, i)] \in Byte
  BY <1>3 DEF Pos
<1> QED
  BY <1>4, <1>5, UnitIs
-----------------------------------------------------------------------------
(***************************************************************************)
(* What Exec computes, section by section.                                 *)
(***************************************************************************)
LEMMA ModWord == ASSUME NEW x \in Int PROVE ToWord(x) \in Word /\ x % WordSpan = ToWord(x)
  BY ToWordIs DEF ToWord

LEMMA WordNat == ASSUME NEW x \in Word PROVE x \in Int
  BY WordIs

LEMMA Operands ==
    ASSUME RegsTyped, JobTyped(job)
    PROVE  /\ regs[job.ins.rs1] \in Word /\ regs[job.ins.rs2] \in Word
           /\ regs[job.ins.rs1] \in Int /\ job.ins.imm \in Int /\ pc \in Int /\ pc \in Word
           /\ job.ins.imm \in Immediate /\ job.ins.rd \in RegId
<1>1. /\ regs[job.ins.rs1] \in Word /\ regs[job.ins.rs2] \in Word /\ pc \in Word
      /\ job.ins.imm \in Immediate /\ job.ins.rd \in RegId
  BY DEF RegsTyped, JobTyped, IsDecoded
<1> QED
  BY <1>1, WordNat, SignedImmediate

LEMMA StoreSizes ==
    ASSUME NEW name \in Sections.STORE
    PROVE  StoreSize[name] \in {1, 2, 4} /\ StoreSize[name] = IsaUnit(name)
<1>1. name \in {"sb", "sh", "sw"}
  BY DEF Sections
<1> QED
  BY <1>1 DEF StoreSize, IsaUnit

LEMMA LoadUnits ==
    ASSUME NEW name \in Sections.LOAD
    PROVE  LoadSize[name] \in {1, 2, 4} /\ LoadSize[name] = IsaUnit(name)
<1>1. name \in {"lb", "lh", "lw", "lbu", "lhu"}
  BY DEF Sections
<1> QED
  BY <1>1 DEF LoadSize, IsaUnit

LEMMA ReducedWord ==
    ASSUME NEW x \in Word, NEW n \in {1, 2, 4}
    PROVE  x % Span(n) \in Word
<1> DEFINE s == Span(n)
           W == WordSpan
<1>1. s \in Nat \ {0} /\ s <= W /\ W \in Nat \ {0} /\ x \in Int
  BY Sizes, Widths, WordIs
<1>2. x % Span(n) \in Word <=> x % s \in 0 .. W - 1
  BY DEF Word
<1> HIDE DEF s, W
<1>3. x % s \in 0 .. s - 1
  BY <1>1
<1> QED
  BY <1>1, <1>2, <1>3

LEMMA JumpTarget == ASSUME NEW a \in Int, NEW imm \in Int PROVE JALR(a, imm) \in Word
<1> DEFINE w == ToWord(a + imm)
           W == WordSpan
<1>1. w \in 0 .. W - 1 /\ W \in Nat \ {0}
  BY ModWord, Widths, a + imm \in Int DEF Word
<1>2. JALR(a, imm) = w - (w % 2) /\ Word = 0 .. W - 1
  BY DEF JALR, Word
<1> HIDE DEF w, W
<1> QED
  BY <1>1, <1>2

LEMMA AluSections ==
    /\ Sections.R = Alus /\ Sections.I_R \subseteq Alus
  BY DEF Sections, Alus

(* What an instruction computes from its operands alone.                   *)
LEMMA ValueFromRegisters ==
    ASSUME RegsTyped, JobTyped(job), Valid(job.ins), job.ins.section \in {"R", "I_R", "LUI", "AUIPC"},
           NEW offset
    PROVE  /\ IsaValue(job.ins, Arch) \in Word
           /\ Result(job.ins, offset) = [phase |-> "setreg", value |-> IsaValue(job.ins, Arch)]
<1> DEFINE i == job.ins
           a == regs[i.rs1]
           b == regs[i.rs2]
<1>1. a \in Word /\ b \in Word /\ i.imm \in Immediate /\ i.imm \in Int /\ pc \in Int
  BY Operands
<1>2. Arch.regs = regs /\ Arch.pc = pc
  BY DEF Arch
<1>3. i.section \in {"R", "I_R", "LUI", "AUIPC"} /\ i.name \in Sections[i.section]
  BY DEF Valid
<1>4. CASE i.section = "R"
  <2>1. /\ Result(i, offset) = [phase |-> "setreg", value |-> R(i.name, a, b)]
        /\ IsaValue(i, Arch) = IsaAlu(i.name, a, b)
    BY <1>2, <1>4 DEF Result, IsaValue
  <2>2. i.name \in Alus
    BY <1>3, <1>4, AluSections
  <2> HIDE DEF a, b, i
  <2>3. R(i.name, a, b) = IsaAlu(i.name, a, b) /\ R(i.name, a, b) \in Word
    BY <1>1, <2>2, AluFollowsIsa
  <2> QED
    BY <2>1, <2>3 DEF i
<1>5. CASE i.section = "I_R"
  <2>1. /\ Result(i, offset) = [phase |-> "setreg", value |-> I_R(i.name, a, i.imm)]
        /\ IsaValue(i, Arch) = IsaAlu(i.name, a, i.imm % WordSpan)
    BY <1>2, <1>5 DEF Result, IsaValue
  <2>2. i.name \in Alus
    BY <1>3, <1>5, AluSections
  <2> HIDE DEF a, b, i
  <2>3. /\ I_R(i.name, a, i.imm) = IsaAlu(i.name, a, i.imm % WordSpan)
        /\ I_R(i.name, a, i.imm) \in Word
    BY <1>1, <2>2, ImmediateFollowsIsa
  <2> QED
    BY <2>1, <2>3 DEF i
<1>6. CASE i.section = "LUI"
  <2>1. /\ Result(i, offset) = [phase |-> "setreg", value |-> ToWord(i.imm)]
        /\ IsaValue(i, Arch) = i.imm % WordSpan
    BY <1>2, <1>6 DEF Result, IsaValue, LUI
  <2>2. ToWord(i.imm) \in Word /\ i.imm % WordSpan = ToWord(i.imm)
    BY <1>1, ModWord
  <2> QED
    BY <2>1, <2>2
<1>7. CASE i.section = "AUIPC"
  <2>1. /\ Result(i, offset) = [phase |-> "setreg", value |-> ToWord(pc + i.imm)]
        /\ IsaValue(i, Arch) = (pc + i.imm) % WordSpan
    BY <1>2, <1>7 DEF Result, IsaValue, AUIPC
  <2>2. ToWord(pc + i.imm) \in Word /\ (pc + i.imm) % WordSpan = ToWord(pc + i.imm)
    BY <1>1, ModWord, pc + i.imm \in Int
  <2> QED
    BY <2>1, <2>2
<1> QED
  BY <1>3, <1>4, <1>5, <1>6, <1>7

LEMMA AddressOf ==
    ASSUME RegsTyped, JobTyped(job)
    PROVE  /\ ToWord(regs[job.ins.rs1] + job.ins.imm) \in Word
           /\ IsaAddress(job.ins, Arch) = ToWord(regs[job.ins.rs1] + job.ins.imm)
<1>1. regs[job.ins.rs1] + job.ins.imm \in Int
  BY Operands
<1> QED
  BY <1>1, ModWord DEF IsaAddress, Arch, ToWord

(* The fields Exec sets, by section.                                       *)
Computed(i, j) ==
    \/ /\ i.section \in {"R", "I_R", "LUI", "AUIPC"}
       /\ j.phase = "setreg" /\ j.value = IsaValue(i, Arch)
       /\ j.addr = job.addr /\ j.next = job.next
    \/ i.section = "JAL" /\ j.phase = "setreg" /\ j.value = pc /\ j.addr = job.addr /\ j.next \in Word
    \/ /\ i.section = "JALR"
       /\ j.phase = "setreg" /\ j.value = pc /\ j.addr = job.addr /\ j.next = job.next
    \/ i.section = "SB" /\ j.phase = "setpc" /\ j.next \in Word /\ j.value = job.value /\ j.addr = job.addr
    \/ /\ i.section = "LOAD"
       /\ j.phase = "load" /\ j.addr = IsaAddress(i, Arch) /\ j.value = job.value /\ j.next = job.next
    \/ /\ i.section = "STORE"
       /\ j.phase = "store" /\ j.addr = IsaAddress(i, Arch) /\ j.next = job.next
       /\ j.value = regs[i.rs2] % Span(StoreSize[i.name])

LEMMA ExecIs ==
    ASSUME RegsTyped, JobTyped(job), Has(job, CallFields), Valid(job.ins), NEW offset \in Int,
           NEW j, j = [f \in DOMAIN job |-> IF f \in DOMAIN Result(job.ins, offset)
                                            THEN Result(job.ins, offset)[f] ELSE job[f]]
    PROVE  /\ Has(j, CallFields) /\ j.ins = job.ins /\ Computed(job.ins, j)
           /\ JobTyped(j)
<1> DEFINE i == job.ins
           r == Result(i, offset)
<1>1. /\ DOMAIN job = CallFields /\ job.value \in Word /\ job.addr \in Word /\ job.next \in Word
      /\ IsDecoded(i)
  BY DEF Has, JobTyped
<1>2. i.section \in {"R", "I_R", "LUI", "AUIPC", "JAL", "JALR", "SB", "LOAD", "STORE"}
      /\ i.name \in Sections[i.section]
  BY DEF Valid, Sections, SYSTEM
<1>3. j = [f \in CallFields |-> IF f \in DOMAIN r THEN r[f] ELSE job[f]]
  BY <1>1
<1>4. pc \in Word /\ pc \in Int /\ pc + offset \in Int /\ ToWord(pc + offset) \in Word
  BY Operands, ModWord
<1>5. /\ IsaAddress(i, Arch) = ToWord(regs[i.rs1] + i.imm) /\ ToWord(regs[i.rs1] + i.imm) \in Word
  BY AddressOf
<1>6. CASE i.section \in {"R", "I_R", "LUI", "AUIPC"}
  <2>1. IsaValue(i, Arch) \in Word /\ r = [phase |-> "setreg", value |-> IsaValue(i, Arch)]
    BY <1>6, ValueFromRegisters
  <2> DEFINE v == IsaValue(i, Arch)
  <2>2. Computed(i, j) <=> j.phase = "setreg" /\ j.value = v /\ j.addr = job.addr /\ j.next = job.next
    BY <1>6 DEF Computed
  <2> HIDE DEF v, r, i
  <2>3. /\ Has(j, CallFields) /\ j.ins = job.ins /\ j.phase = "setreg" /\ j.value = v
        /\ j.addr = job.addr /\ j.next = job.next
    BY <1>3, <2>1 DEF Has, CallFields, v
  <2> QED
    BY <1>1, <2>1, <2>2, <2>3 DEF JobTyped, v, i
<1>7. CASE i.section = "JAL"
  <2>1. r = [phase |-> "setreg", value |-> pc, next |-> ToWord(pc + offset)]
    BY <1>7 DEF Result, Link, JAL
  <2> HIDE DEF r
  <2>2. /\ Has(j, CallFields) /\ j.ins = job.ins /\ j.phase = "setreg" /\ j.value = pc
        /\ j.addr = job.addr /\ j.next = ToWord(pc + offset)
    BY <1>3, <2>1 DEF Has, CallFields
  <2> QED
    BY <1>1, <1>4, <1>7, <2>2 DEF JobTyped, Computed
<1>8. CASE i.section = "JALR"
  <2>1. r = [phase |-> "setreg", value |-> pc]
    BY <1>8 DEF Result, Link
  <2> HIDE DEF r
  <2>2. /\ Has(j, CallFields) /\ j.ins = job.ins /\ j.phase = "setreg" /\ j.value = pc
        /\ j.addr = job.addr /\ j.next = job.next
    BY <1>3, <2>1 DEF Has, CallFields
  <2> QED
    BY <1>1, <1>4, <1>8, <2>2 DEF JobTyped, Computed
<1>9. CASE i.section = "SB"
  <2>1. PICK n \in Word : r = [phase |-> "setpc", next |-> n]
    BY <1>1, <1>4, <1>9 DEF Result
  <2> HIDE DEF r
  <2>2. /\ Has(j, CallFields) /\ j.ins = job.ins /\ j.phase = "setpc" /\ j.value = job.value
        /\ j.addr = job.addr /\ j.next = n
    BY <1>3, <2>1 DEF Has, CallFields
  <2> QED
    BY <1>1, <1>9, <2>2 DEF JobTyped, Computed
<1>10. CASE i.section = "LOAD"
  <2>1. r = [phase |-> "load", addr |-> ToWord(regs[i.rs1] + i.imm)]
    BY <1>10 DEF Result
  <2> HIDE DEF r
  <2>2. /\ Has(j, CallFields) /\ j.ins = job.ins /\ j.phase = "load" /\ j.value = job.value
        /\ j.addr = ToWord(regs[i.rs1] + i.imm) /\ j.next = job.next
    BY <1>3, <2>1 DEF Has, CallFields
  <2> QED
    BY <1>1, <1>5, <1>10, <2>2 DEF JobTyped, Computed
<1>11. CASE i.section = "STORE"
  <2> DEFINE v == regs[i.rs2] % Span(StoreSize[i.name])
  <2>1. r = [phase |-> "store", addr |-> ToWord(regs[i.rs1] + i.imm), value |-> v]
    BY <1>11 DEF Result
  <2>2. v \in Word
    <3>1. i.name \in Sections.STORE
      BY <1>2, <1>11
    <3> QED
      BY <3>1, StoreSizes, Operands, ReducedWord
  <2> HIDE DEF r, v
  <2>3. /\ Has(j, CallFields) /\ j.ins = job.ins /\ j.phase = "store" /\ j.value = v
        /\ j.addr = ToWord(regs[i.rs1] + i.imm) /\ j.next = job.next
    BY <1>3, <2>1 DEF Has, CallFields
  <2> QED
    BY <1>1, <1>5, <1>11, <2>2, <2>3 DEF JobTyped, Computed, v
<1> QED
  BY <1>2, <1>6, <1>7, <1>8, <1>9, <1>10, <1>11
-----------------------------------------------------------------------------
(***************************************************************************)
(* The micro-steps keep the types.                                         *)
(***************************************************************************)
LEMMA GotoTyped ==
    ASSUME JobTyped(job), Has(job, CallFields), NEW p, Goto(p),
           p \in {"thrown", "cycle"} \/ (p \in {"setpc", "jalr"} /\ job.phase \in Working)
    PROVE  /\ JobTyped(job') /\ job'.phase = p /\ job'.ins = job.ins /\ job'.value = job.value
           /\ job'.addr = job.addr /\ job'.next = job.next
<1>1. /\ job'.phase = p /\ job'.ins = job.ins /\ job'.value = job.value
      /\ job'.addr = job.addr /\ job'.next = job.next
  BY Moved DEF Goto
<1> QED
  BY <1>1 DEF JobTyped, Working

LEMMA PcNext == ASSUME NEW x \in Word PROVE ToWord(x + WORD_SIZE) \in Word /\ ToWord(x + WORD_SIZE) = (x + 4) % WordSpan
<1>1. x + 4 \in Int
  BY WordNat
<1> QED
  BY <1>1, ModWord DEF WORD_SIZE, ToWord

(* What a fetch that succeeds makes of the call.                           *)
Fetched(j) == \E w \in Word : j = [job EXCEPT !.phase = "exec", !.ins = Decode(w), !.next = IsaPc(Arch)]

LEMMA FetchIs ==
    ASSUME SimInv, MemTyped(mem), RegsTyped, trace \in TraceSet, Fetch
    PROVE  /\ trace' \in TraceSet /\ UNCHANGED <<mem, regs, pc, endian, before>>
           /\ \/ Goto("thrown") /\ UNCHANGED proc
              \/ UNCHANGED job /\ proc' = "aborted"
              \/ Fetched(job') /\ UNCHANGED proc
<1>1. UNCHANGED <<mem, regs, pc, endian, before>>
  BY DEF Fetch, Stay, archVars
<1>2. trace' \in TraceSet
  BY TracedTypes DEF Fetch
<1>3. CASE /\ ~ Asserts(mem, pc, WORD_SIZE)
           /\ \E word \in ReadValues(pc, WORD_SIZE) :
                 job' = [job EXCEPT !.phase = "exec", !.ins = Decode(word), !.next = ToWord(pc + WORD_SIZE)]
           /\ UNCHANGED proc
  <2>1. PICK word \in ReadValues(pc, WORD_SIZE) :
           job' = [job EXCEPT !.phase = "exec", !.ins = Decode(word), !.next = ToWord(pc + WORD_SIZE)]
    BY <1>3
  <2>2. pc \in Word /\ WORD_SIZE \in {1, 2, 4}
    BY DEF RegsTyped, WORD_SIZE
  <2>3. word \in Word
    <3>1. word \in 0 .. Span(WORD_SIZE) - 1
      BY <1>3, <2>1, <2>2, ReadTyped
    <3> QED
      BY <3>1 DEF Word, WordSpan
  <2>4. ToWord(pc + WORD_SIZE) = IsaPc(Arch)
    BY <2>2, PcNext DEF IsaPc, Arch
  <2> QED
    BY <1>1, <1>2, <1>3, <2>1, <2>3, <2>4 DEF Fetched
<1>4. \/ Throw \/ Abort
      \/ /\ ~ Asserts(mem, pc, WORD_SIZE)
         /\ \E word \in ReadValues(pc, WORD_SIZE) :
               job' = [job EXCEPT !.phase = "exec", !.ins = Decode(word), !.next = ToWord(pc + WORD_SIZE)]
         /\ UNCHANGED proc
  BY DEF Fetch
<1> QED
  BY <1>1, <1>2, <1>3, <1>4 DEF Throw, Abort

LEMMA FetchTypes ==
    ASSUME SimInv, TypeInv, Fetch
    PROVE  MemTyped(mem') /\ RegsTyped' /\ trace' \in TraceSet /\ JobTyped(job')
<1>1. Has(job, CallFields)
  BY DEF SimInv, Shape
<1>2. /\ trace' \in TraceSet /\ UNCHANGED <<mem, regs, pc, endian, before>>
      /\ Goto("thrown") \/ UNCHANGED job \/ Fetched(job')
  BY FetchIs DEF TypeInv
<1>3. JobTyped(job')
  <2>1. CASE Goto("thrown")
    BY <1>1, <2>1, GotoTyped DEF TypeInv
  <2>2. CASE UNCHANGED job
    BY <2>2 DEF TypeInv
  <2>3. CASE Fetched(job')
    <3>1. PICK w \in Word : job' = [job EXCEPT !.phase = "exec", !.ins = Decode(w), !.next = IsaPc(Arch)]
      BY <2>3 DEF Fetched
    <3>2. IsDecoded(Decode(w))
      BY DecodeAssumption
    <3>3. IsaPc(Arch) \in Word
      BY PcNext DEF TypeInv, RegsTyped, IsaPc, Arch
    <3>4. /\ job'.phase = "exec" /\ job'.ins = Decode(w) /\ job'.next = IsaPc(Arch)
          /\ job'.value = job.value /\ job'.addr = job.addr
      BY <1>1, <3>1 DEF Has, CallFields
    <3> QED
      BY <3>2, <3>3, <3>4 DEF TypeInv, JobTyped, Working
  <2> QED
    BY <1>2, <2>1, <2>2, <2>3
<1> QED
  BY <1>2, <1>3 DEF TypeInv, RegsTyped

LEMMA InvalidTypes ==
    ASSUME SimInv, TypeInv, Invalid
    PROVE  MemTyped(mem') /\ RegsTyped' /\ trace' \in TraceSet /\ JobTyped(job')
<1>1. Has(job, CallFields) /\ Goto("thrown") /\ UNCHANGED <<mem, regs, pc, trace>>
  BY DEF SimInv, Shape, Invalid, Throw, Stay, archVars
<1>2. JobTyped(job')
  BY <1>1, GotoTyped DEF TypeInv
<1> QED
  BY <1>1, <1>2 DEF TypeInv, RegsTyped

(* An instruction executed either throws or has computed what it is to.    *)
LEMMA ExecCases ==
    ASSUME SimInv, RegsTyped, JobTyped(job), trace \in TraceSet, Exec
    PROVE  /\ trace' \in TraceSet /\ UNCHANGED <<mem, regs, pc, endian, before, proc>>
           /\ Valid(job.ins) /\ job.phase = "exec"
           /\ \/ Goto("thrown")
              \/ Has(job', CallFields) /\ job'.ins = job.ins /\ Computed(job.ins, job') /\ JobTyped(job')
<1>1. /\ UNCHANGED <<mem, regs, pc, endian, before, proc>> /\ Valid(job.ins) /\ job.phase = "exec"
      /\ Has(job, CallFields)
  BY DEF Exec, Stay, archVars, In, SimInv, Shape
<1>2. trace' \in TraceSet
  BY TracedTypes DEF Exec
<1>3. CASE \E offset \in IF job.ins.section \in {"SB", "JAL"} THEN Offsets(job.ins) ELSE {0} :
              LET r == Result(job.ins, offset)
              IN job' = [f \in DOMAIN job |-> IF f \in DOMAIN r THEN r[f] ELSE job[f]]
  <2>1. PICK offset \in IF job.ins.section \in {"SB", "JAL"} THEN Offsets(job.ins) ELSE {0} :
           job' = [f \in DOMAIN job |-> IF f \in DOMAIN Result(job.ins, offset)
                                        THEN Result(job.ins, offset)[f] ELSE job[f]]
    BY <1>3
  <2>2. offset \in Int
    <3> DEFINE h == OffsetSpan[job.ins.section]
    <3>1. job.ins.imm \in Int
      BY Operands
    <3>2. CASE job.ins.section \in {"SB", "JAL"}
      <4>1. h \in Nat \ {0}
        BY <3>2, OffsetAssumption
      <4>2. offset = job.ins.imm \/ offset = job.ins.imm % h
        BY <2>1, <3>2 DEF Offsets
      <4> HIDE DEF h
      <4>3. job.ins.imm % h \in Int
        BY <3>1, <4>1
      <4> QED
        BY <3>1, <4>2, <4>3
    <3>3. CASE job.ins.section \notin {"SB", "JAL"}
      BY <2>1, <3>3
    <3> QED
      BY <3>2, <3>3
  <2>3. Has(job', CallFields) /\ job'.ins = job.ins /\ Computed(job.ins, job') /\ JobTyped(job')
    BY <1>1, <2>1, <2>2, ExecIs
  <2> QED
    BY <1>1, <1>2, <2>3
<1> QED
  BY <1>1, <1>2, <1>3 DEF Exec

LEMMA ExecTypes ==
    ASSUME SimInv, TypeInv, Exec
    PROVE  MemTyped(mem') /\ RegsTyped' /\ trace' \in TraceSet /\ JobTyped(job')
<1>1. Has(job, CallFields)
  BY DEF SimInv, Shape
<1>2. /\ trace' \in TraceSet /\ UNCHANGED <<mem, regs, pc>>
      /\ Goto("thrown") \/ JobTyped(job')
  BY ExecCases DEF TypeInv
<1>3. JobTyped(job')
  BY <1>1, <1>2, GotoTyped DEF TypeInv
<1> QED
  BY <1>2, <1>3 DEF TypeInv, RegsTyped
(* A load that reads a value has extended it to a word.                    *)
Loaded(j) == \E v \in ReadValues(job.addr, LoadSize[job.ins.name]) :
                j = [job EXCEPT !.phase = "setreg", !.value = Extend(job.ins.name, v)]

LEMMA LoadReadIs ==
    ASSUME SimInv, trace \in TraceSet, LoadRead
    PROVE  /\ trace' \in TraceSet /\ UNCHANGED <<mem, regs, pc, endian, before>> /\ job.phase = "load"
           /\ \/ Goto("thrown") /\ UNCHANGED proc
              \/ UNCHANGED job /\ proc' = "aborted"
              \/ ~ Asserts(mem, job.addr, LoadSize[job.ins.name]) /\ Loaded(job') /\ UNCHANGED proc
<1>1. UNCHANGED <<mem, regs, pc, endian, before>> /\ job.phase = "load"
  BY DEF LoadRead, Stay, archVars, In
<1>2. trace' \in TraceSet
  BY TracedTypes DEF LoadRead
<1>3. \/ Throw \/ Abort
      \/ ~ Asserts(mem, job.addr, LoadSize[job.ins.name]) /\ Loaded(job') /\ UNCHANGED proc
  BY DEF LoadRead, Loaded
<1> QED
  BY <1>1, <1>2, <1>3 DEF Throw, Abort

LEMMA LoadedFields ==
    ASSUME Has(job, CallFields), NEW v, NEW j, j = [job EXCEPT !.phase = "setreg", !.value = v]
    PROVE  /\ j.phase = "setreg" /\ j.value = v /\ j.ins = job.ins
           /\ j.addr = job.addr /\ j.next = job.next
  BY DEF Has, CallFields

LEMMA LoadIns ==
    ASSUME JobTyped(job), job.phase = "load"
    PROVE  /\ job.ins.section = "LOAD" /\ job.ins.name \in Sections.LOAD
           /\ LoadSize[job.ins.name] \in {1, 2, 4}
<1>1. job.ins.section = "LOAD" /\ Valid(job.ins)
  BY DEF JobTyped, Working
<1>2. job.ins.name \in Sections.LOAD
  BY <1>1 DEF Valid
<1> QED
  BY <1>1, <1>2, LoadSizes

LEMMA LoadTypes ==
    ASSUME SimInv, TypeInv, LoadRead
    PROVE  MemTyped(mem') /\ RegsTyped' /\ trace' \in TraceSet /\ JobTyped(job')
<1> DEFINE n == LoadSize[job.ins.name]
<1>1. Has(job, CallFields) /\ JobTyped(job) /\ MemTyped(mem)
  BY DEF SimInv, Shape, TypeInv
<1>2. /\ trace' \in TraceSet /\ UNCHANGED <<mem, regs, pc>> /\ job.phase = "load"
      /\ Goto("thrown") \/ UNCHANGED job \/ (~ Asserts(mem, job.addr, n) /\ Loaded(job'))
  BY LoadReadIs DEF TypeInv
<1>3. JobTyped(job')
  <2>1. CASE Goto("thrown")
    BY <1>1, <2>1, GotoTyped
  <2>2. CASE UNCHANGED job
    BY <1>1, <2>2
  <2>3. CASE ~ Asserts(mem, job.addr, n) /\ Loaded(job')
    <3>1. PICK v \in ReadValues(job.addr, n) :
             job' = [job EXCEPT !.phase = "setreg", !.value = Extend(job.ins.name, v)]
      BY <2>3 DEF Loaded
    <3>2. /\ job.ins.section = "LOAD" /\ job.ins.name \in Sections.LOAD /\ n \in {1, 2, 4}
          /\ job.addr \in Word
      BY <1>1, <1>2, LoadIns DEF JobTyped
    <3>3. v \in 0 .. Span(n) - 1
      <4> HIDE DEF n
      <4> QED
        BY <1>1, <2>3, <3>1, <3>2, ReadTyped
    <3>4. Extend(job.ins.name, v) \in Word
      BY <3>2, <3>3, ExtendType
    <3>5. /\ job'.phase = "setreg" /\ job'.value = Extend(job.ins.name, v) /\ job'.ins = job.ins
          /\ job'.addr = job.addr /\ job'.next = job.next
      BY <1>1, <3>1, LoadedFields
    <3> QED
      BY <1>1, <1>2, <3>4, <3>5 DEF JobTyped, Working
  <2> QED
    BY <1>2, <2>1, <2>2, <2>3
<1> QED
  BY <1>2, <1>3 DEF TypeInv, RegsTyped

(* The write of rd, or the trace that failed before it.                    *)
LEMMA SetRegIs ==
    ASSUME SimInv, RegsTyped, JobTyped(job), trace \in TraceSet, SetReg
    PROVE  /\ trace' \in TraceSet /\ UNCHANGED <<mem, pc, endian, before, proc>> /\ job.phase = "setreg"
           /\ \/ Goto("thrown") /\ UNCHANGED regs
              \/ /\ Goto(IF job.ins.section = "JALR" THEN "jalr" ELSE "setpc")
                 /\ regs' = IsaRegs(job.ins, Arch, job.value)
<1>1. UNCHANGED <<mem, pc, endian, before, proc>> /\ job.phase = "setreg" /\ Has(job, CallFields)
  BY DEF SetReg, In, SimInv, Shape
<1>2. trace' \in TraceSet
  BY TracedTypes DEF SetReg
<1>3. CASE regs' = IF job.ins.rd = 0 THEN regs ELSE [regs EXCEPT ![job.ins.rd] = job.value]
  <2>1. regs \in [RegId -> Word]
    BY DEF RegsTyped
  <2>2. regs' = [r \in RegId |-> IF r = job.ins.rd /\ r # 0 THEN job.value ELSE regs[r]]
    BY <1>3, <2>1
  <2> QED
    BY <2>2, <1>1, <1>2 DEF SetReg, IsaRegs, Arch
<1> QED
  BY <1>1, <1>2, <1>3 DEF SetReg

LEMMA SetRegTypes ==
    ASSUME SimInv, TypeInv, SetReg
    PROVE  MemTyped(mem') /\ RegsTyped' /\ trace' \in TraceSet /\ JobTyped(job')
<1>1. Has(job, CallFields) /\ JobTyped(job) /\ RegsTyped /\ trace \in TraceSet
  BY DEF SimInv, Shape, TypeInv
<1>2. /\ trace' \in TraceSet /\ UNCHANGED <<mem, pc>> /\ job.phase = "setreg"
      /\ \/ Goto("thrown") /\ UNCHANGED regs
         \/ /\ Goto(IF job.ins.section = "JALR" THEN "jalr" ELSE "setpc")
            /\ regs' = IsaRegs(job.ins, Arch, job.value)
  BY <1>1, SetRegIs
<1>3. JobTyped(job')
  BY <1>1, <1>2, GotoTyped DEF Working
<1>4. RegsTyped'
  <2>1. CASE UNCHANGED regs
    BY <1>1, <1>2, <2>1 DEF RegsTyped
  <2>2. CASE regs' = IsaRegs(job.ins, Arch, job.value)
    <3>1. regs' = [r \in RegId |-> IF r = job.ins.rd /\ r # 0 THEN job.value ELSE regs[r]]
      BY <2>2 DEF IsaRegs, Arch
    <3>2. job.value \in Word /\ regs \in [RegId -> Word] /\ regs[0] = 0 /\ pc \in Word
      BY <1>1 DEF JobTyped, RegsTyped
    <3> QED
      BY <1>2, <3>1, <3>2, ZeroTypes DEF RegsTyped
  <2> QED
    BY <1>2, <2>1, <2>2
<1> QED
  BY <1>2, <1>3, <1>4 DEF TypeInv

LEMMA JalrTypes ==
    ASSUME SimInv, TypeInv, JalrTarget
    PROVE  MemTyped(mem') /\ RegsTyped' /\ trace' \in TraceSet /\ JobTyped(job')
<1>1. /\ Has(job, CallFields) /\ JobTyped(job) /\ RegsTyped /\ trace \in TraceSet
      /\ job.phase = "jalr" /\ UNCHANGED <<mem, regs, pc>>
  BY DEF SimInv, Shape, TypeInv, JalrTarget, In, Stay, archVars
<1>2. trace' \in TraceSet
  BY <1>1, TracedTypes DEF JalrTarget
<1>3. JobTyped(job')
  <2>1. CASE Goto("thrown")
    BY <1>1, <2>1, GotoTyped
  <2>2. CASE job' = [job EXCEPT !.phase = "setpc", !.next = JALR(regs[job.ins.rs1], job.ins.imm)]
    <3> DEFINE t == JALR(regs[job.ins.rs1], job.ins.imm)
    <3>1. t \in Word
      BY <1>1, Operands, JumpTarget
    <3> HIDE DEF t
    <3>2. /\ job'.phase = "setpc" /\ job'.next = t /\ job'.ins = job.ins
          /\ job'.value = job.value /\ job'.addr = job.addr
      BY <1>1, <2>2 DEF Has, CallFields, t
    <3> QED
      BY <1>1, <3>1, <3>2 DEF JobTyped, Working
  <2> QED
    BY <2>1, <2>2 DEF JalrTarget
<1> QED
  BY <1>1, <1>2, <1>3 DEF TypeInv, RegsTyped

LEMMA StoreIns ==
    ASSUME JobTyped(job), job.phase \in {"store", "byte"}
    PROVE  /\ job.ins.section = "STORE" /\ job.ins.name \in Sections.STORE
           /\ StoreSize[job.ins.name] \in {1, 2, 4}
           /\ StoreSize[job.ins.name] = IsaUnit(job.ins.name)
<1>1. job.ins.section = "STORE" /\ Valid(job.ins)
  BY DEF JobTyped, Working
<1>2. job.ins.name \in Sections.STORE
  BY <1>1 DEF Valid
<1> QED
  BY <1>1, <1>2, StoreSizes

LEMMA StoreBeginIs ==
    ASSUME SimInv, trace \in TraceSet, JobTyped(job), StoreBegin
    PROVE  /\ trace' \in TraceSet /\ UNCHANGED <<mem, regs, pc, endian, before, proc>> /\ job.phase = "store"
           /\ \/ Goto("thrown")
              \/ /\ job'.phase = "byte" /\ job'.k = 0 /\ job'.ins = job.ins /\ job'.value = job.value
                 /\ job'.addr = job.addr /\ job'.next = job.next
<1>1. /\ UNCHANGED <<mem, regs, pc, endian, before, proc>> /\ job.phase = "store" /\ Has(job, CallFields)
  BY DEF StoreBegin, Stay, archVars, In, SimInv, Shape
<1>2. trace' \in TraceSet
  BY TracedTypes DEF StoreBegin
<1>3. CASE job' = [job EXCEPT !.phase = "byte", !.k = 0]
  BY <1>1, <1>2, <1>3 DEF Has, CallFields
<1> QED
  BY <1>1, <1>2, <1>3 DEF StoreBegin

LEMMA StoreBeginTypes ==
    ASSUME SimInv, TypeInv, StoreBegin
    PROVE  MemTyped(mem') /\ RegsTyped' /\ trace' \in TraceSet /\ JobTyped(job')
<1>1. Has(job, CallFields) /\ JobTyped(job) /\ trace \in TraceSet
  BY DEF SimInv, Shape, TypeInv
<1>2. /\ trace' \in TraceSet /\ UNCHANGED <<mem, regs, pc>> /\ job.phase = "store"
      /\ \/ Goto("thrown")
         \/ /\ job'.phase = "byte" /\ job'.k = 0 /\ job'.ins = job.ins /\ job'.value = job.value
            /\ job'.addr = job.addr /\ job'.next = job.next
  BY <1>1, StoreBeginIs
<1>3. JobTyped(job')
  <2>1. CASE Goto("thrown")
    BY <1>1, <2>1, GotoTyped
  <2>2. CASE /\ job'.phase = "byte" /\ job'.k = 0 /\ job'.ins = job.ins /\ job'.value = job.value
             /\ job'.addr = job.addr /\ job'.next = job.next
    <3>1. job.ins.section = "STORE" /\ StoreSize[job.ins.name] \in {1, 2, 4} /\ Valid(job.ins)
      BY <1>1, <1>2, StoreIns DEF JobTyped, Working
    <3>2. 0 \in 0 .. StoreSize[job.ins.name] - 1
      BY <3>1
    <3> QED
      BY <1>1, <2>2, <3>1, <3>2 DEF JobTyped
  <2> QED
    BY <1>2, <2>1, <2>2
<1> QED
  BY <1>2, <1>3 DEF TypeInv, RegsTyped

(* One byte of a store.                                                    *)
LEMMA StoreByteIs ==
    ASSUME SimInv, JobTyped(job), MemTyped(mem), StoreByte
    PROVE  LET n == StoreSize[job.ins.name]
               a == (job.addr + job.k) % WordSpan
           IN /\ job.phase = "byte" /\ UNCHANGED <<regs, pc, endian, before, proc, trace>>
              /\ job.k \in 0 .. n - 1 /\ n \in {1, 2, 4}
              /\ mem' = [x \in DOMAIN mem |-> IF x = a THEN ByteOf(job.value, endian, n, job.k) ELSE mem[x]]
              /\ job'.k = job.k + 1 /\ job'.phase = IF job.k + 1 = n THEN "setpc" ELSE "byte"
              /\ job'.ins = job.ins /\ job'.value = job.value
              /\ job'.addr = job.addr /\ job'.next = job.next
<1> DEFINE n == StoreSize[job.ins.name]
           a == (job.addr + job.k) % WordSpan
           b == ByteOf(job.value, endian, n, job.k)
<1>1. /\ job.phase = "byte" /\ UNCHANGED <<regs, pc, endian, before, proc, trace>> /\ Has(job, CallFields)
      /\ \/ a < Size(mem) /\ mem' = [mem EXCEPT ![a] = b]
         \/ a = Size(mem) /\ UNCHANGED mem
      /\ job' = [job EXCEPT !.k = @ + 1, !.phase = IF job.k + 1 = n THEN "setpc" ELSE "byte"]
  BY DEF StoreByte, In, SimInv, Shape
<1>2. job.k \in 0 .. n - 1 /\ n \in {1, 2, 4}
  BY <1>1, StoreIns DEF JobTyped
<1>3. Size(mem) \in Nat /\ mem \in [0 .. Size(mem) - 1 -> Byte] /\ DOMAIN mem = 0 .. Size(mem) - 1
  BY MemSize
<1> HIDE DEF n, a, b
<1>4. mem' = [x \in DOMAIN mem |-> IF x = a THEN b ELSE mem[x]]
  BY <1>1, <1>3
<1>5. /\ job'.k = job.k + 1 /\ job'.phase = IF job.k + 1 = n THEN "setpc" ELSE "byte"
      /\ job'.ins = job.ins /\ job'.value = job.value
      /\ job'.addr = job.addr /\ job'.next = job.next
  BY <1>1 DEF Has, CallFields
<1> QED
  BY <1>1, <1>2, <1>4, <1>5 DEF n, a, b

LEMMA StoreByteTypes ==
    ASSUME SimInv, TypeInv, StoreByte
    PROVE  MemTyped(mem') /\ RegsTyped' /\ trace' \in TraceSet /\ JobTyped(job')
<1> DEFINE n == StoreSize[job.ins.name]
           a == (job.addr + job.k) % WordSpan
           b == ByteOf(job.value, endian, n, job.k)
<1>1. JobTyped(job) /\ MemTyped(mem)
  BY DEF TypeInv
<1>2. /\ job.phase = "byte" /\ UNCHANGED <<regs, pc, endian, before, proc, trace>>
      /\ job.k \in 0 .. n - 1 /\ n \in {1, 2, 4}
      /\ mem' = [x \in DOMAIN mem |-> IF x = a THEN b ELSE mem[x]]
      /\ job'.k = job.k + 1 /\ job'.phase = IF job.k + 1 = n THEN "setpc" ELSE "byte"
      /\ job'.ins = job.ins /\ job'.value = job.value
      /\ job'.addr = job.addr /\ job'.next = job.next
  BY <1>1, StoreByteIs
<1>3. b \in Byte
  <2>1. job.value \in Int
    BY <1>1, WordNat DEF JobTyped
  <2> HIDE DEF n
  <2> QED
    BY <1>2, <2>1, ByteOfType
<1> HIDE DEF a, b
<1>4. MemTyped(mem')
  BY <1>1, <1>2, <1>3, EditTyped, MemSize
<1>5. JobTyped(job')
  <2>1. job.ins.section = "STORE" /\ Valid(job.ins) /\ job'.phase \in {"setpc", "byte"}
    BY <1>1, <1>2, StoreIns DEF JobTyped, Working
  <2>2. job'.phase = "byte" => job'.k \in 0 .. n - 1
    <3> HIDE DEF n
    <3> QED
      BY <1>2
  <2> QED
    BY <1>1, <1>2, <2>1, <2>2 DEF JobTyped
<1> QED
  BY <1>2, <1>4, <1>5 DEF TypeInv, RegsTyped

LEMMA MicroTypes ==
    ASSUME SimInv, TypeInv, MicroStep
    PROVE  /\ MemTyped(mem') /\ RegsTyped' /\ trace' \in TraceSet /\ JobTyped(job')
           /\ proc' = proc \/ proc' = "aborted"
<1>1. CASE Fetch
  BY <1>1, FetchTypes, FetchIs DEF TypeInv
<1>2. CASE Invalid
  BY <1>2, InvalidTypes DEF Invalid, Throw
<1>3. CASE Exec
  BY <1>3, ExecTypes DEF Exec
<1>4. CASE LoadRead
  BY <1>4, LoadTypes, LoadReadIs DEF TypeInv
<1>5. CASE SetReg
  BY <1>5, SetRegTypes DEF SetReg
<1>6. CASE JalrTarget
  BY <1>6, JalrTypes DEF JalrTarget
<1>7. CASE StoreBegin
  BY <1>7, StoreBeginTypes DEF StoreBegin
<1>8. CASE StoreByte
  BY <1>8, StoreByteTypes DEF StoreByte
<1>9. CASE StoreAborts
  BY <1>9 DEF StoreAborts, Stay, archVars, Abort, TypeInv, RegsTyped
<1>10. CASE SetPc
  <2>1. /\ Goto("cycle") /\ pc' = job.next /\ UNCHANGED <<mem, regs, trace, proc>> /\ Has(job, CallFields)
    BY <1>10 DEF SetPc, SimInv, Shape
  <2>2. JobTyped(job')
    BY <2>1, GotoTyped DEF TypeInv
  <2> QED
    BY <2>1, <2>2 DEF TypeInv, RegsTyped, JobTyped
<1>11. CASE Return
  <2>1. job' = NoCall /\ UNCHANGED <<mem, regs, pc, trace, proc>>
    BY <1>11 DEF Return, archVars
  <2>2. JobTyped(job')
    BY <2>1, ZeroTypes DEF JobTyped, NoCall, Illegal, IsDecoded, Working
  <2> QED
    BY <2>1, <2>2 DEF TypeInv, RegsTyped
<1> QED
  BY <1>1, <1>2, <1>3, <1>4, <1>5, <1>6, <1>7, <1>8, <1>9, <1>10, <1>11 DEF MicroStep
-----------------------------------------------------------------------------
(***************************************************************************)
(* The hosts keep the types.                                               *)
(***************************************************************************)
LEMMA NoCallTyped ==
    /\ JobTyped(NoCall)
    /\ \A n : /\ JobTyped([NoCall EXCEPT !.phase = "cycle", !.limit = n])
             /\ JobTyped([NoCall EXCEPT !.phase = "thrown", !.limit = n])
  BY ZeroTypes DEF JobTyped, NoCall, Illegal, IsDecoded, Working

LEMMA StepCallTyped ==
    ASSUME NEW n, StepCall(n)
    PROVE  JobTyped(job')
<1>1. \/ job' = [NoCall EXCEPT !.phase = "cycle", !.limit = n]
      \/ job' = [NoCall EXCEPT !.phase = "thrown", !.limit = n]
  BY DEF StepCall
<1> QED
  BY <1>1, NoCallTyped

LEMMA ResetTypes ==
    ASSUME trace \in TraceSet, NEW toFile, NEW r \in Reset(trace, toFile)
    PROVE  r[2] \in TraceSet
<1> DEFINE closed == [trace EXCEPT !.open = FALSE, !.bad = TRUE]
           opened == [trace EXCEPT !.toFile = TRUE, !.open = TRUE, !.bad = FALSE, !.masked = TRUE]
           failed == [trace EXCEPT !.toFile = TRUE, !.open = FALSE, !.bad = TRUE]
           other  == [trace EXCEPT !.toFile = FALSE, !.open = FALSE]
<1>1. closed \in TraceSet /\ opened \in TraceSet /\ failed \in TraceSet /\ other \in TraceSet
  BY TraceTypes
<1>2. r \in (IF trace.open /\ trace.masked THEN {<<FALSE, closed>>} ELSE {})
          \cup (IF toFile THEN {<<TRUE, opened>>, <<FALSE, failed>>} ELSE {<<TRUE, other>>})
  BY DEF Reset
<1> HIDE DEF closed, opened, failed, other
<1>3. r \in {<<FALSE, closed>>, <<TRUE, opened>>, <<FALSE, failed>>, <<TRUE, other>>}
  BY <1>2
<1>4. \/ r = <<FALSE, closed>> \/ r = <<TRUE, opened>>
      \/ r = <<FALSE, failed>> \/ r = <<TRUE, other>>
  BY <1>3
<1>5. r[2] = closed \/ r[2] = opened \/ r[2] = failed \/ r[2] = other
  BY ONLY <1>4, Second
<1> QED
  BY <1>1, <1>5

LEMMA ZeroRegs == ASSUME NEW f, f = [r \in RegId |-> 0] PROVE f \in [RegId -> Word] /\ f[0] = 0
  BY ZeroTypes

LEMMA SetConfigTypes ==
    ASSUME MemTyped(mem), NEW c, NEW t \in TraceSet, SetConfig(c, TRUE, t),
           c.mem_size \in Nat, c.trace \in BOOLEAN, c.pc \in Word
    PROVE  MemTyped(mem') /\ RegsTyped' /\ trace' \in TraceSet
<1>1. /\ regs' = [r \in RegId |-> 0] /\ trace' = [t EXCEPT !.on = c.trace] /\ pc' = c.pc
      /\ mem' = mem \/ mem' = Resized(mem, c.mem_size)
  BY DEF SetConfig
<1>2. MemTyped(mem')
  BY <1>1, ResizedTyped
<1>3. trace' \in TraceSet
  BY <1>1, TraceTypes
<1> QED
  BY <1>1, <1>2, <1>3, ZeroRegs DEF RegsTyped

LEMMA LoadMemTyped ==
    ASSUME MemTyped(mem), NEW image \in Seq(Byte), NEW addr \in Nat, Load(image, addr)
    PROVE  MemTyped(mem')
<1> DEFINE need == Len(image) + addr
           m == Room(image, addr)
<1>1. need \in Nat /\ Len(image) \in Nat
  OBVIOUS
<1>2. m = mem \/ m = Resized(mem, need)
  BY DEF Room
<1>3. MemTyped(m)
  BY <1>1, <1>2, ResizedTyped
<1>4. \/ mem' = m
      \/ mem' = [a \in DOMAIN m |-> IF a \in addr .. addr + Len(image) - 1
                                    THEN image[a - addr + 1] ELSE m[a]]
  BY DEF Load
<1> HIDE DEF m
<1>5. CASE mem' = [a \in DOMAIN m |-> IF a \in addr .. addr + Len(image) - 1
                                      THEN image[a - addr + 1] ELSE m[a]]
  <2>1. ASSUME NEW a \in DOMAIN m PROVE mem'[a] \in Byte
    <3>1. m[a] \in Byte
      BY <1>3, MemSize
    <3>2. CASE a \in addr .. addr + Len(image) - 1
      <4>1. a - addr + 1 \in 1 .. Len(image)
        BY <1>1, <3>2
      <4>2. image[a - addr + 1] \in Byte
        BY <4>1
      <4> QED
        BY <1>5, <3>2, <4>2
    <3> QED
      BY <1>5, <3>1, <3>2
  <2> QED
    BY <1>3, <1>5, <2>1, EditTyped
<1> QED
  BY <1>3, <1>4, <1>5

(* A line that matches the pattern of a command gives its arguments.       *)
LEMMA Arguments ==
    ASSUME LineTyped, NEW c, Eval(c)
    PROVE  token \in Lines /\ c \in DOMAIN token.matches
<1>1. c \in Matching
  BY DEF Eval, First
<1> QED
  BY <1>1 DEF LineTyped, Matching

LEMMA AppTypes ==
    ASSUME SimInv, TypeInv, AppStep, UNCHANGED dpiVars, host = "app"
    PROVE  TypeInv'
<1>0. /\ MemTyped(mem) /\ RegsTyped /\ trace \in TraceSet /\ JobTyped(job) /\ OutTyped /\ LineTyped
      /\ rc' = rc
  BY DEF TypeInv, dpiVars
<1>1. ASSUME NEW d, Exit(d) PROVE TypeInv'
  <2>1. /\ job' = NoCall /\ UNCHANGED <<mem, regs, pc, trace, token, last_valid>> /\ proc' = "exited"
    BY <1>1 DEF Exit, archVars
  <2> QED
    BY <1>0, <2>1, NoCallTyped DEF TypeInv, RegsTyped, OutTyped, LineTyped
<1>2. ASSUME UNCHANGED <<mem, regs, pc, trace, job, token, last_valid>>, proc' \in {proc, "aborted", "hung"}
      PROVE  TypeInv'
  BY <1>0, <1>2 DEF TypeInv, RegsTyped, OutTyped, LineTyped
<1>3. NoModel => UNCHANGED <<mem, regs, pc, trace, job, proc>>
  BY DEF NoModel, modelVars, archVars
<1>4. CASE Start
  <2>1. PICK o \in CommandLines :
            \/ Exit(Arch) \/ Fail
            \/ /\ SetConfig(Options(o), TRUE, [trace EXCEPT !.toFile = FALSE, !.open = FALSE])
               /\ UNCHANGED <<job, proc, token, last_valid>>
    BY <1>4 DEF Start
  <2>2. CASE Exit(Arch) \/ Fail
    BY <1>1, <2>2 DEF Fail
  <2>3. CASE /\ SetConfig(Options(o), TRUE, [trace EXCEPT !.toFile = FALSE, !.open = FALSE])
             /\ UNCHANGED <<job, proc, token, last_valid>>
    <3>1. /\ Options(o).mem_size \in Nat /\ Options(o).trace \in BOOLEAN /\ Options(o).pc \in Word
      BY OptionsAssumption, ZeroTypes DEF Options
    <3>2. MemTyped(mem') /\ RegsTyped' /\ trace' \in TraceSet
      BY <1>0, <2>3, <3>1, TraceTypes, SetConfigTypes
    <3> QED
      BY <1>0, <2>3, <3>2 DEF TypeInv, OutTyped, LineTyped
  <2> QED
    BY <2>1, <2>2, <2>3
<1>5. CASE SimpleLoad
  <2>1. CASE Fail
    BY <1>1, <2>1 DEF Fail
  <2>2. CASE /\ Readable(params.image) /\ Load(Files[params.image], 0)
             /\ UNCHANGED <<regs, pc, trace, job, proc, token, last_valid>>
    <3>1. MemTyped(mem')
      BY <1>0, <2>2, FilesAssumption, LoadMemTyped, 0 \in Nat DEF Readable
    <3> QED
      BY <1>0, <2>2, <3>1 DEF TypeInv, RegsTyped, OutTyped, LineTyped
  <2> QED
    BY <1>5, <2>1, <2>2 DEF SimpleLoad, Quiet
<1>6. ASSUME NEW n, StepCall(n), UNCHANGED <<mem, regs, pc, trace, proc, token, last_valid>>
      PROVE  TypeInv'
  BY <1>0, <1>6, StepCallTyped DEF TypeInv, RegsTyped, OutTyped, LineTyped
<1>7. CASE SimpleStep \/ StepCmd
  BY <1>6, <1>7 DEF SimpleStep, StepCmd, Quiet, archVars
<1>8. CASE SimpleDone \/ Quit
  BY <1>1, <1>8 DEF SimpleDone, Quit
<1>9. CASE ReadLine
  <2>1. CASE Fail
    BY <1>1, <2>1 DEF Fail
  <2>2. CASE NoModel /\ LineTyped'
    BY <1>0, <1>3, <2>2 DEF TypeInv, RegsTyped, OutTyped
  <2> QED
    BY <1>0, <1>9, <2>1, <2>2 DEF ReadLine, LineTyped
<1>10. CASE ShowCmd \/ StepCmdDone
  BY <1>2, <1>3, <1>10 DEF ShowCmd, StepCmdDone, Prompt, Quiet
<1>11. CASE LoadCmd
  <2>1. token \in Lines /\ "load" \in DOMAIN token.matches
    BY <1>0, <1>11, Arguments DEF LoadCmd
  <2>2. Arg.load.addr \in Nat
    BY <2>1, LinesAssumption, WordIs DEF Arg
  <2>3. /\ UNCHANGED <<regs, pc, trace, job, proc, token, last_valid>>
        /\ \/ UNCHANGED mem
           \/ \E name : Readable(name) /\ Load(Files[name], Arg.load.addr)
    BY <1>11 DEF LoadCmd
  <2>4. MemTyped(mem')
    BY <1>0, <2>2, <2>3, FilesAssumption, LoadMemTyped DEF Readable
  <2> QED
    BY <1>0, <2>3, <2>4 DEF TypeInv, RegsTyped, OutTyped, LineTyped
<1>12. CASE Tracing
  <2>1. token \in Lines /\ "tracing" \in DOMAIN token.matches
    BY <1>0, <1>12, Arguments DEF Tracing
  <2>2. Arg.tracing \in BOOLEAN
    BY <2>1, LinesAssumption DEF Arg
  <2>3. /\ trace' = [trace EXCEPT !.on = Arg.tracing]
        /\ UNCHANGED <<mem, regs, pc, job, proc, token, last_valid>>
    BY <1>12 DEF Tracing, Prompt, Quiet, archVars
  <2>4. trace' \in TraceSet
    BY <1>0, <2>2, <2>3, TraceTypes
  <2> QED
    BY <1>0, <2>3, <2>4 DEF TypeInv, RegsTyped, OutTyped, LineTyped
<1>13. CASE TouchPc
  <2>1. token \in Lines /\ "program-counter" \in DOMAIN token.matches
    BY <1>0, <1>13, Arguments DEF TouchPc
  <2>2. Arg["program-counter"] \in Word \cup {None}
    BY <2>1, LinesAssumption DEF Arg
  <2>3. /\ pc' = IF Arg["program-counter"] = None THEN pc ELSE Arg["program-counter"]
        /\ UNCHANGED <<mem, regs, trace, job, proc, token, last_valid>>
    BY <1>13 DEF TouchPc, Prompt, Quiet
  <2>4. pc' \in Word
    BY <1>0, <2>2, <2>3 DEF RegsTyped
  <2> QED
    BY <1>0, <2>3, <2>4 DEF TypeInv, RegsTyped, OutTyped, LineTyped
<1>14. CASE Disas
  BY <1>2, <1>3, <1>14 DEF Disas, Prompt, Quiet, archVars, appVars
<1>15. CASE Interrupt
  BY <1>1, <1>2, <1>15 DEF Interrupt, archVars, appVars
<1> QED
  BY <1>4, <1>5, <1>7, <1>8, <1>9, <1>10, <1>11, <1>12, <1>13, <1>14, <1>15 DEF AppStep

LEMMA HandlerTypes ==
    ASSUME NEW t \in TraceSet, Handler(t), OutTyped
    PROVE  trace' \in TraceSet /\ OutTyped'
  BY TraceTypes DEF Handler, OutTyped

LEMMA AnnounceTypes ==
    ASSUME trace \in TraceSet, OutTyped
    PROVE  /\ AnnounceFails => trace' \in TraceSet /\ OutTyped' /\ Keep
           /\ CoreFails => trace' \in TraceSet /\ OutTyped'
           /\ CoreTraces => trace' \in TraceSet
           /\ Announced \in TraceSet
           /\ Ok => OutTyped'
           /\ proc' = "aborted" /\ rc' = None => OutTyped'
           /\ Handler(Announced) => trace' \in TraceSet /\ OutTyped'
<1>1. Broken(trace) \in TraceSet /\ Written(trace) \in TraceSet
  BY TraceTypes
<1>2. /\ Ok => OutTyped'
      /\ proc' = "aborted" /\ rc' = None => OutTyped'
  BY DEF Ok, OutTyped
<1> QED
  BY <1>1, <1>2, HandlerTypes DEF AnnounceFails, CoreFails, CoreTraces, Announced

LEMMA PutTyped ==
    ASSUME NEW m, MemTyped(m), NEW addr \in Word, NEW v \in Word
    PROVE  MemTyped(Put(m, addr, v))
<1>1. ASSUME NEW a \in DOMAIN m PROVE Put(m, addr, v)[a] \in Byte
  <2> DEFINE k == (a - addr) % WordSpan
             W == WordSpan
  <2>1. m[a] \in Byte /\ a \in Int
    BY MemSize
  <2>2. k \in Nat
    <3>1. W \in Nat \ {0} /\ addr \in Int
      BY Widths, WordIs
    <3>2. k = (a - addr) % W
      OBVIOUS
    <3> HIDE DEF W, k
    <3> QED
      BY <2>1, <3>1, <3>2
  <2>3. Put(m, addr, v)[a] = IF k < WORD_SIZE THEN ByteOf(v, endian, WORD_SIZE, k) ELSE m[a]
    BY DEF Put
  <2> HIDE DEF k
  <2>4. CASE k < WORD_SIZE
    <3>1. k \in 0 .. WORD_SIZE - 1 /\ WORD_SIZE \in {1, 2, 4} /\ v \in Int
      BY <2>2, <2>4, WordNat DEF WORD_SIZE
    <3>2. ByteOf(v, endian, WORD_SIZE, k) \in Byte
      BY <3>1, ByteOfType
    <3> QED
      BY <2>3, <2>4, <3>2
  <2> QED
    BY <2>1, <2>3, <2>4
<1>2. Put(m, addr, v) = [a \in DOMAIN m |-> Put(m, addr, v)[a]] /\ DOMAIN Put(m, addr, v) = DOMAIN m
  BY DEF Put
<1> QED
  BY <1>1, <1>2, EditTyped

LEMMA GrownTyped ==
    ASSUME MemTyped(mem), NEW addr \in Word
    PROVE  MemTyped(Grown(addr))
<1>1. ToWord(addr + 1) \in Nat
  BY ModWord, WordIs, addr + 1 \in Int
<1> QED
  BY <1>1, ResizedTyped DEF Grown

LEMMA DpiInitTypes ==
    ASSUME TypeInv, DpiInit
    PROVE  MemTyped(mem') /\ RegsTyped' /\ trace' \in TraceSet /\ job' = job /\ OutTyped'
<1>0. MemTyped(mem) /\ trace \in TraceSet /\ OutTyped
  BY DEF TypeInv
<1>1. PICK p \in DpiParams : \E r \in Reset(trace, p.toFile) :
         LET c == [mem_size |-> p.mem_size, resize |-> p.resize, isDPI |-> TRUE, pc |-> p.pc,
                   trace |-> TRUE, toFile |-> p.toFile, endian |-> p.endian]
         IN /\ regs' = [x \in RegId |-> 0]
            /\ \/ SetConfig(c, TRUE, r[2]) /\ Ok
               \/ Handler(r[2]) /\ pc' = 0 /\ UNCHANGED mem
  BY DEF DpiInit
<1> DEFINE c == [mem_size |-> p.mem_size, resize |-> p.resize, isDPI |-> TRUE, pc |-> p.pc,
                 trace |-> TRUE, toFile |-> p.toFile, endian |-> p.endian]
<1>2. PICK r \in Reset(trace, p.toFile) :
         /\ regs' = [x \in RegId |-> 0]
         /\ \/ SetConfig(c, TRUE, r[2]) /\ Ok
            \/ Handler(r[2]) /\ pc' = 0 /\ UNCHANGED mem
  BY <1>1
<1>3. r[2] \in TraceSet /\ job' = job
  BY <1>0, ResetTypes DEF DpiInit
<1>4. c.mem_size \in Nat /\ c.trace \in BOOLEAN /\ c.pc \in Word
  BY DpiAssumption
<1> HIDE DEF c
<1>5. CASE SetConfig(c, TRUE, r[2]) /\ Ok
  BY <1>0, <1>3, <1>4, <1>5, SetConfigTypes, AnnounceTypes
<1>6. CASE Handler(r[2]) /\ pc' = 0 /\ UNCHANGED mem
  BY <1>0, <1>2, <1>3, <1>6, HandlerTypes, ZeroRegs, ZeroTypes DEF RegsTyped
<1> QED
  BY <1>2, <1>5, <1>6

LEMMA SetMemTypes ==
    ASSUME TypeInv, SetMem
    PROVE  MemTyped(mem') /\ UNCHANGED <<regs, pc, job>> /\ trace' \in TraceSet /\ OutTyped'
<1>0. MemTyped(mem) /\ trace \in TraceSet /\ OutTyped
  BY DEF TypeInv
<1>1. /\ AnnounceFails => trace' \in TraceSet /\ OutTyped' /\ Keep
      /\ CoreFails => trace' \in TraceSet /\ OutTyped'
      /\ Announced \in TraceSet
      /\ Ok => OutTyped'
      /\ proc' = "aborted" /\ rc' = None => OutTyped'
      /\ Handler(Announced) => trace' \in TraceSet /\ OutTyped'
  BY <1>0, AnnounceTypes
<1>2. Keep => UNCHANGED <<mem, regs, pc, job>>
  BY DEF Keep, archVars
<1>3. PICK w \in DpiWrites :
         \/ AnnounceFails
         \/ CoreFails /\ mem' = Grown(w[1]) /\ UNCHANGED <<regs, pc, job>>
         \/ /\ \/ mem' = Grown(w[1]) /\ Handler(Announced)
               \/ mem' = Put(Grown(w[1]), w[1], w[2]) /\ trace' = Announced /\ Ok
               \/ mem' = Grown(w[1]) /\ trace' = Announced /\ proc' = "aborted" /\ rc' = None
            /\ UNCHANGED <<regs, pc, job>>
  BY DEF SetMem
<1>4. w[1] \in Word /\ w[2] \in Word
  BY DpiAssumption
<1>5. MemTyped(Grown(w[1])) /\ MemTyped(Put(Grown(w[1]), w[1], w[2]))
  BY <1>0, <1>4, GrownTyped, PutTyped
<1> QED
  BY <1>0, <1>1, <1>2, <1>3, <1>5

LEMMA DpiTypes ==
    ASSUME SimInv, TypeInv, DpiStep, UNCHANGED appVars
    PROVE  TypeInv'
<1>0. /\ MemTyped(mem) /\ RegsTyped /\ trace \in TraceSet /\ JobTyped(job) /\ OutTyped /\ LineTyped
      /\ LineTyped'
  BY DEF TypeInv, appVars, LineTyped
<1>1. /\ AnnounceFails => trace' \in TraceSet /\ OutTyped' /\ Keep
      /\ CoreFails => trace' \in TraceSet /\ OutTyped'
      /\ CoreTraces => trace' \in TraceSet
      /\ Announced \in TraceSet
      /\ Ok => OutTyped'
      /\ proc' = "aborted" /\ rc' = None => OutTyped'
      /\ Handler(Announced) => trace' \in TraceSet /\ OutTyped'
  BY <1>0, AnnounceTypes
<1>2. Keep => UNCHANGED <<mem, regs, pc, job>>
  BY DEF Keep, archVars
<1>3. ASSUME UNCHANGED <<mem, regs, pc, job>>, trace' \in TraceSet, OutTyped' PROVE TypeInv'
  BY <1>0, <1>3 DEF TypeInv, RegsTyped
<1>4. CASE DpiInit
  <2>1. MemTyped(mem') /\ RegsTyped' /\ trace' \in TraceSet /\ job' = job /\ OutTyped'
    BY <1>4, DpiInitTypes
  <2> QED
    BY <1>0, <2>1 DEF TypeInv
<1>5. CASE DumpState
  BY <1>0, <1>1, <1>2, <1>3, <1>5 DEF DumpState
<1>6. CASE SetMem
  <2>1. MemTyped(mem') /\ UNCHANGED <<regs, pc, job>> /\ trace' \in TraceSet /\ OutTyped'
    BY <1>6, SetMemTypes
  <2> QED
    BY <1>0, <2>1 DEF TypeInv, RegsTyped
<1>7. CASE GetMem
  BY <1>1, <1>2, <1>3, <1>7 DEF GetMem
<1>8. CASE GetReg
  BY <1>1, <1>2, <1>3, <1>8 DEF GetReg, BadReg
<1>9. CASE SetRegCall
  <2>1. PICK id \in DpiRegs, v \in DpiValues :
           \/ AnnounceFails
           \/ CoreFails /\ Keep
           \/ BadReg(id)
           \/ /\ id \in RegId /\ CoreTraces /\ Ok
              /\ regs' = IF id = 0 THEN regs ELSE [regs EXCEPT ![id] = v]
              /\ UNCHANGED <<mem, pc, job>>
    BY <1>9 DEF SetRegCall
  <2>2. CASE /\ id \in RegId /\ CoreTraces /\ Ok
             /\ regs' = IF id = 0 THEN regs ELSE [regs EXCEPT ![id] = v]
             /\ UNCHANGED <<mem, pc, job>>
    <3>1. v \in Word
      BY DpiAssumption
    <3>2. RegsTyped'
      BY <1>0, <2>2, <3>1 DEF RegsTyped
    <3> QED
      BY <1>0, <1>1, <2>2, <3>2 DEF TypeInv
  <2> QED
    BY <1>1, <1>2, <1>3, <2>1, <2>2 DEF BadReg
<1>10. CASE GetPc
  BY <1>1, <1>2, <1>3, <1>10 DEF GetPc
<1>11. CASE SetPcCall
  <2>1. CASE AnnounceFails
    BY <1>1, <1>2, <1>3, <2>1
  <2>2. CASE CoreTraces /\ Ok /\ (\E v \in DpiAddrs : pc' = v) /\ UNCHANGED <<mem, regs, job>>
    <3>1. pc' \in Word
      BY <2>2, DpiAssumption
    <3> QED
      BY <1>0, <1>1, <2>2, <3>1 DEF TypeInv, RegsTyped
  <2> QED
    BY <1>11, <2>1, <2>2 DEF SetPcCall
<1>12. CASE StepBegin
  <2>1. CASE AnnounceFails
    BY <1>1, <1>2, <1>3, <2>1
  <2>2. CASE trace' = Announced /\ rc' = None /\ StepCall(1) /\ UNCHANGED <<mem, regs, pc, proc>>
    <3>1. JobTyped(job')
      BY <2>2, StepCallTyped
    <3>2. OutTyped'
      BY <1>0, <2>2 DEF OutTyped
    <3> QED
      BY <1>0, <1>1, <2>2, <3>1, <3>2 DEF TypeInv, RegsTyped
  <2> QED
    BY <1>12, <2>1, <2>2 DEF StepBegin, archVars
<1>13. CASE StepEnd
  <2>1. UNCHANGED <<mem, regs, pc, job, trace, proc>> /\ rc' \in {"success", "fail"}
    BY <1>13 DEF StepEnd, modelVars, archVars
  <2> QED
    BY <1>0, <1>3, <2>1 DEF OutTyped
<1>14. CASE StepThrew
  <2>1. Handler(trace) /\ job' = NoCall /\ UNCHANGED <<mem, regs, pc>>
    BY <1>14 DEF StepThrew, archVars
  <2>2. trace' \in TraceSet /\ OutTyped'
    BY <1>0, <2>1, HandlerTypes
  <2> QED
    BY <1>0, <2>1, <2>2, NoCallTyped DEF TypeInv, RegsTyped
<1> QED
  BY <1>4, <1>5, <1>6, <1>7, <1>8, <1>9, <1>10, <1>11, <1>12, <1>13, <1>14 DEF DpiStep

LEMMA TypeInit == SimInit => TypeInv
<1> SUFFICES ASSUME SimInit PROVE TypeInv
  OBVIOUS
<1>1. /\ mem = [a \in {} |-> 0] /\ regs = [r \in RegId |-> 0] /\ pc = 0
      /\ trace = [on |-> FALSE, toFile |-> FALSE, open |-> FALSE, masked |-> FALSE, bad |-> FALSE]
      /\ job = NoCall /\ proc = "running" /\ rc = None /\ token = None /\ last_valid = None
  BY DEF SimInit, Init, AppInit, DpiStart
<1>2. MemTyped(mem)
  <2>1. mem \in [0 .. 0 - 1 -> Byte]
    BY <1>1
  <2>2. 0 % PageBytes = 0
    BY PageAssumption
  <2>3. 0 <= WordSpan
    <3>1. WordSpan \in Nat
      BY Widths
    <3> HIDE DEF WordSpan
    <3> QED
      BY <3>1
  <2> QED
    BY <2>1, <2>2, <2>3, 0 \in Nat DEF MemTyped
<1>3. trace \in TraceSet
  BY <1>1 DEF TraceSet
<1> QED
  BY <1>1, <1>2, <1>3, NoCallTyped, ZeroRegs, ZeroTypes DEF TypeInv, RegsTyped, OutTyped, LineTyped

LEMMA TypeKeeps == SimInv /\ TypeInv /\ [Next]_vars => TypeInv'
<1> SUFFICES ASSUME SimInv, TypeInv, [Next]_vars PROVE TypeInv'
  OBVIOUS
<1>1. CASE UNCHANGED vars
  BY <1>1 DEF vars, modelVars, appVars, dpiVars, archVars, TypeInv, RegsTyped, OutTyped, LineTyped
<1>2. CASE Next
  <2>1. CASE MicroStep /\ UNCHANGED <<appVars, dpiVars>>
    <3>1. /\ MemTyped(mem') /\ RegsTyped' /\ trace' \in TraceSet /\ JobTyped(job')
          /\ proc' = proc \/ proc' = "aborted"
      BY <2>1, MicroTypes
    <3> QED
      BY <2>1, <3>1 DEF TypeInv, OutTyped, LineTyped, appVars, dpiVars
  <2> QED
    BY <1>2, <2>1, AppTypes, DpiTypes DEF Next
<1> QED
  BY <1>1, <1>2

LEMMA AlwaysTypeInv == Spec => []TypeInv
  BY TypeInit, TypeKeeps, AlwaysSimInv, PTL DEF Spec

(* Registers and pc stay words, x0 stays 0, and memory stays a whole       *)
(* number of pages of bytes (region_t::resize), whatever is loaded, set or *)
(* executed and however memory grows.                                      *)
THEOREM TypesHold == Spec => []TypeOK
<1>1. SimInv /\ TypeInv => TypeOK
  <2> SUFFICES ASSUME SimInv, TypeInv PROVE TypeOK
    OBVIOUS
  <2>1. /\ DOMAIN mem = 0 .. Size(mem) - 1 /\ Size(mem) % PageBytes = 0
        /\ \A a \in DOMAIN mem : mem[a] \in Byte
    BY MemSize DEF TypeInv
  <2>2. job.phase \in Phases
    BY DEF SimInv, Shape
  <2> QED
    BY <2>1, <2>2 DEF TypeInv, RegsTyped, OutTyped, TraceSet, Phases, TypeOK
<1> QED
  BY <1>1, AlwaysSimInv, AlwaysTypeInv, PTL
-----------------------------------------------------------------------------
(***************************************************************************)
(* The bytes of a load and of a store, in memory.                          *)
(***************************************************************************)
LEMMA FourFits == WordSpan \in Nat /\ WordSpan >= 4
<1>1. WordBits \in Nat /\ WordBits >= 4 /\ WordSpan = 2^WordBits
  BY Widths
<1> HIDE DEF WordSpan, WordBits
<1>2. WordBits \in 0 .. WordBits /\ 2 \in 0 .. WordBits /\ 1 \in 0 .. WordBits
  BY <1>1
<1>3. 2^2 <= 2^WordBits /\ 2^WordBits \in Nat
  BY <1>2, PowerSplit, Power
<1>4. 2^2 = 4
  <2>1. 2^(1 + 1) = 2^1 * 2^1
    BY <1>2, PowerSum
  <2> QED
    BY <2>1, PowerAssumption
<1> QED
  BY <1>1, <1>3, <1>4

LEMMA Distance ==
    ASSUME NEW a \in Word, NEW addr \in Word, NEW k \in 0 .. 3
    PROVE  /\ (a - addr) % WordSpan \in Nat
           /\ (a - addr) % WordSpan = k <=> a = (addr + k) % WordSpan
<1> DEFINE W == WordSpan
           d == (a - addr) % W
           e == (addr + k) % W
<1>1. W \in Nat \ {0} /\ W >= 4 /\ a \in 0 .. W - 1 /\ addr \in 0 .. W - 1
  BY FourFits, Widths DEF Word
<1> HIDE DEF W
<1>2. /\ (a - addr) \div W \in Int /\ d \in 0 .. W - 1 /\ a - addr = W * ((a - addr) \div W) + d
  BY <1>1, DivMod, a - addr \in Int
<1>3. d = IF a >= addr THEN a - addr ELSE a - addr + W
  <2>1. CASE a >= addr
    <3>1. a - addr \in 0 .. W - 1 /\ a - addr = W * 0 + (a - addr) /\ 0 \in Int /\ a - addr \in Int
      BY <1>1, <2>1
    <3>2. (a - addr) % W = a - addr
      BY <1>1, <3>1, DivIs
    <3> QED
      BY <2>1, <3>2
  <2>2. CASE ~ (a >= addr)
    <3>1. a - addr + W \in 0 .. W - 1 /\ a - addr = W * (-1) + (a - addr + W) /\ -1 \in Int /\ a - addr \in Int
      BY <1>1, <2>2
    <3>2. (a - addr) % W = a - addr + W
      BY <1>1, <3>1, DivIs
    <3> QED
      BY <2>2, <3>2
  <2> QED
    BY <2>1, <2>2
<1>4. e = IF addr + k < W THEN addr + k ELSE addr + k - W
  <2>1. CASE addr + k < W
    <3>1. addr + k \in 0 .. W - 1 /\ addr + k = W * 0 + (addr + k) /\ 0 \in Int /\ addr + k \in Int
      BY <1>1, <2>1
    <3>2. (addr + k) % W = addr + k
      BY <1>1, <3>1, DivIs
    <3> QED
      BY <2>1, <3>2
  <2>2. CASE ~ (addr + k < W)
    <3>1. addr + k - W \in 0 .. W - 1 /\ addr + k = W * 1 + (addr + k - W) /\ 1 \in Int /\ addr + k \in Int
      BY <1>1, <2>2
    <3>2. (addr + k) % W = addr + k - W
      BY <1>1, <3>1, DivIs
    <3> QED
      BY <2>2, <3>2
  <2> QED
    BY <2>1, <2>2
<1> HIDE DEF d, e
<1>5. d \in Nat /\ (d = k <=> a = e)
  BY <1>1, <1>3, <1>4
<1> QED
  BY <1>5 DEF d, e, W

(* What the reference makes of one byte of a store.                        *)
LEMMA IsaByte ==
    ASSUME NEW i, NEW s, i.name \in Sections.STORE, s.regs[i.rs2] \in Word, NEW a \in DOMAIN s.mem,
           (a - IsaAddress(i, s)) % WordSpan \in Nat
    PROVE  LET d == (a - IsaAddress(i, s)) % WordSpan
               n == StoreSize[i.name]
           IN IsaMem(i, s)[a] = IF d < n THEN ByteOf(s.regs[i.rs2] % Span(n), s.endian, n, d) ELSE s.mem[a]
<1> DEFINE d == (a - IsaAddress(i, s)) % WordSpan
           n == StoreSize[i.name]
           x == s.regs[i.rs2]
<1>1. n \in {1, 2, 4} /\ n = IsaUnit(i.name)
  BY StoreSizes
<1>2. IsaMem(i, s)[a] = IF d >= n THEN s.mem[a]
         ELSE ValueOf(StoredBits(x, Pos(s.endian, n, d)))
  <2> DEFINE m == IsaUnit(i.name)
  <2>1. IsaMem(i, s)[a] = LET k == IF s.endian = "LE" THEN d ELSE m - 1 - d
                          IN IF d >= m THEN s.mem[a]
                             ELSE ValueOf({t \in 0 .. ByteBits - 1 : t + (k * ByteBits) \in BitsOf(x)})
    BY DEF IsaMem
  <2> QED
    BY <1>1, <2>1 DEF Pos, StoredBits
<1>3. CASE d < n
  <2>1. d \in 0 .. n - 1 /\ x \in Word
    BY <1>1, <1>3
  <2> DEFINE e == s.endian
  <2> HIDE DEF d, n, x, e
  <2>2. ByteOf(x % Span(n), e, n, d)
          = ValueOf(StoredBits(x, Pos(e, n, d)))
    BY ONLY <1>1, <2>1, StoredByte
  <2>3. ~ (d >= n)
    BY <1>1, <1>3, <2>1
  <2> QED
    BY <1>2, <1>3, <2>2, <2>3 DEF d, n, x, e
<1>4. CASE ~ (d < n)
  <2>1. d >= n
    BY <1>1, <1>4
  <2> QED
    BY <1>2, <1>4, <2>1
<1> QED
  BY <1>3, <1>4

(* A read of bytes that are all in memory has one value.                   *)
LEMMA ReadInMemory ==
    ASSUME MemTyped(mem), NEW addr \in Word, NEW n \in {1, 2, 4},
           \A k \in 0 .. n - 1 : (addr + k) % WordSpan \in DOMAIN mem, NEW v \in ReadValues(addr, n)
    PROVE  v = Unit([k \in 0 .. n - 1 |-> mem[(addr + k) % WordSpan]], endian, n)
<1>1. PICK stray \in IF Overruns(mem, addr, n) THEN StrayBytes ELSE {0} :
         v = Unit([k \in 0 .. n - 1 |-> LET a == (addr + k) % WordSpan
                                        IN IF a = Size(mem) THEN stray ELSE mem[a]], endian, n)
  BY DEF ReadValues
<1>2. ASSUME NEW k \in 0 .. n - 1
      PROVE  (LET a == (addr + k) % WordSpan IN IF a = Size(mem) THEN stray ELSE mem[a])
               = mem[(addr + k) % WordSpan]
  <2> DEFINE a == (addr + k) % WordSpan
  <2>1. a \in DOMAIN mem
    OBVIOUS
  <2> HIDE DEF a
  <2>2. a # Size(mem)
    BY <2>1, MemSize
  <2> QED
    BY <2>2 DEF a
<1>3. [k \in 0 .. n - 1 |-> LET a == (addr + k) % WordSpan IN IF a = Size(mem) THEN stray ELSE mem[a]]
        = [k \in 0 .. n - 1 |-> mem[(addr + k) % WordSpan]]
  BY <1>2
<1> QED
  BY <1>1, <1>3
-----------------------------------------------------------------------------
(***************************************************************************)
(* What an instruction has computed and written in each of its phases, by  *)
(* the instruction set.                                                    *)
(***************************************************************************)
(* An access outside the memory may have read or left out a stray byte.    *)
Defined(i, s) == i.section = "LOAD" => InMemory(i, s)

NextRight    == \/ job.phase = "exec"
                \/ job.phase \in Working /\ job.ins.section \in Sequential
                => job.next = IsaPc(before)
AddressRight == job.phase \in {"load", "store", "byte"} => job.addr = IsaAddress(job.ins, before)
OperandRight == job.phase \in {"store", "byte"} =>
                   job.value = before.regs[job.ins.rs2] % Span(StoreSize[job.ins.name])
ValueRight   == job.phase = "setreg" =>
                   /\ job.ins.section \notin {"STORE", "SB"}
                   /\ job.ins.section \in Sequential /\ Defined(job.ins, before)
                        => job.value = IsaValue(job.ins, before)
BytesRight   == job.phase = "byte" =>
                   /\ regs = before.regs /\ pc = before.pc /\ endian = before.endian
                   /\ DOMAIN before.mem = DOMAIN mem
                   /\ \A a \in DOMAIN mem :
                         mem[a] = IF (a - job.addr) % WordSpan < job.k
                                  THEN IsaMem(job.ins, before)[a] ELSE before.mem[a]
DoneRight    == job.phase = "setpc" =>
                   /\ pc = before.pc /\ endian = before.endian
                   /\ job.ins.section = "STORE" => regs = before.regs /\ mem = IsaMem(job.ins, before)
                   /\ job.ins.section # "STORE" =>
                         /\ mem = before.mem
                         /\ regs = before.regs \/ \E v \in Word : regs = IsaRegs(job.ins, before, v)
                         /\ job.ins.section \in Sequential /\ Defined(job.ins, before)
                              => regs = IsaRegs(job.ins, before, IsaValue(job.ins, before))

IsaInv == NextRight /\ AddressRight /\ OperandRight /\ ValueRight /\ BytesRight /\ DoneRight

(* A dump is the end of the program.                                       *)
DumpInv == dump # None => ~ InCall /\ proc # "running"

LEMMA IdleIsa ==
    ASSUME job.phase \in {"none", "cycle", "thrown"}
    PROVE  IsaInv
  BY DEF IsaInv, NextRight, AddressRight, OperandRight, ValueRight, BytesRight, DoneRight, Working

LEMMA FetchIsa ==
    ASSUME SimInv, TypeInv, IsaInv, Fetch
    PROVE  IsaInv'
<1>1. /\ UNCHANGED <<mem, regs, pc, endian, before>> /\ job.phase = "cycle" /\ Has(job, CallFields)
      /\ Goto("thrown") \/ UNCHANGED job \/ Fetched(job')
  BY FetchIs DEF TypeInv, Fetch, In, SimInv, Shape
<1>2. CASE Fetched(job')
  <2>1. Arch = before
    BY <1>1 DEF SimInv, Place
  <2>2. job'.phase = "exec" /\ job'.next = IsaPc(before)
    BY <1>1, <1>2, <2>1 DEF Fetched, Has, CallFields
  <2> QED
    BY <1>1, <2>2 DEF IsaInv, NextRight, AddressRight, OperandRight, ValueRight, BytesRight, DoneRight
<1>3. CASE job'.phase \in {"thrown", "cycle"}
  BY <1>3, IdleIsa DEF IsaInv, NextRight, AddressRight, OperandRight, ValueRight, BytesRight, DoneRight, Working
<1> QED
  BY <1>1, <1>2, <1>3, GotoFacts

LEMMA ExecIsa ==
    ASSUME SimInv, TypeInv, IsaInv, Exec
    PROVE  IsaInv'
<1>1. Has(job, CallFields) /\ RegsTyped /\ JobTyped(job) /\ trace \in TraceSet
  BY DEF SimInv, Shape, TypeInv
<1>2. /\ UNCHANGED <<mem, regs, pc, endian, before>> /\ job.phase = "exec"
      /\ \/ Goto("thrown")
         \/ job'.ins = job.ins /\ Computed(job.ins, job')
  BY <1>1, ExecCases
<1>3. Arch = before /\ job.next = IsaPc(before) /\ pc \in Word
  BY <1>1, <1>2 DEF SimInv, Place, IsaInv, NextRight, RegsTyped
<1>4. regs = before.regs /\ pc = before.pc /\ mem = before.mem /\ endian = before.endian
  BY <1>3 DEF Arch
<1>5. CASE Goto("thrown")
  <2>1. job'.phase = "thrown"
    BY <1>1, <1>5, GotoFacts
  <2> QED
    BY <2>1 DEF IsaInv, NextRight, AddressRight, OperandRight, ValueRight, BytesRight, DoneRight, Working
<1>6. CASE job'.ins = job.ins /\ Computed(job.ins, job')
  <2> DEFINE i == job.ins
             j == job'
  <2>1. \/ /\ i.section \in {"R", "I_R", "LUI", "AUIPC"}
           /\ j.phase = "setreg" /\ j.value = IsaValue(i, before) /\ j.next = IsaPc(before)
        \/ i.section \in {"JAL", "JALR"} /\ j.phase = "setreg"
        \/ i.section = "SB" /\ j.phase = "setpc"
        \/ /\ i.section = "LOAD"
           /\ j.phase = "load" /\ j.addr = IsaAddress(i, before) /\ j.next = IsaPc(before)
        \/ /\ i.section = "STORE"
           /\ j.phase = "store" /\ j.addr = IsaAddress(i, before) /\ j.next = IsaPc(before)
           /\ j.value = before.regs[i.rs2] % Span(StoreSize[i.name])
    BY <1>3, <1>4, <1>6 DEF Computed
  <2>2. j.ins = i /\ UNCHANGED <<mem, regs, pc, endian, before>>
    BY <1>2, <1>6
  <2>3. CASE j.phase = "setreg"
    BY <2>1, <2>2, <2>3 DEF IsaInv, NextRight, AddressRight, OperandRight, ValueRight, BytesRight,
       DoneRight, Working, Sequential
  <2>4. CASE i.section = "SB" /\ j.phase = "setpc"
    BY <1>4, <2>2, <2>4 DEF IsaInv, NextRight, AddressRight, OperandRight, ValueRight, BytesRight,
       DoneRight, Working, Sequential
  <2>5. CASE j.phase \in {"load", "store"}
    BY <2>1, <2>2, <2>5 DEF IsaInv, NextRight, AddressRight, OperandRight, ValueRight, BytesRight,
       DoneRight, Working, Sequential
  <2> QED
    BY <2>1, <2>3, <2>4, <2>5
<1> QED
  BY <1>2, <1>5, <1>6

LEMMA LoadIsa ==
    ASSUME SimInv, TypeInv, IsaInv, LoadRead
    PROVE  IsaInv'
<1> DEFINE i == job.ins
           n == LoadSize[i.name]
<1>1. Has(job, CallFields) /\ JobTyped(job) /\ trace \in TraceSet /\ MemTyped(mem)
  BY DEF SimInv, Shape, TypeInv
<1>2. /\ UNCHANGED <<mem, regs, pc, endian, before>> /\ job.phase = "load"
      /\ Goto("thrown") \/ UNCHANGED job \/ Loaded(job')
  BY <1>1, LoadReadIs
<1>3. /\ Arch = before /\ job.addr = IsaAddress(i, before) /\ i.section = "LOAD"
      /\ i.name \in Sections.LOAD /\ n \in {1, 2, 4} /\ n = IsaUnit(i.name) /\ job.addr \in Word
  BY <1>1, <1>2, LoadIns, LoadUnits DEF SimInv, Place, IsaInv, AddressRight, JobTyped
<1>4. job.next = IsaPc(before)
  BY <1>2, <1>3 DEF IsaInv, NextRight, Working, Sequential
<1>5. CASE Goto("thrown")
  <2>1. job'.phase = "thrown"
    BY <1>1, <1>5, GotoFacts
  <2> QED
    BY <2>1 DEF IsaInv, NextRight, AddressRight, OperandRight, ValueRight, BytesRight, DoneRight, Working
<1>6. CASE UNCHANGED job
  BY <1>2, <1>6 DEF IsaInv, NextRight, AddressRight, OperandRight, ValueRight, BytesRight, DoneRight
<1>7. CASE Loaded(job')
  <2>1. PICK v \in ReadValues(job.addr, n) :
           job' = [job EXCEPT !.phase = "setreg", !.value = Extend(i.name, v)]
    BY <1>7 DEF Loaded
  <2>2. /\ job'.phase = "setreg" /\ job'.value = Extend(i.name, v) /\ job'.ins = i
        /\ job'.next = job.next
    BY <1>1, <2>1, LoadedFields
  <2>3. ASSUME InMemory(i, before) PROVE Extend(i.name, v) = IsaValue(i, before)
    <3>1. before.mem = mem /\ before.endian = endian
      BY <1>3 DEF Arch
    <3>2. \A k \in 0 .. n - 1 : (job.addr + k) % WordSpan \in DOMAIN mem
      BY <1>3, <2>3, <3>1 DEF InMemory
    <3>3. v = Unit([k \in 0 .. n - 1 |-> mem[(job.addr + k) % WordSpan]], endian, n)
      <4> HIDE DEF n
      <4> QED
        BY <1>1, <1>3, <2>1, <3>2, ReadInMemory
    <3>4. \A k \in 0 .. n - 1 : before.mem[(job.addr + k) % WordSpan] \in Byte
      BY <1>1, <3>1, <3>2, MemSize
    <3>5. Extend(i.name, Unit([k \in 0 .. n - 1 |-> before.mem[(job.addr + k) % WordSpan]],
                              before.endian, n))
            = IsaLoad(i.name, before, job.addr)
      BY <1>3, <3>4, LoadFollowsIsa
    <3>6. IsaValue(i, before) = IsaLoad(i.name, before, job.addr)
      BY <1>3 DEF IsaValue
    <3> QED
      BY <3>1, <3>3, <3>5, <3>6
  <2> QED
    BY <1>2, <1>3, <1>4, <2>2, <2>3 DEF IsaInv, NextRight, AddressRight, OperandRight, ValueRight,
       BytesRight, DoneRight, Working, Sequential, Defined
<1> QED
  BY <1>2, <1>5, <1>6, <1>7

LEMMA SetRegIsa ==
    ASSUME SimInv, TypeInv, IsaInv, SetReg
    PROVE  IsaInv'
<1>1. Has(job, CallFields) /\ JobTyped(job) /\ RegsTyped /\ trace \in TraceSet
  BY DEF SimInv, Shape, TypeInv
<1>2. /\ UNCHANGED <<mem, pc, endian, before>> /\ job.phase = "setreg"
      /\ \/ Goto("thrown")
         \/ /\ Goto(IF job.ins.section = "JALR" THEN "jalr" ELSE "setpc")
            /\ regs' = IsaRegs(job.ins, Arch, job.value)
  BY <1>1, SetRegIs
<1>3. Arch = before /\ mem = before.mem /\ pc = before.pc /\ endian = before.endian
  BY <1>2 DEF SimInv, Place, Arch
<1>4. CASE Goto("thrown")
  <2>1. job'.phase = "thrown"
    BY <1>1, <1>4, GotoFacts
  <2> QED
    BY <2>1 DEF IsaInv, NextRight, AddressRight, OperandRight, ValueRight, BytesRight, DoneRight, Working
<1>5. CASE /\ Goto(IF job.ins.section = "JALR" THEN "jalr" ELSE "setpc")
           /\ regs' = IsaRegs(job.ins, Arch, job.value)
  <2>1. /\ job'.phase = IF job.ins.section = "JALR" THEN "jalr" ELSE "setpc"
        /\ job'.ins = job.ins /\ job'.next = job.next
    BY <1>1, <1>2, <1>5, GotoTyped DEF Working
  <2>2. job.value \in Word /\ job.ins.section # "STORE"
    BY <1>1, <1>2 DEF JobTyped, IsaInv, ValueRight
  <2>3. job.ins.section \in Sequential => job.next = IsaPc(before)
    BY <1>2 DEF IsaInv, NextRight, Working
  <2>4. job.ins.section \in Sequential /\ Defined(job.ins, before) => job.value = IsaValue(job.ins, before)
    BY <1>2 DEF IsaInv, ValueRight
  <2>5. CASE job.ins.section = "JALR"
    BY <1>2, <2>1, <2>5 DEF IsaInv, NextRight, AddressRight, OperandRight, ValueRight, BytesRight,
       DoneRight, Working, Sequential
  <2>6. CASE job.ins.section # "JALR"
    <3>1. regs' = IsaRegs(job.ins, before, job.value)
      BY <1>3, <1>5
    <3> QED
      BY <1>2, <1>3, <2>1, <2>2, <2>3, <2>4, <2>6, <3>1 DEF IsaInv, NextRight, AddressRight, OperandRight,
         ValueRight, BytesRight, DoneRight, Working
  <2> QED
    BY <2>5, <2>6
<1> QED
  BY <1>2, <1>4, <1>5

LEMMA JalrIsa ==
    ASSUME SimInv, TypeInv, IsaInv, JalrTarget
    PROVE  IsaInv'
<1>1. /\ Has(job, CallFields) /\ JobTyped(job) /\ RegsTyped /\ job.phase = "jalr"
      /\ UNCHANGED <<mem, regs, pc, endian, before>> /\ Has(before, {"mem", "regs", "pc", "endian"})
  BY DEF SimInv, Shape, InCall, TypeInv, JalrTarget, In, Stay, archVars
<1>2. job.ins.section = "JALR" /\ Arch = [before EXCEPT !.regs = IsaRegs(job.ins, before, before.pc)]
  BY <1>1 DEF SimInv, Place, Linked
<1>3. /\ regs = IsaRegs(job.ins, before, before.pc) /\ pc = before.pc /\ endian = before.endian
      /\ mem = before.mem
  BY <1>1, <1>2 DEF Has, Arch
<1>4. before.pc \in Word
  BY <1>1, <1>3 DEF RegsTyped
<1>5. CASE Goto("thrown")
  <2>1. job'.phase = "thrown"
    BY <1>1, <1>5, GotoFacts
  <2> QED
    BY <2>1 DEF IsaInv, NextRight, AddressRight, OperandRight, ValueRight, BytesRight, DoneRight, Working
<1>6. CASE \E t : job' = [job EXCEPT !.phase = "setpc", !.next = t]
  <2>1. job'.phase = "setpc" /\ job'.ins = job.ins
    BY <1>1, <1>6 DEF Has, CallFields
  <2> QED
    BY <1>1, <1>2, <1>3, <1>4, <2>1 DEF IsaInv, NextRight, AddressRight, OperandRight,
         ValueRight, BytesRight, DoneRight, Working, Sequential
<1> QED
  BY <1>5, <1>6 DEF JalrTarget

LEMMA StoreBeginIsa ==
    ASSUME SimInv, TypeInv, IsaInv, StoreBegin
    PROVE  IsaInv'
<1>1. Has(job, CallFields) /\ JobTyped(job) /\ trace \in TraceSet /\ MemTyped(mem)
  BY DEF SimInv, Shape, TypeInv
<1>2. /\ UNCHANGED <<mem, regs, pc, endian, before>> /\ job.phase = "store"
      /\ \/ Goto("thrown")
         \/ /\ job'.phase = "byte" /\ job'.k = 0 /\ job'.ins = job.ins /\ job'.value = job.value
            /\ job'.addr = job.addr /\ job'.next = job.next
  BY <1>1, StoreBeginIs
<1>3. /\ mem = before.mem /\ regs = before.regs /\ pc = before.pc /\ endian = before.endian
  BY <1>2 DEF SimInv, Place, Arch
<1>4. /\ job.addr = IsaAddress(job.ins, before) /\ job.ins.section = "STORE" /\ job.next = IsaPc(before)
      /\ job.value = before.regs[job.ins.rs2] % Span(StoreSize[job.ins.name]) /\ job.addr \in Word
  BY <1>1, <1>2, StoreIns DEF IsaInv, AddressRight, OperandRight, NextRight, Working, Sequential, JobTyped
<1>5. CASE Goto("thrown")
  <2>1. job'.phase = "thrown"
    BY <1>1, <1>5, GotoFacts
  <2> QED
    BY <2>1 DEF IsaInv, NextRight, AddressRight, OperandRight, ValueRight, BytesRight, DoneRight, Working
<1>6. CASE /\ job'.phase = "byte" /\ job'.k = 0 /\ job'.ins = job.ins /\ job'.value = job.value
           /\ job'.addr = job.addr /\ job'.next = job.next
  <2>1. ASSUME NEW a \in DOMAIN mem PROVE ~ ((a - job.addr) % WordSpan < 0)
    <3>1. a \in Word
      <4>1. Size(mem) \in Nat /\ DOMAIN mem = 0 .. Size(mem) - 1 /\ Size(mem) <= WordSpan /\ WordSpan \in Nat
        BY <1>1, MemSize, FourFits
      <4> HIDE DEF WordSpan
      <4> QED
        BY <4>1 DEF Word
    <3>2. (a - job.addr) % WordSpan \in Nat
      BY <1>4, <3>1, Distance, 0 \in 0 .. 3
    <3> QED
      BY <3>2
  <2>2. BytesRight'
    BY <1>2, <1>3, <1>6, <2>1 DEF BytesRight
  <2> QED
    BY <1>2, <1>4, <1>6, <2>2 DEF IsaInv, NextRight, AddressRight, OperandRight,
         ValueRight, DoneRight, Working, Sequential
<1> QED
  BY <1>2, <1>5, <1>6

LEMMA MemPlaces ==
    ASSUME MemTyped(mem), NEW a \in DOMAIN mem
    PROVE  a \in Word
<1>1. Size(mem) \in Nat /\ DOMAIN mem = 0 .. Size(mem) - 1 /\ Size(mem) <= WordSpan /\ WordSpan \in Nat
  BY MemSize, FourFits
<1> HIDE DEF WordSpan
<1> QED
  BY <1>1 DEF Word

Near == 0 .. 3

LEMMA NearDistance ==
    \A a \in Word, addr \in Word, k \in Near :
        (a - addr) % WordSpan \in Nat /\ ((a - addr) % WordSpan = k <=> a = (addr + k) % WordSpan)
  BY Distance DEF Near

LEMMA StoreByteIsa ==
    ASSUME SimInv, TypeInv, IsaInv, StoreByte
    PROVE  IsaInv'
<1> DEFINE i == job.ins
           n == StoreSize[i.name]
           x == before.regs[i.rs2]
           place == (job.addr + job.k) % WordSpan
           b == ByteOf(job.value, endian, n, job.k)
           D(a) == (a - job.addr) % WordSpan
           after == IsaMem(i, before)
<1>1. Has(job, CallFields) /\ JobTyped(job) /\ MemTyped(mem) /\ RegsTyped
  BY DEF SimInv, Shape, TypeInv
<1>2. /\ job.phase = "byte" /\ UNCHANGED <<regs, pc, endian, before>>
      /\ job.k \in 0 .. n - 1 /\ n \in {1, 2, 4}
      /\ mem' = [y \in DOMAIN mem |-> IF y = place THEN b ELSE mem[y]]
      /\ job'.k = job.k + 1 /\ job'.phase = IF job.k + 1 = n THEN "setpc" ELSE "byte"
      /\ job'.ins = i /\ job'.value = job.value /\ job'.addr = job.addr /\ job'.next = job.next
  BY <1>1, StoreByteIs
<1>3. /\ regs = before.regs /\ pc = before.pc /\ endian = before.endian
      /\ DOMAIN before.mem = DOMAIN mem
      /\ \A a \in DOMAIN mem : mem[a] = IF D(a) < job.k THEN after[a] ELSE before.mem[a]
  BY <1>2 DEF IsaInv, BytesRight
<1>4. /\ job.addr = IsaAddress(i, before) /\ i.section = "STORE" /\ job.next = IsaPc(before)
      /\ i.name \in Sections.STORE
      /\ job.value = x % Span(n) /\ job.addr \in Word /\ x \in Word
  <2>1. regs[i.rs2] \in Word
    BY <1>1, Operands
  <2> QED
    BY <1>1, <1>2, <1>3, <2>1, StoreIns DEF IsaInv, AddressRight, OperandRight, NextRight, Working,
       Sequential, JobTyped
<1>5. ASSUME NEW a \in DOMAIN mem
      PROVE  /\ D(a) \in Nat
             /\ D(a) = job.k <=> a = place
             /\ after[a] = IF D(a) < n THEN ByteOf(x % Span(n), endian, n, D(a)) ELSE before.mem[a]
  <2>1. a \in Word /\ job.k \in Near
    BY <1>1, <1>2, MemPlaces DEF Near
  <2>2. D(a) \in Nat /\ (D(a) = job.k <=> a = place)
    BY <1>4, <2>1, NearDistance
  <2>3. (a - IsaAddress(i, before)) % WordSpan = D(a)
    BY <1>4
  <2>4. a \in DOMAIN before.mem
    BY <1>3
  <2> HIDE DEF D, n, x, i, place, b
  <2>5. IsaMem(i, before)[a] = LET d == (a - IsaAddress(i, before)) % WordSpan
                                   m == StoreSize[i.name]
                               IN IF d < m THEN ByteOf(before.regs[i.rs2] % Span(m), before.endian, m, d)
                                           ELSE before.mem[a]
    BY <1>4, <2>2, <2>3, <2>4, IsaByte DEF x
  <2> QED
    BY <1>3, <2>2, <2>3, <2>5 DEF n, x
<1>6. ASSUME NEW a \in DOMAIN mem
      PROVE  mem'[a] = IF D(a) < job.k + 1 THEN after[a] ELSE before.mem[a]
  <2>1. /\ D(a) \in Nat
        /\ D(a) = job.k <=> a = place
        /\ after[a] = IF D(a) < n THEN ByteOf(x % Span(n), endian, n, D(a)) ELSE before.mem[a]
    BY <1>5
  <2>2. mem[a] = IF D(a) < job.k THEN after[a] ELSE before.mem[a]
    BY <1>3
  <2>3. mem'[a] = IF a = place THEN b ELSE mem[a]
    BY <1>2
  <2>4. job.k \in Nat /\ job.k < n /\ n \in Nat
    BY <1>2
  <2>5. b = ByteOf(x % Span(n), endian, n, job.k)
    BY <1>4
  <2> HIDE DEF D, n, x, place, b, after
  <2>6. CASE a = place
    BY <2>1, <2>3, <2>4, <2>5, <2>6
  <2>7. CASE a # place
    BY <2>1, <2>2, <2>3, <2>4, <2>7
  <2> QED
    BY <2>6, <2>7
<1>7. DOMAIN mem' = DOMAIN mem
  BY <1>2
<1>8. CASE job.k + 1 = n
  <2>1. job'.phase = "setpc"
    BY <1>2, <1>8
  <2>2. mem' = after
    <3>1. ASSUME NEW a \in DOMAIN mem PROVE mem'[a] = after[a]
      <4>1. /\ mem'[a] = IF D(a) < n THEN after[a] ELSE before.mem[a]
            /\ after[a] = IF D(a) < n THEN ByteOf(x % Span(n), endian, n, D(a)) ELSE before.mem[a]
        BY <1>5, <1>6, <1>8
      <4> HIDE DEF D, after, n
      <4> QED
        BY <4>1
    <3>2. DOMAIN after = DOMAIN mem /\ after = [a \in DOMAIN mem |-> after[a]]
      BY <1>3 DEF IsaMem
    <3>3. mem' = [a \in DOMAIN mem |-> mem'[a]]
      BY <1>2
    <3> HIDE DEF after
    <3> QED
      BY <3>1, <3>2, <3>3
  <2>3. UNCHANGED <<regs, pc, endian, before>> /\ job'.ins = i /\ job'.next = job.next
    BY <1>2
  <2>4. IsaMem(i, before)' = IsaMem(i, before) /\ mem' = IsaMem(job'.ins, before')
    BY <2>2, <2>3
  <2> HIDE DEF after, i, n, x, b, place, D
  <2> QED
    BY <1>3, <1>4, <2>1, <2>3, <2>4 DEF IsaInv, NextRight, AddressRight, OperandRight,
         ValueRight, BytesRight, DoneRight, Working, Sequential, i
<1>9. CASE job.k + 1 # n
  <2>1. job'.phase = "byte"
    BY <1>2, <1>9
  <2>2. UNCHANGED <<regs, pc, endian, before>> /\ job'.ins = i /\ job'.next = job.next
        /\ job'.addr = job.addr /\ job'.value = job.value /\ job'.k = job.k + 1
    BY <1>2
  <2>3. BytesRight'
    <3>1. \A a \in DOMAIN mem' :
             mem'[a] = IF (a - job'.addr) % WordSpan < job'.k
                       THEN IsaMem(job'.ins, before')[a] ELSE before'.mem[a]
      BY <1>6, <1>7, <2>2
    <3> QED
      BY <1>3, <1>7, <2>2, <3>1 DEF BytesRight
  <2> HIDE DEF after, n, x, b, place, D
  <2> QED
    BY <1>4, <2>1, <2>2, <2>3 DEF IsaInv, NextRight, AddressRight, OperandRight,
         ValueRight, DoneRight, Working, Sequential, n, x
<1> QED
  BY <1>8, <1>9
-----------------------------------------------------------------------------
(***************************************************************************)
(* Every step keeps what an instruction has computed, and what it leaves.  *)
(***************************************************************************)
LEMMA IdleNext == ASSUME job'.phase \in {"none", "cycle", "thrown"} PROVE IsaInv'
  BY DEF IsaInv, NextRight, AddressRight, OperandRight, ValueRight, BytesRight, DoneRight, Working

LEMMA StillIsa == ASSUME IsaInv, UNCHANGED <<mem, regs, pc, endian, job, before>> PROVE IsaInv'
  BY DEF IsaInv, NextRight, AddressRight, OperandRight, ValueRight, BytesRight, DoneRight

LEMMA MicroIsa ==
    ASSUME SimInv, TypeInv, IsaInv, MicroStep
    PROVE  IsaInv'
<1>1. Has(job, CallFields)
  BY DEF SimInv, Shape
<1>2. CASE Invalid
  <2>1. job'.phase = "thrown"
    BY <1>1, <1>2, GotoFacts DEF Invalid, Throw
  <2> QED
    BY <2>1, IdleNext
<1>3. CASE SetPc
  <2>1. job'.phase = "cycle"
    BY <1>1, <1>3, GotoFacts DEF SetPc
  <2> QED
    BY <2>1, IdleNext
<1>4. CASE Return
  BY <1>4, NoCallFacts, IdleNext DEF Return
<1>5. CASE StoreAborts
  BY <1>5, StillIsa DEF StoreAborts, Abort, Stay, archVars
<1> QED
  BY <1>2, <1>3, <1>4, <1>5, FetchIsa, ExecIsa, LoadIsa, SetRegIsa, JalrIsa, StoreBeginIsa, StoreByteIsa
     DEF MicroStep

(* In a call the program can only be interrupted, and a DPI function only  *)
(* catch what the step throws.                                             *)
LEMMA AppInCall ==
    ASSUME SimInv, host = "app", AppStep, InCall
    PROVE  Interrupt
<1>1. at \in {"step", "simple_step"}
  BY DEF SimInv, Hosted
<1> QED
  BY <1>1 DEF AppStep, Start, SimpleLoad, SimpleStep, SimpleDone, ReadLine, ShowCmd, Quit,
     LoadCmd, Tracing, TouchPc, StepCmd, StepCmdDone, Disas, Eval

LEMMA DpiInCall ==
    ASSUME SimInv, host = "dpi", DpiStep, InCall
    PROVE  StepThrew
  BY SMTT(60) DEF DpiStep, DpiInit, DumpState, SetMem, GetMem, GetReg, SetRegCall, GetPc, SetPcCall,
     StepBegin, StepEnd, Called, Idle

LEMMA CallPhase == ASSUME NEW n, StepCall(n) PROVE job'.phase \in {"thrown", "cycle"}
  BY DEF StepCall, NoCall

LEMMA AppIsa ==
    ASSUME SimInv, IsaInv, host = "app", AppStep
    PROVE  IsaInv'
<1>1. ASSUME NEW d, Exit(d) PROVE IsaInv'
  BY <1>1, NoCallFacts, IdleNext DEF Exit
<1>2. CASE InCall
  <2>1. Interrupt
    BY <1>2, AppInCall
  <2> QED
    BY <1>1, <2>1, StillIsa DEF Interrupt, archVars
<1>3. CASE ~ InCall
  <2>1. job.phase = "none"
    BY <1>3 DEF InCall
  <2>2. CASE UNCHANGED job
    BY <2>1, <2>2, IdleNext
  <2>3. CASE SimpleStep \/ StepCmd
    BY <2>3, CallPhase, IdleNext DEF SimpleStep, StepCmd
  <2>4. CASE Start
    BY <1>1, <2>2, <2>4 DEF Start, Fail
  <2>5. CASE SimpleLoad \/ SimpleDone
    BY <1>1, <2>2, <2>5 DEF SimpleLoad, SimpleDone, Fail
  <2>6. CASE ReadLine \/ ShowCmd \/ Quit \/ StepCmdDone
    BY <1>1, <2>2, <2>6 DEF ReadLine, ShowCmd, Quit, StepCmdDone, Fail, NoModel, modelVars
  <2>7. CASE LoadCmd \/ Tracing \/ TouchPc
    BY <2>2, <2>7 DEF LoadCmd, Tracing, TouchPc
  <2>8. CASE Disas \/ Interrupt
    BY <1>1, <2>2, <2>8 DEF Disas, Interrupt, NoModel, modelVars
  <2> QED
    BY <2>3, <2>4, <2>5, <2>6, <2>7, <2>8 DEF AppStep
<1> QED
  BY <1>2, <1>3

LEMMA DpiIsa ==
    ASSUME SimInv, IsaInv, host = "dpi", DpiStep
    PROVE  IsaInv'
<1>1. CASE InCall
  BY <1>1, DpiInCall, NoCallFacts, IdleNext DEF StepThrew
<1>2. CASE ~ InCall
  <2>1. job.phase = "none"
    BY <1>2 DEF InCall
  <2>2. CASE UNCHANGED job
    BY <2>1, <2>2, IdleNext
  <2>3. CASE DpiInit \/ DumpState \/ SetMem
    <3>1. DpiInit => UNCHANGED job
      BY DEF DpiInit
    <3>2. SetMem => UNCHANGED job
      BY DEF SetMem, AnnounceFails, Keep
    <3>3. DumpState => UNCHANGED job
      BY DEF DumpState, Keep
    <3> QED
      BY <2>2, <2>3, <3>1, <3>2, <3>3
  <2>4. CASE GetMem \/ GetReg \/ SetRegCall
    BY <2>2, <2>4, SMTT(60) DEF GetMem, GetReg, SetRegCall, AnnounceFails, BadReg, Keep
  <2>5. CASE GetPc \/ SetPcCall \/ StepEnd
    BY <2>2, <2>5 DEF GetPc, SetPcCall, StepEnd, AnnounceFails, Keep, modelVars
  <2>6. CASE StepBegin
    BY <2>2, <2>6, CallPhase, IdleNext DEF StepBegin, AnnounceFails, Keep
  <2>7. CASE StepThrew
    BY <2>7, NoCallFacts, IdleNext DEF StepThrew
  <2> QED
    BY <2>3, <2>4, <2>5, <2>6, <2>7 DEF DpiStep
<1> QED
  BY <1>1, <1>2

LEMMA IsaKeeps == SimInv /\ TypeInv /\ IsaInv /\ [Next]_vars => IsaInv'
<1> SUFFICES ASSUME SimInv, TypeInv, IsaInv, [Next]_vars PROVE IsaInv'
  OBVIOUS
<1>1. CASE UNCHANGED vars
  BY <1>1, StillIsa DEF vars, modelVars
<1> QED
  BY <1>1, MicroIsa, AppIsa, DpiIsa DEF Next

LEMMA AlwaysIsaInv == Spec => []IsaInv
<1>1. SimInit => IsaInv
  BY NoCallFacts, IdleIsa DEF SimInit, Init
<1> QED
  BY <1>1, IsaKeeps, AlwaysSimInv, AlwaysTypeInv, PTL DEF Spec

LEMMA DumpKeeps == SimInv /\ DumpInv /\ [Next]_vars => DumpInv'
<1> SUFFICES ASSUME SimInv, DumpInv, [Next]_vars PROVE DumpInv'
  OBVIOUS
<1>1. ASSUME UNCHANGED dump, dump # None => UNCHANGED <<job, proc>> PROVE DumpInv'
  BY <1>1 DEF DumpInv, InCall
<1>2. ASSUME NEW d, Exit(d) PROVE DumpInv'
  BY <1>2, NoCallFacts DEF Exit, DumpInv, InCall
<1>3. CASE UNCHANGED vars
  BY <1>1, <1>3 DEF vars, modelVars, appVars
<1>4. CASE MicroStep /\ UNCHANGED appVars
  <2>1. dump = None
    BY <1>4 DEF DumpInv, MicroStep, Fetch, Invalid, Exec, LoadRead, SetReg, JalrTarget, StoreBegin,
       StoreByte, StoreAborts, SetPc, Return, In
  <2> QED
    BY <1>1, <1>4, <2>1 DEF appVars
<1>5. CASE DpiStep /\ UNCHANGED appVars
  <2>1. proc = "running"
    BY <1>5 DEF DpiStep, DpiInit, DumpState, SetMem, GetMem, GetReg, SetRegCall, GetPc, SetPcCall,
       StepBegin, StepEnd, StepThrew, Called, Idle, In
  <2> QED
    BY <1>1, <1>5, <2>1 DEF appVars, DumpInv
<1>6. CASE AppStep
  <2>1. ASSUME proc = "running", UNCHANGED dump PROVE DumpInv'
    BY <1>1, <2>1 DEF DumpInv
  <2>2. CASE Start
    BY <1>2, <2>1, <2>2 DEF Start, Fail
  <2>3. CASE SimpleLoad \/ SimpleStep \/ SimpleDone
    BY <1>2, <2>1, <2>3 DEF SimpleLoad, SimpleStep, SimpleDone, Fail, Quiet
  <2>4. CASE ReadLine \/ ShowCmd
    BY <1>2, <2>1, <2>4 DEF ReadLine, ShowCmd, Fail, Prompt, Quiet
  <2>5. CASE Quit \/ LoadCmd \/ Tracing \/ TouchPc
    BY <1>2, <2>1, <2>5 DEF Quit, LoadCmd, Tracing, TouchPc, Eval, Prompt, Quiet
  <2>6. CASE StepCmd \/ StepCmdDone
    BY <2>1, <2>6 DEF StepCmd, StepCmdDone, Eval, Prompt, Quiet
  <2>7. CASE Disas \/ Interrupt
    BY <1>2, <2>1, <2>7 DEF Disas, Interrupt, Eval, Prompt, Quiet, appVars
  <2> QED
    BY <1>6, <2>2, <2>3, <2>4, <2>5, <2>6, <2>7 DEF AppStep
<1> QED
  BY <1>3, <1>4, <1>5, <1>6 DEF Next

LEMMA AlwaysDumpInv == Spec => []DumpInv
<1>1. SimInit => DumpInv
  BY DEF SimInit, AppInit, DumpInv
<1> QED
  BY <1>1, DumpKeeps, AlwaysSimInv, PTL DEF Spec
-----------------------------------------------------------------------------
(***************************************************************************)
(* What retires, and what a dump shows.                                    *)
(***************************************************************************)
ArchFields == {"mem", "regs", "pc", "endian"}

ArchOf(m, r, p, e) == [mem |-> m, regs |-> r, pc |-> p, endian |-> e]

LEMMA WholeArch == ASSUME NEW x, Has(x, ArchFields) PROVE x = ArchOf(x.mem, x.regs, x.pc, x.endian)
  BY DEF Has, ArchFields, ArchOf

LEMMA ArchEdits ==
    ASSUME NEW b, Has(b, ArchFields), NEW m, NEW r, NEW p
    PROVE  /\ [b EXCEPT !.pc = p, !.mem = m] = ArchOf(m, b.regs, p, b.endian)
           /\ [b EXCEPT !.pc = p, !.regs = r] = ArchOf(b.mem, r, p, b.endian)
           /\ [b EXCEPT !.regs = r] = ArchOf(b.mem, r, b.pc, b.endian)
<1>1. /\ Has([b EXCEPT !.pc = p, !.mem = m], ArchFields)
      /\ [b EXCEPT !.pc = p, !.mem = m].mem = m /\ [b EXCEPT !.pc = p, !.mem = m].pc = p
      /\ [b EXCEPT !.pc = p, !.mem = m].regs = b.regs /\ [b EXCEPT !.pc = p, !.mem = m].endian = b.endian
  BY DEF Has, ArchFields
<1>2. /\ Has([b EXCEPT !.pc = p, !.regs = r], ArchFields)
      /\ [b EXCEPT !.pc = p, !.regs = r].mem = b.mem /\ [b EXCEPT !.pc = p, !.regs = r].pc = p
      /\ [b EXCEPT !.pc = p, !.regs = r].regs = r /\ [b EXCEPT !.pc = p, !.regs = r].endian = b.endian
  BY DEF Has, ArchFields
<1>3. /\ Has([b EXCEPT !.regs = r], ArchFields)
      /\ [b EXCEPT !.regs = r].mem = b.mem /\ [b EXCEPT !.regs = r].pc = b.pc
      /\ [b EXCEPT !.regs = r].regs = r /\ [b EXCEPT !.regs = r].endian = b.endian
  BY DEF Has, ArchFields
<1>4. [b EXCEPT !.pc = p, !.mem = m] = ArchOf(m, b.regs, p, b.endian)
  BY <1>1, WholeArch
<1>5. [b EXCEPT !.pc = p, !.regs = r] = ArchOf(b.mem, r, p, b.endian)
  BY <1>2, WholeArch
<1>6. [b EXCEPT !.regs = r] = ArchOf(b.mem, r, b.pc, b.endian)
  BY <1>3, WholeArch
<1> QED
  BY <1>4, <1>5, <1>6

(* Only the end of an instruction retires it.                              *)
LEMMA RetiresIs ==
    ASSUME SimInv, Next, Retires
    PROVE  SetPc
<1>1. retired' # retired
  BY DEF Retires, SimInv, Shape
<1>2. CASE host = "app" /\ AppStep
  <2>1. ASSUME UNCHANGED retired PROVE FALSE
    BY <1>1, <2>1
  <2>2. CASE Start \/ SimpleLoad \/ SimpleStep \/ SimpleDone
    BY <2>1, <2>2 DEF Start, SimpleLoad, SimpleStep, SimpleDone, Fail, Exit
  <2>3. CASE ReadLine \/ ShowCmd \/ Quit \/ LoadCmd
    BY <2>1, <2>3 DEF ReadLine, ShowCmd, Quit, LoadCmd, Fail, Exit, NoModel, modelVars
  <2>4. CASE Tracing \/ TouchPc \/ StepCmd \/ StepCmdDone
    BY <2>1, <2>4 DEF Tracing, TouchPc, StepCmd, StepCmdDone, NoModel, modelVars
  <2>5. CASE Disas \/ Interrupt
    BY <2>1, <2>5 DEF Disas, Interrupt, Exit, NoModel, modelVars
  <2> QED
    BY <1>2, <2>2, <2>3, <2>4, <2>5 DEF AppStep
<1>3. CASE host = "dpi" /\ DpiStep
  <2>1. ASSUME UNCHANGED retired PROVE FALSE
    BY <1>1, <2>1
  <2>2. CASE DpiInit \/ DumpState
    BY <2>1, <2>2 DEF DpiInit, DumpState, Keep
  <2>3. CASE SetMem
    <3>1. UNCHANGED retired
      BY <2>3, SMTT(60) DEF SetMem, AnnounceFails, Keep
    <3> QED
      BY <2>1, <3>1
  <2>4. CASE GetMem \/ GetReg
    BY <2>1, <2>4 DEF GetMem, GetReg, AnnounceFails, BadReg, Keep
  <2>5. CASE SetRegCall \/ GetPc \/ SetPcCall
    BY <2>1, <2>5 DEF SetRegCall, GetPc, SetPcCall, AnnounceFails, BadReg, Keep
  <2>6. CASE StepBegin \/ StepEnd \/ StepThrew
    BY <2>1, <2>6 DEF StepBegin, StepEnd, StepThrew, AnnounceFails, Keep, modelVars
  <2> QED
    BY <1>3, <2>2, <2>3, <2>4, <2>5, <2>6 DEF DpiStep
<1>4. CASE MicroStep
  BY <1>1, <1>4 DEF MicroStep, Fetch, Invalid, Exec, LoadRead, SetReg, JalrTarget, StoreBegin, StoreByte,
     StoreAborts, Return, Stay
<1> QED
  BY <1>2, <1>3, <1>4 DEF Next

LEMMA SetPcFollows ==
    ASSUME SimInv, IsaInv, SetPc, job.ins.section \in Sequential,
           job.ins.section \in {"LOAD", "STORE"} => InMemory(job.ins, before)
    PROVE  Arch' = IsaAfter(job.ins, before)
<1> DEFINE i == job.ins
<1>1. /\ job.phase = "setpc" /\ pc' = job.next /\ UNCHANGED <<mem, regs, endian>>
      /\ Has(before, ArchFields)
  BY DEF SetPc, In, SimInv, Shape, InCall, ArchFields
<1>2. job.next = IsaPc(before) /\ endian = before.endian
  BY <1>1 DEF IsaInv, NextRight, DoneRight, Working
<1>3. Arch' = ArchOf(mem, regs, IsaPc(before), before.endian)
  BY <1>1, <1>2 DEF Arch, ArchOf
<1>4. CASE i.section = "STORE"
  <2>1. regs = before.regs /\ mem = IsaMem(i, before)
    BY <1>1, <1>4 DEF IsaInv, DoneRight
  <2>2. IsaAfter(i, before) = [before EXCEPT !.pc = IsaPc(before), !.mem = IsaMem(i, before)]
    BY <1>4 DEF IsaAfter
  <2>3. IsaAfter(i, before) = ArchOf(IsaMem(i, before), before.regs, IsaPc(before), before.endian)
    BY <1>1, <2>2, ArchEdits
  <2> QED
    BY <1>3, <2>1, <2>3
<1>5. CASE i.section # "STORE"
  <2>1. Defined(i, before)
    BY DEF Defined
  <2>2. mem = before.mem /\ regs = IsaRegs(i, before, IsaValue(i, before))
    BY <1>1, <1>5, <2>1 DEF IsaInv, DoneRight
  <2>3. IsaAfter(i, before) = [before EXCEPT !.pc = IsaPc(before), !.regs = IsaRegs(i, before, IsaValue(i, before))]
    BY <1>5 DEF IsaAfter
  <2>4. IsaAfter(i, before) = ArchOf(before.mem, IsaRegs(i, before, IsaValue(i, before)), IsaPc(before), before.endian)
    BY <1>1, <2>3, ArchEdits
  <2> QED
    BY <1>3, <2>2, <2>4
<1> QED
  BY <1>4, <1>5

(* Every instruction that retires and is no jump or branch has left the    *)
(* registers, the pc and the memory that RV32I says (core.h, memory.h, the *)
(* executors of riscv/*.h), for every program, operand and memory size.    *)
THEOREM StepsFollow == Spec => StepsFollowTheIsa
<1> DEFINE Followed == Retires /\ job.ins.section \in Sequential
                       /\ (job.ins.section \in {"LOAD", "STORE"} => InMemory(job.ins, before))
                       => Arch' = IsaAfter(job.ins, before)
<1>1. ASSUME SimInv, IsaInv, Next PROVE Followed
  BY <1>1, RetiresIs, SetPcFollows
<1>2. SimInv /\ IsaInv /\ [Next]_vars => [Followed]_vars
  BY <1>1
<1> QED
  BY <1>2, AlwaysSimInv, AlwaysIsaInv, PTL DEF Spec, StepsFollowTheIsa

LEMMA DumpIs ==
    ASSUME SimInv, DumpInv, Next, InCall, dump' # None
    PROVE  dump' = Arch
<1>1. dump = None
  BY DEF DumpInv
<1>2. host = "app" /\ AppStep
  BY <1>1 DEF Next, appVars
<1>3. Interrupt
  BY <1>2, AppInCall
<1> QED
  BY <1>1, <1>3 DEF Interrupt, Exit, appVars

(* The state in the middle of an instruction.                              *)
LEMMA StateInStep ==
    ASSUME SimInv, TypeInv, IsaInv, InCall
    PROVE  /\ Arch.pc = before.pc
           /\ \/ Arch = before
              \/ \E v \in Word : Arch = [before EXCEPT !.regs = IsaRegs(job.ins, before, v)]
              \/ /\ job.ins.section = "STORE" /\ Arch.regs = before.regs
                 /\ LET after == IsaAfter(job.ins, before).mem
                    IN \A a \in DOMAIN mem : Arch.mem[a] \in {before.mem[a], after[a]}
<1> DEFINE i == job.ins
<1>1. /\ Has(before, ArchFields) /\ job.phase \in Phases \ {"none"} /\ pc \in Word
      /\ Arch.mem = mem /\ Arch.regs = regs /\ Arch.pc = pc
  BY DEF SimInv, Shape, InCall, ArchFields, TypeInv, RegsTyped, Arch
<1>2. CASE Arch = before
  BY <1>2
<1>3. CASE Linked
  <2>1. Arch = [before EXCEPT !.regs = IsaRegs(i, before, before.pc)]
    BY <1>3 DEF Linked
  <2>2. Arch.pc = before.pc
    BY <1>1, <2>1 DEF Has, ArchFields
  <2> QED
    BY <1>1, <2>1, <2>2
<1>4. ASSUME i.section = "STORE"
      PROVE  IsaAfter(i, before).mem = IsaMem(i, before)
  <2>1. IsaAfter(i, before) = [before EXCEPT !.pc = IsaPc(before), !.mem = IsaMem(i, before)]
    BY <1>4 DEF IsaAfter
  <2>2. IsaAfter(i, before) = ArchOf(IsaMem(i, before), before.regs, IsaPc(before), before.endian)
    BY <1>1, <2>1, ArchEdits
  <2> QED
    BY <2>2 DEF ArchOf
<1>5. CASE job.phase = "byte"
  <2>1. i.section = "STORE"
    BY <1>5 DEF TypeInv, JobTyped
  <2>2. BytesRight
    BY DEF IsaInv
  <2>3. /\ regs = before.regs /\ pc = before.pc
        /\ \A a \in DOMAIN mem : mem[a] \in {before.mem[a], IsaMem(i, before)[a]}
    BY <1>5, <2>2 DEF BytesRight
  <2> QED
    BY <1>1, <1>4, <2>1, <2>3
<1>6. CASE job.phase = "setpc"
  <2>1. DoneRight
    BY DEF IsaInv
  <2>2. pc = before.pc /\ endian = before.endian
    BY <1>6, <2>1 DEF DoneRight
  <2>3. CASE i.section = "STORE"
    BY <1>1, <1>4, <1>6, <2>1, <2>2, <2>3 DEF DoneRight
  <2>4. CASE i.section # "STORE"
    <3>1. mem = before.mem /\ (regs = before.regs \/ \E v \in Word : regs = IsaRegs(i, before, v))
      BY <1>6, <2>1, <2>4 DEF DoneRight
    <3>2. Arch = ArchOf(before.mem, regs, before.pc, before.endian)
      BY <2>2, <3>1 DEF Arch, ArchOf
    <3>3. Arch.pc = before.pc
      BY <1>1, <2>2
    <3>4. CASE regs = before.regs
      BY <1>1, <3>2, <3>3, <3>4, WholeArch
    <3>5. ASSUME NEW v \in Word, regs = IsaRegs(i, before, v)
          PROVE  Arch = [before EXCEPT !.regs = IsaRegs(i, before, v)]
      BY <1>1, <3>2, <3>5, ArchEdits
    <3> QED
      BY <3>1, <3>3, <3>4, <3>5
  <2> QED
    BY <2>3, <2>4
<1> QED
  BY <1>1, <1>2, <1>3, <1>5, <1>6 DEF SimInv, Place, Phases

(* Whenever Ctrl-C stops a step (sigint_handler of main.cpp), what is      *)
(* dumped is the state the last retired instruction left, with at most the *)
(* register or some bytes of the store of the one it stopped, for every    *)
(* program and every moment.                                               *)
THEOREM DumpsAreOneWriteAhead == Spec => DumpIsOneWriteAhead
<1> DEFINE Ahead == InCall /\ dump' # None =>
        /\ dump'.pc = before.pc
        /\ \/ dump' = before
           \/ \E v \in Word : dump' = [before EXCEPT !.regs = IsaRegs(job.ins, before, v)]
           \/ /\ job.ins.section = "STORE" /\ dump'.regs = before.regs
              /\ LET after == IsaAfter(job.ins, before).mem
                 IN \A a \in DOMAIN mem : dump'.mem[a] \in {before.mem[a], after[a]}
<1>1. ASSUME SimInv, TypeInv, IsaInv, DumpInv, Next PROVE Ahead
  <2> SUFFICES ASSUME InCall, dump' # None PROVE Ahead
    OBVIOUS
  <2>1. dump' = Arch
    BY <1>1, DumpIs
  <2> QED
    BY <1>1, <2>1, StateInStep
<1>2. SimInv /\ TypeInv /\ IsaInv /\ DumpInv /\ [Next]_vars => [Ahead]_vars
  BY <1>1
<1> QED
  BY <1>2, AlwaysSimInv, AlwaysTypeInv, AlwaysIsaInv, AlwaysDumpInv, PTL DEF Spec, DumpIsOneWriteAhead
=============================================================================
