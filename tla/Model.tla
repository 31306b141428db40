-------------------------------- MODULE Model --------------------------------
(***************************************************************************)
(* The model library of the simulator (src/sim/model): memory, the core,   *)
(* the trace it writes to, and step(n), one micro-step per effect.         *)
(*                                                                         *)
(* A call of step runs through phases: "cycle" (the loop of Model::cycle), *)
(* "exec" (operands, memory reads), "setreg", "store" (byte by byte),      *)
(* "jalr" (the read of rs1 that follows the write of rd) and "setpc". An   *)
(* exception takes it to "thrown", the loop's end to "done"; the caller    *)
(* takes it from there. A failed assertion ends the process.               *)
(***************************************************************************)
EXTENDS Isa

CONSTANTS PageBytes,      (* page_t::BYTE_SIZE                             *)
          Decode(_),      (* the instruction a word encodes                *)
          StrayBytes,     (* what the place after the last page may hold   *)
          None

ASSUME PageAssumption == PageBytes \in Nat \ {0} /\ WordSpan % PageBytes = 0

(* The fields of a format: register numbers, and a signed immediate.       *)
IsDecoded(i) == i.rd \in RegId /\ i.rs1 \in RegId /\ i.rs2 \in RegId /\ i.imm \in Immediate
ASSUME DecodeAssumption == \A w \in Word : IsDecoded(Decode(w))
ASSUME StrayAssumption == StrayBytes \subseteq Byte

VARIABLES mem,            (* region_t: address -> byte                     *)
          endian, regs, pc,
          trace,          (* Trace and the core's pointer to it            *)
          config, status, (* Config (allow_resize, isDPI) and Status       *)
          job,            (* the call of step in progress, or NoCall       *)
          proc,           (* running, aborted, escaped, exited or hung     *)
          before,         (* history: registers, pc and memory when the    *)
                          (* instruction in progress began,                *)
          rec,            (* the last record the step in progress wrote,   *)
          retired         (* and the instructions retired so far           *)

archVars  == <<mem, regs, pc>>
modelVars == <<mem, endian, regs, pc, trace, config, status, job, proc, before, retired, rec>>

Arch == [mem |-> mem, regs |-> regs, pc |-> pc, endian |-> endian]

------------------------------------------------------------------------------
(* page_t: a byte of a page nobody has written to.                        *)
Fresh == 0

(* region_t::resize keeps a whole number of pages: the index of the last   *)
(* one is computed in addr_t.                                              *)
Pages(size)      == ((size % WordSpan) + PageBytes - 1) \div PageBytes
Size(m)          == Cardinality(DOMAIN m)
ResizedExact(m, size) == [a \in 0 .. size - 1 |-> IF a \in DOMAIN m THEN m[a] ELSE Fresh]
Resized(m, size) == [a \in 0 .. Pages(size) * PageBytes - 1 |-> IF a \in DOMAIN m THEN m[a] ELSE Fresh]

Places(addr, n) == {(addr + k) % WordSpan : k \in 0 .. n - 1}
TooFar(m, addr, n) == Size(m) + n < addr
(* The check lets an access start up to n bytes after the end; the         *)
(* assertion of region_t stops it, except at the very next byte.           *)
Asserts(m, addr, n) == \E a \in Places(addr, n) : a > Size(m)
Overruns(m, addr, n) == Size(m) \in Places(addr, n)

(* The values a read of n bytes may return, if it returns.                 *)
ReadValues(addr, n) ==
    {Unit([k \in 0 .. n - 1 |-> LET a == (addr + k) % WordSpan
                                IN IF a = Size(mem) THEN stray ELSE mem[a]], endian, n)
        : stray \in IF Overruns(mem, addr, n) THEN StrayBytes ELSE {0}}

------------------------------------------------------------------------------
(* Trace::write: a record goes to the file when there is one; a stream     *)
(* that failed fails ever after, and throws once exceptions are enabled.   *)
Broken(t)   == [t EXCEPT !.bad = TRUE]
Throws(t)   == t.toFile /\ t.masked
Written(t)  == IF t.toFile /\ ~ t.open THEN Broken(t) ELSE t

RegisterRecordOld(id, value) == <<"reg", id, regs[id]>>
RegisterRecord(id, value) == <<"reg", id, value>>      (* of a write        *)
MemoryRecord(addr, value) == <<"mem", addr, value>>

(* The core's record r is written, or the attempt throws (a full disk).    *)
Traced(r) == IF trace.on THEN /\ ~ (Throws(trace) /\ trace.bad)
                              /\ trace' = Written(trace) /\ rec' = r
                         ELSE UNCHANGED <<trace, rec>>
TraceFails == trace.on /\ Throws(trace) /\ trace' = Broken(trace) /\ UNCHANGED rec

(* Trace::reset: the outcomes, the trace and whether it returns. Closing a *)
(* stream that failed may fail again; opening one clears it.               *)
Reset(t, toFile) ==
    (IF t.open /\ t.masked THEN {<<FALSE, [t EXCEPT !.open = FALSE, !.bad = TRUE]>>} ELSE {})
    \cup (IF toFile THEN {<<TRUE,  [t EXCEPT !.toFile = TRUE, !.open = TRUE, !.bad = FALSE, !.masked = TRUE]>>,
                          <<FALSE, [t EXCEPT !.toFile = TRUE, !.open = FALSE, !.bad = TRUE]>>}
                    ELSE {<<TRUE,  [t EXCEPT !.toFile = FALSE, !.open = FALSE]>>})

------------------------------------------------------------------------------
(* Model::load with allow_resize: the memory it has grown to, and whether  *)
(* memory_t::load then accepts the place.                                  *)
Room(image, addr) == LET need == Len(image) + addr
                     IN IF need > Size(mem) THEN Resized(mem, need) ELSE mem
Fits(image, addr) == Len(image) + addr <= Size(Room(image, addr))
Load(image, addr) ==
    LET m == Room(image, addr)
    IN IF Fits(image, addr)
       THEN /\ mem' = [a \in DOMAIN m |-> IF a \in addr .. addr + Len(image) - 1
                                          THEN image[a - addr + 1] ELSE m[a]]
            /\ status' = [status EXCEPT !.loaded = TRUE]
       ELSE mem' = m /\ UNCHANGED status

(* Model::set_config. Resetting the trace may throw: then the core has     *)
(* been reset and nothing else is set.                                     *)
SetConfig(c, ok, t) ==
    /\ <<ok, t>> \in Reset(trace, c.toFile)
    /\ regs' = [r \in RegId |-> 0]
    /\ IF ok THEN /\ trace' = [t EXCEPT !.on = c.trace]
                  /\ config' = [resize |-> c.resize, isDPI |-> c.isDPI]
                  /\ mem' = IF Size(mem) < c.mem_size THEN Resized(mem, c.mem_size) ELSE mem
                  /\ endian' = c.endian
                  /\ pc' = c.pc
             ELSE /\ trace' = t
                  /\ pc' = 0
                  /\ UNCHANGED <<config, mem, endian>>

(* A call of step: where it is, the steps asked for, and the instruction   *)
(* with its value, address, bytes written and the pc after it.             *)
NoCall == [phase |-> "none", limit |-> 0, ins |-> Illegal, value |-> 0, addr |-> 0, k |-> 0, next |-> 0]
InCall == job.phase # "none"

(* Model::step, called: the count of this call starts at 0.                *)
StepCall(n) ==
    /\ status' = [status EXCEPT !.last = 0]
    /\ job' = [NoCall EXCEPT !.phase = IF ~ config.isDPI /\ ~ status.loaded THEN "thrown" ELSE "cycle",
                             !.limit = n]
    /\ before' = Arch

Init ==
    /\ mem = [a \in {} |-> 0] /\ endian = "LE"
    /\ regs = [r \in RegId |-> 0] /\ pc = 0
    /\ trace = [on |-> FALSE, toFile |-> FALSE, open |-> FALSE, masked |-> FALSE, bad |-> FALSE]
    /\ config = [resize |-> TRUE, isDPI |-> FALSE]
    /\ status = [loaded |-> FALSE, last |-> 0, total |-> 0]
    /\ job = NoCall /\ proc = "running" /\ retired = 0 /\ rec = None
    /\ before = None

------------------------------------------------------------------------------
(* The micro-steps of step.                                                *)
In(phase) == proc = "running" /\ job.phase = phase
Goto(phase) == job' = [job EXCEPT !.phase = phase]
Throw == Goto("thrown") /\ UNCHANGED proc
Abort == proc' = "aborted" /\ UNCHANGED job
NoHistory == before' = None /\ rec' = None
Stay  == UNCHANGED <<archVars, endian, config, status, before, retired>>

(* Core::step: fetch, decode, trace.                                       *)
Fetch ==
    /\ In("cycle") /\ status.last < job.limit /\ Stay
    /\ \/ TooFar(mem, pc, WORD_SIZE) /\ Throw /\ UNCHANGED <<trace, rec>>
       \/ ~ TooFar(mem, pc, WORD_SIZE) /\ (Asserts(mem, pc, WORD_SIZE) \/ Overruns(mem, pc, WORD_SIZE))
            /\ Abort /\ UNCHANGED <<trace, rec>>
       \/ /\ ~ TooFar(mem, pc, WORD_SIZE) /\ ~ Asserts(mem, pc, WORD_SIZE)
          /\ \/ TraceFails /\ Throw
             \/ \E word \in ReadValues(pc, WORD_SIZE) :
                   /\ Traced(None)
                   /\ job' = [job EXCEPT !.phase = "exec", !.ins = Decode(word), !.next = ToWord(pc + WORD_SIZE)]
                   /\ UNCHANGED proc

InvalidSkips == In("exec") /\ ~ Valid(job.ins) /\ Throw /\ pc' = job.next
                /\ UNCHANGED <<mem, regs, endian, config, status, before, retired, trace, rec>>

Invalid == In("exec") /\ ~ Valid(job.ins) /\ Throw /\ Stay /\ UNCHANGED <<trace, rec>>

ReadsFirst(i) == i.section \notin {"LUI", "AUIPC", "JAL", "JALR"}    (* get_reg first *)

(* The operands are read, and with them everything but memory is known.    *)
Result(i, offset) ==
    CASE i.section = "R"     -> [phase |-> "setreg", value |-> R(i.name, regs[i.rs1], regs[i.rs2])]
      [] i.section = "I_R"   -> [phase |-> "setreg", value |-> I_R(i.name, regs[i.rs1], i.imm)]
      [] i.section = "LUI"   -> [phase |-> "setreg", value |-> LUI(i.imm)]
      [] i.section = "AUIPC" -> [phase |-> "setreg", value |-> AUIPC(pc, i.imm)]
      [] i.section = "JAL"   -> [phase |-> "setreg", value |-> Link(pc), next |-> JAL(pc, offset)]
      [] i.section = "JALR"  -> [phase |-> "setreg", value |-> Link(pc)]
      [] i.section = "SB"    -> LET ab == BranchOperands(i, regs)
                                IN [phase |-> "setpc",
                                    next |-> IF SB(i.name, ab[1], ab[2]) THEN ToWord(pc + offset)
                                                                         ELSE job.next]
      [] i.section = "LOAD"  -> [phase |-> "load", addr |-> ToWord(regs[i.rs1] + i.imm)]
      [] i.section = "STORE" -> [phase |-> "store", addr |-> ToWord(regs[i.rs1] + i.imm),
                                 value |-> regs[i.rs2] % Span(StoreSize[i.name])]

Exec ==
    /\ In("exec") /\ Valid(job.ins) /\ Stay /\ UNCHANGED proc
    /\ \/ ReadsFirst(job.ins) /\ TraceFails /\ Goto("thrown")
       \/ /\ IF ReadsFirst(job.ins) THEN Traced(None) ELSE UNCHANGED <<trace, rec>>
          /\ \E offset \in IF job.ins.section \in {"SB", "JAL"} THEN Offsets(job.ins) ELSE {0} :
                LET r == Result(job.ins, offset)
                IN job' = [f \in DOMAIN job |-> IF f \in DOMAIN r THEN r[f] ELSE job[f]]

(* Core::read_mem: the value first, then its record.                       *)
LoadRead ==
    /\ In("load") /\ Stay
    /\ LET n == LoadSize[job.ins.name]
       IN \/ TooFar(mem, job.addr, n) /\ Throw /\ UNCHANGED <<trace, rec>>
          \/ ~ TooFar(mem, job.addr, n) /\ (Asserts(mem, job.addr, n) \/ Overruns(mem, job.addr, n))
               /\ Abort /\ UNCHANGED <<trace, rec>>
          \/ /\ ~ TooFar(mem, job.addr, n) /\ ~ Asserts(mem, job.addr, n)
             /\ \/ TraceFails /\ Throw
                \/ \E v \in ReadValues(job.addr, n) :
                      /\ Traced(None) /\ UNCHANGED proc
                      /\ job' = [job EXCEPT !.phase = "setreg", !.value = Extend(job.ins.name, v)]

(* Core::set_reg: the record first; x0 is not written.                     *)
SetRegAndPc ==
    /\ In("setreg") /\ UNCHANGED <<mem, endian, config, status, proc, before, retired>>
    /\ pc' = job.next
    /\ \/ TraceFails /\ Goto("thrown") /\ UNCHANGED regs
       \/ /\ Traced(RegisterRecord(job.ins.rd, job.value))
          /\ regs' = IF job.ins.rd = 0 THEN regs ELSE [regs EXCEPT ![job.ins.rd] = job.value]
          /\ Goto(IF job.ins.section = "JALR" THEN "jalr" ELSE "setpc")

SetReg ==
    /\ In("setreg") /\ UNCHANGED <<mem, endian, pc, config, status, proc, before, retired>>
    /\ \/ TraceFails /\ Goto("thrown") /\ UNCHANGED regs
       \/ /\ Traced(RegisterRecord(job.ins.rd, job.value))
          /\ regs' = IF job.ins.rd = 0 THEN regs ELSE [regs EXCEPT ![job.ins.rd] = job.value]
          /\ Goto(IF job.ins.section = "JALR" THEN "jalr" ELSE "setpc")

(* jalr reads rs1 after it has written rd.                                 *)
JalrTarget ==
    /\ In("jalr") /\ Stay /\ UNCHANGED proc
    /\ \/ TraceFails /\ Goto("thrown")
       \/ /\ Traced(None)
          /\ job' = [job EXCEPT !.phase = "setpc", !.next = JALR(regs[job.ins.rs1], job.ins.imm)]

(* Core::write_mem: the record, the check, then byte after byte.           *)
StoreBegin ==
    /\ In("store") /\ Stay /\ UNCHANGED proc
    /\ \/ TraceFails /\ Goto("thrown")
       \/ /\ Traced(MemoryRecord(job.addr, job.value))
          /\ IF TooFar(mem, job.addr, StoreSize[job.ins.name]) THEN Goto("thrown")
             ELSE job' = [job EXCEPT !.phase = "byte", !.k = 0]

StoreByte ==
    /\ In("byte")
    /\ LET n == StoreSize[job.ins.name]
           a == (job.addr + job.k) % WordSpan
           b == ByteOf(job.value, endian, n, job.k)
       IN /\ \/ a < Size(mem) /\ mem' = [mem EXCEPT ![a] = b]
             \/ a = Size(mem) /\ UNCHANGED mem
          /\ job' = [job EXCEPT !.k = @ + 1, !.phase = IF job.k + 1 = n THEN "setpc" ELSE "byte"]
    /\ UNCHANGED <<endian, regs, pc, trace, config, status, proc, before, retired, rec>>

StoreAborts ==
    /\ In("byte") /\ (job.addr + job.k) % WordSpan >= Size(mem)
    /\ Abort /\ Stay /\ UNCHANGED <<trace, rec>>

SetPc ==
    /\ In("setpc")
    /\ pc' = job.next
    /\ status' = [status EXCEPT !.last = @ + 1]
    /\ Goto("cycle")
    /\ retired' = retired + 1
    /\ before' = [Arch EXCEPT !.pc = job.next]
    /\ UNCHANGED <<mem, endian, regs, trace, config, proc, rec>>

(* The loop ends; what has been made is added to the total. An exception   *)
(* is caught here unless the model is a DPI library.                       *)
ReturnForgets ==
    /\ \/ In("cycle") /\ status.last = job.limit
       \/ In("thrown") /\ ~ config.isDPI
    /\ status' = IF job.phase = "thrown" THEN status ELSE [status EXCEPT !.total = @ + status.last]
    /\ job' = NoCall /\ NoHistory
    /\ UNCHANGED <<archVars, endian, trace, config, proc, retired>>

Return ==
    /\ \/ In("cycle") /\ status.last = job.limit
       \/ In("thrown") /\ ~ config.isDPI
    /\ status' = [status EXCEPT !.total = @ + status.last]
    /\ job' = NoCall /\ NoHistory
    /\ UNCHANGED <<archVars, endian, trace, config, proc, retired>>

MicroStep == Fetch \/ Invalid \/ Exec \/ LoadRead \/ SetReg \/ JalrTarget
             \/ StoreBegin \/ StoreByte \/ StoreAborts \/ SetPc \/ Return
=============================================================================
