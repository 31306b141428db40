--------------------------------- MODULE Dpi ---------------------------------
(***************************************************************************)
(* The DPI library (src/sim/dpi): the C functions by which a Verilog       *)
(* simulation drives the model as a reference core. Each function writes   *)
(* to the trace, acts, and returns RC_SUCCESS or RC_FAIL; its handler      *)
(* writes the error to the same trace, and what that throws leaves the     *)
(* function.                                                               *)
(***************************************************************************)
EXTENDS Model

CONSTANTS DpiParams,      (* s_model_params: pc_start, mem_size, ...       *)
          DpiAddrs, DpiRegs,      (* addresses and register numbers it passes   *)
          DpiWrites, DpiValues    (* address and word for set_mem; values    *)
                                  (* for set_reg                             *)

ASSUME DpiAssumption ==
    /\ \A p \in DpiParams : p.mem_size \in Nat /\ p.pc \in Word /\ p.toFile \in BOOLEAN
    /\ DpiAddrs \subseteq Word /\ DpiValues \subseteq Word
    /\ \A w \in DpiWrites : w[1] \in Word /\ w[2] \in Word
    /\ None \notin {"success", "fail"}

VARIABLES rc,             (* what the last call returned, or None          *)
          fn              (* init, step or one of the accesses: the        *)
                          (* function in progress or called last           *)

dpiVars == <<rc, fn>>

Idle   == proc = "running" /\ ~ InCall
Called(f) == Idle /\ fn' = f
Keep   == UNCHANGED <<archVars, endian, config, status, job, before, retired, rec>>
Ok     == rc' = "success" /\ UNCHANGED proc

(* The handler after an exception, with the trace as it is by then: a      *)
(* second exception is nobody's.                                           *)
Handler(t) ==
    \/ ~ (Throws(t) /\ t.bad) /\ trace' = Written(t) /\ rc' = "fail" /\ UNCHANGED proc
    \/ Throws(t) /\ trace' = Broken(t) /\ proc' = "escaped" /\ rc' = None

(* write_to_trace works whether the core is traced or not. When it throws  *)
(* the rest of the function is skipped.                                    *)
Announces == ~ (Throws(trace) /\ trace.bad)
AnnounceFails == Throws(trace) /\ Handler(Broken(trace)) /\ Keep
Announced == Written(trace)

(* The core's own record, after the announcement.                          *)
CoreTraces  == Announces /\ trace' = Announced
CoreFails   == Announces /\ trace.on /\ Throws(trace) /\ Handler(Broken(trace))

------------------------------------------------------------------------------
DpiInit ==
    /\ Called("init")
    /\ \E p \in DpiParams :
          \E r \in Reset(trace, p.toFile) :
             LET ok == r[1]
                 c  == [mem_size |-> p.mem_size, resize |-> p.resize, isDPI |-> TRUE, pc |-> p.pc,
                        trace |-> TRUE, toFile |-> p.toFile, endian |-> p.endian]
             IN /\ regs' = [x \in RegId |-> 0]
                /\ IF ok THEN SetConfig(c, TRUE, r[2]) /\ Ok
                   ELSE Handler(r[2]) /\ pc' = 0 /\ UNCHANGED <<config, mem, endian>>
    /\ UNCHANGED <<status, job, before, retired, rec>>

DumpState == Called("access") /\ Ok /\ Keep /\ UNCHANGED trace

(* Model::write_mem: an address after the end grows the memory first.      *)
Grown(addr) == IF addr >= Size(mem) /\ config.resize THEN Resized(mem, ToWord(addr + 1)) ELSE mem
Put(m, addr, v) ==
    [a \in DOMAIN m |-> LET k == (a - addr) % WordSpan
                        IN IF k < WORD_SIZE THEN ByteOf(v, endian, WORD_SIZE, k) ELSE m[a]]

SetMem ==
    /\ Called("access")
    /\ \E w \in DpiWrites :
          LET addr == w[1]
              v    == w[2]
              m    == Grown(addr)
          IN \/ AnnounceFails
             \/ CoreFails /\ mem' = m
                /\ UNCHANGED <<endian, regs, pc, config, status, job, before, retired, rec>>
             \/ /\ Announces
                /\ \/ TooFar(m, addr, WORD_SIZE) /\ mem' = m /\ Handler(Announced)
                   \/ /\ ~ TooFar(m, addr, WORD_SIZE) /\ ~ Asserts(m, addr, WORD_SIZE)
                      /\ mem' = Put(m, addr, v) /\ trace' = Announced /\ Ok
                   \/ /\ ~ TooFar(m, addr, WORD_SIZE)
                      /\ Asserts(m, addr, WORD_SIZE) \/ Overruns(m, addr, WORD_SIZE)
                      /\ mem' = m /\ trace' = Announced /\ proc' = "aborted" /\ rc' = None
                /\ UNCHANGED <<endian, regs, pc, config, status, job, before, retired, rec>>

GetMem ==
    /\ Called("access")
    /\ \E addr \in DpiAddrs :
          \/ AnnounceFails
          \/ CoreFails /\ Keep
          \/ /\ Announces /\ Keep
             /\ \/ TooFar(mem, addr, WORD_SIZE) /\ Handler(Announced)
                \/ ~ TooFar(mem, addr, WORD_SIZE) /\ ~ Asserts(mem, addr, WORD_SIZE)
                   /\ trace' = Announced /\ Ok
                \/ /\ ~ TooFar(mem, addr, WORD_SIZE)
                   /\ Asserts(mem, addr, WORD_SIZE) \/ Overruns(mem, addr, WORD_SIZE)
                   /\ trace' = Announced /\ proc' = "aborted" /\ rc' = None

(* A register number the file has not fails an assertion.                  *)
BadReg(id) == id \notin RegId /\ CoreTraces /\ proc' = "aborted" /\ rc' = None /\ Keep

GetReg ==
    /\ Called("access")
    /\ \E id \in DpiRegs : \/ AnnounceFails
                           \/ CoreFails /\ Keep
                           \/ BadReg(id)
                           \/ id \in RegId /\ CoreTraces /\ Ok /\ Keep

SetRegCall ==
    /\ Called("access")
    /\ \E id \in DpiRegs, v \in DpiValues :
          \/ AnnounceFails
          \/ CoreFails /\ Keep
          \/ BadReg(id)
          \/ /\ id \in RegId /\ CoreTraces /\ Ok
             /\ regs' = IF id = 0 THEN regs ELSE [regs EXCEPT ![id] = v]
             /\ UNCHANGED <<mem, pc, endian, config, status, job, before, retired, rec>>

GetPc == Called("access") /\ (AnnounceFails \/ (CoreTraces /\ Ok /\ Keep))

SetPcCall ==
    /\ Called("access")
    /\ \/ AnnounceFails
       \/ /\ CoreTraces /\ Ok /\ \E v \in DpiAddrs : pc' = v
          /\ UNCHANGED <<mem, regs, endian, config, status, job, before, retired, rec>>

(* step: one step of the model; its exception is rethrown to the handler   *)
(* and the total is not brought up to date.                                *)
StepBegin ==
    /\ Called("step")
    /\ \/ AnnounceFails
       \/ /\ Announces /\ trace' = Announced /\ rc' = None /\ StepCall(1)
          /\ UNCHANGED <<archVars, endian, config, proc, retired, rec>>

StepEnd ==
    /\ proc = "running" /\ fn = "step" /\ ~ InCall /\ rc = None
    /\ rc' = IF status.last # 0 THEN "success" ELSE "fail"
    /\ UNCHANGED <<modelVars, fn>>

StepThrew ==
    /\ In("thrown") /\ config.isDPI
    /\ Handler(trace) /\ job' = NoCall /\ NoHistory
    /\ UNCHANGED <<archVars, endian, config, status, retired, fn>>

DpiStart == rc = None /\ fn = "none"
Between  == rc # None \/ fn = "none"

DpiStep == \/ Between /\ (DpiInit \/ DumpState \/ SetMem \/ GetMem \/ GetReg \/ SetRegCall \/ GetPc
                          \/ SetPcCall \/ StepBegin)
           \/ StepEnd \/ StepThrew
=============================================================================
