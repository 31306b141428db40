------------------------------ MODULE Simulator ------------------------------
(***************************************************************************)
(* The model library under either of its hosts: the program `sim`          *)
(* (Application) or a Verilog simulation that calls the DPI library (Dpi). *)
(***************************************************************************)
EXTENDS Application, Dpi, IsaReference

CONSTANTS Hosts, MaxSteps,    (* bound: instructions retired                *)
          MaxCalls            (* bound: commands, or DPI calls, of a host   *)

ASSUME HostAssumption == Hosts \subseteq {"app", "dpi"} /\ \A h \in Hosts : MaxCalls[h] \in Nat

VARIABLES host, calls

vars == <<modelVars, appVars, dpiVars, host, calls>>

SimInit == /\ host \in Hosts /\ calls = 0
           /\ Init /\ AppInit /\ DpiStart

(* A command is read, a call is made (but for the first, which is init).   *)
Asks == IF host = "app" THEN at = "prompt" ELSE Between /\ fn # "none"

Next ==
    /\ Asks => calls < MaxCalls[host]
    /\ \/ host = "app" /\ AppStep /\ UNCHANGED dpiVars
       \/ host = "dpi" /\ DpiStep /\ UNCHANGED appVars
       \/ MicroStep /\ UNCHANGED <<appVars, dpiVars>>
    /\ calls' = IF Asks THEN calls + 1 ELSE calls
    /\ retired' <= MaxSteps
    /\ UNCHANGED host

Spec == SimInit /\ [][Next]_vars

------------------------------------------------------------------------------
(* The variables have the values their types in the code allow: memory is  *)
(* whole pages, x0 is 0, a stream that throws has been opened once.        *)
TypeOK ==
    /\ DOMAIN mem = 0 .. Size(mem) - 1 /\ Size(mem) % PageBytes = 0
    /\ \A a \in DOMAIN mem : mem[a] \in Byte
    /\ regs \in [RegId -> Word] /\ regs[0] = 0 /\ pc \in Word
    /\ trace \in [on : BOOLEAN, toFile : BOOLEAN, open : BOOLEAN, masked : BOOLEAN, bad : BOOLEAN]
    /\ proc \in {"running", "exited", "aborted", "escaped", "hung"}
    /\ rc \in {"success", "fail", None}
    /\ job.phase \in {"none", "cycle", "exec", "load", "setreg", "jalr", "store", "byte", "setpc", "thrown"}

(* steps_made_from_begin counts the instructions that have been retired,   *)
(* whatever calls of step failed in between; a call in progress has its    *)
(* own count (Model::step adds it after the exception is caught; a DPI     *)
(* step that throws made no step).                                         *)
StepsAreCounted ==
    proc = "running" => retired = status.total + (IF InCall THEN status.last ELSE 0)

(* A step that throws, for an instruction that is illegal or an address    *)
(* out of range, leaves registers, pc and memory as the last retired       *)
(* instruction or command left them: it can be looked at and made again.   *)
(* Only the trace can tear an instruction: jalr has then written its link. *)
FailedStepKeepsPlace ==
    job.phase = "thrown" =>
        \/ Arch = before
        \/ /\ trace.bad /\ job.ins.section = "JALR"
           /\ Arch = [before EXCEPT !.regs = IsaRegs(job.ins, before, before.pc)]

(* The state dumped on Ctrl-C in the middle of a step is the state between *)
(* two instructions but for what the interrupted one has written so far:   *)
(* its register, or some bytes of its store, with the values they will     *)
(* keep; the dumped pc is that of the interrupted instruction.             *)
DumpIsOneWriteAhead ==
    [][InCall /\ dump' # None =>
        /\ dump'.pc = before.pc
        /\ \/ dump' = before
           \/ \E v \in Word : dump' = [before EXCEPT !.regs = IsaRegs(job.ins, before, v)]
           \/ /\ job.ins.section = "STORE" /\ dump'.regs = before.regs
              /\ LET after == IsaAfter(job.ins, before).mem
                 IN \A a \in DOMAIN mem : dump'.mem[a] \in {before.mem[a], after[a]}]_vars

(* An instruction that retires has done what the instruction set says, for *)
(* every instruction but jumps and branches; a load or store that retires  *)
(* outside the memory has used an undefined read or write.                 *)
Sequential == {"R", "I_R", "LUI", "AUIPC", "LOAD", "STORE"}
Retires == retired' = retired + 1
StepsFollowTheIsa ==
    [][Retires /\ job.ins.section \in Sequential
       /\ (job.ins.section \in {"LOAD", "STORE"} => InMemory(job.ins, before))
       => Arch' = IsaAfter(job.ins, before)]_vars

(* A branch compares its two operands (the simulator's compares rs1 with   *)
(* itself).                                                                *)
BranchesFollowTheIsa ==
    [][Retires /\ job.ins.section = "SB"
       => pc' = IF IsaTaken(job.ins.name, regs[job.ins.rs1], regs[job.ins.rs2])
                THEN (before.pc + job.ins.imm) % WordSpan ELSE IsaPc(before)]_vars

(* When the core is traced, nothing changes in registers or memory during  *)
(* a step that its last record does not show: a trace ends at most one     *)
(* write before the state does, never after it.                            *)
NothingUntraced ==
    [][InCall /\ trace.on /\ proc' = "running" =>
         /\ \A r \in RegId : regs'[r] # regs[r] => rec' = <<"reg", r, regs'[r]>>
         /\ mem' # mem => rec' = <<"mem", job.addr, job.value>>]_vars

(* A DPI call that answers RC_FAIL has changed no register, not the pc,    *)
(* and no byte of memory there was, except init, which resets the core     *)
(* first, and a write at the last address, whose end wraps to an empty     *)
(* memory (Model::write_mem, resize(addr + 1)).                            *)
Fails(f) == rc' = "fail" /\ fn' = f /\ (calls' # calls \/ rc = None)
FailedCallKeepsState ==
    [][host = "dpi" =>
         /\ InCall /\ Fails("step") => Arch' = before
         /\ Fails("access") =>
               /\ regs' = regs /\ pc' = pc
               /\ \/ \A a \in DOMAIN mem : a \in DOMAIN mem' /\ mem'[a] = mem[a]
                  \/ DOMAIN mem' = {}]_vars
=============================================================================
