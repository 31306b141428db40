----------------------------- MODULE Application -----------------------------
(***************************************************************************)
(* The program `sim`: main, the command line, the simple regime that loads *)
(* an image, makes the steps asked for and dumps the state, the            *)
(* interactive regime that reads commands, and Ctrl-C in between.          *)
(*                                                                         *)
(* A line of text is given by what the regular expressions make of it: for *)
(* each command whose pattern is found in the line, its arguments.         *)
(***************************************************************************)
EXTENDS Model

CONSTANTS CommandLines,   (* what parse_cl finds in argv                   *)
          Lines,          (* lines typed at the prompt: text and matches   *)
          Files           (* file name -> bytes; no file has none          *)

ASSUME FilesAssumption == \A f \in DOMAIN Files : Files[f] \in Seq(Byte)
ASSUME OptionsAssumption == \A o \in CommandLines : o.mem_size \in Nat /\ o.trace \in BOOLEAN

(* The arguments a command's pattern lets through.                         *)
ASSUME LinesAssumption ==
    \A l \in Lines : LET Given(c) == c \in DOMAIN l.matches
        IN /\ Given("load") => l.matches["load"].addr \in Word
           /\ Given("tracing") => l.matches["tracing"] \in BOOLEAN
           /\ Given("program-counter") => l.matches["program-counter"] \in Word \cup {None}

VARIABLES at,             (* where the program is                          *)
          params,         (* Parameters                                    *)
          token,          (* the line being evaluated                      *)
          last_valid,     (* last_valid_command of terminal::readline      *)
          dump            (* the final dump, or None                       *)

appVars == <<at, params, token, last_valid, dump>>

Quiet == UNCHANGED <<params, token, last_valid, dump>>
Go(place) == at' = place
NoModel == UNCHANGED modelVars

(* The program ends: Application::exit and run_simple dump the state, an   *)
(* exception that reaches main does not.                                   *)
Exit(d) == /\ proc' = "exited" /\ dump' = d /\ job' = NoCall /\ NoHistory
           /\ UNCHANGED <<archVars, endian, trace, config, status, retired, at, params, token, last_valid>>
Fail == Exit(None)

Readable(name) == name \in DOMAIN Files /\ Files[name] # <<>>      (* read_file *)

------------------------------------------------------------------------------
(* parse_cl. The start address is read in base 10 though its option wants  *)
(* a 0x prefix: the number ends at the x. A number of steps or a size may  *)
(* be too large for stoul.                                                 *)
Options(o) == [mem_size |-> o.mem_size, resize |-> TRUE, isDPI |-> FALSE, pc |-> 0,
               trace |-> o.trace, toFile |-> FALSE, endian |-> o.endian]

Start ==
    /\ at = "start" /\ proc = "running"
    /\ \E o \in CommandLines :
          \/ o.help /\ Exit(Arch)
          \/ o.overflow /\ Fail
          \/ /\ ~ o.help /\ ~ o.overflow
             /\ params' = [image |-> o.image, steps |-> o.steps]
             /\ SetConfig(Options(o), TRUE, [trace EXCEPT !.toFile = FALSE, !.open = FALSE])
             /\ Go(IF o.interactive THEN "prompt" ELSE "simple")
             /\ UNCHANGED <<status, job, proc, before, retired, rec, token, last_valid, dump>>

SimpleLoad ==
    /\ at = "simple" /\ proc = "running"
    /\ IF Readable(params.image) /\ Fits(Files[params.image], 0)
       THEN /\ Load(Files[params.image], 0) /\ Go("loaded") /\ Quiet
            /\ UNCHANGED <<endian, regs, pc, trace, config, job, proc, before, retired, rec>>
       ELSE Fail

SimpleStep ==
    /\ at = "loaded" /\ proc = "running"
    /\ StepCall(params.steps) /\ Go("simple_step") /\ Quiet
    /\ UNCHANGED <<archVars, endian, trace, config, proc, retired, rec>>

SimpleDone == at = "simple_step" /\ ~ InCall /\ proc = "running" /\ Exit(Arch)

------------------------------------------------------------------------------
(* terminal::readline: an empty line stands for the last one that was not; *)
(* end of input or Ctrl-C throws, and nothing catches it but main.         *)
ReadLine ==
    /\ at = "prompt" /\ proc = "running"
    /\ \/ /\ \E l \in Lines : token' = l /\ last_valid' = l
          /\ Go("eval") /\ NoModel /\ UNCHANGED <<params, dump>>
       \/ token' = last_valid /\ Go("eval") /\ NoModel /\ UNCHANGED <<params, last_valid, dump>>
       \/ Fail

(* Interactive::eval takes the first command of the table that matches.    *)
Table == <<"help", "quit", "load", "status", "tracing", "program-counter", "step", "disas", "print">>
Matching == IF token = None THEN {} ELSE DOMAIN token.matches
First(c) == /\ c \in Matching
            /\ \E n \in DOMAIN Table : Table[n] = c /\ \A k \in 1 .. n - 1 : Table[k] \notin Matching
Eval(c)  == at = "eval" /\ proc = "running" /\ First(c)
Arg      == token.matches

Prompt == Go("prompt") /\ Quiet

(* Commands that print, and lines that are no command.                     *)
ShowCmd == /\ at = "eval" /\ proc = "running"
           /\ \/ Matching = {}
              \/ \E c \in {"help", "status", "print"} : First(c)
           /\ Prompt /\ NoModel

Quit == Eval("quit") /\ Exit(Arch)

LoadCmd ==
    /\ Eval("load") /\ Go("prompt")
    /\ LET name == IF Arg.load.file = "" THEN params.image ELSE Arg.load.file
       IN /\ params' = [params EXCEPT !.image = name]
          /\ IF Readable(name) THEN Load(Files[name], Arg.load.addr) ELSE UNCHANGED <<mem, status>>
    /\ UNCHANGED <<endian, regs, pc, trace, config, job, proc, before, retired, rec,
                   token, last_valid, dump>>

Tracing == /\ Eval("tracing") /\ Prompt
           /\ trace' = [trace EXCEPT !.on = Arg.tracing]
           /\ UNCHANGED <<archVars, endian, config, status, job, proc, before, retired, rec>>

TouchPc == /\ Eval("program-counter") /\ Prompt
           /\ pc' = IF Arg["program-counter"] = None THEN pc ELSE Arg["program-counter"]
           /\ UNCHANGED <<mem, endian, regs, trace, config, status, job, proc, before, retired, rec>>

StepCmd == /\ Eval("step") /\ Go("step") /\ Quiet
           /\ StepCall(Arg.step)
           /\ UNCHANGED <<archVars, endian, trace, config, proc, retired, rec>>

StepCmdDone == at = "step" /\ ~ InCall /\ proc = "running" /\ Prompt /\ NoModel

(* memory_t::dump reads whole words from the address: the last one of an   *)
(* unaligned range reaches over the end of the memory.                     *)
Disassembled(start, num) ==
    {a \in Word : a >= start /\ (a - start) % WORD_SIZE = 0 /\ a < start + (num * WORD_SIZE) /\ a < Size(mem)}
Disas ==
    /\ Eval("disas")
    /\ LET over == \E a \in Disassembled(Arg.disas.addr, Arg.disas.num) : Asserts(mem, a, WORD_SIZE)
           edge == \E a \in Disassembled(Arg.disas.addr, Arg.disas.num) : Overruns(mem, a, WORD_SIZE)
       IN \/ /\ over \/ edge
             /\ proc' = "aborted"
             /\ UNCHANGED <<archVars, endian, trace, config, status, job, before, retired, rec, appVars>>
          \/ ~ over /\ Prompt /\ NoModel

------------------------------------------------------------------------------
(* SIGINT while the terminal is not in raw mode: the handler dumps the     *)
(* state where it finds it. It takes locks of the C library which the      *)
(* interrupted step may hold.                                              *)
Interrupt ==
    /\ proc = "running" /\ at # "start"
    /\ \/ Exit(Arch)
       \/ /\ InCall /\ proc' = "hung"
          /\ UNCHANGED <<archVars, endian, trace, config, status, job, before, retired, rec, appVars>>

AppInit == at = "start" /\ params = [image |-> "", steps |-> 0] /\ token = None /\ last_valid = None
           /\ dump = None

AppStep == Start \/ SimpleLoad \/ SimpleStep \/ SimpleDone \/ ReadLine \/ ShowCmd \/ Quit \/ LoadCmd
           \/ Tracing \/ TouchPc \/ StepCmd \/ StepCmdDone \/ Disas \/ Interrupt
=============================================================================
