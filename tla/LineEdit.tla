------------------------------ MODULE LineEdit -------------------------------
(***************************************************************************)
(* The line editor of the simulator: terminal.h and the part of linenoise  *)
(* it uses. A line is edited in a C buffer under raw mode, the history is  *)
(* kept in memory, written to a file after every line and read back when   *)
(* the program starts again.                                               *)
(*                                                                         *)
(* The program runs in multi-line mode and sets no completion callback, so *)
(* neither refreshSingleLine nor completeLine is ever reached. A text is a *)
(* sequence of characters, the history a sequence of texts, newest last.   *)
(***************************************************************************)
EXTENDS Integers, Sequences, FiniteSets

CONSTANTS Char, Typed,          (* characters, and those of the keyboard   *)
          Space, NUL,           (* Ctrl-@ types a NUL                      *)
          MaxLine,              (* LINENOISE_MAX_LINE                      *)
          HistMax,              (* history_max_len                         *)
          PLen, Widths,         (* the prompt's length; columns            *)
          Inputs,               (* stdin: "tty", "pipe" or "dumb" (TERM)   *)
          Files, CookedLines,   (* history files; lines read without raw   *)
          MaxKeys, MaxRuns,     (* bounds: keys pressed; program starts    *)
          None

BufLen == MaxLine - 1           (* l.buflen, after the nulterm is set off  *)
Text   == Seq(Char \ {NUL})

ASSUME SizeAssumption == /\ MaxLine \in Nat \ {0, 1} /\ HistMax \in Nat \ {0}
                         /\ PLen \in Nat \ {0} /\ \A w \in Widths : w \in Nat /\ PLen < w
ASSUME TextAssumption == Typed \cup {Space, NUL} \subseteq Char /\ Files \subseteq Seq(Text) /\ CookedLines \subseteq Text /\ None \notin Text

VARIABLES at,                   (* where the program is                    *)
          input, hungup,        (* stdin, and whether its terminal is gone *)
          tty, rawmode,         (* the terminal's mode; the flag for atexit*)
          buf, pos, len,        (* linenoiseState                          *)
          history_index,
          screen,               (* its oldpos, maxrows and cols, and what  *)
                                (* the terminal shows                      *)
          history, file, k,     (* k: the next line to save or load        *)
          line, last_valid,     (* what linenoise returned, the token      *)
          keys, runs

textVars == <<buf, pos, len, screen>>
pastVars == <<history, history_index>>
fileVars == <<file, k, last_valid>>
termVars == <<input, hungup, tty, rawmode>>
vars     == <<at, termVars, textVars, pastVars, fileVars, line, keys, runs>>

history_len == Len(history)
Larger(a, b) == IF a > b THEN a ELSE b

(* The C string in a buffer, and memmove of n characters.                  *)
StrLen(b) == CHOOSE n \in DOMAIN b : b[n] = NUL /\ \A m \in 0 .. n - 1 : b[m] # NUL
Str(b)    == [n \in 1 .. StrLen(b) |-> b[n - 1]]
MoveUp(b, to, from, n) ==                        (* memcpy, byte by byte   *)
    [m \in DOMAIN b |-> IF m \notin to .. to + n - 1 THEN b[m]
                        ELSE IF from < to THEN b[from + ((m - to) % (to - from))] ELSE b[m - to + from]]
Move(b, to, from, n) ==
    [m \in DOMAIN b |-> IF m \in to .. to + n - 1 THEN b[m - to + from] ELSE b[m]]

(* linenoiseHistoryAdd: no line twice in a row, the oldest gives way.      *)
AddedTwice(h, text) == Append(IF Len(h) = HistMax THEN Tail(h) ELSE h, text)
Added(h, text) ==
    IF h # <<>> /\ h[Len(h)] = text THEN h
    ELSE Append(IF Len(h) = HistMax THEN Tail(h) ELSE h, text)

------------------------------------------------------------------------------
(* refreshMultiLine. Rows are counted from 1, the row of the prompt; `home`*)
(* says that it is the screen's first, where the cursor goes no higher;    *)
(* `shown` is the last row with text on it. A NUL has no width: once one   *)
(* was written the columns are not what the code computes.                 *)
Rows(n, cols)   == (PLen + n + cols - 1) \div cols
RowEnd(p, cols) == (PLen + p + cols - 1) \div cols
Row(p, cols)    == (PLen + p + cols) \div cols

Fresh(cols) == [oldpos |-> 0, maxrows |-> 0, cols |-> cols, row |-> 1, shown |-> 1,
                home |-> FALSE, plain |-> TRUE]

Refreshed(s, b, p, n) ==
    LET bottom  == s.row + Larger(0, s.maxrows - Row(s.oldpos, s.cols))
        up      == bottom - Larger(0, s.maxrows - 1)
        top     == IF s.home THEN Larger(1, up) ELSE up
        rows    == Rows(n, s.cols)
        newline == p > 0 /\ p = n /\ (p + PLen) % s.cols = 0
        all     == IF newline THEN rows + 1 ELSE rows
        text    == top + rows - 1
    IN [s EXCEPT !.oldpos = p, !.maxrows = Larger(@, all),
                 !.row    = top + all - 1 - Larger(0, all - Row(p, s.cols)),
                 !.shown  = IF bottom >= @ THEN text ELSE Larger(@, text),
                 !.plain  = @ /\ \A m \in 0 .. n - 1 : b[m] # NUL]

(* No line is being edited: the frame of linenoise is gone.                *)
Blank     == [m \in 0 .. BufLen |-> NUL]
FrameGone == buf' = Blank /\ pos' = 0 /\ len' = 0 /\ screen' = Fresh(PLen + 1) /\ history_index' = 0

(* linenoiseClearScreen                                                    *)
Cleared(s) == [s EXCEPT !.row = 1, !.shown = 0, !.home = TRUE]

------------------------------------------------------------------------------
(* The keys. Each does nothing when its condition does not hold, and       *)
(* refreshes the line when it does.                                        *)
Key == /\ at = "edit" /\ ~ hungup /\ keys < MaxKeys
       /\ keys' = keys + 1
       /\ UNCHANGED <<termVars, fileVars, runs>>

Edit(b, p, n) == /\ buf' = b /\ pos' = p /\ len' = n
                 /\ screen' = Refreshed(screen, b, p, n)

Edits == Key /\ UNCHANGED <<at, pastVars, line>>

InsertFull(c) ==
    /\ Edits /\ len <= BufLen
    /\ Edit([Move(buf, pos + 1, pos, len - pos) EXCEPT ![pos] = c, ![len + 1] = NUL], pos + 1, len + 1)

Insert(c) ==
    /\ Edits /\ len < BufLen
    /\ Edit([Move(buf, pos + 1, pos, len - pos) EXCEPT ![pos] = c, ![len + 1] = NUL], pos + 1, len + 1)

MoveLeft  == Edits /\ pos > 0     /\ Edit(buf, pos - 1, len)
MoveRight == Edits /\ pos # len   /\ Edit(buf, pos + 1, len)
MoveHome  == Edits /\ pos # 0     /\ Edit(buf, 0, len)
MoveEnd   == Edits /\ pos # len   /\ Edit(buf, len, len)

Delete ==
    /\ Edits /\ len > 0 /\ pos < len
    /\ Edit([Move(buf, pos, pos + 1, len - pos - 1) EXCEPT ![len - 1] = NUL], pos, len - 1)

Backspace ==
    /\ Edits /\ pos > 0 /\ len > 0
    /\ Edit([Move(buf, pos - 1, pos, len - pos) EXCEPT ![len - 1] = NUL], pos - 1, len - 1)

(* The start of the word before the cursor: spaces first, then the word.   *)
WordStart(b, p) ==
    CHOOSE q \in 0 .. p :
        \E s \in q .. p : /\ \A m \in s .. p - 1 : b[m] = Space
                          /\ s > 0 => b[s - 1] # Space
                          /\ \A m \in q .. s - 1 : b[m] # Space
                          /\ q > 0 => b[q - 1] = Space

DeletePrevWord ==
    /\ Edits
    /\ LET q == WordStart(buf, pos)
       IN Edit(Move(buf, q, pos, len - pos + 1), q, len - (pos - q))

Swap ==                                                        (* Ctrl-T   *)
    /\ Edits /\ pos > 0 /\ pos < len
    /\ Edit([buf EXCEPT ![pos - 1] = buf[pos], ![pos] = buf[pos - 1]],
            IF pos # len - 1 THEN pos + 1 ELSE pos, len)

KillLine == Edits /\ Edit([buf EXCEPT ![0] = NUL], 0, 0)       (* Ctrl-U   *)
KillEnd  == Edits /\ Edit([buf EXCEPT ![pos] = NUL], pos, pos) (* Ctrl-K   *)

ClearScreen == /\ Edits /\ UNCHANGED <<buf, pos, len>>         (* Ctrl-L   *)
               /\ screen' = Refreshed(Cleared(screen), buf, pos, len)

(* A key whose condition does not hold, or an escape sequence that is none.*)
Ignored == Edits /\ UNCHANGED textVars

(* strncpy of an entry into the buffer, cut at buflen - 1 and padded.      *)
Copied(b, text) ==
    [m \in DOMAIN b |-> IF m = BufLen THEN b[m]
                        ELSE IF m < Len(text) /\ m < BufLen - 1 THEN text[m + 1] ELSE NUL]

(* linenoiseEditHistoryNext: the entry shown is replaced by the line as it *)
(* has been edited; there is nothing beyond the first and the last one.    *)
Recall(dir) ==
    /\ Key /\ UNCHANGED <<at, line>> /\ history_len > 1
    /\ history' = [history EXCEPT ![history_len - history_index] = Str(buf)]
    /\ LET i == history_index + dir
           b == Copied(buf, history'[history_len - i])
       IN IF i \in 0 .. history_len - 1
          THEN history_index' = i /\ Edit(b, StrLen(b), StrLen(b))
          ELSE UNCHANGED <<history_index, textVars>>

PopScratch == history' = SubSeq(history, 1, history_len - 1) /\ UNCHANGED history_index

Enter == /\ Key /\ at' = "restore" /\ PopScratch
         /\ line' = Str(buf)
         /\ IF pos # len THEN Edit(buf, len, len) ELSE UNCHANGED textVars

CtrlC == Key /\ at' = "restore" /\ line' = None /\ UNCHANGED <<textVars, pastVars>>

CtrlD == /\ Key /\ len = 0
         /\ at' = "restore" /\ line' = None /\ PopScratch /\ UNCHANGED textVars

(* read returns nothing: the line is returned as it is.                    *)
EndOfInputRetries == at = "edit" /\ hungup /\ UNCHANGED vars

EndOfInput ==
    /\ at = "edit" /\ hungup
    /\ at' = "restore" /\ line' = Str(buf)
    /\ UNCHANGED <<termVars, textVars, pastVars, fileVars, keys, runs>>

AnyKey == \/ \E c \in Typed : Insert(c)
          \/ MoveLeft \/ MoveRight \/ MoveHome \/ MoveEnd
          \/ Delete \/ Backspace \/ DeletePrevWord \/ Swap
          \/ KillLine \/ KillEnd \/ ClearScreen \/ Ignored
          \/ \E dir \in {1, -1} : Recall(dir)
          \/ Enter \/ CtrlC \/ CtrlD

------------------------------------------------------------------------------
(* terminal::init. A line that fills the buffer of fgets is read without   *)
(* its newline, which is then an empty line of its own.                    *)
Quiet == UNCHANGED <<input, hungup, keys, runs>>

LoadLine ==
    /\ at = "load" /\ k < Len(file)
    /\ k' = k + 1
    /\ history' = LET h == Added(history, file[k + 1])
                  IN IF Len(file[k + 1]) = BufLen THEN Added(h, <<>>) ELSE h
    /\ Quiet /\ UNCHANGED <<at, tty, rawmode, textVars, history_index, file, last_valid, line>>

LoadDone ==
    /\ at = "load" /\ k = Len(file) /\ at' = "idle"
    /\ Quiet /\ UNCHANGED <<tty, rawmode, textVars, pastVars, fileVars, line>>

(* enableRawMode: the mode first, then the flag that atexit looks at.      *)
SetRaw ==
    /\ at = "idle" /\ input = "tty" /\ ~ hungup
    /\ tty' = "raw" /\ at' = "flag"
    /\ Quiet /\ UNCHANGED <<rawmode, textVars, pastVars, fileVars, line>>

(* The flag, and the beginning of linenoiseEdit. The prompt is not written *)
(* when the terminal is gone.                                              *)
BeginEdit ==
    /\ at = "flag"
    /\ rawmode' = TRUE
    /\ \E cols \in Widths : screen' = Fresh(cols)
    /\ pos' = 0 /\ len' = 0 /\ buf' = [buf EXCEPT ![0] = NUL]
    /\ history' = Added(history, <<>>) /\ history_index' = 0
    /\ IF hungup THEN at' = "restore" /\ line' = None ELSE at' = "edit" /\ UNCHANGED line
    /\ Quiet /\ UNCHANGED <<tty, fileVars>>

(* disableRawMode, which a terminal that is gone refuses.                  *)
RestoreFlagOnly ==
    /\ at = "restore" /\ at' = "returned" /\ rawmode' = FALSE /\ FrameGone
    /\ Quiet /\ UNCHANGED <<tty, history, fileVars, line>>

Restore ==
    /\ at = "restore"
    /\ IF hungup THEN at' = "returned" /\ FrameGone /\ UNCHANGED tty
                 ELSE at' = "unflag" /\ tty' = "cooked" /\ UNCHANGED <<textVars, history_index>>
    /\ Quiet /\ UNCHANGED <<rawmode, history, fileVars, line>>

Unflag ==
    /\ at = "unflag" /\ at' = "returned" /\ rawmode' = FALSE /\ FrameGone
    /\ Quiet /\ UNCHANGED <<tty, history, fileVars, line>>

(* fgets, when stdin is no terminal or TERM names one without escapes.     *)
ReadCooked ==
    /\ at = "idle" /\ input # "tty" /\ at' = "returned"
    /\ \/ keys < MaxKeys /\ line' \in CookedLines /\ keys' = keys + 1
       \/ line' = None /\ UNCHANGED keys
    /\ UNCHANGED <<termVars, textVars, pastVars, fileVars, runs>>

(* A terminal that is gone is no terminal, and there is nothing to read.   *)
ReadGone == /\ at = "idle" /\ input = "tty" /\ hungup
            /\ at' = "returned" /\ line' = None
            /\ Quiet /\ UNCHANGED <<tty, rawmode, textVars, pastVars, fileVars>>

(* exit: atexit restores the terminal if the flag says so; the file is all *)
(* that is left.                                                           *)
Exit == /\ at' = "exited"
        /\ tty' = IF rawmode /\ ~ hungup THEN "cooked" ELSE tty
        /\ FrameGone
        /\ history' = <<>> /\ k' = 0 /\ line' = None /\ last_valid' = <<>>
        /\ Quiet /\ UNCHANGED <<rawmode, file>>

(* terminal::readline, after linenoise.                                    *)
Throw == at = "returned" /\ line = None /\ Exit

EmptyLine ==
    /\ at = "returned" /\ line = <<>> /\ at' = "idle"
    /\ Quiet /\ UNCHANGED <<tty, rawmode, textVars, pastVars, fileVars, line>>

SaveBegin ==
    /\ at = "returned" /\ line \notin {None, <<>>}
    /\ history' = Added(history, line)
    /\ \/ at' = "save" /\ file' = <<>> /\ k' = 0
       \/ at' = "saved" /\ UNCHANGED <<file, k>>              (* no file   *)
    /\ Quiet /\ UNCHANGED <<tty, rawmode, textVars, history_index, last_valid, line>>

SaveLine ==
    /\ at = "save" /\ k < history_len
    /\ file' = Append(file, history[k + 1]) /\ k' = k + 1
    /\ Quiet /\ UNCHANGED <<at, tty, rawmode, textVars, pastVars, last_valid, line>>

SaveDone ==
    /\ \/ at = "save" /\ k = history_len
       \/ at = "saved"
    /\ last_valid' = line /\ at' = "idle"
    /\ Quiet /\ UNCHANGED <<tty, rawmode, textVars, pastVars, file, k, line>>

(* SIGINT from outside, whatever the mode: the handler exits.              *)
Interrupt == at # "exited" /\ Exit

Hangup == /\ input = "tty" /\ ~ hungup /\ at # "exited" /\ hungup' = TRUE
          /\ UNCHANGED <<at, input, tty, rawmode, textVars, pastVars, fileVars, line, keys, runs>>

Init == /\ at = "load" /\ input \in Inputs /\ file \in Files /\ keys = 0 /\ runs = 1
        /\ hungup = FALSE /\ tty = "cooked" /\ rawmode = FALSE
        /\ buf = Blank /\ pos = 0 /\ len = 0 /\ screen = Fresh(PLen + 1)
        /\ history = <<>> /\ history_index = 0 /\ k = 0 /\ line = None /\ last_valid = <<>>

(* The program is started again, on a terminal as good as new.             *)
Restart ==
    /\ at = "exited" /\ runs < MaxRuns /\ runs' = runs + 1
    /\ at' = "load" /\ hungup' = FALSE /\ tty' = "cooked" /\ rawmode' = FALSE
    /\ UNCHANGED <<textVars, pastVars, fileVars, line, input, keys>>

(* What the program does by itself.                                        *)
Program == \/ LoadLine \/ LoadDone \/ SetRaw \/ BeginEdit \/ Restore \/ Unflag \/ EndOfInput
           \/ ReadGone \/ Throw \/ EmptyLine \/ SaveBegin \/ SaveLine \/ SaveDone

Next == AnyKey \/ Program \/ ReadCooked \/ Interrupt \/ Hangup \/ Restart

Spec == Init /\ [][Next]_vars /\ WF_vars(Program)

------------------------------------------------------------------------------
(* The variables have the values their types in the code allow.            *)
TypeOK ==
    /\ at \in {"load", "idle", "flag", "edit", "restore", "unflag", "returned", "save", "saved", "exited"}
    /\ tty \in {"raw", "cooked"} /\ rawmode \in BOOLEAN /\ hungup \in BOOLEAN
    /\ buf \in [0 .. BufLen -> Char] /\ pos \in Nat /\ len \in Nat
    /\ history_index \in Nat /\ history \in Seq(Text) /\ file \in Seq(Text) /\ k \in Nat
    /\ line \in Text \cup {None}

(* The cursor and the terminating NUL stay in the buffer, the history in   *)
(* its array, and the entry being edited in the history, whatever keys are *)
(* pressed: linenoise checks some of these bounds and relies on the others.*)
EditorInBounds ==
    /\ TypeOK
    /\ pos <= len /\ len <= BufLen /\ buf[len] = NUL
    /\ history_len <= HistMax
    /\ at = "edit" => history_index < history_len

(* Every key changes the text around the cursor as its comment says, and   *)
(* the line returned is that text: no character is lost, doubled or moved  *)
(* by the memmoves, whatever the order of the keys.                        *)
Abstract == INSTANCE TextLine WITH
    Room <- BufLen, past <- history, out <- line, idle <- at = "idle",
    left <- [m \in 1 .. pos |-> buf[m - 1]], right <- [m \in 1 .. len - pos |-> buf[pos + m - 1]]
EditsTheText == Abstract!Spec

(* The cursor is on the row where refreshMultiLine will look for it, and   *)
(* no row below the text still shows what was erased, for a line of any    *)
(* number of rows that shrinks, grows or is replaced.                      *)
ScreenShowsTheLine ==
    at = "edit" /\ screen.plain =>
        /\ screen.row = ((PLen + pos) \div screen.cols) + 1
        /\ screen.shown = Rows(len, screen.cols)

(* A program that ends, by itself or by a signal, leaves the terminal as   *)
(* it was, unless the signal comes between tcsetattr and the flag.         *)
ExitRestoresTheTerminal ==
    [][at' = "exited" /\ tty' = "raw" => at = "flag" \/ hungup]_vars

(* A program started again has the history it saved: the newest entries,   *)
(* in order, as many as there is room for, without repetitions (but for a  *)
(* line as long as the buffer, which comes back with an empty one).        *)
Kept(f) == {n \in DOMAIN f : n = 1 \/ f[n] # f[n - 1]}
HistoryComesBack ==
    at = "load" /\ k = Len(file) /\ (\A n \in DOMAIN file : Len(file[n]) < BufLen) =>
        /\ history_len = IF Cardinality(Kept(file)) < HistMax THEN Cardinality(Kept(file)) ELSE HistMax
        /\ \A n \in Kept(file) : LET newer == Cardinality({m \in Kept(file) : m > n})
                                  IN newer < history_len => history[history_len - newer] = file[n]

(* When the terminal is gone the program ends: the line that was being     *)
(* edited may still be taken for a command, the next one is an error.      *)
EndOfInputEnds == hungup ~> (at = "exited")
=============================================================================
