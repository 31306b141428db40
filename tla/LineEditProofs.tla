---------------------------- MODULE LineEditProofs ----------------------------
(***************************************************************************)
(* The line editor, for every buffer, history and terminal size, every     *)
(* alphabet and every order of keys: it never leaves its buffers           *)
(* (InBounds), leaves the terminal as it was (TerminalIsRestored), finds   *)
(* its rows again (LineIsShown), reads back the history it saved           *)
(* (HistoryIsLoaded), and does to the text what TextLine promises          *)
(* (TextIsEdited).                                                         *)
(*                                                                         *)
(* EditorInBounds is inductive and every other proof uses it. First the    *)
(* lemmas on what the operators on the buffer and on the history keep;     *)
(* EditKeeps reduces every key that edits the line to a few facts about    *)
(* the buffer it leaves behind.                                            *)
(***************************************************************************)
EXTENDS LineEdit, SequenceTheorems, FiniteSetTheorems, WellFoundedInduction, TLAPS

Buffer == [0 .. BufLen -> Char]

(* The least number of a set: why the searches of the editor end.          *)
LEMMA Least == ASSUME NEW S, S \subseteq Nat, S # {}
               PROVE  \E x \in S : \A y \in S : x <= y
<1> DEFINE R == {ss \in Nat \X Nat : ss[1] < ss[2]}
<1>1. IsWellFoundedOn(R, Nat)
  BY NatLessThanWellFounded DEF OpToRel
<1> HIDE DEF R
<1>2. PICK x \in S : \A y \in S : ~ (<<y, x>> \in R)
  BY <1>1, WFMin
<1>3. ASSUME NEW y \in S PROVE x <= y
  <2>1. <<y, x>> \notin R
    BY <1>2
  <2>2. x \in Nat /\ y \in Nat
    OBVIOUS
  <2>3. y < x => <<y, x>> \in R
    BY <2>2 DEF R
  <2>4. QED BY <2>1, <2>2, <2>3
<1>4. QED BY <1>3

(* The buffer has at least one byte.                                       *)
LEMMA BufferSize == BufLen \in Nat /\ BufLen >= 1
  BY SizeAssumption DEF BufLen

(* A buffer with a NUL holds a string that ends at the first one.          *)
LEMMA StrLenIs ==
    ASSUME NEW b \in Buffer, NEW n \in 0 .. BufLen, b[n] = NUL
    PROVE  /\ StrLen(b) \in 0 .. n
           /\ b[StrLen(b)] = NUL
           /\ \A m \in 0 .. StrLen(b) - 1 : b[m] # NUL
<1> DEFINE N == {m \in 0 .. BufLen : b[m] = NUL}
<1>0. N \subseteq Nat /\ n \in N
  BY BufferSize
<1> HIDE DEF N
<1>1. PICK x \in N : \A y \in N : x <= y
  BY <1>0, Least
<1> USE DEF N
<1>2. DOMAIN b = 0 .. BufLen
  BY DEF Buffer
<1>3. \A m \in 0 .. x - 1 : b[m] # NUL
  BY <1>1, BufferSize
<1>4. /\ StrLen(b) \in DOMAIN b /\ b[StrLen(b)] = NUL
      /\ \A m \in 0 .. StrLen(b) - 1 : b[m] # NUL
  BY <1>1, <1>2, <1>3 DEF StrLen
<1>5. StrLen(b) <= n
  BY <1>2, <1>4, BufferSize
<1>6. QED BY <1>2, <1>4, <1>5, BufferSize

(* What is read as a string from such a buffer is a text without a NUL.    *)
LEMMA StrIsText ==
    ASSUME NEW b \in Buffer, NEW n \in 0 .. BufLen, b[n] = NUL
    PROVE  Str(b) \in Text
<1>1. StrLen(b) \in 0 .. n /\ \A m \in 0 .. StrLen(b) - 1 : b[m] # NUL
  BY StrLenIs
<1>2. \A m \in 1 .. StrLen(b) : b[m - 1] \in Char \ {NUL}
  BY <1>1, BufferSize DEF Buffer
<1>3. StrLen(b) \in Nat
  BY <1>1, BufferSize
<1>4. QED BY <1>2, <1>3 DEF Str, Text

(* memmove inside the buffer gives a buffer.                               *)
LEMMA MoveIsBuffer ==
    ASSUME NEW b \in Buffer, NEW to \in Nat, NEW from \in Nat, NEW n \in Int,
           from + n <= BufLen + 1
    PROVE  Move(b, to, from, n) \in Buffer
  BY BufferSize DEF Move, Buffer

(* The word before the cursor begins somewhere before the cursor.          *)
LEMMA WordStartIs ==
    ASSUME NEW b, NEW p \in Nat
    PROVE  /\ WordStart(b, p) \in 0 .. p
           /\ \E s \in WordStart(b, p) .. p :
                 /\ \A m \in s .. p - 1 : b[m] = Space
                 /\ s > 0 => b[s - 1] # Space
                 /\ \A m \in WordStart(b, p) .. s - 1 : b[m] # Space
                 /\ WordStart(b, p) > 0 => b[WordStart(b, p) - 1] = Space
<1> DEFINE S == {s \in 0 .. p : \A m \in s .. p - 1 : b[m] = Space}
<1>1. S \subseteq Nat /\ p \in S
  OBVIOUS
<1> HIDE DEF S
<1>2. PICK s \in S : \A y \in S : s <= y
  BY <1>1, Least
<1> USE DEF S
<1>3. s > 0 => b[s - 1] # Space
  <2>1. SUFFICES ASSUME s > 0, b[s - 1] = Space PROVE s - 1 \in S
    BY <1>2
  <2>2. QED BY <1>2, <2>1
<1> DEFINE Q == {q \in 0 .. s : \A m \in q .. s - 1 : b[m] # Space}
<1>4. Q \subseteq Nat /\ s \in Q
  BY <1>2
<1> HIDE DEF Q
<1>5. PICK q \in Q : \A y \in Q : q <= y
  BY <1>4, Least
<1> USE DEF Q
<1>6. q > 0 => b[q - 1] = Space
  <2>1. SUFFICES ASSUME q > 0, b[q - 1] # Space PROVE q - 1 \in Q
    BY <1>5
  <2>2. QED BY <1>5, <2>1
<1>7. /\ q \in 0 .. p /\ s \in q .. p
      /\ \A m \in s .. p - 1 : b[m] = Space
      /\ \A m \in q .. s - 1 : b[m] # Space
  BY <1>2, <1>5
<1>8. \E r \in 0 .. p :
        \E t \in r .. p : /\ \A m \in t .. p - 1 : b[m] = Space
                          /\ t > 0 => b[t - 1] # Space
                          /\ \A m \in r .. t - 1 : b[m] # Space
                          /\ r > 0 => b[r - 1] = Space
  BY <1>3, <1>6, <1>7
<1>9. QED BY <1>8 DEF WordStart

(* A line is added to a history without making it longer than it may be.   *)
LEMMA AddedIs ==
    ASSUME NEW h \in Seq(Text), Len(h) <= HistMax, NEW t \in Text
    PROVE  /\ Added(h, t) \in Seq(Text)
           /\ Len(Added(h, t)) <= HistMax
           /\ Len(Added(h, t)) >= 1
<1>1. HistMax \in Nat /\ HistMax >= 1 /\ Len(h) \in Nat
  BY SizeAssumption
<1>2. CASE h # <<>> /\ h[Len(h)] = t
  BY <1>1, <1>2, EmptySeq DEF Added
<1>3. CASE ~ (h # <<>> /\ h[Len(h)] = t)
  <2> DEFINE g == IF Len(h) = HistMax THEN Tail(h) ELSE h
  <2>1. g \in Seq(Text) /\ Len(g) \in Nat /\ Len(g) + 1 <= HistMax
    BY <1>1
  <2>2. Added(h, t) = Append(g, t)
    BY <1>3 DEF Added
  <2> HIDE DEF g
  <2>3. Append(g, t) \in Seq(Text) /\ Len(Append(g, t)) = Len(g) + 1
    BY <2>1
  <2>4. QED BY <1>1, <2>1, <2>2, <2>3
<1>4. QED BY <1>2, <1>3

(* An entry copied into the buffer leaves a NUL behind it.                 *)
LEMMA CopiedIs ==
    ASSUME NEW b \in Buffer, NEW t \in Text
    PROVE  Copied(b, t) \in Buffer /\ Copied(b, t)[BufLen - 1] = NUL
<1>1. \A m \in 1 .. Len(t) : t[m] \in Char
  BY DEF Text
<1>2. NUL \in Char /\ Len(t) \in Nat
  BY TextAssumption DEF Text
<1>3. \A m \in 0 .. BufLen : m < Len(t) => t[m + 1] \in Char
  BY <1>1, <1>2, BufferSize
<1>4. DOMAIN b = 0 .. BufLen /\ \A m \in 0 .. BufLen : b[m] \in Char
  BY DEF Buffer
<1>5. QED BY <1>2, <1>3, <1>4, BufferSize DEF Copied, Buffer
------------------------------------------------------------------------------
(* What EditorInBounds says, in parts: the text, the past, and the rest.   *)
TextInBounds(b, p, n) == /\ b \in Buffer /\ p \in Nat /\ n \in Nat
                         /\ p <= n /\ n <= BufLen /\ b[n] = NUL
PastInBounds(h, i, place) == /\ h \in Seq(Text) /\ i \in Nat /\ Len(h) <= HistMax
                             /\ place = "edit" => i < Len(h)
RestInBounds == /\ at \in {"load", "idle", "flag", "edit", "restore", "unflag", "returned", "save", "saved", "exited"}
                /\ tty \in {"raw", "cooked"} /\ rawmode \in BOOLEAN /\ hungup \in BOOLEAN
                /\ file \in Seq(Text) /\ k \in Nat /\ line \in Text \cup {None}

(* EditorInBounds is these three, before a step and after it.              *)
LEMMA Parts ==
    EditorInBounds <=> /\ TextInBounds(buf, pos, len)
                       /\ PastInBounds(history, history_index, at)
                       /\ RestInBounds
  BY DEF EditorInBounds, TypeOK, TextInBounds, PastInBounds, RestInBounds, Buffer, history_len

(* The same of the next state.                                             *)
LEMMA PartsPrime ==
    EditorInBounds' <=> /\ TextInBounds(buf', pos', len')
                        /\ PastInBounds(history', history_index', at')
                        /\ RestInBounds'
  BY DEF EditorInBounds, TypeOK, TextInBounds, PastInBounds, RestInBounds, Buffer, history_len

(* An emptied frame is in bounds.                                          *)
LEMMA BlankInBounds == TextInBounds(Blank, 0, 0)
  BY BufferSize, TextAssumption DEF TextInBounds, Blank, Buffer

(* The initial state is in bounds.                                         *)
LEMMA InitInBounds == Init => EditorInBounds
<1> SUFFICES ASSUME Init PROVE EditorInBounds
  OBVIOUS
<1>1. TextInBounds(buf, pos, len)
  BY BlankInBounds DEF Init
<1>2. PastInBounds(history, history_index, at)
  BY SizeAssumption DEF Init, PastInBounds
<1>3. RestInBounds
  BY TextAssumption DEF Init, RestInBounds
<1>4. QED BY <1>1, <1>2, <1>3, Parts

(* A key that edits the line keeps the bounds if its buffer does.          *)
LEMMA EditKeeps ==
    ASSUME EditorInBounds, Edits,
           NEW b, NEW p, NEW n, Edit(b, p, n), TextInBounds(b, p, n)
    PROVE  EditorInBounds'
<1>1. TextInBounds(buf', pos', len')
  BY DEF Edit
<1>2. UNCHANGED <<at, history, history_index>> /\ UNCHANGED <<hungup, tty, rawmode, file, k, line>>
  BY DEF Edits, Key, termVars, fileVars, pastVars
<1>3. PastInBounds(history', history_index', at')
  BY <1>2, Parts
<1>4. RestInBounds'
  BY <1>2, Parts DEF RestInBounds
<1>5. QED BY <1>1, <1>3, <1>4, PartsPrime

(* Typing a character.                                                     *)
LEMMA InsertKeeps == ASSUME EditorInBounds, NEW c \in Typed, Insert(c) PROVE EditorInBounds'
<1> DEFINE m == Move(buf, pos + 1, pos, len - pos)
           b == [m EXCEPT ![pos] = c, ![len + 1] = NUL]
<1>1. TextInBounds(buf, pos, len) /\ len < BufLen
  BY Parts DEF Insert
<1>2. m \in Buffer
  BY <1>1, BufferSize, MoveIsBuffer DEF TextInBounds
<1>3. c \in Char /\ NUL \in Char
  BY TextAssumption
<1> HIDE DEF m
<1>4. b \in Buffer /\ b[len + 1] = NUL
  BY <1>1, <1>2, <1>3, BufferSize DEF TextInBounds, Buffer
<1> HIDE DEF b
<1>5. TextInBounds(b, pos + 1, len + 1)
  BY <1>1, <1>4, BufferSize DEF TextInBounds
<1>6. Edits /\ Edit(b, pos + 1, len + 1)
  BY DEF Insert, b, m
<1>7. QED BY <1>5, <1>6, EditKeeps

(* Moving the cursor.                                                      *)
LEMMA CursorKeeps ==
    ASSUME EditorInBounds, MoveLeft \/ MoveRight \/ MoveHome \/ MoveEnd PROVE EditorInBounds'
<1>1. TextInBounds(buf, pos, len)
  BY Parts
<1>2. CASE MoveLeft
  <2>1. TextInBounds(buf, pos - 1, len)
    BY <1>1, <1>2 DEF TextInBounds, MoveLeft
  <2>2. QED BY <1>2, <2>1, EditKeeps DEF MoveLeft
<1>3. CASE MoveRight
  <2>1. TextInBounds(buf, pos + 1, len)
    BY <1>1, <1>3 DEF TextInBounds, MoveRight
  <2>2. QED BY <1>3, <2>1, EditKeeps DEF MoveRight
<1>4. CASE MoveHome
  <2>1. TextInBounds(buf, 0, len)
    BY <1>1 DEF TextInBounds
  <2>2. QED BY <1>4, <2>1, EditKeeps DEF MoveHome
<1>5. CASE MoveEnd
  <2>1. TextInBounds(buf, len, len)
    BY <1>1 DEF TextInBounds
  <2>2. QED BY <1>5, <2>1, EditKeeps DEF MoveEnd
<1>6. QED BY <1>2, <1>3, <1>4, <1>5

(* Removing the character after the cursor.                                *)
LEMMA DeleteKeeps == ASSUME EditorInBounds, Delete PROVE EditorInBounds'
<1> DEFINE m == Move(buf, pos, pos + 1, len - pos - 1)
           b == [m EXCEPT ![len - 1] = NUL]
<1>1. TextInBounds(buf, pos, len) /\ len > 0 /\ pos < len
  BY Parts DEF Delete
<1>2. m \in Buffer
  BY <1>1, BufferSize, MoveIsBuffer DEF TextInBounds
<1> HIDE DEF m
<1>3. TextInBounds(b, pos, len - 1)
  BY <1>1, <1>2, TextAssumption, BufferSize DEF TextInBounds, Buffer
<1>4. Edits /\ Edit(b, pos, len - 1)
  BY DEF Delete, m
<1> HIDE DEF b
<1>5. QED BY <1>3, <1>4, EditKeeps

(* Removing the character before it.                                       *)
LEMMA BackspaceKeeps == ASSUME EditorInBounds, Backspace PROVE EditorInBounds'
<1> DEFINE m == Move(buf, pos - 1, pos, len - pos)
           b == [m EXCEPT ![len - 1] = NUL]
<1>1. TextInBounds(buf, pos, len) /\ pos > 0 /\ len > 0
  BY Parts DEF Backspace
<1>2. m \in Buffer
  BY <1>1, BufferSize, MoveIsBuffer DEF TextInBounds
<1> HIDE DEF m
<1>3. TextInBounds(b, pos - 1, len - 1)
  BY <1>1, <1>2, TextAssumption, BufferSize DEF TextInBounds, Buffer
<1>4. Edits /\ Edit(b, pos - 1, len - 1)
  BY DEF Backspace, m
<1> HIDE DEF b
<1>5. QED BY <1>3, <1>4, EditKeeps

(* Removing the word before the cursor: the NUL comes along.               *)
LEMMA DeletePrevWordKeeps == ASSUME EditorInBounds, DeletePrevWord PROVE EditorInBounds'
<1> DEFINE q == WordStart(buf, pos)
           b == Move(buf, q, pos, len - pos + 1)
<1>1. TextInBounds(buf, pos, len)
  BY Parts
<1>2. q \in Nat /\ q <= pos
  BY <1>1, WordStartIs DEF TextInBounds
<1>3. Edits /\ Edit(b, q, len - (pos - q))
  BY DEF DeletePrevWord
<1> HIDE DEF q
<1>4. b \in Buffer
  BY <1>1, <1>2, BufferSize, MoveIsBuffer DEF TextInBounds
<1>5. b[len - (pos - q)] = NUL
  BY <1>1, <1>2, BufferSize DEF TextInBounds, Buffer, Move
<1> HIDE DEF b
<1>6. TextInBounds(b, q, len - (pos - q))
  BY <1>1, <1>2, <1>4, <1>5, BufferSize DEF TextInBounds
<1>7. QED BY <1>3, <1>6, EditKeeps

(* Exchanging the characters on both sides of the cursor.                  *)
LEMMA SwapKeeps == ASSUME EditorInBounds, Swap PROVE EditorInBounds'
<1> DEFINE b == [buf EXCEPT ![pos - 1] = buf[pos], ![pos] = buf[pos - 1]]
           p == IF pos # len - 1 THEN pos + 1 ELSE pos
<1>1. TextInBounds(buf, pos, len) /\ pos > 0 /\ pos < len
  BY Parts DEF Swap
<1>2. TextInBounds(b, p, len)
  BY <1>1, BufferSize DEF TextInBounds, Buffer
<1>3. Edits /\ Edit(b, p, len)
  BY DEF Swap
<1> HIDE DEF b, p
<1>4. QED BY <1>2, <1>3, EditKeeps

(* Erasing the line, or what follows the cursor.                           *)
LEMMA KillKeeps == ASSUME EditorInBounds, KillLine \/ KillEnd PROVE EditorInBounds'
<1>1. TextInBounds(buf, pos, len) /\ NUL \in Char
  BY Parts, TextAssumption
<1>2. CASE KillLine
  <2>1. TextInBounds([buf EXCEPT ![0] = NUL], 0, 0)
    BY <1>1, BufferSize DEF TextInBounds, Buffer
  <2>2. QED BY <1>2, <2>1, EditKeeps DEF KillLine
<1>3. CASE KillEnd
  <2>1. TextInBounds([buf EXCEPT ![pos] = NUL], pos, pos)
    BY <1>1, BufferSize DEF TextInBounds, Buffer
  <2>2. QED BY <1>3, <2>1, EditKeeps DEF KillEnd
<1>4. QED BY <1>2, <1>3

------------------------------------------------------------------------------
(* Keys that reach the history, and those that end the line.               *)

(* The line in the buffer is a text.                                       *)
LEMMA LineIsText == EditorInBounds => Str(buf) \in Text
<1> SUFFICES ASSUME EditorInBounds PROVE Str(buf) \in Text
  OBVIOUS
<1>1. TextInBounds(buf, pos, len)
  BY Parts
<1>2. buf \in Buffer /\ len \in 0 .. BufLen /\ buf[len] = NUL
  BY <1>1, BufferSize DEF TextInBounds
<1>3. QED BY <1>2, StrIsText

(* Recalling an entry leaves the one shown in its place.                   *)
LEMMA RecallKeeps == ASSUME EditorInBounds, NEW dir \in {1, -1}, Recall(dir) PROVE EditorInBounds'
<1> DEFINE i == history_index + dir
           b == Copied(buf, history'[Len(history) - i])
<1>1. /\ TextInBounds(buf, pos, len) /\ PastInBounds(history, history_index, at) /\ RestInBounds
      /\ at = "edit" /\ at' = "edit"
      /\ history' = [history EXCEPT ![Len(history) - history_index] = Str(buf)]
  BY Parts DEF Recall, Key, history_len
<1>2. Len(history) \in Nat /\ history_index \in Nat /\ history_index < Len(history)
  BY <1>1 DEF PastInBounds
<1>3. history' \in Seq(Text) /\ Len(history') = Len(history)
  BY <1>1, <1>2, LineIsText DEF PastInBounds
<1>4. RestInBounds'
  BY <1>1 DEF RestInBounds, Recall, Key, termVars, fileVars
<1>5. CASE i \in 0 .. Len(history) - 1
  <2>1. history' [Len(history) - i] \in Text
    BY <1>2, <1>3, <1>5, ElementOfSeq
  <2>2. b \in Buffer /\ b[BufLen - 1] = NUL
    BY <1>1, <2>1, CopiedIs DEF TextInBounds
  <2>3. history_index' = i /\ buf' = b /\ pos' = StrLen(b) /\ len' = StrLen(b)
    BY <1>5 DEF Recall, Edit, history_len
  <2> HIDE DEF b
  <2>4. StrLen(b) \in 0 .. BufLen - 1 /\ b[StrLen(b)] = NUL
    BY <2>2, BufferSize, StrLenIs
  <2>5. TextInBounds(buf', pos', len')
    BY <2>2, <2>3, <2>4, BufferSize DEF TextInBounds
  <2>6. PastInBounds(history', history_index', at')
    BY <1>1, <1>2, <1>3, <1>5, <2>3 DEF PastInBounds
  <2>7. QED BY <1>4, <2>5, <2>6, PartsPrime
<1>6. CASE i \notin 0 .. Len(history) - 1
  <2>1. UNCHANGED <<history_index, buf, pos, len>>
    BY <1>6 DEF Recall, textVars, history_len
  <2>2. TextInBounds(buf', pos', len')
    BY <1>1, <2>1
  <2>3. PastInBounds(history', history_index', at')
    BY <1>1, <1>2, <1>3, <2>1 DEF PastInBounds
  <2>4. QED BY <1>4, <2>2, <2>3, PartsPrime
<1>7. QED BY <1>5, <1>6

(* The entry of the line being edited goes when the line is done.          *)
LEMMA PopKeeps ==
    ASSUME EditorInBounds, at = "edit", PopScratch, NEW place, place # "edit"
    PROVE  PastInBounds(history', history_index', place)
<1>1. history \in Seq(Text) /\ Len(history) \in Nat \ {0} /\ Len(history) <= HistMax
      /\ history_index \in Nat
  BY Parts DEF PastInBounds
<1>2. history' = SubSeq(history, 1, Len(history) - 1) /\ history_index' = history_index
  BY DEF PopScratch, history_len
<1>3. SubSeq(history, 1, Len(history) - 1) \in Seq(Text)
      /\ Len(SubSeq(history, 1, Len(history) - 1)) = Len(history) - 1
  <2>1. ASSUME NEW h \in Seq(Text), NEW n \in Nat, n <= Len(h)
        PROVE  SubSeq(h, 1, n) \in Seq(Text) /\ Len(SubSeq(h, 1, n)) = n
    <3>1. \A i \in 1 .. n : h[i] \in Text
      BY <2>1
    <3>2. 1 \in Int /\ n \in Int
      BY <2>1
    <3>3. SubSeq(h, 1, n) \in Seq(Text) /\ Len(SubSeq(h, 1, n)) = IF 1 <= n THEN n - 1 + 1 ELSE 0
      BY <3>1, <3>2, SubSeqProperties
    <3>4. QED BY <2>1, <3>3
  <2>2. Len(history) - 1 \in Nat /\ Len(history) - 1 <= Len(history)
    BY <1>1
  <2>3. QED BY <1>1, <2>1, <2>2
<1>4. QED BY <1>1, <1>2, <1>3, SizeAssumption DEF PastInBounds

(* Enter, Ctrl-C, Ctrl-D and the end of the input leave the editor.        *)
LEMMA LeaveKeeps ==
    ASSUME EditorInBounds, Enter \/ CtrlC \/ CtrlD \/ EndOfInput PROVE EditorInBounds'
<1>1. TextInBounds(buf, pos, len) /\ PastInBounds(history, history_index, at) /\ RestInBounds
  BY Parts
<1>2. at = "edit" /\ at' = "restore" /\ UNCHANGED <<hungup, tty, rawmode, file, k>>
      /\ line' \in {Str(buf), None}
  BY DEF Enter, CtrlC, CtrlD, EndOfInput, Key, termVars, fileVars
<1>3. RestInBounds'
  BY <1>1, <1>2, LineIsText DEF RestInBounds
<1>4. TextInBounds(buf', pos', len')
  <2>1. TextInBounds(buf, len, len)
    BY <1>1 DEF TextInBounds
  <2>2. buf' = buf /\ len' = len /\ (pos' = pos \/ pos' = len)
    BY DEF Enter, CtrlC, CtrlD, EndOfInput, Edit, textVars
  <2>3. QED BY <1>1, <2>1, <2>2
<1>5. PastInBounds(history', history_index', at')
  <2>1. CASE PopScratch
    BY <1>2, <2>1, PopKeeps
  <2>2. CASE UNCHANGED pastVars
    BY <1>1, <1>2, <2>2 DEF PastInBounds, pastVars
  <2>3. QED BY <2>1, <2>2 DEF Enter, CtrlC, CtrlD, EndOfInput
<1>6. QED BY <1>3, <1>4, <1>5, PartsPrime

(* No key leaves the bounds.                                               *)
LEMMA KeyKeeps == EditorInBounds /\ AnyKey => EditorInBounds'
<1> SUFFICES ASSUME EditorInBounds, AnyKey PROVE EditorInBounds'
  OBVIOUS
<1>1. CASE \E c \in Typed : Insert(c)
  BY <1>1, InsertKeeps
<1>2. CASE MoveLeft \/ MoveRight \/ MoveHome \/ MoveEnd
  BY <1>2, CursorKeeps
<1>3. CASE Delete \/ Backspace \/ DeletePrevWord
  BY <1>3, DeleteKeeps, BackspaceKeeps, DeletePrevWordKeeps
<1>4. CASE Swap \/ KillLine \/ KillEnd
  BY <1>4, SwapKeeps, KillKeeps
<1>5. CASE ClearScreen \/ Ignored
  <2>1. TextInBounds(buf', pos', len') /\ UNCHANGED pastVars /\ at' = at
    BY <1>5, Parts DEF ClearScreen, Ignored, Edits, textVars
  <2>2. RestInBounds'
    BY <1>5, Parts DEF ClearScreen, Ignored, Edits, Key, RestInBounds, termVars, fileVars
  <2>3. PastInBounds(history', history_index', at')
    BY <2>1, Parts DEF pastVars
  <2>4. QED BY <2>1, <2>2, <2>3, PartsPrime
<1>6. CASE \E dir \in {1, -1} : Recall(dir)
  BY <1>6, RecallKeeps
<1>7. CASE Enter \/ CtrlC \/ CtrlD
  BY <1>7, LeaveKeeps
<1>8. QED BY <1>1, <1>2, <1>3, <1>4, <1>5, <1>6, <1>7 DEF AnyKey

------------------------------------------------------------------------------
(* What the program does between two keys.                                 *)

(* A file read back fills the history and no more.                         *)
LEMMA LoadLineKeeps == ASSUME EditorInBounds, LoadLine PROVE EditorInBounds'
<1> DEFINE t == file[k + 1]
           h == Added(history, t)
<1>1. TextInBounds(buf, pos, len) /\ PastInBounds(history, history_index, at) /\ RestInBounds
  BY Parts
<1>2. t \in Text /\ <<>> \in Text
  BY <1>1 DEF RestInBounds, LoadLine, Text
<1>3. at = "load" /\ k' = k + 1 /\ history' = (IF Len(t) = BufLen THEN Added(h, <<>>) ELSE h)
      /\ UNCHANGED <<at, hungup, tty, rawmode, buf, pos, len, history_index, file, line>>
  BY DEF LoadLine, Quiet, textVars
<1> HIDE DEF t
<1>4. h \in Seq(Text) /\ Len(h) <= HistMax
  BY <1>1, <1>2, AddedIs DEF PastInBounds
<1> HIDE DEF h
<1>5. Added(h, <<>>) \in Seq(Text) /\ Len(Added(h, <<>>)) <= HistMax
  BY <1>2, <1>4, AddedIs
<1>6. PastInBounds(history', history_index', at')
  BY <1>1, <1>3, <1>4, <1>5 DEF PastInBounds
<1>7. RestInBounds'
  BY <1>1, <1>3 DEF RestInBounds
<1>8. TextInBounds(buf', pos', len')
  BY <1>1, <1>3
<1>9. QED BY <1>6, <1>7, <1>8, PartsPrime

(* Steps that touch neither the text nor the past.                         *)
LEMMA StillKeeps ==
    ASSUME EditorInBounds, UNCHANGED textVars, UNCHANGED pastVars,
           RestInBounds', at' # "edit" \/ at' = at
    PROVE  EditorInBounds'
<1>1. TextInBounds(buf, pos, len) /\ PastInBounds(history, history_index, at)
  BY Parts
<1>2. TextInBounds(buf', pos', len')
  BY <1>1 DEF textVars
<1>3. PastInBounds(history', history_index', at')
  BY <1>1 DEF pastVars, PastInBounds
<1>4. QED BY <1>2, <1>3, PartsPrime

(* Those steps are these.                                                  *)
LEMMA QuietKeeps ==
    ASSUME EditorInBounds,
           LoadDone \/ SetRaw \/ ReadCooked \/ ReadGone \/ EmptyLine
             \/ SaveLine \/ SaveDone \/ Hangup \/ Restart
    PROVE  EditorInBounds'
<1>1. RestInBounds /\ history \in Seq(Text)
  BY Parts DEF PastInBounds
<1>2. UNCHANGED textVars /\ UNCHANGED pastVars /\ (at' # "edit" \/ at' = at)
  BY DEF LoadDone, SetRaw, ReadCooked, ReadGone, EmptyLine, SaveLine, SaveDone, Hangup, Restart
<1> SUFFICES RestInBounds'
  BY <1>2, StillKeeps
<1>3. CASE LoadDone \/ SetRaw \/ ReadGone \/ EmptyLine \/ SaveDone \/ Hangup \/ Restart
  BY <1>1, <1>3, TextAssumption
     DEF RestInBounds, LoadDone, SetRaw, ReadGone, EmptyLine, SaveDone, Hangup, Restart,
         Quiet, fileVars, termVars
<1>4. CASE ReadCooked
  BY <1>1, <1>4, TextAssumption DEF RestInBounds, ReadCooked, fileVars, termVars
<1>5. CASE SaveLine
  <2>1. history[k + 1] \in Text
    BY <1>1, <1>5 DEF SaveLine, RestInBounds, history_len
  <2>2. file' \in Seq(Text) /\ k' \in Nat
    BY <1>1, <1>5, <2>1 DEF SaveLine, RestInBounds
  <2>3. UNCHANGED <<at, hungup, tty, rawmode, line>>
    BY <1>5 DEF SaveLine, Quiet
  <2>4. QED BY <1>1, <2>2, <2>3 DEF RestInBounds
<1>6. QED BY <1>3, <1>4, <1>5

(* A line is begun empty, in the newest entry of the history.              *)
LEMMA BeginEditKeeps == ASSUME EditorInBounds, BeginEdit PROVE EditorInBounds'
<1>1. TextInBounds(buf, pos, len) /\ PastInBounds(history, history_index, at) /\ RestInBounds
  BY Parts
<1>2. pos' = 0 /\ len' = 0 /\ buf' = [buf EXCEPT ![0] = NUL]
      /\ history' = Added(history, <<>>) /\ history_index' = 0
  BY DEF BeginEdit
<1>3. TextInBounds(buf', pos', len')
  BY <1>1, <1>2, TextAssumption, BufferSize DEF TextInBounds, Buffer
<1>4. PastInBounds(history', history_index', at')
  <2>1. <<>> \in Text
    BY DEF Text
  <2>2. history' \in Seq(Text) /\ Len(history') <= HistMax /\ Len(history') >= 1
    BY <1>1, <1>2, <2>1, AddedIs DEF PastInBounds
  <2>3. QED BY <1>2, <2>2 DEF PastInBounds
<1>5. RestInBounds'
  <2>1. at' \in {"restore", "edit"} /\ line' \in {line, None} /\ rawmode' = TRUE
        /\ UNCHANGED <<hungup, tty, file, k>>
    BY DEF BeginEdit, Quiet, fileVars
  <2>2. QED BY <1>1, <2>1 DEF RestInBounds
<1>6. QED BY <1>3, <1>4, <1>5, PartsPrime

(* The frame of the editor goes with the terminal's mode.                  *)
LEMMA RestoreKeeps == ASSUME EditorInBounds, Restore \/ Unflag PROVE EditorInBounds'
<1>1. TextInBounds(buf, pos, len) /\ PastInBounds(history, history_index, at) /\ RestInBounds
  BY Parts
<1>2. FrameGone \/ (UNCHANGED textVars /\ UNCHANGED history_index)
  BY DEF Restore, Unflag
<1>3. at' \in {"returned", "unflag"} /\ tty' \in {tty, "cooked"} /\ rawmode' \in {rawmode, FALSE}
      /\ UNCHANGED <<hungup, history, file, k, line>>
  BY DEF Restore, Unflag, Quiet, fileVars
<1>4. TextInBounds(buf', pos', len')
  BY <1>1, <1>2, BlankInBounds DEF FrameGone, textVars
<1>5. PastInBounds(history', history_index', at')
  BY <1>1, <1>2, <1>3 DEF PastInBounds, FrameGone
<1>6. RestInBounds'
  BY <1>1, <1>3 DEF RestInBounds
<1>7. QED BY <1>4, <1>5, <1>6, PartsPrime

(* Only the file is left of a program that ends.                           *)
LEMMA ExitKeeps == ASSUME EditorInBounds, Exit PROVE EditorInBounds'
<1>1. RestInBounds
  BY Parts
<1>2. TextInBounds(buf', pos', len')
  BY BlankInBounds DEF Exit, FrameGone
<1>3. PastInBounds(history', history_index', at')
  BY SizeAssumption DEF Exit, FrameGone, PastInBounds
<1>4. RestInBounds'
  BY <1>1 DEF Exit, Quiet, RestInBounds
<1>5. QED BY <1>2, <1>3, <1>4, PartsPrime

(* A line that was read joins the history.                                 *)
LEMMA SaveBeginKeeps == ASSUME EditorInBounds, SaveBegin PROVE EditorInBounds'
<1>1. TextInBounds(buf, pos, len) /\ PastInBounds(history, history_index, at) /\ RestInBounds
  BY Parts
<1>2. line \in Text /\ history' = Added(history, line)
  BY <1>1 DEF SaveBegin, RestInBounds
<1>3. at' \in {"save", "saved"} /\ (file' = file \/ file' = <<>>) /\ (k' = k \/ k' = 0)
      /\ UNCHANGED <<hungup, tty, rawmode, history_index, line>> /\ UNCHANGED textVars
  BY DEF SaveBegin, Quiet
<1>4. TextInBounds(buf', pos', len')
  BY <1>1, <1>3 DEF textVars
<1>5. PastInBounds(history', history_index', at')
  BY <1>1, <1>2, <1>3, AddedIs DEF PastInBounds
<1>6. RestInBounds'
  <2>1. file \in Seq(Text) /\ k \in Nat
    BY <1>1 DEF RestInBounds
  <2>2. file' \in Seq(Text) /\ k' \in Nat
    <3>1. <<>> \in Seq(Text)
      OBVIOUS
    <3>2. file' = file \/ file' = <<>>
      BY <1>3
    <3>3. k' = k \/ k' = 0
      BY <1>3
    <3>4. file' \in Seq(Text)
      BY <2>1, <3>1, <3>2, Zenon
    <3>5. QED BY <2>1, <3>3, <3>4
  <2>3. at' \in {"load", "idle", "flag", "edit", "restore", "unflag", "returned", "save", "saved", "exited"}
    BY <1>3
  <2>4. QED BY <1>1, <1>3, <2>2, <2>3 DEF RestInBounds
<1>7. QED BY <1>4, <1>5, <1>6, PartsPrime

(* EditorInBounds is inductive.                                            *)
LEMMA StepKeeps == EditorInBounds /\ [Next]_vars => EditorInBounds'
<1> SUFFICES ASSUME EditorInBounds, [Next]_vars PROVE EditorInBounds'
  OBVIOUS
<1>1. CASE AnyKey
  BY <1>1, KeyKeeps
<1>2. CASE Program
  BY <1>2, LoadLineKeeps, QuietKeeps, BeginEditKeeps, RestoreKeeps, LeaveKeeps, ExitKeeps,
     SaveBeginKeeps DEF Program, Throw
<1>3. CASE ReadCooked \/ Hangup \/ Restart
  BY <1>3, QuietKeeps
<1>4. CASE Interrupt
  BY <1>4, ExitKeeps DEF Interrupt
<1>5. CASE UNCHANGED vars
  <2>1. RestInBounds' /\ at' = at
    BY <1>5, Parts DEF vars, RestInBounds, termVars, fileVars
  <2>2. UNCHANGED textVars /\ UNCHANGED pastVars
    BY <1>5 DEF vars
  <2>3. QED BY <2>1, <2>2, StillKeeps
<1>6. QED BY <1>1, <1>2, <1>3, <1>4, <1>5 DEF Next

(* Cursor, length and terminating NUL stay in the buffer of linenoiseEdit, *)
(* the history in its array and the entry being edited in the history, for *)
(* every size of both, whatever is typed, loaded or recalled.              *)
THEOREM InBounds == Spec => []EditorInBounds
<1>1. Init => EditorInBounds
  BY InitInBounds
<1>2. EditorInBounds /\ [Next]_vars => EditorInBounds'
  BY StepKeeps
<1>3. QED BY <1>1, <1>2, PTL DEF Spec
------------------------------------------------------------------------------
(* What a program that ends leaves of the terminal.                        *)

(* Raw mode is known to atexit, but for the moment between the two         *)
(* assignments and after the terminal was gone.                            *)
RawInv == /\ tty = "raw" => rawmode \/ hungup \/ at \in {"flag", "exited"}
          /\ at = "unflag" => tty = "cooked"

(* Keys leave the terminal and its flag alone, and do not end the program. *)
LEMMA KeyIsQuiet == AnyKey => UNCHANGED termVars /\ at = "edit" /\ at' \in {"edit", "restore"}
<1> SUFFICES ASSUME AnyKey PROVE UNCHANGED termVars /\ at = "edit" /\ at' \in {"edit", "restore"}
  OBVIOUS
<1>1. Key => at = "edit" /\ UNCHANGED termVars
  BY DEF Key
<1>2. Edits => at = "edit" /\ UNCHANGED termVars /\ at' = at
  BY <1>1 DEF Edits
<1>3. CASE \/ \E c \in Typed : Insert(c)
           \/ MoveLeft \/ MoveRight \/ MoveHome \/ MoveEnd \/ Delete \/ Backspace
           \/ DeletePrevWord \/ Swap \/ KillLine \/ KillEnd \/ ClearScreen \/ Ignored
  BY <1>2, <1>3 DEF Insert, MoveLeft, MoveRight, MoveHome, MoveEnd, Delete, Backspace,
     DeletePrevWord, Swap, KillLine, KillEnd, ClearScreen, Ignored
<1>4. CASE \E dir \in {1, -1} : Recall(dir)
  BY <1>1, <1>4 DEF Recall
<1>5. CASE Enter \/ CtrlC \/ CtrlD
  BY <1>1, <1>5 DEF Enter, CtrlC, CtrlD
<1>6. QED BY <1>3, <1>4, <1>5 DEF AnyKey

(* A program leaves its terminal raw only in that moment.                  *)
LEMMA ExitLeaves == ASSUME RawInv, Exit, at # "exited", tty' = "raw" PROVE at = "flag" \/ hungup
<1>1. tty' = IF rawmode /\ ~ hungup THEN "cooked" ELSE tty
  BY DEF Exit
<1>2. ~ (rawmode /\ ~ hungup) /\ tty = "raw"
  BY <1>1
<1>3. QED BY <1>2 DEF RawInv

(* Every other step leaves the program running.                            *)
LEMMA OnlyExitEnds ==
    ASSUME EditorInBounds, RawInv, Next
    PROVE  RawInv' /\ (at' = "exited" => Exit /\ at # "exited")
<1>1. CASE AnyKey
  BY <1>1, KeyIsQuiet DEF RawInv, termVars
<1>2. CASE Exit /\ at # "exited"
  BY <1>2 DEF Exit, RawInv
<1>3. CASE LoadLine \/ LoadDone \/ EmptyLine \/ SaveBegin \/ SaveLine \/ SaveDone \/ ReadGone \/ EndOfInput \/ ReadCooked
  <2>1. UNCHANGED <<tty, rawmode, hungup>> /\ at \notin {"flag", "exited"} /\ at' \notin {"exited", "unflag"}
    BY <1>3 DEF LoadLine, LoadDone, EmptyLine, SaveBegin, SaveLine, SaveDone, ReadGone, EndOfInput, ReadCooked,
       Quiet, termVars
  <2>2. QED BY <2>1 DEF RawInv
<1>4. CASE SetRaw \/ BeginEdit
  BY <1>4 DEF SetRaw, BeginEdit, RawInv, Quiet
<1>5. CASE Restore \/ Unflag
  BY <1>5 DEF Restore, Unflag, RawInv, Quiet
<1>6. CASE Hangup
  BY <1>6 DEF Hangup, RawInv
<1>7. CASE Restart
  BY <1>7 DEF Restart, RawInv
<1>8. QED BY <1>1, <1>2, <1>3, <1>4, <1>5, <1>6, <1>7 DEF Next, Program, Throw, Interrupt

(* A program that ends, by itself or by a signal, leaves the terminal      *)
(* cooked, unless the signal comes between tcsetattr and the flag that     *)
(* atexit looks at, or the terminal is gone.                               *)
THEOREM TerminalIsRestored == Spec => ExitRestoresTheTerminal
<1>1. Init => EditorInBounds /\ RawInv
  <2>1. Init => RawInv
    BY DEF Init, RawInv
  <2>2. QED BY <2>1, InitInBounds
<1>2. EditorInBounds /\ RawInv /\ [Next]_vars => (EditorInBounds /\ RawInv)'
  <2> SUFFICES ASSUME EditorInBounds, RawInv, [Next]_vars PROVE RawInv'
    BY StepKeeps
  <2>1. CASE Next
    BY <2>1, OnlyExitEnds
  <2>2. CASE UNCHANGED vars
    BY <2>2 DEF vars, termVars, RawInv
  <2>3. QED BY <2>1, <2>2
<1>3. EditorInBounds /\ RawInv /\ [Next]_vars
        => [at' = "exited" /\ tty' = "raw" => at = "flag" \/ hungup]_vars
  BY OnlyExitEnds, ExitLeaves
<1>4. QED BY <1>1, <1>2, <1>3, PTL DEF Spec, ExitRestoresTheTerminal

------------------------------------------------------------------------------
(* The screen. Rows are quotients; what is needed of division is this.     *)
LEMMA DivPlus ==
    ASSUME NEW x \in Nat, NEW c \in Nat \ {0}
    PROVE  (x + c) \div c = (x \div c) + 1 /\ x \div c \in Nat
  BY SMTT(30)

(* Division keeps the order.                                               *)
LEMMA DivMono ==
    ASSUME NEW x \in Nat, NEW y \in Nat, NEW c \in Nat \ {0}, x <= y
    PROVE  x \div c <= y \div c
  BY SMTT(30)

(* And rounds up when one less than the divisor is added.                  *)
LEMMA DivRound ==
    ASSUME NEW x \in Nat, NEW c \in Nat \ {0}
    PROVE  (x + c - 1) \div c = IF x % c = 0 THEN x \div c ELSE (x \div c) + 1
  BY SMTT(30)

(* Less than one row is no row.                                            *)
LEMMA DivSmall ==
    ASSUME NEW x \in Nat, NEW c \in Nat \ {0}, x < c
    PROVE  x \div c = 0 /\ x % c = x
  BY SMTT(30)

(* The larger of two numbers.                                              *)
LEMMA LargerIs ==
    ASSUME NEW a \in Int, NEW b \in Int
    PROVE  /\ Larger(a, b) \in Int /\ Larger(a, b) >= a /\ Larger(a, b) >= b
           /\ Larger(a, b) = a \/ Larger(a, b) = b
  BY DEF Larger

Cols   == {c \in Nat : PLen < c}
Screen == [oldpos : Nat, maxrows : Nat, cols : Cols, row : Int, shown : Int,
           home : BOOLEAN, plain : BOOLEAN]

(* The rows a line takes, and that of the cursor: the last row is the      *)
(* cursor's when the line fills its rows and the cursor is at its end.     *)
All(p, n, c) == IF p > 0 /\ p = n /\ (p + PLen) % c = 0 THEN Rows(n, c) + 1 ELSE Rows(n, c)

(* Both are at least one, and the cursor's is one of the line's.           *)
LEMMA RowsAre ==
    ASSUME NEW c \in Cols, NEW n \in Nat, NEW p \in 0 .. n
    PROVE  /\ Row(p, c) \in Nat /\ Row(p, c) >= 1 /\ Rows(n, c) \in Nat /\ Rows(n, c) >= 1
           /\ Row(p, c) <= All(p, n, c) /\ All(p, n, c) >= Rows(n, c) /\ All(p, n, c) \in Nat
           /\ Row(p, c) = ((PLen + p) \div c) + 1
           /\ Row(0, c) = 1 /\ Rows(0, c) = 1
<1> DEFINE P == PLen + p
           N == PLen + n
<1>1. PLen \in Nat \ {0} /\ c \in Nat \ {0} /\ PLen < c
  BY SizeAssumption DEF Cols
<1>2. P \in Nat /\ N \in Nat /\ P <= N /\ (p < n => P <= N - 1 /\ N - 1 \in Nat) /\ P >= PLen /\ N >= PLen
  BY <1>1
<1>3. Row(p, c) = (P + c) \div c /\ Rows(n, c) = (N + c - 1) \div c
  BY DEF Row, Rows
<1>4. All(p, n, c) = IF p > 0 /\ p = n /\ P % c = 0 THEN Rows(n, c) + 1 ELSE Rows(n, c)
  BY <1>1 DEF All
<1>5. p = n => P = N
  OBVIOUS
<1>6. Row(0, c) = (PLen + c) \div c /\ Rows(0, c) = (PLen + c - 1) \div c
  BY <1>1 DEF Row, Rows
<1>6a. p = 0 => P = PLen
  BY <1>1
<1>6b. p \in Nat
  OBVIOUS
<1> HIDE DEF P, N
<1>7. Row(p, c) = (P \div c) + 1 /\ P \div c \in Nat
  BY <1>1, <1>2, <1>3, DivPlus
<1>8. Rows(n, c) = (IF N % c = 0 THEN N \div c ELSE (N \div c) + 1) /\ N \div c \in Nat
  BY <1>1, <1>2, <1>3, DivRound, DivPlus
<1>9. PLen \div c = 0 /\ PLen % c = PLen
  BY <1>1, DivSmall
<1>10. Row(0, c) = 1
  <2>1. (PLen + c) \div c = (PLen \div c) + 1
    BY <1>1, DivPlus
  <2>2. Row(0, c) = (PLen \div c) + 1
    BY ONLY <1>6, <2>1
  <2>3. PLen \div c = 0
    BY <1>9
  <2> QED
    BY ONLY <2>2, <2>3
<1>11. Rows(0, c) = 1
  <2>1. (PLen + c - 1) \div c = IF PLen % c = 0 THEN PLen \div c ELSE (PLen \div c) + 1
    BY <1>1, DivRound
  <2> DEFINE d == PLen \div c
             m == PLen % c
  <2>2. Rows(0, c) = IF m = 0 THEN d ELSE d + 1
    BY ONLY <1>6, <2>1
  <2>3. d = 0 /\ m = PLen
    BY <1>9
  <2> HIDE DEF d, m
  <2> QED
    BY ONLY <1>1, <2>2, <2>3
<1>12. Rows(n, c) >= 1
  <2>1. Rows(0, c) <= Rows(n, c)
    <3>1. PLen + c - 1 \in Nat /\ N + c - 1 \in Nat /\ PLen + c - 1 <= N + c - 1
      BY <1>1, <1>2
    <3> QED
      BY <1>1, <1>3, <1>6, <3>1, DivMono
  <2> QED
    BY <1>8, <1>11, <2>1
<1>13. Row(p, c) <= All(p, n, c)
  <2>1. CASE p < n
    <3>1. P + c \in Nat /\ N + c - 1 \in Nat /\ P + c <= N + c - 1
      BY <1>1, <1>2, <2>1
    <3>2. Row(p, c) <= Rows(n, c)
      BY <1>1, <1>3, <3>1, DivMono
    <3> QED
      BY <1>4, <2>1, <3>2
  <2>2. CASE p = n /\ P % c # 0
    BY <1>4, <1>5, <1>7, <1>8, <2>2
  <2>3. CASE p = n /\ P % c = 0 /\ p > 0
    BY <1>4, <1>5, <1>7, <1>8, <2>3
  <2>4. CASE p = n /\ p = 0
    BY <1>1, <1>4, <1>5, <1>6a, <1>7, <1>8, <1>9, <2>4
  <2> QED
    BY <1>6b, <2>1, <2>2, <2>3, <2>4
<1>14. /\ Row(p, c) \in Nat /\ Row(p, c) >= 1 /\ Rows(n, c) \in Nat
       /\ All(p, n, c) >= Rows(n, c) /\ All(p, n, c) \in Nat
  BY <1>4, <1>7, <1>8
<1> QED
  BY <1>7, <1>10, <1>11, <1>12, <1>13, <1>14 DEF P

(***************************************************************************)
(* What the screen shows of a line of n characters with the cursor at p.   *)
(* maxrows counts every row that was ever used, so that the first row is   *)
(* found from the cursor's.                                                *)
(***************************************************************************)
Shows(s, p, n) ==
    /\ s.oldpos = p /\ s.row = Row(p, s.cols) /\ s.shown = Rows(n, s.cols)
    /\ \/ s.maxrows = 0 /\ p = 0 /\ n = 0
       \/ s.maxrows >= Row(p, s.cols) /\ s.maxrows >= Rows(n, s.cols)

(* The next refresh will begin in the first row and erase the last.        *)
Bottom(s) == s.row + Larger(0, s.maxrows - Row(s.oldpos, s.cols))
Up(s)     == Bottom(s) - Larger(0, s.maxrows - 1)
Ready(s)  == s.shown <= Bottom(s) /\ (IF s.home THEN Up(s) <= 1 ELSE Up(s) = 1)

(* A refresh leaves a screen.                                              *)
LEMMA RefreshedIs ==
    ASSUME NEW s \in Screen, NEW b, NEW n \in Nat, NEW p \in 0 .. n
    PROVE  /\ Refreshed(s, b, p, n) \in Screen
           /\ Refreshed(s, b, p, n).plain => s.plain
           /\ Ready(s) => Shows(Refreshed(s, b, p, n), p, n)
<1> DEFINE c     == s.cols
           rows  == Rows(n, c)
           all   == All(p, n, c)
           top   == IF s.home THEN Larger(1, Up(s)) ELSE Up(s)
           text  == top + rows - 1
           max1  == Larger(s.maxrows, all)
           row1  == top + all - 1 - Larger(0, all - Row(p, c))
           shown1 == IF Bottom(s) >= s.shown THEN text ELSE Larger(s.shown, text)
           plain1 == s.plain /\ \A m \in 0 .. n - 1 : b[m] # NUL
           r     == Refreshed(s, b, p, n)
<1>1. r = [s EXCEPT !.oldpos = p, !.maxrows = max1, !.row = row1, !.shown = shown1, !.plain = plain1]
  BY DEF Refreshed, All, Up, Bottom
<1>2. c \in Cols /\ s.maxrows \in Nat /\ s.oldpos \in Nat /\ s.row \in Int /\ s.shown \in Int
      /\ s.home \in BOOLEAN /\ s.plain \in BOOLEAN
  BY DEF Screen
<1>3. /\ Row(p, c) \in Nat /\ Row(p, c) >= 1 /\ rows \in Nat /\ rows >= 1
      /\ Row(p, c) <= all /\ all >= rows /\ all \in Nat
  BY <1>2, RowsAre
<1>4. Row(s.oldpos, c) \in Nat
  BY <1>2, RowsAre
<1>5. Bottom(s) \in Int
  <2> DEFINE x == s.maxrows - Row(s.oldpos, c)
  <2>1. x \in Int /\ 0 \in Int
    BY <1>2, <1>4
  <2>2. Bottom(s) = s.row + Larger(0, x)
    BY DEF Bottom
  <2> HIDE DEF x
  <2>3. Larger(0, x) \in Int
    BY <2>1, LargerIs
  <2> QED
    BY <1>2, <2>2, <2>3
<1>6. Up(s) \in Int
  <2> DEFINE x == s.maxrows - 1
  <2>1. x \in Int /\ 0 \in Int
    BY <1>2
  <2>2. Up(s) = Bottom(s) - Larger(0, x)
    BY DEF Up
  <2> HIDE DEF x
  <2>3. Larger(0, x) \in Int
    BY <2>1, LargerIs
  <2> QED
    BY <1>5, <2>2, <2>3
<1>7. top \in Int
  BY <1>6, LargerIs
<1>8. plain1 \in BOOLEAN
  OBVIOUS
<1>8a. plain1 => s.plain
  OBVIOUS
<1>8b. Larger(0, all - Row(p, c)) = all - Row(p, c)
  BY <1>3 DEF Larger
<1>8c. max1 \in Nat /\ max1 >= all
  BY <1>2, <1>3 DEF Larger
<1>8d. Ready(s) => top = 1 /\ shown1 = text
  BY <1>2, <1>5, <1>6, LargerIs DEF Ready, Larger
<1>8e. shown1 \in Int
  <2>1. text \in Int
    BY <1>3, <1>7
  <2> HIDE DEF text
  <2>2. Larger(s.shown, text) \in Int
    BY <1>2, <2>1, LargerIs
  <2> QED
    BY <2>1, <2>2
<1> HIDE DEF max1, plain1, top, all, rows, c, r
<1>9. row1 = top + Row(p, c) - 1 /\ row1 \in Int
  BY <1>3, <1>7, <1>8b
<1> HIDE DEF row1, shown1
<1>10. r \in Screen
  <2>1. s = [oldpos |-> s.oldpos, maxrows |-> s.maxrows, cols |-> s.cols, row |-> s.row, shown |-> s.shown,
             home |-> s.home, plain |-> s.plain]
    BY DEF Screen
  <2>2. r = [oldpos |-> p, maxrows |-> max1, cols |-> s.cols, row |-> row1, shown |-> shown1,
             home |-> s.home, plain |-> plain1]
    BY <1>1, <2>1
  <2>3. s.cols \in Cols /\ p \in Nat
    BY DEF Screen
  <2> QED
    BY <1>2, <1>8, <1>8c, <1>8e, <1>9, <2>2, <2>3 DEF Screen
<1>11. /\ r.oldpos = p /\ r.maxrows = max1 /\ r.row = row1 /\ r.shown = shown1 /\ r.plain = plain1
       /\ r.cols = c
  BY <1>1 DEF Screen, c
<1>12. ASSUME Ready(s) PROVE Shows(r, p, n)
  <2>1. top = 1 /\ shown1 = text
    BY <1>8d, <1>12
  <2>2. row1 = Row(p, c) /\ shown1 = rows
    BY <1>3, <1>9, <2>1
  <2>3. max1 >= Row(p, c) /\ max1 >= rows
    BY <1>3, <1>8c
  <2> QED
    BY <1>11, <2>2, <2>3 DEF Shows, rows
<1> QED
  BY <1>8a, <1>10, <1>11, <1>12 DEF r

(* A cleared screen.                                                       *)
LEMMA ClearedIs ==
    ASSUME NEW s \in Screen
    PROVE  /\ Cleared(s) \in Screen /\ Cleared(s).row = 1 /\ Cleared(s).shown = 0 /\ Cleared(s).home = TRUE
           /\ Cleared(s).maxrows = s.maxrows /\ Cleared(s).oldpos = s.oldpos /\ Cleared(s).cols = s.cols
           /\ Cleared(s).plain = s.plain
<1>1. s = [oldpos |-> s.oldpos, maxrows |-> s.maxrows, cols |-> s.cols, row |-> s.row, shown |-> s.shown,
           home |-> s.home, plain |-> s.plain]
  BY DEF Screen
<1> DEFINE h == TRUE
<1>2. Cleared(s) = [oldpos |-> s.oldpos, maxrows |-> s.maxrows, cols |-> s.cols, row |-> 1, shown |-> 0,
                    home |-> h, plain |-> s.plain]
  <2>1. Cleared(s) = [s EXCEPT !.row = 1, !.shown = 0, !.home = h]
    BY DEF Cleared
  <2> HIDE DEF h
  <2> QED
    BY <1>1, <2>1
<1>3. s.oldpos \in Nat /\ s.maxrows \in Nat /\ s.cols \in Cols /\ s.plain \in BOOLEAN
  BY DEF Screen
<1> QED
  BY <1>2, <1>3 DEF Screen

(* A screen that shows the line is ready for the next refresh, also when   *)
(* it is cleared before.                                                   *)
LEMMA ShowsIsReady ==
    ASSUME NEW s \in Screen, NEW n \in Nat, NEW p \in 0 .. n, Shows(s, p, n)
    PROVE  Ready(s) /\ Cleared(s) \in Screen /\ Ready(Cleared(s))
<1> DEFINE c == s.cols
           q == Cleared(s)
<1>1. c \in Cols /\ s.maxrows \in Nat /\ s.home \in BOOLEAN /\ s.plain \in BOOLEAN
  BY DEF Screen
<1>2. /\ Row(p, c) \in Nat /\ Row(p, c) >= 1 /\ Rows(n, c) \in Nat /\ Rows(n, c) >= 1
      /\ Row(0, c) = 1 /\ Rows(0, c) = 1
  BY <1>1, RowsAre
<1>3. /\ s.oldpos = p /\ s.row = Row(p, c) /\ s.shown = Rows(n, c)
      /\ \/ s.maxrows = 0 /\ p = 0 /\ n = 0
         \/ s.maxrows >= Row(p, c) /\ s.maxrows >= Rows(n, c)
  BY DEF Shows
<1>4. q \in Screen /\ q.row = 1 /\ q.shown = 0 /\ q.home = TRUE
      /\ q.maxrows = s.maxrows /\ q.oldpos = p /\ q.cols = c
  BY <1>3, ClearedIs
<1>5. Bottom(s) = Row(p, c) + Larger(0, s.maxrows - Row(p, c)) /\ Bottom(q) = 1 + Larger(0, s.maxrows - Row(p, c))
  BY <1>3, <1>4 DEF Bottom
<1>6. Up(s) = Bottom(s) - Larger(0, s.maxrows - 1) /\ Up(q) = Bottom(q) - Larger(0, s.maxrows - 1)
  BY <1>4 DEF Up
<1> HIDE DEF c, q
<1>7. CASE s.maxrows = 0 /\ p = 0 /\ n = 0
  <2>1. Row(p, c) = 1 /\ Rows(n, c) = 1
    BY <1>2, <1>7
  <2>2. Larger(0, s.maxrows - 1) = 0 /\ Larger(0, s.maxrows - Row(p, c)) = 0
    BY <1>7, <2>1 DEF Larger
  <2> QED
    BY <1>3, <1>4, <1>5, <1>6, <2>1, <2>2 DEF Ready, q
<1>8. CASE s.maxrows >= Row(p, c) /\ s.maxrows >= Rows(n, c)
  <2>1. Larger(0, s.maxrows - 1) = s.maxrows - 1 /\ Larger(0, s.maxrows - Row(p, c)) = s.maxrows - Row(p, c)
    BY <1>1, <1>2, <1>8 DEF Larger
  <2>2. Bottom(s) = s.maxrows /\ Up(s) = 1 /\ Up(q) <= 1 /\ Bottom(q) >= 1 /\ Bottom(q) \in Int
    BY <1>1, <1>2, <1>5, <1>6, <1>8, <2>1
  <2> QED
    <3>1. s.shown <= Bottom(s) /\ q.shown <= Bottom(q)
      BY <1>2, <1>3, <1>4, <1>8, <2>2
    <3>2. Ready(s)
      BY <2>2, <3>1 DEF Ready
    <3>3. Ready(q)
      BY <1>4, <2>2, <3>1 DEF Ready
    <3> QED
      BY <1>4, <3>2, <3>3 DEF q
<1> QED
  BY <1>3, <1>7, <1>8

(* Inductive: while a line is edited, the screen shows it.                 *)
ScreenInv == /\ screen \in Screen
             /\ at = "edit" /\ screen.plain => Shows(screen, pos, len)

(* A fresh screen.                                                         *)
LEMMA FreshIs == ASSUME NEW c \in Cols PROVE Fresh(c) \in Screen /\ Shows(Fresh(c), 0, 0)
<1>1. Row(0, c) = 1 /\ Rows(0, c) = 1
  BY RowsAre
<1>2. Fresh(c) \in Screen
  BY DEF Fresh, Screen
<1>3. Fresh(c).cols = c /\ Fresh(c).oldpos = 0 /\ Fresh(c).row = 1 /\ Fresh(c).shown = 1 /\ Fresh(c).maxrows = 0
  BY DEF Fresh
<1> QED
  BY <1>1, <1>2, <1>3 DEF Shows

(* A key that refreshes the line keeps the screen with it.                 *)
LEMMA RefreshKeeps ==
    ASSUME EditorInBounds, EditorInBounds', ScreenInv, at = "edit",
           NEW b, NEW p, NEW n, Edit(b, p, n)
    PROVE  ScreenInv'
<1>1. pos \in 0 .. len /\ len \in Nat /\ p \in 0 .. n /\ n \in Nat
  <2>1. TextInBounds(buf, pos, len) /\ TextInBounds(buf', pos', len')
    BY Parts, PartsPrime
  <2> QED
    BY <2>1 DEF TextInBounds, Edit
<1>2. screen' = Refreshed(screen, b, p, n) /\ pos' = p /\ len' = n
  BY DEF Edit
<1>3. screen \in Screen /\ (screen.plain => Shows(screen, pos, len))
  BY DEF ScreenInv
<1>4. screen' \in Screen /\ (screen'.plain => screen.plain) /\ (Ready(screen) => Shows(screen', p, n))
  BY <1>1, <1>2, <1>3, RefreshedIs
<1>5. screen.plain => Ready(screen)
  BY <1>1, <1>3, ShowsIsReady
<1> QED
  BY <1>2, <1>4, <1>5 DEF ScreenInv

(* Every key keeps the screen with the line.                               *)
LEMMA KeyShows == ASSUME EditorInBounds, EditorInBounds', ScreenInv, AnyKey PROVE ScreenInv'
<1>0. at = "edit"
  BY KeyIsQuiet
<1>1. ASSUME UNCHANGED textVars PROVE ScreenInv'
  <2>1. screen' = screen /\ pos' = pos /\ len' = len
    BY <1>1 DEF textVars
  <2> QED
    BY <1>0, <2>1 DEF ScreenInv
<1>2. (\E b, p, n : Edit(b, p, n)) => ScreenInv'
  BY <1>0, RefreshKeeps
<1>3. CASE ClearScreen
  <2>1. pos \in 0 .. len /\ len \in Nat
    BY Parts DEF TextInBounds
  <2>2. screen' = Refreshed(Cleared(screen), buf, pos, len) /\ pos' = pos /\ len' = len
    BY <1>3 DEF ClearScreen
  <2>3. screen \in Screen /\ (screen.plain => Shows(screen, pos, len))
    BY <1>0 DEF ScreenInv
  <2>4. Cleared(screen) \in Screen /\ Cleared(screen).plain = screen.plain
    BY <2>3, ClearedIs
  <2>5. /\ screen' \in Screen /\ (screen'.plain => screen.plain)
        /\ Ready(Cleared(screen)) => Shows(screen', pos, len)
    BY <2>1, <2>2, <2>4, RefreshedIs
  <2>6. screen.plain => Ready(Cleared(screen))
    BY <2>1, <2>3, ShowsIsReady
  <2> QED
    BY <2>2, <2>5, <2>6 DEF ScreenInv
<1>4. CASE \/ \E c \in Typed : Insert(c)
           \/ MoveLeft \/ MoveRight \/ MoveHome \/ MoveEnd \/ Delete \/ Backspace
           \/ Swap \/ KillLine \/ KillEnd
  BY <1>2, <1>4 DEF Insert, MoveLeft, MoveRight, MoveHome, MoveEnd, Delete, Backspace, Swap, KillLine, KillEnd
<1>5. CASE DeletePrevWord
  BY <1>2, <1>5 DEF DeletePrevWord
<1>6. CASE Ignored \/ CtrlC \/ CtrlD
  BY <1>1, <1>6 DEF Ignored, CtrlC, CtrlD
<1>7. CASE Enter
  BY <1>1, <1>2, <1>7 DEF Enter
<1>8. CASE \E dir \in {1, -1} : Recall(dir)
  <2>1. (\E b, p, n : Edit(b, p, n)) \/ UNCHANGED textVars
    BY <1>8 DEF Recall
  <2> QED
    BY <1>1, <1>2, <2>1
<1> QED
  BY <1>3, <1>4, <1>5, <1>6, <1>7, <1>8 DEF AnyKey

(* And so does every step.                                                 *)
LEMMA StepShows == ASSUME EditorInBounds, EditorInBounds', ScreenInv, [Next]_vars PROVE ScreenInv'
<1>1. PLen + 1 \in Cols /\ Widths \subseteq Cols
  BY SizeAssumption DEF Cols
<1>2. CASE AnyKey
  BY <1>2, KeyShows
<1>3. ASSUME FrameGone, at' # "edit" PROVE ScreenInv'
  BY <1>1, <1>3, FreshIs DEF FrameGone, ScreenInv
<1>4. ASSUME UNCHANGED textVars, at' # "edit" \/ at' = at PROVE ScreenInv'
  <2>1. screen' = screen /\ pos' = pos /\ len' = len
    BY <1>4 DEF textVars
  <2> QED
    BY <1>4, <2>1 DEF ScreenInv
<1>5. CASE BeginEdit
  <2>1. PICK c \in Widths : screen' = Fresh(c)
    BY <1>5 DEF BeginEdit
  <2>2. pos' = 0 /\ len' = 0
    BY <1>5 DEF BeginEdit
  <2> QED
    BY <1>1, <2>1, <2>2, FreshIs DEF ScreenInv
<1>6. CASE Exit
  BY <1>3, <1>6 DEF Exit
<1>7. CASE Restore \/ Unflag
  BY <1>3, <1>4, <1>7 DEF Restore, Unflag
<1>8. CASE \/ LoadLine \/ LoadDone \/ SetRaw \/ EndOfInput \/ ReadGone \/ EmptyLine \/ SaveBegin
           \/ SaveLine \/ SaveDone \/ ReadCooked \/ Hangup \/ Restart \/ UNCHANGED vars
  <2>1. UNCHANGED textVars /\ (at' # "edit" \/ at' = at)
    BY <1>8 DEF LoadLine, LoadDone, SetRaw, EndOfInput, ReadGone, EmptyLine, SaveBegin,
       SaveLine, SaveDone, ReadCooked, Hangup, Restart, vars
  <2> QED
    BY <1>4, <2>1
<1> QED
  BY <1>2, <1>5, <1>6, <1>7, <1>8 DEF Next, Program, Throw, Interrupt

(* refreshMultiLine finds the row of the cursor again and leaves no row of *)
(* a longer line below a shorter one, for every prompt that fits a row,    *)
(* every width of the terminal and every line, while no NUL is in it.      *)
THEOREM LineIsShown == Spec => []ScreenShowsTheLine
<1>1. Init => EditorInBounds /\ ScreenInv
  <2> SUFFICES ASSUME Init PROVE ScreenInv
    BY InitInBounds
  <2>1. PLen + 1 \in Cols /\ screen = Fresh(PLen + 1) /\ at # "edit"
    BY SizeAssumption DEF Init, Cols
  <2> QED
    BY <2>1, FreshIs DEF ScreenInv
<1>2. EditorInBounds /\ ScreenInv /\ [Next]_vars => (EditorInBounds /\ ScreenInv)'
  BY StepKeeps, StepShows
<1>3. EditorInBounds /\ ScreenInv => ScreenShowsTheLine
  <2> SUFFICES ASSUME EditorInBounds, ScreenInv, at = "edit", screen.plain
               PROVE  /\ screen.row = ((PLen + pos) \div screen.cols) + 1
                      /\ screen.shown = Rows(len, screen.cols)
    BY DEF ScreenShowsTheLine
  <2>1. pos \in 0 .. len /\ len \in Nat
    BY Parts DEF TextInBounds
  <2>2. screen.cols \in Cols /\ Shows(screen, pos, len)
    BY DEF ScreenInv, Screen
  <2>3. Row(pos, screen.cols) = ((PLen + pos) \div screen.cols) + 1
    BY <2>1, <2>2, RowsAre
  <2> QED
    BY <2>2, <2>3 DEF Shows
<1> QED
  BY <1>1, <1>2, <1>3, PTL DEF Spec

------------------------------------------------------------------------------
(* The history that is read back. Of the first n lines of a file, those    *)
(* that do not repeat the line before.                                     *)
KeptTo(f, n)     == {i \in 1 .. n : i = 1 \/ f[i] # f[i - 1]}
Newer(f, n, i)   == {j \in KeptTo(f, n) : j > i}
Capped(n)        == IF n < HistMax THEN n ELSE HistMax

(* A history h holds the newest of them, in their order.                   *)
Holds(h, f, n) ==
    /\ Len(h) = Capped(Cardinality(KeptTo(f, n)))
    /\ \A i \in KeptTo(f, n) : Cardinality(Newer(f, n, i)) < Len(h)
                                 => h[Len(h) - Cardinality(Newer(f, n, i))] = f[i]
    /\ IF n = 0 THEN h = <<>> ELSE h # <<>> /\ h[Len(h)] = f[n]

(* They are finitely many.                                                 *)
LEMMA KeptIsFinite ==
    ASSUME NEW f, NEW n \in Nat, NEW i
    PROVE  /\ IsFiniteSet(KeptTo(f, n)) /\ Cardinality(KeptTo(f, n)) \in Nat
           /\ IsFiniteSet(Newer(f, n, i)) /\ Cardinality(Newer(f, n, i)) \in Nat
<1>1. IsFiniteSet(1 .. n)
  BY FS_Interval
<1>2. KeptTo(f, n) \subseteq 1 .. n /\ Newer(f, n, i) \subseteq KeptTo(f, n)
  BY DEF KeptTo, Newer
<1>3. IsFiniteSet(KeptTo(f, n))
  BY <1>1, <1>2, FS_Subset
<1>4. IsFiniteSet(Newer(f, n, i))
  BY <1>2, <1>3, FS_Subset
<1> QED
  BY <1>3, <1>4, FS_CardinalityType

(* A line that repeats the one before changes nothing.                     *)
LEMMA RepeatedLine ==
    ASSUME NEW f, NEW h, NEW n \in Nat \ {0}, Holds(h, f, n), f[n + 1] = f[n]
    PROVE  Holds(Added(h, f[n + 1]), f, n + 1)
<1>1. KeptTo(f, n + 1) = KeptTo(f, n)
  <2>1. ASSUME NEW i PROVE i \in KeptTo(f, n + 1) <=> i \in KeptTo(f, n)
    <3>1. i \in 1 .. n + 1 <=> i \in 1 .. n \/ i = n + 1
      OBVIOUS
    <3>2. ~ (n + 1 = 1 \/ f[n + 1] # f[(n + 1) - 1])
      OBVIOUS
    <3> QED
      BY <3>1, <3>2 DEF KeptTo
  <2> QED
    BY <2>1
<1>2. \A i : Newer(f, n + 1, i) = Newer(f, n, i)
  BY <1>1 DEF Newer
<1>3. h # <<>> /\ h[Len(h)] = f[n]
  BY DEF Holds
<1>4. Added(h, f[n + 1]) = h
  BY <1>3 DEF Added
<1>5. n + 1 # 0
  OBVIOUS
<1> QED
  BY <1>1, <1>2, <1>3, <1>4, <1>5 DEF Holds

(* Any other one is the newest, and the oldest gives way if need be.       *)
LEMMA NewLine ==
    ASSUME NEW f \in Seq(Text), NEW h \in Seq(Text), NEW n \in Nat, n < Len(f),
           Holds(h, f, n), n > 0 => f[n + 1] # f[n]
    PROVE  Holds(Added(h, f[n + 1]), f, n + 1)
<1> DEFINE t  == f[n + 1]
           g  == IF Len(h) = HistMax THEN Tail(h) ELSE h
           h2 == Append(g, t)
           c  == Cardinality(KeptTo(f, n))
           d(i) == Cardinality(Newer(f, n, i))
           d2(i) == Cardinality(Newer(f, n + 1, i))
<1>0. HistMax \in Nat \ {0} /\ Len(h) \in Nat /\ n \in Nat /\ t \in Text
  BY SizeAssumption, ElementOfSeq
<1>1. Added(h, t) = h2
  <2>1. ~ (h # <<>> /\ h[Len(h)] = t)
    BY DEF Holds
  <2> QED
    BY <2>1 DEF Added
<1>2. KeptTo(f, n + 1) = KeptTo(f, n) \cup {n + 1}
  <2>1. ASSUME NEW i PROVE i \in KeptTo(f, n + 1) <=> i \in KeptTo(f, n) \cup {n + 1}
    <3>1. i \in 1 .. n + 1 <=> i \in 1 .. n \/ i = n + 1
      OBVIOUS
    <3>2. n + 1 = 1 \/ f[n + 1] # f[(n + 1) - 1]
      OBVIOUS
    <3> QED
      BY <3>1, <3>2 DEF KeptTo
  <2> QED
    BY <2>1
<1>3. n + 1 \notin KeptTo(f, n) /\ \A i \in KeptTo(f, n) : i \in 1 .. n
  BY DEF KeptTo
<1>4. c \in Nat /\ Cardinality(KeptTo(f, n + 1)) = c + 1
  BY <1>2, <1>3, KeptIsFinite, FS_AddElement
<1>5. ASSUME NEW i \in KeptTo(f, n) PROVE d(i) \in Nat /\ d2(i) = d(i) + 1
  <2>1. i \in 1 .. n
    BY <1>3
  <2>2. n + 1 > i
    BY <2>1
  <2>3. Newer(f, n + 1, i) = Newer(f, n, i) \cup {n + 1}
    BY <1>2, <2>2 DEF Newer
  <2>4. n + 1 \notin Newer(f, n, i)
    BY <1>3 DEF Newer
  <2> QED
    BY <2>3, <2>4, KeptIsFinite, FS_AddElement
<1>6. d2(n + 1) = 0
  <2>1. \A j \in KeptTo(f, n + 1) : j \in 1 .. n + 1
    BY DEF KeptTo
  <2>2. Newer(f, n + 1, n + 1) = {}
    BY <2>1 DEF Newer
  <2> QED
    BY <2>2, FS_EmptySet
<1>7. /\ g \in Seq(Text) /\ Len(g) = IF Len(h) = HistMax THEN Len(h) - 1 ELSE Len(h)
      /\ \A i \in 1 .. Len(g) : g[i] = h[IF Len(h) = HistMax THEN i + 1 ELSE i]
  <2>1. CASE Len(h) = HistMax
    <3>1. h # <<>>
      BY <1>0, <2>1, EmptySeq
    <3>2. Tail(h) \in Seq(Text) /\ Len(Tail(h)) = Len(h) - 1 /\ \A i \in 1 .. Len(Tail(h)) : Tail(h)[i] = h[i + 1]
      BY <3>1, HeadTailProperties
    <3> QED
      BY <2>1, <3>2
  <2>2. CASE Len(h) # HistMax
    BY <2>2
  <2> QED
    BY <2>1, <2>2
<1> HIDE DEF g
<1>8. /\ h2 \in Seq(Text) /\ Len(h2) = Len(g) + 1 /\ h2[Len(g) + 1] = t
      /\ \A i \in 1 .. Len(g) : h2[i] = g[i]
  BY <1>0, <1>7, AppendProperties
<1> HIDE DEF h2, c, d, d2, t
<1>9. Len(h) = (IF c < HistMax THEN c ELSE HistMax)
      /\ \A i \in KeptTo(f, n) : d(i) < Len(h) => h[Len(h) - d(i)] = f[i]
  BY DEF Holds, Capped, c, d
<1>10. Len(g) \in Nat /\ Len(h2) = (IF c + 1 < HistMax THEN c + 1 ELSE HistMax)
  BY ONLY <1>0, <1>4, <1>7, <1>8, <1>9
<1>11. ASSUME NEW i \in KeptTo(f, n + 1), d2(i) < Len(h2) PROVE h2[Len(h2) - d2(i)] = f[i]
  <2>1. CASE i = n + 1
    <3>1. Len(h2) - d2(i) = Len(g) + 1
      BY ONLY <1>6, <1>8, <1>10, <2>1
    <3> QED
      BY <1>8, <2>1, <3>1 DEF t
  <2>2. CASE i \in KeptTo(f, n)
    <3>1. d(i) \in Nat /\ d2(i) = d(i) + 1
      BY <1>5, <2>2 DEF d, d2
    <3> DEFINE x == Len(h2) - d2(i)
               y == IF Len(h) = HistMax THEN x + 1 ELSE x
    <3>2. x \in 1 .. Len(g) /\ y = Len(h) - d(i) /\ d(i) < Len(h)
      BY ONLY <1>0, <1>7, <1>8, <1>10, <1>11, <3>1
    <3>3. h2[x] = g[x] /\ g[x] = h[y]
      BY <1>7, <1>8, <3>2
    <3>4. h[Len(h) - d(i)] = f[i]
      BY <1>9, <2>2, <3>2
    <3> QED
      BY <3>2, <3>3, <3>4
  <2> QED
    BY <1>2, <2>1, <2>2
<1>12. h2 # <<>> /\ h2[Len(h2)] = t /\ n + 1 # 0
  BY <1>0, <1>8, <1>10, EmptySeq
<1>13. Holds(h2, f, n + 1)
  BY <1>4, <1>10, <1>11, <1>12 DEF Holds, Capped, d2, t
<1> QED
  BY <1>1, <1>13 DEF t

(* Inductive: the history holds the lines of the file that were read.      *)
LoadInv == /\ at = "load" => /\ k <= Len(file)
                             /\ (\A i \in 1 .. k : Len(file[i]) < BufLen) => Holds(history, file, k)
           /\ at = "exited" => history = <<>> /\ k = 0

(* Nothing is read of a file yet.                                          *)
LEMMA NothingLoaded == ASSUME NEW f PROVE Holds(<<>>, f, 0)
<1>1. KeptTo(f, 0) = {}
  BY DEF KeptTo
<1>2. Cardinality(KeptTo(f, 0)) = 0
  BY <1>1, FS_EmptySet
<1>3. Capped(0) = 0 /\ Len(<<>>) = 0
  BY SizeAssumption DEF Capped
<1> QED
  BY <1>1, <1>2, <1>3 DEF Holds

(* Loading a line keeps the history at the newest lines read.              *)
LEMMA LoadLineHolds == ASSUME EditorInBounds, LoadInv, LoadLine PROVE LoadInv'
<1>1. /\ at = "load" /\ at' = "load" /\ k < Len(file) /\ k' = k + 1 /\ file' = file
      /\ history' = LET h == Added(history, file[k + 1])
                    IN IF Len(file[k + 1]) = BufLen THEN Added(h, <<>>) ELSE h
  BY DEF LoadLine
<1>2. history \in Seq(Text) /\ file \in Seq(Text) /\ k \in Nat
  BY Parts DEF PastInBounds, RestInBounds
<1>3. k' <= Len(file')
  BY <1>1, <1>2
<1>4. ASSUME \A i \in 1 .. k + 1 : Len(file[i]) < BufLen PROVE Holds(history', file, k + 1)
  <2>1. Holds(history, file, k)
    BY <1>1, <1>2, <1>4 DEF LoadInv
  <2>2. k + 1 \in 1 .. Len(file)
    BY <1>1, <1>2
  <2>3. Len(file[k + 1]) # BufLen
    <3>1. file[k + 1] \in Text
      BY <1>2, <2>2, ElementOfSeq
    <3>2. Len(file[k + 1]) \in Nat /\ BufLen \in Nat
      BY <3>1, BufferSize DEF Text
    <3>3. Len(file[k + 1]) < BufLen
      BY <1>2, <1>4
    <3> QED
      BY <3>2, <3>3
  <2>4. history' = Added(history, file[k + 1])
    BY <1>1, <2>3
  <2>5. CASE k > 0 /\ file[k + 1] = file[k]
    BY <1>2, <2>1, <2>4, <2>5, RepeatedLine
  <2>6. CASE ~ (k > 0 /\ file[k + 1] = file[k])
    BY <1>1, <1>2, <2>1, <2>4, <2>6, NewLine
  <2> QED
    BY <2>5, <2>6
<1> QED
  BY <1>1, <1>3, <1>4 DEF LoadInv

(* Every other step leaves what was loaded, or is no longer loading.       *)
LEMMA StepHolds == ASSUME EditorInBounds, LoadInv, [Next]_vars PROVE LoadInv'
<1>1. CASE LoadLine
  BY <1>1, LoadLineHolds
<1>2. CASE AnyKey
  BY <1>2, KeyIsQuiet DEF LoadInv
<1>3. CASE Exit
  BY <1>3 DEF Exit, LoadInv
<1>4. CASE Restart
  <2>1. at' = "load" /\ history' = <<>> /\ k' = 0 /\ file' = file
    BY <1>4 DEF Restart, LoadInv, pastVars, fileVars
  <2>2. file \in Seq(Text) /\ Len(file) \in Nat
    BY Parts DEF RestInBounds
  <2>3. Holds(history', file', k') /\ k' <= Len(file')
    BY <2>1, <2>2, NothingLoaded
  <2> QED
    BY <2>1, <2>3 DEF LoadInv
<1>5. CASE Hangup \/ UNCHANGED vars
  <2>1. UNCHANGED <<at, history, file, k>>
    BY <1>5 DEF Hangup, vars, pastVars, fileVars
  <2> QED
    BY <2>1 DEF LoadInv
<1>6. CASE \/ LoadDone \/ SetRaw \/ BeginEdit \/ Restore \/ Unflag \/ EndOfInput \/ ReadGone
           \/ EmptyLine \/ SaveBegin \/ SaveLine \/ SaveDone \/ ReadCooked
  <2>1. at' \notin {"load", "exited"}
    BY <1>6 DEF LoadDone, SetRaw, BeginEdit, Restore, Unflag, EndOfInput, ReadGone,
       EmptyLine, SaveBegin, SaveLine, SaveDone, ReadCooked
  <2> QED
    BY <2>1 DEF LoadInv
<1> QED
  BY <1>1, <1>2, <1>3, <1>4, <1>5, <1>6 DEF Next, Program, Throw, Interrupt

(* linenoiseHistoryLoad makes of a file the newest of its lines that do    *)
(* not repeat the one before, as many as the history has room for, for     *)
(* every file whose lines are shorter than the buffer they are read with.  *)
THEOREM HistoryIsLoaded == Spec => []HistoryComesBack
<1>1. Init => EditorInBounds /\ LoadInv
  <2> SUFFICES ASSUME Init PROVE LoadInv
    BY InitInBounds
  <2>1. at = "load" /\ history = <<>> /\ k = 0 /\ file \in Seq(Text)
    BY TextAssumption DEF Init
  <2>2. Holds(<<>>, file, 0) /\ 0 <= Len(file)
    BY <2>1, NothingLoaded
  <2> QED
    BY <2>1, <2>2 DEF LoadInv
<1>2. EditorInBounds /\ LoadInv /\ [Next]_vars => (EditorInBounds /\ LoadInv)'
  BY StepKeeps, StepHolds
<1>3. EditorInBounds /\ LoadInv => HistoryComesBack
  <2> SUFFICES ASSUME EditorInBounds, LoadInv, at = "load", k = Len(file),
                      \A n \in DOMAIN file : Len(file[n]) < BufLen
               PROVE  /\ history_len = IF Cardinality(Kept(file)) < HistMax THEN Cardinality(Kept(file)) ELSE HistMax
                      /\ \A n \in Kept(file) : LET newer == Cardinality({m \in Kept(file) : m > n})
                                                IN newer < history_len => history[history_len - newer] = file[n]
    BY DEF HistoryComesBack
  <2>1. file \in Seq(Text) /\ DOMAIN file = 1 .. k
    BY Parts DEF RestInBounds
  <2>2. Kept(file) = KeptTo(file, k)
    BY <2>1 DEF Kept, KeptTo
  <2>3. \A n : {m \in Kept(file) : m > n} = Newer(file, k, n)
    BY <2>2 DEF Newer
  <2>4. Holds(history, file, k)
    BY <2>1 DEF LoadInv
  <2> QED
    BY <2>2, <2>3, <2>4 DEF Holds, Capped, history_len
<1> QED
  BY <1>1, <1>2, <1>3, PTL DEF Spec

------------------------------------------------------------------------------
(* The text that TextLine speaks of: what is before the cursor in a buffer *)
(* and after it.                                                           *)
LeftOf(b, p)     == [m \in 1 .. p |-> b[m - 1]]
RightOf(b, p, n) == [m \in 1 .. n - p |-> b[p + m - 1]]

InBuffer(b, p, n)   == b \in Buffer /\ p \in Nat /\ n \in Nat /\ p <= n /\ n <= BufLen
IsLeft(s, b, p)     == s \in Seq(Char) /\ Len(s) = p /\ \A i \in 1 .. p : s[i] = b[i - 1]
IsRight(s, b, p, n) == s \in Seq(Char) /\ Len(s) = n - p /\ \A i \in 1 .. n - p : s[i] = b[p + i - 1]

(* They are sequences of characters.                                       *)
LEMMA Sides ==
    ASSUME NEW b, NEW p, NEW n, InBuffer(b, p, n)
    PROVE  IsLeft(LeftOf(b, p), b, p) /\ IsRight(RightOf(b, p, n), b, p, n)
<1>1. p \in Nat /\ n - p \in Nat /\ b \in Buffer
  BY DEF InBuffer
<1>2. ASSUME NEW i \in 1 .. p PROVE b[i - 1] \in Char
  <2>1. i - 1 \in 0 .. BufLen
    BY BufferSize DEF InBuffer
  <2> QED
    BY <1>1, <2>1 DEF Buffer
<1>3. ASSUME NEW i \in 1 .. n - p PROVE b[p + i - 1] \in Char
  <2>1. p + i - 1 \in 0 .. BufLen
    BY BufferSize DEF InBuffer
  <2> QED
    BY <1>1, <2>1 DEF Buffer
<1>4. IsLeft(LeftOf(b, p), b, p)
  BY <1>1, <1>2 DEF LeftOf, IsLeft
<1>5. IsRight(RightOf(b, p, n), b, p, n)
  BY <1>1, <1>3 DEF RightOf, IsRight
<1> QED
  BY <1>4, <1>5

(* There is only one such text.                                            *)
LEMMA LeftIs ==
    ASSUME NEW b, NEW p, NEW n, InBuffer(b, p, n), NEW s, IsLeft(s, b, p)
    PROVE  LeftOf(b, p) = s
<1>1. IsLeft(LeftOf(b, p), b, p)
  BY Sides
<1> QED
  BY <1>1, SeqEqual DEF IsLeft

(* And on the right.                                                       *)
LEMMA RightIs ==
    ASSUME NEW b, NEW p, NEW n, InBuffer(b, p, n), NEW s, IsRight(s, b, p, n)
    PROVE  RightOf(b, p, n) = s
<1>1. IsRight(RightOf(b, p, n), b, p, n)
  BY Sides
<1> QED
  BY <1>1, SeqEqual DEF IsRight

(* What memmove leaves where: the bytes of the source, or the old ones.    *)
LEMMA MoveAt ==
    ASSUME NEW b \in Buffer, NEW to \in Nat, NEW from \in Nat, NEW n \in Int, NEW m \in 0 .. BufLen
    PROVE  Move(b, to, from, n)[m] = IF m \in to .. to + n - 1 THEN b[m - to + from] ELSE b[m]
  BY DEF Move, Buffer

(* Nothing on one side.                                                    *)
LEMMA NoText ==
    ASSUME NEW b, NEW p, NEW n, InBuffer(b, p, n)
    PROVE  LeftOf(b, 0) = <<>> /\ RightOf(b, n, n) = <<>>
<1>1. Len(<<>>) = 0 /\ <<>> \in Seq(Char) /\ 1 .. 0 = {} /\ n - n = 0
  BY DEF InBuffer
<1>2. InBuffer(b, 0, n) /\ InBuffer(b, n, n)
  BY DEF InBuffer
<1>3. IsLeft(<<>>, b, 0) /\ IsRight(<<>>, b, n, n)
  BY <1>1 DEF IsLeft, IsRight
<1>4. LeftOf(b, 0) = <<>>
  BY <1>2, <1>3, LeftIs
<1>5. RightOf(b, n, n) = <<>>
  BY <1>2, <1>3, RightIs
<1> QED
  BY <1>4, <1>5

With(b2, b, p, n, c) == b2 = [Move(b, p + 1, p, n - p) EXCEPT ![p] = c, ![n + 1] = NUL]

(* A character joins the text on the left.                                 *)
LEMMA InsertText ==
    ASSUME NEW b, NEW p, NEW n, InBuffer(b, p, n), n < BufLen, NEW c \in Char,
           NEW b2, With(b2, b, p, n, c)
    PROVE  LeftOf(b2, p + 1) = Append(LeftOf(b, p), c) /\ RightOf(b2, p + 1, n + 1) = RightOf(b, p, n)
<1> DEFINE m == Move(b, p + 1, p, n - p)
           l == LeftOf(b, p)
           r == RightOf(b, p, n)
<1>1. n \in Nat /\ p \in Nat /\ p <= n /\ n < BufLen /\ BufLen \in Nat /\ b \in Buffer
  BY BufferSize DEF InBuffer
<1>2. m \in Buffer
  BY <1>1, MoveIsBuffer
<1>3. \A i \in 0 .. BufLen : m[i] = IF i \in p + 1 .. n THEN b[i - 1] ELSE b[i]
  <2> TAKE i \in 0 .. BufLen
  <2>1. m[i] = IF i \in p + 1 .. (p + 1) + (n - p) - 1 THEN b[i - (p + 1) + p] ELSE b[i]
    BY <1>1, MoveAt
  <2>2. (p + 1) + (n - p) - 1 = n /\ i - (p + 1) + p = i - 1
    BY <1>1
  <2> QED
    BY <2>1, <2>2
<1> HIDE DEF m
<1>4. b2 = [m EXCEPT ![p] = c, ![n + 1] = NUL]
  BY DEF m, With
<1>5. b2 \in Buffer /\ b2[p] = c /\ \A i \in 0 .. BufLen : i # p /\ i # n + 1 => b2[i] = m[i]
  <2> DEFINE m2 == [m EXCEPT ![p] = c]
  <2>1. p \in 0 .. BufLen /\ n + 1 \in 0 .. BufLen /\ p # n + 1 /\ NUL \in Char
    BY <1>1, TextAssumption
  <2>2. m2 \in Buffer /\ m2[p] = c /\ \A i \in 0 .. BufLen : i # p => m2[i] = m[i]
    BY <1>2, <2>1 DEF Buffer
  <2>3. b2 = [m2 EXCEPT ![n + 1] = NUL]
    BY <1>4
  <2> HIDE DEF m2
  <2>4. b2 \in Buffer /\ \A i \in 0 .. BufLen : i # n + 1 => b2[i] = m2[i]
    BY <2>1, <2>2, <2>3 DEF Buffer
  <2> QED
    BY <2>1, <2>2, <2>4
<1>6. /\ l \in Seq(Char) /\ Len(l) = p /\ \A i \in 1 .. p : l[i] = b[i - 1]
      /\ r \in Seq(Char) /\ Len(r) = n - p /\ \A i \in 1 .. n - p : r[i] = b[p + i - 1]
  BY Sides DEF IsLeft, IsRight
<1> HIDE DEF l, r
<1>7. Append(l, c) \in Seq(Char) /\ Len(Append(l, c)) = p + 1
      /\ \A i \in 1 .. p + 1 : Append(l, c)[i] = b2[i - 1]
  <2>1. Append(l, c) \in Seq(Char) /\ Len(Append(l, c)) = p + 1 /\ Append(l, c)[p + 1] = c
        /\ \A i \in 1 .. p : Append(l, c)[i] = l[i]
    BY <1>1, <1>6, AppendProperties
  <2>2. ASSUME NEW i \in 1 .. p PROVE l[i] = b2[i - 1]
    <3>1. i - 1 \in 0 .. BufLen /\ i - 1 # p /\ i - 1 # n + 1 /\ i - 1 \notin p + 1 .. n
      BY <1>1
    <3> QED
      BY <1>3, <1>5, <1>6, <3>1
  <2>3. \A i \in 1 .. p + 1 : i \in 1 .. p \/ i = p + 1
    BY <1>1
  <2>4. (p + 1) - 1 = p
    BY <1>1
  <2> QED
    BY <1>5, <2>1, <2>2, <2>3, <2>4
<1>8. \A i \in 1 .. (n + 1) - (p + 1) : r[i] = b2[(p + 1) + i - 1]
  <2> TAKE i \in 1 .. (n + 1) - (p + 1)
  <2> DEFINE j == (p + 1) + i - 1
  <2>1. i \in 1 .. n - p /\ j = p + i /\ j \in 0 .. BufLen /\ j # p /\ j # n + 1 /\ j \in p + 1 .. n /\ j - 1 = p + i - 1
    BY <1>1
  <2> QED
    BY <1>3, <1>5, <1>6, <2>1
<1>a. InBuffer(b2, p + 1, n + 1)
  BY <1>1, <1>5 DEF InBuffer
<1>9. LeftOf(b2, p + 1) = Append(l, c)
  BY <1>a, <1>7, LeftIs DEF IsLeft
<1>10. RightOf(b2, p + 1, n + 1) = r
  <2>1. Len(r) = (n + 1) - (p + 1)
    BY <1>1, <1>6
  <2>2. IsRight(r, b2, p + 1, n + 1)
    BY <1>6, <1>8, <2>1 DEF IsRight
  <2> QED
    BY <1>a, <2>2, RightIs
<1> QED
  BY <1>9, <1>10 DEF l, r

(* What the text is when the cursor moves over a character, or to one end. *)
Moves(b, p, n) ==
    /\ p > 0 => /\ LeftOf(b, p) # <<>>
                /\ LeftOf(b, p - 1) = SubSeq(LeftOf(b, p), 1, Len(LeftOf(b, p)) - 1)
                /\ RightOf(b, p - 1, n) = <<LeftOf(b, p)[Len(LeftOf(b, p))]>> \o RightOf(b, p, n)
    /\ p # n => /\ RightOf(b, p, n) # <<>>
                /\ LeftOf(b, p + 1) = Append(LeftOf(b, p), Head(RightOf(b, p, n)))
                /\ RightOf(b, p + 1, n) = Tail(RightOf(b, p, n))
    /\ RightOf(b, 0, n) = LeftOf(b, p) \o RightOf(b, p, n)
    /\ LeftOf(b, n) = LeftOf(b, p) \o RightOf(b, p, n)

(* The same characters on its two sides.                                   *)
LEMMA MovedText == ASSUME NEW b, NEW p, NEW n, InBuffer(b, p, n) PROVE Moves(b, p, n)
<1> DEFINE l == LeftOf(b, p)
           r == RightOf(b, p, n)
           x == l[Len(l)]
           y == Head(r)
<1>1. n \in Nat /\ p \in Nat /\ p <= n /\ n <= BufLen /\ BufLen \in Nat /\ b \in Buffer
  BY BufferSize DEF InBuffer
<1>a. InBuffer(b, 0, n) /\ InBuffer(b, n, n)
  BY <1>1 DEF InBuffer
<1>2. /\ l \in Seq(Char) /\ Len(l) = p /\ \A i \in 1 .. p : l[i] = b[i - 1]
      /\ r \in Seq(Char) /\ Len(r) = n - p /\ \A i \in 1 .. n - p : r[i] = b[p + i - 1]
  BY Sides DEF IsLeft, IsRight
<1> HIDE DEF l, r
<1>3. ASSUME p > 0
      PROVE  l # <<>> /\ LeftOf(b, p - 1) = SubSeq(l, 1, Len(l) - 1) /\ RightOf(b, p - 1, n) = <<x>> \o r
  <2>1. l # <<>>
    BY <1>2, <1>3
  <2> DEFINE s == SubSeq(l, 1, p - 1)
             t == <<x>> \o r
  <2>2. s \in Seq(Char) /\ Len(s) = p - 1 /\ \A i \in 1 .. p - 1 : s[i] = l[i]
    <3>1. \A i \in 1 .. p - 1 : l[i] \in Char
      BY <1>1, <1>2
    <3>2. 1 \in Int /\ p - 1 \in Int /\ (p - 1) - 1 + 1 = p - 1 /\ (1 <= p - 1 \/ p - 1 = 0)
      BY <1>1, <1>3
    <3>3. s \in Seq(Char) /\ Len(s) = (IF 1 <= p - 1 THEN (p - 1) - 1 + 1 ELSE 0)
          /\ \A i \in 1 .. (p - 1) - 1 + 1 : s[i] = l[1 + i - 1]
      BY <3>1, <3>2, SubSeqProperties
    <3> QED
      BY <1>1, <3>2, <3>3
  <2>3. x \in Char /\ x = b[p - 1]
    BY <1>1, <1>2, <1>3
  <2> HIDE DEF x, s
  <2>4. <<x>> \in Seq(Char) /\ Len(<<x>>) = 1 /\ <<x>>[1] = x
    BY <2>3
  <2>5. t \in Seq(Char) /\ Len(t) = 1 + (n - p)
        /\ \A i \in 1 .. 1 + (n - p) : t[i] = IF i <= 1 THEN <<x>>[i] ELSE r[i - 1]
    BY <1>2, <2>4, ConcatProperties
  <2> HIDE DEF t
  <2>6. LeftOf(b, p - 1) = s
    <3>1. \A i \in 1 .. p - 1 : s[i] = b[i - 1]
      BY <1>1, <1>2, <1>3, <2>2
    <3>2. InBuffer(b, p - 1, n)
      BY <1>1, <1>3 DEF InBuffer
    <3>3. IsLeft(s, b, p - 1)
      BY <2>2, <3>1 DEF IsLeft
    <3> QED
      BY <3>2, <3>3, LeftIs
  <2>7. RightOf(b, p - 1, n) = t
    <3>1. ASSUME NEW i \in 1 .. n - (p - 1) PROVE t[i] = b[(p - 1) + i - 1]
      <4>1. CASE i = 1
        BY <1>1, <2>3, <2>4, <2>5, <4>1
      <4>2. CASE i # 1
        <5>1. i \in 1 .. 1 + (n - p) /\ ~ (i <= 1) /\ i - 1 \in 1 .. n - p /\ p + (i - 1) - 1 = (p - 1) + i - 1
          BY <1>1, <1>3, <4>2
        <5> QED
          BY <1>2, <2>5, <5>1
      <4> QED
        BY <4>1, <4>2
    <3>2. InBuffer(b, p - 1, n) /\ Len(t) = n - (p - 1)
      BY <1>1, <1>3, <2>5 DEF InBuffer
    <3>3. IsRight(t, b, p - 1, n)
      BY <2>5, <3>1, <3>2 DEF IsRight
    <3> QED
      BY <3>2, <3>3, RightIs
  <2> QED
    BY <1>2, <2>1, <2>6, <2>7 DEF s, t
<1>4. ASSUME p # n
      PROVE  r # <<>> /\ LeftOf(b, p + 1) = Append(l, y) /\ RightOf(b, p + 1, n) = Tail(r)
  <2>1. r # <<>> /\ p < n
    BY <1>1, <1>2, <1>4
  <2>2. y \in Char /\ y = b[p]
    <3>1. y = r[1] /\ 1 \in 1 .. n - p /\ p + 1 - 1 = p
      BY <1>1, <1>2, <2>1
    <3>2. y \in Char
      BY <1>2, <2>1, HeadTailProperties
    <3> QED
      BY <1>2, <3>1, <3>2
  <2>3. Tail(r) \in Seq(Char) /\ Len(Tail(r)) = (n - p) - 1 /\ \A i \in 1 .. (n - p) - 1 : Tail(r)[i] = r[i + 1]
    BY <1>2, <2>1, HeadTailProperties
  <2> HIDE DEF y
  <2>4. Append(l, y) \in Seq(Char) /\ Len(Append(l, y)) = p + 1 /\ Append(l, y)[p + 1] = y
        /\ \A i \in 1 .. p : Append(l, y)[i] = l[i]
    BY <1>2, <2>2, AppendProperties
  <2>5. LeftOf(b, p + 1) = Append(l, y)
    <3>1. \A i \in 1 .. p + 1 : (i \in 1 .. p \/ i = p + 1) /\ (p + 1) - 1 = p
      BY <1>1
    <3>2. \A i \in 1 .. p + 1 : Append(l, y)[i] = b[i - 1]
      BY <1>2, <2>2, <2>4, <3>1
    <3>3. InBuffer(b, p + 1, n)
      BY <1>1, <2>1 DEF InBuffer
    <3>4. IsLeft(Append(l, y), b, p + 1)
      BY <2>4, <3>2 DEF IsLeft
    <3> QED
      BY <3>3, <3>4, LeftIs
  <2>6. RightOf(b, p + 1, n) = Tail(r)
    <3>1. ASSUME NEW i \in 1 .. n - (p + 1) PROVE Tail(r)[i] = b[(p + 1) + i - 1]
      <4>1. i \in 1 .. (n - p) - 1 /\ i + 1 \in 1 .. n - p /\ p + (i + 1) - 1 = (p + 1) + i - 1
        BY <1>1
      <4> QED
        BY <1>2, <2>3, <4>1
    <3>2. InBuffer(b, p + 1, n) /\ Len(Tail(r)) = n - (p + 1)
      BY <1>1, <2>1, <2>3 DEF InBuffer
    <3>3. IsRight(Tail(r), b, p + 1, n)
      BY <2>3, <3>1, <3>2 DEF IsRight
    <3> QED
      BY <3>2, <3>3, RightIs
  <2> QED
    BY <2>1, <2>5, <2>6
<1>5. RightOf(b, 0, n) = l \o r /\ LeftOf(b, n) = l \o r
  <2> DEFINE t == l \o r
  <2>1. t \in Seq(Char) /\ Len(t) = p + (n - p)
        /\ \A i \in 1 .. p + (n - p) : t[i] = IF i <= p THEN l[i] ELSE r[i - p]
    <3>1. t \in Seq(Char) /\ Len(t) = Len(l) + Len(r)
          /\ \A i \in 1 .. Len(l) + Len(r) : t[i] = IF i <= Len(l) THEN l[i] ELSE r[i - Len(l)]
      BY <1>2, ConcatProperties
    <3> QED
      BY <1>2, <3>1
  <2> HIDE DEF t
  <2>2. ASSUME NEW i \in 1 .. n PROVE t[i] = b[i - 1]
    <3>1. CASE i <= p
      <4>1. i \in 1 .. p + (n - p) /\ i \in 1 .. p
        BY <1>1, <3>1
      <4> QED
        BY <1>2, <2>1, <3>1, <4>1
    <3>2. CASE ~ (i <= p)
      <4>1. i \in 1 .. p + (n - p) /\ i - p \in 1 .. n - p /\ p + (i - p) - 1 = i - 1
        BY <1>1, <3>2
      <4> QED
        BY <1>2, <2>1, <3>2, <4>1
    <3> QED
      BY <3>1, <3>2
  <2>3. Len(t) = n /\ n - 0 = n
    BY <1>1, <2>1
  <2>4. IsLeft(t, b, n)
    BY <2>1, <2>2, <2>3 DEF IsLeft
  <2>5. LeftOf(b, n) = t
    BY <1>a, <2>4, LeftIs
  <2>6. \A i \in 1 .. n - 0 : t[i] = b[0 + i - 1]
    BY <1>1, <2>2
  <2>7. IsRight(t, b, 0, n)
    BY <2>1, <2>3, <2>6 DEF IsRight
  <2>8. RightOf(b, 0, n) = t
    BY <1>a, <2>7, RightIs
  <2> QED
    BY <2>5, <2>8 DEF t
<1> QED
  BY <1>3, <1>4, <1>5 DEF l, r, Moves

(* A prefix of the text.                                                   *)
LEMMA PrefixText ==
    ASSUME NEW b, NEW p, NEW n, InBuffer(b, p, n)
    PROVE  LeftOf(b, p) = SubSeq(LeftOf(b, n), 1, p)
<1> DEFINE l == LeftOf(b, n)
<1>1. n \in Nat /\ p \in Nat /\ p <= n /\ InBuffer(b, n, n)
  BY DEF InBuffer
<1>2. l \in Seq(Char) /\ Len(l) = n /\ \A i \in 1 .. n : l[i] = b[i - 1]
  BY <1>1, Sides DEF IsLeft
<1> HIDE DEF l
<1>3. \A i \in 1 .. p : l[i] \in Char
  BY <1>1, <1>2
<1>4. 1 \in Int /\ p \in Int /\ (IF 1 <= p THEN p - 1 + 1 ELSE 0) = p /\ p - 1 + 1 = p
  BY <1>1
<1>5. /\ SubSeq(l, 1, p) \in Seq(Char) /\ Len(SubSeq(l, 1, p)) = p
      /\ \A i \in 1 .. p : SubSeq(l, 1, p)[i] = l[1 + i - 1]
  <2>1. /\ SubSeq(l, 1, p) \in Seq(Char) /\ Len(SubSeq(l, 1, p)) = (IF 1 <= p THEN p - 1 + 1 ELSE 0)
        /\ \A i \in 1 .. p - 1 + 1 : SubSeq(l, 1, p)[i] = l[1 + i - 1]
    BY <1>3, <1>4, SubSeqProperties
  <2> QED
    BY <1>4, <2>1
<1>6. \A i \in 1 .. p : SubSeq(l, 1, p)[i] = b[i - 1]
  BY <1>1, <1>2, <1>5
<1>7. IsLeft(SubSeq(l, 1, p), b, p)
  BY <1>5, <1>6 DEF IsLeft
<1> QED
  BY <1>7, LeftIs DEF l

(* The characters at the cursor.                                           *)
LEMMA AtCursor ==
    ASSUME NEW b, NEW p, NEW n, InBuffer(b, p, n)
    PROVE  /\ p > 0 => LeftOf(b, p)[Len(LeftOf(b, p))] = b[p - 1]
           /\ p < n => Head(RightOf(b, p, n)) = b[p]
<1> DEFINE l == LeftOf(b, p)
           r == RightOf(b, p, n)
<1>1. n \in Nat /\ p \in Nat /\ p <= n
  BY DEF InBuffer
<1>2. IsLeft(l, b, p) /\ IsRight(r, b, p, n)
  BY Sides
<1> HIDE DEF l, r
<1>3. p > 0 => l[Len(l)] = b[p - 1]
  BY <1>1, <1>2 DEF IsLeft
<1>4. p < n => Head(r) = b[p]
  <2> SUFFICES ASSUME p < n PROVE Head(r) = b[p]
    OBVIOUS
  <2>1. r \in Seq(Char) /\ Len(r) = n - p /\ \A i \in 1 .. n - p : r[i] = b[p + i - 1]
    BY <1>2 DEF IsRight
  <2>2. 1 \in 1 .. n - p /\ p + 1 - 1 = p
    BY <1>1
  <2>3. Head(r) = r[1]
    BY <1>1, <2>1
  <2> QED
    BY <2>1, <2>2, <2>3
<1> QED
  BY <1>3, <1>4 DEF l, r

(* b2 is b without the characters from q up to r: the text has a gap less. *)
Without(b2, b, q, r, n) ==
    /\ InBuffer(b, r, n) /\ q \in Nat /\ q <= r /\ b2 \in Buffer
    /\ \A i \in 0 .. q - 1 : b2[i] = b[i]
    /\ \A i \in q .. n - (r - q) - 1 : b2[i] = b[i - q + r]

(* The left of the gap stays on the left, its right on the right.          *)
LEMMA RemovedText ==
    ASSUME NEW b, NEW b2, NEW q, NEW r, NEW n, Without(b2, b, q, r, n)
    PROVE  LeftOf(b2, q) = LeftOf(b, q) /\ RightOf(b2, q, n - (r - q)) = RightOf(b, r, n)
<1>1. r \in Nat /\ n \in Nat /\ r <= n /\ q \in Nat /\ q <= r
  BY DEF Without, InBuffer
<1>2. LeftOf(b2, q) = LeftOf(b, q)
  <2>1. \A i \in 1 .. q : b2[i - 1] = b[i - 1]
    BY <1>1 DEF Without
  <2> QED
    BY <2>1 DEF LeftOf
<1>3. RightOf(b2, q, n - (r - q)) = RightOf(b, r, n)
  <2>1. (n - (r - q)) - q = n - r
    BY <1>1
  <2>2. ASSUME NEW i \in 1 .. n - r PROVE b2[q + i - 1] = b[r + i - 1]
    <3>1. q + i - 1 \in q .. n - (r - q) - 1 /\ (q + i - 1) - q + r = r + i - 1
      BY <1>1
    <3>2. b2[q + i - 1] = b[(q + i - 1) - q + r]
      BY <3>1 DEF Without
    <3> QED
      BY <3>1, <3>2
  <2> QED
    BY <2>1, <2>2 DEF RightOf
<1> QED
  BY <1>2, <1>3

(* memmove over a gap removes it, whatever is written behind the text.     *)
LEMMA GapClosed ==
    ASSUME NEW b, NEW q, NEW r, NEW n, InBuffer(b, r, n), q \in Nat, q < r,
           NEW b2, b2 = [Move(b, q, r, n - r) EXCEPT ![n - 1] = NUL], r = q + 1
    PROVE  Without(b2, b, q, r, n)
<1> DEFINE m == Move(b, q, r, n - r)
<1>1. r \in Nat /\ n \in Nat /\ r <= n /\ n <= BufLen /\ BufLen \in Nat /\ b \in Buffer /\ q \in Nat
  BY BufferSize DEF InBuffer
<1>2. m \in Buffer
  BY <1>1, MoveIsBuffer
<1>3. \A i \in 0 .. BufLen : m[i] = IF i \in q .. q + (n - r) - 1 THEN b[i - q + r] ELSE b[i]
  BY <1>1, MoveAt
<1>4. b2 = [m EXCEPT ![n - 1] = NUL]
  OBVIOUS
<1> HIDE DEF m
<1>5. n - 1 \in 0 .. BufLen /\ NUL \in Char
  BY <1>1, TextAssumption
<1>6. b2 \in Buffer /\ \A i \in 0 .. BufLen : i # n - 1 => b2[i] = m[i]
  BY <1>2, <1>4, <1>5 DEF Buffer
<1>7. ASSUME NEW i \in 0 .. q - 1 PROVE b2[i] = b[i]
  <2>1. i \in 0 .. BufLen /\ i # n - 1 /\ i \notin q .. q + (n - r) - 1
    BY <1>1
  <2> QED
    BY <1>3, <1>6, <2>1
<1>8. ASSUME NEW i \in q .. n - (r - q) - 1 PROVE b2[i] = b[i - q + r]
  <2>1. i \in 0 .. BufLen /\ i # n - 1 /\ i \in q .. q + (n - r) - 1
    BY <1>1
  <2> QED
    BY <1>3, <1>6, <2>1
<1> QED
  BY <1>1, <1>6, <1>7, <1>8 DEF Without

(* The word before the cursor goes with its NUL moved along.               *)
LEMMA WordClosed ==
    ASSUME NEW b, NEW q, NEW p, NEW n, InBuffer(b, p, n), q \in Nat, q <= p
    PROVE  Without(Move(b, q, p, n - p + 1), b, q, p, n)
<1> DEFINE m == Move(b, q, p, n - p + 1)
<1>1. p \in Nat /\ n \in Nat /\ p <= n /\ n <= BufLen /\ BufLen \in Nat /\ b \in Buffer /\ q \in Nat
      /\ n - p + 1 \in Int /\ p + (n - p + 1) <= BufLen + 1
  BY BufferSize DEF InBuffer
<1>2. m \in Buffer
  BY <1>1, MoveIsBuffer
<1>3. \A i \in 0 .. BufLen : m[i] = IF i \in q .. q + (n - p + 1) - 1 THEN b[i - q + p] ELSE b[i]
  BY <1>1, MoveAt
<1> HIDE DEF m
<1>7. ASSUME NEW i \in 0 .. q - 1 PROVE m[i] = b[i]
  <2>1. i \in 0 .. BufLen /\ i \notin q .. q + (n - p + 1) - 1
    BY <1>1
  <2> QED
    BY <1>3, <2>1
<1>8. ASSUME NEW i \in q .. n - (p - q) - 1 PROVE m[i] = b[i - q + p]
  <2>1. i \in 0 .. BufLen /\ i \in q .. q + (n - p + 1) - 1
    BY <1>1
  <2> QED
    BY <1>3, <2>1
<1>9. Without(m, b, q, p, n)
  BY <1>1, <1>2, <1>7, <1>8 DEF Without
<1> QED
  BY <1>9 DEF m

Swapped(b2, b, p, n) == p > 0 /\ p < n /\ b2 = [b EXCEPT ![p - 1] = b[p], ![p] = b[p - 1]]

Exchanged(b2, b, p, n) ==
    /\ InBuffer(b2, p, n)
    /\ LeftOf(b2, p) = Append(LeftOf(b, p - 1), Head(RightOf(b, p, n)))
    /\ RightOf(b2, p, n) = <<LeftOf(b, p)[Len(LeftOf(b, p))]>> \o RightOf(b, p + 1, n)

(* Two characters change places.                                           *)
LEMMA SwappedText ==
    ASSUME NEW b, NEW p, NEW n, InBuffer(b, p, n),
           NEW b2, Swapped(b2, b, p, n)
    PROVE  Exchanged(b2, b, p, n)
<1>1. n \in Nat /\ p \in Nat /\ p <= n /\ n <= BufLen /\ BufLen \in Nat /\ b \in Buffer /\ p > 0 /\ p < n
  BY BufferSize DEF InBuffer, Swapped
<1>2. /\ b2 \in Buffer /\ b2[p - 1] = b[p] /\ b2[p] = b[p - 1]
      /\ \A i \in 0 .. BufLen : i # p /\ i # p - 1 => b2[i] = b[i]
  <2>1. p \in 0 .. BufLen /\ p - 1 \in 0 .. BufLen /\ p # p - 1
    BY <1>1
  <2> QED
    BY <1>1, <2>1 DEF Buffer, Swapped
<1>3. InBuffer(b2, p, n) /\ InBuffer(b2, p - 1, n) /\ InBuffer(b2, p + 1, n)
  BY <1>1, <1>2 DEF InBuffer
<1>4. LeftOf(b2, p - 1) = LeftOf(b, p - 1)
  <2>1. ASSUME NEW i \in 1 .. p - 1 PROVE b2[i - 1] = b[i - 1]
    <3>1. i - 1 \in 0 .. BufLen /\ i - 1 # p /\ i - 1 # p - 1
      BY <1>1
    <3> QED
      BY <1>2, <3>1
  <2> QED
    BY <2>1 DEF LeftOf
<1>5. RightOf(b2, p + 1, n) = RightOf(b, p + 1, n)
  <2>1. ASSUME NEW i \in 1 .. n - (p + 1) PROVE b2[(p + 1) + i - 1] = b[(p + 1) + i - 1]
    <3>1. (p + 1) + i - 1 \in 0 .. BufLen /\ (p + 1) + i - 1 # p /\ (p + 1) + i - 1 # p - 1
      BY <1>1
    <3> QED
      BY <1>2, <3>1
  <2> QED
    BY <2>1 DEF RightOf
<1>6. (p - 1) + 1 = p /\ p - 1 # n /\ (p + 1) - 1 = p /\ p + 1 > 0 /\ p - 1 < n
  BY <1>1
<1>7. LeftOf(b2, p) = Append(LeftOf(b, p - 1), Head(RightOf(b, p, n)))
  <2>1. LeftOf(b2, (p - 1) + 1) = Append(LeftOf(b2, p - 1), Head(RightOf(b2, p - 1, n)))
    <3>1. Moves(b2, p - 1, n)
      BY <1>3, MovedText
    <3> QED
      BY <1>6, <3>1 DEF Moves
  <2>2. Head(RightOf(b2, p - 1, n)) = b2[p - 1]
    BY <1>3, <1>6, AtCursor
  <2>3. Head(RightOf(b, p, n)) = b[p]
    BY <1>1, AtCursor
  <2> QED
    BY <1>2, <1>4, <1>6, <2>1, <2>2, <2>3
<1>8. RightOf(b2, p, n) = <<LeftOf(b, p)[Len(LeftOf(b, p))]>> \o RightOf(b, p + 1, n)
  <2>1. RightOf(b2, (p + 1) - 1, n) = <<LeftOf(b2, p + 1)[Len(LeftOf(b2, p + 1))]>> \o RightOf(b2, p + 1, n)
    <3>1. Moves(b2, p + 1, n)
      BY <1>3, MovedText
    <3> QED
      BY <1>6, <3>1 DEF Moves
  <2>2. LeftOf(b2, p + 1)[Len(LeftOf(b2, p + 1))] = b2[(p + 1) - 1]
    BY <1>3, <1>6, AtCursor
  <2>3. LeftOf(b, p)[Len(LeftOf(b, p))] = b[p - 1]
    BY <1>1, AtCursor
  <2> QED
    BY <1>2, <1>5, <1>6, <2>1, <2>2, <2>3
<1> QED
  BY <1>3, <1>7, <1>8 DEF Exchanged

(* strncpy and strlen: an entry comes whole or cut.                        *)
CutTo(t) == IF Len(t) < BufLen THEN Len(t) ELSE BufLen - 1

(* The buffer then holds that beginning of the entry, up to its NUL.       *)
LEMMA CopiedText ==
    ASSUME NEW b \in Buffer, NEW t \in Text
    PROVE  StrLen(Copied(b, t)) = CutTo(t) /\ LeftOf(Copied(b, t), CutTo(t)) = SubSeq(t, 1, CutTo(t))
<1> DEFINE b2 == Copied(b, t)
           x  == CutTo(t)
           y  == StrLen(b2)
<1>1. Len(t) \in Nat /\ BufLen \in Nat /\ BufLen >= 1
  BY BufferSize DEF Text
<1>2. x \in Nat /\ x <= BufLen - 1 /\ x <= Len(t)
  BY <1>1 DEF CutTo
<1>3. b2 \in Buffer /\ b2[BufLen - 1] = NUL
  BY CopiedIs
<1>4. \A m \in 0 .. BufLen : b2[m] = IF m = BufLen THEN b[m] ELSE IF m < Len(t) /\ m < BufLen - 1 THEN t[m + 1] ELSE NUL
  BY DEF Copied, Buffer
<1>5. \A i \in 1 .. Len(t) : t[i] \in Char \ {NUL}
  BY DEF Text
<1> HIDE DEF b2
<1>6. \A m \in 0 .. x - 1 : b2[m] = t[m + 1] /\ b2[m] # NUL
  <2> TAKE m \in 0 .. x - 1
  <2>1. m \in 0 .. BufLen /\ m # BufLen /\ m < Len(t) /\ m < BufLen - 1 /\ m + 1 \in 1 .. Len(t)
    BY <1>1, <1>2 DEF CutTo
  <2> QED
    BY <1>4, <1>5, <2>1
<1>7. b2[x] = NUL
  <2>1. x \in 0 .. BufLen /\ x # BufLen /\ ~ (x < Len(t) /\ x < BufLen - 1)
    BY <1>1, <1>2 DEF CutTo
  <2> QED
    BY <1>4, <2>1
<1>8. y = x
  <2>1. x \in 0 .. BufLen
    BY <1>1, <1>2
  <2>2. y \in 0 .. x /\ b2[y] = NUL
    BY <1>3, <1>7, <2>1, StrLenIs
  <2> HIDE DEF x, y
  <2> QED
    BY <1>2, <1>6, <2>2
<1>9. LeftOf(b2, x) = SubSeq(t, 1, x)
  <2> HIDE DEF x
  <2>1. InBuffer(b2, x, x)
    BY <1>1, <1>2, <1>3 DEF InBuffer
  <2>2. \A i \in 1 .. x : t[i] \in Char
    BY <1>1, <1>2, <1>5
  <2>3. 1 \in Int /\ x \in Int /\ (IF 1 <= x THEN x - 1 + 1 ELSE 0) = x /\ x - 1 + 1 = x
    BY <1>2
  <2>4. /\ SubSeq(t, 1, x) \in Seq(Char) /\ Len(SubSeq(t, 1, x)) = (IF 1 <= x THEN x - 1 + 1 ELSE 0)
        /\ \A i \in 1 .. x - 1 + 1 : SubSeq(t, 1, x)[i] = t[1 + i - 1]
    BY <2>2, <2>3, SubSeqProperties
  <2>5. ASSUME NEW i \in 1 .. x PROVE SubSeq(t, 1, x)[i] = b2[i - 1]
    <3>1. i - 1 \in 0 .. x - 1 /\ (i - 1) + 1 = i /\ 1 + i - 1 = i
      BY <1>2
    <3> QED
      BY <1>6, <2>3, <2>4, <3>1
  <2>6. IsLeft(SubSeq(t, 1, x), b2, x)
    BY <2>3, <2>4, <2>5 DEF IsLeft
  <2> QED
    BY <2>1, <2>6, LeftIs
<1> QED
  BY <1>8, <1>9 DEF b2

(* The line that is returned is the text up to its first NUL.              *)
LEMMA ReturnedText ==
    ASSUME NEW b, NEW p, NEW n, InBuffer(b, p, n), b[n] = NUL
    PROVE  Str(b) = Abstract!Upto(LeftOf(b, p) \o RightOf(b, p, n))
<1> DEFINE s == LeftOf(b, n)
           x == StrLen(b)
           c == CHOOSE i \in DOMAIN s : s[i] = NUL /\ \A m \in 1 .. i - 1 : s[m] # NUL
<1>1. n \in Nat /\ p \in Nat /\ p <= n /\ n <= BufLen /\ BufLen \in Nat /\ b \in Buffer /\ InBuffer(b, n, n)
  BY BufferSize DEF InBuffer
<1>2. s = LeftOf(b, p) \o RightOf(b, p, n)
  BY MovedText DEF Moves
<1>3. x \in 0 .. n /\ b[x] = NUL /\ \A m \in 0 .. x - 1 : b[m] # NUL
  <2>1. n \in 0 .. BufLen
    BY <1>1
  <2> QED
    BY <1>1, <2>1, StrLenIs
<1>4. Str(b) = LeftOf(b, x)
  BY DEF Str, LeftOf
<1>5. s \in Seq(Char) /\ DOMAIN s = 1 .. n /\ \A i \in 1 .. n : s[i] = b[i - 1]
  BY <1>1, Sides DEF IsLeft
<1>6. Abstract!Upto(s) = IF \E i \in DOMAIN s : s[i] = NUL THEN SubSeq(s, 1, c - 1) ELSE s
  BY DEF Abstract!Upto
<1>7. LeftOf(b, x) = SubSeq(s, 1, x)
  <2>1. InBuffer(b, x, n)
    BY <1>1, <1>3 DEF InBuffer
  <2> QED
    BY <2>1, PrefixText
<1> HIDE DEF s, x
<1>8. CASE x < n
  <2>1. x + 1 \in DOMAIN s /\ s[x + 1] = NUL /\ \A m \in 1 .. (x + 1) - 1 : s[m] # NUL
    <3>1. x + 1 \in 1 .. n /\ (x + 1) - 1 = x
      BY <1>1, <1>3, <1>8
    <3>2. ASSUME NEW m \in 1 .. x PROVE s[m] # NUL
      <4>1. m \in 1 .. n /\ m - 1 \in 0 .. x - 1
        BY <1>1, <1>3
      <4> QED
        BY <1>3, <1>5, <4>1
    <3> QED
      BY <1>3, <1>5, <3>1, <3>2
  <2>2. c \in DOMAIN s /\ s[c] = NUL /\ \A m \in 1 .. c - 1 : s[m] # NUL
    BY <2>1
  <2> HIDE DEF c
  <2>3. c \in 1 .. n
    BY <1>5, <2>2
  <2>4. ~ (c < x + 1)
    <3>1. c \in 1 .. (x + 1) - 1 => s[c] # NUL
      BY <2>1
    <3>2. c < x + 1 => c \in 1 .. (x + 1) - 1
      BY ONLY <1>1, <1>3, <2>3
    <3> QED
      BY <2>2, <3>1, <3>2
  <2>5. ~ (x + 1 < c)
    <3>1. x + 1 < c => x + 1 \in 1 .. c - 1
      BY ONLY <1>1, <1>3, <2>3
    <3> QED
      BY <2>1, <2>2, <3>1
  <2>6. c - 1 = x
    BY ONLY <1>1, <1>3, <2>3, <2>4, <2>5
  <2> QED
    BY <1>2, <1>4, <1>6, <1>7, <2>1, <2>6
<1>9. CASE x = n
  <2>1. ASSUME NEW i \in DOMAIN s PROVE s[i] # NUL
    <3>1. i \in 1 .. n /\ i - 1 \in 0 .. x - 1
      BY <1>1, <1>5, <1>9
    <3> QED
      BY <1>3, <1>5, <3>1
  <2> QED
    BY <1>2, <1>4, <1>6, <1>9, <2>1 DEF s
<1> QED
  BY <1>1, <1>3, <1>8, <1>9

------------------------------------------------------------------------------
(* The text of the state, and of the next one.                             *)
L == LeftOf(buf, pos)
R == RightOf(buf, pos, len)

TextBecomes(l, r) == LeftOf(buf', pos') = l /\ RightOf(buf', pos', len') = r

(* A text that becomes this is what TextLine calls by these names.         *)
LEMMA Named ==
    /\ \A c \in Char : Len(L) + Len(R) < BufLen /\ TextBecomes(Append(L, c), R) => Abstract!Insert
    /\ L # <<>> /\ TextBecomes(SubSeq(L, 1, Len(L) - 1), R) => Abstract!Back
    /\ R # <<>> /\ TextBecomes(L, Tail(R)) => Abstract!Delete
    /\ L # <<>> /\ TextBecomes(SubSeq(L, 1, Len(L) - 1), <<L[Len(L)]>> \o R) => Abstract!Left
    /\ R # <<>> /\ TextBecomes(Append(L, Head(R)), Tail(R)) => Abstract!Right
    /\ TextBecomes(<<>>, L \o R) => Abstract!Home
    /\ TextBecomes(L \o R, <<>>) => Abstract!End
    /\ TextBecomes(L, <<>>) => Abstract!KillEnd
    /\ TextBecomes(<<>>, <<>>) => Abstract!KillLine
<1>1. \A c \in Char : Len(L) + Len(R) < BufLen /\ TextBecomes(Append(L, c), R) => Abstract!Insert
  BY Zenon DEF Abstract!Insert, TextBecomes, L, R, LeftOf, RightOf
<1>2. L # <<>> /\ TextBecomes(SubSeq(L, 1, Len(L) - 1), R) => Abstract!Back
  BY DEF Abstract!Back, Abstract!Front, TextBecomes, L, R, LeftOf, RightOf
<1>3. R # <<>> /\ TextBecomes(L, Tail(R)) => Abstract!Delete
  BY DEF Abstract!Delete, TextBecomes, L, R, LeftOf, RightOf
<1>4. L # <<>> /\ TextBecomes(SubSeq(L, 1, Len(L) - 1), <<L[Len(L)]>> \o R) => Abstract!Left
  BY DEF Abstract!Left, Abstract!Front, Abstract!Last, TextBecomes, L, R, LeftOf, RightOf
<1>5. R # <<>> /\ TextBecomes(Append(L, Head(R)), Tail(R)) => Abstract!Right
  BY DEF Abstract!Right, TextBecomes, L, R, LeftOf, RightOf
<1>6. TextBecomes(<<>>, L \o R) => Abstract!Home
  BY DEF Abstract!Home, TextBecomes, L, R, LeftOf, RightOf
<1>7. TextBecomes(L \o R, <<>>) => Abstract!End
  BY DEF Abstract!End, TextBecomes, L, R, LeftOf, RightOf
<1>8. TextBecomes(L, <<>>) => Abstract!KillEnd
  BY DEF Abstract!KillEnd, TextBecomes, L, R, LeftOf, RightOf
<1>9. TextBecomes(<<>>, <<>>) => Abstract!KillLine
  BY DEF Abstract!KillLine, TextBecomes, L, R, LeftOf, RightOf
<1> QED
  BY <1>1, <1>2, <1>3, <1>4, <1>5, <1>6, <1>7, <1>8, <1>9

(* What a key writes into the buffer is the text that follows.             *)
LEMMA Written ==
    ASSUME NEW b, NEW p, NEW n, Edit(b, p, n), NEW l, NEW r, LeftOf(b, p) = l, RightOf(b, p, n) = r
    PROVE  TextBecomes(l, r)
  BY DEF Edit, TextBecomes

(* The text is in the buffer.                                              *)
LEMMA TextIsThere ==
    EditorInBounds => /\ InBuffer(buf, pos, len) /\ buf[len] = NUL
                      /\ L \in Seq(Char) /\ Len(L) = pos /\ R \in Seq(Char) /\ Len(R) = len - pos
<1> SUFFICES ASSUME EditorInBounds
             PROVE  /\ InBuffer(buf, pos, len) /\ buf[len] = NUL
                    /\ L \in Seq(Char) /\ Len(L) = pos /\ R \in Seq(Char) /\ Len(R) = len - pos
  OBVIOUS
<1>1. InBuffer(buf, pos, len) /\ buf[len] = NUL
  BY Parts DEF TextInBounds, InBuffer
<1> QED
  BY <1>1, Sides DEF L, R, IsLeft, IsRight

(* The cursor's moves over that text.                                      *)
LEMMA CursorMoves ==
    ASSUME InBuffer(buf, pos, len)
    PROVE  /\ pos > 0 => /\ L # <<>> /\ LeftOf(buf, pos - 1) = SubSeq(L, 1, Len(L) - 1)
                         /\ RightOf(buf, pos - 1, len) = <<L[Len(L)]>> \o R
           /\ pos # len => /\ R # <<>> /\ LeftOf(buf, pos + 1) = Append(L, Head(R))
                           /\ RightOf(buf, pos + 1, len) = Tail(R)
           /\ RightOf(buf, 0, len) = L \o R
           /\ LeftOf(buf, len) = L \o R
<1> DEFINE l == LeftOf(buf, pos)
           r == RightOf(buf, pos, len)
<1>1. /\ pos > 0 => /\ l # <<>> /\ LeftOf(buf, pos - 1) = SubSeq(l, 1, Len(l) - 1)
                    /\ RightOf(buf, pos - 1, len) = <<l[Len(l)]>> \o r
      /\ pos # len => /\ r # <<>> /\ LeftOf(buf, pos + 1) = Append(l, Head(r))
                      /\ RightOf(buf, pos + 1, len) = Tail(r)
      /\ RightOf(buf, 0, len) = l \o r
      /\ LeftOf(buf, len) = l \o r
  BY MovedText DEF Moves
<1>2. L = l /\ R = r
  BY DEF L, R
<1> HIDE DEF l, r
<1> QED
  BY <1>1, <1>2

(* A typed character goes between the two texts, next to the left one.     *)
LEMMA InsertIs == ASSUME EditorInBounds, NEW c \in Typed, Insert(c) PROVE Abstract!Insert
<1> DEFINE b == [Move(buf, pos + 1, pos, len - pos) EXCEPT ![pos] = c, ![len + 1] = NUL]
<1>1. len < BufLen /\ Edit(b, pos + 1, len + 1)
  BY DEF Insert
<1>2. InBuffer(buf, pos, len) /\ Len(L) = pos /\ Len(R) = len - pos /\ pos \in Nat /\ len \in Nat
  BY TextIsThere DEF InBuffer
<1>3. c \in Char
  BY TextAssumption
<1>4. With(b, buf, pos, len, c)
  BY DEF With
<1> HIDE DEF b
<1>5. /\ LeftOf(b, pos + 1) = Append(LeftOf(buf, pos), c)
      /\ RightOf(b, pos + 1, len + 1) = RightOf(buf, pos, len)
  BY <1>1, <1>2, <1>3, <1>4, InsertText
<1>6. TextBecomes(Append(L, c), R)
  BY <1>1, <1>5, Written DEF L, R
<1>7. Len(L) + Len(R) < BufLen
  BY <1>1, <1>2
<1> QED
  BY <1>3, <1>6, <1>7, Named

(* The arrows, Home and End move the cursor over the same text.            *)
LEMMA CursorIs ==
    ASSUME EditorInBounds, MoveLeft \/ MoveRight \/ MoveHome \/ MoveEnd
    PROVE  Abstract!Left \/ Abstract!Right \/ Abstract!Home \/ Abstract!End
<1>1. InBuffer(buf, pos, len)
  BY TextIsThere
<1>m. /\ pos > 0 => /\ L # <<>> /\ LeftOf(buf, pos - 1) = SubSeq(L, 1, Len(L) - 1)
                    /\ RightOf(buf, pos - 1, len) = <<L[Len(L)]>> \o R
      /\ pos # len => /\ R # <<>> /\ LeftOf(buf, pos + 1) = Append(L, Head(R))
                      /\ RightOf(buf, pos + 1, len) = Tail(R)
      /\ RightOf(buf, 0, len) = L \o R
      /\ LeftOf(buf, len) = L \o R
  BY <1>1, CursorMoves
<1>n. LeftOf(buf, 0) = <<>> /\ RightOf(buf, len, len) = <<>>
  BY <1>1, NoText
<1>2. CASE MoveLeft
  <2>1. Edit(buf, pos - 1, len) /\ pos > 0
    BY <1>2 DEF MoveLeft
  <2>2. /\ L # <<>> /\ LeftOf(buf, pos - 1) = SubSeq(L, 1, Len(L) - 1)
        /\ RightOf(buf, pos - 1, len) = <<L[Len(L)]>> \o R
    BY <1>m, <2>1
  <2>3. TextBecomes(SubSeq(L, 1, Len(L) - 1), <<L[Len(L)]>> \o R)
    BY <2>1, <2>2, Written
  <2> QED
    BY <2>2, <2>3, Named
<1>3. CASE MoveRight
  <2>1. Edit(buf, pos + 1, len) /\ pos # len
    BY <1>3 DEF MoveRight
  <2>2. R # <<>> /\ LeftOf(buf, pos + 1) = Append(L, Head(R)) /\ RightOf(buf, pos + 1, len) = Tail(R)
    BY <1>m, <2>1
  <2>3. TextBecomes(Append(L, Head(R)), Tail(R))
    BY <2>1, <2>2, Written
  <2> QED
    BY <2>2, <2>3, Named
<1>4. CASE MoveHome
  <2>1. Edit(buf, 0, len)
    BY <1>4 DEF MoveHome
  <2>2. LeftOf(buf, 0) = <<>> /\ RightOf(buf, 0, len) = L \o R
    BY <1>m, <1>n
  <2>3. TextBecomes(<<>>, L \o R)
    BY <2>1, <2>2, Written
  <2> QED
    BY <2>3, Named
<1>5. CASE MoveEnd
  <2>1. Edit(buf, len, len)
    BY <1>5 DEF MoveEnd
  <2>2. LeftOf(buf, len) = L \o R /\ RightOf(buf, len, len) = <<>>
    BY <1>m, <1>n
  <2>3. TextBecomes(L \o R, <<>>)
    BY <2>1, <2>2, Written
  <2> QED
    BY <2>3, Named
<1> QED
  BY <1>2, <1>3, <1>4, <1>5

(* The memmoves of Delete and Backspace close the gap of one character.    *)
LEMMA RemovalIs == ASSUME EditorInBounds, Delete \/ Backspace PROVE Abstract!Delete \/ Abstract!Back
<1>1. InBuffer(buf, pos, len) /\ pos \in Nat /\ len \in Nat /\ pos <= len /\ len <= BufLen /\ buf \in Buffer
  BY TextIsThere DEF InBuffer
<1>2. CASE Delete
  <2> DEFINE b == [Move(buf, pos, pos + 1, len - pos - 1) EXCEPT ![len - 1] = NUL]
  <2>1. Edit(b, pos, len - 1) /\ pos < len
    BY <1>2 DEF Delete
  <2>2. len - (pos + 1) = len - pos - 1 /\ len - ((pos + 1) - pos) = len - 1 /\ pos + 1 \in Nat
        /\ pos + 1 <= len /\ pos < pos + 1 /\ pos # len
    BY <1>1, <2>1
  <2>3. b = [Move(buf, pos, pos + 1, len - (pos + 1)) EXCEPT ![len - 1] = NUL]
    BY <2>2
  <2> HIDE DEF b
  <2>4. InBuffer(buf, pos + 1, len)
    BY <1>1, <2>2 DEF InBuffer
  <2>5. Without(b, buf, pos, pos + 1, len)
    BY <1>1, <2>2, <2>3, <2>4, GapClosed
  <2>6. LeftOf(b, pos) = L /\ RightOf(b, pos, len - ((pos + 1) - pos)) = RightOf(buf, pos + 1, len)
    BY <2>5, RemovedText DEF L
  <2>7. R # <<>> /\ RightOf(buf, pos + 1, len) = Tail(R)
    BY <1>1, <2>2, CursorMoves
  <2>8. TextBecomes(L, Tail(R))
    BY <2>1, <2>2, <2>6, <2>7, Written
  <2> QED
    BY <2>7, <2>8, Named
<1>3. CASE Backspace
  <2> DEFINE b == [Move(buf, pos - 1, pos, len - pos) EXCEPT ![len - 1] = NUL]
  <2>1. Edit(b, pos - 1, len - 1) /\ pos > 0
    BY <1>3 DEF Backspace
  <2>2. len - (pos - (pos - 1)) = len - 1 /\ pos - 1 \in Nat /\ pos - 1 < pos /\ pos = (pos - 1) + 1
    BY <1>1, <2>1
  <2>3. b = [Move(buf, pos - 1, pos, len - pos) EXCEPT ![len - 1] = NUL]
    OBVIOUS
  <2> HIDE DEF b
  <2>5. Without(b, buf, pos - 1, pos, len)
    BY <1>1, <2>2, <2>3, GapClosed
  <2>6. LeftOf(b, pos - 1) = LeftOf(buf, pos - 1) /\ RightOf(b, pos - 1, len - (pos - (pos - 1))) = R
    BY <2>5, RemovedText DEF R
  <2>7. L # <<>> /\ LeftOf(buf, pos - 1) = SubSeq(L, 1, Len(L) - 1)
    BY <1>1, <2>1, CursorMoves
  <2>8. TextBecomes(SubSeq(L, 1, Len(L) - 1), R)
    BY <2>1, <2>2, <2>6, <2>7, Written
  <2> QED
    BY <2>7, <2>8, Named
<1> QED
  BY <1>2, <1>3

(* Ctrl-U and Ctrl-K leave nothing behind the NUL they write.              *)
LEMMA KillIs == ASSUME EditorInBounds, KillLine \/ KillEnd PROVE Abstract!KillLine \/ Abstract!KillEnd
<1>1. InBuffer(buf, pos, len) /\ pos \in Nat /\ len \in Nat /\ pos <= len /\ len <= BufLen /\ buf \in Buffer
  BY TextIsThere DEF InBuffer
<1>2. BufLen \in Nat /\ NUL \in Char /\ 0 \in 0 .. BufLen /\ pos \in 0 .. BufLen
  BY <1>1, BufferSize, TextAssumption
<1>3. CASE KillLine
  <2> DEFINE b == [buf EXCEPT ![0] = NUL]
  <2>1. Edit(b, 0, 0)
    BY <1>3 DEF KillLine
  <2>2. InBuffer(b, 0, 0)
    BY <1>1, <1>2 DEF InBuffer, Buffer
  <2> HIDE DEF b
  <2>3. LeftOf(b, 0) = <<>> /\ RightOf(b, 0, 0) = <<>>
    BY <2>2, NoText
  <2>4. TextBecomes(<<>>, <<>>)
    BY <2>1, <2>3, Written
  <2> QED
    BY <2>4, Named
<1>4. CASE KillEnd
  <2> DEFINE b == [buf EXCEPT ![pos] = NUL]
  <2>1. Edit(b, pos, pos)
    BY <1>4 DEF KillEnd
  <2>2. InBuffer(b, pos, pos) /\ \A i \in 0 .. BufLen : i # pos => b[i] = buf[i]
    BY <1>1, <1>2 DEF InBuffer, Buffer
  <2> HIDE DEF b
  <2>3. ASSUME NEW i \in 1 .. pos PROVE b[i - 1] = buf[i - 1]
    <3>1. i - 1 \in 0 .. BufLen /\ i - 1 # pos
      BY <1>1, <1>2
    <3> QED
      BY <2>2, <3>1
  <2>4. LeftOf(b, pos) = L /\ RightOf(b, pos, pos) = <<>>
    <3>1. RightOf(b, pos, pos) = <<>>
      BY <2>2, NoText
    <3>2. LeftOf(b, pos) = L
      BY <2>3 DEF LeftOf, L
    <3> QED
      BY <3>1, <3>2
  <2>5. TextBecomes(L, <<>>)
    BY <2>1, <2>4, Written
  <2> QED
    BY <2>5, Named
<1> QED
  BY <1>3, <1>4

(* A text that is cut before a word, as the loops of the editor find it.   *)
LEMMA WordNamed ==
    ASSUME L \in Seq(Char), NEW q \in 0 .. Len(L), NEW s \in q .. Len(L),
           TextBecomes(SubSeq(L, 1, q), R),
           \A m \in s + 1 .. Len(L) : L[m] = Space,
           \A m \in q + 1 .. s : L[m] # Space,
           q > 0 => L[q] = Space /\ q < Len(L) /\ L[q + 1] # Space
    PROVE  Abstract!Word
<1> DEFINE n == Len(L)
           h == SubSeq(L, 1, q)
           w == SubSeq(L, q + 1, n)
<1>1. n \in Nat /\ q \in Nat /\ s \in Nat /\ q <= s /\ s <= n
  OBVIOUS
<1>2. L = h \o w
  <2>1. 1 \in 1 .. Len(L) + 1 /\ q \in 1 - 1 .. Len(L) /\ Len(L) \in q .. Len(L)
    BY <1>1
  <2>2. h \o w = SubSeq(L, 1, Len(L))
    BY <2>1, ConcatAdjacentSubSeq
  <2> QED
    BY <2>2, SubSeqFull
<1>3. Len(h) = q /\ \A i \in 1 .. q : h[i] = L[i]
  <2>1. \A i \in 1 .. q : L[i] \in Char
    BY <1>1
  <2>2. 1 \in Int /\ q \in Int /\ (IF 1 <= q THEN q - 1 + 1 ELSE 0) = q /\ q - 1 + 1 = q
        /\ \A i \in 1 .. q : 1 + i - 1 = i
    BY <1>1
  <2>3. Len(h) = (IF 1 <= q THEN q - 1 + 1 ELSE 0) /\ \A i \in 1 .. q - 1 + 1 : h[i] = L[1 + i - 1]
    BY <2>1, <2>2, SubSeqProperties
  <2> QED
    BY <2>2, <2>3
<1>4. Len(w) = n - q /\ \A i \in 1 .. n - q : w[i] = L[q + i]
  <2>1. \A i \in q + 1 .. n : L[i] \in Char
    BY <1>1
  <2>2. q + 1 \in Int /\ n \in Int /\ (IF q + 1 <= n THEN n - (q + 1) + 1 ELSE 0) = n - q
        /\ n - (q + 1) + 1 = n - q /\ \A i \in 1 .. n - q : (q + 1) + i - 1 = q + i
    BY <1>1
  <2>3. ASSUME NEW m \in Int, NEW e \in Int, \A i \in m .. e : L[i] \in Char
        PROVE  /\ Len(SubSeq(L, m, e)) = IF m <= e THEN e - m + 1 ELSE 0
               /\ \A i \in 1 .. e - m + 1 : SubSeq(L, m, e)[i] = L[m + i - 1]
    BY <2>3, SubSeqProperties
  <2>4. /\ Len(w) = IF q + 1 <= n THEN n - (q + 1) + 1 ELSE 0
        /\ \A i \in 1 .. n - (q + 1) + 1 : w[i] = L[(q + 1) + i - 1]
    <3> HIDE DEF n
    <3> QED
      BY <2>1, <2>2, <2>3
  <2> QED
    BY <2>2, <2>4
<1> HIDE DEF h, w
<1>5. Abstract!IsWord(w)
  <2>1. s - q \in 0 .. Len(w)
    BY <1>1, <1>4
  <2>2. ASSUME NEW m \in 1 .. s - q PROVE w[m] # Space
    <3>1. m \in 1 .. n - q /\ q + m \in q + 1 .. s
      BY <1>1
    <3> QED
      BY <1>4, <3>1
  <2>3. ASSUME NEW m \in (s - q) + 1 .. Len(w) PROVE w[m] = Space
    <3>1. m \in 1 .. n - q /\ q + m \in s + 1 .. Len(L)
      BY <1>1, <1>4
    <3> QED
      BY <1>4, <3>1
  <2> QED
    BY <2>1, <2>2, <2>3 DEF Abstract!IsWord
<1>6. h # <<>> => Abstract!Last(h) = Space /\ Len(h) < n /\ L[Len(h) + 1] # Space
  <2> SUFFICES ASSUME h # <<>> PROVE Abstract!Last(h) = Space /\ Len(h) < n /\ L[Len(h) + 1] # Space
    OBVIOUS
  <2>1. h \in Seq(Char)
    BY <1>1, SubSeqProperties DEF h
  <2>2. q > 0
    BY <1>1, <1>3, <2>1
  <2> QED
    BY <1>1, <1>3, <2>2 DEF Abstract!Last
<1>7. LeftOf(buf', pos') = h /\ RightOf(buf', pos', len') = R
  BY DEF TextBecomes, h
<1>8. w = SubSeq(L, Len(h) + 1, Len(L))
  BY <1>3 DEF w
<1>9. /\ L = LeftOf(buf', pos') \o SubSeq(L, Len(LeftOf(buf', pos')) + 1, Len(L))
      /\ RightOf(buf', pos', len') = R
      /\ Abstract!IsWord(SubSeq(L, Len(LeftOf(buf', pos')) + 1, Len(L)))
      /\ LeftOf(buf', pos') # <<>> =>
            /\ Abstract!Last(LeftOf(buf', pos')) = Space
            /\ Len(LeftOf(buf', pos')) < Len(L) /\ L[Len(LeftOf(buf', pos')) + 1] # Space
  BY <1>2, <1>5, <1>6, <1>7, <1>8
<1> QED
  BY <1>9 DEF Abstract!Word, L, R, LeftOf, RightOf

(* Ctrl-W removes the word its two loops find, with the spaces after it.   *)
LEMMA WordIs == ASSUME EditorInBounds, DeletePrevWord PROVE Abstract!Word
<1> DEFINE q == WordStart(buf, pos)
           b == Move(buf, q, pos, len - pos + 1)
<1>1. InBuffer(buf, pos, len) /\ pos \in Nat /\ len \in Nat /\ pos <= len /\ len <= BufLen /\ buf \in Buffer
      /\ L \in Seq(Char) /\ Len(L) = pos
  BY TextIsThere DEF InBuffer
<1>2. Edit(b, q, len - (pos - q))
  BY DEF DeletePrevWord
<1>3. q \in 0 .. pos /\ \E s \in q .. pos : /\ \A m \in s .. pos - 1 : buf[m] = Space
                                            /\ s > 0 => buf[s - 1] # Space
                                            /\ \A m \in q .. s - 1 : buf[m] # Space
                                            /\ q > 0 => buf[q - 1] = Space
  BY <1>1, WordStartIs
<1> HIDE DEF q
<1>4. PICK s \in q .. pos : /\ \A m \in s .. pos - 1 : buf[m] = Space
                            /\ s > 0 => buf[s - 1] # Space
                            /\ \A m \in q .. s - 1 : buf[m] # Space
                            /\ q > 0 => buf[q - 1] = Space
  BY <1>3
<1>5. q \in Nat /\ q <= pos /\ s \in Nat /\ q <= s /\ s <= pos
  BY <1>1, <1>3
<1>6. Without(b, buf, q, pos, len)
  BY <1>1, <1>5, WordClosed
<1> HIDE DEF b
<1>7. LeftOf(b, q) = LeftOf(buf, q) /\ RightOf(b, q, len - (pos - q)) = R
  BY <1>6, RemovedText DEF R
<1>8. LeftOf(buf, q) = SubSeq(L, 1, q)
  <2>1. LeftOf(buf, pos) = SubSeq(LeftOf(buf, len), 1, pos)
    BY <1>1, PrefixText
  <2>2. InBuffer(buf, q, pos)
    BY <1>1, <1>5, BufferSize DEF InBuffer
  <2> QED
    BY <2>2, PrefixText DEF L
<1>9. TextBecomes(SubSeq(L, 1, q), R)
  BY <1>2, <1>7, <1>8, Written
<1>10. \A m \in 1 .. pos : L[m] = buf[m - 1]
  BY <1>1, Sides DEF IsLeft, L
<1>11. ASSUME NEW m \in s + 1 .. Len(L) PROVE L[m] = Space
  <2>1. m \in 1 .. pos /\ m - 1 \in s .. pos - 1
    BY <1>1, <1>5
  <2> QED
    BY <1>4, <1>10, <2>1
<1>12. ASSUME NEW m \in q + 1 .. s PROVE L[m] # Space
  <2>1. m \in 1 .. pos /\ m - 1 \in q .. s - 1
    BY <1>1, <1>5
  <2> QED
    BY <1>4, <1>10, <2>1
<1>13. ASSUME q > 0 PROVE L[q] = Space /\ q < Len(L) /\ L[q + 1] # Space
  <2>1. L[q] = Space
    BY <1>4, <1>5, <1>10, <1>13
  <2>2. s # q
    BY <1>4, <1>13
  <2>3. q + 1 \in q + 1 .. s /\ q < Len(L)
    BY <1>1, <1>5, <2>2
  <2> QED
    BY <1>12, <2>1, <2>3
<1>14. q \in 0 .. Len(L) /\ s \in q .. Len(L)
  BY <1>1, <1>5
<1> QED
  BY <1>1, <1>9, <1>11, <1>12, <1>13, <1>14, WordNamed

(* Ctrl-T: the cursor follows unless the second character is the last.     *)
LEMMA SwapIs == ASSUME EditorInBounds, Swap PROVE Abstract!Swap
<1> DEFINE b == [buf EXCEPT ![pos - 1] = buf[pos], ![pos] = buf[pos - 1]]
           l == Append(SubSeq(L, 1, Len(L) - 1), Head(R))
           r == <<L[Len(L)]>> \o Tail(R)
<1>1. InBuffer(buf, pos, len) /\ pos \in Nat /\ len \in Nat /\ pos <= len /\ len <= BufLen /\ buf \in Buffer
      /\ L \in Seq(Char) /\ Len(L) = pos /\ R \in Seq(Char) /\ Len(R) = len - pos
  BY TextIsThere DEF InBuffer
<1>2. pos > 0 /\ pos < len /\ Edit(b, IF pos # len - 1 THEN pos + 1 ELSE pos, len)
  BY DEF Swap
<1>3. Swapped(b, buf, pos, len)
  BY <1>2 DEF Swapped
<1> HIDE DEF b
<1>4. /\ InBuffer(b, pos, len)
      /\ LeftOf(b, pos) = Append(LeftOf(buf, pos - 1), Head(RightOf(buf, pos, len)))
      /\ RightOf(b, pos, len) = <<LeftOf(buf, pos)[Len(LeftOf(buf, pos))]>> \o RightOf(buf, pos + 1, len)
  <2>1. Exchanged(b, buf, pos, len)
    BY <1>1, <1>3, SwappedText
  <2> QED
    BY <2>1 DEF Exchanged
<1>5. /\ L # <<>> /\ LeftOf(buf, pos - 1) = SubSeq(L, 1, Len(L) - 1)
      /\ R # <<>> /\ RightOf(buf, pos + 1, len) = Tail(R)
  BY <1>1, <1>2, CursorMoves
<1>6. LeftOf(b, pos) = l /\ RightOf(b, pos, len) = r
  BY <1>4, <1>5 DEF L, R
<1> HIDE DEF l, r
<1>7. IF Len(R) = 1 THEN TextBecomes(l, r) ELSE TextBecomes(Append(l, Head(r)), Tail(r))
  <2>1. CASE pos = len - 1
    <3>1. Len(R) = 1 /\ Edit(b, pos, len)
      BY <1>1, <1>2, <2>1
    <3>2. TextBecomes(l, r)
      BY <1>6, <3>1, Written
    <3> QED
      BY <3>1, <3>2
  <2>2. CASE pos # len - 1
    <3>1. Len(R) # 1 /\ Edit(b, pos + 1, len) /\ pos # len
      BY <1>1, <1>2, <2>2
    <3>2. Moves(b, pos, len)
      BY <1>4, MovedText
    <3>3. LeftOf(b, pos + 1) = Append(l, Head(r)) /\ RightOf(b, pos + 1, len) = Tail(r)
      BY <1>6, <3>1, <3>2 DEF Moves
    <3>4. TextBecomes(Append(l, Head(r)), Tail(r))
      BY <3>1, <3>3, Written
    <3> QED
      BY <3>1, <3>4
  <2> QED
    BY <2>1, <2>2
<1> QED
  BY <1>5, <1>7 DEF l, r, Abstract!Swap, Abstract!Front, Abstract!Last, TextBecomes, L, R, LeftOf, RightOf

------------------------------------------------------------------------------
(* The steps that are no editing of a text.                                *)
LEMMA OthersNamed ==
    /\ (TextBecomes(L, R) \/ TextBecomes(L \o R, <<>>)) /\ line' \in {None, Abstract!Upto(L \o R)} => Abstract!Return
    /\ TextBecomes(L, R) /\ at = "idle" => Abstract!Take
    /\ TextBecomes(L, R) /\ line' = line => Abstract!Remember
    /\ TextBecomes(<<>>, <<>>) /\ line' \in {line, None} => Abstract!Begin
    /\ \A n \in DOMAIN history' :
          TextBecomes(SubSeq(history'[n], 1, CutTo(history'[n])), <<>>) => Abstract!Recall
<1>1. (TextBecomes(L, R) \/ TextBecomes(L \o R, <<>>)) /\ line' \in {None, Abstract!Upto(L \o R)} => Abstract!Return
  BY DEF Abstract!Return, Abstract!text, Abstract!End, TextBecomes, L, R, LeftOf, RightOf
<1>2. TextBecomes(L, R) /\ at = "idle" => Abstract!Take
  BY DEF Abstract!Take, Abstract!text, TextBecomes, L, R, LeftOf, RightOf
<1>3. TextBecomes(L, R) /\ line' = line => Abstract!Remember
  BY DEF Abstract!Remember, Abstract!text, TextBecomes, L, R, LeftOf, RightOf
<1>4. TextBecomes(<<>>, <<>>) /\ line' \in {line, None} => Abstract!Begin
  BY DEF Abstract!Begin, Abstract!text, TextBecomes, LeftOf, RightOf
<1>5. \A n \in DOMAIN history' :
         TextBecomes(SubSeq(history'[n], 1, CutTo(history'[n])), <<>>) => Abstract!Recall
  BY DEF Abstract!Recall, CutTo, TextBecomes, LeftOf, RightOf
<1> QED
  BY <1>1, <1>2, <1>3, <1>4, <1>5

(* An unchanged buffer holds the same text, an emptied one none.           *)
LEMMA SameText ==
    /\ UNCHANGED <<buf, pos, len>> => TextBecomes(L, R)
    /\ \A b \in Buffer : buf' = b /\ pos' = 0 /\ len' = 0 => TextBecomes(<<>>, <<>>)
<1>1. UNCHANGED <<buf, pos, len>> => TextBecomes(L, R)
  BY DEF TextBecomes, L, R
<1>2. ASSUME NEW b \in Buffer, buf' = b, pos' = 0, len' = 0 PROVE TextBecomes(<<>>, <<>>)
  <2>1. InBuffer(b, 0, 0)
    BY BufferSize DEF InBuffer
  <2>2. LeftOf(b, 0) = <<>> /\ RightOf(b, 0, 0) = <<>>
    BY <2>1, NoText
  <2> QED
    BY <1>2, <2>2 DEF TextBecomes
<1> QED
  BY <1>1, <1>2

(* Up and down: the entry, cut where it would not fit, or nothing.         *)
LEMMA RecallIs ==
    ASSUME EditorInBounds, EditorInBounds', NEW dir \in {1, -1}, Recall(dir)
    PROVE  Abstract!Recall \/ Abstract!Remember
<1> DEFINE i == history_index + dir
           n == history_len - i
           t == history'[n]
           b == Copied(buf, t)
<1>1. history \in Seq(Text) /\ history_index \in Nat /\ buf \in Buffer
  BY Parts DEF PastInBounds, TextInBounds
<1>2. history' \in Seq(Text) /\ TextInBounds(buf', pos', len')
  BY PartsPrime DEF PastInBounds
<1>3. line' = line /\ history' = [history EXCEPT ![history_len - history_index] = Str(buf)]
  BY DEF Recall
<1>4. CASE i \in 0 .. history_len - 1
  <2>1. Edit(b, StrLen(b), StrLen(b))
    BY <1>4 DEF Recall
  <2>2. DOMAIN history' = 1 .. history_len /\ history_len \in Nat
    BY <1>1, <1>3 DEF history_len
  <2>3. n \in DOMAIN history'
    <3>1. i \in Int /\ 0 <= i /\ i <= history_len - 1
      BY <1>4
    <3> HIDE DEF i
    <3> QED
      BY <2>2, <3>1
  <2> HIDE DEF n
  <2>4. t \in Text
    BY <1>2, <2>3
  <2>5. t = history'[n]
    OBVIOUS
  <2> HIDE DEF t
  <2>6. StrLen(b) = CutTo(t) /\ LeftOf(b, CutTo(t)) = SubSeq(t, 1, CutTo(t))
    BY <1>1, <2>4, CopiedText
  <2> HIDE DEF b
  <2>7. buf' = b /\ pos' = CutTo(t) /\ len' = CutTo(t)
    BY <2>1, <2>6 DEF Edit
  <2>8. InBuffer(b, CutTo(t), CutTo(t))
    BY <1>2, <2>7 DEF TextInBounds, InBuffer
  <2>9. RightOf(b, CutTo(t), CutTo(t)) = <<>>
    BY <2>8, NoText
  <2>10. TextBecomes(SubSeq(t, 1, CutTo(t)), <<>>)
    BY <2>6, <2>7, <2>9 DEF TextBecomes
  <2> QED
    BY <2>3, <2>5, <2>10, OthersNamed
<1>5. CASE i \notin 0 .. history_len - 1
  <2>1. UNCHANGED <<buf, pos, len>>
    BY <1>5 DEF Recall, textVars
  <2> QED
    BY <1>3, <2>1, SameText, OthersNamed
<1> QED
  BY <1>4, <1>5

(* Every way to leave the editor returns the line, or nothing.             *)
LEMMA ReturnIs ==
    ASSUME EditorInBounds, Enter \/ CtrlC \/ CtrlD \/ EndOfInput PROVE Abstract!Return
<1>1. InBuffer(buf, pos, len) /\ buf[len] = NUL
  BY TextIsThere
<1>2. Str(buf) = Abstract!Upto(L \o R)
  BY <1>1, ReturnedText DEF L, R
<1>3. line' \in {None, Abstract!Upto(L \o R)}
  BY <1>2 DEF Enter, CtrlC, CtrlD, EndOfInput
<1>4. Edit(buf, len, len) \/ UNCHANGED <<buf, pos, len>>
  BY DEF Enter, CtrlC, CtrlD, EndOfInput, textVars
<1>5. ASSUME Edit(buf, len, len) PROVE TextBecomes(L \o R, <<>>)
  <2>1. LeftOf(buf, len) = L \o R
    BY <1>1, CursorMoves
  <2>2. RightOf(buf, len, len) = <<>>
    BY <1>1, NoText
  <2> QED
    BY <1>5, <2>1, <2>2, Written
<1> QED
  BY <1>3, <1>4, <1>5, SameText, OthersNamed

(* Every key edits the text or returns it.                                 *)
LEMMA KeyIs == ASSUME EditorInBounds, EditorInBounds', AnyKey PROVE Abstract!Next
<1>1. ASSUME line' = line,
             Abstract!Insert \/ Abstract!Back \/ Abstract!Delete \/ Abstract!Word \/ Abstract!Left
               \/ Abstract!Right \/ Abstract!Home \/ Abstract!End \/ Abstract!KillEnd \/ Abstract!KillLine
               \/ Abstract!Swap \/ Abstract!Recall
      PROVE  Abstract!Next
  BY <1>1, Zenon DEF Abstract!Next, Abstract!Edit
<1>2. Edits => line' = line
  BY DEF Edits
<1>3. CASE \E c \in Typed : Insert(c)
  <2>1. Edits
    BY <1>3, Zenon DEF Insert
  <2> QED
    BY <1>1, <1>2, <1>3, <2>1, InsertIs
<1>4. CASE MoveLeft \/ MoveRight \/ MoveHome \/ MoveEnd
  <2>1. Edits
    BY <1>4, Zenon DEF MoveLeft, MoveRight, MoveHome, MoveEnd
  <2> QED
    BY <1>1, <1>2, <1>4, <2>1, CursorIs
<1>5. CASE Delete \/ Backspace \/ DeletePrevWord
  <2>1. Edits
    BY <1>5, Zenon DEF Delete, Backspace, DeletePrevWord
  <2> QED
    BY <1>1, <1>2, <1>5, <2>1, RemovalIs, WordIs
<1>6. CASE Swap \/ KillLine \/ KillEnd
  <2>1. Edits
    BY <1>6, Zenon DEF Swap, KillLine, KillEnd
  <2> QED
    BY <1>1, <1>2, <1>6, <2>1, SwapIs, KillIs
<1>7. CASE ClearScreen \/ Ignored
  <2>1. Edits /\ UNCHANGED <<buf, pos, len>>
    BY <1>7 DEF ClearScreen, Ignored, textVars
  <2>2. Abstract!Remember
    BY <1>2, <2>1, SameText, OthersNamed
  <2> QED
    BY <2>2 DEF Abstract!Next
<1>8. CASE \E dir \in {1, -1} : Recall(dir)
  <2>1. PICK dir \in {1, -1} : Recall(dir)
    BY <1>8
  <2>2. line' = line
    BY <2>1 DEF Recall
  <2>3. Abstract!Recall \/ Abstract!Remember
    BY <2>1, RecallIs
  <2> QED
    BY <1>1, <2>2, <2>3 DEF Abstract!Next
<1>9. CASE Enter \/ CtrlC \/ CtrlD
  BY <1>9, ReturnIs DEF Abstract!Next
<1> QED
  BY <1>3, <1>4, <1>5, <1>6, <1>7, <1>8, <1>9 DEF AnyKey

(* What the program does between two keys is a step between two lines.     *)
LEMMA RestIs ==
    ASSUME EditorInBounds, EditorInBounds',
           Program \/ ReadCooked \/ Interrupt \/ Hangup \/ Restart \/ UNCHANGED vars
    PROVE  Abstract!Next
<1>1. buf' \in Buffer
  BY PartsPrime DEF TextInBounds
<1>2. CASE LoadLine \/ LoadDone \/ SetRaw \/ EmptyLine \/ SaveBegin \/ SaveLine \/ SaveDone
             \/ Hangup \/ Restart \/ UNCHANGED vars
  <2>1. UNCHANGED <<buf, pos, len>> /\ line' = line
    BY <1>2 DEF LoadLine, LoadDone, SetRaw, EmptyLine, SaveBegin, SaveLine, SaveDone, Hangup, Restart,
                vars, textVars
  <2>2. Abstract!Remember
    BY <2>1, SameText, OthersNamed
  <2> QED
    BY <2>2 DEF Abstract!Next
<1>3. CASE BeginEdit \/ Restore \/ Unflag \/ Exit
  <2>1. UNCHANGED <<buf, pos, len>> \/ (pos' = 0 /\ len' = 0)
    BY <1>3 DEF BeginEdit, Restore, Unflag, Exit, FrameGone, textVars
  <2>2. line' \in {line, None}
    BY <1>3 DEF BeginEdit, Restore, Unflag, Exit
  <2>3. UNCHANGED <<buf, pos, len>> => line' = line \/ (pos' = 0 /\ len' = 0)
    BY <1>3 DEF BeginEdit, Restore, Unflag, Exit, FrameGone, textVars
  <2>4. Abstract!Remember \/ Abstract!Begin
    BY <1>1, <2>1, <2>2, <2>3, SameText, OthersNamed
  <2> QED
    BY <2>4 DEF Abstract!Next
<1>4. CASE ReadGone \/ ReadCooked
  <2>1. UNCHANGED <<buf, pos, len>> /\ at = "idle"
    BY <1>4 DEF ReadGone, ReadCooked, textVars
  <2>2. Abstract!Take
    BY <2>1, SameText, OthersNamed
  <2> QED
    BY <2>2 DEF Abstract!Next
<1>5. CASE EndOfInput
  BY <1>5, ReturnIs DEF Abstract!Next
<1> QED
  BY <1>2, <1>3, <1>4, <1>5 DEF Program, Throw, Interrupt

(* The editor implements the text it promises: whatever the order of the   *)
(* keys and the sizes of buffer and history, the memmoves on the C buffer  *)
(* do to the text around the cursor what every key's comment says, and the *)
(* line returned is that text.                                             *)
THEOREM TextIsEdited == Spec => EditsTheText
<1>1. Init => Abstract!Init
  <2> SUFFICES ASSUME Init PROVE Abstract!Init
    OBVIOUS
  <2>1. InBuffer(Blank, 0, 0) /\ buf = Blank /\ pos = 0 /\ len = 0 /\ line = None
    BY BlankInBounds DEF Init, TextInBounds, InBuffer
  <2>2. LeftOf(buf, pos) = <<>> /\ RightOf(buf, pos, len) = <<>>
    BY <2>1, NoText
  <2> QED
    BY <2>1, <2>2 DEF Abstract!Init, Abstract!text, LeftOf, RightOf
<1>2. EditorInBounds /\ EditorInBounds' /\ [Next]_vars => Abstract!Next
  <2> SUFFICES ASSUME EditorInBounds, EditorInBounds', [Next]_vars PROVE Abstract!Next
    OBVIOUS
  <2> QED
    BY KeyIs, RestIs DEF Next
<1> QED
  BY <1>1, <1>2, InBounds, PTL DEF Spec, EditsTheText, Abstract!Spec
=============================================================================
