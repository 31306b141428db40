------------------------------ MODULE TextLine -------------------------------
(***************************************************************************)
(* What the line editor promises of the text: two texts, before and after  *)
(* the cursor, which every key changes as its comment in linenoise.c says. *)
(***************************************************************************)
EXTENDS Integers, Sequences

CONSTANTS Char, Space, NUL, Room, None

VARIABLES left, right,    (* the text before and after the cursor          *)
          past,           (* the history                                   *)
          out,            (* what the editor returned                      *)
          idle            (* no line is being edited                       *)

text == <<left, right>>

Last(s)  == s[Len(s)]
Front(s) == SubSeq(s, 1, Len(s) - 1)

(* A C string ends at its first NUL.                                       *)
Upto(s) == IF \E n \in DOMAIN s : s[n] = NUL
           THEN SubSeq(s, 1, (CHOOSE n \in DOMAIN s : s[n] = NUL /\ \A m \in 1 .. n - 1 : s[m] # NUL) - 1)
           ELSE s

(* The word before the cursor, with the spaces that follow it.             *)
IsWord(s) == \E n \in 0 .. Len(s) : /\ \A m \in 1 .. n : s[m] # Space
                                    /\ \A m \in n + 1 .. Len(s) : s[m] = Space

Init == text = <<(<<>>), (<<>>)>> /\ out = None

Insert == /\ Len(left) + Len(right) < Room
          /\ \E c \in Char : left' = Append(left, c)
          /\ right' = right
Back     == left # <<>> /\ left' = Front(left) /\ right' = right
Delete   == right # <<>> /\ right' = Tail(right) /\ left' = left
Word     == /\ left = left' \o SubSeq(left, Len(left') + 1, Len(left)) /\ right' = right
            /\ IsWord(SubSeq(left, Len(left') + 1, Len(left)))
            /\ left' # <<>> => Last(left') = Space
                               /\ Len(left') < Len(left) /\ left[Len(left') + 1] # Space
Left     == left # <<>> /\ left' = Front(left) /\ right' = <<Last(left)>> \o right
Right    == right # <<>> /\ left' = Append(left, Head(right)) /\ right' = Tail(right)
Home     == left' = <<>> /\ right' = left \o right
End      == left' = left \o right /\ right' = <<>>
KillEnd  == left' = left /\ right' = <<>>
KillLine == left' = <<>> /\ right' = <<>>

(* The characters on both sides of the cursor are exchanged; the cursor    *)
(* follows unless the second one is the last.                              *)
Swap == /\ left # <<>> /\ right # <<>>
        /\ LET l == Append(Front(left), Head(right))
               r == <<Last(left)>> \o Tail(right)
           IN IF Len(right) = 1 THEN left' = l /\ right' = r
                                ELSE left' = Append(l, Head(r)) /\ right' = Tail(r)

(* An entry of the history, cut where it would not fit with its NUL.       *)
Recall == /\ \E n \in DOMAIN past' : left' = SubSeq(past'[n], 1, IF Len(past'[n]) < Room THEN Len(past'[n])
                                                                                        ELSE Room - 1)
          /\ right' = <<>>

Edit == /\ out' = out
        /\ \/ Insert \/ Back \/ Delete \/ Word \/ Left \/ Right \/ Home \/ End
           \/ KillEnd \/ KillLine \/ Swap \/ Recall

(* The line is returned whole, up to a NUL, or not at all.                 *)
Return == /\ text' = text \/ End
          /\ out' \in {None, Upto(left \o right)}

(* Between two lines: a line may come from elsewhere, the history grow, a  *)
(* new line be begun, empty.                                               *)
Take     == idle /\ text' = text
Remember == text' = text /\ out' = out
Begin    == text' = <<(<<>>), (<<>>)>> /\ out' \in {out, None}

Next == Edit \/ Return \/ Take \/ Remember \/ Begin
Spec == Init /\ [][Next]_<<text, past, out>>
=============================================================================
