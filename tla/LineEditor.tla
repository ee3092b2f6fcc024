----------------------------- MODULE LineEditor -----------------------------
(***************************************************************************)
(* What the reader of a line promises its caller: the characters typed and *)
(* not erased, in order and at most Limit of them, once enter is pressed.  *)
(***************************************************************************)
EXTENDS Naturals, Sequences

CONSTANTS Limit, Char

VARIABLES
  open,   \* a line is being read
  line,   \* what it holds
  out     \* the last line handed over, empty while one is read

Init == ~open /\ line = << >> /\ out = << >>

Open == ~open /\ open' /\ line' = << >> /\ out' = << >>

Type(c) ==
  /\ open /\ Len(line) < Limit
  /\ line' = Append(line, c)
  /\ UNCHANGED <<open, out>>

Erase ==
  /\ open /\ line # << >>
  /\ line' = SubSeq(line, 1, Len(line) - 1)
  /\ UNCHANGED <<open, out>>

Enter == open /\ ~open' /\ out' = line /\ UNCHANGED line

Next == Open \/ (\E c \in Char : Type(c)) \/ Erase \/ Enter
Spec == Init /\ [][Next]_<<open, line, out>>
=============================================================================
