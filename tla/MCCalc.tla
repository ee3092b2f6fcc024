------------------------------- MODULE MCCalc -------------------------------
(***************************************************************************)
(* Calc for TLC, with a reference evaluation.  The reference reads the     *)
(* expression as a tree: the operator applied last is the last one of the  *)
(* loosest kind outside parentheses.                                       *)
(***************************************************************************)
EXTENDS Calc

\* In an int of 4 bits 8 and 15 wrap, as 2147483648 does in one of 32.
SmallValue ==
  [n \in Numerals |->
     CASE n = "0" -> 0 [] n = "3" -> 3 [] n = "8" -> Wrap(8) [] n = "15" -> Wrap(15)]

Outside(s) == {k \in DOMAIN s : s[k] \in Operators /\ Depth(SubSeq(s, 1, k)) = 0}
LastApplied(s, outside) ==
  CHOOSE k \in outside :
    \E kind \in DOMAIN Kinds :
      /\ s[k] \in Kinds[kind]
      /\ \A j \in outside : \/ s[j] \in Kinds[kind] /\ j <= k
                           \/ \E tighter \in DOMAIN Kinds :
                                tighter > kind /\ s[j] \in Kinds[tighter]

RECURSIVE Evaluation(_)
Evaluation(s) ==
  LET outside == Outside(s)
      k == LastApplied(s, outside)
  IN IF Len(s) = 1 THEN Printed(Value[s[1]])
     ELSE IF outside = {} THEN Evaluation(SubSeq(s, 2, Len(s) - 1))
     ELSE Applied(Evaluation(SubSeq(s, 1, k - 1)), Evaluation(SubSeq(s, k + 1, Len(s))), s[k])

\* The starts of expressions that have n tokens and can end within the bound.
RECURSIVE Starts(_)
Starts(n) ==
  IF n = 0 THEN {<< >>}
  ELSE {s \in {Append(r, t) : t \in Tokens, r \in Starts(n - 1)} :
          Depth(s) <= MAX_TOKENS - n /\ Prefix(s)}

\* Kind p and the tighter ones are all the operators outside parentheses.
OfLevel(p, s) == \A k \in Outside(s) : \E kind \in p .. 4 : s[k] \in Kinds[kind]

\* The reading that the reference evaluation gives to the expressions of up to
\* n tokens; TLC tests that it obeys the grammar.
RECURSIVE ReadingUpTo(_)
ReadingUpTo(n) ==
  LET evaluated == {<<s, Evaluation(s)>> : s \in {r \in Starts(n) : WellFormed(r)}}
      level(p) == {e \in evaluated : OfLevel(p, e[1])}
  IN IF n = 0 THEN << >>
     ELSE Append(ReadingUpTo(n - 1), <<level(1), level(2), level(3), level(4), level(5)>>)

ReferenceReading == ReadingUpTo(MAX_TOKENS)
=============================================================================
