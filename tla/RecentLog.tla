----------------------------- MODULE RecentLog -----------------------------
(***************************************************************************)
(* What the kernel's log promises: it holds the latest messages, in the    *)
(* order they were written, and gives up the oldest for a new one.         *)
(***************************************************************************)
EXTENDS Naturals, Sequences

CONSTANTS Capacity, Message, First

VARIABLE messages   \* oldest first

Keep(s) == IF Len(s) > Capacity THEN Tail(s) ELSE s

Init == messages = <<First>>
Write(m) == messages' = Keep(Append(messages, m))
Next == \E m \in Message : Write(m)
Spec == Init /\ [][Next]_messages
============================================================================
