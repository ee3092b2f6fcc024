---------------------------- MODULE BoundedFifo ----------------------------
(***************************************************************************)
(* What a message channel promises: a first-in first-out queue that        *)
(* refuses a message when it is full.                                      *)
(***************************************************************************)
EXTENDS Naturals, Sequences

CONSTANTS Capacity, Message, NoMessage

VARIABLES contents,   \* the messages sent and not yet received, oldest first
          delivered   \* the message handed out last

Init == contents = << >> /\ delivered = NoMessage

Put(m) ==
  /\ Len(contents) < Capacity
  /\ contents' = Append(contents, m)
  /\ UNCHANGED delivered

Get ==
  /\ contents # << >>
  /\ delivered' = Head(contents)
  /\ contents' = Tail(contents)

Next == Get \/ \E m \in Message : Put(m)

Spec == Init /\ [][Next]_<<contents, delivered>>
=============================================================================
