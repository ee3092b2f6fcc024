---------------------------- MODULE MCLifecycle -----------------------------
(***************************************************************************)
(* Lifecycle for TLC.  With LETTERS letters a channel is filled and one    *)
(* echo is refused; a second lcreset, which brings a second auditor, is    *)
(* checked with LATE_LETTERS of them.                                      *)
(***************************************************************************)
EXTENDS Lifecycle

CONSTANT LATE_LETTERS   \* bound: letters the user sends if lcreset is repeated

Letters == 1 .. LETTERS

Repeated ==
  /\ Auditors # {}
  /\ Cardinality(Auditors) > 1 \/ \E n \in DOMAIN to_come : to_come[n] = "auditor"
UserBound == Repeated => posted <= LATE_LETTERS

\* The bound holds back the user, at the prompt, and never the machine.
MCSpec ==
  LifecycleInit /\ [][LifecycleNext /\ UserBound']_lvars /\ WF_lvars(Machine)
=============================================================================
