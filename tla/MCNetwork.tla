----------------------------- MODULE MCNetwork -----------------------------
(***************************************************************************)
(* Network for TLC: sets of frames for one question at a time.             *)
(***************************************************************************)
EXTENDS Network, TLC

CONSTANTS h1, h2, m1, m2, m3

\* h1 announces two hardware addresses and h2 one; both connect; h1 pings.
\* The two addresses of h1 can be exchanged.
MixedFrames ==
  [kind : {"arp_request"}, from : {h1}, mac : {m1, m2}]
    \cup [kind : {"arp_other"}, from : {h2}, mac : {m3}]
    \cup [kind : {"syn"}, from : {h1, h2}]
    \cup [kind : {"ack"}, from : {h1}, ack_num : {ISS, ISS + 1}]
    \cup [kind : {"echo"}, from : {h1}]
SymmetricMacs == Permutations({m1, m2})

\* One peer connects, and frames come that the kernel drops.
FewFrames ==
  {[kind |-> "arp_request", from |-> h1, mac |-> m1], [kind |-> "syn", from |-> h1],
   [kind |-> "other"]}
============================================================================
