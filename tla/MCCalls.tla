------------------------------ MODULE MCCalls ------------------------------
(* Instances of Calls for TLC. *)
EXTENDS Calls, TLC

CONSTANTS p, q, t1, t2, cleaner, l1, l2, r1, r2

MCThreads == {t1, t2}
AllOps == {"start", "answer", "reject", "hangup", "timeout", "offer", "peerAnswer",
           "media", "remoteHangup", "stop"}
\* Everything but Stop, which never returns while a call is up.
RunningOps == AllOps \ {"stop"}
Symmetry == Permutations(MCThreads)
=============================================================================
