----------------------------- MODULE MCSfsStore -----------------------------
(* Instances of SfsStore for TLC: the processes are interchangeable.       *)
EXTENDS SfsStore, TLC

CONSTANTS p1, p2, p3
TwoPids == {p1, p2}
ThreePids == {p1, p2, p3}
Symmetry == Permutations(Pids)
=============================================================================
