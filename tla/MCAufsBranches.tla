--------------------------- MODULE MCAufsBranches ---------------------------
(* Instances of AufsBranches for TLC: the commands are interchangeable.    *)
EXTENDS AufsBranches, TLC

CONSTANTS p1, p2, p3
ThreeProcs == {p1, p2, p3}
Forward == [serial |-> FALSE, rollback |-> FALSE]
OneByOne == [serial |-> TRUE, rollback |-> TRUE]
AllModes == {Forward, OneByOne}
Symmetry == Permutations(Procs)
=============================================================================
