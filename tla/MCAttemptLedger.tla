--------------------------- MODULE MCAttemptLedger ---------------------------
(* Instances of AttemptLedger for TLC. *)
EXTENDS AttemptLedger, TLC

CONSTANTS x, y, z, see, ask, w1

\* The observation covers the target of one mutation and not those of the others.
MCSees == [o \in Reads |-> {x}]

\* The mutations nobody observes are interchangeable.
Alike == Permutations({y, z})
=============================================================================
