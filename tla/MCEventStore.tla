---------------------------- MODULE MCEventStore -----------------------------
(* Instances of EventStore for TLC: two processes share a store; one of the *)
(* events is larger.                                                         *)
EXTENDS EventStore, TLC

CONSTANTS w1, w2, e1, e2

MCSizeOf == [e \in Events |-> IF e = e2 THEN 2 ELSE 1]

\* The processes are interchangeable.
Processes == Permutations(Workers)
=============================================================================
