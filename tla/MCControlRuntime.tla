-------------------------- MODULE MCControlRuntime ---------------------------
(* Two processes and three permits, each for a newer target; the grant does *)
(* not cover the third.                                                     *)
EXTENDS ControlRuntime, TLC

CONSTANTS q1, q2, p1, p2, p3

MCSequence == [p \in Permits |-> CASE p = p1 -> 1 [] p = p2 -> 2 [] p = p3 -> 3]
MCTarget == [p \in Permits |-> [epoch |-> MCSequence[p], fence |-> MCSequence[p], revision |-> MCSequence[p]]]
MCExpiry == [p \in Permits |-> 2]

Processes == Permutations(Procs)
=============================================================================
