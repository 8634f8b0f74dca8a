-------------------------- MODULE MCAdmissionGate ----------------------------
(* Instances of AdmissionGate for TLC: four threads of one process.         *)
EXTENDS AdmissionGate, TLC

CONSTANTS h1, h2, h3, h4

\* The threads are interchangeable.
Alike == Permutations(Threads)
=============================================================================
