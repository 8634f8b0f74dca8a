---------------------------- MODULE MCEffectLease ----------------------------
(* Instances of EffectLease for TLC: two threads of one process and one     *)
(* thread of another compete for a target.                                  *)
EXTENDS EffectLease, TLC

CONSTANTS p1, p2, w1, w2, w3, t1

MCProcOf == (w1 :> p1) @@ (w2 :> p1) @@ (w3 :> p2)
=============================================================================
