-------------------------- MODULE MCEffectDispatch ---------------------------
(* Instances of EffectDispatch for TLC: two dispatchers replay the same     *)
(* tool-call id, with the same action or with one on another target.        *)
EXTENDS EffectDispatch, TLC

CONSTANTS w1, w2, i1, i2, a1, a2, t1, t2

MCTargetOf == [a \in Actions |-> IF a = a1 THEN t1 ELSE t2]

\* The dispatchers are interchangeable, and so are the invocation ids.
Alike == Permutations(Workers) \cup Permutations(Invocations)
=============================================================================
