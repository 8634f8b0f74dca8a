----------------------------- MODULE MCTurnLoop ------------------------------
(* Instances of TurnLoop: symmetric action keys. *)
EXTENDS TurnLoop, TLC

KeySymmetry == Permutations(Keys)
=============================================================================
