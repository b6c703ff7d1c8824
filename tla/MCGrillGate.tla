---------------------------- MODULE MCGrillGate ----------------------------
(* TLC instances of the interviews.                                           *)
EXTENDS GrillGate, TLC

(* Hooks, turns and sessions are interchangeable in every property.           *)
GrillSymmetry == Permutations(Hook) \cup Permutations(Turn) \cup Permutations(Session)
============================================================================
