-------------------------- MODULE MCCanonLifecycle --------------------------
(* TLC instances of the canon lifecycle.                                      *)
EXTENDS CanonLifecycle, TLC

(* Grants and artifacts are interchangeable.                                  *)
CanonSymmetry == Permutations(Grant) \cup Permutations(Artifact)
=============================================================================
