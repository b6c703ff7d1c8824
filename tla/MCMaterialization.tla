------------------------- MODULE MCMaterialization -------------------------
(* TLC instances of the materialization.                                      *)
EXTENDS Materialization, TLC

(* Processes are interchangeable in every safety property.                    *)
WorkerSymmetry == Permutations(Worker)
============================================================================
