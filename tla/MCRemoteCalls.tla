--------------------------- MODULE MCRemoteCalls ---------------------------
(* TLC instances of the remote calls.                                         *)
EXTENDS RemoteCalls, TLC

(* Calls are interchangeable in every safety property.                        *)
CallSymmetry == Permutations(Call)
============================================================================
