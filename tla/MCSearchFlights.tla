-------------------------- MODULE MCSearchFlights --------------------------
(* TLC instances of the searches.                                             *)
EXTENDS SearchFlights, TLC

CONSTANTS r1, r2, q1, q2

(* Each request has a query of its own.                                       *)
MCQueryOf == (r1 :> q1) @@ (r2 :> q2)
============================================================================
