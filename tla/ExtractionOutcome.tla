------------------------- MODULE ExtractionOutcome -------------------------
(* What the extraction queue promises for each submitted text, with workers,  *)
(* leases, epochs and receipts left out: the text is open until exactly one   *)
(* outcome is recorded, an outcome with a proposal is reviewed once, and a    *)
(* decision is final except that an accepted proposal may be retracted.       *)
CONSTANT Job

VARIABLE outcome

Init == outcome = [j \in Job |-> "none"]

Move(j, from, to) == outcome[j] \in from /\ outcome' = [outcome EXCEPT ![j] = to]

Submit(j)   == Move(j, {"none"}, "open")
NoDelta(j)  == Move(j, {"open"}, "no_delta")
Propose(j)  == Move(j, {"open"}, "review")
Abandon(j)  == Move(j, {"open"}, "cancelled")
Accept(j)   == Move(j, {"review"}, "accepted")
Reject(j)   == Move(j, {"review"}, "rejected")
Retract(j)  == Move(j, {"accepted"}, "retracted")

Next ==
  \E j \in Job :
    \/ Submit(j) \/ NoDelta(j) \/ Propose(j) \/ Abandon(j)
    \/ Accept(j) \/ Reject(j) \/ Retract(j)

Spec == Init /\ [][Next]_outcome
============================================================================
