---------------------------- MODULE CanonOutcome ----------------------------
(* What the canon lifecycle promises to whoever reads the canon, with grants, *)
(* commits, links and replays left out: a delta is decided once, accepted     *)
(* only on the revision it names, and may then be retracted once; a decision  *)
(* changes what counts in the stage of its delta only.                        *)
EXTENDS Naturals

CONSTANTS
  Version,  \* deltas: pairs of an artifact and a revision of it
  None      \* no delta

VARIABLES
  delta,   \* [Version -> [status, stage, prepared, fixes]]
  counts,  \* [stage -> the deltas of that stage that count]
  canon    \* the canon revision

view == <<delta, counts, canon>>

Init ==
  /\ \A v \in Version : delta[v].status = "absent"
  /\ counts = [stage \in {"final", "draft"} |-> {}]
  /\ canon = 0

Older(u, v) == u[1] = v[1] /\ u[2] < v[2]
Corrects(v) == delta[v].fixes # None

(* Only final deltas move the canon.                                          *)
Decide(v, status) ==
  /\ delta' = [delta EXCEPT ![v].status = status]
  /\ IF delta[v].stage = "final" THEN canon' > canon ELSE canon' = canon

(* What counts is accepted, and only the stage of v is touched.               *)
Counted(v) ==
  /\ \A stage \in DOMAIN counts' : \A u \in counts'[stage] :
       delta'[u].status = "accepted" /\ delta'[u].stage = stage
  /\ \A stage \in DOMAIN counts \ {delta[v].stage} : counts'[stage] = counts[stage]

Propose(v) ==
  /\ delta[v].status = "absent"
  /\ delta'[v].status = "proposed"
  /\ \A u \in Version \ {v} : delta'[u] = delta[u]
  /\ UNCHANGED <<counts, canon>>

Reject(v) ==
  /\ delta[v].status = "proposed"
  /\ delta' = [delta EXCEPT ![v].status = "rejected"]
  /\ UNCHANGED <<counts, canon>>

(* The delta counts from now on, the one it corrects does not, and no older   *)
(* one of its artifact that counted still does, unless v corrects a           *)
(* correction. Where nothing was ever corrected that is all.                  *)
Accept(v) ==
  LET before == counts[delta[v].stage]
      after == counts'[delta[v].stage]
  IN /\ delta[v].status = "proposed"
     /\ delta[v].prepared = canon
     /\ Decide(v, "accepted") /\ Counted(v)
     /\ v \in after \ before /\ delta[v].fixes \notin after
     /\ ~(Corrects(v) /\ Corrects(delta[v].fixes)) => \A u \in before \cap after : ~Older(u, v)
     /\ (\A w \in Version : ~Corrects(w)) => after = {v} \cup {u \in before : ~Older(u, v)}

(* The delta never counts again; where nothing was ever corrected everything  *)
(* else that counted still does.                                              *)
Retract(v) ==
  LET before == counts[delta[v].stage]
      after == counts'[delta[v].stage]
  IN /\ delta[v].status = "accepted"
     /\ Decide(v, "retracted") /\ Counted(v)
     /\ v \notin after
     /\ (\A w \in Version : ~Corrects(w)) => before \ {v} \subseteq after

Next == \E v \in Version : Propose(v) \/ Reject(v) \/ Accept(v) \/ Retract(v)

Spec == Init /\ [][Next]_view
=============================================================================
