--------------------------- MODULE CanonLifecycle ---------------------------
(* The life of a story delta from proposal to canon and back out of it:       *)
(* save_proposal, reject_proposal, TrustedHostApproval.issue, accept_proposal *)
(* and retract_proposal of scripts/continuity/service.py on one branch, with  *)
(* the part of scripts/continuity/replay.py that decides which accepted       *)
(* events still count and whether the ledger may be replayed at all.          *)
(*                                                                            *)
(* Each operation is one BEGIN IMMEDIATE transaction, hence one action. The   *)
(* replay that ends accept and retract belongs to their transaction: what it  *)
(* refuses is rolled back.                                                    *)
(*                                                                            *)
(* A proposal is one revision of an artifact and carries one event, so the    *)
(* pair <<artifact, revision>>, unique in the artifacts table, names the      *)
(* proposal, the artifact version and the event. Stage "final" stands for     *)
(* the stages that move the canon of the main branch, "draft" for the others. *)
EXTENDS Naturals, FiniteSets, Sequences

CONSTANTS
  Artifact,       \* artifact ids
  Grant,          \* approval grants, by token
  Stage,          \* stages in use: a subset of {"final", "draft"}
  Named,          \* prepared revisions callers of save_proposal may name
  MaxRevision,    \* bound on artifact_revision
  MaxHead,        \* bound on head_canon_revision
  MaxOpen,        \* bound on the grants issued and not yet used or expired
  ExplicitLinks,  \* TRUE when events may name an event they supersede
  FreeRevision,   \* TRUE when callers may choose an unused artifact_revision
  None            \* no event, no proposal

ASSUME CanonAssumption ==
  /\ Artifact # {} /\ Stage # {}
  /\ Stage \subseteq {"final", "draft"}
  /\ Named \subseteq Nat
  /\ MaxRevision \in Nat \ {0} /\ MaxHead \in Nat /\ MaxOpen \in Nat
  /\ ExplicitLinks \in BOOLEAN /\ FreeRevision \in BOOLEAN
  /\ None \notin Artifact \X (1..MaxRevision)

Version == Artifact \X (1..MaxRevision)
Operation == {"accept", "retract"}

VARIABLES
  proposal,  \* [Version -> row of proposals joined with its row of artifacts]
  grant,     \* [Grant -> row of approval_grants]
  ledger,    \* rows of canon_commits with their event_links
  canon      \* active_canon_revision

vars == <<proposal, grant, ledger, canon>>

ProposalRow ==
  [status   : {"absent", "proposed", "accepted", "rejected", "retracted"},
   stage    : Stage,
   prepared : Nat,
   valid    : BOOLEAN,
   fixes    : Version \cup {None},
   active   : BOOLEAN]

GrantRow ==
  [status    : {"unused", "issued", "expired", "consumed"},
   operation : Operation,
   for       : Version \cup {None},
   expected  : Nat]

Commit ==
  [operation : Operation,
   of        : Version,
   grant     : Grant,
   authority : BOOLEAN,
   before    : Nat,
   after     : Nat,
   explicit  : SUBSET Version,
   links     : SUBSET Version]

TypeOK ==
  /\ proposal \in [Version -> ProposalRow]
  /\ grant \in [Grant -> GrantRow]
  /\ ledger \in Seq(Commit)
  /\ canon \in Nat

Init ==
  /\ proposal = [v \in Version |->
                   [status |-> "absent", stage |-> CHOOSE s \in Stage : TRUE,
                    prepared |-> 0, valid |-> FALSE, fixes |-> None,
                    active |-> FALSE]]
  /\ grant = [g \in Grant |-> [status |-> "unused", operation |-> "accept",
                               for |-> None, expected |-> 0]]
  /\ ledger = <<>>
  /\ canon = 0

-----------------------------------------------------------------------------
(* The events that count.                                                     *)

ArtifactOf(v) == v[1]
RevisionOf(v) == v[2]

(* Every stage moves the canon.                                               *)
MovesCanon_Always(rows, v) == rows[v].stage \in Stage

(* changes_authority.                                                         *)
MovesCanon(rows, v) == rows[v].stage = "final"

Retracted(rows) == {v \in Version : rows[v].status = "retracted"}

(* The links of a retracted proposal stay in force.                           *)
Deactivated_KeepsRetracted(gone, c, dead) ==
  LET soFar == dead \cup c.links
  IN IF c.of \in soFar THEN soFar ELSE soFar \cup c.explicit

(* What one commit adds to the inactive events found so far, when commits are *)
(* visited newest first: a retraction always counts; the links of an accept   *)
(* count while its proposal is not retracted, and the explicit one while its  *)
(* own event is not inactive.                                                 *)
Deactivated(gone, c, dead) ==
  LET soFar == dead \cup c.links
  IN IF c.operation = "accept" /\ c.of \in gone THEN dead
     ELSE IF c.of \in soFar THEN soFar
     ELSE soFar \cup c.explicit

(* What one commit adds to its own plane.                                     *)
Visit(gone, plane, c, dead) ==
  IF c.authority = plane THEN Deactivated(gone, c, dead) ELSE dead

(* The links are visited oldest first.                                        *)
Visited_OldestFirst(log, gone, plane) ==
  LET dead[k \in 0..Len(log)] ==
        IF k = 0 THEN {} ELSE Visit(gone, plane, log[k], dead[k - 1])
  IN dead

(* The inactive events once the k newest commits are visited.                 *)
Visited(log, gone, plane) ==
  LET dead[k \in 0..Len(log)] ==
        IF k = 0 THEN {} ELSE Visit(gone, plane, log[Len(log) + 1 - k], dead[k - 1])
  IN dead

(* _inactive_event_sets, for the authority plane or the provisional one.      *)
Inactive(log, gone, plane) == Visited(log, gone, plane)[Len(log)]

(* The events in the ledger of one plane.                                     *)
Recorded(log, plane) ==
  {log[i].of : i \in {k \in DOMAIN log : /\ log[k].operation = "accept"
                                         /\ log[k].authority = plane}}

Live(log, gone, plane) == Recorded(log, plane) \ Inactive(log, gone, plane)

(* Only the revision right below v.                                           *)
OlderThan_Previous(log, v, plane) ==
  {u \in Recorded(log, plane) :
     ArtifactOf(u) = ArtifactOf(v) /\ RevisionOf(u) + 1 = RevisionOf(v)}

(* The events of older revisions of the artifact, whatever became of them.    *)
OlderThan(log, v, plane) ==
  {u \in Recorded(log, plane) :
     ArtifactOf(u) = ArtifactOf(v) /\ RevisionOf(u) < RevisionOf(v)}

(* The automatic links are chosen before the explicit one is in.              *)
Superseded_First(log, gone, c) ==
  OlderThan(log, c.of, c.authority) \ Inactive(log, gone, c.authority)

(* _insert_automatic_supersession: every older event that counts once the     *)
(* explicit link of commit c is in.                                           *)
Superseded(log, gone, c) ==
  OlderThan(log, c.of, c.authority) \ Inactive(Append(log, c), gone, c.authority)

-----------------------------------------------------------------------------
(* The ledger checks a replay starts with.                                    *)

Prefix(log, n) == SubSeq(log, 1, n)
RetractedBy(log) ==
  {log[i].of : i \in {k \in DOMAIN log : log[k].operation = "retract"}}
ActiveBefore(log, i) == IF i = 1 THEN 0 ELSE log[i - 1].after

(* Revisions form one chain that ends in the stored active revision.          *)
ChainHolds(log, active) ==
  /\ \A i \in DOMAIN log :
       /\ log[i].before = ActiveBefore(log, i)
       /\ log[i].after = IF log[i].authority THEN i ELSE log[i].before
  /\ active = ActiveBefore(log, Len(log) + 1)

(* The commits of a proposal: at most one accept, then at most one retract,   *)
(* and its status is the one they give it.                                    *)
StatusHolds(rows, log) ==
  /\ \A i, k \in DOMAIN log :
       (log[i].of = log[k].of /\ log[i].operation = log[k].operation) => i = k
  /\ \A i \in DOMAIN log :
       IF log[i].operation = "accept" THEN rows[log[i].of].status \in {"accepted", "retracted"}
       ELSE /\ rows[log[i].of].status = "retracted"
            /\ \E k \in DOMAIN log : /\ k < i
                                     /\ log[k].operation = "accept"
                                     /\ log[k].of = log[i].of
  /\ \A v \in Version :
       /\ rows[v].status = "accepted" =>
            \E i \in DOMAIN log : log[i].of = v /\ log[i].operation = "accept"
       /\ rows[v].status = "retracted" =>
            \E i \in DOMAIN log : log[i].of = v /\ log[i].operation = "retract"

(* The automatic links an accept must have, from the history before it alone: *)
(* what the validator simulates.                                              *)
ExpectedLinks(past, c) ==
  OlderThan(past, c.of, c.authority) \
    Inactive(Append(past, [c EXCEPT !.links = {}]), RetractedBy(past), c.authority)

(* The explicit link of a delta, which accept copies to the links.            *)
Explicit(rows, v) == {rows[v].fixes} \ {None}

(* Links point backward within one plane, the explicit one is the delta's,    *)
(* and the automatic ones are those the history up to the commit called for.  *)
LinkHolds(rows, past, c) ==
  /\ c.authority = MovesCanon(rows, c.of)
  /\ c.operation = "retract" => c.links = {c.of} /\ c.explicit = {}
  /\ c.operation = "accept" =>
       /\ c.explicit = Explicit(rows, c.of)
       /\ c.explicit \subseteq Recorded(past, c.authority)
       /\ c.links = ExpectedLinks(past, c)

LinksHold(rows, log) ==
  \A i \in DOMAIN log : LinkHolds(rows, Prefix(log, i - 1), log[i])

(* _validate_accepted_ledger_integrity.                                       *)
Replayable(rows, log, active) ==
  /\ ChainHolds(log, active)
  /\ StatusHolds(rows, log)
  /\ LinksHold(rows, log)

-----------------------------------------------------------------------------
(* Proposing and rejecting.                                                   *)

Existing(a) == {r \in 1..MaxRevision : proposal[<<a, r>>].status # "absent"}

(* The revision the caller names if it is unused, or one above the highest.   *)
NextRevision(a) ==
  IF FreeRevision THEN (1..MaxRevision) \ Existing(a)
  ELSE {r \in 1..MaxRevision : Existing(a) = 1..(r - 1)}

(* Events an explicit link can name when the delta is written.                *)
Linkable ==
  {None} \cup IF ExplicitLinks THEN Recorded(ledger, TRUE) \cup Recorded(ledger, FALSE)
              ELSE {}

(* save_proposal with new content; issues quarantine the proposal. The        *)
(* revision it was prepared against is the one the caller names, unchecked: a *)
(* receipt's, which may be out of date by now; or the active one when the     *)
(* caller names none.                                                         *)
Save(a) ==
  /\ \E r \in NextRevision(a), stage \in Stage, prepared \in Named \cup {canon},
        valid \in BOOLEAN, fix \in Linkable :
       proposal' = [proposal EXCEPT ![<<a, r>>] =
                      [status |-> "proposed", stage |-> stage, prepared |-> prepared,
                       valid |-> valid, fixes |-> fix, active |-> FALSE]]
  /\ UNCHANGED <<grant, ledger, canon>>

(* reject_proposal: an undecided proposal only.                               *)
Reject(v) ==
  /\ proposal[v].status = "proposed"
  /\ proposal' = [proposal EXCEPT ![v].status = "rejected"]
  /\ UNCHANGED <<grant, ledger, canon>>

-----------------------------------------------------------------------------
(* Grants.                                                                    *)

Open == {g \in Grant : grant[g].status = "issued"}

(* What issue demands of the proposal for each operation.                     *)
Grantable(v, op) ==
  IF op = "accept" THEN /\ proposal[v].status = "proposed"
                        /\ proposal[v].prepared = canon
  ELSE proposal[v].status = "accepted"

(* issue: a single-use token bound to one proposal and the current canon.     *)
Issue(g, v, op) ==
  /\ grant[g].status = "unused"
  /\ Cardinality(Open) < MaxOpen
  /\ Grantable(v, op)
  /\ grant' = [grant EXCEPT ![g] = [status |-> "issued", operation |-> op,
                                    for |-> v, expected |-> canon]]
  /\ UNCHANGED <<proposal, ledger, canon>>

(* The clock passes expires_at.                                               *)
Expire(g) ==
  /\ grant[g].status = "issued"
  /\ grant' = [grant EXCEPT ![g].status = "expired"]
  /\ UNCHANGED <<proposal, ledger, canon>>

(* The grant's revision is not compared with the canon again.                 *)
Usable_AnyRevision(g, op) ==
  grant[g].status = "issued" /\ grant[g].operation = op

(* The checks of _consume_lifecycle_grant on the grant. A consumed grant with *)
(* the same request returns its commit and writes nothing.                    *)
Usable(g, op) ==
  /\ grant[g].status = "issued"
  /\ grant[g].operation = op
  /\ grant[g].expected = canon

Consume(g) == grant' = [grant EXCEPT ![g].status = "consumed"]

-----------------------------------------------------------------------------
(* Accepting and retracting.                                                  *)

NewCommit(g, op) ==
  LET authority == MovesCanon(proposal, grant[g].for)
  IN [operation |-> op, of |-> grant[g].for, grant |-> g, authority |-> authority,
      before |-> canon, after |-> IF authority THEN Len(ledger) + 1 ELSE canon,
      explicit |-> {}, links |-> {}]

(* _validate_event_links: an explicit link names an event of the same plane.  *)
LinkAllowed(v) ==
  Explicit(proposal, v) \subseteq Recorded(ledger, MovesCanon(proposal, v))

Acceptable(g) ==
  LET v == grant[g].for IN
    /\ Usable(g, "accept")
    /\ proposal[v].status = "proposed"
    /\ proposal[v].valid
    /\ LinkAllowed(v)

(* The commit of an accept: first its explicit link, then the automatic ones. *)
AcceptCommit(g) ==
  LET c == [NewCommit(g, "accept") EXCEPT !.explicit = Explicit(proposal, grant[g].for)]
  IN [c EXCEPT !.links = Superseded(ledger, Retracted(proposal), c)]

(* Lower revisions of the artifact lose active, this one gets it.             *)
AfterAccept(v) ==
  [u \in Version |->
     IF u = v THEN [proposal[v] EXCEPT !.status = "accepted", !.active = TRUE]
     ELSE IF ArtifactOf(u) = ArtifactOf(v) /\ RevisionOf(u) < RevisionOf(v)
     THEN [proposal[u] EXCEPT !.active = FALSE]
     ELSE proposal[u]]

Accept(g) ==
  LET v == grant[g].for
      c == AcceptCommit(g)
  IN /\ Len(ledger) < MaxHead
     /\ Acceptable(g)
     /\ proposal' = AfterAccept(v)
     /\ ledger' = Append(ledger, c)
     /\ canon' = c.after
     /\ Consume(g)
     /\ Replayable(proposal', ledger', canon')

(* A retraction belongs to the plane of its accept and links to its event.    *)
RetractCommit(g) == [NewCommit(g, "retract") EXCEPT !.links = {grant[g].for}]

(* The highest lower revision that is still accepted, if there is one.        *)
Prior(v) ==
  {u \in Version :
     /\ ArtifactOf(u) = ArtifactOf(v) /\ RevisionOf(u) < RevisionOf(v)
     /\ proposal[u].status = "accepted"
     /\ \A w \in Version :
          (/\ ArtifactOf(w) = ArtifactOf(v) /\ RevisionOf(w) < RevisionOf(v)
           /\ proposal[w].status = "accepted") => RevisionOf(w) <= RevisionOf(u)}

(* The prior revision gets active back, whatever is above the retracted one.  *)
AfterRetract(v) ==
  [u \in Version |->
     IF u = v THEN [proposal[v] EXCEPT !.status = "retracted", !.active = FALSE]
     ELSE IF u \in Prior(v) THEN [proposal[u] EXCEPT !.active = TRUE]
     ELSE proposal[u]]

Retractable(g) ==
  Usable(g, "retract") /\ proposal[grant[g].for].status = "accepted"

Retract(g) ==
  LET v == grant[g].for
      c == RetractCommit(g)
  IN /\ Len(ledger) < MaxHead
     /\ Retractable(g)
     /\ proposal' = AfterRetract(v)
     /\ ledger' = Append(ledger, c)
     /\ canon' = c.after
     /\ Consume(g)
     /\ Replayable(proposal', ledger', canon')

Next ==
  \/ \E a \in Artifact : Save(a)
  \/ \E v \in Version : Reject(v)
  \/ \E g \in Grant, v \in Version, op \in Operation : Issue(g, v, op)
  \/ \E g \in Grant : Expire(g) \/ Accept(g) \/ Retract(g)

Spec == Init /\ [][Next]_vars

-----------------------------------------------------------------------------
(* Properties.                                                                *)

(* No replay refuses what the operation itself let through: an accept or a    *)
(* retract that passes its own checks is never rolled back by the ledger      *)
(* integrity check of the replay that ends it, which would wedge the project. *)
ReplayNeverRefuses ==
  \A g \in Grant :
    /\ Acceptable(g) =>
         LET c == AcceptCommit(g)
         IN Replayable(AfterAccept(grant[g].for), Append(ledger, c), c.after)
    /\ Retractable(g) =>
         LET c == RetractCommit(g)
         IN Replayable(AfterRetract(grant[g].for), Append(ledger, c), c.after)

(* The links in force, seen without any order of visit: those of a commit     *)
(* whose proposal is not retracted, the explicit one if its own event counts. *)
Pointed(plane, dead) ==
  UNION {LET c == ledger[i] IN
           IF c.operation = "retract" THEN c.links
           ELSE IF proposal[c.of].status = "retracted" THEN {}
           ELSE c.links \cup (IF c.of \in dead THEN {} ELSE c.explicit)
         : i \in {k \in DOMAIN ledger : ledger[k].authority = plane}}

(* The newest-first visit finds exactly the events that links in force point  *)
(* at: no dead event supersedes another, no live one is left out, and a       *)
(* retracted event never counts.                                              *)
ReplayDeactivatesExactly ==
  \A plane \in BOOLEAN :
    LET dead == Inactive(ledger, Retracted(proposal), plane)
    IN /\ dead = Pointed(plane, dead)
       /\ Retracted(proposal) \cap Recorded(ledger, plane) \subseteq dead

(* Retracting what was accepted last restores what counted before it, in both *)
(* planes: the events an accept deactivates come back, and no others.         *)
RetractUndoesAccept ==
  LET n == Len(ledger) IN
    (/\ n >= 2
     /\ ledger[n].operation = "retract" /\ ledger[n - 1].operation = "accept"
     /\ ledger[n].of = ledger[n - 1].of)
    => LET past == Prefix(ledger, n - 2)
       IN \A plane \in BOOLEAN :
            Live(ledger, Retracted(proposal), plane)
              = Live(past, RetractedBy(past), plane)

(* Nothing that was decided is overlooked: every accept is committed on the   *)
(* very revision its delta names as the one it was prepared against, so no    *)
(* authority commit came between that revision and the accept.                *)
NoLostDecision ==
  \A i \in DOMAIN ledger :
    ledger[i].operation = "accept" =>
      proposal[ledger[i].of].prepared = ActiveBefore(ledger, i)

(* A grant is good for one commit: of its proposal, its operation, and on the *)
(* revision the reviewer saw.                                                 *)
OneCommitPerGrant ==
  /\ \A i, k \in DOMAIN ledger : ledger[i].grant = ledger[k].grant => i = k
  /\ \A i \in DOMAIN ledger :
       LET g == grant[ledger[i].grant] IN
         /\ g.status = "consumed"
         /\ g.for = ledger[i].of /\ g.operation = ledger[i].operation
         /\ g.expected = ledger[i].before

(* The events that count, in either plane, of the proposals of one stage.     *)
Counting(stage) ==
  {v \in Live(ledger, Retracted(proposal), TRUE)
           \cup Live(ledger, Retracted(proposal), FALSE) :
     proposal[v].stage = stage}

Committed == Len(ledger') > Len(ledger)
Latest == ledger[Len(ledger)]
StageOf(c) == proposal[c.of].stage

(* Drafts stay apart: to accept or retract one changes neither the canon nor  *)
(* the final events that count, and a final one never touches the drafts.     *)
PlanesApart ==
  [][Committed =>
       /\ \A stage \in Stage : stage # StageOf(Latest)' => Counting(stage)' = Counting(stage)
       /\ StageOf(Latest)' = "draft" => canon' = canon]_vars

(* An accept leaves no older revision of its artifact counting that counted   *)
(* when it was made, however that one had come back. One that corrects a      *)
(* correction is left out: what that one corrected counts again, so what the  *)
(* accept finds counting once its explicit link is in is not what counts when *)
(* it is done.                                                                *)
AcceptReplacesCounted ==
  [][(/\ Committed /\ Latest'.operation = "accept"
      /\ \A w \in Latest'.explicit : proposal[w].fixes = None) =>
       \A stage \in Stage, u \in Version :
         (/\ stage = StageOf(Latest)' /\ u \in Counting(stage) \cap Counting(stage)'
          /\ ArtifactOf(u) = ArtifactOf(Latest'.of))
         => RevisionOf(u) >= RevisionOf(Latest'.of)]_vars

(* More than that: when a revision is accepted no older one of its artifact   *)
(* counts any more in its plane (comment at service.py:5499: "then link every *)
(* older *currently active* event").                                          *)
AcceptSupersedesOlder ==
  [][(Committed /\ Latest'.operation = "accept") =>
       \A u \in Counting(StageOf(Latest))' :
         ArtifactOf(u) = ArtifactOf(Latest'.of) => RevisionOf(u) >= RevisionOf(Latest'.of)]_vars

(* The rows of proposals and the events that count, as a reader sees them.    *)
Deltas ==
  [v \in Version |->
     [status |-> proposal[v].status, stage |-> proposal[v].stage,
      prepared |-> proposal[v].prepared, fixes |-> proposal[v].fixes]]

Counts ==
  [stage \in {"final", "draft"} |-> Live(ledger, Retracted(proposal), stage = "final")]

Promise == INSTANCE CanonOutcome WITH delta <- Deltas, counts <- Counts

(* The transactions, with the replays that end them, implement what a reader  *)
(* of the canon is promised.                                                  *)
CanonRefinement == Promise!Spec
=============================================================================
