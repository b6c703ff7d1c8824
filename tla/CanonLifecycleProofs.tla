------------------------ MODULE CanonLifecycleProofs ------------------------
(* Proofs about the canon lifecycle, for any number of artifacts, revisions,  *)
(* grants and commits. That the validator and the accept agree on the links   *)
(* (AcceptReplays) needs only that both visit the same history; what the      *)
(* visit computes is shown by induction over the visited commits (UpTo).      *)
EXTENDS CanonLifecycle, WellFoundedInduction, TLAPS

(* An issued grant stays bound to a written delta, an accept grant to one     *)
(* prepared against the revision it expects.                                  *)
GrantsBind ==
  \A g \in Grant :
    grant[g].status # "unused" =>
      /\ grant[g].for \in Version
      /\ proposal[grant[g].for].status # "absent"
      /\ grant[g].operation = "accept" =>
           proposal[grant[g].for].prepared = grant[g].expected

IInv ==
  /\ TypeOK
  /\ Replayable(proposal, ledger, canon)
  /\ GrantsBind
  /\ NoLostDecision
  /\ OneCommitPerGrant

-----------------------------------------------------------------------------
(* Facts about the operators.                                                 *)

LEMMA AppendFacts ==
  ASSUME NEW S, NEW log \in Seq(S), NEW c \in S
  PROVE  /\ Append(log, c) \in Seq(S)
         /\ Len(Append(log, c)) = Len(log) + 1
         /\ DOMAIN Append(log, c) = 1..(Len(log) + 1)
         /\ DOMAIN log = 1..Len(log)
         /\ Len(log) \in Nat
         /\ Append(log, c)[Len(log) + 1] = c
         /\ \A i \in DOMAIN log : Append(log, c)[i] = log[i] /\ log[i] \in S
  OBVIOUS

(* Appending a commit leaves every earlier prefix, and the whole as the last. *)
LEMMA PrefixOfAppend ==
  ASSUME NEW S, NEW log \in Seq(S), NEW c \in S
  PROVE  /\ \A i \in 0..Len(log) : Prefix(Append(log, c), i) = Prefix(log, i)
         /\ Prefix(Append(log, c), Len(log)) = log
<1>1. /\ Append(log, c) \in Seq(S)
      /\ Len(Append(log, c)) = Len(log) + 1
      /\ Len(log) \in Nat
      /\ \A i \in 1..Len(log) : Append(log, c)[i] = log[i]
  BY AppendFacts
<1>2. ASSUME NEW i \in 0..Len(log)
      PROVE  Prefix(Append(log, c), i) = Prefix(log, i)
  <2>1. /\ Prefix(Append(log, c), i) = [k \in 1..i |-> Append(log, c)[k]]
        /\ Prefix(log, i) = [k \in 1..i |-> log[k]]
    BY <1>1, <1>2 DEF Prefix
  <2> QED BY <1>1, <1>2, <2>1
<1>3. Prefix(log, Len(log)) = log
  <2>1. Prefix(log, Len(log)) = [k \in 1..Len(log) |-> log[k]]
    BY <1>1 DEF Prefix
  <2> QED BY <2>1
<1> QED BY <1>1, <1>2, <1>3

LEMMA RecordedType ==
  ASSUME NEW log \in Seq(Commit), NEW plane
  PROVE  Recorded(log, plane) \subseteq Version
<1>1. \A i \in DOMAIN log : log[i] \in Commit
  OBVIOUS
<1> QED BY <1>1 DEF Recorded, Commit

(* In a replayable ledger the statuses and the history agree on what is gone. *)
LEMMA RetractedAgrees ==
  ASSUME NEW rows, NEW log \in Seq(Commit), StatusHolds(rows, log)
  PROVE  Retracted(rows) = RetractedBy(log)
<1>1. \A i \in DOMAIN log : log[i] \in Commit
  OBVIOUS
<1>2. \A i \in DOMAIN log : log[i].of \in Version /\ log[i].operation \in Operation
  BY <1>1 DEF Commit
<1> QED BY <1>2 DEF Retracted, RetractedBy, StatusHolds, Operation

(* Links depend on the stage and the explicit link of committed deltas only.  *)
LEMMA LinksStable ==
  ASSUME NEW old, NEW new, NEW log \in Seq(Commit),
         LinksHold(old, log),
         \A i \in DOMAIN log : /\ new[log[i].of].stage = old[log[i].of].stage
                               /\ new[log[i].of].fixes = old[log[i].of].fixes
  PROVE  LinksHold(new, log)
BY DEF LinksHold, LinkHolds, MovesCanon, Explicit

(* Statuses agree with the ledger as long as decided ones do not change.      *)
LEMMA StatusStable ==
  ASSUME NEW old, NEW new, NEW log,
         StatusHolds(old, log),
         \A i \in DOMAIN log : log[i].of \in Version,
         \A v \in Version :
           \/ new[v].status = old[v].status
           \/ {new[v].status, old[v].status} \cap {"accepted", "retracted"} = {}
  PROVE  StatusHolds(new, log)
<1>1. \A v \in Version, s \in {"accepted", "retracted"} :
        new[v].status = s <=> old[v].status = s
  OBVIOUS
<1> QED BY <1>1 DEF StatusHolds

(* A delta with a commit is decided.                                          *)
LEMMA CommittedDecided ==
  ASSUME NEW rows, NEW log \in Seq(Commit), StatusHolds(rows, log), NEW i \in DOMAIN log
  PROVE  rows[log[i].of].status \in {"accepted", "retracted"}
BY DEF StatusHolds

-----------------------------------------------------------------------------
(* What an operation appends.                                                 *)

(* The commit of an accept and the one of a retract are well-formed.          *)
LEMMA CommitTypes ==
  ASSUME TypeOK, NEW g \in Grant, grant[g].for \in Version
  PROVE  /\ AcceptCommit(g) \in Commit
         /\ RetractCommit(g) \in Commit
<1> DEFINE v == grant[g].for
<1>1. proposal[v] \in ProposalRow /\ canon \in Nat /\ Len(ledger) \in Nat
  BY DEF TypeOK
<1>2. MovesCanon(proposal, v) \in BOOLEAN
  BY DEF MovesCanon
<1>3. Explicit(proposal, v) \subseteq Version
  BY <1>1 DEF Explicit, ProposalRow
<1>4. \A op \in Operation : NewCommit(g, op) \in Commit
  BY <1>1, <1>2 DEF NewCommit, Commit
<1>5. "accept" \in Operation /\ "retract" \in Operation
  BY DEF Operation
<1>6. ASSUME NEW c \in Commit
      PROVE  Superseded(ledger, Retracted(proposal), c) \subseteq Version
  BY RecordedType DEF Superseded, OlderThan, TypeOK
<1>7. ASSUME NEW c \in Commit, NEW L \in SUBSET Version
      PROVE  /\ [c EXCEPT !.links = L] \in Commit
             /\ [c EXCEPT !.explicit = L] \in Commit
  BY DEF Commit
<1>8. [NewCommit(g, "accept") EXCEPT !.explicit = Explicit(proposal, v)] \in Commit
  BY <1>3, <1>4, <1>5, <1>7
<1>9. AcceptCommit(g) \in Commit
  BY <1>6, <1>7, <1>8 DEF AcceptCommit
<1>10. RetractCommit(g) \in Commit
  BY <1>4, <1>5, <1>7 DEF RetractCommit
<1> QED BY <1>9, <1>10

(* The fields of the two commits, spelled out.                                *)
LEMMA CommitFields ==
  ASSUME TypeOK, NEW g \in Grant, grant[g].for \in Version
  PROVE  LET a == AcceptCommit(g)
             r == RetractCommit(g)
             v == grant[g].for
         IN /\ a.operation = "accept" /\ a.of = v /\ a.grant = g /\ a.before = canon
            /\ a.authority = MovesCanon(proposal, v)
            /\ a.after = IF a.authority THEN Len(ledger) + 1 ELSE canon
            /\ a.explicit = Explicit(proposal, v)
            /\ a.links = Superseded(ledger, Retracted(proposal), [a EXCEPT !.links = {}])
            /\ r.operation = "retract" /\ r.of = v /\ r.grant = g /\ r.before = canon
            /\ r.authority = MovesCanon(proposal, v)
            /\ r.after = IF r.authority THEN Len(ledger) + 1 ELSE canon
            /\ r.explicit = {} /\ r.links = {v}
<1> DEFINE c == [NewCommit(g, "accept") EXCEPT !.explicit = Explicit(proposal, grant[g].for)]
<1>1. [AcceptCommit(g) EXCEPT !.links = {}] = c
  <2>1. NewCommit(g, "accept").links = {}
    BY DEF NewCommit
  <2>2. c = [NewCommit(g, "accept") EXCEPT !.links = {},
                                           !.explicit = Explicit(proposal, grant[g].for)]
    BY <2>1 DEF NewCommit
  <2>3. AcceptCommit(g) = [c EXCEPT !.links = Superseded(ledger, Retracted(proposal), c)]
    BY DEF AcceptCommit
  <2> HIDE DEF c
  <2>4. ASSUME NEW L
        PROVE  [[c EXCEPT !.links = L] EXCEPT !.links = {}] = [c EXCEPT !.links = {}]
    OBVIOUS
  <2>5. [c EXCEPT !.links = {}] = c
    BY <2>2 DEF NewCommit
  <2> QED BY <2>3, <2>4, <2>5
<1>2. AcceptCommit(g).links = Superseded(ledger, Retracted(proposal), c)
  BY DEF AcceptCommit, NewCommit
<1>3. /\ AcceptCommit(g).operation = "accept" /\ AcceptCommit(g).of = grant[g].for
      /\ AcceptCommit(g).grant = g /\ AcceptCommit(g).before = canon
      /\ AcceptCommit(g).authority = MovesCanon(proposal, grant[g].for)
      /\ AcceptCommit(g).explicit = Explicit(proposal, grant[g].for)
      /\ AcceptCommit(g).after = IF MovesCanon(proposal, grant[g].for)
                                 THEN Len(ledger) + 1 ELSE canon
  BY DEF AcceptCommit, NewCommit
<1>4. /\ RetractCommit(g).operation = "retract" /\ RetractCommit(g).of = grant[g].for
      /\ RetractCommit(g).grant = g /\ RetractCommit(g).before = canon
      /\ RetractCommit(g).authority = MovesCanon(proposal, grant[g].for)
      /\ RetractCommit(g).explicit = {} /\ RetractCommit(g).links = {grant[g].for}
      /\ RetractCommit(g).after = IF MovesCanon(proposal, grant[g].for)
                                  THEN Len(ledger) + 1 ELSE canon
  BY DEF RetractCommit, NewCommit
<1> QED BY <1>1, <1>2, <1>3, <1>4 DEF MovesCanon

(* A commit that starts at the active revision continues the chain.           *)
LEMMA ChainGrows ==
  ASSUME NEW log \in Seq(Commit), NEW active \in Nat, ChainHolds(log, active),
         NEW c \in Commit, c.before = active,
         c.after = IF c.authority THEN Len(log) + 1 ELSE active
  PROVE  ChainHolds(Append(log, c), c.after)
<1> DEFINE new == Append(log, c)
<1>1. /\ Len(new) = Len(log) + 1 /\ DOMAIN new = 1..(Len(log) + 1)
      /\ DOMAIN log = 1..Len(log) /\ Len(log) \in Nat
      /\ new[Len(log) + 1] = c /\ \A i \in DOMAIN log : new[i] = log[i]
  BY AppendFacts
<1>2. \A i \in 1..(Len(log) + 1) : ActiveBefore(new, i) = ActiveBefore(log, i)
  BY <1>1 DEF ActiveBefore
<1>3. ActiveBefore(new, Len(log) + 2) = c.after
  BY <1>1 DEF ActiveBefore
<1>4. ActiveBefore(log, Len(log) + 1) = active
  BY DEF ChainHolds
<1>5. ASSUME NEW i \in DOMAIN new
      PROVE  /\ new[i].before = ActiveBefore(new, i)
             /\ new[i].after = IF new[i].authority THEN i ELSE new[i].before
  <2>1. CASE i \in DOMAIN log
    BY <2>1, <1>1, <1>2 DEF ChainHolds
  <2>2. CASE i = Len(log) + 1
    BY <2>2, <1>1, <1>2, <1>4
  <2> QED BY <2>1, <2>2, <1>1
<1>6. Len(new) + 1 = Len(log) + 2
  BY <1>1
<1> QED BY <1>3, <1>5, <1>6 DEF ChainHolds

(* A commit whose links hold extends a ledger whose links hold, when stages   *)
(* and explicit links stay.                                                   *)
LEMMA LinksGrow ==
  ASSUME NEW old, NEW new, NEW log \in Seq(Commit), NEW c \in Commit,
         LinksHold(old, log),
         \A v \in Version : /\ new[v].stage = old[v].stage
                            /\ new[v].fixes = old[v].fixes,
         LinkHolds(new, log, c)
  PROVE  LinksHold(new, Append(log, c))
<1>1. /\ DOMAIN Append(log, c) = 1..(Len(log) + 1)
      /\ DOMAIN log = 1..Len(log) /\ Len(log) \in Nat
      /\ Append(log, c)[Len(log) + 1] = c
      /\ \A i \in DOMAIN log : Append(log, c)[i] = log[i] /\ log[i] \in Commit
  BY AppendFacts
<1>2. LinksHold(new, log)
  <2>1. \A i \in DOMAIN log : log[i].of \in Version
    BY <1>1 DEF Commit
  <2> QED BY <2>1, LinksStable
<1>3. ASSUME NEW i \in DOMAIN Append(log, c)
      PROVE  LinkHolds(new, Prefix(Append(log, c), i - 1), Append(log, c)[i])
  <2>1. CASE i \in DOMAIN log
    <3>1. i - 1 \in 0..Len(log)
      BY <2>1, <1>1
    <3>2. Prefix(Append(log, c), i - 1) = Prefix(log, i - 1)
      BY <3>1, PrefixOfAppend
    <3> QED BY <2>1, <1>1, <1>2, <3>2 DEF LinksHold
  <2>2. CASE i = Len(log) + 1
    <3>1. i - 1 = Len(log)
      BY <2>2, <1>1
    <3>2. Prefix(Append(log, c), i - 1) = log
      BY <3>1, PrefixOfAppend
    <3> QED BY <2>2, <1>1, <3>2
  <2> QED BY <2>1, <2>2, <1>1
<1> QED BY <1>3 DEF LinksHold

-----------------------------------------------------------------------------
(* The replay at the end of an accept or a retract finds nothing to refuse.   *)

(* What an accept and a retract leave alone in every proposal.                *)
LEMMA RowsAfter ==
  ASSUME TypeOK, NEW v \in Version
  PROVE  /\ AfterAccept(v) \in [Version -> ProposalRow]
         /\ AfterRetract(v) \in [Version -> ProposalRow]
         /\ \A u \in Version :
              /\ AfterAccept(v)[u].stage = proposal[u].stage
              /\ AfterAccept(v)[u].fixes = proposal[u].fixes
              /\ AfterAccept(v)[u].prepared = proposal[u].prepared
              /\ AfterAccept(v)[u].status = IF u = v THEN "accepted" ELSE proposal[u].status
              /\ AfterRetract(v)[u].stage = proposal[u].stage
              /\ AfterRetract(v)[u].fixes = proposal[u].fixes
              /\ AfterRetract(v)[u].prepared = proposal[u].prepared
              /\ AfterRetract(v)[u].status = IF u = v THEN "retracted" ELSE proposal[u].status
<1>1. \A u \in Version : proposal[u] \in ProposalRow
  BY DEF TypeOK
<1>2. ASSUME NEW u \in Version
      PROVE  /\ AfterAccept(v)[u] \in ProposalRow
             /\ AfterAccept(v)[u].stage = proposal[u].stage
             /\ AfterAccept(v)[u].fixes = proposal[u].fixes
             /\ AfterAccept(v)[u].prepared = proposal[u].prepared
             /\ AfterAccept(v)[u].status = IF u = v THEN "accepted" ELSE proposal[u].status
  BY <1>1 DEF AfterAccept, ProposalRow
<1>3. ASSUME NEW u \in Version
      PROVE  /\ AfterRetract(v)[u] \in ProposalRow
             /\ AfterRetract(v)[u].stage = proposal[u].stage
             /\ AfterRetract(v)[u].fixes = proposal[u].fixes
             /\ AfterRetract(v)[u].prepared = proposal[u].prepared
             /\ AfterRetract(v)[u].status = IF u = v THEN "retracted" ELSE proposal[u].status
  BY <1>1 DEF AfterRetract, ProposalRow
<1>4. /\ AfterAccept(v) \in [Version -> ProposalRow]
      /\ AfterRetract(v) \in [Version -> ProposalRow]
  BY <1>2, <1>3 DEF AfterAccept, AfterRetract
<1> QED BY <1>2, <1>3, <1>4

LEMMA AcceptReplays ==
  ASSUME IInv, NEW g \in Grant, Acceptable(g)
  PROVE  Replayable(AfterAccept(grant[g].for), Append(ledger, AcceptCommit(g)),
                    AcceptCommit(g).after)
<1> DEFINE v == grant[g].for
           c == AcceptCommit(g)
           rows == AfterAccept(v)
           log == Append(ledger, c)
<1>1. TypeOK /\ v \in Version /\ ledger \in Seq(Commit) /\ canon \in Nat
  BY DEF IInv, GrantsBind, Acceptable, Usable, TypeOK
<1>2. c \in Commit
  BY <1>1, CommitTypes
<1>3. /\ c.operation = "accept" /\ c.of = v /\ c.before = canon
      /\ c.authority = MovesCanon(proposal, v)
      /\ c.after = IF c.authority THEN Len(ledger) + 1 ELSE canon
      /\ c.explicit = Explicit(proposal, v)
      /\ c.links = Superseded(ledger, Retracted(proposal), [c EXCEPT !.links = {}])
  BY <1>1, CommitFields
<1>4. \A u \in Version : /\ rows[u].stage = proposal[u].stage
                         /\ rows[u].fixes = proposal[u].fixes
                         /\ rows[u].status = IF u = v THEN "accepted" ELSE proposal[u].status
  BY <1>1, RowsAfter
<1>5. /\ ChainHolds(ledger, canon) /\ StatusHolds(proposal, ledger)
      /\ LinksHold(proposal, ledger)
  BY DEF IInv, Replayable
<1>6. proposal[v].status = "proposed"
  BY DEF Acceptable
<1>7. /\ DOMAIN log = 1..(Len(ledger) + 1) /\ DOMAIN ledger = 1..Len(ledger)
      /\ Len(ledger) \in Nat /\ log[Len(ledger) + 1] = c
      /\ \A i \in DOMAIN ledger : log[i] = ledger[i] /\ ledger[i] \in Commit
  BY <1>1, <1>2, AppendFacts
<1> HIDE DEF c, rows, log
<1>8. ChainHolds(log, c.after)
  BY <1>1, <1>2, <1>3, <1>5, ChainGrows DEF log
<1>9. \A i \in DOMAIN ledger : /\ ledger[i].of \in Version /\ ledger[i].of # v
                               /\ ledger[i].operation \in Operation
  <2>1. \A i \in DOMAIN ledger : ledger[i].of # v
    BY <1>1, <1>5, <1>6, CommittedDecided
  <2> QED BY <2>1, <1>7 DEF Commit
<1>10. StatusHolds(rows, log)
  <2>1. ASSUME NEW i \in DOMAIN log, NEW k \in DOMAIN log,
               log[i].of = log[k].of, log[i].operation = log[k].operation
        PROVE  i = k
    <3>1. CASE i \in DOMAIN ledger /\ k \in DOMAIN ledger
      BY <2>1, <3>1, <1>5, <1>7 DEF StatusHolds
    <3>2. CASE i = Len(ledger) + 1 \/ k = Len(ledger) + 1
      BY <2>1, <3>2, <1>3, <1>7, <1>9
    <3> QED BY <3>1, <3>2, <1>7
  <2>2. ASSUME NEW i \in DOMAIN log
        PROVE  IF log[i].operation = "accept"
               THEN rows[log[i].of].status \in {"accepted", "retracted"}
               ELSE /\ rows[log[i].of].status = "retracted"
                    /\ \E k \in DOMAIN log : /\ k < i
                                             /\ log[k].operation = "accept"
                                             /\ log[k].of = log[i].of
    <3>1. CASE i \in DOMAIN ledger
      <4>1. log[i] = ledger[i] /\ rows[log[i].of].status = proposal[ledger[i].of].status
        BY <3>1, <1>4, <1>7, <1>9
      <4>2. DOMAIN ledger \subseteq DOMAIN log
        BY <1>7
      <4> QED BY <3>1, <4>1, <4>2, <1>5, <1>7 DEF StatusHolds
    <3>2. CASE i = Len(ledger) + 1
      BY <3>2, <1>1, <1>3, <1>4, <1>7
    <3> QED BY <3>1, <3>2, <1>7
  <2>3. ASSUME NEW u \in Version
        PROVE  /\ rows[u].status = "accepted" =>
                    \E i \in DOMAIN log : log[i].of = u /\ log[i].operation = "accept"
               /\ rows[u].status = "retracted" =>
                    \E i \in DOMAIN log : log[i].of = u /\ log[i].operation = "retract"
    <3>1. CASE u = v
      <4>1. Len(ledger) + 1 \in DOMAIN log
        BY <1>7
      <4> QED BY <3>1, <4>1, <1>3, <1>4, <1>7
    <3>2. CASE u # v
      <4>1. rows[u].status = proposal[u].status
        BY <3>2, <1>4
      <4>2. DOMAIN ledger \subseteq DOMAIN log
        BY <1>7
      <4> QED BY <4>1, <4>2, <1>5, <1>7 DEF StatusHolds
    <3> QED BY <3>1, <3>2
  <2> QED BY <2>1, <2>2, <2>3 DEF StatusHolds
<1>11. LinkHolds(rows, ledger, c)
  <2>1. Retracted(proposal) = RetractedBy(ledger)
    BY <1>1, <1>5, RetractedAgrees
  <2>2. [c EXCEPT !.links = {}].of = c.of /\ [c EXCEPT !.links = {}].authority = c.authority
    BY <1>2 DEF Commit
  <2>3. c.links = ExpectedLinks(ledger, c)
    BY <2>1, <2>2, <1>3 DEF Superseded, ExpectedLinks
  <2>4. c.explicit = Explicit(rows, v) /\ c.authority = MovesCanon(rows, v)
    BY <1>1, <1>3, <1>4 DEF Explicit, MovesCanon
  <2>5. c.explicit \subseteq Recorded(ledger, c.authority)
    BY <1>3 DEF Acceptable, LinkAllowed
  <2> QED BY <2>3, <2>4, <2>5, <1>3 DEF LinkHolds
<1>12. LinksHold(rows, log)
  BY <1>1, <1>2, <1>4, <1>5, <1>11, LinksGrow DEF log
<1> QED BY <1>8, <1>10, <1>12 DEF Replayable, c, rows, log

LEMMA RetractReplays ==
  ASSUME IInv, NEW g \in Grant, Retractable(g)
  PROVE  Replayable(AfterRetract(grant[g].for), Append(ledger, RetractCommit(g)),
                    RetractCommit(g).after)
<1> DEFINE v == grant[g].for
           c == RetractCommit(g)
           rows == AfterRetract(v)
           log == Append(ledger, c)
<1>1. TypeOK /\ v \in Version /\ ledger \in Seq(Commit) /\ canon \in Nat
  BY DEF IInv, GrantsBind, Retractable, Usable, TypeOK
<1>2. c \in Commit
  BY <1>1, CommitTypes
<1>3. /\ c.operation = "retract" /\ c.of = v /\ c.before = canon
      /\ c.authority = MovesCanon(proposal, v)
      /\ c.after = IF c.authority THEN Len(ledger) + 1 ELSE canon
      /\ c.explicit = {} /\ c.links = {v}
  BY <1>1, CommitFields
<1>4. \A u \in Version : /\ rows[u].stage = proposal[u].stage
                         /\ rows[u].fixes = proposal[u].fixes
                         /\ rows[u].status = IF u = v THEN "retracted" ELSE proposal[u].status
  BY <1>1, RowsAfter
<1>5. /\ ChainHolds(ledger, canon) /\ StatusHolds(proposal, ledger)
      /\ LinksHold(proposal, ledger)
  BY DEF IInv, Replayable
<1>6. proposal[v].status = "accepted"
  BY DEF Retractable
<1>7. /\ DOMAIN log = 1..(Len(ledger) + 1) /\ DOMAIN ledger = 1..Len(ledger)
      /\ Len(ledger) \in Nat /\ log[Len(ledger) + 1] = c
      /\ \A i \in DOMAIN ledger : log[i] = ledger[i] /\ ledger[i] \in Commit
  BY <1>1, <1>2, AppendFacts
<1> HIDE DEF c, rows, log
<1>8. ChainHolds(log, c.after)
  BY <1>1, <1>2, <1>3, <1>5, ChainGrows DEF log
<1>9. \A i \in DOMAIN ledger : ledger[i].of \in Version /\ ledger[i].operation \in Operation
  BY <1>7 DEF Commit
<1>10. \A i \in DOMAIN ledger : ledger[i].of = v => ledger[i].operation = "accept"
  BY <1>5, <1>6, <1>9 DEF StatusHolds, Operation
<1>11. PICK a \in DOMAIN ledger : ledger[a].of = v /\ ledger[a].operation = "accept"
  BY <1>1, <1>5, <1>6 DEF StatusHolds
<1>12. StatusHolds(rows, log)
  <2>1. ASSUME NEW i \in DOMAIN log, NEW k \in DOMAIN log,
               log[i].of = log[k].of, log[i].operation = log[k].operation
        PROVE  i = k
    <3>1. CASE i \in DOMAIN ledger /\ k \in DOMAIN ledger
      BY <2>1, <3>1, <1>5, <1>7 DEF StatusHolds
    <3>2. CASE i = Len(ledger) + 1 \/ k = Len(ledger) + 1
      BY <2>1, <3>2, <1>3, <1>7, <1>10
    <3> QED BY <3>1, <3>2, <1>7
  <2>2. ASSUME NEW i \in DOMAIN log
        PROVE  IF log[i].operation = "accept"
               THEN rows[log[i].of].status \in {"accepted", "retracted"}
               ELSE /\ rows[log[i].of].status = "retracted"
                    /\ \E k \in DOMAIN log : /\ k < i
                                             /\ log[k].operation = "accept"
                                             /\ log[k].of = log[i].of
    <3>1. CASE i \in DOMAIN ledger
      <4>1. /\ log[i] = ledger[i]
            /\ \/ rows[log[i].of].status = proposal[ledger[i].of].status
               \/ ledger[i].of = v /\ rows[log[i].of].status = "retracted"
        BY <3>1, <1>4, <1>7, <1>9
      <4>2. DOMAIN ledger \subseteq DOMAIN log
        BY <1>7
      <4> QED BY <3>1, <4>1, <4>2, <1>5, <1>7, <1>10 DEF StatusHolds
    <3>2. CASE i = Len(ledger) + 1
      <4>1. /\ a \in DOMAIN log /\ a < i
            /\ log[a].operation = "accept" /\ log[a].of = log[i].of
        BY <3>2, <1>3, <1>7, <1>11
      <4> QED BY <3>2, <4>1, <1>1, <1>3, <1>4, <1>7
    <3> QED BY <3>1, <3>2, <1>7
  <2>3. ASSUME NEW u \in Version
        PROVE  /\ rows[u].status = "accepted" =>
                    \E i \in DOMAIN log : log[i].of = u /\ log[i].operation = "accept"
               /\ rows[u].status = "retracted" =>
                    \E i \in DOMAIN log : log[i].of = u /\ log[i].operation = "retract"
    <3>1. CASE u = v
      <4>1. Len(ledger) + 1 \in DOMAIN log
        BY <1>7
      <4> QED BY <3>1, <4>1, <1>3, <1>4, <1>7
    <3>2. CASE u # v
      <4>1. rows[u].status = proposal[u].status
        BY <3>2, <1>4
      <4>2. DOMAIN ledger \subseteq DOMAIN log
        BY <1>7
      <4> QED BY <4>1, <4>2, <1>5, <1>7 DEF StatusHolds
    <3> QED BY <3>1, <3>2
  <2> QED BY <2>1, <2>2, <2>3 DEF StatusHolds
<1>13. LinkHolds(rows, ledger, c)
  BY <1>1, <1>3, <1>4 DEF LinkHolds, MovesCanon
<1>14. LinksHold(rows, log)
  BY <1>1, <1>2, <1>4, <1>5, <1>13, LinksGrow DEF log
<1> QED BY <1>8, <1>12, <1>14 DEF Replayable, c, rows, log

-----------------------------------------------------------------------------
(* The invariant is inductive.                                                *)

LEMMA InitIInv ==
  Init => IInv
<1> SUFFICES ASSUME Init PROVE IInv
  OBVIOUS
<1> USE DEF Init
<1>1. ledger = <<>> /\ Len(ledger) = 0 /\ DOMAIN ledger = {}
  OBVIOUS
<1>2. TypeOK
  <2>1. (CHOOSE s \in Stage : TRUE) \in Stage
    BY CanonAssumption
  <2>2. proposal \in [Version -> ProposalRow]
    BY <2>1 DEF ProposalRow
  <2>3. grant \in [Grant -> GrantRow]
    BY DEF GrantRow, Operation
  <2> QED BY <2>2, <2>3, <1>1 DEF TypeOK
<1>3. Replayable(proposal, ledger, canon)
  <2>1. ChainHolds(ledger, canon)
    BY <1>1 DEF ChainHolds, ActiveBefore
  <2>2. StatusHolds(proposal, ledger)
    BY <1>1 DEF StatusHolds
  <2>3. LinksHold(proposal, ledger)
    BY <1>1 DEF LinksHold
  <2> QED BY <2>1, <2>2, <2>3 DEF Replayable
<1>4. GrantsBind
  BY DEF GrantsBind
<1>5. NoLostDecision /\ OneCommitPerGrant
  BY <1>1 DEF NoLostDecision, OneCommitPerGrant
<1> QED BY <1>2, <1>3, <1>4, <1>5 DEF IInv

(* A step that only writes an undecided delta keeps everything: no commit     *)
(* names the delta, and no grant does either unless only its status changes.  *)
LEMMA UndecidedWrite ==
  ASSUME IInv, UNCHANGED <<grant, ledger, canon>>,
         proposal' \in [Version -> ProposalRow],
         NEW v \in Version,
         proposal[v].status \in {"absent", "proposed"},
         proposal'[v].status \in {"proposed", "rejected"},
         \A u \in Version \ {v} : proposal'[u] = proposal[u],
         proposal[v].status = "proposed" =>
           proposal'[v] = [proposal[v] EXCEPT !.status = "rejected"]
  PROVE  IInv'
<1>1. /\ TypeOK /\ ChainHolds(ledger, canon) /\ StatusHolds(proposal, ledger)
      /\ LinksHold(proposal, ledger) /\ GrantsBind
  BY DEF IInv, Replayable
<1>2. ledger \in Seq(Commit) /\ \A u \in Version : proposal[u] \in ProposalRow
  BY <1>1 DEF TypeOK
<1>3. \A i \in DOMAIN ledger : ledger[i].of \in Version
  <2>1. \A i \in DOMAIN ledger : ledger[i] \in Commit
    BY <1>2
  <2> QED BY <2>1 DEF Commit
<1>4. \A i \in DOMAIN ledger : proposal'[ledger[i].of] = proposal[ledger[i].of]
  <2>1. \A i \in DOMAIN ledger : ledger[i].of # v
    BY <1>1, <1>2, CommittedDecided
  <2> QED BY <2>1, <1>3
<1>5. TypeOK'
  BY <1>1 DEF TypeOK
<1>6. Replayable(proposal', ledger', canon')
  <2>1. StatusHolds(proposal', ledger)
    <3>1. ASSUME NEW u \in Version
          PROVE  \/ proposal'[u].status = proposal[u].status
                 \/ {proposal'[u].status, proposal[u].status} \cap {"accepted", "retracted"} = {}
      BY <3>1
    <3> QED BY <3>1, <1>1, <1>3, StatusStable
  <2>2. LinksHold(proposal', ledger)
    BY <1>1, <1>2, <1>4, LinksStable
  <2> QED BY <2>1, <2>2, <1>1 DEF Replayable
<1>7. GrantsBind'
  <2>1. ASSUME NEW g \in Grant, grant[g].status # "unused"
        PROVE  /\ grant[g].for \in Version
               /\ proposal'[grant[g].for].status # "absent"
               /\ grant[g].operation = "accept" =>
                    proposal'[grant[g].for].prepared = grant[g].expected
    <3>1. /\ grant[g].for \in Version /\ proposal[grant[g].for].status # "absent"
          /\ grant[g].operation = "accept" =>
               proposal[grant[g].for].prepared = grant[g].expected
      BY <1>1, <2>1 DEF GrantsBind
    <3>2. CASE grant[g].for = v
      BY <3>1, <3>2, <1>2 DEF ProposalRow
    <3> QED BY <3>1, <3>2
  <2> QED BY <2>1 DEF GrantsBind
<1>8. NoLostDecision'
  BY <1>4 DEF IInv, NoLostDecision
<1>9. OneCommitPerGrant'
  BY DEF IInv, OneCommitPerGrant
<1> QED BY <1>5, <1>6, <1>7, <1>8, <1>9 DEF IInv

(* A step that spends an issued grant on one commit keeps everything.         *)
LEMMA CommitWrite ==
  ASSUME IInv, NEW g \in Grant, NEW c \in Commit,
         grant[g].status = "issued", grant[g].expected = canon,
         c.grant = g, c.of = grant[g].for, c.operation = grant[g].operation,
         c.before = canon, c.after \in Nat,
         proposal' \in [Version -> ProposalRow],
         \A u \in Version : /\ proposal'[u].prepared = proposal[u].prepared
                            /\ proposal[u].status # "absent" => proposal'[u].status # "absent",
         ledger' = Append(ledger, c), canon' = c.after, Consume(g),
         Replayable(proposal', ledger', canon')
  PROVE  IInv'
<1>1. /\ TypeOK /\ ChainHolds(ledger, canon) /\ GrantsBind
      /\ NoLostDecision /\ OneCommitPerGrant
  BY DEF IInv, Replayable
<1>2. /\ ledger \in Seq(Commit) /\ grant \in [Grant -> GrantRow]
      /\ \A h \in Grant : grant[h] \in GrantRow
  BY <1>1 DEF TypeOK
<1>3. /\ ledger' \in Seq(Commit) /\ DOMAIN ledger' = 1..(Len(ledger) + 1)
      /\ DOMAIN ledger = 1..Len(ledger) /\ Len(ledger) \in Nat
      /\ ledger'[Len(ledger) + 1] = c
      /\ \A i \in DOMAIN ledger : ledger'[i] = ledger[i] /\ ledger[i] \in Commit
  BY <1>2, AppendFacts
<1>4. \A i \in DOMAIN ledger : ledger[i].of \in Version /\ ledger[i].grant \in Grant
  BY <1>3 DEF Commit
<1>5. \A h \in Grant : /\ grant'[h] \in GrantRow
                       /\ grant'[h].for = grant[h].for
                       /\ grant'[h].operation = grant[h].operation
                       /\ grant'[h].expected = grant[h].expected
                       /\ grant'[h].status = IF h = g THEN "consumed" ELSE grant[h].status
  BY <1>2 DEF Consume, GrantRow
<1>6. TypeOK'
  <2>1. grant' \in [Grant -> GrantRow]
    BY <1>2, <1>5 DEF Consume
  <2> QED BY <2>1, <1>3 DEF TypeOK
<1>7. GrantsBind'
  <2>1. ASSUME NEW h \in Grant, grant'[h].status # "unused"
        PROVE  /\ grant'[h].for \in Version
               /\ proposal'[grant'[h].for].status # "absent"
               /\ grant'[h].operation = "accept" =>
                    proposal'[grant'[h].for].prepared = grant'[h].expected
    <3>1. grant[h].status # "unused"
      BY <2>1, <1>5
    <3>2. /\ grant[h].for \in Version /\ proposal[grant[h].for].status # "absent"
          /\ grant[h].operation = "accept" =>
               proposal[grant[h].for].prepared = grant[h].expected
      BY <3>1, <1>1 DEF GrantsBind
    <3> QED BY <3>2, <1>5
  <2> QED BY <2>1 DEF GrantsBind
<1>8. NoLostDecision'
  <2>1. ASSUME NEW i \in DOMAIN ledger', ledger'[i].operation = "accept"
        PROVE  proposal'[ledger'[i].of].prepared = ActiveBefore(ledger', i)
    <3>1. CASE i \in DOMAIN ledger
      <4>1. proposal[ledger[i].of].prepared = ActiveBefore(ledger, i)
        BY <2>1, <3>1, <1>1, <1>3 DEF NoLostDecision
      <4>2. ActiveBefore(ledger', i) = ActiveBefore(ledger, i)
        BY <3>1, <1>3 DEF ActiveBefore
      <4> QED BY <4>1, <4>2, <3>1, <1>3, <1>4
    <3>2. CASE i = Len(ledger) + 1
      <4>1. c.operation = "accept" /\ ledger'[i] = c
        BY <2>1, <3>2, <1>3
      <4>2. c.of \in Version /\ proposal[c.of].prepared = canon
        BY <4>1, <1>1 DEF GrantsBind
      <4>3. ActiveBefore(ledger, i) = canon
        BY <3>2, <1>1 DEF ChainHolds
      <4>4. ActiveBefore(ledger', i) = ActiveBefore(ledger, i)
        <5>1. i = 1 \/ i - 1 \in DOMAIN ledger
          BY <3>2, <1>3
        <5>2. i = 1 \/ ledger'[i - 1] = ledger[i - 1]
          BY <5>1, <1>3
        <5> QED BY <5>2 DEF ActiveBefore
      <4> QED BY <4>1, <4>2, <4>3, <4>4
    <3> QED BY <3>1, <3>2, <1>3
  <2> QED BY <2>1 DEF NoLostDecision
<1>9. OneCommitPerGrant'
  <2>1. \A i \in DOMAIN ledger : ledger[i].grant # g
    BY <1>1 DEF OneCommitPerGrant
  <2>2. ASSUME NEW i \in DOMAIN ledger', NEW k \in DOMAIN ledger',
               ledger'[i].grant = ledger'[k].grant
        PROVE  i = k
    <3>1. CASE i \in DOMAIN ledger /\ k \in DOMAIN ledger
      BY <2>2, <3>1, <1>1, <1>3 DEF OneCommitPerGrant
    <3>2. CASE i = Len(ledger) + 1 \/ k = Len(ledger) + 1
      BY <2>1, <2>2, <3>2, <1>3
    <3> QED BY <3>1, <3>2, <1>3
  <2>3. ASSUME NEW i \in DOMAIN ledger'
        PROVE  LET h == grant'[ledger'[i].grant] IN
                 /\ h.status = "consumed"
                 /\ h.for = ledger'[i].of /\ h.operation = ledger'[i].operation
                 /\ h.expected = ledger'[i].before
    <3>1. CASE i \in DOMAIN ledger
      BY <3>1, <1>1, <1>3, <1>4, <1>5 DEF OneCommitPerGrant
    <3>2. CASE i = Len(ledger) + 1
      BY <3>2, <1>3, <1>5
    <3> QED BY <3>1, <3>2, <1>3
  <2> QED BY <2>2, <2>3 DEF OneCommitPerGrant
<1> QED BY <1>6, <1>7, <1>8, <1>9 DEF IInv

LEMMA NextIInv ==
  IInv /\ [Next]_vars => IInv'
<1> SUFFICES ASSUME IInv, [Next]_vars PROVE IInv'
  OBVIOUS
<1>1. /\ TypeOK /\ GrantsBind /\ OneCommitPerGrant
      /\ proposal \in [Version -> ProposalRow] /\ grant \in [Grant -> GrantRow]
      /\ ledger \in Seq(Commit) /\ canon \in Nat
      /\ \A u \in Version : proposal[u] \in ProposalRow
  BY DEF IInv, TypeOK
<1>2. ASSUME NEW a \in Artifact, Save(a)
      PROVE  IInv'
  <2>1. PICK r \in NextRevision(a), stage \in Stage, prepared \in Named \cup {canon},
             valid \in BOOLEAN, fix \in Linkable :
          proposal' = [proposal EXCEPT ![<<a, r>>] =
                         [status |-> "proposed", stage |-> stage, prepared |-> prepared,
                          valid |-> valid, fixes |-> fix, active |-> FALSE]]
    BY <1>2 DEF Save
  <2>2. r \in 1..MaxRevision /\ proposal[<<a, r>>].status = "absent"
    <3>1. CASE FreeRevision
      BY <3>1 DEF NextRevision, Existing
    <3>2. CASE ~FreeRevision
      <4>1. r \in 1..MaxRevision /\ Existing(a) = 1..(r - 1)
        BY <3>2 DEF NextRevision
      <4>2. r \notin Existing(a)
        BY <4>1, CanonAssumption
      <4> QED BY <4>1, <4>2 DEF Existing
    <3> QED BY <3>1, <3>2
  <2>3. <<a, r>> \in Version
    BY <2>2 DEF Version
  <2>4. fix \in Version \cup {None}
    BY <1>1, RecordedType DEF Linkable
  <2>5. [status |-> "proposed", stage |-> stage, prepared |-> prepared,
         valid |-> valid, fixes |-> fix, active |-> FALSE] \in ProposalRow
    BY <1>1, <2>4, CanonAssumption DEF ProposalRow
  <2>6. proposal' \in [Version -> ProposalRow]
    BY <1>1, <2>1, <2>5
  <2>7. /\ proposal'[<<a, r>>].status = "proposed"
        /\ \A u \in Version \ {<<a, r>>} : proposal'[u] = proposal[u]
    BY <1>1, <2>1, <2>3
  <2>8. UNCHANGED <<grant, ledger, canon>>
    BY <1>2 DEF Save
  <2> QED BY <2>2, <2>3, <2>6, <2>7, <2>8, UndecidedWrite
<1>3. ASSUME NEW v \in Version, Reject(v)
      PROVE  IInv'
  <2>1. /\ proposal[v].status = "proposed"
        /\ proposal' = [proposal EXCEPT ![v].status = "rejected"]
        /\ UNCHANGED <<grant, ledger, canon>>
    BY <1>3 DEF Reject
  <2>2. [proposal[v] EXCEPT !.status = "rejected"] \in ProposalRow
    BY <1>1 DEF ProposalRow
  <2>3. /\ proposal' \in [Version -> ProposalRow]
        /\ proposal'[v] = [proposal[v] EXCEPT !.status = "rejected"]
        /\ \A u \in Version \ {v} : proposal'[u] = proposal[u]
    BY <1>1, <2>1, <2>2
  <2>4. proposal'[v].status = "rejected"
    BY <1>1, <2>3 DEF ProposalRow
  <2> QED BY <2>1, <2>3, <2>4, UndecidedWrite
<1>4. ASSUME NEW g \in Grant, NEW v \in Version, NEW op \in Operation, Issue(g, v, op)
      PROVE  IInv'
  <2> DEFINE row == [status |-> "issued", operation |-> op, for |-> v, expected |-> canon]
  <2>1. /\ grant[g].status = "unused" /\ Grantable(v, op)
        /\ grant' = [grant EXCEPT ![g] = row]
        /\ UNCHANGED <<proposal, ledger, canon>>
    BY <1>4 DEF Issue
  <2>2. row \in GrantRow
    BY <1>1 DEF GrantRow
  <2>3. TypeOK'
    BY <1>1, <2>1, <2>2 DEF TypeOK
  <2>4. /\ proposal[v].status # "absent"
        /\ op = "accept" => proposal[v].prepared = canon
    BY <2>1 DEF Grantable
  <2>5. GrantsBind'
    <3>1. \A h \in Grant : grant'[h] = IF h = g THEN row ELSE grant[h]
      BY <1>1, <2>1
    <3> QED BY <3>1, <2>1, <2>4, <1>1 DEF GrantsBind
  <2>6. OneCommitPerGrant'
    <3>1. \A i \in DOMAIN ledger : ledger[i].grant \in Grant
      <4>1. \A i \in DOMAIN ledger : ledger[i] \in Commit
        BY <1>1
      <4> QED BY <4>1 DEF Commit
    <3>2. \A i \in DOMAIN ledger : ledger[i].grant # g
      BY <1>1, <2>1 DEF OneCommitPerGrant
    <3>3. \A i \in DOMAIN ledger : grant'[ledger[i].grant] = grant[ledger[i].grant]
      BY <3>1, <3>2, <1>1, <2>1
    <3> QED BY <3>3, <1>1, <2>1 DEF OneCommitPerGrant
  <2> QED BY <2>1, <2>3, <2>5, <2>6 DEF IInv, NoLostDecision
<1>5. ASSUME NEW g \in Grant, Expire(g)
      PROVE  IInv'
  <2>1. /\ grant[g].status = "issued"
        /\ grant' = [grant EXCEPT ![g].status = "expired"]
        /\ UNCHANGED <<proposal, ledger, canon>>
    BY <1>5 DEF Expire
  <2>2. \A h \in Grant : /\ grant'[h] \in GrantRow
                         /\ grant'[h].for = grant[h].for
                         /\ grant'[h].operation = grant[h].operation
                         /\ grant'[h].expected = grant[h].expected
                         /\ grant'[h].status = IF h = g THEN "expired" ELSE grant[h].status
    BY <1>1, <2>1 DEF GrantRow
  <2>3. TypeOK'
    <3>1. grant' \in [Grant -> GrantRow]
      BY <1>1, <2>1, <2>2
    <3> QED BY <3>1, <1>1, <2>1 DEF TypeOK
  <2>4. GrantsBind'
    BY <1>1, <2>1, <2>2 DEF GrantsBind
  <2>5. OneCommitPerGrant'
    <3>1. \A i \in DOMAIN ledger : ledger[i].grant \in Grant /\ ledger[i].grant # g
      <4>1. \A i \in DOMAIN ledger : ledger[i] \in Commit
        BY <1>1
      <4> QED BY <4>1, <1>1, <2>1 DEF Commit, OneCommitPerGrant
    <3> QED BY <3>1, <1>1, <2>1, <2>2 DEF OneCommitPerGrant
  <2> QED BY <2>1, <2>3, <2>4, <2>5 DEF IInv, NoLostDecision
<1>6. ASSUME NEW g \in Grant, Accept(g)
      PROVE  IInv'
  <2> DEFINE v == grant[g].for
             c == AcceptCommit(g)
  <2>1. /\ grant[g].status = "issued" /\ grant[g].operation = "accept"
        /\ grant[g].expected = canon /\ v \in Version
    BY <1>1, <1>6 DEF Accept, Acceptable, Usable, GrantsBind
  <2>2. c \in Commit /\ c.grant = g /\ c.of = v /\ c.operation = "accept" /\ c.before = canon
    BY <1>1, <2>1, CommitTypes, CommitFields
  <2>3. /\ proposal' \in [Version -> ProposalRow]
        /\ \A u \in Version : /\ proposal'[u].prepared = proposal[u].prepared
                              /\ proposal[u].status # "absent" => proposal'[u].status # "absent"
    BY <1>1, <1>6, <2>1, RowsAfter DEF Accept
  <2>4. /\ ledger' = Append(ledger, c) /\ canon' = c.after /\ Consume(g)
        /\ Replayable(proposal', ledger', canon')
    BY <1>6 DEF Accept
  <2>5. c.after \in Nat
    BY <2>2 DEF Commit
  <2> HIDE DEF c
  <2> QED BY <2>1, <2>2, <2>3, <2>4, <2>5, CommitWrite
<1>7. ASSUME NEW g \in Grant, Retract(g)
      PROVE  IInv'
  <2> DEFINE v == grant[g].for
             c == RetractCommit(g)
  <2>1. /\ grant[g].status = "issued" /\ grant[g].operation = "retract"
        /\ grant[g].expected = canon /\ v \in Version
    BY <1>1, <1>7 DEF Retract, Retractable, Usable, GrantsBind
  <2>2. c \in Commit /\ c.grant = g /\ c.of = v /\ c.operation = "retract" /\ c.before = canon
    BY <1>1, <2>1, CommitTypes, CommitFields
  <2>3. /\ proposal' \in [Version -> ProposalRow]
        /\ \A u \in Version : /\ proposal'[u].prepared = proposal[u].prepared
                              /\ proposal[u].status # "absent" => proposal'[u].status # "absent"
    BY <1>1, <1>7, <2>1, RowsAfter DEF Retract
  <2>4. /\ ledger' = Append(ledger, c) /\ canon' = c.after /\ Consume(g)
        /\ Replayable(proposal', ledger', canon')
    BY <1>7 DEF Retract
  <2>5. c.after \in Nat
    BY <2>2 DEF Commit
  <2> HIDE DEF c
  <2> QED BY <2>1, <2>2, <2>3, <2>4, <2>5, CommitWrite
<1>8. CASE UNCHANGED vars
  BY <1>8 DEF vars, IInv, TypeOK, Replayable, GrantsBind, NoLostDecision, OneCommitPerGrant
<1> QED BY <1>2, <1>3, <1>4, <1>5, <1>6, <1>7, <1>8 DEF Next

LEMMA SpecIInv ==
  Spec => []IInv
<1>1. Init => IInv
  BY InitIInv
<1>2. IInv /\ [Next]_vars => IInv'
  BY NextIInv
<1> QED BY <1>1, <1>2, PTL DEF Spec

-----------------------------------------------------------------------------
(* Which events a visit of the ledger finds inactive.                         *)

LEMMA LeastNatural ==
  ASSUME NEW T, T \subseteq Nat, T # {}
  PROVE  \E m \in T : \A n \in T : m <= n
<1>1. PICK m \in T : \A n \in T : <<n, m>> \notin OpToRel(<, Nat)
  BY NatLessThanWellFounded, WFMin
<1>2. ASSUME NEW n \in T PROVE m <= n
  <2>1. ~(n < m)
    BY <1>1 DEF OpToRel
  <2> QED BY <2>1
<1> QED BY <1>2

(* Induction up to n, over a set.                                             *)
LEMMA UpTo ==
  ASSUME NEW n \in Nat, NEW S, 0 \in S, \A k \in 0..n : k \in S /\ k < n => k + 1 \in S
  PROVE  \A k \in 0..n : k \in S
<1> DEFINE T == {k \in 0..n : k \notin S}
<1>1. CASE T = {}
  BY <1>1
<1>2. CASE T # {}
  <2>1. PICK m \in T : \A k \in T : m <= k
    <3>1. T \subseteq Nat
      OBVIOUS
    <3> HIDE DEF T
    <3> QED BY <1>2, <3>1, LeastNatural
  <2>2. m \in 0..n /\ m \notin S /\ m # 0
    BY <2>1
  <2>3. m - 1 \in 0..n /\ m - 1 < n /\ (m - 1) + 1 = m /\ ~(m <= m - 1)
    BY <2>2
  <2>4. m - 1 \in S
    BY <2>1, <2>3
  <2> QED BY <2>2, <2>3, <2>4
<1> QED BY <1>1, <1>2

(* The visit of the newest n commits of a ledger, as a function.              *)
Visits(log, gone, plane, n, f) ==
  f = [k \in 0..n |->
         IF k = 0 THEN {} ELSE Visit(gone, plane, log[Len(log) + 1 - k], f[k - 1])]

LEMMA VisitsGoOn ==
  ASSUME NEW log, NEW gone, NEW plane, NEW n \in Nat, NEW f, Visits(log, gone, plane, n, f)
  PROVE  \E g : Visits(log, gone, plane, n + 1, g)
<1> DEFINE add(k, dead) == Visit(gone, plane, log[Len(log) + 1 - k], dead)
           g == [k \in 0..n + 1 |-> IF k = n + 1 THEN add(k, f[n]) ELSE f[k]]
<1>1. f = [k \in 0..n |-> IF k = 0 THEN {} ELSE add(k, f[k - 1])]
  BY DEF Visits
<1> HIDE DEF add
<1>2. ASSUME NEW k \in 0..n + 1
      PROVE  g[k] = IF k = 0 THEN {} ELSE add(k, g[k - 1])
  <2>1. CASE k = n + 1
    <3>1. g[k - 1] = f[n] /\ k # 0 /\ g[k] = add(k, f[n])
      BY <2>1
    <3> QED BY <3>1
  <2>2. CASE k # n + 1
    <3>1. k \in 0..n /\ g[k] = f[k]
      BY <2>2
    <3>2. CASE k = 0
      BY <1>1, <3>1, <3>2
    <3>3. CASE k # 0
      <4>1. k - 1 \in 0..n + 1 /\ k - 1 # n + 1 /\ g[k - 1] = f[k - 1]
        BY <3>1, <3>3
      <4> QED BY <1>1, <3>1, <3>3, <4>1
    <3> QED BY <3>2, <3>3
  <2> QED BY <2>1, <2>2
<1>3. g = [k \in 0..n + 1 |-> IF k = 0 THEN {} ELSE add(k, g[k - 1])]
  <2>1. g = [k \in 0..n + 1 |-> g[k]]
    OBVIOUS
  <2> HIDE DEF g
  <2> QED BY <1>2, <2>1
<1>4. Visits(log, gone, plane, n + 1, g)
  BY <1>3 DEF Visits, add
<1> QED BY <1>4

(* Visited is what its recursion says.                                        *)
LEMMA VisitedSteps ==
  ASSUME NEW log, Len(log) \in Nat, NEW gone, NEW plane
  PROVE  LET D == Visited(log, gone, plane)
         IN /\ D[0] = {}
            /\ \A k \in 1..Len(log) : D[k] = Visit(gone, plane, log[Len(log) + 1 - k], D[k - 1])
<1> DEFINE n == Len(log)
           S == {m \in Nat : \E f : Visits(log, gone, plane, m, f)}
           D == Visited(log, gone, plane)
<1>1. 0 \in S
  <2> DEFINE f == [k \in 0..0 |-> {}]
  <2>1. f = [k \in 0..0 |->
         IF k = 0 THEN {} ELSE Visit(gone, plane, log[Len(log) + 1 - k], f[k - 1])]
    OBVIOUS
  <2> QED BY <2>1 DEF Visits
<1>2. \A k \in 0..n : k \in S /\ k < n => k + 1 \in S
  BY VisitsGoOn
<1>3. n \in S
  <2> HIDE DEF S
  <2>1. \A k \in 0..n : k \in S
    BY <1>1, <1>2, UpTo
  <2> QED BY <2>1
<1>4. Visits(log, gone, plane, n, D)
  <2>1. D = CHOOSE f : Visits(log, gone, plane, n, f)
    BY DEF Visited, Visits
  <2>2. PICK f : Visits(log, gone, plane, n, f)
    BY <1>3
  <2> QED BY <2>1, <2>2
<1>5. /\ 0 \in 0..n
      /\ \A k \in 0..n : D[k] = IF k = 0 THEN {}
                               ELSE Visit(gone, plane, log[n + 1 - k], D[k - 1])
  <2> HIDE DEF D
  <2> QED BY <1>4 DEF Visits
<1>6. \A k \in 1..n : k \in 0..n /\ k # 0
  OBVIOUS
<1> HIDE DEF D, n
<1> QED BY <1>5, <1>6 DEF n, D

-----------------------------------------------------------------------------
(* What a commit adds to the inactive events.                                 *)
Adds(gone, plane, c, dead) ==
  IF c.authority # plane \/ (c.operation = "accept" /\ c.of \in gone) THEN {}
  ELSE c.links \cup (IF c.of \in dead \cup c.links THEN {} ELSE c.explicit)

LEMMA VisitAdds ==
  ASSUME NEW gone, NEW plane, NEW c, NEW dead
  PROVE  Visit(gone, plane, c, dead) = dead \cup Adds(gone, plane, c, dead)
BY DEF Visit, Deactivated, Adds

(* What is inactive after k visits was added by one of them.                  *)
LEMMA VisitedAdds ==
  ASSUME NEW log, Len(log) \in Nat, NEW gone, NEW plane
  PROVE  LET D == Visited(log, gone, plane)
             n == Len(log)
         IN \A k \in 0..n :
              D[k] = UNION {Adds(gone, plane, log[i], D[n - i]) : i \in n - k + 1..n}
<1> DEFINE D == Visited(log, gone, plane)
           n == Len(log)
           A(i) == Adds(gone, plane, log[i], D[n - i])
           U(k) == UNION {A(i) : i \in n - k + 1..n}
           S == {k \in 0..n : D[k] = U(k)}
<1>1. D[0] = {} /\ \A k \in 1..n : D[k] = D[k - 1] \cup Adds(gone, plane, log[n + 1 - k], D[k - 1])
  BY VisitedSteps, VisitAdds
<1> HIDE DEF D
<1>2. 0 \in S
  <2>1. n - 0 + 1..n = {}
    OBVIOUS
  <2> QED BY <1>1, <2>1
<1>3. ASSUME NEW k \in 0..n, k \in S, k < n PROVE k + 1 \in S
  <2>1. k + 1 \in 1..n /\ (k + 1) - 1 = k /\ n + 1 - (k + 1) = n - k /\ n - (n - k) = k
    BY <1>3
  <2>2. D[k + 1] = D[k] \cup A(n - k)
    BY <1>1, <2>1
  <2>3. n - (k + 1) + 1..n = {n - k} \cup (n - k + 1..n)
    BY <1>3
  <2> HIDE DEF A
  <2>4. U(k + 1) = A(n - k) \cup U(k)
    BY <2>3
  <2>5. D[k] = U(k)
    BY <1>3
  <2>6. D[k + 1] = U(k + 1)
    <3> HIDE DEF U
    <3> QED BY <2>2, <2>4, <2>5
  <2> HIDE DEF U
  <2> QED BY <2>1, <2>6
<1>4. \A k \in 0..n : k \in S
  <2> HIDE DEF S
  <2> QED BY <1>2, <1>3, UpTo
<1> QED BY <1>4 DEF D

(* What is recorded before commit j was accepted by an earlier one.           *)
LEMMA RecordedEarlier ==
  ASSUME NEW log \in Seq(Commit), NEW j \in DOMAIN log, NEW plane,
         NEW u \in Recorded(Prefix(log, j - 1), plane)
  PROVE  \E k \in DOMAIN log : /\ k < j /\ log[k].of = u
                               /\ log[k].operation = "accept" /\ log[k].authority = plane
<1> DEFINE past == Prefix(log, j - 1)
<1>1. DOMAIN log = 1..Len(log) /\ Len(log) \in Nat /\ j \in 1..Len(log)
  OBVIOUS
<1>2. past = [k \in 1..j - 1 |-> log[k]]
  BY <1>1 DEF Prefix
<1> HIDE DEF past
<1>3. PICK k \in DOMAIN past : /\ past[k].of = u
                               /\ past[k].operation = "accept" /\ past[k].authority = plane
  BY DEF Recorded, past
<1>4. k \in 1..j - 1 /\ past[k] = log[k]
  BY <1>2
<1>5. k \in DOMAIN log /\ k < j
  BY <1>1, <1>4
<1> QED BY <1>3, <1>4, <1>5

(* Links point backward: none of a commit up to an accept names its event.    *)
LEMMA LinksPointBack ==
  ASSUME NEW rows, NEW log \in Seq(Commit), StatusHolds(rows, log), LinksHold(rows, log),
         NEW i \in DOMAIN log, NEW j \in DOMAIN log, j <= i, log[i].operation = "accept"
  PROVE  log[i].of \notin log[j].links \cup log[j].explicit
<1>1. i \in Nat /\ j \in Nat
  OBVIOUS
<1>2. LinkHolds(rows, Prefix(log, j - 1), log[j])
  BY DEF LinksHold
<1>3. log[j].operation \in {"accept", "retract"}
  <2>1. log[j] \in Commit
    OBVIOUS
  <2> QED BY <2>1 DEF Commit, Operation
<1>4. CASE log[j].operation = "retract"
  <2>1. log[j].links = {log[j].of} /\ log[j].explicit = {}
    BY <1>2, <1>4 DEF LinkHolds
  <2>2. PICK k \in DOMAIN log : k < j /\ log[k].operation = "accept" /\ log[k].of = log[j].of
    BY <1>4 DEF StatusHolds
  <2>3. log[i].of = log[j].of => i = k
    BY <2>2 DEF StatusHolds
  <2>4. k \in Nat
    OBVIOUS
  <2> QED BY <1>1, <2>1, <2>2, <2>3, <2>4
<1>5. CASE log[j].operation = "accept"
  <2>1. log[j].links \cup log[j].explicit \subseteq Recorded(Prefix(log, j - 1), log[j].authority)
    BY <1>2, <1>5 DEF LinkHolds, ExpectedLinks, OlderThan
  <2>2. ASSUME log[i].of \in Recorded(Prefix(log, j - 1), log[j].authority) PROVE FALSE
    <3>1. PICK k \in DOMAIN log : k < j /\ log[k].of = log[i].of /\ log[k].operation = "accept"
      BY <2>2, RecordedEarlier
    <3>2. k = i
      BY <3>1 DEF StatusHolds
    <3> QED BY <1>1, <3>1, <3>2
  <2> QED BY <2>1, <2>2
<1> QED BY <1>3, <1>4, <1>5

(* The visit comes to the events that links in force point at.                *)
LEMMA ReplayIsExact ==
  ASSUME TypeOK, StatusHolds(proposal, ledger), LinksHold(proposal, ledger), NEW plane \in BOOLEAN
  PROVE  LET dead == Inactive(ledger, Retracted(proposal), plane)
         IN /\ dead = Pointed(plane, dead)
            /\ Retracted(proposal) \cap Recorded(ledger, plane) \subseteq dead
<1> DEFINE n == Len(ledger)
           gone == Retracted(proposal)
           D == Visited(ledger, gone, plane)
           dead == D[n]
           A(i) == Adds(gone, plane, ledger[i], D[n - i])
           P(i) == IF ledger[i].operation = "retract" THEN ledger[i].links
                   ELSE IF proposal[ledger[i].of].status = "retracted" THEN {}
                   ELSE ledger[i].links
                          \cup (IF ledger[i].of \in dead THEN {} ELSE ledger[i].explicit)
           I == {i \in DOMAIN ledger : ledger[i].authority = plane}
<1>1. ledger \in Seq(Commit) /\ n \in Nat /\ DOMAIN ledger = 1..n
  BY DEF TypeOK
<1>2. \A k \in 0..n : D[k] = UNION {A(i) : i \in n - k + 1..n}
  BY <1>1, VisitedAdds
<1>3. \A i \in 1..n : ledger[i].of \in Version /\ ledger[i].operation \in {"accept", "retract"}
  <2>1. \A i \in 1..n : ledger[i] \in Commit
    BY <1>1
  <2> QED BY <2>1 DEF Commit, Operation
<1>4. \A i \in 1..n : ledger[i].of \in gone <=> proposal[ledger[i].of].status = "retracted"
  BY <1>3 DEF Retracted
<1>5. dead = UNION {A(i) : i \in 1..n}
  <2>1. n \in 0..n /\ n - n + 1 = 1
    BY <1>1
  <2> HIDE DEF D, A
  <2> QED BY <1>2, <2>1
<1>6. \A i \in 1..n : A(i) \subseteq ledger[i].links \cup ledger[i].explicit
  BY DEF Adds
<1>7. \A i \in 1..n : i \notin I => A(i) = {}
  BY <1>1 DEF Adds
<1>8. ASSUME NEW i \in 1..n, i \in I PROVE A(i) = P(i)
  <2>1. CASE ledger[i].operation = "retract"
    <3>1. ledger[i].links = {ledger[i].of}
      BY <1>1, <2>1 DEF LinksHold, LinkHolds
    <3> QED BY <1>8, <2>1, <3>1 DEF Adds
  <2>2. CASE ledger[i].operation = "accept"
    <3>1. ledger[i].of \notin ledger[i].links
      BY <1>1, <2>2, LinksPointBack
    <3>2. ledger[i].of \in D[n - i] <=> ledger[i].of \in dead
      <4>1. n - i \in 0..n /\ n - (n - i) + 1 = i + 1
        BY <1>1
      <4>2. D[n - i] = UNION {A(j) : j \in i + 1..n}
        <5> HIDE DEF A, D
        <5> QED BY <1>2, <4>1
      <4>3. \A j \in i + 1..n : j \in 1..n
        BY <1>1
      <4>4. \A j \in 1..n : j \in i + 1..n \/ j <= i
        BY <1>1
      <4>5. \A j \in 1..n : j <= i => ledger[i].of \notin A(j)
        <5>1. ASSUME NEW j \in 1..n, j <= i PROVE ledger[i].of \notin ledger[j].links \cup ledger[j].explicit
          BY <1>1, <2>2, <5>1, LinksPointBack
        <5> HIDE DEF A
        <5> QED BY <1>6, <5>1
      <4> HIDE DEF A, D, dead
      <4> QED BY <1>5, <4>2, <4>3, <4>4, <4>5
    <3> HIDE DEF D, dead
    <3> QED BY <1>4, <1>8, <2>2, <3>1, <3>2 DEF Adds
  <2> QED BY <1>3, <2>1, <2>2
<1>9. dead = UNION {P(i) : i \in I}
  <2>1. I \subseteq 1..n
    BY <1>1
  <2> HIDE DEF A, P, dead, I
  <2> QED BY <1>5, <1>7, <1>8, <2>1
<1>10. Inactive(ledger, gone, plane) = dead
  BY DEF Inactive
<1>11. Pointed(plane, dead) = UNION {P(i) : i \in I}
  BY DEF Pointed
<1>12. ASSUME NEW v \in gone \cap Recorded(ledger, plane) PROVE v \in dead
  <2>1. v \in Version /\ proposal[v].status = "retracted"
    BY <1>12 DEF Retracted
  <2>2. PICK i \in DOMAIN ledger : ledger[i].of = v /\ ledger[i].operation = "retract"
    BY <2>1 DEF StatusHolds
  <2>3. PICK k \in DOMAIN ledger : ledger[k].of = v /\ ledger[k].authority = plane
    BY <1>12 DEF Recorded
  <2>4. ledger[i].authority = plane /\ ledger[i].links = {v}
    BY <2>2, <2>3 DEF LinksHold, LinkHolds
  <2>5. i \in I /\ v \in P(i)
    BY <2>2, <2>4
  <2> HIDE DEF P, I, dead
  <2> QED BY <1>9, <2>5
<1> HIDE DEF dead, P, I
<1> QED BY <1>9, <1>10, <1>11, <1>12

-----------------------------------------------------------------------------
(* One commit more.                                                           *)

(* A visit of a longer ledger starts with the new commit.                     *)
LEMMA VisitedAppend ==
  ASSUME NEW log \in Seq(Commit), NEW c \in Commit, NEW gone, NEW plane
  PROVE  LET n == Len(log)
             E == Visited(Append(log, c), gone, plane)
         IN /\ E[1] = Visit(gone, plane, c, {})
            /\ \A k \in 1..n : E[k + 1] = Visit(gone, plane, log[n + 1 - k], E[k])
            /\ Inactive(Append(log, c), gone, plane) = E[n + 1]
<1> DEFINE n == Len(log)
           new == Append(log, c)
           E == Visited(new, gone, plane)
<1>1. /\ Len(new) = n + 1 /\ n \in Nat /\ new[n + 1] = c /\ \A i \in 1..n : new[i] = log[i]
  <2> HIDE DEF new
  <2> QED BY AppendFacts DEF new
<1> HIDE DEF new
<1>2. /\ E[0] = {}
      /\ \A k \in 1..n + 1 : E[k] = Visit(gone, plane, new[n + 2 - k], E[k - 1])
  <2>1. Len(new) \in Nat /\ \A k \in 1..n + 1 : k \in 1..Len(new) /\ Len(new) + 1 - k = n + 2 - k
    BY <1>1
  <2> HIDE DEF E
  <2>2. /\ E[0] = {}
        /\ \A k \in 1..Len(new) : E[k] = Visit(gone, plane, new[Len(new) + 1 - k], E[k - 1])
    BY <2>1, VisitedSteps DEF E
  <2> QED BY <2>1, <2>2
<1> HIDE DEF E
<1>3. E[1] = Visit(gone, plane, c, {})
  <2>1. 1 \in 1..n + 1 /\ n + 2 - 1 = n + 1 /\ 1 - 1 = 0
    BY <1>1
  <2> QED BY <1>1, <1>2, <2>1
<1>4. ASSUME NEW k \in 1..n PROVE E[k + 1] = Visit(gone, plane, log[n + 1 - k], E[k])
  <2>1. /\ k + 1 \in 1..n + 1 /\ (k + 1) - 1 = k /\ n + 2 - (k + 1) = n + 1 - k
        /\ n + 1 - k \in 1..n
    BY <1>1
  <2> QED BY <1>1, <1>2, <2>1
<1> QED BY <1>1, <1>3, <1>4 DEF Inactive, E, new

LEMMA RecordedAppend ==
  ASSUME NEW log \in Seq(Commit), NEW c \in Commit, NEW plane
  PROVE  Recorded(Append(log, c), plane) =
           Recorded(log, plane)
             \cup (IF c.operation = "accept" /\ c.authority = plane THEN {c.of} ELSE {})
<1> DEFINE n == Len(log)
           new == Append(log, c)
           R(l, k) == l[k].operation = "accept" /\ l[k].authority = plane
<1>1. /\ n \in Nat /\ DOMAIN new = 1..n + 1 /\ DOMAIN log = 1..n
      /\ new[n + 1] = c /\ \A i \in 1..n : new[i] = log[i]
  <2> HIDE DEF new
  <2> QED BY AppendFacts DEF new
<1> HIDE DEF new
<1>2. \A k \in 1..n + 1 : k \in 1..n \/ k = n + 1
  BY <1>1
<1>3. \A k \in 1..n : k \in 1..n + 1
  BY <1>1
<1>4. n + 1 \in 1..n + 1
  BY <1>1
<1>5. Recorded(new, plane) = {new[k].of : k \in {i \in 1..n + 1 : R(new, i)}}
  BY <1>1 DEF Recorded
<1>6. Recorded(log, plane) = {log[k].of : k \in {i \in 1..n : R(log, i)}}
  BY <1>1 DEF Recorded
<1> HIDE DEF n
<1> QED BY <1>1, <1>2, <1>3, <1>4, <1>5, <1>6 DEF new

(* A commit changes nothing in the other plane.                               *)
LEMMA OtherPlane ==
  ASSUME NEW log \in Seq(Commit), NEW c \in Commit, NEW plane, c.authority # plane,
         NEW gone, NEW now,
         \A i \in DOMAIN log : log[i].authority = plane => (log[i].of \in now <=> log[i].of \in gone)
  PROVE  Live(Append(log, c), now, plane) = Live(log, gone, plane)
<1> DEFINE n == Len(log)
           new == Append(log, c)
           D == Visited(log, gone, plane)
           E == Visited(new, now, plane)
           S == {k \in 0..n : E[k + 1] = D[k]}
<1>1. n \in Nat /\ DOMAIN log = 1..n
  OBVIOUS
<1>2. /\ D[0] = {}
      /\ \A k \in 1..n : D[k] = Visit(gone, plane, log[n + 1 - k], D[k - 1])
  BY <1>1, VisitedSteps
<1>3. /\ E[1] = Visit(now, plane, c, {})
      /\ \A k \in 1..n : E[k + 1] = Visit(now, plane, log[n + 1 - k], E[k])
      /\ Inactive(new, now, plane) = E[n + 1]
  BY VisitedAppend
<1> HIDE DEF D, E
<1>4. 0 \in S
  <2>1. 0 \in 0..n /\ 0 + 1 = 1
    BY <1>1
  <2>2. E[1] = {}
    BY <1>3 DEF Visit
  <2> QED BY <1>2, <2>1, <2>2
<1>5. ASSUME NEW k \in 0..n, k \in S, k < n PROVE k + 1 \in S
  <2>1. k + 1 \in 1..n /\ (k + 1) - 1 = k /\ k + 1 \in 0..n /\ n + 1 - (k + 1) \in 1..n
    BY <1>1, <1>5
  <2> DEFINE b == log[n + 1 - (k + 1)]
  <2>2. D[k + 1] = Visit(gone, plane, b, D[k])
    BY <1>2, <2>1
  <2>3. E[(k + 1) + 1] = Visit(now, plane, b, E[k + 1])
    BY <1>3, <2>1
  <2>4. b.authority = plane => (b.of \in now <=> b.of \in gone)
    BY <1>1, <2>1
  <2>5. E[k + 1] = D[k]
    BY <1>5
  <2> HIDE DEF b
  <2>6. Visit(now, plane, b, D[k]) = Visit(gone, plane, b, D[k])
    BY <2>4 DEF Visit, Deactivated
  <2>7. E[(k + 1) + 1] = D[k + 1]
    BY <2>2, <2>3, <2>5, <2>6
  <2> QED BY <2>1, <2>7
<1>6. \A k \in 0..n : k \in S
  <2> HIDE DEF S
  <2> QED BY <1>1, <1>4, <1>5, UpTo
<1>7. E[n + 1] = D[n]
  <2>1. n \in 0..n
    BY <1>1
  <2> QED BY <1>6, <2>1
<1>8. Recorded(new, plane) = Recorded(log, plane)
  <2>1. Recorded(new, plane) = Recorded(log, plane)
          \cup (IF c.operation = "accept" /\ c.authority = plane THEN {c.of} ELSE {})
    BY RecordedAppend
  <2> HIDE DEF new
  <2> QED BY <2>1
<1>9. Inactive(log, gone, plane) = D[n]
  BY DEF Inactive, D
<1> QED BY <1>3, <1>7, <1>8, <1>9 DEF Live

LEMMA PrefixFacts ==
  ASSUME NEW log \in Seq(Commit), NEW m \in 0..Len(log)
  PROVE  /\ Prefix(log, m) \in Seq(Commit) /\ Len(Prefix(log, m)) = m
         /\ DOMAIN Prefix(log, m) = 1..m /\ \A i \in 1..m : Prefix(log, m)[i] = log[i]
BY DEF Prefix

(* The retraction of what was accepted last leaves its event inactive, and    *)
(* nothing else.                                                              *)
LEMMA RetractionUndoes ==
  ASSUME TypeOK, StatusHolds(proposal, ledger), LinksHold(proposal, ledger)
  PROVE  RetractUndoesAccept
<1> DEFINE n == Len(ledger)
           v == ledger[n].of
           past == Prefix(ledger, n - 2)
           gone == Retracted(proposal)
           before == RetractedBy(past)
<1>1. /\ ledger \in Seq(Commit) /\ n \in Nat /\ DOMAIN ledger = 1..n
      /\ \A i \in 1..n : ledger[i] \in Commit
  BY DEF TypeOK
<1> SUFFICES ASSUME n >= 2, ledger[n].operation = "retract",
                    ledger[n - 1].operation = "accept", ledger[n].of = ledger[n - 1].of,
                    NEW plane \in BOOLEAN
             PROVE  Live(ledger, gone, plane) = Live(past, before, plane)
  BY DEF RetractUndoesAccept
<1> DEFINE X == IF ledger[n].authority = plane THEN {v} ELSE {}
           D == Visited(past, before, plane)
           E == Visited(ledger, gone, plane)
           S == {k \in 0..n - 2 : E[k + 2] = D[k] \cup X}
<1>2. /\ n \in 1..n /\ n - 1 \in 1..n /\ \A i \in 1..n - 2 : i \in 1..n /\ i # n /\ i # n - 1
      /\ 1..n = (1..n - 2) \cup {n - 1, n} /\ n - 2 \in Nat
  <2>1. n \in Nat /\ n >= 2
    BY <1>1
  <2> HIDE DEF n
  <2>2. \A i \in 1..n : i \in 1..n - 2 \/ i = n - 1 \/ i = n
    BY <2>1
  <2>3. /\ n \in 1..n /\ n - 1 \in 1..n /\ n - 2 \in Nat
        /\ \A i \in 1..n - 2 : i \in 1..n /\ i # n /\ i # n - 1
    BY <2>1
  <2> QED BY <2>2, <2>3
<1>3. /\ Len(past) = n - 2 /\ DOMAIN past = 1..n - 2 /\ \A i \in 1..n - 2 : past[i] = ledger[i]
  <2>1. n - 2 \in 0..n
    <3>1. n \in Nat /\ n >= 2
      BY <1>1
    <3> HIDE DEF n
    <3> QED BY <3>1
  <2>2. ledger \in Seq(Commit) /\ n - 2 \in 0..Len(ledger)
    BY <1>1, <2>1
  <2>3. \A m \in 0..Len(ledger) :
          /\ Len(Prefix(ledger, m)) = m /\ DOMAIN Prefix(ledger, m) = 1..m
          /\ \A i \in 1..m : Prefix(ledger, m)[i] = ledger[i]
    BY <2>2, PrefixFacts
  <2>4. past = Prefix(ledger, n - 2)
    OBVIOUS
  <2> HIDE DEF past, n
  <2> QED BY <2>2, <2>3, <2>4
<1> HIDE DEF past
<1>4. \A i \in 1..n - 2 : ledger[i].of # v
  <2>1. \A i \in 1..n : ledger[i].operation \in {"accept", "retract"}
    BY <1>1 DEF Commit, Operation
  <2>2. \A i, k \in 1..n :
          ledger[i].of = ledger[k].of /\ ledger[i].operation = ledger[k].operation => i = k
    BY <1>1 DEF StatusHolds
  <2> QED BY <1>2, <2>1, <2>2
<1>5. v \in gone /\ \A i \in 1..n - 2 : ledger[i].of \in gone <=> ledger[i].of \in before
  <2>1. gone = RetractedBy(ledger)
    BY <1>1, RetractedAgrees
  <2>2. v \in gone
    BY <1>1, <1>2, <2>1 DEF RetractedBy
  <2>3. ASSUME NEW i \in 1..n - 2, ledger[i].of \in gone PROVE ledger[i].of \in before
    <3>1. PICK k \in 1..n : ledger[k].operation = "retract" /\ ledger[k].of = ledger[i].of
      BY <1>1, <2>1, <2>3 DEF RetractedBy
    <3>2. k \in 1..n - 2
      BY <1>2, <1>4, <3>1
    <3> QED BY <1>3, <3>1, <3>2 DEF RetractedBy
  <2>4. ASSUME NEW i \in 1..n - 2, ledger[i].of \in before PROVE ledger[i].of \in gone
    <3>1. PICK k \in 1..n - 2 : ledger[k].operation = "retract" /\ ledger[k].of = ledger[i].of
      BY <1>3, <2>4 DEF RetractedBy
    <3> QED BY <1>1, <1>2, <2>1, <3>1 DEF RetractedBy
  <2> QED BY <2>2, <2>3, <2>4
<1>6. /\ ledger[n].links = {v} /\ ledger[n].authority = ledger[n - 1].authority
      /\ ledger[n].explicit = {}
  BY <1>1, <1>2 DEF LinksHold, LinkHolds
<1>7. /\ D[0] = {}
      /\ \A k \in 1..n - 2 : D[k] = Visit(before, plane, past[n - 1 - k], D[k - 1])
  <2>1. \A k \in 1..n - 2 : (n - 2) + 1 - k = n - 1 - k
    BY <1>1
  <2> HIDE DEF D
  <2>2. /\ D[0] = {}
        /\ \A k \in 1..n - 2 : D[k] = Visit(before, plane, past[(n - 2) + 1 - k], D[k - 1])
    <3>1. Len(past) = n - 2 /\ Len(past) \in Nat
      BY <1>2, <1>3
    <3> QED BY <3>1, VisitedSteps DEF D
  <2> QED BY <2>1, <2>2
<1>8. /\ E[0] = {}
      /\ \A k \in 1..n : E[k] = Visit(gone, plane, ledger[n + 1 - k], E[k - 1])
  BY <1>1, VisitedSteps
<1> HIDE DEF D, E
<1>9. E[2] = X
  <2>1. /\ 1 \in 1..n /\ 2 \in 1..n /\ n + 1 - 1 = n /\ n + 1 - 2 = n - 1 /\ 1 - 1 = 0 /\ 2 - 1 = 1
    BY <1>1
  <2>2. E[1] = Visit(gone, plane, ledger[n], {}) /\ E[2] = Visit(gone, plane, ledger[n - 1], E[1])
    BY <1>8, <2>1
  <2>3. E[1] = X
    BY <1>6, <2>2 DEF Visit, Deactivated
  <2> HIDE DEF X
  <2> QED BY <1>5, <2>2, <2>3 DEF Visit, Deactivated
<1>10. 0 \in S
  <2>1. 0 \in 0..n - 2 /\ 0 + 2 = 2
    BY <1>1
  <2> QED BY <1>7, <1>9, <2>1
<1>11. ASSUME NEW k \in 0..n - 2, k \in S, k < n - 2 PROVE k + 1 \in S
  <2>1. /\ k + 1 \in 1..n - 2 /\ (k + 1) - 1 = k /\ n - 1 - (k + 1) = n - 2 - k
        /\ (k + 1) + 2 \in 1..n /\ ((k + 1) + 2) - 1 = k + 2 /\ n + 1 - ((k + 1) + 2) = n - 2 - k
        /\ n - 2 - k \in 1..n - 2 /\ k + 1 \in 0..n - 2
    BY <1>1, <1>11
  <2> DEFINE c == ledger[n - 2 - k]
  <2>2. D[k + 1] = Visit(before, plane, c, D[k])
    BY <1>3, <1>7, <2>1
  <2>3. E[(k + 1) + 2] = Visit(gone, plane, c, E[k + 2])
    BY <1>8, <2>1
  <2>4. E[k + 2] = D[k] \cup X
    BY <1>11
  <2>5. c.of \notin X /\ (c.of \in gone <=> c.of \in before)
    BY <1>4, <1>5, <2>1
  <2> HIDE DEF c, X
  <2>6. Visit(gone, plane, c, D[k] \cup X) = Visit(before, plane, c, D[k]) \cup X
    BY <2>5 DEF Visit, Deactivated
  <2>7. E[(k + 1) + 2] = D[k + 1] \cup X
    BY <2>2, <2>3, <2>4, <2>6
  <2> QED BY <2>1, <2>7
<1>12. E[n] = D[n - 2] \cup X
  <2>1. n - 2 \in 0..n - 2 /\ (n - 2) + 2 = n
    BY <1>1
  <2>2. \A k \in 0..n - 2 : k \in S
    <3> HIDE DEF S
    <3> QED BY <1>2, <1>10, <1>11, UpTo
  <2> QED BY <2>1, <2>2
<1>13. Recorded(ledger, plane) = Recorded(past, plane) \cup X
  <2>1. ASSUME NEW u \in Recorded(ledger, plane) PROVE u \in Recorded(past, plane) \cup X
    <3>1. PICK i \in 1..n : ledger[i].of = u /\ ledger[i].operation = "accept" /\ ledger[i].authority = plane
      BY <1>1, <2>1 DEF Recorded
    <3>2. CASE i \in 1..n - 2
      BY <1>3, <3>1, <3>2 DEF Recorded
    <3>3. CASE i \in {n - 1, n}
      BY <1>6, <3>1, <3>3
    <3> QED BY <1>2, <3>2, <3>3
  <2>2. ASSUME NEW u \in Recorded(past, plane) PROVE u \in Recorded(ledger, plane)
    <3>1. PICK i \in 1..n - 2 : past[i].of = u /\ past[i].operation = "accept" /\ past[i].authority = plane
      BY <1>3, <2>2 DEF Recorded
    <3> QED BY <1>1, <1>2, <1>3, <3>1 DEF Recorded
  <2>3. X \subseteq Recorded(ledger, plane)
    BY <1>1, <1>2, <1>6 DEF Recorded
  <2> QED BY <2>1, <2>2, <2>3
<1>14. X \cap Recorded(past, plane) = {}
  BY <1>3, <1>4 DEF Recorded
<1>15. Live(ledger, gone, plane) = Recorded(ledger, plane) \ E[n]
  BY DEF Live, Inactive, E
<1>16. Live(past, before, plane) = Recorded(past, plane) \ D[n - 2]
  BY <1>3 DEF Live, Inactive, D
<1> HIDE DEF X, n
<1> QED BY <1>12, <1>13, <1>14, <1>15, <1>16

(* What the newest commit adds is inactive in the end.                        *)
LEMMA NewestCounts ==
  ASSUME NEW log \in Seq(Commit), NEW c \in Commit, NEW gone
  PROVE  Adds(gone, c.authority, c, {}) \subseteq Inactive(Append(log, c), gone, c.authority)
<1> DEFINE n == Len(log)
           new == Append(log, c)
           plane == c.authority
           E == Visited(new, gone, plane)
           A(i) == Adds(gone, plane, new[i], E[n + 1 - i])
<1>1. Len(new) = n + 1 /\ n \in Nat /\ new[n + 1] = c
  <2> HIDE DEF new
  <2> QED BY AppendFacts DEF new
<1>2. \A k \in 0..n + 1 : E[k] = UNION {A(i) : i \in (n + 1) - k + 1..n + 1}
  <2>1. Len(new) \in Nat /\ Len(new) = n + 1
    BY <1>1
  <2> HIDE DEF new
  <2> QED BY <2>1, VisitedAdds
<1>3. E[0] = {}
  <2>1. Len(new) \in Nat
    BY <1>1
  <2> HIDE DEF new
  <2> QED BY <2>1, VisitedSteps
<1> HIDE DEF new, E
<1>4. n + 1 \in 0..n + 1 /\ (n + 1) - (n + 1) + 1 = 1 /\ n + 1 \in 1..n + 1 /\ n + 1 - (n + 1) = 0
  BY <1>1
<1>5. A(n + 1) = Adds(gone, plane, c, {})
  BY <1>1, <1>3, <1>4
<1>6. A(n + 1) \subseteq E[n + 1]
  <2>1. E[n + 1] = UNION {A(i) : i \in 1..n + 1}
    <3> HIDE DEF A, n
    <3> QED BY <1>2, <1>4
  <2> HIDE DEF A, n
  <2> QED BY <1>4, <2>1
<1> QED BY <1>1, <1>5, <1>6 DEF Inactive, E, new

(* An accept with an explicit link to an event that corrects nothing: before  *)
(* its automatic links are in, that event is what it adds.                    *)
LEMMA ExplicitAdds ==
  ASSUME NEW log \in Seq(Commit), NEW c \in Commit, NEW gone,
         c.operation = "accept", c.links = {}, c.of \notin gone,
         \A i \in DOMAIN log : log[i].of \in c.explicit => log[i].explicit = {}
  PROVE  Inactive(Append(log, c), gone, c.authority)
           = Inactive(log, gone, c.authority) \cup c.explicit
<1> DEFINE n == Len(log)
           new == Append(log, c)
           plane == c.authority
           X == c.explicit
           D == Visited(log, gone, plane)
           E == Visited(new, gone, plane)
           S == {k \in 0..n : E[k + 1] = D[k] \cup X}
<1>1. n \in Nat /\ DOMAIN log = 1..n
  OBVIOUS
<1>2. /\ D[0] = {}
      /\ \A k \in 1..n : D[k] = Visit(gone, plane, log[n + 1 - k], D[k - 1])
  BY <1>1, VisitedSteps
<1>3. /\ E[1] = Visit(gone, plane, c, {})
      /\ \A k \in 1..n : E[k + 1] = Visit(gone, plane, log[n + 1 - k], E[k])
      /\ Inactive(new, gone, plane) = E[n + 1]
  BY VisitedAppend
<1> HIDE DEF D, E
<1>4. 0 \in S
  <2>1. 0 \in 0..n /\ 0 + 1 = 1
    BY <1>1
  <2>2. E[1] = X
    BY <1>3 DEF Visit, Deactivated
  <2> QED BY <1>2, <2>1, <2>2
<1>5. ASSUME NEW k \in 0..n, k \in S, k < n PROVE k + 1 \in S
  <2>1. k + 1 \in 1..n /\ (k + 1) - 1 = k /\ k + 1 \in 0..n /\ n + 1 - (k + 1) \in 1..n
    BY <1>1, <1>5
  <2> DEFINE b == log[n + 1 - (k + 1)]
  <2>2. D[k + 1] = Visit(gone, plane, b, D[k])
    BY <1>2, <2>1
  <2>3. E[(k + 1) + 1] = Visit(gone, plane, b, E[k + 1])
    BY <1>3, <2>1
  <2>4. b.of \in X => b.explicit = {}
    BY <1>1, <2>1
  <2>5. E[k + 1] = D[k] \cup X
    BY <1>5
  <2> HIDE DEF b, X
  <2>6. Visit(gone, plane, b, D[k] \cup X) = Visit(gone, plane, b, D[k]) \cup X
    BY <2>4 DEF Visit, Deactivated
  <2>7. E[(k + 1) + 1] = D[k + 1] \cup X
    BY <2>2, <2>3, <2>5, <2>6
  <2> QED BY <2>1, <2>7
<1>6. \A k \in 0..n : k \in S
  <2> HIDE DEF S
  <2> QED BY <1>1, <1>4, <1>5, UpTo
<1>7. E[n + 1] = D[n] \cup X
  <2>1. n \in 0..n
    BY <1>1
  <2> QED BY <1>6, <2>1
<1>8. Inactive(log, gone, plane) = D[n]
  BY DEF Inactive, D
<1> QED BY <1>3, <1>7, <1>8

-----------------------------------------------------------------------------
(* One step.                                                                  *)

Plane(stage) == stage = "final"

(* An event is recorded in the plane of its stage, and decided.               *)
LEMMA RecordedStage ==
  ASSUME IInv, NEW plane, NEW v \in Recorded(ledger, plane)
  PROVE  /\ v \in Version /\ proposal[v].stage \in Stage /\ plane = Plane(proposal[v].stage)
         /\ proposal[v].status \in {"accepted", "retracted"}
<1>1. PICK i \in DOMAIN ledger : ledger[i].of = v /\ ledger[i].authority = plane
  BY DEF Recorded
<1>2. ledger[i].authority = MovesCanon(proposal, v)
  BY <1>1 DEF IInv, Replayable, LinksHold, LinkHolds
<1>3. v \in Version
  BY RecordedType DEF IInv, TypeOK
<1>4. proposal[v] \in ProposalRow
  BY <1>3 DEF IInv, TypeOK
<1>5. proposal[v].status \in {"accepted", "retracted"}
  BY <1>1, CommittedDecided DEF IInv, TypeOK, Replayable
<1> QED BY <1>1, <1>2, <1>3, <1>4, <1>5 DEF MovesCanon, Plane, ProposalRow

(* A stage has a plane of its own.                                            *)
LEMMA CountingIsLive ==
  IInv => \A stage \in Stage :
            Counting(stage) = Live(ledger, Retracted(proposal), Plane(stage))
<1> SUFFICES ASSUME IInv, NEW stage \in Stage
             PROVE  Counting(stage) = Live(ledger, Retracted(proposal), Plane(stage))
  OBVIOUS
<1>1. \A plane : \A v \in Recorded(ledger, plane) :
        plane = (proposal[v].stage = "final") /\ v \in Version /\ proposal[v].stage \in Stage
  BY RecordedStage DEF Plane
<1>2. \A s \in Stage : s = "final" \/ s = "draft"
  BY CanonAssumption
<1>3. Plane(stage) \in BOOLEAN /\ (stage = "final" <=> Plane(stage) = TRUE)
  BY DEF Plane
<1>4. \A v \in Recorded(ledger, Plane(stage)) : proposal[v].stage = stage
  BY <1>1, <1>2 DEF Plane
<1>5. \A plane \in BOOLEAN : \A v \in Recorded(ledger, plane) :
        proposal[v].stage = stage => plane = Plane(stage)
  BY <1>1 DEF Plane
<1>6. \A plane \in BOOLEAN : Live(ledger, Retracted(proposal), plane) \subseteq Recorded(ledger, plane)
  BY DEF Live
<1>7. Recorded(ledger, Plane(stage)) \subseteq Version
  BY <1>1
<1>8. \A v \in Counting(stage) : /\ proposal[v].stage = stage
                                 /\ \E plane \in BOOLEAN : v \in Live(ledger, Retracted(proposal), plane)
  BY DEF Counting
<1>9. \A v \in Counting(stage) : v \in Live(ledger, Retracted(proposal), Plane(stage))
  BY <1>5, <1>6, <1>8
<1>10. ASSUME NEW v \in Live(ledger, Retracted(proposal), Plane(stage)) PROVE v \in Counting(stage)
  <2>1. proposal[v].stage = stage
    BY <1>3, <1>4, <1>6
  <2>2. v \in Live(ledger, Retracted(proposal), TRUE) \cup Live(ledger, Retracted(proposal), FALSE)
    BY <1>3, <1>10
  <2> QED BY <2>1, <2>2 DEF Counting
<1>11. Counting(stage) \subseteq Live(ledger, Retracted(proposal), Plane(stage))
  BY <1>9
<1>12. Live(ledger, Retracted(proposal), Plane(stage)) \subseteq Counting(stage)
  BY <1>10
<1> QED BY <1>11, <1>12

(* What a step that commits does.                                             *)
Commits(g, c) ==
  /\ c \in Commit /\ c.of = grant[g].for /\ ledger' = Append(ledger, c)
  /\ c.authority = Plane(proposal[c.of].stage)
  /\ canon' = IF c.authority THEN Len(ledger) + 1 ELSE canon
  /\ \A u \in Version : /\ proposal'[u].stage = proposal[u].stage
                        /\ u # c.of => proposal'[u].status = proposal[u].status

LEMMA CommitStep ==
  ASSUME IInv, Next, Committed
  PROVE  \E g \in Grant :
           \/ Accept(g) /\ Commits(g, AcceptCommit(g))
           \/ Retract(g) /\ Commits(g, RetractCommit(g))
<1>1. TypeOK /\ ledger \in Seq(Commit)
  BY DEF IInv, TypeOK
<1>2. ledger' # ledger
  <2>1. Len(ledger) \in Nat
    BY <1>1
  <2> QED BY <2>1 DEF Committed
<1>3. PICK g \in Grant : Accept(g) \/ Retract(g)
  BY <1>2 DEF Next, Save, Reject, Issue, Expire
<1>4. grant[g].for \in Version
  BY <1>1, <1>3 DEF Accept, Acceptable, Retract, Retractable, Usable, IInv, GrantsBind
<1>5. CASE Accept(g)
  <2> DEFINE c == AcceptCommit(g)
  <2>1. /\ c \in Commit /\ c.of = grant[g].for /\ c.authority = MovesCanon(proposal, c.of)
        /\ c.after = IF c.authority THEN Len(ledger) + 1 ELSE canon
    <3>1. c \in Commit
      BY <1>1, <1>4, CommitTypes
    <3>2. /\ c.of = grant[g].for /\ c.authority = MovesCanon(proposal, grant[g].for)
          /\ c.after = IF c.authority THEN Len(ledger) + 1 ELSE canon
      BY <1>1, <1>4, CommitFields
    <3> HIDE DEF c
    <3> QED BY <3>1, <3>2
  <2>2. /\ ledger' = Append(ledger, c) /\ canon' = c.after /\ proposal' = AfterAccept(grant[g].for)
    BY <1>5 DEF Accept
  <2>3. \A u \in Version : /\ proposal'[u].stage = proposal[u].stage
                           /\ u # grant[g].for => proposal'[u].status = proposal[u].status
    BY <1>1, <1>4, <2>2, RowsAfter
  <2> HIDE DEF c
  <2>4. Commits(g, c)
    BY <2>1, <2>2, <2>3 DEF Commits, MovesCanon, Plane
  <2> QED BY <1>5, <2>4 DEF c
<1>6. CASE Retract(g)
  <2> DEFINE c == RetractCommit(g)
  <2>1. /\ c \in Commit /\ c.of = grant[g].for /\ c.authority = MovesCanon(proposal, c.of)
        /\ c.after = IF c.authority THEN Len(ledger) + 1 ELSE canon
    BY <1>1, <1>4, CommitTypes, CommitFields
  <2>2. /\ ledger' = Append(ledger, c) /\ canon' = c.after /\ proposal' = AfterRetract(grant[g].for)
    BY <1>6 DEF Retract
  <2>3. \A u \in Version : /\ proposal'[u].stage = proposal[u].stage
                           /\ u # grant[g].for => proposal'[u].status = proposal[u].status
    BY <1>1, <1>4, <2>2, RowsAfter
  <2> HIDE DEF c
  <2>4. Commits(g, c)
    BY <2>1, <2>2, <2>3 DEF Commits, MovesCanon, Plane
  <2> QED BY <1>6, <2>4 DEF c
<1> QED BY <1>3, <1>5, <1>6

(* The commit and the stage of its event, after the step.                     *)
LEMMA LatestIs ==
  ASSUME IInv, NEW g \in Grant, NEW c, Commits(g, c)
  PROVE  Latest' = c /\ StageOf(Latest)' = proposal[c.of].stage /\ proposal[c.of].stage \in Stage
<1>1. Latest' = c
  <2>1. /\ Len(Append(ledger, c)) = Len(ledger) + 1 /\ Append(ledger, c)[Len(ledger) + 1] = c
    BY AppendFacts DEF IInv, TypeOK, Commits
  <2>2. ledger' = Append(ledger, c)
    BY DEF Commits
  <2> QED BY <2>1, <2>2 DEF Latest
<1>2. c.of \in Version
  BY DEF Commits, Commit
<1>3. proposal'[c.of].stage = proposal[c.of].stage
  BY <1>2 DEF Commits
<1>4. proposal[c.of] \in ProposalRow
  BY <1>2 DEF IInv, TypeOK
<1> QED BY <1>1, <1>3, <1>4 DEF StageOf, ProposalRow

(* The other plane keeps what counts.                                         *)
LEMMA PlaneKept ==
  ASSUME IInv, NEW g \in Grant, NEW c, Commits(g, c), NEW plane, plane # c.authority
  PROVE  Live(ledger', Retracted(proposal'), plane) = Live(ledger, Retracted(proposal), plane)
<1>1. ledger \in Seq(Commit) /\ c \in Commit /\ ledger' = Append(ledger, c)
  BY DEF IInv, TypeOK, Commits
<1>2. ASSUME NEW i \in DOMAIN ledger, ledger[i].authority = plane
      PROVE  ledger[i].of \in Retracted(proposal') <=> ledger[i].of \in Retracted(proposal)
  <2>1. ledger[i].authority = Plane(proposal[ledger[i].of].stage)
    BY DEF IInv, Replayable, LinksHold, LinkHolds, MovesCanon, Plane
  <2>2. c.authority = Plane(proposal[c.of].stage)
    BY DEF Commits
  <2>3. ledger[i].of # c.of
    BY <1>2, <2>1, <2>2
  <2>4. ledger[i].of \in Version
    <3>1. ledger[i] \in Commit
      BY <1>1
    <3> QED BY <3>1 DEF Commit
  <2> QED BY <2>3, <2>4 DEF Commits, Retracted
<1> DEFINE gone == Retracted(proposal)
           now == Retracted(proposal')
<1>3. \A i \in DOMAIN ledger : ledger[i].authority = plane => (ledger[i].of \in now <=> ledger[i].of \in gone)
  BY <1>2
<1> HIDE DEF gone, now
<1>4. Live(Append(ledger, c), now, plane) = Live(ledger, gone, plane)
  BY <1>1, <1>3, OtherPlane
<1> QED BY <1>1, <1>4 DEF gone, now

(* What counted before an accept and counts after it is not older, unless the *)
(* accept corrects a correction.                                              *)
LEMMA AcceptReplaces ==
  ASSUME IInv, NEW g \in Grant, Accept(g), Commits(g, AcceptCommit(g)),
         \A w \in AcceptCommit(g).explicit : proposal[w].fixes = None,
         NEW u, ArtifactOf(u) = ArtifactOf(AcceptCommit(g).of),
         u \in Live(ledger, Retracted(proposal), AcceptCommit(g).authority),
         u \in Live(ledger', Retracted(proposal'), AcceptCommit(g).authority)
  PROVE  RevisionOf(u) >= RevisionOf(AcceptCommit(g).of)
<1> DEFINE c == AcceptCommit(g)
           bare == [c EXCEPT !.links = {}]
           gone == Retracted(proposal)
           plane == c.authority
<1>1. /\ TypeOK /\ ledger \in Seq(Commit) /\ c \in Commit /\ ledger' = Append(ledger, c)
      /\ LinksHold(proposal, ledger) /\ StatusHolds(proposal, ledger)
  BY DEF IInv, TypeOK, Commits, Replayable
<1>2. /\ grant[g].for \in Version /\ proposal[grant[g].for].status = "proposed"
      /\ proposal' = AfterAccept(grant[g].for)
  BY DEF Accept, Acceptable, Usable, IInv, GrantsBind
<1>3. c.of \in Version /\ c.of \notin gone
  BY <1>1, <1>2 DEF Commits, Commit, Retracted
<1>4. Retracted(proposal') = gone
  BY <1>1, <1>2, RowsAfter DEF Retracted
<1>5. /\ c.operation = "accept" /\ c.of = grant[g].for
      /\ c.links = Superseded(ledger, gone, bare)
  BY <1>1, <1>2, CommitFields
<1>6. /\ bare \in Commit /\ bare.operation = "accept" /\ bare.links = {}
      /\ bare.of = c.of /\ bare.authority = plane /\ bare.explicit = c.explicit
  <2> HIDE DEF c
  <2> QED BY <1>1, <1>5 DEF Commit, plane
<1> HIDE DEF c, bare, gone
<1>7. Inactive(Append(ledger, bare), gone, plane) = Inactive(ledger, gone, plane) \cup c.explicit
  <2>1. ASSUME NEW i \in DOMAIN ledger, ledger[i].of \in bare.explicit
        PROVE  ledger[i].explicit = {}
    <3>1. proposal[ledger[i].of].fixes = None
      BY <1>6, <2>1 DEF c
    <3>2. ledger[i].operation \in {"accept", "retract"}
      <4>1. ledger[i] \in Commit
        BY <1>1
      <4> QED BY <4>1 DEF Commit, Operation
    <3>3. LinkHolds(proposal, Prefix(ledger, i - 1), ledger[i])
      BY <1>1 DEF LinksHold
    <3> QED BY <3>1, <3>2, <3>3 DEF LinkHolds, Explicit
  <2>2. Inactive(Append(ledger, bare), gone, bare.authority)
          = Inactive(ledger, gone, bare.authority) \cup bare.explicit
    <3> HIDE DEF plane
    <3> QED BY <1>1, <1>3, <1>6, <2>1, ExplicitAdds
  <2> QED BY <1>6, <2>2
<1>8. u \in Recorded(ledger, plane) /\ u \notin Inactive(ledger, gone, plane)
  BY DEF Live, c, gone
<1>9. u \notin Inactive(Append(ledger, c), gone, plane)
  <2>1. u \in Live(Append(ledger, c), gone, plane)
    BY <1>1, <1>4 DEF c
  <2> QED BY <2>1 DEF Live
<1>10. c.links \cup c.explicit \subseteq Inactive(Append(ledger, c), gone, plane)
  <2>1. c.of \notin c.links
    <3>1. c.of \notin OlderThan(ledger, c.of, plane)
      <4>1. RevisionOf(c.of) \in Nat
        BY <1>3 DEF Version, RevisionOf
      <4> QED BY <4>1 DEF OlderThan
    <3> QED BY <1>5, <1>6, <3>1 DEF Superseded
  <2>2. Adds(gone, plane, c, {}) = c.links \cup c.explicit
    BY <1>3, <2>1 DEF Adds
  <2>3. Adds(gone, plane, c, {}) \subseteq Inactive(Append(ledger, c), gone, plane)
    BY <1>1, NewestCounts
  <2> QED BY <2>2, <2>3
<1>11. ASSUME RevisionOf(u) < RevisionOf(c.of) PROVE FALSE
  <2>1. u \in OlderThan(ledger, c.of, plane)
    BY <1>8, <1>11 DEF OlderThan, c
  <2>2. u \notin c.links /\ u \notin c.explicit
    BY <1>9, <1>10
  <2>3. u \in Inactive(Append(ledger, bare), gone, plane)
    BY <1>5, <1>6, <2>1, <2>2 DEF Superseded
  <2> HIDE DEF plane
  <2> QED BY <1>7, <1>8, <2>2, <2>3
<1>12. RevisionOf(u) \in Nat /\ RevisionOf(c.of) \in Nat
  <2>1. u \in Version
    BY <1>1, <1>8, RecordedType
  <2> QED BY <1>3, <2>1 DEF Version, RevisionOf
<1> QED BY <1>11, <1>12 DEF c

(* Without explicit links each commit adds the same whenever it is visited.   *)
LEMMA UncorrectedInactive ==
  ASSUME NEW log \in Seq(Commit), NEW gone, NEW plane,
         \A i \in DOMAIN log : log[i].explicit = {}
  PROVE  Inactive(log, gone, plane) = UNION {Adds(gone, plane, log[i], {}) : i \in DOMAIN log}
<1> DEFINE n == Len(log)
           D == Visited(log, gone, plane)
           A(i) == Adds(gone, plane, log[i], D[n - i])
           B(i) == Adds(gone, plane, log[i], {})
<1>1. n \in Nat /\ DOMAIN log = 1..n
  OBVIOUS
<1>2. \A k \in 0..n : D[k] = UNION {A(i) : i \in n - k + 1..n}
  BY <1>1, VisitedAdds
<1>3. \A i \in 1..n : A(i) = B(i)
  BY <1>1 DEF Adds
<1>4. n \in 0..n /\ n - n + 1 = 1
  BY <1>1
<1>5. Inactive(log, gone, plane) = D[n]
  BY DEF Inactive
<1> HIDE DEF D, A, B
<1>6. D[n] = UNION {A(i) : i \in 1..n}
  BY <1>2, <1>4
<1>7. D[n] = UNION {B(i) : i \in 1..n}
  BY <1>3, <1>6
<1> QED BY <1>1, <1>5, <1>7 DEF B

LEMMA UncorrectedAppend ==
  ASSUME NEW log \in Seq(Commit), NEW c \in Commit, NEW gone, NEW plane,
         \A i \in DOMAIN log : log[i].explicit = {}, c.explicit = {}
  PROVE  Inactive(Append(log, c), gone, plane)
           = Inactive(log, gone, plane) \cup Adds(gone, plane, c, {})
<1> DEFINE n == Len(log)
           new == Append(log, c)
           B(d) == Adds(gone, plane, d, {})
<1>1. /\ new \in Seq(Commit) /\ DOMAIN new = 1..n + 1 /\ DOMAIN log = 1..n /\ n \in Nat
      /\ new[n + 1] = c /\ \A i \in 1..n : new[i] = log[i]
  <2> HIDE DEF new
  <2> QED BY AppendFacts DEF new
<1>2. \A i \in 1..n + 1 : i \in 1..n \/ i = n + 1
  BY <1>1
<1>3. \A i \in DOMAIN new : new[i].explicit = {}
  <2> HIDE DEF new
  <2> QED BY <1>1, <1>2
<1> HIDE DEF new
<1>4. Inactive(new, gone, plane) = UNION {B(new[i]) : i \in 1..n + 1}
  BY <1>1, <1>3, UncorrectedInactive
<1>5. Inactive(log, gone, plane) = UNION {B(log[i]) : i \in 1..n}
  BY <1>1, UncorrectedInactive
<1>6. 1..n + 1 = 1..n \cup {n + 1}
  BY <1>1
<1> HIDE DEF B
<1>7. UNION {B(new[i]) : i \in 1..n + 1} = (UNION {B(new[i]) : i \in 1..n}) \cup B(new[n + 1])
  BY <1>6
<1>8. UNION {B(new[i]) : i \in 1..n} = UNION {B(log[i]) : i \in 1..n}
  BY <1>1
<1> QED BY <1>1, <1>4, <1>5, <1>7, <1>8 DEF B, new

(* With more retracted fewer links are in force.                              *)
LEMMA UncorrectedFewer ==
  ASSUME NEW log \in Seq(Commit), NEW gone, NEW now, NEW plane, gone \subseteq now,
         \A i \in DOMAIN log : log[i].explicit = {}
  PROVE  Inactive(log, now, plane) \subseteq Inactive(log, gone, plane)
<1>1. Inactive(log, now, plane) = UNION {Adds(now, plane, log[i], {}) : i \in DOMAIN log}
  BY UncorrectedInactive
<1>2. Inactive(log, gone, plane) = UNION {Adds(gone, plane, log[i], {}) : i \in DOMAIN log}
  BY UncorrectedInactive
<1>3. \A i \in DOMAIN log : Adds(now, plane, log[i], {}) \subseteq Adds(gone, plane, log[i], {})
  BY DEF Adds
<1> QED BY <1>1, <1>2, <1>3

(* Where no delta corrects an event, no commit has an explicit link.          *)
LEMMA NoneExplicit ==
  ASSUME TypeOK, LinksHold(proposal, ledger), \A v \in Version : proposal[v].fixes = None
  PROVE  \A i \in DOMAIN ledger : ledger[i].explicit = {}
<1> SUFFICES ASSUME NEW i \in DOMAIN ledger PROVE ledger[i].explicit = {}
  OBVIOUS
<1>1. ledger[i].of \in Version /\ ledger[i].operation \in {"accept", "retract"}
  <2>1. ledger[i] \in Commit
    BY DEF TypeOK
  <2> QED BY <2>1 DEF Commit, Operation
<1>2. LinkHolds(proposal, Prefix(ledger, i - 1), ledger[i])
  BY DEF LinksHold
<1> QED BY <1>1, <1>2 DEF LinkHolds, Explicit

(* No delta names an event it supersedes.                                     *)
NoCorrection == \A v \in Version : proposal[v].fixes = None

LEMMA NoCorrections ==
  ASSUME ~ExplicitLinks
  PROVE  Spec => []NoCorrection
<1>1. Init => NoCorrection
  BY DEF Init, NoCorrection
<1>2. ASSUME IInv, NoCorrection, [Next]_vars PROVE NoCorrection'
  <2>1. \A v \in Version : proposal[v].fixes = None
    BY <1>2 DEF NoCorrection
  <2>2. TypeOK /\ proposal \in [Version -> ProposalRow]
    BY <1>2 DEF IInv, TypeOK
  <2>3. ASSUME NEW a \in Artifact, Save(a) PROVE NoCorrection'
    <3>1. PICK r \in NextRevision(a), stage \in Stage, prepared \in Named \cup {canon},
               valid \in BOOLEAN, fix \in Linkable :
            proposal' = [proposal EXCEPT ![<<a, r>>] =
                          [status |-> "proposed", stage |-> stage, prepared |-> prepared,
                           valid |-> valid, fixes |-> fix, active |-> FALSE]]
      BY <2>3 DEF Save
    <3>2. fix = None
      BY <3>1 DEF Linkable
    <3> QED BY <2>1, <2>2, <3>1, <3>2 DEF NoCorrection
  <2>4. ASSUME NEW v \in Version, Reject(v) PROVE NoCorrection'
    BY <2>1, <2>2, <2>4 DEF Reject, ProposalRow, NoCorrection
  <2>5. ASSUME NEW g \in Grant, Accept(g) \/ Retract(g) PROVE NoCorrection'
    <3>1. grant[g].for \in Version
      BY <1>2, <2>5 DEF Accept, Acceptable, Retract, Retractable, Usable, IInv, GrantsBind
    <3>2. proposal' = AfterAccept(grant[g].for) \/ proposal' = AfterRetract(grant[g].for)
      BY <2>5 DEF Accept, Retract
    <3>3. \A u \in Version : /\ AfterAccept(grant[g].for)[u].fixes = None
                              /\ AfterRetract(grant[g].for)[u].fixes = None
      <4>1. \A u \in Version : /\ AfterAccept(grant[g].for)[u].fixes = proposal[u].fixes
                                /\ AfterRetract(grant[g].for)[u].fixes = proposal[u].fixes
        BY <2>2, <3>1, RowsAfter
      <4> QED BY <2>1, <4>1
    <3> QED BY <3>2, <3>3 DEF NoCorrection
  <2>6. CASE UNCHANGED proposal
    BY <1>2, <2>6 DEF NoCorrection
  <2> QED BY <1>2, <2>3, <2>4, <2>5, <2>6 DEF Next, Issue, Expire, vars
<1> QED BY <1>1, <1>2, SpecIInv, PTL DEF Spec

-----------------------------------------------------------------------------
(* What a reader is promised (CanonOutcome), step by step.                    *)

(* What counts is accepted, in its stage.                                     *)
CountsAccepted ==
  \A stage \in {"final", "draft"} : \A u \in Counts[stage] :
    /\ u \in Version
    /\ proposal[u].status = "accepted" /\ proposal[u].stage = stage

LEMMA CountedAccepted == IInv => CountsAccepted
<1> SUFFICES ASSUME IInv, NEW stage \in {"final", "draft"}, NEW u \in Counts[stage]
             PROVE  /\ u \in Version
                    /\ proposal[u].status = "accepted" /\ proposal[u].stage = stage
  BY DEF CountsAccepted
<1>1. u \in Recorded(ledger, Plane(stage)) /\ u \notin Inactive(ledger, Retracted(proposal), Plane(stage))
  BY DEF Counts, Live, Plane
<1>2. /\ u \in Version /\ proposal[u].stage \in Stage /\ Plane(stage) = Plane(proposal[u].stage)
      /\ proposal[u].status \in {"accepted", "retracted"}
  BY <1>1, RecordedStage
<1>3. proposal[u].stage = stage
  BY <1>2, CanonAssumption DEF Plane
<1>4. Plane(stage) \in BOOLEAN
  BY DEF Plane
<1>5. Retracted(proposal) \cap Recorded(ledger, Plane(stage))
        \subseteq Inactive(ledger, Retracted(proposal), Plane(stage))
  BY <1>4, ReplayIsExact DEF IInv, Replayable
<1>6. u \notin Retracted(proposal)
  BY <1>1, <1>5
<1> QED BY <1>2, <1>3, <1>6 DEF Retracted

(* The canon revision is never ahead of the head of the ledger.               *)
LEMMA CanonBehindHead ==
  ASSUME NEW log \in Seq(Commit), NEW active, ChainHolds(log, active)
  PROVE  active <= Len(log)
<1> DEFINE n == Len(log)
           S == {k \in 0..n : ActiveBefore(log, k + 1) \in Nat /\ ActiveBefore(log, k + 1) <= k}
<1>1. n \in Nat /\ DOMAIN log = 1..n
  OBVIOUS
<1>2. 0 \in S
  BY <1>1 DEF ActiveBefore
<1>3. ASSUME NEW k \in 0..n, k \in S, k < n PROVE k + 1 \in S
  <2>1. k + 1 \in 1..n /\ k + 1 \in 0..n /\ (k + 1) + 1 # 1 /\ ((k + 1) + 1) - 1 = k + 1
    BY <1>1, <1>3
  <2>2. ActiveBefore(log, (k + 1) + 1) = log[k + 1].after
    BY <2>1 DEF ActiveBefore
  <2>3. log[k + 1].after = IF log[k + 1].authority THEN k + 1 ELSE ActiveBefore(log, k + 1)
    BY <1>1, <2>1 DEF ChainHolds
  <2>4. ActiveBefore(log, k + 1) \in Nat /\ ActiveBefore(log, k + 1) <= k
    BY <1>3
  <2> QED BY <2>1, <2>2, <2>3, <2>4
<1>4. \A k \in 0..n : k \in S
  <2> HIDE DEF S
  <2> QED BY <1>1, <1>2, <1>3, UpTo
<1>5. n \in S
  BY <1>1, <1>4
<1> QED BY <1>5 DEF ChainHolds

(* The newest accept counts.                                                  *)
LEMMA NewestLives ==
  ASSUME NEW rows, NEW log \in Seq(Commit), NEW c \in Commit, c.operation = "accept", NEW gone,
         StatusHolds(rows, Append(log, c)), LinksHold(rows, Append(log, c))
  PROVE  c.of \in Live(Append(log, c), gone, c.authority)
<1> DEFINE new == Append(log, c)
           n == Len(new)
           D == Visited(new, gone, c.authority)
           A(i) == Adds(gone, c.authority, new[i], D[n - i])
<1>1. /\ new \in Seq(Commit) /\ n \in Nat /\ n \in DOMAIN new /\ DOMAIN new = 1..n /\ new[n] = c
  <2> HIDE DEF new
  <2> QED BY AppendFacts DEF new
<1>2. c.of \in Recorded(new, c.authority)
  <2>1. Recorded(new, c.authority) = Recorded(log, c.authority) \cup {c.of}
    BY RecordedAppend
  <2> QED BY <2>1
<1>3. StatusHolds(rows, new) /\ LinksHold(rows, new)
  OBVIOUS
<1> HIDE DEF new
<1>4. \A k \in 0..n : D[k] = UNION {A(i) : i \in n - k + 1..n}
  <2>1. Len(new) \in Nat
    BY <1>1
  <2> QED BY <2>1, VisitedAdds
<1>5. D[n] = UNION {A(i) : i \in 1..n}
  <2>1. n \in 0..n /\ n - n + 1 = 1
    BY <1>1
  <2> HIDE DEF A, D, n
  <2> QED BY <1>4, <2>1
<1>6. ASSUME NEW i \in 1..n, c.of \in A(i) PROVE FALSE
  <2>1. i \in DOMAIN new /\ i <= n
    BY <1>1
  <2>2. new[n].of \notin new[i].links \cup new[i].explicit
    BY <1>1, <1>3, <2>1, LinksPointBack
  <2>3. A(i) \subseteq new[i].links \cup new[i].explicit
    BY DEF Adds
  <2> HIDE DEF A, n
  <2> QED BY <1>1, <1>6, <2>2, <2>3
<1>7. c.of \notin Inactive(new, gone, c.authority)
  <2> HIDE DEF A
  <2>1. c.of \notin D[n]
    BY <1>5, <1>6
  <2> QED BY <2>1 DEF Inactive
<1> QED BY <1>2, <1>7 DEF Live, new

(* The fields of Deltas.                                                      *)
LEMMA DeltaFields ==
  /\ \A v \in Version : /\ Deltas[v].status = proposal[v].status
                        /\ Deltas[v].stage = proposal[v].stage
                        /\ Deltas[v].prepared = proposal[v].prepared
                        /\ Deltas[v].fixes = proposal[v].fixes
  /\ \A stage \in {"final", "draft"} :
       Counts[stage] = Live(ledger, Retracted(proposal), Plane(stage))
  /\ DOMAIN Counts = {"final", "draft"}
BY DEF Deltas, Counts, Plane

LEMMA DeltaFieldsNext ==
  /\ \A v \in Version : /\ Deltas'[v].status = proposal'[v].status
                        /\ Deltas'[v].stage = proposal'[v].stage
                        /\ Deltas'[v].prepared = proposal'[v].prepared
                        /\ Deltas'[v].fixes = proposal'[v].fixes
  /\ \A stage \in {"final", "draft"} :
       Counts'[stage] = Live(ledger', Retracted(proposal'), Plane(stage))
  /\ DOMAIN Counts' = {"final", "draft"}
BY DEF Deltas, Counts, Plane

(* One row gets another status.                                               *)
LEMMA DeltaWrite ==
  ASSUME NEW v \in Version, NEW status,
         \A u \in Version : /\ proposal'[u].stage = proposal[u].stage
                            /\ proposal'[u].prepared = proposal[u].prepared
                            /\ proposal'[u].fixes = proposal[u].fixes
                            /\ proposal'[u].status = IF u = v THEN status ELSE proposal[u].status
  PROVE  Deltas' = [Deltas EXCEPT ![v].status = status]
<1> DEFINE new == [Deltas EXCEPT ![v].status = status]
           Row(u) == [status |-> proposal[u].status, stage |-> proposal[u].stage,
                      prepared |-> proposal[u].prepared, fixes |-> proposal[u].fixes]
           New(u)  == [status |-> proposal'[u].status, stage |-> proposal'[u].stage,
                       prepared |-> proposal'[u].prepared, fixes |-> proposal'[u].fixes]
<1>1. Deltas = [u \in Version |-> Row(u)] /\ Deltas' = [u \in Version |-> New(u)]
  BY DEF Deltas
<1>2. ASSUME NEW u \in Version, u # v PROVE New(u) = Row(u)
  BY <1>2
<1>3. New(v) = [Row(v) EXCEPT !.status = status]
  OBVIOUS
<1> HIDE DEF Row, New
<1> QED BY <1>1, <1>2, <1>3

(* What an accept or a retract decides.                                       *)
LEMMA PromisedDecision ==
  ASSUME IInv, CountsAccepted', NEW g \in Grant, NEW c, Commits(g, c), NEW status,
         \A u \in Version : /\ proposal'[u].stage = proposal[u].stage
                            /\ proposal'[u].prepared = proposal[u].prepared
                            /\ proposal'[u].fixes = proposal[u].fixes
                            /\ proposal'[u].status = IF u = c.of THEN status ELSE proposal[u].status
  PROVE  /\ Promise!Decide(c.of, status)
         /\ Promise!Counted(c.of)
<1>1. c.of \in Version /\ proposal[c.of].stage \in Stage /\ canon \in Nat
  <2>1. c.of \in Version
    BY DEF Commits, Commit
  <2> QED BY <2>1 DEF IInv, TypeOK, ProposalRow
<1>2. Promise!Decide(c.of, status)
  <2>1. Deltas' = [Deltas EXCEPT ![c.of].status = status]
    BY <1>1, DeltaWrite
  <2>2. Deltas[c.of].stage = proposal[c.of].stage
    BY <1>1, DeltaFields
  <2>3. canon <= Len(ledger) /\ Len(ledger) \in Nat
    BY CanonBehindHead DEF IInv, TypeOK, Replayable
  <2>4. canon' = IF proposal[c.of].stage = "final" THEN Len(ledger) + 1 ELSE canon
    BY DEF Commits, Plane
  <2>5. Len(ledger) + 1 > canon
    BY <1>1, <2>3
  <2> QED BY <2>1, <2>2, <2>4, <2>5 DEF Promise!Decide
<1>3. ASSUME NEW stage \in DOMAIN Counts', NEW u \in Counts'[stage]
      PROVE  Deltas'[u].status = "accepted" /\ Deltas'[u].stage = stage
  <2>1. stage \in {"final", "draft"}
    BY DeltaFieldsNext
  <2>2. u \in Version /\ proposal'[u].status = "accepted" /\ proposal'[u].stage = stage
    BY <1>3, <2>1 DEF CountsAccepted
  <2> QED BY <2>2, DeltaFieldsNext
<1>4. ASSUME NEW stage \in DOMAIN Counts \ {Deltas[c.of].stage}
      PROVE  Counts'[stage] = Counts[stage]
  <2>1. stage \in {"final", "draft"} /\ stage # proposal[c.of].stage
    BY <1>1, DeltaFields
  <2>2. Plane(stage) # c.authority
    <3>1. c.authority = Plane(proposal[c.of].stage)
      BY DEF Commits
    <3> QED BY <1>1, <2>1, <3>1, CanonAssumption DEF Plane
  <2>3. Live(ledger', Retracted(proposal'), Plane(stage)) = Live(ledger, Retracted(proposal), Plane(stage))
    BY <2>2, PlaneKept
  <2> QED BY <2>1, <2>3, DeltaFields, DeltaFieldsNext
<1> QED BY <1>2, <1>3, <1>4 DEF Promise!Counted

(* What an accept makes inactive: the event its delta corrects, and where     *)
(* nothing was ever corrected the older events of its artifact.               *)
LEMMA AcceptDeactivates ==
  ASSUME IInv, NEW g \in Grant, Accept(g), NEW c, c = AcceptCommit(g), Commits(g, c)
  PROVE  LET v == c.of
             gone == Retracted(proposal)
         IN /\ v \in Version /\ v = grant[g].for /\ v \notin gone /\ c.operation = "accept"
            /\ proposal[v].status = "proposed" /\ proposal[v].prepared = canon
            /\ proposal' = AfterAccept(v) /\ Retracted(proposal') = gone
            /\ c.explicit = Explicit(proposal, v)
            /\ c.explicit \subseteq Inactive(ledger', gone, c.authority)
            /\ (\A w \in Version : proposal[w].fixes = None) =>
                 Inactive(ledger', gone, c.authority)
                   = Inactive(ledger, gone, c.authority) \cup OlderThan(ledger, v, c.authority)
<1> DEFINE v == c.of
           gone == Retracted(proposal)
           bare == [c EXCEPT !.links = {}]
<1>1. /\ TypeOK /\ ledger \in Seq(Commit) /\ c \in Commit /\ ledger' = Append(ledger, c)
      /\ LinksHold(proposal, ledger) /\ v = grant[g].for /\ v \in Version
  BY DEF IInv, TypeOK, Commits, Replayable, Commit
<1>2. /\ proposal[v].status = "proposed" /\ proposal[v].prepared = canon
      /\ proposal' = AfterAccept(v)
  BY <1>1 DEF Accept, Acceptable, Usable, IInv, GrantsBind
<1>3. v \notin gone /\ Retracted(proposal') = gone
  <2>1. \A u \in Version : proposal'[u].status = IF u = v THEN "accepted" ELSE proposal[u].status
    <3> HIDE DEF v
    <3> QED BY <1>1, <1>2, RowsAfter
  <2> HIDE DEF v
  <2> QED BY <1>1, <1>2, <2>1 DEF Retracted
<1>4. /\ c.operation = "accept" /\ c.explicit = Explicit(proposal, v)
      /\ c.links = Superseded(ledger, gone, bare)
  BY <1>1, CommitFields
<1>5. /\ bare \in Commit /\ bare.operation = "accept" /\ bare.links = {} /\ bare.of = v
      /\ bare.authority = c.authority /\ bare.explicit = c.explicit
  BY <1>1, <1>4 DEF Commit
<1> HIDE DEF gone, bare
<1>6. v \notin c.links
  <2>1. RevisionOf(v) \in Nat
    BY <1>1 DEF Version, RevisionOf
  <2>2. v \notin OlderThan(ledger, v, c.authority)
    BY <2>1 DEF OlderThan
  <2> QED BY <1>4, <1>5, <2>2 DEF Superseded
<1>7. Adds(gone, c.authority, c, {}) = c.links \cup c.explicit
  BY <1>3, <1>6 DEF Adds
<1>8. c.explicit \subseteq Inactive(ledger', gone, c.authority)
  <2>1. Adds(gone, c.authority, c, {}) \subseteq Inactive(Append(ledger, c), gone, c.authority)
    BY <1>1, NewestCounts
  <2> QED BY <1>1, <1>7, <2>1
<1>9. ASSUME \A w \in Version : proposal[w].fixes = None
      PROVE  Inactive(ledger', gone, c.authority)
               = Inactive(ledger, gone, c.authority) \cup OlderThan(ledger, v, c.authority)
  <2>1. \A i \in DOMAIN ledger : ledger[i].explicit = {}
    BY <1>1, <1>9, NoneExplicit
  <2>2. c.explicit = {} /\ bare.explicit = {}
    BY <1>1, <1>4, <1>5, <1>9 DEF Explicit
  <2>3. Inactive(Append(ledger, c), gone, c.authority) = Inactive(ledger, gone, c.authority) \cup c.links
    <3>1. Inactive(Append(ledger, c), gone, c.authority)
            = Inactive(ledger, gone, c.authority) \cup Adds(gone, c.authority, c, {})
      BY <1>1, <2>1, <2>2, UncorrectedAppend
    <3> QED BY <1>7, <2>2, <3>1
  <2>4. Inactive(Append(ledger, bare), gone, c.authority) = Inactive(ledger, gone, c.authority)
    <3>1. Inactive(Append(ledger, bare), gone, c.authority)
            = Inactive(ledger, gone, c.authority) \cup Adds(gone, c.authority, bare, {})
      BY <1>1, <1>5, <2>1, <2>2, UncorrectedAppend
    <3>2. Adds(gone, c.authority, bare, {}) = {}
      BY <1>5, <2>2 DEF Adds
    <3> QED BY <3>1, <3>2
  <2>5. c.links = OlderThan(ledger, v, c.authority) \ Inactive(ledger, gone, c.authority)
    BY <1>4, <1>5, <2>4 DEF Superseded
  <2> QED BY <1>1, <2>3, <2>5
<1> QED BY <1>1, <1>2, <1>3, <1>4, <1>8, <1>9 DEF gone

LEMMA PromisedAccept ==
  ASSUME IInv, IInv', CountsAccepted, CountsAccepted', NEW g \in Grant, Accept(g),
         Commits(g, AcceptCommit(g))
  PROVE  \E v \in Version : Promise!Accept(v)
<1> DEFINE c == AcceptCommit(g)
           v == c.of
           gone == Retracted(proposal)
           plane == c.authority
           before == Counts[Deltas[v].stage]
           after == Counts'[Deltas[v].stage]
<1>1. /\ v \in Version /\ v \notin gone /\ c.operation = "accept"
      /\ proposal[v].status = "proposed" /\ proposal[v].prepared = canon
      /\ proposal' = AfterAccept(v) /\ Retracted(proposal') = gone
      /\ c.explicit = Explicit(proposal, v)
      /\ c.explicit \subseteq Inactive(ledger', gone, plane)
      /\ (\A w \in Version : proposal[w].fixes = None) =>
           Inactive(ledger', gone, plane)
             = Inactive(ledger, gone, plane) \cup OlderThan(ledger, v, plane)
  BY AcceptDeactivates
<1>2. /\ ledger \in Seq(Commit) /\ c \in Commit /\ ledger' = Append(ledger, c)
      /\ plane = Plane(proposal[v].stage) /\ TypeOK
  BY DEF IInv, TypeOK, Commits
<1>3. /\ proposal[v].stage \in {"final", "draft"}
      /\ proposal[v].fixes \in Version \cup {None}
  <2>1. proposal[v] \in ProposalRow
    BY <1>1, <1>2 DEF TypeOK
  <2> QED BY <2>1, CanonAssumption DEF ProposalRow
<1>4. Deltas[v].status = "proposed" /\ Deltas[v].prepared = canon
  BY <1>1, DeltaFields
<1>5. Promise!Decide(v, "accepted") /\ Promise!Counted(v)
  <2>1. Commits(g, c)
    OBVIOUS
  <2>2. \A u \in Version : /\ proposal'[u].stage = proposal[u].stage
                           /\ proposal'[u].prepared = proposal[u].prepared
                           /\ proposal'[u].fixes = proposal[u].fixes
                           /\ proposal'[u].status = IF u = v THEN "accepted" ELSE proposal[u].status
    BY <1>1, <1>2, RowsAfter
  <2> HIDE DEF c
  <2> QED BY <2>1, <2>2, PromisedDecision
<1>6. /\ before = Recorded(ledger, plane) \ Inactive(ledger, gone, plane)
      /\ after = Recorded(ledger', plane) \ Inactive(ledger', gone, plane)
  <2>1. Deltas[v].stage = proposal[v].stage
    BY <1>1, DeltaFields
  <2>2. before = Live(ledger, gone, plane)
    BY <1>2, <1>3, <2>1, DeltaFields
  <2>3. after = Live(ledger', Retracted(proposal'), plane)
    BY <1>2, <1>3, <2>1, DeltaFieldsNext
  <2> QED BY <1>1, <2>2, <2>3 DEF Live
<1>7. v \in after
  <2>1. StatusHolds(proposal', Append(ledger, c)) /\ LinksHold(proposal', Append(ledger, c))
    BY <1>2 DEF IInv, Replayable
  <2> HIDE DEF c, gone
  <2>2. v \in Live(Append(ledger, c), gone, plane)
    BY <1>1, <1>2, <2>1, NewestLives
  <2> QED BY <1>2, <1>6, <2>2 DEF Live
<1>8. v \notin before
  <2>1. Deltas[v].stage = proposal[v].stage
    BY <1>1, DeltaFields
  <2> QED BY <1>1, <1>3, <2>1 DEF CountsAccepted
<1>9. Deltas[v].fixes = proposal[v].fixes /\ Deltas[v].fixes \notin after
  <2>1. Deltas[v].fixes = proposal[v].fixes
    BY <1>1, DeltaFields
  <2>2. CASE proposal[v].fixes = None
    <3>1. None \notin Version
      BY CanonAssumption DEF Version
    <3>2. after \subseteq Version
      <4>1. Append(ledger, c) \in Seq(Commit)
        BY <1>2
      <4>2. Recorded(ledger', plane) \subseteq Version
        BY <1>2, <4>1, RecordedType
      <4> HIDE DEF plane, gone, after
      <4> QED BY <1>6, <4>2
    <3> QED BY <2>1, <2>2, <3>1, <3>2
  <2>3. CASE proposal[v].fixes # None
    <3>1. proposal[v].fixes \in c.explicit
      BY <1>1, <2>3 DEF Explicit
    <3> QED BY <1>1, <1>6, <2>1, <3>1
  <2> QED BY <2>1, <2>2, <2>3
<1>10. ASSUME ~(Promise!Corrects(v) /\ Promise!Corrects(Deltas[v].fixes)),
              NEW u \in before \cap after, Promise!Older(u, v)
       PROVE  FALSE
  <2>1. \A w \in c.explicit : proposal[w].fixes = None
    <3> SUFFICES ASSUME NEW w \in c.explicit PROVE proposal[w].fixes = None
      OBVIOUS
    <3>1. w = proposal[v].fixes /\ w # None /\ w \in Version
      BY <1>1, <1>3 DEF Explicit
    <3>2. Deltas[w].fixes = proposal[w].fixes
      BY <3>1, DeltaFields
    <3> QED BY <1>9, <1>10, <3>1, <3>2 DEF Promise!Corrects
  <2>2. u \in Live(ledger, Retracted(proposal), plane) /\ u \in Live(ledger', Retracted(proposal'), plane)
    BY <1>1, <1>6, <1>10 DEF Live
  <2>3. ArtifactOf(u) = ArtifactOf(c.of) /\ RevisionOf(u) < RevisionOf(v)
    BY <1>10 DEF Promise!Older, ArtifactOf, RevisionOf
  <2>4. RevisionOf(u) >= RevisionOf(v)
    BY <2>1, <2>2, <2>3, AcceptReplaces
  <2>5. RevisionOf(u) \in Nat /\ RevisionOf(v) \in Nat
    <3>1. u \in Recorded(ledger, plane)
      BY <1>6, <1>10
    <3>2. u \in Version
      BY <1>2, <3>1, RecordedType
    <3> QED BY <1>1, <3>2 DEF Version, RevisionOf
  <2> HIDE DEF v
  <2> QED BY <2>3, <2>4, <2>5
<1>11. ASSUME \A w \in Version : ~Promise!Corrects(w)
       PROVE  after = {v} \cup {u \in before : ~Promise!Older(u, v)}
  <2>1. \A w \in Version : proposal[w].fixes = None
    BY <1>11, DeltaFields DEF Promise!Corrects
  <2>2. Inactive(ledger', gone, plane) = Inactive(ledger, gone, plane) \cup OlderThan(ledger, v, plane)
    BY <1>1, <2>1
  <2>3. Recorded(ledger', plane) = Recorded(ledger, plane) \cup {v}
    <3>1. Recorded(Append(ledger, c), plane) = Recorded(ledger, plane)
            \cup (IF c.operation = "accept" /\ c.authority = plane THEN {c.of} ELSE {})
      BY <1>2, RecordedAppend
    <3> HIDE DEF c
    <3> QED BY <1>1, <1>2, <3>1
  <2>4. \A u \in Recorded(ledger, plane) : Promise!Older(u, v) <=> u \in OlderThan(ledger, v, plane)
    BY DEF Promise!Older, OlderThan, ArtifactOf, RevisionOf
  <2> HIDE DEF v, plane, gone, before, after
  <2> QED BY <1>6, <1>7, <2>2, <2>3, <2>4
<1> HIDE DEF v
<1>12. Promise!Accept(v)
  BY <1>4, <1>5, <1>7, <1>8, <1>9, <1>10, <1>11 DEF Promise!Accept
<1> QED BY <1>1, <1>12

LEMMA PromisedRetract ==
  ASSUME IInv, CountsAccepted', NEW g \in Grant, Retract(g), Commits(g, RetractCommit(g))
  PROVE  \E v \in Version : Promise!Retract(v)
<1> DEFINE c == RetractCommit(g)
           v == c.of
           gone == Retracted(proposal)
           now == Retracted(proposal')
           plane == c.authority
           before == Counts[Deltas[v].stage]
           after == Counts'[Deltas[v].stage]
<1>1. /\ ledger \in Seq(Commit) /\ c \in Commit /\ ledger' = Append(ledger, c)
      /\ plane = Plane(proposal[v].stage) /\ TypeOK /\ LinksHold(proposal, ledger)
      /\ v \in Version /\ v = grant[g].for
  BY DEF IInv, TypeOK, Commits, Commit, Replayable
<1>2. /\ proposal[v].status = "accepted" /\ proposal' = AfterRetract(v)
      /\ c.operation = "retract" /\ c.links = {v} /\ c.explicit = {}
  <2>1. proposal[grant[g].for].status = "accepted" /\ proposal' = AfterRetract(grant[g].for)
    BY DEF Retract, Retractable
  <2>2. c.operation = "retract" /\ c.links = {grant[g].for} /\ c.explicit = {}
    BY <1>1, CommitFields
  <2> HIDE DEF c
  <2> QED BY <1>1, <2>1, <2>2
<1>3. \A u \in Version : /\ proposal'[u].stage = proposal[u].stage
                         /\ proposal'[u].prepared = proposal[u].prepared
                         /\ proposal'[u].fixes = proposal[u].fixes
                         /\ proposal'[u].status = IF u = v THEN "retracted" ELSE proposal[u].status
  <2> HIDE DEF v
  <2> QED BY <1>1, <1>2, RowsAfter
<1>4. Promise!Decide(v, "retracted") /\ Promise!Counted(v)
  <2>1. Commits(g, c)
    OBVIOUS
  <2> HIDE DEF c
  <2> QED BY <1>3, <2>1, PromisedDecision
<1>5. proposal[v].stage \in {"final", "draft"} /\ Deltas[v].stage = proposal[v].stage
  <2>1. proposal[v] \in ProposalRow
    BY <1>1 DEF TypeOK
  <2> QED BY <1>1, <2>1, CanonAssumption, DeltaFields DEF ProposalRow
<1>6. Deltas[v].status = "accepted"
  BY <1>1, <1>2, DeltaFields
<1>7. v \notin after
  <2>1. proposal'[v].status = "retracted"
    BY <1>1, <1>3
  <2> HIDE DEF v
  <2> QED BY <1>5, <2>1 DEF CountsAccepted
<1>8. gone \subseteq now
  <2> HIDE DEF v
  <2> QED BY <1>3 DEF Retracted
<1>9. /\ before = Recorded(ledger, plane) \ Inactive(ledger, gone, plane)
      /\ after = Recorded(ledger', plane) \ Inactive(ledger', now, plane)
  <2>1. before = Live(ledger, gone, plane)
    BY <1>1, <1>5, DeltaFields
  <2>2. after = Live(ledger', now, plane)
    BY <1>1, <1>5, DeltaFieldsNext
  <2> QED BY <2>1, <2>2 DEF Live
<1> HIDE DEF v, c, gone, now, before, after
<1>10. ASSUME \A w \in Version : ~Promise!Corrects(w)
       PROVE  before \ {v} \subseteq after
  <2>1. \A w \in Version : proposal[w].fixes = None
    BY <1>10, DeltaFields DEF Promise!Corrects
  <2>2. \A i \in DOMAIN ledger : ledger[i].explicit = {}
    BY <1>1, <2>1, NoneExplicit
  <2>3. Inactive(Append(ledger, c), now, plane) = Inactive(ledger, now, plane) \cup Adds(now, plane, c, {})
    BY <1>1, <1>2, <2>2, UncorrectedAppend
  <2>4. Adds(now, plane, c, {}) \subseteq {v}
    BY <1>2 DEF Adds
  <2>5. Inactive(ledger, now, plane) \subseteq Inactive(ledger, gone, plane)
    BY <1>1, <1>8, <2>2, UncorrectedFewer
  <2>6. Recorded(ledger, plane) \subseteq Recorded(ledger', plane)
    <3>1. Recorded(Append(ledger, c), plane) = Recorded(ledger, plane)
            \cup (IF c.operation = "accept" /\ c.authority = plane THEN {c.of} ELSE {})
      BY <1>1, RecordedAppend
    <3> QED BY <1>1, <3>1
  <2> HIDE DEF plane
  <2> QED BY <1>1, <1>9, <2>3, <2>4, <2>5, <2>6
<1>11. Promise!Retract(v)
  BY <1>4, <1>6, <1>7, <1>10 DEF Promise!Retract, before, after
<1> QED BY <1>1, <1>11

(* To write or to reject a proposal leaves what counts alone.                 *)
LEMMA CountsKept ==
  ASSUME ledger' = ledger, NEW v \in Version,
         proposal[v].status # "retracted", proposal'[v].status # "retracted",
         \A u \in Version \ {v} : proposal'[u] = proposal[u]
  PROVE  Counts' = Counts
<1>1. Retracted(proposal') = Retracted(proposal)
  BY DEF Retracted
<1> QED BY <1>1 DEF Counts

LEMMA PromisedSave ==
  ASSUME IInv, NEW a \in Artifact, Save(a)
  PROVE  \E v \in Version : Promise!Propose(v)
<1>1. PICK r \in NextRevision(a), stage \in Stage, prepared \in Named \cup {canon},
           valid \in BOOLEAN, fix \in Linkable :
        proposal' = [proposal EXCEPT ![<<a, r>>] =
                      [status |-> "proposed", stage |-> stage, prepared |-> prepared,
                       valid |-> valid, fixes |-> fix, active |-> FALSE]]
  BY DEF Save
<1> DEFINE v == <<a, r>>
<1>2. r \in 1..MaxRevision /\ r \notin Existing(a)
  <2>1. CASE FreeRevision
    BY <2>1 DEF NextRevision
  <2>2. CASE ~FreeRevision
    <3>1. r \in 1..MaxRevision /\ Existing(a) = 1..(r - 1)
      BY <2>2 DEF NextRevision
    <3>2. r \notin 1..(r - 1)
      BY <3>1
    <3> QED BY <3>1, <3>2
  <2> QED BY <2>1, <2>2
<1>3. v \in Version /\ proposal[v].status = "absent"
  BY <1>2 DEF Version, Existing
<1>4. /\ proposal'[v].status = "proposed"
      /\ \A u \in Version \ {v} : proposal'[u] = proposal[u]
  <2> HIDE DEF v
  <2> QED BY <1>1, <1>3 DEF IInv, TypeOK, v
<1> HIDE DEF v
<1>5. Deltas[v].status = "absent" /\ Deltas'[v].status = "proposed"
  BY <1>3, <1>4, DeltaFields, DeltaFieldsNext
<1>6. \A u \in Version \ {v} : Deltas'[u] = Deltas[u]
  BY <1>4 DEF Deltas
<1>7. Counts' = Counts /\ canon' = canon
  <2>1. ledger' = ledger /\ canon' = canon
    BY DEF Save
  <2> QED BY <1>3, <1>4, <2>1, CountsKept
<1>8. Promise!Propose(v)
  BY <1>5, <1>6, <1>7 DEF Promise!Propose
<1> QED BY <1>3, <1>8

LEMMA PromisedReject ==
  ASSUME IInv, NEW v \in Version, Reject(v)
  PROVE  Promise!Reject(v)
<1>1. /\ proposal[v].status = "proposed" /\ ledger' = ledger /\ canon' = canon
      /\ proposal' = [proposal EXCEPT ![v].status = "rejected"]
  BY DEF Reject
<1>2. /\ proposal \in [Version -> ProposalRow]
      /\ \A u \in Version : proposal[u] \in ProposalRow
  BY DEF IInv, TypeOK
<1>3. \A u \in Version : /\ proposal'[u].stage = proposal[u].stage
                         /\ proposal'[u].prepared = proposal[u].prepared
                         /\ proposal'[u].fixes = proposal[u].fixes
                         /\ proposal'[u].status = IF u = v THEN "rejected" ELSE proposal[u].status
                         /\ u # v => proposal'[u] = proposal[u]
  BY <1>1, <1>2 DEF ProposalRow
<1>4. Deltas' = [Deltas EXCEPT ![v].status = "rejected"]
  BY <1>3, DeltaWrite
<1>5. Counts' = Counts
  BY <1>1, <1>3, CountsKept
<1>6. Deltas[v].status = "proposed"
  BY <1>1, DeltaFields
<1> QED BY <1>1, <1>4, <1>5, <1>6 DEF Promise!Reject

LEMMA StepIsPromised ==
  ASSUME IInv, IInv', CountsAccepted, CountsAccepted', [Next]_vars
  PROVE  [Promise!Next]_(Promise!view)
<1>1. ASSUME NEW a \in Artifact, Save(a) PROVE Promise!Next
  BY <1>1, PromisedSave DEF Promise!Next
<1>2. ASSUME NEW v \in Version, Reject(v) PROVE Promise!Next
  BY <1>2, PromisedReject DEF Promise!Next
<1>3. CASE UNCHANGED <<proposal, ledger, canon>>
  <2>1. Deltas' = Deltas /\ Counts' = Counts
    BY <1>3 DEF Deltas, Counts
  <2> QED BY <1>3, <2>1 DEF Promise!view
<1>4. ASSUME NEW g \in Grant, Accept(g) \/ Retract(g) PROVE Promise!Next
  <2>1. Next
    BY <1>4 DEF Next
  <2>2. Committed
    <3>1. ledger \in Seq(Commit) /\ \E c : ledger' = Append(ledger, c)
      BY <1>4 DEF IInv, TypeOK, Accept, Retract
    <3> QED BY <3>1 DEF Committed
  <2>3. PICK h \in Grant : \/ Accept(h) /\ Commits(h, AcceptCommit(h))
                           \/ Retract(h) /\ Commits(h, RetractCommit(h))
    BY <2>1, <2>2, CommitStep
  <2>4. CASE Accept(h) /\ Commits(h, AcceptCommit(h))
    BY <2>4, PromisedAccept DEF Promise!Next
  <2>5. CASE Retract(h) /\ Commits(h, RetractCommit(h))
    BY <2>5, PromisedRetract DEF Promise!Next
  <2> QED BY <2>3, <2>4, <2>5
<1> QED BY <1>1, <1>2, <1>3, <1>4 DEF Next, Issue, Expire, vars

-----------------------------------------------------------------------------
(* The theorems.                                                              *)

(* Every row that save, reject, issue, accept and retract write is one the    *)
(* tables admit, for any number of artifacts, grants and commits.             *)
THEOREM CanonTypeCorrect ==
  Spec => []TypeOK
<1>1. IInv => TypeOK
  BY DEF IInv
<1> QED BY <1>1, SpecIInv, PTL

(* Once an accept or a retract has passed its own checks, the ledger check of *)
(* the replay that ends it never refuses the ledger it wrote: the links the   *)
(* service chooses are always those the validator recomputes.                 *)
THEOREM CanonReplayNeverRefuses ==
  Spec => []ReplayNeverRefuses
<1>1. IInv => ReplayNeverRefuses
  <2> SUFFICES ASSUME IInv, NEW g \in Grant
               PROVE  /\ Acceptable(g) =>
                           Replayable(AfterAccept(grant[g].for),
                                      Append(ledger, AcceptCommit(g)), AcceptCommit(g).after)
                      /\ Retractable(g) =>
                           Replayable(AfterRetract(grant[g].for),
                                      Append(ledger, RetractCommit(g)), RetractCommit(g).after)
    BY DEF ReplayNeverRefuses
  <2> QED BY AcceptReplays, RetractReplays
<1> QED BY <1>1, SpecIInv, PTL

(* No accept is committed on a revision other than the one its delta names as *)
(* the one it was prepared against: a decision taken in between makes the grant unusable.    *)
THEOREM CanonNoLostDecision ==
  Spec => []NoLostDecision
<1>1. IInv => NoLostDecision
  BY DEF IInv
<1> QED BY <1>1, SpecIInv, PTL

(* A grant is spent on at most one commit, the one it was issued for, on the  *)
(* revision the reviewer saw.                                                 *)
THEOREM CanonOneCommitPerGrant ==
  Spec => []OneCommitPerGrant
<1>1. IInv => OneCommitPerGrant
  BY DEF IInv
<1> QED BY <1>1, SpecIInv, PTL

(* However often deltas correct each other and are taken back, the newest-    *)
(* first visit of a replay finds exactly the events that links in force point *)
(* at, and every retracted one.                                               *)
THEOREM CanonReplayDeactivatesExactly ==
  Spec => []ReplayDeactivatesExactly
<1>1. IInv => ReplayDeactivatesExactly
  BY ReplayIsExact DEF IInv, Replayable, ReplayDeactivatesExactly
<1> QED BY <1>1, SpecIInv, PTL

(* To retract what was accepted last leaves counting what counted before, in  *)
(* both planes, whatever the ledger holds.                                    *)
THEOREM CanonRetractUndoesAccept ==
  Spec => []RetractUndoesAccept
<1>1. IInv => RetractUndoesAccept
  BY RetractionUndoes DEF IInv, Replayable
<1> QED BY <1>1, SpecIInv, PTL

(* Drafts and finals never touch each other: neither what counts of the other *)
(* stage nor, for a draft, the canon revision.                                *)
THEOREM CanonPlanesApart ==
  Spec => PlanesApart
<1> DEFINE Apart ==
             Committed =>
               /\ \A stage \in Stage : stage # StageOf(Latest)' => Counting(stage)' = Counting(stage)
               /\ StageOf(Latest)' = "draft" => canon' = canon
           OwnPlane == \A stage \in Stage :
                         Counting(stage) = Live(ledger, Retracted(proposal), Plane(stage))
<1>1. ASSUME IInv, [Next]_vars, OwnPlane, OwnPlane' PROVE [Apart]_vars
  <2> SUFFICES ASSUME Next, Committed
               PROVE  /\ \A stage \in Stage :
                           stage # StageOf(Latest)' => Counting(stage)' = Counting(stage)
                      /\ StageOf(Latest)' = "draft" => canon' = canon
    BY <1>1
  <2>1. PICK g \in Grant : \E c : Commits(g, c)
    BY <1>1, CommitStep
  <2>2. PICK c : Commits(g, c)
    BY <2>1
  <2>3. StageOf(Latest)' = proposal[c.of].stage /\ proposal[c.of].stage \in Stage
    BY <1>1, <2>2, LatestIs
  <2>4. c.authority = Plane(proposal[c.of].stage) /\ canon' = IF c.authority THEN Len(ledger) + 1 ELSE canon
    BY <2>2 DEF Commits
  <2>5. ASSUME NEW stage \in Stage, stage # StageOf(Latest)'
        PROVE  Counting(stage)' = Counting(stage)
    <3>1. Plane(stage) # c.authority
      BY <2>3, <2>4, <2>5, CanonAssumption DEF Plane
    <3>2. Live(ledger', Retracted(proposal'), Plane(stage)) = Live(ledger, Retracted(proposal), Plane(stage))
      BY <1>1, <2>2, <3>1, PlaneKept
    <3>3. Counting(stage)' = Live(ledger', Retracted(proposal'), Plane(stage))
      BY <1>1
    <3>4. Counting(stage) = Live(ledger, Retracted(proposal), Plane(stage))
      BY <1>1
    <3> QED BY <3>2, <3>3, <3>4
  <2> QED BY <2>3, <2>4, <2>5 DEF Plane
<1>2. IInv => OwnPlane
  BY CountingIsLive
<1> HIDE DEF OwnPlane
<1> QED BY <1>1, <1>2, SpecIInv, PTL DEF Spec, PlanesApart

(* An accept leaves no older revision counting that counted before, however   *)
(* that one came to count again, unless it corrects a correction.             *)
THEOREM CanonAcceptReplacesCounted ==
  Spec => AcceptReplacesCounted
<1> DEFINE Replaces ==
             (/\ Committed /\ Latest'.operation = "accept"
              /\ \A w \in Latest'.explicit : proposal[w].fixes = None) =>
               \A stage \in Stage, u \in Version :
                 (/\ stage = StageOf(Latest)' /\ u \in Counting(stage) \cap Counting(stage)'
                  /\ ArtifactOf(u) = ArtifactOf(Latest'.of))
                 => RevisionOf(u) >= RevisionOf(Latest'.of)
           OwnPlane == \A stage \in Stage :
                         Counting(stage) = Live(ledger, Retracted(proposal), Plane(stage))
<1>1. ASSUME IInv, [Next]_vars, OwnPlane, OwnPlane' PROVE [Replaces]_vars
  <2> SUFFICES ASSUME Next, Committed, Latest'.operation = "accept",
                      \A w \in Latest'.explicit : proposal[w].fixes = None,
                      NEW stage \in Stage, NEW u \in Version, stage = StageOf(Latest)',
                      u \in Counting(stage), u \in Counting(stage)',
                      ArtifactOf(u) = ArtifactOf(Latest'.of)
               PROVE  RevisionOf(u) >= RevisionOf(Latest'.of)
    BY <1>1
  <2>1. PICK g \in Grant : \/ Accept(g) /\ Commits(g, AcceptCommit(g))
                           \/ Retract(g) /\ Commits(g, RetractCommit(g))
    BY <1>1, CommitStep
  <2>2. CASE Retract(g) /\ Commits(g, RetractCommit(g))
    <3>1. Latest' = RetractCommit(g)
      BY <1>1, <2>2, LatestIs
    <3>2. RetractCommit(g).operation = "retract"
      BY DEF RetractCommit, NewCommit
    <3> QED BY <3>1, <3>2
  <2>3. CASE Accept(g) /\ Commits(g, AcceptCommit(g))
    <3> DEFINE c == AcceptCommit(g)
    <3>1. Latest' = c /\ stage = proposal[c.of].stage
      BY <1>1, <2>3, LatestIs
    <3>2. c.authority = Plane(stage)
      BY <2>3, <3>1 DEF Commits
    <3>3. u \in Live(ledger, Retracted(proposal), c.authority)
      BY <1>1, <3>2
    <3>4. u \in Live(ledger', Retracted(proposal'), c.authority)
      BY <1>1, <3>2
    <3> QED BY <1>1, <2>3, <3>1, <3>3, <3>4, AcceptReplaces
  <2> QED BY <2>1, <2>2, <2>3
<1>2. IInv => OwnPlane
  BY CountingIsLive
<1> HIDE DEF OwnPlane
<1> QED BY <1>1, <1>2, SpecIInv, PTL DEF Spec, AcceptReplacesCounted

(* In a project that never corrects an event explicitly, an accept does what  *)
(* the comment at service.py:5499 says: no older revision of its artifact     *)
(* counts when it is done. Run canon_revival shows that explicit links are    *)
(* what breaks it.                                                            *)
THEOREM CanonSupersedesUncorrected ==
  ASSUME ~ExplicitLinks
  PROVE  Spec => AcceptSupersedesOlder
<1> DEFINE Supersedes ==
             (Committed /\ Latest'.operation = "accept") =>
               \A u \in Counting(StageOf(Latest))' :
                 ArtifactOf(u) = ArtifactOf(Latest'.of) => RevisionOf(u) >= RevisionOf(Latest'.of)
           OwnPlane == \A stage \in Stage :
                         Counting(stage) = Live(ledger, Retracted(proposal), Plane(stage))
<1>1. ASSUME IInv, [Next]_vars, OwnPlane', NoCorrection PROVE [Supersedes]_vars
  <2> SUFFICES ASSUME Next, Committed, Latest'.operation = "accept",
                      NEW u \in Counting(StageOf(Latest))',
                      ArtifactOf(u) = ArtifactOf(Latest'.of)
               PROVE  RevisionOf(u) >= RevisionOf(Latest'.of)
    BY <1>1
  <2>1. PICK g \in Grant : \/ Accept(g) /\ Commits(g, AcceptCommit(g))
                           \/ Retract(g) /\ Commits(g, RetractCommit(g))
    BY <1>1, CommitStep
  <2>2. CASE Retract(g) /\ Commits(g, RetractCommit(g))
    <3>1. Latest' = RetractCommit(g)
      BY <1>1, <2>2, LatestIs
    <3>2. RetractCommit(g).operation = "retract"
      BY DEF RetractCommit, NewCommit
    <3> QED BY <3>1, <3>2
  <2>3. CASE Accept(g) /\ Commits(g, AcceptCommit(g))
    <3> DEFINE c == AcceptCommit(g)
               gone == Retracted(proposal)
    <3>1. /\ Latest' = c /\ StageOf(Latest)' = proposal[c.of].stage
          /\ proposal[c.of].stage \in Stage
      BY <1>1, <2>3, LatestIs
    <3>2. /\ c.authority = Plane(proposal[c.of].stage) /\ c \in Commit /\ c.of = grant[g].for
          /\ ledger' = Append(ledger, c)
      BY <2>3 DEF Commits
    <3>3. /\ TypeOK /\ ledger \in Seq(Commit) /\ c.of \in Version
          /\ LinksHold(proposal, ledger) /\ StatusHolds(proposal, ledger)
      BY <1>1, <3>2 DEF IInv, TypeOK, Replayable, Commit
    <3>4. u \in Live(ledger', Retracted(proposal'), c.authority)
      <4>1. Counting(StageOf(Latest))' = Live(ledger', Retracted(proposal'), Plane(StageOf(Latest)'))
        BY <1>1, <3>1
      <4> QED BY <3>1, <3>2, <4>1
    <3>5. c.explicit = {}
      <4>1. c.explicit = Explicit(proposal, grant[g].for)
        BY <3>2, <3>3, CommitFields
      <4> QED BY <1>1, <3>2, <3>3, <4>1 DEF Explicit, NoCorrection
    <3>6. \A i \in DOMAIN ledger : ledger[i].explicit = {}
      BY <1>1, <3>3, NoneExplicit DEF NoCorrection
    <3>7. Retracted(proposal') = gone
      <4>1. proposal[grant[g].for].status = "proposed" /\ proposal' = AfterAccept(grant[g].for)
        BY <2>3 DEF Accept, Acceptable
      <4> QED BY <3>2, <3>3, <4>1, RowsAfter DEF Retracted
    <3> HIDE DEF c, gone
    <3>8. /\ u \in Recorded(Append(ledger, c), c.authority)
          /\ u \notin Inactive(Append(ledger, c), gone, c.authority)
      BY <3>2, <3>4, <3>7 DEF Live
    <3>9. u = c.of \/ u \in Recorded(ledger, c.authority)
      BY <3>2, <3>3, <3>8, RecordedAppend
    <3>10. Inactive(ledger, gone, c.authority) \subseteq Inactive(Append(ledger, c), gone, c.authority)
      BY <3>2, <3>3, <3>5, <3>6, UncorrectedAppend
    <3>11. CASE u = c.of
      <4>1. RevisionOf(c.of) \in Nat
        BY <3>3 DEF Version, RevisionOf
      <4> QED BY <3>1, <3>11, <4>1
    <3>12. CASE u \in Recorded(ledger, c.authority)
      <4>1. u \in Live(ledger, Retracted(proposal), c.authority)
        BY <3>8, <3>10, <3>12 DEF Live, gone
      <4>2. ArtifactOf(u) = ArtifactOf(c.of)
        BY <3>1
      <4>3. \A w \in c.explicit : proposal[w].fixes = None
        BY <3>5
      <4> QED BY <1>1, <2>3, <3>1, <3>4, <4>1, <4>2, <4>3, AcceptReplaces DEF c
    <3> QED BY <3>9, <3>11, <3>12
  <2> QED BY <2>1, <2>2, <2>3
<1>2. IInv => OwnPlane
  BY CountingIsLive
<1> HIDE DEF OwnPlane
<1> QED BY <1>1, <1>2, SpecIInv, NoCorrections, PTL DEF Spec, AcceptSupersedesOlder

(* Every transaction, with the replay that ends it, is one that a reader of   *)
(* the canon is promised.                                                     *)
THEOREM CanonImplementsOutcome ==
  Spec => CanonRefinement
<1>1. Init => Promise!Init
  <2> SUFFICES ASSUME Init PROVE Promise!Init
    OBVIOUS
  <2>1. \A v \in Version : Deltas[v].status = "absent"
    BY DeltaFields DEF Init
  <2>2. \A plane : Live(ledger, Retracted(proposal), plane) = {}
    <3>1. ledger = <<>>
      BY DEF Init
    <3>2. \A plane : Recorded(ledger, plane) = {}
      BY <3>1 DEF Recorded
    <3> QED BY <3>2 DEF Live
  <2>3. Counts = [stage \in {"final", "draft"} |-> {}]
    BY <2>2 DEF Counts
  <2> QED BY <2>1, <2>3 DEF Init, Promise!Init
<1>2. IInv => CountsAccepted
  BY CountedAccepted
<1>3. ASSUME IInv, IInv', CountsAccepted, CountsAccepted', [Next]_vars
      PROVE  [Promise!Next]_(Promise!view)
  BY <1>3, StepIsPromised
<1> QED BY <1>1, <1>2, <1>3, SpecIInv, PTL DEF Spec, CanonRefinement, Promise!Spec
=============================================================================
