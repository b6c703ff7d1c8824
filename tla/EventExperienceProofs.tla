----------------------- MODULE EventExperienceProofs -----------------------
(* Proofs about EventExperience, for any events, requests, questions, calls   *)
(* and bounds. The gate acts on copies of what it read; the rows only grow    *)
(* (a seed revision keeps its source, an arc its seeds, and neither comes     *)
(* back once it is retired), so most of what a copy says stays true, and the  *)
(* rest is protected by the control revision the next call compares.          *)
EXTENDS EventExperience, TLAPS

(* Of the outline revision the request started from.                          *)
Mine(r, e, n, seeds) == seeds[e][n].status # "absent" /\ seeds[e][n].version = Version(r)

(* The arc is over the seeds of the request, or one of these is retired.      *)
Tied(r, a, seeds, arcs) ==
  /\ arcs[a].status # "absent"
  /\ \A e \in Event : \E n \in Revision :
       Mine(r, e, n, seeds) /\ (arcs[a].binds[e] = n \/ seeds[e][n].status = "retired")

Fixed(a, arcs) == a \in ArcRevision /\ arcs[a].status \in {"locked", "retired"}

Choice(r) == IF r \in Asks THEN "selected" ELSE "default"

Planning == {"seeds", "arc"}
Choosing == {"ask", "open", "select"}
Locking == {"read", "contracts", "lock", "manifest"}

(* What the gate goes on to know, whatever others do.                         *)
KnowsSeeds(r, g, seeds) ==
  g.pc \in Planning \cup Choosing \cup Locking =>
    /\ g.refs \in Refs
    /\ \A e \in Event : g.plan[e] = "reuse" \/ g.pc # "seeds" \/ e < g.next =>
         Mine(r, e, g.refs[e], seeds)

KnowsArc(r, g, seeds, arcs) ==
  /\ g.pc \in Choosing => r \in Asks
  /\ g.locked => Fixed(g.arc, arcs)
  /\ g.pc \in Planning /\ g.arcPlan = "supersede" => g.arc \in ArcRevision
  /\ g.pc \in Planning /\ g.arcPlan = "reuse" =>
       /\ g.arc \in ArcRevision /\ arcs[g.arc].status # "absent"
       /\ arcs[g.arc].binds = g.refs
       /\ r \in Asks \/ arcs[g.arc].choice = "default"
  /\ g.pc \in Choosing \cup Locking => g.arc \in ArcRevision /\ Tied(r, g.arc, seeds, arcs)
  /\ g.pc \in Locking => arcs[g.arc].choice = Choice(r)
  /\ g.pc = "manifest" => Fixed(g.arc, arcs)

(* What it knows while the control revision is the one it read.               *)
Planned(r, e, what, n, seeds) ==
  /\ what = "create" => n = 1 /\ \A m \in Revision : seeds[e][m].status = "absent"
  /\ what = "supersede" =>
       /\ n - 1 \in Revision /\ seeds[e][n - 1].status # "absent"
       /\ seeds[e][n - 1].version < Version(r)
       /\ \A m \in Revision : m > n - 1 => seeds[e][m].status = "absent"

IsFresh(r, g, seeds, arcs, revision) ==
  g.pc \in Planning =>
    /\ g.control <= revision
    /\ g.control = revision =>
         /\ g.arcPlan = "create" => \A a \in ArcRevision : arcs[a].status = "absent"
         /\ g.pc = "seeds" =>
              \A e \in Event : e >= g.next => Planned(r, e, g.plan[e], g.refs[e], seeds)

(* What an answer on record is about.                                         *)
Recalls(r, s, seeds, arcs) ==
  /\ s.selected # 0 => Tied(r, s.selected, seeds, arcs) /\ arcs[s.selected].choice = "selected"
  /\ s.arcLock # 0 => Fixed(s.arcLock, arcs)

(* What an issued manifest is, for good.                                      *)
Whole(r, t, seeds, arcs) ==
  /\ \A e \in Event : Mine(r, e, t.refs[e], seeds)
  /\ arcs[t.arc].status \in {"locked", "retired"}
  /\ arcs[t.arc].binds = t.refs /\ arcs[t.arc].choice = Choice(r)

(* The seeds hold the contracts that the manifest names.                      *)
Holds(t, seeds, contracts) ==
  \A e \in Event :
    /\ seeds[e][t.refs[e]].status \in Bound
    /\ seeds[e][t.refs[e]].bound = t.contracts[e]
    /\ \E k \in Lineage : seeds[e][t.refs[e]].bound = k /\ contracts[e][t.refs[e]][k] = "locked"

Issued(r, t, seeds, contracts, arcs, revision) ==
  /\ Whole(r, t, seeds, arcs) /\ t.binding <= revision
  /\ t.binding = revision => Holds(t, seeds, contracts)

Knows(r, g, s, seeds, arcs, revision) ==
  /\ KnowsSeeds(r, g, seeds) /\ KnowsArc(r, g, seeds, arcs)
  /\ IsFresh(r, g, seeds, arcs, revision) /\ Recalls(r, s, seeds, arcs)

AllKnow == \A r \in Request : Knows(r, gate[r], stored[r], seed, arc, control)

AllWhole ==
  \A r \in Request : token[r] # NoToken => Issued(r, token[r], seed, contract, arc, binding)

(* A seed that is not there has no contract, a retired one no active one.     *)
IdleIsEmpty ==
  \A e \in Event, n \in Revision :
    /\ ~Present(e, n) => NoContract(e, n)
    /\ seed[e][n].status = "retired" => \A k \in Lineage : ~Active(e, n, k)

IInv ==
  /\ TypeOK /\ SeedHoldsItsContract /\ IdleIsEmpty /\ OneRevisionPerSource
  /\ AllKnow /\ AllWhole

-----------------------------------------------------------------------------
(* Seeds, contracts and arcs.                                                 *)

RowTypes ==
  /\ seed \in [Event -> [Revision -> SeedRow]]
  /\ contract \in [Event -> [Revision -> [Lineage -> ContractStatus]]]
  /\ arc \in [ArcRevision -> ArcRow]

(* SeedHoldsItsContract and IdleIsEmpty, of one seed revision.              *)
Held(e, n, seeds, contracts) ==
  /\ seeds[e][n].status \in Bound =>
       \E k \in Lineage : seeds[e][n].bound = k /\ contracts[e][n][k] = "locked"
  /\ \A k \in Lineage :
       /\ contracts[e][n][k] = "locked" => seeds[e][n].status \in Bound /\ seeds[e][n].bound = k
       /\ contracts[e][n][k] \in {"proposed", "locked"} =>
            \A j \in Lineage : contracts[e][n][j] \in {"proposed", "locked"} => j = k
       /\ seeds[e][n].status = "absent" => contracts[e][n][k] = "absent"
       /\ seeds[e][n].status = "retired" => contracts[e][n][k] \notin {"proposed", "locked"}

AllHeld == \A e \in Event, n \in Revision : Held(e, n, seed, contract)

Sound == RowTypes /\ AllHeld /\ OneRevisionPerSource

(* What a step may do to a seed revision and to an arc that are there.        *)
SeedGrows(old, new) ==
  old.status # "absent" =>
    /\ new.status # "absent" /\ new.version = old.version
    /\ old.status = "retired" => new.status = "retired"

ArcGrows(old, new) ==
  old.status # "absent" =>
    /\ new.status # "absent" /\ new.binds = old.binds /\ new.choice = old.choice
    /\ old.status \in {"locked", "retired"} => new.status \in {"locked", "retired"}

SeedsGrow(seeds, later) ==
  \A e \in Event, n \in Revision : SeedGrows(seeds[e][n], later[e][n])
ArcsGrow(arcs, later) == \A a \in ArcRevision : ArcGrows(arcs[a], later[a])

(* A seed that holds a contract, which goes on to hold it.                    *)
BoundStay ==
  \A e \in Event, n \in Revision :
    seed[e][n].status \in Bound =>
      /\ seed'[e][n] = seed[e][n]
      /\ \A k \in Lineage : contract[e][n][k] = "locked" => contract'[e][n][k] = "locked"

(* The revisions tell the changes that matter.                                *)
Advances ==
  /\ control' \in Nat /\ binding' \in Nat
  /\ control' = control + 1 \/ (control' = control /\ UNCHANGED <<seed, arc>>)
  /\ binding' = binding + 1 \/ (binding' = binding /\ BoundStay)

RowsGoOn == Sound' /\ SeedsGrow(seed, seed') /\ ArcsGrow(arc, arc') /\ Advances

LEMMA IInvSound ==
  ASSUME IInv
  PROVE  Sound /\ control \in Nat /\ binding \in Nat
<1>1. ASSUME NEW e \in Event, NEW n \in Revision PROVE Held(e, n, seed, contract)
  <2>1. \A k \in Lineage :
          /\ seed[e][n].status = "absent" => contract[e][n][k] = "absent"
          /\ seed[e][n].status = "retired" => contract[e][n][k] \notin {"proposed", "locked"}
    BY DEF IInv, IdleIsEmpty, Active, Present, NoContract
  <2>2. /\ seed[e][n].status \in Bound =>
             \E k \in Lineage : seed[e][n].bound = k /\ contract[e][n][k] = "locked"
        /\ \A k \in Lineage :
             contract[e][n][k] = "locked" => seed[e][n].status \in Bound /\ seed[e][n].bound = k
    BY DEF IInv, SeedHoldsItsContract
  <2>3. \A k \in Lineage :
          contract[e][n][k] \in {"proposed", "locked"} =>
            \A j \in Lineage : contract[e][n][j] \in {"proposed", "locked"} => j = k
    BY DEF IInv, SeedHoldsItsContract, Active
  <2> QED BY <2>1, <2>2, <2>3 DEF Held
<1> QED BY <1>1 DEF IInv, TypeOK, Sound, RowTypes, AllHeld

LEMMA SoundIInv ==
  ASSUME Sound
  PROVE  SeedHoldsItsContract /\ IdleIsEmpty /\ OneRevisionPerSource
BY DEF Sound, AllHeld, Held, SeedHoldsItsContract, IdleIsEmpty, Active, Present, NoContract

LEMMA SeedTypes ==
  ASSUME RowTypes, NEW e \in Event, NEW n \in Revision
  PROVE  /\ seed[e][n] \in SeedRow /\ seed[e][n].version \in 0..2
         /\ seed[e][n].bound \in 0..MaxLineage
         /\ seed[e][n].status \in {"absent", "seeded", "retired"} \cup Bound
         /\ \A k \in Lineage : contract[e][n][k] \in ContractStatus
BY DEF RowTypes, SeedRow

(* No seed revision is new.                                                   *)
LEMMA NoNewSeed ==
  ASSUME Sound, RowTypes', SeedsGrow(seed, seed'),
         \A e \in Event, n \in Revision :
           /\ Held(e, n, seed', contract')
           /\ seed[e][n].status = "absent" => seed'[e][n].status = "absent"
  PROVE  Sound'
<1>1. ASSUME NEW e \in Event, NEW m \in Revision, NEW n \in Revision,
             m < n, seed'[e][n].status # "absent"
      PROVE  seed'[e][m].status = "retired" /\ seed'[e][m].version < seed'[e][n].version
  <2>1. seed[e][n].status # "absent"
    BY <1>1
  <2>2. seed[e][m].status = "retired" /\ seed[e][m].version < seed[e][n].version
    BY <1>1, <2>1 DEF Sound, OneRevisionPerSource, Present
  <2> QED BY <2>1, <2>2 DEF SeedsGrow, SeedGrows
<1> QED BY <1>1 DEF Sound, AllHeld, OneRevisionPerSource, Present

(* One seed revision and its contracts.                                       *)
Touches(e, n) ==
  \A d \in Event, m \in Revision :
    d # e \/ m # n =>
      seed'[d][m] = seed[d][m] /\ \A k \in Lineage : contract'[d][m][k] = contract[d][m][k]

LEMMA TouchedSeed ==
  ASSUME Sound, RowTypes', NEW e \in Event, NEW n \in Revision, Touches(e, n),
         seed[e][n].status # "absent", SeedGrows(seed[e][n], seed'[e][n]),
         Held(e, n, seed', contract')
  PROVE  Sound' /\ SeedsGrow(seed, seed')
<1>1. ASSUME NEW d \in Event, NEW m \in Revision
      PROVE  /\ Held(d, m, seed', contract') /\ SeedGrows(seed[d][m], seed'[d][m])
             /\ seed[d][m].status = "absent" => seed'[d][m].status = "absent"
  <2>1. CASE d = e /\ m = n
    BY <2>1
  <2>2. CASE d # e \/ m # n
    <3>1. seed'[d][m] = seed[d][m] /\ \A k \in Lineage : contract'[d][m][k] = contract[d][m][k]
      BY <2>2 DEF Touches
    <3>2. Held(d, m, seed, contract)
      BY DEF Sound, AllHeld
    <3>3. Held(d, m, seed', contract')
      BY <3>1, <3>2 DEF Held
    <3> QED BY <3>1, <3>3 DEF SeedGrows
  <2> QED BY <2>1, <2>2
<1> QED BY <1>1, NoNewSeed DEF SeedsGrow

(* No row changes.                                                            *)
LEMMA RowsStay ==
  ASSUME Sound, UNCHANGED <<seed, contract, arc>>, control \in Nat, binding \in Nat,
         UNCHANGED <<control, binding>> \/ Advance(TRUE) \/ Advance(FALSE)
  PROVE  RowsGoOn
<1>1. Sound'
  BY DEF Sound, RowTypes, AllHeld, Held, OneRevisionPerSource, Present
<1>2. SeedsGrow(seed, seed') /\ ArcsGrow(arc, arc')
  BY DEF SeedsGrow, ArcsGrow, SeedGrows, ArcGrows
<1>3. BoundStay
  BY DEF BoundStay
<1> QED BY <1>1, <1>2, <1>3 DEF RowsGoOn, Advances, Advance

(* One row of each table is written.                                          *)
LEMMA Edited ==
  ASSUME RowTypes, NEW e \in Event, NEW n \in Revision, NEW row \in SeedRow,
         NEW cs \in [Lineage -> ContractStatus],
         seed' = [seed EXCEPT ![e][n] = row], contract' = [contract EXCEPT ![e][n] = cs]
  PROVE  /\ seed' \in [Event -> [Revision -> SeedRow]]
         /\ contract' \in [Event -> [Revision -> [Lineage -> ContractStatus]]]
         /\ seed'[e][n] = row /\ contract'[e][n] = cs /\ Touches(e, n)
BY DEF RowTypes, Touches

LEMMA EditGoesOn ==
  ASSUME Sound, control \in Nat, binding \in Nat,
         NEW e \in Event, NEW n \in Revision, NEW row \in SeedRow,
         NEW cs \in [Lineage -> ContractStatus],
         seed' = [seed EXCEPT ![e][n] = row], contract' = [contract EXCEPT ![e][n] = cs],
         UNCHANGED arc, Advance(TRUE),
         seed[e][n].status # "absent", SeedGrows(seed[e][n], row),
         row.status \in Bound => \E k \in Lineage : row.bound = k /\ cs[k] = "locked",
         \A k \in Lineage :
           /\ row.status = "retired" => cs[k] \notin {"proposed", "locked"}
           /\ cs[k] = "locked" => row.status \in Bound /\ row.bound = k
           /\ cs[k] \in {"proposed", "locked"} =>
                \A j \in Lineage : cs[j] \in {"proposed", "locked"} => j = k
  PROVE  RowsGoOn
<1>1. /\ seed' \in [Event -> [Revision -> SeedRow]]
      /\ contract' \in [Event -> [Revision -> [Lineage -> ContractStatus]]]
      /\ seed'[e][n] = row /\ contract'[e][n] = cs /\ Touches(e, n)
  BY Edited DEF Sound
<1>2. RowTypes'
  BY <1>1 DEF Sound, RowTypes
<1>3. Held(e, n, seed', contract')
  <2>1. row.status # "absent"
    BY DEF SeedGrows
  <2> QED BY <1>1, <2>1 DEF Held
<1>4. Sound' /\ SeedsGrow(seed, seed')
  BY <1>1, <1>2, <1>3, TouchedSeed
<1>5. ArcsGrow(arc, arc')
  BY DEF ArcsGrow, ArcGrows
<1> QED BY <1>4, <1>5 DEF RowsGoOn, Advances, Advance

(* What is known of one seed revision and its contracts.                      *)
LEMMA SoundSeed ==
  ASSUME Sound, NEW e \in Event, NEW n \in Revision
  PROVE  /\ seed[e][n] \in SeedRow /\ contract[e][n] \in [Lineage -> ContractStatus]
         /\ seed[e][n] = [status |-> seed[e][n].status, version |-> seed[e][n].version,
                          bound |-> seed[e][n].bound]
         /\ Held(e, n, seed, contract)
BY DEF Sound, RowTypes, AllHeld, SeedRow

LEMMA RetiredTypes ==
  ASSUME NEW c \in ContractStatus
  PROVE  Retired(c) \in ContractStatus /\ Retired(c) \notin {"proposed", "locked"}
BY DEF Retired, ContractStatus

LEMMA RetireSeedGoesOn ==
  ASSUME IInv, NEW e \in Event, NEW n \in Revision, RetireSeed(e, n)
  PROVE  RowsGoOn
<1> DEFINE row == [seed[e][n] EXCEPT !.status = "retired"]
           cs == [k \in Lineage |-> Retired(contract[e][n][k])]
<1>1. Sound /\ control \in Nat /\ binding \in Nat /\ seed[e][n] \in SeedRow
  BY IInvSound, SoundSeed
<1>2. seed' = [seed EXCEPT ![e][n] = row] /\ contract' = [contract EXCEPT ![e][n] = cs]
  BY <1>1 DEF RetireSeed, RetireContracts, Sound, RowTypes
<1>3. UNCHANGED arc /\ Advance(TRUE) /\ seed[e][n].status # "absent"
  BY DEF RetireSeed, Live
<1>4. cs \in [Lineage -> ContractStatus] /\ \A k \in Lineage : cs[k] \notin {"proposed", "locked"}
  BY <1>1, RetiredTypes DEF Sound, RowTypes
<1>5. row \in SeedRow /\ row.status = "retired" /\ SeedGrows(seed[e][n], row)
  BY <1>1 DEF SeedRow, SeedGrows
<1> HIDE DEF row, cs
<1> QED BY <1>1, <1>2, <1>3, <1>4, <1>5, EditGoesOn DEF Bound

LEMMA ProposeContractGoesOn ==
  ASSUME IInv, NEW e \in Event, NEW n \in Revision, ProposeContract(e, n)
  PROVE  RowsGoOn
<1> DEFINE cs == [contract[e][n] EXCEPT ![1] = "proposed"]
           row == seed[e][n]
<1>1. /\ Sound /\ control \in Nat /\ binding \in Nat
      /\ seed[e][n] \in SeedRow /\ contract[e][n] \in [Lineage -> ContractStatus]
      /\ Held(e, n, seed, contract)
  BY IInvSound, SoundSeed
<1>2. /\ UNCHANGED <<arc, seed>> /\ Advance(TRUE) /\ seed[e][n].status \notin {"absent", "retired"}
      /\ \A k \in Lineage : contract[e][n][k] = "absent"
  BY DEF ProposeContract, Live, NoContract
<1>3. contract' = [contract EXCEPT ![e][n] = cs]
  BY <1>1 DEF ProposeContract, Sound, RowTypes
<1>4. seed' = [seed EXCEPT ![e][n] = row]
  BY <1>1, <1>2 DEF Sound, RowTypes
<1>5. cs \in [Lineage -> ContractStatus] /\ \A k \in Lineage : k # 1 => cs[k] = "absent"
  BY <1>1, <1>2 DEF ContractStatus
<1>6. 1 \in Lineage /\ cs[1] = "proposed"
  BY <1>1, EventExperienceAssumption DEF Lineage
<1>7. seed[e][n].status \notin Bound
  BY <1>1, <1>2 DEF Held
<1>8. row \in SeedRow /\ row.status \notin Bound \cup {"retired"} /\ SeedGrows(seed[e][n], row)
  BY <1>1, <1>2, <1>7 DEF SeedGrows
<1>9. \A k \in Lineage :
        /\ row.status = "retired" => cs[k] \notin {"proposed", "locked"}
        /\ cs[k] = "locked" => row.status \in Bound /\ row.bound = k
        /\ cs[k] \in {"proposed", "locked"} =>
             \A j \in Lineage : cs[j] \in {"proposed", "locked"} => j = k
  BY <1>5, <1>6, <1>8
<1> HIDE DEF cs, row
<1>10. UNCHANGED arc /\ Advance(TRUE) /\ seed[e][n].status # "absent"
  BY <1>2
<1> QED BY <1>1, <1>3, <1>4, <1>5, <1>8, <1>9, <1>10, EditGoesOn

(* The contract that is locked or bound is the only one.                      *)
LEMMA LockGoesOn ==
  ASSUME Sound, control \in Nat, binding \in Nat,
         NEW e \in Event, NEW n \in Revision, NEW k \in Lineage,
         seed[e][n].status \in {"seeded", "experience_locked"},
         \A j \in Lineage : Active(e, n, j) => j = k,
         seed' = [seed EXCEPT ![e][n].status = "experience_locked", ![e][n].bound = k],
         contract' = [contract EXCEPT ![e][n][k] = "locked"],
         UNCHANGED arc, Advance(TRUE)
  PROVE  RowsGoOn
<1> DEFINE row == [seed[e][n] EXCEPT !.status = "experience_locked", !.bound = k]
           cs == [contract[e][n] EXCEPT ![k] = "locked"]
<1>1. seed[e][n] \in SeedRow /\ contract[e][n] \in [Lineage -> ContractStatus]
  BY SoundSeed
<1>2. seed' = [seed EXCEPT ![e][n] = row] /\ contract' = [contract EXCEPT ![e][n] = cs]
  BY <1>1 DEF Sound, RowTypes
<1>3. k \in 0..MaxLineage
  BY EventExperienceAssumption DEF Lineage
<1>4. /\ row \in SeedRow /\ row.status \in Bound \ {"retired"} /\ row.bound = k
      /\ SeedGrows(seed[e][n], row)
  BY <1>1, <1>3 DEF SeedRow, SeedGrows, Bound
<1>5. cs \in [Lineage -> ContractStatus] /\ cs[k] = "locked"
  BY <1>1 DEF ContractStatus
<1>6. \A j \in Lineage : j # k => cs[j] \notin {"proposed", "locked"}
  BY <1>1 DEF Active
<1> HIDE DEF row, cs
<1>7. \A j \in Lineage :
        /\ row.status = "retired" => cs[j] \notin {"proposed", "locked"}
        /\ cs[j] = "locked" => row.status \in Bound /\ row.bound = j
        /\ cs[j] \in {"proposed", "locked"} =>
             \A i \in Lineage : cs[i] \in {"proposed", "locked"} => i = j
  BY <1>4, <1>5, <1>6
<1>8. \E j \in Lineage : row.bound = j /\ cs[j] = "locked"
  BY <1>4, <1>5
<1>9. seed[e][n].status # "absent"
  OBVIOUS
<1> QED BY <1>2, <1>4, <1>5, <1>7, <1>8, <1>9, EditGoesOn

LEMMA LockContractGoesOn ==
  ASSUME IInv, NEW e \in Event, NEW n \in Revision, NEW k \in Lineage, LockContract(e, n, k)
  PROVE  RowsGoOn
<1>1. /\ Sound /\ control \in Nat /\ binding \in Nat /\ Held(e, n, seed, contract)
  BY IInvSound, SoundSeed
<1>2. \A j \in Lineage : Active(e, n, j) => j = k
  BY <1>1 DEF Held, Active, LockContract
<1> QED BY <1>1, <1>2, LockGoesOn DEF LockContract, Bind

(* A seed and its contracts with nothing locked.                              *)
LEMMA UnlockGoesOn ==
  ASSUME Sound, control \in Nat, binding \in Nat,
         NEW e \in Event, NEW n \in Revision, NEW k \in Lineage,
         seed[e][n].status \in {"seeded", "experience_locked"},
         NEW cs \in [Lineage -> ContractStatus],
         \A j \in Lineage : cs[j] \in {"proposed", "locked"} => j = k /\ cs[j] # "locked",
         seed' = [seed EXCEPT ![e][n].status = "seeded", ![e][n].bound = 0],
         contract' = [contract EXCEPT ![e][n] = cs],
         UNCHANGED arc, Advance(TRUE)
  PROVE  RowsGoOn
<1> DEFINE row == [seed[e][n] EXCEPT !.status = "seeded", !.bound = 0]
<1>1. seed[e][n] \in SeedRow
  BY SoundSeed
<1>2. seed' = [seed EXCEPT ![e][n] = row]
  BY <1>1 DEF Sound, RowTypes
<1>3. 0 \in 0..MaxLineage
  BY EventExperienceAssumption
<1>4. /\ row \in SeedRow /\ row.status \notin Bound \cup {"retired"} /\ SeedGrows(seed[e][n], row)
  BY <1>1, <1>3 DEF SeedRow, SeedGrows, Bound
<1> HIDE DEF row
<1>5. \A j \in Lineage :
        /\ row.status = "retired" => cs[j] \notin {"proposed", "locked"}
        /\ cs[j] = "locked" => row.status \in Bound /\ row.bound = j
        /\ cs[j] \in {"proposed", "locked"} =>
             \A i \in Lineage : cs[i] \in {"proposed", "locked"} => i = j
  BY <1>4
<1>6. seed[e][n].status # "absent"
  OBVIOUS
<1> QED BY <1>2, <1>4, <1>5, <1>6, EditGoesOn

LEMMA SupersedeContractGoesOn ==
  ASSUME IInv, NEW e \in Event, NEW n \in Revision, NEW k \in Lineage, NEW locks \in BOOLEAN,
         SupersedeContract(e, n, k, locks)
  PROVE  RowsGoOn
<1> DEFINE c == contract[e][n]
           cs == [c EXCEPT ![k] = Retired(c[k]), ![k + 1] = "proposed"]
           cl == [c EXCEPT ![k] = Retired(c[k]), ![k + 1] = "locked"]
           row == [seed[e][n] EXCEPT !.status = "experience_locked", !.bound = k + 1]
<1>1. /\ Sound /\ control \in Nat /\ binding \in Nat /\ Held(e, n, seed, contract)
      /\ c \in [Lineage -> ContractStatus] /\ seed[e][n] \in SeedRow
  BY IInvSound, SoundSeed
<1>2. /\ c[k] \in {"proposed", "locked"} /\ k + 1 \in Lineage
      /\ seed[e][n].status \in {"seeded", "experience_locked"}
      /\ UNCHANGED arc /\ Advance(TRUE)
  BY DEF SupersedeContract, Active
<1>3. \A j \in Lineage : c[j] \in {"proposed", "locked"} => j = k
  BY <1>1, <1>2 DEF Held
<1>4. Retired(c[k]) \in ContractStatus /\ Retired(c[k]) \notin {"proposed", "locked"}
  BY <1>1, RetiredTypes
<1>5. k + 1 # k /\ k + 1 \in 0..MaxLineage
  BY <1>2, EventExperienceAssumption DEF Lineage
<1>6. CASE ~locks
  <2>1. contract' = [contract EXCEPT ![e][n] = cs]
    BY <1>1, <1>6 DEF SupersedeContract, Sound, RowTypes
  <2>2. seed' = [seed EXCEPT ![e][n].status = "seeded", ![e][n].bound = 0]
    BY <1>6 DEF SupersedeContract, Bind
  <2>3. cs \in [Lineage -> ContractStatus]
    BY <1>1, <1>4 DEF ContractStatus
  <2>4. \A j \in Lineage : cs[j] \in {"proposed", "locked"} => j = k + 1 /\ cs[j] # "locked"
    BY <1>1, <1>2, <1>3, <1>4, <1>5
  <2> HIDE DEF cs
  <2> QED BY <1>1, <1>2, <2>1, <2>2, <2>3, <2>4, UnlockGoesOn
<1>7. CASE locks
  <2>1. contract' = [contract EXCEPT ![e][n] = cl]
    BY <1>1, <1>7 DEF SupersedeContract, Sound, RowTypes
  <2>2. seed' = [seed EXCEPT ![e][n] = row]
    BY <1>1, <1>7 DEF SupersedeContract, Bind, Sound, RowTypes
  <2>3. cl \in [Lineage -> ContractStatus] /\ cl[k + 1] = "locked"
    BY <1>1, <1>2, <1>4 DEF ContractStatus
  <2>4. \A j \in Lineage : cl[j] \in {"proposed", "locked"} => j = k + 1
    BY <1>1, <1>2, <1>3, <1>4, <1>5
  <2>5. /\ row \in SeedRow /\ row.status \in Bound \ {"retired"} /\ row.bound = k + 1
        /\ SeedGrows(seed[e][n], row)
    BY <1>1, <1>2, <1>5 DEF SeedRow, SeedGrows, Bound
  <2> HIDE DEF cl, row
  <2>6. \A j \in Lineage :
          /\ row.status = "retired" => cl[j] \notin {"proposed", "locked"}
          /\ cl[j] = "locked" => row.status \in Bound /\ row.bound = j
          /\ cl[j] \in {"proposed", "locked"} =>
               \A i \in Lineage : cl[i] \in {"proposed", "locked"} => i = j
    BY <2>4, <2>5
  <2>7. \E j \in Lineage : row.bound = j /\ cl[j] = "locked"
    BY <1>2, <2>3, <2>5
  <2>8. seed[e][n].status # "absent"
    BY <1>2
  <2> QED BY <1>1, <1>2, <2>1, <2>2, <2>3, <2>5, <2>6, <2>7, <2>8, EditGoesOn
<1> QED BY <1>6, <1>7

LEMMA RetireContractGoesOn ==
  ASSUME IInv, NEW e \in Event, NEW n \in Revision, NEW k \in Lineage, RetireContract(e, n, k)
  PROVE  RowsGoOn
<1> DEFINE c == contract[e][n]
           cs == [c EXCEPT ![k] = Retired(c[k])]
           row == seed[e][n]
<1>1. /\ Sound /\ control \in Nat /\ binding \in Nat /\ Held(e, n, seed, contract)
      /\ c \in [Lineage -> ContractStatus] /\ seed[e][n] \in SeedRow
  BY IInvSound, SoundSeed
<1>2. /\ c[k] \in {"proposed", "locked"} /\ seed[e][n].status \notin {"expanded", "generated"}
      /\ contract' = [contract EXCEPT ![e][n][k] = Retired(c[k])]
      /\ UNCHANGED arc /\ Advance(TRUE)
  BY DEF RetireContract, Active
<1>3. contract' = [contract EXCEPT ![e][n] = cs]
  BY <1>1, <1>2 DEF Sound, RowTypes
<1>4. \A j \in Lineage : c[j] \in {"proposed", "locked"} => j = k
  BY <1>1, <1>2 DEF Held
<1>5. /\ cs \in [Lineage -> ContractStatus]
      /\ \A j \in Lineage : cs[j] \notin {"proposed", "locked"}
  BY <1>1, <1>4, RetiredTypes
<1> HIDE DEF cs
<1>6. seed[e][n].status \notin {"absent", "retired"}
  BY <1>1, <1>2 DEF Held
<1>7. CASE seed[e][n].bound = k
  <2>1. seed' = [seed EXCEPT ![e][n].status = "seeded", ![e][n].bound = 0]
    BY <1>7 DEF RetireContract, Bind
  <2>2. seed[e][n].status \in {"seeded", "experience_locked"}
    BY <1>1, <1>2, <1>6, <1>7 DEF SeedRow, Bound
  <2> QED BY <1>1, <1>2, <1>3, <1>5, <2>1, <2>2, UnlockGoesOn
<1>8. CASE seed[e][n].bound # k
  <2>1. seed' = [seed EXCEPT ![e][n] = row]
    BY <1>1, <1>8 DEF RetireContract, Sound, RowTypes
  <2>2. row.status \notin Bound \cup {"retired"}
    BY <1>1, <1>4, <1>6, <1>8 DEF Held
  <2>3. row \in SeedRow /\ SeedGrows(seed[e][n], row)
    BY <1>1 DEF SeedGrows
  <2> HIDE DEF row
  <2> QED BY <1>1, <1>2, <1>3, <1>5, <1>6, <2>1, <2>2, <2>3, EditGoesOn
<1> QED BY <1>7, <1>8

LEMMA AdvanceSeedGoesOn ==
  ASSUME IInv, NEW e \in Event, NEW n \in Revision, AdvanceSeed(e, n)
  PROVE  RowsGoOn
<1> DEFINE next == IF seed[e][n].status = "experience_locked" THEN "expanded" ELSE "generated"
           row == [seed[e][n] EXCEPT !.status = next]
           cs == contract[e][n]
<1>1. /\ Sound /\ control \in Nat /\ binding \in Nat /\ Held(e, n, seed, contract)
      /\ cs \in [Lineage -> ContractStatus] /\ seed[e][n] \in SeedRow
  BY IInvSound, SoundSeed
<1>2. /\ seed[e][n].status \in {"experience_locked", "expanded"}
      /\ \E k \in Lineage : seed[e][n].bound = k /\ cs[k] = "locked"
      /\ UNCHANGED arc /\ Advance(TRUE) /\ UNCHANGED contract
      /\ seed' = [seed EXCEPT ![e][n].status = next]
  BY DEF AdvanceSeed
<1>3. seed' = [seed EXCEPT ![e][n] = row] /\ contract' = [contract EXCEPT ![e][n] = cs]
  BY <1>1, <1>2 DEF Sound, RowTypes
<1>4. /\ row \in SeedRow /\ row.status \in Bound \ {"retired"} /\ row.bound = seed[e][n].bound
      /\ SeedGrows(seed[e][n], row)
  BY <1>1, <1>2 DEF SeedRow, SeedGrows, Bound
<1>5. \A k \in Lineage :
        /\ row.status = "retired" => cs[k] \notin {"proposed", "locked"}
        /\ cs[k] = "locked" => row.status \in Bound /\ row.bound = k
        /\ cs[k] \in {"proposed", "locked"} =>
             \A j \in Lineage : cs[j] \in {"proposed", "locked"} => j = k
  BY <1>1, <1>4 DEF Held
<1>6. \E k \in Lineage : row.bound = k /\ cs[k] = "locked"
  BY <1>2, <1>4
<1>7. seed[e][n].status # "absent" /\ UNCHANGED arc /\ Advance(TRUE)
  BY <1>2
<1> HIDE DEF row, cs, next
<1> QED BY <1>1, <1>3, <1>4, <1>5, <1>6, <1>7, EditGoesOn

(* Only arcs change.                                                          *)
LEMMA ArcGoesOn ==
  ASSUME Sound, control \in Nat, binding \in Nat, UNCHANGED <<seed, contract>>,
         arc' \in [ArcRevision -> ArcRow], ArcsGrow(arc, arc'), Advance(TRUE)
  PROVE  RowsGoOn
<1>1. Sound'
  BY DEF Sound, RowTypes, AllHeld, Held, OneRevisionPerSource, Present
<1>2. SeedsGrow(seed, seed')
  BY DEF SeedsGrow, SeedGrows
<1> QED BY <1>1, <1>2 DEF RowsGoOn, Advances, Advance

LEMMA RetireArcGoesOn ==
  ASSUME IInv, NEW a \in ArcRevision, RetireArc(a)
  PROVE  RowsGoOn
<1>1. Sound /\ control \in Nat /\ binding \in Nat
  BY IInvSound
<1>2. /\ arc' = [arc EXCEPT ![a].status = "retired"]
      /\ Advance(TRUE) /\ UNCHANGED <<seed, contract>>
  BY DEF RetireArc
<1>3. arc \in [ArcRevision -> ArcRow]
  BY <1>1 DEF Sound, RowTypes
<1>4. arc' \in [ArcRevision -> ArcRow] /\ ArcsGrow(arc, arc')
  BY <1>2, <1>3 DEF ArcRow, ArcsGrow, ArcGrows
<1> QED BY <1>1, <1>2, <1>4, ArcGoesOn

LEMMA SupersedeArcGrows ==
  ASSUME Sound, NEW a \in ArcRevision, NEW refs \in Refs, NEW choice \in {"default", "selected"},
         SupersedeArc(a, refs, choice)
  PROVE  arc' \in [ArcRevision -> ArcRow] /\ ArcsGrow(arc, arc')
<1> DEFINE new == [status |-> "proposed", binds |-> refs, choice |-> choice]
<1>1. arc \in [ArcRevision -> ArcRow]
  BY DEF Sound, RowTypes
<1>2. /\ arc' = [arc EXCEPT ![a].status = "retired", ![a + 1] = new]
      /\ a + 1 \in ArcRevision /\ arc[a + 1].status = "absent"
  BY DEF SupersedeArc, LatestArc, ArcPresent, ArcRevision
<1>3. refs \in [Event -> 0..MaxRevision]
  BY EventExperienceAssumption DEF Refs, Revision
<1>4. new \in ArcRow
  BY <1>3 DEF ArcRow
<1>5. a + 1 # a
  BY DEF ArcRevision
<1> HIDE DEF new
<1>6. arc' \in [ArcRevision -> ArcRow]
  BY <1>1, <1>2, <1>4 DEF ArcRow
<1>7. ASSUME NEW b \in ArcRevision PROVE ArcGrows(arc[b], arc'[b])
  <2>1. CASE b = a
    BY <1>1, <1>2, <1>5, <2>1 DEF ArcRow, ArcGrows
  <2>2. CASE b = a + 1
    BY <1>2, <2>2 DEF ArcGrows
  <2>3. CASE b # a /\ b # a + 1
    <3>1. arc'[b] = arc[b]
      BY <1>1, <1>2, <2>3
    <3> QED BY <3>1 DEF ArcGrows
  <2> QED BY <2>1, <2>2, <2>3
<1> QED BY <1>6, <1>7 DEF ArcsGrow

LEMMA GateTypes ==
  ASSUME IInv, NEW r \in Request
  PROVE  /\ gate[r] \in Gate /\ gate[r].next \in Event /\ gate[r].control \in Nat
         /\ gate[r].arc \in 0..MaxArc /\ stored[r].selected \in 0..MaxArc
         /\ stored[r].arcLock \in 0..MaxArc /\ stored[r].contracts \in [Event -> Nat]
         /\ gate[r].pc \in Planning \cup Choosing \cup Locking => gate[r].refs \in Refs
         /\ KnowsSeeds(r, gate[r], seed) /\ KnowsArc(r, gate[r], seed, arc)
         /\ IsFresh(r, gate[r], seed, arc, control) /\ Recalls(r, stored[r], seed, arc)
BY DEF IInv, TypeOK, Gate, Event, AllKnow, Knows, KnowsSeeds

LEMMA LockNextContractGoesOn ==
  ASSUME IInv, NEW r \in Request, LockNextContract(r)
  PROVE  RowsGoOn
<1> DEFINE e == gate[r].next
           n == gate[r].refs[e]
<1>1. Sound /\ control \in Nat /\ binding \in Nat
  BY IInvSound
<1>2. e \in Event /\ n \in Revision
  BY GateTypes DEF LockNextContract, Locking, Refs
<1>3. 1 \in Lineage
  BY EventExperienceAssumption DEF Lineage
<1>4. CASE stored[r].contracts[e] # 0
  BY <1>1, <1>4, RowsStay DEF LockNextContract
<1>5. CASE stored[r].contracts[e] = 0
  <2>1. /\ seed[e][n].status = "seeded" /\ \A j \in Lineage : Active(e, n, j) => j = 1
        /\ seed' = [seed EXCEPT ![e][n].status = "experience_locked", ![e][n].bound = 1]
        /\ contract' = [contract EXCEPT ![e][n][1] = "locked"]
        /\ UNCHANGED arc /\ Advance(TRUE)
    BY <1>5 DEF LockNextContract, CanLockContract, NoContract, Active
  <2> HIDE DEF e, n
  <2> QED BY <1>1, <1>2, <1>3, <2>1, LockGoesOn
<1> QED BY <1>4, <1>5

LEMMA SaveArcGoesOn ==
  ASSUME IInv, NEW r \in Request, SaveArc(r)
  PROVE  RowsGoOn
<1>1. Sound /\ control \in Nat /\ binding \in Nat
  BY IInvSound
<1>2. gate[r].refs \in Refs /\ gate[r].pc = "arc" /\ UNCHANGED <<seed, contract>>
  BY GateTypes DEF SaveArc, Planning
<1>3. CASE gate[r].arcPlan = "reuse"
  BY <1>1, <1>2, <1>3, RowsStay DEF SaveArc
<1>4. CASE gate[r].arcPlan = "create" /\ Fresh(r)
  <2> DEFINE new == [status |-> "proposed", binds |-> gate[r].refs, choice |-> "default"]
  <2>1. arc' = [arc EXCEPT ![1] = new] /\ Advance(TRUE)
    BY <1>4 DEF SaveArc
  <2>2. \A a \in ArcRevision : arc[a].status = "absent"
    BY <1>2, <1>4, GateTypes DEF IsFresh, Fresh, Planning
  <2>3. gate[r].refs \in [Event -> 0..MaxRevision]
    BY <1>2, EventExperienceAssumption DEF Refs, Revision
  <2>4. new \in ArcRow
    BY <2>3 DEF ArcRow
  <2> HIDE DEF new
  <2>5. arc' \in [ArcRevision -> ArcRow] /\ ArcsGrow(arc, arc')
    BY <1>1, <2>1, <2>2, <2>4 DEF Sound, RowTypes, ArcsGrow, ArcGrows
  <2> QED BY <1>1, <1>2, <2>1, <2>5, ArcGoesOn
<1>5. CASE gate[r].arcPlan = "supersede"
  <2>1. SupersedeArc(gate[r].arc, gate[r].refs, "default") /\ Advance(TRUE)
    BY <1>5 DEF SaveArc
  <2>2. gate[r].arc \in ArcRevision
    BY <1>2, <1>5, GateTypes DEF KnowsArc, Planning
  <2>3. arc' \in [ArcRevision -> ArcRow] /\ ArcsGrow(arc, arc')
    BY <1>1, <1>2, <2>1, <2>2, SupersedeArcGrows
  <2> QED BY <1>1, <1>2, <2>1, <2>3, ArcGoesOn
<1> QED BY <1>3, <1>4, <1>5, GateTypes DEF SaveArc, CanSaveArc, Gate

LEMMA SelectArcGoesOn ==
  ASSUME IInv, NEW r \in Request, SelectArc(r)
  PROVE  RowsGoOn
<1>1. /\ Sound /\ control \in Nat /\ binding \in Nat
      /\ UNCHANGED <<seed, contract>>
  BY IInvSound DEF SelectArc
<1>2. CASE UNCHANGED <<control, binding, arc>>
  BY <1>1, <1>2, RowsStay
<1>3. ASSUME NEW a \in ArcRevision, NEW refs \in Refs,
             SupersedeArc(a, refs, "selected"), Advance(TRUE)
      PROVE  RowsGoOn
  <2>1. arc' \in [ArcRevision -> ArcRow] /\ ArcsGrow(arc, arc')
    BY <1>1, <1>3, SupersedeArcGrows
  <2> QED BY <1>1, <1>3, <2>1, ArcGoesOn
<1> QED BY <1>2, <1>3 DEF SelectArc

LEMMA LockArcGoesOn ==
  ASSUME IInv, NEW r \in Request, LockArc(r)
  PROVE  RowsGoOn
<1> DEFINE a == gate[r].arc
<1>1. /\ Sound /\ control \in Nat /\ binding \in Nat
      /\ UNCHANGED <<seed, contract>> /\ a \in ArcRevision
  BY IInvSound, GateTypes DEF LockArc, KnowsArc, Locking
<1>2. CASE gate[r].locked \/ stored[r].arcLock = a
  BY <1>1, <1>2, RowsStay DEF LockArc
<1>3. CASE ~(gate[r].locked \/ stored[r].arcLock = a)
  <2>1. arc' = [arc EXCEPT ![a].status = "locked"] /\ Advance(TRUE) /\ arc[a].status = "proposed"
    BY <1>3 DEF LockArc, CanLockArc
  <2>2. arc \in [ArcRevision -> ArcRow]
    BY <1>1 DEF Sound, RowTypes
  <2> HIDE DEF a
  <2>3. arc' \in [ArcRevision -> ArcRow] /\ ArcsGrow(arc, arc')
    BY <1>1, <2>1, <2>2 DEF ArcRow, ArcsGrow, ArcGrows
  <2> QED BY <1>1, <2>1, <2>3, ArcGoesOn
<1> QED BY <1>2, <1>3

(* A cancel retires seeds that hold nothing, so the binding revision may stay. *)
LEMMA RetireCandidatesGoesOn ==
  ASSUME Sound, control \in Nat, binding \in Nat,
         NEW q \in Refs, RetireCandidates(q), Advance(FALSE)
  PROVE  RowsGoOn
<1> DEFINE Gone(e, n) == seed[e][q[e]].status = "seeded" /\ n = q[e]
<1>1. ASSUME NEW e \in Event, NEW n \in Revision
      PROVE  /\ Gone(e, n) => seed[e][n].status = "seeded"
             /\ seed'[e][n] = IF Gone(e, n) THEN [seed[e][n] EXCEPT !.status = "retired"]
                                ELSE seed[e][n]
             /\ \A k \in Lineage : contract'[e][n][k] =
                  IF Gone(e, n) /\ contract[e][n][k] = "proposed" THEN "withdrawn"
                  ELSE contract[e][n][k]
  BY DEF RetireCandidates
<1>2. /\ seed' = [e \in Event |-> [n \in Revision |-> seed'[e][n]]]
      /\ contract' = [e \in Event |-> [n \in Revision |-> [k \in Lineage |-> contract'[e][n][k]]]]
  BY DEF RetireCandidates
<1>3. arc' \in [ArcRevision -> ArcRow] /\ ArcsGrow(arc, arc')
  <2>1. arc' = [a \in ArcRevision |-> arc'[a]]
    BY DEF RetireCandidates
  <2>2. \A a \in ArcRevision :
          arc'[a] = arc[a] \/ (arc[a].status = "proposed" /\ arc'[a] = [arc[a] EXCEPT !.status = "retired"])
    BY DEF RetireCandidates
  <2>3. \A a \in ArcRevision : arc[a] \in ArcRow
    BY DEF Sound, RowTypes
  <2>4. \A a \in ArcRevision : arc'[a] \in ArcRow /\ ArcGrows(arc[a], arc'[a])
    BY <2>2, <2>3 DEF ArcRow, ArcGrows
  <2> QED BY <2>1, <2>4 DEF ArcsGrow
<1> HIDE DEF Gone
<1>4. ASSUME NEW e \in Event, NEW n \in Revision
      PROVE  /\ seed'[e][n] \in SeedRow
             /\ \A k \in Lineage : contract'[e][n][k] \in ContractStatus
             /\ SeedGrows(seed[e][n], seed'[e][n])
             /\ Held(e, n, seed', contract')
             /\ seed[e][n].status = "absent" => seed'[e][n].status = "absent"
             /\ seed[e][n].status \in Bound =>
                  /\ seed'[e][n] = seed[e][n]
                  /\ \A k \in Lineage : contract[e][n][k] = "locked" => contract'[e][n][k] = "locked"
  <2>1. /\ seed[e][n] \in SeedRow /\ Held(e, n, seed, contract)
        /\ \A k \in Lineage : contract[e][n][k] \in ContractStatus
    BY SoundSeed
  <2>2. CASE Gone(e, n)
    <3>1. /\ seed[e][n].status = "seeded"
          /\ seed'[e][n] = [seed[e][n] EXCEPT !.status = "retired"]
          /\ \A k \in Lineage : contract'[e][n][k] =
               IF contract[e][n][k] = "proposed" THEN "withdrawn" ELSE contract[e][n][k]
      BY <1>1, <2>2
    <3>2. /\ seed'[e][n] \in SeedRow /\ seed'[e][n].status = "retired"
          /\ seed'[e][n].version = seed[e][n].version
      BY <2>1, <3>1 DEF SeedRow
    <3>3. \A k \in Lineage : /\ contract'[e][n][k] \in ContractStatus
                             /\ contract'[e][n][k] \notin {"proposed", "locked"}
      BY <2>1, <3>1 DEF ContractStatus, Held, Bound
    <3>4. Held(e, n, seed', contract')
      BY <3>2, <3>3 DEF Held, Bound
    <3> QED BY <3>1, <3>2, <3>3, <3>4 DEF SeedGrows, Bound
  <2>3. CASE ~Gone(e, n)
    <3>1. seed'[e][n] = seed[e][n] /\ \A k \in Lineage : contract'[e][n][k] = contract[e][n][k]
      BY <1>1, <2>3
    <3> QED BY <2>1, <3>1 DEF Held, SeedGrows
  <2> QED BY <2>2, <2>3
<1>5. RowTypes'
  BY <1>2, <1>3, <1>4 DEF RowTypes
<1>6. SeedsGrow(seed, seed') /\ BoundStay
  BY <1>4 DEF SeedsGrow, BoundStay
<1>7. Sound'
  BY <1>4, <1>5, <1>6, NoNewSeed
<1> QED BY <1>3, <1>6, <1>7 DEF RowsGoOn, Advances, Advance

LEMMA AnswerGoesOn ==
  ASSUME IInv, NEW q \in Refs, Answer(q)
  PROVE  RowsGoOn
BY IInvSound, RowsStay, RetireCandidatesGoesOn DEF Answer

(* A revision after the others, which are retired.                            *)
LEMMA NewSeed ==
  ASSUME Sound, RowTypes', NEW e \in Event, NEW n \in Revision,
         seed'[e][n].status = "seeded", \A k \in Lineage : contract'[e][n][k] = "absent",
         \A m \in Revision : m >= n => seed[e][m].status = "absent",
         \A m \in Revision : m < n =>
           seed'[e][m].status = "retired" /\ seed'[e][m].version < seed'[e][n].version,
         \A d \in Event, m \in Revision : d # e \/ m # n =>
           /\ Held(d, m, seed', contract') /\ SeedGrows(seed[d][m], seed'[d][m])
           /\ seed[d][m].status = "absent" => seed'[d][m].status = "absent"
  PROVE  Sound' /\ SeedsGrow(seed, seed')
<1>1. Held(e, n, seed', contract')
  BY DEF Held, Bound
<1>2. n >= n
  BY DEF Revision
<1>3. SeedGrows(seed[e][n], seed'[e][n])
  BY <1>2 DEF SeedGrows
<1>4. AllHeld' /\ SeedsGrow(seed, seed')
  BY <1>1, <1>3 DEF AllHeld, SeedsGrow
<1>5. ASSUME NEW d \in Event, NEW m \in Revision, NEW p \in Revision,
             m < p, seed'[d][p].status # "absent"
      PROVE  seed'[d][m].status = "retired" /\ seed'[d][m].version < seed'[d][p].version
  <2>1. CASE d = e /\ p = n
    BY <1>5, <2>1
  <2>2. CASE d # e \/ p # n
    <3>1. seed[d][p].status # "absent" /\ SeedGrows(seed[d][p], seed'[d][p])
      BY <1>5, <2>2
    <3>2. seed[d][m].status = "retired" /\ seed[d][m].version < seed[d][p].version
      BY <1>5, <3>1 DEF Sound, OneRevisionPerSource, Present
    <3>3. SeedGrows(seed[d][m], seed'[d][m])
      BY <1>4 DEF SeedsGrow
    <3> QED BY <3>1, <3>2, <3>3 DEF SeedGrows
  <2> QED BY <2>1, <2>2
<1> QED BY <1>4, <1>5 DEF Sound, OneRevisionPerSource, Present

LEMMA SaveSeedGoesOn ==
  ASSUME IInv, NEW r \in Request, SaveSeed(r)
  PROVE  RowsGoOn
<1> DEFINE e == gate[r].next
           n == gate[r].refs[e]
           new == [status |-> "seeded", version |-> Version(r), bound |-> 0]
<1>1. /\ Sound /\ control \in Nat /\ binding \in Nat /\ gate[r].pc = "seeds"
      /\ e \in Event /\ n \in Revision /\ UNCHANGED arc /\ ArcsGrow(arc, arc')
  BY IInvSound, GateTypes DEF SaveSeed, Planning, Refs, ArcsGrow, ArcGrows
<1>2. new \in SeedRow /\ new.status = "seeded" /\ new.version = Version(r)
  BY EventExperienceAssumption DEF SeedRow, Version
<1>3. CASE gate[r].plan[e] = "reuse"
  BY <1>1, <1>3, RowsStay DEF SaveSeed
<1>4. CASE gate[r].plan[e] # "reuse"
  <2>1. Fresh(r) /\ Advance(TRUE)
    BY <1>4 DEF SaveSeed, CanSaveSeed
  <2>2. Planned(r, e, gate[r].plan[e], n, seed)
    BY <1>1, <2>1, GateTypes DEF IsFresh, Fresh, Planning, Event
  <2>3. CASE gate[r].plan[e] = "create"
    <3>1. seed' = [seed EXCEPT ![e][n] = new] /\ UNCHANGED contract
      BY <2>3 DEF SaveSeed
    <3>2. n = 1 /\ \A m \in Revision : seed[e][m].status = "absent" /\ ~(m < n)
      BY <2>2, <2>3 DEF Planned, Revision
    <3> HIDE DEF e, n, new
    <3>3. RowTypes'
      BY <1>1, <1>2, <3>1 DEF Sound, RowTypes
    <3>4. seed'[e][n] = new /\ \A k \in Lineage : contract'[e][n][k] = "absent"
      BY <1>1, <3>1, <3>2 DEF Sound, RowTypes, AllHeld, Held
    <3>5. ASSUME NEW d \in Event, NEW m \in Revision, d # e \/ m # n
          PROVE  /\ Held(d, m, seed', contract') /\ SeedGrows(seed[d][m], seed'[d][m])
                 /\ seed[d][m].status = "absent" => seed'[d][m].status = "absent"
      <4>1. seed'[d][m] = seed[d][m] /\ Held(d, m, seed, contract)
        BY <1>1, <3>1, <3>5 DEF Sound, RowTypes, AllHeld
      <4> QED BY <3>1, <4>1 DEF Held, SeedGrows
    <3>6. Sound' /\ SeedsGrow(seed, seed')
      BY <1>1, <1>2, <3>2, <3>3, <3>4, <3>5, NewSeed
    <3> QED BY <1>1, <2>1, <3>6 DEF RowsGoOn, Advances, Advance
  <2>4. CASE gate[r].plan[e] = "supersede"
    <3> DEFINE o == n - 1
               old == [seed[e][o] EXCEPT !.status = "retired"]
               cs == [k \in Lineage |-> Retired(contract[e][o][k])]
    <3>1. /\ o \in Revision /\ o < n /\ seed[e][o].status # "absent"
          /\ seed[e][o].version < Version(r)
          /\ \A m \in Revision : m > o => seed[e][m].status = "absent"
          /\ \A m \in Revision : m < n => m = o \/ m < o
          /\ \A m \in Revision : m >= n => m > o
      BY <1>1, <2>2, <2>4 DEF Planned, Revision
    <3>2. /\ seed' = [seed EXCEPT ![e][o].status = "retired", ![e][n] = new]
          /\ contract' = [contract EXCEPT ![e][o] = cs]
      BY <2>4 DEF SaveSeed, RetireContracts
    <3>3. /\ seed[e][o] \in SeedRow /\ \A k \in Lineage : contract[e][o][k] \in ContractStatus
          /\ \A k \in Lineage : contract[e][n][k] = "absent"
      <4>1. n > o
        BY <1>1, <3>1 DEF Revision
      <4> HIDE DEF e, n, o
      <4> QED BY <1>1, <3>1, <4>1 DEF Sound, RowTypes, AllHeld, Held
    <3>4. /\ cs \in [Lineage -> ContractStatus]
          /\ \A k \in Lineage : cs[k] \notin {"proposed", "locked"}
      BY <3>3, RetiredTypes
    <3>5. old \in SeedRow /\ old.status = "retired" /\ old.version = seed[e][o].version
      BY <3>3 DEF SeedRow
    <3>6. o # n
      BY <1>1 DEF Revision
    <3>7. seed' = [seed EXCEPT ![e][o] = old, ![e][n] = new]
      <4> HIDE DEF e, n, o, new
      <4> QED BY <1>1, <3>1, <3>2, <3>6 DEF Sound, RowTypes
    <3> HIDE DEF e, n, o, new, old, cs
    <3>8. /\ seed' \in [Event -> [Revision -> SeedRow]]
          /\ contract' \in [Event -> [Revision -> [Lineage -> ContractStatus]]]
          /\ seed'[e][n] = new /\ seed'[e][o] = old /\ contract'[e][o] = cs
          /\ contract'[e][n] = contract[e][n]
      BY <1>1, <1>2, <3>1, <3>2, <3>4, <3>5, <3>6, <3>7 DEF Sound, RowTypes
    <3>9. RowTypes'
      BY <1>1, <3>8 DEF Sound, RowTypes
    <3>10. ASSUME NEW d \in Event, NEW m \in Revision, d # e \/ (m # n /\ m # o)
           PROVE  seed'[d][m] = seed[d][m] /\ contract'[d][m] = contract[d][m]
      BY <1>1, <3>2, <3>7, <3>10 DEF Sound, RowTypes
    <3>11. ASSUME NEW d \in Event, NEW m \in Revision, d # e \/ m # n
           PROVE  /\ Held(d, m, seed', contract') /\ SeedGrows(seed[d][m], seed'[d][m])
                  /\ seed[d][m].status = "absent" => seed'[d][m].status = "absent"
      <4>1. CASE d = e /\ m = o
        <5>1. Held(e, o, seed', contract')
          BY <3>4, <3>5, <3>8 DEF Held, Bound
        <5> QED BY <3>1, <3>5, <3>8, <4>1, <5>1 DEF SeedGrows
      <4>2. CASE d # e \/ (m # n /\ m # o)
        <5>1. seed'[d][m] = seed[d][m] /\ contract'[d][m] = contract[d][m]
          BY <3>10, <4>2
        <5>2. Held(d, m, seed, contract)
          BY <1>1 DEF Sound, AllHeld
        <5> QED BY <5>1, <5>2 DEF Held, SeedGrows
      <4> QED BY <3>11, <4>1, <4>2
    <3>12. ASSUME NEW m \in Revision, m < n
           PROVE  seed'[e][m].status = "retired" /\ seed'[e][m].version < seed'[e][n].version
      <4>1. CASE m = o
        BY <1>2, <3>1, <3>5, <3>8, <4>1
      <4>2. CASE m # o
        <5>1. m < o
          BY <3>1, <3>12, <4>2
        <5>2. seed[e][m].status = "retired" /\ seed[e][m].version < seed[e][o].version
          BY <1>1, <3>1, <5>1 DEF Sound, OneRevisionPerSource, Present
        <5>3. seed'[e][m] = seed[e][m]
          BY <1>1, <3>10, <3>12, <4>2 DEF Revision
        <5>4. seed[e][m].version \in 0..2 /\ seed[e][o].version \in 0..2 /\ Version(r) \in 0..2
          BY <1>1, <3>1, SeedTypes DEF Version, Sound
        <5> QED BY <1>2, <3>1, <3>8, <5>2, <5>3, <5>4
      <4> QED BY <4>1, <4>2
    <3>13. /\ \A m \in Revision : m >= n => seed[e][m].status = "absent"
           /\ seed'[e][n].status = "seeded" /\ \A k \in Lineage : contract'[e][n][k] = "absent"
      BY <1>2, <3>1, <3>3, <3>8
    <3>14. Sound' /\ SeedsGrow(seed, seed')
      BY <1>1, <3>9, <3>11, <3>12, <3>13, NewSeed
    <3> QED BY <1>1, <2>1, <3>14 DEF RowsGoOn, Advances, Advance
  <2> QED BY <1>1, <1>4, <2>3, <2>4, GateTypes DEF Gate
<1> QED BY <1>3, <1>4

-----------------------------------------------------------------------------
(* What is known stays known.                                                 *)

Answers == [contracts : [Event -> Nat], selected : 0..MaxArc, arcLock : 0..MaxArc]

LEMMA MineGoesOn ==
  ASSUME RowsGoOn, NEW r \in Request, NEW e \in Event, NEW n \in Revision, Mine(r, e, n, seed)
  PROVE  Mine(r, e, n, seed')
BY DEF RowsGoOn, SeedsGrow, SeedGrows, Mine

LEMMA TiedGoesOn ==
  ASSUME RowsGoOn, NEW r \in Request, NEW a \in ArcRevision, Tied(r, a, seed, arc)
  PROVE  /\ Tied(r, a, seed', arc') /\ arc'[a].choice = arc[a].choice
         /\ Fixed(a, arc) => Fixed(a, arc')
<1>1. arc[a].status # "absent" /\ ArcGrows(arc[a], arc'[a])
  BY DEF Tied, RowsGoOn, ArcsGrow
<1>2. ASSUME NEW e \in Event
      PROVE  \E n \in Revision :
               Mine(r, e, n, seed') /\ (arc'[a].binds[e] = n \/ seed'[e][n].status = "retired")
  <2>1. PICK n \in Revision :
          Mine(r, e, n, seed) /\ (arc[a].binds[e] = n \/ seed[e][n].status = "retired")
    BY DEF Tied
  <2>2. Mine(r, e, n, seed') /\ SeedGrows(seed[e][n], seed'[e][n])
    BY <2>1, MineGoesOn DEF RowsGoOn, SeedsGrow
  <2>3. seed[e][n].status = "retired" => seed'[e][n].status = "retired"
    BY <2>2 DEF SeedGrows
  <2> QED BY <1>1, <2>1, <2>2, <2>3 DEF ArcGrows
<1> QED BY <1>1, <1>2 DEF Tied, ArcGrows, Fixed

LEMMA FixedGoesOn ==
  ASSUME RowsGoOn, NEW a, Fixed(a, arc)
  PROVE  Fixed(a, arc')
BY DEF RowsGoOn, ArcsGrow, ArcGrows, Fixed

LEMMA KnowsSeedsGoesOn ==
  ASSUME RowsGoOn, NEW r \in Request, NEW g \in Gate, KnowsSeeds(r, g, seed)
  PROVE  KnowsSeeds(r, g, seed')
BY MineGoesOn DEF KnowsSeeds, Refs

LEMMA KnowsArcGoesOn ==
  ASSUME RowsGoOn, NEW r \in Request, NEW g \in Gate, KnowsArc(r, g, seed, arc)
  PROVE  KnowsArc(r, g, seed', arc')
<1>1. g.locked => Fixed(g.arc, arc')
  BY FixedGoesOn DEF KnowsArc
<1>2. g.pc = "manifest" => Fixed(g.arc, arc')
  BY FixedGoesOn DEF KnowsArc
<1>3. g.pc \in Planning /\ g.arcPlan = "reuse" =>
        /\ g.arc \in ArcRevision /\ arc'[g.arc].status # "absent"
        /\ arc'[g.arc].binds = g.refs
        /\ r \in Asks \/ arc'[g.arc].choice = "default"
  BY DEF KnowsArc, RowsGoOn, ArcsGrow, ArcGrows
<1>4. g.pc \in Choosing \cup Locking =>
        /\ g.arc \in ArcRevision /\ Tied(r, g.arc, seed', arc')
        /\ arc'[g.arc].choice = arc[g.arc].choice
  BY TiedGoesOn DEF KnowsArc
<1> QED BY <1>1, <1>2, <1>3, <1>4 DEF KnowsArc

LEMMA IsFreshGoesOn ==
  ASSUME RowsGoOn, control \in Nat, NEW r \in Request, NEW g \in Gate,
         IsFresh(r, g, seed, arc, control)
  PROVE  IsFresh(r, g, seed', arc', control')
<1>1. CASE control' = control + 1
  <2>1. g.control \in Nat
    BY DEF Gate
  <2>2. g.pc \in Planning => g.control <= control
    BY DEF IsFresh
  <2>3. g.pc \in Planning => g.control <= control' /\ g.control # control'
    BY <1>1, <2>1, <2>2
  <2> QED BY <2>3 DEF IsFresh
<1>2. CASE control' = control /\ UNCHANGED <<seed, arc>>
  BY <1>2 DEF IsFresh, Planned
<1> QED BY <1>1, <1>2 DEF RowsGoOn, Advances

LEMMA RecallsGoesOn ==
  ASSUME RowsGoOn, NEW r \in Request, NEW s \in Answers, Recalls(r, s, seed, arc)
  PROVE  Recalls(r, s, seed', arc')
<1>1. s.selected # 0 => s.selected \in ArcRevision
  BY EventExperienceAssumption DEF Answers, ArcRevision
<1> QED BY <1>1, TiedGoesOn, FixedGoesOn DEF Recalls

LEMMA KnowsGoesOn ==
  ASSUME RowsGoOn, control \in Nat, NEW r \in Request, NEW g \in Gate, NEW s \in Answers,
         Knows(r, g, s, seed, arc, control)
  PROVE  Knows(r, g, s, seed', arc', control')
BY KnowsSeedsGoesOn, KnowsArcGoesOn, IsFreshGoesOn, RecallsGoesOn DEF Knows

-----------------------------------------------------------------------------
(* One step of the gate.                                                      *)

GateStep(r) ==
  /\ gate' = [gate EXCEPT ![r] = gate'[r]] /\ gate'[r] \in Gate
  /\ stored' = [stored EXCEPT ![r] = stored'[r]] /\ stored'[r] \in Answers
  /\ Knows(r, gate'[r], stored'[r], seed', arc', control')

LEMMA GateRow ==
  ASSUME IInv, NEW r \in Request
  PROVE  /\ gate[r] \in Gate /\ gate \in [Request -> Gate]
         /\ stored[r] \in Answers /\ stored \in [Request -> Answers]
         /\ Knows(r, gate[r], stored[r], seed, arc, control)
BY DEF IInv, TypeOK, AllKnow, Answers

LEMMA GateStepKnows ==
  ASSUME IInv, RowsGoOn, NEW r \in Request, GateStep(r)
  PROVE  gate' \in [Request -> Gate] /\ stored' \in [Request -> Answers] /\ AllKnow'
<1>1. gate \in [Request -> Gate] /\ stored \in [Request -> Answers] /\ control \in Nat
  BY GateRow, IInvSound
<1>2. gate' \in [Request -> Gate] /\ stored' \in [Request -> Answers]
  BY <1>1 DEF GateStep
<1>3. ASSUME NEW q \in Request
      PROVE  Knows(q, gate'[q], stored'[q], seed', arc', control')
  <2>1. CASE q = r
    BY <2>1 DEF GateStep
  <2>2. CASE q # r
    <3>1. gate'[q] = gate[q] /\ stored'[q] = stored[q]
      BY <1>1, <2>2 DEF GateStep
    <3> QED BY <1>1, <3>1, GateRow, KnowsGoesOn
  <2> QED BY <2>1, <2>2
<1> QED BY <1>2, <1>3 DEF AllKnow

(* The gate of no request moves.                                              *)
LEMMA NoGateKnows ==
  ASSUME IInv, RowsGoOn, UNCHANGED <<gate, stored>>
  PROVE  gate' \in [Request -> Gate] /\ stored' \in [Request -> Answers] /\ AllKnow'
<1>1. gate \in [Request -> Gate] /\ stored \in [Request -> Answers] /\ control \in Nat
  BY IInvSound DEF IInv, TypeOK, Answers
<1>2. ASSUME NEW q \in Request
      PROVE  Knows(q, gate'[q], stored'[q], seed', arc', control')
  BY <1>1, GateRow, KnowsGoesOn
<1> QED BY <1>1, <1>2 DEF AllKnow

(* The local variables take the value g.                                      *)
LEMMA Moved ==
  ASSUME IInv, RowsGoOn, NEW r \in Request, NEW g \in Gate, gate' = [gate EXCEPT ![r] = g],
         UNCHANGED stored,
         KnowsSeeds(r, g, seed'), KnowsArc(r, g, seed', arc'), IsFresh(r, g, seed', arc', control')
  PROVE  GateStep(r)
<1>1. gate'[r] = g /\ gate' = [gate EXCEPT ![r] = gate'[r]]
  BY GateRow
<1>2. stored' = [stored EXCEPT ![r] = stored'[r]] /\ stored'[r] \in Answers /\ control \in Nat
  BY GateRow, IInvSound
<1>3. Recalls(r, stored'[r], seed', arc')
  BY GateRow, RecallsGoesOn DEF Knows
<1> QED BY <1>1, <1>2, <1>3 DEF GateStep, Knows

LEMMA IdleStep ==
  ASSUME IInv, RowsGoOn, NEW r \in Request, gate' = [gate EXCEPT ![r] = Idle], UNCHANGED stored
  PROVE  GateStep(r)
<1> DEFINE g == Idle
<1>1. g \in Gate /\ g.pc = "idle" /\ g.locked = FALSE
  BY EventExperienceAssumption DEF Idle, Gate, Event
<1> HIDE DEF g
<1>2. KnowsSeeds(r, g, seed') /\ KnowsArc(r, g, seed', arc') /\ IsFresh(r, g, seed', arc', control')
  BY <1>1 DEF KnowsSeeds, KnowsArc, IsFresh, Planning, Choosing, Locking
<1>3. gate' = [gate EXCEPT ![r] = g]
  BY DEF g
<1> QED BY <1>1, <1>2, <1>3, Moved

(* What the local variables say goes on, at another pc of the same part.      *)
LEMMA GotoStep ==
  ASSUME IInv, RowsGoOn, NEW r \in Request, NEW pc, Goto(r, pc), UNCHANGED stored,
         \/ gate[r].pc \in Choosing /\ pc \in Choosing
         \/ gate[r].pc = "manifest" /\ pc = "ready"
  PROVE  GateStep(r)
<1> DEFINE g == [gate[r] EXCEPT !.pc = pc]
<1>1. gate[r] \in Gate /\ gate' = [gate EXCEPT ![r] = g] /\ control \in Nat
  BY GateRow, IInvSound DEF Goto
<1>2. g \in Gate /\ g.pc = pc
  BY <1>1 DEF Gate, Choosing
<1>3. /\ KnowsSeeds(r, gate[r], seed') /\ KnowsArc(r, gate[r], seed', arc')
  BY <1>1, GateRow, KnowsGoesOn DEF Knows
<1>4. /\ g.refs = gate[r].refs /\ g.plan = gate[r].plan /\ g.next = gate[r].next
      /\ g.arc = gate[r].arc /\ g.locked = gate[r].locked
  BY <1>1 DEF Gate
<1> HIDE DEF g
<1>5. CASE gate[r].pc \in Choosing /\ pc \in Choosing
  <2>1. KnowsSeeds(r, g, seed') /\ KnowsArc(r, g, seed', arc') /\ IsFresh(r, g, seed', arc', control')
    BY <1>2, <1>3, <1>4, <1>5 DEF KnowsSeeds, KnowsArc, IsFresh, Planning, Choosing, Locking
  <2> QED BY <1>1, <1>2, <2>1, Moved
<1>6. CASE gate[r].pc = "manifest" /\ pc = "ready"
  <2>1. KnowsSeeds(r, g, seed') /\ KnowsArc(r, g, seed', arc') /\ IsFresh(r, g, seed', arc', control')
    BY <1>2, <1>3, <1>4, <1>6 DEF KnowsSeeds, KnowsArc, IsFresh, Planning, Choosing, Locking
  <2> QED BY <1>1, <1>2, <2>1, Moved
<1> QED BY <1>5, <1>6

LEMMA PreflightStep ==
  ASSUME IInv, RowsGoOn, NEW r \in Request, Preflight(r)
  PROVE  GateStep(r)
<1>0. PICK plan \in [Event -> {"create", "supersede", "reuse"}], refs \in Refs :
        /\ \A e \in Event : PlansSeed(r, e, plan[e], refs[e])
        /\ \E what \in {"create", "supersede", "reuse"}, a \in 0..MaxArc :
             /\ PlansArc(r, refs, what, a)
             /\ gate' = [gate EXCEPT ![r] =
                  [pc |-> "seeds", control |-> control, plan |-> plan, refs |-> refs,
                   arcPlan |-> what, arc |-> a,
                   locked |-> a \in ArcRevision /\ arc[a].status = "locked", next |-> 1]]
  BY Zenon DEF Preflight
<1>1. PICK what \in {"create", "supersede", "reuse"}, a \in 0..MaxArc :
        /\ PlansArc(r, refs, what, a)
        /\ gate' = [gate EXCEPT ![r] =
             [pc |-> "seeds", control |-> control, plan |-> plan, refs |-> refs,
              arcPlan |-> what, arc |-> a,
              locked |-> a \in ArcRevision /\ arc[a].status = "locked", next |-> 1]]
  BY <1>0, Zenon
<1>2. UNCHANGED <<stored, seed, arc, control>> /\ control \in Nat
  BY IInvSound DEF Preflight, db
<1> DEFINE locked == a \in ArcRevision /\ arc[a].status = "locked"
           g == [pc |-> "seeds", control |-> control, plan |-> plan, refs |-> refs,
                 arcPlan |-> what, arc |-> a, locked |-> locked, next |-> 1]
<1>3. locked \in BOOLEAN /\ refs \in [Event -> 0..MaxRevision] /\ 1 \in 1..NumSeeds
  BY EventExperienceAssumption DEF Refs, Revision
<1>4. locked => Fixed(a, arc)
  BY DEF Fixed
<1> HIDE DEF locked
<1>5. g \in Gate
  BY <1>2, <1>3 DEF Gate
<1>6. KnowsSeeds(r, g, seed)
  <2>1. ASSUME NEW e \in Event, plan[e] = "reuse" PROVE Mine(r, e, refs[e], seed)
    BY <1>0, <2>1 DEF PlansSeed, Latest, Present, Mine
  <2>2. \A e \in Event : ~(e < 1)
    BY DEF Event
  <2> QED BY <2>1, <2>2 DEF KnowsSeeds
<1>7. KnowsArc(r, g, seed, arc)
  BY <1>1, <1>4 DEF KnowsArc, PlansArc, LatestArc, ArcPresent, Choosing, Locking
<1>8. IsFresh(r, g, seed, arc, control)
  <2>1. ASSUME NEW e \in Event PROVE Planned(r, e, plan[e], refs[e], seed)
    <3>1. plan[e] = "create" => refs[e] = 1 /\ \A m \in Revision : seed[e][m].status = "absent"
      BY <1>0 DEF PlansSeed, Present
    <3>2. CASE plan[e] = "supersede"
      <4>1. PICK m \in Revision :
              /\ refs[e] = m + 1 /\ Latest(e, m) /\ Live(e, m) /\ seed[e][m].version < Version(r)
        BY <1>0, <3>2 DEF PlansSeed
      <4>2. refs[e] - 1 = m
        BY <4>1 DEF Revision
      <4> QED BY <3>2, <4>1, <4>2 DEF Planned, Latest, Present
    <3> QED BY <3>1, <3>2 DEF Planned
  <2>2. what = "create" => \A b \in ArcRevision : arc[b].status = "absent"
    BY <1>1 DEF PlansArc, ArcPresent
  <2> QED BY <1>2, <2>1, <2>2 DEF IsFresh
<1>9. gate' = [gate EXCEPT ![r] = g]
  BY <1>1 DEF locked
<1> HIDE DEF g
<1>10. KnowsSeeds(r, g, seed') /\ KnowsArc(r, g, seed', arc') /\ IsFresh(r, g, seed', arc', control')
  BY <1>2, <1>6, <1>7, <1>8
<1> QED BY <1>2, <1>5, <1>9, <1>10, Moved

(* The loop over the events, which goes on at the next one or leaves for after. *)
LEMMA StepMoves ==
  ASSUME IInv, NEW r \in Request, NEW after \in {"arc", "lock"}, NEW revision \in Nat,
         Step(r, after, revision)
  PROVE  \E g \in Gate :
           /\ gate' = [gate EXCEPT ![r] = g]
           /\ g.control = revision /\ g.plan = gate[r].plan /\ g.refs = gate[r].refs
           /\ g.arcPlan = gate[r].arcPlan /\ g.arc = gate[r].arc /\ g.locked = gate[r].locked
           /\ \/ g.pc = after /\ gate[r].next = NumSeeds
              \/ g.pc = gate[r].pc /\ g.next = gate[r].next + 1
<1> DEFINE pc == IF gate[r].next = NumSeeds THEN after ELSE gate[r].pc
           next == IF gate[r].next = NumSeeds THEN 1 ELSE gate[r].next + 1
           g == [gate[r] EXCEPT !.control = revision, !.pc = pc, !.next = next]
<1>1. gate[r] \in Gate /\ gate[r].next \in 1..NumSeeds /\ gate \in [Request -> Gate]
  BY GateRow, GateTypes DEF Event
<1>2. next \in 1..NumSeeds
  BY <1>1, EventExperienceAssumption
<1>3. pc \in {"new", "idle", "seeds", "arc", "ask", "open", "select", "read", "contracts",
              "lock", "manifest", "ready"}
  BY <1>1 DEF Gate
<1>4. gate' = [gate EXCEPT ![r] = g]
  BY <1>1 DEF Step
<1>5. \/ pc = after /\ gate[r].next = NumSeeds
      \/ pc = gate[r].pc /\ next = gate[r].next + 1
  OBVIOUS
<1> HIDE DEF pc, next
<1>6. /\ g \in Gate /\ g.pc = pc /\ g.next = next
      /\ g.control = revision /\ g.plan = gate[r].plan /\ g.refs = gate[r].refs
      /\ g.arcPlan = gate[r].arcPlan /\ g.arc = gate[r].arc /\ g.locked = gate[r].locked
  BY <1>1, <1>2, <1>3 DEF Gate
<1> HIDE DEF g
<1> QED BY <1>4, <1>5, <1>6

(* The events that are behind, and those ahead, when the loop goes on.         *)
LEMMA NextEvent ==
  ASSUME NEW e \in Event
  PROVE  /\ \A d \in Event : d < e + 1 => d < e \/ d = e
         /\ \A d \in Event : d >= e + 1 => d > e /\ d >= e
         /\ e = NumSeeds => \A d \in Event : d < e \/ d = e
BY EventExperienceAssumption DEF Event

LEMMA SaveSeedStep ==
  ASSUME IInv, RowsGoOn, NEW r \in Request, SaveSeed(r)
  PROVE  GateStep(r)
<1> DEFINE e == gate[r].next
           n == gate[r].refs[e]
           new == [status |-> "seeded", version |-> Version(r), bound |-> 0]
<1>1. /\ control \in Nat /\ gate[r].pc = "seeds" /\ UNCHANGED <<arc, stored>>
      /\ e \in Event /\ gate[r].refs \in Refs /\ n \in Revision /\ gate[r].control \in Nat
  BY IInvSound, GateTypes DEF SaveSeed, Planning, Refs
<1>2. /\ KnowsSeeds(r, gate[r], seed') /\ KnowsArc(r, gate[r], seed', arc')
      /\ IsFresh(r, gate[r], seed, arc, control)
  BY <1>1, GateRow, KnowsGoesOn DEF Knows
<1>3. CASE gate[r].plan[e] = "reuse"
  <2>1. Step(r, "arc", gate[r].control) /\ UNCHANGED <<control, seed>>
    BY <1>3 DEF SaveSeed
  <2>2. PICK g \in Gate :
           /\ gate' = [gate EXCEPT ![r] = g]
           /\ g.control = gate[r].control /\ g.plan = gate[r].plan /\ g.refs = gate[r].refs
           /\ g.arcPlan = gate[r].arcPlan /\ g.arc = gate[r].arc /\ g.locked = gate[r].locked
           /\ \/ g.pc = "arc" /\ gate[r].next = NumSeeds
              \/ g.pc = gate[r].pc /\ g.next = gate[r].next + 1
    BY <1>1, <2>1, StepMoves
  <2>3. KnowsSeeds(r, g, seed')
    <3>1. Mine(r, e, n, seed')
      BY <1>1, <1>2, <1>3 DEF KnowsSeeds, Planning
    <3> QED BY <1>1, <1>2, <2>2, <3>1, NextEvent DEF KnowsSeeds, Planning
  <2>4. KnowsArc(r, g, seed', arc')
    BY <1>1, <1>2, <2>2 DEF KnowsArc, Planning, Choosing, Locking
  <2>5. IsFresh(r, g, seed', arc', control')
    BY <1>1, <1>2, <2>1, <2>2, NextEvent DEF IsFresh, Planning, Planned
  <2> QED BY <1>1, <2>2, <2>3, <2>4, <2>5, Moved
<1>4. CASE gate[r].plan[e] # "reuse"
  <2>1. /\ Fresh(r) /\ control' = control + 1 /\ Step(r, "arc", control + 1)
        /\ gate[r].control = control
    BY <1>4 DEF SaveSeed, CanSaveSeed, Fresh, Advance
  <2>2. PICK g \in Gate :
           /\ gate' = [gate EXCEPT ![r] = g]
           /\ g.control = control + 1 /\ g.plan = gate[r].plan /\ g.refs = gate[r].refs
           /\ g.arcPlan = gate[r].arcPlan /\ g.arc = gate[r].arc /\ g.locked = gate[r].locked
           /\ \/ g.pc = "arc" /\ gate[r].next = NumSeeds
              \/ g.pc = gate[r].pc /\ g.next = gate[r].next + 1
    BY <1>1, <2>1, StepMoves
  <2>3. /\ Mine(r, e, n, seed')
        /\ \A d \in Event : d # e => seed'[d] = seed[d]
    <3>1. seed \in [Event -> [Revision -> SeedRow]]
      BY DEF IInv, TypeOK
    <3>2. \/ seed' = [seed EXCEPT ![e][n] = new]
          \/ seed' = [seed EXCEPT ![e][n - 1].status = "retired", ![e][n] = new]
      BY <1>4 DEF SaveSeed
    <3>3. new.status = "seeded" /\ new.version = Version(r)
      OBVIOUS
    <3> HIDE DEF e, n, new
    <3>4. seed'[e][n] = new /\ \A d \in Event : d # e => seed'[d] = seed[d]
      BY <1>1, <3>1, <3>2
    <3> QED BY <3>3, <3>4 DEF Mine
  <2>4. KnowsSeeds(r, g, seed')
    BY <1>1, <1>2, <2>2, <2>3, NextEvent DEF KnowsSeeds, Planning
  <2>5. KnowsArc(r, g, seed', arc')
    BY <1>1, <1>2, <2>2 DEF KnowsArc, Planning, Choosing, Locking
  <2>6. IsFresh(r, g, seed', arc', control')
    <3>1. \A d \in Event : d > e => Planned(r, d, gate[r].plan[d], gate[r].refs[d], seed')
      <4>1. \A d \in Event : d > e => d >= e /\ d # e
        BY <1>1 DEF Event
      <4> HIDE DEF e
      <4>2. \A d \in Event : d > e => Planned(r, d, gate[r].plan[d], gate[r].refs[d], seed)
        BY <1>1, <1>2, <2>1, <4>1 DEF IsFresh, Planning, e
      <4> QED BY <2>3, <4>1, <4>2 DEF Planned
    <3>2. g.arcPlan = "create" => \A a \in ArcRevision : arc'[a].status = "absent"
      BY <1>1, <1>2, <2>1, <2>2 DEF IsFresh, Planning
    <3>3. control + 1 <= control'
      BY <1>1, <2>1
    <3> QED BY <1>1, <2>1, <2>2, <3>1, <3>2, <3>3, NextEvent DEF IsFresh
  <2> QED BY <1>1, <2>2, <2>4, <2>5, <2>6, Moved
<1> QED BY <1>3, <1>4

LEMMA SaveArcStep ==
  ASSUME IInv, RowsGoOn, NEW r \in Request, SaveArc(r)
  PROVE  GateStep(r)
<1> DEFINE after == IF r \in Asks THEN "ask" ELSE "read"
<1>1. /\ control \in Nat /\ gate[r].pc = "arc" /\ UNCHANGED <<seed, stored>>
      /\ gate[r].refs \in Refs /\ gate[r] \in Gate /\ gate \in [Request -> Gate]
  BY IInvSound, GateTypes, GateRow DEF SaveArc, Planning
<1>2. /\ KnowsSeeds(r, gate[r], seed') /\ KnowsArc(r, gate[r], seed', arc')
      /\ IsFresh(r, gate[r], seed, arc, control)
  BY <1>1, GateRow, KnowsGoesOn DEF Knows
<1>3. \A e \in Event : gate[r].refs[e] \in Revision /\ Mine(r, e, gate[r].refs[e], seed')
  BY <1>1, <1>2 DEF KnowsSeeds, Planning, Refs
<1>4. after \in {"ask", "read"} /\ (after = "ask" <=> r \in Asks)
  OBVIOUS
<1> HIDE DEF after
<1>5. ASSUME NEW g \in Gate, gate' = [gate EXCEPT ![r] = g], g.pc = after, g.refs = gate[r].refs,
             g.locked => Fixed(g.arc, arc'), g.arc \in ArcRevision,
             arc'[g.arc].status # "absent", arc'[g.arc].binds = g.refs,
             r \in Asks \/ arc'[g.arc].choice = "default"
      PROVE  GateStep(r)
  <2>1. KnowsSeeds(r, g, seed')
    BY <1>1, <1>3, <1>4, <1>5 DEF KnowsSeeds
  <2>2. Tied(r, g.arc, seed', arc')
    BY <1>3, <1>5 DEF Tied
  <2>3. KnowsArc(r, g, seed', arc')
    BY <1>4, <1>5, <2>2 DEF KnowsArc, Planning, Choosing, Locking, Choice
  <2>4. IsFresh(r, g, seed', arc', control')
    BY <1>4, <1>5 DEF IsFresh, Planning
  <2> QED BY <1>1, <1>5, <2>1, <2>3, <2>4, Moved
<1>6. CASE gate[r].arcPlan = "reuse"
  <2> DEFINE g == [gate[r] EXCEPT !.pc = after]
  <2>1. gate' = [gate EXCEPT ![r] = g]
    BY <1>6 DEF SaveArc, Goto, after
  <2>2. g \in Gate /\ g.pc = after /\ g.refs = gate[r].refs /\ g.arc = gate[r].arc /\ g.locked = gate[r].locked
    BY <1>1, <1>4 DEF Gate
  <2> HIDE DEF g
  <2>3. /\ g.locked => Fixed(g.arc, arc')
        /\ g.arc \in ArcRevision /\ arc'[g.arc].status # "absent" /\ arc'[g.arc].binds = g.refs
        /\ r \in Asks \/ arc'[g.arc].choice = "default"
    BY <1>1, <1>2, <1>6, <2>2 DEF KnowsArc, Planning
  <2> QED BY <1>5, <2>1, <2>2, <2>3
<1>7. ASSUME NEW a \in ArcRevision,
             gate' = [gate EXCEPT ![r].pc = after, ![r].arc = a, ![r].locked = FALSE,
                                  ![r].control = control + 1],
             arc'[a] = [status |-> "proposed", binds |-> gate[r].refs, choice |-> "default"]
      PROVE  GateStep(r)
  <2> DEFINE g == [gate[r] EXCEPT !.pc = after, !.arc = a, !.locked = FALSE, !.control = control + 1]
  <2>1. gate' = [gate EXCEPT ![r] = g]
    BY <1>1, <1>7
  <2>2. a \in 0..MaxArc /\ control + 1 \in Nat
    BY <1>1, EventExperienceAssumption DEF ArcRevision
  <2>3. g \in Gate /\ g.pc = after /\ g.refs = gate[r].refs /\ g.arc = a /\ g.locked = FALSE
    BY <1>1, <1>4, <2>2 DEF Gate
  <2> HIDE DEF g
  <2>4. arc'[g.arc].status # "absent" /\ arc'[g.arc].binds = g.refs /\ arc'[g.arc].choice = "default"
    BY <1>7, <2>3
  <2>5. g.arc \in ArcRevision /\ (g.locked => Fixed(g.arc, arc'))
    BY <2>3
  <2> QED BY <1>5, <2>1, <2>3, <2>4, <2>5
<1>8. CASE gate[r].arcPlan = "create"
  <2>1. arc \in [ArcRevision -> ArcRow] /\ 1 \in ArcRevision
    BY EventExperienceAssumption DEF IInv, TypeOK, ArcRevision
  <2>2. arc' = [arc EXCEPT ![1] = [status |-> "proposed", binds |-> gate[r].refs, choice |-> "default"]]
    BY <1>8 DEF SaveArc
  <2>3. gate' = [gate EXCEPT ![r].pc = after, ![r].arc = 1, ![r].locked = FALSE,
                             ![r].control = control + 1]
    BY <1>8 DEF SaveArc, after
  <2> QED BY <1>7, <2>1, <2>2, <2>3
<1>9. CASE gate[r].arcPlan = "supersede"
  <2> DEFINE a == gate[r].arc
  <2>1. SupersedeArc(a, gate[r].refs, "default") /\ a + 1 \in ArcRevision
    BY <1>9 DEF SaveArc, SupersedeArc
  <2>2. arc \in [ArcRevision -> ArcRow] /\ a \in 0..MaxArc
    BY GateTypes DEF IInv, TypeOK
  <2>3. gate' = [gate EXCEPT ![r].pc = after, ![r].arc = a + 1, ![r].locked = FALSE,
                             ![r].control = control + 1]
    BY <1>9 DEF SaveArc, after
  <2>4. arc'[a + 1] = [status |-> "proposed", binds |-> gate[r].refs, choice |-> "default"]
    BY <2>1, <2>2 DEF SupersedeArc
  <2> HIDE DEF a
  <2> QED BY <1>7, <2>1, <2>3, <2>4
<1> QED BY <1>1, <1>6, <1>8, <1>9 DEF Gate

(* The seeds that are live now are those of the request, or these are retired. *)
LEMMA LiveOrRetired ==
  ASSUME Sound, NEW refs \in Refs, Binds(refs), NEW e \in Event, NEW n \in Revision,
         seed[e][n].status # "absent"
  PROVE  refs[e] = n \/ seed[e][n].status = "retired"
<1>1. /\ refs[e] \in Revision /\ Live(e, refs[e])
      /\ \A m \in Revision : m > refs[e] => ~Live(e, m)
  BY DEF Binds, Refs
<1>2. CASE n > refs[e]
  BY <1>1, <1>2 DEF Live
<1>3. CASE n < refs[e]
  BY <1>1, <1>3 DEF Sound, OneRevisionPerSource, Present, Live
<1> QED BY <1>1, <1>2, <1>3 DEF Revision

LEMMA SelectArcStep ==
  ASSUME IInv, RowsGoOn, NEW r \in Request, SelectArc(r)
  PROVE  GateStep(r)
<1>1. /\ Sound /\ control \in Nat /\ gate[r].pc = "select" /\ UNCHANGED <<seed, contract>>
      /\ gate[r].refs \in Refs /\ gate[r] \in Gate /\ gate \in [Request -> Gate]
      /\ stored[r] \in Answers /\ stored \in [Request -> Answers]
  BY IInvSound, GateTypes, GateRow DEF SelectArc, Choosing
<1>2. /\ KnowsSeeds(r, gate[r], seed') /\ KnowsArc(r, gate[r], seed', arc')
      /\ Recalls(r, stored[r], seed', arc')
  BY <1>1, GateRow, KnowsGoesOn DEF Knows
<1>3. \A e \in Event : gate[r].refs[e] \in Revision /\ Mine(r, e, gate[r].refs[e], seed')
  BY <1>1, <1>2 DEF KnowsSeeds, Choosing, Refs
<1>4. r \in Asks
  BY <1>1, <1>2 DEF KnowsArc, Choosing
<1>5. ASSUME NEW g \in Gate, g.pc = "read", g.refs = gate[r].refs,
             g.locked => Fixed(g.arc, arc'), g.arc \in ArcRevision,
             Tied(r, g.arc, seed', arc'), arc'[g.arc].choice = "selected"
      PROVE  KnowsSeeds(r, g, seed') /\ KnowsArc(r, g, seed', arc') /\ IsFresh(r, g, seed', arc', control')
  <2>1. KnowsSeeds(r, g, seed')
    BY <1>1, <1>3, <1>5 DEF KnowsSeeds
  <2>2. KnowsArc(r, g, seed', arc')
    BY <1>4, <1>5 DEF KnowsArc, Planning, Choosing, Locking, Choice
  <2>3. IsFresh(r, g, seed', arc', control')
    BY <1>5 DEF IsFresh, Planning
  <2> QED BY <2>1, <2>2, <2>3
<1>6. CASE ArcMatches(r)
  <2> DEFINE g == [gate[r] EXCEPT !.pc = "read"]
  <2>1. gate' = [gate EXCEPT ![r] = g] /\ UNCHANGED <<arc, stored>>
    BY <1>6 DEF SelectArc, Goto
  <2>2. g \in Gate /\ g.pc = "read" /\ g.refs = gate[r].refs /\ g.arc = gate[r].arc /\ g.locked = gate[r].locked
    BY <1>1 DEF Gate
  <2> HIDE DEF g
  <2>3. /\ g.locked => Fixed(g.arc, arc')
        /\ g.arc \in ArcRevision /\ Tied(r, g.arc, seed', arc')
    BY <1>1, <1>2, <2>2 DEF KnowsArc, Choosing
  <2>4. arc'[g.arc].choice = "selected"
    BY <1>6, <2>1, <2>2 DEF ArcMatches
  <2> QED BY <1>5, <2>1, <2>2, <2>3, <2>4, Moved
<1>7. CASE ~ArcMatches(r) /\ stored[r].selected # 0
  <2> DEFINE a == stored[r].selected
             g == [gate[r] EXCEPT !.pc = "read", !.arc = a, !.locked = FALSE]
  <2>1. gate' = [gate EXCEPT ![r] = g] /\ UNCHANGED <<arc, stored>>
    BY <1>1, <1>7 DEF SelectArc
  <2>2. a \in ArcRevision /\ a \in 0..MaxArc
    BY <1>1, <1>7, EventExperienceAssumption DEF Answers, ArcRevision
  <2>3. Tied(r, a, seed', arc') /\ arc'[a].choice = "selected"
    BY <1>2, <1>7 DEF Recalls
  <2> HIDE DEF a
  <2>4. g \in Gate /\ g.pc = "read" /\ g.refs = gate[r].refs /\ g.arc = a /\ g.locked = FALSE
    BY <1>1, <2>2 DEF Gate
  <2> HIDE DEF g
  <2> QED BY <1>5, <2>1, <2>2, <2>3, <2>4, Moved
<1>8. CASE ~ArcMatches(r) /\ stored[r].selected = 0
  <2>1. PICK a \in ArcRevision, refs \in Refs :
          /\ SupersedeArc(a, refs, "selected")
          /\ stored' = [stored EXCEPT ![r].selected = a + 1]
          /\ gate' = [gate EXCEPT ![r].pc = "read", ![r].arc = a + 1, ![r].locked = FALSE]
    BY <1>8, Zenon DEF SelectArc
  <2> DEFINE b == a + 1
             g == [gate[r] EXCEPT !.pc = "read", !.arc = b, !.locked = FALSE]
             s == [stored[r] EXCEPT !.selected = b]
  <2>2. b \in ArcRevision /\ b \in 0..MaxArc /\ b # 0
    BY <2>1, EventExperienceAssumption DEF SupersedeArc, ArcRevision
  <2>3. /\ arc' = [arc EXCEPT ![a].status = "retired",
               ![b] = [status |-> "proposed", binds |-> refs, choice |-> "selected"]]
        /\ Binds(refs)
    BY <2>1 DEF SupersedeArc
  <2>4. gate' = [gate EXCEPT ![r] = g] /\ stored' = [stored EXCEPT ![r] = s]
    BY <1>1, <2>1
  <2> HIDE DEF b
  <2>5. arc'[b] = [status |-> "proposed", binds |-> refs, choice |-> "selected"]
    BY <1>1, <2>2, <2>3 DEF Sound, RowTypes
  <2>6. Tied(r, b, seed', arc')
    <3>1. ASSUME NEW e \in Event
          PROVE  \E n \in Revision :
                   Mine(r, e, n, seed') /\ (arc'[b].binds[e] = n \/ seed'[e][n].status = "retired")
      <4>1. gate[r].refs[e] \in Revision /\ Mine(r, e, gate[r].refs[e], seed')
        BY <1>3
      <4>2. refs[e] = gate[r].refs[e] \/ seed[e][gate[r].refs[e]].status = "retired"
        BY <1>1, <2>3, <4>1, LiveOrRetired DEF Mine
      <4> QED BY <1>1, <2>5, <4>1, <4>2
    <3> QED BY <2>5, <3>1 DEF Tied
  <2>7. g \in Gate /\ g.pc = "read" /\ g.refs = gate[r].refs /\ g.arc = b /\ g.locked = FALSE
    BY <1>1, <2>2 DEF Gate
  <2>8. s \in Answers /\ s.selected = b /\ s.arcLock = stored[r].arcLock
    BY <1>1, <2>2 DEF Answers
  <2> HIDE DEF g, s
  <2>9. KnowsSeeds(r, g, seed') /\ KnowsArc(r, g, seed', arc') /\ IsFresh(r, g, seed', arc', control')
    BY <1>5, <2>2, <2>5, <2>6, <2>7
  <2>10. Recalls(r, s, seed', arc')
    BY <1>2, <2>5, <2>6, <2>8 DEF Recalls
  <2>11. gate'[r] = g /\ stored'[r] = s
    BY <1>1, <2>4
  <2> QED BY <2>4, <2>7, <2>8, <2>9, <2>10, <2>11 DEF GateStep, Knows
<1> QED BY <1>6, <1>7, <1>8

LEMMA ReadControlStep ==
  ASSUME IInv, RowsGoOn, NEW r \in Request, ReadControl(r)
  PROVE  GateStep(r)
<1> DEFINE g == [gate[r] EXCEPT !.pc = "contracts", !.control = control]
<1>1. /\ control \in Nat /\ gate[r].pc = "read" /\ gate[r] \in Gate /\ gate \in [Request -> Gate]
      /\ UNCHANGED stored
  BY IInvSound, GateRow DEF ReadControl, db
<1>2. /\ KnowsSeeds(r, gate[r], seed') /\ KnowsArc(r, gate[r], seed', arc')
  BY <1>1, GateRow, KnowsGoesOn DEF Knows
<1>3. gate' = [gate EXCEPT ![r] = g]
  BY <1>1 DEF ReadControl
<1>4. /\ g \in Gate /\ g.pc = "contracts" /\ g.refs = gate[r].refs /\ g.arc = gate[r].arc
      /\ g.locked = gate[r].locked
  BY <1>1 DEF Gate
<1> HIDE DEF g
<1>5. KnowsSeeds(r, g, seed') /\ KnowsArc(r, g, seed', arc') /\ IsFresh(r, g, seed', arc', control')
  BY <1>1, <1>2, <1>4 DEF KnowsSeeds, KnowsArc, IsFresh, Planning, Choosing, Locking
<1> QED BY <1>1, <1>3, <1>4, <1>5, Moved

LEMMA LockNextContractStep ==
  ASSUME IInv, RowsGoOn, NEW r \in Request, LockNextContract(r)
  PROVE  GateStep(r)
<1> DEFINE e == gate[r].next
<1>1. /\ control \in Nat /\ gate[r].pc = "contracts" /\ e \in Event
      /\ stored[r] \in Answers /\ stored \in [Request -> Answers]
      /\ stored[r].contracts \in [Event -> Nat] /\ gate \in [Request -> Gate]
  BY IInvSound, GateRow, GateTypes DEF LockNextContract
<1>2. /\ KnowsSeeds(r, gate[r], seed') /\ KnowsArc(r, gate[r], seed', arc')
      /\ Recalls(r, stored[r], seed', arc')
  BY <1>1, GateRow, KnowsGoesOn DEF Knows
<1>3. ASSUME NEW revision \in Nat, Step(r, "lock", revision), NEW s \in Answers,
             stored' = [stored EXCEPT ![r] = s], s.selected = stored[r].selected,
             s.arcLock = stored[r].arcLock
      PROVE  GateStep(r)
  <2>1. PICK g \in Gate :
           /\ gate' = [gate EXCEPT ![r] = g]
           /\ g.control = revision /\ g.plan = gate[r].plan /\ g.refs = gate[r].refs
           /\ g.arcPlan = gate[r].arcPlan /\ g.arc = gate[r].arc /\ g.locked = gate[r].locked
           /\ \/ g.pc = "lock" /\ gate[r].next = NumSeeds
              \/ g.pc = gate[r].pc /\ g.next = gate[r].next + 1
    BY <1>3, StepMoves
  <2>2. g.pc \in {"contracts", "lock"}
    BY <1>1, <2>1
  <2>3. KnowsSeeds(r, g, seed') /\ KnowsArc(r, g, seed', arc') /\ IsFresh(r, g, seed', arc', control')
    BY <1>1, <1>2, <2>1, <2>2 DEF KnowsSeeds, KnowsArc, IsFresh, Planning, Choosing, Locking
  <2>4. Recalls(r, s, seed', arc')
    BY <1>2, <1>3 DEF Recalls
  <2>5. gate'[r] = g /\ stored'[r] = s
    BY <1>1, <1>3, <2>1
  <2> QED BY <1>3, <2>1, <2>3, <2>4, <2>5 DEF GateStep, Knows
<1>4. CASE stored[r].contracts[e] # 0
  <2>1. Step(r, "lock", stored[r].contracts[e]) /\ UNCHANGED stored
    BY <1>4 DEF LockNextContract
  <2>2. stored' = [stored EXCEPT ![r] = stored[r]]
    BY <1>1, <2>1
  <2> QED BY <1>1, <1>3, <2>1, <2>2
<1>5. CASE stored[r].contracts[e] = 0
  <2> DEFINE s == [stored[r] EXCEPT !.contracts[e] = control + 1]
  <2>1. Step(r, "lock", control + 1) /\ stored' = [stored EXCEPT ![r].contracts[e] = control + 1]
    BY <1>5 DEF LockNextContract
  <2>2. stored' = [stored EXCEPT ![r] = s]
    BY <1>1, <2>1
  <2>3. s \in Answers /\ s.selected = stored[r].selected /\ s.arcLock = stored[r].arcLock
    BY <1>1 DEF Answers
  <2>4. control + 1 \in Nat
    BY <1>1
  <2> HIDE DEF s
  <2> QED BY <1>3, <2>1, <2>2, <2>3, <2>4
<1> QED BY <1>4, <1>5

LEMMA LockArcStep ==
  ASSUME IInv, RowsGoOn, NEW r \in Request, LockArc(r)
  PROVE  GateStep(r)
<1> DEFINE a == gate[r].arc
           g == [gate[r] EXCEPT !.pc = "manifest"]
<1>1. /\ control \in Nat /\ gate[r].pc = "lock" /\ gate[r] \in Gate /\ gate \in [Request -> Gate]
      /\ stored[r] \in Answers /\ stored \in [Request -> Answers]
  BY IInvSound, GateRow DEF LockArc
<1>2. /\ KnowsSeeds(r, gate[r], seed') /\ KnowsArc(r, gate[r], seed', arc')
      /\ Recalls(r, stored[r], seed', arc')
  BY <1>1, GateRow, KnowsGoesOn DEF Knows
<1>3. gate' = [gate EXCEPT ![r] = g]
  BY <1>1 DEF LockArc, Goto
<1>4. /\ g \in Gate /\ g.pc = "manifest" /\ g.refs = gate[r].refs /\ g.arc = a
      /\ g.locked = gate[r].locked
  BY <1>1 DEF Gate
<1>5. a \in ArcRevision /\ a # 0 /\ a \in 0..MaxArc
  BY <1>1, <1>2, EventExperienceAssumption DEF KnowsArc, Locking, ArcRevision
<1> HIDE DEF g
<1>6. ASSUME Fixed(a, arc')
      PROVE  KnowsSeeds(r, g, seed') /\ KnowsArc(r, g, seed', arc') /\ IsFresh(r, g, seed', arc', control')
  BY <1>1, <1>2, <1>4, <1>6 DEF KnowsSeeds, KnowsArc, IsFresh, Planning, Choosing, Locking
<1>7. CASE gate[r].locked \/ stored[r].arcLock = a
  <2>1. Fixed(a, arc')
    BY <1>2, <1>5, <1>7 DEF KnowsArc, Recalls
  <2>2. UNCHANGED stored
    BY <1>7 DEF LockArc
  <2> QED BY <1>3, <1>4, <1>6, <2>1, <2>2, Moved
<1>8. CASE ~(gate[r].locked \/ stored[r].arcLock = a)
  <2> DEFINE s == [stored[r] EXCEPT !.arcLock = a]
  <2>1. arc' = [arc EXCEPT ![a].status = "locked"] /\ stored' = [stored EXCEPT ![r].arcLock = a]
    BY <1>8 DEF LockArc
  <2>2. Fixed(a, arc')
    BY <1>5, <2>1 DEF Fixed, IInv, TypeOK, ArcRow
  <2> HIDE DEF a
  <2>3. stored' = [stored EXCEPT ![r] = s]
    BY <1>1, <2>1
  <2>4. s \in Answers /\ s.selected = stored[r].selected /\ s.arcLock = a
    BY <1>1, <1>5 DEF Answers
  <2> HIDE DEF s
  <2>5. Recalls(r, s, seed', arc')
    BY <1>2, <2>2, <2>4 DEF Recalls
  <2>6. gate'[r] = g /\ stored'[r] = s
    BY <1>1, <1>3, <2>3
  <2> QED BY <1>3, <1>4, <1>6, <2>2, <2>3, <2>4, <2>5, <2>6 DEF GateStep, Knows, a
<1> QED BY <1>7, <1>8

-----------------------------------------------------------------------------
(* The manifests that were issued.                                            *)

LEMMA TokenTypes ==
  ASSUME IInv, NEW r \in Request, token[r] # NoToken
  PROVE  /\ token[r].refs \in Refs /\ token[r].arc \in ArcRevision /\ token[r].binding \in Nat
         /\ Issued(r, token[r], seed, contract, arc, binding)
BY DEF IInv, TypeOK, Token, AllWhole

LEMMA WholeGoesOn ==
  ASSUME RowsGoOn, NEW r \in Request, NEW t, t.refs \in Refs, t.arc \in ArcRevision,
         Whole(r, t, seed, arc)
  PROVE  Whole(r, t, seed', arc')
<1>1. \A e \in Event : Mine(r, e, t.refs[e], seed')
  BY MineGoesOn DEF Whole, Refs
<1>2. arc[t.arc].status # "absent" /\ ArcGrows(arc[t.arc], arc'[t.arc])
  BY DEF Whole, RowsGoOn, ArcsGrow
<1> QED BY <1>1, <1>2 DEF Whole, ArcGrows

LEMMA HoldsGoesOn ==
  ASSUME BoundStay, NEW t, t.refs \in Refs, Holds(t, seed, contract)
  PROVE  Holds(t, seed', contract')
<1>1. ASSUME NEW e \in Event
      PROVE  /\ seed'[e][t.refs[e]].status \in Bound
             /\ \E k \in Lineage : seed'[e][t.refs[e]].bound = k /\ contract'[e][t.refs[e]][k] = "locked"
             /\ seed'[e][t.refs[e]].bound = t.contracts[e]
  <2>1. /\ t.refs[e] \in Revision /\ seed[e][t.refs[e]].status \in Bound
        /\ \E k \in Lineage : seed[e][t.refs[e]].bound = k /\ contract[e][t.refs[e]][k] = "locked"
        /\ seed[e][t.refs[e]].bound = t.contracts[e]
    BY DEF Holds, Refs
  <2>2. /\ seed'[e][t.refs[e]] = seed[e][t.refs[e]]
        /\ \A k \in Lineage :
             contract[e][t.refs[e]][k] = "locked" => contract'[e][t.refs[e]][k] = "locked"
    BY <2>1 DEF BoundStay
  <2> QED BY <2>1, <2>2
<1> QED BY <1>1 DEF Holds

LEMMA IssuedGoesOn ==
  ASSUME RowsGoOn, binding \in Nat, NEW r \in Request, NEW t,
         t.refs \in Refs, t.arc \in ArcRevision, t.binding \in Nat,
         Issued(r, t, seed, contract, arc, binding)
  PROVE  Issued(r, t, seed', contract', arc', binding')
<1>1. Whole(r, t, seed', arc')
  BY WholeGoesOn DEF Issued
<1>2. CASE binding' = binding + 1
  BY <1>1, <1>2 DEF Issued
<1>3. CASE binding' = binding /\ BoundStay
  BY <1>1, <1>3, HoldsGoesOn DEF Issued
<1> QED BY <1>2, <1>3 DEF RowsGoOn, Advances

(* A step that issues no manifest.                                            *)
LEMMA NoTokenWhole ==
  ASSUME IInv, RowsGoOn, UNCHANGED token
  PROVE  AllWhole'
BY TokenTypes, IssuedGoesOn, IInvSound DEF AllWhole

(* An arc that is tied to the seeds of the request is over these seeds while  *)
(* they are bound: another one of the same outline revision is not there.     *)
LEMMA TiedIsOver ==
  ASSUME Sound, NEW r \in Request, NEW a \in ArcRevision, Tied(r, a, seed, arc),
         NEW refs \in Refs, \A e \in Event : Mine(r, e, refs[e], seed),
         \A e \in Event : seed[e][refs[e]].status \in Bound
  PROVE  arc[a].binds = refs
<1>1. ASSUME NEW e \in Event PROVE arc[a].binds[e] = refs[e]
  <2>1. PICK n \in Revision :
          Mine(r, e, n, seed) /\ (arc[a].binds[e] = n \/ seed[e][n].status = "retired")
    BY DEF Tied
  <2>2. /\ refs[e] \in Revision /\ Mine(r, e, refs[e], seed)
        /\ seed[e][refs[e]].status \in Bound
        /\ seed[e][n].version \in 0..2
    BY <2>1, SeedTypes DEF Refs, Sound
  <2>3. ~(n < refs[e])
    BY <2>1, <2>2 DEF Sound, OneRevisionPerSource, Present, Mine
  <2>4. ~(refs[e] < n)
    BY <2>1, <2>2 DEF Sound, OneRevisionPerSource, Present, Mine
  <2>5. n = refs[e]
    BY <2>2, <2>3, <2>4 DEF Revision
  <2> QED BY <2>1, <2>2, <2>5 DEF Bound
<1>2. arc[a].binds \in [Event -> 0..MaxRevision] /\ refs \in [Event -> Revision]
  BY DEF Sound, RowTypes, ArcRow, Refs
<1> QED BY <1>1, <1>2

LEMMA IssueManifestGoesOn ==
  ASSUME IInv, NEW r \in Request, IssueManifest(r)
  PROVE  /\ RowsGoOn /\ GateStep(r) /\ AllWhole'
         /\ token' \in [Request -> Token \cup {NoToken}]
<1> DEFINE refs == gate[r].refs
           t == [refs |-> refs, contracts |-> [e \in Event |-> seed[e][refs[e]].bound],
                 arc |-> gate[r].arc, binding |-> binding]
<1>1. /\ Sound /\ control \in Nat /\ binding \in Nat /\ gate[r].pc = "manifest"
      /\ refs \in Refs /\ KnowsSeeds(r, gate[r], seed) /\ KnowsArc(r, gate[r], seed, arc)
      /\ token \in [Request -> Token \cup {NoToken}]
  BY IInvSound, GateTypes DEF IssueManifest, Locking, IInv, TypeOK
<1>2. /\ UNCHANGED db /\ ManifestIsLocked(refs) /\ Goto(r, "ready")
      /\ token' = [token EXCEPT ![r] = t]
  BY DEF IssueManifest
<1>3. RowsGoOn
  BY <1>1, <1>2, RowsStay DEF db
<1>4. GateStep(r)
  BY <1>1, <1>2, <1>3, GotoStep DEF db
<1>5. \A e \in Event : Mine(r, e, refs[e], seed) /\ seed[e][refs[e]].status \in Bound
  BY <1>1, <1>2 DEF KnowsSeeds, Locking, ManifestIsLocked
<1>6. /\ gate[r].arc \in ArcRevision /\ Tied(r, gate[r].arc, seed, arc)
      /\ arc[gate[r].arc].choice = Choice(r) /\ arc[gate[r].arc].status \in {"locked", "retired"}
  BY <1>1 DEF KnowsArc, Locking, Fixed
<1>7. arc[gate[r].arc].binds = refs
  BY <1>1, <1>5, <1>6, TiedIsOver
<1>8. \A e \in Event : seed[e][refs[e]].bound \in Lineage
  BY <1>2 DEF ManifestIsLocked
<1>9. t \in Token /\ t.refs = refs /\ t.arc = gate[r].arc /\ t.binding = binding
  BY <1>1, <1>6, <1>8 DEF Token
<1>10. Holds(t, seed, contract)
  BY <1>2 DEF Holds, ManifestIsLocked
<1> HIDE DEF t
<1>11. Issued(r, t, seed, contract, arc, binding)
  BY <1>1, <1>5, <1>6, <1>7, <1>9, <1>10 DEF Issued, Whole
<1>12. Issued(r, t, seed', contract', arc', binding')
  BY <1>2, <1>11 DEF db
<1>13. token' \in [Request -> Token \cup {NoToken}] /\ token'[r] = t
  BY <1>1, <1>2, <1>9
<1>14. ASSUME NEW q \in Request, token'[q] # NoToken
       PROVE  Issued(q, token'[q], seed', contract', arc', binding')
  <2>1. CASE q = r
    BY <1>12, <1>13, <2>1
  <2>2. CASE q # r
    <3>1. token'[q] = token[q]
      BY <1>1, <1>2, <2>2
    <3> QED BY <1>1, <1>3, <1>14, <3>1, TokenTypes, IssuedGoesOn
  <2> QED BY <2>1, <2>2
<1> QED BY <1>3, <1>4, <1>13, <1>14 DEF AllWhole

-----------------------------------------------------------------------------
(* Every step.                                                                *)

(* What TypeOK says of the rest of the state.                                 *)
RestTypes ==
  /\ question \in [Refs -> QuestionStatus]
  /\ token \in [Request -> Token \cup {NoToken}]
  /\ outside \in 0..MaxOutside /\ crashes \in 0..MaxCrash

LEMMA Together ==
  ASSUME RowsGoOn, gate' \in [Request -> Gate], stored' \in [Request -> Answers], AllKnow',
         AllWhole', RestTypes'
  PROVE  IInv'
<1>1. Sound' /\ control' \in Nat /\ binding' \in Nat
  BY DEF RowsGoOn, Advances
<1>2. Sound' => (SeedHoldsItsContract /\ IdleIsEmpty /\ OneRevisionPerSource)'
  BY SoundIInv, PTL
<1>3. TypeOK'
  BY <1>1 DEF TypeOK, Sound, RowTypes, RestTypes, Answers
<1> QED BY <1>1, <1>2, <1>3 DEF IInv

LEMMA AttemptIInv ==
  ASSUME IInv, NEW r \in Request, Submit(r) \/ Attempt(r) \/ Crash(r)
  PROVE  IInv'
<1>1. Sound /\ control \in Nat /\ binding \in Nat /\ RestTypes
  BY IInvSound DEF IInv, TypeOK, RestTypes
<1>2. ASSUME RowsGoOn, GateStep(r), UNCHANGED token, UNCHANGED <<outside, crashes>>,
             question' \in [Refs -> QuestionStatus]
      PROVE  IInv'
  BY <1>1, <1>2, GateStepKnows, NoTokenWhole, Together DEF RestTypes
<1>3. CASE Submit(r) \/ Raise(r)
  <2>1. RowsGoOn
    BY <1>1, <1>3, RowsStay DEF Submit, Raise, db
  <2> QED BY <1>1, <1>2, <1>3, <2>1, IdleStep DEF Submit, Raise, db, RestTypes
<1>4. CASE Crash(r)
  <2>1. RowsGoOn
    BY <1>1, <1>4, RowsStay DEF Crash, db
  <2>2. GateStep(r) /\ UNCHANGED <<token, outside, question>>
    BY <1>4, <2>1, IdleStep DEF Crash, db
  <2>3. crashes' \in 0..MaxCrash
    BY <1>1, <1>4, EventExperienceAssumption DEF Crash, RestTypes
  <2> QED BY <1>1, <2>1, <2>2, <2>3, GateStepKnows, NoTokenWhole, Together DEF RestTypes
<1>5. CASE Preflight(r)
  <2>1. RowsGoOn
    BY <1>1, <1>5, RowsStay DEF Preflight, db
  <2> QED BY <1>1, <1>2, <1>5, <2>1, PreflightStep DEF Preflight, db, RestTypes
<1>6. CASE SaveSeed(r)
  BY <1>1, <1>2, <1>6, SaveSeedGoesOn, SaveSeedStep DEF SaveSeed, RestTypes
<1>7. CASE SaveArc(r)
  BY <1>1, <1>2, <1>7, SaveArcGoesOn, SaveArcStep DEF SaveArc, RestTypes
<1>8. CASE ReadQuestion(r)
  <2>1. RowsGoOn
    BY <1>1, <1>8, RowsStay DEF ReadQuestion, db
  <2>2. GateStep(r)
    <3>1. CASE gate' = [gate EXCEPT ![r] = Idle]
      BY <1>8, <2>1, <3>1, IdleStep DEF ReadQuestion, db
    <3>2. CASE Goto(r, "open") \/ Goto(r, "select")
      BY <1>8, <2>1, <3>2, GotoStep DEF ReadQuestion, db, Choosing
    <3> QED BY <1>8, <3>1, <3>2 DEF ReadQuestion
  <2> QED BY <1>1, <1>2, <1>8, <2>1, <2>2 DEF ReadQuestion, db, RestTypes
<1>9. CASE OpenQuestion(r)
  <2>1. RowsGoOn
    BY <1>1, <1>9, RowsStay DEF OpenQuestion
  <2>2. question' \in [Refs -> QuestionStatus]
    BY <1>1, <1>9 DEF OpenQuestion, RestTypes, QuestionStatus
  <2> QED BY <1>2, <1>9, <2>1, <2>2, IdleStep DEF OpenQuestion
<1>10. CASE SelectArc(r)
  BY <1>1, <1>2, <1>10, SelectArcGoesOn, SelectArcStep DEF SelectArc, RestTypes
<1>11. CASE ReadControl(r)
  <2>1. RowsGoOn
    BY <1>1, <1>11, RowsStay DEF ReadControl, db
  <2> QED BY <1>1, <1>2, <1>11, <2>1, ReadControlStep DEF ReadControl, db, RestTypes
<1>12. CASE LockNextContract(r)
  BY <1>1, <1>2, <1>12, LockNextContractGoesOn, LockNextContractStep DEF LockNextContract, RestTypes
<1>13. CASE LockArc(r)
  BY <1>1, <1>2, <1>13, LockArcGoesOn, LockArcStep DEF LockArc, RestTypes
<1>14. CASE IssueManifest(r)
  <2>1. RowsGoOn /\ GateStep(r) /\ AllWhole' /\ token' \in [Request -> Token \cup {NoToken}]
    BY <1>14, IssueManifestGoesOn
  <2>2. RestTypes'
    BY <1>1, <1>14, <2>1 DEF IssueManifest, db, RestTypes
  <2> QED BY <2>1, <2>2, GateStepKnows, Together
<1> QED BY <1>3, <1>4, <1>5, <1>6, <1>7, <1>8, <1>9, <1>10, <1>11, <1>12, <1>13, <1>14 DEF Attempt

LEMMA DirectGoesOn ==
  ASSUME IInv, NEW e \in Event, NEW n \in Revision, Direct(e, n)
  PROVE  RowsGoOn /\ UNCHANGED <<question, stored, gate, token, crashes>> /\ outside' \in 0..MaxOutside
<1>1. Sound /\ control \in Nat /\ binding \in Nat /\ outside \in 0..MaxOutside
  BY IInvSound DEF IInv, TypeOK
<1>2. ASSUME NEW op, Outside(op) \/ Follows(op)
      PROVE  UNCHANGED <<question, stored, gate, token, crashes>> /\ outside' \in 0..MaxOutside
  BY <1>1, <1>2, EventExperienceAssumption DEF Outside, Follows
<1>3. CASE ProposeContract(e, n)
  BY <1>2, <1>3, ProposeContractGoesOn DEF ProposeContract
<1>4. CASE AdvanceSeed(e, n)
  BY <1>2, <1>4, AdvanceSeedGoesOn DEF AdvanceSeed
<1>5. CASE RetireSeed(e, n)
  BY <1>2, <1>5, RetireSeedGoesOn DEF RetireSeed
<1>6. ASSUME NEW k \in Lineage, RecordReview(e, n, k)
      PROVE  RowsGoOn /\ UNCHANGED <<question, stored, gate, token, crashes>> /\ outside' \in 0..MaxOutside
  BY <1>1, <1>2, <1>6, RowsStay DEF RecordReview
<1>7. ASSUME NEW k \in Lineage, LockContract(e, n, k)
      PROVE  RowsGoOn /\ UNCHANGED <<question, stored, gate, token, crashes>> /\ outside' \in 0..MaxOutside
  BY <1>2, <1>7, LockContractGoesOn DEF LockContract
<1>8. ASSUME NEW k \in Lineage, RetireContract(e, n, k)
      PROVE  RowsGoOn /\ UNCHANGED <<question, stored, gate, token, crashes>> /\ outside' \in 0..MaxOutside
  BY <1>2, <1>8, RetireContractGoesOn DEF RetireContract
<1>9. ASSUME NEW k \in Lineage, NEW locks \in BOOLEAN, SupersedeContract(e, n, k, locks)
      PROVE  RowsGoOn /\ UNCHANGED <<question, stored, gate, token, crashes>> /\ outside' \in 0..MaxOutside
  BY <1>2, <1>9, SupersedeContractGoesOn DEF SupersedeContract
<1> QED BY <1>3, <1>4, <1>5, <1>6, <1>7, <1>8, <1>9 DEF Direct

LEMMA NextIInv ==
  ASSUME IInv, [Next]_vars
  PROVE  IInv'
<1>1. Sound /\ control \in Nat /\ binding \in Nat /\ RestTypes
  BY IInvSound DEF IInv, TypeOK, RestTypes
<1>2. ASSUME RowsGoOn, UNCHANGED <<gate, stored, token, crashes>>, outside' \in 0..MaxOutside,
             question' \in [Refs -> QuestionStatus]
      PROVE  IInv'
  BY <1>1, <1>2, NoGateKnows, NoTokenWhole, Together DEF RestTypes
<1>3. ASSUME NEW q \in Refs, Answer(q) PROVE IInv'
  <2>1. question' \in [Refs -> QuestionStatus]
    BY <1>1, <1>3 DEF Answer, RestTypes, QuestionStatus
  <2> QED BY <1>1, <1>2, <1>3, <2>1, AnswerGoesOn DEF Answer, RestTypes
<1>4. ASSUME NEW q \in Refs, Expire(q) PROVE IInv'
  <2>1. RowsGoOn
    BY <1>1, <1>4, RowsStay DEF Expire
  <2>2. question' \in [Refs -> QuestionStatus]
    BY <1>1, <1>4 DEF Expire, RestTypes, QuestionStatus
  <2> QED BY <1>1, <1>2, <1>4, <2>1, <2>2 DEF Expire, RestTypes
<1>5. CASE Elsewhere
  <2>1. RowsGoOn
    BY <1>1, <1>5, RowsStay DEF Elsewhere
  <2>2. /\ UNCHANGED <<question, gate, stored, token, crashes>> /\ outside' \in 0..MaxOutside
    BY <1>1, <1>5, EventExperienceAssumption DEF Elsewhere, Outside, RestTypes
  <2> QED BY <1>1, <1>2, <2>1, <2>2 DEF RestTypes
<1>6. ASSUME NEW e \in Event, NEW n \in Revision, Direct(e, n) PROVE IInv'
  BY <1>1, <1>2, <1>6, DirectGoesOn DEF RestTypes
<1>7. ASSUME NEW a \in ArcRevision, RetireArc(a) PROVE IInv'
  <2>1. /\ UNCHANGED <<question, gate, stored, token, crashes>> /\ outside' \in 0..MaxOutside
    BY <1>1, <1>7, EventExperienceAssumption DEF RetireArc, Outside, RestTypes
  <2> QED BY <1>1, <1>2, <1>7, <2>1, RetireArcGoesOn DEF RestTypes
<1>8. CASE UNCHANGED vars
  <2>1. RowsGoOn
    BY <1>1, <1>8, RowsStay DEF vars, db
  <2> QED BY <1>1, <1>2, <1>8, <2>1 DEF vars, db, RestTypes
<1> QED BY <1>3, <1>4, <1>5, <1>6, <1>7, <1>8, AttemptIInv DEF Next

LEMMA InitIInv ==
  ASSUME Init
  PROVE  IInv
<1>1. TypeOK
  <2>1. 0 \in 0..MaxLineage /\ 0 \in 0..MaxRevision /\ 0 \in 0..MaxArc /\ 1 \in 1..NumSeeds
    BY EventExperienceAssumption
  <2>2. [Idle EXCEPT !.pc = "new"] \in Gate
    BY <2>1 DEF Idle, Gate
  <2>3. /\ seed \in [Event -> [Revision -> SeedRow]]
        /\ contract \in [Event -> [Revision -> [Lineage -> ContractStatus]]]
    BY <2>1 DEF Init, SeedRow, ContractStatus
  <2>4. /\ arc \in [ArcRevision -> ArcRow] /\ question \in [Refs -> QuestionStatus]
    BY <2>1 DEF Init, ArcRow, QuestionStatus
  <2>5. stored \in [Request -> [contracts : [Event -> Nat], selected : 0..MaxArc, arcLock : 0..MaxArc]]
    BY <2>1 DEF Init
  <2>6. gate \in [Request -> Gate] /\ token \in [Request -> Token \cup {NoToken}]
    BY <2>2 DEF Init
  <2>7. control \in Nat /\ binding \in Nat /\ outside \in 0..MaxOutside /\ crashes \in 0..MaxCrash
    BY EventExperienceAssumption DEF Init
  <2> QED BY <2>3, <2>4, <2>5, <2>6, <2>7 DEF TypeOK
<1>2. SeedHoldsItsContract /\ IdleIsEmpty /\ OneRevisionPerSource
  BY DEF Init, SeedHoldsItsContract, IdleIsEmpty, OneRevisionPerSource, Present, NoContract, Active, Bound
<1>3. AllKnow
  BY DEF Init, AllKnow, Knows, KnowsSeeds, KnowsArc, IsFresh, Recalls, Idle, Planning, Choosing, Locking
<1>4. AllWhole
  BY DEF Init, AllWhole
<1> QED BY <1>1, <1>2, <1>3, <1>4 DEF IInv

LEMMA SpecIInv == Spec => []IInv
BY InitIInv, NextIInv, PTL DEF Spec

(* The rows, the local copies of every gate and the manifests are well formed. *)
THEOREM ExperienceTypeCorrect == Spec => []TypeOK
<1>1. IInv => TypeOK
  BY DEF IInv
<1> QED BY <1>1, SpecIInv, PTL

(* Whatever is locked, superseded, retired, cancelled or left unfinished, a     *)
(* seed revision says it is locked exactly when one contract of its lineage is *)
(* locked, and names that one.                                                *)
THEOREM ExperienceSeedHoldsItsContract == Spec => []SeedHoldsItsContract
<1>1. IInv => SeedHoldsItsContract
  BY DEF IInv
<1> QED BY <1>1, SpecIInv, PTL

(* Rival requests and retries of one outline revision leave one seed revision  *)
(* for it: every call compares the control revision its plan was read at.     *)
THEOREM ExperienceOneRevisionPerSource == Spec => []OneRevisionPerSource
<1>1. IInv => OneRevisionPerSource
  BY DEF IInv
<1> QED BY <1>1, SpecIInv, PTL

(* A binding revision that has not moved vouches for the seeds and contracts   *)
(* of an issued manifest.                                                     *)
THEOREM ExperienceBindingRevisionSuffices == Spec => []BindingRevisionSuffices
<1>1. IInv => BindingRevisionSuffices
  BY DEF IInv, AllWhole, Issued, Holds, BindingRevisionSuffices, ManifestIsLocked
<1> QED BY <1>1, SpecIInv, PTL

(* An issued manifest is of the request's outline revision, under an arc over  *)
(* exactly its seeds with the trajectory the user chose, though other sessions *)
(* supersede seeds and arcs between any two calls of the gate.                *)
THEOREM ExperienceTokenIsWhole == Spec => []TokenIsWhole
<1>1. IInv => TokenIsWhole
  BY DEF IInv, AllWhole, Issued, Whole, Mine, Choice, TokenIsWhole
<1> QED BY <1>1, SpecIInv, PTL

LEMMA NextGoesOn ==
  ASSUME IInv, [Next]_vars
  PROVE  RowsGoOn
<1>1. Sound /\ control \in Nat /\ binding \in Nat
  BY IInvSound
<1>2. ASSUME UNCHANGED <<seed, contract, arc>>,
             UNCHANGED <<control, binding>> \/ Advance(TRUE)
      PROVE  RowsGoOn
  BY <1>1, <1>2, RowsStay
<1>3. ASSUME NEW r \in Request, Submit(r) \/ Attempt(r) \/ Crash(r) PROVE RowsGoOn
  <2>1. CASE Submit(r) \/ Preflight(r) \/ ReadQuestion(r) \/ ReadControl(r) \/ Raise(r) \/ Crash(r)
    BY <1>2, <2>1 DEF Submit, Preflight, ReadQuestion, ReadControl, Raise, Crash, db
  <2>2. CASE OpenQuestion(r) \/ IssueManifest(r)
    BY <1>2, <2>2 DEF OpenQuestion, IssueManifest, db
  <2> QED BY <1>3, <2>1, <2>2, SaveSeedGoesOn, SaveArcGoesOn, SelectArcGoesOn,
             LockNextContractGoesOn, LockArcGoesOn DEF Attempt
<1>4. ASSUME NEW q \in Refs, Answer(q) \/ Expire(q) PROVE RowsGoOn
  BY <1>2, <1>4, AnswerGoesOn DEF Expire
<1>5. CASE Elsewhere \/ UNCHANGED vars
  BY <1>2, <1>5 DEF Elsewhere, vars, db
<1> QED BY <1>3, <1>4, <1>5, DirectGoesOn, RetireArcGoesOn DEF Next

(* What is on record stays: a seed revision keeps its source, an arc its seeds *)
(* and trajectory, neither comes back once it is retired, and a seed that      *)
(* holds a contract changes only with the binding revision.                   *)
RecordsStay ==
  /\ SeedsGrow(seed, seed') /\ ArcsGrow(arc, arc')
  /\ binding' = binding => BoundStay

(* No step of a gate, a user or another session breaks that.                   *)
THEOREM ExperienceRecordsStay == Spec => [][RecordsStay]_vars
<1>1. ASSUME IInv, [Next]_vars PROVE RecordsStay
  <2>1. RowsGoOn /\ binding \in Nat
    BY <1>1, NextGoesOn, IInvSound
  <2>2. ASSUME binding' = binding PROVE BoundStay
    BY <2>1, <2>2 DEF RowsGoOn, Advances
  <2> QED BY <2>1, <2>2 DEF RowsGoOn, RecordsStay
<1>2. ASSUME IInv, [Next]_vars PROVE [RecordsStay]_vars
  BY <1>1, <1>2
<1> QED BY <1>2, SpecIInv, PTL DEF Spec
============================================================================
