--------------------------- MODULE EventExperience ---------------------------
(* The event-experience control rows of one event chain                       *)
(* (scripts/event_experience.py) and the gate that fills them before a plot   *)
(* turn, ensure_locked_manifest of scripts/event_experience_runtime.py.       *)
(*                                                                            *)
(* A call of the service is one write transaction that compares and advances  *)
(* a control revision, and stores its answer under an idempotency key; the    *)
(* gate is a sequence of such calls, and other sessions, the user's answers,  *)
(* direct calls of the service and a crash come in between. Every request     *)
(* plans the whole chain. Hashes are identities: a row is named by its event  *)
(* and revision, a contract also by its place in the revision's lineage.      *)
EXTENDS Naturals

CONSTANTS
  NumSeeds,     \* events of the chain, in dependency order
  Request,      \* prompts handed to the gate, each with its own idempotency key
  Later,        \* requests that start from the second accepted outline revision
  Asks,         \* requests whose intent leaves the trajectory to a question
  Operation,    \* calls made outside the gate
  MaxOutside,   \* bound: calls outside the gate that begin something
  MaxCrash,     \* bound: deaths of a process inside the gate
  MaxRevision,  \* bound: revisions of a seed
  MaxLineage,   \* bound: contracts of a seed revision
  MaxArc        \* bound: revisions of the arc

Event == 1..NumSeeds
Revision == 1..MaxRevision
Lineage == 1..MaxLineage
ArcRevision == 1..MaxArc

ASSUME EventExperienceAssumption ==
  /\ {NumSeeds, MaxRevision, MaxLineage, MaxArc} \subseteq Nat \ {0}
  /\ {MaxOutside, MaxCrash} \subseteq Nat
  /\ Later \subseteq Request /\ Asks \subseteq Request

VARIABLES
  control,   \* control_revision of event_experience_meta
  binding,   \* binding_revision
  seed,      \* event_seeds
  contract,  \* status in event_experience_contracts
  arc,       \* event_experience_arcs
  question,  \* event_experience_questions, by the seed revisions of its manifest
  stored,    \* [Request -> answers in event_experience_idempotency it may ask for again]
  gate,      \* [Request -> local variables of ensure_locked_manifest]
  token,     \* [Request -> the manifest and binding it returned]
  outside, crashes

db == <<control, binding, seed, contract, arc, question, stored>>
vars == <<db, gate, token, outside, crashes>>

(* One revision of every event.                                               *)
Refs == [Event -> Revision]

Bound == {"experience_locked", "expanded", "generated"}
Version(r) == IF r \in Later THEN 2 ELSE 1

SeedRow ==
  [status  : {"absent", "seeded", "retired"} \cup Bound,
   version : 0..2,             \* source_outline_artifact_revision
   bound   : 0..MaxLineage]    \* experience_contract_id, 0 for NULL

(* withdrawn: retired without ever having been locked (locked_at IS NULL).     *)
ContractStatus == {"absent", "proposed", "locked", "retired", "withdrawn"}

ArcRow ==
  [status : {"absent", "proposed", "locked", "retired"},
   binds  : [Event -> 0..MaxRevision],  \* event_seed_bindings
   choice : {"default", "selected"}]    \* the trajectory

QuestionStatus == {"none", "awaiting", "repeated", "awaiting_experience", "expired", "answered", "retired"}
Open == {"awaiting", "repeated", "awaiting_experience"}

Gate ==
  [pc      : {"new", "idle", "seeds", "arc", "ask", "open", "select", "read", "contracts",
              "lock", "manifest", "ready"},
   control : Nat,                                             \* control_revision
   plan    : [Event -> {"create", "supersede", "reuse"}],     \* seed_plans
   refs    : [Event -> 0..MaxRevision],                       \* seed_references
   arcPlan : {"create", "supersede", "reuse"},                \* arc_action
   arc     : 0..MaxArc,                                       \* revision of the local arc
   locked  : BOOLEAN,                                         \* its status in the local copy
   next    : 1..NumSeeds]

Idle == [pc |-> "idle", control |-> 0, plan |-> [e \in Event |-> "create"],
         refs |-> [e \in Event |-> 0], arcPlan |-> "create", arc |-> 0,
         locked |-> FALSE, next |-> 1]

Token ==
  [refs : Refs, contracts : [Event -> Lineage], arc : ArcRevision, binding : Nat]
NoToken == [binding |-> 0]

Init ==
  /\ control = 0 /\ binding = 0
  /\ seed = [e \in Event |->
       [n \in Revision |-> [status |-> "absent", version |-> 0, bound |-> 0]]]
  /\ contract = [e \in Event |-> [n \in Revision |-> [k \in Lineage |-> "absent"]]]
  /\ arc = [a \in ArcRevision |->
       [status |-> "absent", binds |-> [e \in Event |-> 0], choice |-> "default"]]
  /\ question = [q \in Refs |-> "none"]
  /\ stored = [r \in Request |-> [contracts |-> [e \in Event |-> 0], selected |-> 0, arcLock |-> 0]]
  /\ gate = [r \in Request |-> [Idle EXCEPT !.pc = "new"]]
  /\ token = [r \in Request |-> NoToken]
  /\ outside = 0 /\ crashes = 0

Present(e, n) == seed[e][n].status # "absent"
Live(e, n) == seed[e][n].status \notin {"absent", "retired"}
Latest(e, n) == Present(e, n) /\ \A m \in Revision : m > n => ~Present(e, m)
Active(e, n, k) == contract[e][n][k] \in {"proposed", "locked"}
NoContract(e, n) == \A k \in Lineage : contract[e][n][k] = "absent"
ArcPresent(a) == arc[a].status # "absent"
LatestArc(a) == ArcPresent(a) /\ \A b \in ArcRevision : b > a => ~ArcPresent(b)

Retired(c) == CASE c = "proposed" -> "withdrawn" [] c = "locked" -> "retired" [] OTHER -> c

(* Only what was not locked yet is retired with the seed.                     *)
RetireContracts_Proposed(e, n) ==
  [contract EXCEPT ![e][n] =
     [k \in Lineage |-> IF @[k] = "proposed" THEN "withdrawn" ELSE @[k]]]

(* The contracts of one seed revision retired with it.                        *)
RetireContracts(e, n) ==
  [contract EXCEPT ![e][n] = [k \in Lineage |-> Retired(@[k])]]

(* _mutate: the control revision, and with it the binding revision when the   *)
(* operation touches what a manifest binds.                                   *)
Advance(rebinds) ==
  /\ control' = control + 1
  /\ binding' = IF rebinds THEN binding + 1 ELSE binding

-----------------------------------------------------------------------------
(* The gate.                                                                  *)

(* A revision of the same source is superseded as well.                       *)
PlansSeed_SameSource(r, e, what, n) ==
  \/ what = "create" /\ n = 1 /\ \A m \in Revision : ~Present(e, m)
  \/ /\ what = "supersede"
     /\ \E m \in Revision :
          n = m + 1 /\ Latest(e, m) /\ Live(e, m) /\ seed[e][m].version <= Version(r)

(* _preflight_seed_mutations for one event: what to do, and the revision it    *)
(* will leave.                                                                *)
PlansSeed(r, e, what, n) ==
  \/ what = "create" /\ n = 1 /\ \A m \in Revision : ~Present(e, m)
  \/ what = "reuse" /\ Latest(e, n) /\ Live(e, n) /\ seed[e][n].version = Version(r)
  \/ /\ what = "supersede"
     /\ \E m \in Revision :
          n = m + 1 /\ Latest(e, m) /\ Live(e, m) /\ seed[e][m].version < Version(r)

ArcIsOlder(a, v) == \A e \in Event : seed[e][arc[a].binds[e]].version < v
ArcIsOf(a, v) ==
  /\ \A e \in Event : seed[e][arc[a].binds[e]].version <= v
  /\ \E e \in Event : seed[e][arc[a].binds[e]].version = v

(* The arc of an answered question counts as a conflict.                      *)
PlansArc_DefaultOnly(r, refs, what, a) ==
  \/ what = "create" /\ a = 0 /\ \A b \in ArcRevision : ~ArcPresent(b)
  \/ /\ a \in ArcRevision /\ LatestArc(a) /\ arc[a].status # "retired"
     /\ \/ what = "supersede" /\ ArcIsOlder(a, Version(r))
        \/ /\ what = "reuse" /\ ArcIsOf(a, Version(r))
           /\ arc[a].binds = refs
           /\ arc[a].choice = "default"

(* _load_arc_snapshot and _plan_arc_mutation.                                 *)
PlansArc(r, refs, what, a) ==
  \/ what = "create" /\ a = 0 /\ \A b \in ArcRevision : ~ArcPresent(b)
  \/ /\ a \in ArcRevision /\ LatestArc(a) /\ arc[a].status # "retired"
     /\ \/ what = "supersede" /\ ArcIsOlder(a, Version(r))
        \/ /\ what = "reuse" /\ ArcIsOf(a, Version(r))
           /\ arc[a].binds = refs
           /\ arc[a].choice = "default" \/ r \in Asks

(* The prompt arrives; from then on a turn that was blocked is submitted again. *)
Submit(r) ==
  /\ gate[r].pc = "new"
  /\ gate' = [gate EXCEPT ![r] = Idle]
  /\ UNCHANGED <<db, token, outside, crashes>>

(* The start of the gate: every read before the first change checks the same   *)
(* control revision, so they see one state; a change in between raises before  *)
(* anything is written.                                                       *)
Preflight(r) ==
  /\ gate[r].pc = "idle"
  /\ \E plan \in [Event -> {"create", "supersede", "reuse"}], refs \in Refs :
       /\ \A e \in Event : PlansSeed(r, e, plan[e], refs[e])
       /\ \E what \in {"create", "supersede", "reuse"}, a \in 0..MaxArc :
            /\ PlansArc(r, refs, what, a)
            /\ gate' = [gate EXCEPT ![r] =
                 [pc |-> "seeds", control |-> control, plan |-> plan, refs |-> refs,
                  arcPlan |-> what, arc |-> a,
                  locked |-> a \in ArcRevision /\ arc[a].status = "locked", next |-> 1]]
  /\ UNCHANGED <<db, token, outside, crashes>>

Goto(r, pc) == gate' = [gate EXCEPT ![r].pc = pc]
Fresh(r) == gate[r].control = control

(* The next event of the loop, or the step after the last one.                *)
Step(r, after, revision) ==
  gate' = [gate EXCEPT ![r].control = revision,
             ![r].pc = IF gate[r].next = NumSeeds THEN after ELSE gate[r].pc,
             ![r].next = IF gate[r].next = NumSeeds THEN 1 ELSE gate[r].next + 1]

CanSaveSeed(r) ==
  LET e == gate[r].next IN
  \/ gate[r].plan[e] = "reuse"
  \/ Fresh(r)

(* create_seed and supersede_seed.                                            *)
SaveSeed(r) ==
  LET e == gate[r].next
      n == gate[r].refs[e]
      new == [status |-> "seeded", version |-> Version(r), bound |-> 0] IN
  /\ gate[r].pc = "seeds" /\ CanSaveSeed(r)
  /\ \/ /\ gate[r].plan[e] = "reuse"
        /\ Step(r, "arc", gate[r].control)
        /\ UNCHANGED <<control, binding, seed, contract>>
     \/ /\ gate[r].plan[e] = "create"
        /\ seed' = [seed EXCEPT ![e][n] = new]
        /\ Advance(TRUE) /\ Step(r, "arc", control + 1)
        /\ UNCHANGED contract
     \/ /\ gate[r].plan[e] = "supersede"
        /\ seed' = [seed EXCEPT ![e][n - 1].status = "retired", ![e][n] = new]
        /\ contract' = RetireContracts(e, n - 1)
        /\ Advance(TRUE) /\ Step(r, "arc", control + 1)
  /\ UNCHANGED <<arc, question, stored, token, outside, crashes>>

(* _bind_arc_seeds: the live revision of every event.                         *)
Binds(refs) == \A e \in Event : Live(e, refs[e]) /\ \A m \in Revision : m > refs[e] => ~Live(e, m)

(* supersede_arc: the latest revision gives way to a proposed one.            *)
SupersedeArc(a, refs, choice) ==
  /\ LatestArc(a) /\ arc[a].status # "retired" /\ a + 1 \in ArcRevision
  /\ Binds(refs)
  /\ arc' = [arc EXCEPT ![a].status = "retired",
               ![a + 1] = [status |-> "proposed", binds |-> refs, choice |-> choice]]

CanSaveArc(r) == gate[r].arcPlan = "reuse" \/ (Fresh(r) /\ Binds(gate[r].refs))

SaveArc(r) ==
  LET after == IF r \in Asks THEN "ask" ELSE "read"
      made(a) == gate' = [gate EXCEPT ![r].pc = after, ![r].arc = a, ![r].locked = FALSE,
                            ![r].control = control + 1] IN
  /\ gate[r].pc = "arc" /\ CanSaveArc(r)
  /\ \/ gate[r].arcPlan = "reuse" /\ Goto(r, after) /\ UNCHANGED <<control, binding, arc>>
     \/ /\ gate[r].arcPlan = "create"
        /\ arc' = [arc EXCEPT ![1] = [status |-> "proposed", binds |-> gate[r].refs, choice |-> "default"]]
        /\ Advance(TRUE) /\ made(1)
     \/ /\ gate[r].arcPlan = "supersede"
        /\ SupersedeArc(gate[r].arc, gate[r].refs, "default")
        /\ Advance(TRUE) /\ made(gate[r].arc + 1)
  /\ UNCHANGED <<seed, contract, question, stored, token, outside, crashes>>

(* seed_manifest and get_question.                                            *)
CanAsk(r) == \A e \in Event : Live(e, gate[r].refs[e])

ReadQuestion(r) ==
  /\ gate[r].pc = "ask" /\ CanAsk(r)
  /\ CASE question[gate[r].refs] = "none" -> Goto(r, "open")
       [] question[gate[r].refs] = "answered" -> Goto(r, "select")
       [] OTHER -> gate' = [gate EXCEPT ![r] = Idle]   \* the turn is told to wait, or cancelled
  /\ UNCHANGED <<db, token, outside, crashes>>

CanOpen(r) ==
  /\ Fresh(r)
  /\ \A e \in Event :
       /\ seed[e][gate[r].refs[e]].status = "seeded"
       /\ \A k \in Lineage : ~Active(e, gate[r].refs[e], k)
  /\ question[gate[r].refs] = "none"

(* open_question; the turn then waits for the answer.                         *)
OpenQuestion(r) ==
  /\ gate[r].pc = "open" /\ CanOpen(r)
  /\ question' = [question EXCEPT ![gate[r].refs] = "awaiting"]
  /\ Advance(TRUE)
  /\ gate' = [gate EXCEPT ![r] = Idle]
  /\ UNCHANGED <<seed, contract, arc, stored, token, outside, crashes>>

(* The default arc passes for the answered one.                               *)
ArcMatches_AnyChoice(r) == arc[gate[r].arc].binds = gate[r].refs

(* _arc_matches for the answered trajectory, on the local arc.                *)
ArcMatches(r) == arc[gate[r].arc].choice = "selected" /\ arc[gate[r].arc].binds = gate[r].refs

CanSelect(r) ==
  \/ ArcMatches(r)
  \/ stored[r].selected # 0
  \/ /\ \E a \in ArcRevision : LatestArc(a) /\ arc[a].status # "retired"
     /\ \E refs \in Refs : Binds(refs)

(* The arc of the answered trajectory replaces the default one. The control    *)
(* revision is read just before the call.                                     *)
SelectArc(r) ==
  /\ gate[r].pc = "select" /\ CanSelect(r)
  /\ \/ /\ ArcMatches(r)
        /\ Goto(r, "read") /\ UNCHANGED <<control, binding, arc, stored>>
     \/ /\ ~ArcMatches(r) /\ stored[r].selected # 0
        /\ gate' = [gate EXCEPT ![r].pc = "read", ![r].arc = stored[r].selected, ![r].locked = FALSE]
        /\ UNCHANGED <<control, binding, arc, stored>>
     \/ /\ ~ArcMatches(r) /\ stored[r].selected = 0
        /\ \E a \in ArcRevision, refs \in Refs :
             /\ SupersedeArc(a, refs, "selected")
             /\ stored' = [stored EXCEPT ![r].selected = a + 1]
             /\ gate' = [gate EXCEPT ![r].pc = "read", ![r].arc = a + 1, ![r].locked = FALSE]
        /\ Advance(TRUE)
  /\ UNCHANGED <<seed, contract, question, token, outside, crashes>>

ReadControl(r) ==
  /\ gate[r].pc = "read"
  /\ gate' = [gate EXCEPT ![r].pc = "contracts", ![r].control = control]
  /\ UNCHANGED <<db, token, outside, crashes>>

CanLockContract(r) ==
  LET e == gate[r].next
      n == gate[r].refs[e] IN
  \/ stored[r].contracts[e] # 0
  \/ (Fresh(r) /\ seed[e][n].status = "seeded" /\ NoContract(e, n))

(* propose_and_lock_contract for one event; a call that was made before gets   *)
(* its stored answer, with the control revision of that time.                 *)
LockNextContract(r) ==
  LET e == gate[r].next
      n == gate[r].refs[e] IN
  /\ gate[r].pc = "contracts" /\ CanLockContract(r)
  /\ \/ /\ stored[r].contracts[e] # 0
        /\ Step(r, "lock", stored[r].contracts[e])
        /\ UNCHANGED <<control, binding, seed, contract, stored>>
     \/ /\ stored[r].contracts[e] = 0
        /\ contract' = [contract EXCEPT ![e][n][1] = "locked"]
        /\ seed' = [seed EXCEPT ![e][n].status = "experience_locked", ![e][n].bound = 1]
        /\ Advance(TRUE)
        /\ stored' = [stored EXCEPT ![r].contracts[e] = control + 1]
        /\ Step(r, "lock", control + 1)
  /\ UNCHANGED <<arc, question, token, outside, crashes>>

CanLockArc(r) ==
  LET a == gate[r].arc IN
  \/ gate[r].locked
  \/ stored[r].arcLock = a
  \/ /\ stored[r].arcLock = 0 /\ Fresh(r)
     /\ arc[a].status = "proposed"
     /\ \A e \in Event : Live(e, arc[a].binds[e])   \* _validate_arc_seed_bindings

LockArc(r) ==
  LET a == gate[r].arc IN
  /\ gate[r].pc = "lock" /\ CanLockArc(r)
  /\ Goto(r, "manifest")
  /\ IF gate[r].locked \/ stored[r].arcLock = a
     THEN UNCHANGED <<control, binding, arc, stored>>
     ELSE /\ arc' = [arc EXCEPT ![a].status = "locked"]
          /\ stored' = [stored EXCEPT ![r].arcLock = a]
          /\ Advance(TRUE)
  /\ UNCHANGED <<seed, contract, question, token, outside, crashes>>

(* _locked_manifest_from_connection: every seed is bound to a locked contract. *)
ManifestIsLocked(refs) ==
  \A e \in Event :
    /\ seed[e][refs[e]].status \in Bound
    /\ \E k \in Lineage : seed[e][refs[e]].bound = k /\ contract[e][refs[e]][k] = "locked"

(* locked_manifest and _lifecycle_binding.                                    *)
IssueManifest(r) ==
  LET refs == gate[r].refs IN
  /\ gate[r].pc = "manifest" /\ ManifestIsLocked(refs)
  /\ token' = [token EXCEPT ![r] =
       [refs |-> refs, contracts |-> [e \in Event |-> seed[e][refs[e]].bound],
        arc |-> gate[r].arc, binding |-> binding]]
  /\ Goto(r, "ready")
  /\ UNCHANGED <<db, outside, crashes>>

(* A call of the service refuses: the gate gives up and the turn is blocked.   *)
Raise(r) ==
  /\ \/ gate[r].pc = "seeds" /\ ~CanSaveSeed(r)
     \/ gate[r].pc = "arc" /\ ~CanSaveArc(r)
     \/ gate[r].pc = "ask" /\ ~CanAsk(r)
     \/ gate[r].pc = "open" /\ ~CanOpen(r)
     \/ gate[r].pc = "select" /\ ~CanSelect(r)
     \/ gate[r].pc = "contracts" /\ ~CanLockContract(r)
     \/ gate[r].pc = "lock" /\ ~CanLockArc(r)
     \/ gate[r].pc = "manifest" /\ ~ManifestIsLocked(gate[r].refs)
  /\ gate' = [gate EXCEPT ![r] = Idle]
  /\ UNCHANGED <<db, token, outside, crashes>>

Crash(r) ==
  /\ gate[r].pc \notin {"new", "idle", "ready"} /\ crashes < MaxCrash
  /\ gate' = [gate EXCEPT ![r] = Idle]
  /\ crashes' = crashes + 1
  /\ UNCHANGED <<db, token, outside>>

-----------------------------------------------------------------------------
(* The user's answer to the question.                                         *)

(* _retire_question_candidates: the seeds that nothing was locked for, their   *)
(* proposed contracts, and the proposed arcs over them.                       *)
RetireCandidates(q) ==
  LET gone == {e \in Event : seed[e][q[e]].status = "seeded"} IN
  /\ seed' = [e \in Event |-> [n \in Revision |->
       IF e \in gone /\ n = q[e] THEN [seed[e][n] EXCEPT !.status = "retired"] ELSE seed[e][n]]]
  /\ contract' = [e \in Event |-> [n \in Revision |-> [k \in Lineage |->
       IF e \in gone /\ n = q[e] /\ contract[e][n][k] = "proposed"
       THEN "withdrawn" ELSE contract[e][n][k]]]]
  /\ arc' = [a \in ArcRevision |->
       IF arc[a].status = "proposed" /\ \E e \in gone : arc[a].binds[e] = q[e]
       THEN [arc[a] EXCEPT !.status = "retired"] ELSE arc[a]]

(* answer_question, with the control revision read just before: a valid        *)
(* answer, an invalid one (which advances no revision), or a cancel; an answer *)
(* that comes too late retires the question. None of them rebinds.            *)
Answer(q) ==
  /\ question[q] \in Open \cup {"expired"}
  /\ \/ /\ question[q] \in Open
        /\ question' = [question EXCEPT ![q] = "answered"]
        /\ Advance(FALSE) /\ UNCHANGED <<seed, contract, arc>>
     \/ /\ question[q] \in {"awaiting", "repeated"}
        /\ question' = [question EXCEPT ![q] =
             IF question[q] = "awaiting" THEN "repeated" ELSE "awaiting_experience"]
        /\ UNCHANGED <<control, binding, seed, contract, arc>>
     \/ /\ question' = [question EXCEPT ![q] = "retired"]
        /\ RetireCandidates(q) /\ Advance(FALSE)
  /\ UNCHANGED <<stored, gate, token, outside, crashes>>

(* The time to live runs out.                                                 *)
Expire(q) ==
  /\ question[q] \in Open
  /\ question' = [question EXCEPT ![q] = "expired"]
  /\ UNCHANGED <<control, binding, seed, contract, arc, stored, gate, token, outside, crashes>>

-----------------------------------------------------------------------------
(* Calls of the service outside the gate, each with the current revision.      *)

Outside(op) ==
  /\ op \in Operation /\ outside < MaxOutside
  /\ outside' = outside + 1
  /\ UNCHANGED <<question, stored, gate, token, crashes>>

(* A call that goes on with what another one began is not counted.            *)
Follows(op) ==
  /\ op \in Operation /\ outside > 0
  /\ UNCHANGED <<question, stored, gate, token, outside, crashes>>

(* Any change of another chain's rows.                                        *)
Elsewhere == Outside("elsewhere") /\ Advance(TRUE) /\ UNCHANGED <<seed, contract, arc>>

(* record_review, of a contract that was locked.                              *)
RecordReview(e, n, k) ==
  /\ Outside("review") /\ contract[e][n][k] \in {"locked", "retired"}
  /\ Advance(FALSE) /\ UNCHANGED <<seed, contract, arc>>

ProposeContract(e, n) ==
  /\ Outside("propose") /\ Live(e, n) /\ NoContract(e, n)
  /\ contract' = [contract EXCEPT ![e][n][1] = "proposed"]
  /\ Advance(TRUE) /\ UNCHANGED <<seed, arc>>

Bind(e, n, status, k) == seed' = [seed EXCEPT ![e][n].status = status, ![e][n].bound = k]

LockContract(e, n, k) ==
  /\ Follows("lock") /\ contract[e][n][k] = "proposed"
  /\ seed[e][n].status \in {"seeded", "experience_locked"}
  /\ contract' = [contract EXCEPT ![e][n][k] = "locked"]
  /\ Bind(e, n, "experience_locked", k)
  /\ Advance(TRUE) /\ UNCHANGED arc

SupersedeContract(e, n, k, locks) ==
  /\ Outside("supersede") /\ Active(e, n, k) /\ k + 1 \in Lineage
  /\ seed[e][n].status \in {"seeded", "experience_locked"}
  /\ contract' = [contract EXCEPT ![e][n][k] = Retired(contract[e][n][k]),
                    ![e][n][k + 1] = IF locks THEN "locked" ELSE "proposed"]
  /\ IF locks THEN Bind(e, n, "experience_locked", k + 1) ELSE Bind(e, n, "seeded", 0)
  /\ Advance(TRUE) /\ UNCHANGED arc

RetireContract(e, n, k) ==
  /\ Outside("retire_contract") /\ Active(e, n, k)
  /\ seed[e][n].status \notin {"expanded", "generated"}
  /\ contract' = [contract EXCEPT ![e][n][k] = Retired(contract[e][n][k])]
  /\ IF seed[e][n].bound = k THEN Bind(e, n, "seeded", 0) ELSE UNCHANGED seed
  /\ Advance(TRUE) /\ UNCHANGED arc

(* advance_seed_status.                                                       *)
AdvanceSeed(e, n) ==
  /\ \E k \in Lineage : seed[e][n].bound = k /\ contract[e][n][k] = "locked"
  /\ \/ /\ Outside("advance") /\ seed[e][n].status = "experience_locked"
        /\ seed' = [seed EXCEPT ![e][n].status = "expanded"]
     \/ /\ Follows("advance") /\ seed[e][n].status = "expanded"
        /\ seed' = [seed EXCEPT ![e][n].status = "generated"]
  /\ Advance(TRUE) /\ UNCHANGED <<contract, arc>>

(* A seed is retired without touching the binding revision.                   *)
RetireSeed_Unbound(e, n) ==
  /\ Outside("retire_seed") /\ Live(e, n)
  /\ seed' = [seed EXCEPT ![e][n].status = "retired"]
  /\ contract' = RetireContracts(e, n)
  /\ Advance(FALSE) /\ UNCHANGED arc

RetireSeed(e, n) ==
  /\ Outside("retire_seed") /\ Live(e, n)
  /\ seed' = [seed EXCEPT ![e][n].status = "retired"]
  /\ contract' = RetireContracts(e, n)
  /\ Advance(TRUE) /\ UNCHANGED arc

RetireArc(a) ==
  /\ Outside("retire_arc") /\ LatestArc(a) /\ arc[a].status # "retired"
  /\ arc' = [arc EXCEPT ![a].status = "retired"]
  /\ Advance(TRUE) /\ UNCHANGED <<seed, contract>>

Direct(e, n) ==
  \/ ProposeContract(e, n) \/ AdvanceSeed(e, n) \/ RetireSeed(e, n)
  \/ \E k \in Lineage :
       \/ RecordReview(e, n, k) \/ LockContract(e, n, k) \/ RetireContract(e, n, k)
       \/ \E locks \in BOOLEAN : SupersedeContract(e, n, k, locks)

-----------------------------------------------------------------------------
Attempt(r) ==
  \/ Preflight(r) \/ SaveSeed(r) \/ SaveArc(r) \/ ReadQuestion(r) \/ OpenQuestion(r)
  \/ SelectArc(r) \/ ReadControl(r) \/ LockNextContract(r) \/ LockArc(r) \/ IssueManifest(r)
  \/ Raise(r)

Next ==
  \/ \E r \in Request : Submit(r) \/ Attempt(r) \/ Crash(r)
  \/ \E q \in Refs : Answer(q) \/ Expire(q)
  \/ Elsewhere
  \/ \E e \in Event, n \in Revision : Direct(e, n)
  \/ \E a \in ArcRevision : RetireArc(a)

Spec == Init /\ [][Next]_vars

(* A call of the gate goes on, and a blocked turn is submitted again. Nothing   *)
(* makes prompts, answers or other calls come.                                *)
FairSpec == Spec /\ \A r \in Request : WF_vars(Attempt(r))
-----------------------------------------------------------------------------
TypeOK ==
  /\ control \in Nat /\ binding \in Nat
  /\ seed \in [Event -> [Revision -> SeedRow]]
  /\ contract \in [Event -> [Revision -> [Lineage -> ContractStatus]]]
  /\ arc \in [ArcRevision -> ArcRow]
  /\ question \in [Refs -> QuestionStatus]
  /\ stored \in [Request -> [contracts : [Event -> Nat], selected : 0..MaxArc, arcLock : 0..MaxArc]]
  /\ gate \in [Request -> Gate]
  /\ token \in [Request -> Token \cup {NoToken}]
  /\ outside \in 0..MaxOutside /\ crashes \in 0..MaxCrash

(* Whatever is locked, superseded, retired, cancelled or left unfinished, a     *)
(* seed revision says it is locked exactly when one contract of its lineage is *)
(* locked, and names that one; no revision has two active contracts.          *)
SeedHoldsItsContract ==
  \A e \in Event, n \in Revision :
    /\ seed[e][n].status \in Bound =>
         \E k \in Lineage : seed[e][n].bound = k /\ contract[e][n][k] = "locked"
    /\ \A k \in Lineage :
         /\ contract[e][n][k] = "locked" => seed[e][n].status \in Bound /\ seed[e][n].bound = k
         /\ Active(e, n, k) => \A j \in Lineage : Active(e, n, j) => j = k

(* Retries and rival requests of one outline revision leave one seed revision  *)
(* for it; older ones are retired and of older outlines.                      *)
OneRevisionPerSource ==
  \A e \in Event, m, n \in Revision :
    m < n /\ Present(e, n) =>
      seed[e][m].status = "retired" /\ seed[e][m].version < seed[e][n].version

(* While the binding revision is the one a manifest was issued with, its seeds *)
(* still hold the contracts it names: what a review, an answer, a cancel or an *)
(* expiry does without advancing that revision touches no issued manifest.    *)
BindingRevisionSuffices ==
  \A r \in Request :
    token[r] # NoToken /\ token[r].binding = binding =>
      /\ ManifestIsLocked(token[r].refs)
      /\ \A e \in Event : seed[e][token[r].refs[e]].bound = token[r].contracts[e]

(* What the gate hands to the turn is of one outline revision, the one the      *)
(* request started from, under an arc over exactly those seeds that was locked *)
(* with the trajectory the user chose.                                        *)
TokenIsWhole ==
  \A r \in Request :
    token[r] # NoToken =>
      /\ \A e \in Event : seed[e][token[r].refs[e]].version = Version(r)
      /\ arc[token[r].arc].binds = token[r].refs
      /\ arc[token[r].arc].status \in {"locked", "retired"}
      /\ arc[token[r].arc].choice = IF r \in Asks THEN "selected" ELSE "default"

(* Nothing but this request and the user's answers has touched the chain.      *)
Alone(r) == outside = 0 /\ \A q \in Request \ {r} : gate[q].pc = "new"

(* A turn that is alone gets its manifest, whatever step a process died in, and *)
(* with a question once the user has answered it.                             *)
ResumesAlone ==
  \A r \in Request :
    ( /\ []Alone(r) /\ <>(gate[r].pc # "new")
      /\ r \in Asks => <>(\E q \in Refs : question[q] = "answered") )
    => <>(gate[r].pc = "ready")

(* A turn that was told to wait or was refused is submitted again with the same *)
(* key until its manifest is locked, whatever other sessions do meanwhile.    *)
RetryLocks == \A r \in Request : gate[r].pc # "new" ~> gate[r].pc = "ready"
============================================================================
