-------------------------- MODULE ExtractionQueue --------------------------
(* The durable extraction queue of strict asynchronous mode, from the Prepare *)
(* receipt of a plot turn to the review of the proposal extracted from it:    *)
(* scripts/extraction_jobs.py, the worker loop and barrier of                 *)
(* hooks/plot_progression_gate.py, propose_plot_turn of scripts/v1_runtime.py *)
(* and the review operations of scripts/continuity/service.py.                *)
(*                                                                            *)
(* Every write of the code runs in one BEGIN IMMEDIATE transaction of the     *)
(* state database, so one transaction is one action. Whatever happens between *)
(* two transactions of a worker interleaves freely with every other actor.    *)
(*                                                                            *)
(* Time. The code compares lease_expires_at and next_attempt_at with the      *)
(* clock; only the outcome of the comparison matters, so a lease is "live"    *)
(* until LeaseExpires and a postponed retry is "later" until RetryFallsDue.   *)
(* A heartbeat extends a live lease and can never revive an expired one: it   *)
(* leaves this state as it is.                                                *)
EXTENDS Naturals, FiniteSets

CONSTANTS
  Turn,            \* plot turns; the state of one is its Prepare receipt
  Text,            \* assistant texts a Stop hook can submit for a turn
  Worker,          \* extraction worker processes
  Proposal,        \* identities for the proposals that get created
  Content,         \* event lists an extraction may return for one text
  Quarantined,     \* the contents local validation finds errors in
  AuthorityTurn,   \* turns whose artifact stage and branch move the canon
  LifecycleBound,  \* TRUE when receipts carry an event-experience identity
  MaxEpoch,        \* bound on attempt_count: nothing goes wrong in that epoch
  MaxCanon,        \* bound on active_canon_revision
  None             \* no worker, no text, no proposal, no resolution

ASSUME QueueAssumption ==
  /\ IsFiniteSet(Turn) /\ Turn # {}
  /\ IsFiniteSet(Text) /\ Text # {}
  /\ Content # {}
  /\ Quarantined \subseteq Content
  /\ AuthorityTurn \subseteq Turn
  /\ LifecycleBound \in BOOLEAN
  /\ MaxEpoch \in Nat \ {0}
  /\ MaxCanon \in Nat
  /\ None \notin Worker \cup Text \cup Proposal \cup Content \cup {"no_delta", "failed"}
  /\ {"no_delta", "failed"} \cap (Proposal \cup Content) = {}

(* receipt_id + assistant_sha256 is the idempotency key of a job.             *)
Job == Turn \X Text

(* What an extraction returns: some content, nothing worth recording, or an   *)
(* error of the remote model.                                                 *)
Extraction == Content \cup {"no_delta", "failed"}

(* What a worker knows of the work: the proposal it was given or created.     *)
Result == Proposal \cup {"no_delta", "failed", None}

(* How an operator may close the barrier of a job.                            *)
Action == {"discard", "branch_switch", "rewrite"}

VARIABLES
  turn,        \* [Turn -> Prepare receipt]
  job,         \* [Job -> row of extraction_jobs and its durable payload]
  proposal,    \* [Proposal -> row of proposals]
  resolution,  \* [Job -> row of extraction_barrier_resolutions, or None]
  worker,      \* [Worker -> the worker process's own memory]
  canon        \* active_canon_revision

vars == <<turn, job, proposal, resolution, worker, canon>>

TurnRow ==
  [status   : {"absent", "admitted", "pending", "proposed", "no_delta", "failed"},
   seq      : Nat,
   prepared : Nat,
   text     : Text \cup {None},
   result   : Result]

JobRow ==
  [status  : {"absent", "queued", "running", "succeeded", "failed", "cancelled"},
   epoch   : Nat,
   owner   : Worker \cup {None},
   lease   : {"none", "live", "expired"},
   due     : {"now", "later", "due"},
   created : Nat,
   result  : Proposal \cup {"no_delta", None},
   payload : BOOLEAN]

ProposalRow ==
  [status  : {"absent", "proposed", "accepted", "rejected", "retracted"},
   job     : Job,
   content : Content]

WorkerState ==
  [pc    : {"absent", "idle", "looking", "claimed", "factory", "extracting",
            "persist", "complete", "failing"},
   job   : Job,
   epoch : Nat,
   found : Extraction,
   out   : Result]

TypeOK ==
  /\ turn \in [Turn -> TurnRow]
  /\ job \in [Job -> JobRow]
  /\ proposal \in [Proposal -> ProposalRow]
  /\ resolution \in [Job -> Action \cup {None}]
  /\ worker \in [Worker -> WorkerState]
  /\ canon \in Nat

AnyJob == CHOOSE j \in Job : TRUE
AnyContent == CHOOSE c \in Content : TRUE

(* A worker process between two passes, and one that is not running.          *)
IdleWorker ==
  [pc |-> "idle", job |-> AnyJob, epoch |-> 0, found |-> "failed", out |-> None]
NoWorker == [IdleWorker EXCEPT !.pc = "absent"]

Init ==
  /\ turn = [t \in Turn |-> [status |-> "absent", seq |-> 0, prepared |-> 0,
                             text |-> None, result |-> None]]
  /\ job = [j \in Job |-> [status |-> "absent", epoch |-> 0, owner |-> None,
                           lease |-> "none", due |-> "now", created |-> 0,
                           result |-> None, payload |-> FALSE]]
  /\ proposal = [p \in Proposal |-> [status |-> "absent", job |-> AnyJob,
                                     content |-> AnyContent]]
  /\ resolution = [j \in Job |-> None]
  /\ worker = [w \in Worker |-> NoWorker]
  /\ canon = 0

-----------------------------------------------------------------------------
(* Derived facts the code reads with a query.                                 *)

TurnOf(j) == j[1]
TextOf(j) == j[2]
Enqueued == {j \in Job : job[j].status # "absent"}
Received == {t \in Turn : turn[t].status \notin {"absent", "admitted"}}
Bound(j) == {p \in Proposal : proposal[p].status # "absent" /\ proposal[p].job = j}
IsValid(p) == proposal[p].content \notin Quarantined

(* _assert_prepared_identity: the canon is still the one the turn was         *)
(* prepared against.                                                          *)
Fresh(j) == turn[TurnOf(j)].prepared = canon

(* A proposal a worker may bind to its job: still proposed, and valid.        *)
Bindable(p, j) ==
  /\ p \in Bound(j)
  /\ proposal[p].status = "proposed"
  /\ IsValid(p)

(* A worker completes whatever job is running, whoever holds the lease.       *)
Leased_Unfenced(w) == job[worker[w].job].status = "running"

(* _leased_row: running, and owned by this worker in this epoch with a lease  *)
(* that has not run out.                                                      *)
Leased(w) ==
  LET row == job[worker[w].job] IN
    /\ row.status = "running"
    /\ row.owner = w
    /\ row.epoch = worker[w].epoch
    /\ row.lease = "live"

(* The review a job still needs; a resolution or a final disposition ends it. *)
Outstanding(j) ==
  /\ j \in Enqueued
  /\ resolution[j] = None
  /\ ~ /\ job[j].status = "succeeded"
       /\ \/ job[j].result = "no_delta"
          \/ \E p \in Proposal : job[j].result = p /\ proposal[p].status = "accepted"

(* barrier_status with include_prior: every job up to a sequence number.      *)
BarrierBlocks(upto) ==
  \E j \in Job : Outstanding(j) /\ turn[TurnOf(j)].seq <= upto

(* _latest_extraction_barrier: up to the sequence number of the job created   *)
(* last.                                                                      *)
Latest(j) == j \in Enqueued /\ \A k \in Enqueued : job[k].created <= job[j].created
HookBlocks == \E j \in Job : Latest(j) /\ BarrierBlocks(turn[TurnOf(j)].seq)

Due(j) == job[j].status = "queued" /\ job[j].due # "later"

(* The ORDER BY of claim: never-postponed jobs first, oldest first.           *)
FirstDue(j) ==
  /\ Due(j)
  /\ \A k \in Job : Due(k) =>
       /\ job[k].due = "now" => job[j].due = "now" /\ job[j].created <= job[k].created

-----------------------------------------------------------------------------
(* The two hooks: UserPromptSubmit admits and prepares a turn, Stop submits   *)
(* its text.                                                                  *)

(* The barrier check of UserPromptSubmit. It is a read of its own: jobs may   *)
(* be enqueued before the receipt is written.                                 *)
PassBarrier(t) ==
  /\ turn[t].status = "absent"
  /\ ~ HookBlocks
  /\ turn' = [turn EXCEPT ![t].status = "admitted"]
  /\ UNCHANGED <<job, proposal, resolution, worker, canon>>

(* The receipt of the turn; its rowid becomes the sequence number.            *)
Prepare(t) ==
  /\ turn[t].status = "admitted"
  /\ turn' = [turn EXCEPT ![t] = [@ EXCEPT !.status = "pending",
                                           !.seq = Cardinality(Received) + 1,
                                           !.prepared = canon]]
  /\ UNCHANGED <<job, proposal, resolution, worker, canon>>

(* Stop submits a text. It compared the receipt with the canon in an earlier  *)
(* read, at which the receipt could be fresh, so freshness is no guard here.  *)
(* A job that exists already is returned as it is.                            *)
Enqueue(j) ==
  /\ turn[TurnOf(j)].status \in {"pending", "failed"}
  /\ turn[TurnOf(j)].text \in {None, TextOf(j)}
  /\ job[j].status = "absent"
  /\ job' = [job EXCEPT ![j] = [@ EXCEPT !.status = "queued",
                                         !.created = Cardinality(Enqueued) + 1,
                                         !.payload = TRUE]]
  /\ UNCHANGED <<turn, proposal, resolution, worker, canon>>

(* _spawn_extraction_worker: a Stop whose text is in a job, new or not, and a *)
(* SessionStart that lists a queued job, postponed ones included, start a     *)
(* process. It may fail to come up, and then nothing happens. Nothing else    *)
(* starts a worker: no postponed retry falling due, no lease running out. One *)
(* that a Stop starts on an empty queue recovers and exits; SessionRecover is *)
(* all it does.                                                               *)
Spawn(w) ==
  /\ worker[w].pc = "absent"
  /\ \E j \in Job : job[j].status = "queued"
  /\ worker' = [worker EXCEPT ![w] = IdleWorker]
  /\ UNCHANGED <<turn, job, proposal, resolution, canon>>

-----------------------------------------------------------------------------
(* One pass of a worker: run_once and process_job.                            *)

(* An expired lease is recovered only if it was cleared.                      *)
Stale_OnlyCleared(j) == job[j].status = "running" /\ job[j].lease = "none"

(* A lease that ran out, or was never recorded.                               *)
Stale(j) == job[j].status = "running" /\ job[j].lease # "live"

(* recover_stale_running: every expired lease goes back to the queue, in one  *)
(* transaction.                                                               *)
Recovered ==
  [j \in Job |->
     IF Stale(j)
       THEN [job[j] EXCEPT !.status = "queued", !.owner = None,
                           !.lease = "none", !.due = "now"]
       ELSE job[j]]

(* SessionStart recovers, and so does a worker at the start of each pass.     *)
SessionRecover ==
  /\ \E j \in Job : Stale(j)
  /\ job' = Recovered
  /\ UNCHANGED <<turn, proposal, resolution, worker, canon>>

Recover(w) ==
  /\ worker[w].pc = "idle"
  /\ job' = Recovered
  /\ worker' = [worker EXCEPT ![w].pc = "looking"]
  /\ UNCHANGED <<turn, proposal, resolution, canon>>

(* A pass that finds nothing due is "idle", and the process ends with it.     *)
Exit(w) ==
  /\ worker[w].pc = "looking"
  /\ ~ \E j \in Job : Due(j)
  /\ worker' = [worker EXCEPT ![w] = NoWorker]
  /\ UNCHANGED <<turn, job, proposal, resolution, canon>>

(* claim: the first due job gets the next fencing epoch and a live lease.     *)
Claim(w, j) ==
  /\ worker[w].pc = "looking"
  /\ FirstDue(j)
  /\ job' = [job EXCEPT ![j] = [@ EXCEPT !.status = "running",
                                         !.epoch = job[j].epoch + 1,
                                         !.owner = w, !.lease = "live",
                                         !.due = "now"]]
  /\ worker' = [worker EXCEPT ![w] = [IdleWorker EXCEPT !.pc = "claimed",
                                                        !.job = j,
                                                        !.epoch = job[j].epoch + 1]]
  /\ UNCHANGED <<turn, proposal, resolution, canon>>

(* ExtractionLeaseLost ends the pass and changes nothing.                     *)
LoseLease(w) ==
  /\ worker[w].pc \in {"claimed", "complete", "failing"}
  /\ ~ Leased(w)
  /\ worker' = [worker EXCEPT ![w] = IdleWorker]
  /\ UNCHANGED <<turn, job, proposal, resolution, canon>>

(* _claimed_work_snapshot: adopt the proposal an earlier epoch left behind,   *)
(* or read the text. A stale identity, an invalid or an ambiguous orphan, or  *)
(* a missing payload is an error.                                             *)
Snapshot(w) ==
  LET j == worker[w].job
      orphans == Bound(j)
      next(pc, out) == worker' = [worker EXCEPT ![w] = [@ EXCEPT !.pc = pc, !.out = out]]
  IN /\ worker[w].pc = "claimed"
     /\ Leased(w)
     /\ \/ /\ Fresh(j)
           /\ \E p \in orphans : orphans = {p} /\ Bindable(p, j) /\ next("complete", p)
        \/ /\ Fresh(j)
           /\ orphans = {}
           /\ job[j].payload
           /\ next("factory", None)
        \/ /\ \/ ~ Fresh(j)
              \/ orphans = {} /\ ~ job[j].payload
              \/ orphans # {} /\ ~ \E p \in orphans : orphans = {p} /\ Bindable(p, j)
           /\ next("failing", None)
     /\ UNCHANGED <<turn, job, proposal, resolution, canon>>

(* What a stored or new proposal means to the worker: a quarantined one is a  *)
(* failure, whatever its status has become since.                             *)
Outcome(p) == IF IsValid(p) THEN p ELSE "failed"

(* propose_plot_turn up to the remote call. A receipt with a result answers   *)
(* from what it stored; a stale receipt is marked failed.                     *)
StartFactory(w) ==
  LET j == worker[w].job
      t == TurnOf(j)
      done == turn[t].status \in {"proposed", "no_delta"}
      next(pc, out) == worker' = [worker EXCEPT ![w] = [@ EXCEPT !.pc = pc, !.out = out]]
  IN /\ worker[w].pc = "factory"
     /\ \/ /\ done
           /\ turn' = turn
           /\ next("complete",
                   IF turn[t].text # TextOf(j) THEN "failed"
                   ELSE IF turn[t].result \in Proposal THEN Outcome(turn[t].result)
                   ELSE turn[t].result)
        \/ /\ ~ done /\ Fresh(j)
           /\ turn' = turn
           /\ next("extracting", None)
        \/ /\ ~ done /\ ~ Fresh(j)
           /\ turn' = [turn EXCEPT ![t].status = "failed"]
           /\ next("complete", "failed")
     /\ UNCHANGED <<job, proposal, resolution, canon>>

(* The answer of the remote model, and the second look at the canon.          *)
Extract(w) ==
  LET j == worker[w].job IN
    /\ worker[w].pc = "extracting"
    /\ \E found \in Extraction :
         \/ /\ found # "failed" /\ Fresh(j)
            /\ worker' = [worker EXCEPT ![w] = [@ EXCEPT !.pc = "persist", !.found = found]]
            /\ turn' = turn
         \/ /\ found = "failed" \/ ~ Fresh(j)
            /\ worker' = [worker EXCEPT ![w] = [@ EXCEPT !.pc = "complete", !.out = "failed"]]
            /\ turn' = [turn EXCEPT ![TurnOf(j)].status = "failed"]
    /\ UNCHANGED <<job, proposal, resolution, canon>>

(* save_proposal under the idempotency key of the job: a replay answers with  *)
(* the first proposal, different content is a conflict, and a new proposal    *)
(* needs a receipt that is free for this text and still fresh.                *)
Replays(j, c) == {p \in Bound(j) : proposal[p].content = c}
MayCreate_NoKey(j) ==
  LifecycleBound => turn[TurnOf(j)].text \in {None, TextOf(j)} /\ Fresh(j)
MayCreate(j) ==
  /\ Bound(j) = {}
  /\ LifecycleBound => turn[TurnOf(j)].text \in {None, TextOf(j)} /\ Fresh(j)

(* The atomic_write transaction of propose_plot_turn. It is not fenced: a     *)
(* worker whose lease is gone still writes its proposal and the receipt.      *)
Persist(w) ==
  LET j == worker[w].job
      t == TurnOf(j)
      found == worker[w].found
      next(out) == worker' = [worker EXCEPT ![w] = [@ EXCEPT !.pc = "complete", !.out = out]]
      finish(status, result) ==
        turn' = [turn EXCEPT ![t] = [@ EXCEPT !.status = status, !.text = TextOf(j),
                                              !.result = result]]
  IN /\ worker[w].pc = "persist"
     /\ \/ /\ found = "no_delta"
           /\ finish("no_delta", "no_delta")
           /\ next("no_delta")
           /\ proposal' = proposal
        \/ \E p \in Replays(j, found) :
             /\ finish("proposed", p)
             /\ next(Outcome(p))
             /\ proposal' = proposal
        \/ /\ found \in Content
           /\ MayCreate(j)
           /\ \E p \in Proposal :
                /\ proposal[p].status = "absent"
                /\ proposal' = [proposal EXCEPT ![p] = [status |-> "proposed", job |-> j,
                                                        content |-> found]]
                /\ finish("proposed", p)
                /\ next(IF found \in Quarantined THEN "failed" ELSE p)
        \/ /\ found \in Content
           /\ Replays(j, found) = {}
           /\ ~ MayCreate(j)
           /\ turn' = [turn EXCEPT ![t].status = "failed"]
           /\ next("failed")
           /\ proposal' = proposal
     /\ UNCHANGED <<job, resolution, canon>>

(* succeed: fenced, fresh, and bound to a proposal that is still proposed.    *)
Succeed(w) ==
  LET j == worker[w].job
      out == worker[w].out
  IN /\ worker[w].pc = "complete"
     /\ Leased(w)
     /\ Fresh(j)
     /\ out = "no_delta" \/ (out \in Proposal /\ Bindable(out, j))
     /\ job' = [job EXCEPT ![j] = [@ EXCEPT !.status = "succeeded", !.owner = None,
                                            !.lease = "none", !.result = out,
                                            !.payload = FALSE]]
     /\ worker' = [worker EXCEPT ![w] = IdleWorker]
     /\ UNCHANGED <<turn, proposal, resolution, canon>>

(* A result succeed refuses sends the worker to fail, in a later transaction. *)
SucceedRefused(w) ==
  LET j == worker[w].job
      out == worker[w].out
  IN /\ worker[w].pc = "complete"
     /\ Leased(w)
     /\ out # "failed"
     /\ ~ (Fresh(j) /\ (out = "no_delta" \/ (out \in Proposal /\ Bindable(out, j))))
     /\ worker' = [worker EXCEPT ![w].pc = "failing"]
     /\ UNCHANGED <<turn, job, proposal, resolution, canon>>

(* A failure drops the text of the job.                                       *)
Fail_Purges(w) ==
  LET j == worker[w].job IN
    /\ \/ worker[w].pc = "failing"
       \/ worker[w].pc = "complete" /\ worker[w].out = "failed"
    /\ Leased(w)
    /\ job' = [job EXCEPT ![j] = [@ EXCEPT !.status = "failed", !.owner = None,
                                           !.lease = "none", !.payload = FALSE]]
    /\ worker' = [worker EXCEPT ![w] = IdleWorker]
    /\ UNCHANGED <<turn, proposal, resolution, canon>>

(* fail: fenced; the text stays for an explicit retry.                        *)
Fail(w) ==
  LET j == worker[w].job IN
    /\ \/ worker[w].pc = "failing"
       \/ worker[w].pc = "complete" /\ worker[w].out = "failed"
    /\ Leased(w)
    /\ job' = [job EXCEPT ![j] = [@ EXCEPT !.status = "failed", !.owner = None,
                                           !.lease = "none"]]
    /\ worker' = [worker EXCEPT ![w] = IdleWorker]
    /\ UNCHANGED <<turn, proposal, resolution, canon>>

(* The worker process dies and forgets everything. One that dies before it    *)
(* claims a job, or ends with its hundredth pass, leaves nothing in the       *)
(* store: to all others it is a worker that did not start.                    *)
Crash(w) ==
  /\ worker[w].pc \notin {"absent", "idle", "looking"}
  /\ worker[w].epoch < MaxEpoch
  /\ worker' = [worker EXCEPT ![w] = NoWorker]
  /\ UNCHANGED <<turn, job, proposal, resolution, canon>>

-----------------------------------------------------------------------------
(* The clock.                                                                 *)

LeaseExpires(j) ==
  /\ job[j].lease = "live"
  /\ job[j].epoch < MaxEpoch
  /\ job' = [job EXCEPT ![j].lease = "expired"]
  /\ UNCHANGED <<turn, proposal, resolution, worker, canon>>

RetryFallsDue(j) ==
  /\ job[j].due = "later"
  /\ job' = [job EXCEPT ![j].due = "due"]
  /\ UNCHANGED <<turn, proposal, resolution, worker, canon>>

-----------------------------------------------------------------------------
(* The operator and the reviewer.                                             *)

(* retry: a failed job goes back to the queue, now or later, in its epoch.    *)
Retry(j) ==
  /\ job[j].status = "failed"
  /\ job[j].payload
  /\ job[j].epoch < MaxEpoch
  /\ \E due \in {"now", "later"} :
       job' = [job EXCEPT ![j] = [@ EXCEPT !.status = "queued", !.due = due]]
  /\ UNCHANGED <<turn, proposal, resolution, worker, canon>>

Cancellable_Any(j) == job[j].status # "absent"
Cancellable(j) == job[j].status \in {"queued", "running", "failed"}

(* cancel: final, and the text goes.                                          *)
Cancel(j) ==
  /\ Cancellable(j)
  /\ job' = [job EXCEPT ![j] = [@ EXCEPT !.status = "cancelled", !.owner = None,
                                         !.lease = "none", !.due = "now",
                                         !.payload = FALSE]]
  /\ UNCHANGED <<turn, proposal, resolution, worker, canon>>

(* What may be resolved: a cancelled job, or one whose proposal was rejected  *)
(* or retracted.                                                              *)
Resolvable(j) ==
  \/ job[j].status = "cancelled"
  \/ /\ job[j].status = "succeeded"
     /\ \E p \in Proposal : /\ job[j].result = p
                            /\ proposal[p].status \in {"rejected", "retracted"}

(* resolve_barrier: one resolution for each job, and it stays. A rewrite      *)
(* names another job of the same sequence number.                             *)
Resolve(j, a) ==
  /\ Resolvable(j)
  /\ resolution[j] = None
  /\ a = "rewrite" => \E k \in Enqueued \ {j} : TurnOf(k) = TurnOf(j)
  /\ resolution' = [resolution EXCEPT ![j] = a]
  /\ UNCHANGED <<turn, job, proposal, worker, canon>>

(* The active revision moves on a decision about an authority artifact.       *)
CanonAfter(t) == IF t \in AuthorityTurn THEN canon + 1 ELSE canon

(* _validate_extraction_job_binding: the proposal is the one its job          *)
(* finalized. The mutant takes any proposal of a job that succeeded.          *)
Finalized_AnyResult(p) == job[proposal[p].job].status = "succeeded"
Finalized(p) ==
  /\ job[proposal[p].job].status = "succeeded"
  /\ job[proposal[p].job].result = p

(* accept_proposal with a grant: the proposal is the one its job finalized,   *)
(* its receipt still holds that text, and the canon has not moved.            *)
Accept(p) ==
  LET j == proposal[p].job IN
    /\ proposal[p].status = "proposed"
    /\ IsValid(p)
    /\ Fresh(j)
    /\ LifecycleBound => turn[TurnOf(j)].text = TextOf(j) /\ Finalized(p)
    /\ canon' = CanonAfter(TurnOf(j))
    /\ canon' <= MaxCanon
    /\ proposal' = [proposal EXCEPT ![p].status = "accepted"]
    /\ UNCHANGED <<turn, job, resolution, worker>>

Reject(p) ==
  /\ proposal[p].status = "proposed"
  /\ proposal' = [proposal EXCEPT ![p].status = "rejected"]
  /\ UNCHANGED <<turn, job, resolution, worker, canon>>

Retract(p) ==
  /\ proposal[p].status = "accepted"
  /\ canon' = CanonAfter(TurnOf(proposal[p].job))
  /\ canon' <= MaxCanon
  /\ proposal' = [proposal EXCEPT ![p].status = "retracted"]
  /\ UNCHANGED <<turn, job, resolution, worker>>

(* Another accepted decision, made outside this queue.                        *)
CanonMoves ==
  /\ canon < MaxCanon
  /\ canon' = canon + 1
  /\ UNCHANGED <<turn, job, proposal, resolution, worker>>

-----------------------------------------------------------------------------
WorkerStep(w) ==
  \/ Recover(w) \/ Exit(w) \/ LoseLease(w) \/ Snapshot(w) \/ StartFactory(w)
  \/ Extract(w) \/ Persist(w) \/ Succeed(w) \/ SucceedRefused(w) \/ Fail(w)

Next ==
  \/ \E t \in Turn : PassBarrier(t) \/ Prepare(t)
  \/ \E j \in Job : Enqueue(j) \/ LeaseExpires(j) \/ RetryFallsDue(j) \/ Retry(j)
                    \/ Cancel(j)
  \/ \E j \in Job, a \in Action : Resolve(j, a)
  \/ SessionRecover
  \/ \E w \in Worker, j \in Job : Claim(w, j)
  \/ \E w \in Worker : Spawn(w) \/ WorkerStep(w) \/ Crash(w)
  \/ \E p \in Proposal : Accept(p) \/ Reject(p) \/ Retract(p)
  \/ CanonMoves

Spec == Init /\ [][Next]_vars

(* A process that runs goes on with its pass and with the next one. A lease   *)
(* nobody renews runs out and a postponed retry falls due. Nothing is assumed *)
(* of the hooks, so of a worker that is not running, of the operator, of the  *)
(* reviewer or of crashes.                                                    *)
Fairness ==
  /\ \A w \in Worker : /\ WF_vars(WorkerStep(w))
                       /\ WF_vars(\E j \in Job : Claim(w, j))
  /\ \A j \in Job : WF_vars(LeaseExpires(j)) /\ WF_vars(RetryFallsDue(j))

FairSpec == Spec /\ Fairness

-----------------------------------------------------------------------------
(* Properties.                                                                *)

(* However many epochs worked on a job, fenced or not, at most one proposal   *)
(* carries its reverse binding: an orphan is never ambiguous.                 *)
OneProposalPerJob ==
  \A p, q \in Proposal :
    (proposal[p].status # "absent" /\ proposal[q].status # "absent"
       /\ proposal[p].job = proposal[q].job) => p = q

(* Only the proposal a job finalized ever enters the canon, so a proposal     *)
(* left by a cancelled, failed or superseded epoch cannot (receipts bound to  *)
(* an event-experience identity).                                             *)
CanonOnlyFromFinalized ==
  LifecycleBound =>
    \A p \in Proposal :
      proposal[p].status \in {"accepted", "retracted"} =>
        /\ job[proposal[p].job].status = "succeeded"
        /\ job[proposal[p].job].result = p

(* No two decisions on authority turns were extracted against the same canon  *)
(* revision, whatever their order of review.                                  *)
OneDecisionPerRevision ==
  \A p, q \in Proposal :
    LET tp == TurnOf(proposal[p].job)
        tq == TurnOf(proposal[q].job)
    IN  (/\ p # q
         /\ {tp, tq} \subseteq AuthorityTurn
         /\ {proposal[p].status, proposal[q].status} \subseteq {"accepted", "retracted"})
        => turn[tp].prepared # turn[tq].prepared

(* A job that can still run keeps its text: a crash, a failure or a lost      *)
(* lease never leaves a job that no retry can serve.                          *)
TextSurvives ==
  \A j \in Job : job[j].status \in {"queued", "running", "failed"} => job[j].payload

(* A resolution closes a barrier for good: the job behind it never runs, and  *)
(* its proposal never comes back to review or into the canon.                 *)
ResolvedStaysClosed ==
  \A j \in Job :
    resolution[j] # None =>
      \/ job[j].status = "cancelled"
      \/ \E p \in Proposal : /\ job[j].result = p
                              /\ proposal[p].status \in {"rejected", "retracted"}

(* A pass fenced out by a newer epoch, a recovery or a cancellation leaves    *)
(* the row of its job alone.                                                  *)
FencedCompletion ==
  [][\A w \in Worker :
       (/\ worker[w].pc \in {"complete", "failing"}
        /\ worker'[w].pc = "idle"
        /\ LET row == job[worker[w].job] IN
             ~ /\ row.status = "running" /\ row.lease = "live"
               /\ row.owner = w /\ row.epoch = worker[w].epoch)
       => job' = job]_vars

(* The user keeps opening sessions: a SessionStart recovers what is left      *)
(* running, and starts a worker that comes up while a job stays queued and    *)
(* none runs. The code does neither by itself.                                *)
SessionsGoOn == WF_vars(SessionRecover) /\ WF_vars(\E w \in Worker : Spawn(w))

(* As long as sessions go on, every job that is queued or running ends: it    *)
(* succeeds, fails for an operator to retry, or is cancelled, through lost    *)
(* leases, crashes, postponed retries and workers that found nothing due.     *)
EveryJobSettles ==
  SessionsGoOn =>
    \A j \in Job :
      job[j].status \in {"queued", "running"}
        ~> job[j].status \in {"succeeded", "failed", "cancelled"}

-----------------------------------------------------------------------------
(* Refinement: what the rows of a job say of its outcome.                     *)
OutcomeOf(j) ==
  LET row == job[j] IN
    IF row.status = "absent" THEN "none"
    ELSE IF row.status = "cancelled" THEN "cancelled"
    ELSE IF row.status # "succeeded" THEN "open"
    ELSE IF row.result = "no_delta" THEN "no_delta"
    ELSE IF proposal[row.result].status = "proposed" THEN "review"
    ELSE proposal[row.result].status

Promise == INSTANCE ExtractionOutcome WITH outcome <- [j \in Job |-> OutcomeOf(j)]

(* The queue implements the abstract life of an outcome: no recovery, retry,  *)
(* adoption or late worker records a second outcome or reopens a decided one. *)
OutcomeRefinement == Promise!Spec

=============================================================================
