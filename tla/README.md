# Verification of plot-rag-gate

TLA+ models of the plot-rag-gate plugin: a continuity gate for long-form fiction
that turns every plot turn into a reviewed, versioned decision about the story's
canon. The modules describe its concurrent and transactional core; TLC checks them
on small instances and TLAPS proves the main results for every instance.

## 1. Inventory

### 1.1 The system

A host application runs **hooks** (one process each) and an **MCP server**. Hooks
spawn **extraction workers** (one process each). All of them share one SQLite
database, `state.db`, through `BEGIN IMMEDIATE` transactions
(`scripts/continuity/store.py`), two smaller databases of the interviews
(`scripts/grill_gate.py`, `scripts/plot_init/storage.py`), and a few JSON files in
`.plot-rag/`. A user, or the host on the user's behalf, decides what becomes canon.

| Component | Source | State it keeps | Operations | Module |
| --- | --- | --- | --- | --- |
| Hook gate | `hooks/plot_progression_gate.py` | `session-close-pending.json`, worker status files | `UserPromptSubmit`, `Stop`, `SessionStart`, `SessionEnd` | in `ExtractionQueue`, `GrillGate` |
| Turn runtime | `scripts/v1_runtime.py`, `scripts/state_rag.py` | `turns` (Prepare receipts) | `prepare_plot_turn`, `propose_plot_turn`, `commit_plot_turn` | in `ExtractionQueue` |
| Extraction queue | `scripts/extraction_jobs.py` | `extraction_jobs`, durable payloads, `extraction_barrier_resolutions` | `enqueue`, `claim`, `heartbeat`, `succeed`, `fail`, `retry`, `cancel`, `recover_stale_running`, `resolve_barrier`, `barrier_status`, `run_once` | `ExtractionQueue` |
| Canon lifecycle | `scripts/continuity/service.py` | `proposals`, `approval_grants`, `canon_commits`, `continuity_events`, `event_links`, `artifacts` | `save_proposal`, `reject_proposal`, `issue`, `accept_proposal`, `retract_proposal` | `CanonLifecycle` |
| Replay | `scripts/continuity/replay.py` | the projection tables | `rebuild`, ledger integrity checks | in `CanonLifecycle` |
| Materialization | `scripts/continuity/service.py`, `scripts/plot_init/lifecycle_adapter.py` | `materialization_runs`, `_files`, `_journal`, `_activation_claims`, staged files | `stage_materialization`, `activate_materialization`, recovery | `Materialization` |
| Event experience | `scripts/event_experience.py`, `scripts/event_experience_runtime.py` | seeds, contracts, arcs, questions, stored answers of calls | lock, supersede, retire, propose, select, `ensure_locked_manifest` | `EventExperience` |
| Remote calls | `scripts/state_rag.py` (1017-1250, 2100-2235) | connection pool, retry state per origin | `_remote_json`, probe of a throttled origin | `RemoteCalls` |
| Long form | `scripts/longform/` | authority index, memory, projections; caches and flights of queries | `search_many`, `refresh` | `SearchFlights` |
| Grill gate | `scripts/grill_gate.py` | interviews, answers of turns | evaluate, hand off, resume, complete, cancel, expire | `GrillGate` |
| Plot initialization | `scripts/plot_init/`, `scripts/v1_runtime.py` (10670-11960) | init sessions, frozen proposals, completion receipt | start, advance, answer, propose, cancel, complete; register, approve, apply, verify | `InitSaga` |
| Source manifest | `scripts/continuity/source_manifest.py` | manifest rows, scan generations | scan, supersede | |
| Items, advantages | `scripts/continuity/items.py`, `advantages.py` | quantities, custody, charges | event application in replay | |
| Power system | `scripts/power_system/`, `scripts/continuity/power_spec.py` | power specifications | bootstrap, validate, adapt | |
| Schema store | `scripts/continuity/store.py`, `schema.py` | schema version, backups | migrate, transaction | |
| Readable projections, command line and MCP, release gate, benchmarks | `scripts/`, `benchmarks/` | reports, text | | |

How they interact. `UserPromptSubmit` first looks at the interview of the host
session (Grill), then at the queue's barrier, makes sure the event experience of the
turn is locked, and has the runtime write a Prepare receipt pinned to the active canon
revision. `Stop` submits the produced text as a job and completes the interview. A
worker claims the job, calls the remote extraction model without holding a
transaction, writes a proposal through `save_proposal`, and finishes the job. A review
decides the proposal with a single-use grant; an accept appends a commit, moves the
canon revision and rebuilds the projections in the same transaction. The next prompt is
let through when the queue has no outstanding job. A project begins with an
initialization: an interview is frozen as a proposal, accepted like any other, its
files are materialized and the interview is completed with the commit.

### 1.2 What is hard

* Interleaving: hooks, workers, reviewers and initialization calls are separate
  processes; each reads, computes or calls a model, and writes in a later transaction.
* Leases: a worker that is only slow is treated as dead, so two epochs of a job run
  together and both write.
* Compare and swap: on the canon revision (prepare, extract, grant, accept), on the
  control revision of the event experience, on the revisions of both interviews.
* Repeated calls: idempotency keys answer with what was true at the first time.
* Crashes between the transactions of a pass, and between files and database.
* Sharing inside a process: threads wait for futures, for a permit, for a probe.
* Decisions that must be final: a resolved barrier, a rejected proposal, a consumed
  grant, a receipt handed over, a completed initialization.

`PROJECT.json` lists each hazard at its line with the properties that watch it.

## 2. Plan

| Module | State of the work |
| --- | --- |
| `ExtractionQueue`, abstract `ExtractionOutcome` | checked and proved (section 3) |
| `CanonLifecycle`, abstract `CanonOutcome` | checked and proved (section 4) |
| `Materialization` | checked and proved (section 5) |
| `RemoteCalls` | checked and proved (section 6) |
| `SearchFlights` | checked and proved (section 7) |
| `EventExperience` | checked and proved (section 8) |
| `GrillGate` | checked and proved (section 9) |
| `InitSaga` | checked and proved (section 10) |
| `SessionGate` | the session-close file between `SessionEnd`, `Stop` and the workers |
| `SourceManifest` | plans against the active manifest, their retraction |
| `ItemLedger` | conservation of quantities when events are applied in replay order |
| `Migration` | schema steps, backups, a crash between them |

The modules are not composed with each other as wholes: each one contains, as actions
of its own, what the others do to the state it is about (`ExtractionQueue` the review of
its proposals, `InitSaga` the commits of other work and one step per materialization).
Each has one run that asks all its questions of one instance; a run that expects a
violation shows a statement of the repository that its code does not keep. Where a
theorem holds for every instance and the run would show the same on a small one, only
the theorem is kept: `QueueResolvedStaysClosed`, `QueueOneDecisionPerRevision`,
`CanonOneCommitPerGrant`, `CanonPlanesApart`, `CanonSupersedesUncorrected`,
`ExperienceRecordsStay`, and
`TypeOK` of every module. Every safety property a passing run checks, invariant or action
property, is also a theorem; only liveness is left to TLC alone.

| Run | Question |
| --- | --- |
| `queue_safety` | may two epochs of one job leave two proposals, lose the text, write a row they no longer own, record two outcomes, bring back a resolved job, or bring an unfinalized proposal into the canon? does every job settle? |
| `canon_ledger` | do the links in force deactivate what the replay deactivates; does a retraction restore what its accept displaced; does an accept replace what counted; is a decision final and confined to its stage; is an accept ever committed on a revision its delta was not written against; does a replay never refuse? |
| `mat_safety` | is there ever a second activator; is content nobody approved overwritten; are the old bytes lost; is a report false; is a completed run incomplete? |
| `remote_calls` | is there one probe at a time; does a waiter miss its wakeup; is a delay shortened, a permit or a connection lost; does every call return? |
| `search_flights` | is what somebody waits for being completed; is a query embedded twice; does a search return less than the index it began with; does every search end? |
| `experience_safety` | do seeds and contracts agree; is there one revision per outline; is a manifest true as long as its binding revision; is it of one piece; do retries finish a turn that is alone? |
| `grill_gate` | is anything prepared before its answer; is a contract completed whose turn left no text; does a receipt that was handed over stay? |
| `init_saga` | does an answer outlive what it was given under; is an initialization in force twice; is a project ready that is not complete; does a repeated apply get there? |
| `canon_revival`, `mat_half_activated`, `experience_retry`, `grill_trap` | four claims the code does not keep (4.3, 5.3, 8.4, 9.4) |

## 3. The extraction queue

`ExtractionQueue.tla` models strict asynchronous mode on one branch.

### 3.1 State

| Variable | Code |
| --- | --- |
| `turn[t]` | a row of `turns`: lifecycle status, rowid (`seq`), the canon revision it was prepared against, `assistant_hash` (`text`) and stored result. `"admitted"` is a prompt that passed the barrier and has no receipt yet. |
| `job[j]` | a row of `extraction_jobs` for the idempotency key receipt x text, with `attempt_count` as the fencing `epoch`, and whether its durable payload (the text) exists |
| `proposal[p]` | a row of `proposals` with its reverse binding to the job |
| `resolution[j]` | a row of `extraction_barrier_resolutions` |
| `worker[w]` | the memory of a worker process: where its pass is, the job and the epoch it claimed, what it extracted |
| `canon` | `active_canon_revision` |

One transaction is one action. A process is `"absent"` until `Spawn`: a `Stop` whose
text is in a job and a `SessionStart` that lists a queued one try to start it, and it may
not come up. A pass is the sequence `Recover`, `Claim`, `Snapshot`, `StartFactory`,
`Extract`, `Persist`, `Succeed` or `Fail`, with `LoseLease` and `Crash` between any two
of the last; everything else interleaves. A pass that finds nothing due is idle, and the
process exits (`Exit`). The end of a process after its hundredth pass, or its death
before it claims, leaves nothing in the store; it is a process that was not started. `StartFactory`,
`Extract` and `Persist` are `propose_plot_turn`, which the lease does not fence.

Time is reduced to what the code asks of it. A lease is live until `LeaseExpires`; a
heartbeat renews a live lease and leaves the state as it is. A retry with a date is
`"later"` until `RetryFallsDue`.

`Content` stands for the event lists an extraction may return for one text, so two
epochs of one job can disagree; `Quarantined` are those local validation objects to.
`LifecycleBound = FALSE` is a project whose receipts carry no event-experience
identity: there `save_proposal` skips the receipt binding and `accept_proposal` skips
the job binding, as the code does.

### 3.2 The run

`queue_safety`: 1 turn, 1 text, 2 workers, 2 contents (1 quarantined), 3 epochs, canon
revisions up to 2, with fairness; about 310,000 states.

Bounds. `MaxEpoch` bounds `attempt_count` from above only for what goes wrong:
leases expire, workers crash and operators retry while the epoch is below it, so the
last epoch runs undisturbed. Three epochs give an orphan proposal, its adoption, and
a late worker of each earlier epoch. Two workers are enough for two concurrent
passes; a third would only repeat the role of the first. `MaxCanon` of 2 gives
"not moved", "moved" and "moved again". Several turns, several texts of one receipt, and
projects without lifecycle identity (`LifecycleBound = FALSE`) are covered by the
theorems, which hold for any values.

Deadlock checking is off: with every turn decided and every epoch used nothing is
left to do.

Fairness. A worker process that runs goes on with its pass and looks for the next job, a
lease nobody renews expires, a postponed job falls due. No fairness is assumed of hooks,
so of starting a worker, of operators, reviewers or crashes. That is not enough for a job
to end: a worker exits when nothing is due, and nothing in the code starts one when a
postponed retry falls due or the lease of a dead worker runs out. `EveryJobSettles`
therefore has a hypothesis, `SessionsGoOn`: while there is something to recover a
`SessionStart` comes, and while a job is queued and no worker runs one is started and
comes up. Without either half of it TLC finds a job that stays queued or running for
ever. What the property then says is that nothing else is needed: no order of crashes,
late workers, lost leases and postponed retries leaves a job that the next sessions do
not finish.

### 3.3 Known deviations

Met while modelling, without a run:

* The hook bounds its barrier by the sequence number of the job created last
  (`hooks/plot_progression_gate.py:2134`). When Stop hooks run in the opposite order of
  the receipts, that job has the lower number, and once it is done an outstanding job of
  the later turn no longer blocks, although `SKILL.md:96` wants every earlier one
  settled. That hazard is listed without a property.
* A retry that was postponed, and a job whose worker died, wait for the next `Stop` or
  `SessionStart` (`hooks/plot_progression_gate.py:4352`, `:4584`); see fairness above.
* A worker that lost its lease saves a proposal while the next epoch finishes the job
  with no_delta. The proposal awaits review and the barrier is open (`SKILL.md:734`). It
  cannot enter the canon (`CanonOnlyFromFinalized`).

### 3.4 Proofs

`ExtractionQueueProofs.tla` proves, for any finite sets of turns and texts, any
workers, proposals and contents and any bounds, from `QueueAssumption` alone:
`TypeOK`, `TextSurvives`, `OneProposalPerJob`, `CanonOnlyFromFinalized`,
`ResolvedStaysClosed`, `OneDecisionPerRevision`, `FencedCompletion` and
`OutcomeRefinement`.

The argument. `JobSteps` and `ProposalSteps` say what any step can do to one job and
one proposal: five kinds of job moves, two of proposal moves. `TextSurvives`,
`OneProposalPerJob` and `CanonOnlyFromFinalized` are inductive over these moves given
`TypeOK`. `ResolvedStaysClosed` and the refinement need `ResultBound`: a recorded
result names a proposal of that job, and only a job that succeeded has one.
`OneDecisionPerRevision` needs two strengthenings: `OnlyReceived` (jobs, busy workers
and proposals exist only for turns whose receipt is written, so `prepared` is fixed by
then) and `DecidedEarlier` (a decided authority proposal was prepared against a
revision below the present one).

`ResolvedStaysClosed` and `OneDecisionPerRevision` are theorems only: no run lists
them. Liveness (`EveryJobSettles`) is only model-checked: fairness and ENABLED are out of
the prover's reach.

### 3.5 Abstractions

Texts, hashes, remote answers and validation reports are model values. One branch.
`recover_stale_running` takes up to 100 rows a call: the model recovers all of them.
Shadow mode, which rejects its proposal in the same transaction, and the review of
experience contracts after a success are left out.

## 4. The canon lifecycle

`CanonLifecycle.tla` models proposals, grants and the ledger of one branch, with the
part of the replay that decides which accepted events count.

### 4.1 State and actions

| Variable | Code |
| --- | --- |
| `proposal[v]` | a row of `proposals` joined with its row of `artifacts`; `v` is the pair artifact and revision, unique in the table. Each proposal carries one event, so `v` names the event too. `fixes` is the event its delta explicitly supersedes. |
| `grant[g]` | a row of `approval_grants` |
| `ledger` | the rows of `canon_commits` in order, with their `event_links`, explicit and automatic apart |
| `canon` | `active_canon_revision` |

`Save`, `Reject`, `Issue`, `Accept`, `Retract` are the five transactions; `Expire` is the
clock. `Accept` and `Retract` end, as in the code, in a replay whose integrity check
(`Replayable`) may refuse and roll everything back. The check has its own derivation
of the automatic links (`ExpectedLinks`, from the history before the commit alone),
the service another (`Superseded`, from the statuses of today); that they agree is
`ReplayNeverRefuses`.

Stage `"final"` stands for the stages that move the canon of the main branch,
`"draft"` for those that go to the provisional facts. `prepared` is the canon revision
the caller of `save_proposal` says the delta was prepared against: `Named` are the ones
callers may name, out of date or not, for nothing checks them, and a caller that names
none gets the active one. A save of content already proposed, and an accept repeated with its
consumed grant, return the earlier row and write nothing: they are stutters.
What a replay may refuse because of the content of an event (an item count below zero)
is not modelled; it too leaves the state as it was.

### 4.2 Runs

| Run | Instance |
| --- | --- |
| `canon_ledger` | 1 artifact, 3 revisions, 4 commits, 2 grants open at once, both stages, explicit links, revisions in any order, deltas prepared against the active revision or against revision 0; 1,004,000 states |
| `canon_revival` | 1 artifact, 3 revisions, 3 commits, finals in order |

Bounds. `MaxHead` is the number of commits and `MaxRevision` the highest revision:
three revisions and four commits give a revision below, a revision above and a
correction, with one retraction at any place. `MaxOpen` of 2 gives the race of two
grants. `ExplicitLinks` and `FreeRevision` switch off what a run does not need. Deadlock
checking is off: with the grants used nothing is left to do. Grants and artifacts are
symmetric.

### 4.3 A claim the code does not keep, and known deviations

* `canon_revival`: revision 2 explicitly corrects the event of revision 1; revision 3
  replaces revision 2. The correction stops counting with its own event, and no
  automatic link was written for revision 1, so the event of revision 1 counts again.

Without a run:

* Accept 1, 2, 3 and retract 2: revision 1 gets `active` back next to revision 3
  (`scripts/continuity/service.py:6285`, against `CHANGELOG.md:181`).
* `save_proposal` takes any `prepared_canon_revision` (`service.py:2056`, `:2180`), so a
  delta may name a revision that is still to come, and be accepted when the canon gets
  there. `NoLostDecision` is about the revision a delta names. The callers in the
  repository name the one of a receipt (`v1_runtime.py:8297`), which is never ahead.
* An accepted draft above a final revision takes `active` from it
  (`service.py:6193`), so the final one leaves the list that derived memory is rebuilt
  from (`SKILL.md:109`, `README.md:287`).

The first and the last of these, and the claim above, were also reproduced with the
service itself.

### 4.4 Proofs

`CanonLifecycleProofs.tla` proves for any artifacts, grants and bounds every property of
`canon_ledger`, and `OneCommitPerGrant`, `PlanesApart` and `CanonSupersedesUncorrected`. The inductive
invariant is `TypeOK`, `Replayable(proposal, ledger, canon)`, `GrantsBind` (what a grant
in use or consumed was issued for), `NoLostDecision` and `OneCommitPerGrant`.

* `ReplayNeverRefuses`: the links of the service are those of the validator, because both
  visit the same history and the statuses of today agree with the ones the ledger gives,
  the ledger being `Replayable`. What the visit computes does not matter for this.
* The other properties are about what it computes. `Visited` is a recursive function of
  the number of visited commits; `VisitedSteps` shows that the function exists, and
  inductions over that number (`UpTo`) relate it to the visit of another ledger: one
  commit longer (`OtherPlane`, `ExplicitAdds`), two commits longer
  (`RetractionUndoes`).
* `ReplayDeactivatesExactly`: what is inactive is the union of what each commit adds when
  its turn comes (`VisitedAdds`). Links point back (`LinksPointBack`), so no commit
  visited later names the event of an accept visited before; hence whether that event is
  inactive so far is whether it is inactive in the end, and order does not matter.
* `PlanesApart`: a stage has a plane of its own (`CountingIsLive`), and no commit of one
  plane adds to the other.
* `AcceptReplacesCounted` holds because what an explicit link to an event that corrects
  nothing adds is that event alone. The proof found the exception in its statement: let B
  correct A2, which corrected A1; an accept of A3 that corrects B revives A2, finds A1
  inactive for that reason, replaces A2, and A1 counts again. TLC confirms it with two
  artifacts and four commits; the instance of `canon_ledger` is too small to show it.
* `CanonSupersedesUncorrected` is the other side of `canon_revival`: without explicit links
  an accept does leave no older revision counting, so only these break the comment.
* `CanonImplementsOutcome`: `CanonOutcome.tla` is what a reader of the canon is promised,
  without grants, commits, links and replays; its variables are the rows (`Deltas`), the
  events that count in each stage (`Counts`) and the canon revision. A delta is proposed
  once, for whatever revision it names, decided once and perhaps retracted; it is accepted
  only on the revision it names; only finals move the canon; what counts is accepted and of its stage, and a decision
  leaves the other stage alone. After an accept its event counts, the event it corrects
  does not, and no older one that counted does (with the exception above). Where nothing
  was ever corrected, what counts after an accept is exactly its event and what counted
  minus the older revisions, and a retraction takes out nothing else. The proof needs that
  a replayable ledger counts its newest accept (`NewestLives`), that what counts is
  accepted (`CountedAccepted`), that the canon is never ahead of the ledger
  (`CanonBehindHead`), and that without explicit links the visit is a plain union
  (`UncorrectedInactive`).

## 5. Materialization

`Materialization.tla` models the writing of an accepted initialization's files for one
commit: `stage_materialization`, then `activate_materialization`, called by several
processes, while the user edits the targets.

### 5.1 State and actions

| Variable | Code |
| --- | --- |
| `run`, `file`, `claim`, `manifest` | `materialization_runs.run_status`, `materialization_files.file_status`, the owner in `materialization_activation_claims`, and the files whose `accepted_source_manifest` row is active |
| `target[f]`, `backup[f]` | the file at the target path and its copy below `.plot-rag/backups/materialize` |
| `worker[w]` | the local variables of a call: `prepared`, `applied`, `rollback_states`, and where it is |
| `aux_writer[f]` | who wrote the present content of the target: a history variable for the properties |

The database changes in transactions, the disk one file at a time, so a call is the
sequence `Begin`, `StageFiles`, `StageRecord`, `Claim`, `Preflight`, `Backup` and
`Copy` for each file, `Replace` and `Checkpoint` for each file, `Finish`; a failure goes
to `Undo` for each applied file and `Report`. `Fault` is any exception before the
rollback, `Interrupt` a call cut short without one (a `BaseException`, or a report that
fails; the `finally` clause releases the claim, or fails to), `Crash` the death of the
process, after which its claim is that of a `Dead` owner the next call may take over.
`Edit` is the user.

Left out: path and reparse-point checks, the journal, and swap copies and staged files,
which the code verifies by hash before it uses them. The hash comparison before
`os.replace` is one step with it: what the user writes in between is unseen by the code
too. A claim of another host is never dead to the code, and so never taken over. The
order of the rollback does not matter to any property.

### 5.2 Runs

`mat_safety`: 2 processes, one replaced and one created file. `mat_half_activated`: the
same plan and 1 process.

Bounds. Two processes, because a third would only find the same claim; a process that
crashed comes back as a new one of the same name. One replaced and one created file,
in path order, are the two kinds of change and give a "before" and an "after". No
counter needs a bound. Deadlock checking is off: a completed run is final.
There is no fairness and no liveness run: nothing in the code retries by itself, and a
claim whose release fails is kept until its process ends.

### 5.3 A claim the code does not keep

* `mat_half_activated`: a call is interrupted after its first file and releases the claim
  (or its owner dies). The retry fails in its preflight, before it has counted that file
  among those applied; it undoes nothing, the run becomes `failed` with no file
  `rollback_failed`, and the message says the activation was rolled back. The next apply
  stages again and is refused, for the file already has its new content. Reproduced with
  the service itself.

Known gaps that break none of the properties, both in the model: a torn backup
left by a crash blocks every later activation (`BACKUP_HASH_MISMATCH`), and a
`StageRecord` that comes late reopens a completed run (`service.py:10331`). A manifest row
activated by a call that then stopped stays active when a later call restarts the run
(`service.py:11376`).

### 5.4 Proofs

`MaterializationProofs.tla` proves for any processes, any number of files and any
plan: `TypeOK`, `OneActivator`, `OldBytesKept`, `CompletedTogether`,
`NothingForeignLost`, `ReportIsTrue`. From `OneActivator` no other call disturbs what
the activator relies on, so the invariant adds what each phase of a call knows
(`PhaseOK`: which files are backed up, in place, or undone already, up to the user's
edits), that a run somebody works on is neither completed nor failed (`RunOK`), and that
what the activation wrote last is the approved content (`NewIsWritten`). There is one
lemma per action; `InsideStep`, `QuitStep` and `OutsideStep` carry the part that
concerns the other calls.

## 6. Remote calls

`RemoteCalls.tla` models the threads of one process that call one remote service:
`_remote_json` with the connection pool and the retry coordinator it shares.

### 6.1 State and actions

| Variable | Code |
| --- | --- |
| `state` | the `_RemoteRetryState` of the service in `_states`: generation, cooldown, owner of the probe, count of waiters; `Absent` when none is kept |
| `permits`, `idle` | the semaphore in `_limits` and the number of connections in `_idle` |
| `call[c]` | the local variables of `_remote_json`: attempt, deadline, lease, connection |
| `aux_quiet` | how long the service asked to be left alone: a history variable |

A step is what a thread does between two points where it gives up a lock or waits.
Times are timers that `Tick` counts down. The answer of the service is any of final,
throttled with a delay, failed.

Left out: `close_all` and `clear_all` at exit, the interrupt of a thread, several services
(they share nothing but locks), and a socket operation that overruns the deadline.

### 6.2 The run

`remote_calls`: 2 threads, 1 connection, 3 attempts, a timeout of 3, delays 0 and 2.

Two threads give an owner of the probe and a waiter, or a holder and a taker of the only
permit. A delay of 2 within a timeout of 3 can be waited for once and not twice.
`MaxGeneration` bounds how often the service throttles between two quiet times: with 2 a
probe that began before the last answer meets it. Fairness: threads are scheduled,
sockets time out and clocks run; nothing makes anyone call.

### 6.3 Proofs

`RemoteCallsProofs.tla` proves for any finite set of threads, any limit, delays and
attempts: `TypeOK`, `LeaseIsOwned`, `OneQueue`, `NoLostWakeup`, `DelayIsKept`,
`WithinLimit`. The invariant says that the retry state agrees with the local variables of
the threads (`StateOK`: the count of waiters is the number of calls that wait, the owner
holds the lease, whoever may probe is awake, the cooldown covers `aux_quiet`), that
without a state nobody waits or holds a lease, what a thread holds at each point
(`Sane`), and that permits and connections add up (`PoolOK`). Counting threads is done
with the cardinality theorems of the library. `EveryCallReturns` is only model-checked.

## 7. Shared searches

`SearchFlights.tla` models threads inside `search_many` of the authority index: the two
tables of futures through which they share whole searches and query embeddings, the
caches behind them, and `refresh`, which replaces the index under the searches that run.

### 7.1 State and actions

`index` is the content, by its digest, and whether its chunks have vectors; `candidates`
and `vectors` are the caches; `searchFlights` and `embedFlights` the keys of the tables
of futures; `call[c]` the local variables of `search_many`: what it leads, what it
follows, what it still has to look up, embed or wait for. A step is one critical section,
one statement or transaction on the index, or one provider call. In particular the write
of a result to the cache is not one transaction: `_write_candidate_cache` reads the digest
and compares (`Check`), in autocommit, and the `INSERT` follows in a transaction of its own
(`Insert`), so a refresh may commit in between and the row appears in a cache that was just
emptied. Likewise `_read_candidate_cache` reads the digest and the rows in two statements: a
row may be missed that was there when the digest was read. A provider call may fail, and a
thread may be interrupted anywhere inside the `try` block, whose handler completes what
it leads with the error.

Left out: sharing of reranks, which follows the same pattern; projects that disable
sharing; eviction from the caches; the disk cache of `scripts/plot_init/remote_cache.py`.
Contents of the index are never the same twice: if files were edited and put back while
one search runs, the check would find the digest it expects although the ranking saw the
content in between, and its result would be filed under the wrong content. This deviation
of the code has no run.

### 7.2 The run

`search_flights`: 2 threads, 2 requests with a query of their own, calls of both,
2 contents, the first of them indexed without vectors; about 526,000 states.

Two threads and two requests are what it takes to wait for each other: each leads one
and follows the other. Fairness: threads are scheduled and providers answer or fail.
Deadlock is checked: a search can always begin. A known deviation without a run: after a
refresh that only added vectors, a search that began before may leave a lexical result
under the key of the content (`scripts/longform/authority.py:1521`, against the comment
at 939); `CandidatesMatchTheirKey` speaks of the content only. It does not say that the
cache holds only rows of the present content, which the split of check and insert makes
false: a late row stays, but a reader asks for rows of the digest it has just read, and
finds none of another content. `EverySearchEnds` is `[]<>` of being idle, the same as
leading from busy to idle, in a form TLC checks in half the time.

### 7.3 Proofs

`SearchFlightsProofs.tla` proves for any threads, requests, queries and contents: `TypeOK`,
`EveryFlightIsLed`, `EmbeddedOnce`, `CandidatesMatchTheirKey`, `NeverOlder`. The invariant
says what a thread holds at each place of `search_many` (`AllTidy`), that a key of the table
of searches is there exactly while one thread leads it under the content it read
(`SearchTable`, `OneLeader`), the same of embeddings (`EmbedTable`), that nothing a
thread read or found is newer than the index, and that a result found fit for the cache is
of the content it was asked of (`AllTimely`): it is no older than the digest it was asked
under and no newer than the index, and at the check these were equal. That stays true
until the insert, whatever the index does, and is all `CandidatesMatchTheirKey` needs. A
completion writes to every thread that waits: `CompleteSearchKeeps` and
`CompleteEmbeddingKeeps` carry the invariant over that, and each action is a thread's own
change (`LocalIInv`) or one of these.
`NeverOlder` needs that a thread stops leading a search only by completing it (`LeadsEnd`).
`EverySearchEnds` is only model-checked.

## 8. Event experience

`EventExperience.tla` models the control rows of one chain of events and
`ensure_locked_manifest`, the gate that fills them before a plot turn.

### 8.1 State and actions

| Variable | Code |
| --- | --- |
| `control`, `binding` | the two revisions in `event_experience_meta` |
| `seed`, `contract`, `arc`, `question` | the rows, by event, revision and place in the lineage |
| `stored[r]` | the answers in `event_experience_idempotency` that request `r` may ask for again |
| `gate[r]` | the local variables of `ensure_locked_manifest` |
| `token[r]` | the manifest and the binding revision it handed to the turn |

Every call of the service is one transaction that compares and advances the control
revision. The gate is a sequence of such calls: `Preflight`, `SaveSeed` for each event,
`SaveArc`, `ReadQuestion`, `OpenQuestion` or `SelectArc`, `ReadControl`, `LockNextContract`
for each event, `LockArc`, `IssueManifest`. A call that is refused ends the attempt, and
the turn is submitted again with the same keys. Between any two come the user's answer,
cancel or expiry of the question, another request's gate, a commit elsewhere
(`Elsewhere`), a direct call of the service (`Direct`, `RetireArc`) and the death of the
process.

Assumptions, each named at its place in the module: one chain and one artifact revision
per outline, so that the source version of a seed is the outline revision; the key of a
request is its identity; `Preflight` merges reads that all check one control revision;
reviews appear as what they do to the revisions; a call that only follows on another is
not counted against `MaxOutside`.

### 8.2 The run

`experience_safety`: 2 events, 2 requests, the second from a later outline, the first with
a question; 1 call outside the gate, 1 crash; about 320,000 states.

Two events are a "before" and an "after" in every loop. Two requests of two outlines give
supersession in the middle of the other's sequence. `MaxOutside` and `MaxCrash` of 1 put
one disturbance at any place. `MaxArc` of 4 is enough for both requests to create,
supersede and select; `MaxLineage` of 2 for one re-proposal.

Fairness: a call of the gate goes on and a blocked turn is submitted again
(`WF_vars(Attempt(r))`); nothing makes prompts, answers or other calls come.
That the turn is submitted again *with the same key* is an assumption about the host:
nothing in the code schedules it, and a new turn has a new key, for which the gate begins
anew. So `ResumesAlone` says that whatever step a process died in leaves nothing behind
that stops the same request, not that somebody sends it. It asks for a turn that is alone;
with company the code does not keep it:

### 8.3 What `BindingRevisionSuffices` is for

A turn validates its manifest again later: it compares the binding revision and the
manifest's hash (`scripts/event_experience.py:3740`), and reads the contracts and the arc
anew (`scripts/event_experience_runtime.py:1814`). Answers, cancels and expiries
(`event_experience.py:5341`) advance the control revision but not the binding revision. The
property says that while the binding revision stands the seeds and contracts read anew are
those the manifest names, so that such a call of somebody else does not make the second
comparison refuse what the first lets pass. Of the arc the model says what `TokenIsWhole`
says: it may be retired, and the turn is then refused.

### 8.4 A claim the code does not keep

* `experience_retry`: another session commits between the two contracts of a turn. Every
  retry gets the stored answer of the first contract, with the control revision of that
  time, and is refused as stale for the second, for ever.

### 8.5 Proofs

`EventExperienceProofs.tla` proves for any events, requests, outlines and bounds: `TypeOK`,
`SeedHoldsItsContract`, `OneRevisionPerSource`, `BindingRevisionSuffices`, `TokenIsWhole`
and the action property `RecordsStay`.

The gate works on copies of what it read many transactions ago, so the invariant must say
what of a copy is still true. `RowsGoOn` is what any step of any actor may do to the rows:
they only grow (`SeedsGrow`, `ArcsGrow`: a seed keeps its source, an arc its seeds and
trajectory, neither comes back once retired), and a step that leaves the binding revision
alone leaves bound seeds alone (`BoundStay`). What a gate knows (`KnowsSeeds`, `KnowsArc`)
is stable under growth; what is not (`IsFresh`) is only claimed while the control revision
is the one it read, which the next call compares. Stored answers are of the stable kind,
which is why a repeated call may trust them (`Recalls`). The core of `TokenIsWhole` is
`Tied`: the arc binds the seeds of the request, or one of these is retired; when the
manifest is issued its seeds are bound, hence not retired, and by `OneRevisionPerSource`
there is one per outline, so the arc binds exactly these. `Issued` splits what is true of a
manifest for good (`Whole`) from what holds while its binding revision does (`Holds`).
`ResumesAlone` is only model-checked.

## 9. Grill gate

`GrillGate.tla` models the interviews about the intent of a plot turn and their handoff
to Prepare, under the prompt and Stop hooks of one host session.

### 9.1 State and actions

`session`, `order`, `response` are the tables of `scripts/grill_gate.py` (rows, their
`updated_at` order, the answers of turns); `question` is the event-experience question of a
session, `receipts` the rows of `turns`, `texts` the turns whose text a Stop hook handed
on, and `hook[h]` the local variables of the hook's `main`. A prompt is what the hook
classifies it to: a plot request, a continuation, a skip, a repetition, a cancel, other
text. A run of the hook is `Look`, then `AnswerQuestion`, `Regate` and `Keep` when a session
waits for the event experience, or `process` (`Cached`, `Repeat`, `Cancel`, `AnswerField`, `Inherit`,
`Begin`), then `Gate`, `Read`, `Prepare`, `Mark`; `Crash` kills it anywhere, `Stop` and
`CompleteExecution` end the turn, `Expire` is the clock.

Left out: several host sessions, initialization prompts, which go to `InitSaga`, and the
exemption of meta turns; and hosts that send no turn ids: for them a completion takes
whichever session is being executed (`scripts/grill_gate.py:1529`), prompts are not
answered from the record (`:1057`), and the properties below are not claimed. A turn keeps
its prompt. The barrier's result is any, and one
step with the gate. Whether a session must ask about the event experience is fixed when
it begins (`"due"` or `"none"`). Turns follow each other, but the hook of one turn may run
twice, also at the same time. A text counts as handed on once the Stop hook submitted
it; Prepare's answers of one kind may differ in what they measured.

### 9.2 The run

`grill_gate`: 2 hook processes, 3 turns, 2 interviews, up to 2 questions each; about
920,000 states. Three turns are an interview, its answer and a continuation. Two
interviews give inheritance and a rival. Two runs of the hook give every race of a
repeated run. Hooks, turns and interviews are symmetric: nothing orders them but `order`.
There is no fairness: nothing in the code retries a prompt. Deadlock checking is off: with
the turns used nothing is left to do.

### 9.3 Known deviations without a run

* A repeated run of a turn that answered the event-experience question is not cached: it
  opens a new interview (`docs/GRILL_INTENT_GATE.md:228`, `:151`, `:226`), and
  `complete_execution` may then complete a session that was never prepared.
* A repeated run whose Prepare result differs turns the session that was handed over into
  a failed handoff.

### 9.4 A claim the code does not keep

* `grill_trap`: the question of the event experience is cancelled or expires, or one
  attempt to answer it raises; from then on the session takes every prompt of its host
  session and none can answer it, "取消本轮 Grill" among them.

### 9.5 Proofs

`GrillGateProofs.tla` proves for any hooks, turns, interviews and questions: `TypeOK`,
`NoReceiptBeforeAnswer`, `CarriedOutWasWritten`, `HandoffIsFinal`. A hook acts on what it
read of a session before. `Holds` says what of that is still so: the row has a revision not
below the one read, and a receipt it was handed since is for the same turn and came with a
higher revision, so that a late failure of another run no longer matches. The invariant
asks this of every hook (`AllFit`) and of every answer the turn may be given again
(`AllBinding`), with what rows satisfy by themselves (`AllLawful`) and that the order lists
each session once (`InOrder`). `CarriedOutWasWritten` needs the first part of `AllLawful`: a
session that asks was handed nothing. That the row found first is one asked for needs a
least element of a set of naturals (`LeastNatural`).

## 10. Initialization

`InitSaga.tla` models the interview that plans a project (`scripts/plot_init/`) and the
saga that brings its frozen proposal into the canon, writes the files, verifies them and
completes the interview (`scripts/v1_runtime.py`).

### 10.1 State and actions

| Variable | Code |
| --- | --- |
| `session[s]` | a row of `initialization_sessions`: status, revision, base canon revision, answers, the commit it was completed with |
| `proposal[s]` | a row of `initialization_proposals`: the state of the target files when it was frozen |
| `canon`, `head` | `active_canon_revision` and `head_canon_revision`: every commit moves the head, drafts and commits of a branch nothing else |
| `spec[s]` | the proposal of the power specification of a session (protocol v2) |
| `init[s][n]` | the initialization registered for `s` at canon revision `n`, and the revision of its commit |
| `grant[s]` | the registrations of `s` an approval was issued for |
| `written`, `disk`, `receipt`, `ready` | the materialization run, the target files, `.plot-rag/completion-receipt.json`, `bootstrap_ready` |
| `call[c]` | the local variables of a call |
| `aux_under` | under which answers an answer was given: a history variable |

An interview call loads the session, computes the next one and saves it under compare and
swap on its revision (`LoadAdvance` ... `LoadCancel`, then `Advance`, `Answer`, `Propose`,
`Cancel` or `Refuse`). A saga call surveys what is registered and accepted, registers at
the canon revision it reads *then*, issues an approval or uses one (`Accept`,
`AcceptAgain`, `AcceptRefused`), and goes on file by file to the receipt and the
completion; it may `Stop` between any two steps. Reviews of power specifications,
retractions, commits of other work and edits of the target files come in between.

Abstractions. Idempotency rows only decide what a repeated call answers, because
requests carry the revision they expect. One question per answer call. A canon guard
that cannot be read counts as revision 0 in the code (`scripts/plot_init/service.py:300`)
and is left out. Callers name an initialization by its init id, not by the id of its canon
proposal (`scripts/v1_runtime.py:11334`). Expired grants and changed sources appear as an
accept that is refused at any time (`AcceptRefused`). The two revisions of a receipt are
read in one step; with two reads (`scripts/continuity/service.py:1542`) a commit between
them gives a receipt the verification refuses like any made after a further commit. All
target files have one content, and a materialization is one step: its inside is section 5. A degraded projection ends a call like an exception does
(`Stop`). All protocol v2 sessions have the same power design. `MaxRevision` bounds at
which revision an interview goes on, not what it does. Files are edited only between the
freeze and the write.

### 10.2 The run

`init_saga`: 1 session in protocol v2, 2 processes, the questions about genre and story
open, two answers for the genre, interviews up to revision 4, head and canon up to 3; about
1,020,000 states.

Two processes are the two that race: for the interview, for the registration, for the
accept, for the completion. Genre and story are the two ends of the dependencies of
answers. Revisions up to 3 allow an accept, a retraction and a second accept, or a draft
before the accept or between it and the receipt.
Several sessions, protocol v1 and any answers are covered by the theorems.

Fairness. While calls are under way one of them goes on (not each: a process may hang), an
apply that was accepted is repeated by somebody, with the approval it was accepted on, and
eventually a repetition does not end early. Nothing makes prompts, reviews or edits come.
`ApplyRecovers` asks only for what nothing came between: `Undisturbed` names what may come
between, drafts among it, and the code is lost then (10.4). Deadlock checking is off: with the
bounds used up nothing is left to do.

### 10.3 Proofs

`InitSagaProofs.tla` proves for any sessions, processes, answers, protocols and bounds:
`TypeOK`, `NoStaleAnswer`, `OneInForce`, `ReadyIsComplete`.

`HeadOK` (the canon is never ahead of the head) comes first: a commit to the canon takes the
revision after the head, and by `HeadOK` moves the canon as well. The invariant `IInv` adds
to the three properties: `SeenOK` (what a call loaded is the
session, or one the save will refuse; a completed session may only go stale or be
cancelled), `SessionOK` (a registration lies between the base of its session and the
canon, a commit below the canon; a completed session was started below the canon) and
`SagaOK` (what a saga call relies on at each point). The core of `OneInForce` is in
`SagaOK`: an apply whose approval is for the canon revision of now found nothing
accepted when it began, since every accept moves the canon beyond that approval; so the
binding of the approval to the registration is what keeps the second one out, and the
mutant that drops it breaks the property. The core of `NoStaleAnswer` is that what an
answer builds on in two steps it also builds on in one (`Downstream` is transitive), so
one pass over the answers is enough. `Kept` and `Grows` say what any step may do to a
session and to the canon; `OthersKeep` derives from them that a call that does not act
keeps what it relies on, and there is one lemma for each call that acts. `ApplyRecovers`
is only model-checked.

### 10.4 Known deviations without a run

* A completed session is not final: an advance stores `STALE_CANON`, which counts as active
  and suppresses prompts again (`README.md:333`, `scripts/plot_init/constants.py:72`); a
  cancel makes it `CANCELLED`.
* Any other commit between the accept and the receipt, also a draft's or a branch's, makes
  the receipt carry revisions the verification refuses (`scripts/v1_runtime.py:12144`); the
  project stays degraded, although `v1_runtime.py:11295` calls the apply "one recoverable
  saga".
* The same without anything between: if the last commit before the accept was a draft's or a
  branch's, the head is beyond the canon, the accept takes the revision after the head
  (`scripts/continuity/service.py:6048`), and protocol v2 wants the one after the base
  (`initialization_commit_follows_prepared_revision`, `v1_runtime.py:12030`). No repetition
  helps.
* The frozen proposal of a cancelled session can still be accepted; the completion is then
  refused.
* An answer about power outlives a change of the world, although
  `QUESTION_DEPENDENCIES` names it (`constants.py:220`, against `engine.py:3659`):
  `NoStaleAnswer` leaves it out by name.
* A second initialization of an initialized project ends in a conflict with the receipt of
  the first, after it was accepted and written. That needs a proposal frozen after the
  first was written; one frozen before is refused by the accept (`TARGET_HASH_CONFLICT`,
  `service.py:5023`).
* Registration surveys the proposals before it reads the canon revision
  (`v1_runtime.py:10763`, `:11014`): a second registration exists, and only its approval
  keeps it out.

## 11. What is not modelled

Components with status `not_modelled` in `PROJECT.json`:

* Source manifest, items and advantages, schema store: on the plan. What they do inside an
  accept leaves the ledger as `CanonLifecycle` has it, or rolls it back.
* Power system, readable projections, command line and MCP front ends, release gate and
  benchmarks: no shared state of their own; construction and validation of documents,
  formatting, dispatch, measuring.

Inside modelled components: ranking and retrieval, the text of dossiers and contracts, the
reducers of the projection tables, ingestion of sources, the hook arbiter of the
initialization, the session-close file, path checks.

Kept with TLC: the five liveness properties `EveryJobSettles`, `EveryCallReturns`,
`EverySearchEnds`, `ResumesAlone` and `ApplyRecovers`, because fairness and ENABLED are out of
the prover's reach, and the four claims the code does not keep. Hazards without a property are listed in
`PROJECT.json` with the reason.
