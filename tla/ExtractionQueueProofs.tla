----------------------- MODULE ExtractionQueueProofs -----------------------
(* Theorems about the extraction queue, for any finite sets of turns and      *)
(* texts, any workers, proposals and contents, and any bounds.                *)
EXTENDS ExtractionQueue, FiniteSetTheorems, TLAPS

LEMMA JobWitness == AnyJob \in Job /\ AnyContent \in Content
<1>1. \E t \in Turn, x \in Text : <<t, x>> \in Job
  BY QueueAssumption DEF Job
<1> QED BY <1>1, QueueAssumption DEF AnyJob, AnyContent

LEMMA JobParts == \A j \in Job : TurnOf(j) \in Turn /\ TextOf(j) \in Text
BY DEF Job, TurnOf, TextOf

LEMMA CountsAreNat == Cardinality(Received) \in Nat /\ Cardinality(Enqueued) \in Nat
<1>1. IsFiniteSet(Received)
  BY QueueAssumption, FS_Subset DEF Received
<1>2. IsFiniteSet(Job)
  BY QueueAssumption, FS_Product DEF Job
<1>3. IsFiniteSet(Enqueued)
  BY <1>2, FS_Subset DEF Enqueued
<1> QED BY <1>1, <1>3, FS_CardinalityType

LEMMA IdleIsState == IdleWorker \in WorkerState /\ NoWorker \in WorkerState
BY JobWitness DEF IdleWorker, NoWorker, WorkerState, Extraction, Result

-----------------------------------------------------------------------------
(* Type correctness, one lemma for each family of actions.                    *)

LEMMA TypeInit == Init => TypeOK
BY JobWitness, IdleIsState
   DEF Init, TypeOK, TurnRow, JobRow, ProposalRow, Result

LEMMA TypeHooks ==
  ASSUME TypeOK,
         \/ \E t \in Turn : PassBarrier(t) \/ Prepare(t)
         \/ \E j \in Job : Enqueue(j)
  PROVE  TypeOK'
<1>1. CASE \E t \in Turn : PassBarrier(t)
  BY <1>1 DEF TypeOK, PassBarrier, TurnRow
<1>2. CASE \E t \in Turn : Prepare(t)
  <2> PICK t \in Turn : Prepare(t)
    BY <1>2
  <2> DEFINE row == [turn[t] EXCEPT !.status = "pending",
                                    !.seq = Cardinality(Received) + 1,
                                    !.prepared = canon]
  <2>1. turn[t] \in TurnRow /\ canon \in Nat /\ Cardinality(Received) + 1 \in Nat
    BY CountsAreNat DEF TypeOK
  <2>2. row \in TurnRow
    BY <2>1 DEF TurnRow
  <2>3. turn' = [turn EXCEPT ![t] = row]
    BY DEF Prepare
  <2>4. turn' \in [Turn -> TurnRow]
    BY <2>2, <2>3 DEF TypeOK
  <2> QED BY <2>4 DEF TypeOK, Prepare
<1>3. CASE \E j \in Job : Enqueue(j)
  <2> PICK j \in Job : Enqueue(j)
    BY <1>3
  <2> DEFINE row == [job[j] EXCEPT !.status = "queued",
                                   !.created = Cardinality(Enqueued) + 1,
                                   !.payload = TRUE]
  <2>2. job[j] \in JobRow /\ Cardinality(Enqueued) + 1 \in Nat
    BY CountsAreNat DEF TypeOK
  <2>3. row \in JobRow
    BY <2>2 DEF JobRow
  <2>1. job' \in [Job -> JobRow]
    BY <2>3 DEF TypeOK, Enqueue
  <2> QED BY <2>1 DEF TypeOK, Enqueue
<1> QED BY <1>1, <1>2, <1>3

LEMMA TypeClock ==
  ASSUME TypeOK, NEW j \in Job,
         LeaseExpires(j) \/ RetryFallsDue(j) \/ Retry(j) \/ Cancel(j)
  PROVE  TypeOK'
<1>1. job' \in [Job -> JobRow]
  <2>1. CASE LeaseExpires(j)
    BY <2>1 DEF TypeOK, LeaseExpires, JobRow
  <2>2. CASE RetryFallsDue(j)
    BY <2>2 DEF TypeOK, RetryFallsDue, JobRow
  <2>3. CASE Retry(j)
    <3> PICK due \in {"now", "later"} :
          job' = [job EXCEPT ![j] = [@ EXCEPT !.status = "queued", !.due = due]]
      BY <2>3 DEF Retry
    <3>1. [job[j] EXCEPT !.status = "queued", !.due = due] \in JobRow
      BY DEF TypeOK, JobRow
    <3> QED BY <3>1 DEF TypeOK
  <2>4. CASE Cancel(j)
    <3>1. [job[j] EXCEPT !.status = "cancelled", !.owner = None, !.lease = "none",
                         !.due = "now", !.payload = FALSE] \in JobRow
      BY DEF TypeOK, JobRow
    <3> QED BY <2>4, <3>1 DEF TypeOK, Cancel
  <2> QED BY <2>1, <2>2, <2>3, <2>4
<1> QED BY <1>1 DEF TypeOK, LeaseExpires, RetryFallsDue, Retry, Cancel

LEMMA TypeRecovered == TypeOK => Recovered \in [Job -> JobRow]
<1> SUFFICES ASSUME TypeOK PROVE Recovered \in [Job -> JobRow]
  OBVIOUS
<1>1. \A j \in Job : [job[j] EXCEPT !.status = "queued", !.owner = None,
                                   !.lease = "none", !.due = "now"] \in JobRow
  BY DEF TypeOK, JobRow
<1> QED BY <1>1 DEF TypeOK, Recovered

LEMMA TypeRecover == TypeOK /\ SessionRecover => TypeOK'
BY TypeRecovered DEF TypeOK, SessionRecover

LEMMA TypeClaim ==
  ASSUME TypeOK, NEW w \in Worker, NEW j \in Job, Claim(w, j)
  PROVE  TypeOK'
<1>1. job[j] \in JobRow /\ job[j].epoch + 1 \in Nat
  BY DEF TypeOK, JobRow
<1> DEFINE row == [job[j] EXCEPT !.status = "running", !.epoch = job[j].epoch + 1,
                                 !.owner = w, !.lease = "live", !.due = "now"]
           pass == [IdleWorker EXCEPT !.pc = "claimed", !.job = j,
                                      !.epoch = job[j].epoch + 1]
<1>4. row \in JobRow
  BY <1>1 DEF JobRow
<1>6. job' = [job EXCEPT ![j] = row]
  BY DEF Claim
<1> HIDE DEF row
<1>2. job' \in [Job -> JobRow]
  BY <1>4, <1>6 DEF TypeOK
<1>5. pass \in WorkerState
  BY <1>1, JobWitness DEF IdleWorker, WorkerState, Extraction, Result
<1>3. worker' \in [Worker -> WorkerState]
  BY <1>5 DEF TypeOK, Claim
<1> QED BY <1>2, <1>3 DEF TypeOK, Claim

LEMMA WorkerMoves ==
  ASSUME NEW s \in WorkerState, NEW out \in Result,
         NEW pc \in {"factory", "extracting", "complete", "failing"}
  PROVE  [s EXCEPT !.pc = pc, !.out = out] \in WorkerState
BY DEF WorkerState

LEMMA TypeWorker ==
  ASSUME TypeOK, NEW w \in Worker, Spawn(w) \/ WorkerStep(w) \/ Crash(w)
  PROVE  TypeOK'
<1> DEFINE j == worker[w].job
<1>0. /\ worker[w] \in WorkerState
      /\ j \in Job
      /\ TurnOf(j) \in Turn /\ TextOf(j) \in Text
      /\ turn[TurnOf(j)] \in TurnRow
      /\ job[j] \in JobRow
  BY JobParts DEF TypeOK, WorkerState
<1>1. CASE LoseLease(w) \/ Crash(w) \/ Spawn(w) \/ Exit(w)
  BY <1>1, IdleIsState DEF TypeOK, LoseLease, Crash, Spawn, Exit
<1>9. CASE Recover(w)
  BY <1>9, <1>0, TypeRecovered DEF TypeOK, Recover, WorkerState
<1>2. CASE Snapshot(w)
  <2> DEFINE moved(pc, out) ==
               worker' = [worker EXCEPT ![w] = [@ EXCEPT !.pc = pc, !.out = out]]
  <2>1. \/ \E p \in Bound(j) : moved("complete", p)
        \/ moved("factory", None)
        \/ moved("failing", None)
    BY <1>2 DEF Snapshot
  <2>3. Bound(j) \subseteq Result /\ None \in Result
    BY DEF Bound, Result
  <2>2. worker' \in [Worker -> WorkerState]
    BY <2>1, <2>3, <1>0, WorkerMoves DEF TypeOK
  <2> QED BY <1>2, <2>2 DEF TypeOK, Snapshot
<1>3. CASE StartFactory(w)
  <2> DEFINE moved(pc, out) ==
               worker' = [worker EXCEPT ![w] = [@ EXCEPT !.pc = pc, !.out = out]]
             result == turn[TurnOf(j)].result
             answer == IF turn[TurnOf(j)].text # TextOf(j) THEN "failed"
                       ELSE IF result \in Proposal THEN Outcome(result)
                       ELSE result
  <2>1. moved("complete", answer) \/ moved("extracting", None) \/ moved("complete", "failed")
    BY <1>3 DEF StartFactory
  <2>4. result \in Result /\ Outcome(result) \in {result, "failed"}
    BY <1>0 DEF TurnRow, Outcome
  <2>5. answer \in Result /\ None \in Result /\ "failed" \in Result
    BY <2>4 DEF Result
  <2> HIDE DEF answer
  <2>2. worker' \in [Worker -> WorkerState]
    BY <2>1, <2>5, <1>0, WorkerMoves DEF TypeOK
  <2>3. turn' \in [Turn -> TurnRow]
    BY <1>3, <1>0 DEF StartFactory, TypeOK, TurnRow
  <2> QED BY <1>3, <2>2, <2>3 DEF TypeOK, StartFactory
<1>4. CASE Extract(w)
  <2>4. \A found \in Extraction :
          [worker[w] EXCEPT !.pc = "persist", !.found = found] \in WorkerState
    BY <1>0 DEF WorkerState
  <2>5. "failed" \in Result
    BY DEF Result
  <2>1. worker' \in [Worker -> WorkerState]
    <3>1. \/ \E found \in Extraction :
               worker' = [worker EXCEPT ![w] = [@ EXCEPT !.pc = "persist", !.found = found]]
          \/ worker' = [worker EXCEPT ![w] = [@ EXCEPT !.pc = "complete", !.out = "failed"]]
      BY <1>4 DEF Extract
    <3> QED BY <3>1, <1>0, <2>4, <2>5, WorkerMoves DEF TypeOK
  <2>2. turn' \in [Turn -> TurnRow]
    BY <1>4, <1>0 DEF TypeOK, Extract, TurnRow
  <2> QED BY <1>4, <2>1, <2>2 DEF TypeOK, Extract
<1>5. CASE Persist(w)
  <2>1. \E out \in Result :
          worker' = [worker EXCEPT ![w] = [@ EXCEPT !.pc = "complete", !.out = out]]
    BY <1>5, <1>0 DEF Persist, Result, Outcome, Replays, Bound
  <2>2. worker' \in [Worker -> WorkerState]
    BY <2>1, <1>0, WorkerMoves DEF TypeOK
  <2>5. \A status \in {"no_delta", "proposed"}, result \in Result :
          [turn[TurnOf(j)] EXCEPT !.status = status, !.text = TextOf(j),
                                  !.result = result] \in TurnRow
    BY <1>0 DEF TurnRow
  <2>6. [turn[TurnOf(j)] EXCEPT !.status = "failed"] \in TurnRow
    BY <1>0 DEF TurnRow
  <2> DEFINE finish(status, result) ==
               turn' = [turn EXCEPT ![TurnOf(j)] = [@ EXCEPT !.status = status,
                                                            !.text = TextOf(j),
                                                            !.result = result]]
  <2>7. \/ finish("no_delta", "no_delta")
        \/ \E p \in Proposal : finish("proposed", p)
        \/ turn' = [turn EXCEPT ![TurnOf(j)].status = "failed"]
    BY <1>5 DEF Persist, Replays, Bound
  <2>8. Proposal \subseteq Result /\ "no_delta" \in Result
    BY DEF Result
  <2>3. turn' \in [Turn -> TurnRow]
    BY <2>5, <2>6, <2>7, <2>8, <1>0 DEF TypeOK
  <2>9. \/ proposal' = proposal
        \/ \E c \in Content, p \in Proposal :
             proposal' = [proposal EXCEPT ![p] = [status |-> "proposed", job |-> j,
                                                  content |-> c]]
    BY <1>5 DEF Persist
  <2>10. \A c \in Content : [status |-> "proposed", job |-> j, content |-> c] \in ProposalRow
    BY <1>0 DEF ProposalRow
  <2>4. proposal' \in [Proposal -> ProposalRow]
    BY <2>9, <2>10 DEF TypeOK
  <2> QED BY <1>5, <2>2, <2>3, <2>4 DEF TypeOK, Persist
<1>6. CASE Succeed(w)
  <2>2. worker[w].out \in Proposal \cup {"no_delta"}
    BY <1>6 DEF Succeed
  <2>3. [job[j] EXCEPT !.status = "succeeded", !.owner = None, !.lease = "none",
                       !.result = worker[w].out, !.payload = FALSE] \in JobRow
    BY <1>0, <2>2 DEF JobRow
  <2>1. job' \in [Job -> JobRow]
    BY <1>6, <1>0, <2>3 DEF Succeed, TypeOK
  <2> QED BY <1>6, <2>1, IdleIsState DEF TypeOK, Succeed
<1>7. CASE SucceedRefused(w)
  BY <1>7, <1>0 DEF TypeOK, SucceedRefused, WorkerState
<1>8. CASE Fail(w)
  <2>2. [job[j] EXCEPT !.status = "failed", !.owner = None, !.lease = "none"] \in JobRow
    BY <1>0 DEF JobRow
  <2>1. job' \in [Job -> JobRow]
    BY <1>8, <1>0, <2>2 DEF Fail, TypeOK
  <2> QED BY <1>8, <2>1, IdleIsState DEF TypeOK, Fail
<1> QED BY <1>1, <1>2, <1>3, <1>4, <1>5, <1>6, <1>7, <1>8, <1>9 DEF WorkerStep

LEMMA CanonStaysNat == canon \in Nat => \A t \in Turn : CanonAfter(t) \in Nat
BY DEF CanonAfter

LEMMA TypeReview ==
  ASSUME TypeOK,
         \/ \E p \in Proposal : Accept(p) \/ Reject(p) \/ Retract(p)
         \/ \E j \in Job, a \in Action : Resolve(j, a)
         \/ CanonMoves
  PROVE  TypeOK'
<1>1. CASE \E p \in Proposal : Accept(p) \/ Retract(p)
  <2> PICK p \in Proposal : Accept(p) \/ Retract(p)
    BY <1>1
  <2>1. TurnOf(proposal[p].job) \in Turn
    BY JobParts DEF TypeOK, ProposalRow
  <2>2. canon' \in Nat
    BY <2>1, CanonStaysNat DEF TypeOK, Accept, Retract
  <2>3. proposal' \in [Proposal -> ProposalRow]
    BY DEF TypeOK, Accept, Retract, ProposalRow
  <2> QED BY <2>2, <2>3 DEF TypeOK, Accept, Retract
<1>2. CASE \E p \in Proposal : Reject(p)
  BY <1>2 DEF TypeOK, Reject, ProposalRow
<1>3. CASE \E j \in Job, a \in Action : Resolve(j, a)
  BY <1>3 DEF TypeOK, Resolve
<1>4. CASE CanonMoves
  BY <1>4 DEF TypeOK, CanonMoves
<1> QED BY <1>1, <1>2, <1>3, <1>4

LEMMA TypeStep == TypeOK /\ [Next]_vars => TypeOK'
<1> SUFFICES ASSUME TypeOK, [Next]_vars PROVE TypeOK'
  OBVIOUS
<1>1. CASE UNCHANGED vars
  BY <1>1 DEF TypeOK, vars
<1>2. CASE Next
  BY <1>2, TypeHooks, TypeClock, TypeRecover, TypeClaim, TypeWorker, TypeReview DEF Next
<1> QED BY <1>1, <1>2

(* Every reachable state is well typed: receipts, jobs, proposals, worker     *)
(* memories and the canon revision keep their shape through every handler.    *)
THEOREM QueueTypeCorrect == Spec => []TypeOK
<1>1. Init => TypeOK
  BY TypeInit
<1>2. TypeOK /\ [Next]_vars => TypeOK'
  BY TypeStep
<1> QED BY <1>1, <1>2, PTL DEF Spec

-----------------------------------------------------------------------------
(* What a step may do to one job and to one proposal.                         *)

Live == {"queued", "running", "failed"}

(* The five things that happen to a job: nothing a reader of its outcome can  *)
(* tell, its submission, another round, its end without and with a result.    *)
JobMove(j) ==
  \/ /\ job'[j].status = job[j].status
     /\ job'[j].result = job[j].result
     /\ job'[j].payload = job[j].payload
  \/ /\ job[j].status = "absent"
     /\ job'[j].status = "queued"
     /\ job'[j].result = job[j].result
     /\ job'[j].payload
  \/ /\ job[j].status \in Live
     /\ job'[j].status \in Live
     /\ job'[j].result = job[j].result
     /\ job'[j].payload = job[j].payload
  \/ /\ job[j].status \in Live
     /\ job'[j].status = "cancelled"
     /\ job'[j].result = job[j].result
  \/ /\ job[j].status = "running"
     /\ job'[j].status = "succeeded"
     /\ \/ job'[j].result = "no_delta"
        \/ /\ job'[j].result \in Bound(j)
           /\ proposal[job'[j].result].status = "proposed"
           /\ proposal' = proposal

LEMMA JobSteps ==
  ASSUME TypeOK, [Next]_vars, NEW j \in Job
  PROVE  JobMove(j)
<1>0. job \in [Job -> JobRow] /\ job[j] \in JobRow
  BY DEF TypeOK
<1>1. CASE job' = job
  BY <1>1 DEF JobMove
<1>2. CASE \E k \in Job : Enqueue(k)
  <2> PICK k \in Job : Enqueue(k)
    BY <1>2
  <2>1. CASE k = j
    BY <1>0, <2>1 DEF Enqueue, JobMove, JobRow
  <2>2. CASE k # j
    BY <1>0, <2>2 DEF Enqueue, JobMove
  <2> QED BY <2>1, <2>2
<1>3. CASE \E k \in Job : LeaseExpires(k) \/ RetryFallsDue(k)
  BY <1>0, <1>3 DEF LeaseExpires, RetryFallsDue, JobMove, JobRow
<1>4. CASE \E k \in Job : Retry(k)
  BY <1>0, <1>4 DEF Retry, JobMove, JobRow, Live
<1>5. CASE \E k \in Job : Cancel(k)
  <2> PICK k \in Job : Cancel(k)
    BY <1>5
  <2>1. CASE k = j
    BY <1>0, <2>1 DEF Cancel, Cancellable, JobMove, JobRow, Live
  <2>2. CASE k # j
    BY <1>0, <2>2 DEF Cancel, JobMove
  <2> QED BY <2>1, <2>2
<1>6. CASE SessionRecover \/ \E w \in Worker : Recover(w)
  <2>1. job' = Recovered
    BY <1>6 DEF SessionRecover, Recover
  <2> QED BY <1>0, <2>1 DEF Recovered, Stale, JobMove, JobRow, Live
<1>7. CASE \E w \in Worker, k \in Job : Claim(w, k)
  BY <1>0, <1>7 DEF Claim, FirstDue, Due, JobMove, JobRow, Live
<1>8. CASE \E w \in Worker : Succeed(w)
  <2> PICK w \in Worker : Succeed(w)
    BY <1>8
  <2>1. CASE worker[w].job = j
    <3> DEFINE out == worker[w].out
    <3>1. /\ job[j].status = "running"
          /\ job'[j].status = "succeeded"
          /\ job'[j].result = out
          /\ proposal' = proposal
      BY <1>0, <2>1 DEF Succeed, Leased, JobRow
    <3>2. out = "no_delta" \/ (out \in Bound(j) /\ proposal[out].status = "proposed")
      BY <2>1 DEF Succeed, Bindable
    <3> QED BY <3>1, <3>2 DEF JobMove
  <2>2. CASE worker[w].job # j
    BY <1>0, <2>2 DEF Succeed, JobMove
  <2> QED BY <2>1, <2>2
<1>9. CASE \E w \in Worker : Fail(w)
  BY <1>0, <1>9 DEF Fail, Leased, JobMove, JobRow, Live
<1>10. CASE Next /\ job' # job
  BY <1>2, <1>3, <1>4, <1>5, <1>6, <1>7, <1>8, <1>9, <1>10
     DEF Next, WorkerStep, PassBarrier, Prepare, Resolve, LoseLease, Snapshot,
         StartFactory, Extract, Persist, SucceedRefused, Crash, Accept, Reject,
         Retract, CanonMoves, Spawn, Exit
<1> QED BY <1>1, <1>10 DEF vars

ProposalMove(p) ==
  \/ proposal'[p] = proposal[p]
  \/ /\ proposal[p].status = "absent"
     /\ proposal'[p].status = "proposed"
     /\ proposal'[p].job \in Job
     /\ Bound(proposal'[p].job) = {}
     /\ \A q \in Proposal \ {p} : proposal'[q] = proposal[q]
  \/ /\ \/ /\ proposal[p].status = "proposed"
           /\ proposal'[p].status \in {"accepted", "rejected"}
        \/ /\ proposal[p].status = "accepted"
           /\ proposal'[p].status = "retracted"
     /\ proposal'[p].job = proposal[p].job
     /\ proposal'[p].status = "accepted" => (LifecycleBound => Finalized(p))
     /\ \A q \in Proposal \ {p} : proposal'[q] = proposal[q]
     /\ job' = job

LEMMA ProposalSteps ==
  ASSUME TypeOK, [Next]_vars, NEW p \in Proposal
  PROVE  ProposalMove(p)
<1>0. proposal \in [Proposal -> ProposalRow] /\ proposal[p] \in ProposalRow
  BY DEF TypeOK
<1>1. CASE proposal' = proposal
  BY <1>1 DEF ProposalMove
<1>2. CASE \E w \in Worker : Persist(w) /\ proposal' # proposal
  <2> PICK w \in Worker : Persist(w) /\ proposal' # proposal
    BY <1>2
  <2> DEFINE j == worker[w].job
  <2>1. j \in Job
    BY DEF TypeOK, WorkerState
  <2>2. PICK q \in Proposal, c \in Content :
          /\ proposal[q].status = "absent"
          /\ proposal' = [proposal EXCEPT ![q] = [status |-> "proposed", job |-> j,
                                                  content |-> c]]
          /\ Bound(j) = {}
    BY DEF Persist, MayCreate
  <2> QED BY <1>0, <2>1, <2>2 DEF ProposalMove
<1>3. CASE \E q \in Proposal : Accept(q)
  BY <1>0, <1>3 DEF Accept, ProposalMove, ProposalRow
<1>4. CASE \E q \in Proposal : Reject(q) \/ Retract(q)
  BY <1>0, <1>4 DEF Reject, Retract, ProposalMove, ProposalRow
<1>5. CASE Next /\ proposal' # proposal
  BY <1>2, <1>3, <1>4, <1>5
     DEF Next, WorkerStep, PassBarrier, Prepare, Resolve, LoseLease, Snapshot,
         StartFactory, Extract, SucceedRefused, Crash, CanonMoves, Enqueue,
         LeaseExpires, RetryFallsDue, Retry, Cancel, SessionRecover,
         Recover, Exit, Spawn, Claim, Succeed, Fail
<1> QED BY <1>1, <1>5 DEF vars

-----------------------------------------------------------------------------
(* Safety.                                                                    *)

(* A job that can still run keeps its text.                                   *)
THEOREM QueueTextSurvives == Spec => []TextSurvives
<1>1. Init => TextSurvives
  BY DEF Init, TextSurvives
<1>2. TypeOK /\ TextSurvives /\ [Next]_vars => TextSurvives'
  <2> SUFFICES ASSUME TypeOK, TextSurvives, [Next]_vars, NEW j \in Job,
                      job'[j].status \in Live
               PROVE  job'[j].payload
    BY DEF TextSurvives, Live
  <2>1. JobMove(j)
    BY JobSteps
  <2> QED BY <2>1 DEF JobMove, TextSurvives, Live
<1> QED BY <1>1, <1>2, QueueTypeCorrect, PTL DEF Spec

(* At most one proposal carries the reverse binding of a job.                 *)
THEOREM QueueOneProposalPerJob == Spec => []OneProposalPerJob
<1>1. Init => OneProposalPerJob
  BY DEF Init, OneProposalPerJob
<1>2. TypeOK /\ OneProposalPerJob /\ [Next]_vars => OneProposalPerJob'
  <2> SUFFICES ASSUME TypeOK, OneProposalPerJob, [Next]_vars,
                      NEW p \in Proposal, NEW q \in Proposal, p # q,
                      proposal'[p].status # "absent", proposal'[q].status # "absent",
                      proposal'[p].job = proposal'[q].job
               PROVE  FALSE
    BY DEF OneProposalPerJob
  <2>1. ProposalMove(p) /\ ProposalMove(q)
    BY ProposalSteps
  <2> QED BY <2>1 DEF ProposalMove, OneProposalPerJob, Bound
<1> QED BY <1>1, <1>2, QueueTypeCorrect, PTL DEF Spec

(* Only the proposal a job finalized ever enters the canon.                   *)
THEOREM QueueCanonOnlyFromFinalized == Spec => []CanonOnlyFromFinalized
<1>1. Init => CanonOnlyFromFinalized
  BY DEF Init, CanonOnlyFromFinalized
<1>2. TypeOK /\ CanonOnlyFromFinalized /\ [Next]_vars => CanonOnlyFromFinalized'
  <2> SUFFICES ASSUME TypeOK, CanonOnlyFromFinalized, [Next]_vars, LifecycleBound,
                      NEW p \in Proposal,
                      proposal'[p].status \in {"accepted", "retracted"}
               PROVE  /\ job'[proposal'[p].job].status = "succeeded"
                      /\ job'[proposal'[p].job].result = p
    BY DEF CanonOnlyFromFinalized
  <2>1. ProposalMove(p)
    BY ProposalSteps
  <2>2. proposal[p].job \in Job
    BY DEF TypeOK, ProposalRow
  <2>3. JobMove(proposal[p].job)
    BY <2>2, JobSteps
  <2> QED BY <2>1, <2>3 DEF ProposalMove, JobMove, CanonOnlyFromFinalized, Finalized, Live
<1> QED BY <1>1, <1>2, QueueTypeCorrect, PTL DEF Spec

(* The strengthening for what a recorded result means: it names a proposal of *)
(* this very job, and only a job that succeeded has one.                      *)
ResultBound ==
  \A j \in Job :
    /\ job[j].status = "succeeded" => job[j].result # None
    /\ job[j].result \in Proposal =>
         /\ job[j].status = "succeeded"
         /\ proposal[job[j].result].status # "absent"
         /\ proposal[job[j].result].job = j

LEMMA ResultBoundStep == TypeOK /\ ResultBound /\ [Next]_vars => ResultBound'
<1> SUFFICES ASSUME TypeOK, ResultBound, [Next]_vars, NEW j \in Job
             PROVE  /\ job'[j].status = "succeeded" => job'[j].result # None
                    /\ job'[j].result \in Proposal =>
                         /\ job'[j].status = "succeeded"
                         /\ proposal'[job'[j].result].status # "absent"
                         /\ proposal'[job'[j].result].job = j
  BY DEF ResultBound
<1>1. JobMove(j)
  BY JobSteps
<1>2. job'[j].result \in Proposal => ProposalMove(job'[j].result)
  BY ProposalSteps
<1>3. None \notin Proposal /\ "no_delta" \notin Proposal /\ "no_delta" # None
  BY QueueAssumption
<1> QED BY <1>1, <1>2, <1>3 DEF JobMove, ProposalMove, ResultBound, Bound, Live

THEOREM QueueResultBound == Spec => []ResultBound
<1>1. Init => ResultBound
  BY QueueAssumption DEF Init, ResultBound
<1> QED BY <1>1, ResultBoundStep, QueueTypeCorrect, PTL DEF Spec

(* A resolved job never runs again and its proposal never comes back.         *)
THEOREM QueueResolvedStaysClosed == Spec => []ResolvedStaysClosed
<1>1. Init => ResolvedStaysClosed
  BY DEF Init, ResolvedStaysClosed
<1>2. TypeOK /\ ResultBound /\ ResolvedStaysClosed /\ [Next]_vars => ResolvedStaysClosed'
  <2> SUFFICES ASSUME TypeOK, ResultBound, ResolvedStaysClosed, [Next]_vars,
                      NEW j \in Job, resolution'[j] # None
               PROVE  \/ job'[j].status = "cancelled"
                      \/ \E p \in Proposal :
                           /\ job'[j].result = p
                           /\ proposal'[p].status \in {"rejected", "retracted"}
    BY DEF ResolvedStaysClosed
  <2>1. CASE resolution[j] = None
    <3>1. resolution' # resolution
      BY <2>1
    <3>2. \E k \in Job, a \in Action : Resolve(k, a)
      BY <3>1
         DEF Next, vars, WorkerStep, PassBarrier, Prepare, LoseLease, Snapshot,
             StartFactory, Extract, Persist, SucceedRefused, Crash, Accept, Reject,
             Retract, CanonMoves, Enqueue, LeaseExpires, RetryFallsDue, Retry,
             Cancel, SessionRecover, Recover, Exit, Spawn, Claim, Succeed, Fail
    <3>3. PICK k \in Job, a \in Action : Resolve(k, a)
      BY <3>2
    <3>4. k = j
      BY <2>1, <3>3 DEF Resolve, TypeOK
    <3>5. Resolvable(j) /\ job' = job /\ proposal' = proposal
      BY <3>3, <3>4 DEF Resolve
    <3> QED BY <3>5 DEF Resolvable
  <2>2. CASE resolution[j] # None
    <3>1. JobMove(j) /\ \A p \in Proposal : ProposalMove(p)
      BY JobSteps, ProposalSteps
    <3>2. CASE job[j].status = "cancelled"
      BY <3>1, <3>2 DEF JobMove, Live
    <3>3. CASE \E p \in Proposal : /\ job[j].result = p
                                   /\ proposal[p].status \in {"rejected", "retracted"}
      <4> PICK p \in Proposal : /\ job[j].result = p
                                /\ proposal[p].status \in {"rejected", "retracted"}
        BY <3>3
      <4>1. job[j].status = "succeeded"
        BY DEF ResultBound
      <4>2. job'[j].result = p
        BY <4>1, <3>1 DEF JobMove, Live
      <4>3. proposal'[p].status \in {"rejected", "retracted"}
        BY <3>1 DEF ProposalMove
      <4> QED BY <4>2, <4>3
    <3> QED BY <2>2, <3>2, <3>3 DEF ResolvedStaysClosed
  <2> QED BY <2>1, <2>2
<1> QED BY <1>1, <1>2, QueueTypeCorrect, QueueResultBound, PTL DEF Spec

(* A pass that no longer holds a live lease in its own epoch ends without     *)
(* touching the row of its job.                                               *)
THEOREM QueueFencedCompletion == Spec => FencedCompletion
<1> DEFINE held(w) == LET row == job[worker[w].job] IN
                        /\ row.status = "running" /\ row.lease = "live"
                        /\ row.owner = w /\ row.epoch = worker[w].epoch
<1>1. ASSUME TypeOK, [Next]_vars, NEW w \in Worker,
             worker[w].pc \in {"complete", "failing"}, worker'[w].pc = "idle", ~ held(w)
      PROVE  job' = job
  <2>1. worker' # worker
    BY <1>1
  <2>2. \A v \in Worker \ {w} : Succeed(v) \/ Fail(v) => worker'[w] = worker[w]
    BY <1>1 DEF Succeed, Fail, TypeOK
  <2>5. \A v \in Worker \ {w} : ~ Succeed(v) /\ ~ Fail(v)
    BY <1>1, <2>2
  <2>3. \A v \in Worker, j \in Job : ~ Claim(v, j)
    <3>1. \A v \in Worker, j \in Job : Claim(v, j) => v # w
      BY <1>1 DEF Claim
    <3>2. \A v \in Worker \ {w}, j \in Job : Claim(v, j) => worker'[w] = worker[w]
      BY <1>1 DEF Claim, TypeOK
    <3> QED BY <1>1, <3>1, <3>2
  <2>4. ~ Succeed(w) /\ ~ Fail(w)
    BY <1>1 DEF Succeed, Fail, Leased
  <2>6. \A v \in Worker : ~ Recover(v)
    BY <1>1 DEF Recover, TypeOK
  <2> QED BY <1>1, <2>1, <2>3, <2>4, <2>5, <2>6
       DEF Next, vars, WorkerStep, PassBarrier, Prepare, Resolve, LoseLease, Snapshot,
           StartFactory, Extract, Persist, SucceedRefused, Crash, Accept, Reject,
           Retract, CanonMoves, Enqueue, LeaseExpires, RetryFallsDue, Retry, Cancel,
           SessionRecover, Spawn, Exit
<1>2. TypeOK /\ [Next]_vars =>
        [\A w \in Worker :
           (/\ worker[w].pc \in {"complete", "failing"}
            /\ worker'[w].pc = "idle"
            /\ ~ held(w)) => job' = job]_vars
  BY <1>1
<1> QED BY <1>2, QueueTypeCorrect, PTL DEF Spec, FencedCompletion

-----------------------------------------------------------------------------
(* No two authority decisions against one canon revision.                     *)

(* The states of a worker that has claimed a job.                             *)
AtWork(pc) == pc \notin {"absent", "idle", "looking"}

(* The strengthening: a job exists, and a worker works, only for a turn whose *)
(* receipt is written, and a decision that moved the canon was prepared       *)
(* against an earlier revision.                                               *)
OnlyReceived ==
  /\ \A j \in Job : job[j].status # "absent" => TurnOf(j) \in Received
  /\ \A w \in Worker : AtWork(worker[w].pc) => TurnOf(worker[w].job) \in Received
  /\ \A p \in Proposal :
       proposal[p].status # "absent" => TurnOf(proposal[p].job) \in Received

DecidedEarlier ==
  \A p \in Proposal :
    LET t == TurnOf(proposal[p].job) IN
      (proposal[p].status \in {"accepted", "retracted"} /\ t \in AuthorityTurn)
        => turn[t].prepared < canon

TurnMove(t) ==
  \/ turn'[t] = turn[t]
  \/ turn[t].status = "absent" /\ turn'[t].status = "admitted"
  \/ turn[t].status = "admitted" /\ turn'[t].status = "pending"
  \/ /\ t \in Received
     /\ turn'[t].status \in {"proposed", "no_delta", "failed"}
     /\ turn'[t].prepared = turn[t].prepared

LEMMA TurnSteps ==
  ASSUME TypeOK, OnlyReceived, [Next]_vars, NEW t \in Turn
  PROVE  TurnMove(t)
<1>0. turn \in [Turn -> TurnRow] /\ turn[t] \in TurnRow
  BY DEF TypeOK
<1>1. CASE turn' = turn
  BY <1>1 DEF TurnMove
<1>2. CASE \E s \in Turn : PassBarrier(s) \/ Prepare(s)
  <2> PICK s \in Turn : PassBarrier(s) \/ Prepare(s)
    BY <1>2
  <2>1. CASE s = t
    BY <1>0, <2>1 DEF PassBarrier, Prepare, TurnMove, TurnRow
  <2>2. CASE s # t
    BY <1>0, <2>2 DEF PassBarrier, Prepare, TurnMove
  <2> QED BY <2>1, <2>2
<1>3. CASE \E w \in Worker : (StartFactory(w) \/ Extract(w)) /\ turn' # turn
  <2> PICK w \in Worker : (StartFactory(w) \/ Extract(w)) /\ turn' # turn
    BY <1>3
  <2>1. TurnOf(worker[w].job) \in Received
    BY DEF StartFactory, Extract, OnlyReceived, AtWork
  <2>2. turn' = [turn EXCEPT ![TurnOf(worker[w].job)].status = "failed"]
    BY DEF StartFactory, Extract
  <2> QED BY <1>0, <2>1, <2>2 DEF TurnMove, TurnRow
<1>4. CASE \E w \in Worker : Persist(w)
  <2> PICK w \in Worker : Persist(w)
    BY <1>4
  <2> DEFINE s == TurnOf(worker[w].job)
             finish(status, result) ==
               turn' = [turn EXCEPT ![s] = [@ EXCEPT !.status = status,
                                                    !.text = TextOf(worker[w].job),
                                                    !.result = result]]
  <2>1. s \in Received
    BY DEF Persist, OnlyReceived, AtWork
  <2>2. \/ finish("no_delta", "no_delta")
        \/ \E p \in Proposal : finish("proposed", p)
        \/ turn' = [turn EXCEPT ![s].status = "failed"]
    BY DEF Persist, Replays, Bound
  <2> HIDE DEF s
  <2>3. CASE s = t
    <3>1. CASE turn' = [turn EXCEPT ![s].status = "failed"]
      BY <1>0, <2>1, <2>3, <3>1 DEF TurnMove, TurnRow
    <3>2. CASE \/ finish("no_delta", "no_delta")
               \/ \E p \in Proposal : finish("proposed", p)
      <4> PICK status \in {"no_delta", "proposed"},
                result \in Proposal \cup {"no_delta"} : finish(status, result)
        BY <3>2
      <4> DEFINE row == [turn[t] EXCEPT !.status = status, !.text = TextOf(worker[w].job),
                                        !.result = result]
      <4>1. turn'[t] = row
        BY <1>0, <2>3
      <4>2. row.status = status /\ row.prepared = turn[t].prepared
        BY <1>0 DEF TurnRow
      <4> QED BY <2>1, <2>3, <4>1, <4>2 DEF TurnMove
    <3> QED BY <2>2, <3>1, <3>2
  <2>4. CASE s # t
    BY <1>0, <2>2, <2>4 DEF TurnMove
  <2> QED BY <2>3, <2>4
<1>5. CASE Next /\ turn' # turn
  BY <1>2, <1>3, <1>4, <1>5
     DEF Next, WorkerStep, LoseLease, Snapshot, SucceedRefused, Crash, Accept, Reject,
         Retract, CanonMoves, Enqueue, LeaseExpires, RetryFallsDue, Retry, Cancel,
         SessionRecover, Recover, Exit, Spawn, Claim, Succeed, Fail, Resolve
<1> QED BY <1>1, <1>5 DEF vars

LEMMA ReceivedStays ==
  ASSUME TypeOK, OnlyReceived, [Next]_vars, NEW t \in Turn, t \in Received
  PROVE  t \in Received' /\ turn'[t].prepared = turn[t].prepared
<1>1. TurnMove(t)
  BY TurnSteps
<1> QED BY <1>1 DEF TurnMove, Received

(* A worker picks up a job only by claiming it.                               *)
LEMMA WorkerJobSteps ==
  ASSUME TypeOK, [Next]_vars, NEW w \in Worker, AtWork(worker'[w].pc)
  PROVE  \/ AtWork(worker[w].pc) /\ worker'[w].job = worker[w].job
         \/ /\ worker'[w].job \in Job
            /\ job[worker'[w].job].status # "absent"
<1>0. worker \in [Worker -> WorkerState] /\ worker[w] \in WorkerState
  BY DEF TypeOK
<1>1. CASE worker' = worker
  BY <1>1
<1>2. CASE \E v \in Worker, j \in Job : Claim(v, j)
  <2> PICK v \in Worker, j \in Job : Claim(v, j)
    BY <1>2
  <2>1. CASE v = w
    <3>1. worker'[w].job = j
      BY <1>0, <2>1, JobWitness DEF Claim, IdleWorker
    <3>2. job[j].status # "absent"
      BY DEF Claim, FirstDue, Due
    <3> QED BY <3>1, <3>2
  <2>2. CASE v # w
    BY <1>0, <2>2 DEF Claim
  <2> QED BY <2>1, <2>2
<1>3. CASE \E v \in Worker : Spawn(v) \/ WorkerStep(v) \/ Crash(v)
  <2> PICK v \in Worker : Spawn(v) \/ WorkerStep(v) \/ Crash(v)
    BY <1>3
  <2>1. CASE v # w
    <3>1. worker'[w] = worker[w]
      BY <1>0, <2>1 DEF WorkerStep, LoseLease, Snapshot, StartFactory, Extract,
                        Persist, Succeed, SucceedRefused, Fail, Crash,
                        Spawn, Recover, Exit
    <3> QED BY <3>1
  <2>2. CASE v = w
    <3>1. /\ worker' # [worker EXCEPT ![w] = IdleWorker]
          /\ worker' # [worker EXCEPT ![w] = NoWorker]
          /\ worker' # [worker EXCEPT ![w].pc = "looking"]
      BY <1>0 DEF IdleWorker, NoWorker, AtWork, WorkerState
    <3>2. \/ \E pc \in {"complete", "factory", "failing", "extracting"} :
               \E out : worker' = [worker EXCEPT ![w] = [@ EXCEPT !.pc = pc, !.out = out]]
          \/ \E f : worker' = [worker EXCEPT ![w] = [@ EXCEPT !.pc = "persist", !.found = f]]
          \/ worker' = [worker EXCEPT ![w].pc = "failing"]
      BY <2>2, <3>1 DEF WorkerStep, LoseLease, Snapshot, StartFactory, Extract,
                        Persist, Succeed, SucceedRefused, Fail, Crash,
                        Spawn, Recover, Exit
    <3>3. AtWork(worker[w].pc)
      BY <2>2, <3>1
         DEF AtWork, WorkerStep, LoseLease, Snapshot, StartFactory, Extract, Persist,
             Succeed, SucceedRefused, Fail, Crash, Spawn, Recover, Exit
    <3>4. /\ \A pc, out : [worker[w] EXCEPT !.pc = pc, !.out = out].job = worker[w].job
          /\ \A f : [worker[w] EXCEPT !.pc = "persist", !.found = f].job = worker[w].job
          /\ [worker[w] EXCEPT !.pc = "failing"].job = worker[w].job
      BY <1>0 DEF WorkerState
    <3>6. \/ \E pc, out : worker'[w] = [worker[w] EXCEPT !.pc = pc, !.out = out]
          \/ \E f : worker'[w] = [worker[w] EXCEPT !.pc = "persist", !.found = f]
          \/ worker'[w] = [worker[w] EXCEPT !.pc = "failing"]
      BY <1>0, <3>2, Zenon
    <3>5. worker'[w].job = worker[w].job
      <4>1. CASE \E pc, out : worker'[w] = [worker[w] EXCEPT !.pc = pc, !.out = out]
        BY <3>4, <4>1
      <4>2. CASE \E f : worker'[w] = [worker[w] EXCEPT !.pc = "persist", !.found = f]
        BY <3>4, <4>2
      <4>3. CASE worker'[w] = [worker[w] EXCEPT !.pc = "failing"]
        BY <3>4, <4>3
      <4> QED BY <3>6, <4>1, <4>2, <4>3
    <3> QED BY <3>3, <3>5
  <2> QED BY <2>1, <2>2
<1>4. CASE Next /\ worker' # worker
  BY <1>2, <1>3, <1>4
     DEF Next, PassBarrier, Prepare, Enqueue, LeaseExpires, RetryFallsDue, Retry,
         Cancel, Resolve, SessionRecover, Accept, Reject, Retract, CanonMoves
<1> QED BY <1>1, <1>4 DEF vars

LEMMA OnlyReceivedStep == TypeOK /\ OnlyReceived /\ [Next]_vars => OnlyReceived'
<1> SUFFICES ASSUME TypeOK, OnlyReceived, [Next]_vars PROVE OnlyReceived'
  OBVIOUS
<1>0. \A j \in Job : TurnOf(j) \in Turn
  BY JobParts
<1>1. ASSUME NEW j \in Job, job'[j].status # "absent"
      PROVE  TurnOf(j) \in Received'
  <2>1. CASE job[j].status # "absent"
    <3>1. TurnOf(j) \in Received
      BY <2>1 DEF OnlyReceived
    <3> QED BY <1>0, <3>1, ReceivedStays
  <2>2. CASE job[j].status = "absent"
    <3>1. JobMove(j)
      BY JobSteps
    <3>2. job' # job
      BY <1>1, <2>2
    <3>3. \E k \in Job : Enqueue(k)
      <4>1. \A k \in Job : LeaseExpires(k) \/ RetryFallsDue(k) \/ Retry(k) \/ Cancel(k) =>
              job'[j].status = "absent"
        BY <2>2 DEF TypeOK, LeaseExpires, RetryFallsDue, Retry, Cancel, Cancellable, JobRow
      <4>2. SessionRecover \/ (\E w \in Worker : Recover(w)) => job'[j].status = "absent"
        BY <2>2 DEF SessionRecover, Recover, Recovered, Stale
      <4>3. \A w \in Worker, k \in Job : Claim(w, k) => job'[j].status = "absent"
        BY <2>2 DEF TypeOK, Claim, FirstDue, Due
      <4>4. \A w \in Worker : Succeed(w) \/ Fail(w) => job'[j].status = "absent"
        BY <2>2 DEF TypeOK, Succeed, Fail, Leased
      <4> QED BY <1>1, <3>2, <4>1, <4>2, <4>3, <4>4
           DEF Next, vars, WorkerStep, PassBarrier, Prepare, Resolve, LoseLease,
               Snapshot, StartFactory, Extract, Persist, SucceedRefused, Crash,
               Accept, Reject, Retract, CanonMoves, Spawn, Exit
    <3>4. PICK k \in Job : Enqueue(k)
      BY <3>3
    <3>5. k = j
      BY <1>1, <2>2, <3>4 DEF Enqueue, TypeOK
    <3>6. TurnOf(j) \in Received /\ turn' = turn
      BY <1>0, <3>4, <3>5 DEF Enqueue, Received
    <3> QED BY <3>6 DEF Received
  <2> QED BY <2>1, <2>2
<1>2. ASSUME NEW w \in Worker, AtWork(worker'[w].pc)
      PROVE  TurnOf(worker'[w].job) \in Received'
  <2>1. worker[w].job \in Job
    BY DEF TypeOK, WorkerState
  <2>2. TurnOf(worker'[w].job) \in Received /\ worker'[w].job \in Job
    BY <1>2, <2>1, WorkerJobSteps DEF OnlyReceived
  <2> QED BY <1>0, <2>2, ReceivedStays
<1>3. ASSUME NEW p \in Proposal, proposal'[p].status # "absent"
      PROVE  TurnOf(proposal'[p].job) \in Received'
  <2>1. proposal[p].job \in Job
    BY DEF TypeOK, ProposalRow
  <2>2. CASE proposal[p].status # "absent"
    <3>1. ProposalMove(p)
      BY ProposalSteps
    <3>2. proposal'[p].job = proposal[p].job
      BY <2>2, <3>1 DEF ProposalMove
    <3>3. TurnOf(proposal[p].job) \in Received
      BY <2>2 DEF OnlyReceived
    <3> QED BY <1>0, <2>1, <3>2, <3>3, ReceivedStays
  <2>3. CASE proposal[p].status = "absent"
    <3>1. proposal' # proposal
      BY <1>3, <2>3
    <3>2. \E w \in Worker : Persist(w)
      <4>1. \A q \in Proposal : Accept(q) \/ Reject(q) \/ Retract(q) =>
              proposal'[p].status = "absent"
        BY <2>3 DEF TypeOK, Accept, Reject, Retract
      <4> QED BY <1>3, <3>1, <4>1
           DEF Next, vars, WorkerStep, PassBarrier, Prepare, Resolve, LoseLease,
               Snapshot, StartFactory, Extract, SucceedRefused, Crash, CanonMoves,
               Enqueue, LeaseExpires, RetryFallsDue, Retry, Cancel,
               SessionRecover, Recover, Exit, Spawn, Claim, Succeed, Fail
    <3>3. PICK w \in Worker : Persist(w)
      BY <3>2
    <3>6. PICK q \in Proposal, c \in Content :
            proposal' = [proposal EXCEPT ![q] = [status |-> "proposed",
                                                 job |-> worker[w].job,
                                                 content |-> c]]
      BY <1>3, <2>3, <3>3 DEF Persist
    <3>7. q = p
      BY <1>3, <2>3, <3>6 DEF TypeOK
    <3>4. proposal'[p].job = worker[w].job
      BY <3>6, <3>7 DEF TypeOK
    <3>5. TurnOf(worker[w].job) \in Received /\ worker[w].job \in Job
      BY <3>3 DEF Persist, OnlyReceived, AtWork, TypeOK, WorkerState
    <3> QED BY <1>0, <3>4, <3>5, ReceivedStays
  <2> QED BY <2>2, <2>3
<1> QED BY <1>1, <1>2, <1>3 DEF OnlyReceived

(* A proposal enters the canon only by being accepted.                        *)
LEMMA AcceptOnly ==
  ASSUME TypeOK, [Next]_vars, NEW p \in Proposal, proposal[p].status = "proposed",
         proposal'[p].status \in {"accepted", "retracted"}
  PROVE  Accept(p)
  <1>1. \A q \in Proposal \ {p} : Accept(q) \/ Reject(q) \/ Retract(q) =>
          proposal'[p] = proposal[p]
    BY DEF Accept, Reject, Retract, TypeOK
  <1>2. Reject(p) => proposal'[p].status = "rejected"
    BY DEF Reject, TypeOK, ProposalRow
  <1>3. ~ Retract(p)
    BY DEF Retract
  <1>4. \A w \in Worker : Persist(w) => proposal'[p] = proposal[p]
    BY DEF Persist, TypeOK
  <1>5. proposal' # proposal
    OBVIOUS
  <1> QED BY <1>1, <1>2, <1>3, <1>4, <1>5
       DEF Next, vars, WorkerStep, PassBarrier, Prepare, Resolve, LoseLease,
           Snapshot, StartFactory, Extract, SucceedRefused, Crash, CanonMoves,
           Enqueue, LeaseExpires, RetryFallsDue, Retry, Cancel, SessionRecover,
           Recover, Exit, Spawn, Claim, Succeed, Fail

LEMMA DecidedEarlierStep ==
  TypeOK /\ OnlyReceived /\ DecidedEarlier /\ [Next]_vars => DecidedEarlier'
<1> SUFFICES ASSUME TypeOK, OnlyReceived, DecidedEarlier, [Next]_vars,
                    NEW p \in Proposal,
                    proposal'[p].status \in {"accepted", "retracted"},
                    TurnOf(proposal'[p].job) \in AuthorityTurn
             PROVE  turn'[TurnOf(proposal'[p].job)].prepared < canon'
  BY DEF DecidedEarlier
<1> DEFINE t == TurnOf(proposal[p].job)
<1>1. ProposalMove(p)
  BY ProposalSteps
<1>2. /\ proposal[p].status # "absent"
      /\ proposal'[p].job = proposal[p].job
  BY <1>1 DEF ProposalMove
<1>3. t \in Turn /\ t \in Received /\ t \in AuthorityTurn
  BY <1>2, JobParts DEF OnlyReceived, TypeOK, ProposalRow
<1>4. turn'[t].prepared = turn[t].prepared
  BY <1>3, ReceivedStays
<1>5. canon \in Nat /\ turn[t].prepared \in Nat
  BY <1>3 DEF TypeOK, TurnRow
<1>6. canon' \in {canon, canon + 1}
  BY <1>5 DEF Next, vars, WorkerStep, PassBarrier, Prepare, Resolve, LoseLease,
       Snapshot, StartFactory, Extract, Persist, SucceedRefused, Crash, CanonMoves,
       Enqueue, LeaseExpires, RetryFallsDue, Retry, Cancel, SessionRecover, Recover,
       Exit, Spawn, Claim, Succeed, Fail, Accept, Reject, Retract, CanonAfter
<1>7. CASE proposal[p].status \in {"accepted", "retracted"}
  BY <1>2, <1>3, <1>4, <1>5, <1>6, <1>7 DEF DecidedEarlier
<1>8. CASE proposal[p].status = "proposed"
  <2>1. Accept(p)
    BY <1>8, AcceptOnly
  <2>2. turn[t].prepared = canon /\ canon' = canon + 1
    BY <1>3, <2>1 DEF Accept, Fresh, CanonAfter
  <2> QED BY <1>2, <1>4, <1>5, <2>2
<1> QED BY <1>1, <1>2, <1>7, <1>8 DEF ProposalMove

(* No two decisions on authority turns were extracted against the same canon  *)
(* revision, whatever their order of review.                                  *)
THEOREM QueueOneDecisionPerRevision == Spec => []OneDecisionPerRevision
<1>1. Init => OnlyReceived /\ DecidedEarlier /\ OneDecisionPerRevision
  BY JobWitness DEF Init, OnlyReceived, DecidedEarlier, OneDecisionPerRevision,
                   IdleWorker, NoWorker, AtWork
<1>2. /\ TypeOK /\ OnlyReceived /\ DecidedEarlier /\ OneDecisionPerRevision
      /\ [Next]_vars
      => OneDecisionPerRevision'
  <2> SUFFICES ASSUME TypeOK, OnlyReceived, DecidedEarlier, OneDecisionPerRevision,
                      [Next]_vars, NEW p \in Proposal, NEW q \in Proposal, p # q,
                      TurnOf(proposal'[p].job) \in AuthorityTurn,
                      TurnOf(proposal'[q].job) \in AuthorityTurn,
                      proposal'[p].status \in {"accepted", "retracted"},
                      proposal'[q].status \in {"accepted", "retracted"}
               PROVE  turn'[TurnOf(proposal'[p].job)].prepared
                        # turn'[TurnOf(proposal'[q].job)].prepared
    BY DEF OneDecisionPerRevision
  <2>1. ProposalMove(p) /\ ProposalMove(q)
    BY ProposalSteps
  <2>2. /\ proposal'[p].job = proposal[p].job /\ proposal[p].status # "absent"
        /\ proposal'[q].job = proposal[q].job /\ proposal[q].status # "absent"
    BY <2>1 DEF ProposalMove
  <2> DEFINE tp == TurnOf(proposal[p].job)
             tq == TurnOf(proposal[q].job)
  <2>3. tp \in Turn /\ tq \in Turn /\ tp \in Received /\ tq \in Received
    BY <2>2, JobParts DEF OnlyReceived, TypeOK, ProposalRow
  <2>4. /\ turn'[tp].prepared = turn[tp].prepared
        /\ turn'[tq].prepared = turn[tq].prepared
    BY <2>3, ReceivedStays
  <2>5. ASSUME NEW a \in {p, q}, NEW b \in {p, q}, a # b,
               proposal[a].status = "proposed"
        PROVE  turn[TurnOf(proposal[a].job)].prepared # turn[TurnOf(proposal[b].job)].prepared
    <3>1. Accept(a)
      BY <2>5, AcceptOnly
    <3>2. turn[TurnOf(proposal[a].job)].prepared = canon
      BY <3>1 DEF Accept, Fresh
    <3>3. proposal'[b] = proposal[b]
      BY <2>5, <3>1 DEF Accept, TypeOK
    <3>4. turn[TurnOf(proposal[b].job)].prepared < canon
      BY <2>2, <2>5, <3>3 DEF DecidedEarlier
    <3> QED BY <2>3, <3>2, <3>4 DEF TypeOK
  <2>6. CASE proposal[p].status = "proposed" \/ proposal[q].status = "proposed"
    BY <2>2, <2>4, <2>5, <2>6
  <2>7. CASE /\ proposal[p].status \in {"accepted", "retracted"}
             /\ proposal[q].status \in {"accepted", "retracted"}
    BY <2>2, <2>4, <2>7 DEF OneDecisionPerRevision
  <2>8. /\ proposal[p].status \in {"proposed", "accepted", "retracted"}
        /\ proposal[q].status \in {"proposed", "accepted", "retracted"}
    BY <2>1, <2>2 DEF ProposalMove
  <2> QED BY <2>6, <2>7, <2>8
<1> QED BY <1>1, <1>2, OnlyReceivedStep, DecidedEarlierStep, QueueTypeCorrect, PTL DEF Spec

-----------------------------------------------------------------------------
(* Refinement of ExtractionOutcome.                                           *)

Outcomes == [j \in Job |-> OutcomeOf(j)]

(* The moves of one outcome that the abstract specification allows.           *)
OutcomeMove(from, to) ==
  \/ from = "none" /\ to = "open"
  \/ from = "open" /\ to \in {"no_delta", "review", "cancelled"}
  \/ from = "review" /\ to \in {"accepted", "rejected"}
  \/ from = "accepted" /\ to = "retracted"

LEMMA MoveIsPromised ==
  ASSUME NEW k \in Job, NEW to, OutcomeMove(OutcomeOf(k), to),
         Outcomes' = [Outcomes EXCEPT ![k] = to]
  PROVE  Promise!Next
BY DEF OutcomeMove, Outcomes, Promise!Next, Promise!Move, Promise!Submit,
       Promise!NoDelta, Promise!Propose, Promise!Abandon, Promise!Accept,
       Promise!Reject, Promise!Retract

(* A step on one job moves its outcome as promised, or not at all.            *)
LEMMA JobStepIsPromised ==
  ASSUME TypeOK, ResultBound, [Next]_vars, NEW k \in Job, proposal' = proposal,
         \A j \in Job \ {k} : job'[j] = job[j]
  PROVE  Promise!Next \/ Outcomes' = Outcomes
<1> DEFINE to == OutcomeOf(k)'
<1>1. Outcomes' = [Outcomes EXCEPT ![k] = to]
  <2>1. \A j \in Job \ {k} : OutcomeOf(j)' = OutcomeOf(j)
    BY DEF OutcomeOf
  <2> QED BY <2>1 DEF Outcomes
<1>2. OutcomeMove(OutcomeOf(k), to) \/ to = OutcomeOf(k)
  <2>1. JobMove(k)
    BY JobSteps
  <2>2. \A p \in Bound(k) : p # "no_delta"
    BY QueueAssumption DEF Bound
  <2> QED BY <2>1, <2>2 DEF JobMove, OutcomeOf, OutcomeMove, Live
<1> HIDE DEF to
<1>3. CASE OutcomeMove(OutcomeOf(k), to)
  BY <1>1, <1>3, MoveIsPromised
<1>4. CASE to = OutcomeOf(k)
  BY <1>1, <1>4 DEF Outcomes
<1> QED BY <1>2, <1>3, <1>4

(* So does a review, which moves the outcome of the job the proposal is bound *)
(* to, if that job finalized it.                                              *)
LEMMA ReviewIsPromised ==
  ASSUME TypeOK, ResultBound, [Next]_vars, job' = job, NEW p \in Proposal,
         \A q \in Proposal \ {p} : proposal'[q] = proposal[q]
  PROVE  Promise!Next \/ Outcomes' = Outcomes
<1>0. p # "no_delta" /\ p # None
  BY QueueAssumption
<1>1. ProposalMove(p)
  BY ProposalSteps
<1>2. \A j \in Job : job[j].result # p => OutcomeOf(j)' = OutcomeOf(j)
  <2> SUFFICES ASSUME NEW j \in Job, job[j].result # p
               PROVE  OutcomeOf(j)' = OutcomeOf(j)
    OBVIOUS
  <2>1. job[j].status = "succeeded" => job[j].result \in (Proposal \cup {"no_delta"}) \ {p}
    BY DEF TypeOK, JobRow, ResultBound
  <2> QED BY <2>1 DEF OutcomeOf
<1>3. CASE \A j \in Job : job[j].result # p
  BY <1>2, <1>3 DEF Outcomes
<1>4. CASE \E j \in Job : job[j].result = p
  <2> PICK k \in Job : job[k].result = p
    BY <1>4
  <2> DEFINE to == OutcomeOf(k)'
  <2>1. /\ job[k].status = "succeeded"
        /\ proposal[p].status # "absent"
        /\ \A j \in Job \ {k} : job[j].result # p
    BY DEF ResultBound
  <2>2. Outcomes' = [Outcomes EXCEPT ![k] = to]
    <3>1. \A j \in Job \ {k} : OutcomeOf(j)' = OutcomeOf(j)
      BY <1>2, <2>1
    <3> QED BY <2>1, <3>1 DEF Outcomes
  <2>3. OutcomeMove(OutcomeOf(k), to) \/ to = OutcomeOf(k)
    BY <1>0, <1>1, <2>1 DEF ProposalMove, OutcomeOf, OutcomeMove
  <2> HIDE DEF to
  <2>4. CASE OutcomeMove(OutcomeOf(k), to)
    BY <2>1, <2>2, <2>4, MoveIsPromised
  <2>5. CASE to = OutcomeOf(k)
    BY <2>2, <2>5 DEF Outcomes
  <2> QED BY <2>3, <2>4, <2>5
<1> QED BY <1>3, <1>4

LEMMA StepIsPromised ==
  ASSUME TypeOK, ResultBound, [Next]_vars
  PROVE  Promise!Next \/ Outcomes' = Outcomes
<1>1. CASE job' = job /\ proposal' = proposal
  BY <1>1 DEF Outcomes, OutcomeOf
<1>2. CASE \E k \in Job : \/ Enqueue(k) \/ LeaseExpires(k) \/ RetryFallsDue(k)
                          \/ Retry(k) \/ Cancel(k)
  <2> PICK k \in Job : \/ Enqueue(k) \/ LeaseExpires(k) \/ RetryFallsDue(k)
                       \/ Retry(k) \/ Cancel(k)
    BY <1>2
  <2>1. proposal' = proposal /\ \A j \in Job \ {k} : job'[j] = job[j]
    BY DEF Enqueue, LeaseExpires, RetryFallsDue, Retry, Cancel, TypeOK
  <2> QED BY <2>1, JobStepIsPromised
<1>3. CASE \E w \in Worker : Succeed(w) \/ Fail(w) \/ \E k \in Job : Claim(w, k)
  <2> PICK w \in Worker : Succeed(w) \/ Fail(w) \/ \E k \in Job : Claim(w, k)
    BY <1>3
  <2>1. worker[w].job \in Job
    BY DEF TypeOK, WorkerState
  <2>2. \E k \in Job : proposal' = proposal /\ \A j \in Job \ {k} : job'[j] = job[j]
    BY <2>1 DEF Succeed, Fail, Claim, TypeOK
  <2> QED BY <2>2, JobStepIsPromised
<1>4. CASE SessionRecover \/ \E w \in Worker : Recover(w)
  <2>1. proposal' = proposal
    BY <1>4 DEF SessionRecover, Recover
  <2>2. \A j \in Job : \/ job'[j] = job[j]
                       \/ job[j].status = "running" /\ job'[j].status = "queued"
    <3>1. \A j \in Job : [job[j] EXCEPT !.status = "queued", !.owner = None,
                                        !.lease = "none", !.due = "now"].status = "queued"
      BY DEF TypeOK, JobRow
    <3>2. \A j \in Job : job'[j] = IF Stale(j)
            THEN [job[j] EXCEPT !.status = "queued", !.owner = None,
                                !.lease = "none", !.due = "now"]
            ELSE job[j]
      BY <1>4 DEF SessionRecover, Recover, Recovered
    <3> QED BY <3>1, <3>2 DEF Stale
  <2>3. \A j \in Job : OutcomeOf(j)' = OutcomeOf(j)
    BY <2>1, <2>2 DEF OutcomeOf
  <2> QED BY <2>3 DEF Outcomes
<1>5. CASE \E p \in Proposal : Accept(p) \/ Reject(p) \/ Retract(p)
  <2> PICK p \in Proposal : Accept(p) \/ Reject(p) \/ Retract(p)
    BY <1>5
  <2>1. job' = job /\ \A q \in Proposal \ {p} : proposal'[q] = proposal[q]
    BY DEF Accept, Reject, Retract, TypeOK
  <2> QED BY <2>1, ReviewIsPromised
<1>6. CASE \E w \in Worker : Persist(w) /\ proposal' # proposal
  <2> PICK w \in Worker : Persist(w) /\ proposal' # proposal
    BY <1>6
  <2>1. job' = job
    BY DEF Persist
  <2>2. \E p \in Proposal : \A q \in Proposal \ {p} : proposal'[q] = proposal[q]
    BY DEF Persist, TypeOK
  <2> QED BY <2>1, <2>2, ReviewIsPromised
<1> QED BY <1>1, <1>2, <1>3, <1>4, <1>5, <1>6
     DEF Next, vars, WorkerStep, PassBarrier, Prepare, Resolve, LoseLease, Snapshot,
         StartFactory, Extract, Persist, SucceedRefused, Crash, CanonMoves,
         Spawn, Exit

(* The queue implements the abstract life of an outcome.                      *)
THEOREM QueueImplementsOutcome == Spec => OutcomeRefinement
<1>1. Init => Promise!Init
  BY DEF Init, Promise!Init, OutcomeOf
<1>2. TypeOK /\ ResultBound /\ [Next]_vars => [Promise!Next]_Outcomes
  BY StepIsPromised
<1> QED BY <1>1, <1>2, QueueTypeCorrect, QueueResultBound, PTL
     DEF Spec, OutcomeRefinement, Promise!Spec, Outcomes
============================================================================
