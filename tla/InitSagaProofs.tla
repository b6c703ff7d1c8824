--------------------------- MODULE InitSagaProofs ---------------------------
(* Proofs about the initialization saga, for any sessions, processes and      *)
(* bounds.                                                                    *)
EXTENDS InitSaga, TLAPS

LEMMA DrivenType ==
  ASSUME NEW s \in Session, NEW x \in SessionRow, NEW y \in Driven(s, x)
  PROVE  /\ y \in SessionRow
         /\ y = [x EXCEPT !.status = y.status]
         /\ y.status \in {"NEEDS_INPUT", "READY_TO_PROPOSE"}
         /\ y.revision = x.revision /\ y.base = x.base
         /\ y.answers = x.answers /\ y.completion = x.completion
BY DEF Driven, SessionRow

LEMMA BusyType ==
  ASSUME TypeOK, NEW c \in Caller
  PROVE  /\ call[c] = Idle => call[c].pc = "idle"
         /\ call[c].pc = "save" => call[c] \in InterviewCall
         /\ call[c].pc \in {"register", "issue", "accept", "materialize", "verify",
              "receipt", "write", "confirm", "complete", "finish", "ready"}
              => call[c] \in SagaCall
BY DEF TypeOK, InterviewCall, SagaCall, Idle, Stopped

LEMMA GotoType ==
  ASSUME TypeOK, NEW c \in Caller, call[c] \in SagaCall,
         NEW pc \in {"accept", "materialize", "verify", "receipt",
                     "write", "confirm", "complete", "finish", "ready"},
         Goto(c, pc)
  PROVE  call' \in [Caller -> {Idle, Stopped} \cup InterviewCall \cup SagaCall]
<1>1. [call[c] EXCEPT !.pc = pc] \in SagaCall
  BY DEF SagaCall
<1>2. QED
  BY <1>1 DEF Goto, TypeOK

LEMMA ReturnType ==
  ASSUME TypeOK, NEW c \in Caller, Return(c)
  PROVE  call' \in [Caller -> {Idle, Stopped} \cup InterviewCall \cup SagaCall]
BY DEF Return, TypeOK

LEMMA LoadType ==
  ASSUME TypeOK, NEW c \in Caller, NEW s \in Session,
         NEW op \in {"advance", "answer", "propose", "cancel"},
         NEW stale \in BOOLEAN, NEW q \in Question \cup {None},
         NEW v \in Reply,
         Load(c, s, op, stale, q, v)
  PROVE  TypeOK'
<1>1. session[s] \in SessionRow
  BY DEF TypeOK
<1>2. [pc |-> "save", op |-> op, of |-> s, seen |-> session[s],
       stale |-> stale, question |-> q, choice |-> v] \in InterviewCall
  BY <1>1 DEF InterviewCall
<1>3. QED
  BY <1>2 DEF Load, TypeOK, interviewVars, canonVars, outcomeVars

LEMMA InitType == SagaAssumption /\ Init => TypeOK
<1> SUFFICES ASSUME SagaAssumption, Init PROVE TypeOK
  OBVIOUS
<1>1. NoSession \in SessionRow
  BY DEF NoSession, SessionRow, NoAnswers, Reply, Revision, SagaAssumption
<1>2. 0 \in Revision
  BY DEF Revision, SagaAssumption
<1>3. QED
  BY <1>1, <1>2 DEF Init, TypeOK, Idle, SpecRow, InitRow, NoAnswers, Reply

-----------------------------------------------------------------------------
(* Type correctness, one lemma per part of the system.                        *)

LEMMA InterviewType ==
  ASSUME SagaAssumption, TypeOK, NEW c \in Caller, Interview(c)
  PROVE  TypeOK'
<1> DEFINE s == call[c].of
           x == call[c].seen
<1>1. CASE Refuse(c)
  BY <1>1, ReturnType DEF Refuse, TypeOK, interviewVars, canonVars, outcomeVars
<1>2. ASSUME ~Refuse(c)
      PROVE  /\ call' \in [Caller -> {Idle, Stopped} \cup InterviewCall \cup SagaCall]
             /\ s \in Session /\ x \in SessionRow /\ Successor(c) \in SessionRow
             /\ call[c].op \in {"advance", "answer", "propose", "cancel"}
             /\ call[c].question \in Question \cup {None}
             /\ call[c].choice \in Reply
             /\ Saving(c, call[c].op)
  <2>1. call[c] \in InterviewCall
    BY <1>2, BusyType DEF Interview, Advance, Answer, Propose, Cancel, Saving
  <2>2. x \in SessionRow
    BY <2>1 DEF InterviewCall
  <2>3. Successor(c) \in SessionRow
    BY <2>2 DEF Successor, SessionRow
  <2>4. Return(c) /\ Saving(c, call[c].op)
    BY <1>2 DEF Interview, Advance, Answer, Propose, Cancel, Saving
  <2>5. QED
    BY <2>1, <2>2, <2>3, <2>4, ReturnType DEF InterviewCall
<1>3. CASE Advance(c) /\ ~Refuse(c)
  <2>1. PICK y \in SessionRow : session' = [session EXCEPT ![s] = y]
    <3>1. CASE call[c].stale
      <4>1. [Successor(c) EXCEPT !.status = "STALE_CANON"] \in SessionRow
        BY <1>2, <1>3 DEF SessionRow
      <4>2. QED
        BY <1>3, <3>1, <4>1 DEF Advance
    <3>2. CASE ~call[c].stale
      BY <1>2, <1>3, <3>2, DrivenType DEF Advance
    <3>3. QED
      BY <3>1, <3>2
  <2>2. QED
    BY <1>2, <1>3, <2>1 DEF Advance, TypeOK, canonVars, outcomeVars
<1>4. CASE Answer(c) /\ ~Refuse(c)
  <2> DEFINE y == Answered(Successor(c), call[c].question, call[c].choice)
  <2>1. y \in SessionRow
    BY <1>2, <1>4 DEF Answered, SessionRow, Reply
  <2>2. y.answers \in [Question -> Reply] /\ None \in Reply
    BY <2>1 DEF SessionRow, Reply
  <2>3. aux_under' \in [Session -> [Question -> [Question -> Reply]]]
    BY <1>2, <1>4, <2>2 DEF Answer, TypeOK, NoAnswers
  <2>4. QED
    BY <1>2, <1>4, <2>1, <2>3, DrivenType DEF Answer, TypeOK, canonVars, outcomeVars
<1>5. CASE Propose(c) /\ ~Refuse(c)
  <2>1. [Successor(c) EXCEPT !.status = "PROPOSAL_FROZEN"] \in SessionRow
    BY <1>2, <1>5 DEF SessionRow
  <2>2. QED
    BY <1>2, <1>5, <2>1 DEF Propose, TypeOK, canonVars, outcomeVars
<1>6. CASE Cancel(c) /\ ~Refuse(c)
  <2>1. [Successor(c) EXCEPT !.status = "CANCELLED"] \in SessionRow
    BY <1>2, <1>6 DEF SessionRow
  <2>2. QED
    BY <1>2, <1>6, <2>1 DEF Cancel, TypeOK, canonVars, outcomeVars
<1>7. QED
  BY <1>1, <1>3, <1>4, <1>5, <1>6 DEF Interview

LEMMA SurveyType ==
  ASSUME SagaAssumption, TypeOK, NEW c \in Caller, NEW s \in Session,
         Approve(c, s) \/ \E g \in Revision : Apply(c, s, g)
  PROVE  TypeOK'
<1>1. PICK r \in SagaCall : call' = [call EXCEPT ![c] = r]
  <2>1. CASE Approve(c, s)
    <3>1. PICK k \in Session \cup {None} :
            call' = [call EXCEPT ![c] = Saga("register", "approve", s, 0, 0, k)]
      BY <2>1 DEF Approve, FindSpec, SagaAssumption
    <3>2. Saga("register", "approve", s, 0, 0, k) \in SagaCall
      BY DEF Saga, SagaCall, SagaAssumption, Revision
    <3>3. QED
      BY <3>1, <3>2
  <2>2. ASSUME NEW g \in Revision, Apply(c, s, g)
        PROVE  \E r \in SagaCall : call' = [call EXCEPT ![c] = r]
    <3>1. ASSUME NEW n \in Revision
          PROVE  Saga("accept", "apply", s, g, n, None) \in SagaCall
      BY DEF Saga, SagaCall, SagaAssumption, Revision
    <3>2. ASSUME NEW k \in Session \cup {None}
          PROVE  Saga("register", "apply", s, g, 0, k) \in SagaCall
      BY DEF Saga, SagaCall, SagaAssumption, Revision
    <3>3. CASE FindAccepted(c, s, g)
      BY <3>1, <3>3 DEF FindAccepted, Accepted
    <3>4. CASE FindSpec(c, s, "apply", g)
      <4>1. PICK k \in Session \cup {None} :
              call' = [call EXCEPT ![c] = Saga("register", "apply", s, g, 0, k)]
        BY <3>4 DEF FindSpec, SagaAssumption
      <4>2. QED
        BY <3>2, <4>1
    <3>5. QED
      BY <2>2, <3>3, <3>4 DEF Apply
  <2>3. QED
    BY <2>1, <2>2
<1>2. UNCHANGED <<interviewVars, canonVars, outcomeVars>>
  BY DEF Approve, Apply, FindSpec, FindAccepted
<1>3. QED
  BY <1>1, <1>2 DEF TypeOK, interviewVars, canonVars, outcomeVars
LEMMA SagaType ==
  ASSUME SagaAssumption, TypeOK, NEW c \in Caller, SagaStep(c)
  PROVE  TypeOK'
<1> DEFINE s == call[c].of
<1>1. call[c] \in SagaCall
  BY BusyType DEF SagaStep, At, Register, Issue, Accept, AcceptAgain, AcceptRefused,
     Materialize, MaterializeRefused, Verify, DraftReceipt, KeepReceipt, WriteReceipt,
     Confirm, LoadComplete, Complete, CompleteMoved, MarkReady
<1>2. /\ call[c] \in SagaCall /\ s \in Session
      /\ call[c].base \in Revision /\ call[c].grant \in Revision
      /\ call[c].spec \in Session \cup {None} /\ call[c].at \in Nat
  BY <1>1 DEF SagaCall
<1>3. CASE Register(c)
  <2>1. PICK n \in Revision :
          /\ init' = IF init[s][n].status = "none"
                 THEN [init EXCEPT ![s][n] =
                         [status |-> "proposed", spec |-> call[c].spec, commit |-> 0]]
                 ELSE init
          /\ call' = [call EXCEPT ![c].base = n, ![c].spec = None,
                  ![c].pc = IF call[c].op = "approve" THEN "issue" ELSE "accept"]
    BY <1>2, <1>3 DEF Register, TypeOK, SessionRow
  <2>2. [call[c] EXCEPT !.base = n, !.spec = None,
           !.pc = IF call[c].op = "approve" THEN "issue" ELSE "accept"] \in SagaCall
    BY <1>2 DEF SagaCall
  <2>3. call' \in [Caller -> {Idle, Stopped} \cup InterviewCall \cup SagaCall]
    BY <2>1, <2>2 DEF TypeOK
  <2>4. init' \in [Session -> [Revision -> InitRow]]
    <3>1. [status |-> "proposed", spec |-> call[c].spec, commit |-> 0] \in InitRow
      BY <1>2 DEF InitRow, Revision, SagaAssumption
    <3>2. QED
      BY <1>2, <2>1, <3>1 DEF TypeOK
  <2>5. QED
    BY <1>3, <2>3, <2>4 DEF Register, TypeOK, interviewVars, outcomeVars
<1>4. CASE Issue(c)
  BY <1>2, <1>4, ReturnType DEF Issue, TypeOK, interviewVars, outcomeVars
<1>5. CASE Accept(c)
  <2>1. head + 1 \in Revision
    BY <1>5 DEF Accept, CommitToCanon, Commit, TypeOK, Revision, SagaAssumption
  <2>2. call' \in [Caller -> {Idle, Stopped} \cup InterviewCall \cup SagaCall]
    BY <1>2, <1>5, GotoType DEF Accept
  <2>3. init' \in [Session -> [Revision -> InitRow]]
    <3> DEFINE n == call[c].base
               r == [init[s][n] EXCEPT !.status = "accepted", !.commit = head + 1]
    <3>1. init' = [init EXCEPT ![s][n].status = "accepted", ![s][n].commit = head + 1]
      BY <1>5 DEF Accept
    <3>2. init[s][n] \in InitRow /\ init[s] \in [Revision -> InitRow] /\ n \in Revision
      BY <1>2 DEF TypeOK
    <3>3. r \in InitRow
      BY <2>1, <3>2 DEF InitRow
    <3>4. init' = [init EXCEPT ![s] = [init[s] EXCEPT ![n] = r]]
      BY <1>2, <3>1, <3>2 DEF TypeOK
    <3>5. QED
      BY <1>2, <3>2, <3>3, <3>4 DEF TypeOK
  <2>4. QED
    BY <1>5, <2>1, <2>2, <2>3
       DEF Accept, CommitToCanon, Commit, TypeOK, interviewVars, outcomeVars
<1>6. CASE AcceptAgain(c)
  BY <1>2, <1>6, GotoType DEF AcceptAgain, TypeOK, interviewVars, canonVars, outcomeVars
<1>7. CASE AcceptRefused(c)
  BY <1>2, <1>7, ReturnType DEF AcceptRefused, TypeOK, interviewVars, canonVars, outcomeVars
<1>8. CASE Materialize(c)
  BY <1>2, <1>8, GotoType DEF Materialize, TypeOK, interviewVars, canonVars
<1>9. CASE MaterializeRefused(c)
  BY <1>2, <1>9, ReturnType DEF MaterializeRefused, TypeOK, interviewVars, canonVars, outcomeVars
<1>10. CASE Verify(c)
  BY <1>2, <1>10, ReturnType, GotoType DEF Verify, TypeOK, interviewVars, canonVars, outcomeVars
<1>11. CASE DraftReceipt(c)
  <2>1. [call[c] EXCEPT !.pc = "write", !.head = head, !.at = canon] \in SagaCall
    <3>1. canon \in Nat /\ head \in Revision
      BY DEF TypeOK, Revision
    <3>2. QED
      BY <1>2, <3>1 DEF SagaCall
  <2>2. QED
    BY <1>11, <2>1 DEF DraftReceipt, TypeOK, interviewVars, canonVars, outcomeVars
<1>12. CASE KeepReceipt(c)
  BY <1>2, <1>12, ReturnType, GotoType DEF KeepReceipt, TypeOK, interviewVars, canonVars, outcomeVars
<1>13. CASE WriteReceipt(c)
  <2>1. receipt' \in [session : Session, base : Revision, head : Revision, active : Nat]
    BY <1>1, <1>2, <1>13 DEF WriteReceipt, SagaCall
  <2>2. QED
    BY <1>2, <1>13, <2>1, GotoType DEF WriteReceipt, TypeOK, interviewVars, canonVars
<1>14. CASE Confirm(c)
  BY <1>2, <1>14, ReturnType, GotoType DEF Confirm, TypeOK, interviewVars, canonVars, outcomeVars
<1>15. CASE LoadComplete(c)
  <2>1. session[s].revision \in Nat
    BY <1>2 DEF TypeOK, SessionRow
  <2>2. [call[c] EXCEPT !.pc = "finish", !.at = session[s].revision] \in SagaCall
    BY <1>2, <2>1 DEF SagaCall
  <2>3. call' \in [Caller -> {Idle, Stopped} \cup InterviewCall \cup SagaCall]
    <3>1. CASE Return(c)
      BY <3>1, ReturnType
    <3>2. CASE Goto(c, "ready")
      BY <1>2, <3>2, GotoType
    <3>3. CASE call' = [call EXCEPT ![c].pc = "finish", ![c].at = session[s].revision]
      BY <2>2, <3>3 DEF TypeOK
    <3>4. QED
      BY <1>15, <3>1, <3>2, <3>3 DEF LoadComplete
  <2>4. QED
    BY <1>15, <2>3 DEF LoadComplete, TypeOK, interviewVars, canonVars, outcomeVars
<1>16. CASE Complete(c)
  <2>1. [session[s] EXCEPT !.status = "COMPLETED", !.revision = @ + 1,
                           !.completion = call[c].base] \in SessionRow
    <3>1. session[s] \in SessionRow
      BY <1>2 DEF TypeOK
    <3>2. session[s].revision + 1 \in Nat /\ call[c].base \in Revision \cup {None}
      BY <1>2, <3>1 DEF SessionRow
    <3>3. QED
      BY <3>1, <3>2 DEF SessionRow
  <2>2. session' \in [Session -> SessionRow]
    BY <1>2, <1>16, <2>1 DEF Complete, TypeOK
  <2>3. QED
    BY <1>2, <1>16, <2>2, GotoType DEF Complete, TypeOK, canonVars, outcomeVars
<1>17. CASE CompleteMoved(c)
  BY <1>2, <1>17, ReturnType, GotoType DEF CompleteMoved, TypeOK, interviewVars, canonVars, outcomeVars
<1>18. CASE MarkReady(c)
  <2>1. ready' \in [session : Session, base : Revision]
    BY <1>2, <1>18 DEF MarkReady
  <2>2. QED
    BY <1>18, <2>1, ReturnType DEF MarkReady, TypeOK, interviewVars, canonVars
<1>19. QED
  BY <1>3, <1>4, <1>5, <1>6, <1>7, <1>8, <1>9, <1>10, <1>11, <1>12, <1>13,
     <1>14, <1>15, <1>16, <1>17, <1>18 DEF SagaStep

LEMMA OutsideType ==
  ASSUME SagaAssumption, TypeOK, NEW s \in Session,
         \/ Start(s) \/ ProposeSpec(s) \/ AcceptSpec(s) \/ RejectSpec(s)
         \/ RetractSpec(s) \/ RetractInit(s) \/ Edit \/ OtherCommit
  PROVE  TypeOK'
<1> USE DEF interviewVars, canonVars, outcomeVars
<1>1. Commit => head + 1 \in Revision /\ head' = head + 1
  BY DEF Commit, TypeOK, Revision, SagaAssumption
<1>2. CASE Start(s)
  <2>1. [NoSession EXCEPT !.revision = 1, !.base = canon] \in SessionRow
    BY DEF NoSession, NoAnswers, SessionRow, Reply, TypeOK
  <2>2. QED
    BY <1>2, <2>1, DrivenType DEF Start, TypeOK
<1>0. ASSUME NEW st \in {"proposed", "rejected", "retracted"}
      PROVE  [spec EXCEPT ![s].status = st] \in [Session -> SpecRow]
  <2>1. spec[s] \in SpecRow
    BY DEF TypeOK
  <2>2. [spec[s] EXCEPT !.status = st] \in SpecRow
    BY <2>1 DEF SpecRow
  <2>3. QED
    BY <2>2 DEF TypeOK
<1>3. CASE ProposeSpec(s)
  BY <1>3, <1>0 DEF ProposeSpec, TypeOK
<1>4. CASE AcceptSpec(s)
  <2>1. [status |-> "accepted", commit |-> head + 1] \in SpecRow
    BY <1>1, <1>4 DEF AcceptSpec, CommitToCanon, SpecRow
  <2>2. QED
    BY <1>1, <1>4, <2>1 DEF AcceptSpec, CommitToCanon, TypeOK
<1>5. CASE RejectSpec(s)
  BY <1>5, <1>0 DEF RejectSpec, TypeOK
<1>6. CASE RetractSpec(s)
  BY <1>1, <1>6, <1>0 DEF RetractSpec, CommitToCanon, TypeOK
<1>7. CASE RetractInit(s)
  <2>1. init' \in [Session -> [Revision -> InitRow]]
    <3>1. PICK n \in Revision :
            init' = [init EXCEPT ![s][n].status = "retracted"]
      BY <1>7 DEF RetractInit, Accepted
    <3>2. init[s][n] \in InitRow
      BY DEF TypeOK
    <3>3. [init[s][n] EXCEPT !.status = "retracted"] \in InitRow
      BY <3>2 DEF InitRow
    <3>4. QED
      BY <3>1, <3>3 DEF TypeOK
  <2>2. QED
    BY <1>1, <1>7, <2>1 DEF RetractInit, CommitToCanon, TypeOK
<1>8. CASE Edit
  BY <1>8 DEF Edit, TypeOK
<1>9. CASE OtherCommit
  BY <1>1, <1>9 DEF OtherCommit, CommitToCanon, TypeOK
<1>10. QED
  BY <1>2, <1>3, <1>4, <1>5, <1>6, <1>7, <1>8, <1>9

LEMMA StepType == SagaAssumption /\ TypeOK /\ [Next]_vars => TypeOK'
<1> SUFFICES ASSUME SagaAssumption, TypeOK, [Next]_vars PROVE TypeOK'
  OBVIOUS
<1>1. ASSUME NEW s \in Session,
             Start(s) \/ ProposeSpec(s) \/ AcceptSpec(s) \/ RejectSpec(s)
               \/ RetractSpec(s) \/ RetractInit(s)
      PROVE  TypeOK'
  BY <1>1, OutsideType
<1>2. CASE Edit \/ OtherCommit
  BY <1>2 DEF Edit, OtherCommit, CommitToCanon, Commit, TypeOK, Revision, SagaAssumption,
     interviewVars, canonVars, outcomeVars
<1>3. ASSUME NEW c \in Caller, NEW s \in Session,
             \/ LoadAdvance(c, s) \/ LoadAnswer(c, s)
             \/ LoadPropose(c, s) \/ LoadCancel(c, s)
      PROVE  TypeOK'
  BY <1>3, LoadType DEF LoadAdvance, LoadAnswer, LoadPropose, LoadCancel,
     SagaAssumption, Reply
<1>4. ASSUME NEW c \in Caller, NEW s \in Session,
             Approve(c, s) \/ \E g \in Revision : Apply(c, s, g)
      PROVE  TypeOK'
  BY <1>4, SurveyType
<1>5. ASSUME NEW c \in Caller, Interview(c)
      PROVE  TypeOK'
  BY <1>5, InterviewType
<1>6. ASSUME NEW c \in Caller, SagaStep(c)
      PROVE  TypeOK'
  BY <1>6, SagaType
<1>7. ASSUME NEW c \in Caller, Stop(c) \/ Restart(c)
      PROVE  TypeOK'
  BY <1>7, ReturnType DEF Stop, Restart, TypeOK, interviewVars, canonVars, outcomeVars
<1>8. CASE UNCHANGED vars
  BY <1>8 DEF vars, TypeOK, interviewVars, canonVars, outcomeVars
<1>9. QED
  BY <1>1, <1>2, <1>3, <1>4, <1>5, <1>6, <1>7, <1>8 DEF Next

(* Whatever is asked, answered, registered, accepted, retracted, written or   *)
(* stopped, each row and each call keeps its type.                            *)
THEOREM SagaTypeCorrect == Spec => []TypeOK
<1>1. SagaAssumption
  BY SagaAssumption
<1>2. QED
  BY <1>1, InitType, StepType, PTL DEF Spec
-----------------------------------------------------------------------------
(* The canon is never ahead of the head, so a commit to the canon moves both. *)

HeadOK == canon <= head

LEMMA HeadMoves ==
  ASSUME [Next]_vars
  PROVE  UNCHANGED <<canon, head>> \/ CommitToCanon \/ (Commit /\ UNCHANGED canon)
<1> USE DEF canonVars
<1>1. ASSUME NEW s \in Session,
             Start(s) \/ ProposeSpec(s) \/ AcceptSpec(s) \/ RejectSpec(s)
               \/ RetractSpec(s) \/ RetractInit(s)
      PROVE  UNCHANGED <<canon, head>> \/ CommitToCanon
  BY <1>1 DEF Start, ProposeSpec, AcceptSpec, RejectSpec, RetractSpec, RetractInit
<1>2. CASE Edit \/ OtherCommit
  BY <1>2 DEF Edit, OtherCommit
<1>3. ASSUME NEW c \in Caller, NEW s \in Session,
             \/ LoadAdvance(c, s) \/ LoadAnswer(c, s) \/ LoadPropose(c, s) \/ LoadCancel(c, s)
             \/ Approve(c, s) \/ \E g \in Revision : Apply(c, s, g)
      PROVE  UNCHANGED <<canon, head>>
  BY <1>3 DEF LoadAdvance, LoadAnswer, LoadPropose, LoadCancel, Load,
     Approve, Apply, FindAccepted, FindSpec
<1>4. ASSUME NEW c \in Caller, Interview(c) \/ Stop(c) \/ Restart(c)
      PROVE  UNCHANGED <<canon, head>>
  BY <1>4 DEF Interview, Advance, Answer, Propose, Cancel, Refuse, Stop, Restart
<1>5. ASSUME NEW c \in Caller, SagaStep(c)
      PROVE  UNCHANGED <<canon, head>> \/ CommitToCanon
  BY <1>5 DEF SagaStep, Register, Issue, Accept, AcceptAgain, AcceptRefused,
     Materialize, MaterializeRefused, Verify, DraftReceipt, KeepReceipt, WriteReceipt,
     Confirm, LoadComplete, Complete, CompleteMoved, MarkReady
<1>6. CASE UNCHANGED vars
  BY <1>6 DEF vars
<1>7. QED
  BY <1>1, <1>2, <1>3, <1>4, <1>5, <1>6 DEF Next

LEMMA StepHead == TypeOK /\ HeadOK /\ [Next]_vars => HeadOK'
<1> SUFFICES ASSUME TypeOK, HeadOK, [Next]_vars PROVE HeadOK'
  OBVIOUS
<1>1. canon \in Nat /\ head \in Nat
  BY DEF TypeOK, Revision
<1>2. QED
  BY <1>1, HeadMoves DEF HeadOK, CommitToCanon, Commit

(* The inductive invariant.                                                   *)

SagaPc == {"register", "issue", "accept", "materialize", "verify", "receipt",
           "write", "confirm", "complete", "finish", "ready"}
AfterAccept == SagaPc \ {"register", "issue", "accept"}
Committed == {"accepted", "retracted"}

(* What a call loaded is the session as it is, or one the save will refuse;   *)
(* a completed session may only go stale or be cancelled.                     *)
SeenOK(c) ==
  call[c].pc = "save" =>
    LET s == call[c].of
        x == call[c].seen
    IN
    /\ x.revision <= session[s].revision
    /\ x.revision = session[s].revision => x = session[s]
    /\ x.completion # None =>
         call[c].op = "cancel" \/ (call[c].op = "advance" /\ call[c].stale)
    /\ call[c].op = "answer" => call[c].question \in Question

(* A session that is not started has nothing; a registration lies between the *)
(* base of its session and the canon, a commit below the canon; a completed   *)
(* session is not frozen, and was started below the canon.                    *)
SessionOK(s) ==
  /\ session[s].status = "none" =>
       /\ session[s].revision = 0 /\ session[s].completion = None
       /\ session[s].answers = NoAnswers
       /\ proposal[s] = None /\ grant[s] = {}
       /\ \A n \in Revision : init[s][n].status = "none"
  /\ session[s].base <= canon
  /\ session[s].completion # None =>
       session[s].status # "PROPOSAL_FROZEN" /\ session[s].base < canon
  /\ \A n \in Revision :
       /\ init[s][n].status # "none" => session[s].base <= n /\ n <= canon
       /\ init[s][n].status \in Committed => n < canon
  /\ \A g \in grant[s] : g <= canon

(* What a call of the saga relies on where it is.  An apply whose approval is *)
(* for the revision of now found nothing accepted, or found what it was       *)
(* approved for.                                                              *)
SagaOK(c) ==
  LET s == call[c].of
      n == call[c].base
      g == call[c].grant
  IN
  call[c].pc \in SagaPc =>
    /\ session[s].status # "none"
    /\ call[c].pc # "register" => session[s].base <= n
    /\ call[c].pc \in {"issue", "accept"} => init[s][n].status # "none"
    /\ call[c].pc = "issue" => call[c].op = "approve"
    /\ call[c].pc = "accept" => call[c].op = "apply"
    /\ call[c].pc \in AfterAccept => n < canon
    /\ call[c].pc \in AfterAccept \ {"materialize"} => written[s][n]
    /\ call[c].pc = "finish" =>
         /\ call[c].at <= session[s].revision
         /\ call[c].at = session[s].revision => session[s].status = "PROPOSAL_FROZEN"
    /\ call[c].pc = "ready" => session[s].completion = n
    /\ call[c].pc \in {"register", "accept"} /\ call[c].op = "apply" =>
         /\ g <= canon
         /\ g = canon =>
              \/ Accepted(s) = {}
              \/ call[c].pc = "accept" /\ init[s][n].status \in Committed

IInv ==
  /\ \A s \in Session : SessionOK(s)
  /\ \A c \in Caller : SeenOK(c) /\ SagaOK(c)
  /\ NoStaleAnswer /\ OneInForce /\ ReadyIsComplete

(* What a step may do to a session, and to what is registered for it.         *)
Kept(s) ==
  /\ session[s].revision <= session'[s].revision
  /\ session[s].revision = session'[s].revision => session'[s] = session[s]
  /\ session[s].status # "none" =>
       session'[s].status # "none" /\ session'[s].base = session[s].base
  /\ session[s].completion # None => session'[s].completion = session[s].completion

Grows(s) ==
  /\ canon <= canon'
  /\ \A n \in Revision :
       /\ written[s][n] => written'[s][n]
       /\ init[s][n].status # "none" => init'[s][n].status # "none"
       /\ init[s][n].status \in Committed => init'[s][n].status \in Committed
  /\ Accepted(s)' \subseteq Accepted(s) \/ canon < canon'

SameAnswers(s) ==
  session'[s].answers = session[s].answers /\ aux_under'[s] = aux_under[s]

LEMMA InitInv == SagaAssumption /\ Init => IInv
<1> SUFFICES ASSUME SagaAssumption, Init PROVE IInv
  OBVIOUS
<1>1. ASSUME NEW s \in Session
      PROVE  SessionOK(s) /\ Accepted(s) = {} /\ session[s].answers = NoAnswers
  <2>1. /\ session[s] = NoSession /\ proposal[s] = None /\ grant[s] = {} /\ canon = 0
        /\ \A n \in Revision : init[s][n].status = "none"
    BY DEF Init
  <2>2. Accepted(s) = {}
    BY <2>1 DEF Accepted
  <2>3. QED
    BY <2>1, <2>2 DEF SessionOK, NoSession, Committed
<1>2. \A c \in Caller : SeenOK(c) /\ SagaOK(c)
  BY DEF Init, SeenOK, SagaOK, Idle, SagaPc
<1>3. NoStaleAnswer /\ OneInForce /\ ReadyIsComplete
  BY <1>1 DEF Init, NoStaleAnswer, OneInForce, ReadyIsComplete, NoAnswers
<1>4. QED
  BY <1>1, <1>2, <1>3 DEF IInv

(* A call that does not act keeps what it relies on.                          *)
LEMMA OthersKeep ==
  ASSUME SagaAssumption, TypeOK, TypeOK', NEW c \in Caller,
         SeenOK(c), SagaOK(c), UNCHANGED call[c],
         \A s \in Session : Kept(s) /\ Grows(s)
  PROVE  SeenOK(c)' /\ SagaOK(c)'
<1> DEFINE s == call[c].of
           n == call[c].base
           g == call[c].grant
<1>1. canon \in Nat /\ canon' \in Nat
  BY DEF TypeOK, Revision
<1>2. ASSUME s \in Session
      PROVE  session[s].revision \in Nat /\ session'[s].revision \in Nat
  BY <1>2 DEF TypeOK, SessionRow
<1>3. SeenOK(c)'
  <2>1. SUFFICES ASSUME call[c].pc = "save"
                 PROVE  SeenOK(c)'
    BY DEF SeenOK
  <2>2. s \in Session /\ call[c].seen.revision \in Nat
    BY <2>1, BusyType DEF InterviewCall, SessionRow
  <2>3. Kept(s)
    BY <2>2
  <2>4. QED
    BY <1>2, <2>1, <2>2, <2>3 DEF SeenOK, Kept
<1>4. SagaOK(c)'
  <2>1. SUFFICES ASSUME call[c].pc \in SagaPc
                 PROVE  SagaOK(c)'
    BY DEF SagaOK
  <2>2. s \in Session /\ n \in Revision /\ g \in Revision /\ call[c].at \in Nat
    BY <2>1, BusyType DEF SagaCall, SagaPc
  <2>3. n \in Nat /\ g \in Nat /\ n # None
    BY <2>2 DEF Revision, SagaAssumption
  <2>4. Kept(s) /\ Grows(s)
    BY <2>2
  <2>5. session'[s].status # "none" /\ session'[s].base = session[s].base
    BY <2>1, <2>4 DEF Kept, SagaOK
  <2>6. call[c].pc = "finish" =>
          /\ call[c].at <= session'[s].revision
          /\ call[c].at = session'[s].revision => session'[s].status = "PROPOSAL_FROZEN"
    BY <1>2, <2>1, <2>2, <2>4 DEF Kept, SagaOK
  <2>7. call[c].pc = "ready" => session'[s].completion = n
    BY <2>1, <2>3, <2>4 DEF Kept, SagaOK
  <2>8. call[c].pc \in {"register", "accept"} /\ call[c].op = "apply" =>
          /\ g <= canon'
          /\ g = canon' =>
               \/ Accepted(s)' = {}
               \/ call[c].pc = "accept" /\ init'[s][n].status \in Committed
    <3>1. SUFFICES ASSUME call[c].pc \in {"register", "accept"}, call[c].op = "apply"
                   PROVE  /\ g <= canon'
                          /\ g = canon' =>
                               \/ Accepted(s)' = {}
                               \/ call[c].pc = "accept" /\ init'[s][n].status \in Committed
      OBVIOUS
    <3>2. /\ g <= canon
          /\ g = canon =>
               \/ Accepted(s) = {}
               \/ call[c].pc = "accept" /\ init[s][n].status \in Committed
      BY <2>1, <3>1 DEF SagaOK
    <3>3. canon <= canon' /\ (canon = canon' => Accepted(s)' \subseteq Accepted(s))
      BY <1>1, <2>4 DEF Grows
    <3>4. init[s][n].status \in Committed => init'[s][n].status \in Committed
      BY <2>2, <2>4 DEF Grows
    <3>5. QED
      BY <1>1, <2>3, <3>2, <3>3, <3>4
  <2>9. /\ call[c].pc # "register" => session'[s].base <= n
        /\ call[c].pc \in {"issue", "accept"} => init'[s][n].status # "none"
        /\ call[c].pc \in AfterAccept => n < canon'
        /\ call[c].pc \in AfterAccept \ {"materialize"} => written'[s][n]
    BY <1>1, <2>1, <2>2, <2>3, <2>4, <2>5 DEF SagaOK, Grows
  <2>10. call'[c] = call[c]
    OBVIOUS
  <2>11. /\ call[c].pc = "issue" => call[c].op = "approve"
         /\ call[c].pc = "accept" => call[c].op = "apply"
    BY <2>1 DEF SagaOK
  <2>12. QED
    BY <2>5, <2>6, <2>7, <2>8, <2>9, <2>10, <2>11 DEF SagaOK
<1>5. QED
  BY <1>3, <1>4

(* A step that leaves the interviews and the canon alone.                     *)
LEMMA StillKeeps ==
  ASSUME SagaAssumption, TypeOK, \A s \in Session : SessionOK(s),
         UNCHANGED <<session, proposal, canon, init, grant, written>>
  PROVE  \A s \in Session : Kept(s) /\ Grows(s) /\ SessionOK(s)'
<1> SUFFICES ASSUME NEW s \in Session PROVE Kept(s) /\ Grows(s) /\ SessionOK(s)'
  OBVIOUS
<1>1. canon \in Nat /\ session[s].revision \in Nat
  BY DEF TypeOK, Revision, SessionRow
<1>2. SessionOK(s)'
  BY DEF SessionOK
<1>3. QED
  BY <1>1, <1>2 DEF Kept, Grows, Accepted

-----------------------------------------------------------------------------
(* The interview.                                                             *)

(* What a save that is not refused does to its session.                       *)
LEMMA SaveMoves ==
  ASSUME SagaAssumption, TypeOK, NEW c \in Caller, SeenOK(c),
         Advance(c) \/ Answer(c) \/ Propose(c) \/ Cancel(c)
  PROVE  LET s == call[c].of IN
         /\ s \in Session /\ call[c] \in InterviewCall /\ call[c].seen = session[s]
         /\ call' = [call EXCEPT ![c] = Idle]
         /\ \E x \in SessionRow :
              /\ session' = [session EXCEPT ![s] = x]
              /\ x.revision = session[s].revision + 1 /\ x.base = session[s].base
              /\ x.completion = session[s].completion
              /\ x.status # "none"
              /\ x.status = "PROPOSAL_FROZEN" => x.completion = None
              /\ ~Answer(c) => x.answers = session[s].answers
              /\ Answer(c) => x.answers =
                   Answered(Successor(c), call[c].question, call[c].choice).answers
<1> DEFINE s == call[c].of
           P(x) == /\ session' = [session EXCEPT ![s] = x]
                   /\ x.revision = session[s].revision + 1 /\ x.base = session[s].base
                   /\ x.completion = session[s].completion
                   /\ x.status # "none"
                   /\ x.status = "PROPOSAL_FROZEN" => x.completion = None
                   /\ ~Answer(c) => x.answers = session[s].answers
                   /\ Answer(c) => x.answers =
                        Answered(Successor(c), call[c].question, call[c].choice).answers
<1>1. call[c].pc = "save" /\ Unmoved(s, call[c].seen) /\ call' = [call EXCEPT ![c] = Idle]
  BY DEF Advance, Answer, Propose, Cancel, Saving, Return
<1>2. call[c] \in InterviewCall
  BY <1>1, BusyType
<1>3. s \in Session /\ session[s] \in SessionRow
  BY <1>2 DEF InterviewCall, TypeOK
<1>4. call[c].seen = session[s]
  BY <1>1 DEF SeenOK, Unmoved
<1>5. Successor(c) = [session[s] EXCEPT !.revision = session[s].revision + 1]
  BY <1>4 DEF Successor
<1>6. /\ Successor(c) \in SessionRow
      /\ Successor(c).revision = session[s].revision + 1
      /\ Successor(c).base = session[s].base
      /\ Successor(c).completion = session[s].completion
      /\ Successor(c).answers = session[s].answers
  BY <1>3, <1>5 DEF SessionRow
<1>7. session[s].completion # None =>
        call[c].op = "cancel" \/ (call[c].op = "advance" /\ call[c].stale)
  BY <1>1, <1>4 DEF SeenOK
<1>8. \E x \in SessionRow : P(x)
  <2>1. CASE Advance(c) /\ ~Answer(c)
    <3>1. CASE call[c].stale
      <4>1. session' = [session EXCEPT ![s] = [Successor(c) EXCEPT !.status = "STALE_CANON"]]
        BY <2>1, <3>1 DEF Advance
      <4>2. [Successor(c) EXCEPT !.status = "STALE_CANON"] \in SessionRow
        BY <1>6 DEF SessionRow
      <4>3. P([Successor(c) EXCEPT !.status = "STALE_CANON"])
        BY <1>6, <2>1, <4>1 DEF SessionRow
      <4>4. QED
        BY <4>2, <4>3
    <3>2. CASE ~call[c].stale
      <4>1. PICK x \in Driven(s, Successor(c)) : session' = [session EXCEPT ![s] = x]
        BY <2>1, <3>2 DEF Advance
      <4>2. QED
        BY <1>3, <1>6, <2>1, <4>1, DrivenType
    <3>3. QED
      BY <3>1, <3>2
  <2>2. CASE Answer(c)
    <3> DEFINE y == Answered(Successor(c), call[c].question, call[c].choice)
    <3>1. PICK x \in Driven(s, y) : session' = [session EXCEPT ![s] = x]
      BY <2>2 DEF Answer
    <3>2. /\ y \in SessionRow
          /\ y.revision = Successor(c).revision /\ y.base = Successor(c).base
          /\ y.completion = Successor(c).completion
      BY <1>2, <1>6 DEF Answered, SessionRow, InterviewCall, Reply
    <3>3. /\ x \in SessionRow /\ x.status \in {"NEEDS_INPUT", "READY_TO_PROPOSE"}
          /\ x.revision = y.revision /\ x.base = y.base
          /\ x.answers = y.answers /\ x.completion = y.completion
      BY <1>3, <3>1, <3>2, DrivenType
    <3>4. P(x)
      BY <1>6, <2>2, <3>1, <3>2, <3>3
    <3>5. QED
      BY <3>3, <3>4
  <2>3. CASE Propose(c) /\ ~Answer(c)
    <3>1. session' = [session EXCEPT ![s] = [Successor(c) EXCEPT !.status = "PROPOSAL_FROZEN"]]
      BY <2>3 DEF Propose
    <3>2. [Successor(c) EXCEPT !.status = "PROPOSAL_FROZEN"] \in SessionRow
      BY <1>6 DEF SessionRow
    <3>3. session[s].completion = None
      BY <1>7, <2>3 DEF Propose, Saving
    <3>4. P([Successor(c) EXCEPT !.status = "PROPOSAL_FROZEN"])
      BY <1>6, <2>3, <3>1, <3>3 DEF SessionRow
    <3>5. QED
      BY <3>2, <3>4
  <2>4. CASE Cancel(c) /\ ~Answer(c)
    <3>1. session' = [session EXCEPT ![s] = [Successor(c) EXCEPT !.status = "CANCELLED"]]
      BY <2>4 DEF Cancel
    <3>2. [Successor(c) EXCEPT !.status = "CANCELLED"] \in SessionRow
      BY <1>6 DEF SessionRow
    <3>3. P([Successor(c) EXCEPT !.status = "CANCELLED"])
      BY <1>6, <2>4, <3>1 DEF SessionRow
    <3>4. QED
      BY <3>2, <3>3
  <2>5. QED
    BY <2>1, <2>2, <2>3, <2>4
<1>9. QED
  BY <1>1, <1>2, <1>3, <1>4, <1>8

(* A step that moves one session on as a save or a completion does.           *)
LEMMA MovedKeeps ==
  ASSUME SagaAssumption, TypeOK, NEW s \in Session, NEW x \in SessionRow,
         \A t \in Session : SessionOK(t),
         session' = [session EXCEPT ![s] = x],
         x.revision = session[s].revision + 1, x.base = session[s].base,
         session[s].completion # None => x.completion = session[s].completion,
         x.status # "none",
         x.completion # None => x.status # "PROPOSAL_FROZEN" /\ x.base < canon,
         \A t \in Session : session[t].status = "none" /\ t # s => proposal'[t] = proposal[t],
         UNCHANGED <<canon, init, grant, written>>
  PROVE  \A t \in Session : Kept(t) /\ Grows(t) /\ SessionOK(t)'
<1> SUFFICES ASSUME NEW t \in Session PROVE Kept(t) /\ Grows(t) /\ SessionOK(t)'
  OBVIOUS
<1>1. /\ canon \in Nat /\ session[t] \in SessionRow
      /\ session[t].revision \in Nat /\ x.revision \in Nat
  BY DEF TypeOK, Revision, SessionRow
<1>2. /\ t = s => session'[t] = x
      /\ t # s => session'[t] = session[t]
  BY DEF TypeOK
<1>3. Grows(t)
  BY <1>1 DEF Grows, Accepted
<1>4. CASE t = s
  BY <1>1, <1>2, <1>3, <1>4 DEF Kept, SessionOK
<1>5. CASE t # s
  BY <1>1, <1>2, <1>3, <1>5 DEF Kept, SessionOK
<1>6. QED
  BY <1>4, <1>5

LEMMA InterviewKeeps ==
  ASSUME SagaAssumption, TypeOK, IInv, NEW c \in Caller, Interview(c)
  PROVE  /\ \A s \in Session : Kept(s) /\ Grows(s) /\ SessionOK(s)'
         /\ call' = [call EXCEPT ![c] = Idle]
         /\ UNCHANGED <<canon, init, written, ready>>
<1>1. SeenOK(c) /\ \A s \in Session : SessionOK(s)
  BY DEF IInv
<1>2. CASE Refuse(c)
  BY <1>1, <1>2, StillKeeps
     DEF Refuse, Return, interviewVars, canonVars, outcomeVars
<1>3. CASE ~Refuse(c)
  <2> DEFINE s == call[c].of
  <2>1. Advance(c) \/ Answer(c) \/ Propose(c) \/ Cancel(c)
    BY <1>3 DEF Interview
  <2>2. s \in Session /\ call' = [call EXCEPT ![c] = Idle]
    BY <1>1, <2>1, SaveMoves
  <2>3. PICK x \in SessionRow :
          /\ session' = [session EXCEPT ![s] = x]
          /\ x.revision = session[s].revision + 1 /\ x.base = session[s].base
          /\ x.completion = session[s].completion
          /\ x.status # "none"
          /\ x.status = "PROPOSAL_FROZEN" => x.completion = None
    BY <1>1, <2>1, SaveMoves
  <2>4. UNCHANGED <<canon, init, grant, written, ready>>
    BY <2>1 DEF Advance, Answer, Propose, Cancel, canonVars, outcomeVars
  <2>5. \A t \in Session : t # s => proposal'[t] = proposal[t]
    BY <2>1 DEF Advance, Answer, Propose, Cancel, TypeOK
  <2>6. x.completion # None => x.status # "PROPOSAL_FROZEN" /\ x.base < canon
    BY <1>1, <2>2, <2>3 DEF SessionOK
  <2>7. QED
    BY <1>1, <2>2, <2>3, <2>4, <2>5, <2>6, MovedKeeps
<1>4. QED
  BY <1>2, <1>3

(* An answer drops what was answered under the one it changes, and what that  *)
(* builds on it reaches in one step.                                          *)
LEMMA AnswerFresh ==
  ASSUME SagaAssumption, TypeOK, IInv, NEW c \in Caller, Answer(c)
  PROVE  NoStaleAnswer'
<1> DEFINE s == call[c].of
           q == call[c].question
           v == call[c].choice
           y == Answered(Successor(c), q, v)
<1>1. SeenOK(c)
  BY DEF IInv
<1>2. /\ s \in Session /\ call[c] \in InterviewCall /\ call[c].seen = session[s]
  BY <1>1, SaveMoves
<1>3. PICK x \in SessionRow : session' = [session EXCEPT ![s] = x] /\ x.answers = y.answers
  BY <1>1, SaveMoves
<1>4. session[s] \in SessionRow
  BY <1>2 DEF TypeOK
<1>5. Successor(c).answers = session[s].answers
  BY <1>2, <1>4 DEF Successor, SessionRow
<1>6. \A p \in Question : y.answers[p] =
        IF p = q THEN v
        ELSE IF session[s].answers[q] # v /\ p \in Downstream[q] THEN None
        ELSE session[s].answers[p]
  <2>1. Successor(c) \in SessionRow
    BY <1>2, <1>4 DEF Successor, SessionRow
  <2>2. y.answers = [p \in Question |->
          IF p = q THEN v
          ELSE IF Successor(c).answers[q] # v /\ p \in Downstream[q] THEN None
          ELSE Successor(c).answers[p]]
    BY <2>1 DEF Answered, SessionRow
  <2>3. QED
    BY <1>5, <2>2
<1>7. aux_under' = [aux_under EXCEPT ![s] = [p \in Question |->
        IF p = q THEN [u \in Question |-> IF u \in Upstream[q] THEN y.answers[u] ELSE None]
        ELSE IF y.answers[p] = None THEN NoAnswers
        ELSE aux_under[s][p]]]
  BY DEF Answer
<1>8. SUFFICES ASSUME NEW t \in Session, NEW p \in Question \ {"power"}, NEW u \in Upstream[p],
                      session'[t].answers[p] # None
               PROVE  aux_under'[t][p][u] = session'[t].answers[u]
  BY DEF NoStaleAnswer
<1>9. u \in Question
  BY DEF Upstream, Question
<1>10. CASE t # s
  <2>1. session'[t] = session[t] /\ aux_under'[t] = aux_under[t]
    BY <1>3, <1>7, <1>10 DEF TypeOK
  <2>2. QED
    BY <1>8, <2>1 DEF IInv, NoStaleAnswer
<1>11. CASE t = s
  <2>1. session'[s].answers = y.answers
    BY <1>2, <1>3 DEF TypeOK
  <2>2. CASE p = q
    <3>1. aux_under'[s][p] = [w \in Question |-> IF w \in Upstream[q] THEN y.answers[w] ELSE None]
      BY <1>2, <1>7, <2>2 DEF TypeOK
    <3>2. QED
      BY <1>9, <1>11, <2>1, <2>2, <3>1
  <2>3. CASE p # q
    <3>1. y.answers[p] # None
      BY <1>8, <1>11, <2>1
    <3>2. aux_under'[s][p] = aux_under[s][p]
      BY <1>2, <1>7, <2>3, <3>1 DEF TypeOK
    <3>3. /\ y.answers[p] = session[s].answers[p]
          /\ session[s].answers[q] = v \/ p \notin Downstream[q]
      BY <1>6, <2>3, <3>1
    <3>4. aux_under[s][p][u] = session[s].answers[u]
      BY <1>2, <3>1, <3>3 DEF IInv, NoStaleAnswer
    <3>5. y.answers[u] = session[s].answers[u]
      <4>1. q \in Question
        BY <1>1 DEF SeenOK, Answer, Saving
      <4>2. CASE u = q
        <5>1. p \in Downstream[q]
          BY <1>9, <4>2 DEF Upstream, Downstream, Question
        <5>2. QED
          BY <1>6, <1>9, <3>3, <4>2, <5>1
      <4>3. CASE u # q
        <5>1. u \in Downstream[q] => p \in Downstream[q]
          BY <1>9, <4>1 DEF Upstream, Downstream, Question
        <5>2. QED
          BY <1>6, <1>9, <3>3, <4>3, <5>1
      <4>4. QED
        BY <4>2, <4>3
    <3>6. QED
      BY <1>11, <2>1, <3>2, <3>4, <3>5
  <2>4. QED
    BY <2>2, <2>3
<1>12. QED
  BY <1>10, <1>11

-----------------------------------------------------------------------------
(* The saga.                                                                  *)

LEMMA SagaFields ==
  ASSUME SagaAssumption, TypeOK, NEW c \in Caller, call[c].pc \in SagaPc
  PROVE  /\ call[c] \in SagaCall
         /\ call[c].of \in Session /\ call[c].base \in Revision
         /\ call[c].grant \in Revision /\ call[c].at \in Nat
         /\ call[c].op \in {"approve", "apply"}
         /\ call[c].base \in Nat /\ call[c].base # None /\ call[c].grant \in Nat
         /\ canon \in Nat
         /\ session[call[c].of] \in SessionRow
BY BusyType DEF SagaPc, SagaCall, SagaAssumption, Revision, TypeOK

LEMMA GotoFields ==
  ASSUME TypeOK, NEW c \in Caller, call[c] \in SagaCall, NEW pc, Goto(c, pc)
  PROVE  /\ call'[c].pc = pc /\ call'[c].of = call[c].of /\ call'[c].op = call[c].op
         /\ call'[c].grant = call[c].grant /\ call'[c].base = call[c].base
         /\ call'[c].at = call[c].at
         /\ \A d \in Caller : d # c => call'[d] = call[d]
<1>1. call'[c] = [call[c] EXCEPT !.pc = pc] /\ \A d \in Caller : d # c => call'[d] = call[d]
  BY DEF Goto, TypeOK
<1>2. QED
  BY <1>1 DEF SagaCall

(* A call that returns or stops relies on nothing.                            *)
LEMMA OutKeeps ==
  ASSUME TypeOK, NEW c \in Caller, NEW r \in {Idle, Stopped}, call' = [call EXCEPT ![c] = r]
  PROVE  /\ SeenOK(c)' /\ SagaOK(c)'
         /\ \A d \in Caller : d # c => call'[d] = call[d]
<1>1. call'[c] = r /\ \A d \in Caller : d # c => call'[d] = call[d]
  BY DEF TypeOK
<1>2. r.pc \notin {"save"} \cup SagaPc
  BY DEF Idle, Stopped, SagaPc
<1>3. QED
  BY <1>1, <1>2 DEF SeenOK, SagaOK

LEMMA RegisterKeeps ==
  ASSUME SagaAssumption, TypeOK, IInv, NEW c \in Caller, Register(c)
  PROVE  /\ \A s \in Session : Kept(s) /\ Grows(s) /\ SessionOK(s)'
         /\ SeenOK(c)' /\ SagaOK(c)'
         /\ \A d \in Caller : d # c => call'[d] = call[d]
<1> DEFINE s == call[c].of
           n == IF s \in Power THEN canon ELSE session[s].base
           pc == IF call[c].op = "approve" THEN "issue" ELSE "accept"
<1>1. call[c].pc = "register" /\ call[c].pc \in SagaPc
  BY DEF Register, At, SagaPc
<1>2. /\ call[c] \in SagaCall /\ s \in Session /\ call[c].grant \in Nat
      /\ call[c].op \in {"approve", "apply"} /\ canon \in Nat
      /\ session[s] \in SessionRow
  BY <1>1, SagaFields
<1>3. SagaOK(c) /\ \A t \in Session : SessionOK(t)
  BY DEF IInv
<1>4. /\ n \in Revision /\ n \in Nat /\ session[s].base <= n /\ n <= canon
      /\ session[s].base \in Nat
  BY <1>2, <1>3 DEF SessionOK, SessionRow, TypeOK, Revision
<1>5. /\ UNCHANGED <<session, proposal, canon, grant, written>>
      /\ init' = IF init[s][n].status = "none"
                 THEN [init EXCEPT ![s][n] =
                         [status |-> "proposed", spec |-> call[c].spec, commit |-> 0]]
                 ELSE init
      /\ call' = [call EXCEPT ![c].base = n, ![c].spec = None, ![c].pc = pc]
  BY DEF Register, interviewVars, outcomeVars
<1>6. /\ init'[s][n].status # "none"
      /\ \A t \in Session, m \in Revision :
           \/ init'[t][m] = init[t][m]
           \/ /\ t = s /\ m = n /\ init[t][m].status = "none"
              /\ init'[t][m].status = "proposed"
  <2> HIDE DEF n, pc
  <2>1. CASE init[s][n].status # "none"
    BY <1>5, <2>1
  <2>2. CASE init[s][n].status = "none"
    <3>1. init' = [init EXCEPT ![s][n] =
                     [status |-> "proposed", spec |-> call[c].spec, commit |-> 0]]
      BY <1>5, <2>2
    <3>2. \A t \in Session, m \in Revision :
            init'[t][m] =
              IF t = s /\ m = n
              THEN [status |-> "proposed", spec |-> call[c].spec, commit |-> 0]
              ELSE init[t][m]
      BY <1>2, <1>4, <3>1 DEF TypeOK
    <3>3. QED
      BY <1>2, <1>4, <2>2, <3>2
  <2>3. QED
    BY <2>1, <2>2
<1>7. \A t \in Session : Accepted(t)' = Accepted(t)
  BY <1>6 DEF Accepted
<1>8. \A t \in Session : Kept(t)
  BY <1>5 DEF Kept, TypeOK, SessionRow
<1>9. \A t \in Session : Grows(t)
  <2> HIDE DEF n, pc
  <2>1. UNCHANGED <<canon, written>>
    BY <1>5
  <2>2. \A t \in Session, m \in Revision :
          /\ init[t][m].status # "none" => init'[t][m].status # "none"
          /\ init[t][m].status \in Committed => init'[t][m].status \in Committed
    BY <1>6 DEF Committed
  <2>3. QED
    BY <1>2, <1>7, <2>1, <2>2 DEF Grows
<1>10. ASSUME NEW t \in Session
       PROVE  SessionOK(t)'
  <2>1. SessionOK(t)
    BY <1>3
  <2>2. \A m \in Revision :
          /\ init'[t][m].status # "none" => session[t].base <= m /\ m <= canon
          /\ init'[t][m].status \in Committed => m < canon
    BY <1>4, <1>6, <2>1 DEF SessionOK, Committed
  <2>3. session[t].status = "none" => \A m \in Revision : init'[t][m].status = "none"
    BY <1>1, <1>3, <1>6, <2>1 DEF SessionOK, SagaOK, SagaPc
  <2>4. QED
    BY <1>5, <2>1, <2>2, <2>3 DEF SessionOK
<1>11. /\ call'[c].pc = pc /\ call'[c].of = s /\ call'[c].op = call[c].op
       /\ call'[c].base = n /\ call'[c].grant = call[c].grant
       /\ \A d \in Caller : d # c => call'[d] = call[d]
  <2>1. call'[c] = [call[c] EXCEPT !.base = n, !.spec = None, !.pc = pc]
    BY <1>5 DEF TypeOK
  <2>2. QED
    BY <1>2, <1>5, <2>1 DEF SagaCall, TypeOK
<1>12. SagaOK(c)'
  <2>1. pc \in {"issue", "accept"}
    OBVIOUS
  <2>2. session'[s].status # "none" /\ session'[s].base <= n
    BY <1>1, <1>3, <1>4, <1>5 DEF SagaOK
  <2>3. call[c].op = "apply" =>
          call[c].grant <= canon /\ (call[c].grant = canon => Accepted(s) = {})
    BY <1>1, <1>3 DEF SagaOK
  <2>4. pc = "issue" => call[c].op = "approve"
    OBVIOUS
  <2>5. pc = "accept" => call[c].op = "apply"
    BY <1>2
  <2>6. canon' = canon /\ Accepted(s) = {m \in Revision : init'[s][m].status = "accepted"}
    BY <1>2, <1>5, <1>7 DEF Accepted
  <2> HIDE DEF n, pc
  <2>7. QED
    BY <1>6, <1>11, <2>1, <2>2, <2>3, <2>4, <2>5, <2>6
       DEF SagaOK, SagaPc, AfterAccept, Accepted
<1>13. SeenOK(c)'
  BY <1>11 DEF SeenOK
<1>14. QED
  BY <1>8, <1>9, <1>10, <1>11, <1>12, <1>13

LEMMA IssueKeeps ==
  ASSUME SagaAssumption, TypeOK, IInv, NEW c \in Caller, Issue(c)
  PROVE  \A s \in Session : Kept(s) /\ Grows(s) /\ SessionOK(s)'
<1> DEFINE s == call[c].of
           n == call[c].base
<1>1. call[c].pc = "issue" /\ call[c].pc \in SagaPc
  BY DEF Issue, At, SagaPc
<1>2. s \in Session /\ n \in Nat /\ canon \in Nat
  BY <1>1, SagaFields
<1>3. SagaOK(c) /\ \A t \in Session : SessionOK(t)
  BY DEF IInv
<1>4. /\ UNCHANGED <<session, proposal, canon, init, written>>
      /\ grant' = IF init[s][n].status = "proposed" /\ canon = n
                  THEN [grant EXCEPT ![s] = grant[s] \cup {n}] ELSE grant
  BY DEF Issue, interviewVars, outcomeVars
<1>5. \A t \in Session : \A g \in grant'[t] : g \in grant[t] \/ (t = s /\ g = canon)
  BY <1>2, <1>4 DEF TypeOK
<1>6. \A t \in Session : session[t].status = "none" => grant'[t] = {}
  BY <1>1, <1>3, <1>5 DEF SessionOK, SagaOK
<1>7. \A t \in Session : SessionOK(t)'
  BY <1>2, <1>3, <1>4, <1>5, <1>6 DEF SessionOK
<1>8. \A t \in Session : Kept(t) /\ Grows(t)
  BY <1>2, <1>4 DEF Kept, Grows, Accepted, TypeOK, SessionRow
<1>9. QED
  BY <1>7, <1>8

(* The approval admits a registration of the revision of now only, and the    *)
(* call that uses it found nothing accepted at that revision.                 *)
LEMMA AcceptKeeps ==
  ASSUME SagaAssumption, TypeOK, HeadOK, IInv, NEW c \in Caller, Accept(c)
  PROVE  /\ \A s \in Session : Kept(s) /\ Grows(s) /\ SessionOK(s)'
         /\ SeenOK(c)' /\ SagaOK(c)'
         /\ \A d \in Caller : d # c => call'[d] = call[d]
         /\ OneInForce'
<1> DEFINE s == call[c].of
           n == call[c].base
<1>1. call[c].pc = "accept" /\ call[c].pc \in SagaPc
  BY DEF Accept, At, SagaPc
<1>2. /\ call[c] \in SagaCall /\ s \in Session /\ n \in Revision /\ n \in Nat
      /\ canon \in Nat /\ canon' \in Nat /\ canon < canon'
  <2>1. canon \in Nat /\ head \in Nat
    BY DEF TypeOK, Revision
  <2>2. QED
    BY <1>1, <2>1, SagaFields DEF HeadOK, Accept, CommitToCanon, Commit
<1>3. SagaOK(c) /\ OneInForce /\ \A t \in Session : SessionOK(t)
  BY DEF IInv
<1>4. /\ UNCHANGED <<session, proposal, grant, written>>
      /\ Goto(c, "materialize")
      /\ n = call[c].grant /\ init[s][n].status = "proposed" /\ canon = n
  BY DEF Accept, MayEnter, interviewVars, outcomeVars
<1>5. Accepted(s) = {}
  BY <1>1, <1>3, <1>4 DEF SagaOK, Committed
<1>6. \A t \in Session, m \in Revision :
        IF t = s /\ m = n THEN init'[t][m].status = "accepted" ELSE init'[t][m] = init[t][m]
  <2>1. init' = [init EXCEPT ![s][n].status = "accepted", ![s][n].commit = head + 1]
    BY DEF Accept
  <2>2. init[s][n] \in InitRow /\ init[s] \in [Revision -> InitRow]
    BY <1>2 DEF TypeOK
  <2>3. init' = [init EXCEPT ![s] = [init[s] EXCEPT
           ![n] = [init[s][n] EXCEPT !.status = "accepted", !.commit = head + 1]]]
    BY <1>2, <2>1, <2>2 DEF TypeOK
  <2>4. [init[s][n] EXCEPT !.status = "accepted", !.commit = head + 1].status = "accepted"
    BY <2>2 DEF InitRow
  <2>5. QED
    BY <1>2, <2>2, <2>3, <2>4 DEF TypeOK
<1>7. \A t \in Session : Accepted(t)' = IF t = s THEN {n} ELSE Accepted(t)
  BY <1>2, <1>5, <1>6 DEF Accepted
<1>8. OneInForce'
  <2>1. \A t \in Session : \A m, k \in Accepted(t)' : m = k
    BY <1>3, <1>7 DEF OneInForce
  <2>2. QED
    BY <2>1 DEF OneInForce
<1>9. \A t \in Session : Kept(t)
  BY <1>4 DEF Kept, TypeOK, SessionRow
<1>10. \A t \in Session : Grows(t)
  BY <1>2, <1>4, <1>6 DEF Grows, Committed
<1>11. ASSUME NEW t \in Session
       PROVE  SessionOK(t)'
  <2>1. SessionOK(t) /\ session[t].base \in Nat /\ \A g \in grant[t] : g \in Nat
    BY <1>3 DEF TypeOK, SessionRow, Revision
  <2>2. \A m \in Revision :
          /\ init'[t][m].status # "none" => session[t].base <= m /\ m <= canon'
          /\ init'[t][m].status \in Committed => m < canon'
    <3>1. SUFFICES ASSUME NEW m \in Revision
                   PROVE  /\ init'[t][m].status # "none" => session[t].base <= m /\ m <= canon'
                          /\ init'[t][m].status \in Committed => m < canon'
      OBVIOUS
    <3>2. m \in Nat
      BY DEF Revision
    <3>3. CASE t = s /\ m = n
      BY <1>2, <1>4, <2>1, <3>2, <3>3 DEF SessionOK
    <3>4. CASE ~(t = s /\ m = n)
      BY <1>2, <1>6, <2>1, <3>2, <3>4 DEF SessionOK
    <3>5. QED
      BY <3>3, <3>4
  <2>3. session[t].status = "none" => \A m \in Revision : init'[t][m].status = "none"
    BY <1>1, <1>3, <1>6, <2>1 DEF SessionOK, SagaOK
  <2>4. QED
    BY <1>2, <1>4, <2>1, <2>2, <2>3 DEF SessionOK
<1>12. /\ call'[c].pc = "materialize" /\ call'[c].of = s /\ call'[c].base = n
       /\ \A d \in Caller : d # c => call'[d] = call[d]
  BY <1>2, <1>4, GotoFields
<1>13. SagaOK(c)'
  BY <1>1, <1>2, <1>3, <1>4, <1>12 DEF SagaOK, SagaPc, AfterAccept
<1>14. SeenOK(c)'
  BY <1>12 DEF SeenOK
<1>15. QED
  BY <1>8, <1>9, <1>10, <1>11, <1>12, <1>13, <1>14

(* From the accept on a call only walks, until it completes its session.      *)
LEMMA WalkKeeps ==
  ASSUME SagaAssumption, TypeOK, IInv, NEW c \in Caller,
         \/ AcceptAgain(c) \/ AcceptRefused(c) \/ MaterializeRefused(c) \/ Verify(c)
         \/ DraftReceipt(c) \/ KeepReceipt(c) \/ WriteReceipt(c) \/ Confirm(c)
         \/ LoadComplete(c) \/ CompleteMoved(c) \/ MarkReady(c)
  PROVE  /\ UNCHANGED <<session, proposal, canon, init, grant, written>>
         /\ SeenOK(c)' /\ SagaOK(c)'
         /\ \A d \in Caller : d # c => call'[d] = call[d]
<1> DEFINE s == call[c].of
           n == call[c].base
<1>1. UNCHANGED <<session, proposal, canon, init, grant, written>>
  BY DEF AcceptAgain, AcceptRefused, MaterializeRefused, Verify, DraftReceipt, KeepReceipt,
         WriteReceipt, Confirm, LoadComplete, CompleteMoved, MarkReady,
         interviewVars, canonVars, outcomeVars
<1>2. call[c].pc \in SagaPc
  BY DEF AcceptAgain, AcceptRefused, MaterializeRefused, Verify, DraftReceipt, KeepReceipt,
         WriteReceipt, Confirm, LoadComplete, CompleteMoved, MarkReady, At, SagaPc
<1>3. /\ call[c] \in SagaCall /\ s \in Session /\ n \in Revision /\ n \in Nat
      /\ canon \in Nat /\ session[s] \in SessionRow
  BY <1>2, SagaFields
<1>4. SagaOK(c) /\ SessionOK(s)
  BY <1>3 DEF IInv
<1>5. CASE Return(c)
  <2>1. SeenOK(c)' /\ SagaOK(c)' /\ \A d \in Caller : d # c => call'[d] = call[d]
    BY <1>5, OutKeeps DEF Return
  <2>2. QED
    BY <1>1, <2>1
<1>6. ASSUME NEW pc \in AfterAccept, Goto(c, pc), n < canon,
             pc # "materialize" => written[s][n],
             pc # "finish", pc = "ready" => session[s].completion = n
      PROVE  SeenOK(c)' /\ SagaOK(c)' /\ \A d \in Caller : d # c => call'[d] = call[d]
  <2>1. /\ call'[c].pc = pc /\ call'[c].of = s /\ call'[c].base = n
        /\ \A d \in Caller : d # c => call'[d] = call[d]
    BY <1>3, <1>6, GotoFields
  <2>2. session[s].status # "none" /\ (call[c].pc # "register" => session[s].base <= n)
    BY <1>2, <1>4 DEF SagaOK
  <2>3. call[c].pc # "register"
    BY DEF AcceptAgain, AcceptRefused, MaterializeRefused, Verify, DraftReceipt, KeepReceipt,
         WriteReceipt, Confirm, LoadComplete, CompleteMoved, MarkReady, At
  <2>4. pc \in SagaPc /\ pc \notin {"save", "register", "issue", "accept"}
    BY <1>6 DEF AfterAccept, SagaPc
  <2>5. SagaOK(c)'
    BY <1>1, <1>6, <2>1, <2>2, <2>3, <2>4 DEF SagaOK
  <2>6. QED
    BY <2>1, <2>4, <2>5 DEF SeenOK
<1>7. ASSUME NEW pc \in {"write", "finish"}, NEW k \in Nat,
             call'[c].pc = pc, call'[c].of = s, call'[c].base = n, call'[c].at = k,
             \A d \in Caller : d # c => call'[d] = call[d],
             n < canon, written[s][n],
             pc = "finish" => k = session[s].revision /\ session[s].status = "PROPOSAL_FROZEN"
      PROVE  SeenOK(c)' /\ SagaOK(c)' /\ \A d \in Caller : d # c => call'[d] = call[d]
  <2>1. call'[c].pc = pc /\ call'[c].of = s /\ call'[c].base = n /\ call'[c].at = k
    BY <1>7
  <2>2. call[c].pc # "register"
    BY DEF AcceptAgain, AcceptRefused, MaterializeRefused, Verify, DraftReceipt, KeepReceipt,
         WriteReceipt, Confirm, LoadComplete, CompleteMoved, MarkReady, At
  <2>3. session[s].status # "none" /\ session[s].base <= n
    BY <1>2, <1>4, <2>2 DEF SagaOK
  <2>4. SagaOK(c)'
    BY <1>1, <1>7, <2>1, <2>3 DEF SagaOK, SagaPc, AfterAccept
  <2>5. QED
    BY <1>7, <2>1, <2>4 DEF SeenOK
<1>8. CASE AcceptAgain(c)
  <2>1. n < canon
    BY <1>3, <1>4, <1>8 DEF AcceptAgain, Repeats, SessionOK, Committed
  <2>2. "materialize" \in AfterAccept /\ Goto(c, "materialize")
    BY <1>8 DEF AcceptAgain, AfterAccept, SagaPc
  <2>3. QED
    BY <1>1, <1>6, <2>1, <2>2
<1>9. call[c].pc \in AfterAccept => n < canon
  BY <1>2, <1>4 DEF SagaOK
<1>10. call[c].pc \in AfterAccept \ {"materialize"} => written[s][n]
  BY <1>2, <1>4 DEF SagaOK
<1>11. CASE Verify(c) /\ ~Return(c)
  BY <1>1, <1>6, <1>9, <1>10, <1>11 DEF Verify, At, AfterAccept, SagaPc
<1>12. CASE DraftReceipt(c)
  <2>1. n < canon /\ written[s][n]
    BY <1>9, <1>10, <1>12 DEF DraftReceipt, At, AfterAccept, SagaPc
  <2>2. /\ call'[c] = [call[c] EXCEPT !.pc = "write", !.head = head, !.at = canon]
        /\ \A d \in Caller : d # c => call'[d] = call[d]
    BY <1>12 DEF DraftReceipt, TypeOK
  <2>3. /\ call'[c].pc = "write" /\ call'[c].of = s /\ call'[c].base = n
        /\ call'[c].at = canon
        /\ \A d \in Caller : d # c => call'[d] = call[d]
    BY <1>3, <2>2 DEF SagaCall
  <2>4. canon \in Nat /\ "write" \in {"write", "finish"} /\ "write" # "finish"
    BY <1>3
  <2> HIDE DEF s, n
  <2>5. QED
    BY <1>1, <1>7, <2>1, <2>3, <2>4
<1>13. CASE KeepReceipt(c) /\ ~Return(c)
  BY <1>1, <1>6, <1>9, <1>10, <1>13 DEF KeepReceipt, At, AfterAccept, SagaPc
<1>14. CASE WriteReceipt(c)
  BY <1>1, <1>6, <1>9, <1>10, <1>14 DEF WriteReceipt, At, AfterAccept, SagaPc
<1>15. CASE Confirm(c) /\ ~Return(c)
  BY <1>1, <1>6, <1>9, <1>10, <1>15 DEF Confirm, At, AfterAccept, SagaPc
<1>16. CASE LoadComplete(c) /\ ~Return(c)
  <2>1. n < canon /\ written[s][n]
    BY <1>9, <1>10, <1>16 DEF LoadComplete, At, AfterAccept, SagaPc
  <2>2. CASE session[s].completion = n /\ Goto(c, "ready")
    BY <1>1, <1>6, <2>1, <2>2 DEF AfterAccept, SagaPc
  <2>3. CASE /\ session[s].status = "PROPOSAL_FROZEN"
             /\ call' = [call EXCEPT ![c].pc = "finish", ![c].at = session[s].revision]
    <3>1. session[s].revision \in Nat
      BY <1>3 DEF SessionRow
    <3>2. /\ call'[c] = [call[c] EXCEPT !.pc = "finish", !.at = session[s].revision]
          /\ \A d \in Caller : d # c => call'[d] = call[d]
      BY <2>3 DEF TypeOK
    <3>3. /\ call'[c].pc = "finish" /\ call'[c].of = s /\ call'[c].base = n
          /\ call'[c].at = session[s].revision
          /\ \A d \in Caller : d # c => call'[d] = call[d]
      BY <1>3, <3>2 DEF SagaCall
    <3>4. session[s].status = "PROPOSAL_FROZEN" /\ "finish" \in {"write", "finish"}
      BY <2>3
    <3> HIDE DEF s, n
    <3>5. QED
      BY <1>1, <1>7, <2>1, <3>1, <3>3, <3>4
  <2>4. QED
    BY <1>16, <2>2, <2>3 DEF LoadComplete
<1>17. CASE CompleteMoved(c) /\ ~Return(c)
  BY <1>1, <1>6, <1>9, <1>10, <1>17 DEF CompleteMoved, At, AfterAccept, SagaPc
<1>18. QED
  BY <1>5, <1>8, <1>11, <1>12, <1>13, <1>14, <1>15, <1>16, <1>17
     DEF AcceptRefused, MaterializeRefused, MarkReady

LEMMA MaterializeKeeps ==
  ASSUME SagaAssumption, TypeOK, IInv, NEW c \in Caller, Materialize(c)
  PROVE  /\ \A s \in Session : Kept(s) /\ Grows(s) /\ SessionOK(s)'
         /\ SeenOK(c)' /\ SagaOK(c)'
         /\ \A d \in Caller : d # c => call'[d] = call[d]
<1> DEFINE s == call[c].of
           n == call[c].base
<1>1. call[c].pc = "materialize" /\ call[c].pc \in SagaPc
  BY DEF Materialize, At, SagaPc
<1>2. /\ call[c] \in SagaCall /\ s \in Session /\ n \in Revision /\ canon \in Nat
  BY <1>1, SagaFields
<1>3. SagaOK(c) /\ \A t \in Session : SessionOK(t)
  BY DEF IInv
<1>4. /\ UNCHANGED <<session, proposal, canon, init, grant>>
      /\ written' = [written EXCEPT ![s][n] = TRUE] /\ Goto(c, "verify")
  BY DEF Materialize, interviewVars, canonVars
<1>5. written'[s][n] /\ \A t \in Session, m \in Revision : written[t][m] => written'[t][m]
  BY <1>2, <1>4 DEF TypeOK
<1>6. \A t \in Session : Kept(t) /\ Grows(t)
  BY <1>2, <1>4, <1>5 DEF Kept, Grows, Accepted, TypeOK, SessionRow
<1>7. \A t \in Session : SessionOK(t)'
  BY <1>3, <1>4 DEF SessionOK
<1>8. /\ call'[c].pc = "verify" /\ call'[c].of = s /\ call'[c].base = n
      /\ \A d \in Caller : d # c => call'[d] = call[d]
  BY <1>2, <1>4, GotoFields
<1>9. session[s].status # "none" /\ session[s].base <= n /\ n < canon
  BY <1>1, <1>3 DEF SagaOK, AfterAccept, SagaPc
<1>10. SagaOK(c)'
  BY <1>4, <1>5, <1>8, <1>9 DEF SagaOK, SagaPc, AfterAccept
<1>11. SeenOK(c)'
  BY <1>8 DEF SeenOK
<1>12. QED
  BY <1>6, <1>7, <1>8, <1>10, <1>11

(* The session to complete is still the frozen one that was loaded, and so    *)
(* was never completed before.                                                *)
LEMMA CompleteKeeps ==
  ASSUME SagaAssumption, TypeOK, IInv, NEW c \in Caller, Complete(c)
  PROVE  /\ \A s \in Session : Kept(s) /\ Grows(s) /\ SessionOK(s)'
         /\ SeenOK(c)' /\ SagaOK(c)'
         /\ \A d \in Caller : d # c => call'[d] = call[d]
         /\ \A s \in Session : SameAnswers(s)
<1> DEFINE s == call[c].of
           n == call[c].base
           x == [session[s] EXCEPT !.status = "COMPLETED", !.revision = session[s].revision + 1,
                                   !.completion = n]
<1>1. call[c].pc = "finish" /\ call[c].pc \in SagaPc
  BY DEF Complete, At, SagaPc
<1>2. /\ call[c] \in SagaCall /\ s \in Session /\ n \in Revision /\ n \in Nat
      /\ canon \in Nat /\ session[s] \in SessionRow
  BY <1>1, SagaFields
<1>3. SagaOK(c) /\ \A t \in Session : SessionOK(t)
  BY DEF IInv
<1>4. /\ UNCHANGED <<proposal, aux_under, canon, init, grant, written>>
      /\ session[s].revision = call[c].at /\ Goto(c, "ready")
  BY DEF Complete, canonVars, outcomeVars
<1>5. session' = [session EXCEPT ![s] = x]
  BY DEF Complete
<1>6. /\ x \in SessionRow /\ x.status = "COMPLETED" /\ x.completion = n
      /\ x.revision = session[s].revision + 1 /\ x.base = session[s].base
      /\ x.answers = session[s].answers
  <2>1. session[s].revision + 1 \in Nat /\ n \in Revision \cup {None}
    BY <1>2 DEF SessionRow
  <2>2. x \in SessionRow
    BY <1>2, <2>1 DEF SessionRow
  <2>3. QED
    BY <1>2, <2>2 DEF SessionRow
<1>7. session[s].completion = None
  BY <1>1, <1>2, <1>3, <1>4 DEF SagaOK, SessionOK
<1>8. session[s].base <= n /\ n < canon /\ written[s][n]
  BY <1>1, <1>3 DEF SagaOK, SagaPc, AfterAccept
<1>9. x.base < canon
  BY <1>2, <1>6, <1>8 DEF SessionRow, Revision
<1> HIDE DEF x
<1>10. \A t \in Session : Kept(t) /\ Grows(t) /\ SessionOK(t)'
  BY <1>2, <1>3, <1>4, <1>5, <1>6, <1>7, <1>9, MovedKeeps
<1>11. /\ call'[c].pc = "ready" /\ call'[c].of = s /\ call'[c].base = n
       /\ \A d \in Caller : d # c => call'[d] = call[d]
  BY <1>2, <1>4, GotoFields
<1>12. session'[s] = x
  BY <1>2, <1>5 DEF TypeOK
<1>13. SagaOK(c)'
  BY <1>4, <1>6, <1>8, <1>11, <1>12 DEF SagaOK, SagaPc, AfterAccept
<1>14. SeenOK(c)'
  BY <1>11 DEF SeenOK
<1>15. \A t \in Session : SameAnswers(t)
  BY <1>4, <1>5, <1>6, <1>12 DEF SameAnswers, TypeOK
<1>16. QED
  BY <1>10, <1>11, <1>13, <1>14, <1>15

LEMMA SagaKeeps ==
  ASSUME SagaAssumption, TypeOK, TypeOK', HeadOK, IInv, NEW c \in Caller, SagaStep(c)
  PROVE  /\ \A s \in Session : Kept(s) /\ Grows(s) /\ SessionOK(s)'
         /\ SeenOK(c)' /\ SagaOK(c)'
         /\ \A d \in Caller : d # c => call'[d] = call[d]
         /\ \A s \in Session : SameAnswers(s)
         /\ OneInForce'
         /\ ready' = ready \/ MarkReady(c)
<1>1. /\ \A s \in Session : Kept(s) /\ Grows(s) /\ SessionOK(s)'
      /\ SeenOK(c)' /\ SagaOK(c)'
      /\ \A d \in Caller : d # c => call'[d] = call[d]
  <2>1. CASE Register(c)
    BY <2>1, RegisterKeeps
  <2>2. CASE Issue(c)
    <3>1. Return(c)
      BY <2>2 DEF Issue
    <3>2. QED
      BY <2>2, <3>1, IssueKeeps, OutKeeps DEF Return
  <2>3. CASE Accept(c)
    BY <2>3, AcceptKeeps
  <2>4. CASE Materialize(c)
    BY <2>4, MaterializeKeeps
  <2>5. CASE Complete(c)
    BY <2>5, CompleteKeeps
  <2>6. CASE \/ AcceptAgain(c) \/ AcceptRefused(c) \/ MaterializeRefused(c) \/ Verify(c)
             \/ DraftReceipt(c) \/ KeepReceipt(c) \/ WriteReceipt(c) \/ Confirm(c)
             \/ LoadComplete(c) \/ CompleteMoved(c) \/ MarkReady(c)
    <3>1. \A s \in Session : SessionOK(s)
      BY DEF IInv
    <3>2. QED
      BY <2>6, <3>1, WalkKeeps, StillKeeps
  <2>7. QED
    BY <2>1, <2>2, <2>3, <2>4, <2>5, <2>6 DEF SagaStep
<1>2. \A s \in Session : SameAnswers(s)
  <2>1. CASE Complete(c)
    BY <2>1, CompleteKeeps
  <2>2. CASE ~Complete(c)
    <3>1. UNCHANGED <<session, aux_under>>
      BY <2>2 DEF SagaStep, Register, Issue, Accept, Materialize,
         AcceptAgain, AcceptRefused, MaterializeRefused, Verify, DraftReceipt, KeepReceipt,
         WriteReceipt, Confirm, LoadComplete, CompleteMoved, MarkReady, interviewVars
    <3>2. QED
      BY <3>1 DEF SameAnswers
  <2>3. QED
    BY <2>1, <2>2
<1>3. OneInForce'
  <2>1. CASE Accept(c)
    BY <2>1, AcceptKeeps
  <2>2. CASE ~Accept(c)
    <3>1. canon' = canon
      BY <2>2 DEF SagaStep, Register, Issue, Materialize, Complete,
         AcceptAgain, AcceptRefused, MaterializeRefused, Verify, DraftReceipt, KeepReceipt,
         WriteReceipt, Confirm, LoadComplete, CompleteMoved, MarkReady, canonVars
    <3>2. canon \in Nat
      BY DEF TypeOK, Revision
    <3>3. \A s \in Session : Accepted(s)' \subseteq Accepted(s)
      BY <1>1, <3>1, <3>2 DEF Grows
    <3>4. OneInForce
      BY DEF IInv
    <3>5. QED
      BY <3>3, <3>4 DEF OneInForce
  <2>3. QED
    BY <2>1, <2>2
<1>4. ready' = ready \/ MarkReady(c)
  BY DEF SagaStep, Register, Issue, Accept, Materialize, Complete,
     AcceptAgain, AcceptRefused, MaterializeRefused, Verify, DraftReceipt, KeepReceipt,
     WriteReceipt, Confirm, LoadComplete, CompleteMoved, MarkReady, outcomeVars
<1>5. QED
  BY <1>1, <1>2, <1>3, <1>4

-----------------------------------------------------------------------------
(* Calls that begin.                                                          *)

LEMMA LoadKeeps ==
  ASSUME SagaAssumption, TypeOK, IInv, NEW c \in Caller, NEW s \in Session,
         LoadAdvance(c, s) \/ LoadAnswer(c, s) \/ LoadPropose(c, s) \/ LoadCancel(c, s)
  PROVE  /\ UNCHANGED <<interviewVars, canonVars, outcomeVars>>
         /\ SeenOK(c)' /\ SagaOK(c)'
         /\ \A d \in Caller : d # c => call'[d] = call[d]
<1>1. SessionOK(s) /\ session[s].base \in Nat /\ canon \in Nat /\ session[s].revision \in Nat
  BY DEF IInv, TypeOK, SessionRow, Revision
<1>2. \E op \in {"advance", "answer", "propose", "cancel"}, stale \in BOOLEAN,
         q \in Question \cup {None}, v \in Reply :
        /\ Load(c, s, op, stale, q, v)
        /\ op = "answer" => q \in Question
        /\ op = "cancel" \/ (op = "advance" /\ stale) \/ session[s].base = canon
  <2>1. CASE LoadAdvance(c, s)
    BY <2>1 DEF LoadAdvance, SeenStale, Reply
  <2>2. CASE LoadAnswer(c, s)
    BY <2>2 DEF LoadAnswer, SeenStale, Reply, SagaAssumption
  <2>3. CASE LoadPropose(c, s)
    BY <2>3 DEF LoadPropose, SeenStale, Reply
  <2>4. CASE LoadCancel(c, s)
    BY <2>4 DEF LoadCancel, Reply
  <2>5. QED
    BY <2>1, <2>2, <2>3, <2>4
<1>3. PICK op \in {"advance", "answer", "propose", "cancel"}, stale \in BOOLEAN,
           q \in Question \cup {None}, v \in Reply :
        /\ Load(c, s, op, stale, q, v)
        /\ op = "answer" => q \in Question
        /\ op = "cancel" \/ (op = "advance" /\ stale) \/ session[s].base = canon
  BY <1>2
<1>4. /\ call'[c] = [pc |-> "save", op |-> op, of |-> s, seen |-> session[s],
                     stale |-> stale, question |-> q, choice |-> v]
      /\ \A d \in Caller : d # c => call'[d] = call[d]
      /\ UNCHANGED <<interviewVars, canonVars, outcomeVars>>
  BY <1>3 DEF Load, TypeOK
<1>5. SeenOK(c)'
  <2>1. session' = session
    BY <1>4 DEF interviewVars
  <2>2. session[s].completion # None => op = "cancel" \/ (op = "advance" /\ stale)
    BY <1>1, <1>3 DEF SessionOK
  <2>3. QED
    BY <1>1, <1>3, <1>4, <2>1, <2>2 DEF SeenOK
<1>6. SagaOK(c)'
  BY <1>4 DEF SagaOK, SagaPc
<1>7. QED
  BY <1>4, <1>5, <1>6

LEMMA SurveyKeeps ==
  ASSUME SagaAssumption, TypeOK, IInv, NEW c \in Caller, NEW s \in Session,
         Approve(c, s) \/ \E g \in Revision : Apply(c, s, g)
  PROVE  /\ UNCHANGED <<interviewVars, canonVars, outcomeVars>>
         /\ SeenOK(c)' /\ SagaOK(c)'
         /\ \A d \in Caller : d # c => call'[d] = call[d]
<1>1. SessionOK(s) /\ canon \in Nat
  BY DEF IInv, TypeOK, Revision
<1>2. session[s].status # "none" /\ UNCHANGED <<interviewVars, canonVars, outcomeVars>>
  BY <1>1 DEF Approve, Apply, FindAccepted, FindSpec, SessionOK
<1>3. UNCHANGED <<session, canon, init, written>>
  BY <1>2 DEF interviewVars, canonVars, outcomeVars
<1>4. ASSUME NEW op \in {"approve", "apply"}, NEW g, NEW k, FindSpec(c, s, op, g),
             op = "apply" => g <= canon
      PROVE  /\ SeenOK(c)' /\ SagaOK(c)'
             /\ \A d \in Caller : d # c => call'[d] = call[d]
  <2>1. PICK j : call' = [call EXCEPT ![c] = Saga("register", op, s, g, 0, j)]
    BY <1>4 DEF FindSpec
  <2>2. /\ call'[c] = Saga("register", op, s, g, 0, j)
        /\ \A d \in Caller : d # c => call'[d] = call[d]
    BY <2>1 DEF TypeOK
  <2>3. Accepted(s) = {} /\ {m \in Revision : init'[s][m].status = "accepted"} = {}
    BY <1>3, <1>4 DEF FindSpec, Accepted
  <2>4. QED
    BY <1>2, <1>3, <1>4, <2>2, <2>3 DEF SeenOK, SagaOK, Saga, AfterAccept, Accepted
<1>5. ASSUME NEW g \in grant[s], FindAccepted(c, s, g)
      PROVE  /\ SeenOK(c)' /\ SagaOK(c)'
             /\ \A d \in Caller : d # c => call'[d] = call[d]
  <2>1. PICK n \in Accepted(s) : call' = [call EXCEPT ![c] = Saga("accept", "apply", s, g, n, None)]
    BY <1>5 DEF FindAccepted
  <2>2. /\ call'[c] = Saga("accept", "apply", s, g, n, None)
        /\ \A d \in Caller : d # c => call'[d] = call[d]
    BY <2>1 DEF TypeOK
  <2>3. n \in Revision /\ init[s][n].status = "accepted" /\ session[s].base <= n /\ g <= canon
    BY <1>1, <2>1 DEF Accepted, SessionOK
  <2>4. QED
    BY <1>2, <1>3, <2>2, <2>3 DEF SeenOK, SagaOK, Saga, AfterAccept, Committed
<1>6. CASE Approve(c, s)
  BY <1>2, <1>4, <1>6 DEF Approve
<1>7. ASSUME NEW g \in Revision, Apply(c, s, g)
      PROVE  /\ SeenOK(c)' /\ SagaOK(c)'
             /\ \A d \in Caller : d # c => call'[d] = call[d]
  <2>1. g \in grant[s] /\ g <= canon
    BY <1>1, <1>7 DEF Apply, SessionOK
  <2>2. QED
    BY <1>4, <1>5, <1>7, <2>1 DEF Apply
<1>8. QED
  BY <1>2, <1>6, <1>7

-----------------------------------------------------------------------------
(* What else moves the canon.                                                 *)

LEMMA OutsideKeeps ==
  ASSUME SagaAssumption, TypeOK, TypeOK', HeadOK, IInv, NEW s \in Session,
         \/ Start(s) \/ ProposeSpec(s) \/ AcceptSpec(s) \/ RejectSpec(s)
         \/ RetractSpec(s) \/ RetractInit(s) \/ Edit \/ OtherCommit
  PROVE  /\ \A t \in Session : Kept(t) /\ Grows(t) /\ SessionOK(t)'
         /\ \A t \in Session : SameAnswers(t) \/ session'[t].answers = NoAnswers
         /\ \A t \in Session : Accepted(t)' \subseteq Accepted(t)
         /\ UNCHANGED <<call, ready>>
<1>1. \A t \in Session : SessionOK(t)
  BY DEF IInv
<1>2. /\ canon \in Nat /\ canon' \in Nat
      /\ \A t \in Session : /\ session[t].revision \in Nat /\ session[t].base \in Nat
                            /\ \A g \in grant[t] : g \in Nat
  BY DEF TypeOK, Revision, SessionRow
<1>3. UNCHANGED <<call, ready>>
  BY DEF Start, ProposeSpec, AcceptSpec, RejectSpec, RetractSpec, RetractInit, Edit,
     OtherCommit, outcomeVars
<1>4. CASE Start(s)
  <2> DEFINE y == [NoSession EXCEPT !.revision = 1, !.base = canon]
  <2>1. y \in SessionRow /\ y.revision = 1 /\ y.base = canon
        /\ y.answers = NoAnswers /\ y.completion = None
    BY DEF NoSession, NoAnswers, SessionRow, Reply, TypeOK
  <2>2. PICK x \in Driven(s, y) : session' = [session EXCEPT ![s] = x]
    BY <1>4 DEF Start
  <2> HIDE DEF y
  <2>3. /\ x.revision = 1 /\ x.base = canon /\ x.answers = NoAnswers /\ x.completion = None
        /\ x.status \in {"NEEDS_INPUT", "READY_TO_PROPOSE"}
    BY <2>1, <2>2, DrivenType
  <2>4. /\ session'[s] = x /\ \A t \in Session : t # s => session'[t] = session[t]
        /\ session[s].status = "none"
        /\ UNCHANGED <<proposal, aux_under, canon, init, grant, written>>
    BY <1>4, <2>2 DEF Start, TypeOK, canonVars, outcomeVars
  <2>5. \A t \in Session : Kept(t)
    BY <1>1, <1>2, <2>3, <2>4 DEF Kept, SessionOK
  <2>6. \A t \in Session : Grows(t) /\ Accepted(t)' = Accepted(t)
    BY <1>2, <2>4 DEF Grows, Accepted
  <2>7. \A t \in Session : SessionOK(t)'
    <3>1. SessionOK(s)'
      BY <1>1, <1>2, <2>3, <2>4 DEF SessionOK, Committed
    <3>2. \A t \in Session : t # s => SessionOK(t)'
      BY <1>1, <2>4 DEF SessionOK
    <3>3. QED
      BY <3>1, <3>2
  <2>8. \A t \in Session : SameAnswers(t) \/ session'[t].answers = NoAnswers
    BY <2>3, <2>4 DEF SameAnswers
  <2>9. QED
    BY <1>3, <2>5, <2>6, <2>7, <2>8
<1>5. CASE ~Start(s)
  <2>1. UNCHANGED <<session, proposal, aux_under, grant, written>>
    BY <1>5 DEF ProposeSpec, AcceptSpec, RejectSpec, RetractSpec, RetractInit, Edit,
       OtherCommit, interviewVars, canonVars, outcomeVars
  <2>2. \A t \in Session : Kept(t) /\ SameAnswers(t)
    BY <1>2, <2>1 DEF Kept, SameAnswers
  <2>3. canon <= canon' /\ (RetractInit(s) => canon < canon')
    <3>1. head \in Nat
      BY DEF TypeOK, Revision
    <3>2. UNCHANGED canon \/ canon' = head + 1
      BY <1>5 DEF ProposeSpec, AcceptSpec, RejectSpec, RetractSpec, RetractInit, Edit,
         OtherCommit, CommitToCanon, canonVars
    <3>3. RetractInit(s) => canon' = head + 1
      BY DEF RetractInit, CommitToCanon
    <3>4. QED
      BY <1>2, <3>1, <3>2, <3>3 DEF HeadOK
  <2>4. \A t \in Session, m \in Revision :
          \/ init'[t][m] = init[t][m]
          \/ init[t][m].status = "accepted" /\ init'[t][m].status = "retracted"
    <3>1. CASE RetractInit(s)
      <4>1. PICK n \in Accepted(s) : init' = [init EXCEPT ![s][n].status = "retracted"]
        BY <3>1 DEF RetractInit
      <4>2. n \in Revision /\ init[s][n].status = "accepted"
        BY <4>1 DEF Accepted
      <4>3. \A t \in Session, m \in Revision :
              IF t = s /\ m = n THEN init'[t][m].status = "retracted"
              ELSE init'[t][m] = init[t][m]
        BY <4>1, <4>2 DEF TypeOK, InitRow
      <4>4. QED
        BY <4>2, <4>3
    <3>2. CASE ~RetractInit(s)
      BY <1>5, <3>2 DEF ProposeSpec, AcceptSpec, RejectSpec, RetractSpec, Edit,
         OtherCommit, canonVars
    <3>3. QED
      BY <3>1, <3>2
  <2>5. \A t \in Session : Accepted(t)' \subseteq Accepted(t)
    BY <2>4 DEF Accepted
  <2>6. \A t \in Session : Grows(t)
    BY <2>1, <2>3, <2>4, <2>5 DEF Grows, Committed
  <2>7. ASSUME NEW t \in Session
        PROVE  SessionOK(t)'
    <3>1. SessionOK(t)
      BY <1>1
    <3>2. \A m \in Revision :
            /\ init'[t][m].status # "none" => session[t].base <= m /\ m <= canon'
            /\ init'[t][m].status \in Committed => m < canon'
      <4>1. SUFFICES ASSUME NEW m \in Revision
                     PROVE  /\ init'[t][m].status # "none" => session[t].base <= m /\ m <= canon'
                            /\ init'[t][m].status \in Committed => m < canon'
        OBVIOUS
      <4>2. m \in Nat
        BY DEF Revision
      <4>3. /\ init'[t][m].status # "none" => init[t][m].status # "none"
            /\ init'[t][m].status \in Committed => init[t][m].status \in Committed
        BY <2>4 DEF Committed
      <4>4. QED
        BY <1>2, <2>3, <3>1, <4>2, <4>3 DEF SessionOK
    <3>3. session[t].status = "none" => \A m \in Revision : init'[t][m].status = "none"
      BY <2>4, <3>1 DEF SessionOK
    <3>4. QED
      BY <1>2, <2>1, <2>3, <3>1, <3>2, <3>3 DEF SessionOK
  <2>8. QED
    BY <1>3, <2>2, <2>5, <2>6, <2>7
<1>6. QED
  BY <1>4, <1>5

-----------------------------------------------------------------------------
(* The three properties follow from what a step does to sessions and files.   *)

LEMMA FreshKept ==
  ASSUME NoStaleAnswer,
         \A s \in Session : SameAnswers(s) \/ session'[s].answers = NoAnswers
  PROVE  NoStaleAnswer'
<1>1. SUFFICES ASSUME NEW s \in Session, NEW q \in Question \ {"power"}, NEW u \in Upstream[q],
                      session'[s].answers[q] # None
               PROVE  aux_under'[s][q][u] = session'[s].answers[u]
  BY DEF NoStaleAnswer
<1>2. NoAnswers[q] = None
  BY DEF NoAnswers
<1>3. SameAnswers(s)
  BY <1>1, <1>2
<1>4. QED
  BY <1>1, <1>3 DEF SameAnswers, NoStaleAnswer

LEMMA ReadyKept ==
  ASSUME SagaAssumption, TypeOK, ReadyIsComplete,
         \A s \in Session : Kept(s) /\ Grows(s), ready' = ready
  PROVE  ReadyIsComplete'
<1>1. CASE ready = None
  BY <1>1 DEF ReadyIsComplete
<1>2. CASE ready # None
  <2>1. /\ ready.session \in Session /\ ready.base \in Revision
        /\ ready.base # None
    BY <1>2 DEF TypeOK, Revision, SagaAssumption
  <2>2. written[ready.session][ready.base] /\ session[ready.session].completion = ready.base
    BY <1>2 DEF ReadyIsComplete
  <2>3. Kept(ready.session) /\ Grows(ready.session)
    BY <2>1
  <2>4. written'[ready.session][ready.base] /\ session'[ready.session].completion = ready.base
    BY <2>1, <2>2, <2>3 DEF Kept, Grows
  <2>5. QED
    BY <2>4 DEF ReadyIsComplete
<1>3. QED
  BY <1>1, <1>2

LEMMA StepInv ==
  SagaAssumption /\ TypeOK /\ TypeOK' /\ HeadOK /\ IInv /\ [Next]_vars => IInv'
<1> SUFFICES ASSUME SagaAssumption, TypeOK, TypeOK', HeadOK, IInv, [Next]_vars
             PROVE  IInv'
  OBVIOUS
<1>0. /\ \A s \in Session : SessionOK(s)
      /\ \A c \in Caller : SeenOK(c) /\ SagaOK(c)
      /\ NoStaleAnswer /\ OneInForce /\ ReadyIsComplete
  BY DEF IInv
(* The calls that do not act keep theirs.                                     *)
<1>1. ASSUME NEW c \in Caller, SeenOK(c)', SagaOK(c)',
             \A d \in Caller : d # c => call'[d] = call[d],
             \A s \in Session : Kept(s) /\ Grows(s)
      PROVE  \A d \in Caller : SeenOK(d)' /\ SagaOK(d)'
  <2>1. ASSUME NEW d \in Caller, d # c
        PROVE  SeenOK(d)' /\ SagaOK(d)'
    BY <1>0, <1>1, <2>1, OthersKeep
  <2>2. QED
    BY <1>1, <2>1
<1>2. ASSUME UNCHANGED call, \A s \in Session : Kept(s) /\ Grows(s)
      PROVE  \A d \in Caller : SeenOK(d)' /\ SagaOK(d)'
  BY <1>0, <1>2, OthersKeep
(* A step that leaves all but calls alone.                                    *)
<1>3. ASSUME UNCHANGED <<interviewVars, canonVars, outcomeVars>>
      PROVE  /\ \A s \in Session : Kept(s) /\ Grows(s) /\ SessionOK(s)'
             /\ NoStaleAnswer' /\ OneInForce' /\ ReadyIsComplete'
  <2>1. UNCHANGED <<session, proposal, aux_under, canon, init, grant, written, ready>>
    BY <1>3 DEF interviewVars, canonVars, outcomeVars
  <2>2. \A s \in Session : Kept(s) /\ Grows(s) /\ SessionOK(s)'
    BY <1>0, <2>1, StillKeeps
  <2>3. NoStaleAnswer'
    BY <1>0, <2>1 DEF NoStaleAnswer
  <2>4. OneInForce'
    BY <1>0, <2>1 DEF OneInForce, Accepted
  <2>5. ReadyIsComplete'
    BY <1>0, <2>1 DEF ReadyIsComplete
  <2>6. QED
    BY <2>2, <2>3, <2>4, <2>5
<1>4. ASSUME NEW c \in Caller,
             /\ UNCHANGED <<interviewVars, canonVars, outcomeVars>>
             /\ SeenOK(c)' /\ SagaOK(c)'
             /\ \A d \in Caller : d # c => call'[d] = call[d]
      PROVE  IInv'
  <2>1. /\ \A s \in Session : Kept(s) /\ Grows(s) /\ SessionOK(s)'
        /\ NoStaleAnswer' /\ OneInForce' /\ ReadyIsComplete'
    BY <1>3, <1>4
  <2>2. \A d \in Caller : SeenOK(d)' /\ SagaOK(d)'
    BY <1>1, <1>4, <2>1
  <2>3. QED
    BY <2>1, <2>2 DEF IInv
<1>5. ASSUME NEW s \in Session,
             \/ Start(s) \/ ProposeSpec(s) \/ AcceptSpec(s) \/ RejectSpec(s)
             \/ RetractSpec(s) \/ RetractInit(s) \/ Edit \/ OtherCommit
      PROVE  IInv'
  <2>1. /\ \A t \in Session : Kept(t) /\ Grows(t) /\ SessionOK(t)'
        /\ \A t \in Session : SameAnswers(t) \/ session'[t].answers = NoAnswers
        /\ \A t \in Session : Accepted(t)' \subseteq Accepted(t)
        /\ UNCHANGED call /\ ready' = ready
    BY <1>5, OutsideKeeps
  <2>2. \A d \in Caller : SeenOK(d)' /\ SagaOK(d)'
    BY <1>2, <2>1
  <2>3. OneInForce'
    BY <1>0, <2>1 DEF OneInForce
  <2>4. NoStaleAnswer'
    BY <1>0, <2>1, FreshKept
  <2>5. ReadyIsComplete'
    BY <1>0, <2>1, ReadyKept
  <2>6. QED
    BY <2>1, <2>2, <2>3, <2>4, <2>5 DEF IInv
<1>6. CASE Edit \/ OtherCommit
  <2>1. CASE Session = {}
    <3>1. UNCHANGED call /\ ready' = ready
      BY <1>6 DEF Edit, OtherCommit, outcomeVars
    <3>2. \A d \in Caller : SeenOK(d)' /\ SagaOK(d)'
      BY <1>2, <2>1, <3>1
    <3>3. ReadyIsComplete'
      BY <1>0, <2>1, <3>1, ReadyKept
    <3>4. NoStaleAnswer' /\ OneInForce'
      BY <2>1 DEF NoStaleAnswer, OneInForce
    <3>5. QED
      BY <2>1, <3>2, <3>3, <3>4 DEF IInv
  <2>2. CASE Session # {}
    BY <1>5, <1>6, <2>2
  <2>3. QED
    BY <2>1, <2>2
<1>7. ASSUME NEW c \in Caller, NEW s \in Session,
             LoadAdvance(c, s) \/ LoadAnswer(c, s) \/ LoadPropose(c, s) \/ LoadCancel(c, s)
      PROVE  IInv'
  BY <1>4, <1>7, LoadKeeps
<1>8. ASSUME NEW c \in Caller, NEW s \in Session,
             Approve(c, s) \/ \E g \in Revision : Apply(c, s, g)
      PROVE  IInv'
  BY <1>4, <1>8, SurveyKeeps
<1>9. ASSUME NEW c \in Caller, Interview(c)
      PROVE  IInv'
  <2>1. /\ \A s \in Session : Kept(s) /\ Grows(s) /\ SessionOK(s)'
        /\ call' = [call EXCEPT ![c] = Idle]
        /\ UNCHANGED <<canon, init, written>> /\ ready' = ready
    BY <1>9, InterviewKeeps
  <2>2. \A d \in Caller : SeenOK(d)' /\ SagaOK(d)'
    BY <1>1, <2>1, OutKeeps
  <2>3. OneInForce'
    BY <1>0, <2>1 DEF OneInForce, Accepted
  <2>4. ReadyIsComplete'
    BY <1>0, <2>1, ReadyKept
  <2>5. NoStaleAnswer'
    <3>1. CASE Answer(c)
      BY <3>1, AnswerFresh
    <3>2. CASE Refuse(c)
      BY <1>3, <3>2 DEF Refuse
    <3>3. CASE (Advance(c) \/ Propose(c) \/ Cancel(c)) /\ ~Answer(c)
      <4>1. /\ call[c].of \in Session
            /\ \E x \in SessionRow : /\ session' = [session EXCEPT ![call[c].of] = x]
                                     /\ x.answers = session[call[c].of].answers
        BY <1>0, <3>3, SaveMoves
      <4>2. aux_under' = aux_under
        BY <3>3 DEF Advance, Propose, Cancel
      <4>3. \A s \in Session : SameAnswers(s)
        BY <4>1, <4>2 DEF SameAnswers, TypeOK
      <4>4. QED
        BY <1>0, <4>3, FreshKept
    <3>4. QED
      BY <1>9, <3>1, <3>2, <3>3 DEF Interview
  <2>6. QED
    BY <2>1, <2>2, <2>3, <2>4, <2>5 DEF IInv
<1>10. ASSUME NEW c \in Caller, SagaStep(c)
       PROVE  IInv'
  <2>1. /\ \A s \in Session : Kept(s) /\ Grows(s) /\ SessionOK(s)'
        /\ SeenOK(c)' /\ SagaOK(c)'
        /\ \A d \in Caller : d # c => call'[d] = call[d]
        /\ \A s \in Session : SameAnswers(s)
        /\ OneInForce'
        /\ ready' = ready \/ MarkReady(c)
    BY <1>10, SagaKeeps
  <2>2. \A d \in Caller : SeenOK(d)' /\ SagaOK(d)'
    BY <1>1, <2>1
  <2>3. NoStaleAnswer'
    BY <1>0, <2>1, FreshKept
  <2>4. ReadyIsComplete'
    <3>1. CASE ready' = ready
      BY <1>0, <2>1, <3>1, ReadyKept
    <3>2. CASE MarkReady(c)
      <4>1. call[c].pc = "ready" /\ call[c].pc \in SagaPc /\ call[c].pc \in AfterAccept
        BY <3>2 DEF MarkReady, At, SagaPc, AfterAccept
      <4>2. /\ written[call[c].of][call[c].base]
            /\ session[call[c].of].completion = call[c].base
        BY <1>0, <4>1 DEF SagaOK
      <4>3. /\ ready' = [session |-> call[c].of, base |-> call[c].base]
            /\ written' = written /\ session' = session
        BY <3>2 DEF MarkReady, interviewVars
      <4>4. /\ ready'.session = call[c].of /\ ready'.base = call[c].base
        BY <4>3
      <4>5. QED
        BY <4>2, <4>3, <4>4 DEF ReadyIsComplete
    <3>3. QED
      BY <2>1, <3>1, <3>2
  <2>5. QED
    BY <2>1, <2>2, <2>3, <2>4 DEF IInv
<1>11. ASSUME NEW c \in Caller, Stop(c) \/ Restart(c)
       PROVE  IInv'
  <2>1. /\ UNCHANGED <<interviewVars, canonVars, outcomeVars>>
        /\ \E r \in {Idle, Stopped} : call' = [call EXCEPT ![c] = r]
    BY <1>11 DEF Stop, Restart, Return
  <2>2. QED
    BY <1>4, <2>1, OutKeeps
<1>12. CASE UNCHANGED vars
  <2>1. UNCHANGED <<interviewVars, canonVars, outcomeVars>> /\ UNCHANGED call
    BY <1>12 DEF vars
  <2>2. QED
    BY <1>2, <1>3, <2>1 DEF IInv
<1>13. QED
  BY <1>5, <1>6, <1>7, <1>8, <1>9, <1>10, <1>11, <1>12 DEF Next

LEMMA Invariant == Spec => [](TypeOK /\ HeadOK /\ IInv)
<1>1. SagaAssumption
  BY SagaAssumption
<1>2. Init => TypeOK /\ HeadOK /\ IInv
  BY <1>1, InitType, InitInv DEF Init, HeadOK
<1>3. TypeOK /\ HeadOK /\ IInv /\ [Next]_vars => (TypeOK /\ HeadOK /\ IInv)'
  BY <1>1, StepType, StepHead, StepInv
<1>4. QED
  BY <1>2, <1>3, PTL DEF Spec

(* Two processes may answer, advance and cancel one interview at once: an     *)
(* answer in effect was given under the answers in effect.                    *)
THEOREM SagaNoStaleAnswer == Spec => []NoStaleAnswer
<1>1. IInv => NoStaleAnswer
  BY DEF IInv
<1>2. QED
  BY <1>1, Invariant, PTL

(* Of the registrations that calls racing each other, retries and retractions *)
(* leave behind, at most one is in force.                                     *)
THEOREM SagaOneInForce == Spec => []OneInForce
<1>1. IInv => OneInForce
  BY DEF IInv
<1>2. QED
  BY <1>1, Invariant, PTL

(* What the project is marked ready by has its files written and its session  *)
(* completed, and no later interview call or commit takes that back.          *)
THEOREM SagaReadyIsComplete == Spec => []ReadyIsComplete
<1>1. IInv => ReadyIsComplete
  BY DEF IInv
<1>2. QED
  BY <1>1, Invariant, PTL
=============================================================================
