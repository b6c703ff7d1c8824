------------------------------ MODULE InitSaga ------------------------------
(* The initialization of a project: interviews whose outcome is frozen as a   *)
(* proposal (plot_init/service.py, plot_init/storage.py), and the saga that   *)
(* brings a frozen proposal into the canon, writes its files, verifies them   *)
(* and completes the interview (v1_runtime.py).  Calls run in processes of    *)
(* their own; what a call reads in one transaction it uses in later ones.     *)
EXTENDS Naturals

CONSTANTS
  Session,      \* the initialization sessions of the project
  Caller,       \* the processes that serve calls
  Choice,       \* Choice[q]: the answers question q can have
  Asked,        \* Asked[s]: the questions the seed of s leaves open
  Power,        \* the sessions in protocol v2, which need a power specification
  MaxRevision,  \* bound on the revision at which an interview goes on
  MaxCanon,     \* bound on the canon revisions
  None          \* no answer, no receipt, no commit, no specification

(* The four decision packages of the interview.                               *)
Question == {"genre", "world", "power", "story"}

ASSUME SagaAssumption ==
  /\ Asked \in [Session -> SUBSET Question]
  /\ Power \subseteq Session
  /\ MaxRevision \in Nat /\ MaxCanon \in Nat
  /\ None \notin Nat \cup Session /\ \A q \in Question : None \notin Choice[q]

VARIABLES
  session,    \* the rows of initialization_sessions
  proposal,   \* the rows of initialization_proposals: the files seen when frozen
  canon,      \* active_canon_revision: the last commit that counts in the canon
  head,       \* head_canon_revision: the last commit, drafts and branches too
  spec,       \* the power specification proposed for a session
  init,       \* init[s][n]: the initialization of s registered at revision n
  grant,      \* grant[s]: the registrations of s an approval was issued for
  written,    \* written[s][n]: its materialization run is completed
  disk,       \* whose content the target files have
  receipt,    \* .plot-rag/completion-receipt.json
  ready,      \* the commit state_meta names as bootstrap_ready
  call,       \* the local variables of a call
  aux_under   \* the answers upstream of an answer when it was given

interviewVars == <<session, proposal, aux_under>>
canonVars == <<canon, head, spec, init, grant>>
outcomeVars == <<written, disk, receipt, ready>>
vars == <<interviewVars, canonVars, outcomeVars, call>>

Revision == 0..MaxCanon

(* What an answer makes obsolete when it changes.                             *)
Downstream ==
  [q \in Question |->
     CASE q = "genre" -> {"world", "story"}
       [] q = "world" -> {"story"}
       [] q = "power" -> {"story"}
       [] q = "story" -> {}]

(* What an answer builds on, by the dependencies the program declares.        *)
Upstream ==
  [q \in Question |->
     CASE q = "genre" -> {}
       [] q = "world" -> {"genre"}
       [] q = "power" -> {"world"}
       [] q = "story" -> {"genre", "world", "power"}]

NoAnswers == [q \in Question |-> None]

NoSession == [status |-> "none", revision |-> 0, base |-> 0,
              answers |-> NoAnswers, completion |-> None]

Idle == [pc |-> "idle"]
Stopped == [pc |-> "stopped"]

(* What a question may be answered with.                                      *)
Reply == {None} \cup UNION {Choice[q] : q \in Question}

SessionRow ==
  [status : {"none", "NEEDS_INPUT", "READY_TO_PROPOSE", "PROPOSAL_FROZEN",
             "CANCELLED", "STALE_CANON", "COMPLETED"},
   revision : Nat, base : Revision,
   answers : [Question -> Reply],
   completion : Revision \cup {None}]

SpecRow ==
  [status : {"none", "proposed", "accepted", "rejected", "retracted"},
   commit : Revision]

InitRow ==
  [status : {"none", "proposed", "accepted", "retracted"},
   spec : Session \cup {None}, commit : Revision]

(* A call of the interview, and one of the saga.                              *)
InterviewCall ==
  [pc : {"save"}, op : {"advance", "answer", "propose", "cancel"}, of : Session,
   seen : SessionRow, stale : BOOLEAN, question : Question \cup {None},
   choice : Reply]

SagaCall ==
  [pc : {"register", "issue", "accept", "materialize", "verify", "receipt",
         "write", "confirm", "complete", "finish", "ready"},
   op : {"approve", "apply"}, of : Session, grant : Revision, base : Revision,
   spec : Session \cup {None}, head : Revision, at : Nat]

TypeOK ==
  /\ session \in [Session -> SessionRow]
  /\ proposal \in [Session -> {None, "old", "edited"} \cup Session]
  /\ canon \in Revision /\ head \in Revision
  /\ spec \in [Session -> SpecRow]
  /\ init \in [Session -> [Revision -> InitRow]]
  /\ grant \in [Session -> SUBSET Revision]
  /\ written \in [Session -> [Revision -> BOOLEAN]]
  /\ disk \in {"old", "edited"} \cup Session
  /\ receipt \in {None} \cup
       [session : Session, base : Revision, head : Revision, active : Nat]
  /\ ready \in {None} \cup [session : Session, base : Revision]
  /\ call \in [Caller -> {Idle, Stopped} \cup InterviewCall \cup SagaCall]
  /\ aux_under \in [Session -> [Question -> [Question -> Reply]]]

Init ==
  /\ session = [s \in Session |-> NoSession]
  /\ proposal = [s \in Session |-> None]
  /\ canon = 0 /\ head = 0
  /\ spec = [s \in Session |-> [status |-> "none", commit |-> 0]]
  /\ init = [s \in Session |->
       [n \in Revision |-> [status |-> "none", spec |-> None, commit |-> 0]]]
  /\ grant = [s \in Session |-> {}]
  /\ written = [s \in Session |-> [n \in Revision |-> FALSE]]
  /\ disk = "old" /\ receipt = None /\ ready = None
  /\ call = [c \in Caller |-> Idle]
  /\ aux_under = [s \in Session |-> [q \in Question |-> NoAnswers]]

-----------------------------------------------------------------------------
(* The interview: every operation loads the session, computes the next one    *)
(* and saves it under compare-and-swap on its revision.                       *)

AllAnswered(s, x) == \A q \in Asked[s] : x.answers[q] # None

(* The stages up to the next decision of the user: an open question, gaps the *)
(* normalization still finds, or nothing left to ask.                         *)
Driven(s, x) ==
  {[x EXCEPT !.status = "NEEDS_INPUT"]}
  \cup (IF AllAnswered(s, x) THEN {[x EXCEPT !.status = "READY_TO_PROPOSE"]} ELSE {})

Start(s) ==
  /\ session[s].status = "none" /\ MaxRevision > 0
  /\ \E x \in Driven(s, [NoSession EXCEPT !.revision = 1, !.base = canon]) :
       session' = [session EXCEPT ![s] = x]
  /\ UNCHANGED <<proposal, aux_under, canonVars, outcomeVars, call>>

(* The guard of the canon is found changed when the revision moved, and may   *)
(* be at any time because the user edits the configuration it hashes.         *)
SeenStale(s, stale) == ~stale => session[s].base = canon

Load(c, s, op, stale, q, v) ==
  /\ call[c] = Idle
  /\ session[s].status # "none"
  /\ call' = [call EXCEPT ![c] =
       [pc |-> "save", op |-> op, of |-> s, seen |-> session[s],
        stale |-> stale, question |-> q, choice |-> v]]
  /\ UNCHANGED <<interviewVars, canonVars, outcomeVars>>

MayGoOn(s) ==
  /\ session[s].status \notin {"PROPOSAL_FROZEN", "CANCELLED"}
  /\ session[s].revision < MaxRevision

LoadAdvance(c, s) ==
  /\ MayGoOn(s)
  /\ \E stale \in BOOLEAN : SeenStale(s, stale) /\ Load(c, s, "advance", stale, None, None)

LoadAnswer(c, s) ==
  /\ MayGoOn(s)
  /\ SeenStale(s, FALSE)
  /\ \E q \in Asked[s] : \E v \in Choice[q] : Load(c, s, "answer", FALSE, q, v)

LoadPropose(c, s) ==
  /\ MayGoOn(s)
  /\ SeenStale(s, FALSE)
  /\ Load(c, s, "propose", FALSE, None, None)

LoadCancel(c, s) ==
  /\ session[s].status # "CANCELLED"
  /\ Load(c, s, "cancel", FALSE, None, None)

(* The transaction of save_session refuses a session that moved.              *)
Unmoved(s, seen) == session[s].revision = seen.revision

(* The session a save of c starts from, and its return.                       *)
Successor(c) == [call[c].seen EXCEPT !.revision = @ + 1]
Saving(c, op) == call[c].pc = "save" /\ call[c].op = op
Return(c) == call' = [call EXCEPT ![c] = Idle]

Advance(c) ==
  LET s == call[c].of IN
  /\ Saving(c, "advance") /\ Unmoved(s, call[c].seen)
  /\ \E x \in IF call[c].stale
              THEN {[Successor(c) EXCEPT !.status = "STALE_CANON"]}
              ELSE Driven(s, Successor(c)) :
       session' = [session EXCEPT ![s] = x]
  /\ Return(c)
  /\ UNCHANGED <<proposal, aux_under, canonVars, outcomeVars>>

(* Mutant: a changed answer keeps the answers that were given under it.       *)
AnsweredAlone(x, q, v) == [x EXCEPT !.answers[q] = v]

(* A changed answer drops the answers that were given under the old one.      *)
Answered(x, q, v) ==
  [x EXCEPT !.answers = [p \in Question |->
     IF p = q THEN v
     ELSE IF x.answers[q] # v /\ p \in Downstream[q] THEN None
     ELSE x.answers[p]]]

Answer(c) ==
  LET s == call[c].of
      q == call[c].question
      y == Answered(Successor(c), q, call[c].choice)
  IN
  /\ Saving(c, "answer") /\ Unmoved(s, call[c].seen)
  /\ \E x \in Driven(s, y) : session' = [session EXCEPT ![s] = x]
  /\ aux_under' = [aux_under EXCEPT ![s] = [p \in Question |->
       IF p = q THEN [u \in Question |-> IF u \in Upstream[q] THEN y.answers[u] ELSE None]
       ELSE IF y.answers[p] = None THEN NoAnswers
       ELSE aux_under[s][p]]]
  /\ Return(c)
  /\ UNCHANGED <<proposal, canonVars, outcomeVars>>

Propose(c) ==
  LET s == call[c].of IN
  /\ Saving(c, "propose") /\ Unmoved(s, call[c].seen) /\ AllAnswered(s, call[c].seen)
  /\ session' = [session EXCEPT ![s] = [Successor(c) EXCEPT !.status = "PROPOSAL_FROZEN"]]
  /\ proposal' = [proposal EXCEPT ![s] = disk]
  /\ Return(c)
  /\ UNCHANGED <<aux_under, canonVars, outcomeVars>>

Cancel(c) ==
  LET s == call[c].of IN
  /\ Saving(c, "cancel") /\ Unmoved(s, call[c].seen)
  /\ session' = [session EXCEPT ![s] = [Successor(c) EXCEPT !.status = "CANCELLED"]]
  /\ Return(c)
  /\ UNCHANGED <<proposal, aux_under, canonVars, outcomeVars>>

(* The session moved, or there is something left to ask.                      *)
Refuse(c) ==
  /\ call[c].pc = "save"
  /\ ~Unmoved(call[c].of, call[c].seen) \/ call[c].op = "propose"
  /\ Return(c)
  /\ UNCHANGED <<interviewVars, canonVars, outcomeVars>>

-----------------------------------------------------------------------------
(* The saga.  A call surveys what is registered and accepted, registers the   *)
(* initialization at the canon revision it reads then, and goes on to issue   *)
(* an approval ("approve") or to use one ("apply").                           *)

Accepted(s) == {n \in Revision : init[s][n].status = "accepted"}
SpecInForce(k) == spec[k].status = "accepted"

Saga(pc, op, s, g, n, k) ==
  [pc |-> pc, op |-> op, of |-> s, grant |-> g, base |-> n, spec |-> k,
   head |-> 0, at |-> 0]

At(c, pc) == call[c].pc = pc
Goto(c, pc) == call' = [call EXCEPT ![c].pc = pc]

(* An initialization in force is what a repeated call goes on with.           *)
FindAccepted(c, s, g) ==
  /\ \E n \in Accepted(s) :
       /\ \A m \in Accepted(s) : m <= n
       /\ call' = [call EXCEPT ![c] = Saga("accept", "apply", s, g, n, None)]
  /\ UNCHANGED <<interviewVars, canonVars, outcomeVars>>

(* Otherwise protocol v2 looks for an accepted specification of its power     *)
(* design, its own or that of another initialization.                         *)
FindSpec(c, s, op, g) ==
  /\ Accepted(s) = {}
  /\ \E k \in IF s \in Power THEN {p \in Power : SpecInForce(p)} ELSE {None} :
       call' = [call EXCEPT ![c] = Saga("register", op, s, g, 0, k)]
  /\ UNCHANGED <<interviewVars, canonVars, outcomeVars>>

Approve(c, s) == call[c] = Idle /\ proposal[s] # None /\ FindSpec(c, s, "approve", 0)

Apply(c, s, g) ==
  /\ call[c] = Idle /\ proposal[s] # None /\ g \in grant[s]
  /\ FindAccepted(c, s, g) \/ FindSpec(c, s, "apply", g)

(* Without one it proposes its own and asks for that approval first; a        *)
(* rejected or retracted one ends the saga.                                   *)
ProposeSpec(s) ==
  /\ s \in Power /\ proposal[s] # None
  /\ Accepted(s) = {} /\ ~\E k \in Power : SpecInForce(k)
  /\ spec[s].status = "none"
  /\ spec' = [spec EXCEPT ![s].status = "proposed"]
  /\ UNCHANGED <<interviewVars, canon, head, init, grant, outcomeVars, call>>

(* Protocol v1 keeps the base of the interview, v2 takes the revision of now. *)
Register(c) ==
  LET s == call[c].of
      n == IF s \in Power THEN canon ELSE session[s].base
  IN
  /\ At(c, "register")
  /\ init' = IF init[s][n].status = "none"
             THEN [init EXCEPT ![s][n] =
                     [status |-> "proposed", spec |-> call[c].spec, commit |-> 0]]
             ELSE init
  /\ call' = [call EXCEPT ![c].base = n, ![c].spec = None,
                ![c].pc = IF call[c].op = "approve" THEN "issue" ELSE "accept"]
  /\ UNCHANGED <<interviewVars, canon, head, spec, grant, outcomeVars>>

Issue(c) ==
  LET s == call[c].of
      n == call[c].base
  IN
  /\ At(c, "issue")
  /\ grant' = IF init[s][n].status = "proposed" /\ canon = n
              THEN [grant EXCEPT ![s] = @ \cup {n}] ELSE grant
  /\ Return(c)
  /\ UNCHANGED <<interviewVars, canon, head, spec, init, outcomeVars>>

(* Mutant: the approval is not bound to the registration it was issued for.   *)
MayEnterWithAnyApproval(c) ==
  LET s == call[c].of
      n == call[c].base
  IN
  /\ init[s][n].status = "proposed"
  /\ canon = n /\ head < MaxCanon
  /\ SpecInForce(init[s][n].spec) /\ disk = proposal[s]

(* What the transaction of accept_proposal asks of the canon and the targets. *)
MayEnter(c) ==
  LET s == call[c].of
      n == call[c].base
      k == init[s][n].spec
  IN
  /\ n = call[c].grant
  /\ init[s][n].status = "proposed"
  /\ canon = n /\ head < MaxCanon
  /\ k # None => SpecInForce(k) /\ spec[k].commit <= n
  /\ disk = proposal[s]

(* Mutant: a consumed grant is refused.                                       *)
RepeatsNothing(c) == FALSE

(* A consumed grant returns its commit again, retracted or not.               *)
Repeats(c) ==
  /\ call[c].base = call[c].grant
  /\ init[call[c].of][call[c].base].status \in {"accepted", "retracted"}

(* A commit moves the head by one, and the canon up to it if it counts there: *)
(* not if it is a draft or belongs to a branch.                               *)
Commit == head < MaxCanon /\ head' = head + 1
CommitToCanon == Commit /\ canon' = head + 1

Accept(c) ==
  /\ At(c, "accept") /\ MayEnter(c)
  /\ init' = [init EXCEPT ![call[c].of][call[c].base].status = "accepted",
                          ![call[c].of][call[c].base].commit = head + 1]
  /\ CommitToCanon
  /\ Goto(c, "materialize")
  /\ UNCHANGED <<interviewVars, spec, grant, outcomeVars>>

AcceptAgain(c) ==
  /\ At(c, "accept") /\ Repeats(c)
  /\ Goto(c, "materialize")
  /\ UNCHANGED <<interviewVars, canonVars, outcomeVars>>

(* Refused where MayEnter fails; and, at any time, because the approval has   *)
(* expired or an ingested source changed.                                     *)
AcceptRefused(c) ==
  /\ At(c, "accept") /\ ~Repeats(c)
  /\ Return(c)
  /\ UNCHANGED <<interviewVars, canonVars, outcomeVars>>

(* Staging and activation replace only the files the proposal was frozen on.  *)
Materialize(c) ==
  LET s == call[c].of
      n == call[c].base
  IN
  /\ At(c, "materialize")
  /\ written[s][n] \/ disk = proposal[s]
  /\ disk' = IF written[s][n] THEN disk ELSE s
  /\ written' = [written EXCEPT ![s][n] = TRUE]
  /\ Goto(c, "verify")
  /\ UNCHANGED <<interviewVars, canonVars, receipt, ready>>

MaterializeRefused(c) ==
  /\ At(c, "materialize")
  /\ ~written[call[c].of][call[c].base] /\ disk # proposal[call[c].of]
  /\ Return(c)
  /\ UNCHANGED <<interviewVars, canonVars, outcomeVars>>

(* The receipt of a commit: its revisions as the commit has them.             *)
ReceiptOf(s, n) ==
  [session |-> s, base |-> n,
   head |-> init[s][n].commit, active |-> init[s][n].commit]

(* verify_initialization: the files are the approved ones or those of an      *)
(* accepted successor, the commits are in force, in protocol v2 the commit    *)
(* has the revision after the one it was prepared at, and a receipt, if there *)
(* is one, is that of this commit and gives its revisions.                    *)
Verified(s, n) ==
  /\ written[s][n]
  /\ disk = s \/ (disk \in Session /\ Accepted(disk) # {})
  /\ n \in Accepted(s)
  /\ init[s][n].spec # None => SpecInForce(init[s][n].spec)
  /\ s \in Power => init[s][n].commit = n + 1
  /\ receipt # None => receipt = ReceiptOf(s, n)

Verify(c) ==
  /\ At(c, "verify")
  /\ IF Verified(call[c].of, call[c].base) THEN Goto(c, "receipt") ELSE Return(c)
  /\ UNCHANGED <<interviewVars, canonVars, outcomeVars>>

(* The receipt gives the canon revisions of now; one that exists is kept, and *)
(* one of another initialization is a conflict.                               *)
DraftReceipt(c) ==
  /\ At(c, "receipt") /\ receipt = None
  /\ call' = [call EXCEPT ![c].pc = "write", ![c].head = head, ![c].at = canon]
  /\ UNCHANGED <<interviewVars, canonVars, outcomeVars>>

KeepReceipt(c) ==
  /\ At(c, "receipt") /\ receipt # None
  /\ IF receipt.session = call[c].of /\ receipt.base = call[c].base
     THEN Goto(c, "confirm") ELSE Return(c)
  /\ UNCHANGED <<interviewVars, canonVars, outcomeVars>>

WriteReceipt(c) ==
  /\ At(c, "write")
  /\ receipt' = [session |-> call[c].of, base |-> call[c].base,
                 head |-> call[c].head, active |-> call[c].at]
  /\ Goto(c, "confirm")
  /\ UNCHANGED <<interviewVars, canonVars, written, disk, ready>>

Confirm(c) ==
  /\ At(c, "confirm")
  /\ IF Verified(call[c].of, call[c].base) THEN Goto(c, "complete") ELSE Return(c)
  /\ UNCHANGED <<interviewVars, canonVars, outcomeVars>>

(* Mutant: a session that is not frozen any more counts as completed.         *)
LoadCompleteUnlessFrozen(c) ==
  LET x == session[call[c].of] IN
  /\ At(c, "complete")
  /\ IF x.status = "PROPOSAL_FROZEN"
     THEN call' = [call EXCEPT ![c].pc = "finish", ![c].at = x.revision]
     ELSE Goto(c, "ready")
  /\ UNCHANGED <<interviewVars, canonVars, outcomeVars>>

(* complete: a session completed with this commit answers again, a frozen one *)
(* is loaded, any other refuses.                                              *)
LoadComplete(c) ==
  LET x == session[call[c].of] IN
  /\ At(c, "complete")
  /\ \/ x.completion = call[c].base /\ Goto(c, "ready")
     \/ x.status = "PROPOSAL_FROZEN"
        /\ call' = [call EXCEPT ![c].pc = "finish", ![c].at = x.revision]
     \/ /\ x.status # "PROPOSAL_FROZEN"
        /\ x.status = "COMPLETED" => x.completion # call[c].base
        /\ Return(c)
  /\ UNCHANGED <<interviewVars, canonVars, outcomeVars>>

Complete(c) ==
  LET s == call[c].of IN
  /\ At(c, "finish") /\ session[s].revision = call[c].at
  /\ session' = [session EXCEPT ![s].status = "COMPLETED", ![s].revision = @ + 1,
                                ![s].completion = call[c].base]
  /\ Goto(c, "ready")
  /\ UNCHANGED <<proposal, aux_under, canonVars, outcomeVars>>

(* The session moved: a conflict, unless the same request already completed.  *)
CompleteMoved(c) ==
  LET x == session[call[c].of] IN
  /\ At(c, "finish") /\ x.revision # call[c].at
  /\ Return(c) \/ (x.completion = call[c].base /\ Goto(c, "ready"))
  /\ UNCHANGED <<interviewVars, canonVars, outcomeVars>>

MarkReady(c) ==
  /\ At(c, "ready")
  /\ ready' = [session |-> call[c].of, base |-> call[c].base]
  /\ Return(c)
  /\ UNCHANGED <<interviewVars, canonVars, written, disk, receipt>>

(* A call of the saga ends early: an exception, a degraded projection, a      *)
(* crash; its process serves calls again.  A call of the interview that ends  *)
(* early has changed nothing.                                                 *)
Stop(c) ==
  /\ call[c].pc \notin {"idle", "save", "stopped"}
  /\ call' = [call EXCEPT ![c] = Stopped]
  /\ UNCHANGED <<interviewVars, canonVars, outcomeVars>>

Restart(c) ==
  /\ At(c, "stopped") /\ Return(c)
  /\ UNCHANGED <<interviewVars, canonVars, outcomeVars>>

-----------------------------------------------------------------------------
(* What else moves the canon: the review of power specifications, retractions *)
(* and the commits of other work.                                             *)

AcceptSpec(s) ==
  /\ spec[s].status = "proposed" /\ canon = session[s].base
  /\ CommitToCanon
  /\ spec' = [spec EXCEPT ![s] = [status |-> "accepted", commit |-> head + 1]]
  /\ UNCHANGED <<interviewVars, init, grant, outcomeVars, call>>

RejectSpec(s) ==
  /\ spec[s].status = "proposed"
  /\ spec' = [spec EXCEPT ![s].status = "rejected"]
  /\ UNCHANGED <<interviewVars, canon, head, init, grant, outcomeVars, call>>

RetractSpec(s) ==
  /\ SpecInForce(s)
  /\ CommitToCanon
  /\ spec' = [spec EXCEPT ![s].status = "retracted"]
  /\ UNCHANGED <<interviewVars, init, grant, outcomeVars, call>>

RetractInit(s) ==
  /\ \E n \in Accepted(s) : init' = [init EXCEPT ![s][n].status = "retracted"]
  /\ CommitToCanon
  /\ UNCHANGED <<interviewVars, spec, grant, outcomeVars, call>>

(* Somebody edits a target file between freeze and write; an edit before that *)
(* is part of what is frozen.                                                 *)
Edit ==
  /\ \E s \in Session : proposal[s] = "old"
  /\ disk = "old" /\ disk' = "edited"
  /\ UNCHANGED <<interviewVars, canonVars, written, receipt, ready, call>>

OtherCommit ==
  /\ CommitToCanon \/ (Commit /\ UNCHANGED canon)
  /\ UNCHANGED <<interviewVars, spec, init, grant, outcomeVars, call>>

-----------------------------------------------------------------------------
Interview(c) == Advance(c) \/ Answer(c) \/ Propose(c) \/ Cancel(c) \/ Refuse(c)

SagaStep(c) ==
  \/ Register(c) \/ Issue(c) \/ Accept(c) \/ AcceptAgain(c) \/ AcceptRefused(c)
  \/ Materialize(c) \/ MaterializeRefused(c) \/ Verify(c)
  \/ DraftReceipt(c) \/ KeepReceipt(c) \/ WriteReceipt(c) \/ Confirm(c)
  \/ LoadComplete(c) \/ Complete(c) \/ CompleteMoved(c) \/ MarkReady(c)

Next ==
  \/ \E s \in Session :
       Start(s) \/ ProposeSpec(s) \/ AcceptSpec(s) \/ RejectSpec(s)
         \/ RetractSpec(s) \/ RetractInit(s)
  \/ Edit \/ OtherCommit
  \/ \E c \in Caller, s \in Session :
       \/ LoadAdvance(c, s) \/ LoadAnswer(c, s) \/ LoadPropose(c, s) \/ LoadCancel(c, s)
       \/ Approve(c, s) \/ \E g \in Revision : Apply(c, s, g)
  \/ \E c \in Caller : Interview(c) \/ SagaStep(c) \/ Stop(c) \/ Restart(c)

Spec == Init /\ [][Next]_vars

(* The apply of an accepted initialization, with the approval it was accepted *)
(* on.                                                                        *)
Repeat(s) == \E c \in Caller : \E g \in Accepted(s) : Apply(c, s, g)

(* While calls are under way one of them goes on, an apply that did not       *)
(* finish is repeated, and not every repetition ends early.                   *)
Fairness ==
  /\ WF_vars(\E c \in Caller : Interview(c) \/ SagaStep(c) \/ Restart(c))
  /\ \A s \in Session : SF_vars(Repeat(s))
  /\ <>[][\A c \in Caller : ~Stop(c)]_vars

FairSpec == Spec /\ Fairness

-----------------------------------------------------------------------------
(* An answer in effect was given under the answers that are in effect for     *)
(* what it builds on, whoever answered in between.  The code keeps this for   *)
(* the world and the story; an answer about power outlives a change of the    *)
(* genre or the world.                                                        *)
NoStaleAnswer ==
  \A s \in Session : \A q \in Question \ {"power"} : \A u \in Upstream[q] :
    session[s].answers[q] # None => aux_under[s][q][u] = session[s].answers[u]

(* However calls interleave, and at whatever revisions they registered it, an *)
(* initialization is in force in the canon at most once.                      *)
OneInForce == \A s \in Session : \A m, n \in Accepted(s) : m = n

(* A project is marked ready by a commit whose files were written and with    *)
(* which its session was completed, for good.                                 *)
ReadyIsComplete ==
  ready # None =>
    /\ written[ready.session][ready.base]
    /\ session[ready.session].completion = ready.base

(* Nothing has come between an accepted initialization and its completion:    *)
(* its session is still frozen or completed, its specification in force, its  *)
(* files as they were frozen or written, and no commit of any kind, drafts    *)
(* and branches included, was made between its accept and its receipt.  In    *)
(* protocol v2 no draft or branch commit was the last before the accept       *)
(* either: the commit then skips revisions, and verification wants the one    *)
(* after the base.                                                            *)
Undisturbed(s, n) ==
  /\ session[s].status \in {"PROPOSAL_FROZEN", "COMPLETED"}
  /\ init[s][n].spec # None => SpecInForce(init[s][n].spec)
  /\ disk = IF written[s][n] THEN s ELSE proposal[s]
  /\ s \in Power => init[s][n].commit = n + 1
  /\ IF receipt = None THEN head = init[s][n].commit ELSE receipt = ReceiptOf(s, n)

Unfinished(s) ==
  \E n \in Accepted(s) : Undisturbed(s, n) /\ ready # [session |-> s, base |-> n]

(* The saga is recoverable: wherever its calls end, repeating the apply makes *)
(* the project ready unless something comes between.                          *)
ApplyRecovers == \A s \in Session : []<>~Unfinished(s)
=============================================================================
