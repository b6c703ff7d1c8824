----------------------------- MODULE GrillGate -----------------------------
(* Intent interviews and their handoff to Prepare: GrillGateService of        *)
(* scripts/grill_gate.py under the prompt and Stop hooks of                   *)
(* hooks/plot_progression_gate.py, in one project and one host session, for   *)
(* plot turns. The host gives the next prompt when the hooks of the last have *)
(* ended, but may run the hook of one prompt several times over: every run is *)
(* a sequence of transactions on the interviews, on the receipts and on the   *)
(* question of the event experience, with those of other runs in between.     *)
(*                                                                            *)
(* What the answers say is left out: of an interview the model keeps how many *)
(* questions are still to be asked.                                           *)
EXTENDS Naturals, Sequences, SequencesExt

CONSTANTS
  Hook,          \* processes of the UserPromptSubmit hook
  Turn,          \* turn ids of the host; a turn keeps its prompt
  Session,       \* grill_session_id
  MaxQuestions,  \* max_questions
  None

ASSUME QuestionsAssumption == MaxQuestions \in Nat \ {0}

VARIABLES
  begun,     \* turns whose prompt was submitted
  current,   \* the turn that runs
  prompt,    \* what its prompt says
  session,   \* grill_sessions
  order,     \* sessions by updated_at
  response,  \* grill_turn_responses
  question,  \* the event-experience question of a session
  receipts,  \* turns: the receipts Prepare wrote, as <<turn, session>>
  texts,     \* turns whose text a Stop hook has handed to the extraction
  hook       \* [Hook -> local variables of main]

store == <<session, order>>
turns == <<begun, current, prompt>>
vars == <<turns, store, response, question, receipts, texts, hook>>

(* "story" asks for plot, "more" for its continuation, "skip" for either      *)
(* without an interview; "again" repeats or inspects, "cancel" cancels, and   *)
(* "text" is anything else.                                                   *)
Prompt == {"story", "more", "skip", "again", "cancel", "text"}
StartsPlot == {"story", "more", "skip"}

(* prepare_status and prepare_result: nothing yet, the result of the event    *)
(* gate that asks or that repeats its question, one without a question, or    *)
(* the answer of Prepare.                                                     *)
Waiting == {"ask", "again", "lost"}
Result == {"nothing", "receipt", "failed"} \cup Waiting

Row ==
  [status   : {"AWAITING_ANSWER", "EXECUTING", "COMPLETED", "CANCELLED", "HANDOFF_FAILED"},
   revision : Nat,
   missing  : 0..MaxQuestions,       \* questions still to be asked
   fresh    : BOOLEAN,               \* not expired
   parent   : Session \cup {None},   \* parent_grill_session_id
   handoff  : Turn \cup {None},      \* handoff_turn_id
   result   : Result]

Response ==
  [action : {"ask", "proceed", "cancel", "conflict"}, session : Session, revision : Nat]

ASSUME NoneAssumption == None \notin Turn /\ None \notin Row

Local ==
  [pc      : {"idle", "look", "answer", "regate", "keep", "process", "gate",
              "await", "read", "prepare", "mark", "fail"},
   turn    : Turn \cup {None},
   session : Session \cup {None},
   revision : Nat,                   \* the revision mark_prepared is to find
   handoff : Turn \cup {None},       \* handoff_turn_id of the pending session
   result  : Result]

Idle == [pc |-> "idle", turn |-> None, session |-> None, revision |-> 0,
         handoff |-> None, result |-> "nothing"]

TypeOK ==
  /\ begun \subseteq Turn
  /\ current \in begun \cup {None} /\ prompt \in Prompt \cup {None}
  /\ session \in [Session -> Row \cup {None}]
  /\ order \in Seq(Session) /\ IsInjective(order)
  /\ response \in [Turn -> Response \cup {None}]
  /\ question \in [Session -> {"none", "due", "open", "answered", "retired"}]
  /\ receipts \subseteq Turn \X Session
  /\ texts \subseteq Turn
  /\ hook \in [Hook -> Local]

Init ==
  /\ begun = {} /\ current = None /\ prompt = None
  /\ session = [s \in Session |-> None] /\ order = <<>>
  /\ response = [t \in Turn |-> None]
  /\ question \in [Session -> {"none", "due"}]
  /\ receipts = {} /\ texts = {}
  /\ hook = [h \in Hook |-> Idle]

-----------------------------------------------------------------------------
(* Rows and their order.                                                      *)

Sessions == ToSet(order)
In(status) == {s \in Sessions : session[s].status = status}
Unexpired(S) == {s \in S : session[s].fresh}

(* ORDER BY updated_at DESC LIMIT 1, of a set that is not empty.              *)
Latest(S) == order[CHOOSE i \in DOMAIN order :
                     order[i] \in S /\ \A j \in DOMAIN order : order[j] \in S => j <= i]

(* _find_active_row                                                           *)
Active == Unexpired(In("AWAITING_ANSWER"))

(* _pending_event_experience_handoff                                          *)
Pending == {s \in In("EXECUTING") : session[s].result \in Waiting}

(* What is left of the order when s is taken out of it.                       *)
Others(s) ==
  IF s \in Sessions THEN RemoveAt(order, CHOOSE i \in DOMAIN order : order[i] = s) ELSE order

(* _save_state: s has the latest updated_at now.                              *)
Save(s, row) ==
  /\ session' = [session EXCEPT ![s] = row]
  /\ order' = Append(Others(s), s)

Advanced(s) == [session[s] EXCEPT !.revision = @ + 1]

At(h, pc) == hook[h].pc = pc
Goto(h, pc) == hook' = [hook EXCEPT ![h].pc = pc]
Exit(h) == hook' = [hook EXCEPT ![h] = Idle]

-----------------------------------------------------------------------------
(* UserPromptSubmit of a new turn, or once more of the one that runs.         *)

Submit(h, t) ==
  /\ At(h, "idle")
  /\ \/ /\ t \notin begun /\ \A g \in Hook : At(g, "idle")
        /\ begun' = begun \cup {t} /\ current' = t
        /\ prompt' \in Prompt
     \/ t = current /\ t \notin texts /\ UNCHANGED turns
  /\ hook' = [hook EXCEPT ![h] = [Idle EXCEPT !.pc = "look", !.turn = t]]
  /\ UNCHANGED <<store, response, question, receipts, texts>>

(* The latest session that waits for the event experience takes the prompt,   *)
(* whatever it says; else an interview, a repeated turn and a plot prompt go  *)
(* on, if the barrier lets them.                                              *)
Look(h) ==
  /\ At(h, "look")
  /\ LET t == hook[h].turn IN
     IF Pending # {}
     THEN LET s == Latest(Pending)
          IN hook' = [hook EXCEPT ![h] = [@ EXCEPT
                        !.pc = "answer", !.session = s, !.revision = session[s].revision,
                        !.handoff = session[s].handoff, !.result = session[s].result]]
     ELSE IF Active # {} \/ response[t] # None \/ prompt \in StartsPlot
     THEN Goto(h, "process") \/ Exit(h)
     ELSE Exit(h)
  /\ UNCHANGED <<turns, store, response, question, receipts, texts>>

-----------------------------------------------------------------------------
(* process: one transaction.                                                  *)

(* h prints the answer, or goes on to the handoff when it is to proceed.      *)
Respond(h, a) ==
  hook' = [hook EXCEPT ![h] =
             IF a.action = "proceed"
             THEN [@ EXCEPT !.pc = "gate", !.session = a.session, !.revision = a.revision]
             ELSE Idle]

Record(h, action, s, revision) ==
  LET a == [action |-> action, session |-> s, revision |-> revision]
  IN /\ response' = [response EXCEPT ![hook[h].turn] = a]
     /\ Respond(h, a)

Answering(h) == At(h, "process") /\ response[hook[h].turn] = None

(* A turn that was answered is answered the same again.                       *)
Cached(h) ==
  /\ At(h, "process") /\ response[hook[h].turn] # None
  /\ Respond(h, response[hook[h].turn])
  /\ UNCHANGED <<turns, store, response, question, receipts, texts>>

Repeat(h) ==
  /\ Answering(h) /\ Active # {} /\ prompt = "again"
  /\ Record(h, "ask", Latest(Active), session[Latest(Active)].revision)
  /\ UNCHANGED <<turns, store, question, receipts, texts>>

Cancel(h) ==
  /\ Answering(h) /\ Active # {} /\ prompt = "cancel"
  /\ LET s == Latest(Active)
         row == Advanced(s)
     IN /\ Save(s, [row EXCEPT !.status = "CANCELLED"])
        /\ Record(h, "cancel", s, row.revision)
  /\ UNCHANGED <<turns, question, receipts, texts>>

(* An answer asks the next question, or the contract is complete. A skip      *)
(* completes it at once.                                                      *)
AnswerField(h) ==
  /\ Answering(h) /\ Active # {} /\ prompt \in {"story", "more", "skip", "text"}
  /\ LET s == Latest(Active)
         row == Advanced(s)
     IN IF row.missing > 1 /\ prompt # "skip"
        THEN /\ Save(s, [row EXCEPT !.missing = @ - 1])
             /\ Record(h, "ask", s, row.revision)
        ELSE /\ Save(s, [row EXCEPT !.missing = 0, !.status = "EXECUTING"])
             /\ Record(h, "proceed", s, row.revision)
  /\ UNCHANGED <<turns, question, receipts, texts>>

NewRow(status, missing, parent) ==
  [status |-> status, revision |-> 1, missing |-> missing, fresh |-> TRUE,
   parent |-> parent, handoff |-> None, result |-> "nothing"]

(* _latest_reusable_row                                                       *)
Reusable == Unexpired(In("COMPLETED"))

(* A continuation inherits the latest contract that was carried out.          *)
Inherit(h, s) ==
  /\ Answering(h) /\ Active = {} /\ s \notin Sessions
  /\ prompt = "more" /\ Reusable # {}
  /\ Save(s, NewRow("EXECUTING", 0, Latest(Reusable)))
  /\ Record(h, "proceed", s, 1)
  /\ UNCHANGED <<turns, question, receipts, texts>>

(* A new session asks, unless the prompt skips or is clear enough.            *)
Begin(h, s) ==
  /\ Answering(h) /\ Active = {} /\ s \notin Sessions
  /\ ~(prompt = "more" /\ Reusable # {})
  /\ \/ /\ Save(s, NewRow("EXECUTING", 0, None))
        /\ Record(h, "proceed", s, 1)
     \/ /\ prompt # "skip"
        /\ \E m \in 1..MaxQuestions : Save(s, NewRow("AWAITING_ANSWER", m, None))
        /\ Record(h, "ask", s, 1)
  /\ UNCHANGED <<turns, question, receipts, texts>>

-----------------------------------------------------------------------------
(* From a locked contract to Prepare.                                         *)

(* Mutant: only the first run of a turn waits for the answer.                 *)
Gate_AsksOnce(h) ==
  /\ At(h, "gate")
  /\ LET s == hook[h].session IN
     IF question[s] = "due"
     THEN /\ question' = [question EXCEPT ![s] = "open"]
          /\ hook' = [hook EXCEPT ![h].pc = "await", ![h].result = "ask"]
     ELSE Goto(h, "read") /\ UNCHANGED question
  /\ UNCHANGED <<turns, store, response, receipts, texts>>

(* The barrier blocks the turn, or _prepare_event_experience_gate: locked or  *)
(* off, asks, or blocks the turn.                                             *)
Gate(h) ==
  /\ At(h, "gate")
  /\ LET s == hook[h].session IN
     \/ /\ question[s] \in {"none", "answered"}
        /\ Goto(h, "read")
        /\ UNCHANGED question
     \/ /\ question[s] \in {"due", "open"}
        /\ question' = [question EXCEPT ![s] = "open"]
        /\ hook' = [hook EXCEPT ![h].pc = "await", ![h].result = "ask"]
     \/ /\ Exit(h)
        /\ UNCHANGED question
  /\ UNCHANGED <<turns, store, response, receipts, texts>>

(* mark_prepared: the result that is on record, or the first of this          *)
(* revision. Two answers of Prepare may still differ, in what they measured.  *)
Recorded(h, turn) ==
  LET row == session[hook[h].session] IN
  /\ row.status \in {"EXECUTING", "COMPLETED"}
  /\ row.handoff = turn /\ row.result = hook[h].result
  /\ UNCHANGED store

(* Mutant: the last result of a session is its result.                        *)
FirstOf_LastWins(h, turn) ==
  LET row == session[hook[h].session] IN
  /\ row.status = "EXECUTING"
  /\ Save(hook[h].session,
          [Advanced(hook[h].session) EXCEPT !.handoff = turn, !.result = hook[h].result])

FirstOf(h, turn) ==
  LET row == session[hook[h].session] IN
  /\ row.status = "EXECUTING" /\ row.revision = hook[h].revision
  /\ ~(row.handoff = turn /\ row.result = hook[h].result)
  /\ Save(hook[h].session,
          [Advanced(hook[h].session) EXCEPT !.handoff = turn, !.result = hook[h].result])

Refused(h, turn) ==
  LET row == session[hook[h].session] IN
  /\ row.status # "EXECUTING" \/ row.revision # hook[h].revision
  /\ hook[h].result \in Waiting => ~(row.handoff = turn /\ row.result = hook[h].result)
  /\ UNCHANGED store

MarkPrepared(h, turn) == Recorded(h, turn) \/ FirstOf(h, turn) \/ Refused(h, turn)

(* The turn is blocked by its question, whether or not that is on record.     *)
Await(h) ==
  /\ At(h, "await")
  /\ MarkPrepared(h, hook[h].turn)
  /\ Exit(h)
  /\ UNCHANGED <<turns, response, question, receipts, texts>>

(* session_state: a result that this turn was handed before is used again.    *)
Read(h) ==
  /\ At(h, "read")
  /\ LET row == session[hook[h].session] IN
     IF row.handoff = hook[h].turn /\ row.result # "nothing"
     THEN hook' = [hook EXCEPT ![h].pc = "mark",
                               ![h].result = IF row.result \in Waiting THEN "failed" ELSE row.result]
     ELSE Goto(h, "prepare")
  /\ UNCHANGED <<turns, store, response, question, receipts, texts>>

(* prepare_plot_turn; it may fail with a receipt written or not.              *)
Prepare(h) ==
  /\ At(h, "prepare")
  /\ LET receipt == <<hook[h].turn, hook[h].session>> IN
     \E kind \in {"receipt", "failed"} :
       /\ \/ receipts' = receipts \cup {receipt}
          \/ kind = "failed" /\ UNCHANGED receipts
       /\ hook' = [hook EXCEPT ![h].pc = "mark", ![h].result = kind]
  /\ UNCHANGED <<turns, store, response, question, texts>>

Mark(h) ==
  /\ At(h, "mark")
  /\ \/ (Recorded(h, hook[h].turn) \/ FirstOf(h, hook[h].turn)) /\ Exit(h)
     \/ Refused(h, hook[h].turn) /\ Goto(h, "fail")
  /\ UNCHANGED <<turns, response, question, receipts, texts>>

(* fail_handoff: the answer of the turn becomes a conflict.                   *)
Fail(h) ==
  /\ At(h, "fail")
  /\ LET s == hook[h].session
         t == hook[h].turn
         row == [Advanced(s) EXCEPT !.status = "HANDOFF_FAILED", !.handoff = t]
     IN IF session[s].status = "EXECUTING"
        THEN /\ Save(s, row)
             /\ response' = IF response[t] = None THEN response
                            ELSE [response EXCEPT ![t] =
                              [action |-> "conflict", session |-> s, revision |-> row.revision]]
        ELSE UNCHANGED <<store, response>>
  /\ Exit(h)
  /\ UNCHANGED <<turns, question, receipts, texts>>

-----------------------------------------------------------------------------
(* A prompt while a session waits for the event experience.                   *)

(* answer_question: "text" may name an option and "cancel" may cancel.        *)
AnswerQuestion(h) ==
  /\ At(h, "answer")
  /\ LET s == hook[h].session
         keep(kind) == hook' = [hook EXCEPT ![h].pc = "keep", ![h].result = kind]
     IN \/ keep("lost") /\ UNCHANGED question   \* refused: no binding, retired, stale
        \/ /\ hook[h].result # "lost" /\ question[s] = "open"
           /\ keep("again")
           /\ \/ UNCHANGED question
              \/ question' = [question EXCEPT ![s] = "retired"]   \* expired or cancelled
        \/ /\ hook[h].result # "lost" /\ question[s] \in {"open", "answered"}
           /\ question[s] = "open" => prompt = "text"
           /\ question' = [question EXCEPT ![s] = "answered"]
           /\ Goto(h, "regate")
  /\ UNCHANGED <<turns, store, response, receipts, texts>>

(* The gate of the turn that asked, now with an answer; then the barrier.     *)
Regate(h) ==
  /\ At(h, "regate")
  /\ \/ Goto(h, "read")
     \/ Exit(h)
     \/ \E kind \in {"again", "lost"} :
          hook' = [hook EXCEPT ![h].pc = "keep", ![h].result = kind]
  /\ UNCHANGED <<turns, store, response, question, receipts, texts>>

(* The prompt is blocked, and its result kept for the next one.               *)
Keep(h) ==
  /\ At(h, "keep")
  /\ MarkPrepared(h, hook[h].handoff)
  /\ Exit(h)
  /\ UNCHANGED <<turns, response, question, receipts, texts>>

-----------------------------------------------------------------------------
(* Stop, and what follows it.                                                 *)

(* should_suppress_stop                                                       *)
Suppressed(t) ==
  \/ response[t] # None /\ response[t].action # "proceed"
  \/ Active # {}

Stop(t) ==
  /\ t = current /\ \A h \in Hook : At(h, "idle")
  /\ t \notin texts /\ \E s \in Session : <<t, s>> \in receipts
  /\ ~Suppressed(t)
  /\ texts' = texts \cup {t}
  /\ UNCHANGED <<turns, store, response, question, receipts, hook>>

(* Mutant: a Stop hook completes the latest session, whichever turn it had.   *)
CompleteExecution_Latest(t) ==
  /\ t \in texts
  /\ LET S == In("EXECUTING")
     IN S # {} /\ Save(Latest(S), [Advanced(Latest(S)) EXCEPT !.status = "COMPLETED"])
  /\ UNCHANGED <<turns, response, question, receipts, texts, hook>>

(* complete_execution: by the Stop hook itself, or, when it left the text to  *)
(* a worker, by a prompt that finds the extraction decided.                   *)
CompleteExecution(t) ==
  /\ t \in texts
  /\ LET S == {s \in In("EXECUTING") : session[s].handoff = t}
     IN S # {} /\ Save(Latest(S), [Advanced(Latest(S)) EXCEPT !.status = "COMPLETED"])
  /\ UNCHANGED <<turns, response, question, receipts, texts, hook>>

(* expires_at passes; it is asked of interviews and of contracts to inherit.  *)
Expire(s) ==
  /\ s \in In("AWAITING_ANSWER") \cup In("COMPLETED") /\ session[s].fresh
  /\ session' = [session EXCEPT ![s].fresh = FALSE]
  /\ UNCHANGED <<turns, order, response, question, receipts, texts, hook>>

(* The hook is killed, or runs into its time limit.                           *)
Crash(h) ==
  /\ ~At(h, "idle")
  /\ Exit(h)
  /\ UNCHANGED <<turns, store, response, question, receipts, texts>>

-----------------------------------------------------------------------------
Step(h) ==
  \/ Look(h) \/ Cached(h) \/ Repeat(h) \/ Cancel(h) \/ AnswerField(h)
  \/ \E s \in Session : Inherit(h, s) \/ Begin(h, s)
  \/ Gate(h) \/ Await(h) \/ Read(h) \/ Prepare(h) \/ Mark(h) \/ Fail(h)
  \/ AnswerQuestion(h) \/ Regate(h) \/ Keep(h)

Next ==
  \/ \E h \in Hook : Step(h) \/ Crash(h) \/ \E t \in Turn : Submit(h, t)
  \/ \E t \in Turn : Stop(t) \/ CompleteExecution(t)
  \/ \E s \in Session : Expire(s)

Spec == Init /\ [][Next]_vars

-----------------------------------------------------------------------------
(* Properties                                                                 *)

(* Nothing is prepared for a session that must ask about the event            *)
(* experience before it has its answer.                                       *)
NoReceiptBeforeAnswer ==
  \A t \in Turn, s \in Session : <<t, s>> \in receipts => question[s] \in {"none", "answered"}

(* Only a contract whose turn has its text counts as carried out, and nothing *)
(* else is inherited.                                                         *)
CarriedOutWasWritten ==
  \A s \in In("COMPLETED") \cup ({session[r].parent : r \in Sessions} \ {None}) :
    session[s].status = "COMPLETED" /\ session[s].handoff \in texts

(* The receipt a session was handed stays its receipt, for the same turn,     *)
(* whatever other runs of the hook find out later.                            *)
HandoffIsFinal ==
  [][\A s \in Session : session[s] # None /\ session[s].result = "receipt" =>
       /\ session'[s].result = session[s].result
       /\ session'[s].handoff = session[s].handoff]_session

(* A session that takes every prompt of its host session can be answered:     *)
(* README.md:194 and docs/GRILL_INTENT_GATE.md say that a cancelled or        *)
(* blocked round ends and that a session that executes takes no answers.      *)
WaitsForAnswer ==
  \A s \in Pending : question[s] \in {"open", "answered"} /\ session[s].result # "lost"
=============================================================================
