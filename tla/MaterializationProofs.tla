----------------------- MODULE MaterializationProofs -----------------------
(* Theorems about the materialization, for any set of processes and any       *)
(* number of files. The argument: only the holder of the claim is inside the  *)
(* activation (OneActivator), so what it found and did before stays as it was *)
(* except for what the user writes (PhaseOK), and no call that goes on can    *)
(* touch the files of a completed run (RunOK).                                *)
EXTENDS Materialization, TLAPS

(* File f has the approved new content, unless the user wrote it since.       *)
InPlace(f) == target[f] = "new" \/ aux_writer[f] = "user"

(* File f has the reviewed content again, unless the user wrote it since.     *)
Undone(f) == target[f] = Expected(f) \/ aux_writer[f] = "user"

Working(w) ==
  worker[w].pc \in {"preflight", "backup", "copy", "replace", "checkpoint", "finish"}

(* What a call may rely on in each phase.                                     *)
BackupOK(w) ==
  LET call == worker[w] IN
    /\ At(w, "preflight") => call.left = File
    /\ At(w, "backup") \/ At(w, "copy") =>
         /\ \A f \in File \ call.already : aux_writer[f] # "activation"
         /\ \A f \in Replaces \ (call.already \cup call.left) : backup[f] = "old"
    /\ At(w, "copy") => \A f \in File : Visits(w, f) => f \in Replaces \ call.already
    /\ At(w, "replace") \/ At(w, "checkpoint") =>
         \A f \in Replaces \ call.already : backup[f] = "old"

ReplaceOK(w) ==
  LET call == worker[w] IN
    /\ At(w, "backup") \/ At(w, "copy") \/ At(w, "replace") \/ At(w, "checkpoint") =>
         \A f \in call.already : InPlace(f)
    /\ At(w, "replace") \/ At(w, "checkpoint") => \A f \in File \ call.left : InPlace(f)
    /\ At(w, "checkpoint") => \A f \in File : Visits(w, f) => InPlace(f)
    /\ At(w, "finish") => \A f \in File : InPlace(f)

UndoOK(w) ==
  LET call == worker[w] IN
    /\ Working(w) => call.restored = {}
    /\ At(w, "undo") => call.applied \subseteq call.left \cup call.restored \cup call.stuck
    /\ At(w, "report") => call.applied \subseteq call.restored \cup call.stuck
    /\ At(w, "undo") \/ At(w, "report") => \A f \in call.restored : Undone(f)

Phase(w) == BackupOK(w) /\ ReplaceOK(w) /\ UndoOK(w)

PhaseOK == \A w \in Worker : Phase(w)

(* No call works on a completed run, and a run in work is not failed.         *)
RunOK == \A w \in Worker : Activating(w) => run \notin {"completed", "failed"}

(* What the activation wrote last is the approved content.                    *)
NewIsWritten == \A f \in File : aux_writer[f] = "activation" => target[f] = "new"

IInv ==
  /\ TypeOK /\ OneActivator /\ RunOK /\ PhaseOK
  /\ NewIsWritten /\ OldBytesKept /\ CompletedTogether

-----------------------------------------------------------------------------
(* Types.                                                                     *)

(* Visited and Failed return a call.                                          *)
LEMMA CallKept ==
  ASSUME NEW call \in Call, NEW f \in File
  PROVE  /\ Failed(call) \in Call
         /\ Visited(call, f, "backup", "replace") \in Call
         /\ Visited(call, f, "replace", "finish") \in Call
  BY DEF Failed, Visited, Call

LEMMA CallEdits ==
  ASSUME NEW call \in Call
  PROVE  /\ \A pc \in {"idle", "stage", "record", "claim", "checkpoint", "copy", "report"} :
              [call EXCEPT !.pc = pc] \in Call /\ [call EXCEPT !.pc = pc].pc = pc
         /\ \A set \in SUBSET File : /\ [call EXCEPT !.applied = set] \in Call
                                     /\ [call EXCEPT !.pc = "checkpoint", !.applied = set] \in Call
                                     /\ [call EXCEPT !.pc = "backup", !.already = set] \in Call
         /\ \A l, set \in SUBSET File : /\ [call EXCEPT !.left = l, !.restored = set] \in Call
                                        /\ [call EXCEPT !.left = l, !.stuck = set] \in Call
  BY DEF Call

LEMMA IdleIsCall == Idle \in Call
  BY DEF Idle, Call

(* A step that gives w another call keeps the type of worker.                 *)
LEMMA BecomesType ==
  ASSUME TypeOK, NEW w \in Worker, NEW call \in Call, Becomes(w, call)
  PROVE  worker' \in [Worker -> Call]
  BY DEF TypeOK, Becomes

LEMMA GotoType ==
  ASSUME TypeOK, NEW w \in Worker,
         NEW pc \in {"idle", "stage", "record", "claim", "checkpoint", "copy", "report"},
         Goto(w, pc)
  PROVE  worker' \in [Worker -> Call]
  <1>1. worker[w] \in Call BY DEF TypeOK
  <1>2. [worker[w] EXCEPT !.pc = pc] \in Call BY <1>1, CallEdits
  <1> QED BY <1>2, BecomesType DEF Goto

LEMMA ReturnsType ==
  ASSUME TypeOK, NEW w \in Worker, Returns(w)
  PROVE  worker' \in [Worker -> Call]
  BY IdleIsCall, BecomesType DEF Returns

LEMMA ExpectedType == \A f \in File : Expected(f) \in Content
  BY DEF Expected, Content

(* The initial state is well typed.                                           *)
LEMMA InitType == Init => TypeOK
  BY IdleIsCall, ExpectedType DEF Init, TypeOK

LEMMA BackupType ==
  ASSUME TypeOK, NEW w \in Worker, Backup(w)
  PROVE  TypeOK'
  <1>1. worker[w] \in Call BY DEF TypeOK
  <1>2. PICK f \in File : 
          LET call == worker[w]
              kept == IF RecoveredApplied(call, f)
                      THEN [call EXCEPT !.applied = call.applied \cup {f}] ELSE call
              done == Visited(kept, f, "backup", "replace")
          IN \/ Becomes(w, done) /\ UNCHANGED backup
             \/ Becomes(w, Failed(kept)) /\ UNCHANGED backup
             \/ Goto(w, "copy") /\ backup' = [backup EXCEPT ![f] = "torn"]
    BY DEF Backup
  <1> DEFINE kept == IF RecoveredApplied(worker[w], f)
                     THEN [worker[w] EXCEPT !.applied = worker[w].applied \cup {f}]
                     ELSE worker[w]
  <1>3. kept \in Call
    <2>1. worker[w].applied \cup {f} \in SUBSET File BY <1>1 DEF Call
    <2> QED BY <1>1, <2>1, CallEdits
  <1>4. worker' \in [Worker -> Call]
    BY <1>2, <1>3, CallKept, BecomesType, GotoType
  <1>5. backup' \in [File -> {"none", "torn", "old"}] BY <1>2 DEF TypeOK
  <1> QED BY <1>4, <1>5 DEF TypeOK, Backup, db

LEMMA UndoType ==
  ASSUME TypeOK, NEW w \in Worker, Undo(w)
  PROVE  TypeOK'
  <1>1. worker[w] \in Call BY DEF TypeOK
  <1> DEFINE next(c) == IF c.left = {} THEN [c EXCEPT !.pc = "report"] ELSE c
             back(f) == [worker[w] EXCEPT !.left = worker[w].left \ {f},
                                          !.restored = worker[w].restored \cup {f}]
             lost(f) == [worker[w] EXCEPT !.left = worker[w].left \ {f},
                                          !.stuck = worker[w].stuck \cup {f}]
  <1>2. PICK f \in worker[w].left :
          \/ /\ target' = [target EXCEPT ![f] = Expected(f)]
             /\ backup' = [backup EXCEPT ![f] = "none"]
             /\ aux_writer' = [aux_writer EXCEPT ![f] = "nobody"]
             /\ Becomes(w, next(back(f)))
          \/ Becomes(w, next(lost(f))) /\ UNCHANGED disk
    BY DEF Undo
  <1>3. f \in File BY <1>1 DEF Call
  <1>4. back(f) \in Call /\ lost(f) \in Call
    <2>1. /\ worker[w].left \ {f} \in SUBSET File
          /\ worker[w].restored \cup {f} \in SUBSET File
          /\ worker[w].stuck \cup {f} \in SUBSET File
      BY <1>1, <1>3 DEF Call
    <2> QED BY <1>1, <2>1, CallEdits
  <1>5. next(back(f)) \in Call /\ next(lost(f)) \in Call BY <1>4, CallEdits
  <1>6. worker' \in [Worker -> Call] BY <1>2, <1>5, BecomesType
  <1>7. /\ target' \in [File -> Content] /\ backup' \in [File -> {"none", "torn", "old"}]
        /\ aux_writer' \in [File -> {"nobody", "activation", "user"}]
    BY <1>2, <1>3, ExpectedType DEF TypeOK, disk
  <1> QED BY <1>6, <1>7 DEF TypeOK, Undo, db

(* Every step keeps the types.                                                *)
LEMMA TypeStep == TypeOK /\ [Next]_vars => TypeOK'
  <1> SUFFICES ASSUME TypeOK, [Next]_vars PROVE TypeOK'
    OBVIOUS
  <1>0. \A w \in Worker : worker[w] \in Call BY DEF TypeOK
  <1>1. ASSUME NEW w \in Worker, Begin(w) PROVE TypeOK'
    <2>1. worker' \in [Worker -> Call] BY <1>1, GotoType DEF Begin
    <2> QED BY <1>1, <2>1 DEF TypeOK, Begin, db, disk
  <1>2. ASSUME NEW w \in Worker, StageFiles(w) PROVE TypeOK'
    <2>1. worker' \in [Worker -> Call] BY <1>2, GotoType, ReturnsType DEF StageFiles
    <2> QED BY <1>2, <2>1 DEF TypeOK, StageFiles, db, disk
  <1>3. ASSUME NEW w \in Worker, StageRecord(w) PROVE TypeOK'
    <2>1. worker' \in [Worker -> Call] BY <1>3, GotoType DEF StageRecord
    <2> QED BY <1>3, <2>1 DEF TypeOK, StageRecord, disk
  <1>4. ASSUME NEW w \in Worker, Claim(w) PROVE TypeOK'
    <2>1. [Idle EXCEPT !.pc = "preflight", !.recovered = (claim = Dead), !.left = File] \in Call
      BY DEF Idle, Call
    <2>2. worker' \in [Worker -> Call] BY <1>4, <2>1, BecomesType, ReturnsType DEF Claim
    <2>3. claim' \in Worker \cup {None, Dead} BY <1>4 DEF Claim, TypeOK
    <2> QED BY <1>4, <2>2, <2>3 DEF TypeOK, Claim, disk
  <1>5. ASSUME NEW w \in Worker, Preflight(w) PROVE TypeOK'
    <2>1. {f \in File : Already(f)} \in SUBSET File OBVIOUS
    <2>2. [worker[w] EXCEPT !.pc = "backup", !.already = {f \in File : Already(f)}] \in Call
      BY <1>0, <2>1, CallEdits
    <2>3. Failed(worker[w]) \in Call BY <1>0 DEF Failed, Call
    <2>4. \/ Becomes(w, [worker[w] EXCEPT !.pc = "backup",
                                          !.already = {f \in File : Already(f)}])
          \/ Becomes(w, Failed(worker[w]))
      BY <1>5 DEF Preflight
    <2>5. worker' \in [Worker -> Call] BY <2>2, <2>3, <2>4, BecomesType
    <2> QED BY <1>5, <2>5 DEF TypeOK, Preflight, db, disk
  <1>6. ASSUME NEW w \in Worker, Backup(w) PROVE TypeOK'
    BY <1>6, BackupType
  <1>7. ASSUME NEW w \in Worker, Copy(w) PROVE TypeOK'
    <2>1. worker' \in [Worker -> Call] BY <1>0, <1>7, CallKept, BecomesType DEF Copy
    <2>2. backup' \in [File -> {"none", "torn", "old"}] BY <1>7 DEF Copy, TypeOK
    <2> QED BY <1>7, <2>1, <2>2 DEF TypeOK, Copy, db
  <1>8. ASSUME NEW w \in Worker, Replace(w) PROVE TypeOK'
    <2>1. \A f \in File : worker[w].applied \cup {f} \in SUBSET File BY <1>0 DEF Call
    <2>2. worker' \in [Worker -> Call]
      BY <1>0, <1>8, <2>1, CallKept, CallEdits, BecomesType, GotoType DEF Replace
    <2>3. /\ target' \in [File -> Content]
          /\ aux_writer' \in [File -> {"nobody", "activation", "user"}]
      BY <1>8 DEF Replace, TypeOK, Content
    <2> QED BY <1>8, <2>2, <2>3 DEF TypeOK, Replace, db
  <1>9. ASSUME NEW w \in Worker, Checkpoint(w) PROVE TypeOK'
    <2>1. worker' \in [Worker -> Call] BY <1>0, <1>9, CallKept, BecomesType DEF Checkpoint
    <2>2. file' \in [File -> {"none", "staged", "activated", "rolled_back", "rollback_failed"}]
      BY <1>9 DEF Checkpoint, TypeOK
    <2> QED BY <1>9, <2>1, <2>2 DEF TypeOK, Checkpoint, disk
  <1>10. ASSUME NEW w \in Worker, Finish(w) PROVE TypeOK'
    <2>1. Failed(worker[w]) \in Call BY <1>0 DEF Failed, Call
    <2>2. worker' \in [Worker -> Call] BY <1>10, <2>1, BecomesType, ReturnsType DEF Finish
    <2>3. manifest' \subseteq File BY <1>10 DEF Finish, TypeOK, db
    <2> QED BY <1>10, <2>2, <2>3 DEF TypeOK, Finish, db, disk
  <1>11. ASSUME NEW w \in Worker, Undo(w) PROVE TypeOK'
    BY <1>11, UndoType
  <1>12. ASSUME NEW w \in Worker, Report(w) PROVE TypeOK'
    <2>1. worker' \in [Worker -> Call] BY <1>12, ReturnsType DEF Report
    <2>2. file' \in [File -> {"none", "staged", "activated", "rolled_back", "rollback_failed"}]
      BY <1>12 DEF Report, TypeOK
    <2> QED BY <1>12, <2>1, <2>2 DEF TypeOK, Report, disk
  <1>13. ASSUME NEW w \in Worker, Fault(w) PROVE TypeOK'
    <2>1. Failed(worker[w]) \in Call BY <1>0 DEF Failed, Call
    <2>2. worker' \in [Worker -> Call] BY <1>13, <2>1, BecomesType DEF Fault
    <2>3. backup' \in [File -> {"none", "torn", "old"}] BY <1>13 DEF Fault, DropCopy, TypeOK
    <2> QED BY <1>13, <2>2, <2>3 DEF TypeOK, Fault, db
  <1>14. ASSUME NEW w \in Worker, Interrupt(w) PROVE TypeOK'
    <2>1. worker' \in [Worker -> Call] BY <1>14, ReturnsType DEF Interrupt
    <2>2. backup' \in [File -> {"none", "torn", "old"}] BY <1>14 DEF Interrupt, DropCopy, TypeOK
    <2> QED BY <1>14, <2>1, <2>2 DEF TypeOK, Interrupt
  <1>15. ASSUME NEW w \in Worker, Crash(w) PROVE TypeOK'
    <2>1. worker' \in [Worker -> Call] BY <1>15, ReturnsType DEF Crash
    <2> QED BY <1>15, <2>1 DEF TypeOK, Crash, disk
  <1>16. ASSUME NEW f \in File, Edit(f) PROVE TypeOK'
    BY <1>16 DEF TypeOK, Edit, db
  <1>17. CASE UNCHANGED vars
    BY <1>17 DEF TypeOK, vars, db, disk
  <1> QED BY <1>1, <1>2, <1>3, <1>4, <1>5, <1>6, <1>7, <1>8, <1>9, <1>10, <1>11, <1>12,
             <1>13, <1>14, <1>15, <1>16, <1>17 DEF Next, Step

(* Each variable of the model has its type, whatever the code interleaves.    *)
THEOREM MatTypeCorrect == Spec => []TypeOK
  BY InitType, TypeStep, PTL DEF Spec

-----------------------------------------------------------------------------
(* Who is inside the activation.                                              *)

LEMMA Alone ==
  ASSUME OneActivator, NEW w \in Worker, Activating(w)
  PROVE  \A u \in Worker \ {w} : ~Activating(u)
  BY DEF OneActivator

(* Phase says nothing of a call outside the activation.                       *)
LEMMA PhaseOutside ==
  ASSUME NEW u \in Worker, ~Activating(u)'
  PROVE  Phase(u)'
  BY DEF Phase, BackupOK, ReplaceOK, UndoOK, Working, Activating, At

LEMMA PhaseFrame ==
  ASSUME NEW u \in Worker, Phase(u), worker'[u] = worker[u], UNCHANGED disk
  PROVE  Phase(u)'
  BY DEF Phase, BackupOK, ReplaceOK, UndoOK, Working, At, Visits, InPlace, Undone, disk

(* A call that gives up has restored nothing yet.                             *)
LEMMA PhaseFailed ==
  ASSUME NEW w \in Worker, NEW call \in Call, call.restored = {}, worker'[w] = Failed(call)
  PROVE  Phase(w)'
  <1> DEFINE c == worker'[w]
  <1>1. /\ c.pc \in {"undo", "report"} /\ c.restored = {}
        /\ c.applied = call.applied /\ c.left = call.applied
        /\ c.pc = "report" => call.applied = {}
    BY DEF Failed, Call
  <1>2. BackupOK(w)' BY <1>1 DEF BackupOK, At
  <1>3. ReplaceOK(w)' BY <1>1 DEF ReplaceOK, At
  <1>4. UndoOK(w)' BY <1>1 DEF UndoOK, At, Working
  <1> QED BY <1>2, <1>3, <1>4 DEF Phase

(* A step of a call inside the activation that keeps run and claim.           *)
LEMMA InsideStep ==
  ASSUME IInv, NEW w \in Worker, Activating(w), NEW call \in Call, Becomes(w, call),
         UNCHANGED <<run, claim>>, Phase(w)'
  PROVE  OneActivator' /\ RunOK' /\ PhaseOK' /\ CompletedTogether'
  <1>1. \A u \in Worker \ {w} : ~Activating(u) BY Alone DEF IInv
  <1>2. \A u \in Worker \ {w} : worker'[u] = worker[u] BY DEF IInv, TypeOK, Becomes
  <1>3. \A u \in Worker \ {w} : ~Activating(u)' BY <1>1, <1>2 DEF Activating
  <1>4. claim = w /\ run \notin {"completed", "failed"} BY DEF IInv, OneActivator, RunOK
  <1>5. OneActivator' BY <1>3, <1>4 DEF OneActivator
  <1>6. RunOK' BY <1>4 DEF RunOK
  <1>7. PhaseOK' BY <1>3, PhaseOutside DEF PhaseOK
  <1>8. CompletedTogether' BY <1>4 DEF CompletedTogether
  <1> QED BY <1>5, <1>6, <1>7, <1>8

(* When the only activator returns, nobody is inside.                         *)
LEMMA QuitStep ==
  ASSUME IInv, NEW w \in Worker, Activating(w), Returns(w)
  PROVE  OneActivator' /\ RunOK' /\ PhaseOK'
  <1>1. \A u \in Worker \ {w} : ~Activating(u) BY Alone DEF IInv
  <1>2. /\ \A u \in Worker \ {w} : worker'[u] = worker[u]
        /\ worker'[w] = Idle
    BY DEF IInv, TypeOK, Returns, Becomes
  <1>3. \A u \in Worker : ~Activating(u)' BY <1>1, <1>2 DEF Activating, Idle
  <1> QED BY <1>3, PhaseOutside DEF OneActivator, RunOK, PhaseOK

(* A step of a call that is and stays outside.                                *)
LEMMA OutsideStep ==
  ASSUME IInv, NEW w \in Worker, ~Activating(w), NEW call \in Call, Becomes(w, call),
         call.pc \in {"idle", "stage", "record", "claim"}, UNCHANGED disk
  PROVE  /\ PhaseOK' /\ NewIsWritten' /\ OldBytesKept'
         /\ \A u \in Worker : Activating(u)' => Activating(u)
  <1>1. worker'[w] = call /\ \A u \in Worker \ {w} : worker'[u] = worker[u]
    BY DEF IInv, TypeOK, Becomes
  <1>2. ~Activating(w)' BY <1>1 DEF Activating
  <1>3. \A u \in Worker : Activating(u)' => Activating(u) BY <1>1, <1>2 DEF Activating
  <1>4. PhaseOK'
    <2> SUFFICES ASSUME NEW u \in Worker PROVE Phase(u)' BY DEF PhaseOK
    <2>1. CASE u = w BY <2>1, <1>2, PhaseOutside
    <2>2. CASE u # w BY <2>2, <1>1, PhaseFrame DEF IInv, PhaseOK
    <2> QED BY <2>1, <2>2
  <1>5. NewIsWritten' /\ OldBytesKept' BY DEF IInv, NewIsWritten, OldBytesKept, disk
  <1> QED BY <1>3, <1>4, <1>5

-----------------------------------------------------------------------------
(* The steps outside the activation.                                          *)

LEMMA BeginStep ==
  ASSUME IInv, TypeOK', NEW w \in Worker, Begin(w) \/ StageFiles(w)
  PROVE  IInv'
  <1>1. ~Activating(w) BY DEF Begin, StageFiles, At, Activating
  <1>2. PICK call \in Call : /\ Becomes(w, call)
                             /\ call.pc \in {"idle", "stage", "record", "claim"}
    <2>1. worker[w] \in Call BY DEF TypeOK, IInv
    <2>2. \A pc \in {"stage", "record", "claim"} :
            /\ [worker[w] EXCEPT !.pc = pc] \in Call
            /\ [worker[w] EXCEPT !.pc = pc].pc = pc
      BY <2>1 DEF Call
    <2>3. Idle \in Call /\ Idle.pc = "idle" BY IdleIsCall DEF Idle
    <2>4. Returns(w) \/ \E pc \in {"stage", "record", "claim"} : Goto(w, pc)
      BY DEF Begin, StageFiles
    <2> QED BY <2>2, <2>3, <2>4 DEF Returns, Goto
  <1>3. UNCHANGED <<db, disk>> BY DEF Begin, StageFiles
  <1>4. /\ PhaseOK' /\ NewIsWritten' /\ OldBytesKept'
        /\ \A u \in Worker : Activating(u)' => Activating(u)
    BY <1>1, <1>2, <1>3, OutsideStep
  <1>5. OneActivator' /\ RunOK' BY <1>3, <1>4 DEF IInv, OneActivator, RunOK, db
  <1>6. CompletedTogether' BY <1>3 DEF IInv, CompletedTogether, db, disk
  <1> QED BY <1>4, <1>5, <1>6 DEF IInv

LEMMA StageRecordStep ==
  ASSUME IInv, TypeOK', NEW w \in Worker, StageRecord(w)
  PROVE  IInv'
  <1>1. ~Activating(w) BY DEF StageRecord, At, Activating
  <1>2. PICK call \in Call : Becomes(w, call) /\ call.pc = "claim"
    <2>1. worker[w] \in Call BY DEF TypeOK, IInv
    <2>2. /\ [worker[w] EXCEPT !.pc = "claim"] \in Call
          /\ [worker[w] EXCEPT !.pc = "claim"].pc = "claim"
      BY <2>1, CallEdits
    <2> QED BY <2>2 DEF StageRecord, Goto
  <1>3. run' = "staged" /\ UNCHANGED <<claim, disk>> BY DEF StageRecord
  <1>4. /\ PhaseOK' /\ NewIsWritten' /\ OldBytesKept'
        /\ \A u \in Worker : Activating(u)' => Activating(u)
    BY <1>1, <1>2, <1>3, OutsideStep
  <1>5. OneActivator' /\ RunOK' BY <1>3, <1>4 DEF IInv, OneActivator, RunOK
  <1>6. CompletedTogether' BY <1>3 DEF CompletedTogether
  <1> QED BY <1>4, <1>5, <1>6 DEF IInv

(* A claim is granted only when nobody is inside.                             *)
LEMMA ClaimStep ==
  ASSUME IInv, TypeOK', NEW w \in Worker, Claim(w)
  PROVE  IInv'
  <1>1. ~Activating(w) BY DEF Claim, At, Activating
  <1>2. UNCHANGED disk BY DEF Claim
  <1>3. CASE ~MayClaim
    <2>1. Becomes(w, Idle) /\ UNCHANGED <<claim, run>> BY <1>3 DEF Claim, Returns
    <2>2. /\ PhaseOK' /\ NewIsWritten' /\ OldBytesKept'
          /\ \A u \in Worker : Activating(u)' => Activating(u)
      BY <1>1, <1>2, <2>1, IdleIsCall, OutsideStep DEF Idle
    <2>3. OneActivator' /\ RunOK' BY <2>1, <2>2 DEF IInv, OneActivator, RunOK
    <2>4. CompletedTogether' BY <1>2, <2>1 DEF IInv, CompletedTogether, disk
    <2> QED BY <2>2, <2>3, <2>4 DEF IInv
  <1>4. CASE MayClaim
    <2> DEFINE call == [Idle EXCEPT !.pc = "preflight", !.recovered = (claim = Dead),
                                    !.left = File]
    <2>1. claim' = w /\ run' = "activating" /\ Becomes(w, call) BY <1>4 DEF Claim
    <2>2. call.pc = "preflight" /\ call.restored = {} /\ call.left = File BY DEF Idle
    <2>3. \A u \in Worker : ~Activating(u)
      BY <1>4, MaterializationAssumption DEF MayClaim, Claimable, IInv, OneActivator
    <2>4. worker'[w] = call /\ \A u \in Worker \ {w} : worker'[u] = worker[u]
      BY <2>1 DEF IInv, TypeOK, Becomes
    <2>5. \A u \in Worker \ {w} : ~Activating(u)' BY <2>3, <2>4 DEF Activating
    <2>6. OneActivator' BY <2>1, <2>5 DEF OneActivator
    <2>7. RunOK' BY <2>1 DEF RunOK
    <2> HIDE DEF call
    <2>8. Phase(w)'
      BY <2>2, <2>4 DEF Phase, BackupOK, ReplaceOK, UndoOK, At, Working
    <2>9. PhaseOK' BY <2>5, <2>8, PhaseOutside DEF PhaseOK
    <2>10. NewIsWritten' /\ OldBytesKept'
      BY <1>2 DEF IInv, NewIsWritten, OldBytesKept, disk
    <2>11. CompletedTogether' BY <2>1 DEF CompletedTogether
    <2> QED BY <2>6, <2>7, <2>9, <2>10, <2>11 DEF IInv
  <1> QED BY <1>3, <1>4

-----------------------------------------------------------------------------
(* The steps of the activation.                                               *)

LEMMA PreflightStep ==
  ASSUME IInv, TypeOK', NEW w \in Worker, Preflight(w)
  PROVE  IInv'
  <1>0. worker[w] \in Call /\ worker'[w] \in Call BY DEF IInv, TypeOK
  <1>1. Activating(w) /\ worker[w].restored = {}
    BY DEF Preflight, Activating, At, IInv, PhaseOK, Phase, UndoOK, Working
  <1>2. UNCHANGED <<db, disk>> BY DEF Preflight
  <1> DEFINE found == {f \in File : Already(f)}
             ready == [worker[w] EXCEPT !.pc = "backup", !.already = found]
  <1>3. CASE \A f \in File : Already(f) \/ target[f] = Expected(f)
    <2>1. Becomes(w, ready) BY <1>3 DEF Preflight
    <2>2. worker'[w] = ready BY <2>1 DEF IInv, TypeOK, Becomes
    <2>3. /\ worker'[w].pc = "backup" /\ worker'[w].already = found
          /\ worker'[w].left = worker[w].left /\ worker'[w].restored = {}
      BY <1>0, <1>1, <2>2 DEF Call
    <2>3a. worker[w].left = File
      BY DEF Preflight, IInv, PhaseOK, Phase, BackupOK
    <2>4. \A f \in File \ found : aux_writer[f] # "activation"
      BY DEF Already, IInv, NewIsWritten
    <2>5. BackupOK(w)'
      BY <1>2, <2>3, <2>3a, <2>4, MaterializationAssumption DEF BackupOK, At, disk
    <2>6. ReplaceOK(w)' BY <1>2, <2>3 DEF ReplaceOK, At, InPlace, Already, disk
    <2>7. UndoOK(w)' BY <2>3 DEF UndoOK, At, Working
    <2>8. Phase(w)' BY <2>5, <2>6, <2>7 DEF Phase
    <2> QED BY <1>0, <1>2, <2>8, <2>1, <2>2, <1>1, InsideStep
            DEF IInv, db, disk, NewIsWritten, OldBytesKept
  <1>4. CASE ~ \A f \in File : Already(f) \/ target[f] = Expected(f)
    <2>1. Becomes(w, Failed(worker[w])) BY <1>4 DEF Preflight
    <2>2. worker'[w] = Failed(worker[w]) BY <2>1 DEF IInv, TypeOK, Becomes
    <2>3. Phase(w)' BY <1>0, <1>1, <2>2, PhaseFailed
    <2> QED BY <1>0, <1>2, <2>3, <2>1, <2>2, <1>1, InsideStep
            DEF IInv, db, disk, NewIsWritten, OldBytesKept
  <1> QED BY <1>3, <1>4

(* Where the loops go on.                                                     *)
LEMMA VisitedFields ==
  ASSUME NEW call \in Call, NEW f \in File, NEW loop, NEW next,
         loop \in {"backup", "replace"}, next \in {"replace", "finish"}
  PROVE  LET c == Visited(call, f, loop, next) IN
           /\ c.pc = IF call.left = {f} THEN next ELSE loop
           /\ c.left = IF call.left = {f} THEN File ELSE call.left \ {f}
           /\ c.already = call.already /\ c.applied = call.applied
           /\ c.restored = call.restored
  BY DEF Visited, Call

(* What a call relies on while it makes backups.                              *)
LEMMA BackupPhase ==
  ASSUME IInv, NEW w \in Worker, At(w, "backup") \/ At(w, "copy")
  PROVE  LET call == worker[w] IN
           /\ Activating(w) /\ call \in Call /\ call.restored = {}
           /\ \A f \in File \ call.already : aux_writer[f] # "activation"
           /\ \A f \in Replaces \ (call.already \cup call.left) : backup[f] = "old"
           /\ \A f \in call.already : InPlace(f)
  BY DEF IInv, TypeOK, PhaseOK, Phase, BackupOK, ReplaceOK, UndoOK, Working, Activating, At

(* The next file of the backup loop, or the first of the swaps.               *)
LEMMA BackupVisited ==
  ASSUME IInv, NEW w \in Worker, At(w, "backup") \/ At(w, "copy"),
         NEW call \in Call, NEW f \in File, call.already = worker[w].already,
         call.left = worker[w].left, call.restored = {},
         worker'[w] = Visited(call, f, "backup", "replace"),
         UNCHANGED <<target, aux_writer>>,
         f \in Replaces \ call.already => backup'[f] = "old",
         \A g \in File \ {f} : backup'[g] = backup[g]
  PROVE  Phase(w)'
  <1>1. /\ worker'[w].pc = IF call.left = {f} THEN "replace" ELSE "backup"
        /\ worker'[w].left = IF call.left = {f} THEN File ELSE call.left \ {f}
        /\ worker'[w].already = call.already /\ worker'[w].restored = {}
    BY VisitedFields
  <1>2. /\ \A g \in File \ call.already : aux_writer'[g] # "activation"
        /\ \A g \in call.already : InPlace(g)'
    BY BackupPhase DEF InPlace
  <1>3. \A g \in Replaces \ (call.already \cup (call.left \ {f})) : backup'[g] = "old"
    BY BackupPhase, MaterializationAssumption
  <1>4. BackupOK(w)' BY <1>1, <1>2, <1>3 DEF BackupOK, At
  <1>5. ReplaceOK(w)' BY <1>1, <1>2 DEF ReplaceOK, At
  <1>6. UndoOK(w)' BY <1>1 DEF UndoOK, At, Working
  <1> QED BY <1>4, <1>5, <1>6 DEF Phase

LEMMA BackupStep ==
  ASSUME IInv, TypeOK', NEW w \in Worker, Backup(w)
  PROVE  IInv'
  <1>0. worker'[w] \in Call BY DEF IInv, TypeOK
  <1>1. At(w, "backup") /\ UNCHANGED <<db, target, aux_writer>> BY DEF Backup
  <1>2. PICK f \in File :
          LET call == worker[w]
              kept == IF RecoveredApplied(call, f)
                      THEN [call EXCEPT !.applied = call.applied \cup {f}] ELSE call
              needed == f \in Replaces /\ (f \in call.already => call.recovered)
              done == Visited(kept, f, "backup", "replace")
          IN /\ Visits(w, f)
             /\ \/ /\ ~needed \/ backup[f] = "old"
                   /\ Becomes(w, done) /\ UNCHANGED backup
                \/ Becomes(w, Failed(kept)) /\ UNCHANGED backup
                \/ /\ needed /\ f \notin call.already
                   /\ Goto(w, "copy") /\ backup' = [backup EXCEPT ![f] = "torn"]
    BY DEF Backup
  <1> DEFINE call == worker[w]
             kept == IF RecoveredApplied(call, f)
                     THEN [call EXCEPT !.applied = call.applied \cup {f}] ELSE call
             needed == f \in Replaces /\ (f \in call.already => call.recovered)
             done == Visited(kept, f, "backup", "replace")
  <1>3. /\ Activating(w) /\ call \in Call /\ call.restored = {}
        /\ \A g \in File \ call.already : aux_writer[g] # "activation"
        /\ \A g \in Replaces \ (call.already \cup call.left) : backup[g] = "old"
        /\ \A g \in call.already : InPlace(g)
    BY <1>1, BackupPhase
  <1>4. /\ kept \in Call /\ kept.already = call.already /\ kept.left = call.left
        /\ kept.restored = {}
    BY <1>3 DEF Call
  <1>5. CASE (~needed \/ backup[f] = "old") /\ Becomes(w, done) /\ UNCHANGED backup
    <2>1. worker'[w] = done BY <1>5 DEF IInv, TypeOK, Becomes
    <2> HIDE DEF kept
    <2>2. Phase(w)' BY <1>1, <1>4, <1>5, <2>1, BackupVisited
    <2> QED BY <1>0, <1>1, <1>3, <1>5, <2>1, <2>2, InsideStep
            DEF IInv, db, NewIsWritten, OldBytesKept
  <1>6. CASE Becomes(w, Failed(kept)) /\ UNCHANGED backup
    <2>1. worker'[w] = Failed(kept) BY <1>6 DEF IInv, TypeOK, Becomes
    <2> HIDE DEF kept
    <2>2. Phase(w)' BY <1>4, <2>1, PhaseFailed
    <2> QED BY <1>0, <1>1, <1>3, <1>6, <2>1, <2>2, InsideStep
            DEF IInv, db, NewIsWritten, OldBytesKept
  <1>7. CASE /\ needed /\ f \notin call.already
             /\ Goto(w, "copy") /\ backup' = [backup EXCEPT ![f] = "torn"]
    <2>1. worker'[w] = [call EXCEPT !.pc = "copy"] BY <1>7 DEF IInv, TypeOK, Goto, Becomes
    <2>2. /\ worker'[w].pc = "copy" /\ worker'[w].already = call.already
          /\ worker'[w].left = call.left /\ worker'[w].restored = {}
      BY <1>3, <2>1 DEF Call
    <2>3. backup'[f] = "torn" /\ \A g \in File \ {f} : backup'[g] = backup[g]
      BY <1>7 DEF IInv, TypeOK
    <2>4. Visits(w, f) BY <1>2
    <2>5. \A g \in File : Visits(w, g)' => g = f
      BY <2>2, <2>4 DEF Visits, File
    <2>6. BackupOK(w)'
      <3>1. \A g \in File \ call.already : aux_writer'[g] # "activation" BY <1>1, <1>3
      <3>2. \A g \in Replaces \ (call.already \cup call.left) : backup'[g] = "old"
        BY <1>3, <2>3, <2>4, MaterializationAssumption DEF Visits
      <3> QED BY <2>2, <2>5, <3>1, <3>2, <1>7 DEF BackupOK, At
    <2>7. ReplaceOK(w)' BY <1>1, <1>3, <2>2 DEF ReplaceOK, At, InPlace
    <2>8. UndoOK(w)' BY <2>2 DEF UndoOK, At, Working
    <2>9. Phase(w)' BY <2>6, <2>7, <2>8 DEF Phase
    <2>10. NewIsWritten' BY <1>1 DEF IInv, NewIsWritten
    <2>11. OldBytesKept'
      BY <1>1, <1>3, <1>7, <2>3, MaterializationAssumption DEF IInv, OldBytesKept
    <2>12. Becomes(w, worker'[w]) BY <1>7, <2>1 DEF Goto
    <2> QED BY <1>0, <1>1, <1>3, <2>9, <2>10, <2>11, <2>12, InsideStep DEF IInv, db
  <1> QED BY <1>2, <1>5, <1>6, <1>7

(* A call that gives up in any phase before the rollback.                     *)
LEMMA FailStep ==
  ASSUME IInv, NEW w \in Worker, Working(w), Becomes(w, Failed(worker[w])),
         UNCHANGED <<db, target, aux_writer>>, OldBytesKept', TypeOK'
  PROVE  IInv'
  <1>1. worker[w] \in Call /\ worker'[w] \in Call BY DEF IInv, TypeOK
  <1>2. Activating(w) BY DEF Activating, Working
  <1>3. worker[w].restored = {} BY DEF IInv, PhaseOK, Phase, UndoOK
  <1>4. worker'[w] = Failed(worker[w]) BY DEF IInv, TypeOK, Becomes
  <1>5. Phase(w)' BY <1>1, <1>3, <1>4, PhaseFailed
  <1> QED BY <1>1, <1>2, <1>4, <1>5, InsideStep DEF IInv, db, NewIsWritten

LEMMA CopyStep ==
  ASSUME IInv, TypeOK', NEW w \in Worker, Copy(w)
  PROVE  IInv'
  <1>0. worker[w] \in Call /\ worker'[w] \in Call BY DEF IInv, TypeOK
  <1>1. At(w, "copy") /\ UNCHANGED <<db, target, aux_writer>> BY DEF Copy
  <1>2. PICK f \in File :
          /\ Visits(w, f)
          /\ IF target[f] = "old"
             THEN /\ backup' = [backup EXCEPT ![f] = "old"]
                  /\ Becomes(w, Visited(worker[w], f, "backup", "replace"))
             ELSE /\ backup' = [backup EXCEPT ![f] = "none"]
                  /\ Becomes(w, Failed(worker[w]))
    BY DEF Copy
  <1>3. Activating(w) /\ worker[w].restored = {} BY <1>1, BackupPhase
  <1>4. f \in Replaces \ worker[w].already /\ aux_writer[f] # "activation"
    BY <1>1, <1>2 DEF IInv, PhaseOK, Phase, BackupOK
  <1>5. \A g \in File \ {f} : backup'[g] = backup[g] BY <1>2 DEF IInv, TypeOK
  <1>6. OldBytesKept'
    BY <1>1, <1>4, <1>5, MaterializationAssumption DEF IInv, OldBytesKept
  <1>7. CASE target[f] = "old"
    <2>1. backup'[f] = "old" BY <1>2, <1>7 DEF IInv, TypeOK
    <2>2. Becomes(w, Visited(worker[w], f, "backup", "replace")) BY <1>2, <1>7
    <2>3. worker'[w] = Visited(worker[w], f, "backup", "replace")
      BY <2>2 DEF IInv, TypeOK, Becomes
    <2>4. Phase(w)' BY <1>0, <1>1, <1>3, <1>5, <2>1, <2>3, BackupVisited
    <2> QED BY <1>0, <1>1, <1>3, <1>6, <2>2, <2>3, <2>4, InsideStep
            DEF IInv, db, NewIsWritten
  <1>8. CASE target[f] # "old"
    BY <1>1, <1>2, <1>6, <1>8, FailStep DEF Working, At
  <1> QED BY <1>7, <1>8

(* What a call relies on while it swaps.                                      *)
LEMMA SwapPhase ==
  ASSUME IInv, NEW w \in Worker, At(w, "replace") \/ At(w, "checkpoint")
  PROVE  LET call == worker[w] IN
           /\ Activating(w) /\ Working(w) /\ call \in Call /\ call.restored = {}
           /\ \A f \in Replaces \ call.already : backup[f] = "old"
           /\ \A f \in call.already : InPlace(f)
           /\ \A f \in File \ call.left : InPlace(f)
  BY DEF IInv, TypeOK, PhaseOK, Phase, BackupOK, ReplaceOK, UndoOK, Working, Activating, At

LEMMA ReplaceStep ==
  ASSUME IInv, TypeOK', NEW w \in Worker, Replace(w)
  PROVE  IInv'
  <1>1. At(w, "replace") /\ UNCHANGED <<db, backup>> BY DEF Replace
  <1>2. PICK f \in File :
          /\ Visits(w, f)
          /\ \/ /\ f \in worker[w].already
                /\ Goto(w, "checkpoint") /\ UNCHANGED <<target, aux_writer>>
             \/ /\ f \notin worker[w].already
                /\ target' = [target EXCEPT ![f] = "new"]
                /\ aux_writer' = [aux_writer EXCEPT ![f] = "activation"]
                /\ Becomes(w, [worker[w] EXCEPT !.pc = "checkpoint",
                                                !.applied = worker[w].applied \cup {f}])
             \/ Becomes(w, Failed(worker[w])) /\ UNCHANGED <<target, aux_writer>>
    BY DEF Replace
  <1> DEFINE call == worker[w]
  <1>3. /\ Activating(w) /\ Working(w) /\ call \in Call /\ call.restored = {}
        /\ \A g \in Replaces \ call.already : backup[g] = "old"
        /\ \A g \in call.already : InPlace(g)
        /\ \A g \in File \ call.left : InPlace(g)
    BY <1>1, SwapPhase
  <1>4. ASSUME NEW c \in Call, Becomes(w, c), c.pc = "checkpoint", c.left = call.left,
               c.already = call.already, c.restored = {}, InPlace(f)',
               \A g \in File : InPlace(g) => InPlace(g)'
        PROVE  OneActivator' /\ RunOK' /\ PhaseOK' /\ CompletedTogether'
    <2>1. worker'[w] = c BY <1>4 DEF IInv, TypeOK, Becomes
    <2>2. \A g \in File : Visits(w, g)' => g = f
      BY <1>2, <1>4, <2>1 DEF Visits, File
    <2>3. BackupOK(w)' BY <1>1, <1>3, <1>4, <2>1 DEF BackupOK, At
    <2>4. ReplaceOK(w)'
      <3>1. \A g \in call.already : InPlace(g)' BY <1>3, <1>4 DEF Call
      <3>2. \A g \in File \ call.left : InPlace(g)' BY <1>3, <1>4
      <3> QED BY <1>4, <2>1, <2>2, <3>1, <3>2 DEF ReplaceOK, At
    <2>5. UndoOK(w)' BY <1>4, <2>1 DEF UndoOK, At, Working
    <2>6. Phase(w)' BY <2>3, <2>4, <2>5 DEF Phase
    <2> QED BY <1>1, <1>3, <1>4, <2>6, InsideStep DEF db
  <1>5. CASE /\ f \in call.already
             /\ Goto(w, "checkpoint") /\ UNCHANGED <<target, aux_writer>>
    <2> DEFINE c == [call EXCEPT !.pc = "checkpoint"]
    <2>1. Becomes(w, c) BY <1>5 DEF Goto
    <2>2. /\ c \in Call /\ c.pc = "checkpoint" /\ c.left = call.left
          /\ c.already = call.already /\ c.restored = {}
      BY <1>3 DEF Call
    <2>3. \A g \in File : InPlace(g) => InPlace(g)' BY <1>5 DEF InPlace
    <2>4. InPlace(f)' BY <1>3, <1>5, <2>3
    <2>5. OneActivator' /\ RunOK' /\ PhaseOK' /\ CompletedTogether'
      <3> HIDE DEF c, call
      <3> QED BY <1>4, <2>1, <2>2, <2>3, <2>4
    <2>6. NewIsWritten' /\ OldBytesKept'
      BY <1>1, <1>5 DEF IInv, NewIsWritten, OldBytesKept
    <2> QED BY <2>5, <2>6 DEF IInv
  <1>6. CASE /\ f \notin call.already
             /\ target' = [target EXCEPT ![f] = "new"]
             /\ aux_writer' = [aux_writer EXCEPT ![f] = "activation"]
             /\ Becomes(w, [call EXCEPT !.pc = "checkpoint",
                                        !.applied = call.applied \cup {f}])
    <2> DEFINE c == [call EXCEPT !.pc = "checkpoint", !.applied = call.applied \cup {f}]
    <2>1. Becomes(w, c) BY <1>6
    <2>2. /\ c \in Call /\ c.pc = "checkpoint" /\ c.left = call.left
          /\ c.already = call.already /\ c.restored = {}
      BY <1>3 DEF Call
    <2>3. /\ target'[f] = "new" /\ aux_writer'[f] = "activation"
          /\ \A g \in File \ {f} : target'[g] = target[g] /\ aux_writer'[g] = aux_writer[g]
      BY <1>6 DEF IInv, TypeOK
    <2>4. InPlace(f)' /\ \A g \in File : InPlace(g) => InPlace(g)'
      BY <2>3 DEF InPlace
    <2>5. OneActivator' /\ RunOK' /\ PhaseOK' /\ CompletedTogether'
      <3> HIDE DEF c, call
      <3> QED BY <1>4, <2>1, <2>2, <2>4
    <2>6. NewIsWritten' BY <2>3 DEF IInv, NewIsWritten
    <2>7. OldBytesKept'
      BY <1>1, <1>3, <1>6, <2>3, MaterializationAssumption DEF IInv, OldBytesKept
    <2> QED BY <2>5, <2>6, <2>7 DEF IInv
  <1>7. CASE Becomes(w, Failed(call)) /\ UNCHANGED <<target, aux_writer>>
    BY <1>1, <1>3, <1>7, FailStep DEF IInv, OldBytesKept
  <1> QED BY <1>2, <1>5, <1>6, <1>7

LEMMA CheckpointStep ==
  ASSUME IInv, TypeOK', NEW w \in Worker, Checkpoint(w)
  PROVE  IInv'
  <1>0. worker'[w] \in Call BY DEF IInv, TypeOK
  <1>1. At(w, "checkpoint") /\ UNCHANGED <<run, claim, manifest, disk>> BY DEF Checkpoint
  <1>2. PICK f \in File : /\ Visits(w, f)
                          /\ Becomes(w, Visited(worker[w], f, "replace", "finish"))
    BY DEF Checkpoint
  <1> DEFINE call == worker[w]
  <1>3. /\ Activating(w) /\ call \in Call /\ call.restored = {}
        /\ \A g \in Replaces \ call.already : backup[g] = "old"
        /\ \A g \in call.already : InPlace(g)
        /\ \A g \in File \ call.left : InPlace(g)
    BY <1>1, SwapPhase
  <1>4. InPlace(f) BY <1>1, <1>2 DEF IInv, PhaseOK, Phase, ReplaceOK
  <1>5. worker'[w] = Visited(call, f, "replace", "finish")
    BY <1>2 DEF IInv, TypeOK, Becomes
  <1>6. /\ worker'[w].pc = IF call.left = {f} THEN "finish" ELSE "replace"
        /\ worker'[w].left = IF call.left = {f} THEN File ELSE call.left \ {f}
        /\ worker'[w].already = call.already /\ worker'[w].restored = {}
    BY <1>3, <1>5 DEF Visited, Call
  <1>7. /\ \A g \in File : InPlace(g)' <=> InPlace(g)
        /\ \A g \in call.already : InPlace(g)'
    BY <1>1, <1>3 DEF InPlace, disk
  <1>8. \A g \in File \ (call.left \ {f}) : InPlace(g)' BY <1>3, <1>4, <1>7
  <1>9. BackupOK(w)' BY <1>1, <1>3, <1>6 DEF BackupOK, At, disk
  <1>10. ReplaceOK(w)' BY <1>6, <1>7, <1>8 DEF ReplaceOK, At
  <1>11. UndoOK(w)' BY <1>6 DEF UndoOK, At, Working
  <1>12. Phase(w)' BY <1>9, <1>10, <1>11 DEF Phase
  <1>13. Becomes(w, worker'[w]) BY <1>2, <1>5
  <1> QED BY <1>0, <1>1, <1>3, <1>12, <1>13, InsideStep
          DEF IInv, disk, NewIsWritten, OldBytesKept

(* A run is completed by a call that has seen every file in its place.        *)
LEMMA FinishStep ==
  ASSUME IInv, TypeOK', NEW w \in Worker, Finish(w)
  PROVE  IInv'
  <1>1. At(w, "finish") /\ UNCHANGED disk BY DEF Finish
  <1>2. Activating(w) /\ Working(w) BY <1>1 DEF Activating, Working, At
  <1>3. NewIsWritten' /\ OldBytesKept' BY <1>1 DEF IInv, NewIsWritten, OldBytesKept, disk
  <1>4. CASE \E f \in File : Conflict(f)
    <2>1. Becomes(w, Failed(worker[w])) /\ UNCHANGED db BY <1>4 DEF Finish
    <2>2. UNCHANGED <<target, aux_writer>> BY <1>1 DEF disk
    <2> QED BY <1>2, <1>3, <2>1, <2>2, FailStep
  <1>5. CASE ~ \E f \in File : Conflict(f)
    <2>1. Returns(w) BY <1>5 DEF Finish
    <2>2. OneActivator' /\ RunOK' /\ PhaseOK' BY <1>2, <2>1, QuitStep
    <2>3. \A f \in File : InPlace(f)
      BY <1>1 DEF IInv, PhaseOK, Phase, ReplaceOK
    <2>4. CompletedTogether' BY <1>1, <2>3 DEF CompletedTogether, InPlace, disk
    <2> QED BY <1>3, <2>2, <2>4 DEF IInv
  <1> QED BY <1>4, <1>5

-----------------------------------------------------------------------------
(* The steps of the failure.                                                  *)

LEMMA UndoStep ==
  ASSUME IInv, TypeOK', NEW w \in Worker, Undo(w)
  PROVE  IInv'
  <1>0. worker[w] \in Call /\ worker'[w] \in Call BY DEF IInv, TypeOK
  <1>1. At(w, "undo") /\ UNCHANGED db BY DEF Undo
  <1> DEFINE call == worker[w]
             next(c) == IF c.left = {} THEN [c EXCEPT !.pc = "report"] ELSE c
             back(f) == [call EXCEPT !.left = call.left \ {f},
                                     !.restored = call.restored \cup {f}]
             lost(f) == [call EXCEPT !.left = call.left \ {f},
                                     !.stuck = call.stuck \cup {f}]
  <1>2. PICK f \in call.left :
          \/ /\ target' = [target EXCEPT ![f] = Expected(f)]
             /\ backup' = [backup EXCEPT ![f] = "none"]
             /\ aux_writer' = [aux_writer EXCEPT ![f] = "nobody"]
             /\ Becomes(w, next(back(f)))
          \/ Becomes(w, next(lost(f))) /\ UNCHANGED disk
    BY DEF Undo
  <1>3. f \in File BY <1>0 DEF Call
  <1>4. /\ Activating(w)
        /\ call.applied \subseteq call.left \cup call.restored \cup call.stuck
        /\ \A g \in call.restored : Undone(g)
    BY <1>1 DEF Activating, At, IInv, PhaseOK, Phase, UndoOK
  <1>5. ASSUME worker'[w].pc \in {"undo", "report"},
               worker'[w].pc = "report" => worker'[w].left = {},
               worker'[w].applied = call.applied, worker'[w].left = call.left \ {f},
               f \in worker'[w].restored \cup worker'[w].stuck,
               call.stuck \subseteq worker'[w].stuck,
               call.restored \subseteq worker'[w].restored,
               \A g \in worker'[w].restored : Undone(g)'
        PROVE  Phase(w)'
    <2>1. worker'[w].applied \subseteq
            worker'[w].left \cup worker'[w].restored \cup worker'[w].stuck
      BY <1>4, <1>5
    <2>2. BackupOK(w)' BY <1>5 DEF BackupOK, At
    <2>3. ReplaceOK(w)' BY <1>5 DEF ReplaceOK, At
    <2>4. UndoOK(w)' BY <1>5, <2>1 DEF UndoOK, At, Working
    <2> QED BY <2>2, <2>3, <2>4 DEF Phase
  <1>6. CASE /\ target' = [target EXCEPT ![f] = Expected(f)]
             /\ backup' = [backup EXCEPT ![f] = "none"]
             /\ aux_writer' = [aux_writer EXCEPT ![f] = "nobody"]
             /\ Becomes(w, next(back(f)))
    <2>1. worker'[w] = next(back(f)) BY <1>6 DEF IInv, TypeOK, Becomes
    <2>2. /\ worker'[w].pc \in {"undo", "report"}
          /\ worker'[w].pc = "report" => worker'[w].left = {}
          /\ worker'[w].applied = call.applied /\ worker'[w].left = call.left \ {f}
          /\ worker'[w].stuck = call.stuck /\ worker'[w].restored = call.restored \cup {f}
      BY <1>0, <1>1, <2>1 DEF Call, At
    <2>3. /\ target'[f] = Expected(f) /\ aux_writer'[f] = "nobody"
          /\ \A g \in File \ {f} : /\ target'[g] = target[g] /\ aux_writer'[g] = aux_writer[g]
                                   /\ backup'[g] = backup[g]
      BY <1>3, <1>6 DEF IInv, TypeOK
    <2>3a. Undone(f)' BY <2>3 DEF Undone, Expected
    <2>3b. \A g \in call.restored : Undone(g)'
      BY <1>0, <1>4, <2>3, <2>3a DEF Undone, Expected, Call
    <2>4. \A g \in worker'[w].restored : Undone(g)' BY <2>2, <2>3a, <2>3b
    <2>5. Phase(w)'
      <3> HIDE DEF next, back, lost
      <3> QED BY <1>5, <2>2, <2>4
    <2>6. NewIsWritten' BY <2>3 DEF IInv, NewIsWritten
    <2>7. OldBytesKept' BY <2>3, MaterializationAssumption DEF IInv, OldBytesKept
    <2>8. Becomes(w, worker'[w]) BY <1>6, <2>1
    <2>9. UNCHANGED <<run, claim>> BY <1>1 DEF db
    <2> QED BY <1>0, <1>4, <2>5, <2>6, <2>7, <2>8, <2>9, InsideStep DEF IInv
  <1>7. CASE Becomes(w, next(lost(f))) /\ UNCHANGED disk
    <2>1. worker'[w] = next(lost(f)) BY <1>7 DEF IInv, TypeOK, Becomes
    <2>2. /\ worker'[w].pc \in {"undo", "report"}
          /\ worker'[w].pc = "report" => worker'[w].left = {}
          /\ worker'[w].applied = call.applied /\ worker'[w].left = call.left \ {f}
          /\ worker'[w].stuck = call.stuck \cup {f} /\ worker'[w].restored = call.restored
      BY <1>0, <1>1, <2>1 DEF Call, At
    <2>3. \A g \in worker'[w].restored : Undone(g)'
      BY <1>4, <1>7, <2>2 DEF Undone, Expected, disk
    <2>4. Phase(w)'
      <3> HIDE DEF next, back, lost
      <3> QED BY <1>5, <2>2, <2>3
    <2>5. NewIsWritten' /\ OldBytesKept' BY <1>7 DEF IInv, NewIsWritten, OldBytesKept, disk
    <2>6. Becomes(w, worker'[w]) BY <1>7, <2>1
    <2>7. UNCHANGED <<run, claim>> BY <1>1 DEF db
    <2> QED BY <1>0, <1>4, <2>4, <2>5, <2>6, <2>7, InsideStep DEF IInv
  <1> QED BY <1>2, <1>6, <1>7

LEMMA ReportStep ==
  ASSUME IInv, TypeOK', NEW w \in Worker, Report(w)
  PROVE  IInv'
  <1>1. Activating(w) /\ Returns(w) BY DEF Report, Activating, At
  <1>2. OneActivator' /\ RunOK' /\ PhaseOK' BY <1>1, QuitStep
  <1>3. NewIsWritten' /\ OldBytesKept'
    BY DEF Report, IInv, NewIsWritten, OldBytesKept, disk
  <1>4. CompletedTogether' BY DEF Report, CompletedTogether
  <1> QED BY <1>2, <1>3, <1>4 DEF IInv

(* The backup that is dropped belongs to a file not replaced yet.             *)
LEMMA DropKeeps ==
  ASSUME IInv, NEW w \in Worker, Activating(w), DropCopy(w), UNCHANGED aux_writer
  PROVE  OldBytesKept'
  <1> SUFFICES ASSUME NEW f \in Replaces, aux_writer[f] = "activation"
               PROVE  backup'[f] = "old"
    BY DEF OldBytesKept
  <1>1. f \in File /\ backup[f] = "old"
    BY MaterializationAssumption DEF IInv, OldBytesKept
  <1>2. ~(At(w, "copy") /\ Visits(w, f))
    BY <1>1 DEF IInv, PhaseOK, Phase, BackupOK
  <1> QED BY <1>1, <1>2 DEF DropCopy

LEMMA FaultStep ==
  ASSUME IInv, TypeOK', NEW w \in Worker, Fault(w)
  PROVE  IInv'
  <1>1. /\ Activating(w) /\ Working(w) /\ DropCopy(w) /\ Becomes(w, Failed(worker[w]))
        /\ UNCHANGED <<db, target, aux_writer>>
    BY DEF Fault, Activating, Working
  <1>2. OldBytesKept' BY <1>1, DropKeeps
  <1> QED BY <1>1, <1>2, FailStep

LEMMA InterruptStep ==
  ASSUME IInv, TypeOK', NEW w \in Worker, Interrupt(w)
  PROVE  IInv'
  <1>1. /\ Activating(w) /\ DropCopy(w) /\ Returns(w)
        /\ UNCHANGED <<run, file, manifest, target, aux_writer>>
    BY DEF Interrupt
  <1>2. OldBytesKept' BY <1>1, DropKeeps
  <1>3. OneActivator' /\ RunOK' /\ PhaseOK' BY <1>1, QuitStep
  <1>4. NewIsWritten' /\ CompletedTogether'
    BY <1>1 DEF IInv, NewIsWritten, CompletedTogether
  <1> QED BY <1>2, <1>3, <1>4 DEF IInv

LEMMA CrashStep ==
  ASSUME IInv, TypeOK', NEW w \in Worker, Crash(w)
  PROVE  IInv'
  <1>1. /\ Returns(w) /\ UNCHANGED <<run, file, manifest, disk>>
        /\ claim' = IF claim = w THEN Dead ELSE claim
    BY DEF Crash
  <1>2. NewIsWritten' /\ OldBytesKept' /\ CompletedTogether'
    BY <1>1 DEF IInv, NewIsWritten, OldBytesKept, CompletedTogether, disk
  <1>3. CASE Activating(w)
    <2>1. OneActivator' /\ RunOK' /\ PhaseOK' BY <1>1, <1>3, QuitStep
    <2> QED BY <1>2, <2>1 DEF IInv
  <1>4. CASE ~Activating(w)
    <2>1. Becomes(w, Idle) BY <1>1 DEF Returns
    <2>2. PhaseOK' /\ \A u \in Worker : Activating(u)' => Activating(u)
      BY <1>1, <1>4, <2>1, IdleIsCall, OutsideStep DEF Idle
    <2>3. RunOK' BY <1>1, <2>2 DEF IInv, RunOK
    <2>4. OneActivator' BY <1>1, <1>4, <2>2 DEF IInv, OneActivator
    <2> QED BY <1>2, <2>2, <2>3, <2>4 DEF IInv
  <1> QED BY <1>3, <1>4

LEMMA EditStep ==
  ASSUME IInv, TypeOK', NEW f \in File, Edit(f)
  PROVE  IInv'
  <1>1. /\ aux_writer'[f] = "user"
        /\ \A g \in File \ {f} : target'[g] = target[g] /\ aux_writer'[g] = aux_writer[g]
        /\ UNCHANGED <<db, backup, worker>>
    BY DEF Edit, IInv, TypeOK
  <1>2. /\ \A g \in File : InPlace(g) => InPlace(g)'
        /\ \A g \in File : Undone(g) => Undone(g)'
        /\ \A g \in File : aux_writer[g] # "activation" => aux_writer'[g] # "activation"
    BY <1>1 DEF InPlace, Undone, Expected
  <1>3. OneActivator' /\ RunOK' BY <1>1 DEF IInv, OneActivator, RunOK, Activating, db
  <1>4. PhaseOK'
    <2> SUFFICES ASSUME NEW w \in Worker PROVE Phase(w)' BY DEF PhaseOK
    <2>1. Phase(w) /\ worker[w] \in Call BY DEF IInv, PhaseOK, TypeOK
    <2>2. BackupOK(w)' BY <1>1, <1>2, <2>1 DEF Phase, BackupOK, At, Visits
    <2>3. ReplaceOK(w)' BY <1>1, <1>2, <2>1 DEF Phase, ReplaceOK, At, Visits, Call
    <2>4. UndoOK(w)' BY <1>1, <1>2, <2>1 DEF Phase, UndoOK, At, Working, Call
    <2> QED BY <2>2, <2>3, <2>4 DEF Phase
  <1>5. NewIsWritten' BY <1>1 DEF IInv, NewIsWritten
  <1>6. OldBytesKept' BY <1>1, MaterializationAssumption DEF IInv, OldBytesKept
  <1>7. CompletedTogether' BY <1>1 DEF IInv, CompletedTogether, db
  <1> QED BY <1>3, <1>4, <1>5, <1>6, <1>7 DEF IInv

-----------------------------------------------------------------------------
(* The invariant and what follows from it.                                    *)

LEMMA InitInv == Init => IInv
  <1> SUFFICES ASSUME Init PROVE IInv
    OBVIOUS
  <1>1. TypeOK BY InitType
  <1>2. \A w \in Worker : ~Activating(w) BY DEF Init, Activating, Idle
  <1>3. \A w \in Worker : Phase(w)
    BY <1>2 DEF Phase, BackupOK, ReplaceOK, UndoOK, Working, Activating, At
  <1>4. NewIsWritten /\ OldBytesKept /\ CompletedTogether
    BY MaterializationAssumption DEF Init, NewIsWritten, OldBytesKept, CompletedTogether
  <1> QED BY <1>1, <1>2, <1>3, <1>4 DEF IInv, OneActivator, RunOK, PhaseOK

LEMMA StepInv == IInv /\ [Next]_vars => IInv'
  <1> SUFFICES ASSUME IInv, [Next]_vars PROVE IInv'
    OBVIOUS
  <1>1. TypeOK' BY TypeStep DEF IInv
  <1>2. CASE UNCHANGED vars
    <2>1. /\ OneActivator' /\ RunOK' /\ NewIsWritten' /\ OldBytesKept' /\ CompletedTogether'
      BY <1>2 DEF IInv, vars, db, disk, OneActivator, RunOK, Activating, NewIsWritten,
                  OldBytesKept, CompletedTogether
    <2>2. PhaseOK' BY <1>2, PhaseFrame DEF IInv, vars, PhaseOK
    <2> QED BY <1>1, <2>1, <2>2 DEF IInv
  <1>3. ASSUME NEW w \in Worker, Begin(w) \/ Step(w) \/ Fault(w) \/ Interrupt(w) \/ Crash(w)
        PROVE  IInv'
    BY <1>1, <1>3, BeginStep, StageRecordStep, ClaimStep, PreflightStep, BackupStep, CopyStep,
       ReplaceStep, CheckpointStep, FinishStep, UndoStep, ReportStep, FaultStep,
       InterruptStep, CrashStep DEF Step
  <1>4. ASSUME NEW f \in File, Edit(f) PROVE IInv'
    BY <1>1, <1>4, EditStep
  <1> QED BY <1>2, <1>3, <1>4 DEF Next

LEMMA AlwaysInv == Spec => []IInv
  BY InitInv, StepInv, PTL DEF Spec

(* At any time at most one process looks at, swaps or restores the files of   *)
(* the plan, however many call and die.                                       *)
THEOREM MatOneActivator == Spec => []OneActivator
  <1>1. IInv => OneActivator BY DEF IInv
  <1> QED BY <1>1, AlwaysInv, PTL

(* While a replaced file holds what the activation wrote, its reviewed old    *)
(* bytes are in its backup.                                                   *)
THEOREM MatOldBytesKept == Spec => []OldBytesKept
  <1>1. IInv => OldBytesKept BY DEF IInv
  <1> QED BY <1>1, AlwaysInv, PTL

(* A completed run has all its files in place, but for what the user changed. *)
THEOREM MatCompletedTogether == Spec => []CompletedTogether
  <1>1. IInv => CompletedTogether BY DEF IInv
  <1> QED BY <1>1, AlwaysInv, PTL

(* Only a swap and a restore write a target.                                  *)
LEMMA ForeignStep ==
  ASSUME IInv, [Next]_vars, worker' # worker, NEW f \in File, target'[f] # target[f]
  PROVE  {target[f], target'[f]} = {Expected(f), "new"}
  <1>1. PICK w \in Worker : Replace(w) \/ Undo(w)
    BY DEF Next, Step, Begin, StageFiles, StageRecord, Claim, Preflight, Backup, Copy,
           Checkpoint, Finish, Report, Fault, Interrupt, Crash, Edit, vars, disk
  <1>2. CASE Replace(w)
    BY <1>2 DEF Replace, Unmoved, IInv, TypeOK
  <1>3. CASE Undo(w)
    <2>1. \/ UNCHANGED disk
          \/ \E g \in File : Restorable(g) /\ target' = [target EXCEPT ![g] = Expected(g)]
      BY <1>3 DEF Undo, IInv, TypeOK, Call
    <2> QED BY <2>1 DEF Restorable, IInv, TypeOK, disk
  <1> QED BY <1>1, <1>2, <1>3

(* No step of the program changes a file but from the reviewed content to the *)
(* approved one or back: what the user wrote there is never overwritten.      *)
THEOREM MatNothingForeignLost == Spec => NothingForeignLost
  <1>1. IInv /\ [Next]_vars =>
          [worker' # worker =>
             \A f \in File : target'[f] # target[f] =>
               {target[f], target'[f]} = {Expected(f), "new"}]_vars
    BY ForeignStep
  <1> QED BY <1>1, AlwaysInv, PTL DEF Spec, NothingForeignLost

(* A call that leaves "report" with a failed run has written its report.      *)
LEMMA ReportStepIsTrue ==
  ASSUME IInv, [Next]_vars, NEW w \in Worker,
         At(w, "report"), run' = "failed", ~At(w, "report")',
         NEW f \in worker[w].applied
  PROVE  \/ file'[f] = "rollback_failed"
         \/ /\ file'[f] = "rolled_back"
            /\ target[f] = Expected(f) \/ aux_writer[f] = "user"
  <1>1. Activating(w) BY DEF Activating, At
  <1>2. run # "failed" BY <1>1 DEF IInv, RunOK
  <1>3. \A u \in Worker \ {w} : ~Activating(u) BY <1>1, Alone DEF IInv
  <1>4. PICK u \in Worker : Report(u)
    BY <1>2 DEF Next, Step, Begin, StageFiles, StageRecord, Claim, Preflight, Backup, Copy,
                Replace, Checkpoint, Finish, Undo, Fault, Interrupt, Crash, Edit, vars, db
  <1>5. Activating(u) BY <1>4 DEF Report, At, Activating
  <1>6. Report(w) BY <1>3, <1>4, <1>5
  <1>7. /\ f \in worker[w].restored \cup worker[w].stuck
        /\ \A g \in worker[w].restored : Undone(g)
    BY DEF IInv, PhaseOK, Phase, UndoOK
  <1>8. f \in File BY DEF IInv, TypeOK, Call
  <1>9. file'[f] = IF f \in worker[w].restored THEN "rolled_back"
                   ELSE IF f \in worker[w].stuck THEN "rollback_failed" ELSE file[f]
    BY <1>6, <1>8 DEF Report
  <1> QED BY <1>7, <1>9 DEF Undone

(* What a call that fails records of the files it applied, restored or not,   *)
(* is true when it records it.                                                *)
THEOREM MatReportIsTrue == Spec => ReportIsTrue
  <1>1. IInv /\ [Next]_vars =>
          [\A w \in Worker :
             (At(w, "report") /\ run' = "failed" /\ ~At(w, "report")') =>
               \A f \in worker[w].applied :
                 \/ file'[f] = "rollback_failed"
                 \/ /\ file'[f] = "rolled_back"
                    /\ target[f] = Expected(f) \/ aux_writer[f] = "user"]_vars
    BY ReportStepIsTrue
  <1> QED BY <1>1, AlwaysInv, PTL DEF Spec, ReportIsTrue
=============================================================================
