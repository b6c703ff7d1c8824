-------------------------- MODULE Materialization --------------------------
(* Writing the files of an accepted initialization: stage_materialization and *)
(* activate_materialization of scripts/continuity/service.py for one commit,  *)
(* called by several processes that may fail, be interrupted or die anywhere, *)
(* while the user edits the target files.                                     *)
(*                                                                            *)
(* The database (run, file, claim, manifest) changes in transactions; target  *)
(* and backup are on disk and change one file at a time. A step is what lies  *)
(* between two points where another process, the user or a crash can come in. *)
EXTENDS Naturals

CONSTANTS
  Worker,    \* processes that call apply_initialization
  NumFiles,  \* the files of the plan, numbered in path order
  Creates,   \* files that must not exist before
  Replaces,  \* files that must have the reviewed old content before
  None,      \* nobody has claimed the activation
  Dead       \* the claim of a process that is no longer running

File == 1..NumFiles

ASSUME MaterializationAssumption ==
  /\ NumFiles \in Nat \ {0}
  /\ Creates \subseteq File /\ Replaces \subseteq File /\ Creates \cap Replaces = {}
  /\ None \notin Worker /\ Dead \notin Worker /\ None # Dead

(* The approved content before the activation. A file that is neither created *)
(* nor replaced already has the approved new content.                         *)
Expected(f) == IF f \in Creates THEN "absent" ELSE IF f \in Replaces THEN "old" ELSE "new"

VARIABLES
  run,       \* run_status of materialization_runs
  file,      \* [File -> file_status of materialization_files]
  claim,     \* owner in materialization_activation_claims
  manifest,  \* files whose accepted_source_manifest row is active
  target,    \* [File -> content at the target path]
  backup,    \* [File -> content under .plot-rag/backups/materialize]
  worker,    \* [Worker -> local variables of a call]
  aux_writer \* [File -> who wrote the present content: not in the code]

db == <<run, file, claim, manifest>>
disk == <<target, backup, aux_writer>>
vars == <<db, disk, worker>>

Content == {"absent", "old", "new", "other"}

(* prepared, applied and rollback_states of activate_materialization.         *)
Call ==
  [pc        : {"idle", "stage", "record", "claim", "preflight", "backup", "copy",
                "replace", "checkpoint", "finish", "undo", "report"},
   recovered : BOOLEAN,      \* recovered_dead_claim
   already   : SUBSET File,  \* files found with the new content
   left      : SUBSET File,  \* what the present loop still has to visit
   applied   : SUBSET File,
   restored  : SUBSET File,
   stuck     : SUBSET File]

Idle == [pc |-> "idle", recovered |-> FALSE, already |-> {}, left |-> {},
         applied |-> {}, restored |-> {}, stuck |-> {}]

TypeOK ==
  /\ run \in {"pending", "staged", "activating", "awaiting_manifest", "completed", "failed"}
  /\ file \in [File -> {"none", "staged", "activated", "rolled_back", "rollback_failed"}]
  /\ claim \in Worker \cup {None, Dead}
  /\ manifest \subseteq File
  /\ target \in [File -> Content]
  /\ backup \in [File -> {"none", "torn", "old"}]
  /\ worker \in [Worker -> Call]
  /\ aux_writer \in [File -> {"nobody", "activation", "user"}]

Init ==
  /\ run = "pending" /\ claim = None /\ manifest = {}
  /\ file = [f \in File |-> "none"]
  /\ target = [f \in File |-> Expected(f)]
  /\ backup = [f \in File |-> "none"]
  /\ worker = [w \in Worker |-> Idle]
  /\ aux_writer = [f \in File |-> "nobody"]

At(w, pc) == worker[w].pc = pc
Becomes(w, call) == worker' = [worker EXCEPT ![w] = call]
Goto(w, pc) == Becomes(w, [worker[w] EXCEPT !.pc = pc])
Returns(w) == Becomes(w, Idle)

(* The loops visit the files in path order.                                   *)
Visits(w, f) == f \in worker[w].left /\ \A g \in worker[w].left : f <= g

(* call is done with file f: on with the loop, or to the next phase.          *)
Visited(call, f, loop, next) ==
  IF call.left = {f} THEN [call EXCEPT !.pc = next, !.left = File]
  ELSE [call EXCEPT !.pc = loop, !.left = call.left \ {f}]

(* The except clause: undo what this call applied, then report.               *)
Failed(call) ==
  [call EXCEPT !.pc = IF call.applied = {} THEN "report" ELSE "undo",
               !.left = call.applied]

-----------------------------------------------------------------------------
(* apply_initialization and staging.                                          *)

(* What to do is decided on a status read before.                             *)
Begin(w) ==
  /\ At(w, "idle")
  /\ run # "completed"
  /\ Goto(w, IF run \in {"pending", "failed"} THEN "stage" ELSE "claim")
  /\ UNCHANGED <<db, disk>>

(* Staging refuses when a target is not as it was reviewed; the files it      *)
(* writes are below .plot-rag/staging and always hold the approved bytes.     *)
StageFiles(w) ==
  /\ At(w, "stage")
  /\ IF \A f \in File : target[f] = Expected(f) THEN Goto(w, "record") ELSE Returns(w)
  /\ UNCHANGED <<db, disk>>

(* The transaction that ends stage_materialization; it looks at no status.    *)
StageRecord(w) ==
  /\ At(w, "record")
  /\ run' = "staged"
  /\ file' = [f \in File |-> "staged"]
  /\ Goto(w, "claim")
  /\ UNCHANGED <<claim, manifest, disk>>

-----------------------------------------------------------------------------
(* The claim.                                                                 *)

(* A process that merely cannot be reached counts as dead.                    *)
Claimable_Anyones == TRUE

(* Only the claim of a process that certainly ended may be taken over.        *)
Claimable == claim \in {None, Dead}

MayClaim ==
  /\ run \in {"staged", "activating", "awaiting_manifest", "failed"}
  /\ Claimable
  /\ run = "failed" => \A f \in File : file[f] # "rollback_failed"

(* The claim and the status change are one transaction.                       *)
Claim(w) ==
  /\ At(w, "claim")
  /\ IF MayClaim
     THEN /\ claim' = w
          /\ run' = "activating"
          /\ Becomes(w, [Idle EXCEPT !.pc = "preflight", !.recovered = (claim = Dead),
                                     !.left = File])
     ELSE /\ Returns(w)
          /\ UNCHANGED <<claim, run>>
  /\ UNCHANGED <<file, manifest, disk>>

-----------------------------------------------------------------------------
(* Activation.                                                                *)

(* The checkpoint of an earlier call is believed instead of the file.          *)
Already_Recorded(f) == file[f] = "activated"

(* already_activated: the hash decides, not the recorded file_status.         *)
Already(f) == target[f] = "new"

(* Every target is looked at before the first one is touched.                 *)
Preflight(w) ==
  /\ At(w, "preflight")
  /\ Becomes(w, IF \A f \in File : Already(f) \/ target[f] = Expected(f)
                THEN [worker[w] EXCEPT !.pc = "backup",
                                       !.already = {f \in File : Already(f)}]
                ELSE Failed(worker[w]))
  /\ UNCHANGED <<db, disk>>

(* recovered_applied: the file was replaced by the process that died.         *)
RecoveredApplied(call, f) == call.recovered /\ f \in call.already /\ Expected(f) # "new"

(* The backup found for a file that is replaced is used whatever it holds.    *)
Backup_Unvalidated(w) ==
  /\ At(w, "backup")
  /\ \E f \in File :
       LET call == worker[w]
           kept == Visited(call, f, "backup", "replace")
       IN
         /\ Visits(w, f)
         /\ IF f \notin Replaces \/ f \in call.already \/ backup[f] # "none"
            THEN Becomes(w, kept) /\ UNCHANGED backup
            ELSE Goto(w, "copy") /\ backup' = [backup EXCEPT ![f] = "torn"]
  /\ UNCHANGED <<db, target, aux_writer>>

(* One file of the backup loop: what a dead process replaced counts as        *)
(* applied and needs its backup; what is still to be replaced gets one, or    *)
(* uses the one that is there.                                                *)
Backup(w) ==
  /\ At(w, "backup")
  /\ \E f \in File :
       LET call == worker[w]
           kept == IF RecoveredApplied(call, f)
                   THEN [call EXCEPT !.applied = call.applied \cup {f}] ELSE call
           needed == f \in Replaces /\ (f \in call.already => call.recovered)
           done == Visited(kept, f, "backup", "replace")
       IN
         /\ Visits(w, f)
         /\ \/ /\ ~needed \/ backup[f] = "old"
               /\ Becomes(w, done) /\ UNCHANGED backup
            \/ /\ needed /\ f \notin call.already /\ backup[f] = "none"
               /\ IF target[f] = "absent"
                  THEN Becomes(w, Failed(kept)) /\ UNCHANGED backup
                  ELSE Goto(w, "copy") /\ backup' = [backup EXCEPT ![f] = "torn"]
            \/ /\ needed /\ backup[f] # "old" /\ (f \in call.already \/ backup[f] = "torn")
               /\ Becomes(w, Failed(kept)) /\ UNCHANGED backup
  /\ UNCHANGED <<db, target, aux_writer>>

(* A copy that turns out not to hold the old content is removed again.        *)
Copy(w) ==
  /\ At(w, "copy")
  /\ \E f \in File :
       /\ Visits(w, f)
       /\ IF target[f] = "old"
          THEN /\ backup' = [backup EXCEPT ![f] = "old"]
               /\ Becomes(w, Visited(worker[w], f, "backup", "replace"))
          ELSE /\ backup' = [backup EXCEPT ![f] = "none"]
               /\ Becomes(w, Failed(worker[w]))
  /\ UNCHANGED <<db, target, aux_writer>>

(* The target is not looked at again after the preflight.                     *)
Unmoved_AsPreflight(f) == TRUE

(* The hash comparison right before os.replace, taken as one step with it: an *)
(* edit between the two calls is not seen by the code either.                 *)
Unmoved(f) == target[f] = Expected(f)

(* The swap copy replaces the target in one rename.                           *)
Replace(w) ==
  /\ At(w, "replace")
  /\ \E f \in File :
       /\ Visits(w, f)
       /\ IF f \in worker[w].already
          THEN Goto(w, "checkpoint") /\ UNCHANGED <<target, aux_writer>>
          ELSE IF Unmoved(f)
          THEN /\ target' = [target EXCEPT ![f] = "new"]
               /\ aux_writer' = [aux_writer EXCEPT ![f] = "activation"]
               /\ Becomes(w, [worker[w] EXCEPT !.pc = "checkpoint",
                                               !.applied = worker[w].applied \cup {f}])
          ELSE Becomes(w, Failed(worker[w])) /\ UNCHANGED <<target, aux_writer>>
  /\ UNCHANGED <<db, backup>>

Checkpoint(w) ==
  /\ At(w, "checkpoint")
  /\ \E f \in File :
       /\ Visits(w, f)
       /\ file' = [file EXCEPT ![f] = "activated"]
       /\ Becomes(w, Visited(worker[w], f, "replace", "finish"))
  /\ UNCHANGED <<run, claim, manifest, disk>>

(* A pending manifest row whose file exists with another hash.                *)
Conflict(f) == f \notin manifest /\ target[f] \notin {"new", "absent"}

(* The manifest, the replay and the completion receipt: one transaction.      *)
Finish(w) ==
  /\ At(w, "finish")
  /\ IF \E f \in File : Conflict(f)
     THEN Becomes(w, Failed(worker[w])) /\ UNCHANGED db
     ELSE /\ manifest' = manifest \cup {f \in File : target[f] # "absent"}
          /\ run' = IF manifest' = File THEN "completed" ELSE "awaiting_manifest"
          /\ claim' = None
          /\ Returns(w)
          /\ UNCHANGED file
  /\ UNCHANGED disk

-----------------------------------------------------------------------------
(* Failure.                                                                   *)

(* A file is put back only if it is as the activation left it, and from a     *)
(* backup with the reviewed content.                                          *)
Restorable(f) == target[f] = "new" /\ (f \in Replaces => backup[f] = "old")

(* One file of the rollback: back to what it was, or marked as not restored,  *)
(* also when the file system refuses. The order among them does not matter.   *)
Undo(w) ==
  /\ At(w, "undo")
  /\ \E f \in worker[w].left :
       LET call == worker[w]
           next(c) == IF c.left = {} THEN [c EXCEPT !.pc = "report"] ELSE c
       IN
         \/ /\ Restorable(f)
            /\ target' = [target EXCEPT ![f] = Expected(f)]
            /\ backup' = [backup EXCEPT ![f] = "none"]
            /\ aux_writer' = [aux_writer EXCEPT ![f] = "nobody"]
            /\ Becomes(w, next([call EXCEPT !.left = call.left \ {f},
                                            !.restored = call.restored \cup {f}]))
         \/ /\ Becomes(w, next([call EXCEPT !.left = call.left \ {f},
                                            !.stuck = call.stuck \cup {f}]))
            /\ UNCHANGED disk
  /\ UNCHANGED db

(* Every file the call applied is recorded as restored.                       *)
Report_Optimistic(w) ==
  /\ At(w, "report")
  /\ file' = [f \in File |-> IF f \in worker[w].applied THEN "rolled_back" ELSE file[f]]
  /\ run' = "failed"
  /\ claim' = None
  /\ Returns(w)
  /\ UNCHANGED <<manifest, disk>>

(* The transaction that records the outcome of the rollback.                  *)
Report(w) ==
  /\ At(w, "report")
  /\ file' = [f \in File |-> IF f \in worker[w].restored THEN "rolled_back"
                             ELSE IF f \in worker[w].stuck THEN "rollback_failed"
                             ELSE file[f]]
  /\ run' = "failed"
  /\ claim' = None
  /\ Returns(w)
  /\ UNCHANGED <<manifest, disk>>

Activating(w) ==
  worker[w].pc \in {"preflight", "backup", "copy", "replace", "checkpoint", "finish",
                    "undo", "report"}

(* The partial backup a call was writing goes when the call is cut short.     *)
DropCopy(w) ==
  backup' = [f \in File |-> IF At(w, "copy") /\ Visits(w, f) THEN "none" ELSE backup[f]]

(* The database or the file system refuses a step of the activation.          *)
Fault(w) ==
  /\ worker[w].pc \in {"preflight", "backup", "copy", "replace", "checkpoint", "finish"}
  /\ DropCopy(w)
  /\ Becomes(w, Failed(worker[w]))
  /\ UNCHANGED <<db, target, aux_writer>>

(* The call ends without a rollback, because it is interrupted or because the *)
(* report itself fails. The finally clause gives the claim back; when that    *)
(* fails too, the claim stays until the process ends.                         *)
Interrupt(w) ==
  /\ Activating(w)
  /\ DropCopy(w)
  /\ claim' \in {None, claim}
  /\ Returns(w)
  /\ UNCHANGED <<run, file, manifest, target, aux_writer>>

(* The process dies; its claim stays behind.                                  *)
Crash(w) ==
  /\ ~At(w, "idle") \/ claim = w
  /\ claim' = IF claim = w THEN Dead ELSE claim
  /\ Returns(w)
  /\ UNCHANGED <<run, file, manifest, disk>>

(* The user writes, restores or deletes a target file.                        *)
Edit(f) ==
  /\ \E content \in Content \ {target[f]} : target' = [target EXCEPT ![f] = content]
  /\ aux_writer' = [aux_writer EXCEPT ![f] = "user"]
  /\ UNCHANGED <<db, backup, worker>>

Step(w) ==
  \/ StageFiles(w) \/ StageRecord(w) \/ Claim(w) \/ Preflight(w)
  \/ Backup(w) \/ Copy(w) \/ Replace(w) \/ Checkpoint(w) \/ Finish(w)
  \/ Undo(w) \/ Report(w)

Next ==
  \/ \E w \in Worker : Begin(w) \/ Step(w) \/ Fault(w) \/ Interrupt(w) \/ Crash(w)
  \/ \E f \in File : Edit(f)

Spec == Init /\ [][Next]_vars

-----------------------------------------------------------------------------
(* Properties.                                                                *)

(* Whoever looks at the files, swaps them or undoes swaps holds the claim: no *)
(* two processes are inside the activation, whatever has died before.         *)
OneActivator == \A w \in Worker : Activating(w) => claim = w

(* The reviewed old bytes of a file the activation replaced are in its        *)
(* backup, after any number of crashes, interrupts, failures and retries.     *)
OldBytesKept ==
  \A f \in Replaces : aux_writer[f] = "activation" => backup[f] = "old"

(* The program never destroys content nobody approved: it only turns the      *)
(* reviewed old content into the approved new one, or that one back.          *)
NothingForeignLost ==
  [][worker' # worker =>
       \A f \in File : target'[f] # target[f] =>
         {target[f], target'[f]} = {Expected(f), "new"}]_vars

(* A completed run has put every file of the plan in place: one that is not   *)
(* there was changed by the user, not forgotten or rolled back.               *)
CompletedTogether ==
  run = "completed" => \A f \in File : target[f] = "new" \/ aux_writer[f] = "user"

(* What a failed call reports is what is on disk: a file it applied is back   *)
(* or the user's, or recorded as not restored.                                *)
ReportIsTrue ==
  [][\A w \in Worker :
       (At(w, "report") /\ run' = "failed" /\ ~At(w, "report")') =>
         \A f \in worker[w].applied :
           \/ file'[f] = "rollback_failed"
           \/ /\ file'[f] = "rolled_back"
              /\ target[f] = Expected(f) \/ aux_writer[f] = "user"]_vars

(* A failed run with no file marked as not restored was rolled back: no file   *)
(* of the plan still has the content some activation put there (message at    *)
(* service.py:11632: "materialization activation failed and was rolled back").*)
FailedIsRolledBack ==
  (run = "failed" /\ \A f \in File : file[f] # "rollback_failed")
    => \A f \in File : aux_writer[f] # "activation"
============================================================================
