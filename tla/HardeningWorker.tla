---------------------------- MODULE HardeningWorker ---------------------------
(***************************************************************************)
(* The hardening worker: one goroutine that recovers interrupted tasks at   *)
(* start and then runs queued tasks one at a time                           *)
(* (internal/worker/hardening_worker.go).  Every call to the database, the  *)
(* object store, the file system or the engine is a step of its own; the    *)
(* process may die, and requests may run, between any two.                  *)
(***************************************************************************)
EXTENDS HardeningStore

VARIABLES
    wpc,       \* the worker's next call
    wtask,     \* the task it runs; 0: none
    wapp,      \* did the task row come with its app row (Preload)?
    wstep,     \* the step it is in; 0: none
    werr,      \* the error it carries: none, or one that fits / overflows
               \* a varchar(500) column
    wfiles,    \* artifact files found in the work directory
    wup,       \* uploadedKeys: artifacts it knows to be in MinIO
    worphans   \* recovered artifact keys still to be deleted

workerVars == <<wpc, wtask, wapp, wstep, werr, wfiles, wup, worphans>>

WorkerPCs ==
    {"recover", "cleanup", "poll", "claim", "mkdir", "start", "body", "put",
     "record", "stepfail", "finish", "complete", "rollback", "rmdir", "fail",
     "stopped", "off"}

WorkerTypeOK ==
    /\ wpc \in WorkerPCs
    /\ wtask \in Tasks \cup {0}
    /\ wapp \in BOOLEAN
    /\ wstep \in Steps \cup {0}
    /\ werr \in {"none", "short", "long"}
    /\ wfiles \in SUBSET Kinds
    /\ wup \in SUBSET Kinds
    /\ worphans \in SUBSET (Tasks \X Kinds)

(* What a process that starts, or has died, holds in memory.                *)
Forget ==
    /\ wtask' = 0
    /\ wapp' = FALSE
    /\ wstep' = 0
    /\ werr' = "none"
    /\ wfiles' = {}
    /\ wup' = {}
    /\ worphans' = {}

WorkerInit ==
    /\ wpc = "recover"
    /\ wtask = 0
    /\ wapp = FALSE
    /\ wstep = 0
    /\ werr = "none"
    /\ wfiles = {}
    /\ wup = {}
    /\ worphans = {}

(* Moves of the worker; each leaves the rest of its memory alone.           *)
Go(pc) ==
    /\ wpc' = pc
    /\ UNCHANGED <<wtask, wapp, wstep, werr, wfiles, wup, worphans>>

(* ProcessNext returns; the loop will look at the queue again.              *)
NextTick == wpc' = "poll" /\ Forget

(* Error texts of an object-store call; others always fit.                  *)
StorageErrors == {"short"} \cup (IF "long" \in Faults THEN {"long"} ELSE {})

(* Mutant: the rollback of the uploaded artifacts is not deferred.          *)
UnwindWithoutRollback(err) ==
    /\ werr' = err
    /\ wpc' = "rmdir"
    /\ UNCHANGED <<wtask, wapp, wstep, wfiles, wup, worphans>>

(* runTask returns err: its deferred functions run last-in first-out, the   *)
(* rollback of uploaded artifacts before the removal of the directory.      *)
Unwind(err) ==
    /\ werr' = err
    /\ wpc' = IF wup # {} THEN "rollback" ELSE "rmdir"
    /\ UNCHANGED <<wtask, wapp, wstep, wfiles, wup, worphans>>

(* The body of a step returns err: runStep records it before returning.     *)
StepFails(err) ==
    /\ werr' = err
    /\ wpc' = "stepfail"
    /\ UNCHANGED <<wtask, wapp, wstep, wfiles, wup, worphans>>

Stopping == proc # "up"   \* the worker's context is cancelled

-----------------------------------------------------------------------------
(* Mutant: the artifacts of every task are cleaned up.                      *)
RecoverCleaningAll ==
    /\ wpc = "recover"
    /\ ~Stopping
    /\ \A t \in Running : Unlocked(taskApp[t])
    /\ Commit(CanRecover, RecoverRunningTasks,
              /\ wpc' = "cleanup"
              /\ worphans' = {o \in Tasks \X Kinds : o[2] \in artifacts[o[1]]}
              /\ UNCHANGED <<wtask, wapp, wstep, werr, wfiles, wup>>,
              Go("poll"))
    /\ UNCHANGED <<appLock, objVars>>

(* Start: RecoverRunning, once per process.  It waits for the row locks of  *)
(* the apps it updates; an error is reported and the loop starts anyway.    *)
Recover ==
    /\ wpc = "recover"
    /\ \/ /\ Stopping
          /\ Go("poll")
          /\ UNCHANGED dbVars
       \/ /\ ~Stopping
          /\ \A t \in Running : Unlocked(taskApp[t])
          /\ Commit(CanRecover, RecoverRunningTasks,
                    /\ wpc' = "cleanup"
                    /\ worphans' = {o \in Tasks \X Kinds :
                            o[1] \in Running /\ o[2] \in artifacts[o[1]]}
                    /\ UNCHANGED <<wtask, wapp, wstep, werr, wfiles, wup>>,
                    Go("poll"))
    /\ UNCHANGED <<appLock, objVars>>

(* cleanupRecoveredArtifacts: best effort, one object after another.        *)
Cleanup ==
    /\ wpc = "cleanup"
    /\ \/ \E o \in worphans :
            /\ \/ DeleteArtifact(o[1], o[2])
               \/ "store" \in Faults /\ UNCHANGED objVars
            /\ worphans' = worphans \ {o}
            /\ UNCHANGED <<wpc, wtask, wapp, wstep, werr, wfiles, wup>>
       \/ worphans = {} /\ Go("poll") /\ UNCHANGED objVars
    /\ UNCHANGED <<dbVars, appLock>>

(* The loop: stop when told to, wait for the next tick when nothing is      *)
(* queued, else take NextQueuedTask with its app preloaded.                 *)
Poll ==
    /\ wpc = "poll"
    /\ \/ Stopping /\ Go("stopped")
       \/ /\ ~Stopping
          /\ \A t \in Tasks : taskStatus[t] # "queued"
          /\ UNCHANGED workerVars
       \/ /\ ~Stopping
          /\ \E t \in Tasks :
                /\ NextQueuedTask(t)
                /\ wtask' = t
                /\ wapp' = Exists(taskApp[t])
          /\ wpc' = "claim"
          /\ UNCHANGED <<wstep, werr, wfiles, wup, worphans>>
    /\ UNCHANGED storeVars

Claim ==
    /\ wpc = "claim"
    /\ Commit(CanMarkTaskRunning(wtask), MarkTaskRunning(wtask),
              Go("mkdir"), NextTick)
    /\ UNCHANGED <<appLock, objVars>>

(* runTask: os.MkdirAll fails before any deferred function is registered.   *)
Mkdir ==
    /\ wpc = "mkdir"
    /\ \/ /\ wpc' = "start"
          /\ wstep' = PrepareInput
          /\ UNCHANGED werr
       \/ /\ "fs" \in Faults
          /\ wpc' = "fail"
          /\ werr' = "short"
          /\ UNCHANGED wstep
    /\ UNCHANGED <<wtask, wapp, wfiles, wup, worphans>>
    /\ UNCHANGED storeVars

-----------------------------------------------------------------------------
(* runStep: FindStep and StartStep, then the body of the step.  A failure   *)
(* to start returns without FinishStepFailed.                               *)
BeginStep ==
    /\ wpc = "start"
    /\ Commit(CanStartStep(wtask, wstep), StartStep(wtask, wstep),
              Go(IF wstep = UploadArtifacts THEN "put" ELSE "body"),
              Unwind("short"))
    /\ UNCHANGED <<appLock, objVars>>

(* Download the package, write the rules file.                              *)
PrepareBody ==
    LET found == wapp /\ SourceKey[taskApp[wtask]] \in sources IN
    /\ wstep = PrepareInput
    /\ \/ found /\ Go("finish")
       \/ ~found /\ StepFails("short")
       \/ (Stopping \/ "store" \in Faults) /\ \E e \in StorageErrors : StepFails(e)
       \/ "fs" \in Faults /\ StepFails("short")

(* Two steps that only append a log line.                                   *)
LogBody ==
    /\ wstep \in {ParsePackage, ApplyStrategy}
    /\ Go("finish") \/ ("db" \in Faults /\ StepFails("short"))

(* The engine is external: it may fail, time out, and leave any files.      *)
EngineBody ==
    /\ wstep = RunEngine
    /\ \/ \E files \in SUBSET Kinds :
            /\ wfiles' = files
            /\ wpc' = "finish"
            /\ UNCHANGED <<wtask, wapp, wstep, werr, wup, worphans>>
       \/ StepFails("short")

(* The unsigned artifact must be there; a missing or unreadable signed one  *)
(* is only logged.                                                          *)
CollectBody ==
    /\ wstep = CollectArtifacts
    /\ \/ "unsigned" \in wfiles /\ Go("finish")
       \/ /\ "unsigned" \in wfiles /\ "fs" \in Faults
          /\ wfiles' = {"unsigned"}
          /\ wpc' = "finish"
          /\ UNCHANGED <<wtask, wapp, wstep, werr, wup, worphans>>
       \/ ("unsigned" \notin wfiles \/ "fs" \in Faults) /\ StepFails("short")

Body ==
    /\ wpc = "body"
    /\ PrepareBody \/ LogBody \/ EngineBody \/ CollectBody
    /\ UNCHANGED storeVars

(* uploadArtifacts: the unsigned artifact, then the signed one if there is  *)
(* one.  A key is remembered for the rollback only after its PutObject      *)
(* returned without error.                                                  *)
NextUpload == IF "unsigned" \notin wup THEN "unsigned" ELSE "signed_test"

Put ==
    /\ wpc = "put"
    /\ \/ /\ wup # wfiles
          /\ \/ /\ PutArtifact(wtask, NextUpload)
                /\ \/ /\ wup' = wup \cup {NextUpload}
                      /\ UNCHANGED <<wpc, wtask, wapp, wstep, werr, wfiles, worphans>>
                   \/ /\ "lost" \in Faults
                      /\ \E e \in StorageErrors : StepFails(e)
             \/ /\ UNCHANGED objVars
                /\ \/ /\ Stopping \/ "store" \in Faults
                      /\ \E e \in StorageErrors : StepFails(e)
                   \/ "fs" \in Faults /\ StepFails("short")
       \/ wup = wfiles /\ Go("record") /\ UNCHANGED objVars
    /\ UNCHANGED <<dbVars, appLock>>

Record ==
    /\ wpc = "record"
    /\ Commit(TRUE, RecordArtifacts(wtask, wfiles), Go("finish"),
              StepFails("short"))
    /\ UNCHANGED <<appLock, objVars>>

(* FinishStepFailed stores the error text; its own error is dropped.        *)
StepFail ==
    /\ wpc = "stepfail"
    /\ Commit(CanFinishStep(wtask, wstep) /\ werr # "long",
              FinishStepFailed(wtask, wstep), Unwind(werr), Unwind(werr))
    /\ UNCHANGED <<appLock, objVars>>

(* Mutant: the step counter runs past the last step.                        *)
FinishStepPastEnd ==
    /\ wpc = "finish"
    /\ Commit(CanFinishStep(wtask, wstep), FinishStepSuccess(wtask, wstep),
              /\ wpc' = "start"
              /\ wstep' = wstep + 1
              /\ UNCHANGED <<wtask, wapp, werr, wfiles, wup, worphans>>,
              Unwind("short"))
    /\ UNCHANGED <<appLock, objVars>>

(* Mutant: the error of FinishStepSuccess is dropped.                       *)
FinishStepIgnoringError ==
    LET goOn == IF wstep = UploadArtifacts
                THEN Go("complete")
                ELSE /\ wpc' = "start"
                     /\ wstep' = wstep + 1
                     /\ UNCHANGED <<wtask, wapp, werr, wfiles, wup, worphans>>
    IN
    /\ wpc = "finish"
    /\ Commit(CanFinishStep(wtask, wstep), FinishStepSuccess(wtask, wstep),
              goOn, goOn)
    /\ UNCHANGED <<appLock, objVars>>

FinishStep ==
    /\ wpc = "finish"
    /\ Commit(CanFinishStep(wtask, wstep), FinishStepSuccess(wtask, wstep),
              IF wstep = UploadArtifacts
              THEN Go("complete")
              ELSE /\ wpc' = "start"
                   /\ wstep' = wstep + 1
                   /\ UNCHANGED <<wtask, wapp, werr, wfiles, wup, worphans>>,
              Unwind("short"))
    /\ UNCHANGED <<appLock, objVars>>

-----------------------------------------------------------------------------
Complete ==
    /\ wpc = "complete"
    /\ Unlocked(taskApp[wtask])
    /\ Commit(CanTransitionTask(wtask), CompleteTaskForApp(wtask, wfiles),
              Go("rmdir"), Unwind("short"))
    /\ UNCHANGED <<appLock, objVars>>

(* rollbackArtifacts: last uploaded first, with a context of its own; the   *)
(* errors join the one being returned.                                      *)
Rollback ==
    LET k == IF "signed_test" \in wup THEN "signed_test" ELSE "unsigned" IN
    /\ wpc = "rollback"
    /\ \/ DeleteArtifact(wtask, k) /\ UNCHANGED werr
       \/ /\ "store" \in Faults
          /\ UNCHANGED objVars
          /\ \E e \in StorageErrors : werr' = IF werr = "long" THEN "long" ELSE e
    /\ wup' = wup \ {k}
    /\ wpc' = IF wup = {k} THEN "rmdir" ELSE "rollback"
    /\ UNCHANGED <<wtask, wapp, wstep, wfiles, worphans>>
    /\ UNCHANGED <<dbVars, appLock>>

(* Mutant: the directory is removed before the artifacts are rolled back,   *)
(* so the rollback sees the error of the removal.                           *)
RemoveDirBeforeRollback ==
    /\ wpc = "rmdir"
    /\ \/ werr = "none" /\ NextTick
       \/ werr # "none" /\ Go("fail")
       \/ /\ "fs" \in Faults
          /\ wpc' = IF wup # {} THEN "rollback" ELSE "fail"
          /\ werr' = IF werr = "none" THEN "short" ELSE werr
          /\ UNCHANGED <<wtask, wapp, wstep, wfiles, wup, worphans>>
    /\ UNCHANGED storeVars

(* os.RemoveAll; its error turns a successful run into an error too.        *)
RemoveDir ==
    /\ wpc = "rmdir"
    /\ \/ werr = "none" /\ NextTick
       \/ werr # "none" /\ Go("fail")
       \/ /\ "fs" \in Faults
          /\ wpc' = "fail"
          /\ werr' = IF werr = "none" THEN "short" ELSE werr
          /\ UNCHANGED <<wtask, wapp, wstep, wfiles, wup, worphans>>
    /\ UNCHANGED storeVars

(* Mutant: ProcessNext returns the error without failing the task.          *)
FailForgotten ==
    /\ wpc = "fail"
    /\ NextTick
    /\ UNCHANGED storeVars

(* Mutant: FailTaskForApp is tried again until it succeeds.                 *)
FailRetried ==
    /\ wpc = "fail"
    /\ Unlocked(taskApp[wtask])
    /\ Commit(CanTransitionTask(wtask) /\ werr # "long", FailTaskForApp(wtask),
              NextTick, UNCHANGED workerVars)
    /\ UNCHANGED <<appLock, objVars>>

Fail ==
    /\ wpc = "fail"
    /\ Unlocked(taskApp[wtask])
    /\ Commit(CanTransitionTask(wtask) /\ werr # "long", FailTaskForApp(wtask),
              NextTick, NextTick)
    /\ UNCHANGED <<appLock, objVars>>

WorkerStep ==
    \/ Recover \/ Cleanup \/ Poll \/ Claim \/ Mkdir \/ BeginStep \/ Body
    \/ Put \/ Record \/ StepFail \/ FinishStep \/ Complete \/ Rollback
    \/ RemoveDir \/ Fail
=============================================================================
