--------------------------- MODULE HardeningInvariant -------------------------
(***************************************************************************)
(* The inductive invariants behind the safety properties of                 *)
(* HardeningSystem.  They hold under every kind of fault.                   *)
(***************************************************************************)
EXTENDS HardeningSystem

(* Where the worker is inside runStep, and where it has a task at all.      *)
InStep  == {"start", "body", "put", "record", "stepfail", "finish"}
HasTask == InStep \cup {"claim", "mkdir", "complete", "rollback", "rmdir", "fail"}

(* The task that the worker believes to run is running: no request, and no  *)
(* earlier call whose answer was lost, has moved it on.                     *)
WorkerHolds ==
    /\ wpc \in HasTask => wtask \in Tasks
    /\ wpc = "claim" => taskStatus[wtask] = "queued"
    /\ wpc \in InStep \cup {"mkdir", "complete"} => taskStatus[wtask] = "running"
    /\ wpc \in InStep => wstep \in Steps
    /\ wpc = "complete" => \A s \in Steps : stepStatus[wtask][s] = "success"

RequestHasApp == \A c \in Clients : cpc[c] # "idle" => capp[c] \in Apps

CallInv == WorkerHolds /\ RequestHasApp

(* All that requests and worker ever do to the database: each write meets   *)
(* the rows in the state that its caller expects, also where the statement  *)
(* itself does not ask for it (RecordArtifacts, the step updates).          *)
WorkerDbStep ==
    \/ UNCHANGED dbVars
    \/ \E t \in Tasks : taskStatus[t] = "queued" /\ MarkTaskRunning(t)
    \/ \E t \in Tasks :
          /\ taskStatus[t] = "running"
          /\ \/ \E ks \in SUBSET Kinds : RecordArtifacts(t, ks)
             \/ \E s \in Steps :
                   \/ CanStartStep(t, s) /\ StartStep(t, s)
                   \/ CanFinishStep(t, s) /\ FinishStepSuccess(t, s)
                   \/ CanFinishStep(t, s) /\ FinishStepFailed(t, s)
             \/ /\ Exists(taskApp[t])
                /\ \A s \in Steps : stepStatus[t][s] = "success"
                /\ \E ks \in SUBSET Kinds : CompleteTaskForApp(t, ks)
             \/ Exists(taskApp[t]) /\ FailTaskForApp(t)
    \/ CanRecover /\ RecoverRunningTasks

RequestDbStep ==
    \/ UNCHANGED dbVars
    \/ \E a \in Apps : CreateApp(a) \/ DeleteApp(a)
    \/ \E a \in Apps : Exists(a) /\ CreateTaskWithStepsForApp(a)

(* Ids are given out in order.                                              *)
IdsInOrder ==
    \A t, u \in Tasks :
        u < t /\ taskStatus[t] # "none" => taskStatus[u] # "none"

(* A task belongs to an app whose row exists or has existed.                *)
TaskHasApp ==
    \A t \in Tasks :
        IF taskStatus[t] = "none"
        THEN taskApp[t] = NoApp
        ELSE taskApp[t] \in Apps /\ appStatus[taskApp[t]] # "none"

(* Between the lock and the insert a Create request owns the app row, ...   *)
LockHeld ==
    \A c \in Clients :
        cpc[c] \in {"create_count", "create_insert"} => appLock[capp[c]] = c

(* ... so that what it has counted still holds when it inserts.             *)
CountStands ==
    \A c \in Clients : cpc[c] = "create_insert" => ~HasActiveTaskForApp(capp[c])

(* The row that an upload is about to insert is its own.                    *)
UploadFresh ==
    \A c \in Clients : cpc[c] = "upload_row" =>
        /\ appStatus[capp[c]] = "none"
        /\ \A d \in Clients : capp[d] = capp[c] => d = c

(* A queued or running task is the most recent one of its app.              *)
ActiveIsLatest ==
    \A t, u \in Tasks : Active(t) /\ taskApp[u] = taskApp[t] => u <= t

QueueInv ==
    /\ IdsInOrder
    /\ TaskHasApp
    /\ LockHeld
    /\ CountStands
    /\ UploadFresh
    /\ ActiveIsLatest
    /\ AppMirrorsLatestTask

-----------------------------------------------------------------------------
(* What the refinement of TaskLifecycle needs besides.                      *)

(* Nothing overtakes the task that the worker is about to claim.            *)
TakesOldest == wpc = "claim" => NextQueuedTask(wtask)

(* From the end of the collecting step on there is an unsigned artifact,    *)
(* and what is recorded is what completion will record again.               *)
Collected ==
    \/ wpc \in {"put", "record", "complete"}
    \/ wpc = "start" /\ wstep = UploadArtifacts
    \/ wpc = "finish" /\ wstep \in {CollectArtifacts, UploadArtifacts}

Recorded == wpc = "complete" \/ (wpc = "finish" /\ wstep = UploadArtifacts)

OffersFiles ==
    /\ wpc \in {"put", "record"} => wstep = UploadArtifacts
    /\ wpc = "body" => wstep # UploadArtifacts
    /\ Collected => "unsigned" \in wfiles
    /\ Recorded => artifacts[wtask] = wfiles

(* A delete request is about an app whose row exists or has existed.        *)
DeletesKnownApp ==
    \A c \in Clients :
        cpc[c] \in {"delete_check", "delete_row"} => appStatus[capp[c]] # "none"

(* Whatever ends a run early leaves an error behind: without one the task   *)
(* has been completed.                                                      *)
ErrorsCarried ==
    /\ wpc \in {"stepfail", "rollback", "fail"} => werr # "none"
    /\ wpc = "rmdir" /\ werr = "none" => taskStatus[wtask] = "completed"

(* Between two tasks, and while there is no process, the worker has none.   *)
IdleHasNoTask ==
    /\ wpc \notin HasTask => wtask = 0
    /\ proc = "down" => wpc = "off"

PromiseInv ==
    /\ TakesOldest
    /\ OffersFiles
    /\ DeletesKnownApp
    /\ ErrorsCarried
    /\ IdleHasNoTask

-----------------------------------------------------------------------------
(* What holds only while some kinds of fault stay away.  Each theorem names *)
(* the kinds it excludes.                                                   *)

(* Nothing lost: the worker knows what it has uploaded and takes back only  *)
(* what no completed task offers.                                           *)
UploadsKnown ==
    /\ wpc \in HasTask => wup \subseteq blobs[wtask]
    /\ wpc \notin HasTask => wup = {}
    /\ wpc = "record" \/ Recorded => wup = wfiles
    /\ wpc = "rollback" => taskStatus[wtask] = "running"
    /\ \A o \in worphans : taskStatus[o[1]] = "failed"

(* Nothing lost, no storage failure and no stop: an object belongs to a     *)
(* completed task or is one that the worker knows it has uploaded.          *)
NoStrayObject ==
    /\ proc = "up"
    /\ \A t \in Tasks : taskStatus[t] # "completed" =>
          blobs[t] \subseteq (IF t = wtask THEN wup ELSE {})
    /\ wpc \in {"claim", "mkdir"} => wup = {}
    /\ wpc \in {"rmdir", "fail"} => wup = {} \/ taskStatus[wtask] = "completed"

(* Nothing lost: a package that is missing was deleted for an upload of the *)
(* same file that is not in the list, and not on its way into it either.    *)
Uploading(a) == \E c \in Clients : cpc[c] = "upload_row" /\ capp[c] = a

MayMiss(a) ==
    \E b \in Apps : SourceKey[b] = SourceKey[a] /\ Withdrawn(b) /\ ~Uploading(b)

PackageKept ==
    /\ \A c \in Clients : cpc[c] = "delete_object" => appStatus[capp[c]] = "deleted"
    /\ \A c \in Clients : cpc[c] \in {"upload_row", "upload_undo"} =>
          /\ appStatus[capp[c]] = "none"
          /\ \A d \in Clients : capp[d] = capp[c] => d = c
          /\ cpc[c] = "upload_undo" => "db" \in Faults
    /\ \A a \in Apps :
          Exists(a) \/ Uploading(a) => SourceKey[a] \in sources \/ MayMiss(a)

(* The database answers: the worker leaves no step of its task running,     *)
(* unless the error is too long to be recorded at all.                      *)
StepsClosed ==
    /\ wpc \in {"mkdir", "start", "complete"} =>
          \A s \in Steps : stepStatus[wtask][s] # "running"
    /\ wpc \in InStep \ {"start"} =>
          \A s \in Steps : s # wstep => stepStatus[wtask][s] # "running"
    /\ wpc \in {"rollback", "rmdir", "fail"} =>
          werr = "long" \/ \A s \in Steps : stepStatus[wtask][s] # "running"
=============================================================================
