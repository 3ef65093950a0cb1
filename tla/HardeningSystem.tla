---------------------------- MODULE HardeningSystem ---------------------------
(***************************************************************************)
(* The server: request handlers and worker in one process over one          *)
(* database and one object store, with its start, graceful shutdown and     *)
(* crash (cmd/server/main.go).                                              *)
(***************************************************************************)
EXTENDS HardeningApi, HardeningWorker

CONSTANT MaxStops   \* bound: how often the process goes down

ASSUME SystemAssumption == MaxStops \in Nat

VARIABLE stops

vars == <<storeVars, apiVars, workerVars, proc, stops>>

TypeOK ==
    /\ StoreTypeOK
    /\ ApiTypeOK
    /\ WorkerTypeOK
    /\ proc \in {"up", "stopping", "down"}
    /\ stops \in 0 .. MaxStops

Init ==
    /\ StoreInit
    /\ ApiInit
    /\ WorkerInit
    /\ proc = "up"
    /\ stops = 0

(* SIGTERM: no new requests, and the worker's context is cancelled.         *)
Terminate ==
    /\ proc = "up"
    /\ stops < MaxStops
    /\ proc' = "stopping"
    /\ stops' = stops + 1
    /\ UNCHANGED <<storeVars, apiVars, workerVars>>

(* The process is gone: memory is lost, open transactions roll back.        *)
Vanish ==
    /\ proc' = "down"
    /\ wpc' = "off"
    /\ Forget
    /\ cpc' = [c \in Clients |-> "idle"]
    /\ capp' = [c \in Clients |-> NoApp]
    /\ appLock' = [a \in Apps |-> NoClient]
    /\ UNCHANGED <<dbVars, objVars>>

(* main returns: requests drained and worker stopped, or shutdownTimeout    *)
(* has passed with either of them still busy.                               *)
Exit ==
    /\ proc = "stopping"
    /\ Vanish
    /\ UNCHANGED stops

Crash ==
    /\ "crash" \in Faults
    /\ proc = "up"
    /\ stops < MaxStops
    /\ stops' = stops + 1
    /\ Vanish

(* Mutant: the loop starts without the recovery pass.                       *)
BootWithoutRecovery ==
    /\ proc = "down"
    /\ proc' = "up"
    /\ wpc' = "poll"
    /\ UNCHANGED <<wtask, wapp, wstep, werr, wfiles, wup, worphans>>
    /\ UNCHANGED <<storeVars, apiVars, stops>>

Boot ==
    /\ proc = "down"
    /\ proc' = "up"
    /\ wpc' = "recover"
    /\ UNCHANGED <<wtask, wapp, wstep, werr, wfiles, wup, worphans>>
    /\ UNCHANGED <<storeVars, apiVars, stops>>

ServerStep == Terminate \/ Exit \/ Crash \/ Boot

Next ==
    \/ \E c \in Clients :
          (Arrive(c) \/ Continue(c)) /\ UNCHANGED <<workerVars, proc, stops>>
    \/ WorkerStep /\ UNCHANGED <<apiVars, proc, stops>>
    \/ ServerStep

Spec == Init /\ [][Next]_vars

(* Goroutines are scheduled, a call that waits for a row lock gets it in    *)
(* its turn (strong fairness), the supervisor restarts the server, and a    *)
(* shutdown is bounded by its timeout.  Nothing makes requests arrive or    *)
(* the process stop.                                                        *)
Fairness ==
    /\ SF_vars(WorkerStep /\ UNCHANGED <<apiVars, proc, stops>>)
    /\ \A c \in Clients :
          SF_vars(Continue(c) /\ UNCHANGED <<workerVars, proc, stops>>)
    /\ WF_vars(Exit)
    /\ WF_vars(Boot)

FairSpec == Spec /\ Fairness

-----------------------------------------------------------------------------
(* Safety.                                                                  *)

TasksOf(a) == {t \in Tasks : taskApp[t] = a}

(* At most one queued or running task per app, whatever the interleaving    *)
(* of concurrent Create requests, the worker, restarts and failed calls:    *)
(* the count in CreateTaskWithStepsForApp is made under the app's row lock. *)
OneActivePerApp ==
    \A t, u \in Tasks :
        Active(t) /\ Active(u) /\ taskApp[t] = taskApp[u] => t = u

(* What an app's status column says about its most recent task.             *)
ShownAs(status) == IF status \in {"queued", "running"} THEN "processing" ELSE status

(* The status column of an app always tells the state of its most recent    *)
(* task, and "unprotected" before the first: Create, CompleteTaskForApp,    *)
(* FailTaskForApp and RecoverRunningTasks keep the two tables in step       *)
(* although no two of them run under a common lock.                         *)
AppMirrorsLatestTask ==
    \A a \in Apps : Exists(a) =>
        \/ TasksOf(a) = {} /\ appStatus[a] = "unprotected"
        \/ \E t \in TasksOf(a) :
              /\ \A u \in TasksOf(a) : u <= t
              /\ appStatus[a] = ShownAs(taskStatus[t])

(* Steps run in their order (a step that is not waiting has only successful *)
(* ones before it), a task that is not started has started no step, and a   *)
(* completed task has skipped none: lost acknowledgements, failed writes    *)
(* and recovery included.                                                   *)
StepsFollowTask ==
    \A t \in Tasks :
        /\ \A s \in Steps :
              stepStatus[t][s] \notin {"none", "waiting"} =>
                  \A r \in Steps : r < s => stepStatus[t][r] = "success"
        /\ taskStatus[t] = "queued" =>
              \A s \in Steps : stepStatus[t][s] = "waiting"
        /\ taskStatus[t] = "completed" =>
              \A s \in Steps : stepStatus[t][s] = "success"

(* A failed task's row offers no artifact for download, whichever of the    *)
(* failure paths it took and at whatever point (failedTaskArtifactFields).  *)
FailedClaimsNothing ==
    \A t \in Tasks : taskStatus[t] = "failed" => artifacts[t] = {}

(* A completed task has an unsigned artifact and every artifact its row     *)
(* names is in MinIO: no later cleanup, rollback or recovery touches it.    *)
CompletedDownloadable ==
    \A t \in Tasks : taskStatus[t] = "completed" =>
        "unsigned" \in artifacts[t] /\ artifacts[t] \subseteq blobs[t]

(* The row of a failed task and the object store agree that nothing is left *)
(* (the comment on failedTaskArtifactFields).                               *)
FailedLeavesNoObject ==
    \A t \in Tasks : taskStatus[t] = "failed" => blobs[t] = {}

(* The same in the end, where the process may stop: the recovery pass fails *)
(* the task, and the cleanup after it deletes what the task had uploaded    *)
(* ("either way, the DB row and object storage must agree that nothing is   *)
(* left").                                                                  *)
FailedCleansUp ==
    \A t \in Tasks : taskStatus[t] = "failed" ~> blobs[t] = {}

(* No error text is too long for the columns that should hold it.           *)
ErrorsFit == werr # "long"

(* A running task is in the hands of the worker of this process, or will be *)
(* looked for by the recovery pass, unless an app was deleted under its     *)
(* running task and the pass fails for all because of it.                   *)
NoneForgotten ==
    \A t \in Tasks : taskStatus[t] = "running" =>
        wtask = t \/ wpc = "recover" \/ proc # "up" \/ ~CanRecover

(* Only two things make the server forget tasks in "running": the deletion  *)
(* of an app under its running task, and an error text with which no        *)
(* statement can record that the task failed.                               *)
RunningIsOwned == []ErrorsFit => []NoneForgotten

(* "An app with an active hardening task cannot be deleted" (internal/db).  *)
ActiveTaskHasApp ==
    \A t \in Tasks : Active(t) => Exists(taskApp[t])

(* When a task is over, none of its steps is shown as running.              *)
NoStepOutlivesTask ==
    \A t \in Tasks : taskStatus[t] \in {"completed", "failed"} =>
        \A s \in Steps : stepStatus[t][s] # "running"

(* An upload whose row was deleted, or could not be saved.                  *)
Withdrawn(a) ==
    \/ appStatus[a] = "deleted"
    \/ appStatus[a] = "none" /\ "db" \in Faults

(* The package of every app in the list can be fetched from MinIO, unless   *)
(* another upload of the same file, which has the same object key, was      *)
(* deleted or taken back: no order of the calls of overlapping uploads and  *)
(* deletions, and no failed call, loses a package in another way.           *)
AppHasSource ==
    \A a \in Apps : Exists(a) =>
        \/ SourceKey[a] \in sources
        \/ \E b \in Apps : SourceKey[b] = SourceKey[a] /\ Withdrawn(b)

-----------------------------------------------------------------------------
(* What a step may never do.                                                *)

(* A task moves along queued, running, completed or failed and stays where  *)
(* it ends; an ended task's steps and artifacts, and every task's app, are  *)
(* never written again, although RecordArtifacts and the step updates do    *)
(* not look at the task's status.                                           *)
TaskMoves ==
    [][\A t \in Tasks :
         /\ taskStatus'[t] # taskStatus[t] =>
               <<taskStatus[t], taskStatus'[t]>> \in
                   {<<"none", "queued">>, <<"queued", "running">>,
                    <<"running", "completed">>, <<"running", "failed">>}
         /\ taskStatus[t] \in {"completed", "failed"} =>
               /\ artifacts'[t] = artifacts[t]
               /\ stepStatus'[t] = stepStatus[t]
         /\ taskStatus[t] # "none" => taskApp'[t] = taskApp[t]]_vars

-----------------------------------------------------------------------------
(* The server implements TaskLifecycle: under every interleaving, failed    *)
(* call and restart, what users see of apps and tasks changes only by its   *)
(* indivisible events (for instance, completion never changes what          *)
(* RecordArtifacts published, and tasks start in the order of submission).  *)
Lifecycle == INSTANCE TaskLifecycle WITH
    app <- appStatus, status <- taskStatus, owner <- taskApp, offer <- artifacts

ImplementsLifecycle == Lifecycle!Spec

-----------------------------------------------------------------------------
(* Liveness.                                                                *)

(* Every queued task ends, as long as no app is deleted under its task and  *)
(* every error text fits its column.                                        *)
QueuedSettles ==
    [](ActiveTaskHasApp /\ ErrorsFit) =>
        \A t \in Tasks :
            taskStatus[t] = "queued" ~> taskStatus[t] \in {"completed", "failed"}

(* Every queued task is started: a task that got stuck, or whose app was    *)
(* deleted under it, does not block the queue behind it.                    *)
QueueDrains ==
    \A t \in Tasks : taskStatus[t] = "queued" ~> taskStatus[t] # "queued"

(* Every request is answered or dies with the process: the row lock of      *)
(* Create, the waits of Delete and of the worker form no cycle.             *)
RequestsEnd ==
    \A c \in Clients : cpc[c] # "idle" ~> cpc[c] = "idle"
=============================================================================
