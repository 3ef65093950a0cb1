---------------------------- MODULE HardeningStore ----------------------------
(***************************************************************************)
(* The persistent state that the request handlers and the worker share, and *)
(* the repository operations on it: the PostgreSQL tables apps,             *)
(* hardening_tasks and hardening_steps (internal/repository), and the MinIO *)
(* objects (internal/pkg/storage).                                          *)
(*                                                                          *)
(* A repository method is a guard (what its WHERE clauses and early returns *)
(* demand) and a transaction over dbVars.  Its caller combines the two with *)
(* Commit, which adds the ways in which a call to the database fails.       *)
(***************************************************************************)
EXTENDS Naturals

CONSTANTS
    Apps,        \* ids of apps rows; one upload request creates one row
    SourceKeys,  \* MinIO keys of uploaded packages
    SourceKey,   \* the object key of an upload: package / sha256[:12] / file name
    Clients,     \* concurrent HTTP requests that change state
    MaxTasks,    \* bound: hardening_tasks rows ever inserted
    Faults,      \* which kinds of failure the environment produces
    NoApp, NoClient

Tasks == 1 .. MaxTasks

(* What may go wrong outside the program:                                   *)
(*   db     a statement fails and its transaction is rolled back            *)
(*   lost   a database commit or a PutObject takes effect, the caller gets  *)
(*          an error (the connection broke before the answer)               *)
(*   store  a call to the object store fails and has no effect              *)
(*   fs     a local file system call fails                                  *)
(*   long   a storage error text (it holds the URL-escaped object key) is   *)
(*          wider than the varchar(500) columns that keep error texts       *)
(*   crash  the process dies                                                *)
FaultKinds == {"db", "lost", "store", "fs", "long", "crash"}

ASSUME StoreAssumption ==
    /\ MaxTasks \in Nat
    /\ NoApp \notin Apps
    /\ NoClient \notin Clients
    /\ SourceKey \in [Apps -> SourceKeys]
    /\ Faults \subseteq FaultKinds

TaskStatuses == {"none", "queued", "running", "completed", "failed"}
AppStatuses  == {"none", "deleted", "unprotected", "processing",
                 "completed", "failed"}
StepStatuses == {"none", "waiting", "running", "success", "failed"}

(* The six steps of a task by their sort_order.                             *)
PrepareInput     == 1
ParsePackage     == 2
ApplyStrategy    == 3
RunEngine        == 4
CollectArtifacts == 5
UploadArtifacts  == 6
Steps == PrepareInput .. UploadArtifacts

Kinds == {"unsigned", "signed_test"}   \* the artifacts of a task

VARIABLES
    proc,        \* the server process: "up", "stopping" (SIGTERM), "down"
    appStatus,   \* apps.status; "none" before the row exists, "deleted" after
    appLock,     \* who holds SELECT ... FOR UPDATE on the apps row
    taskStatus,  \* hardening_tasks.status; "none": no such row yet
    taskApp,     \* hardening_tasks.app_id
    stepStatus,  \* hardening_steps.status, by task and step
    artifacts,   \* artifact keys recorded in the task row
    blobs,       \* artifact objects in MinIO, by task
    sources      \* package objects in MinIO

dbVars    == <<appStatus, taskStatus, taskApp, stepStatus, artifacts>>
objVars   == <<blobs, sources>>
storeVars == <<dbVars, appLock, objVars>>

StoreTypeOK ==
    /\ appStatus \in [Apps -> AppStatuses]
    /\ appLock \in [Apps -> Clients \cup {NoClient}]
    /\ taskStatus \in [Tasks -> TaskStatuses]
    /\ taskApp \in [Tasks -> Apps \cup {NoApp}]
    /\ stepStatus \in [Tasks -> [Steps -> StepStatuses]]
    /\ artifacts \in [Tasks -> SUBSET Kinds]
    /\ blobs \in [Tasks -> SUBSET Kinds]
    /\ sources \in SUBSET SourceKeys

(* A freshly migrated database and an empty bucket.                         *)
StoreInit ==
    /\ appStatus  = [a \in Apps |-> "none"]
    /\ appLock    = [a \in Apps |-> NoClient]
    /\ taskStatus = [t \in Tasks |-> "none"]
    /\ taskApp    = [t \in Tasks |-> NoApp]
    /\ stepStatus = [t \in Tasks |-> [s \in Steps |-> "none"]]
    /\ artifacts  = [t \in Tasks |-> {}]
    /\ blobs      = [t \in Tasks |-> {}]
    /\ sources    = {}

-----------------------------------------------------------------------------
(* A call to the database whose guard is ok and whose transaction is tx:    *)
(* the caller goes on with done or, when it is given an error, with failed. *)
Commit(ok, tx, done, failed) ==
    \/ ok /\ tx /\ done
    \/ ok /\ "lost" \in Faults /\ tx /\ failed
    \/ (~ok \/ "db" \in Faults) /\ UNCHANGED dbVars /\ failed

Exists(a)  == appStatus[a] \notin {"none", "deleted"}
Unlocked(a) == appLock[a] = NoClient
Active(t)  == taskStatus[t] \in {"queued", "running"}

(* HasActiveTaskForApp, and the same count in CreateTaskWithStepsForApp.    *)
HasActiveTaskForApp(a) == \E t \in Tasks : taskApp[t] = a /\ Active(t)

(* The serial primary key: the smallest id not given out.                   *)
IsNextId(t) ==
    /\ taskStatus[t] = "none"
    /\ \A u \in Tasks : u < t => taskStatus[u] # "none"

(* The writes of CreateTaskWithStepsForApp after its count found no active  *)
(* task: the row, its default steps and the app's status, in one            *)
(* transaction.                                                             *)
CreateTaskWithStepsForApp(a) ==
    \E t \in Tasks :
        /\ IsNextId(t)
        /\ taskStatus' = [taskStatus EXCEPT ![t] = "queued"]
        /\ taskApp'    = [taskApp EXCEPT ![t] = a]
        /\ stepStatus' = [stepStatus EXCEPT ![t] = [s \in Steps |-> "waiting"]]
        /\ appStatus'  = [appStatus EXCEPT ![a] = "processing"]
        /\ UNCHANGED artifacts

CanCreateTask(a) == Exists(a) /\ \E t \in Tasks : IsNextId(t)

(* ORDER BY created_at, id.  Rows become visible in id order here.          *)
NextQueuedTask(t) ==
    /\ taskStatus[t] = "queued"
    /\ \A u \in Tasks : u < t => taskStatus[u] # "queued"

CanMarkTaskRunning(t) == taskStatus[t] = "queued"

MarkTaskRunning(t) ==
    /\ taskStatus' = [taskStatus EXCEPT ![t] = "running"]
    /\ UNCHANGED <<appStatus, taskApp, stepStatus, artifacts>>

(* Not guarded by the task's status.                                        *)
RecordArtifacts(t, ks) ==
    /\ artifacts' = [artifacts EXCEPT ![t] = ks]
    /\ UNCHANGED <<appStatus, taskStatus, taskApp, stepStatus>>

(* Mutant: the UPDATE is not conditioned on the expected status.            *)
CanTransitionFromAny(t) == Exists(taskApp[t])

(* transitionTaskForApp: both UPDATEs must hit a row, else both roll back.  *)
CanTransitionTask(t) == taskStatus[t] = "running" /\ Exists(taskApp[t])

TransitionTaskForApp(t, status, ks) ==
    /\ taskStatus' = [taskStatus EXCEPT ![t] = status]
    /\ artifacts'  = [artifacts EXCEPT ![t] = ks]
    /\ appStatus'  = [appStatus EXCEPT ![taskApp[t]] = status]
    /\ UNCHANGED <<taskApp, stepStatus>>

CompleteTaskForApp(t, ks) == TransitionTaskForApp(t, "completed", ks)

(* Mutant: failedTaskArtifactFields is not applied.                         *)
FailTaskKeepingArtifacts(t) == TransitionTaskForApp(t, "failed", artifacts[t])

FailTaskForApp(t) == TransitionTaskForApp(t, "failed", {})

(* RecoverRunningTasks fails every running task in one transaction, which   *)
(* rolls back as a whole if one of their apps is gone.                      *)
Running == {t \in Tasks : taskStatus[t] = "running"}

CanRecover == \A t \in Running : Exists(taskApp[t])

(* Mutant: recovery forgets the apps of the tasks.                          *)
RecoverWithoutApps ==
    /\ taskStatus' = [t \in Tasks |->
            IF t \in Running THEN "failed" ELSE taskStatus[t]]
    /\ artifacts'  = [t \in Tasks |->
            IF t \in Running THEN {} ELSE artifacts[t]]
    /\ stepStatus' = [t \in Tasks |-> [s \in Steps |->
            IF t \in Running /\ stepStatus[t][s] = "running"
            THEN "failed" ELSE stepStatus[t][s]]]
    /\ UNCHANGED <<taskApp, appStatus>>

(* Mutant: recovery forgets the steps of the tasks.                         *)
RecoverWithoutSteps ==
    /\ taskStatus' = [t \in Tasks |->
            IF t \in Running THEN "failed" ELSE taskStatus[t]]
    /\ artifacts'  = [t \in Tasks |->
            IF t \in Running THEN {} ELSE artifacts[t]]
    /\ appStatus'  = [a \in Apps |->
            IF \E t \in Running : taskApp[t] = a THEN "failed" ELSE appStatus[a]]
    /\ UNCHANGED <<taskApp, stepStatus>>

RecoverRunningTasks ==
    /\ taskStatus' = [t \in Tasks |->
            IF t \in Running THEN "failed" ELSE taskStatus[t]]
    /\ artifacts'  = [t \in Tasks |->
            IF t \in Running THEN {} ELSE artifacts[t]]
    /\ appStatus'  = [a \in Apps |->
            IF \E t \in Running : taskApp[t] = a THEN "failed" ELSE appStatus[a]]
    /\ stepStatus' = [t \in Tasks |-> [s \in Steps |->
            IF t \in Running /\ stepStatus[t][s] = "running"
            THEN "failed" ELSE stepStatus[t][s]]]
    /\ UNCHANGED taskApp

-----------------------------------------------------------------------------
(* The steps of a task.                                                     *)

CanStartStep(t, s) ==
    /\ stepStatus[t][s] = "waiting"
    /\ taskStatus[t] = "running"
    /\ \A r \in Steps : r < s => stepStatus[t][r] = "success"

SetStep(t, s, status) ==
    /\ stepStatus' = [stepStatus EXCEPT ![t][s] = status]
    /\ UNCHANGED <<appStatus, taskStatus, taskApp, artifacts>>

StartStep(t, s) == SetStep(t, s, "running")

CanFinishStep(t, s) == stepStatus[t][s] = "running"

FinishStepSuccess(t, s) == SetStep(t, s, "success")

FinishStepFailed(t, s) == SetStep(t, s, "failed")

-----------------------------------------------------------------------------
(* The apps table and the object store.                                     *)

CreateApp(a) ==
    /\ appStatus' = [appStatus EXCEPT ![a] = "unprotected"]
    /\ UNCHANGED <<taskStatus, taskApp, stepStatus, artifacts>>

(* DELETE succeeds with zero rows as well.                                  *)
DeleteApp(a) ==
    /\ appStatus' = [appStatus EXCEPT ![a] = "deleted"]
    /\ UNCHANGED <<taskStatus, taskApp, stepStatus, artifacts>>

PutArtifact(t, k) ==
    blobs' = [blobs EXCEPT ![t] = @ \cup {k}] /\ UNCHANGED sources

DeleteArtifact(t, k) ==
    blobs' = [blobs EXCEPT ![t] = @ \ {k}] /\ UNCHANGED sources

PutSource(a) == sources' = sources \cup {SourceKey[a]} /\ UNCHANGED blobs

DeleteSource(a) == sources' = sources \ {SourceKey[a]} /\ UNCHANGED blobs
=============================================================================
