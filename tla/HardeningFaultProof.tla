-------------------------- MODULE HardeningFaultProof -------------------------
(***************************************************************************)
(* The safety properties of the server that survive some kinds of fault     *)
(* only.  Each theorem names the kinds it excludes; the README shows for    *)
(* each of them what goes wrong without that hypothesis.                    *)
(***************************************************************************)
EXTENDS HardeningQueueProof

(* An ended task stays ended.                                               *)
LEMMA EndedStays ==
    ASSUME TypeOK, RequestDbStep \/ WorkerDbStep, NEW t \in Tasks,
           taskStatus[t] \in {"completed", "failed"}
    PROVE  taskStatus'[t] = taskStatus[t] /\ artifacts'[t] = artifacts[t]
<1> USE DEF TypeOK, StoreTypeOK
<1>1. CASE UNCHANGED dbVars \/ \E a \in Apps : CreateApp(a) \/ DeleteApp(a)
  BY <1>1 DEF dbVars, CreateApp, DeleteApp
<1>2. ASSUME NEW a \in Apps, CreateTaskWithStepsForApp(a)
      PROVE  taskStatus'[t] = taskStatus[t] /\ artifacts'[t] = artifacts[t]
  BY <1>2 DEF CreateTaskWithStepsForApp, IsNextId
<1>3. ASSUME WorkerDbStep
      PROVE  taskStatus'[t] = taskStatus[t] /\ artifacts'[t] = artifacts[t]
  BY <1>3 DEF WorkerDbStep, dbVars, MarkTaskRunning, RecordArtifacts, StartStep,
     FinishStepSuccess, FinishStepFailed, SetStep, CompleteTaskForApp, FailTaskForApp,
     TransitionTaskForApp, RecoverRunningTasks, Running
<1> QED
  BY <1>1, <1>2, <1>3 DEF RequestDbStep

(* Requests do not touch artifacts, steps of tasks or the worker.           *)
LEMMA RequestsLeaveBlobs ==
    ASSUME NEW c \in Clients, Arrive(c) \/ Continue(c)
    PROVE  UNCHANGED blobs
BY DEF Arrive, Continue, CreateFind, CreateLock, CreateCount, CreateInsert,
       DeleteFind, DeleteCheck, DeleteRow, DeleteObject, UploadPut, UploadRow,
       UploadUndo, Commit, storeVars, objVars, PutSource, DeleteSource

-----------------------------------------------------------------------------
(* What a completed task offers.                                            *)
LEMMA UploadsKnownStep ==
    ASSUME "lost" \notin Faults, TypeOK, CallInv, OffersFiles, IdleHasNoTask,
           UploadsKnown, [Next]_vars
    PROVE  UploadsKnown'
<1> USE DEF HasTask, InStep, Recorded
<1>t. /\ WorkerTypeOK
      /\ blobs \in [Tasks -> SUBSET Kinds]
      /\ taskStatus \in [Tasks -> TaskStatuses]
  BY DEF TypeOK, StoreTypeOK
<1>h. wpc \in HasTask => wtask \in Tasks
  BY DEF CallInv, WorkerHolds
<1>f. \A o \in worphans : taskStatus'[o[1]] = "failed"
  BY <1>t, EndedStays, OnlyDbSteps DEF UploadsKnown, WorkerTypeOK
<1>k. ASSUME UNCHANGED <<workerVars, blobs>>,
             wpc = "rollback" => taskStatus'[wtask] = "running"
      PROVE  UploadsKnown'
  BY <1>k, <1>f DEF UploadsKnown, workerVars
<1>m. Vanish \/ NextTick => UploadsKnown'
  BY DEF UploadsKnown, Vanish, NextTick, Forget
<1>u. ASSUME NEW e, Unwind(e), UNCHANGED blobs, wpc \in HasTask,
             taskStatus'[wtask] = "running"
      PROVE  UploadsKnown'
  BY <1>u, <1>f DEF UploadsKnown, Unwind
<1>s. ASSUME NEW e, StepFails(e), wpc \in HasTask, UNCHANGED wtask,
             \A t \in Tasks : blobs[t] \subseteq blobs'[t]
      PROVE  UploadsKnown'
  BY <1>s, <1>f, <1>h DEF UploadsKnown, StepFails
<1>g. ASSUME NEW pc \in InStep \cup {"claim", "mkdir"}, Go(pc), UNCHANGED blobs,
             wpc \in HasTask,
             pc \in {"record", "finish"} => wup = wfiles \/ (pc = "finish" /\ wstep # UploadArtifacts)
      PROVE  UploadsKnown'
  BY <1>g, <1>f DEF UploadsKnown, Go
<1>1. ASSUME NEW c \in Clients, Arrive(c) \/ Continue(c), UNCHANGED workerVars
      PROVE  UploadsKnown'
  BY <1>1, <1>k, <1>h, RequestsLeaveTasks, RequestsLeaveBlobs DEF UploadsKnown
<1>2. CASE Recover
  <2>1. ASSUME RecoverRunningTasks,
               worphans' = {o \in Tasks \X Kinds :
                              o[1] \in Running /\ o[2] \in artifacts[o[1]]},
               wpc' = "cleanup", UNCHANGED <<wtask, wapp, wstep, werr, wfiles, wup>>
        PROVE  UploadsKnown'
    <3>1. \A o \in worphans' : taskStatus'[o[1]] = "failed"
      BY <2>1 DEF RecoverRunningTasks
    <3> QED BY <2>1, <3>1, <1>2 DEF UploadsKnown, Recover
  <2>2. Go("poll") => UploadsKnown'
    BY <1>2, <1>f DEF UploadsKnown, Recover, Go
  <2> QED BY <1>2, <2>1, <2>2 DEF Recover, Commit
<1>3. CASE Cleanup
  BY <1>3, <1>f DEF UploadsKnown, Cleanup, Go
<1>4. CASE Poll
  BY <1>4, <1>f, <1>k DEF UploadsKnown, Poll, Go, storeVars, objVars, workerVars
<1>5. CASE Claim
  BY <1>5, <1>m, <1>g DEF Claim, Commit, objVars
<1>6. CASE Mkdir
  BY <1>6, <1>f DEF UploadsKnown, Mkdir, storeVars, objVars
<1>7. CASE BeginStep
  <2>1. UNCHANGED dbVars => taskStatus'[wtask] = "running"
    BY <1>7 DEF BeginStep, CallInv, WorkerHolds, dbVars
  <2> QED BY <1>7, <2>1, <1>g, <1>u DEF BeginStep, Commit, objVars
<1>8. CASE Body
  <2>1. ASSUME wpc' = "finish", UNCHANGED <<wtask, wstep, wup, worphans>>
        PROVE  UploadsKnown'
    BY <1>8, <2>1, <1>f DEF UploadsKnown, Body, OffersFiles, storeVars, objVars
  <2>2. \A e : StepFails(e) => UploadsKnown'
    BY <1>8, <1>s DEF Body, storeVars, objVars, StepFails
  <2> QED
    BY <1>8, <2>1, <2>2 DEF Body, PrepareBody, LogBody, EngineBody, CollectBody, Go
<1>9. CASE Put
  <2>1. NextUpload \in Kinds
    BY DEF NextUpload, Kinds
  <2>2. ASSUME PutArtifact(wtask, NextUpload), wup' = wup \cup {NextUpload},
               UNCHANGED <<wpc, wtask, wapp, wstep, werr, wfiles, worphans>>
        PROVE  UploadsKnown'
    BY <1>9, <2>2, <1>f, <1>t, <1>h DEF Put, UploadsKnown, PutArtifact
  <2>3. \A e : StepFails(e) /\ UNCHANGED objVars => UploadsKnown'
    BY <1>9, <1>s DEF Put, objVars, StepFails
  <2> QED BY <1>9, <2>2, <2>3, <1>g DEF Put, objVars
<1>10. CASE Record
  <2>1. \A e : StepFails(e) => UploadsKnown'
    BY <1>10, <1>s DEF Record, objVars, StepFails
  <2> QED BY <1>10, <2>1, <1>g DEF Record, Commit, objVars, UploadsKnown
<1>11. CASE StepFail
  <2>1. taskStatus'[wtask] = "running"
    BY <1>11 DEF StepFail, Commit, CallInv, WorkerHolds, FinishStepFailed, SetStep, dbVars
  <2> QED BY <1>11, <2>1, <1>u DEF StepFail, Commit, objVars
<1>12. CASE FinishStep
  <2>1. UNCHANGED dbVars => taskStatus'[wtask] = "running"
    BY <1>12 DEF FinishStep, CallInv, WorkerHolds, dbVars
  <2>2. ASSUME wpc' \in {"start", "complete"},
               wpc' = "complete" => wstep = UploadArtifacts,
               wtask' = wtask, wup' = wup, wfiles' = wfiles, worphans' = worphans
        PROVE  UploadsKnown'
    BY <1>12, <2>2, <1>f DEF FinishStep, UploadsKnown, objVars
  <2> QED BY <1>12, <2>1, <2>2, <1>u DEF FinishStep, Commit, objVars, Go
<1>13. CASE Complete
  <2>1. UNCHANGED dbVars => taskStatus'[wtask] = "running"
    BY <1>13 DEF Complete, CallInv, WorkerHolds, dbVars
  <2>2. Go("rmdir") => UploadsKnown'
    BY <1>13, <1>f DEF Complete, UploadsKnown, Go, objVars
  <2> QED BY <1>13, <2>1, <2>2, <1>u DEF Complete, Commit, objVars
<1>14. CASE Rollback
  <2>1. taskStatus'[wtask] = "running"
    BY <1>14 DEF Rollback, UploadsKnown, dbVars
  <2>2. PICK k : /\ wup' = wup \ {k}
                 /\ DeleteArtifact(wtask, k) \/ UNCHANGED objVars
    BY <1>14 DEF Rollback
  <2>3. wup' \subseteq blobs'[wtask]
    BY <1>14, <2>2, <1>t, <1>h DEF Rollback, UploadsKnown, DeleteArtifact, objVars
  <2>4. wpc' \in {"rollback", "rmdir"} /\ wtask' = wtask /\ worphans' = worphans
    BY <1>14 DEF Rollback
  <2> QED BY <2>1, <2>3, <2>4, <1>f DEF UploadsKnown
<1>15. CASE RemoveDir
  BY <1>15, <1>m, <1>f DEF RemoveDir, UploadsKnown, Go, storeVars, objVars
<1>16. CASE Fail
  BY <1>16, <1>m DEF Fail, Commit
<1>17. CASE Terminate \/ Boot \/ UNCHANGED vars
  BY <1>17, <1>f DEF Terminate, Boot, IdleHasNoTask, UploadsKnown, vars, workerVars, storeVars, dbVars, objVars
<1> QED
  BY <1>1, <1>2, <1>3, <1>4, <1>5, <1>6, <1>7, <1>8, <1>9, <1>10, <1>11, <1>12, <1>13,
     <1>14, <1>15, <1>16, <1>17, <1>m DEF Next, WorkerStep, ServerStep, Exit, Crash

LEMMA CompletedDownloadableStep ==
    ASSUME TypeOK, CallInv, OffersFiles, UploadsKnown, CompletedDownloadable,
           [Next]_vars
    PROVE  CompletedDownloadable'
<1> USE DEF HasTask, InStep
<1>t. /\ blobs \in [Tasks -> SUBSET Kinds]
      /\ artifacts \in [Tasks -> SUBSET Kinds]
      /\ taskStatus \in [Tasks -> TaskStatuses]
  BY DEF TypeOK, StoreTypeOK
<1>d. RequestDbStep \/ WorkerDbStep
  BY OnlyDbSteps
(* A task that has been completed before keeps its objects, ...             *)
<1>1. ASSUME NEW t \in Tasks, taskStatus[t] = "completed"
      PROVE  blobs[t] \subseteq blobs'[t]
  <2>1. CASE UNCHANGED blobs
    BY <2>1
  <2>2. CASE Cleanup
    BY <2>2, <1>1, <1>t DEF Cleanup, UploadsKnown, DeleteArtifact, objVars
  <2>3. CASE Put
    <3>1. NextUpload \in Kinds
      BY DEF NextUpload, Kinds
    <3> QED BY <2>3, <3>1, <1>t DEF Put, PutArtifact, objVars
  <2>4. CASE Rollback
    BY <2>4, <1>1, <1>t DEF Rollback, UploadsKnown, DeleteArtifact, objVars
  <2> QED
    BY <2>1, <2>2, <2>3, <2>4, RequestsLeaveBlobs
       DEF Next, WorkerStep, ServerStep, Recover, Poll, Claim, Mkdir, BeginStep, Body,
           Record, StepFail, FinishStep, Complete, RemoveDir, Fail, Terminate, Exit,
           Crash, Boot, Vanish, vars, storeVars, objVars
(* ... and one that is completed now offers what the worker has uploaded.   *)
<1>2. ASSUME NEW t \in Tasks, taskStatus[t] # "completed", taskStatus'[t] = "completed"
      PROVE  "unsigned" \in artifacts'[t] /\ artifacts'[t] \subseteq blobs'[t]
  <2>1. ASSUME NEW c \in Clients, Arrive(c) \/ Continue(c)
        PROVE  FALSE
    <3>1. taskStatus[t] = "none"
      BY <2>1, <1>2, RequestsLeaveTasks
    <3>2. RequestDbStep
      BY <2>1, RequestWrites DEF CallInv
    <3> QED
      BY <3>1, <3>2, <1>2, <1>t DEF RequestDbStep, dbVars, CreateApp, DeleteApp,
                                    CreateTaskWithStepsForApp
  <2>2. CASE Complete
    <3>1. CompleteTaskForApp(wtask, wfiles)
      BY <2>2, <1>2 DEF Complete, Commit, dbVars
    <3>2. wtask = t /\ wtask \in Tasks
      BY <3>1, <2>2, <1>2, <1>t
         DEF Complete, CallInv, WorkerHolds, CompleteTaskForApp, TransitionTaskForApp
    <3>3. artifacts'[t] = wfiles
      BY <3>1, <3>2, <1>t DEF CompleteTaskForApp, TransitionTaskForApp
    <3> QED
      BY <2>2, <3>2, <3>3 DEF Complete, OffersFiles, Collected, UploadsKnown, Recorded,
                              objVars
  <2>3. \A s, st : SetStep(wtask, s, st) => UNCHANGED taskStatus
    BY DEF SetStep
  <2> QED
    BY <1>2, <2>1, <2>2, <2>3, <1>t
       DEF Next, WorkerStep, ServerStep, Recover, Cleanup, Poll, Claim, Mkdir,
           BeginStep, Body, Put, Record, StepFail, FinishStep, Rollback, RemoveDir,
           Fail, Terminate, Exit, Crash, Boot, Vanish, vars, storeVars, dbVars, Commit,
           MarkTaskRunning, RecordArtifacts, StartStep, FinishStepSuccess,
           FinishStepFailed, FailTaskForApp, TransitionTaskForApp, RecoverRunningTasks
<1> QED
  BY <1>1, <1>2, <1>d, EndedStays DEF CompletedDownloadable

(* While no call takes effect without its answer, whatever else fails: what *)
(* a completed task offers for download is in MinIO.                        *)
THEOREM CompletedDownloadableAlways ==
    ASSUME "lost" \notin Faults
    PROVE  Spec => []CompletedDownloadable
<1> DEFINE Inv == UploadsKnown /\ CompletedDownloadable
<1>1. Init => Inv
  BY DEF Init, StoreInit, WorkerInit, UploadsKnown, HasTask, InStep, Recorded,
         CompletedDownloadable
<1>2. StepInv /\ PromiseInv /\ Inv /\ [Next]_vars => Inv'
  BY UploadsKnownStep, CompletedDownloadableStep DEF StepInv, PromiseInv
<1> QED
  BY <1>1, <1>2, StepInvariance, PromiseInvariance, PTL DEF Spec

-----------------------------------------------------------------------------
(* What a failed task leaves in the object store.                           *)
LEMMA NoStrayObjectStep ==
    ASSUME "lost" \notin Faults, "store" \notin Faults, MaxStops = 0,
           TypeOK, CallInv, ErrorsCarried, OffersFiles, NoStrayObject, UploadsKnown,
           [Next]_vars
    PROVE  NoStrayObject'
<1> USE DEF HasTask, InStep
<1>t. /\ WorkerTypeOK
      /\ blobs \in [Tasks -> SUBSET Kinds]
      /\ taskStatus \in [Tasks -> TaskStatuses]
  BY DEF TypeOK, StoreTypeOK
<1>0. 0 \notin Tasks
  BY StoreAssumption DEF Tasks
<1>h. wpc \in HasTask => wtask \in Tasks
  BY DEF CallInv, WorkerHolds
<1>p. proc' = "up" /\ (ServerStep => FALSE)
  BY DEF NoStrayObject, TypeOK, Next, ServerStep, Terminate, Exit, Crash, Boot, vars
<1>e. \A t \in Tasks : taskStatus[t] = "completed" => taskStatus'[t] = "completed"
  BY EndedStays, OnlyDbSteps
<1> DEFINE Kept == \A t \in Tasks : taskStatus'[t] # "completed" =>
                      blobs'[t] \subseteq (IF t = wtask' THEN wup' ELSE {})
<1>k. UNCHANGED <<blobs, wtask, wup>> => Kept
  BY <1>e DEF NoStrayObject
<1>f. UNCHANGED <<blobs, wtask, wup>> /\ wpc' \notin {"claim", "mkdir", "rmdir", "fail"}
         => NoStrayObject'
  BY <1>k, <1>p DEF NoStrayObject
<1>n. ASSUME NextTick, UNCHANGED blobs,
             wup = {} \/ taskStatus[wtask] = "completed"
      PROVE  NoStrayObject'
  BY <1>n, <1>p, <1>e, <1>0 DEF NextTick, Forget, NoStrayObject
<1>u. ASSUME NEW e, Unwind(e), UNCHANGED blobs
      PROVE  NoStrayObject'
  BY <1>u, <1>k, <1>p DEF Unwind, NoStrayObject
<1>s. \A e : StepFails(e) /\ UNCHANGED blobs => NoStrayObject'
  BY <1>f DEF StepFails
<1>1. ASSUME NEW c \in Clients, Arrive(c) \/ Continue(c), UNCHANGED workerVars
      PROVE  NoStrayObject'
  BY <1>1, <1>k, <1>p, <1>e, <1>h, RequestsLeaveBlobs DEF NoStrayObject, workerVars
<1>2. CASE Recover
  BY <1>2, <1>f DEF Recover, Commit, Go, objVars
<1>3. CASE Cleanup
  <2>1. \A t \in Tasks : blobs'[t] \subseteq blobs[t]
    BY <1>3, <1>t DEF Cleanup, DeleteArtifact, objVars
  <2>2. UNCHANGED <<wtask, wup, taskStatus>> /\ wpc' \in {"cleanup", "poll"}
    BY <1>3 DEF Cleanup, Go, dbVars
  <2> QED BY <2>1, <2>2, <1>p DEF NoStrayObject
<1>4. CASE Poll
  <2>1. UNCHANGED <<blobs, wup, taskStatus>> /\ wup = {} /\ wpc' # "mkdir"
    BY <1>4 DEF Poll, Go, storeVars, objVars, dbVars, UploadsKnown, workerVars
  <2>2. wpc' \notin {"rmdir", "fail"}
    BY <1>4 DEF Poll, Go, workerVars
  <2> QED BY <2>1, <2>2, <1>p DEF NoStrayObject
<1>5. CASE Claim
  <2>1. wup = {}
    BY <1>5 DEF Claim, NoStrayObject
  <2> QED BY <1>5, <2>1, <1>n, <1>k, <1>p DEF Claim, Commit, Go, objVars, NoStrayObject
<1>6. CASE Mkdir
  BY <1>6, <1>k, <1>p DEF Mkdir, storeVars, objVars, NoStrayObject
<1>7. CASE BeginStep
  BY <1>7, <1>u, <1>f DEF BeginStep, Commit, Go, objVars
<1>8. CASE Body
  BY <1>8, <1>s, <1>f
     DEF Body, PrepareBody, LogBody, EngineBody, CollectBody, Go, storeVars, objVars
<1>9. CASE Put
  <2>1. NextUpload \in Kinds
    BY DEF NextUpload, Kinds
  <2>2. ASSUME PutArtifact(wtask, NextUpload), wup' = wup \cup {NextUpload},
               UNCHANGED <<wpc, wtask, taskStatus>>
        PROVE  NoStrayObject'
    <3>1. \A t \in Tasks : blobs'[t] = IF t = wtask THEN blobs[t] \cup {NextUpload} ELSE blobs[t]
      BY <2>2, <1>t DEF PutArtifact
    <3> QED BY <3>1, <2>2, <1>9, <1>p DEF Put, NoStrayObject
  <2> QED BY <1>9, <2>2, <1>s, <1>f DEF Put, Go, objVars, dbVars
<1>10. CASE Record
  BY <1>10, <1>s, <1>f DEF Record, Commit, Go, objVars
<1>11. CASE StepFail
  BY <1>11, <1>u DEF StepFail, Commit, objVars
<1>12. CASE FinishStep
  BY <1>12, <1>u, <1>f DEF FinishStep, Commit, Go, objVars
<1>13. CASE Complete
  <2>1. ASSUME CompleteTaskForApp(wtask, wfiles), Go("rmdir")
        PROVE  NoStrayObject'
    <3>1. taskStatus'[wtask] = "completed"
      BY <2>1, <1>13, <1>h, <1>t DEF Complete, CompleteTaskForApp, TransitionTaskForApp
    <3> QED BY <2>1, <3>1, <1>13, <1>k, <1>p DEF Complete, Go, NoStrayObject, objVars
  <2> QED BY <1>13, <2>1, <1>u DEF Complete, Commit, objVars
<1>14. CASE Rollback
  <2>1. PICK k : wup' = wup \ {k} /\ DeleteArtifact(wtask, k)
                 /\ wpc' = IF wup = {k} THEN "rmdir" ELSE "rollback"
    BY <1>14 DEF Rollback
  <2>2. \A t \in Tasks : blobs'[t] = IF t = wtask THEN blobs[t] \ {k} ELSE blobs[t]
    BY <2>1, <1>t DEF DeleteArtifact
  <2>3. UNCHANGED <<wtask, taskStatus>>
    BY <1>14 DEF Rollback, dbVars
  <2> QED BY <2>1, <2>2, <2>3, <1>p DEF NoStrayObject
<1>15. CASE RemoveDir
  <2>1. werr = "none" => taskStatus[wtask] = "completed"
    BY <1>15 DEF RemoveDir, ErrorsCarried
  <2>2. wpc' = "fail" /\ UNCHANGED <<wtask, wup, taskStatus, blobs>> => NoStrayObject'
    BY <1>15, <1>k, <1>p DEF RemoveDir, NoStrayObject
  <2> QED BY <1>15, <2>1, <2>2, <1>n DEF RemoveDir, Go, storeVars, objVars, dbVars
<1>16. CASE Fail
  <2>1. wup = {} \/ taskStatus[wtask] = "completed"
    BY <1>16 DEF Fail, NoStrayObject
  <2> QED BY <1>16, <2>1, <1>n DEF Fail, Commit, objVars
<1>17. CASE UNCHANGED vars
  BY <1>17, <1>k, <1>p DEF vars, workerVars, storeVars, dbVars, objVars, NoStrayObject
<1> QED
  BY <1>1, <1>2, <1>3, <1>4, <1>5, <1>6, <1>7, <1>8, <1>9, <1>10, <1>11, <1>12, <1>13,
     <1>14, <1>15, <1>16, <1>17, <1>p DEF Next, WorkerStep

(* While nothing is lost, the object store works and the process stays up:  *)
(* the object store keeps nothing of a task that has failed, whether or not *)
(* the database and the file system answer.                                 *)
THEOREM FailedLeavesNoObjectAlways ==
    ASSUME Faults \cap {"lost", "store"} = {}, MaxStops = 0
    PROVE  Spec => []FailedLeavesNoObject
<1> DEFINE Inv == UploadsKnown /\ NoStrayObject
<1>1. Init => Inv
  BY DEF Init, StoreInit, WorkerInit, UploadsKnown, HasTask, InStep, Recorded,
         NoStrayObject
<1>2. StepInv /\ PromiseInv /\ Inv /\ [Next]_vars => Inv'
  BY UploadsKnownStep, NoStrayObjectStep DEF StepInv, PromiseInv
<1>3. StepInv /\ Inv => FailedLeavesNoObject
  <2> SUFFICES ASSUME StepInv, Inv, NEW t \in Tasks, taskStatus[t] = "failed"
               PROVE  blobs[t] = {}
    BY DEF FailedLeavesNoObject
  <2>1. blobs[t] \subseteq (IF t = wtask THEN wup ELSE {})
    BY DEF NoStrayObject
  <2>2. t = wtask => wup = {}
    BY DEF StepInv, CallInv, WorkerHolds, UploadsKnown, NoStrayObject, HasTask, InStep
  <2> QED BY <2>1, <2>2
<1> QED
  BY <1>1, <1>2, <1>3, StepInvariance, PromiseInvariance, PTL DEF Spec

-----------------------------------------------------------------------------
(* The packages of the apps.                                                *)

(* What is there or excused stays so, as long as no package is deleted, no  *)
(* app joins those whose package counts, and no excuse is withdrawn.        *)
LEMMA PackagesStay ==
    ASSUME PackageKept, sources \subseteq sources',
           \A a \in Apps : Exists(a)' \/ Uploading(a)' => Exists(a) \/ Uploading(a),
           \A b \in Apps : Withdrawn(b) /\ ~Uploading(b) => Withdrawn(b)' /\ ~Uploading(b)'
    PROVE  \A a \in Apps :
              (Exists(a) \/ Uploading(a) => SourceKey[a] \in sources \/ MayMiss(a))'
BY DEF PackageKept, MayMiss

LEMMA PackageKeptStep ==
    ASSUME "lost" \notin Faults, TypeOK, CallInv, PackageKept, [Next]_vars
    PROVE  PackageKept'
<1>t. /\ cpc \in [Clients -> ClientPCs] /\ capp \in [Clients -> Apps \cup {NoApp}]
      /\ appStatus \in [Apps -> AppStatuses]
  BY DEF TypeOK, ApiTypeOK, StoreTypeOK
<1>a. \A c \in Clients : cpc[c] # "idle" => capp[c] \in Apps
  BY DEF CallInv, RequestHasApp
(* Only requests create apps and delete packages.                           *)
<1> DEFINE Still == \A a \in Apps : /\ appStatus[a] \in {"none", "deleted"} => appStatus'[a] = appStatus[a]
                                    /\ Exists(a)' => Exists(a)
           Fewer == \A a \in Apps : Uploading(a)' => Uploading(a)
<1>w. Still => \A b \in Apps : Withdrawn(b) => Withdrawn(b)'
  BY DEF Withdrawn
<1>s. ASSUME Still, Fewer, sources \subseteq sources'
      PROVE  \A a \in Apps :
                (Exists(a) \/ Uploading(a) => SourceKey[a] \in sources \/ MayMiss(a))'
  BY <1>s, <1>w, PackagesStay
<1>d. WorkerDbStep => Still
  BY <1>t DEF WorkerDbStep, dbVars, MarkTaskRunning, RecordArtifacts, StartStep,
     FinishStepSuccess, FinishStepFailed, SetStep, CompleteTaskForApp, FailTaskForApp,
     TransitionTaskForApp, CanRecover, RecoverRunningTasks, Exists
<1>k. ASSUME Still, UNCHANGED <<apiVars, sources>>
      PROVE  PackageKept'
  <2>1. Fewer
    BY <1>k DEF Uploading, apiVars
  <2>2. \A a \in Apps :
           (Exists(a) \/ Uploading(a) => SourceKey[a] \in sources \/ MayMiss(a))'
    BY <1>k, <2>1, <1>s
  <2> QED BY <1>k, <2>2, <1>a DEF PackageKept, apiVars
<1>1. WorkerStep => UNCHANGED sources
  BY DEF WorkerStep, Recover, Cleanup, Poll, Claim, Mkdir, BeginStep, Body, Put,
         Record, StepFail, FinishStep, Complete, Rollback, RemoveDir, Fail, storeVars,
         objVars, PutArtifact, DeleteArtifact
<1>2. ASSUME NEW c \in Clients, Arrive(c) \/ Continue(c)
      PROVE  PackageKept'
  <2>r. Reply(c) => /\ \A d \in Clients \ {c} : cpc'[d] = cpc[d] /\ capp'[d] = capp[d]
                    /\ cpc'[c] = "idle" /\ capp'[c] = NoApp
    BY <1>t DEF Reply
  <2>g. \A pc : Goto(c, pc) => /\ \A d \in Clients : capp'[d] = capp[d]
                               /\ \A d \in Clients \ {c} : cpc'[d] = cpc[d]
                               /\ cpc'[c] = pc
    BY <1>t DEF Goto
  <2>c. \A b \in Apps : \A pc : Call(c, b, pc) =>
           /\ \A d \in Clients \ {c} : cpc'[d] = cpc[d] /\ capp'[d] = capp[d]
           /\ cpc'[c] = pc /\ capp'[c] = b
    BY <1>t DEF Call
  <2>n. NoApp \notin Apps
    BY StoreAssumption
  <2>u. Reply(c) => Fewer
    BY <2>r DEF Uploading
  <2>v. \A pc : Goto(c, pc) /\ pc # "upload_row" => Fewer
    BY <2>g DEF Uploading
  <2>1. ASSUME Reply(c), Still, UNCHANGED sources
        PROVE  PackageKept'
    <3>1. \A a \in Apps :
             (Exists(a) \/ Uploading(a) => SourceKey[a] \in sources \/ MayMiss(a))'
      BY <2>1, <2>u, <1>s
    <3> QED BY <2>1, <3>1, <2>r, <2>n, <1>a DEF PackageKept
  <2>2. ASSUME NEW pc \in {"create_count", "create_insert", "delete_row"},
               Goto(c, pc), Still, UNCHANGED sources
        PROVE  PackageKept'
    <3>1. \A a \in Apps :
             (Exists(a) \/ Uploading(a) => SourceKey[a] \in sources \/ MayMiss(a))'
      BY <2>2, <2>v, <1>s
    <3> QED BY <2>2, <3>1, <2>g, <1>a DEF PackageKept
  <2>4. UNCHANGED dbVars => Still
    BY DEF dbVars, Exists
  <2>3. ASSUME NEW b \in Apps, Exists(b), NEW pc \in {"create_lock", "delete_check"},
               Call(c, b, pc), UNCHANGED storeVars
        PROVE  PackageKept'
    <3>1. Fewer
      BY <2>3, <2>c DEF Uploading
    <3>2. \A a \in Apps :
             (Exists(a) \/ Uploading(a) => SourceKey[a] \in sources \/ MayMiss(a))'
      BY <2>3, <3>1, <2>4, <1>s DEF storeVars, objVars
    <3> QED BY <2>3, <3>2, <2>c, <1>a DEF PackageKept, storeVars, dbVars, Exists
  <2>5. CASE CreateInsert(c)
    <3>1. capp[c] \in Apps
      BY <1>a, <1>2, <2>5 DEF CreateInsert
    <3>2. Exists(capp[c]) /\ CreateTaskWithStepsForApp(capp[c]) => Still
      BY <1>t DEF CreateTaskWithStepsForApp, Exists
    <3> QED BY <2>5, <2>1, <2>4, <3>2 DEF CreateInsert, Commit, CanCreateTask, objVars
  <2>6. CASE DeleteRow(c)
    <3>0. capp[c] \in Apps /\ cpc[c] = "delete_row"
      BY <1>a, <2>6 DEF DeleteRow
    <3>1. ASSUME DeleteApp(capp[c]), Goto(c, "delete_object"), UNCHANGED sources
          PROVE  PackageKept'
      <4>1. \A b \in Apps : appStatus'[b] = IF b = capp[c] THEN "deleted" ELSE appStatus[b]
        BY <3>1, <3>0, <1>t DEF DeleteApp
      <4>2. \A d \in Clients : cpc[d] \in {"upload_row", "upload_undo"} => capp[d] # capp[c]
        BY <3>0 DEF PackageKept
      <4>3. Fewer
        BY <3>1, <2>v
      <4>4. \A b \in Apps : (Exists(b)' => Exists(b)) /\ (Withdrawn(b) => Withdrawn(b)')
        BY <4>1 DEF Exists, Withdrawn
      <4>5. \A a \in Apps :
               (Exists(a) \/ Uploading(a) => SourceKey[a] \in sources \/ MayMiss(a))'
        BY <3>1, <4>3, <4>4, PackagesStay
      <4> QED BY <3>1, <3>0, <4>1, <4>2, <4>5, <2>g, <1>a DEF PackageKept
    <3> QED BY <2>6, <3>1, <2>1, <2>4 DEF DeleteRow, Commit, objVars
  <2>7. CASE DeleteObject(c) \/ UploadUndo(c)
    <3>0. capp[c] \in Apps /\ Withdrawn(capp[c])
      BY <1>a, <2>7 DEF DeleteObject, UploadUndo, PackageKept, Withdrawn
    <3>1. \A d \in Clients : cpc[d] = "upload_row" => capp[d] # capp[c]
      BY <2>7 DEF DeleteObject, UploadUndo, PackageKept
    <3>2. Reply(c) /\ UNCHANGED appStatus
      BY <2>7 DEF DeleteObject, UploadUndo, dbVars
    <3>3. \A b \in Apps : SourceKey[b] # SourceKey[capp[c]] /\ SourceKey[b] \in sources
                            => SourceKey[b] \in sources'
      BY <2>7 DEF DeleteObject, UploadUndo, DeleteSource, objVars
    <3>4. \A b \in Apps : Withdrawn(b) /\ ~Uploading(b) => Withdrawn(b)' /\ ~Uploading(b)'
      BY <3>2, <2>u DEF Withdrawn
    <3>b. PICK b \in Apps : b = capp[c]
      BY <3>0
    <3>5. Withdrawn(b)' /\ ~Uploading(b)'
      BY <3>b, <3>0, <3>1, <3>2, <2>r DEF Withdrawn, Uploading
    <3>6. ASSUME NEW a \in Apps, Exists(a)' \/ Uploading(a)'
          PROVE  SourceKey[a] \in sources' \/ MayMiss(a)'
      <4>1. CASE SourceKey[a] = SourceKey[capp[c]]
        <5>1. SourceKey[b] = SourceKey[a]
          BY <4>1, <3>b
        <5> QED BY <5>1, <3>5 DEF MayMiss
      <4>2. CASE SourceKey[a] # SourceKey[capp[c]]
        <5>1. Exists(a) \/ Uploading(a)
          BY <3>6, <3>2, <2>u DEF Exists
        <5>2. SourceKey[a] \in sources \/ MayMiss(a)
          BY <5>1 DEF PackageKept
        <5> QED BY <5>2, <4>2, <3>3, <3>4 DEF MayMiss
      <4> QED BY <4>1, <4>2
    <3> QED BY <3>0, <3>2, <3>6, <2>r, <2>n, <1>a DEF PackageKept
  <2>8. CASE UploadPut(c)
    <3>1. PICK b \in Apps : /\ appStatus[b] = "none"
                            /\ \A d \in Clients : capp[d] # b
                            /\ sources' = sources \cup {SourceKey[b]}
                            /\ Call(c, b, "upload_row")
                            /\ UNCHANGED dbVars
      BY <2>8 DEF UploadPut, PutSource
    <3>3. ASSUME NEW a \in Apps, Exists(a)' \/ Uploading(a)', SourceKey[a] # SourceKey[b]
          PROVE  SourceKey[a] \in sources' \/ MayMiss(a)'
      <4>1. Exists(a) \/ Uploading(a)
        BY <3>3, <3>1, <2>c DEF Uploading, Exists, dbVars
      <4>2. SourceKey[a] \in sources \/ MayMiss(a)
        BY <4>1 DEF PackageKept
      <4>3. MayMiss(a) => MayMiss(a)'
        <5>1. SUFFICES ASSUME NEW x \in Apps, SourceKey[x] = SourceKey[a],
                              Withdrawn(x), ~Uploading(x)
                       PROVE  MayMiss(a)'
          BY DEF MayMiss
        <5>2. Withdrawn(x)' /\ ~Uploading(x)'
          BY <5>1, <3>3, <3>1, <2>c DEF Uploading, Withdrawn, dbVars
        <5> QED BY <5>1, <5>2 DEF MayMiss
      <4> QED BY <4>2, <4>3, <3>1
    <3> QED BY <3>1, <3>3, <2>c, <1>a DEF PackageKept, dbVars
  <2>9. CASE UploadRow(c)
    <3>0. capp[c] \in Apps /\ cpc[c] = "upload_row"
      BY <1>a, <2>9 DEF UploadRow
    <3>1. ASSUME CreateApp(capp[c]), Reply(c), UNCHANGED sources
          PROVE  PackageKept'
      <4>1. \A b \in Apps : appStatus'[b] = IF b = capp[c] THEN "unprotected" ELSE appStatus[b]
        BY <3>1, <3>0, <1>t DEF CreateApp
      <4>2. \A d \in Clients \ {c} : capp[d] # capp[c]
        BY <3>0, <1>a, <1>t, <2>n DEF PackageKept
      <4>3. Uploading(capp[c])
        BY <3>0 DEF Uploading
      <4>4. \A b \in Apps : b # capp[c] => appStatus'[b] = appStatus[b]
        BY <4>1
      <4>5. \A a \in Apps : Exists(a)' \/ Uploading(a)' => Exists(a) \/ Uploading(a)
        BY <4>3, <4>4, <3>1, <2>u DEF Exists
      <4>6. \A b \in Apps : Withdrawn(b) /\ ~Uploading(b) => Withdrawn(b)' /\ ~Uploading(b)'
        BY <4>3, <4>4, <3>1, <2>u DEF Withdrawn
      <4>7. \A a \in Apps :
               (Exists(a) \/ Uploading(a) => SourceKey[a] \in sources \/ MayMiss(a))'
        BY <3>1, <4>5, <4>6, PackagesStay
      <4> QED BY <3>1, <3>0, <4>1, <4>2, <4>7, <2>r, <2>n, <1>a DEF PackageKept
    <3>2. ASSUME Goto(c, "upload_undo"), UNCHANGED <<dbVars, sources>>, "db" \in Faults
          PROVE  PackageKept'
      <4>1. \A a \in Apps :
               (Exists(a) \/ Uploading(a) => SourceKey[a] \in sources \/ MayMiss(a))'
        BY <3>2, <2>v, <2>4, <1>s
      <4> QED BY <3>2, <3>0, <4>1, <2>g, <1>a DEF PackageKept, dbVars
    <3> QED BY <2>9, <3>1, <3>2 DEF UploadRow, Commit, objVars
  <2>10. CASE CreateFind(c) \/ CreateLock(c) \/ CreateCount(c) \/ DeleteFind(c) \/ DeleteCheck(c)
    BY <2>10, <2>1, <2>2, <2>3, <2>4
       DEF CreateFind, CreateLock, CreateCount, DeleteFind, DeleteCheck, storeVars, objVars
  <2> QED
    BY <1>2, <2>5, <2>6, <2>7, <2>8, <2>9, <2>10 DEF Arrive, Continue
<1>3. ASSUME Vanish
      PROVE  PackageKept'
  <2>1. Still /\ Fewer /\ UNCHANGED sources
    BY <1>3 DEF Vanish, Uploading, Exists, dbVars, objVars
  <2>2. \A a \in Apps :
           (Exists(a) \/ Uploading(a) => SourceKey[a] \in sources \/ MayMiss(a))'
    BY <2>1, <1>s
  <2> QED BY <1>3, <2>2 DEF Vanish, PackageKept
<1>4. UNCHANGED vars => PackageKept'
  BY <1>k DEF vars, storeVars, dbVars, objVars, Exists
<1> QED
  BY <1>1, <1>2, <1>3, <1>4, <1>d, <1>k, OtherWrites
     DEF Next, ServerStep, Terminate, Exit, Crash, Boot, CallInv, storeVars, objVars

(* While nothing is lost, whatever else fails, however uploads and          *)
(* deletions interleave and whichever of them have an object key in common: *)
(* the package of an app in the list can be fetched, unless another upload  *)
(* of the same file was deleted or taken back.                              *)
THEOREM AppHasSourceAlways ==
    ASSUME "lost" \notin Faults
    PROVE  Spec => []AppHasSource
<1>1. Init => PackageKept
  BY DEF Init, StoreInit, ApiInit, PackageKept, Uploading, Exists
<1>2. StepInv /\ PackageKept /\ [Next]_vars => PackageKept'
  BY PackageKeptStep DEF StepInv
<1>3. PackageKept => AppHasSource
  BY DEF PackageKept, MayMiss, AppHasSource
<1> QED
  BY <1>1, <1>2, <1>3, StepInvariance, PTL DEF Spec

-----------------------------------------------------------------------------
(* The steps of an ended task.                                              *)
LEMMA RequestsStartNoStep ==
    ASSUME TypeOK, NEW c \in Clients, Arrive(c) \/ Continue(c)
    PROVE  \A t \in Tasks, s \in Steps :
               stepStatus'[t][s] = "running" => stepStatus[t][s] = "running"
<1> DEFINE Kept == \A t \in Tasks, s \in Steps :
                       stepStatus'[t][s] = "running" => stepStatus[t][s] = "running"
<1>1. UNCHANGED stepStatus => Kept
  OBVIOUS
<1>2. \A a : CreateTaskWithStepsForApp(a) => Kept
  BY DEF CreateTaskWithStepsForApp, TypeOK, StoreTypeOK
<1> QED
  BY <1>1, <1>2
     DEF Arrive, Continue, CreateFind, CreateLock, CreateCount, CreateInsert,
         DeleteFind, DeleteCheck, DeleteRow, DeleteObject, UploadPut, UploadRow,
         UploadUndo, Commit, storeVars, dbVars, CreateApp, DeleteApp

LEMMA StepsClosedStep ==
    ASSUME "db" \notin Faults, "lost" \notin Faults,
           TypeOK, CallInv, StepsFollowTask, StepsClosed, [Next]_vars
    PROVE  StepsClosed'
<1> USE DEF InStep
<1> DEFINE Closed(t) == \A s \in Steps : stepStatus[t][s] # "running"
<1>t. /\ stepStatus \in [Tasks -> [Steps -> StepStatuses]]
      /\ wstep \in Steps \cup {0}
  BY DEF TypeOK, StoreTypeOK, WorkerTypeOK
<1>h. /\ wpc \in HasTask => wtask \in Tasks
      /\ wpc \in InStep => wstep \in Steps
  BY DEF CallInv, WorkerHolds
<1>k. UNCHANGED <<workerVars, stepStatus>> => StepsClosed'
  BY DEF StepsClosed, workerVars
<1>n. wpc' \notin InStep \cup {"mkdir", "complete", "rollback", "rmdir", "fail"} => StepsClosed'
  BY DEF StepsClosed
<1>m. Vanish \/ NextTick => StepsClosed'
  BY <1>n DEF Vanish, NextTick
<1>u. \A e : Unwind(e) /\ (e = "long" \/ Closed(wtask)') => StepsClosed'
  BY DEF Unwind, StepsClosed
<1>i. ASSUME wpc \in InStep \ {"start"}, wpc' \in InStep \ {"start"},
             UNCHANGED <<stepStatus, wtask, wstep>>
      PROVE  StepsClosed'
  BY <1>i DEF StepsClosed
<1>1. ASSUME NEW c \in Clients, Arrive(c) \/ Continue(c), UNCHANGED workerVars
      PROVE  StepsClosed'
  BY <1>1, <1>h, RequestsStartNoStep DEF StepsClosed, workerVars, HasTask
<1>2. CASE Recover \/ Cleanup \/ Poll
  BY <1>2, <1>n, <1>k DEF Recover, Cleanup, Poll, Commit, Go, storeVars, dbVars
<1>3. CASE Claim
  <2>1. Closed(wtask)
    BY <1>3 DEF Claim, CallInv, WorkerHolds, HasTask, StepsFollowTask
  <2> QED BY <1>3, <2>1, <1>m DEF Claim, Commit, Go, MarkTaskRunning, StepsClosed
<1>4. CASE Mkdir
  BY <1>4 DEF Mkdir, StepsClosed, storeVars, dbVars
<1>5. CASE BeginStep
  <2>1. Closed(wtask) /\ wtask \in Tasks /\ wstep \in Steps
    BY <1>5, <1>h DEF BeginStep, StepsClosed, HasTask
  <2>2. ASSUME StartStep(wtask, wstep), NEW pc \in {"put", "body"}, Go(pc)
        PROVE  StepsClosed'
    BY <2>1, <2>2, <1>t DEF StartStep, SetStep, Go, StepsClosed
  <2> QED BY <1>5, <2>1, <2>2, <1>u DEF BeginStep, Commit, dbVars, Unwind
<1>6. CASE Body
  BY <1>6, <1>i DEF Body, PrepareBody, LogBody, EngineBody, CollectBody, Go, StepFails,
                    storeVars, dbVars
<1>7. CASE Put
  BY <1>7, <1>i DEF Put, Go, StepFails, dbVars
<1>8. CASE Record
  BY <1>8, <1>i DEF Record, Commit, RecordArtifacts, Go, StepFails, dbVars
<1>9. CASE StepFail
  <2>1. /\ \A s \in Steps : s # wstep => stepStatus[wtask][s] # "running"
        /\ wtask \in Tasks /\ wstep \in Steps /\ Unwind(werr)
    BY <1>9, <1>h DEF StepFail, Commit, StepsClosed, HasTask
  <2>2. werr = "long" \/ Closed(wtask)'
    BY <1>9, <2>1, <1>t
       DEF StepFail, Commit, CanFinishStep, FinishStepFailed, SetStep, dbVars, Unwind
  <2> QED BY <2>1, <2>2, <1>u
<1>10. CASE FinishStep
  <2>1. /\ \A s \in Steps : s # wstep => stepStatus[wtask][s] # "running"
        /\ wtask \in Tasks /\ wstep \in Steps /\ UNCHANGED wtask
    BY <1>10, <1>h DEF FinishStep, Commit, StepsClosed, HasTask, Go, Unwind
  <2>2. Closed(wtask)'
    BY <1>10, <2>1, <1>t
       DEF FinishStep, Commit, CanFinishStep, FinishStepSuccess, SetStep, dbVars
  <2>3. wpc' \in {"start", "complete"} => StepsClosed'
    BY <2>2 DEF StepsClosed
  <2> QED BY <1>10, <2>2, <2>3, <1>u DEF FinishStep, Commit, Go
<1>11. CASE Complete
  <2>1. Closed(wtask) /\ UNCHANGED stepStatus /\ UNCHANGED wtask
    BY <1>11 DEF Complete, Commit, StepsClosed, CompleteTaskForApp,
                 TransitionTaskForApp, dbVars, Go, Unwind
  <2>2. Go("rmdir") => StepsClosed'
    BY <2>1 DEF Go, StepsClosed
  <2> QED BY <1>11, <2>1, <2>2, <1>u DEF Complete, Commit
<1>12. CASE Rollback \/ RemoveDir
  <2>1. UNCHANGED stepStatus
    BY <1>12 DEF Rollback, RemoveDir, dbVars, storeVars
  <2>2. ASSUME wpc' \in {"rollback", "rmdir", "fail"}, wtask' = wtask,
               werr = "long" => werr' = "long"
        PROVE  StepsClosed'
    BY <1>12, <2>1, <2>2 DEF Rollback, RemoveDir, StepsClosed
  <2> QED BY <1>12, <2>2, <1>m DEF Rollback, RemoveDir, Go
<1>13. CASE Fail
  BY <1>13, <1>m DEF Fail, Commit
<1>14. CASE Terminate \/ UNCHANGED vars
  BY <1>14, <1>k DEF Terminate, vars, storeVars, dbVars
<1>15. CASE Boot
  BY <1>15, <1>n DEF Boot
<1> QED
  BY <1>1, <1>2, <1>3, <1>4, <1>5, <1>6, <1>7, <1>8, <1>9, <1>10, <1>11, <1>12, <1>13,
     <1>14, <1>15, <1>m DEF Next, WorkerStep, ServerStep, Exit, Crash

LEMMA NoStepOutlivesTaskStep ==
    ASSUME TypeOK, CallInv, StepsClosed, NoStepOutlivesTask, [Next]_vars
    PROVE  NoStepOutlivesTask'
<1>t. /\ stepStatus \in [Tasks -> [Steps -> StepStatuses]]
      /\ taskStatus \in [Tasks -> TaskStatuses]
  BY DEF TypeOK, StoreTypeOK
<1>1. ASSUME NEW c \in Clients, Arrive(c) \/ Continue(c)
      PROVE  NoStepOutlivesTask'
  <2> SUFFICES ASSUME NEW t \in Tasks, taskStatus'[t] \in {"completed", "failed"},
                      NEW s \in Steps
               PROVE  stepStatus'[t][s] # "running"
    BY DEF NoStepOutlivesTask
  <2>1. RequestDbStep
    BY <1>1, RequestWrites DEF CallInv
  <2>2. taskStatus[t] = taskStatus'[t]
    BY <2>1, <1>t DEF RequestDbStep, dbVars, CreateApp, DeleteApp,
                      CreateTaskWithStepsForApp
  <2> QED BY <1>1, <2>2, RequestsStartNoStep DEF NoStepOutlivesTask
<1>2. CASE Fail
  <2>1. ASSUME FailTaskForApp(wtask), werr # "long"
        PROVE  NoStepOutlivesTask'
    <3>1. \A s \in Steps : stepStatus[wtask][s] # "running"
      BY <1>2, <2>1 DEF Fail, StepsClosed
    <3> QED BY <2>1, <3>1, <1>t DEF FailTaskForApp, TransitionTaskForApp, NoStepOutlivesTask
  <2> QED BY <1>2, <2>1 DEF Fail, Commit, NoStepOutlivesTask, dbVars
<1>3. CASE Recover
  <2>1. RecoverRunningTasks => NoStepOutlivesTask'
    BY <1>t DEF RecoverRunningTasks, NoStepOutlivesTask, Running
  <2> QED BY <1>3, <2>1 DEF Recover, Commit, NoStepOutlivesTask, dbVars
<1>4. ASSUME UNCHANGED dbVars
      PROVE  NoStepOutlivesTask'
  BY <1>4 DEF NoStepOutlivesTask, dbVars
<1>5. CASE BeginStep \/ StepFail \/ FinishStep
  <2>1. wtask \in Tasks /\ wstep \in Steps /\ taskStatus[wtask] = "running"
    BY <1>5 DEF BeginStep, StepFail, FinishStep, CallInv, WorkerHolds, HasTask, InStep
  <2>2. \A st : SetStep(wtask, wstep, st) => NoStepOutlivesTask'
    BY <2>1, <1>t DEF SetStep, NoStepOutlivesTask
  <2> QED BY <1>5, <2>2, <1>4 DEF BeginStep, StepFail, FinishStep, Commit, StartStep,
                                  FinishStepSuccess, FinishStepFailed
<1>6. CASE Complete
  <2>1. \A s \in Steps : stepStatus[wtask][s] = "success"
    BY <1>6 DEF Complete, CallInv, WorkerHolds
  <2>2. CompleteTaskForApp(wtask, wfiles) => NoStepOutlivesTask'
    BY <2>1, <1>t DEF CompleteTaskForApp, TransitionTaskForApp, NoStepOutlivesTask
  <2> QED BY <1>6, <2>2, <1>4 DEF Complete, Commit
<1>7. CASE Claim \/ Record
  <2>1. \A t : MarkTaskRunning(t) => NoStepOutlivesTask'
    BY <1>t DEF MarkTaskRunning, NoStepOutlivesTask
  <2>2. \A t, ks : RecordArtifacts(t, ks) => NoStepOutlivesTask'
    BY DEF RecordArtifacts, NoStepOutlivesTask
  <2> QED BY <1>7, <2>1, <2>2, <1>4 DEF Claim, Record, Commit
<1> QED
  BY <1>1, <1>2, <1>3, <1>4, <1>5, <1>6, <1>7
     DEF Next, WorkerStep, ServerStep, Cleanup, Poll, Mkdir, Body, Put, Rollback,
         RemoveDir, Terminate, Exit, Crash, Boot, Vanish, vars, storeVars

(* While the database answers, whatever else fails: an ended task shows no  *)
(* running step.                                                            *)
THEOREM NoStepOutlivesTaskAlways ==
    ASSUME Faults \cap {"db", "lost"} = {}
    PROVE  Spec => []NoStepOutlivesTask
<1> DEFINE Inv == StepsClosed /\ NoStepOutlivesTask
<1>1. Init => Inv
  BY DEF Init, StoreInit, WorkerInit, StepsClosed, InStep, NoStepOutlivesTask
<1>2. StepInv /\ Inv /\ [Next]_vars => Inv'
  BY StepsClosedStep, NoStepOutlivesTaskStep DEF StepInv
<1> QED
  BY <1>1, <1>2, StepInvariance, PTL DEF Spec

-----------------------------------------------------------------------------
(* Running tasks.                                                           *)
(* A running task whose app was deleted stays so for ever.                  *)
LEMMA ForgottenStays ==
    ASSUME TypeOK, CallInv, TaskHasApp, UploadFresh, ~CanRecover, [Next]_vars
    PROVE  ~CanRecover'
<1>t. /\ appStatus \in [Apps -> AppStatuses]
      /\ taskStatus \in [Tasks -> TaskStatuses]
      /\ taskApp \in [Tasks -> Apps \cup {NoApp}]
  BY DEF TypeOK, StoreTypeOK
<1>1. PICK t \in Tasks : taskStatus[t] = "running" /\ ~Exists(taskApp[t])
  BY DEF CanRecover, Running
<1>2. taskApp[t] \in Apps /\ appStatus[taskApp[t]] = "deleted"
  BY <1>1 DEF TaskHasApp, Exists
<1> DEFINE Stays == /\ taskStatus'[t] = "running" /\ taskApp'[t] = taskApp[t]
                    /\ appStatus'[taskApp[t]] = "deleted"
<1>3. UNCHANGED dbVars => Stays
  BY <1>1, <1>2 DEF dbVars
<1>4. WorkerDbStep => Stays
  BY <1>1, <1>2, <1>t
     DEF WorkerDbStep, dbVars, MarkTaskRunning, RecordArtifacts, StartStep, SetStep,
         FinishStepSuccess, FinishStepFailed, CompleteTaskForApp, FailTaskForApp,
         TransitionTaskForApp, Exists
<1>5. ASSUME NEW c \in Clients, Arrive(c) \/ Continue(c)
      PROVE  Stays
  <2>1. CASE CreateInsert(c)
    <3>1. \A a \in Apps : Exists(a) /\ CreateTaskWithStepsForApp(a) => Stays
      BY <1>1, <1>2, <1>t DEF CreateTaskWithStepsForApp, IsNextId, Exists
    <3>2. capp[c] \in Apps
      BY <2>1 DEF CreateInsert, CallInv, RequestHasApp
    <3> QED BY <2>1, <3>1, <3>2, <1>3 DEF CreateInsert, Commit, CanCreateTask
  <2>2. CASE DeleteRow(c)
    <3>1. \A a \in Apps : DeleteApp(a) => Stays
      BY <1>1, <1>2, <1>t DEF DeleteApp
    <3>2. capp[c] \in Apps
      BY <2>2 DEF DeleteRow, CallInv, RequestHasApp
    <3> QED BY <2>2, <3>1, <3>2, <1>3 DEF DeleteRow, Commit
  <2>3. CASE UploadRow(c)
    <3>1. appStatus[capp[c]] = "none" /\ capp[c] \in Apps
      BY <2>3 DEF UploadRow, UploadFresh, CallInv, RequestHasApp
    <3>2. CreateApp(capp[c]) => Stays
      BY <3>1, <1>1, <1>2, <1>t DEF CreateApp
    <3> QED BY <2>3, <3>2, <1>3 DEF UploadRow, Commit
  <2> QED
    BY <1>5, <1>3, <2>1, <2>2, <2>3
       DEF Arrive, Continue, CreateFind, CreateLock, CreateCount, DeleteFind,
           DeleteCheck, DeleteObject, UploadPut, UploadUndo, storeVars
<1>6. Stays
  BY <1>3, <1>4, <1>5, OtherWrites DEF Next, CallInv, vars, storeVars
<1> QED
  BY <1>6, <1>2 DEF CanRecover, Running, Exists

LEMMA NoneForgottenStep ==
    ASSUME Faults \cap {"db", "lost"} = {},
           TypeOK, CallInv, ErrorsCarried, IdleHasNoTask, ErrorsFit, CanRecover,
           NoneForgotten, [Next]_vars
    PROVE  NoneForgotten'
<1> USE DEF HasTask, InStep
<1>t. /\ taskStatus \in [Tasks -> TaskStatuses]
      /\ 0 \notin Tasks
  BY StoreAssumption DEF TypeOK, StoreTypeOK, Tasks
<1>h. wpc \in HasTask => wtask \in Tasks
  BY DEF CallInv, WorkerHolds
<1>e. \A t \in Tasks : taskStatus[t] = "running" => Exists(taskApp[t])
  BY DEF CanRecover, Running
<1> DEFINE NoneStarts == \A t \in Tasks :
                            taskStatus'[t] = "running" => taskStatus[t] = "running"
<1>k. NoneStarts /\ wtask' = wtask /\ wpc # "recover" /\ UNCHANGED proc => NoneForgotten'
  BY DEF NoneForgotten
(* The worker lets go of a task that is not running any more.               *)
<1>n. ASSUME NoneStarts, wpc \in HasTask, taskStatus'[wtask] # "running", UNCHANGED proc
      PROVE  NoneForgotten'
  BY <1>n DEF NoneForgotten
<1>1. ASSUME NEW c \in Clients, Arrive(c) \/ Continue(c), UNCHANGED <<workerVars, proc>>
      PROVE  NoneForgotten'
  <2>1. RequestDbStep
    BY <1>1, RequestWrites DEF CallInv
  <2>2. NoneStarts
    BY <2>1, <1>t DEF RequestDbStep, dbVars, CreateApp, DeleteApp,
                      CreateTaskWithStepsForApp
  <2> QED BY <1>1, <2>2 DEF NoneForgotten, workerVars
<1>2. ASSUME WorkerStep, UNCHANGED proc
      PROVE  NoneForgotten'
  <2>s. UNCHANGED dbVars => NoneStarts
    BY DEF dbVars
  <2>1. CASE Recover
    <3>1. RecoverRunningTasks => \A t \in Tasks : taskStatus'[t] # "running"
      BY DEF RecoverRunningTasks, Running
    <3>2. Stopping => NoneForgotten'
      BY <1>2 DEF Stopping, NoneForgotten
    <3> QED BY <2>1, <3>1, <3>2 DEF Recover, Commit, NoneForgotten
  <2>2. CASE Cleanup \/ Mkdir \/ Put \/ Rollback
    <3>1. UNCHANGED dbVars /\ wtask' = wtask /\ wpc # "recover"
      BY <2>2 DEF Cleanup, Mkdir, Put, Rollback, Go, StepFails, storeVars
    <3> QED BY <3>1, <2>s, <1>2, <1>k
  <2>3. CASE Poll
    <3>1. proc = "up" => \A t \in Tasks : taskStatus[t] # "running"
      BY <2>3, <1>t DEF Poll, NoneForgotten, IdleHasNoTask
    <3>2. UNCHANGED taskStatus
      BY <2>3 DEF Poll, storeVars, dbVars
    <3> QED BY <3>1, <3>2, <1>2 DEF NoneForgotten
  <2>4. CASE Claim
    <3>1. MarkTaskRunning(wtask) /\ Go("mkdir")
      BY <2>4 DEF Claim, Commit, CanMarkTaskRunning, CallInv, WorkerHolds
    <3>2. \A t \in Tasks \ {wtask} : taskStatus'[t] = taskStatus[t]
      BY <3>1, <1>t DEF MarkTaskRunning
    <3> QED BY <2>4, <3>1, <3>2, <1>2 DEF Claim, Go, NoneForgotten
  <2>5. CASE BeginStep \/ StepFail \/ FinishStep \/ Record
    <3>1. UNCHANGED taskStatus
      BY <2>5 DEF BeginStep, StepFail, FinishStep, Record, Commit, StartStep, SetStep,
                  FinishStepSuccess, FinishStepFailed, RecordArtifacts, dbVars
    <3>2. wtask' = wtask /\ wpc # "recover"
      BY <2>5 DEF BeginStep, StepFail, FinishStep, Record, Commit, Go, Unwind, StepFails
    <3> QED BY <3>1, <3>2, <1>2, <1>k
  <2>6. CASE Body
    <3>1. UNCHANGED dbVars /\ wtask' = wtask /\ wpc # "recover"
      BY <2>6 DEF Body, PrepareBody, LogBody, EngineBody, CollectBody, Go, StepFails,
                  storeVars
    <3> QED BY <3>1, <2>s, <1>2, <1>k
  <2>7. CASE Complete
    <3>1. CompleteTaskForApp(wtask, wfiles) => NoneStarts
      BY <1>t DEF CompleteTaskForApp, TransitionTaskForApp
    <3>2. wtask' = wtask /\ wpc # "recover"
      BY <2>7 DEF Complete, Commit, Go, Unwind
    <3> QED BY <2>7, <3>1, <3>2, <2>s, <1>2, <1>k DEF Complete, Commit
  <2>8. CASE RemoveDir
    <3>1. UNCHANGED dbVars /\ (wtask' = wtask \/ taskStatus'[wtask] # "running")
      BY <2>8 DEF RemoveDir, ErrorsCarried, storeVars, dbVars, Go
    <3> QED BY <2>8, <3>1, <2>s, <1>2, <1>k, <1>n DEF RemoveDir
  <2>9. CASE Fail
    <3>1. FailTaskForApp(wtask) => NoneStarts /\ taskStatus'[wtask] = "failed"
      BY <2>9, <1>t, <1>h DEF Fail, FailTaskForApp, TransitionTaskForApp
    <3>2. ~CanTransitionTask(wtask) => taskStatus[wtask] # "running"
      BY <2>9, <1>e, <1>h DEF Fail, CanTransitionTask
    <3>3. NoneStarts /\ taskStatus'[wtask] # "running"
      BY <2>9, <3>1, <3>2, <2>s DEF Fail, Commit, ErrorsFit, dbVars
    <3> QED BY <2>9, <3>3, <1>2, <1>n DEF Fail
  <2> QED
    BY <1>2, <2>1, <2>2, <2>3, <2>4, <2>5, <2>6, <2>7, <2>8, <2>9 DEF WorkerStep
<1>3. ServerStep => NoneForgotten'
  BY DEF ServerStep, Terminate, Exit, Crash, Boot, Vanish, NoneForgotten
<1>4. UNCHANGED vars => NoneForgotten'
  BY DEF vars, storeVars, dbVars, workerVars, NoneForgotten
<1> QED
  BY <1>1, <1>2, <1>3, <1>4 DEF Next

(* While the database answers, whatever else fails, however requests        *)
(* overlap and however often the process stops: no running task is          *)
(* forgotten, unless an app was deleted under its running task or an error  *)
(* text did not fit.                                                        *)
THEOREM RunningIsOwnedAlways ==
    ASSUME Faults \cap {"db", "lost"} = {}
    PROVE  Spec => RunningIsOwned
<1>1. Init => NoneForgotten
  BY DEF Init, StoreInit, NoneForgotten
<1>2. StepInv /\ QueueInv /\ PromiseInv /\ ErrorsFit /\ NoneForgotten /\ [Next]_vars
        => NoneForgotten'
  <2> SUFFICES ASSUME StepInv, QueueInv, PromiseInv, ErrorsFit, NoneForgotten, [Next]_vars
               PROVE  NoneForgotten'
    OBVIOUS
  <2>1. CASE CanRecover
    BY <2>1, NoneForgottenStep DEF StepInv, PromiseInv
  <2>2. CASE ~CanRecover
    <3>1. ~CanRecover'
      BY <2>2, ForgottenStays DEF StepInv, QueueInv
    <3> QED BY <3>1 DEF NoneForgotten
  <2> QED BY <2>1, <2>2
<1> QED
  BY <1>1, <1>2, StepInvariance, QueueInvariance, PromiseInvariance, PTL DEF Spec, RunningIsOwned
=============================================================================
