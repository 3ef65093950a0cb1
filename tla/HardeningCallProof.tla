--------------------------- MODULE HardeningCallProof -------------------------
(***************************************************************************)
(* Type correctness of the server; every database write meets the rows its  *)
(* caller expects (CallInv); and what follows from that for the steps, the  *)
(* artifacts and the status of a task: for every value of the constants.    *)
(***************************************************************************)
EXTENDS HardeningInvariant, TLAPS

LEMMA TypeInit == Init => TypeOK
<1> SUFFICES ASSUME Init PROVE TypeOK
  OBVIOUS
<1>1. StoreTypeOK
  BY DEF Init, StoreInit, StoreTypeOK, AppStatuses, TaskStatuses, StepStatuses
<1>2. ApiTypeOK
  BY DEF Init, ApiInit, ApiTypeOK, ClientPCs
<1>3. WorkerTypeOK
  BY DEF Init, WorkerInit, WorkerTypeOK, WorkerPCs
<1>4. proc \in {"up", "stopping", "down"} /\ stops \in 0 .. MaxStops
  BY SystemAssumption DEF Init
<1> QED
  BY <1>1, <1>2, <1>3, <1>4 DEF TypeOK

(* What the moves of the two kinds of process leave typed.                  *)
LEMMA ApiMoves ==
    ASSUME ApiTypeOK, NEW c \in Clients
    PROVE  /\ \A pc \in ClientPCs : Goto(c, pc) => ApiTypeOK'
           /\ Reply(c) => ApiTypeOK'
           /\ \A a \in Apps, pc \in ClientPCs : Call(c, a, pc) => ApiTypeOK'
BY DEF ApiTypeOK, Goto, Reply, Call, ClientPCs

LEMMA WorkerMoves ==
    ASSUME WorkerTypeOK
    PROVE  /\ \A pc \in WorkerPCs : Go(pc) => WorkerTypeOK'
           /\ NextTick => WorkerTypeOK'
           /\ \A e \in {"short", "long"} : Unwind(e) => WorkerTypeOK'
           /\ \A e \in {"short", "long"} : StepFails(e) => WorkerTypeOK'
BY DEF WorkerTypeOK, Go, NextTick, Forget, Unwind, StepFails, WorkerPCs

(* Every repository transaction keeps the tables typed.                     *)
DbTypeOK ==
    /\ appStatus \in [Apps -> AppStatuses]
    /\ taskStatus \in [Tasks -> TaskStatuses]
    /\ taskApp \in [Tasks -> Apps \cup {NoApp}]
    /\ stepStatus \in [Tasks -> [Steps -> StepStatuses]]
    /\ artifacts \in [Tasks -> SUBSET Kinds]

LEMMA DbMoves ==
    ASSUME DbTypeOK
    PROVE  /\ UNCHANGED dbVars => DbTypeOK'
           /\ \A a \in Apps \cup {NoApp} : CreateTaskWithStepsForApp(a) => DbTypeOK'
           /\ \A a : CreateApp(a) => DbTypeOK'
           /\ \A a : DeleteApp(a) => DbTypeOK'
           /\ \A t : MarkTaskRunning(t) => DbTypeOK'
           /\ \A t : \A ks \in SUBSET Kinds : RecordArtifacts(t, ks) => DbTypeOK'
           /\ \A t : \A ks \in SUBSET Kinds : CompleteTaskForApp(t, ks) => DbTypeOK'
           /\ \A t : FailTaskForApp(t) => DbTypeOK'
           /\ RecoverRunningTasks => DbTypeOK'
           /\ \A t, s : StartStep(t, s) => DbTypeOK'
           /\ \A t, s : FinishStepSuccess(t, s) => DbTypeOK'
           /\ \A t, s : FinishStepFailed(t, s) => DbTypeOK'
<1>1. UNCHANGED dbVars => DbTypeOK'
  BY DEF dbVars, DbTypeOK
<1>2. \A a \in Apps \cup {NoApp} : CreateTaskWithStepsForApp(a) => DbTypeOK'
  <2> SUFFICES ASSUME NEW a \in Apps \cup {NoApp}, NEW t \in Tasks,
                      taskStatus' = [taskStatus EXCEPT ![t] = "queued"],
                      taskApp'    = [taskApp EXCEPT ![t] = a],
                      stepStatus' = [stepStatus EXCEPT ![t] = [s \in Steps |-> "waiting"]],
                      appStatus'  = [appStatus EXCEPT ![a] = "processing"],
                      UNCHANGED artifacts
               PROVE  DbTypeOK'
    BY DEF CreateTaskWithStepsForApp
  <2>1. stepStatus' \in [Tasks -> [Steps -> StepStatuses]]
    <3>1. [s \in Steps |-> "waiting"] \in [Steps -> StepStatuses]
      BY DEF StepStatuses
    <3> QED BY <3>1 DEF DbTypeOK
  <2>2. taskApp' \in [Tasks -> Apps \cup {NoApp}]
    BY DEF DbTypeOK
  <2> QED BY <2>1, <2>2 DEF DbTypeOK, AppStatuses, TaskStatuses
<1>3. \A a : CreateApp(a) => DbTypeOK'
  BY DEF CreateApp, DbTypeOK, AppStatuses
<1>4. \A a : DeleteApp(a) => DbTypeOK'
  BY DEF DeleteApp, DbTypeOK, AppStatuses
<1>5. \A t : MarkTaskRunning(t) => DbTypeOK'
  BY DEF MarkTaskRunning, DbTypeOK, TaskStatuses
<1>6. \A t : \A ks \in SUBSET Kinds : RecordArtifacts(t, ks) => DbTypeOK'
  BY DEF RecordArtifacts, DbTypeOK
<1>7. \A t : \A ks \in SUBSET Kinds : CompleteTaskForApp(t, ks) => DbTypeOK'
  BY DEF CompleteTaskForApp, TransitionTaskForApp, DbTypeOK, AppStatuses, TaskStatuses
<1>8. \A t : FailTaskForApp(t) => DbTypeOK'
  BY DEF FailTaskForApp, TransitionTaskForApp, DbTypeOK, AppStatuses, TaskStatuses
<1>9. RecoverRunningTasks => DbTypeOK'
  BY DEF RecoverRunningTasks, DbTypeOK, AppStatuses, TaskStatuses, StepStatuses
<1>10. ASSUME NEW t, NEW s, NEW st \in StepStatuses, SetStep(t, s, st)
       PROVE  DbTypeOK'
  <2>1. stepStatus' \in [Tasks -> [Steps -> StepStatuses]]
    <3>1. \A u \in Tasks : [stepStatus[u] EXCEPT ![s] = st] \in [Steps -> StepStatuses]
      BY DEF DbTypeOK
    <3>2. stepStatus' = [stepStatus EXCEPT ![t] = [stepStatus[t] EXCEPT ![s] = st]]
      BY <1>10 DEF SetStep
    <3> QED BY <3>1, <3>2 DEF DbTypeOK
  <2> QED BY <1>10, <2>1 DEF SetStep, DbTypeOK
<1>11. /\ \A t, s : StartStep(t, s) => DbTypeOK'
       /\ \A t, s : FinishStepSuccess(t, s) => DbTypeOK'
       /\ \A t, s : FinishStepFailed(t, s) => DbTypeOK'
  <2>1. {"running", "success", "failed"} \subseteq StepStatuses
    BY DEF StepStatuses
  <2> QED BY <1>10, <2>1 DEF StartStep, FinishStepSuccess, FinishStepFailed
<1> QED
  BY <1>1, <1>2, <1>3, <1>4, <1>5, <1>6, <1>7, <1>8, <1>9, <1>11

(* Requests.                                                                *)
LEMMA TypeApi ==
    ASSUME TypeOK, NEW c \in Clients, Arrive(c) \/ Continue(c),
           UNCHANGED <<workerVars, proc, stops>>
    PROVE  TypeOK'
<1> DEFINE L == appLock' \in [Apps -> Clients \cup {NoClient}]
           O == blobs' \in [Tasks -> SUBSET Kinds] /\ sources' \in SUBSET SourceKeys
<1>0. /\ DbTypeOK /\ ApiTypeOK /\ appLock \in [Apps -> Clients \cup {NoClient}]
      /\ blobs \in [Tasks -> SUBSET Kinds] /\ sources \in SUBSET SourceKeys
  BY DEF TypeOK, StoreTypeOK, DbTypeOK
<1>s. /\ UNCHANGED appLock => L
      /\ Release(c) => L
      /\ UNCHANGED objVars => O
      /\ \A a \in Apps : PutSource(a) => O
      /\ \A a : DeleteSource(a) => O
  BY <1>0, StoreAssumption DEF Release, objVars, PutSource, DeleteSource
<1>w. WorkerTypeOK' /\ proc' \in {"up", "stopping", "down"} /\ stops' \in 0 .. MaxStops
  BY DEF TypeOK, WorkerTypeOK, workerVars
<1>c. capp[c] \in Apps \cup {NoApp}
  BY <1>0 DEF ApiTypeOK
<1> SUFFICES DbTypeOK' /\ ApiTypeOK' /\ L /\ O
  BY <1>w DEF TypeOK, StoreTypeOK, DbTypeOK
<1>u. UNCHANGED storeVars => DbTypeOK' /\ L /\ O
  BY <1>0, <1>s, DbMoves DEF storeVars
<1>1. CASE CreateFind(c)
  BY <1>1, <1>0, <1>u, ApiMoves DEF CreateFind, ClientPCs
<1>2. CASE CreateLock(c)
  <2>1. L
    BY <1>2, <1>0, <1>s DEF CreateLock
  <2> QED BY <1>2, <2>1, <1>0, <1>s, ApiMoves, DbMoves DEF CreateLock, ClientPCs
<1>3. CASE CreateCount(c)
  BY <1>3, <1>0, <1>s, ApiMoves, DbMoves DEF CreateCount, ClientPCs
<1>4. CASE CreateInsert(c)
  BY <1>4, <1>0, <1>s, <1>c, ApiMoves, DbMoves DEF CreateInsert, Commit, ClientPCs
<1>5. CASE DeleteFind(c)
  BY <1>5, <1>0, <1>u, ApiMoves DEF DeleteFind, ClientPCs
<1>6. CASE DeleteCheck(c)
  BY <1>6, <1>0, <1>u, ApiMoves DEF DeleteCheck, ClientPCs
<1>7. CASE DeleteRow(c)
  BY <1>7, <1>0, <1>s, ApiMoves, DbMoves DEF DeleteRow, Commit, ClientPCs
<1>8. CASE DeleteObject(c)
  BY <1>8, <1>0, <1>s, ApiMoves, DbMoves DEF DeleteObject, ClientPCs
<1>9. CASE UploadPut(c)
  <2>1. UNCHANGED apiVars => ApiTypeOK'
    BY <1>0 DEF apiVars, ApiTypeOK
  <2> QED BY <1>9, <2>1, <1>0, <1>s, ApiMoves, DbMoves DEF UploadPut, ClientPCs
<1>10. CASE UploadRow(c)
  BY <1>10, <1>0, <1>s, ApiMoves, DbMoves DEF UploadRow, Commit, ClientPCs
<1>11. CASE UploadUndo(c)
  BY <1>11, <1>0, <1>s, ApiMoves, DbMoves DEF UploadUndo, ClientPCs
<1> QED
  BY <1>1, <1>2, <1>3, <1>4, <1>5, <1>6, <1>7, <1>8, <1>9, <1>10, <1>11
     DEF Arrive, Continue

(* The worker.                                                              *)
LEMMA TypeWorker ==
    ASSUME TypeOK, WorkerStep, UNCHANGED <<apiVars, proc, stops>>
    PROVE  TypeOK'
<1> DEFINE O == blobs' \in [Tasks -> SUBSET Kinds] /\ sources' \in SUBSET SourceKeys
<1>0. /\ DbTypeOK /\ WorkerTypeOK
      /\ blobs \in [Tasks -> SUBSET Kinds] /\ sources \in SUBSET SourceKeys
  BY DEF TypeOK, StoreTypeOK, DbTypeOK
<1>s. /\ UNCHANGED objVars => O
      /\ \A t, k : k \in Kinds /\ PutArtifact(t, k) => O
      /\ \A t, k : DeleteArtifact(t, k) => O
  BY <1>0 DEF objVars, PutArtifact, DeleteArtifact
<1>w. ApiTypeOK' /\ proc' \in {"up", "stopping", "down"} /\ stops' \in 0 .. MaxStops
  BY DEF TypeOK, ApiTypeOK, apiVars
<1>l. UNCHANGED appLock
  BY DEF WorkerStep, Recover, Cleanup, Poll, Claim, Mkdir, BeginStep, Body, Put,
         Record, StepFail, FinishStep, Complete, Rollback, RemoveDir, Fail, storeVars
<1>e. StorageErrors \subseteq {"short", "long"}
  BY DEF StorageErrors
<1> SUFFICES DbTypeOK' /\ WorkerTypeOK' /\ O
  BY <1>w, <1>l DEF TypeOK, StoreTypeOK, DbTypeOK
<1>u. UNCHANGED storeVars => DbTypeOK' /\ O
  BY <1>0, <1>s, DbMoves DEF storeVars
<1>1. CASE Recover
  <2>1. ASSUME wpc' = "cleanup",
               worphans' = {o \in Tasks \X Kinds :
                              o[1] \in Running /\ o[2] \in artifacts[o[1]]},
               UNCHANGED <<wtask, wapp, wstep, werr, wfiles, wup>>
        PROVE  WorkerTypeOK'
    BY <2>1, <1>0 DEF WorkerTypeOK, WorkerPCs
  <2> QED BY <1>1, <2>1, <1>0, <1>s, WorkerMoves, DbMoves DEF Recover, Commit, WorkerPCs
<1>2. CASE Cleanup
  <2>1. ASSUME NEW o \in worphans, worphans' = worphans \ {o},
               UNCHANGED <<wpc, wtask, wapp, wstep, werr, wfiles, wup>>
        PROVE  WorkerTypeOK'
    BY <2>1, <1>0 DEF WorkerTypeOK
  <2> QED BY <1>2, <2>1, <1>0, <1>s, WorkerMoves, DbMoves DEF Cleanup, WorkerPCs
<1>3. CASE Poll
  <2>1. WorkerTypeOK'
    BY <1>3, <1>0, WorkerMoves DEF Poll, WorkerTypeOK, WorkerPCs, workerVars, Exists
  <2> QED BY <1>3, <2>1, <1>u DEF Poll
<1>4. CASE Claim
  BY <1>4, <1>0, <1>s, WorkerMoves, DbMoves DEF Claim, Commit, WorkerPCs
<1>5. CASE Mkdir
  <2>1. WorkerTypeOK'
    BY <1>5, <1>0 DEF Mkdir, WorkerTypeOK, WorkerPCs, Steps, PrepareInput, UploadArtifacts
  <2> QED BY <1>5, <2>1, <1>u DEF Mkdir
<1>6. CASE BeginStep
  BY <1>6, <1>0, <1>s, WorkerMoves, DbMoves DEF BeginStep, Commit, WorkerPCs
<1>7. CASE Body
  <2>1. ASSUME NEW f \in SUBSET Kinds, wfiles' = f, wpc' = "finish",
               UNCHANGED <<wtask, wapp, wstep, werr, wup, worphans>>
        PROVE  WorkerTypeOK'
    BY <2>1, <1>0 DEF WorkerTypeOK, WorkerPCs
  <2>2. WorkerTypeOK'
    BY <1>7, <2>1, <1>0, <1>e, WorkerMoves
       DEF Body, PrepareBody, LogBody, EngineBody, CollectBody, WorkerPCs, Kinds
  <2> QED BY <1>7, <2>2, <1>u DEF Body
<1>8. CASE Put
  <2>1. NextUpload \in Kinds
    BY DEF NextUpload, Kinds
  <2>2. ASSUME wup' = wup \cup {NextUpload},
               UNCHANGED <<wpc, wtask, wapp, wstep, werr, wfiles, worphans>>
        PROVE  WorkerTypeOK'
    BY <2>1, <2>2, <1>0 DEF WorkerTypeOK
  <2> QED BY <1>8, <2>1, <2>2, <1>0, <1>s, <1>e, WorkerMoves, DbMoves DEF Put, WorkerPCs
<1>9. CASE Record
  BY <1>9, <1>0, <1>s, WorkerMoves, DbMoves DEF Record, Commit, WorkerPCs, WorkerTypeOK
<1>10. CASE StepFail
  BY <1>10, <1>0, <1>s, WorkerMoves, DbMoves
     DEF StepFail, Commit, WorkerPCs, WorkerTypeOK, Unwind
<1>11. CASE FinishStep
  <2>1. ASSUME wpc' = "start", wstep # UploadArtifacts, wpc = "finish",
               wstep' = wstep + 1,
               UNCHANGED <<wtask, wapp, werr, wfiles, wup, worphans>>
        PROVE  WorkerTypeOK'
    BY <2>1, <1>0 DEF WorkerTypeOK, WorkerPCs, Steps, PrepareInput, UploadArtifacts
  <2> QED BY <1>11, <2>1, <1>0, <1>s, WorkerMoves, DbMoves DEF FinishStep, Commit, WorkerPCs
<1>12. CASE Complete
  BY <1>12, <1>0, <1>s, WorkerMoves, DbMoves DEF Complete, Commit, WorkerPCs, WorkerTypeOK
<1>13. CASE Rollback
  <2>1. WorkerTypeOK'
    BY <1>13, <1>0, <1>e DEF Rollback, WorkerTypeOK, WorkerPCs
  <2> QED BY <1>13, <2>1, <1>0, <1>s, DbMoves DEF Rollback
<1>14. CASE RemoveDir
  <2>1. WorkerTypeOK'
    BY <1>14, <1>0, WorkerMoves DEF RemoveDir, WorkerTypeOK, WorkerPCs
  <2> QED BY <1>14, <2>1, <1>u DEF RemoveDir
<1>15. CASE Fail
  BY <1>15, <1>0, <1>s, WorkerMoves, DbMoves DEF Fail, Commit, WorkerPCs
<1> QED
  BY <1>1, <1>2, <1>3, <1>4, <1>5, <1>6, <1>7, <1>8, <1>9, <1>10, <1>11, <1>12,
     <1>13, <1>14, <1>15 DEF WorkerStep

(* Start and stop of the process.                                           *)
LEMMA TypeServer ==
    ASSUME TypeOK, ServerStep
    PROVE  TypeOK'
<1> USE DEF TypeOK, StoreTypeOK, ApiTypeOK, WorkerTypeOK
<1>1. CASE Terminate
  BY <1>1, SystemAssumption DEF Terminate, storeVars, dbVars, objVars, apiVars, workerVars
<1>2. Vanish => StoreTypeOK' /\ ApiTypeOK' /\ WorkerTypeOK' /\ proc' = "down"
  BY DEF Vanish, Forget, dbVars, objVars, ClientPCs, WorkerPCs
<1>3. CASE Exit
  BY <1>3, <1>2 DEF Exit
<1>4. CASE Crash
  BY <1>4, <1>2, SystemAssumption DEF Crash
<1>5. CASE Boot
  BY <1>5 DEF Boot, storeVars, dbVars, objVars, apiVars, WorkerPCs
<1> QED
  BY <1>1, <1>3, <1>4, <1>5 DEF ServerStep

(* The state of the server has its type in every reachable state, whatever  *)
(* the number of apps, tasks and requests and whatever fails.               *)
THEOREM TypeCorrect == Spec => []TypeOK
<1>1. TypeOK /\ [Next]_vars => TypeOK'
  <2> SUFFICES ASSUME TypeOK, [Next]_vars PROVE TypeOK'
    OBVIOUS
  <2>1. CASE UNCHANGED vars
    BY <2>1 DEF vars, storeVars, dbVars, objVars, apiVars, workerVars, TypeOK,
                StoreTypeOK, ApiTypeOK, WorkerTypeOK
  <2>2. CASE Next
    BY <2>2, TypeApi, TypeWorker, TypeServer DEF Next
  <2> QED BY <2>1, <2>2
<1> QED
  BY TypeInit, <1>1, PTL DEF Spec

-----------------------------------------------------------------------------
(* What the callers rely on.                                                *)

LEMMA StepNumbers ==
    /\ Steps \subseteq Nat
    /\ PrepareInput \in Steps /\ UploadArtifacts \in Steps
    /\ \A s \in Steps : s # UploadArtifacts => s < UploadArtifacts /\ s + 1 \in Steps
BY DEF Steps, PrepareInput, UploadArtifacts

LEMMA CallInit == Init => CallInv
BY DEF Init, ApiInit, WorkerInit, CallInv, WorkerHolds, RequestHasApp, HasTask, InStep

(* A request does not touch the row or the steps of an existing task.       *)
LEMMA RequestsLeaveTasks ==
    ASSUME TypeOK, NEW c \in Clients, Arrive(c) \/ Continue(c)
    PROVE  \A t \in Tasks : taskStatus[t] # "none" =>
               taskStatus'[t] = taskStatus[t] /\ stepStatus'[t] = stepStatus[t]
<1> DEFINE Kept == \A t \in Tasks : taskStatus[t] # "none" =>
                       taskStatus'[t] = taskStatus[t] /\ stepStatus'[t] = stepStatus[t]
<1>1. UNCHANGED dbVars => Kept
  BY DEF dbVars
<1>2. \A a : CreateTaskWithStepsForApp(a) => Kept
  BY DEF CreateTaskWithStepsForApp, IsNextId, TypeOK, StoreTypeOK
<1>3. \A a : CreateApp(a) \/ DeleteApp(a) => Kept
  BY DEF CreateApp, DeleteApp
<1> QED
  BY <1>1, <1>2, <1>3
     DEF Arrive, Continue, CreateFind, CreateLock, CreateCount, CreateInsert,
         DeleteFind, DeleteCheck, DeleteRow, DeleteObject, UploadPut, UploadRow,
         UploadUndo, Commit, storeVars

LEMMA RequestHasAppStep ==
    ASSUME TypeOK, RequestHasApp, [Next]_vars
    PROVE  RequestHasApp'
<1> USE DEF RequestHasApp, TypeOK, ApiTypeOK
<1>1. UNCHANGED apiVars => RequestHasApp'
  BY DEF apiVars
<1>2. ASSUME NEW c \in Clients PROVE
      /\ \A pc : Goto(c, pc) /\ cpc[c] # "idle" => RequestHasApp'
      /\ Reply(c) => RequestHasApp'
      /\ \A a \in Apps : \A pc : Call(c, a, pc) => RequestHasApp'
  BY DEF Goto, Reply, Call
<1>3. ASSUME NEW c \in Clients, Arrive(c) \/ Continue(c)
      PROVE  RequestHasApp'
  BY <1>1, <1>2, <1>3
     DEF Arrive, Continue, CreateFind, CreateLock, CreateCount, CreateInsert,
         DeleteFind, DeleteCheck, DeleteRow, DeleteObject, UploadPut, UploadRow,
         UploadUndo, Commit
<1>4. Vanish => RequestHasApp'
  BY DEF Vanish
<1> QED
  BY <1>1, <1>3, <1>4 DEF Next, ServerStep, Terminate, Exit, Crash, Boot, vars

(* The task the worker holds stays as it believes it to be.                 *)
LEMMA WorkerHoldsStep ==
    ASSUME TypeOK, WorkerHolds, StepsFollowTask, [Next]_vars
    PROVE  WorkerHolds'
<1> USE DEF HasTask, InStep
<1>t. /\ taskStatus \in [Tasks -> TaskStatuses]
      /\ stepStatus \in [Tasks -> [Steps -> StepStatuses]]
      /\ wstep \in Steps \cup {0}
  BY DEF TypeOK, StoreTypeOK, WorkerTypeOK
<1>u. UNCHANGED <<workerVars, taskStatus, stepStatus>> => WorkerHolds'
  BY DEF WorkerHolds, workerVars
<1>r. ASSUME NEW c \in Clients, Arrive(c) \/ Continue(c), UNCHANGED workerVars
      PROVE  WorkerHolds'
  BY <1>r, RequestsLeaveTasks DEF WorkerHolds, workerVars
<1>1. wpc' \notin HasTask => WorkerHolds'
  BY DEF WorkerHolds
<1>2. Vanish \/ NextTick => WorkerHolds'
  BY <1>1 DEF Vanish, NextTick
<1>3. \A e : Unwind(e) /\ wtask \in Tasks => WorkerHolds'
  BY DEF Unwind, WorkerHolds
<1>4. \A e : StepFails(e) /\ UNCHANGED taskStatus /\ wpc \in InStep => WorkerHolds'
  BY DEF StepFails, WorkerHolds
<1>5. \A pc \in {"mkdir", "body", "put", "record", "finish"} :
         Go(pc) /\ wpc \in InStep /\ UNCHANGED taskStatus => WorkerHolds'
  BY DEF Go, WorkerHolds
<1>s. \A t, s, st : SetStep(t, s, st) => UNCHANGED taskStatus
  BY DEF SetStep
<1>7. CASE Recover
  BY <1>7, <1>1 DEF Recover, Commit, Go
<1>8. CASE Cleanup
  BY <1>8, <1>1 DEF Cleanup, Go
<1>9. CASE Poll
  <2>1. ASSUME NEW t \in Tasks, NextQueuedTask(t), wtask' = t, wpc' = "claim",
               UNCHANGED storeVars
        PROVE  WorkerHolds'
    BY <2>1 DEF NextQueuedTask, storeVars, dbVars, WorkerHolds
  <2> QED BY <1>9, <1>1, <2>1, <1>u DEF Poll, Go, storeVars, dbVars
<1>10. CASE Claim
  <2>1. CASE MarkTaskRunning(wtask) /\ Go("mkdir")
    BY <2>1, <1>10, <1>t DEF MarkTaskRunning, Go, Claim, WorkerHolds
  <2> QED BY <1>10, <2>1, <1>2 DEF Claim, Commit
<1>11. CASE Mkdir
  BY <1>11, StepNumbers DEF Mkdir, storeVars, dbVars, WorkerHolds
<1>12. CASE BeginStep
  <2>1. UNCHANGED taskStatus /\ wtask \in Tasks
    BY <1>12, <1>s DEF BeginStep, Commit, StartStep, dbVars, WorkerHolds
  <2> QED BY <1>12, <2>1, <1>3, <1>5 DEF BeginStep, Commit
<1>13. CASE Body
  <2>1. UNCHANGED taskStatus
    BY <1>13 DEF Body, storeVars, dbVars
  <2>2. ASSUME wpc' = "finish", UNCHANGED <<wtask, wstep>>
        PROVE  WorkerHolds'
    BY <2>1, <2>2, <1>13 DEF WorkerHolds, Body
  <2> QED
    BY <1>13, <2>1, <2>2, <1>4 DEF Body, PrepareBody, LogBody, EngineBody, CollectBody, Go
<1>14. CASE Put
  <2>1. UNCHANGED taskStatus
    BY <1>14 DEF Put, dbVars
  <2>2. ASSUME UNCHANGED <<wpc, wtask, wstep>>
        PROVE  WorkerHolds'
    BY <2>1, <2>2, <1>14 DEF WorkerHolds, Put
  <2> QED BY <1>14, <2>1, <2>2, <1>4, <1>5 DEF Put
<1>15. CASE Record
  <2>1. UNCHANGED taskStatus
    BY <1>15 DEF Record, Commit, RecordArtifacts, dbVars
  <2> QED BY <1>15, <2>1, <1>4, <1>5 DEF Record, Commit
<1>16. CASE StepFail
  BY <1>16, <1>3 DEF StepFail, Commit, WorkerHolds
<1>17. CASE FinishStep
  <2>1. UNCHANGED taskStatus /\ wtask \in Tasks /\ wstep \in Steps
    BY <1>17, <1>s DEF FinishStep, Commit, FinishStepSuccess, dbVars, WorkerHolds
  <2>2. ASSUME CanFinishStep(wtask, wstep), FinishStepSuccess(wtask, wstep),
               wstep = UploadArtifacts, Go("complete")
        PROVE  WorkerHolds'
    <3>1. stepStatus[wtask][wstep] = "running"
      BY <2>2 DEF CanFinishStep
    <3>2. \A r \in Steps : r < wstep => stepStatus[wtask][r] = "success"
      BY <3>1, <2>1 DEF StepsFollowTask
    <3>3. \A r \in Steps : stepStatus'[wtask][r] = "success"
      BY <3>2, <2>1, <2>2, <1>t, StepNumbers DEF FinishStepSuccess, SetStep
    <3> QED BY <3>3, <2>1, <2>2, <1>17 DEF Go, WorkerHolds, FinishStep
  <2>3. ASSUME wstep # UploadArtifacts, wpc' = "start", wstep' = wstep + 1,
               UNCHANGED wtask
        PROVE  WorkerHolds'
    BY <2>1, <2>3, <1>17, StepNumbers DEF WorkerHolds, FinishStep
  <2> QED BY <1>17, <2>1, <2>2, <2>3, <1>3 DEF FinishStep, Commit
<1>18. CASE Complete
  BY <1>18, <1>3 DEF Complete, Commit, WorkerHolds, Go
<1>19. CASE Rollback
  BY <1>19 DEF Rollback, WorkerHolds
<1>20. CASE RemoveDir
  BY <1>20, <1>2 DEF RemoveDir, WorkerHolds, Go
<1>21. CASE Fail
  BY <1>21, <1>2 DEF Fail, Commit
<1>22. WorkerStep => WorkerHolds'
  BY <1>7, <1>8, <1>9, <1>10, <1>11, <1>12, <1>13, <1>14, <1>15, <1>16, <1>17,
     <1>18, <1>19, <1>20, <1>21 DEF WorkerStep
<1>23. ServerStep => WorkerHolds'
  BY <1>1, <1>2, <1>u
     DEF ServerStep, Terminate, Exit, Crash, Boot, storeVars, dbVars
<1> QED
  BY <1>u, <1>r, <1>22, <1>23 DEF Next, vars, storeVars, dbVars

(* All writes of requests are among those of RequestDbStep, all others      *)
(* among those of WorkerDbStep.                                             *)
LEMMA RequestWrites ==
    ASSUME TypeOK, RequestHasApp, NEW c \in Clients, Arrive(c) \/ Continue(c)
    PROVE  RequestDbStep
<1>1. cpc[c] # "idle" => capp[c] \in Apps
  BY DEF RequestHasApp
<1> QED
  BY <1>1
     DEF Arrive, Continue, CreateFind, CreateLock, CreateCount, CreateInsert,
         DeleteFind, DeleteCheck, DeleteRow, DeleteObject, UploadPut, UploadRow,
         UploadUndo, Commit, storeVars, RequestDbStep, CanCreateTask

LEMMA OtherWrites ==
    ASSUME TypeOK, WorkerHolds, WorkerStep \/ ServerStep \/ UNCHANGED vars
    PROVE  WorkerDbStep
<1>1. ServerStep \/ UNCHANGED vars => WorkerDbStep
  BY DEF ServerStep, Terminate, Exit, Crash, Boot, Vanish, storeVars, vars, WorkerDbStep
<1>2. Cleanup \/ Poll \/ Mkdir \/ Body \/ Put \/ Rollback \/ RemoveDir => WorkerDbStep
  BY DEF Cleanup, Poll, Mkdir, Body, Put, Rollback, RemoveDir, storeVars, WorkerDbStep
<1>3. CASE Recover
  BY <1>3 DEF Recover, Commit, WorkerDbStep
<1>4. CASE Claim
  BY <1>4 DEF Claim, Commit, WorkerDbStep, WorkerHolds, CanMarkTaskRunning, HasTask
<1>5. CASE BeginStep \/ StepFail \/ FinishStep
  <2>1. wtask \in Tasks /\ wstep \in Steps /\ taskStatus[wtask] = "running"
    BY <1>5 DEF BeginStep, StepFail, FinishStep, WorkerHolds, HasTask, InStep
  <2> QED BY <1>5, <2>1 DEF BeginStep, StepFail, FinishStep, Commit, WorkerDbStep
<1>6. CASE Record
  <2>1. wtask \in Tasks /\ taskStatus[wtask] = "running" /\ wfiles \in SUBSET Kinds
    BY <1>6 DEF Record, WorkerHolds, HasTask, InStep, TypeOK, WorkerTypeOK
  <2> QED BY <1>6, <2>1 DEF Record, Commit, WorkerDbStep
<1>7. CASE Complete
  <2>1. /\ wtask \in Tasks /\ taskStatus[wtask] = "running" /\ wfiles \in SUBSET Kinds
        /\ \A s \in Steps : stepStatus[wtask][s] = "success"
    BY <1>7 DEF Complete, WorkerHolds, HasTask, TypeOK, WorkerTypeOK
  <2> QED BY <1>7, <2>1 DEF Complete, Commit, WorkerDbStep, CanTransitionTask
<1>8. CASE Fail
  <2>1. wtask \in Tasks
    BY <1>8 DEF Fail, WorkerHolds, HasTask
  <2> QED BY <1>8, <2>1 DEF Fail, Commit, WorkerDbStep, CanTransitionTask
<1> QED
  BY <1>1, <1>2, <1>3, <1>4, <1>5, <1>6, <1>7, <1>8 DEF WorkerStep

LEMMA OnlyDbSteps ==
    ASSUME TypeOK, CallInv, [Next]_vars
    PROVE  RequestDbStep \/ WorkerDbStep
BY RequestWrites, OtherWrites DEF CallInv, Next

LEMMA FailedClaimsNothingStep ==
    ASSUME TypeOK, FailedClaimsNothing, RequestDbStep \/ WorkerDbStep
    PROVE  FailedClaimsNothing'
<1> USE DEF FailedClaimsNothing, TypeOK, StoreTypeOK
<1>1. CASE UNCHANGED dbVars \/ \E a \in Apps : CreateApp(a) \/ DeleteApp(a)
  BY <1>1 DEF dbVars, CreateApp, DeleteApp
<1>2. ASSUME NEW a \in Apps, CreateTaskWithStepsForApp(a)
      PROVE  FailedClaimsNothing'
  BY <1>2 DEF CreateTaskWithStepsForApp
<1>3. ASSUME NEW t \in Tasks, MarkTaskRunning(t)
      PROVE  FailedClaimsNothing'
  BY <1>3 DEF MarkTaskRunning
<1>4. ASSUME NEW t \in Tasks, NEW ks \in SUBSET Kinds, taskStatus[t] = "running",
             RecordArtifacts(t, ks) \/ CompleteTaskForApp(t, ks) \/ FailTaskForApp(t)
      PROVE  FailedClaimsNothing'
  BY <1>4 DEF RecordArtifacts, CompleteTaskForApp, FailTaskForApp, TransitionTaskForApp
<1>5. \A t, s, st : SetStep(t, s, st) => FailedClaimsNothing'
  BY DEF SetStep
<1>6. CASE RecoverRunningTasks
  BY <1>6 DEF RecoverRunningTasks
<1> QED
  BY <1>1, <1>2, <1>3, <1>4, <1>5, <1>6
     DEF RequestDbStep, WorkerDbStep, StartStep, FinishStepSuccess, FinishStepFailed

LEMMA StepsFollowTaskStep ==
    ASSUME TypeOK, StepsFollowTask, RequestDbStep \/ WorkerDbStep
    PROVE  StepsFollowTask'
<1>t. /\ taskStatus \in [Tasks -> TaskStatuses]
      /\ stepStatus \in [Tasks -> [Steps -> StepStatuses]]
  BY DEF TypeOK, StoreTypeOK
<1> USE DEF StepsFollowTask
<1>1. UNCHANGED <<taskStatus, stepStatus>> => StepsFollowTask'
  OBVIOUS
<1>2. ASSUME NEW a \in Apps, CreateTaskWithStepsForApp(a)
      PROVE  StepsFollowTask'
  BY <1>2, <1>t DEF CreateTaskWithStepsForApp
<1>3. ASSUME NEW t \in Tasks, taskStatus[t] = "queued", MarkTaskRunning(t)
      PROVE  StepsFollowTask'
  BY <1>3, <1>t DEF MarkTaskRunning
<1>4. ASSUME NEW t \in Tasks, NEW s \in Steps, taskStatus[t] = "running",
             CanStartStep(t, s), StartStep(t, s)
      PROVE  StepsFollowTask'
  BY <1>4, <1>t, StepNumbers DEF StartStep, SetStep, CanStartStep
<1>5. ASSUME NEW t \in Tasks, NEW s \in Steps, taskStatus[t] = "running",
             CanFinishStep(t, s), FinishStepSuccess(t, s) \/ FinishStepFailed(t, s)
      PROVE  StepsFollowTask'
  BY <1>5, <1>t, StepNumbers
     DEF FinishStepSuccess, FinishStepFailed, SetStep, CanFinishStep
<1>6. ASSUME NEW t \in Tasks, NEW ks \in SUBSET Kinds,
             taskStatus[t] = "running",
             \A s \in Steps : stepStatus[t][s] = "success",
             CompleteTaskForApp(t, ks)
      PROVE  StepsFollowTask'
  BY <1>6, <1>t DEF CompleteTaskForApp, TransitionTaskForApp
<1>7. ASSUME NEW t \in Tasks, FailTaskForApp(t)
      PROVE  StepsFollowTask'
  BY <1>7, <1>t DEF FailTaskForApp, TransitionTaskForApp
<1>8. CASE RecoverRunningTasks
  BY <1>8, <1>t DEF RecoverRunningTasks, Running
<1> QED
  BY <1>1, <1>2, <1>3, <1>4, <1>5, <1>6, <1>7, <1>8
     DEF RequestDbStep, WorkerDbStep, dbVars, CreateApp, DeleteApp, RecordArtifacts

StepInv == TypeOK /\ CallInv /\ StepsFollowTask /\ FailedClaimsNothing

LEMMA StepInvariance == Spec => []StepInv
<1>1. Init => StepInv
  BY TypeInit, CallInit
     DEF StepInv, Init, StoreInit, StepsFollowTask, FailedClaimsNothing
<1>2. TypeOK /\ TypeOK' /\ StepInv /\ [Next]_vars => StepInv'
  BY RequestHasAppStep, WorkerHoldsStep, OnlyDbSteps, FailedClaimsNothingStep,
     StepsFollowTaskStep DEF StepInv, CallInv
<1> QED
  BY TypeCorrect, <1>1, <1>2, PTL DEF Spec

(* Steps run in order and a completed task has run them all: for any number *)
(* of apps, tasks and requests, and under every fault.                      *)
THEOREM StepsFollowTaskAlways == Spec => []StepsFollowTask
BY StepInvariance, PTL DEF StepInv

(* A failed task never names an artifact.                                   *)
THEOREM FailedClaimsNothingAlways == Spec => []FailedClaimsNothing
BY StepInvariance, PTL DEF StepInv

(* Tasks only move forward, and what has ended is never written again.      *)
THEOREM TaskMovesAlways == Spec => TaskMoves
<1> DEFINE M(t) ==
         /\ taskStatus'[t] # taskStatus[t] =>
               <<taskStatus[t], taskStatus'[t]>> \in
                   {<<"none", "queued">>, <<"queued", "running">>,
                    <<"running", "completed">>, <<"running", "failed">>}
         /\ taskStatus[t] \in {"completed", "failed"} =>
               /\ artifacts'[t] = artifacts[t]
               /\ stepStatus'[t] = stepStatus[t]
         /\ taskStatus[t] # "none" => taskApp'[t] = taskApp[t]
<1>1. ASSUME TypeOK, RequestDbStep \/ WorkerDbStep, NEW t \in Tasks
      PROVE  M(t)
  <2> USE DEF TypeOK, StoreTypeOK
  <2>1. CASE UNCHANGED dbVars \/ \E a \in Apps : CreateApp(a) \/ DeleteApp(a)
    BY <2>1 DEF dbVars, CreateApp, DeleteApp
  <2>2. ASSUME NEW a \in Apps, CreateTaskWithStepsForApp(a)
        PROVE  M(t)
    BY <2>2 DEF CreateTaskWithStepsForApp, IsNextId
  <2>3. ASSUME NEW u \in Tasks, taskStatus[u] = "queued", MarkTaskRunning(u)
        PROVE  M(t)
    BY <2>3 DEF MarkTaskRunning
  <2>4. ASSUME NEW u \in Tasks, NEW ks \in SUBSET Kinds, taskStatus[u] = "running",
               RecordArtifacts(u, ks) \/ CompleteTaskForApp(u, ks) \/ FailTaskForApp(u)
        PROVE  M(t)
    <3>1. CASE RecordArtifacts(u, ks)
      BY <2>4, <3>1 DEF RecordArtifacts
    <3>2. CASE CompleteTaskForApp(u, ks)
      BY <2>4, <3>2 DEF CompleteTaskForApp, TransitionTaskForApp
    <3>3. CASE FailTaskForApp(u)
      BY <2>4, <3>3 DEF FailTaskForApp, TransitionTaskForApp
    <3> QED BY <2>4, <3>1, <3>2, <3>3
  <2>5. ASSUME NEW u \in Tasks, NEW s, NEW st, taskStatus[u] = "running",
               SetStep(u, s, st)
        PROVE  M(t)
    BY <2>5 DEF SetStep
  <2>6. CASE RecoverRunningTasks
    <3>1. CASE taskStatus[t] = "running"
      BY <2>6, <3>1 DEF RecoverRunningTasks, Running
    <3>2. CASE taskStatus[t] # "running"
      <4>1. /\ taskStatus'[t] = taskStatus[t]
            /\ artifacts'[t] = artifacts[t]
            /\ taskApp'[t] = taskApp[t]
        BY <2>6, <3>2 DEF RecoverRunningTasks, Running
      <4>2. stepStatus'[t] \in [Steps -> StepStatuses]
        BY <1>1, <2>6, DbMoves DEF DbTypeOK
      <4>3. \A s \in Steps : stepStatus'[t][s] = stepStatus[t][s]
        BY <2>6, <3>2 DEF RecoverRunningTasks, Running
      <4>4. stepStatus'[t] = stepStatus[t]
        BY <1>1, <4>2, <4>3
      <4> QED BY <4>1, <4>4
    <3> QED BY <3>1, <3>2
  <2> QED
    BY <1>1, <2>1, <2>2, <2>3, <2>4, <2>5, <2>6
       DEF RequestDbStep, WorkerDbStep, StartStep, FinishStepSuccess, FinishStepFailed
<1>2. StepInv /\ [Next]_vars => [\A t \in Tasks : M(t)]_vars
  BY <1>1, OnlyDbSteps DEF StepInv
<1> QED
  BY StepInvariance, <1>2, PTL DEF Spec, TaskMoves
=============================================================================
