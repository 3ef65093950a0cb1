-------------------------- MODULE HardeningQueueProof -------------------------
(***************************************************************************)
(* One active task per app, and app rows that mirror the latest task, for   *)
(* any number of apps, tasks and concurrent requests and under every fault. *)
(* The argument: a Create request holds the row lock from its count to its  *)
(* insert (LockHeld), so its count still stands (CountStands), so the new   *)
(* task, whose id is the largest (IdsInOrder), is the only active one of    *)
(* its app (ActiveIsLatest); hence whoever moves an active task may         *)
(* overwrite the app's status.  From the same invariant, in the second      *)
(* part: the server implements the lifecycle of a task (TaskLifecycle).     *)
(***************************************************************************)
EXTENDS HardeningCallProof

(* The writes that matter here, with what their callers have made sure of.  *)
SettleStep ==
    \/ UNCHANGED <<appStatus, taskStatus, taskApp>>
    \/ \E a \in Apps : appStatus[a] = "none" /\ CreateApp(a)
    \/ \E a \in Apps : DeleteApp(a)
    \/ \E t \in Tasks : taskStatus[t] = "queued" /\ MarkTaskRunning(t)
    \/ \E t \in Tasks :
          /\ taskStatus[t] = "running"
          /\ \E st \in {"completed", "failed"} :
                \E ks \in SUBSET Kinds : TransitionTaskForApp(t, st, ks)
    \/ RecoverRunningTasks

QueueStep ==
    \/ SettleStep
    \/ \E a \in Apps :
          Exists(a) /\ ~HasActiveTaskForApp(a) /\ CreateTaskWithStepsForApp(a)

LEMMA WorkerSettles ==
    ASSUME WorkerDbStep
    PROVE  SettleStep
<1>1. \A t, s, st : SetStep(t, s, st) => SettleStep
  BY DEF SetStep, SettleStep
<1>2. {} \in SUBSET Kinds
  OBVIOUS
<1> QED
  BY <1>1, <1>2
     DEF WorkerDbStep, SettleStep, dbVars, RecordArtifacts, StartStep,
         FinishStepSuccess, FinishStepFailed, CompleteTaskForApp, FailTaskForApp

LEMMA OnlyQueueSteps ==
    ASSUME TypeOK, CallInv, CountStands, UploadFresh, [Next]_vars
    PROVE  QueueStep
<1>1. ASSUME NEW c \in Clients, Arrive(c) \/ Continue(c)
      PROVE  QueueStep
  <2>1. cpc[c] # "idle" => capp[c] \in Apps
    BY DEF CallInv, RequestHasApp
  <2>2. UNCHANGED dbVars => QueueStep
    BY DEF dbVars, QueueStep, SettleStep
  <2>3. CASE CreateInsert(c)
    BY <2>1, <2>2, <2>3 DEF CreateInsert, Commit, CanCreateTask, CountStands, QueueStep, SettleStep
  <2>4. CASE DeleteRow(c)
    BY <2>1, <2>2, <2>4 DEF DeleteRow, Commit, QueueStep, SettleStep
  <2>5. CASE UploadRow(c)
    BY <2>1, <2>2, <2>5 DEF UploadRow, Commit, UploadFresh, QueueStep, SettleStep
  <2> QED
    BY <1>1, <2>2, <2>3, <2>4, <2>5
       DEF Arrive, Continue, CreateFind, CreateLock, CreateCount, DeleteFind,
           DeleteCheck, DeleteObject, UploadPut, UploadUndo, storeVars
<1> QED
  BY <1>1, OtherWrites, WorkerSettles DEF CallInv, Next, QueueStep, SettleStep

LEMMA QueueInit == Init => QueueInv
<1> SUFFICES ASSUME Init PROVE QueueInv
  OBVIOUS
<1>1. \A a \in Apps : ~Exists(a)
  BY DEF Init, StoreInit, Exists
<1> QED
  BY <1>1 DEF Init, StoreInit, ApiInit, QueueInv, IdsInOrder, TaskHasApp, LockHeld,
              CountStands, UploadFresh, ActiveIsLatest, Active, AppMirrorsLatestTask

-----------------------------------------------------------------------------
(* Ids and apps of tasks.                                                   *)
LEMMA IdsInOrderStep ==
    ASSUME TypeOK, IdsInOrder, QueueStep
    PROVE  IdsInOrder'
<1>t. taskStatus \in [Tasks -> TaskStatuses]
  BY DEF TypeOK, StoreTypeOK
<1>k. ASSUME \A t \in Tasks : taskStatus'[t] = "none" <=> taskStatus[t] = "none"
      PROVE  IdsInOrder'
  BY <1>k DEF IdsInOrder
<1>1. ASSUME NEW a \in Apps, CreateTaskWithStepsForApp(a)
      PROVE  IdsInOrder'
  <2>1. PICK n \in Tasks : IsNextId(n) /\ taskStatus' = [taskStatus EXCEPT ![n] = "queued"]
    BY <1>1 DEF CreateTaskWithStepsForApp
  <2>2. \A u \in Tasks : u < n => taskStatus[u] # "none"
    BY <2>1 DEF IsNextId
  <2>3. \A u \in Tasks : taskStatus'[u] = IF u = n THEN "queued" ELSE taskStatus[u]
    BY <2>1, <1>t
  <2> QED BY <2>2, <2>3 DEF IdsInOrder
<1>2. ASSUME NEW a \in Apps, CreateApp(a) \/ DeleteApp(a)
      PROVE  IdsInOrder'
  BY <1>2, <1>k DEF CreateApp, DeleteApp
<1>3. ASSUME NEW t \in Tasks, taskStatus[t] = "queued", MarkTaskRunning(t)
      PROVE  IdsInOrder'
  BY <1>3, <1>k, <1>t DEF MarkTaskRunning
<1>4. ASSUME NEW t \in Tasks, taskStatus[t] = "running",
             NEW st \in {"completed", "failed"}, NEW ks, TransitionTaskForApp(t, st, ks)
      PROVE  IdsInOrder'
  BY <1>4, <1>k, <1>t DEF TransitionTaskForApp
<1>5. CASE RecoverRunningTasks
  BY <1>5, <1>k DEF RecoverRunningTasks, Running
<1> QED
  BY <1>1, <1>2, <1>3, <1>4, <1>5, <1>k DEF QueueStep, SettleStep

LEMMA TaskHasAppStep ==
    ASSUME TypeOK, TaskHasApp, QueueStep
    PROVE  TaskHasApp'
<1> USE DEF TaskHasApp, TypeOK, StoreTypeOK
<1>1. ASSUME NEW a \in Apps, Exists(a), CreateTaskWithStepsForApp(a)
      PROVE  TaskHasApp'
  BY <1>1 DEF CreateTaskWithStepsForApp, IsNextId
<1>2. ASSUME NEW a \in Apps, CreateApp(a) \/ DeleteApp(a)
      PROVE  TaskHasApp'
  BY <1>2 DEF CreateApp, DeleteApp
<1>3. ASSUME NEW t \in Tasks, taskStatus[t] = "queued", MarkTaskRunning(t)
      PROVE  TaskHasApp'
  BY <1>3 DEF MarkTaskRunning
<1>4. ASSUME NEW t \in Tasks, taskStatus[t] = "running",
             NEW st \in {"completed", "failed"}, NEW ks, TransitionTaskForApp(t, st, ks)
      PROVE  TaskHasApp'
  BY <1>4 DEF TransitionTaskForApp
<1>5. CASE RecoverRunningTasks
  BY <1>5 DEF RecoverRunningTasks, Running
<1> QED
  BY <1>1, <1>2, <1>3, <1>4, <1>5 DEF QueueStep, SettleStep

-----------------------------------------------------------------------------
(* Requests.                                                                *)
LEMMA LockHeldStep ==
    ASSUME TypeOK, RequestHasApp, LockHeld, [Next]_vars
    PROVE  LockHeld'
<1>t. /\ cpc \in [Clients -> ClientPCs] /\ capp \in [Clients -> Apps \cup {NoApp}]
      /\ appLock \in [Apps -> Clients \cup {NoClient}]
  BY DEF TypeOK, StoreTypeOK, ApiTypeOK
<1>u. UNCHANGED <<apiVars, appLock>> => LockHeld'
  BY DEF LockHeld, apiVars
<1>1. ASSUME NEW c \in Clients, Arrive(c) \/ Continue(c)
      PROVE  LockHeld'
  <2>a. cpc[c] # "idle" => capp[c] \in Apps
    BY DEF RequestHasApp
  <2>1. ASSUME UNCHANGED appLock,
               \E a \in Apps : \/ Call(c, a, "create_lock")
                               \/ Call(c, a, "delete_check")
                               \/ Call(c, a, "upload_row")
        PROVE  LockHeld'
    BY <2>1, <1>t DEF Call, LockHeld
  <2>2. ASSUME UNCHANGED appLock,
               \/ Reply(c)
               \/ cpc[c] = "create_count" /\ Goto(c, "create_insert")
               \/ \E pc \in {"delete_row", "delete_object", "upload_undo"} : Goto(c, pc)
        PROVE  LockHeld'
    BY <2>2, <1>t DEF Reply, Goto, LockHeld
  <2>3. ASSUME Reply(c), Release(c)
        PROVE  LockHeld'
    <3>1. \A d \in Clients \ {c} : cpc'[d] = cpc[d] /\ capp'[d] = capp[d]
      BY <2>3, <1>t DEF Reply
    <3>2. cpc'[c] = "idle"
      BY <2>3, <1>t DEF Reply
    <3>3. \A a \in Apps : appLock[a] # c => appLock'[a] = appLock[a]
      BY <2>3 DEF Release
    <3> QED BY <3>1, <3>2, <3>3 DEF LockHeld, RequestHasApp
  <2>4. ASSUME cpc[c] = "create_lock", Unlocked(capp[c]),
               appLock' = [appLock EXCEPT ![capp[c]] = c], Goto(c, "create_count")
        PROVE  LockHeld'
    <3>1. capp[c] \in Apps
      BY <2>a, <2>4
    <3>2. appLock[capp[c]] \notin Clients
      BY <2>4, StoreAssumption DEF Unlocked
    <3> QED BY <3>1, <3>2, <2>4, <1>t DEF Goto, LockHeld
  <2>5. CASE CreateLock(c)
    BY <2>5, <2>2, <2>4 DEF CreateLock
  <2>6. CASE CreateCount(c) \/ CreateInsert(c)
    BY <2>6, <2>2, <2>3 DEF CreateCount, CreateInsert, Commit
  <2> QED
    BY <1>1, <1>u, <2>1, <2>2, <2>5, <2>6
       DEF Arrive, Continue, CreateFind, DeleteFind, DeleteCheck, DeleteRow,
           DeleteObject, UploadPut, UploadRow, UploadUndo, Commit, storeVars
<1>2. WorkerStep => UNCHANGED appLock
  BY DEF WorkerStep, Recover, Cleanup, Poll, Claim, Mkdir, BeginStep, Body, Put,
         Record, StepFail, FinishStep, Complete, Rollback, RemoveDir, Fail, storeVars
<1>3. Vanish => LockHeld'
  BY DEF Vanish, LockHeld
<1> QED
  BY <1>1, <1>2, <1>3, <1>u DEF Next, ServerStep, Terminate, Exit, Crash, Boot, vars,
                                storeVars

(* An app without active task gets one only by a Create request for it.     *)
LEMMA NoActiveKept ==
    ASSUME TypeOK, NEW a \in Apps, ~HasActiveTaskForApp(a),
           SettleStep \/ \E b \in Apps : b # a /\ CreateTaskWithStepsForApp(b)
    PROVE  ~HasActiveTaskForApp(a)'
<1> USE DEF HasActiveTaskForApp, Active, TypeOK, StoreTypeOK
<1>1. ASSUME NEW b \in Apps, b # a, CreateTaskWithStepsForApp(b)
      PROVE  ~HasActiveTaskForApp(a)'
  BY <1>1 DEF CreateTaskWithStepsForApp
<1>2. ASSUME NEW b \in Apps, CreateApp(b) \/ DeleteApp(b)
      PROVE  ~HasActiveTaskForApp(a)'
  BY <1>2 DEF CreateApp, DeleteApp
<1>3. ASSUME NEW t \in Tasks, taskStatus[t] = "queued", MarkTaskRunning(t)
      PROVE  ~HasActiveTaskForApp(a)'
  BY <1>3 DEF MarkTaskRunning
<1>4. ASSUME NEW t \in Tasks, NEW st \in {"completed", "failed"}, NEW ks,
             TransitionTaskForApp(t, st, ks)
      PROVE  ~HasActiveTaskForApp(a)'
  BY <1>4 DEF TransitionTaskForApp
<1>5. CASE RecoverRunningTasks
  BY <1>5 DEF RecoverRunningTasks, Running
<1> QED
  BY <1>1, <1>2, <1>3, <1>4, <1>5 DEF SettleStep

LEMMA CountStandsStep ==
    ASSUME TypeOK, CallInv, LockHeld, CountStands, UploadFresh, [Next]_vars
    PROVE  CountStands'
<1>t. cpc \in [Clients -> ClientPCs] /\ capp \in [Clients -> Apps \cup {NoApp}]
  BY DEF TypeOK, ApiTypeOK
<1>a. \A c \in Clients : cpc[c] # "idle" => capp[c] \in Apps
  BY DEF CallInv, RequestHasApp
<1>u. SettleStep /\ UNCHANGED apiVars => CountStands'
  BY <1>a, NoActiveKept DEF CountStands, apiVars
<1>1. ASSUME NEW c \in Clients, Arrive(c) \/ Continue(c)
      PROVE  CountStands'
  <2> SUFFICES ASSUME NEW d \in Clients, cpc'[d] = "create_insert"
               PROVE  ~HasActiveTaskForApp(capp[d])' /\ capp'[d] = capp[d]
    BY DEF CountStands, HasActiveTaskForApp, Active
  <2>1. CASE CreateCount(c) /\ d = c
    <3>1. /\ ~HasActiveTaskForApp(capp[c]) /\ Goto(c, "create_insert")
          /\ UNCHANGED dbVars
      BY <2>1, <1>t DEF CreateCount, Reply
    <3> QED BY <3>1, <2>1 DEF Goto, HasActiveTaskForApp, Active, dbVars
  <2>2. CASE ~(CreateCount(c) /\ d = c)
    <3>1. d # c /\ cpc[d] = "create_insert" /\ capp'[d] = capp[d]
      BY <1>1, <2>2, <1>t
         DEF Arrive, Continue, CreateFind, CreateLock, CreateCount, CreateInsert,
             DeleteFind, DeleteCheck, DeleteRow, DeleteObject, UploadPut, UploadRow,
             UploadUndo, Commit, Goto, Reply, Call, apiVars
    <3>2. ~HasActiveTaskForApp(capp[d]) /\ capp[d] \in Apps
      BY <3>1, <1>a DEF CountStands
    <3>3. SettleStep \/ \E b \in Apps : b # capp[d] /\ CreateTaskWithStepsForApp(b)
      <4>1. UNCHANGED dbVars => SettleStep
        BY DEF dbVars, SettleStep
      <4>2. CASE CreateInsert(c)
        <5>1. capp[c] \in Apps /\ capp[c] # capp[d]
          BY <4>2, <3>1, <1>a DEF CreateInsert, LockHeld
        <5> QED BY <4>1, <4>2, <5>1 DEF CreateInsert, Commit
      <4>3. CASE DeleteRow(c)
        BY <4>1, <4>3, <1>a DEF DeleteRow, Commit, SettleStep
      <4>4. CASE UploadRow(c)
        BY <4>1, <4>4, <1>a DEF UploadRow, Commit, UploadFresh, SettleStep
      <4> QED
        BY <1>1, <4>1, <4>2, <4>3, <4>4
           DEF Arrive, Continue, CreateFind, CreateLock, CreateCount, DeleteFind,
               DeleteCheck, DeleteObject, UploadPut, UploadUndo, storeVars
    <3> QED BY <3>1, <3>2, <3>3, NoActiveKept
  <2> QED BY <2>1, <2>2
<1>2. WorkerStep \/ ServerStep \/ UNCHANGED vars => SettleStep
  BY OtherWrites, WorkerSettles DEF CallInv
<1>3. Vanish => CountStands'
  BY DEF Vanish, CountStands
<1> QED
  BY <1>1, <1>2, <1>3, <1>u DEF Next, ServerStep, Terminate, Exit, Crash, Boot, vars

LEMMA UploadFreshStep ==
    ASSUME TypeOK, CallInv, TaskHasApp, UploadFresh, [Next]_vars
    PROVE  UploadFresh'
<1>t. /\ cpc \in [Clients -> ClientPCs] /\ capp \in [Clients -> Apps \cup {NoApp}]
      /\ appStatus \in [Apps -> AppStatuses]
  BY DEF TypeOK, ApiTypeOK, StoreTypeOK
<1>a. \A c \in Clients : cpc[c] # "idle" => capp[c] \in Apps
  BY DEF CallInv, RequestHasApp
<1> DEFINE Fresh == \A a \in Apps : appStatus[a] = "none" => appStatus'[a] = "none"
<1>u. Fresh /\ UNCHANGED apiVars => UploadFresh'
  BY <1>a DEF UploadFresh, apiVars
<1>1. ASSUME NEW c \in Clients, Arrive(c) \/ Continue(c)
      PROVE  UploadFresh'
  <2>1. UNCHANGED appStatus => Fresh
    OBVIOUS
  <2>2. ASSUME Reply(c) \/ \E pc \in ClientPCs \ {"upload_row"} : Goto(c, pc), Fresh
        PROVE  UploadFresh'
    BY <2>2, <1>t, <1>a, StoreAssumption DEF Reply, Goto, UploadFresh
  <2>3. ASSUME NEW a \in Apps, Exists(a), UNCHANGED appStatus,
               Call(c, a, "create_lock") \/ Call(c, a, "delete_check")
        PROVE  UploadFresh'
    BY <2>3, <1>t, <1>a DEF Call, UploadFresh, Exists
  <2>4. ASSUME NEW a \in Apps, appStatus[a] = "none", \A d \in Clients : capp[d] # a,
               Call(c, a, "upload_row"), UNCHANGED appStatus
        PROVE  UploadFresh'
    BY <2>4, <1>t, <1>a DEF Call, UploadFresh
  <2>5. CASE UploadRow(c) /\ CreateApp(capp[c])
    <3>1. cpc[c] = "upload_row" /\ cpc'[c] # "upload_row"
      BY <2>5, <1>t DEF UploadRow, Commit, Reply, Goto
    <3>2. \A d \in Clients \ {c} : cpc'[d] = cpc[d] /\ capp'[d] = capp[d]
      BY <2>5, <1>t DEF UploadRow, Commit, Reply, Goto
    <3>3. capp'[c] = capp[c] \/ capp'[c] = NoApp
      BY <2>5, <1>t DEF UploadRow, Commit, Reply, Goto
    <3>4. \A d \in Clients \ {c} : capp[d] # capp[c]
      BY <3>1 DEF UploadFresh
    <3>5. \A a \in Apps : a # capp[c] => appStatus'[a] = appStatus[a]
      BY <2>5, <1>t DEF CreateApp
    <3> QED BY <3>1, <3>2, <3>3, <3>4, <3>5, <1>a, StoreAssumption DEF UploadFresh
  <2>6. CASE DeleteRow(c) /\ DeleteApp(capp[c])
    <3>1. cpc[c] = "delete_row" /\ cpc'[c] # "upload_row"
      BY <2>6, <1>t DEF DeleteRow, Commit, Reply, Goto
    <3>2. \A d \in Clients \ {c} : cpc'[d] = cpc[d] /\ capp'[d] = capp[d]
      BY <2>6, <1>t DEF DeleteRow, Commit, Reply, Goto
    <3>3. capp'[c] = capp[c] \/ capp'[c] = NoApp
      BY <2>6, <1>t DEF DeleteRow, Commit, Reply, Goto
    <3>4. \A d \in Clients \ {c} : cpc[d] = "upload_row" => capp[d] # capp[c]
      BY <3>1 DEF UploadFresh
    <3>5. \A a \in Apps : a # capp[c] => appStatus'[a] = appStatus[a]
      BY <2>6, <1>t DEF DeleteApp
    <3> QED BY <3>1, <3>2, <3>3, <3>4, <3>5, <1>a, StoreAssumption DEF UploadFresh
  <2>7. CASE CreateInsert(c)
    <3>1. Fresh
      BY <2>7, <1>t DEF CreateInsert, Commit, CanCreateTask, Exists,
                        CreateTaskWithStepsForApp, dbVars
    <3> QED BY <2>7, <3>1, <2>2 DEF CreateInsert, Commit
  <2> QED
    BY <1>1, <1>u, <2>1, <2>2, <2>3, <2>4, <2>5, <2>6, <2>7
       DEF Arrive, Continue, CreateFind, CreateLock, CreateCount, DeleteFind,
           DeleteCheck, DeleteRow, DeleteObject, UploadPut, UploadRow, UploadUndo,
           Commit, storeVars, dbVars, ClientPCs
<1>2. WorkerDbStep => Fresh
  BY <1>t DEF WorkerDbStep, dbVars, MarkTaskRunning, RecordArtifacts, StartStep,
         FinishStepSuccess, FinishStepFailed, SetStep, CompleteTaskForApp,
         FailTaskForApp, TransitionTaskForApp, Exists, CanRecover, RecoverRunningTasks
<1>3. Vanish => UploadFresh'
  BY DEF Vanish, UploadFresh
<1> QED
  BY <1>1, <1>2, <1>3, <1>u, OtherWrites
     DEF Next, ServerStep, Terminate, Exit, Crash, Boot, vars, CallInv

-----------------------------------------------------------------------------
(* Tasks and apps.                                                          *)

(* What the insert of a task gives: its id is above all ids of its app.     *)
LEMMA NewTask ==
    ASSUME TypeOK, IdsInOrder, TaskHasApp, NEW a \in Apps,
           CreateTaskWithStepsForApp(a)
    PROVE  \E n \in Tasks :
               /\ taskStatus[n] = "none"
               /\ taskApp[n] = NoApp
               /\ \A u \in Tasks : taskApp[u] = a => u < n
               /\ taskStatus' = [taskStatus EXCEPT ![n] = "queued"]
               /\ taskApp' = [taskApp EXCEPT ![n] = a]
               /\ appStatus' = [appStatus EXCEPT ![a] = "processing"]
<1>n. Tasks \subseteq Nat
  BY StoreAssumption DEF Tasks
<1>1. PICK n \in Tasks :
        /\ IsNextId(n)
        /\ taskStatus' = [taskStatus EXCEPT ![n] = "queued"]
        /\ taskApp' = [taskApp EXCEPT ![n] = a]
        /\ appStatus' = [appStatus EXCEPT ![a] = "processing"]
  BY DEF CreateTaskWithStepsForApp
<1>2. taskStatus[n] = "none" /\ taskApp[n] = NoApp
  BY <1>1 DEF IsNextId, TaskHasApp
<1>3. \A u \in Tasks : taskApp[u] = a => taskStatus[u] # "none"
  BY StoreAssumption DEF TaskHasApp
<1>4. \A u \in Tasks : taskApp[u] = a => u < n
  BY <1>2, <1>3, <1>n DEF IdsInOrder
<1> QED
  BY <1>1, <1>2, <1>4

LEMMA ActiveIsLatestStep ==
    ASSUME TypeOK, IdsInOrder, TaskHasApp, ActiveIsLatest, QueueStep
    PROVE  ActiveIsLatest'
<1>t. /\ taskStatus \in [Tasks -> TaskStatuses]
      /\ taskApp \in [Tasks -> Apps \cup {NoApp}]
  BY DEF TypeOK, StoreTypeOK
<1>n. Tasks \subseteq Nat
  BY StoreAssumption DEF Tasks
<1>k. ASSUME UNCHANGED taskApp, \A t \in Tasks : Active(t)' => Active(t)
      PROVE  ActiveIsLatest'
  BY <1>k DEF ActiveIsLatest
<1>1. ASSUME NEW a \in Apps, ~HasActiveTaskForApp(a), CreateTaskWithStepsForApp(a)
      PROVE  ActiveIsLatest'
  <2>1. PICK n \in Tasks :
          /\ taskApp[n] = NoApp
          /\ \A u \in Tasks : taskApp[u] = a => u < n
          /\ taskStatus' = [taskStatus EXCEPT ![n] = "queued"]
          /\ taskApp' = [taskApp EXCEPT ![n] = a]
    BY <1>1, NewTask
  <2>2. \A u \in Tasks : /\ taskApp'[u] = IF u = n THEN a ELSE taskApp[u]
                         /\ Active(u)' <=> u = n \/ Active(u)
    BY <2>1, <1>t DEF Active
  <2> SUFFICES ASSUME NEW t \in Tasks, NEW u \in Tasks, Active(t)',
                      taskApp'[u] = taskApp'[t]
               PROVE  u <= t
    BY DEF ActiveIsLatest
  <2>3. CASE t = n
    BY <2>1, <2>2, <2>3, <1>n
  <2>4. CASE t # n
    <3>1. Active(t) /\ taskApp[t] # a
      BY <1>1, <2>2, <2>4 DEF HasActiveTaskForApp
    <3>2. u # n
      BY <3>1, <2>2, <2>4
    <3> QED BY <3>1, <3>2, <2>2, <2>4 DEF ActiveIsLatest
  <2> QED BY <2>3, <2>4
<1>2. ASSUME NEW a \in Apps, CreateApp(a) \/ DeleteApp(a)
      PROVE  ActiveIsLatest'
  BY <1>2, <1>k DEF CreateApp, DeleteApp, Active
<1>3. ASSUME NEW t \in Tasks, taskStatus[t] = "queued", MarkTaskRunning(t)
      PROVE  ActiveIsLatest'
  BY <1>3, <1>k, <1>t DEF MarkTaskRunning, Active
<1>4. ASSUME NEW t \in Tasks, NEW st \in {"completed", "failed"}, NEW ks,
             TransitionTaskForApp(t, st, ks)
      PROVE  ActiveIsLatest'
  BY <1>4, <1>k, <1>t DEF TransitionTaskForApp, Active
<1>5. CASE RecoverRunningTasks
  BY <1>5, <1>k DEF RecoverRunningTasks, Active
<1>6. CASE UNCHANGED <<appStatus, taskStatus, taskApp>>
  BY <1>6, <1>k DEF Active
<1> QED
  BY <1>1, <1>2, <1>3, <1>4, <1>5, <1>6 DEF QueueStep, SettleStep

(* An app of which neither the status nor the tasks change, except that a   *)
(* queued task starts, keeps mirroring them.                                *)
LEMMA MirrorStep ==
    ASSUME TypeOK, IdsInOrder, TaskHasApp, ActiveIsLatest, AppMirrorsLatestTask,
           QueueStep
    PROVE  AppMirrorsLatestTask'
<1>t. /\ taskStatus \in [Tasks -> TaskStatuses]
      /\ taskApp \in [Tasks -> Apps \cup {NoApp}]
      /\ appStatus \in [Apps -> AppStatuses]
  BY DEF TypeOK, StoreTypeOK
<1>n. Tasks \subseteq Nat
  BY StoreAssumption DEF Tasks
<1> DEFINE Mirror(a) ==
      \/ TasksOf(a) = {} /\ appStatus[a] = "unprotected"
      \/ \E t \in TasksOf(a) :
            (\A u \in TasksOf(a) : u <= t) /\ appStatus[a] = ShownAs(taskStatus[t])
<1> SUFFICES ASSUME NEW a \in Apps, Exists(a)' PROVE Mirror(a)'
  BY DEF AppMirrorsLatestTask
<1>k. ASSUME TasksOf(a)' = TasksOf(a), appStatus'[a] = appStatus[a],
             \A t \in TasksOf(a) : ShownAs(taskStatus'[t]) = ShownAs(taskStatus[t])
      PROVE  Mirror(a)'
  <2>1. Mirror(a)
    BY <1>k DEF AppMirrorsLatestTask, Exists
  <2> QED BY <2>1, <1>k
<1>1. ASSUME NEW b \in Apps, CreateTaskWithStepsForApp(b)
      PROVE  Mirror(a)'
  <2>1. PICK n \in Tasks :
          /\ taskApp[n] = NoApp
          /\ \A u \in Tasks : taskApp[u] = b => u < n
          /\ taskStatus' = [taskStatus EXCEPT ![n] = "queued"]
          /\ taskApp' = [taskApp EXCEPT ![n] = b]
          /\ appStatus' = [appStatus EXCEPT ![b] = "processing"]
    BY <1>1, NewTask
  <2>2. CASE a = b
    <3>1. TasksOf(a)' = TasksOf(a) \cup {n}
      BY <2>1, <2>2, <1>t DEF TasksOf
    <3>2. \A u \in TasksOf(a)' : u <= n
      BY <3>1, <2>1, <2>2, <1>n DEF TasksOf
    <3>3. appStatus'[a] = ShownAs(taskStatus'[n])
      BY <2>1, <2>2, <1>t DEF ShownAs
    <3> QED BY <3>1, <3>2, <3>3
  <2>3. CASE a # b
    <3>1. TasksOf(a)' = TasksOf(a) /\ n \notin TasksOf(a)
      BY <2>1, <2>3, <1>t, StoreAssumption DEF TasksOf
    <3>2. \A t \in TasksOf(a) : taskStatus'[t] = taskStatus[t]
      BY <3>1, <2>1, <1>t DEF TasksOf
    <3> QED BY <3>1, <3>2, <2>1, <2>3, <1>t, <1>k
  <2> QED BY <2>2, <2>3
<1>2. ASSUME NEW b \in Apps, appStatus[b] = "none", CreateApp(b)
      PROVE  Mirror(a)'
  <2>1. CASE a = b
    BY <1>2, <2>1, <1>t, StoreAssumption DEF CreateApp, TasksOf, TaskHasApp
  <2>2. CASE a # b
    BY <1>2, <2>2, <1>t, <1>k DEF CreateApp, TasksOf
  <2> QED BY <2>1, <2>2
<1>3. ASSUME NEW b \in Apps, DeleteApp(b)
      PROVE  Mirror(a)'
  <2>1. a # b
    BY <1>3, <1>t DEF DeleteApp, Exists
  <2> QED BY <1>3, <2>1, <1>t, <1>k DEF DeleteApp, TasksOf
<1>4. ASSUME NEW t \in Tasks, taskStatus[t] = "queued", MarkTaskRunning(t)
      PROVE  Mirror(a)'
  BY <1>4, <1>t, <1>k DEF MarkTaskRunning, TasksOf, ShownAs
<1>5. ASSUME NEW t \in Tasks, taskStatus[t] = "running",
             NEW st \in {"completed", "failed"}, NEW ks, TransitionTaskForApp(t, st, ks)
      PROVE  Mirror(a)'
  <2>0. TasksOf(a)' = TasksOf(a)
    BY <1>5 DEF TransitionTaskForApp, TasksOf
  <2>1. CASE taskApp[t] = a
    <3>1. t \in TasksOf(a) /\ \A u \in TasksOf(a) : u <= t
      BY <1>5, <2>1 DEF TasksOf, ActiveIsLatest, Active
    <3>2. appStatus'[a] = ShownAs(taskStatus'[t])
      BY <1>5, <2>1, <1>t DEF TransitionTaskForApp, ShownAs
    <3> QED BY <2>0, <3>1, <3>2
  <2>2. CASE taskApp[t] # a
    <3>1. appStatus'[a] = appStatus[a]
      BY <1>5, <2>2, <1>t DEF TransitionTaskForApp
    <3>2. \A u \in TasksOf(a) : taskStatus'[u] = taskStatus[u]
      BY <1>5, <2>2, <1>t DEF TransitionTaskForApp, TasksOf
    <3> QED BY <2>0, <3>1, <3>2, <1>k
  <2> QED BY <2>1, <2>2
<1>6. CASE RecoverRunningTasks
  <2>0. TasksOf(a)' = TasksOf(a)
    BY <1>6 DEF RecoverRunningTasks, TasksOf
  <2>1. ASSUME NEW t \in Running, taskApp[t] = a
        PROVE  Mirror(a)'
    <3>1. t \in TasksOf(a) /\ \A u \in TasksOf(a) : u <= t
      BY <2>1 DEF TasksOf, ActiveIsLatest, Active, Running
    <3>2. appStatus'[a] = ShownAs(taskStatus'[t])
      BY <1>6, <2>1 DEF RecoverRunningTasks, ShownAs, Running
    <3> QED BY <2>0, <3>1, <3>2
  <2>2. CASE \A t \in Running : taskApp[t] # a
    <3>1. appStatus'[a] = appStatus[a]
      BY <1>6, <2>2 DEF RecoverRunningTasks
    <3>2. \A u \in TasksOf(a) : taskStatus'[u] = taskStatus[u]
      BY <1>6, <2>2 DEF RecoverRunningTasks, TasksOf
    <3> QED BY <2>0, <3>1, <3>2, <1>k
  <2> QED BY <2>1, <2>2
<1>7. CASE UNCHANGED <<appStatus, taskStatus, taskApp>>
  BY <1>7, <1>k DEF TasksOf
<1> QED
  BY <1>1, <1>2, <1>3, <1>4, <1>5, <1>6, <1>7 DEF QueueStep, SettleStep

-----------------------------------------------------------------------------
LEMMA QueueInvariance == Spec => []QueueInv
<1>1. StepInv /\ QueueInv /\ [Next]_vars => QueueInv'
  BY OnlyQueueSteps, IdsInOrderStep, TaskHasAppStep, LockHeldStep, CountStandsStep,
     UploadFreshStep, ActiveIsLatestStep, MirrorStep DEF StepInv, QueueInv, CallInv
<1> QED
  BY StepInvariance, QueueInit, <1>1, PTL DEF Spec

(* Two active tasks of one app never exist: the row lock of Create suffices *)
(* for any number of concurrent requests and under every fault.             *)
THEOREM OneActivePerAppAlways == Spec => []OneActivePerApp
<1>1. QueueInv => OneActivePerApp
  <2>1. Tasks \subseteq Nat
    BY StoreAssumption DEF Tasks
  <2> QED BY <2>1 DEF QueueInv, ActiveIsLatest, OneActivePerApp
<1> QED
  BY QueueInvariance, <1>1, PTL

(* The app list always tells the truth about the latest task.               *)
THEOREM AppMirrorsLatestTaskAlways == Spec => []AppMirrorsLatestTask
BY QueueInvariance, PTL DEF QueueInv
-----------------------------------------------------------------------------
(* HardeningSystem implements TaskLifecycle, under every kind of fault: a   *)
(* step of the server is one event of the lifecycle, or none.  The argument *)
(* takes from QueueInv that Create inserts for an app without active task,  *)
(* and adds PromiseInv: the worker claims the oldest queued task, publishes *)
(* only with an unsigned artifact, and completes with what it has published.*)

(* The columns that the lifecycle shows.                                    *)
LEMMA Hidden ==
    /\ UNCHANGED dbVars => UNCHANGED Lifecycle!vars
    /\ \A t, s, st : SetStep(t, s, st) => UNCHANGED Lifecycle!vars
BY DEF dbVars, SetStep, Lifecycle!vars

(* Every transaction is an event, when its caller has made sure of what the *)
(* event asks for.                                                          *)
LEMMA UploadEvent ==
    ASSUME NEW a \in Apps, appStatus[a] = "none", CreateApp(a)
    PROVE  Lifecycle!Next
BY DEF CreateApp, Lifecycle!Next, Lifecycle!Upload

LEMMA RemoveEvent ==
    ASSUME TypeOK, NEW a \in Apps, appStatus[a] # "none", DeleteApp(a)
    PROVE  Lifecycle!Next \/ UNCHANGED Lifecycle!vars
<1>1. CASE appStatus[a] = "deleted"
  <2>1. appStatus' = appStatus
    BY <1>1 DEF DeleteApp, TypeOK, StoreTypeOK
  <2> QED BY <2>1 DEF DeleteApp, Lifecycle!vars
<1>2. CASE appStatus[a] # "deleted"
  BY <1>2 DEF DeleteApp, Lifecycle!Next, Lifecycle!Remove, Lifecycle!Listed
<1> QED
  BY <1>1, <1>2

LEMMA SubmitEvent ==
    ASSUME NEW a \in Apps, Exists(a), ~HasActiveTaskForApp(a),
           CreateTaskWithStepsForApp(a)
    PROVE  Lifecycle!Next
<1>1. PICK t \in Tasks :
        /\ taskStatus[t] = "none"
        /\ taskStatus' = [taskStatus EXCEPT ![t] = "queued"]
        /\ taskApp' = [taskApp EXCEPT ![t] = a]
        /\ appStatus' = [appStatus EXCEPT ![a] = "processing"]
        /\ UNCHANGED artifacts
  BY DEF CreateTaskWithStepsForApp, IsNextId
<1>2. \A u \in Tasks : taskApp[u] = a => ~Lifecycle!Open(u)
  BY DEF HasActiveTaskForApp, Active, Lifecycle!Open
<1>3. Lifecycle!Submit(t, a)
  BY <1>1, <1>2 DEF Exists, Lifecycle!Submit, Lifecycle!Listed
<1> QED
  BY <1>3 DEF Lifecycle!Next

LEMMA BeginEvent ==
    ASSUME NEW t \in Tasks, NextQueuedTask(t), MarkTaskRunning(t)
    PROVE  Lifecycle!Next
<1>1. \A u \in Tasks : taskStatus[u] = "queued" => t <= u
  BY StoreAssumption DEF Tasks, NextQueuedTask
<1> QED
  BY <1>1 DEF NextQueuedTask, MarkTaskRunning, Lifecycle!Next, Lifecycle!Begin

LEMMA PublishEvent ==
    ASSUME NEW t \in Tasks, NEW ks \in SUBSET Kinds, taskStatus[t] = "running",
           "unsigned" \in ks, RecordArtifacts(t, ks)
    PROVE  Lifecycle!Next
BY DEF RecordArtifacts, Lifecycle!Next, Lifecycle!Publish

LEMMA SucceedEvent ==
    ASSUME TypeOK, NEW t \in Tasks, CanTransitionTask(t), "unsigned" \in artifacts[t],
           CompleteTaskForApp(t, artifacts[t])
    PROVE  Lifecycle!Next
<1>1. artifacts' = artifacts
  BY DEF CompleteTaskForApp, TransitionTaskForApp, TypeOK, StoreTypeOK
<1> QED
  BY <1>1 DEF CanTransitionTask, CompleteTaskForApp, TransitionTaskForApp, Exists,
              Lifecycle!Next, Lifecycle!Succeed, Lifecycle!Listed

LEMMA AbortEvent ==
    ASSUME TypeOK, NEW t \in Tasks, CanTransitionTask(t), FailTaskForApp(t)
    PROVE  Lifecycle!Next
<1>1. /\ taskStatus' = [u \in Tasks |-> IF u \in {t} THEN "failed" ELSE taskStatus[u]]
      /\ artifacts' = [u \in Tasks |-> IF u \in {t} THEN {} ELSE artifacts[u]]
      /\ appStatus' = [a \in Apps |->
            IF \E u \in {t} : taskApp[u] = a THEN "failed" ELSE appStatus[a]]
  BY DEF FailTaskForApp, TransitionTaskForApp, TypeOK, StoreTypeOK
<1>2. Lifecycle!Abort({t})
  BY <1>1 DEF CanTransitionTask, Exists, FailTaskForApp, TransitionTaskForApp,
              Lifecycle!Abort, Lifecycle!Listed
<1> QED
  BY <1>2 DEF Lifecycle!Next

LEMMA RestartEvent ==
    ASSUME CanRecover, RecoverRunningTasks
    PROVE  Lifecycle!Next
<1>1. Lifecycle!Abort(Running)
  BY DEF CanRecover, RecoverRunningTasks, Running, Exists, Lifecycle!Abort, Lifecycle!Listed
<1> QED
  BY <1>1 DEF Running, Lifecycle!Next

-----------------------------------------------------------------------------
(* The invariant.                                                           *)
LEMMA PromiseInit == Init => PromiseInv
BY DEF Init, WorkerInit, ApiInit, PromiseInv, TakesOldest, OffersFiles, Collected,
       Recorded, DeletesKnownApp, ErrorsCarried, IdleHasNoTask

(* Requests add tasks behind the queue, and write no artifacts.             *)
LEMMA RequestsLeaveQueue ==
    ASSUME TypeOK, IdsInOrder, NEW c \in Clients, Arrive(c) \/ Continue(c)
    PROVE  /\ \A t \in Tasks : NextQueuedTask(t) => NextQueuedTask(t)'
           /\ UNCHANGED artifacts
<1> DEFINE Kept == /\ \A t \in Tasks : NextQueuedTask(t) => NextQueuedTask(t)'
                   /\ UNCHANGED artifacts
<1>1. UNCHANGED <<taskStatus, artifacts>> => Kept
  BY DEF NextQueuedTask
<1>2. ASSUME NEW a, CreateTaskWithStepsForApp(a)
      PROVE  Kept
  <2>1. PICK n \in Tasks :
          /\ taskStatus[n] = "none"
          /\ taskStatus' = [taskStatus EXCEPT ![n] = "queued"]
          /\ UNCHANGED artifacts
    BY <1>2 DEF CreateTaskWithStepsForApp, IsNextId
  <2>2. \A t \in Tasks : taskStatus[t] = "queued" => ~(n < t)
    BY <2>1 DEF IdsInOrder
  <2>3. \A u \in Tasks : taskStatus'[u] = IF u = n THEN "queued" ELSE taskStatus[u]
    BY <2>1 DEF TypeOK, StoreTypeOK
  <2> QED BY <2>1, <2>2, <2>3 DEF NextQueuedTask
<1>3. \A a : CreateApp(a) \/ DeleteApp(a) => Kept
  BY <1>1 DEF CreateApp, DeleteApp
<1> QED
  BY <1>1, <1>2, <1>3
     DEF Arrive, Continue, CreateFind, CreateLock, CreateCount, CreateInsert,
         DeleteFind, DeleteCheck, DeleteRow, DeleteObject, UploadPut, UploadRow,
         UploadUndo, Commit, storeVars, dbVars

LEMMA TakesOldestStep ==
    ASSUME TypeOK, CallInv, IdsInOrder, TakesOldest, [Next]_vars
    PROVE  TakesOldest'
<1>1. UNCHANGED <<wpc, wtask, taskStatus>> => TakesOldest'
  BY DEF TakesOldest, NextQueuedTask
<1>2. wpc' # "claim" => TakesOldest'
  BY DEF TakesOldest
<1>3. ASSUME NEW c \in Clients, Arrive(c) \/ Continue(c), UNCHANGED workerVars
      PROVE  TakesOldest'
  BY <1>3, RequestsLeaveQueue DEF TakesOldest, workerVars, CallInv, WorkerHolds, HasTask
<1>4. Poll => TakesOldest'
  BY <1>1, <1>2 DEF Poll, Go, TakesOldest, NextQueuedTask, workerVars, storeVars, dbVars
<1>5. WorkerStep => Poll \/ wpc' # "claim"
  BY DEF WorkerStep, Recover, Cleanup, Claim, Mkdir, BeginStep, Body, PrepareBody,
         LogBody, EngineBody, CollectBody, Put, Record, StepFail, FinishStep,
         Complete, Rollback, RemoveDir, Fail, Commit, Go, NextTick, Unwind, StepFails
<1> QED
  BY <1>1, <1>2, <1>3, <1>4, <1>5
     DEF Next, ServerStep, Terminate, Exit, Crash, Boot, Vanish, vars, workerVars,
         storeVars, dbVars

LEMMA OffersFilesStep ==
    ASSUME TypeOK, CallInv, IdsInOrder, OffersFiles, [Next]_vars
    PROVE  OffersFiles'
<1> USE DEF OffersFiles, Collected, Recorded
<1>k. UNCHANGED <<workerVars, artifacts>> => OffersFiles'
  BY DEF workerVars
<1>n. wpc' \notin {"start", "body", "put", "record", "finish", "complete"} => OffersFiles'
  OBVIOUS
<1>t. WorkerTypeOK /\ artifacts \in [Tasks -> SUBSET Kinds]
  BY DEF TypeOK, StoreTypeOK
<1>m. /\ Vanish \/ NextTick => OffersFiles'
      /\ \A e : Unwind(e) \/ StepFails(e) => OffersFiles'
  BY <1>n DEF Vanish, NextTick, Unwind, StepFails
<1>1. ASSUME NEW c \in Clients, Arrive(c) \/ Continue(c), UNCHANGED workerVars
      PROVE  OffersFiles'
  BY <1>1, <1>k, RequestsLeaveQueue
<1>2. CASE Recover \/ Cleanup \/ Poll \/ Claim \/ Complete \/ Rollback \/ RemoveDir \/ Fail
  BY <1>2, <1>n, <1>m, <1>k
     DEF Recover, Cleanup, Poll, Claim, Complete, Rollback, RemoveDir, Fail, Commit,
         Go, storeVars, dbVars, workerVars
<1>3. CASE Mkdir
  BY <1>3, <1>n DEF Mkdir, PrepareInput, UploadArtifacts
<1>4. CASE BeginStep
  BY <1>4, <1>m DEF BeginStep, Commit, Go
<1>5. CASE Body
  BY <1>5, <1>m DEF Body, PrepareBody, LogBody, EngineBody, CollectBody, Go,
     ParsePackage, ApplyStrategy, PrepareInput, RunEngine, CollectArtifacts, UploadArtifacts
<1>6. CASE Put
  BY <1>6, <1>m DEF Put, Go, dbVars
<1>7. CASE Record
  <2>1. wtask \in Tasks
    BY <1>7 DEF Record, CallInv, WorkerHolds, HasTask, InStep
  <2> QED BY <1>7, <2>1, <1>m, <1>t DEF Record, Commit, Go, RecordArtifacts
<1>8. CASE StepFail
  BY <1>8, <1>m DEF StepFail, Commit
<1>9. CASE FinishStep
  <2>1. wstep \in Steps
    BY <1>9 DEF FinishStep, CallInv, WorkerHolds, InStep
  <2> QED BY <1>9, <2>1, <1>m
             DEF FinishStep, Commit, Go, FinishStepSuccess, SetStep, Steps, PrepareInput,
                 CollectArtifacts, UploadArtifacts
<1> QED
  BY <1>1, <1>2, <1>3, <1>4, <1>5, <1>6, <1>7, <1>8, <1>9, <1>k, <1>n, <1>m
     DEF Next, WorkerStep, ServerStep, Terminate, Exit, Crash, Boot, vars, storeVars, dbVars

(* No write makes a row that has existed one that never did.                *)
LEMMA RowsStayKnown ==
    ASSUME TypeOK, RequestDbStep \/ WorkerDbStep, NEW a \in Apps, appStatus[a] # "none"
    PROVE  appStatus'[a] # "none"
BY DEF TypeOK, StoreTypeOK, RequestDbStep, WorkerDbStep, dbVars, CreateApp, DeleteApp,
       CreateTaskWithStepsForApp, MarkTaskRunning, RecordArtifacts, StartStep,
       FinishStepSuccess, FinishStepFailed, SetStep, CompleteTaskForApp, FailTaskForApp,
       TransitionTaskForApp, RecoverRunningTasks

LEMMA DeletesKnownAppStep ==
    ASSUME TypeOK, CallInv, DeletesKnownApp, [Next]_vars
    PROVE  DeletesKnownApp'
<1> USE DEF DeletesKnownApp
<1>t. cpc \in [Clients -> ClientPCs] /\ capp \in [Clients -> Apps \cup {NoApp}]
  BY DEF TypeOK, ApiTypeOK
<1>a. \A c \in Clients : cpc[c] # "idle" => capp[c] \in Apps
  BY DEF CallInv, RequestHasApp
<1>s. \A a \in Apps : appStatus[a] # "none" => appStatus'[a] # "none"
  BY RowsStayKnown, OnlyDbSteps
<1>u. UNCHANGED apiVars => DeletesKnownApp'
  BY <1>a, <1>s DEF apiVars
<1>1. ASSUME NEW c \in Clients, Arrive(c) \/ Continue(c)
      PROVE  DeletesKnownApp'
  <2>1. Reply(c) => DeletesKnownApp'
    BY <1>t, <1>a, <1>s DEF Reply
  <2>2. \A pc : Goto(c, pc) /\ (pc = "delete_row" => cpc[c] = "delete_check")
                             /\ pc # "delete_check" => DeletesKnownApp'
    BY <1>t, <1>a, <1>s DEF Goto
  <2>3. ASSUME NEW a \in Apps, NEW pc, Call(c, a, pc), appStatus[a] # "none" \/ pc = "upload_row" \/ pc = "create_lock"
        PROVE  DeletesKnownApp'
    BY <2>3, <1>t, <1>a, <1>s DEF Call
  <2> QED
    BY <1>1, <1>u, <2>1, <2>2, <2>3
       DEF Arrive, Continue, CreateFind, CreateLock, CreateCount, CreateInsert,
           DeleteFind, DeleteCheck, DeleteRow, DeleteObject, UploadPut, UploadRow,
           UploadUndo, Commit, Exists
<1>2. Vanish => DeletesKnownApp'
  BY DEF Vanish
<1> QED
  BY <1>1, <1>2, <1>u DEF Next, ServerStep, Terminate, Exit, Crash, Boot, vars

LEMMA ErrorsCarriedStep ==
    ASSUME TypeOK, CallInv, ErrorsCarried, [Next]_vars
    PROVE  ErrorsCarried'
<1> USE DEF ErrorsCarried
<1>k. ASSUME UNCHANGED workerVars,
             wtask \in Tasks /\ taskStatus[wtask] = "completed"
                 => taskStatus'[wtask] = "completed"
      PROVE  ErrorsCarried'
  BY <1>k DEF workerVars, CallInv, WorkerHolds, HasTask
<1>n. wpc' \notin {"stepfail", "rollback", "fail", "rmdir"} => ErrorsCarried'
  OBVIOUS
<1>m. /\ Vanish \/ NextTick => ErrorsCarried'
      /\ \A e : e # "none" /\ (Unwind(e) \/ StepFails(e)) => ErrorsCarried'
  BY DEF Vanish, NextTick, Unwind, StepFails
<1>e. \A e \in StorageErrors : e # "none"
  BY DEF StorageErrors
<1>1. ASSUME NEW c \in Clients, Arrive(c) \/ Continue(c), UNCHANGED workerVars
      PROVE  ErrorsCarried'
  BY <1>1, <1>k, RequestsLeaveTasks
<1>2. CASE Recover \/ Cleanup \/ Poll \/ Claim \/ Mkdir \/ Fail
  BY <1>2, <1>n, <1>m, <1>k
     DEF Recover, Cleanup, Poll, Claim, Mkdir, Fail, Commit, Go, storeVars, dbVars,
         workerVars
<1>4. CASE BeginStep
  BY <1>4, <1>m, <1>n DEF BeginStep, Commit, Go
<1>5. CASE Body
  BY <1>5, <1>m, <1>n, <1>e DEF Body, PrepareBody, LogBody, EngineBody, CollectBody, Go
<1>6. CASE Put
  BY <1>6, <1>m, <1>n, <1>e DEF Put, Go
<1>7. CASE Record
  BY <1>7, <1>m, <1>n DEF Record, Commit, Go
<1>8. CASE StepFail
  BY <1>8, <1>m DEF StepFail, Commit
<1>9. CASE FinishStep
  BY <1>9, <1>m, <1>n DEF FinishStep, Commit, Go
<1>10. CASE Complete
  <2>1. wtask \in Tasks
    BY <1>10 DEF Complete, CallInv, WorkerHolds, HasTask
  <2>2. ASSUME CompleteTaskForApp(wtask, wfiles), Go("rmdir")
        PROVE  ErrorsCarried'
    BY <2>1, <2>2 DEF Go, CompleteTaskForApp, TransitionTaskForApp, TypeOK, StoreTypeOK
  <2> QED BY <1>10, <2>2, <1>m DEF Complete, Commit
<1>11. CASE Rollback
  BY <1>11, <1>e DEF Rollback
<1>12. CASE RemoveDir
  BY <1>12, <1>m DEF RemoveDir, Go
<1> QED
  BY <1>1, <1>2, <1>4, <1>5, <1>6, <1>7, <1>8, <1>9, <1>10, <1>11, <1>12, <1>k, <1>n, <1>m
     DEF Next, WorkerStep, ServerStep, Terminate, Exit, Crash, Boot, vars, storeVars,
         dbVars, workerVars

LEMMA IdleHasNoTaskStep ==
    ASSUME IdleHasNoTask, [Next]_vars
    PROVE  IdleHasNoTask'
<1> USE DEF IdleHasNoTask, HasTask, InStep
<1>1. WorkerStep => wpc # "off"
  BY DEF WorkerStep, Recover, Cleanup, Poll, Claim, Mkdir, BeginStep, Body, Put,
         Record, StepFail, FinishStep, Complete, Rollback, RemoveDir, Fail
<1>2. Recover \/ Cleanup \/ Poll \/ Mkdir \/ Put \/ Rollback \/ RemoveDir
         => (wpc' \notin HasTask => wtask' = 0)
  BY DEF Recover, Cleanup, Poll, Mkdir, Put, Rollback, RemoveDir, Commit, Go, NextTick,
         StepFails, Forget, workerVars
<1>3. Body => wpc' \in HasTask
  BY DEF Body, PrepareBody, LogBody, EngineBody, CollectBody, Go, StepFails
<1>4. Claim \/ BeginStep \/ Record \/ StepFail \/ FinishStep \/ Complete \/ Fail
         => (wpc' \notin HasTask => wtask' = 0)
  BY DEF Claim, BeginStep, Record, StepFail, FinishStep, Complete, Fail, Commit, Go,
         NextTick, Unwind, StepFails, Forget
<1> QED
  BY <1>1, <1>2, <1>3, <1>4
     DEF Next, WorkerStep, ServerStep, Terminate, Exit, Crash, Boot, Vanish, Forget,
         vars, workerVars

LEMMA PromiseInvariance == Spec => []PromiseInv
<1>1. StepInv /\ QueueInv /\ PromiseInv /\ [Next]_vars => PromiseInv'
  BY TakesOldestStep, OffersFilesStep, DeletesKnownAppStep, ErrorsCarriedStep,
     IdleHasNoTaskStep
     DEF StepInv, QueueInv, PromiseInv
<1> QED
  BY StepInvariance, QueueInvariance, PromiseInit, <1>1, PTL DEF Spec

-----------------------------------------------------------------------------
(* The simulation.                                                          *)
LEMMA RequestSimulates ==
    ASSUME TypeOK, CallInv, CountStands, UploadFresh, DeletesKnownApp,
           NEW c \in Clients, Arrive(c) \/ Continue(c)
    PROVE  Lifecycle!Next \/ UNCHANGED Lifecycle!vars
<1>a. cpc[c] # "idle" => capp[c] \in Apps
  BY DEF CallInv, RequestHasApp
<1>1. CASE CreateInsert(c)
  BY <1>1, <1>a, Hidden, SubmitEvent DEF CreateInsert, Commit, CanCreateTask, CountStands
<1>2. CASE DeleteRow(c)
  BY <1>2, <1>a, Hidden, RemoveEvent DEF DeleteRow, Commit, DeletesKnownApp
<1>3. CASE UploadRow(c)
  BY <1>3, <1>a, Hidden, UploadEvent DEF UploadRow, Commit, UploadFresh
<1> QED
  BY <1>1, <1>2, <1>3, Hidden
     DEF Arrive, Continue, CreateFind, CreateLock, CreateCount, DeleteFind,
         DeleteCheck, DeleteObject, UploadPut, UploadUndo, storeVars

LEMMA WorkerSimulates ==
    ASSUME TypeOK, CallInv, TakesOldest, OffersFiles, WorkerStep
    PROVE  Lifecycle!Next \/ UNCHANGED Lifecycle!vars
<1> USE DEF CallInv, WorkerHolds, HasTask, InStep
<1>1. CASE Recover
  BY <1>1, Hidden, RestartEvent DEF Recover, Commit
<1>2. CASE Claim
  BY <1>2, Hidden, BeginEvent DEF Claim, Commit, TakesOldest
<1>3. CASE BeginStep \/ StepFail \/ FinishStep
  BY <1>3, Hidden DEF BeginStep, StepFail, FinishStep, Commit, StartStep,
                      FinishStepSuccess, FinishStepFailed
<1>4. CASE Record
  <2>1. wtask \in Tasks /\ taskStatus[wtask] = "running" /\ "unsigned" \in wfiles
    BY <1>4 DEF Record, OffersFiles, Collected
  <2>2. wfiles \in SUBSET Kinds
    BY DEF TypeOK, WorkerTypeOK
  <2> QED BY <1>4, <2>1, <2>2, Hidden, PublishEvent DEF Record, Commit
<1>5. CASE Complete
  <2>1. wtask \in Tasks /\ artifacts[wtask] = wfiles /\ "unsigned" \in wfiles
    BY <1>5 DEF Complete, OffersFiles, Collected, Recorded
  <2> QED BY <1>5, <2>1, Hidden, SucceedEvent DEF Complete, Commit
<1>6. CASE Fail
  BY <1>6, Hidden, AbortEvent DEF Fail, Commit
<1> QED
  BY <1>1, <1>2, <1>3, <1>4, <1>5, <1>6, Hidden
     DEF WorkerStep, Cleanup, Poll, Mkdir, Body, Put, Rollback, RemoveDir, storeVars

(* What users see of apps and tasks is a behaviour of TaskLifecycle: every  *)
(* interleaving of requests, worker, restarts and failed or unacknowledged  *)
(* calls looks like a sequence of indivisible uploads, removals,            *)
(* submissions, starts in the order of submission, publications, and ends.  *)
THEOREM ServerImplementsLifecycle == Spec => ImplementsLifecycle
<1>1. Init => Lifecycle!Init
  BY DEF Init, StoreInit, Lifecycle!Init
<1>2. StepInv /\ QueueInv /\ PromiseInv /\ [Next]_vars => [Lifecycle!Next]_(Lifecycle!vars)
  <2>1. ServerStep \/ UNCHANGED vars => UNCHANGED Lifecycle!vars
    BY DEF ServerStep, Terminate, Exit, Crash, Boot, Vanish, storeVars, dbVars, vars,
           Lifecycle!vars
  <2> QED
    BY <2>1, RequestSimulates, WorkerSimulates DEF Next, StepInv, QueueInv, PromiseInv
<1> QED
  BY <1>1, <1>2, StepInvariance, QueueInvariance, PromiseInvariance, PTL
     DEF Spec, ImplementsLifecycle, Lifecycle!Spec
=============================================================================
