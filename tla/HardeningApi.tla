----------------------------- MODULE HardeningApi -----------------------------
(***************************************************************************)
(* The HTTP request handlers that change the shared state, one client per   *)
(* request in flight: HardeningService.Create, AppService.Upload and        *)
(* AppService.Delete.  A handler is a sequence of database and object-store *)
(* calls; between two of them any other request, and the worker, may run.   *)
(***************************************************************************)
EXTENDS HardeningStore

VARIABLES
    cpc,    \* what the request does next; "idle": no request
    capp    \* the app the request is about

apiVars == <<cpc, capp>>

ClientPCs ==
    {"idle",
     "create_lock", "create_count", "create_insert",
     "delete_check", "delete_row", "delete_object",
     "upload_row", "upload_undo"}

ApiTypeOK ==
    /\ cpc \in [Clients -> ClientPCs]
    /\ capp \in [Clients -> Apps \cup {NoApp}]

ApiInit ==
    /\ cpc  = [c \in Clients |-> "idle"]
    /\ capp = [c \in Clients |-> NoApp]

Goto(c, pc) == cpc' = [cpc EXCEPT ![c] = pc] /\ UNCHANGED capp

Reply(c) ==   \* the handler returns
    /\ cpc'  = [cpc EXCEPT ![c] = "idle"]
    /\ capp' = [capp EXCEPT ![c] = NoApp]

Call(c, a, pc) ==   \* a request arrives; only while the server accepts them
    /\ proc = "up"
    /\ cpc[c] = "idle"
    /\ cpc'  = [cpc EXCEPT ![c] = pc]
    /\ capp' = [capp EXCEPT ![c] = a]

Release(c) ==   \* the end of c's transaction frees the row lock it holds
    appLock' = [a \in Apps |-> IF appLock[a] = c THEN NoClient ELSE appLock[a]]

-----------------------------------------------------------------------------
(* HardeningService.Create.  The lookup of the app happens on arrival: a    *)
(* request for an app that is not there returns with no effect.             *)
CreateFind(c) ==
    \E a \in Apps :
        /\ Exists(a)
        /\ Call(c, a, "create_lock")
        /\ UNCHANGED storeVars

(* Mutant: the app row is read without FOR UPDATE.                          *)
CreateLockWithoutWaiting(c) ==
    LET a == capp[c] IN
    /\ cpc[c] = "create_lock"
    /\ \/ /\ Exists(a)
          /\ appLock' = [appLock EXCEPT ![a] = c]
          /\ Goto(c, "create_count")
       \/ /\ ~Exists(a) \/ "db" \in Faults
          /\ Reply(c)
          /\ UNCHANGED appLock
    /\ UNCHANGED <<dbVars, objVars>>

(* SELECT ... FOR UPDATE waits while another transaction holds the row and  *)
(* fails if the row is gone.                                                *)
CreateLock(c) ==
    LET a == capp[c] IN
    /\ cpc[c] = "create_lock"
    /\ Unlocked(a)
    /\ \/ /\ Exists(a)
          /\ appLock' = [appLock EXCEPT ![a] = c]
          /\ Goto(c, "create_count")
       \/ /\ ~Exists(a) \/ "db" \in Faults
          /\ Reply(c)
          /\ UNCHANGED appLock
    /\ UNCHANGED <<dbVars, objVars>>

(* Mutant: the transaction stays open when an active task is found.         *)
CreateCountKeepingLock(c) ==
    /\ cpc[c] = "create_count"
    /\ \/ /\ ~HasActiveTaskForApp(capp[c])
          /\ Goto(c, "create_insert")
       \/ /\ HasActiveTaskForApp(capp[c]) \/ "db" \in Faults
          /\ Reply(c)
    /\ UNCHANGED <<dbVars, appLock, objVars>>

CreateCount(c) ==
    /\ cpc[c] = "create_count"
    /\ \/ /\ ~HasActiveTaskForApp(capp[c])
          /\ Goto(c, "create_insert")
          /\ UNCHANGED appLock
       \/ /\ HasActiveTaskForApp(capp[c]) \/ "db" \in Faults
          /\ Reply(c)
          /\ Release(c)
    /\ UNCHANGED <<dbVars, objVars>>

CreateInsert(c) ==
    /\ cpc[c] = "create_insert"
    /\ Commit(CanCreateTask(capp[c]), CreateTaskWithStepsForApp(capp[c]),
              Reply(c), Reply(c))
    /\ Release(c)
    /\ UNCHANGED objVars

-----------------------------------------------------------------------------
(* AppService.Delete.                                                       *)
DeleteFind(c) ==
    \E a \in Apps :
        /\ Exists(a)
        /\ Call(c, a, "delete_check")
        /\ UNCHANGED storeVars

DeleteCheck(c) ==
    /\ cpc[c] = "delete_check"
    /\ \/ ~HasActiveTaskForApp(capp[c]) /\ Goto(c, "delete_row")
       \/ (HasActiveTaskForApp(capp[c]) \/ "db" \in Faults) /\ Reply(c)
    /\ UNCHANGED storeVars

(* Mutant: the object is deleted although the row could not be.             *)
DeleteRowIgnoringError(c) ==
    /\ cpc[c] = "delete_row"
    /\ Unlocked(capp[c])
    /\ Commit(TRUE, DeleteApp(capp[c]), Goto(c, "delete_object"),
              Goto(c, "delete_object"))
    /\ UNCHANGED <<appLock, objVars>>

(* The DELETE statement waits for the row lock, then re-reads only the id.  *)
DeleteRow(c) ==
    /\ cpc[c] = "delete_row"
    /\ Unlocked(capp[c])
    /\ Commit(TRUE, DeleteApp(capp[c]), Goto(c, "delete_object"), Reply(c))
    /\ UNCHANGED <<appLock, objVars>>

(* The error of DeleteObject is dropped.                                    *)
DeleteObject(c) ==
    /\ cpc[c] = "delete_object"
    /\ \/ DeleteSource(capp[c])
       \/ "store" \in Faults /\ UNCHANGED objVars
    /\ Reply(c)
    /\ UNCHANGED <<dbVars, appLock>>

-----------------------------------------------------------------------------
(* AppService.Upload: the object first, the row second, and the object      *)
(* taken back when the row cannot be saved.  An upload that fails may be    *)
(* sent again.                                                              *)
UploadPut(c) ==
    \E a \in Apps :
        /\ appStatus[a] = "none"
        /\ \A d \in Clients : capp[d] # a
        /\ PutSource(a)
        /\ \/ Call(c, a, "upload_row")
           \/ /\ "lost" \in Faults
              /\ proc = "up"
              /\ cpc[c] = "idle"
              /\ UNCHANGED apiVars
        /\ UNCHANGED <<dbVars, appLock>>

UploadRow(c) ==
    /\ cpc[c] = "upload_row"
    /\ Commit(TRUE, CreateApp(capp[c]), Reply(c), Goto(c, "upload_undo"))
    /\ UNCHANGED <<appLock, objVars>>

UploadUndo(c) ==
    /\ cpc[c] = "upload_undo"
    /\ \/ DeleteSource(capp[c])
       \/ "store" \in Faults /\ UNCHANGED objVars
    /\ Reply(c)
    /\ UNCHANGED <<dbVars, appLock>>

-----------------------------------------------------------------------------
Arrive(c) == CreateFind(c) \/ DeleteFind(c) \/ UploadPut(c)

Continue(c) ==
    \/ CreateLock(c) \/ CreateCount(c) \/ CreateInsert(c)
    \/ DeleteCheck(c) \/ DeleteRow(c) \/ DeleteObject(c)
    \/ UploadRow(c) \/ UploadUndo(c)
=============================================================================
