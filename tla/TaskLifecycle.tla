----------------------------- MODULE TaskLifecycle ----------------------------
(***************************************************************************)
(* What the backend promises its users about apps and hardening tasks, with *)
(* no requests in progress, worker, locks, steps, objects or restarts: each *)
(* change of an app and of its tasks is one indivisible event.              *)
(***************************************************************************)
EXTENDS Naturals

CONSTANTS Apps, Tasks, Kinds, NoApp

VARIABLES
    app,     \* state of an app as the app list shows it
    status,  \* state of a task as the task list shows it
    owner,   \* the app of a task
    offer    \* artifacts a task offers for download

vars == <<app, status, owner, offer>>

Listed(a) == app[a] \notin {"none", "deleted"}
Open(t)   == status[t] \in {"queued", "running"}

Init ==
    /\ app    = [a \in Apps |-> "none"]
    /\ status = [t \in Tasks |-> "none"]
    /\ owner  = [t \in Tasks |-> NoApp]
    /\ offer  = [t \in Tasks |-> {}]

Upload(a) ==
    /\ app[a] = "none"
    /\ app' = [app EXCEPT ![a] = "unprotected"]
    /\ UNCHANGED <<status, owner, offer>>

Remove(a) ==
    /\ Listed(a)
    /\ app' = [app EXCEPT ![a] = "deleted"]
    /\ UNCHANGED <<status, owner, offer>>

(* A new task for an app that has no open one.                              *)
Submit(t, a) ==
    /\ status[t] = "none"
    /\ Listed(a)
    /\ \A u \in Tasks : owner[u] = a => ~Open(u)
    /\ app'    = [app EXCEPT ![a] = "processing"]
    /\ status' = [status EXCEPT ![t] = "queued"]
    /\ owner'  = [owner EXCEPT ![t] = a]
    /\ UNCHANGED offer

Begin(t) ==
    /\ status[t] = "queued"
    /\ \A u \in Tasks : status[u] = "queued" => t <= u
    /\ status' = [status EXCEPT ![t] = "running"]
    /\ UNCHANGED <<app, owner, offer>>

(* A running task already shows what it has produced.                       *)
Publish(t) ==
    /\ status[t] = "running"
    /\ \E ks \in SUBSET Kinds :
          "unsigned" \in ks /\ offer' = [offer EXCEPT ![t] = ks]
    /\ UNCHANGED <<app, status, owner>>

(* Completion confirms what has been published.                             *)
Succeed(t) ==
    /\ status[t] = "running"
    /\ "unsigned" \in offer[t]
    /\ Listed(owner[t])
    /\ status' = [status EXCEPT ![t] = "completed"]
    /\ app'    = [app EXCEPT ![owner[t]] = "completed"]
    /\ UNCHANGED <<owner, offer>>

(* Failure withdraws it; a restart fails all running tasks together.        *)
Abort(T) ==
    /\ \A t \in T : status[t] = "running" /\ Listed(owner[t])
    /\ status' = [t \in Tasks |-> IF t \in T THEN "failed" ELSE status[t]]
    /\ offer'  = [t \in Tasks |-> IF t \in T THEN {} ELSE offer[t]]
    /\ app'    = [a \in Apps |->
                    IF \E t \in T : owner[t] = a THEN "failed" ELSE app[a]]
    /\ UNCHANGED owner

Next ==
    \/ \E a \in Apps : Upload(a) \/ Remove(a)
    \/ \E t \in Tasks, a \in Apps : Submit(t, a)
    \/ \E t \in Tasks : Begin(t) \/ Publish(t) \/ Succeed(t) \/ Abort({t})
    \/ Abort({t \in Tasks : status[t] = "running"})

Spec == Init /\ [][Next]_vars
=============================================================================
