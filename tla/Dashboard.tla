------------------------------- MODULE Dashboard ------------------------------
(***************************************************************************)
(* The read side of the task tables: the system overview, which             *)
(* DashboardService.GetOverview puts together from six queries, and a walk  *)
(* over the pages of the task list, while tasks are created, run and settle *)
(* and midnight passes.                                                     *)
(***************************************************************************)
EXTENDS Integers, FiniteSets, FiniteSetsExt

CONSTANTS
    MaxTasks,     \* bound: tasks ever created
    Apps,
    RiskLevels,   \* levels a completed task may give its app
    MaxNow,       \* bound: the clock, in hours
    HoursPerDay,  \* 24
    RecentLimit,  \* 7
    TopLimit,     \* 5
    PageSize,     \* rows of a page of the task list
    None          \* null value

ASSUME DashboardAssumption ==
    /\ {MaxTasks, MaxNow} \subseteq Nat
    /\ {HoursPerDay, RecentLimit, TopLimit, PageSize} \subseteq Nat \ {0}
    /\ RiskLevels \subseteq {"low", "medium", "high", "critical"}
    /\ None \notin 0 .. MaxNow

Tasks    == 1 .. MaxTasks
Times    == 0 .. MaxNow
Hours    == 0 .. HoursPerDay - 1
Statuses == {"queued", "running", "completed", "failed"}

VARIABLES
    now,                          \* the clock
    status, owner,                \* hardening_tasks; status "none": no such row
    created, started, finished,   \* its created_at, started_at and finished_at
    risk,                         \* apps.risk_level
    pc,                           \* which query GetOverview makes next
    view,                         \* what it has read
    walk                          \* a client walking over the task list

taskVars == <<status, owner, created, started, finished, risk>>
vars     == <<now, taskVars, pc, view, walk>>

Exists(t) == status[t] # "none"

EmptyView ==
    [since |-> 0, counts |-> [s \in Statuses |-> 0], hourly |-> [h \in Hours |-> 0],
     avg |-> None, queue |-> 0, recent |-> {}, top |-> <<>>]

NoWalk == [page |-> 0, old |-> {}, seen |-> {}, last |-> FALSE]

Queries == {"counts", "hourly", "average", "queue", "recent", "top"}

TypeOK ==
    /\ now \in Times
    /\ status \in [Tasks -> Statuses \cup {"none"}]
    /\ owner \in [Tasks -> Apps \cup {None}]
    /\ created \in [Tasks -> Times]
    /\ \A f \in {started, finished} : f \in [Tasks -> Times \cup {None}]
    /\ risk \in [Apps -> RiskLevels \cup {None}]
    /\ pc \in Queries \cup {"idle", "done"}
    /\ view.avg \in Times \cup {None}
    /\ \A row \in view.recent : row.duration \in Times \cup {None}
    /\ walk.page \in 0 .. MaxTasks + 2

Init ==
    /\ now = 0
    /\ status = [t \in Tasks |-> "none"]
    /\ owner = [t \in Tasks |-> None]
    /\ created = [t \in Tasks |-> 0]
    /\ started = [t \in Tasks |-> None]
    /\ finished = [t \in Tasks |-> None]
    /\ risk = [a \in Apps |-> None]
    /\ pc = "idle"
    /\ view = EmptyView
    /\ walk = NoWalk

-----------------------------------------------------------------------------
(* What happens to tasks meanwhile.                                         *)

Tick ==
    /\ now < MaxNow
    /\ now' = now + 1
    /\ UNCHANGED <<taskVars, pc, view, walk>>

(* created_at is set before the transaction commits.                        *)
Submit(t, a) ==
    /\ ~Exists(t)
    /\ \A u \in Tasks : u < t => Exists(u)
    /\ \A u \in Tasks : owner[u] = a => status[u] \notin {"queued", "running"}
    /\ status'  = [status EXCEPT ![t] = "queued"]
    /\ owner'   = [owner EXCEPT ![t] = a]
    /\ \E at \in Times \cap {now - 1, now} : created' = [created EXCEPT ![t] = at]
    /\ UNCHANGED <<now, started, finished, risk, pc, view, walk>>

MarkTaskRunning(t) ==
    /\ status[t] = "queued"
    /\ status'  = [status EXCEPT ![t] = "running"]
    /\ started' = [started EXCEPT ![t] = now]
    /\ UNCHANGED <<now, owner, created, finished, risk, pc, view, walk>>

CompleteTaskForApp(t) ==
    /\ status[t] = "running"
    /\ status'   = [status EXCEPT ![t] = "completed"]
    /\ finished' = [finished EXCEPT ![t] = now]
    /\ \E l \in RiskLevels : risk' = [risk EXCEPT ![owner[t]] = l]
    /\ UNCHANGED <<now, owner, created, started, pc, view, walk>>

(* Mutant: the end is not written with the status.                          *)
FailTaskForAppUndated(t) ==
    /\ status[t] = "running"
    /\ status' = [status EXCEPT ![t] = "failed"]
    /\ UNCHANGED <<now, owner, created, started, finished, risk, pc, view, walk>>

(* FailTaskForApp, and RecoverRunningTasks after a crash.                   *)
FailTaskForApp(t) ==
    /\ status[t] = "running"
    /\ status'   = [status EXCEPT ![t] = "failed"]
    /\ finished' = [finished EXCEPT ![t] = now]
    /\ UNCHANGED <<now, owner, created, started, risk, pc, view, walk>>

-----------------------------------------------------------------------------
(* The repository's queries, each a snapshot of its own.                    *)

Since(at) == {t \in Tasks : Exists(t) /\ created[t] >= at}

CountByStatusSince(at) ==
    [s \in Statuses |-> Cardinality({t \in Since(at) : status[t] = s})]

(* Mutant: the comparison leaves out what was created at midnight.          *)
HourlyCountsSinceStrict(at) ==
    [h \in Hours |-> Cardinality({t \in Since(at + 1) : created[t] % HoursPerDay = h})]

(* Mutant: the tasks of every day are counted.                              *)
HourlyCountsEver(at) ==
    [h \in Hours |-> Cardinality({t \in Since(0) : created[t] % HoursPerDay = h})]

HourlyCountsSince(at) ==
    [h \in Hours |-> Cardinality({t \in Since(at) : created[t] % HoursPerDay = h})]

(* Mutant: the operands are swapped.                                        *)
DurationBackwards(t) == IF started[t] = None \/ finished[t] = None THEN None
                        ELSE started[t] - finished[t]

Duration(t) == IF started[t] = None \/ finished[t] = None THEN None
               ELSE finished[t] - started[t]

(* math.Round of the mean; None: no task to average over.                   *)
AverageCompletedDurationSince(at) ==
    LET windows == {t \in Since(at) : status[t] = "completed" /\ Duration(t) # None}
        n       == Cardinality(windows)
        total   == MapThenSumSet(LAMBDA t : Duration(t), windows)
    IN IF n = 0 THEN None ELSE (2 * total + n) \div (2 * n)

QueueCount == Cardinality({t \in Tasks : status[t] \in {"queued", "running"}})

Listed == {t \in Tasks : Exists(t)}

(* ORDER BY created_at DESC, id DESC.                                       *)
Newer(u, t) == \/ created[u] > created[t]
               \/ created[u] = created[t] /\ u > t

(* The row of a task in the ordered table.                                  *)
Position(t) == Cardinality({u \in Listed : Newer(u, t)}) + 1

Rows(first, last) == {t \in Listed : Position(t) \in first .. last}

Recent(limit) ==
    {[task |-> t, status |-> status[t], duration |-> Duration(t)] : t \in Rows(1, limit)}

rank(l) == CASE l = "critical" -> 4 [] l = "high" -> 3 [] l = "medium" -> 2 [] OTHER -> 1

riskLevelDisplayScore(l) ==
    CASE l = "critical" -> 90 [] l = "high" -> 65 [] l = "medium" -> 40 [] OTHER -> 15

(* Mutant: ORDER BY the text of risk_level.                                 *)
TopByRiskLevelText(limit) ==
    LET text(l) == CASE l = "critical" -> 1 [] l = "high" -> 2 [] l = "low" -> 3 [] OTHER -> 4
        rated   == {a \in Apps : risk[a] # None}
        n       == Min({limit, Cardinality(rated)})
    IN {s \in [1 .. n -> rated] :
          \A i, j \in 1 .. n : i < j => /\ s[i] # s[j]
                                       /\ text(risk[s[i]]) >= text(risk[s[j]])}

(* The answers the ordering allows: apps of the same level come in any      *)
(* order (updated_at DESC in the code).                                     *)
TopByRiskLevel(limit) ==
    LET rated == {a \in Apps : risk[a] # None}
        n     == Min({limit, Cardinality(rated)})
    IN {s \in [1 .. n -> rated] :
          /\ \A i, j \in 1 .. n : i < j => /\ s[i] # s[j]
                                          /\ rank(risk[s[i]]) >= rank(risk[s[j]])
          /\ \A i \in 1 .. n, a \in rated \ {s[j] : j \in 1 .. n} :
                rank(risk[s[i]]) >= rank(risk[a])}

-----------------------------------------------------------------------------
(* GetOverview: "today" is fixed first, then one query after the other.     *)

Begin ==
    /\ pc = "idle" /\ walk = NoWalk
    /\ pc' = "counts"
    /\ view' = [EmptyView EXCEPT !.since = now - (now % HoursPerDay)]
    /\ UNCHANGED <<now, taskVars, walk>>

Query(this, next, answer) ==
    /\ pc = this
    /\ pc' = next
    /\ view' = answer
    /\ UNCHANGED <<now, taskVars, walk>>

ReadCounts  == Query("counts", "hourly",
                     [view EXCEPT !.counts = CountByStatusSince(view.since)])
ReadHourly  == Query("hourly", "average",
                     [view EXCEPT !.hourly = HourlyCountsSince(view.since)])
ReadAverage == Query("average", "queue",
                     [view EXCEPT !.avg = AverageCompletedDurationSince(view.since)])
ReadQueue   == Query("queue", "recent", [view EXCEPT !.queue = QueueCount])
ReadRecent  == Query("recent", "top", [view EXCEPT !.recent = Recent(RecentLimit)])
ReadTop     ==
    \E apps \in TopByRiskLevel(TopLimit) :
    Query("top", "done",
          [view EXCEPT !.top = [i \in DOMAIN apps |->
               [app |-> apps[i], score |-> riskLevelDisplayScore(risk[apps[i]])]]])

(* The answer is sent, or a query fails and there is none.                  *)
Close ==
    /\ pc # "idle"
    /\ pc' = "idle"
    /\ view' = EmptyView
    /\ UNCHANGED <<now, taskVars, walk>>

-----------------------------------------------------------------------------
(* A client asks for one page after the other until one is not full.        *)

(* Mutant: pages are counted from 0.                                        *)
PageFromZero(p) == Rows(p * PageSize + 1, (p + 1) * PageSize)

Page(p) == Rows((p - 1) * PageSize + 1, p * PageSize)

WalkBegin ==
    /\ pc = "idle" /\ walk = NoWalk
    /\ walk' = [NoWalk EXCEPT !.page = 1, !.old = {t \in Tasks : Exists(t)}]
    /\ UNCHANGED <<now, taskVars, pc, view>>

List ==
    /\ walk.page > 0 /\ ~walk.last
    /\ walk' = [walk EXCEPT !.page = @ + 1,
                            !.seen = @ \cup Page(walk.page),
                            !.last = Cardinality(Page(walk.page)) < PageSize]
    /\ UNCHANGED <<now, taskVars, pc, view>>

WalkEnd ==
    /\ walk.last
    /\ walk' = NoWalk
    /\ UNCHANGED <<now, taskVars, pc, view>>

-----------------------------------------------------------------------------
Next ==
    \/ Tick
    \/ \E t \in Tasks, a \in Apps : Submit(t, a)
    \/ \E t \in Tasks : MarkTaskRunning(t) \/ CompleteTaskForApp(t) \/ FailTaskForApp(t)
    \/ Begin \/ ReadCounts \/ ReadHourly \/ ReadAverage \/ ReadQueue \/ ReadRecent
    \/ ReadTop \/ Close
    \/ WalkBegin \/ List \/ WalkEnd

Spec == Init /\ [][Next]_vars

-----------------------------------------------------------------------------
Done   == pc = "done"
Trend  == MapThenSumSet(LAMBDA h : view.hourly[h], Hours)
Today  == MapThenSumSet(LAMBDA s : view.counts[s], Statuses)

(* The overview's numbers come from different moments and still fit         *)
(* together: the trend covers every task that is counted, whenever a        *)
(* success is counted there is an average duration, and a task counted as   *)
(* processing is in the queue's length too unless it has settled since.     *)
NumbersFit ==
    LET settled == {t \in Since(view.since) : status[t] \in {"completed", "failed"}} IN
    Done => /\ Trend >= Today
            /\ view.counts["completed"] > 0 => view.avg # None
            /\ Today <= view.queue + Cardinality(settled)

(* As long as midnight does not pass during the call, the trend holds the   *)
(* tasks of today's hours, none in an hour still to come and none of        *)
(* another day.                                                             *)
TrendIsToday ==
    Done /\ now < view.since + HoursPerDay =>
        \A h \in Hours :
            view.hourly[h] <= Cardinality({t \in Since(0) : created[t] = view.since + h})

(* A recent task is shown with a duration exactly when it is shown as       *)
(* settled, and the duration is never negative.                             *)
RecentIsSettled ==
    Done => \A row \in view.recent :
              /\ row.duration # None <=> row.status \in {"completed", "failed"}
              /\ row.duration # None => row.duration >= 0

(* The bars of the risk list never grow from one app to the next, though    *)
(* the order comes from the database and the score from a table of its own. *)
TopIsOrdered ==
    Done => \A i, j \in DOMAIN view.top :
              i < j => view.top[i].score >= view.top[j].score

(* A walk over the pages misses no task that was there when it began,       *)
(* although new tasks push the old ones to later pages.                     *)
WalkMissesNothing == walk.last => walk.old \subseteq walk.seen
=============================================================================
