---------------------------- MODULE DashboardProof ----------------------------
(***************************************************************************)
(* What the overview and the pages of the task list show, for every number  *)
(* of tasks, apps, rows and hours.                                          *)
(***************************************************************************)
EXTENDS Dashboard, FiniteSetTheorems, TLAPS

Clock ==
    /\ now \in Nat
    /\ status \in [Tasks -> Statuses \cup {"none"}]
    /\ created \in [Tasks -> Times]
    /\ \A t \in Tasks : Exists(t) => created[t] <= now

(* The tasks created in one hour.  Rows stay and keep their created_at, so  *)
(* it never shrinks.                                                        *)
OfHour(at) == {t \in Since(0) : created[t] = at}

IsView == view = [since |-> view.since, counts |-> view.counts, hourly |-> view.hourly,
                  avg |-> view.avg, queue |-> view.queue, recent |-> view.recent,
                  top |-> view.top]

(* The queries made after HourlyCountsSince.                                *)
Later == {"average", "queue", "recent", "top", "done"}

(* What GetOverview has fixed and read.  "Today" is a midnight, and the     *)
(* counts are of its hours unless the next midnight has passed.             *)
TrendInv ==
    /\ Clock
    /\ IsView
    /\ pc # "idle" => \E k \in Nat : view.since = k * HoursPerDay
    /\ pc \in Later => \A h \in Hours : view.hourly[h] \in Nat
    /\ pc \in Later /\ now < view.since + HoursPerDay =>
          \A h \in Hours : view.hourly[h] <= Cardinality(OfHour(view.since + h))

-----------------------------------------------------------------------------
(* The hour of a time, and the midnight before it.                          *)
HourIn(n) == n % HoursPerDay

LEMMA Division ==
    ASSUME NEW n \in Nat, NEW H \in Nat \ {0}, NEW r, r = n % H
    PROVE  r \in 0 .. H - 1 /\ \E q \in Nat : n = q * H + r
<1>1. n - (n % H) = (n \div H) * H /\ n \div H \in Nat
  OBVIOUS
<1>2. n % H \in 0 .. H - 1
  OBVIOUS
<1>3. PICK q \in Nat : n - (n % H) = q * H
  BY <1>1
<1>4. r \in 0 .. H - 1
  BY <1>2
<1>5. n - r = q * H /\ q * H \in Nat
  BY <1>3, <1>4
<1>6. n = q * H + r
  BY <1>4, <1>5
<1>7. QED
  BY <1>4, <1>6

LEMMA HourOf ==
    ASSUME NEW n \in Nat
    PROVE  \E q \in Nat : n = q * HoursPerDay + HourIn(n)
<1>1. HoursPerDay \in Nat \ {0}
  BY DashboardAssumption
<1>2. HourIn(n) = n % HoursPerDay
  BY DEF HourIn
<1>3. QED
  BY <1>1, <1>2, Division

(* A time has one day and one hour.                                         *)
LEMMA OneHour ==
    ASSUME NEW k \in Nat, NEW q \in Nat, NEW H \in Nat \ {0},
           NEW r \in 0 .. H - 1, NEW d \in 0 .. H - 1,
           k * H + d = q * H + r
    PROVE  d = r
<1>1. CASE k = q
  BY <1>1
<1>2. CASE k > q
  <2>1. PICK j \in Nat : k = q + 1 + j
    BY <1>2
  <2>2. k * H = q * H + H + j * H
    BY <2>1
  <2>3. k * H \in Nat /\ q * H \in Nat /\ j * H \in Nat
    BY <2>1
  <2>4. QED
    BY <2>2, <2>3
<1>3. CASE q > k
  <2>1. PICK j \in Nat : q = k + 1 + j
    BY <1>3
  <2>2. q * H = k * H + H + j * H
    BY <2>1
  <2>3. k * H \in Nat /\ q * H \in Nat /\ j * H \in Nat
    BY <2>1
  <2>4. QED
    BY <2>2, <2>3
<1>4. QED
  BY <1>1, <1>2, <1>3

LEMMA HourSets ==
    /\ \A S \in SUBSET Tasks : IsFiniteSet(S) /\ Cardinality(S) \in Nat
    /\ \A S, T \in SUBSET Tasks : S \subseteq T => Cardinality(S) <= Cardinality(T)
    /\ \A at : OfHour(at) \subseteq Tasks
<1>1. IsFiniteSet(Tasks)
  <2>1. 1 \in Int /\ MaxTasks \in Int
    BY DashboardAssumption
  <2>2. QED
    BY <2>1, FS_Interval DEF Tasks
<1>2. \A S \in SUBSET Tasks : IsFiniteSet(S)
  BY <1>1, FS_Subset
<1>3. \A S \in SUBSET Tasks : Cardinality(S) \in Nat
  BY <1>2, FS_CardinalityType
<1>4. ASSUME NEW S \in SUBSET Tasks, NEW T \in SUBSET Tasks, S \subseteq T
      PROVE  Cardinality(S) <= Cardinality(T)
  BY <1>2, <1>4, FS_Subset
<1>5. \A at : OfHour(at) \subseteq Tasks
  BY DEF OfHour, Since
<1>6. QED
  BY <1>2, <1>3, <1>4, <1>5

(* A snapshot that is taken before midnight counts an hour's tasks only.    *)
LEMMA Snapshot ==
    ASSUME Clock, NEW k \in Nat, NEW since, since = k * HoursPerDay,
           NEW h \in Hours
    PROVE  /\ HourlyCountsSince(since)[h] \in Nat
           /\ now < since + HoursPerDay =>
                HourlyCountsSince(since)[h] <= Cardinality(OfHour(since + h))
<1> DEFINE S == {t \in Since(since) : created[t] % HoursPerDay = h}
<1>1. HourlyCountsSince(since)[h] = Cardinality(S) /\ S \in SUBSET Tasks
  BY DEF HourlyCountsSince, Since
<1>2. HoursPerDay \in Nat \ {0} /\ since \in Nat
  BY DashboardAssumption
<1>3. ASSUME now < since + HoursPerDay, NEW t \in S
      PROVE  t \in OfHour(since + h)
  <2>1. /\ t \in Tasks /\ Exists(t) /\ created[t] \in Nat
        /\ since <= created[t] /\ created[t] <= now /\ h = HourIn(created[t])
    BY DEF Since, Clock, Times, HourIn
  <2>2. PICK q \in Nat : created[t] = q * HoursPerDay + h
    BY <2>1, HourOf
  <2>3. now \in Nat
    BY DEF Clock
  <2>4. PICK d \in 0 .. HoursPerDay - 1 : created[t] = since + d
    <3>1. created[t] - since \in 0 .. HoursPerDay - 1
      BY <1>2, <1>3, <2>1, <2>3
    <3>2. created[t] = since + (created[t] - since)
      BY <1>2, <2>1
    <3>3. QED
      BY <3>1, <3>2
  <2>5. k * HoursPerDay + d = q * HoursPerDay + h
    BY <2>2, <2>4
  <2>6. d = h
    BY <1>2, <2>2, <2>5, OneHour DEF Hours
  <2>7. QED
    BY <2>1, <2>4, <2>6 DEF OfHour, Since
<1>4. QED
  BY <1>1, <1>3, HourSets

(* The clock and the tables go on, and an hour's tasks stay.                *)
LEMMA ClockStep ==
    ASSUME Clock, [Next]_vars
    PROVE  /\ Clock' /\ now <= now'
           /\ \A at : OfHour(at) \subseteq OfHour(at)'
<1> DEFINE Goal == /\ Clock' /\ now <= now'
                   /\ \A at : OfHour(at) \subseteq OfHour(at)'
<1>1. CASE UNCHANGED <<now, status, created>>
  BY <1>1 DEF Clock, Exists, OfHour, Since
<1>2. CASE Tick
  <2>1. now' = now + 1 /\ UNCHANGED <<status, created>>
    BY <1>2 DEF Tick, taskVars
  <2>2. \A t \in Tasks : created[t] \in Nat
    BY DEF Clock, Times
  <2>3. Clock' /\ now <= now'
    BY <2>1, <2>2 DEF Clock, Exists
  <2>4. QED
    BY <2>1, <2>3 DEF OfHour, Since, Exists
<1>3. ASSUME NEW t \in Tasks, NEW a \in Apps, Submit(t, a)
      PROVE  Goal
  <2>1. PICK at \in Times : at <= now /\ created' = [created EXCEPT ![t] = at]
    <3>1. PICK at \in Times \cap {now - 1, now} : created' = [created EXCEPT ![t] = at]
      BY <1>3 DEF Submit
    <3>2. now - 1 <= now /\ now <= now
      BY DEF Clock
    <3>3. QED
      BY <3>1, <3>2
  <2>2. /\ ~Exists(t) /\ status' = [status EXCEPT ![t] = "queued"] /\ now' = now
    BY <1>3 DEF Submit
  <2>3. Clock' /\ now <= now'
    BY <2>1, <2>2 DEF Clock, Statuses, Exists
  <2>4. \A u \in Tasks : Exists(u) => Exists(u)' /\ created'[u] = created[u]
    BY <2>1, <2>2 DEF Clock, Exists
  <2>5. QED
    BY <2>3, <2>4 DEF OfHour, Since
<1>4. ASSUME NEW t \in Tasks,
             MarkTaskRunning(t) \/ CompleteTaskForApp(t) \/ FailTaskForApp(t)
      PROVE  Goal
  <2>1. PICK s \in Statuses : status' = [status EXCEPT ![t] = s]
    BY <1>4 DEF MarkTaskRunning, CompleteTaskForApp, FailTaskForApp, Statuses
  <2>2. Exists(t) /\ UNCHANGED <<now, created>>
    BY <1>4 DEF MarkTaskRunning, CompleteTaskForApp, FailTaskForApp, Exists
  <2>3. Clock' /\ now <= now'
    BY <2>1, <2>2 DEF Clock, Exists
  <2>4. \A u \in Tasks : Exists(u) => Exists(u)' /\ created'[u] = created[u]
    BY <2>1, <2>2 DEF Clock, Exists, Statuses
  <2>5. QED
    BY <2>3, <2>4 DEF OfHour, Since
<1>5. CASE \/ Begin \/ ReadCounts \/ ReadHourly \/ ReadAverage \/ ReadQueue \/ ReadRecent
           \/ ReadTop \/ Close \/ WalkBegin \/ List \/ WalkEnd
  BY <1>1, <1>5 DEF Begin, ReadCounts, ReadHourly, ReadAverage, ReadQueue, ReadRecent,
     ReadTop, Query, Close, WalkBegin, List, WalkEnd, taskVars
<1>6. QED
  BY <1>1, <1>2, <1>3, <1>4, <1>5 DEF Next, vars, taskVars

(* What was read stays true: an hour's tasks only become more.              *)
LEMMA TrendStays ==
    ASSUME TrendInv, [Next]_vars, IsView',
           pc # "idle", view'.since = view.since, view'.hourly = view.hourly,
           pc' \in Later => pc \in Later
    PROVE  TrendInv'
<1>1. /\ Clock' /\ now <= now'
      /\ \A at : OfHour(at) \subseteq OfHour(at)'
  BY ClockStep DEF TrendInv
<1>2. PICK k \in Nat : view.since = k * HoursPerDay
  BY DEF TrendInv
<1>3. view.since \in Nat /\ HoursPerDay \in Nat /\ now \in Nat /\ now' \in Nat
  BY <1>1, <1>2, DashboardAssumption DEF TrendInv, Clock
<1>4. ASSUME pc' \in Later, now' < view'.since + HoursPerDay, NEW h \in Hours
      PROVE  (view.hourly[h] <= Cardinality(OfHour(view.since + h)))'
  <2>1. /\ view.hourly[h] \in Nat
        /\ view.hourly[h] <= Cardinality(OfHour(view.since + h))
    BY <1>1, <1>3, <1>4 DEF TrendInv
  <2>2. PICK a : a = view.since + h
    OBVIOUS
  <2>3. OfHour(a) \subseteq OfHour(a)' /\ OfHour(a)' \subseteq Tasks
    BY <1>1 DEF OfHour, Since
  <2>4. /\ Cardinality(OfHour(a)) <= Cardinality(OfHour(a)')
        /\ Cardinality(OfHour(a)) \in Nat /\ Cardinality(OfHour(a)') \in Nat
    BY <2>3, HourSets
  <2>5. view.hourly[h] <= Cardinality(OfHour(a)')
    BY <2>1, <2>2, <2>4
  <2>6. OfHour(view.since + h)' = OfHour(a)'
    BY <2>2 DEF OfHour
  <2>7. QED
    BY <2>5, <2>6
<1>5. QED
  BY <1>1, <1>2, <1>4 DEF TrendInv

LEMMA TrendStep ==
    ASSUME TrendInv, [Next]_vars
    PROVE  TrendInv'
<1>1. /\ Clock' /\ now <= now'
      /\ \A at : OfHour(at) \subseteq OfHour(at)'
  BY ClockStep DEF TrendInv
<1>2. CASE UNCHANGED <<pc, view>>
  <2>1. IsView'
    BY <1>2 DEF TrendInv, IsView
  <2>2. CASE pc = "idle"
    BY <1>1, <1>2, <2>1, <2>2 DEF TrendInv, Later
  <2>3. CASE pc # "idle"
    BY <1>2, <2>1, <2>3, TrendStays
  <2>4. QED
    BY <2>2, <2>3
<1>3. CASE Begin
  <2>1. /\ pc' = "counts" /\ IsView'
        /\ view'.since = now - (now % HoursPerDay)
    BY <1>3 DEF Begin, EmptyView, IsView
  <2>2. \E k \in Nat : view'.since = k * HoursPerDay
    <3>1. PICK n \in Nat : n = now
      BY DEF TrendInv, Clock
    <3>2. PICK q \in Nat : n = q * HoursPerDay + HourIn(n)
      BY HourOf
    <3>3. q * HoursPerDay \in Nat /\ HourIn(n) \in Int
      BY DashboardAssumption DEF HourIn
    <3>4. view'.since = n - HourIn(n)
      BY <2>1, <3>1 DEF HourIn
    <3>5. QED
      BY <3>2, <3>3, <3>4
  <2>3. QED
    BY <1>1, <2>1, <2>2 DEF TrendInv, Later
<1>4. CASE Close
  BY <1>1, <1>4 DEF Close, TrendInv, Later, EmptyView, IsView
<1>5. CASE ReadHourly
  <2> DEFINE counts == HourlyCountsSince(view.since)
  <2>1. /\ pc = "hourly" /\ pc' = "average" /\ UNCHANGED <<now, status, created>>
        /\ view' = [view EXCEPT !.hourly = counts]
    BY <1>5 DEF ReadHourly, Query, taskVars
  <2>2. IsView' /\ view'.since = view.since /\ view'.hourly = counts
    BY <2>1 DEF TrendInv, IsView
  <2>3. PICK k \in Nat : view.since = k * HoursPerDay
    BY <2>1 DEF TrendInv
  <2>4. \A h \in Hours :
          /\ counts[h] \in Nat
          /\ now < view.since + HoursPerDay =>
               counts[h] <= Cardinality(OfHour(view.since + h))
    BY <2>3, Snapshot DEF TrendInv
  <2>5. \A h \in Hours : OfHour(view.since + h)' = OfHour(view.since + h)
    BY <2>1, <2>2 DEF OfHour, Since, Exists
  <2>6. QED
    BY <1>1, <2>1, <2>2, <2>3, <2>4, <2>5 DEF TrendInv
<1>6. CASE ReadCounts \/ ReadAverage \/ ReadQueue \/ ReadRecent \/ ReadTop
  <2>1. /\ pc # "idle" /\ (pc' \in Later => pc \in Later)
        /\ \E x : \/ view' = [view EXCEPT !.counts = x]
                  \/ view' = [view EXCEPT !.avg = x]
                  \/ view' = [view EXCEPT !.queue = x]
                  \/ view' = [view EXCEPT !.recent = x]
                  \/ view' = [view EXCEPT !.top = x]
    BY <1>6 DEF ReadCounts, ReadAverage, ReadQueue, ReadRecent, ReadTop, Query, Later
  <2>2. IsView' /\ view'.since = view.since /\ view'.hourly = view.hourly
    BY <2>1 DEF TrendInv, IsView
  <2>3. QED
    BY <2>1, <2>2, TrendStays
<1>7. QED
  BY <1>2, <1>3, <1>4, <1>5, <1>6
     DEF Next, vars, Tick, Submit, MarkTaskRunning, CompleteTaskForApp, FailTaskForApp,
         WalkBegin, List, WalkEnd

(* As long as midnight does not pass during the call, the trend of the      *)
(* overview holds the tasks of today's hours only, whatever is created,     *)
(* run and settled between its queries.                                     *)
THEOREM TrendIsTodayAlways == Spec => []TrendIsToday
<1>1. Init => TrendInv
  BY DashboardAssumption DEF Init, TrendInv, Clock, IsView, EmptyView, Exists, Later, Times
<1>2. TrendInv /\ [Next]_vars => TrendInv'
  BY TrendStep
<1>3. TrendInv => TrendIsToday
  BY DEF TrendInv, TrendIsToday, Done, Later, OfHour
<1>4. QED
  BY <1>1, <1>2, <1>3, PTL DEF Spec

-----------------------------------------------------------------------------
(* What a step does to the view when it does not make the query of interest.*)
LEMMA ViewStep ==
    ASSUME IsView, [Next]_vars
    PROVE  /\ IsView'
           /\ \/ pc' = "idle"
              \/ pc' = pc /\ view' = view
              \/ Begin \/ ReadRecent \/ ReadTop
              \/ /\ pc' \notin {"top", "done"}
                 /\ view'.recent = view.recent /\ view'.top = view.top
<1> DEFINE Goal == /\ IsView'
                   /\ \/ pc' = "idle"
                      \/ pc' = pc /\ view' = view
                      \/ Begin \/ ReadRecent \/ ReadTop
                      \/ /\ pc' \notin {"top", "done"}
                         /\ view'.recent = view.recent /\ view'.top = view.top
<1>1. CASE UNCHANGED <<pc, view>>
  BY <1>1 DEF IsView
<1>2. CASE Begin \/ Close
  BY <1>2 DEF Begin, Close, EmptyView, IsView
<1>3. CASE ReadCounts \/ ReadHourly \/ ReadAverage \/ ReadQueue
  <2>1. /\ pc' \notin {"top", "done"}
        /\ \E x : \/ view' = [view EXCEPT !.counts = x]
                  \/ view' = [view EXCEPT !.hourly = x]
                  \/ view' = [view EXCEPT !.avg = x]
                  \/ view' = [view EXCEPT !.queue = x]
    BY <1>3 DEF ReadCounts, ReadHourly, ReadAverage, ReadQueue, Query
  <2>2. QED
    BY <2>1 DEF IsView
<1>4. CASE ReadRecent \/ ReadTop
  <2>1. \E x : \/ view' = [view EXCEPT !.recent = x]
               \/ view' = [view EXCEPT !.top = x]
    BY <1>4 DEF ReadRecent, ReadTop, Query
  <2>2. QED
    BY <1>4, <2>1 DEF IsView
<1>5. QED
  BY <1>1, <1>2, <1>3, <1>4
     DEF Next, vars, Tick, Submit, MarkTaskRunning, CompleteTaskForApp, FailTaskForApp,
         WalkBegin, List, WalkEnd

-----------------------------------------------------------------------------
(* The order of the query and the table of scores agree.                    *)
LEMMA RankFitsScore ==
    ASSUME NEW k, NEW l, rank(k) >= rank(l)
    PROVE  riskLevelDisplayScore(k) >= riskLevelDisplayScore(l)
<1>1. CASE k = "critical"
  BY <1>1 DEF rank, riskLevelDisplayScore
<1>2. CASE k = "high"
  BY <1>2 DEF rank, riskLevelDisplayScore
<1>3. CASE k = "medium"
  BY <1>3 DEF rank, riskLevelDisplayScore
<1>4. CASE k \notin {"critical", "high", "medium"}
  BY <1>4 DEF rank, riskLevelDisplayScore
<1>5. QED
  BY <1>1, <1>2, <1>3, <1>4

TopInv == IsView /\ TopIsOrdered

LEMMA TopStep ==
    ASSUME TopInv, [Next]_vars
    PROVE  TopInv'
<1>1. IsView'
  BY ViewStep DEF TopInv
<1>2. CASE ReadTop
  <2>1. PICK apps \in TopByRiskLevel(TopLimit) :
          view' = [view EXCEPT !.top = [i \in DOMAIN apps |->
                     [app |-> apps[i], score |-> riskLevelDisplayScore(risk[apps[i]])]]]
    BY <1>2 DEF ReadTop, Query
  <2>2. view'.top = [i \in DOMAIN apps |->
                       [app |-> apps[i], score |-> riskLevelDisplayScore(risk[apps[i]])]]
    BY <2>1 DEF TopInv, IsView
  <2>3. \A i, j \in DOMAIN apps : i < j => rank(risk[apps[i]]) >= rank(risk[apps[j]])
    BY <2>1 DEF TopByRiskLevel
  <2>4. \A i, j \in DOMAIN apps :
          i < j => riskLevelDisplayScore(risk[apps[i]]) >= riskLevelDisplayScore(risk[apps[j]])
    BY <2>3, RankFitsScore
  <2>5. QED
    BY <1>1, <2>2, <2>4 DEF TopInv, TopIsOrdered
<1>3. CASE ~ReadTop
  <2>1. pc' = "done" => pc' = pc /\ view' = view
    BY <1>3, ViewStep DEF TopInv, Begin, ReadRecent, Query
  <2>2. QED
    BY <1>1, <2>1 DEF TopInv, TopIsOrdered, Done
<1>4. QED
  BY <1>2, <1>3

(* The bars of the risk list never grow from one app to the next: the order *)
(* of TopByRiskLevel and the scores of riskLevelDisplayScore agree for any  *)
(* apps, levels and length of the list.                                     *)
THEOREM TopIsOrderedAlways == Spec => []TopIsOrdered
<1>1. Init => TopInv
  BY DEF Init, TopInv, TopIsOrdered, Done, IsView, EmptyView
<1>2. TopInv /\ [Next]_vars => TopInv'
  BY TopStep
<1>3. TopInv => TopIsOrdered
  BY DEF TopInv
<1>4. QED
  BY <1>1, <1>2, <1>3, PTL DEF Spec

-----------------------------------------------------------------------------
(* The times of a task follow from its status.                              *)
Dated(t) ==
    /\ status[t] \in {"none", "queued"} => started[t] = None /\ finished[t] = None
    /\ status[t] = "running" =>
         started[t] \in Times /\ started[t] <= now /\ finished[t] = None
    /\ status[t] \in {"completed", "failed"} =>
         /\ started[t] \in Times /\ finished[t] \in Times
         /\ started[t] <= finished[t]

TimesInv ==
    /\ now \in Times
    /\ status \in [Tasks -> Statuses \cup {"none"}]
    /\ started \in [Tasks -> Times \cup {None}]
    /\ finished \in [Tasks -> Times \cup {None}]
    /\ \A t \in Tasks : Dated(t)

Shown(row) ==
    /\ row.duration # None <=> row.status \in {"completed", "failed"}
    /\ row.duration # None => row.duration >= 0

RecentInv ==
    /\ IsView
    /\ TimesInv
    /\ pc \in {"top", "done"} => \A row \in view.recent : Shown(row)

LEMMA TimesStep ==
    ASSUME TimesInv, [Next]_vars
    PROVE  TimesInv'
<1> USE DEF Times
<1>n. MaxNow \in Nat /\ None \notin Times
  BY DashboardAssumption
<1>1. CASE UNCHANGED <<now, status, started, finished>>
  BY <1>1 DEF TimesInv, Dated
<1>2. CASE Tick
  BY <1>n, <1>2 DEF Tick, taskVars, TimesInv, Dated
<1>3. ASSUME NEW t \in Tasks, NEW a \in Apps, Submit(t, a)
      PROVE  TimesInv'
  BY <1>3 DEF Submit, TimesInv, Dated, Exists, Statuses
<1>4. ASSUME NEW t \in Tasks, MarkTaskRunning(t)
      PROVE  TimesInv'
  BY <1>n, <1>4 DEF MarkTaskRunning, TimesInv, Dated, Statuses
<1>5. ASSUME NEW t \in Tasks, CompleteTaskForApp(t) \/ FailTaskForApp(t)
      PROVE  TimesInv'
  <2>1. PICK s \in {"completed", "failed"} : status' = [status EXCEPT ![t] = s]
    BY <1>5 DEF CompleteTaskForApp, FailTaskForApp
  <2>2. /\ status[t] = "running" /\ finished' = [finished EXCEPT ![t] = now]
        /\ UNCHANGED <<now, started>>
    BY <1>5 DEF CompleteTaskForApp, FailTaskForApp
  <2>3. QED
    BY <1>n, <2>1, <2>2 DEF TimesInv, Dated, Statuses
<1>6. CASE \/ Begin \/ ReadCounts \/ ReadHourly \/ ReadAverage \/ ReadQueue \/ ReadRecent
           \/ ReadTop \/ Close \/ WalkBegin \/ List \/ WalkEnd
  BY <1>1, <1>6 DEF Begin, ReadCounts, ReadHourly, ReadAverage, ReadQueue, ReadRecent,
     ReadTop, Query, Close, WalkBegin, List, WalkEnd, taskVars
<1>7. QED
  BY <1>1, <1>2, <1>3, <1>4, <1>5, <1>6 DEF Next, vars, taskVars

(* One snapshot shows a task's status and its two times together.           *)
LEMMA RowIsShown ==
    ASSUME TimesInv, NEW t \in Listed, NEW row,
           row = [task |-> t, status |-> status[t], duration |-> Duration(t)]
    PROVE  Shown(row)
<1>1. t \in Tasks /\ status[t] \in Statuses /\ Dated(t)
  BY DEF Listed, Exists, TimesInv
<1>2. MaxNow \in Nat /\ None \notin Times
  BY DashboardAssumption DEF Times
<1>3. CASE status[t] \in {"queued", "running"}
  BY <1>1, <1>3 DEF Shown, Duration, Dated
<1>4. CASE status[t] \in {"completed", "failed"}
  <2>1. /\ started[t] \in Times /\ finished[t] \in Times
        /\ started[t] <= finished[t]
    BY <1>1, <1>4 DEF Dated
  <2>2. finished[t] - started[t] \in Times
    BY <1>2, <2>1 DEF Times
  <2>3. Duration(t) = finished[t] - started[t]
    BY <1>2, <2>1 DEF Duration
  <2>4. QED
    BY <1>2, <1>4, <2>2, <2>3 DEF Shown, Times
<1>5. QED
  BY <1>1, <1>3, <1>4 DEF Statuses

LEMMA RecentStep ==
    ASSUME RecentInv, [Next]_vars
    PROVE  RecentInv'
<1>1. IsView' /\ TimesInv'
  BY ViewStep, TimesStep DEF RecentInv
<1>2. CASE ReadRecent
  <2>1. view' = [view EXCEPT !.recent = Recent(RecentLimit)]
    BY <1>2 DEF ReadRecent, Query
  <2>2. view'.recent = Recent(RecentLimit)
    BY <2>1 DEF RecentInv, IsView
  <2>3. \A row \in Recent(RecentLimit) : Shown(row)
    BY RowIsShown DEF Recent, Rows, RecentInv
  <2>4. QED
    BY <1>1, <2>2, <2>3 DEF RecentInv, Shown
<1>3. CASE ~ReadRecent
  <2>1. pc' \in {"top", "done"} => pc \in {"top", "done"} /\ view'.recent = view.recent
    <3>1. CASE ReadTop
      <4>1. pc = "top" /\ \E x : view' = [view EXCEPT !.top = x]
        BY <3>1 DEF ReadTop, Query
      <4>2. QED
        BY <4>1 DEF RecentInv, IsView
    <3>2. QED
      BY <1>3, <3>1, ViewStep DEF RecentInv, Begin
  <2>2. QED
    BY <1>1, <2>1 DEF RecentInv, Shown
<1>4. QED
  BY <1>2, <1>3

(* A recent task is shown with a duration exactly when it is shown as       *)
(* settled, and never with a negative one: MarkTaskRunning writes the start *)
(* and every way to an end writes the end with the status.                  *)
THEOREM RecentIsSettledAlways == Spec => []RecentIsSettled
<1>1. Init => RecentInv
  BY DashboardAssumption
     DEF Init, RecentInv, TimesInv, Dated, Times, IsView, EmptyView
<1>2. RecentInv /\ [Next]_vars => RecentInv'
  BY RecentStep
<1>3. RecentInv => RecentIsSettled
  BY DEF RecentInv, RecentIsSettled, Done, Shown
<1>4. QED
  BY <1>1, <1>2, <1>3, PTL DEF Spec

-----------------------------------------------------------------------------
(* The rows of the ordered table are numbered without gaps.                 *)
LEMMA Ordered ==
    ASSUME Clock, NEW u \in Listed, NEW t \in Listed
    PROVE  /\ u # t => Newer(u, t) \/ Newer(t, u)
           /\ Newer(u, t) => Position(u) < Position(t)
<1> DEFINE Before(x) == {y \in Listed : Newer(y, x)}
<1>1. \A x \in Listed : x \in Int /\ created[x] \in Int
  BY DashboardAssumption DEF Listed, Clock, Tasks, Times
<1>2. u # t => Newer(u, t) \/ Newer(t, u)
  BY <1>1 DEF Newer
<1>3. ASSUME Newer(u, t)
      PROVE  Position(u) < Position(t)
  <2>1. \A y \in Before(u) : y \in Before(t)
    BY <1>1, <1>3 DEF Newer
  <2>2. u \in Before(t) /\ u \notin Before(u)
    BY <1>1, <1>3 DEF Newer
  <2>3. Before(u) \in SUBSET Before(t) /\ Before(t) \in SUBSET Tasks
    BY <2>1 DEF Listed
  <2>4. /\ IsFiniteSet(Before(t)) /\ Cardinality(Before(t)) \in Nat
        /\ Cardinality(Before(u)) \in Nat
    BY <2>3, HourSets
  <2>5. /\ Cardinality(Before(u)) <= Cardinality(Before(t))
        /\ Cardinality(Before(t)) = Cardinality(Before(u)) => Before(t) = Before(u)
    BY <2>3, <2>4, FS_Subset
  <2>6. Cardinality(Before(u)) < Cardinality(Before(t))
    BY <2>2, <2>4, <2>5
  <2>7. QED
    BY <2>4, <2>6 DEF Position
<1>4. QED
  BY <1>2, <1>3

LEMMA Numbered ==
    ASSUME Clock
    PROVE  /\ IsFiniteSet(Listed) /\ Cardinality(Listed) \in Nat
           /\ [t \in Listed |-> Position(t)]
                \in Bijection(Listed, 1 .. Cardinality(Listed))
<1> DEFINE n == Cardinality(Listed)
           F == [t \in Listed |-> Position(t)]
<1>1. Listed \in SUBSET Tasks
  BY DEF Listed
<1>2. IsFiniteSet(Listed) /\ n \in Nat
  BY <1>1, HourSets
<1>3. ASSUME NEW t \in Listed
      PROVE  Position(t) \in 1 .. n
  <2> DEFINE Before == {y \in Listed : Newer(y, t)}
  <2>1. Before \in SUBSET (Listed \ {t})
    <3>1. t \in Int /\ created[t] \in Int
      BY DashboardAssumption DEF Listed, Clock, Tasks, Times
    <3>2. QED
      BY <3>1 DEF Newer
  <2>2. IsFiniteSet(Listed \ {t}) /\ Cardinality(Listed \ {t}) = n - 1
    BY <1>2, FS_RemoveElement
  <2>3. Cardinality(Before) <= n - 1
    BY <2>1, <2>2, FS_Subset
  <2>4. Cardinality(Before) \in Nat
    BY <2>1, <1>1, HourSets
  <2>5. QED
    BY <1>2, <2>3, <2>4 DEF Position
<1>4. F \in [Listed -> 1 .. n]
  BY <1>3
<1>5. \A u, t \in Listed : F[u] = F[t] => u = t
  <2> SUFFICES ASSUME NEW u \in Listed, NEW t \in Listed, u # t
               PROVE  Position(u) # Position(t)
    OBVIOUS
  <2>1. Position(u) \in Int /\ Position(t) \in Int
    BY <1>2, <1>3
  <2>2. Position(u) < Position(t) \/ Position(t) < Position(u)
    BY Ordered
  <2>3. QED
    BY <2>1, <2>2
<1>6. F \in Injection(Listed, 1 .. n)
  BY <1>4, <1>5 DEF Injection, IsInjective
<1>7. IsFiniteSet(1 .. n) /\ Cardinality(1 .. n) = n
  BY <1>2, FS_Interval
<1>8. F \in Surjection(Listed, 1 .. n)
  BY <1>6, <1>7, FS_Injection
<1>9. QED
  BY <1>2, <1>6, <1>8 DEF Bijection

(* A page is full as long as there is a task behind it.                     *)
LEMMA FullPage ==
    ASSUME Clock, NEW first \in Nat \ {0}, NEW last \in Nat, first <= last,
           NEW t \in Listed, Position(t) > last
    PROVE  Cardinality(Rows(first, last)) = last - first + 1
<1> DEFINE n == Cardinality(Listed)
           F == [u \in Listed |-> Position(u)]
           P == Rows(first, last)
           G == [u \in P |-> Position(u)]
<1>1. n \in Nat /\ F \in Bijection(Listed, 1 .. n)
  BY Numbered
<1>2. /\ F \in [Listed -> 1 .. n]
      /\ \A u, v \in Listed : F[u] = F[v] => u = v
      /\ \A i \in 1 .. n : \E u \in Listed : F[u] = i
  BY <1>1 DEF Bijection, Injection, Surjection, IsInjective
<1>3. P \subseteq Listed /\ \A u \in P : Position(u) \in first .. last
  BY DEF Rows
<1>4. G \in Injection(P, first .. last)
  BY <1>2, <1>3 DEF Injection, IsInjective
<1>5. \A i \in first .. last : \E u \in P : G[u] = i
  <2> SUFFICES ASSUME NEW i \in first .. last
               PROVE  \E u \in P : G[u] = i
    OBVIOUS
  <2>1. F[t] \in 1 .. n /\ F[t] > last
    BY <1>2
  <2>2. i \in 1 .. n
    BY <1>1, <2>1
  <2>3. PICK u \in Listed : F[u] = i
    BY <1>2, <2>2
  <2>4. u \in P
    BY <2>3 DEF Rows
  <2>5. QED
    BY <2>3, <2>4
<1>6. G \in Surjection(P, first .. last)
  BY <1>4, <1>5 DEF Injection, Surjection
<1>7. ExistsBijection(P, first .. last)
  BY <1>4, <1>6 DEF ExistsBijection, Bijection
<1>8. IsFiniteSet(P)
  BY <1>3, HourSets DEF Listed
<1>9. Cardinality(first .. last) = Cardinality(P)
  BY <1>7, <1>8, FS_Bijection
<1>10. QED
  BY <1>9, FS_Interval

LEMMA RowsStay ==
    ASSUME Clock, [Next]_vars, NEW u \in Listed
    PROVE  u \in Listed' /\ created'[u] = created[u]
<1>1. PICK c \in Times : c = created[u]
  BY DEF Clock, Listed
<1>2. u \in OfHour(c)
  BY <1>1, DashboardAssumption DEF OfHour, Since, Listed, Times
<1>3. OfHour(c) \subseteq OfHour(c)'
  BY ClockStep
<1>4. QED
  BY <1>1, <1>2, <1>3 DEF OfHour, Since, Listed

(* Rows stay, and a new one only moves others back.                         *)
LEMMA RowsMoveBack ==
    ASSUME Clock, [Next]_vars, NEW t \in Listed
    PROVE  /\ t \in Listed' /\ Position(t) <= Position(t)'
           /\ Position(t) \in Nat /\ Position(t)' \in Nat
<1> DEFINE Before == {u \in Listed : Newer(u, t)}
<1>1. \A u \in Listed : u \in Listed' /\ created'[u] = created[u]
  BY RowsStay
<1>2. Before \subseteq Before' /\ Before \in SUBSET Tasks /\ Before' \in SUBSET Tasks
  BY <1>1 DEF Newer, Listed
<1>3. /\ Cardinality(Before) <= Cardinality(Before')
      /\ Cardinality(Before) \in Nat /\ Cardinality(Before') \in Nat
  BY <1>2, HourSets
<1>4. Position(t) = Cardinality(Before) + 1 /\ Position(t)' = Cardinality(Before') + 1
  BY DEF Position
<1>5. QED
  BY <1>1, <1>3, <1>4

(* Every old task that stands before the page to be asked for was seen: a   *)
(* task's row never moves to an earlier page, so the client meets it.       *)
WalkInv ==
    /\ Clock
    /\ walk = [page |-> walk.page, old |-> walk.old, seen |-> walk.seen, last |-> walk.last]
    /\ walk.page \in Nat
    /\ walk.old \subseteq Listed
    /\ \A t \in walk.old : Position(t) <= (walk.page - 1) * PageSize => t \in walk.seen
    /\ WalkMissesNothing

LEMMA WalkStep ==
    ASSUME WalkInv, [Next]_vars
    PROVE  WalkInv'
<1>n. PageSize \in Nat \ {0}
  BY DashboardAssumption
<1>1. /\ Clock'
      /\ \A t \in Listed : /\ t \in Listed' /\ Position(t) <= Position(t)'
                           /\ Position(t) \in Nat /\ Position(t)' \in Nat
  BY ClockStep, RowsMoveBack DEF WalkInv
<1>2. CASE UNCHANGED walk
  <2>1. ASSUME NEW t \in walk.old, Position(t)' <= (walk.page - 1) * PageSize
        PROVE  t \in walk.seen
    <3>1. (walk.page - 1) * PageSize \in Int
      BY <1>n DEF WalkInv
    <3>2. Position(t) <= (walk.page - 1) * PageSize
      BY <1>1, <2>1, <3>1 DEF WalkInv
    <3>3. QED
      BY <3>2 DEF WalkInv
  <2>2. walk.old \subseteq Listed'
    BY <1>1 DEF WalkInv
  <2>3. QED
    BY <1>1, <1>2, <2>1, <2>2 DEF WalkInv, WalkMissesNothing, Position
<1>3. CASE WalkBegin
  <2>1. walk' = [page |-> 1, old |-> Listed, seen |-> {}, last |-> FALSE]
    BY <1>3 DEF WalkBegin, NoWalk, Listed
  <2>2. Listed' = Listed
    BY <1>3 DEF WalkBegin, taskVars, Listed, Exists
  <2>3. \A t \in Listed : ~(Position(t)' <= 0)
    <3> SUFFICES ASSUME NEW t \in Listed
                 PROVE  ~(Position(t)' <= 0)
      OBVIOUS
    <3> DEFINE Before == {u \in Listed : Newer(u, t)}
    <3>1. Before' \in SUBSET Tasks
      BY DEF Listed
    <3>2. Cardinality(Before') \in Nat
      BY <3>1, HourSets
    <3>3. Position(t)' = Cardinality(Before') + 1
      BY DEF Position
    <3>4. QED
      BY <3>2, <3>3
  <2>4. (walk'.page - 1) * PageSize = 0
    BY <1>n, <2>1
  <2>5. QED
    BY <1>1, <2>1, <2>2, <2>3, <2>4 DEF WalkInv, WalkMissesNothing
<1>4. CASE WalkEnd
  BY <1>1, <1>4 DEF WalkEnd, NoWalk, WalkInv, WalkMissesNothing
<1>5. CASE List
  <2> DEFINE p    == walk.page
             page == Page(walk.page)
             back == (p - 1) * PageSize
  <2>1. /\ p \in Nat /\ p > 0
        /\ walk' = [walk EXCEPT !.page = p + 1, !.seen = walk.seen \cup page,
                                !.last = Cardinality(page) < PageSize]
        /\ UNCHANGED <<status, created>>
    BY <1>5 DEF List, WalkInv, taskVars
  <2>2. walk' = [page |-> p + 1, old |-> walk.old, seen |-> walk.seen \cup page,
                 last |-> Cardinality(page) < PageSize]
    BY <2>1 DEF WalkInv
  <2>3. /\ back \in Nat /\ p * PageSize = back + PageSize
        /\ (walk'.page - 1) * PageSize = p * PageSize
    <3>1. PICK k \in Nat : k = walk.page - 1
      BY <2>1
    <3>2. p = k + 1 /\ p - 1 = k
      BY <2>1, <3>1
    <3>3. k * PageSize \in Nat /\ (k + 1) * PageSize = k * PageSize + PageSize
      BY <1>n
    <3>4. QED
      BY <2>2, <3>2, <3>3
  <2>4. \A t : Position(t)' = Position(t)
    BY <2>1 DEF Position, Listed, Exists, Newer
  <2>5. ASSUME NEW t \in walk.old, Position(t) <= p * PageSize
        PROVE  t \in walk.seen \cup page
    <3>1. t \in Listed /\ Position(t) \in Nat
      BY <1>1 DEF WalkInv
    <3>2. CASE Position(t) <= back
      BY <3>2 DEF WalkInv
    <3>3. CASE Position(t) > back
      <4>1. Position(t) \in back + 1 .. p * PageSize
        BY <1>n, <2>3, <2>5, <3>1, <3>3
      <4>2. QED
        BY <3>1, <4>1 DEF Page, Rows
    <3>4. QED
      BY <2>3, <3>1, <3>2, <3>3
  <2>6. ASSUME Cardinality(page) < PageSize, NEW t \in walk.old
        PROVE  Position(t) <= p * PageSize
    <3>1. t \in Listed /\ Position(t) \in Nat
      BY <1>1 DEF WalkInv
    <3>2. CASE Position(t) > p * PageSize
      <4>1. /\ back + 1 \in Nat \ {0} /\ p * PageSize \in Nat
            /\ back + 1 <= p * PageSize
        BY <1>n, <2>3
      <4>2. Cardinality(Rows(back + 1, p * PageSize)) = p * PageSize - (back + 1) + 1
        BY <3>1, <3>2, <4>1, FullPage DEF WalkInv
      <4>3. Cardinality(page) = PageSize
        BY <1>n, <2>3, <4>2 DEF Page
      <4>4. QED
        BY <1>n, <2>6, <4>3
    <3>3. QED
      BY <1>n, <2>3, <3>1, <3>2
  <2>7. walk.old \subseteq Listed'
    BY <1>1 DEF WalkInv
  <2>8. walk'.last => walk'.old \subseteq walk'.seen
    BY <2>2, <2>5, <2>6
  <2>9. walk'.page \in Nat
    BY <2>1, <2>2
  <2>10. \A t \in walk'.old :
           Position(t)' <= (walk'.page - 1) * PageSize => t \in walk'.seen
    BY <2>2, <2>3, <2>4, <2>5
  <2>11. QED
    BY <1>1, <2>2, <2>7, <2>8, <2>9, <2>10 DEF WalkInv, WalkMissesNothing
<1>6. QED
  BY <1>2, <1>3, <1>4, <1>5
     DEF Next, vars, Tick, Submit, MarkTaskRunning, CompleteTaskForApp, FailTaskForApp,
         Begin, ReadCounts, ReadHourly, ReadAverage, ReadQueue, ReadRecent, ReadTop,
         Query, Close

(* A client that asks for one page after the other, until a page is not     *)
(* full, has seen every task that was there when it began, whatever is      *)
(* created meanwhile: rows only move back, and a page with tasks behind it  *)
(* is full.                                                                 *)
THEOREM WalkMissesNothingAlways == Spec => []WalkMissesNothing
<1>1. Init => WalkInv
  BY DashboardAssumption
     DEF Init, WalkInv, WalkMissesNothing, NoWalk, Clock, Exists, Listed, Times
<1>2. WalkInv /\ [Next]_vars => WalkInv'
  BY WalkStep
<1>3. WalkInv => WalkMissesNothing
  BY DEF WalkInv
<1>4. QED
  BY <1>1, <1>2, <1>3, PTL DEF Spec

-----------------------------------------------------------------------------
(* A set that holds 0 and with each number the next one holds them all:     *)
(* among the numbers that are missing there would be a least one, because   *)
(* the finite sets 1 .. n are well-founded.                                 *)
LEMMA AllNumbers ==
    ASSUME NEW T, 0 \in T, \A n \in Nat : n \in T => n + 1 \in T
    PROVE  Nat \subseteq T
<1> SUFFICES ASSUME NEW n \in Nat, n \notin T
             PROVE  FALSE
  OBVIOUS
<1> DEFINE missing == {1 .. k : k \in Nat \ T}
<1>1. missing \subseteq FiniteSubsetsOf(Nat)
  <2>1. \A k \in Nat : IsFiniteSet(1 .. k) /\ 1 .. k \subseteq Nat
    BY FS_Interval
  <2>2. QED
    BY <2>1 DEF FiniteSubsetsOf
<1>2. missing # {}
  OBVIOUS
<1>3. IsWellFoundedOn(StrictSubsetOrdering(Nat), FiniteSubsetsOf(Nat))
  BY FS_StrictSubsetOrderingWellFounded
<1> HIDE DEF missing
<1>4. PICK b \in missing : \A c \in missing : <<c, b>> \notin StrictSubsetOrdering(Nat)
  BY <1>1, <1>2, <1>3, WFMin
<1>5. PICK k \in Nat \ T : b = 1 .. k
  BY DEF missing
<1>6. k - 1 \in Nat \ T
  BY <1>5
<1>7. 1 .. k - 1 \in missing
  BY <1>6 DEF missing
<1>8. <<1 .. k - 1, 1 .. k>> \in StrictSubsetOrdering(Nat)
  <2>1. 1 .. k - 1 \subseteq 1 .. k /\ k \in 1 .. k /\ k \notin 1 .. k - 1
    BY <1>6
  <2>2. 1 .. k \subseteq Nat
    OBVIOUS
  <2>3. 1 .. k - 1 # 1 .. k
    BY <2>1
  <2>4. QED
    BY <2>1, <2>2, <2>3 DEF StrictSubsetOrdering
<1>9. QED
  BY <1>4, <1>5, <1>7, <1>8

(* The element a fold takes from a set next.                                *)
Taken(s) == CHOOSE x \in s : TRUE

LEMMA TakenIsIn ==
    ASSUME NEW s, s # {}
    PROVE  Taken(s) \in s
BY DEF Taken

(* What holds of {} and of a set when it holds of what is left of it holds  *)
(* of every part of a finite set.                                           *)
LEMMA AllParts ==
    ASSUME NEW S, IsFiniteSet(S), NEW T, {} \in T,
           \A s \in SUBSET S : s # {} /\ s \ {Taken(s)} \in T => s \in T
    PROVE  SUBSET S \subseteq T
<1> SUFFICES ASSUME NEW r \in SUBSET S, r \notin T
             PROVE  FALSE
  OBVIOUS
<1> DEFINE missing == (SUBSET S) \ T
<1>1. missing \subseteq FiniteSubsetsOf(S) /\ missing # {}
  BY FS_FiniteSubsetsOfFinite
<1>2. IsWellFoundedOn(StrictSubsetOrdering(S), FiniteSubsetsOf(S))
  BY FS_StrictSubsetOrderingWellFounded
<1>3. PICK b \in missing : \A c \in missing : <<c, b>> \notin StrictSubsetOrdering(S)
  <2> HIDE DEF missing
  <2>1. QED
    BY <1>1, <1>2, WFMin
<1>4. b # {} /\ b \in SUBSET S
  BY <1>3
<1>5. Taken(b) \in b
  BY <1>4, TakenIsIn
<1>6. b \ {Taken(b)} \in missing
  BY <1>3, <1>4
<1>7. <<b \ {Taken(b)}, b>> \in StrictSubsetOrdering(S)
  BY <1>4, <1>5 DEF StrictSubsetOrdering
<1>8. QED
  BY <1>3, <1>6, <1>7

-----------------------------------------------------------------------------
Sum(f, S) ==
    LET g[s \in SUBSET S] == IF s = {} THEN 0 ELSE f[Taken(s)] + g[s \ {Taken(s)}] IN g[S]

(* The sums of the parts of S, at least of those of at most n elements.     *)
Sums(g, f, S, n) ==
    \A s \in SUBSET S :
        Cardinality(s) <= n =>
            /\ g[s] \in Int
            /\ g[s] = IF s = {} THEN 0 ELSE f[Taken(s)] + g[s \ {Taken(s)}]

LEMMA Smaller ==
    ASSUME NEW s, IsFiniteSet(s), s # {}
    PROVE  /\ Taken(s) \in s /\ IsFiniteSet(s \ {Taken(s)})
           /\ Cardinality(s \ {Taken(s)}) = Cardinality(s) - 1
           /\ Cardinality(s) \in Nat
BY TakenIsIn, FS_RemoveElement, FS_CardinalityType

LEMMA SumsExist ==
    ASSUME NEW S, IsFiniteSet(S), NEW f \in [S -> Int]
    PROVE  \A n \in Nat : \E g : g = [s \in SUBSET S |-> g[s]] /\ Sums(g, f, S, n)
<1> DEFINE T == {n \in Nat : \E g : g = [s \in SUBSET S |-> g[s]] /\ Sums(g, f, S, n)}
<1>0. \A s \in SUBSET S : IsFiniteSet(s) /\ Cardinality(s) \in Nat
  BY FS_Subset, FS_CardinalityType
<1>1. 0 \in T
  <2> DEFINE g == [s \in SUBSET S |-> 0]
  <2>1. \A s \in SUBSET S : Cardinality(s) <= 0 => s = {}
    BY <1>0, FS_EmptySet
  <2>2. Sums(g, f, S, 0)
    BY <2>1 DEF Sums
  <2>3. g = [s \in SUBSET S |-> g[s]]
    OBVIOUS
  <2>4. QED
    BY <2>2, <2>3
<1>2. ASSUME NEW n \in Nat, n \in T
      PROVE  n + 1 \in T
  <2>1. PICK g : g = [s \in SUBSET S |-> g[s]] /\ Sums(g, f, S, n)
    BY <1>2
  <2> DEFINE h == [s \in SUBSET S |->
                     IF Cardinality(s) <= n THEN g[s] ELSE f[Taken(s)] + g[s \ {Taken(s)}]]
  <2>2. ASSUME NEW s \in SUBSET S, Cardinality(s) <= n + 1
        PROVE  /\ h[s] \in Int
               /\ h[s] = IF s = {} THEN 0 ELSE f[Taken(s)] + h[s \ {Taken(s)}]
    <3>1. CASE s = {}
      <4>1. Cardinality(s) <= n
        BY <3>1, FS_EmptySet
      <4>2. QED
        BY <2>1, <3>1, <4>1 DEF Sums
    <3>2. CASE s # {}
      <4> DEFINE r == s \ {Taken(s)}
      <4>1. /\ Taken(s) \in S /\ r \in SUBSET S
            /\ Cardinality(r) = Cardinality(s) - 1 /\ Cardinality(s) \in Nat
        BY <1>0, <3>2, Smaller
      <4>2. Cardinality(r) <= n
        BY <2>2, <4>1
      <4>3. h[r] = g[r] /\ g[r] \in Int
        BY <2>1, <4>1, <4>2 DEF Sums
      <4>4. h[s] = f[Taken(s)] + g[r]
        <5>1. CASE Cardinality(s) <= n
          BY <2>1, <3>2, <5>1 DEF Sums
        <5>2. CASE ~(Cardinality(s) <= n)
          BY <5>2
        <5>3. QED
          BY <5>1, <5>2
      <4>5. QED
        BY <3>2, <4>1, <4>3, <4>4
    <3>3. QED
      BY <3>1, <3>2
  <2>3. Sums(h, f, S, n + 1) /\ h = [s \in SUBSET S |-> h[s]]
    BY <2>2 DEF Sums
  <2> HIDE DEF h
  <2>4. QED
    BY <2>3
<1>3. Nat \subseteq T
  <2> HIDE DEF T
  <2>1. QED
    BY <1>1, <1>2, AllNumbers
<1>4. QED
  BY <1>3

(* A sum over a finite set is the last of the sums over its parts.          *)
PartSums(g, f, S) ==
    /\ g[{}] = 0
    /\ \A s \in SUBSET S : s # {} => g[s] = f[Taken(s)] + g[s \ {Taken(s)}]

LEMMA SumOfParts ==
    ASSUME NEW S, IsFiniteSet(S), NEW f \in [S -> Int]
    PROVE  \E g : Sum(f, S) = g[S] /\ PartSums(g, f, S)
<1> DEFINE E(g) == [s \in SUBSET S |->
                      IF s = {} THEN 0 ELSE f[Taken(s)] + g[s \ {Taken(s)}]]
           c == CHOOSE g : g = E(g)
<1>1. \A s \in SUBSET S : Cardinality(s) <= Cardinality(S)
  BY FS_Subset
<1>2. Cardinality(S) \in Nat
  BY FS_CardinalityType
<1>3. PICK g : g = [s \in SUBSET S |-> g[s]] /\ Sums(g, f, S, Cardinality(S))
  BY <1>2, SumsExist
<1>4. g = E(g)
  BY <1>1, <1>3 DEF Sums
<1>5. c = E(c)
  BY <1>4
<1>6. Sum(f, S) = c[S]
  BY DEF Sum
<1> HIDE DEF c
<1>7. PartSums(c, f, S)
  BY <1>5 DEF PartSums
<1>8. QED
  BY <1>6, <1>7

LEMMA TwoParts ==
    ASSUME NEW A, NEW B, NEW C, IsFiniteSet(A), IsFiniteSet(B),
           A \cup B = C, A \cap B = {}
    PROVE  Cardinality(C) = Cardinality(A) + Cardinality(B)
<1>1. Cardinality(A) \in Nat /\ Cardinality(B) \in Nat
  BY FS_CardinalityType
<1>2. Cardinality(A \cup B) = Cardinality(A) + Cardinality(B) - Cardinality(A \cap B)
  BY FS_Union
<1>3. Cardinality(A \cap B) = 0
  BY FS_EmptySet
<1>4. Cardinality(C) = Cardinality(A \cup B)
  OBVIOUS
<1>5. QED
  BY <1>1, <1>2, <1>3, <1>4

(* The sizes of the classes of a set add up to its size.                    *)
LEMMA ClassesAddUp ==
    ASSUME NEW S, IsFiniteSet(S), NEW D, IsFiniteSet(D), NEW class \in [D -> S],
           NEW f \in [S -> Int], \A s \in S : f[s] = Cardinality({d \in D : class[d] = s})
    PROVE  Sum(f, S) = Cardinality(D)
<1> DEFINE In(U) == {d \in D : class[d] \in U}
<1>0. f \in [S -> Int]
  OBVIOUS
<1>1. PICK g : Sum(f, S) = g[S] /\ PartSums(g, f, S)
  BY <1>0, SumOfParts
<1> DEFINE T == {U \in SUBSET S : g[U] = Cardinality(In(U))}
<1>2. {} \in T
  <2>1. In({}) = {}
    OBVIOUS
  <2>2. QED
    BY <1>1, <2>1, FS_EmptySet DEF PartSums
<1>3. ASSUME NEW U \in SUBSET S, U # {}, U \ {Taken(U)} \in T
      PROVE  U \in T
  <2> DEFINE x == Taken(U)
             one == {d \in D : class[d] = x}
             rest == In(U \ {x})
  <2>1. x \in U
    BY <1>3, TakenIsIn
  <2>2. g[U] = Cardinality(one) + Cardinality(rest)
    BY <1>1, <1>3, <2>1 DEF PartSums
  <2>3. /\ IsFiniteSet(one) /\ IsFiniteSet(rest)
        /\ Cardinality(one) \in Nat /\ Cardinality(rest) \in Nat
    <3>1. one \in SUBSET D /\ rest \in SUBSET D
      OBVIOUS
    <3>2. QED
      BY <3>1, FS_Subset, FS_CardinalityType
  <2>4. one \cup rest = In(U) /\ one \cap rest = {}
    BY <2>1
  <2>5. Cardinality(In(U)) = Cardinality(one) + Cardinality(rest)
    <3> HIDE DEF one, rest, In
    <3>1. QED
      BY <2>3, <2>4, TwoParts
  <2>6. QED
    BY <2>2, <2>5
<1>4. S \in T
  <2> HIDE DEF T
  <2>1. SUBSET S \subseteq T
    BY <1>2, <1>3, AllParts
  <2>2. QED
    BY <2>1
<1>5. In(S) = D
  OBVIOUS
<1>6. QED
  BY <1>1, <1>4, <1>5

(* A sum is at most as large as its terms allow.                            *)
LEMMA SumIsBounded ==
    ASSUME NEW S, IsFiniteSet(S), NEW max \in Nat, NEW f \in [S -> 0 .. max]
    PROVE  Sum(f, S) \in 0 .. Cardinality(S) * max
<1>0. f \in [S -> Int]
  OBVIOUS
<1>1. PICK g : Sum(f, S) = g[S] /\ PartSums(g, f, S)
  BY <1>0, SumOfParts
<1> DEFINE T == {U \in SUBSET S : g[U] \in 0 .. Cardinality(U) * max}
<1>2. {} \in T
  BY <1>1, FS_EmptySet DEF PartSums
<1>3. ASSUME NEW U \in SUBSET S, U # {}, U \ {Taken(U)} \in T
      PROVE  U \in T
  <2>1. IsFiniteSet(U)
    BY FS_Subset
  <2>2. PICK n \in Nat : n = Cardinality(U \ {Taken(U)})
    BY <1>3, <2>1, Smaller, FS_CardinalityType
  <2>3. Taken(U) \in U /\ Cardinality(U) = n + 1
    <3>1. /\ Taken(U) \in U /\ Cardinality(U) \in Nat
          /\ Cardinality(U \ {Taken(U)}) = Cardinality(U) - 1
      BY <1>3, <2>1, Smaller
    <3>2. QED
      BY <2>2, <3>1
  <2>4. f[Taken(U)] \in 0 .. max
    BY <2>3
  <2>5. g[U \ {Taken(U)}] \in 0 .. n * max
    BY <1>3, <2>2
  <2>6. (n + 1) * max = n * max + max /\ n * max \in Nat
    OBVIOUS
  <2>7. g[U] \in 0 .. (n + 1) * max
    BY <1>1, <1>3, <2>4, <2>5, <2>6 DEF PartSums
  <2>8. QED
    BY <2>3, <2>7
<1>4. S \in T
  <2> HIDE DEF T
  <2>1. SUBSET S \subseteq T
    BY <1>2, <1>3, AllParts
  <2>2. QED
    BY <2>1
<1>5. QED
  BY <1>1, <1>4

(* The rounded mean of n numbers lies between 0 and their bound.            *)
LEMMA MeanIsBounded ==
    ASSUME NEW n \in Nat \ {0}, NEW max \in Nat, NEW total \in 0 .. n * max
    PROVE  (2 * total + n) \div (2 * n) \in 0 .. max
<1> DEFINE m == (2 * total + n) \div (2 * n)
<1>0. n * max \in Nat /\ total \in Nat /\ total <= n * max
  OBVIOUS
<1>1. PICK a \in Nat : a = 2 * total + n
  BY <1>0
<1>2. PICK b \in Nat \ {0} : b = 2 * n
  OBVIOUS
<1>3. PICK q \in Int : q = a \div b
  OBVIOUS
<1>4. b * q <= a /\ a < b * q + b
  BY <1>3
<1>5. q >= 0
  BY <1>3
<1>6. q <= max
  <2> SUFFICES ASSUME q >= max + 1
               PROVE  FALSE
    OBVIOUS
  <2>1. b * q >= b * (max + 1)
    OBVIOUS
  <2>2. b * (max + 1) = 2 * (n * max) + 2 * n
    BY <1>2
  <2>3. QED
    BY <1>0, <1>1, <1>4, <2>1, <2>2
<1>7. QED
  BY <1>1, <1>2, <1>3, <1>5, <1>6

-----------------------------------------------------------------------------
(* The clock and the tables together: a row stays with its created_at, a    *)
(* success stays one and a settled task stays settled.                      *)
Tables == Clock /\ TimesInv

Completed(at) == {t \in Since(at) : status[t] = "completed"}
Settled(at)   == {t \in Since(at) : status[t] \in {"completed", "failed"}}

LEMMA TablesStep ==
    ASSUME Tables, [Next]_vars
    PROVE  /\ Tables'
           /\ \A t \in Tasks :
                /\ Exists(t) => Exists(t)' /\ created'[t] = created[t]
                /\ status[t] = "completed" => status'[t] = "completed"
                /\ status[t] \in {"completed", "failed"}
                     => status'[t] \in {"completed", "failed"}
<1>1. Tables'
  BY ClockStep, TimesStep DEF Tables
<1>2. ASSUME NEW t \in Tasks
      PROVE  Exists(t) => Exists(t)' /\ created'[t] = created[t]
  BY RowsStay DEF Tables, Listed
<1>3. ASSUME NEW t \in Tasks, status[t] \in {"completed", "failed"}
      PROVE  status'[t] = status[t]
  <2>1. CASE UNCHANGED status
    BY <2>1
  <2>2. ASSUME NEW u \in Tasks, NEW a \in Apps, Submit(u, a)
        PROVE  status'[t] = status[t]
    <3>1. u # t
      BY <1>3, <2>2 DEF Submit, Exists
    <3>2. QED
      BY <2>2, <3>1 DEF Submit, Tables, Clock
  <2>3. ASSUME NEW u \in Tasks,
               MarkTaskRunning(u) \/ CompleteTaskForApp(u) \/ FailTaskForApp(u)
        PROVE  status'[t] = status[t]
    <3>1. u # t
      BY <1>3, <2>3 DEF MarkTaskRunning, CompleteTaskForApp, FailTaskForApp
    <3>2. QED
      BY <2>3, <3>1
         DEF MarkTaskRunning, CompleteTaskForApp, FailTaskForApp, Tables, Clock
  <2>4. CASE \/ Tick
             \/ Begin \/ ReadCounts \/ ReadHourly \/ ReadAverage \/ ReadQueue \/ ReadRecent
             \/ ReadTop \/ Close \/ WalkBegin \/ List \/ WalkEnd
    BY <2>1, <2>4 DEF Tick, Begin, ReadCounts, ReadHourly, ReadAverage, ReadQueue,
       ReadRecent, ReadTop, Query, Close, WalkBegin, List, WalkEnd, taskVars
  <2>5. QED
    BY <2>1, <2>2, <2>3, <2>4 DEF Next, vars, taskVars
<1>4. QED
  BY <1>1, <1>2, <1>3

LEMMA SinceGrows ==
    ASSUME Tables, [Next]_vars
    PROVE  \A at : /\ Since(at) \subseteq Since(at)'
                   /\ Completed(at) \subseteq Completed(at)'
                   /\ Settled(at) \subseteq Settled(at)'
                   /\ Cardinality(Since(at)) <= Cardinality(Since(at)')
                   /\ Cardinality(Settled(at)) <= Cardinality(Settled(at)')
<1> SUFFICES ASSUME NEW at
             PROVE  /\ Since(at) \subseteq Since(at)'
                    /\ Completed(at) \subseteq Completed(at)'
                    /\ Settled(at) \subseteq Settled(at)'
                    /\ Cardinality(Since(at)) <= Cardinality(Since(at)')
                    /\ Cardinality(Settled(at)) <= Cardinality(Settled(at)')
  OBVIOUS
<1>1. /\ Since(at) \subseteq Since(at)'
      /\ Completed(at) \subseteq Completed(at)'
      /\ Settled(at) \subseteq Settled(at)'
  BY TablesStep DEF Since, Completed, Settled
<1>2. Since(at)' \subseteq Tasks /\ Settled(at)' \subseteq Tasks
  BY DEF Since, Settled
<1>3. QED
  BY <1>1, <1>2, HourSets

LEMMA SinceIsFinite ==
    ASSUME NEW at
    PROVE  /\ IsFiniteSet(Since(at)) /\ Cardinality(Since(at)) \in Nat
           /\ IsFiniteSet(Settled(at)) /\ Cardinality(Settled(at)) \in Nat
<1>1. Since(at) \in SUBSET Tasks /\ Settled(at) \in SUBSET Tasks
  BY DEF Since, Settled
<1>2. QED
  BY <1>1, HourSets

-----------------------------------------------------------------------------
(* Both groupings of the tasks of today add up to all of them.              *)
LEMMA CountsAddUp ==
    ASSUME Clock, NEW at
    PROVE  Sum(CountByStatusSince(at), Statuses) = Cardinality(Since(at))
<1> DEFINE f == CountByStatusSince(at)
           D == Since(at)
           class == [t \in D |-> status[t]]
<1>1. IsFiniteSet(D) /\ IsFiniteSet(Statuses)
  <2>1. /\ IsFiniteSet({"queued"}) /\ IsFiniteSet({"running"})
        /\ IsFiniteSet({"completed"}) /\ IsFiniteSet({"failed"})
    BY FS_Singleton
  <2>2. Statuses = ({"queued"} \cup {"running"}) \cup ({"completed"} \cup {"failed"})
    BY DEF Statuses
  <2>3. QED
    BY <2>1, <2>2, FS_Union, SinceIsFinite
<1>2. class \in [D -> Statuses]
  BY DEF Clock, Since, Exists
<1>3. ASSUME NEW s \in Statuses
      PROVE  f[s] = Cardinality({t \in D : class[t] = s}) /\ f[s] \in Int
  <2>1. {t \in D : class[t] = s} = {t \in D : status[t] = s}
    OBVIOUS
  <2>2. f[s] = Cardinality({t \in D : status[t] = s})
    BY DEF CountByStatusSince
  <2>3. Cardinality({t \in D : status[t] = s}) \in Nat
    <3>1. {t \in D : status[t] = s} \in SUBSET Tasks
      BY DEF Since
    <3>2. QED
      BY <3>1, HourSets
  <2> HIDE DEF f, D, class
  <2>4. QED
    BY <2>1, <2>2, <2>3
<1>4. f \in [Statuses -> Int]
  BY <1>3 DEF CountByStatusSince
<1>5. QED
  <2> HIDE DEF f, D, class
  <2>1. QED
    BY <1>1, <1>2, <1>3, <1>4, ClassesAddUp DEF f, D

LEMMA HoursAddUp ==
    ASSUME Clock, NEW at
    PROVE  Sum(HourlyCountsSince(at), Hours) = Cardinality(Since(at))
<1> DEFINE f == HourlyCountsSince(at)
           D == Since(at)
           class == [t \in D |-> HourIn(created[t])]
<1>1. IsFiniteSet(D) /\ IsFiniteSet(Hours)
  <2>1. 0 \in Int /\ HoursPerDay - 1 \in Int
    BY DashboardAssumption
  <2>2. QED
    BY <2>1, FS_Interval, SinceIsFinite DEF Hours
<1>2. class \in [D -> Hours]
  <2>1. \A t \in D : created[t] \in Nat
    BY DashboardAssumption DEF Clock, Since, Times
  <2>2. \A n \in Nat : HourIn(n) \in Hours
    BY DashboardAssumption, Division DEF HourIn, Hours
  <2>3. QED
    BY <2>1, <2>2
<1>3. ASSUME NEW h \in Hours
      PROVE  f[h] = Cardinality({t \in D : class[t] = h}) /\ f[h] \in Int
  <2>1. {t \in D : class[t] = h} = {t \in D : created[t] % HoursPerDay = h}
    BY DEF HourIn
  <2>2. f[h] = Cardinality({t \in D : created[t] % HoursPerDay = h})
    BY DEF HourlyCountsSince
  <2>3. Cardinality({t \in D : created[t] % HoursPerDay = h}) \in Nat
    <3>1. {t \in D : created[t] % HoursPerDay = h} \in SUBSET Tasks
      BY DEF Since
    <3>2. QED
      BY <3>1, HourSets
  <2> HIDE DEF f, D, class
  <2>4. QED
    BY <2>1, <2>2, <2>3
<1>4. f \in [Hours -> Int]
  BY <1>3 DEF HourlyCountsSince
<1>5. QED
  <2> HIDE DEF f, D, class
  <2>1. QED
    BY <1>1, <1>2, <1>3, <1>4, ClassesAddUp DEF f, D

LEMMA Totals ==
    /\ Today  = Sum(view.counts, Statuses)  /\ Trend  = Sum(view.hourly, Hours)
    /\ Today' = Sum(view'.counts, Statuses) /\ Trend' = Sum(view'.hourly, Hours)
BY DEF Today, Trend, Sum, Taken, MapThenSumSet, MapThenFoldSet

(* The average is a time, and it is there when a success is.                *)
LEMMA AverageIsTime ==
    ASSUME TimesInv, NEW at
    PROVE  /\ AverageCompletedDurationSince(at) \in Times \cup {None}
           /\ Completed(at) # {} => AverageCompletedDurationSince(at) # None
<1> DEFINE W == {t \in Since(at) : status[t] = "completed" /\ Duration(t) # None}
           d == [t \in W |-> Duration(t)]
           n == Cardinality(W)
           total == MapThenSumSet(LAMBDA t : Duration(t), W)
<1>1. MaxNow \in Nat /\ None \notin Times
  BY DashboardAssumption DEF Times
<1>2. ASSUME NEW t \in Completed(at)
      PROVE  Duration(t) \in 0 .. MaxNow
  <2>1. /\ started[t] \in Times /\ finished[t] \in Times
        /\ started[t] <= finished[t]
    BY DEF TimesInv, Dated, Completed, Since
  <2>2. QED
    BY <1>1, <2>1 DEF Duration, Times
<1>3. W = Completed(at)
  BY <1>1, <1>2 DEF Completed, Times
<1>4. IsFiniteSet(W) /\ n \in Nat /\ (n = 0 <=> W = {})
  <2>1. W \in SUBSET Tasks
    BY DEF Since
  <2>2. IsFiniteSet(W) /\ n \in Nat
    BY <2>1, HourSets
  <2>3. QED
    BY <2>2, FS_EmptySet
<1>5. total = Sum(d, W)
  <2> DEFINE E1(g) == [s \in SUBSET W |->
                         IF s = {} THEN 0 ELSE Duration(Taken(s)) + g[s \ {Taken(s)}]]
             E2(g) == [s \in SUBSET W |->
                         IF s = {} THEN 0 ELSE d[Taken(s)] + g[s \ {Taken(s)}]]
  <2>1. \A s \in SUBSET W : s # {} => d[Taken(s)] = Duration(Taken(s))
    BY TakenIsIn
  <2>2. \A g : E1(g) = E2(g)
    BY <2>1
  <2>3. total = (CHOOSE g : g = E1(g))[W]
    BY DEF MapThenSumSet, MapThenFoldSet, Taken
  <2>4. Sum(d, W) = (CHOOSE g : g = E2(g))[W]
    BY DEF Sum
  <2> HIDE DEF E1, E2
  <2>5. (CHOOSE g : g = E1(g)) = (CHOOSE g : g = E2(g))
    BY <2>2
  <2>6. QED
    BY <2>3, <2>4, <2>5
<1>6. AverageCompletedDurationSince(at) = IF n = 0 THEN None ELSE (2 * total + n) \div (2 * n)
  BY DEF AverageCompletedDurationSince
<1>7. total \in 0 .. n * MaxNow
  <2>1. d \in [W -> 0 .. MaxNow]
    BY <1>2, <1>3
  <2> HIDE DEF d, W, total
  <2>2. Sum(d, W) \in 0 .. Cardinality(W) * MaxNow
    BY <1>1, <1>4, <2>1, SumIsBounded
  <2>3. QED
    BY <1>5, <2>2
<1> HIDE DEF n, total, W
<1>8. n # 0 => (2 * total + n) \div (2 * n) \in Times
  BY <1>1, <1>4, <1>7, MeanIsBounded DEF Times
<1>9. QED
  BY <1>1, <1>3, <1>4, <1>6, <1>8

-----------------------------------------------------------------------------
(* What GetOverview has read, as far as it was read.                        *)
AfterCounts == {"hourly", "average", "queue", "recent", "top", "done"}
AfterAverage == {"queue", "recent", "top", "done"}
AfterQueue == {"recent", "top", "done"}

FitInv ==
    /\ Tables
    /\ IsView
    /\ pc \in AfterCounts =>
          /\ Today \in Nat /\ Today <= Cardinality(Since(view.since))
          /\ view.counts["completed"] > 0 => Completed(view.since) # {}
    /\ pc \in Later => Trend \in Nat /\ Trend >= Today
    /\ pc \in AfterAverage => (view.counts["completed"] > 0 => view.avg # None)
    /\ pc \in AfterQueue =>
          view.queue \in Nat /\ Today <= view.queue + Cardinality(Settled(view.since))

(* A step that reads nothing the property is about leaves it true: the      *)
(* tasks of today and the settled ones only become more.                    *)
LEMMA FitStays ==
    ASSUME FitInv, [Next]_vars, IsView', pc # "idle",
           view'.since = view.since, view'.counts = view.counts,
           view'.hourly = view.hourly \/ pc' \notin Later,
           view'.avg = view.avg \/ pc' \notin AfterAverage,
           view'.queue = view.queue \/ pc' \notin AfterQueue,
           pc' \in AfterCounts => pc \in AfterCounts,
           pc' \in Later => pc \in Later,
           pc' \in AfterAverage => pc \in AfterAverage,
           pc' \in AfterQueue => pc \in AfterQueue
    PROVE  FitInv'
<1>1. Tables'
  BY TablesStep DEF FitInv
<1>2. PICK at : at = view.since
  OBVIOUS
<1>3. /\ Completed(at) \subseteq Completed(at)'
      /\ Cardinality(Since(at)) <= Cardinality(Since(at)')
      /\ Cardinality(Settled(at)) <= Cardinality(Settled(at)')
      /\ Cardinality(Since(at)) \in Nat /\ Cardinality(Since(at)') \in Nat
      /\ Cardinality(Settled(at)) \in Nat /\ Cardinality(Settled(at)') \in Nat
  <2>1. /\ Completed(at) \subseteq Completed(at)'
        /\ Cardinality(Since(at)) <= Cardinality(Since(at)')
        /\ Cardinality(Settled(at)) <= Cardinality(Settled(at)')
    BY SinceGrows DEF FitInv
  <2>2. /\ Cardinality(Since(at)) \in Nat /\ Cardinality(Settled(at)) \in Nat
    BY SinceIsFinite
  <2>3. Since(at)' \in SUBSET Tasks /\ Settled(at)' \in SUBSET Tasks
    BY DEF Since, Settled
  <2>4. QED
    BY <2>1, <2>2, <2>3, HourSets
<1>4. /\ Since(view.since) = Since(at) /\ Since(view.since)' = Since(at)'
      /\ Completed(view.since) = Completed(at) /\ Completed(view.since)' = Completed(at)'
      /\ Settled(view.since) = Settled(at) /\ Settled(view.since)' = Settled(at)'
  BY <1>2 DEF Since, Completed, Settled
<1>5. Today' = Today /\ (pc' \in Later => Trend' = Trend)
  BY Totals
<1>6. pc' \in AfterCounts =>
         /\ Today' \in Nat /\ Today' <= Cardinality(Since(view.since))'
         /\ view'.counts["completed"] > 0 => Completed(view.since)' # {}
  BY <1>3, <1>4, <1>5 DEF FitInv
<1>7. pc' \in Later => Trend' \in Nat /\ Trend' >= Today'
  BY <1>5 DEF FitInv
<1>8. pc' \in AfterAverage => (view'.counts["completed"] > 0 => view'.avg # None)
  BY DEF FitInv
<1>9. pc' \in AfterQueue =>
         view'.queue \in Nat /\ Today' <= view'.queue + Cardinality(Settled(view.since))'
  <2>1. pc' \in AfterQueue => pc \in AfterCounts
    BY DEF AfterQueue, AfterCounts
  <2>2. QED
    BY <1>3, <1>4, <1>5, <2>1 DEF FitInv
<1>10. QED
  BY <1>1, <1>6, <1>7, <1>8, <1>9 DEF FitInv

LEMMA FitStep ==
    ASSUME FitInv, [Next]_vars
    PROVE  FitInv'
<1> USE DEF Later, AfterCounts, AfterAverage, AfterQueue
<1>1. Tables'
  BY TablesStep DEF FitInv
<1>2. IsView'
  BY ViewStep DEF FitInv
<1>3. CASE pc' \in {"idle", "counts"}
  BY <1>1, <1>2, <1>3 DEF FitInv
<1>4. CASE UNCHANGED <<pc, view>> /\ pc # "idle"
  BY <1>2, <1>4, FitStays
<1>5. CASE ReadCounts
  <2> DEFINE counts == CountByStatusSince(view.since)
  <2>1. /\ pc' = "hourly" /\ UNCHANGED <<status, created>>
        /\ view' = [view EXCEPT !.counts = counts]
    BY <1>5 DEF ReadCounts, Query, taskVars
  <2>2. view'.since = view.since /\ view'.counts = counts
    BY <2>1 DEF FitInv, IsView
  <2>3. /\ Since(view.since)' = Since(view.since)
        /\ Completed(view.since)' = Completed(view.since)
    BY <2>1, <2>2 DEF Since, Completed, Exists
  <2>4. Today' = Cardinality(Since(view.since))
    <3>1. Today' = Sum(counts, Statuses)
      BY <2>2, Totals
    <3>2. QED
      BY <3>1, CountsAddUp DEF FitInv, Tables
  <2>5. Cardinality(Since(view.since)) \in Nat
    BY SinceIsFinite
  <2>6. counts["completed"] > 0 => Completed(view.since) # {}
    <3>1. counts["completed"] = Cardinality(Completed(view.since))
      BY DEF CountByStatusSince, Statuses, Completed
    <3>2. QED
      BY <3>1, FS_EmptySet
  <2> HIDE DEF counts
  <2>7. QED
    BY <1>1, <1>2, <2>1, <2>2, <2>3, <2>4, <2>5, <2>6 DEF FitInv
<1>6. CASE ReadHourly
  <2> DEFINE hourly == HourlyCountsSince(view.since)
  <2>1. /\ pc = "hourly" /\ pc' = "average" /\ UNCHANGED <<status, created>>
        /\ view' = [view EXCEPT !.hourly = hourly]
    BY <1>6 DEF ReadHourly, Query, taskVars
  <2>2. view'.since = view.since /\ view'.counts = view.counts /\ view'.hourly = hourly
    BY <2>1 DEF FitInv, IsView
  <2>3. /\ Since(view.since)' = Since(view.since)
        /\ Completed(view.since)' = Completed(view.since)
    BY <2>1, <2>2 DEF Since, Completed, Exists
  <2>4. Trend' = Cardinality(Since(view.since)) /\ Today' = Today
    <3>1. Trend' = Sum(hourly, Hours)
      BY <2>2, Totals
    <3>2. QED
      BY <2>2, <3>1, HoursAddUp, Totals DEF FitInv, Tables
  <2>5. Cardinality(Since(view.since)) \in Nat
    BY SinceIsFinite
  <2> HIDE DEF hourly
  <2>6. QED
    BY <1>1, <1>2, <2>1, <2>2, <2>3, <2>4, <2>5 DEF FitInv
<1>7. CASE ReadAverage
  <2> DEFINE avg == AverageCompletedDurationSince(view.since)
  <2>1. /\ pc = "average" /\ pc' = "queue" /\ UNCHANGED <<status, created>>
        /\ view' = [view EXCEPT !.avg = avg]
    BY <1>7 DEF ReadAverage, Query, taskVars
  <2>2. /\ view'.since = view.since /\ view'.counts = view.counts
        /\ view'.hourly = view.hourly /\ view'.avg = avg
    BY <2>1 DEF FitInv, IsView
  <2>3. /\ Since(view.since)' = Since(view.since)
        /\ Completed(view.since)' = Completed(view.since)
    BY <2>1, <2>2 DEF Since, Completed, Exists
  <2>4. Trend' = Trend /\ Today' = Today
    BY <2>2, Totals
  <2>5. view.counts["completed"] > 0 => avg # None
    BY <2>1, AverageIsTime DEF FitInv, Tables
  <2> HIDE DEF avg
  <2>6. QED
    BY <1>1, <1>2, <2>1, <2>2, <2>3, <2>4, <2>5 DEF FitInv
<1>8. CASE ReadQueue
  <2> DEFINE at == view.since
             active == {t \in Since(at) : status[t] \in {"queued", "running"}}
             queue == {t \in Tasks : status[t] \in {"queued", "running"}}
  <2>1. /\ pc = "queue" /\ pc' = "recent" /\ UNCHANGED <<status, created>>
        /\ view' = [view EXCEPT !.queue = QueueCount]
    BY <1>8 DEF ReadQueue, Query, taskVars
  <2>2. /\ view'.since = view.since /\ view'.counts = view.counts
        /\ view'.hourly = view.hourly /\ view'.avg = view.avg /\ view'.queue = QueueCount
    BY <2>1 DEF FitInv, IsView
  <2>3. /\ Since(view.since)' = Since(view.since)
        /\ Completed(view.since)' = Completed(view.since)
        /\ Settled(view.since)' = Settled(view.since)
    BY <2>1, <2>2 DEF Since, Completed, Settled, Exists
  <2>4. Trend' = Trend /\ Today' = Today
    BY <2>2, Totals
  <2>5. Cardinality(Since(at)) = Cardinality(active) + Cardinality(Settled(at))
    <3>1. active \cup Settled(at) = Since(at) /\ active \cap Settled(at) = {}
      BY DEF Settled, Since, Exists, FitInv, Tables, Clock, Statuses
    <3>2. active \in SUBSET Tasks /\ Settled(at) \in SUBSET Tasks
      BY DEF Since, Settled
    <3>3. IsFiniteSet(active) /\ IsFiniteSet(Settled(at))
      BY <3>2, HourSets
    <3> HIDE DEF active
    <3>4. QED
      BY <3>1, <3>3, TwoParts
  <2>6. /\ Cardinality(active) <= QueueCount /\ QueueCount \in Nat
        /\ Cardinality(active) \in Nat /\ Cardinality(Settled(at)) \in Nat
    <3>1. active \in SUBSET Tasks /\ queue \in SUBSET Tasks /\ active \subseteq queue
      BY DEF Since
    <3>2. /\ Cardinality(active) <= Cardinality(queue)
          /\ Cardinality(active) \in Nat /\ Cardinality(queue) \in Nat
      <4> HIDE DEF active, queue
      <4>1. QED
        BY <3>1, HourSets
    <3>3. QED
      BY <3>2, SinceIsFinite DEF QueueCount
  <2> HIDE DEF active, queue
  <2>7. Today <= QueueCount + Cardinality(Settled(at))
    BY <2>1, <2>5, <2>6 DEF FitInv
  <2>8. QED
    BY <1>1, <1>2, <2>1, <2>2, <2>3, <2>4, <2>6, <2>7 DEF FitInv
<1>9. CASE ReadRecent \/ ReadTop
  <2>1. /\ pc \in AfterQueue /\ pc' \in AfterQueue
        /\ \E x : \/ view' = [view EXCEPT !.recent = x]
                  \/ view' = [view EXCEPT !.top = x]
    BY <1>9 DEF ReadRecent, ReadTop, Query
  <2>2. /\ view'.since = view.since /\ view'.counts = view.counts
        /\ view'.hourly = view.hourly /\ view'.avg = view.avg /\ view'.queue = view.queue
    BY <2>1 DEF FitInv, IsView
  <2>3. QED
    BY <1>2, <2>1, <2>2, FitStays
<1>10. CASE Begin \/ Close
  BY <1>3, <1>10 DEF Begin, Close
<1>11. QED
  BY <1>3, <1>4, <1>5, <1>6, <1>7, <1>8, <1>9, <1>10
     DEF Next, vars, Tick, Submit, MarkTaskRunning, CompleteTaskForApp, FailTaskForApp,
         WalkBegin, List, WalkEnd

(* The numbers of the overview fit together although they come from six     *)
(* states: every task counted is in one hour of the trend, a counted        *)
(* success has an average, and a counted task waits in the queue or has     *)
(* settled since.                                                           *)
THEOREM NumbersFitAlways == Spec => []NumbersFit
<1>1. Init => FitInv
  BY DashboardAssumption
     DEF Init, FitInv, Tables, TimesInv, Dated, Clock, Times, Exists, IsView, EmptyView,
         AfterCounts, Later, AfterAverage, AfterQueue
<1>2. FitInv /\ [Next]_vars => FitInv'
  BY FitStep
<1>3. FitInv => NumbersFit
  BY DEF FitInv, NumbersFit, Done, Settled, AfterCounts, Later, AfterAverage, AfterQueue
<1>4. QED
  BY <1>1, <1>2, <1>3, PTL DEF Spec

-----------------------------------------------------------------------------
(* A client that goes on has just read a full page, so it is at most one    *)
(* page past the last task when it stops.                                   *)
PageInv ==
    /\ Clock
    /\ walk = [page |-> walk.page, old |-> walk.old, seen |-> walk.seen, last |-> walk.last]
    /\ walk.page \in Nat
    /\ walk.page <= Cardinality(Listed) + 2
    /\ walk.page > 0 /\ ~walk.last => walk.page <= Cardinality(Listed) + 1

LEMMA PageStep ==
    ASSUME PageInv, [Next]_vars
    PROVE  PageInv'
<1>n. PageSize \in Nat \ {0}
  BY DashboardAssumption
<1>1. /\ Clock'
      /\ Cardinality(Listed) <= Cardinality(Listed')
      /\ Cardinality(Listed) \in Nat /\ Cardinality(Listed') \in Nat
  <2>1. Listed \subseteq Listed' /\ Listed \in SUBSET Tasks /\ Listed' \in SUBSET Tasks
    BY RowsStay DEF PageInv, Listed
  <2>2. QED
    BY <2>1, HourSets, ClockStep DEF PageInv
<1>2. CASE UNCHANGED walk
  BY <1>1, <1>2 DEF PageInv
<1>3. CASE WalkBegin \/ WalkEnd
  <2>1. /\ walk' = [page |-> walk'.page, old |-> walk'.old, seen |-> walk'.seen,
                    last |-> walk'.last]
        /\ walk'.page \in {0, 1}
    <3>1. CASE WalkBegin
      <4>1. walk' = [page |-> 1, old |-> Listed, seen |-> {}, last |-> FALSE]
        BY <3>1 DEF WalkBegin, NoWalk, Listed
      <4>2. QED
        BY <4>1
    <3>2. CASE WalkEnd
      BY <3>2 DEF WalkEnd, NoWalk
    <3>3. QED
      BY <1>3, <3>1, <3>2
  <2>2. /\ walk'.page \in Nat
        /\ walk'.page <= Cardinality(Listed') + 2
        /\ walk'.page <= Cardinality(Listed') + 1
    BY <1>1, <2>1
  <2>3. QED
    BY <1>1, <2>1, <2>2 DEF PageInv
<1>4. CASE List
  <2> DEFINE p    == walk.page
             page == Page(walk.page)
             n    == Cardinality(Listed)
  <2>1. /\ p \in Nat /\ p > 0 /\ p <= n + 1
        /\ walk' = [walk EXCEPT !.page = p + 1, !.seen = walk.seen \cup page,
                                !.last = Cardinality(page) < PageSize]
    BY <1>4 DEF List, PageInv
  <2>2. walk' = [page |-> p + 1, old |-> walk.old, seen |-> walk.seen \cup page,
                 last |-> Cardinality(page) < PageSize]
    BY <2>1 DEF PageInv
  <2>3. ASSUME ~(Cardinality(page) < PageSize)
        PROVE  p <= n
    <3>1. page # {}
      BY <1>n, <2>3, FS_EmptySet
    <3>2. PICK t \in Listed : Position(t) \in (p - 1) * PageSize + 1 .. p * PageSize
      BY <3>1 DEF Page, Rows
    <3>3. Position(t) \in 1 .. n
      <4>1. [u \in Listed |-> Position(u)] \in Bijection(Listed, 1 .. n)
        BY Numbered DEF PageInv
      <4>2. QED
        BY <4>1 DEF Bijection, Injection
    <3>4. PICK k \in Nat : k = p - 1
      BY <2>1
    <3>5. k <= k * PageSize /\ k * PageSize \in Nat
      BY <1>n
    <3>6. k + 1 <= n
      BY <1>1, <3>2, <3>3, <3>4, <3>5
    <3>7. QED
      BY <2>1, <3>4, <3>6
  <2>4. walk'.page = p + 1 /\ (~walk'.last => p <= n)
    BY <2>2, <2>3
  <2>5. walk' = [page |-> walk'.page, old |-> walk'.old, seen |-> walk'.seen,
                 last |-> walk'.last]
    BY <2>2
  <2> HIDE DEF page
  <2>6. QED
    BY <1>1, <2>1, <2>4, <2>5 DEF PageInv
<1>5. QED
  BY <1>2, <1>3, <1>4
     DEF Next, vars, Tick, Submit, MarkTaskRunning, CompleteTaskForApp, FailTaskForApp,
         Begin, ReadCounts, ReadHourly, ReadAverage, ReadQueue, ReadRecent, ReadTop,
         Query, Close

Kept ==
    /\ owner \in [Tasks -> Apps \cup {None}]
    /\ risk \in [Apps -> RiskLevels \cup {None}]
    /\ pc \in Queries \cup {"idle", "done"}

TypeInv ==
    /\ Tables /\ IsView /\ PageInv /\ Kept
    /\ view.avg \in Times \cup {None}
    /\ \A row \in view.recent : row.duration \in Times \cup {None}

LEMMA KeptStep ==
    ASSUME Kept, [Next]_vars
    PROVE  Kept'
<1>1. ASSUME NEW t \in Tasks, NEW a \in Apps, Submit(t, a)
      PROVE  Kept'
  BY <1>1 DEF Submit, Kept
<1>2. ASSUME NEW t \in Tasks, CompleteTaskForApp(t)
      PROVE  Kept'
  BY <1>2 DEF CompleteTaskForApp, Kept
<1>3. CASE \/ Tick
           \/ \E t \in Tasks : MarkTaskRunning(t) \/ FailTaskForApp(t)
           \/ WalkBegin \/ List \/ WalkEnd \/ UNCHANGED vars
  BY <1>3 DEF Tick, MarkTaskRunning, FailTaskForApp, WalkBegin, List, WalkEnd, vars,
     taskVars, Kept
<1>4. CASE \/ Begin \/ ReadCounts \/ ReadHourly \/ ReadAverage \/ ReadQueue \/ ReadRecent
           \/ ReadTop \/ Close
  BY <1>4 DEF Begin, ReadCounts, ReadHourly, ReadAverage, ReadQueue, ReadRecent, ReadTop,
     Query, Close, taskVars, Kept, Queries
<1>5. QED
  BY <1>1, <1>2, <1>3, <1>4 DEF Next

LEMMA DurationIsTime ==
    ASSUME TimesInv, NEW t \in Listed
    PROVE  Duration(t) \in Times \cup {None}
<1>1. t \in Tasks /\ Dated(t) /\ status[t] \in Statuses
  BY DEF TimesInv, Listed, Exists
<1>2. MaxNow \in Nat
  BY DashboardAssumption
<1>3. CASE status[t] \in {"queued", "running"}
  BY <1>1, <1>3 DEF Dated, Duration
<1>4. CASE status[t] \in {"completed", "failed"}
  BY <1>1, <1>2, <1>4 DEF Dated, Duration, Times
<1>5. QED
  BY <1>1, <1>3, <1>4 DEF Statuses

LEMMA TypeStep ==
    ASSUME TypeInv, [Next]_vars
    PROVE  TypeInv'
<1>1. Tables' /\ IsView' /\ PageInv' /\ Kept'
  BY TablesStep, ViewStep, PageStep, KeptStep DEF TypeInv
<1>2. CASE UNCHANGED view
  BY <1>1, <1>2 DEF TypeInv
<1>3. CASE Begin \/ Close
  BY <1>1, <1>3 DEF Begin, Close, EmptyView, TypeInv
<1>4. CASE ReadAverage
  <2> DEFINE avg == AverageCompletedDurationSince(view.since)
  <2>1. view' = [view EXCEPT !.avg = avg]
    BY <1>4 DEF ReadAverage, Query
  <2>2. view'.avg = avg /\ view'.recent = view.recent
    BY <2>1 DEF TypeInv, IsView
  <2>3. avg \in Times \cup {None}
    BY AverageIsTime DEF TypeInv, Tables
  <2> HIDE DEF avg
  <2>4. QED
    BY <1>1, <2>2, <2>3 DEF TypeInv
<1>5. CASE ReadRecent
  <2>1. view' = [view EXCEPT !.recent = Recent(RecentLimit)]
    BY <1>5 DEF ReadRecent, Query
  <2>2. view'.avg = view.avg /\ view'.recent = Recent(RecentLimit)
    BY <2>1 DEF TypeInv, IsView
  <2>3. \A row \in Recent(RecentLimit) : row.duration \in Times \cup {None}
    BY DurationIsTime DEF Recent, Rows, TypeInv, Tables
  <2>4. QED
    BY <1>1, <2>2, <2>3 DEF TypeInv
<1>6. CASE ReadCounts \/ ReadHourly \/ ReadQueue \/ ReadTop
  <2>1. \E x : \/ view' = [view EXCEPT !.counts = x]
               \/ view' = [view EXCEPT !.hourly = x]
               \/ view' = [view EXCEPT !.queue = x]
               \/ view' = [view EXCEPT !.top = x]
    BY <1>6 DEF ReadCounts, ReadHourly, ReadQueue, ReadTop, Query
  <2>2. view'.avg = view.avg /\ view'.recent = view.recent
    BY <2>1 DEF TypeInv, IsView
  <2>3. QED
    BY <1>1, <2>2 DEF TypeInv
<1>7. QED
  BY <1>2, <1>3, <1>4, <1>5, <1>6
     DEF Next, vars, Tick, Submit, MarkTaskRunning, CompleteTaskForApp, FailTaskForApp,
         WalkBegin, List, WalkEnd

(* The types: a mean of durations is a time again, no duration is negative, *)
(* and a walk stops at the latest one page after the last task.             *)
THEOREM DashboardTypeCorrect == Spec => []TypeOK
<1>1. Init => TypeInv
  <2>1. Init => Tables /\ IsView /\ Kept
    BY DashboardAssumption
       DEF Init, Tables, TimesInv, Dated, Clock, Times, Exists, IsView, EmptyView, Kept
  <2>2. Init => PageInv
    <3>1. Init => Cardinality(Listed) = 0
      BY FS_EmptySet DEF Init, Listed, Exists
    <3>2. QED
      BY <2>1, <3>1 DEF Init, PageInv, NoWalk, Tables
  <2>3. QED
    BY <2>1, <2>2 DEF Init, TypeInv, EmptyView
<1>2. TypeInv /\ [Next]_vars => TypeInv'
  BY TypeStep
<1>3. TypeInv => TypeOK
  <2> SUFFICES ASSUME TypeInv
               PROVE  TypeOK
    OBVIOUS
  <2>1. walk.page \in 0 .. MaxTasks + 2
    <3>1. Listed \in SUBSET Tasks
      BY DEF Listed
    <3>2. Cardinality(Tasks) = MaxTasks /\ MaxTasks \in Nat
      BY DashboardAssumption, FS_Interval DEF Tasks
    <3>3. Cardinality(Listed) <= MaxTasks /\ Cardinality(Listed) \in Nat
      BY <3>1, <3>2, HourSets
    <3>4. QED
      BY <3>2, <3>3 DEF TypeInv, PageInv
  <2>2. QED
    BY <2>1 DEF TypeInv, TypeOK, Tables, Clock, TimesInv, Kept
<1>4. QED
  BY <1>1, <1>2, <1>3, PTL DEF Spec
=============================================================================
