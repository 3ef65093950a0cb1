------------------------------- MODULE EngineLogs -----------------------------
(***************************************************************************)
(* One engine run and its log: the child process and its two pipes, the     *)
(* goroutines that scan them and append a log row per line, Run, which      *)
(* waits for all of them (internal/worker/engine.go), and a client that     *)
(* polls the rows after an id (GET /hardening-tasks/:id/logs).              *)
(***************************************************************************)
EXTENDS Integers, Sequences, FiniteSets

CONSTANTS
    MaxLines,       \* bound: lines the engine writes
    PipeCap,        \* lines that fit into a pipe nobody reads
    DefaultLimit,   \* page size when the client asks for none or too much (200)
    MaxLimit,       \* largest page size (500)
    DbFails         \* may an INSERT into hardening_logs fail?

ASSUME LogsAssumption ==
    /\ MaxLines \in Nat
    /\ PipeCap \in Nat \ {0}
    /\ DefaultLimit \in Nat \ {0}
    /\ MaxLimit \in Nat
    /\ DefaultLimit <= MaxLimit
    /\ DbFails \in BOOLEAN

Streams == {"stdout", "stderr"}

(* A line is known by its stream and number; a long one exceeds the 1 MB    *)
(* buffer of the scanner, which is far more than a pipe holds.              *)
Lines  == [stream : Streams, no : 1 .. MaxLines, long : BOOLEAN]
NoLine == [stream |-> "none", no |-> 0, long |-> FALSE]
Ids    == 1 .. MaxLines

VARIABLES
    child,     \* the engine: "running", "exited" (status 0), "failed", "killed"
    writing,   \* the line the engine is in the middle of writing
    written,   \* number of lines the engine has begun to write, by stream
    pipe,      \* what is in the two pipes
    ctxDone,   \* the task's timeout has passed, or the worker is shut down
    rpc,       \* the scanning goroutine of a stream
    rline,     \* the line it is handing to onLine
    rid,       \* the id its INSERT has drawn from the sequence
    scanErr,   \* errCh: did its scanner end with an error?
    run,       \* Run: "drain" (wg.Wait), "wait" (cmd.Wait), "ok", "error"
    nextId,    \* the sequence of hardening_logs.id
    rows,      \* the committed rows: [id, line]
    dropped,   \* lines whose INSERT failed; onLine ignores the error
    after,     \* the client: the id it has read up to ...
    seen,      \* ... the rows it was given ...
    late       \* ... and whether it started after Run had returned

childVars  == <<child, writing, written, ctxDone>>
readerVars == <<rpc, rline, rid, scanErr>>
tableVars  == <<nextId, rows, dropped>>
clientVars == <<after, seen, late>>
vars == <<childVars, pipe, readerVars, run, tableVars, clientVars>>

Returned == run \in {"ok", "error"}

Rows == [id : Ids, line : Lines]

TypeOK ==
    /\ child \in {"running", "exited", "failed", "killed"}
    /\ writing \in Lines \cup {NoLine}
    /\ written \in [Streams -> 0 .. MaxLines]
    /\ pipe \in [Streams -> Seq(Lines)]
    /\ \A s \in Streams : Len(pipe[s]) <= PipeCap
    /\ ctxDone \in BOOLEAN
    /\ rpc \in [Streams -> {"scan", "insert", "commit", "done"}]
    /\ rline \in [Streams -> Lines \cup {NoLine}]
    /\ rid \in [Streams -> Ids \cup {0}]
    /\ scanErr \in [Streams -> BOOLEAN]
    /\ run \in {"drain", "wait", "ok", "error"}
    /\ nextId \in 1 .. MaxLines + 1
    /\ rows \subseteq Rows
    /\ dropped \subseteq Lines
    /\ after \in Ids \cup {0}
    /\ seen \subseteq rows
    /\ late \in BOOLEAN

(* cmd.Start has succeeded and the two goroutines are running.              *)
Init ==
    /\ child = "running"
    /\ writing = NoLine
    /\ written = [s \in Streams |-> 0]
    /\ pipe = [s \in Streams |-> <<>>]
    /\ ctxDone = FALSE
    /\ rpc = [s \in Streams |-> "scan"]
    /\ rline = [s \in Streams |-> NoLine]
    /\ rid = [s \in Streams |-> 0]
    /\ scanErr = [s \in Streams |-> FALSE]
    /\ run = "drain"
    /\ nextId = 1
    /\ rows = {}
    /\ dropped = {}
    /\ after = 0
    /\ seen = {}
    /\ late = FALSE

-----------------------------------------------------------------------------
(* The engine.  It may write, hang, exit or fail as it likes.               *)

Put(line) == pipe' = [pipe EXCEPT ![line.stream] = Append(@, line)]

BeginLine(s, long) ==
    /\ child = "running"
    /\ writing = NoLine
    /\ written["stdout"] + written["stderr"] < MaxLines
    /\ writing' = [stream |-> s, no |-> written[s] + 1, long |-> long]
    /\ written' = [written EXCEPT ![s] = @ + 1]
    /\ UNCHANGED <<child, ctxDone, pipe, readerVars, run, tableVars, clientVars>>

(* A write blocks while the pipe is full; a long line needs a reader.       *)
EndLine ==
    /\ child = "running"
    /\ writing # NoLine
    /\ Len(pipe[writing.stream]) < PipeCap
    /\ writing.long => rpc[writing.stream] # "done"
    /\ Put(writing)
    /\ writing' = NoLine
    /\ UNCHANGED <<child, written, ctxDone, readerVars, run, tableVars, clientVars>>

ChildExits ==
    /\ child = "running"
    /\ writing = NoLine
    /\ child' \in {"exited", "failed"}
    /\ UNCHANGED <<writing, written, ctxDone, pipe, readerVars, run, tableVars,
                   clientVars>>

(* context.WithTimeout in runTask, or SIGTERM.                              *)
ContextEnds ==
    /\ ~ctxDone
    /\ ~Returned
    /\ ctxDone' = TRUE
    /\ UNCHANGED <<child, writing, written, pipe, readerVars, run, tableVars,
                   clientVars>>

(* Mutant: exec.Command, which knows no context.                            *)
KillWithoutContext == FALSE /\ UNCHANGED vars

(* exec.CommandContext: its goroutine kills the child, whoever is blocked.  *)
(* The start of a line that was being written may reach the scanner.        *)
Kill ==
    /\ ctxDone
    /\ child = "running"
    /\ child' = "killed"
    /\ writing' = NoLine
    /\ \/ UNCHANGED pipe
       \/ /\ writing # NoLine
          /\ Len(pipe[writing.stream]) < PipeCap
          /\ Put([writing EXCEPT !.long = FALSE])
    /\ UNCHANGED <<written, ctxDone, readerVars, run, tableVars, clientVars>>

-----------------------------------------------------------------------------
(* scanEngineLines.                                                         *)

ScanLine(s) ==
    /\ rpc[s] = "scan"
    /\ pipe[s] # <<>>
    /\ ~Head(pipe[s]).long
    /\ rline' = [rline EXCEPT ![s] = Head(pipe[s])]
    /\ pipe' = [pipe EXCEPT ![s] = Tail(@)]
    /\ rpc' = [rpc EXCEPT ![s] = "insert"]
    /\ UNCHANGED <<childVars, rid, scanErr, run, tableVars, clientVars>>

(* Mutant: scanner.Err() is not looked at.                                  *)
ScanTooLongUnnoticed(s) ==
    /\ rpc[s] = "scan"
    /\ pipe[s] # <<>>
    /\ Head(pipe[s]).long
    /\ rpc' = [rpc EXCEPT ![s] = "done"]
    /\ UNCHANGED <<childVars, pipe, rline, rid, scanErr, run, tableVars, clientVars>>

(* bufio.ErrTooLong: the goroutine ends, the rest of the line stays in the  *)
(* pipe and nobody will read it.                                            *)
ScanTooLong(s) ==
    /\ rpc[s] = "scan"
    /\ pipe[s] # <<>>
    /\ Head(pipe[s]).long
    /\ scanErr' = [scanErr EXCEPT ![s] = TRUE]
    /\ rpc' = [rpc EXCEPT ![s] = "done"]
    /\ UNCHANGED <<childVars, pipe, rline, rid, run, tableVars, clientVars>>

ScanEOF(s) ==
    /\ rpc[s] = "scan"
    /\ pipe[s] = <<>>
    /\ child # "running"
    /\ rpc' = [rpc EXCEPT ![s] = "done"]
    /\ UNCHANGED <<childVars, pipe, rline, rid, scanErr, run, tableVars, clientVars>>

(* The next Scan of the loop: the row was stored or the error ignored.      *)
NextScan(s) ==
    /\ rpc' = [rpc EXCEPT ![s] = "scan"]
    /\ rline' = [rline EXCEPT ![s] = NoLine]
    /\ rid' = [rid EXCEPT ![s] = 0]
    /\ UNCHANGED scanErr

DropLine(s) ==
    /\ DbFails
    /\ dropped' = dropped \cup {rline[s]}
    /\ UNCHANGED rows
    /\ NextScan(s)

(* AppendLog: the INSERT draws its id from the sequence ...                 *)
AppendLog(s) ==
    /\ rpc[s] = "insert"
    /\ \/ /\ rid' = [rid EXCEPT ![s] = nextId]
          /\ nextId' = nextId + 1
          /\ rpc' = [rpc EXCEPT ![s] = "commit"]
          /\ UNCHANGED <<rline, scanErr, rows, dropped>>
       \/ DropLine(s) /\ UNCHANGED nextId
    /\ UNCHANGED <<childVars, pipe, run, clientVars>>

(* Mutant: the row is stored without the id that was drawn for it.          *)
AppendCommitUnnumbered(s) ==
    /\ rpc[s] = "commit"
    /\ rows' = rows \cup {[id |-> 0, line |-> rline[s]]}
    /\ NextScan(s)
    /\ UNCHANGED <<childVars, pipe, run, nextId, dropped, clientVars>>

(* ... and is seen by others once its transaction commits.                  *)
AppendCommit(s) ==
    /\ rpc[s] = "commit"
    /\ \/ /\ rows' = rows \cup {[id |-> rid[s], line |-> rline[s]]}
          /\ UNCHANGED dropped
          /\ NextScan(s)
       \/ DropLine(s)
    /\ UNCHANGED <<childVars, pipe, run, nextId, clientVars>>

Scanner(s) ==
    ScanLine(s) \/ ScanTooLong(s) \/ ScanEOF(s) \/ AppendLog(s) \/ AppendCommit(s)

-----------------------------------------------------------------------------
(* Run.                                                                     *)

(* Mutant: cmd.Wait is called while the goroutines still scan.              *)
DrainUnfinished ==
    /\ run = "drain"
    /\ run' = "wait"
    /\ UNCHANGED <<childVars, pipe, readerVars, tableVars, clientVars>>

(* wg.Wait: both pipes are drained before cmd.Wait closes them.             *)
Drain ==
    /\ run = "drain"
    /\ \A s \in Streams : rpc[s] = "done"
    /\ run' = "wait"
    /\ UNCHANGED <<childVars, pipe, readerVars, tableVars, clientVars>>

(* cmd.Wait and the errors of errCh.  A context that ended may turn even    *)
(* exit status 0 into an error.                                             *)
Wait ==
    /\ run = "wait"
    /\ child # "running"
    /\ \/ /\ child = "exited"
          /\ \A s \in Streams : ~scanErr[s]
          /\ run' = "ok"
       \/ /\ \/ child # "exited" \/ ctxDone
             \/ \E s \in Streams : scanErr[s]
          /\ run' = "error"
    /\ UNCHANGED <<childVars, pipe, readerVars, tableVars, clientVars>>

-----------------------------------------------------------------------------
(* The client: HardeningHandler.Logs, HardeningRepository.Logs.             *)

(* A limit of 0 is honoured; none given is -1.                              *)
PageSize(limit) == IF limit < 0 \/ limit > MaxLimit THEN DefaultLimit ELSE limit

After(id) == {r \in rows : r.id > id}

(* Mutant: ORDER BY id DESC.                                                *)
NewestPage(id, limit) ==
    {r \in After(id) :
        Cardinality({q \in After(id) : q.id > r.id}) < PageSize(limit)}

(* WHERE id > afterId ORDER BY id LIMIT n.                                  *)
Logs(id, limit) ==
    {r \in After(id) :
        Cardinality({q \in After(id) : q.id < r.id}) < PageSize(limit)}

Poll(limit) ==
    LET page == Logs(after, limit) IN
    /\ seen' = seen \cup page
    /\ \/ page = {} /\ UNCHANGED after
       \/ \E r \in page : after' = r.id /\ \A q \in page : q.id <= r.id
    /\ UNCHANGED <<childVars, pipe, readerVars, run, tableVars, late>>

(* The page is opened (again) once the engine is through.                   *)
OpenLate ==
    /\ Returned
    /\ ~late
    /\ late' = TRUE
    /\ after' = 0
    /\ seen' = {}
    /\ UNCHANGED <<childVars, pipe, readerVars, run, tableVars>>

Limits == -1 .. MaxLimit + 1

Next ==
    \/ \E s \in Streams, long \in BOOLEAN : BeginLine(s, long)
    \/ EndLine \/ ChildExits \/ ContextEnds \/ Kill
    \/ \E s \in Streams : Scanner(s)
    \/ Drain \/ Wait
    \/ \E limit \in Limits : Poll(limit)
    \/ OpenLate

(* Goroutines are scheduled, the timeout passes, a kill arrives, and a page *)
(* that is open keeps polling.  Nothing is assumed of the engine.           *)
Fairness ==
    /\ WF_vars(ContextEnds)
    /\ WF_vars(Kill)
    /\ \A s \in Streams : WF_vars(Scanner(s))
    /\ WF_vars(Drain)
    /\ WF_vars(Wait)
    /\ WF_vars(\E limit \in Limits : Poll(limit))

Spec == Init /\ [][Next]_vars
FairSpec == Spec /\ Fairness

-----------------------------------------------------------------------------
(* Run always returns, whatever the engine does: it may hang, block on a    *)
(* pipe whose scanner gave up on a 1 MB line, or write to both streams at   *)
(* once (the kill does not wait for wg.Wait).                               *)
RunReturns == <>Returned

(* When Run reports success no line is missing: each one the engine wrote   *)
(* is a row, or its own INSERT failed.  A line the scanner could not take   *)
(* makes the run fail (errCh).                                              *)
SuccessLosesNothing ==
    run = "ok" =>
        \A s \in Streams : \A n \in 1 .. written[s] :
            [stream |-> s, no |-> n, long |-> FALSE]
                \in dropped \cup {r.line : r \in rows}

(* No row appears after Run has returned (wg.Wait): the step can be closed. *)
NoLateRow == [][rows' # rows => ~Returned]_vars

(* A page opened after the run that asks for rows and is given none has     *)
(* been given them all: a client may stop there, whatever the page sizes it *)
(* asked for on the way (`id > afterId ORDER BY id LIMIT n`).               *)
EmptyPageIsTheEnd ==
    \A limit \in Limits :
        late /\ PageSize(limit) > 0 /\ Logs(after, limit) = {} => seen = rows

(* A page that is opened after the run is given every row, whatever page    *)
(* sizes it asks for: `id > afterId ORDER BY id LIMIT n` skips none.  While *)
(* the run goes on, a row may be missed: ids are drawn before the commit.   *)
LatePageComplete == Returned /\ late ~> seen = rows
=============================================================================
