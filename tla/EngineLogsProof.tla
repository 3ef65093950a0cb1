--------------------------- MODULE EngineLogsProof ----------------------------
(***************************************************************************)
(* The engine's output on its way into the log table, for every number of   *)
(* lines, pipe size and page size, whether INSERTs fail or not.             *)
(***************************************************************************)
EXTENDS EngineLogs, FiniteSetTheorems, TLAPS

LineOf(s, n) == [stream |-> s, no |-> n, long |-> FALSE]

(* Lines of a stream that have no id yet, and the one being written.        *)
Waiting(s) == Len(pipe[s]) + (IF rpc[s] = "insert" THEN 1 ELSE 0)
Writing    == IF writing = NoLine THEN 0 ELSE 1

(* Every line is written, waits in a pipe, waits for its INSERT or has used *)
(* up at most one id of the sequence, so ids never run out before lines do. *)
IdsCovered ==
    /\ written["stdout"] + written["stderr"] <= MaxLines
    /\ nextId + Waiting("stdout") + Waiting("stderr") + Writing
         <= written["stdout"] + written["stderr"] + 1

(* What a scanning goroutine holds.                                         *)
HoldsLine(s) ==
    /\ \A i \in 1 .. Len(pipe[s]) : pipe[s][i].stream = s
    /\ rpc[s] \in {"insert", "commit"} =>
          rline[s] \in Lines /\ rline[s].stream = s /\ ~rline[s].long
    /\ rpc[s] = "commit" => rid[s] \in Ids
    /\ rpc[s] = "done" /\ ~scanErr[s] => child # "running" /\ pipe[s] = <<>>
    /\ rpc[s] # "done" => ~scanErr[s]

(* Where a line is: being written, in the pipe, with the goroutine, stored  *)
(* or dropped; the kill of the engine may take one away.                    *)
Placed(s, n) ==
    \/ writing # NoLine /\ writing.stream = s /\ writing.no = n
    \/ \E i \in 1 .. Len(pipe[s]) : pipe[s][i].no = n
    \/ rpc[s] \in {"insert", "commit"} /\ rline[s].no = n
    \/ LineOf(s, n) \in dropped
    \/ \E r \in rows : r.line = LineOf(s, n)
    \/ child = "killed"

(* Run goes through its stages only after both goroutines are done.         *)
RunOrder ==
    /\ child # "running" => writing = NoLine
    /\ run # "drain" => \A s \in Streams : rpc[s] = "done"
    /\ run = "ok" => child = "exited" /\ \A s \in Streams : ~scanErr[s]

LogsInv ==
    /\ TypeOK
    /\ IdsCovered
    /\ RunOrder
    /\ \A s \in Streams : HoldsLine(s)

AllPlaced == \A s \in Streams : \A n \in 1 .. written[s] : Placed(s, n)

-----------------------------------------------------------------------------
(* Types.                                                                   *)

LEMMA LogsInit == Init => LogsInv /\ AllPlaced
<1> SUFFICES ASSUME Init
             PROVE  LogsInv /\ AllPlaced
  OBVIOUS
<1>1. pipe \in [Streams -> Seq(Lines)]
  <2>1. <<>> \in Seq(Lines)
    OBVIOUS
  <2>2. QED
    BY <2>1 DEF Init
<1>2. pipe["stdout"] = <<>> /\ pipe["stderr"] = <<>> /\ \A s \in Streams : pipe[s] = <<>>
  BY DEF Init, Streams
<1>3. TypeOK
  <2>1. \A s \in Streams : Len(pipe[s]) <= PipeCap
    BY <1>2, LogsAssumption
  <2>2. 0 \in 0 .. MaxLines /\ 1 \in 1 .. MaxLines + 1
    BY LogsAssumption
  <2>3. /\ written \in [Streams -> 0 .. MaxLines]
        /\ rpc \in [Streams -> {"scan", "insert", "commit", "done"}]
        /\ rline \in [Streams -> Lines \cup {NoLine}]
        /\ rid \in [Streams -> Ids \cup {0}]
        /\ scanErr \in [Streams -> BOOLEAN]
    BY <2>2 DEF Init
  <2>4. QED
    BY <1>1, <2>1, <2>2, <2>3 DEF Init, TypeOK
<1>4. IdsCovered
  <2>1. /\ written["stdout"] = 0 /\ written["stderr"] = 0
        /\ rpc["stdout"] = "scan" /\ rpc["stderr"] = "scan"
        /\ writing = NoLine /\ nextId = 1
    BY DEF Init, Streams
  <2>2. Waiting("stdout") = 0 /\ Waiting("stderr") = 0 /\ Writing = 0
    BY <1>2, <2>1 DEF Waiting, Writing
  <2>3. QED
    BY <2>1, <2>2, LogsAssumption DEF IdsCovered
<1>5. RunOrder /\ \A s \in Streams : HoldsLine(s)
  BY <1>2 DEF Init, RunOrder, HoldsLine
<1>6. AllPlaced
  BY DEF Init, AllPlaced
<1>7. QED
  BY <1>3, <1>4, <1>5, <1>6 DEF LogsInv

(* A line that is put into its pipe.                                        *)
LEMMA Putting ==
    ASSUME TypeOK, NEW line \in Lines, Len(pipe[line.stream]) < PipeCap, Put(line)
    PROVE  /\ pipe' \in [Streams -> Seq(Lines)]
           /\ pipe'[line.stream] = Append(pipe[line.stream], line)
           /\ \A s \in Streams \ {line.stream} : pipe'[s] = pipe[s]
           /\ \A s \in Streams : Len(pipe'[s]) <= PipeCap
<1>1. line.stream \in Streams /\ pipe \in [Streams -> Seq(Lines)]
  BY DEF Lines, TypeOK
<1>2. pipe[line.stream] \in Seq(Lines)
  BY <1>1
<1>3. /\ Append(pipe[line.stream], line) \in Seq(Lines)
      /\ Len(Append(pipe[line.stream], line)) = Len(pipe[line.stream]) + 1
  BY <1>2
<1>4. Len(pipe[line.stream]) \in Nat /\ PipeCap \in Nat
  BY <1>2, LogsAssumption
<1>5. QED
  BY <1>1, <1>3, <1>4 DEF Put, TypeOK

(* The head of a pipe that is scanned.                                      *)
LEMMA Scanning ==
    ASSUME TypeOK, NEW s \in Streams, pipe[s] # <<>>,
           pipe' = [pipe EXCEPT ![s] = Tail(@)]
    PROVE  /\ Head(pipe[s]) \in Lines /\ Head(pipe[s]) = pipe[s][1]
           /\ pipe' \in [Streams -> Seq(Lines)]
           /\ Len(pipe[s]) \in Nat \ {0} /\ Len(pipe'[s]) = Len(pipe[s]) - 1
           /\ \A i \in 1 .. Len(pipe'[s]) : pipe'[s][i] = pipe[s][i + 1]
           /\ \A t \in Streams \ {s} : pipe'[t] = pipe[t]
           /\ \A t \in Streams : Len(pipe'[t]) <= PipeCap
<1>1. pipe[s] \in Seq(Lines) /\ pipe \in [Streams -> Seq(Lines)]
  BY DEF TypeOK
<1>2. /\ Head(pipe[s]) \in Lines /\ Head(pipe[s]) = pipe[s][1]
      /\ Tail(pipe[s]) \in Seq(Lines)
      /\ Len(pipe[s]) \in Nat \ {0} /\ Len(Tail(pipe[s])) = Len(pipe[s]) - 1
      /\ \A i \in 1 .. Len(Tail(pipe[s])) : Tail(pipe[s])[i] = pipe[s][i + 1]
  BY <1>1
<1>3. pipe'[s] = Tail(pipe[s]) /\ \A t \in Streams \ {s} : pipe'[t] = pipe[t]
  BY <1>1
<1>4. PipeCap \in Nat /\ \A t \in Streams : Len(pipe[t]) <= PipeCap
  BY LogsAssumption DEF TypeOK
<1>5. QED
  BY <1>1, <1>2, <1>3, <1>4

-----------------------------------------------------------------------------
(* The sums of IdsCovered are sums of naturals.                             *)
Natural ==
    /\ \A s \in Streams : Waiting(s) \in Nat /\ written[s] \in Nat
    /\ Writing \in {0, 1}
    /\ nextId \in Nat

LEMMA Sums == TypeOK => Natural
  BY LogsAssumption DEF TypeOK, Natural, Waiting, Writing

LEMMA SumsNext == TypeOK' => Natural'
  BY LogsAssumption DEF TypeOK, Natural, Waiting, Writing

(* A step that adds no waiting line keeps the ids covered.                  *)
LEMMA CoverKept ==
    ASSUME Natural, Natural', IdsCovered, UNCHANGED <<written, nextId>>,
           \A s \in Streams : Waiting(s)' <= Waiting(s),
           Writing' <= Writing
    PROVE  IdsCovered'
  BY LogsAssumption DEF Natural, IdsCovered, Streams

-----------------------------------------------------------------------------
(* The engine's steps.                                                      *)
LogsStep == LogsInv' /\ AllPlaced'

LEMMA BeginStep ==
    ASSUME LogsInv, AllPlaced, NEW s \in Streams, NEW long \in BOOLEAN,
           BeginLine(s, long)
    PROVE  LogsStep
<1>1. TypeOK /\ IdsCovered /\ Natural
  BY Sums DEF LogsInv
<1>2. /\ writing' = [stream |-> s, no |-> written[s] + 1, long |-> long]
      /\ written' = [written EXCEPT ![s] = @ + 1]
      /\ writing = NoLine /\ child = "running"
      /\ written["stdout"] + written["stderr"] < MaxLines
      /\ UNCHANGED <<child, ctxDone, pipe, rpc, rline, rid, scanErr, run,
                     nextId, rows, dropped, after, seen, late>>
  BY DEF BeginLine, readerVars, tableVars, clientVars
<1>3. written["stdout"] \in Nat /\ written["stderr"] \in Nat
  BY <1>1 DEF Natural, Streams
<1>4. written[s] + 1 \in 1 .. MaxLines
  BY <1>2, <1>3, LogsAssumption DEF Streams
<1>5. writing' \in Lines /\ writing'.stream = s /\ writing'.no = written[s] + 1
  BY <1>2, <1>4 DEF Lines
<1>6. writing' # NoLine
  BY <1>5 DEF NoLine, Streams
<1>7. /\ written' \in [Streams -> 0 .. MaxLines]
      /\ written'[s] = written[s] + 1
      /\ \A t \in Streams \ {s} : written'[t] = written[t]
  BY <1>1, <1>2, <1>4 DEF TypeOK
<1>8. TypeOK'
  BY <1>1, <1>2, <1>5, <1>7 DEF TypeOK
<1>9. IdsCovered'
  <2>1. /\ Waiting("stdout")' = Waiting("stdout") /\ Waiting("stderr")' = Waiting("stderr")
        /\ Waiting("stdout") \in Nat /\ Waiting("stderr") \in Nat /\ nextId \in Nat
        /\ Writing = 0 /\ Writing' = 1
    BY <1>1, <1>2, <1>6 DEF Natural, Waiting, Writing, Streams
  <2>2. written'["stdout"] + written'["stderr"] = written["stdout"] + written["stderr"] + 1
    BY <1>3, <1>7 DEF Streams
  <2>3. QED
    BY <1>1, <1>2, <1>3, <2>1, <2>2, LogsAssumption DEF IdsCovered
<1>10. RunOrder' /\ \A t \in Streams : HoldsLine(t)'
  BY <1>2 DEF LogsInv, RunOrder, HoldsLine
<1>11. ASSUME NEW t \in Streams, NEW n \in 1 .. written'[t]
       PROVE  Placed(t, n)'
  <2>1. CASE t = s /\ n = written[s] + 1
    BY <1>5, <1>6, <2>1 DEF Placed
  <2>2. CASE ~(t = s /\ n = written[s] + 1)
    <3>1. n \in 1 .. written[t]
      BY <1>1, <1>7, <2>2 DEF Natural
    <3>2. Placed(t, n)
      BY <3>1 DEF AllPlaced
    <3>3. QED
      BY <1>2, <3>2 DEF Placed
  <2>3. QED
    BY <2>1, <2>2
<1>12. QED
  BY <1>8, <1>9, <1>10, <1>11 DEF LogsStep, LogsInv, AllPlaced

LEMMA EndStep ==
    ASSUME LogsInv, AllPlaced, EndLine
    PROVE  LogsStep
<1>1. TypeOK /\ IdsCovered /\ Natural
  BY Sums DEF LogsInv
<1>0. PICK w \in Streams : w = writing.stream
  BY <1>1 DEF EndLine, TypeOK, Lines
<1>2. /\ writing # NoLine /\ writing' = NoLine /\ child = "running"
      /\ Len(pipe[w]) < PipeCap /\ Put(writing)
      /\ UNCHANGED <<child, written, ctxDone, rpc, rline, rid, scanErr, run,
                     nextId, rows, dropped, after, seen, late>>
  BY <1>0 DEF EndLine, readerVars, tableVars, clientVars
<1>3. writing \in Lines
  BY <1>1, <1>2 DEF TypeOK, Lines
<1>4. /\ pipe' \in [Streams -> Seq(Lines)]
      /\ pipe'[w] = Append(pipe[w], writing)
      /\ \A s \in Streams \ {w} : pipe'[s] = pipe[s]
      /\ \A s \in Streams : Len(pipe'[s]) <= PipeCap
  BY <1>0, <1>1, <1>2, <1>3, Putting
<1>5. /\ Len(pipe[w]) \in Nat /\ Len(pipe'[w]) = Len(pipe[w]) + 1
      /\ \A i \in 1 .. Len(pipe[w]) : pipe'[w][i] = pipe[w][i]
      /\ pipe'[w][Len(pipe[w]) + 1] = writing
  <2>1. pipe[w] \in Seq(Lines)
    BY <1>1, <1>3 DEF TypeOK
  <2>2. QED
    BY <1>3, <1>4, <2>1
<1>6. TypeOK'
  BY <1>1, <1>2, <1>4 DEF TypeOK
<1>7. IdsCovered'
  <2>1. Waiting(w)' = Waiting(w) + 1
    <3>1. Len(pipe[w]) \in Nat /\ Len(pipe'[w]) = Len(pipe[w]) + 1 /\ rpc' = rpc
      BY <1>2, <1>5
    <3>2. CASE rpc[w] = "insert"
      BY <3>1, <3>2 DEF Waiting
    <3>3. CASE rpc[w] # "insert"
      BY <3>1, <3>3 DEF Waiting
    <3>4. QED
      BY <3>2, <3>3
  <2>3. Writing = 1 /\ Writing' = 0
    BY <1>2 DEF Writing
  <2>2. \A s \in Streams \ {w} : Waiting(s)' = Waiting(s)
    BY <1>2, <1>4 DEF Waiting
  <2>4. QED
    BY <1>1, <1>2, <2>1, <2>2, <2>3 DEF Natural, IdsCovered, Streams
<1>8. RunOrder'
  BY <1>2 DEF LogsInv, RunOrder
<1>9. ASSUME NEW s \in Streams
      PROVE  HoldsLine(s)'
  <2>1. HoldsLine(s)
    BY DEF LogsInv
  <2>2. \A i \in 1 .. Len(pipe'[s]) : pipe'[s][i].stream = s
    <3>1. CASE s = w
      <4>1. \A i \in 1 .. Len(pipe'[w]) :
              i \in 1 .. Len(pipe[w]) \/ i = Len(pipe[w]) + 1
        BY <1>5
      <4>2. QED
        BY <1>0, <1>5, <2>1, <3>1, <4>1 DEF HoldsLine
    <3>2. CASE s # w
      BY <1>4, <2>1, <3>2 DEF HoldsLine
    <3>3. QED
      BY <3>1, <3>2
  <2>3. ~(rpc[s] = "done" /\ ~scanErr[s])
    BY <2>1, <1>2 DEF HoldsLine
  <2>4. QED
    BY <1>2, <2>1, <2>2, <2>3 DEF HoldsLine
<1>10. ASSUME NEW s \in Streams, NEW n \in 1 .. written'[s]
       PROVE  Placed(s, n)'
  <2>1. Placed(s, n)
    BY <1>2, <1>10 DEF AllPlaced
  <2>2. CASE w = s /\ writing.no = n
    <3>1. Len(pipe[s]) + 1 \in 1 .. Len(pipe'[s])
      BY <1>5, <2>2
    <3>2. pipe'[s][Len(pipe[s]) + 1].no = n
      BY <1>5, <2>2
    <3>3. QED
      BY <3>1, <3>2 DEF Placed
  <2>3. CASE \E i \in 1 .. Len(pipe[s]) : pipe[s][i].no = n
    <3>1. PICK i \in 1 .. Len(pipe[s]) : pipe[s][i].no = n
      BY <2>3
    <3>2. i \in 1 .. Len(pipe'[s]) /\ pipe'[s][i] = pipe[s][i]
      BY <1>4, <1>5
    <3>3. QED
      BY <3>1, <3>2 DEF Placed
  <2>4. QED
    BY <1>0, <1>2, <2>1, <2>2, <2>3 DEF Placed
<1>11. QED
  BY <1>6, <1>7, <1>8, <1>9, <1>10 DEF LogsStep, LogsInv, AllPlaced

LEMMA KillStep ==
    ASSUME LogsInv, AllPlaced, Kill
    PROVE  LogsStep
<1>1. TypeOK /\ IdsCovered /\ Natural
  BY Sums DEF LogsInv
<1>2. /\ writing' = NoLine /\ child = "running" /\ child' = "killed"
      /\ UNCHANGED <<written, ctxDone, rpc, rline, rid, scanErr, run,
                     nextId, rows, dropped, after, seen, late>>
  BY DEF Kill, readerVars, tableVars, clientVars
<1>3. RunOrder' /\ AllPlaced'
  BY <1>2 DEF LogsInv, RunOrder, AllPlaced, Placed
<1>4. \A s \in Streams : rpc[s] = "done" => scanErr[s]
  BY <1>2 DEF LogsInv, HoldsLine
<1>5. CASE UNCHANGED pipe
  <2>1. TypeOK'
    BY <1>1, <1>2, <1>5 DEF TypeOK
  <2>2. \A s \in Streams : Waiting(s)' = Waiting(s)
    BY <1>2, <1>5 DEF Waiting
  <2>3. Writing' = 0
    BY <1>2 DEF Writing
  <2>4. IdsCovered'
    BY <1>1, <1>2, <2>2, <2>3 DEF IdsCovered, Natural, Streams
  <2>5. \A s \in Streams : HoldsLine(s)'
    BY <1>2, <1>4, <1>5 DEF LogsInv, HoldsLine
  <2>6. QED
    BY <1>3, <2>1, <2>4, <2>5 DEF LogsStep, LogsInv
<1>6. CASE /\ writing # NoLine
           /\ Len(pipe[writing.stream]) < PipeCap
           /\ Put([writing EXCEPT !.long = FALSE])
  <2>1. PICK w \in Streams : w = writing.stream
    BY <1>1, <1>6 DEF TypeOK, Lines
  <2>2. PICK line \in Lines : line.stream = w /\ Put(line)
    <3> DEFINE l == [writing EXCEPT !.long = FALSE]
    <3>1. l \in Lines /\ l.stream = w
      BY <1>1, <1>6, <2>1 DEF TypeOK, Lines
    <3>2. QED
      BY <1>6, <3>1
  <2>3. /\ pipe' \in [Streams -> Seq(Lines)]
        /\ pipe'[w] = Append(pipe[w], line)
        /\ \A s \in Streams \ {w} : pipe'[s] = pipe[s]
        /\ \A s \in Streams : Len(pipe'[s]) <= PipeCap
    BY <1>1, <1>6, <2>1, <2>2, Putting
  <2>4. /\ Len(pipe[w]) \in Nat /\ Len(pipe'[w]) = Len(pipe[w]) + 1
        /\ \A i \in 1 .. Len(pipe[w]) : pipe'[w][i] = pipe[w][i]
        /\ pipe'[w][Len(pipe[w]) + 1] = line
    <3>1. pipe[w] \in Seq(Lines)
      BY <1>1 DEF TypeOK
    <3>2. QED
      BY <2>3, <3>1
  <2>5. TypeOK'
    BY <1>1, <1>2, <2>3 DEF TypeOK
  <2>6. IdsCovered'
    <3>1. Waiting(w)' = Waiting(w) + 1
      <4>1. Len(pipe[w]) \in Nat /\ Len(pipe'[w]) = Len(pipe[w]) + 1 /\ rpc' = rpc
        BY <1>2, <2>4
      <4>2. CASE rpc[w] = "insert"
        BY <4>1, <4>2 DEF Waiting
      <4>3. CASE rpc[w] # "insert"
        BY <4>1, <4>3 DEF Waiting
      <4>4. QED
        BY <4>2, <4>3
    <3>2. \A s \in Streams \ {w} : Waiting(s)' = Waiting(s)
      BY <1>2, <2>3 DEF Waiting
    <3>3. Writing = 1 /\ Writing' = 0
      BY <1>2, <1>6 DEF Writing
    <3>4. QED
      BY <1>1, <1>2, <3>1, <3>2, <3>3 DEF Natural, IdsCovered, Streams
  <2>7. ASSUME NEW s \in Streams
        PROVE  HoldsLine(s)'
    <3>1. HoldsLine(s)
      BY DEF LogsInv
    <3>2. \A i \in 1 .. Len(pipe'[s]) : pipe'[s][i].stream = s
      <4>1. CASE s = w
        <5>1. \A i \in 1 .. Len(pipe'[w]) :
                i \in 1 .. Len(pipe[w]) \/ i = Len(pipe[w]) + 1
          BY <2>4
        <5>2. QED
          BY <2>2, <2>4, <3>1, <4>1, <5>1 DEF HoldsLine
      <4>2. CASE s # w
        BY <2>3, <3>1, <4>2 DEF HoldsLine
      <4>3. QED
        BY <4>1, <4>2
    <3>3. QED
      BY <1>2, <1>4, <3>1, <3>2 DEF HoldsLine
  <2>8. QED
    BY <1>3, <2>5, <2>6, <2>7 DEF LogsStep, LogsInv
<1>7. QED
  BY <1>5, <1>6 DEF Kill

(* The engine ends, or its context does.                                    *)
LEMMA ChildStep ==
    ASSUME LogsInv, AllPlaced, ChildExits \/ ContextEnds
    PROVE  LogsStep
<1>1. TypeOK /\ Natural
  BY Sums DEF LogsInv
<1>2. /\ UNCHANGED <<writing, written, pipe, rpc, rline, rid, scanErr, run,
                     nextId, rows, dropped, after, seen, late>>
      /\ \/ child' = child
         \/ child = "running" /\ writing = NoLine /\ child' \in {"exited", "failed"}
      /\ child' \in {"running", "exited", "failed", "killed"}
      /\ ctxDone' \in BOOLEAN
  BY <1>1 DEF ChildExits, ContextEnds, readerVars, tableVars, clientVars, TypeOK
<1>3. TypeOK'
  BY <1>1, <1>2 DEF TypeOK
<1>4. Writing' = Writing /\ \A s \in Streams : Waiting(s)' = Waiting(s)
  BY <1>2 DEF Writing, Waiting
<1>5. IdsCovered'
  BY <1>2, <1>4 DEF LogsInv, IdsCovered, Streams
<1>6. RunOrder' /\ \A s \in Streams : HoldsLine(s)'
  BY <1>2 DEF LogsInv, RunOrder, HoldsLine
<1>7. AllPlaced'
  BY <1>2 DEF AllPlaced, Placed
<1>8. QED
  BY <1>3, <1>5, <1>6, <1>7 DEF LogsStep, LogsInv

-----------------------------------------------------------------------------
(* The scanning goroutine's steps.                                          *)
LEMMA ScanLineStep ==
    ASSUME LogsInv, AllPlaced, NEW s \in Streams, ScanLine(s)
    PROVE  LogsStep
<1>1. TypeOK /\ IdsCovered /\ Natural
  BY Sums DEF LogsInv
<1>2. /\ rpc[s] = "scan" /\ pipe[s] # <<>> /\ ~Head(pipe[s]).long
      /\ rline' = [rline EXCEPT ![s] = Head(pipe[s])]
      /\ pipe' = [pipe EXCEPT ![s] = Tail(@)]
      /\ rpc' = [rpc EXCEPT ![s] = "insert"]
      /\ UNCHANGED <<child, writing, written, ctxDone, rid, scanErr, run,
                     nextId, rows, dropped, after, seen, late>>
  BY DEF ScanLine, childVars, tableVars, clientVars
<1>3. /\ Head(pipe[s]) \in Lines /\ Head(pipe[s]) = pipe[s][1]
      /\ pipe' \in [Streams -> Seq(Lines)]
      /\ Len(pipe[s]) \in Nat \ {0} /\ Len(pipe'[s]) = Len(pipe[s]) - 1
      /\ \A i \in 1 .. Len(pipe'[s]) : pipe'[s][i] = pipe[s][i + 1]
      /\ \A t \in Streams \ {s} : pipe'[t] = pipe[t]
      /\ \A t \in Streams : Len(pipe'[t]) <= PipeCap
  BY <1>1, <1>2, Scanning
<1>4. /\ rline'[s] = pipe[s][1] /\ rpc'[s] = "insert"
      /\ \A t \in Streams \ {s} : rline'[t] = rline[t] /\ rpc'[t] = rpc[t]
  BY <1>1, <1>2, <1>3 DEF TypeOK
<1>5. TypeOK'
  BY <1>1, <1>2, <1>3 DEF TypeOK
<1>6. IdsCovered'
  <2>1. Waiting(s)' = Waiting(s)
    BY <1>2, <1>3, <1>4 DEF Waiting
  <2>2. \A t \in Streams \ {s} : Waiting(t)' = Waiting(t)
    BY <1>3, <1>4 DEF Waiting
  <2>3. Writing' = Writing
    BY <1>2 DEF Writing
  <2>4. QED
    BY <1>1, <1>2, <2>1, <2>2, <2>3 DEF IdsCovered, Streams
<1>7. run = "drain" /\ RunOrder'
  BY <1>2 DEF LogsInv, RunOrder, TypeOK
<1>8. ASSUME NEW t \in Streams
      PROVE  HoldsLine(t)'
  <2>1. HoldsLine(t)
    BY DEF LogsInv
  <2>2. CASE t = s
    <3>1. \A i \in 1 .. Len(pipe'[s]) : i + 1 \in 1 .. Len(pipe[s])
      BY <1>3
    <3>2. 1 \in 1 .. Len(pipe[s])
      BY <1>3
    <3>3. QED
      BY <1>2, <1>3, <1>4, <2>1, <2>2, <3>1, <3>2 DEF HoldsLine
  <2>3. CASE t # s
    BY <1>2, <1>3, <1>4, <2>1, <2>3 DEF HoldsLine
  <2>4. QED
    BY <2>2, <2>3
<1>9. ASSUME NEW t \in Streams, NEW n \in 1 .. written'[t]
      PROVE  Placed(t, n)'
  <2>1. Placed(t, n)
    BY <1>2 DEF AllPlaced
  <2>2. CASE t = s
    <3>1. ASSUME NEW i \in 1 .. Len(pipe[s]), pipe[s][i].no = n
          PROVE  Placed(t, n)'
      <4>1. CASE i = 1
        BY <1>4, <2>2, <3>1, <4>1 DEF Placed
      <4>2. CASE i # 1
        <5>1. i - 1 \in 1 .. Len(pipe'[s]) /\ (i - 1) + 1 = i
          BY <1>3, <4>2
        <5>2. pipe'[s][i - 1].no = n
          BY <1>3, <3>1, <5>1
        <5>3. QED
          BY <2>2, <5>1, <5>2 DEF Placed
      <4>3. QED
        BY <4>1, <4>2
    <3>2. QED
      BY <1>2, <2>1, <2>2, <3>1 DEF Placed
  <2>3. CASE t # s
    BY <1>2, <1>3, <1>4, <2>1, <2>3 DEF Placed
  <2>4. QED
    BY <2>2, <2>3
<1>10. QED
  BY <1>5, <1>6, <1>7, <1>8, <1>9 DEF LogsStep, LogsInv, AllPlaced

(* The goroutine ends: at a line too long, or at the end of the output.     *)
LEMMA ScanEndStep ==
    ASSUME LogsInv, AllPlaced, NEW s \in Streams, ScanTooLong(s) \/ ScanEOF(s)
    PROVE  LogsStep
<1>1. TypeOK /\ IdsCovered /\ Natural
  BY Sums DEF LogsInv
<1>2. /\ rpc[s] = "scan"
      /\ rpc' = [rpc EXCEPT ![s] = "done"]
      /\ UNCHANGED <<child, writing, written, ctxDone, pipe, rline, rid, run,
                     nextId, rows, dropped, after, seen, late>>
      /\ \/ scanErr' = [scanErr EXCEPT ![s] = TRUE]
         \/ UNCHANGED scanErr /\ pipe[s] = <<>> /\ child # "running"
  BY DEF ScanTooLong, ScanEOF, childVars, tableVars, clientVars
<1>3. TypeOK'
  BY <1>1, <1>2 DEF TypeOK
<1>4. /\ rpc'[s] = "done"
      /\ \A t \in Streams \ {s} : rpc'[t] = rpc[t] /\ scanErr'[t] = scanErr[t]
      /\ scanErr'[s] \/ (pipe[s] = <<>> /\ child # "running")
  BY <1>1, <1>2 DEF TypeOK
<1>5. Writing' = Writing /\ \A t \in Streams : Waiting(t)' = Waiting(t)
  BY <1>2, <1>4 DEF Writing, Waiting
<1>6. IdsCovered'
  BY <1>1, <1>2, <1>5 DEF IdsCovered, Streams
<1>7. run = "drain" /\ RunOrder'
  BY <1>2 DEF LogsInv, RunOrder, TypeOK
<1>8. \A t \in Streams : HoldsLine(t)'
  BY <1>2, <1>4 DEF LogsInv, HoldsLine
<1>9. AllPlaced'
  BY <1>2, <1>4 DEF AllPlaced, Placed
<1>10. QED
  BY <1>3, <1>6, <1>7, <1>8, <1>9 DEF LogsStep, LogsInv

(* The INSERT draws an id.                                                  *)
LEMMA DrawStep ==
    ASSUME LogsInv, AllPlaced, NEW s \in Streams,
           rpc[s] = "insert",
           rid' = [rid EXCEPT ![s] = nextId], nextId' = nextId + 1,
           rpc' = [rpc EXCEPT ![s] = "commit"],
           UNCHANGED <<childVars, pipe, rline, scanErr, run, rows, dropped, clientVars>>
    PROVE  LogsStep
<1>1. TypeOK /\ IdsCovered /\ Natural
  BY Sums DEF LogsInv
<1>2. UNCHANGED <<child, writing, written, ctxDone, pipe, rline, scanErr, run,
                  rows, dropped, after, seen, late>>
  BY DEF childVars, clientVars
<1>3. /\ rpc'[s] = "commit" /\ rid'[s] = nextId
      /\ \A t \in Streams \ {s} : rpc'[t] = rpc[t] /\ rid'[t] = rid[t]
  BY <1>1 DEF TypeOK
<1>4. Len(pipe[s]) \in Nat /\ Waiting(s) = Len(pipe[s]) + 1 /\ Waiting(s)' = Len(pipe[s])
  BY <1>1, <1>2, <1>3 DEF Waiting, TypeOK
<1>5. \A t \in Streams \ {s} : Waiting(t)' = Waiting(t) /\ Waiting(t) \in Nat
  BY <1>1, <1>2, <1>3 DEF Waiting, Natural
<1>6. Writing' = Writing
  BY <1>2 DEF Writing
<1>7. PICK other \in Streams \ {s} :
        /\ Waiting("stdout") + Waiting("stderr") = Waiting(s) + Waiting(other)
        /\ (Waiting("stdout") + Waiting("stderr"))' = Waiting(s)' + Waiting(other)
        /\ Waiting(s) = Waiting(s)' + 1
  <2>1. Waiting(s) \in Nat /\ Waiting(s)' \in Nat /\ Waiting(s) = Waiting(s)' + 1
    BY <1>4
  <2>2. CASE s = "stdout"
    BY <1>5, <2>1, <2>2 DEF Streams
  <2>3. CASE s = "stderr"
    BY <1>5, <2>1, <2>3 DEF Streams
  <2>4. QED
    BY <2>2, <2>3 DEF Streams
<1>8. /\ nextId \in Ids /\ nextId + 1 \in 1 .. MaxLines + 1
      /\ IdsCovered'
  <2>1. /\ written["stdout"] \in Nat /\ written["stderr"] \in Nat /\ nextId \in 1 .. MaxLines + 1
        /\ Waiting("stdout") \in Nat /\ Waiting("stderr") \in Nat
        /\ Waiting("stdout")' \in Nat /\ Waiting("stderr")' \in Nat
        /\ Waiting(s)' \in Nat /\ Waiting(other) \in Nat
        /\ Writing \in {0, 1}
    BY <1>1, <1>4, <1>5 DEF Natural, TypeOK, Streams
  <2>2. Waiting("stdout")' + Waiting("stderr")' + 1 = Waiting("stdout") + Waiting("stderr")
    BY <1>7, <2>1
  <2>3. QED
    BY <1>1, <1>2, <1>6, <2>1, <2>2, <1>7, LogsAssumption DEF IdsCovered, Ids
<1>9. TypeOK'
  BY <1>1, <1>2, <1>8 DEF TypeOK
<1>10. run = "drain" /\ RunOrder'
  BY <1>2 DEF LogsInv, RunOrder, TypeOK
<1>11. \A t \in Streams : HoldsLine(t)'
  BY <1>2, <1>3, <1>8 DEF LogsInv, HoldsLine
<1>12. AllPlaced'
  BY <1>2, <1>3 DEF AllPlaced, Placed
<1>13. QED
  BY <1>8, <1>9, <1>10, <1>11, <1>12 DEF LogsStep, LogsInv

(* The line is stored or dropped, and the goroutine scans on.               *)
LEMMA StoreStep ==
    ASSUME LogsInv, AllPlaced, NEW s \in Streams,
           rpc[s] \in {"insert", "commit"}, NextScan(s),
           \/ /\ rpc[s] = "commit"
              /\ rows' = rows \cup {[id |-> rid[s], line |-> rline[s]]}
              /\ UNCHANGED dropped
           \/ dropped' = dropped \cup {rline[s]} /\ UNCHANGED rows,
           UNCHANGED <<childVars, pipe, run, nextId, clientVars>>
    PROVE  LogsStep
<1>1. TypeOK /\ IdsCovered /\ Natural /\ HoldsLine(s)
  BY Sums DEF LogsInv
<1>2. UNCHANGED <<child, writing, written, ctxDone, pipe, scanErr, run,
                  nextId, after, seen, late>>
  BY DEF childVars, clientVars, NextScan
<1>3. /\ rpc' = [rpc EXCEPT ![s] = "scan"]
      /\ rline' = [rline EXCEPT ![s] = NoLine]
      /\ rid' = [rid EXCEPT ![s] = 0]
  BY DEF NextScan
<1>4. /\ rpc'[s] = "scan"
      /\ \A t \in Streams \ {s} :
            rpc'[t] = rpc[t] /\ rline'[t] = rline[t] /\ rid'[t] = rid[t]
  BY <1>1, <1>3 DEF TypeOK
<1>5. /\ rline[s] \in Lines /\ rline[s] = LineOf(s, rline[s].no)
      /\ rpc[s] = "commit" => rid[s] \in Ids
  BY <1>1 DEF HoldsLine, Lines, LineOf
<1>6. /\ rows' \subseteq Rows /\ rows \subseteq rows'
      /\ dropped' \subseteq Lines /\ dropped \subseteq dropped'
      /\ rline[s] \in dropped' \/ \E r \in rows' : r.line = rline[s]
  <2>1. CASE dropped' = dropped \cup {rline[s]} /\ UNCHANGED rows
    BY <1>1, <1>5, <2>1 DEF TypeOK
  <2>2. CASE /\ rpc[s] = "commit" /\ UNCHANGED dropped
             /\ rows' = rows \cup {[id |-> rid[s], line |-> rline[s]]}
    <3> DEFINE row == [id |-> rid[s], line |-> rline[s]]
    <3>1. row \in Rows /\ row.line = rline[s]
      BY <1>5, <2>2 DEF Rows
    <3>2. QED
      BY <1>1, <2>2, <3>1 DEF TypeOK
  <2>3. QED
    BY <2>1, <2>2
<1>7. TypeOK'
  BY <1>1, <1>2, <1>3, <1>6 DEF TypeOK
<1>8. IdsCovered'
  <2>1. Waiting(s)' <= Waiting(s)
    BY <1>1, <1>2, <1>4 DEF Waiting, TypeOK
  <2>2. \A t \in Streams \ {s} : Waiting(t)' = Waiting(t) /\ Waiting(t) \in Nat
    BY <1>1, <1>2, <1>4 DEF Waiting, Natural
  <2>3. Writing' = Writing
    BY <1>2 DEF Writing
  <2>4. \A t \in Streams : Waiting(t)' <= Waiting(t)
    BY <2>1, <2>2
  <2>5. QED
    BY <1>1, <1>2, <1>7, <2>3, <2>4, SumsNext, CoverKept DEF Natural
<1>9. run = "drain" /\ RunOrder'
  BY <1>2 DEF LogsInv, RunOrder, TypeOK
<1>10. \A t \in Streams : HoldsLine(t)'
  BY <1>2, <1>4 DEF LogsInv, HoldsLine
<1>11. ASSUME NEW t \in Streams, NEW n \in 1 .. written'[t]
       PROVE  Placed(t, n)'
  <2>1. Placed(t, n)
    BY <1>2 DEF AllPlaced
  <2>2. CASE t = s /\ rline[s].no = n
    BY <1>5, <1>6, <2>2 DEF Placed
  <2>3. CASE ~(t = s /\ rline[s].no = n)
    BY <1>2, <1>4, <1>6, <2>1, <2>3 DEF Placed
  <2>4. QED
    BY <2>2, <2>3
<1>12. QED
  BY <1>7, <1>8, <1>9, <1>10, <1>11 DEF LogsStep, LogsInv, AllPlaced

LEMMA ScannerStep ==
    ASSUME LogsInv, AllPlaced, NEW s \in Streams, Scanner(s)
    PROVE  LogsStep
<1>1. CASE ScanLine(s)
  BY <1>1, ScanLineStep
<1>2. CASE ScanTooLong(s) \/ ScanEOF(s)
  BY <1>2, ScanEndStep
<1>3. CASE AppendLog(s)
  <2>1. CASE DropLine(s) /\ UNCHANGED nextId
    BY <1>3, <2>1, StoreStep DEF AppendLog, DropLine
  <2>2. CASE ~(DropLine(s) /\ UNCHANGED nextId)
    BY <1>3, <2>2, DrawStep DEF AppendLog
  <2>3. QED
    BY <2>1, <2>2
<1>4. CASE AppendCommit(s)
  BY <1>4, StoreStep DEF AppendCommit, DropLine
<1>5. QED
  BY <1>1, <1>2, <1>3, <1>4 DEF Scanner

-----------------------------------------------------------------------------
(* Run and the client leave the lines where they are.                       *)
LEMMA FrameStep ==
    ASSUME LogsInv, AllPlaced, TypeOK', RunOrder',
           UNCHANGED <<childVars, pipe, readerVars, tableVars>>
    PROVE  LogsStep
<1>1. UNCHANGED <<child, writing, written, pipe, rpc, rline, rid, scanErr,
                  nextId, rows, dropped>>
  BY DEF childVars, readerVars, tableVars
<1>2. IdsCovered'
  BY <1>1 DEF LogsInv, IdsCovered, Waiting, Writing
<1>3. \A s \in Streams : HoldsLine(s)'
  BY <1>1 DEF LogsInv, HoldsLine
<1>4. AllPlaced'
  BY <1>1 DEF AllPlaced, Placed
<1>5. QED
  BY <1>2, <1>3, <1>4 DEF LogsStep, LogsInv

LEMMA RunStep ==
    ASSUME LogsInv, AllPlaced, Drain \/ Wait
    PROVE  LogsStep
<1>1. /\ UNCHANGED <<child, writing, written, ctxDone, pipe, rpc, rline, rid, scanErr,
                     nextId, rows, dropped, after, seen, late>>
      /\ UNCHANGED <<childVars, pipe, readerVars, tableVars>>
  BY DEF Drain, Wait, childVars, readerVars, tableVars, clientVars
<1>2. TypeOK'
  BY <1>1 DEF LogsInv, TypeOK, Drain, Wait
<1>3. RunOrder'
  BY <1>1 DEF LogsInv, RunOrder, Drain, Wait
<1>4. QED
  BY <1>1, <1>2, <1>3, FrameStep

LEMMA ClientStep ==
    ASSUME LogsInv, AllPlaced, OpenLate \/ \E limit \in Limits : Poll(limit)
    PROVE  LogsStep
<1>1. /\ UNCHANGED <<child, writing, written, ctxDone, pipe, rpc, rline, rid, scanErr,
                     run, nextId, rows, dropped>>
      /\ UNCHANGED <<childVars, pipe, readerVars, tableVars>>
  BY DEF OpenLate, Poll, childVars, readerVars, tableVars
<1>2. /\ after' \in Ids \cup {0} /\ seen' \subseteq rows /\ late' \in BOOLEAN
  <2>1. CASE OpenLate
    BY <2>1 DEF OpenLate
  <2>2. ASSUME NEW limit \in Limits, Poll(limit)
        PROVE  after' \in Ids \cup {0} /\ seen' \subseteq rows /\ late' \in BOOLEAN
    <3>1. Logs(after, limit) \subseteq rows
      BY DEF Logs, After
    <3>2. \A r \in rows : r.id \in Ids
      BY DEF LogsInv, TypeOK, Rows
    <3>3. QED
      BY <2>2, <3>1, <3>2 DEF Poll, LogsInv, TypeOK
  <2>3. QED
    BY <2>1, <2>2
<1>3. TypeOK' /\ RunOrder'
  BY <1>1, <1>2 DEF LogsInv, TypeOK, RunOrder
<1>4. QED
  BY <1>1, <1>3, FrameStep

LEMMA LogsInvariance == Spec => [](LogsInv /\ AllPlaced)
<1>1. LogsInv /\ AllPlaced /\ [Next]_vars => (LogsInv /\ AllPlaced)'
  <2> SUFFICES ASSUME LogsInv, AllPlaced, [Next]_vars
               PROVE  LogsStep
    BY DEF LogsStep
  <2>1. CASE UNCHANGED vars
    <3>1. /\ UNCHANGED <<childVars, pipe, readerVars, tableVars>>
          /\ UNCHANGED <<child, writing, written, ctxDone, pipe, rpc, rline, rid, scanErr,
                         run, nextId, rows, dropped, after, seen, late>>
      BY <2>1 DEF vars, childVars, readerVars, tableVars, clientVars
    <3>2. TypeOK' /\ RunOrder'
      BY <3>1 DEF LogsInv, TypeOK, RunOrder
    <3>3. QED
      BY <3>1, <3>2, FrameStep
  <2>2. CASE Next
    BY <2>2, BeginStep, EndStep, KillStep, ChildStep, ScannerStep, RunStep, ClientStep
       DEF Next
  <2>3. QED
    BY <2>1, <2>2
<1>2. QED
  BY LogsInit, <1>1, PTL DEF Spec

-----------------------------------------------------------------------------
(* Every variable keeps its type: no more lines wait than the pipe holds,   *)
(* and no more ids are drawn than lines were written.                       *)
THEOREM LogsTypeCorrect == Spec => []TypeOK
<1>1. LogsInv => TypeOK
  BY DEF LogsInv
<1>2. QED
  BY LogsInvariance, <1>1, PTL

(* When Run reports success every line the engine wrote is a row, or its    *)
(* own INSERT failed, for every number of lines and size of the pipe.       *)
THEOREM SuccessLosesNothingAlways == Spec => []SuccessLosesNothing
<1>1. ASSUME LogsInv, AllPlaced
      PROVE  SuccessLosesNothing
  <2>1. SUFFICES ASSUME run = "ok", NEW s \in Streams, NEW n \in 1 .. written[s]
                 PROVE  LineOf(s, n) \in dropped \cup {r.line : r \in rows}
    BY <2>1 DEF SuccessLosesNothing, LineOf
  <2>2. child = "exited" /\ writing = NoLine /\ rpc[s] = "done" /\ ~scanErr[s]
    BY <1>1, <2>1 DEF LogsInv, RunOrder
  <2>3. pipe[s] = <<>> /\ Len(<<>>) = 0
    BY <1>1, <2>2 DEF LogsInv, HoldsLine
  <2>4. Placed(s, n)
    BY <1>1 DEF AllPlaced
  <2>5. QED
    BY <2>2, <2>3, <2>4 DEF Placed
<1>2. QED
  BY LogsInvariance, <1>1, PTL

(* No row appears once Run has returned: wg.Wait comes before, so the       *)
(* engine step can be closed and the task completed after its last line.    *)
THEOREM NoLateRowAlways == Spec => NoLateRow
<1>1. ASSUME LogsInv, [Next]_vars
      PROVE  [rows' # rows => ~Returned]_vars
  <2>1. ASSUME NEW s \in Streams, rpc[s] # "done"
        PROVE  ~Returned
    BY <1>1, <2>1 DEF LogsInv, RunOrder, Returned
  <2>2. ASSUME NEW s \in Streams, AppendCommit(s)
        PROVE  ~Returned
    BY <2>1, <2>2 DEF AppendCommit
  <2>3. CASE \A s \in Streams : ~AppendCommit(s)
    BY <1>1, <2>3 DEF Next, vars, BeginLine, EndLine, ChildExits, ContextEnds, Kill,
       Scanner, ScanLine, ScanTooLong, ScanEOF, AppendLog, DropLine, Drain, Wait, Poll,
       OpenLate, tableVars
  <2>4. QED
    BY <2>2, <2>3
<1>2. QED
  BY <1>1, LogsInvariance, PTL DEF Spec, NoLateRow

-----------------------------------------------------------------------------
(* A page that is opened late.  It has read exactly the rows up to its      *)
(* `after`, which none joins any more.                                      *)

LateInv ==
    /\ IsFiniteSet(rows)
    /\ late => Returned
    /\ late => seen = {r \in rows : r.id <= after}

(* The rows a page leaves to be read before r.                              *)
Before(id, r) == {q \in After(id) : q.id < r.id}

LEMMA BeforeIsFinite ==
    ASSUME IsFiniteSet(rows), NEW id, NEW r
    PROVE  IsFiniteSet(Before(id, r)) /\ Cardinality(Before(id, r)) \in Nat
<1>1. Before(id, r) \in SUBSET rows
  BY DEF Before, After
<1>2. QED
  BY <1>1, FS_Subset, FS_CardinalityType

(* What has a lower id than a row of the page is on the page too.           *)
LEMMA PageIsInitial ==
    ASSUME TypeOK, IsFiniteSet(rows), NEW limit \in Limits,
           NEW r \in Logs(after, limit), NEW q \in After(after), q.id <= r.id
    PROVE  q \in Logs(after, limit)
<1>1. r \in After(after) /\ Cardinality(Before(after, r)) < PageSize(limit)
  BY DEF Logs, Before
<1>2. \A p \in After(after) : p.id \in Int
  BY DEF TypeOK, After, Rows, Ids
<1>3. Before(after, q) \in SUBSET Before(after, r)
  BY <1>1, <1>2 DEF Before
<1>4. /\ Cardinality(Before(after, q)) <= Cardinality(Before(after, r))
      /\ Cardinality(Before(after, q)) \in Nat /\ Cardinality(Before(after, r)) \in Nat
  BY <1>3, BeforeIsFinite, FS_Subset
<1>5. PageSize(limit) \in Int
  BY LogsAssumption DEF PageSize, Limits
<1>6. Cardinality(Before(after, q)) < PageSize(limit)
  BY <1>1, <1>4, <1>5
<1>7. QED
  BY <1>6 DEF Logs, Before

(* While rows are left, a page that asks for some is given one: a row with  *)
(* none before it is there, for a set of rows has a smallest part.          *)
LEMMA PageIsNotEmpty ==
    ASSUME TypeOK, IsFiniteSet(rows), NEW limit \in Limits, PageSize(limit) > 0,
           After(after) # {}
    PROVE  Logs(after, limit) # {}
<1> DEFINE Parts == {Before(after, r) : r \in After(after)}
<1>1. Parts \subseteq FiniteSubsetsOf(rows) /\ Parts # {}
  <2>1. ASSUME NEW r \in After(after)
        PROVE  Before(after, r) \in FiniteSubsetsOf(rows)
    <3>1. Before(after, r) \subseteq rows
      BY DEF Before, After
    <3>2. QED
      BY <3>1, BeforeIsFinite DEF FiniteSubsetsOf
  <2>2. QED
    BY <2>1
<1>2. IsWellFoundedOn(StrictSubsetOrdering(rows), FiniteSubsetsOf(rows))
  BY FS_StrictSubsetOrderingWellFounded
<1>3. PICK A \in Parts : \A B \in Parts : ~(<<B, A>> \in StrictSubsetOrdering(rows))
  <2> HIDE DEF Parts
  <2>1. QED
    BY <1>1, <1>2, WFMin
<1>4. PICK r \in After(after) : A = Before(after, r)
  BY <1>3
<1>5. Before(after, r) = {}
  <2>1. SUFFICES ASSUME NEW q \in Before(after, r)
                 PROVE  FALSE
    OBVIOUS
  <2>2. \A p \in After(after) : p.id \in Int
    BY DEF TypeOK, After, Rows, Ids
  <2>3. q \in After(after) /\ q.id < r.id
    BY <2>1 DEF Before
  <2>4. /\ Before(after, q) \subseteq Before(after, r)
        /\ q \in Before(after, r) /\ q \notin Before(after, q)
    BY <2>1, <2>2, <2>3, <1>4 DEF Before
  <2>5. Before(after, q) \subseteq rows /\ Before(after, r) \subseteq rows
    BY DEF Before, After
  <2>6. <<Before(after, q), A>> \in StrictSubsetOrdering(rows)
    BY <1>4, <2>4, <2>5 DEF StrictSubsetOrdering
  <2>7. Before(after, q) \in Parts
    BY <2>3
  <2>8. QED
    BY <1>3, <2>6, <2>7
<1>6. Cardinality(Before(after, r)) = 0
  BY <1>5, FS_EmptySet
<1>7. r \in Logs(after, limit)
  BY <1>4, <1>6 DEF Logs, Before
<1>8. QED
  BY <1>7

LEMMA LatePoll ==
    ASSUME LogsInv, LateInv, NEW limit \in Limits, Poll(limit)
    PROVE  LateInv'
<1> DEFINE page == Logs(after, limit)
<1>1. UNCHANGED <<rows, run, late>> /\ seen' = seen \cup page
  BY DEF Poll, tableVars
<1>2. TypeOK /\ IsFiniteSet(rows) /\ after \in Int /\ \A r \in rows : r.id \in Int
  BY DEF LogsInv, LateInv, TypeOK, Ids, Rows
<1>3. page \subseteq rows /\ \A r \in page : r.id > after
  BY DEF Logs, After
<1>4. ASSUME late
      PROVE  seen' = {r \in rows : r.id <= after'}
  <2>1. CASE page = {} /\ UNCHANGED after
    BY <1>1, <1>4, <2>1 DEF LateInv
  <2>2. CASE \E r \in page : after' = r.id /\ \A q \in page : q.id <= r.id
    <3>1. PICK r \in page : after' = r.id /\ \A q \in page : q.id <= r.id
      BY <2>2
    <3>2. ASSUME NEW q \in rows, q.id <= after'
          PROVE  q \in seen'
      <4>1. CASE q.id <= after
        BY <1>1, <1>4, <3>2, <4>1 DEF LateInv
      <4>2. CASE q.id > after
        BY <1>1, <1>2, <3>1, <3>2, <4>2, PageIsInitial DEF After
      <4>3. QED
        BY <1>2, <4>1, <4>2
    <3>3. ASSUME NEW q \in seen'
          PROVE  q \in rows /\ q.id <= after'
      <4>1. CASE q \in page
        BY <1>3, <3>1, <4>1
      <4>2. CASE q \in seen
        <5>1. q \in rows /\ q.id <= after
          BY <1>4, <4>2 DEF LateInv
        <5>2. after < after'
          BY <1>3, <3>1
        <5>3. QED
          BY <1>2, <1>3, <3>1, <5>1, <5>2
      <4>3. QED
        BY <1>1, <3>3, <4>1, <4>2
    <3>4. QED
      BY <3>2, <3>3
  <2>3. QED
    BY <2>1, <2>2 DEF Poll
<1>5. QED
  BY <1>1, <1>4 DEF LateInv, Returned

(* Nothing else moves the page, and a row that is stored finds Run waiting. *)
LEMMA LateStep ==
    ASSUME LogsInv, LateInv, [Next]_vars
    PROVE  LateInv'
<1>1. CASE \E limit \in Limits : Poll(limit)
  BY <1>1, LatePoll
<1>2. CASE OpenLate
  <2>1. late' /\ after' = 0 /\ seen' = {} /\ UNCHANGED <<rows, run>> /\ Returned
    BY <1>2 DEF OpenLate, tableVars
  <2>2. \A r \in rows : r.id \in Int /\ r.id > 0
    BY DEF LogsInv, TypeOK, Ids, Rows
  <2>3. QED
    BY <2>1, <2>2 DEF LateInv, Returned
<1>3. ASSUME NEW s \in Streams, Scanner(s)
      PROVE  LateInv'
  <2>1. rpc[s] # "done"
    BY <1>3 DEF Scanner, ScanLine, ScanTooLong, ScanEOF, AppendLog, AppendCommit
  <2>2. ~Returned /\ ~late
    BY <2>1 DEF LogsInv, RunOrder, LateInv, Returned
  <2>3. UNCHANGED late
    BY <1>3 DEF Scanner, ScanLine, ScanTooLong, ScanEOF, AppendLog, AppendCommit,
       clientVars
  <2>4. IsFiniteSet(rows')
    <3>1. \/ UNCHANGED rows
          \/ rows' = rows \cup {[id |-> rid[s], line |-> rline[s]]}
      BY <1>3 DEF Scanner, ScanLine, ScanTooLong, ScanEOF, AppendLog, AppendCommit,
         DropLine, tableVars
    <3>2. QED
      BY <3>1, FS_AddElement DEF LateInv
  <2>5. QED
    BY <2>2, <2>3, <2>4 DEF LateInv
<1>4. CASE \/ \E s \in Streams, long \in BOOLEAN : BeginLine(s, long)
           \/ EndLine \/ ChildExits \/ ContextEnds \/ Kill
           \/ UNCHANGED vars
  <2>1. UNCHANGED <<rows, run, late, after, seen>>
    BY <1>4 DEF BeginLine, EndLine, ChildExits, ContextEnds, Kill, vars, tableVars,
       clientVars
  <2>2. QED
    BY <2>1 DEF LateInv, Returned
<1>5. CASE Drain \/ Wait
  <2>1. UNCHANGED <<rows, late, after, seen>> /\ ~Returned
    BY <1>5 DEF Drain, Wait, Returned, tableVars, clientVars
  <2>2. QED
    BY <2>1 DEF LateInv
<1>6. QED
  BY <1>1, <1>2, <1>3, <1>4, <1>5 DEF Next

(* An empty page is the end for every number of rows, because the rows read *)
(* so far are those up to `after`, and a page is empty only when no row is  *)
(* left.                                                                    *)
THEOREM EmptyPageIsTheEndAlways == Spec => []EmptyPageIsTheEnd
<1>1. Init => LateInv
  BY FS_EmptySet DEF Init, LateInv
<1>2. ASSUME LogsInv, LateInv
      PROVE  EmptyPageIsTheEnd
  <2>1. SUFFICES ASSUME NEW limit \in Limits, late, PageSize(limit) > 0,
                        Logs(after, limit) = {}
                 PROVE  seen = rows
    BY DEF EmptyPageIsTheEnd
  <2>2. TypeOK /\ IsFiniteSet(rows) /\ after \in Int /\ \A r \in rows : r.id \in Int
    BY <1>2 DEF LogsInv, LateInv, TypeOK, Ids, Rows
  <2>3. After(after) = {}
    BY <2>1, <2>2, PageIsNotEmpty
  <2>4. \A r \in rows : r.id <= after
    BY <2>2, <2>3 DEF After
  <2>5. QED
    BY <1>2, <2>1, <2>4 DEF LateInv
<1>3. QED
  BY <1>1, <1>2, LateStep, LogsInvariance, PTL DEF Spec
=============================================================================
