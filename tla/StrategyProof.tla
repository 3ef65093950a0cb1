----------------------------- MODULE StrategyProof ----------------------------
(***************************************************************************)
(* The only default strategy stays the only one, for every number of        *)
(* concurrent requests, names and rows.                                     *)
(***************************************************************************)
EXTENDS StrategyCenter, TLAPS

(* The part of Settled about one row.                                       *)
SettledOn(d) ==
    /\ kind[d] = "default"
    /\ name[d] = DefaultName
    /\ \A j \in Ids : kind[j] = "default" => j = d
    /\ \A c \in Clients :
          /\ pc[c] \notin {"promote_find", "promote_save"}
          /\ pc[c] = "current_save" => target[c] = d
          /\ pc[c] \in {"update_check", "update_save", "delete_row"} =>
                target[c] \in Ids \ {d}

-----------------------------------------------------------------------------
(* Types: reads, replies and writes.                                        *)

(* The initial tables are well typed.                                       *)
LEMMA StrategyInit == Init => TypeOK
  BY DEF Init, TypeOK, RequestPCs

(* A row that is read is the id of a row.                                   *)
LEMMA ReadsAreIds ==
    /\ 0 \notin Ids
    /\ \A S \in SUBSET Ids, i \in Ids : First(S, i) => i \in S
    /\ Regular \subseteq Ids /\ Defaults \subseteq Ids
  BY StrategyAssumption DEF Ids, First, Regular, Defaults

(* Each step of a request keeps the types.                                  *)
LEMMA StrategyTypes ==
    ASSUME TypeOK, [Next]_vars
    PROVE  TypeOK'
<1>1. CASE UNCHANGED vars
    BY <1>1 DEF vars, tableVars, requestVars, TypeOK
<1>2. ASSUME NEW c \in Clients, Request(c)
      PROVE  TypeOK'
  <2>1. ASSUME NEW next \in RequestPCs, NEW i \in Ids \cup {0},
               NEW n \in Names \cup {NoName},
               Start(c, next, i, n), UNCHANGED tableVars
        PROVE  TypeOK'
    BY <2>1 DEF Start, TypeOK, tableVars
  <2>2. ASSUME Reply(c), UNCHANGED tableVars
        PROVE  TypeOK'
    BY <2>2 DEF Reply, TypeOK, tableVars, RequestPCs
  <2>3. ASSUME NEW i \in Ids \cup {0}, NEW k \in {"regular", "default"},
               NEW n \in Names \cup {NoName, DefaultName},
               Save(i, k, n), Reply(c)
        PROVE  TypeOK'
    BY <2>3 DEF Reply, Save, TypeOK, RequestPCs
  <2>4. target[c] \in Ids \cup {0} /\ given[c] \in Names \cup {NoName}
    BY DEF TypeOK
  <2>5. CASE GetCurrent(c) \/ SaveCurrent(c)
    BY <2>5, <2>1 DEF GetCurrent, SaveCurrent, RequestPCs
  <2>6. CASE PromoteFind(c)
    <3>1. CASE Reply(c)
      BY <2>6, <3>1, <2>2 DEF PromoteFind
    <3>2. CASE ~Reply(c)
      BY <2>6, <3>2 DEF PromoteFind, TypeOK, tableVars, RequestPCs
    <3>3. QED
      BY <3>1, <3>2
  <2>7. CASE PromoteSave(c)
    BY <2>7, <2>3, <2>4 DEF PromoteSave
  <2>8. CASE CurrentSave(c)
    BY <2>8, <2>3, <2>4 DEF CurrentSave, Insert
  <2>9. CASE \E n \in Names : Create(c, n)
    BY <2>9, <2>1 DEF Create, RequestPCs
  <2>10. CASE CreateInsert(c)
    BY <2>10, <2>3, <2>4 DEF CreateInsert, Insert
  <2>11. CASE \E i \in Ids, n \in Names : Update(c, i, n)
    BY <2>11, <2>1 DEF Update, RequestPCs
  <2>12. CASE UpdateCheck(c)
    <3>1. CASE Reply(c)
      BY <2>12, <3>1, <2>2 DEF UpdateCheck
    <3>2. CASE ~Reply(c)
      BY <2>12, <3>2 DEF UpdateCheck, TypeOK, tableVars, RequestPCs
    <3>3. QED
      BY <3>1, <3>2
  <2>13. CASE UpdateSave(c)
    BY <2>13, <2>3, <2>4 DEF UpdateSave
  <2>14. CASE \E i \in Ids : Delete(c, i)
    BY <2>14, <2>1 DEF Delete, RequestPCs
  <2>15. CASE DeleteRow(c)
    BY <2>15 DEF DeleteRow, Reply, TypeOK, RequestPCs
  <2>16. CASE Abandon(c)
    BY <2>16, <2>2 DEF Abandon
  <2>17. QED
    BY <1>2, <2>5, <2>6, <2>7, <2>8, <2>9, <2>10, <2>11, <2>12, <2>13,
       <2>14, <2>15, <2>16 DEF Request
<1>3. QED
    BY <1>1, <1>2 DEF Next

-----------------------------------------------------------------------------
(* A request that arrives with a target Settled allows keeps it.            *)
LEMMA SettledStart ==
    ASSUME TypeOK, NEW d \in Ids, SettledOn(d), NEW c \in Clients,
           NEW next, NEW i \in Ids \cup {0}, NEW n,
           next \notin {"promote_find", "promote_save"},
           next = "current_save" => i = d,
           next \in {"update_check", "update_save", "delete_row"} => i \in Ids \ {d},
           Start(c, next, i, n), UNCHANGED tableVars
    PROVE  SettledOn(d)'
  BY DEF SettledOn, TypeOK, Start, tableVars

(* So does a request that ends without writing.                             *)
LEMMA SettledReply ==
    ASSUME TypeOK, NEW d \in Ids, SettledOn(d), NEW c \in Clients,
           Reply(c), UNCHANGED tableVars
    PROVE  SettledOn(d)'
  BY DEF SettledOn, TypeOK, Reply, tableVars

(* So does one that ends by writing the default over itself, or a named     *)
(* strategy anywhere else.                                                  *)
LEMMA SettledWrite ==
    ASSUME TypeOK, NEW d \in Ids, SettledOn(d), NEW c \in Clients, Reply(c),
           NEW i \in Ids, NEW k, NEW n, Save(i, k, n),
           \/ i = d /\ k = "default" /\ n = DefaultName
           \/ i # d /\ k = "regular"
    PROVE  SettledOn(d)'
  BY DEF SettledOn, TypeOK, Reply, Save

(* Every step of every request keeps Settled: no promotion starts while     *)
(* there is a default, and the reads of Update and Delete skip it.          *)
LEMMA SettledStep ==
    ASSUME TypeOK, Settled, [Next]_vars
    PROVE  Settled'
<1>0. PICK d \in Ids : SettledOn(d)
    BY DEF Settled, SettledOn
<1>1. d \in Defaults /\ d \notin Regular /\ Defaults \subseteq {d}
    BY <1>0 DEF SettledOn, Defaults, Regular
<1>2. SUFFICES SettledOn(d)'
    BY DEF Settled, SettledOn
<1>3. CASE UNCHANGED vars
    BY <1>0, <1>3 DEF vars, tableVars, requestVars, SettledOn
<1>4. ASSUME NEW c \in Clients, Request(c)
      PROVE  SettledOn(d)'
  <2>1. CASE GetCurrent(c)
    BY <2>1, <1>1 DEF GetCurrent
  <2>2. CASE PromoteFind(c) \/ PromoteSave(c)
    BY <1>0, <2>2 DEF PromoteFind, PromoteSave, SettledOn
  <2>3. CASE SaveCurrent(c)
    <3>1. Start(c, "current_save", d, NoName) /\ UNCHANGED tableVars
      BY <2>3, <1>1 DEF SaveCurrent, First
    <3>2. QED
      BY <1>0, <3>1, SettledStart
  <2>4. CASE CurrentSave(c)
    <3>1. Save(d, "default", DefaultName) /\ Reply(c)
      BY <1>0, <2>4, ReadsAreIds DEF CurrentSave, SettledOn
    <3>2. QED
      BY <1>0, <3>1, SettledWrite
  <2>5. CASE \E n \in Names : Create(c, n)
    BY <1>0, <2>5, SettledStart DEF Create
  <2>6. CASE CreateInsert(c)
    <3>1. PICK i \in Ids : IsNextId(i) /\ Save(i, "regular", given[c])
      BY <2>6 DEF CreateInsert, Insert
    <3>2. i # d /\ Reply(c)
      BY <1>0, <2>6, <3>1 DEF CreateInsert, IsNextId, SettledOn
    <3>3. QED
      BY <1>0, <3>1, <3>2, SettledWrite
  <2>7. CASE \E i \in Ids, n \in Names : Update(c, i, n)
    BY <1>0, <2>7, <1>1, SettledStart DEF Update
  <2>8. CASE UpdateCheck(c)
    <3>1. CASE Reply(c)
      BY <1>0, <2>8, <3>1, SettledReply DEF UpdateCheck
    <3>2. CASE ~Reply(c)
      BY <1>0, <2>8, <3>2 DEF UpdateCheck, SettledOn, TypeOK, tableVars
    <3>3. QED
      BY <3>1, <3>2
  <2>9. CASE UpdateSave(c)
    <3>1. target[c] \in Ids \ {d}
      BY <1>0, <2>9 DEF UpdateSave, SettledOn
    <3>2. QED
      BY <1>0, <2>9, <3>1, SettledWrite DEF UpdateSave
  <2>10. CASE \E i \in Ids : Delete(c, i)
    BY <1>0, <2>10, <1>1, SettledStart DEF Delete
  <2>11. CASE DeleteRow(c)
    BY <1>0, <2>11 DEF DeleteRow, Reply, SettledOn, TypeOK
  <2>12. CASE Abandon(c)
    BY <1>0, <2>12, SettledReply DEF Abandon
  <2>13. QED
    BY <1>4, <2>1, <2>2, <2>3, <2>4, <2>5, <2>6, <2>7, <2>8, <2>9, <2>10,
       <2>11, <2>12 DEF Request
<1>5. QED
    BY <1>3, <1>4 DEF Next

-----------------------------------------------------------------------------
(* Every variable keeps its type: what a request has read and is about to   *)
(* save is the id of a row, or none, and a kind and name the table takes.   *)
THEOREM StrategyTypeCorrect == Spec => []TypeOK
<1>1. Init => TypeOK
    BY StrategyInit
<1>2. TypeOK /\ [Next]_vars => TypeOK'
    BY StrategyTypes
<1>3. QED
    BY <1>1, <1>2, PTL DEF Spec

(* Once the strategies table has exactly one default and no request is      *)
(* under way, it has exactly one for ever (DefaultSettles), for any number  *)
(* of concurrent requests that read, decide and save without a lock.        *)
THEOREM DefaultSettlesAlways == Spec => DefaultSettles
<1>1. Init => TypeOK
    BY StrategyInit
<1>2. TypeOK /\ [Next]_vars => TypeOK'
    BY StrategyTypes
<1>3. TypeOK /\ Settled /\ [Next]_vars => Settled'
    BY SettledStep
<1>4. OneDefault /\ NoRequest => Settled
    BY DEF OneDefault, NoRequest, Settled
<1>5. Settled => OneDefault
    BY DEF Settled, OneDefault
<1>6. QED
    BY <1>1, <1>2, <1>3, <1>4, <1>5, PTL DEF Spec, DefaultSettles
=============================================================================
