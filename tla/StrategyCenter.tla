---------------------------- MODULE StrategyCenter ----------------------------
(***************************************************************************)
(* The strategy center: one table that holds the default strategy and the   *)
(* named ones, told apart by is_default (internal/service/strategy_service, *)
(* internal/repository/strategy_repository).  Nothing is done under a lock  *)
(* or in a transaction: a request reads, decides and then saves a whole     *)
(* row, and other requests run in between.                                  *)
(***************************************************************************)
EXTENDS Naturals

CONSTANTS
    Clients,      \* concurrent requests
    Names,        \* trimmed, non-empty names that requests give
    NoName,       \* the name of a row from before names existed
    DefaultName,  \* the fixed name of the default strategy
    MaxRows       \* bound: strategies rows ever inserted

Ids == 1 .. MaxRows

ASSUME StrategyAssumption ==
    /\ MaxRows \in Nat \ {0}
    /\ NoName \notin Names \cup {DefaultName}

VARIABLES
    kind,    \* is_default of a row; "none" before it exists, "deleted" after
    name,    \* its name
    pc,      \* what a request does next
    target,  \* the id it has read, 0 for none
    given    \* the name it was given

tableVars == <<kind, name>>
requestVars == <<pc, target, given>>
vars == <<tableVars, requestVars>>

RequestPCs ==
    {"idle", "promote_find", "promote_save", "current_save",
     "create_insert", "update_check", "update_save", "delete_row"}

TypeOK ==
    /\ kind \in [Ids -> {"none", "regular", "default", "deleted"}]
    /\ name \in [Ids -> Names \cup {NoName, DefaultName}]
    /\ pc \in [Clients -> RequestPCs]
    /\ target \in [Clients -> Ids \cup {0}]
    /\ given \in [Clients -> Names \cup {NoName}]

(* A new table, the single unnamed row of an old one after Migrate added    *)
(* the columns, or a table in which the default has been saved.             *)
Init ==
    /\ \E k \in {"none", "regular", "default"} :
          /\ kind = [i \in Ids |-> IF i = 1 THEN k ELSE "none"]
          /\ name = [i \in Ids |->
                IF i = 1 /\ k = "default" THEN DefaultName ELSE NoName]
    /\ pc = [c \in Clients |-> "idle"]
    /\ target = [c \in Clients |-> 0]
    /\ given = [c \in Clients |-> NoName]

Regular  == {i \in Ids : kind[i] = "regular"}
Defaults == {i \in Ids : kind[i] = "default"}
Rows     == Regular \cup Defaults

First(S, i) == i \in S /\ \A j \in S : i <= j   \* ORDER BY id ASC, First

IsNextId(i) == kind[i] = "none" /\ \A j \in Ids : j < i => kind[j] # "none"

-----------------------------------------------------------------------------
(* Mutant: ids are taken to count from zero.                                *)
StartOffByOne(c, next, i, n) ==
    /\ pc[c] = "idle"
    /\ pc' = [pc EXCEPT ![c] = next]
    /\ target' = [target EXCEPT ![c] = i + 1]
    /\ given' = [given EXCEPT ![c] = n]

(* A request arrives and makes its first read.                              *)
Start(c, next, i, n) ==
    /\ pc[c] = "idle"
    /\ pc' = [pc EXCEPT ![c] = next]
    /\ target' = [target EXCEPT ![c] = i]
    /\ given' = [given EXCEPT ![c] = n]

Reply(c) ==
    /\ pc' = [pc EXCEPT ![c] = "idle"]
    /\ target' = [target EXCEPT ![c] = 0]
    /\ given' = [given EXCEPT ![c] = NoName]

(* gorm Save: UPDATE the row and, when there is none, INSERT it with its    *)
(* old id.                                                                  *)
Save(i, k, n) ==
    /\ kind' = [kind EXCEPT ![i] = k]
    /\ name' = [name EXCEPT ![i] = n]

Insert(k, n) == \E i \in Ids : IsNextId(i) /\ Save(i, k, n)

NameExists(n, except) == \E i \in Regular \ {except} : name[i] = n

-----------------------------------------------------------------------------
(* GET /strategies/current, and a hardening request without strategyId.     *)
(* It only reads when there is a default strategy.                          *)
GetCurrent(c) ==
    /\ Defaults = {}
    /\ Start(c, "promote_find", 0, NoName)
    /\ UNCHANGED tableVars

(* PromoteLegacyCurrent; an empty table is answered with a template.        *)
PromoteFind(c) ==
    /\ pc[c] = "promote_find"
    /\ \/ Rows = {} /\ Reply(c)
       \/ \E i \in Ids :
            /\ First(Rows, i)
            /\ pc' = [pc EXCEPT ![c] = "promote_save"]
            /\ target' = [target EXCEPT ![c] = i]
            /\ UNCHANGED given
    /\ UNCHANGED tableVars

PromoteSave(c) ==
    /\ pc[c] = "promote_save"
    /\ Save(target[c], "default", DefaultName)
    /\ Reply(c)

-----------------------------------------------------------------------------
(* PUT /strategies/current: look the default up, then save over it.         *)
SaveCurrent(c) ==
    /\ \/ Defaults = {} /\ Start(c, "current_save", 0, NoName)
       \/ \E i \in Ids : First(Defaults, i) /\ Start(c, "current_save", i, NoName)
    /\ UNCHANGED tableVars

CurrentSave(c) ==
    /\ pc[c] = "current_save"
    /\ \/ target[c] # 0 /\ Save(target[c], "default", DefaultName)
       \/ target[c] = 0 /\ Insert("default", DefaultName)
    /\ Reply(c)

-----------------------------------------------------------------------------
(* POST /strategies: validateStrategyPayload, then the insert.              *)
Create(c, n) ==
    /\ ~NameExists(n, 0)
    /\ Start(c, "create_insert", 0, n)
    /\ UNCHANGED tableVars

CreateInsert(c) ==
    /\ pc[c] = "create_insert"
    /\ Insert("regular", given[c])
    /\ Reply(c)

-----------------------------------------------------------------------------
(* Mutant: Update looks among all strategies.                               *)
UpdateAny(c, i, n) ==
    /\ i \in Rows
    /\ Start(c, "update_check", i, n)
    /\ UNCHANGED tableVars

(* PUT /strategies/:id: FindRegularByID, the name check, and the save of    *)
(* the row as it was read.                                                  *)
Update(c, i, n) ==
    /\ i \in Regular
    /\ Start(c, "update_check", i, n)
    /\ UNCHANGED tableVars

UpdateCheck(c) ==
    /\ pc[c] = "update_check"
    /\ \/ NameExists(given[c], target[c]) /\ Reply(c)
       \/ /\ ~NameExists(given[c], target[c])
          /\ pc' = [pc EXCEPT ![c] = "update_save"]
          /\ UNCHANGED <<target, given>>
    /\ UNCHANGED tableVars

UpdateSave(c) ==
    /\ pc[c] = "update_save"
    /\ Save(target[c], "regular", given[c])
    /\ Reply(c)

-----------------------------------------------------------------------------
(* DELETE /strategies/:id: FindByID, refused for the default, then DELETE.  *)
Delete(c, i) ==
    /\ i \in Regular
    /\ Start(c, "delete_row", i, NoName)
    /\ UNCHANGED tableVars

DeleteRow(c) ==
    /\ pc[c] = "delete_row"
    /\ kind' = [kind EXCEPT ![target[c]] = "deleted"]
    /\ UNCHANGED name
    /\ Reply(c)

(* A statement fails, the process dies or no row may be inserted any more:  *)
(* the request ends where it is.                                            *)
Abandon(c) ==
    /\ pc[c] # "idle"
    /\ Reply(c)
    /\ UNCHANGED tableVars

-----------------------------------------------------------------------------
Request(c) ==
    \/ GetCurrent(c) \/ PromoteFind(c) \/ PromoteSave(c)
    \/ SaveCurrent(c) \/ CurrentSave(c)
    \/ (\E n \in Names : Create(c, n)) \/ CreateInsert(c)
    \/ (\E i \in Ids, n \in Names : Update(c, i, n))
    \/ UpdateCheck(c) \/ UpdateSave(c)
    \/ (\E i \in Ids : Delete(c, i)) \/ DeleteRow(c)
    \/ Abandon(c)

Next == \E c \in Clients : Request(c)

Spec == Init /\ [][Next]_vars

-----------------------------------------------------------------------------
(* There is exactly one default strategy, and it carries the fixed name.    *)
OneDefault ==
    \E i \in Ids :
        /\ kind[i] = "default"
        /\ name[i] = DefaultName
        /\ \A j \in Ids : kind[j] = "default" => j = i

NoRequest == \A c \in Clients : pc[c] = "idle"

(* Once there is exactly one default strategy and the requests that were    *)
(* under way have ended, there is exactly one for ever: SaveCurrent finds   *)
(* it, GetCurrent promotes nothing, and Update and Delete do not reach it,  *)
(* although no request takes a lock and any of them may overlap or fail.    *)
DefaultSettles == [](OneDefault /\ NoRequest => []OneDefault)

(* Why it stays: no request has set out to promote a row, none that saves   *)
(* the default aims at another row, and none that renames or deletes a row  *)
(* has read the default.                                                    *)
Settled ==
    \E d \in Ids :
        /\ kind[d] = "default"
        /\ name[d] = DefaultName
        /\ \A j \in Ids : kind[j] = "default" => j = d
        /\ \A c \in Clients :
              /\ pc[c] \notin {"promote_find", "promote_save"}
              /\ pc[c] = "current_save" => target[c] = d
              /\ pc[c] \in {"update_check", "update_save", "delete_row"} =>
                    target[c] \in Ids \ {d}
=============================================================================
