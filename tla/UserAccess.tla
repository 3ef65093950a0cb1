------------------------------- MODULE UserAccess -----------------------------
(***************************************************************************)
(* Accounts, tokens and roles (AuthService, UserService, the JWTAuth and    *)
(* RequireRole middleware), and the audit record each audited request       *)
(* leaves (AuditService.Record), the requests of the other services         *)
(* included.  A request is split at its statements; several run at once.    *)
(* The server may start again at any time, with another configured          *)
(* administrator.                                                           *)
(***************************************************************************)
EXTENDS Naturals, Sequences

CONSTANTS
    MaxUsers,   \* bound: users rows ever inserted
    Emails,
    Roles,
    Items,      \* ids of apps and strategies, which other requests change
    Clients,    \* concurrent HTTP requests
    DbFails,    \* may a statement fail?
    None        \* null value: no e-mail, no role given

ASSUME AccessAssumption ==
    /\ MaxUsers \in Nat
    /\ "admin" \in Roles
    /\ DbFails \in BOOLEAN
    /\ None \notin Emails \cup Roles

Users    == 1 .. MaxUsers
Statuses == {"active", "disabled"}

VARIABLES
    role, status, email,   \* table users; status "none": no such row
    items,      \* rows of the tables apps and strategies
    tokens,     \* claims of the tokens that have not expired
    wasAdmin,   \* users who have ever had the role admin
    cpc,        \* what a request does next
    req,        \* its parameters and the user its token names
    effect,     \* what it has done to the tables (Effects)
    records     \* what became of its audit records, in order

userVars  == <<role, status, email>>
auditVars == <<effect, records>>
vars == <<userVars, items, tokens, wasAdmin, cpc, req, auditVars>>

(* "moot": every statement succeeded and none had anything to change.       *)
Effects == {"none", "moot", "changed"}

(* Record has no way to report an error: its insert may be lost.            *)
RecordKinds == {"success", "failure", "lost"}

Claims == [user : Users, role : Roles]

NoReq == [actor |-> 0, target |-> 0, mail |-> None, arg |-> None]

PCs == {"idle", "login_issue", "create_insert", "update_write",
        "update_read", "status_write", "op_write", "delete_write",
        "harden_write", "harden_read", "download", "log"}

TypeOK ==
    /\ role \in [Users -> Roles]
    /\ status \in [Users -> Statuses \cup {"none"}]
    /\ email \in [Users -> Emails \cup {None}]
    /\ items \subseteq Items
    /\ tokens \subseteq Claims
    /\ wasAdmin \subseteq Users
    /\ cpc \in [Clients -> PCs]
    /\ req \in [Clients -> [actor : Users \cup {0}, target : Users \cup {0},
                            mail : Emails \cup {None},
                            arg : Roles \cup Statuses \cup Items \cup {None}]]
    /\ effect \in [Clients -> Effects]
    /\ records \in [Clients -> Seq(RecordKinds)]

(* A migrated database, before the first start has seeded it.               *)
Init ==
    /\ role = [u \in Users |-> "admin"]
    /\ status = [u \in Users |-> "none"]
    /\ email = [u \in Users |-> None]
    /\ items = {}
    /\ tokens = {}
    /\ wasAdmin = {}
    /\ cpc = [c \in Clients |-> "idle"]
    /\ req = [c \in Clients |-> NoReq]
    /\ effect = [c \in Clients |-> "none"]
    /\ records = [c \in Clients |-> <<>>]

-----------------------------------------------------------------------------
Exists(u)   == status[u] # "none"
Taken(e)    == \E u \in Users : Exists(u) /\ email[u] = e
IsNextId(u) == ~Exists(u) /\ \A v \in Users : v < u => Exists(v)
HasRoom     == \E u \in Users : ~Exists(u)

Insert(e, r) ==
    \E u \in Users :
        /\ IsNextId(u)
        /\ email'  = [email EXCEPT ![u] = e]
        /\ role'   = [role EXCEPT ![u] = r]
        /\ status' = [status EXCEPT ![u] = "active"]

(* SeedAdmin counts the rows with the configured e-mail only.               *)
SeedAdmin(e) == IF Taken(e) THEN UNCHANGED userVars ELSE Insert(e, "admin")

(* The process starts, again or for the first time, with ADMIN_EMAIL e:     *)
(* whatever was in flight is gone, tokens live on.  (A start that cannot    *)
(* seed ends at once.)                                                      *)
Start(e) ==
    /\ SeedAdmin(e)
    /\ cpc' = [c \in Clients |-> "idle"]
    /\ req' = [c \in Clients |-> NoReq]
    /\ effect' = [c \in Clients |-> "none"]
    /\ records' = [c \in Clients |-> <<>>]
    /\ UNCHANGED <<items, tokens>>

Expire(t) ==
    /\ t \in tokens
    /\ tokens' = tokens \ {t}
    /\ UNCHANGED <<userVars, items, cpc, req, auditVars>>

-----------------------------------------------------------------------------
(* The life of a request.                                                   *)

Goto(c, pc) == cpc' = [cpc EXCEPT ![c] = pc]

(* AuditService.Record.                                                     *)
Record(c, kind) ==
    \E k \in {kind} \cup (IF DbFails THEN {"lost"} ELSE {}) :
        records' = [records EXCEPT ![c] = Append(@, k)]

Return(c) ==
    /\ Goto(c, "log")
    /\ req' = [req EXCEPT ![c] = NoReq]

(* The deferred Record with Success: err == nil, and the service returns.   *)
Succeed(c) == Return(c) /\ Record(c, "success")
Fail(c)    == Return(c) /\ Record(c, "failure")

Does(c, what) == effect' = [effect EXCEPT ![c] = what]

Takes(c) == Does(c, "changed")

(* The middleware after the handler: RequestLog.                            *)
LogRequest(c) ==
    /\ cpc[c] = "log"
    /\ Goto(c, "idle")
    /\ Does(c, "none")
    /\ records' = [records EXCEPT ![c] = <<>>]
    /\ UNCHANGED <<userVars, items, tokens, req>>

(* Mutant: any valid token will do.                                         *)
AnyToken(u, allowed) == \E t \in tokens : t.user = u

(* JWTAuth and RequireRole look at the claims, never at the users table.    *)
Authorized(u, allowed) == \E t \in tokens : t.user = u /\ t.role \in allowed

(* A request passes the middleware and makes its first lookup.              *)
Call(c, pc, r) ==
    /\ cpc[c] = "idle"
    /\ Goto(c, pc)
    /\ req' = [req EXCEPT ![c] = r]
    /\ UNCHANGED <<userVars, items, tokens, auditVars>>

(* The lookup ends it: not found, already there, or failed.                 *)
Refuse(c) ==
    /\ cpc[c] = "idle"
    /\ Fail(c)
    /\ UNCHANGED <<userVars, items, tokens, effect>>

(* An invalid request, no token, an expired one, or not the role: an error  *)
(* status and no record.                                                    *)
Reject(c) == Call(c, "log", NoReq)

WriteRoles == {"admin", "developer"}

-----------------------------------------------------------------------------
(* AuthService.Login: the row is read once; role and status may change      *)
(* before the token is signed.                                              *)

(* Mutant: a disabled account is let in.                                    *)
LoginFindAnyStatus(c) ==
    /\ cpc[c] = "idle"
    /\ \/ \E u \in Users :
            /\ Exists(u)
            /\ Goto(c, "login_issue")
            /\ req' = [req EXCEPT ![c] = [actor |-> 0, target |-> u, mail |-> None,
                                          arg |-> role[u]]]
            /\ UNCHANGED records
       \/ Fail(c)
    /\ UNCHANGED <<userVars, items, tokens, effect>>

(* Unknown e-mail, wrong password, disabled: recordLoginFailure.            *)
LoginFind(c) ==
    /\ cpc[c] = "idle"
    /\ \/ \E u \in Users :
            /\ status[u] = "active"
            /\ Goto(c, "login_issue")
            /\ req' = [req EXCEPT ![c] = [actor |-> 0, target |-> u, mail |-> None,
                                          arg |-> role[u]]]
            /\ UNCHANGED records
       \/ Fail(c)
    /\ UNCHANGED <<userVars, items, tokens, effect>>

(* GenerateToken may fail, which leaves no record.                          *)
LoginIssue(c) ==
    /\ cpc[c] = "login_issue"
    /\ \/ /\ tokens' = tokens \cup {[user |-> req[c].target, role |-> req[c].arg]}
          /\ Takes(c)
          /\ Succeed(c)
       \/ Return(c) /\ UNCHANGED <<tokens, auditVars>>
    /\ UNCHANGED <<userVars, items>>

-----------------------------------------------------------------------------
(* UserService.Create.  An error of FindByEmail counts as "not found".      *)
CreateFind(c) ==
    \E u \in Users, e \in Emails, r \in Roles :
        /\ Authorized(u, {"admin"})
        /\ \/ /\ ~Taken(e) \/ DbFails
              /\ Call(c, "create_insert",
                      [actor |-> u, target |-> 0, mail |-> e, arg |-> r])
           \/ Taken(e) /\ Refuse(c)

(* Mutant: no unique index on users.email.                                  *)
CreateInsertUnindexed(c) ==
    /\ cpc[c] = "create_insert"
    /\ \/ Insert(req[c].mail, req[c].arg) /\ Takes(c) /\ Succeed(c)
       \/ DbFails /\ Fail(c) /\ UNCHANGED <<userVars, effect>>
    /\ UNCHANGED <<items, tokens>>

(* HashPassword, then the INSERT, which the unique index may refuse.  A full *)
(* table (the bound MaxUsers) fails it like any other error.                *)
CreateInsert(c) ==
    /\ cpc[c] = "create_insert"
    /\ \/ /\ ~Taken(req[c].mail)
          /\ Insert(req[c].mail, req[c].arg)
          /\ Takes(c)
          /\ Succeed(c)
       \/ /\ Taken(req[c].mail) \/ DbFails \/ ~HasRoom
          /\ Fail(c)
          /\ UNCHANGED <<userVars, effect>>
    /\ UNCHANGED <<items, tokens>>

(* UserService.Update: find, update the given columns, read back.  Without  *)
(* a role (None) the request gives only other columns, or none.             *)
UpdateFind(c) ==
    \E u, v \in Users, r \in Roles \cup {None} :
        /\ Authorized(u, {"admin"})
        /\ \/ /\ Exists(v)
              /\ Call(c, "update_write",
                      [actor |-> u, target |-> v, mail |-> None, arg |-> r])
           \/ (~Exists(v) \/ DbFails) /\ Refuse(c)

(* Mutant: a column that was not given is written too.                      *)
UpdateWriteAll(c) ==
    /\ cpc[c] = "update_write"
    /\ role' = [role EXCEPT ![req[c].target] = req[c].arg]
    /\ Takes(c)
    /\ Goto(c, "update_read")
    /\ UNCHANGED <<status, email, items, tokens, req, records>>

(* Without any column there is no UPDATE.                                   *)
UpdateWrite(c) ==
    /\ cpc[c] = "update_write"
    /\ \/ /\ \/ /\ req[c].arg # None
                /\ role' = [role EXCEPT ![req[c].target] = req[c].arg]
                /\ Takes(c)
             \/ /\ req[c].arg = None
                /\ UNCHANGED role
                /\ Takes(c) \/ Does(c, "moot")
          /\ Goto(c, "update_read")
          /\ req' = [req EXCEPT ![c] = NoReq]
          /\ UNCHANGED <<status, email, records>>
       \/ DbFails /\ Fail(c) /\ UNCHANGED <<userVars, effect>>
    /\ UNCHANGED <<items, tokens>>

(* A failure to read back is audited as a failure of the update.            *)
UpdateRead(c) ==
    /\ cpc[c] = "update_read"
    /\ Succeed(c) \/ (DbFails /\ Fail(c))
    /\ UNCHANGED <<userVars, items, tokens, effect>>

(* UserService.UpdateStatus, with its self-protection.                      *)
StatusFind(c) ==
    \E u, v \in Users, st \in Statuses :
        LET self == u = v /\ st = "disabled" IN
        /\ Authorized(u, {"admin"})
        /\ \/ /\ Exists(v) /\ ~self
              /\ Call(c, "status_write",
                      [actor |-> u, target |-> v, mail |-> None, arg |-> st])
           \/ (~Exists(v) \/ self \/ DbFails) /\ Refuse(c)

(* Mutant: the error of the UPDATE is dropped.                              *)
StatusWriteIgnoringError(c) ==
    /\ cpc[c] = "status_write"
    /\ \/ /\ status' = [status EXCEPT ![req[c].target] = req[c].arg]
          /\ Takes(c)
       \/ DbFails /\ UNCHANGED <<status, effect>>
    /\ Succeed(c)
    /\ UNCHANGED <<role, email, items, tokens>>

StatusWrite(c) ==
    /\ cpc[c] = "status_write"
    /\ \/ /\ status' = [status EXCEPT ![req[c].target] = req[c].arg]
          /\ Takes(c)
          /\ Succeed(c)
       \/ DbFails /\ Fail(c) /\ UNCHANGED <<status, effect>>
    /\ UNCHANGED <<role, email, items, tokens>>

-----------------------------------------------------------------------------
(* The audited requests of the other services.  (The strategy requests ask  *)
(* for the role admin; which of the two roles it is does not matter here.)  *)

OpCall(c) ==
    \E u \in Users, pc \in {"op_write", "harden_write", "download"} :
        Authorized(u, WriteRoles) /\ Call(c, pc, NoReq)

(* Upload and the strategy saves: one deferred record.  A save puts a row   *)
(* back that was deleted after it was read.                                 *)
OpWrite(c) ==
    /\ cpc[c] = "op_write"
    /\ \/ /\ \E x \in Items : items' = items \cup {x}
          /\ Takes(c)
          /\ Succeed(c)
       \/ UNCHANGED <<items, effect>> /\ Fail(c)
    /\ UNCHANGED <<userVars, tokens>>

(* Delete of an app or a strategy: the row is looked up first.              *)
DeleteFind(c) ==
    \E u \in Users, x \in Items :
        /\ Authorized(u, WriteRoles)
        /\ \/ /\ x \in items
              /\ Call(c, "delete_write",
                      [actor |-> 0, target |-> 0, mail |-> None, arg |-> x])
           \/ (x \notin items \/ DbFails) /\ Refuse(c)

(* A DELETE that finds no row any more is no error.  An active task or the  *)
(* default strategy refuse it.                                              *)
DeleteWrite(c) ==
    LET x == req[c].arg IN
    /\ cpc[c] = "delete_write"
    /\ \/ /\ items' = items \ {x}
          /\ Does(c, IF x \in items THEN "changed" ELSE "moot")
          /\ Succeed(c)
       \/ UNCHANGED <<items, effect>> /\ Fail(c)
    /\ UNCHANGED <<userVars, tokens>>

(* HardeningService.Create: an explicit record of success once the task is  *)
(* committed, and a deferred one of any error.                              *)
HardenWrite(c) ==
    /\ cpc[c] = "harden_write"
    /\ \/ /\ Takes(c)
          /\ Record(c, "success")
          /\ Goto(c, "harden_read")
          /\ UNCHANGED req
       \/ UNCHANGED effect /\ Fail(c)
    /\ UNCHANGED <<userVars, items, tokens>>

(* Its final Get may fail after the success was recorded.                   *)
HardenRead(c) ==
    /\ cpc[c] = "harden_read"
    /\ (Return(c) /\ UNCHANGED records) \/ (DbFails /\ Fail(c))
    /\ UNCHANGED <<userVars, items, tokens, effect>>

(* DownloadURL of an app or a task: only success is recorded.               *)
Download(c) ==
    /\ cpc[c] = "download"
    /\ \/ Takes(c) /\ Succeed(c)
       \/ Return(c) /\ UNCHANGED <<effect, records>>
    /\ UNCHANGED <<userVars, items, tokens>>

-----------------------------------------------------------------------------
Arrive(c) ==
    \/ Reject(c) \/ LoginFind(c)
    \/ CreateFind(c) \/ UpdateFind(c) \/ StatusFind(c)
    \/ OpCall(c) \/ DeleteFind(c)

Continue(c) ==
    \/ LoginIssue(c) \/ CreateInsert(c)
    \/ UpdateWrite(c) \/ UpdateRead(c) \/ StatusWrite(c)
    \/ OpWrite(c) \/ DeleteWrite(c)
    \/ HardenWrite(c) \/ HardenRead(c) \/ Download(c)
    \/ LogRequest(c)

RecordAdmins ==   \* history
    wasAdmin' = wasAdmin \cup {u \in Users : status'[u] # "none" /\ role'[u] = "admin"}

Next ==
    /\ \/ \E e \in Emails : Start(e)
       \/ \E t \in Claims : Expire(t)
       \/ \E c \in Clients : Arrive(c) \/ Continue(c)
    /\ RecordAdmins

Spec == Init /\ [][Next]_vars

(* A request in flight goes on and every token expires.                     *)
Fairness ==
    /\ \A c \in Clients : WF_vars(Continue(c) /\ RecordAdmins)
    /\ \A t \in Claims : WF_vars(Expire(t) /\ RecordAdmins)

FairSpec == Spec /\ Fairness

-----------------------------------------------------------------------------
(* No two accounts share an e-mail, although two Create requests may both   *)
(* find it free, and a failed lookup counts as free.                        *)
UniqueEmail ==
    \A u, v \in Users : Exists(u) /\ Exists(v) /\ email[u] = email[v] => u = v

(* What the audit log says of a finished request: nothing changes without   *)
(* the attempt to record it, and a success is recorded only when every      *)
(* statement took effect, by changing the tables or by finding them as they *)
(* were asked to be: of two overlapping deletions of a row both record a    *)
(* success.  (A record of failure does not mean that nothing happened:      *)
(* UpdateRead and HardenRead.)                                              *)
AuditTruthful ==
    \A c \in Clients : cpc[c] = "log" =>
        /\ effect[c] = "changed" => records[c] # <<>>
        /\ (\E i \in DOMAIN records[c] : records[c][i] = "success")
              => effect[c] # "none"

(* An administrator asks for it.                                            *)
Asks(c) == cpc[c] \in {"create_insert", "update_write"} /\ req[c].actor \in wasAdmin

(* Nobody becomes an administrator but by the request of somebody who has   *)
(* been one, though roles are read from tokens that may be out of date, or  *)
(* by a start of the server configured with an e-mail that no account has.  *)
(* (Any start, although docs/deployment.md, 282, says that only an empty    *)
(* table is seeded.)                                                        *)
AdminsAreMade ==
    [][\A u \in wasAdmin' \ wasAdmin :
         \/ Start(email'[u]) /\ ~Exists(u) /\ ~Taken(email'[u])
         \/ \E c \in Clients : Asks(c)]_vars

(* A user who stays disabled is locked out in the end: the tokens issued    *)
(* before, and the one a Login under way may still sign, run out, and no    *)
(* new one is issued.                                                       *)
DisabledLockedOut ==
    \A u \in Users :
        <>[](status[u] = "disabled") => <>[](\A t \in tokens : t.user # u)
=============================================================================
