--------------------------- MODULE UserAccessProof ----------------------------
(***************************************************************************)
(* Accounts, roles and the audit log, for every number of users, roles,     *)
(* e-mails and concurrent requests, whether statements fail or not.         *)
(***************************************************************************)
EXTENDS UserAccess, TLAPS

(* What a request in flight knows from its first lookup.  A row it has      *)
(* found is still there (accounts are never deleted), but its role and      *)
(* status may be others by now.                                             *)
Flight(c) ==
    /\ cpc[c] = "login_issue" =>
          /\ req[c].target \in Users /\ req[c].arg \in Roles
          /\ req[c].arg = "admin" => req[c].target \in wasAdmin
    /\ cpc[c] = "create_insert" =>
          /\ req[c].mail \in Emails /\ req[c].arg \in Roles
          /\ req[c].actor \in wasAdmin
    /\ cpc[c] = "update_write" =>
          /\ req[c].target \in Users /\ Exists(req[c].target)
          /\ req[c].arg \in Roles \cup {None}
          /\ req[c].actor \in wasAdmin
    /\ cpc[c] = "status_write" =>
          /\ req[c].target \in Users /\ Exists(req[c].target)
          /\ req[c].arg \in Statuses

(* What it has done and recorded so far.                                    *)
Before == PCs \ {"update_read", "harden_read", "log"}

Ledger(c) ==
    /\ cpc[c] \in Before => effect[c] = "none" /\ records[c] = <<>>
    /\ cpc[c] = "update_read" => effect[c] # "none" /\ records[c] = <<>>
    /\ cpc[c] = "harden_read" => effect[c] # "none" /\ records[c] # <<>>
    /\ cpc[c] = "log" =>
          /\ effect[c] = "changed" => records[c] # <<>>
          /\ (\E i \in DOMAIN records[c] : records[c][i] = "success")
                => effect[c] # "none"

(* Whoever is an administrator in the table or in a token has been one.     *)
AdminsKnown ==
    /\ \A u \in Users : Exists(u) /\ role[u] = "admin" => u \in wasAdmin
    /\ \A t \in tokens : t.role = "admin" => t.user \in wasAdmin

AccessInv ==
    /\ TypeOK
    /\ AdminsKnown
    /\ \A c \in Clients : Flight(c)

-----------------------------------------------------------------------------
(* The four things a step may do to the table users.                        *)

Added(u, e, r) ==
    /\ ~Exists(u) /\ ~Taken(e)
    /\ email'  = [email EXCEPT ![u] = e]
    /\ role'   = [role EXCEPT ![u] = r]
    /\ status' = [status EXCEPT ![u] = "active"]

RoleSet(u, r) ==
    /\ Exists(u)
    /\ role' = [role EXCEPT ![u] = r]
    /\ UNCHANGED <<status, email>>

StatusSet(u, s) ==
    /\ Exists(u)
    /\ status' = [status EXCEPT ![u] = s]
    /\ UNCHANGED <<role, email>>

(* An administrator asked for it.                                           *)
Asked == \E c \in Clients : Asks(c)

RowStep ==
    \/ UNCHANGED userVars
    \/ \E u \in Users, e \in Emails, r \in Roles :
          Added(u, e, r) /\ (Start(e) \/ Asked)
    \/ \E u \in Users, r \in Roles : RoleSet(u, r) /\ Asked
    \/ \E u \in Users, s \in Statuses : StatusSet(u, s)

(* Every step does one of them.                                             *)
LEMMA RowSteps ==
    ASSUME AccessInv, [Next]_vars
    PROVE  RowStep
<1>1. CASE UNCHANGED vars
  BY <1>1 DEF vars, userVars, RowStep
<1>2. ASSUME NEW e \in Emails, Start(e)
      PROVE  RowStep
  <2>1. CASE UNCHANGED userVars
    BY <2>1 DEF RowStep
  <2>2. CASE ~Taken(e) /\ Insert(e, "admin")
    <3>1. PICK u \in Users : Added(u, e, "admin")
      BY <2>2 DEF Insert, IsNextId, Added
    <3>2. QED
      BY <1>2, <3>1, AccessAssumption DEF RowStep
  <2>3. QED
    BY <1>2, <2>1, <2>2 DEF Start, SeedAdmin
<1>3. CASE \E t \in Claims : Expire(t)
  BY <1>3 DEF Expire, userVars, RowStep
<1>4. ASSUME NEW c \in Clients, Arrive(c)
      PROVE  RowStep
  BY <1>4 DEF Arrive, Reject, LoginFind, CreateFind, UpdateFind, StatusFind, OpCall,
              DeleteFind, Call, Refuse, userVars, RowStep
<1>5. ASSUME NEW c \in Clients, Continue(c)
      PROVE  RowStep
  <2>1. Flight(c)
    BY DEF AccessInv
  <2>2. CASE UNCHANGED userVars
    BY <2>2 DEF RowStep
  <2>3. CASE CreateInsert(c)
    <3>1. CASE UNCHANGED userVars
      BY <3>1 DEF RowStep
    <3>2. CASE ~Taken(req[c].mail) /\ Insert(req[c].mail, req[c].arg)
      <4>1. PICK u \in Users : Added(u, req[c].mail, req[c].arg)
        BY <3>2 DEF Insert, IsNextId, Added
      <4>2. Asked /\ req[c].mail \in Emails /\ req[c].arg \in Roles
        BY <2>3, <2>1 DEF CreateInsert, Flight, Asked, Asks
      <4>3. QED
        BY <4>1, <4>2 DEF RowStep
    <3>3. QED
      BY <2>3, <3>1, <3>2 DEF CreateInsert
  <2>4. CASE UpdateWrite(c)
    <3>1. CASE UNCHANGED userVars
      BY <3>1 DEF RowStep
    <3>2. CASE req[c].arg # None /\ RoleSet(req[c].target, req[c].arg)
      <4>1. /\ Asked /\ req[c].target \in Users
            /\ req[c].arg \in Roles
        BY <2>4, <2>1, <3>2 DEF UpdateWrite, Flight, Asked, Asks
      <4>2. QED
        BY <4>1, <3>2 DEF RowStep
    <3>3. QED
      BY <2>4, <2>1, <3>1, <3>2 DEF UpdateWrite, Flight, RoleSet, userVars
  <2>5. CASE StatusWrite(c)
    <3>1. CASE UNCHANGED userVars
      BY <3>1 DEF RowStep
    <3>2. CASE StatusSet(req[c].target, req[c].arg)
      BY <2>5, <2>1, <3>2 DEF StatusWrite, Flight, RowStep
    <3>3. QED
      BY <2>5, <2>1, <3>1, <3>2 DEF StatusWrite, Flight, StatusSet, userVars
  <2>6. QED
    BY <1>5, <2>2, <2>3, <2>4, <2>5
       DEF Continue, LoginIssue, UpdateRead, OpWrite, DeleteWrite, HardenWrite,
           HardenRead, Download, LogRequest, userVars
<1>6. QED
  BY <1>1, <1>2, <1>3, <1>4, <1>5 DEF Next

(* The table stays well typed and loses no row.                             *)
LEMMA RowsStay ==
    ASSUME AccessInv, RowStep
    PROVE  /\ role' \in [Users -> Roles]
           /\ status' \in [Users -> Statuses \cup {"none"}]
           /\ email' \in [Users -> Emails \cup {None}]
           /\ \A u \in Users : Exists(u) => Exists(u)'
<1>1. TypeOK
  BY DEF AccessInv
<1>2. CASE UNCHANGED userVars
  BY <1>1, <1>2 DEF TypeOK, userVars, Exists
<1>3. ASSUME NEW u \in Users, NEW e \in Emails, NEW r \in Roles, Added(u, e, r)
      PROVE  /\ role' \in [Users -> Roles]
             /\ status' \in [Users -> Statuses \cup {"none"}]
             /\ email' \in [Users -> Emails \cup {None}]
             /\ \A v \in Users : Exists(v) => Exists(v)'
  BY <1>1, <1>3 DEF TypeOK, Added, Statuses, Exists
<1>4. ASSUME NEW u \in Users, NEW r \in Roles, RoleSet(u, r)
      PROVE  /\ role' \in [Users -> Roles]
             /\ UNCHANGED <<status, email>>
  BY <1>1, <1>4 DEF TypeOK, RoleSet
<1>5. ASSUME NEW u \in Users, NEW s \in Statuses, StatusSet(u, s)
      PROVE  /\ status' \in [Users -> Statuses \cup {"none"}]
             /\ UNCHANGED <<role, email>>
             /\ \A v \in Users : Exists(v) => Exists(v)'
  BY <1>1, <1>5 DEF TypeOK, StatusSet, Statuses, Exists
<1>6. QED
  BY <1>1, <1>2, <1>3, <1>4, <1>5 DEF RowStep, TypeOK, Exists

-----------------------------------------------------------------------------
(* What a step does to the requests.  Only the request that moves changes.  *)

(* The other requests keep what they know: no row goes, no administrator is *)
(* forgotten.                                                               *)
LEMMA FlightStays ==
    ASSUME AccessInv, RowStep, RecordAdmins,
           NEW d \in Clients, UNCHANGED <<cpc[d], req[d]>>
    PROVE  Flight(d)'
<1>1. Flight(d) /\ wasAdmin \subseteq wasAdmin'
  BY DEF AccessInv, RecordAdmins
<1>2. \A u \in Users : Exists(u) => Exists(u)'
  BY RowsStay
<1>3. (cpc[d] \in {"update_write", "status_write"} => Exists(req[d].target))
        => (cpc[d] \in {"update_write", "status_write"} /\ req[d].target \in Users
              => Exists(req[d].target)')
  BY <1>2 DEF Exists
<1>4. QED
  BY <1>1, <1>3 DEF Flight, Exists

(* A request that has returned, or passed on without parameters.            *)
LEMMA FlightEmpty ==
    ASSUME NEW c \in Clients,
           cpc'[c] \in PCs \ {"login_issue", "create_insert", "update_write",
                              "status_write"}
    PROVE  Flight(c)'
  BY DEF Flight

(* The parameters and the program counter stay well typed, and the request  *)
(* that moves knows what its next statement needs.                          *)
RequestTypes ==
    /\ cpc \in [Clients -> PCs]
    /\ req \in [Clients -> [actor : Users \cup {0}, target : Users \cup {0},
                            mail : Emails \cup {None},
                            arg : Roles \cup Statuses \cup Items \cup {None}]]

(* A token that names an administrator was one's.                           *)
LEMMA Authority ==
    ASSUME AccessInv, NEW u \in Users, Authorized(u, {"admin"})
    PROVE  u \in wasAdmin
  BY DEF AccessInv, AdminsKnown, Authorized

(* One request moves.                                                       *)
LEMMA MoveSteps ==
    ASSUME AccessInv, RowStep, RecordAdmins, NEW c \in Clients,
           Arrive(c) \/ Continue(c)
    PROVE  /\ RequestTypes'
           /\ Flight(c)'
           /\ \A d \in Clients \ {c} : UNCHANGED <<cpc[d], req[d]>>
<1> USE DEF Goto
<1>t. /\ cpc \in [Clients -> PCs]
      /\ req \in [Clients -> [actor : Users \cup {0}, target : Users \cup {0},
                              mail : Emails \cup {None},
                              arg : Roles \cup Statuses \cup Items \cup {None}]]
      /\ NoReq \in [actor : Users \cup {0}, target : Users \cup {0},
                    mail : Emails \cup {None},
                    arg : Roles \cup Statuses \cup Items \cup {None}]
  BY DEF AccessInv, TypeOK, NoReq
<1>w. wasAdmin \subseteq wasAdmin' /\ wasAdmin \subseteq Users
  BY DEF RecordAdmins, AccessInv, TypeOK
<1>r. ASSUME Return(c)
      PROVE  /\ RequestTypes'
             /\ Flight(c)'
             /\ \A d \in Clients \ {c} : UNCHANGED <<cpc[d], req[d]>>
  BY <1>t, <1>r DEF Return, RequestTypes, Flight, PCs
<1>g. ASSUME NEW pc \in {"log", "op_write", "harden_write", "download",
                         "delete_write", "harden_read", "idle"},
             Goto(c, pc), UNCHANGED req
      PROVE  /\ RequestTypes'
             /\ Flight(c)'
             /\ \A d \in Clients \ {c} : UNCHANGED <<cpc[d], req[d]>>
  BY <1>t, <1>g DEF RequestTypes, Flight, PCs
<1>c. ASSUME NEW pc \in PCs, NEW r, Call(c, pc, r),
             r \in [actor : Users \cup {0}, target : Users \cup {0},
                    mail : Emails \cup {None},
                    arg : Roles \cup Statuses \cup Items \cup {None}]
      PROVE  /\ RequestTypes'
             /\ cpc'[c] = pc /\ req'[c] = r
             /\ UNCHANGED userVars
             /\ \A d \in Clients \ {c} : UNCHANGED <<cpc[d], req[d]>>
  BY <1>t, <1>c DEF Call, RequestTypes
<1>1. CASE Reject(c)
  BY <1>1, <1>c, <1>t, FlightEmpty DEF Reject, PCs
<1>2. CASE LoginFind(c)
  <2>1. CASE Fail(c)
    BY <2>1, <1>r DEF Fail
  <2>2. ASSUME NEW u \in Users, status[u] = "active", Goto(c, "login_issue"),
               req' = [req EXCEPT ![c] = [actor |-> 0, target |-> u, mail |-> None,
                                          arg |-> role[u]]]
        PROVE  /\ RequestTypes'
               /\ Flight(c)'
               /\ \A d \in Clients \ {c} : UNCHANGED <<cpc[d], req[d]>>
    <3>1. role[u] \in Roles /\ (role[u] = "admin" => u \in wasAdmin)
      BY <2>2 DEF AccessInv, AdminsKnown, TypeOK, Exists
    <3>2. QED
      BY <2>2, <3>1, <1>t, <1>w DEF RequestTypes, Flight, PCs
  <2>3. QED
    BY <1>2, <2>1, <2>2 DEF LoginFind
<1>3. CASE CreateFind(c)
  <2>1. CASE Refuse(c)
    BY <2>1, <1>r DEF Refuse, Fail
  <2>2. ASSUME NEW u \in Users, NEW e \in Emails, NEW r \in Roles,
               Authorized(u, {"admin"}),
               Call(c, "create_insert", [actor |-> u, target |-> 0, mail |-> e, arg |-> r])
        PROVE  /\ RequestTypes'
               /\ Flight(c)'
               /\ \A d \in Clients \ {c} : UNCHANGED <<cpc[d], req[d]>>
    BY <2>2, <1>c, <1>w, Authority DEF Flight, PCs
  <2>3. QED
    BY <1>3, <2>1, <2>2 DEF CreateFind
<1>4. CASE UpdateFind(c)
  <2>1. CASE Refuse(c)
    BY <2>1, <1>r DEF Refuse, Fail
  <2>2. ASSUME NEW u \in Users, NEW v \in Users, NEW r \in Roles \cup {None},
               Authorized(u, {"admin"}), Exists(v),
               Call(c, "update_write", [actor |-> u, target |-> v, mail |-> None, arg |-> r])
        PROVE  /\ RequestTypes'
               /\ Flight(c)'
               /\ \A d \in Clients \ {c} : UNCHANGED <<cpc[d], req[d]>>
    <3>1. Exists(v)'
      BY <2>2 DEF Call, userVars, Exists
    <3>2. QED
      BY <2>2, <3>1, <1>c, <1>w, Authority DEF Flight, PCs, Exists
  <2>3. QED
    BY <1>4, <2>1, <2>2 DEF UpdateFind
<1>5. CASE StatusFind(c)
  <2>1. CASE Refuse(c)
    BY <2>1, <1>r DEF Refuse, Fail
  <2>2. ASSUME NEW u \in Users, NEW v \in Users, NEW s \in Statuses, Exists(v),
               Call(c, "status_write", [actor |-> u, target |-> v, mail |-> None, arg |-> s])
        PROVE  /\ RequestTypes'
               /\ Flight(c)'
               /\ \A d \in Clients \ {c} : UNCHANGED <<cpc[d], req[d]>>
    <3>1. Exists(v)'
      BY <2>2 DEF Call, userVars, Exists
    <3>2. QED
      BY <2>2, <3>1, <1>c DEF Flight, PCs, Exists
  <2>3. QED
    BY <1>5, <2>1, <2>2 DEF StatusFind
<1>6. CASE OpCall(c)
  BY <1>6, <1>c, <1>t, FlightEmpty DEF OpCall, PCs
<1>12. CASE DeleteFind(c)
  <2>1. CASE Refuse(c)
    BY <2>1, <1>r DEF Refuse, Fail
  <2>2. ASSUME NEW x \in Items,
               Call(c, "delete_write",
                    [actor |-> 0, target |-> 0, mail |-> None, arg |-> x])
        PROVE  /\ RequestTypes'
               /\ Flight(c)'
               /\ \A d \in Clients \ {c} : UNCHANGED <<cpc[d], req[d]>>
    BY <2>2, <1>c, FlightEmpty DEF PCs
  <2>3. QED
    BY <1>12, <2>1, <2>2 DEF DeleteFind
<1>7. CASE UpdateWrite(c)
  BY <1>7, <1>r, <1>t, FlightEmpty DEF UpdateWrite, Fail, RequestTypes, PCs
<1>8. CASE HardenWrite(c)
  BY <1>8, <1>r, <1>g DEF HardenWrite, Fail
<1>9. CASE LogRequest(c)
  BY <1>9, <1>g DEF LogRequest
<1>10. CASE LoginIssue(c) \/ CreateInsert(c) \/ UpdateRead(c) \/ StatusWrite(c)
            \/ OpWrite(c) \/ DeleteWrite(c) \/ HardenRead(c) \/ Download(c)
  BY <1>10, <1>r DEF LoginIssue, CreateInsert, UpdateRead, StatusWrite, OpWrite,
                     DeleteWrite, HardenRead, Download, Succeed, Fail
<1>11. QED
  BY <1>1, <1>2, <1>3, <1>4, <1>5, <1>6, <1>7, <1>8, <1>9, <1>10, <1>12
     DEF Arrive, Continue

-----------------------------------------------------------------------------
(* The steps together.                                                      *)

(* Tokens: a login issues one for the role it has read.                     *)
LEMMA TokenSteps ==
    ASSUME AccessInv, [Next]_vars
    PROVE  \/ tokens' \subseteq tokens
           \/ \E t \in Claims : /\ tokens' \subseteq tokens \cup {t}
                                /\ t.role = "admin" => t.user \in wasAdmin
<1>1. CASE UNCHANGED vars
  BY <1>1 DEF vars
<1>2. CASE (\E e \in Emails : Start(e)) \/ \E t \in Claims : Expire(t)
  BY <1>2 DEF Start, Expire
<1>3. ASSUME NEW c \in Clients, LoginIssue(c)
      PROVE  \E t \in Claims : /\ tokens' \subseteq tokens \cup {t}
                               /\ t.role = "admin" => t.user \in wasAdmin
  <2> DEFINE t == [user |-> req[c].target, role |-> req[c].arg]
  <2>1. Flight(c)
    BY DEF AccessInv
  <2>2. t \in Claims /\ (t.role = "admin" => t.user \in wasAdmin)
    BY <1>3, <2>1 DEF LoginIssue, Flight, Claims
  <2>3. tokens' \subseteq tokens \cup {t} \/ UNCHANGED tokens
    BY <1>3 DEF LoginIssue
  <2>4. QED
    BY <2>2, <2>3
<1>4. ASSUME NEW c \in Clients, Arrive(c) \/ Continue(c), ~LoginIssue(c)
      PROVE  tokens' = tokens
  BY <1>4
     DEF Arrive, Continue, Reject, LoginFind, CreateFind, UpdateFind, StatusFind, OpCall,
         DeleteFind, Call, Refuse, CreateInsert, UpdateWrite, UpdateRead, StatusWrite,
         OpWrite, DeleteWrite, HardenWrite, HardenRead, Download, LogRequest
<1>5. QED
  BY <1>1, <1>2, <1>3, <1>4 DEF Next

(* The audit records a step writes.                                         *)
LEMMA Recording ==
    ASSUME NEW c \in Clients, NEW kind \in {"success", "failure"},
           records \in [Clients -> Seq(RecordKinds)], Record(c, kind)
    PROVE  /\ records' \in [Clients -> Seq(RecordKinds)]
           /\ \A d \in Clients \ {c} : UNCHANGED records[d]
           /\ \E k \in {kind, "lost"} : records'[c] = Append(records[c], k)
<1>1. PICK k \in {kind, "lost"} : records' = [records EXCEPT ![c] = Append(@, k)]
  BY DEF Record
<1>2. records[c] \in Seq(RecordKinds) /\ k \in RecordKinds
  BY DEF RecordKinds
<1>3. Append(records[c], k) \in Seq(RecordKinds)
  BY <1>2
<1>4. QED
  BY <1>1, <1>3

LEMMA AuditSteps ==
    ASSUME AccessInv, [Next]_vars, \A c \in Clients : Ledger(c)
    PROVE  /\ effect' \in [Clients -> Effects]
           /\ records' \in [Clients -> Seq(RecordKinds)]
           /\ \A c \in Clients : Ledger(c)'
<1>t. /\ effect \in [Clients -> Effects]
      /\ records \in [Clients -> Seq(RecordKinds)]
      /\ cpc \in [Clients -> PCs]
  BY DEF AccessInv, TypeOK
<1> DEFINE Kept(d) == UNCHANGED <<cpc[d], effect[d], records[d]>>
           Fine    == /\ effect' \in [Clients -> Effects]
                      /\ records' \in [Clients -> Seq(RecordKinds)]
                      /\ \A c \in Clients : Ledger(c)'
<1>u. \A d \in Clients : Kept(d) => Ledger(d)'
  BY DEF Ledger
<1>1. CASE UNCHANGED <<cpc, effect, records>>
  BY <1>1, <1>t, <1>u
<1>2. ASSUME NEW c \in Clients, Arrive(c) \/ Continue(c)
      PROVE  Fine
  <2>a. Ledger(c)
    OBVIOUS
  <2>g. ASSUME NEW pc \in PCs, Goto(c, pc), UNCHANGED <<effect, records>>,
               Ledger(c)'
        PROVE  Fine
    BY <1>t, <1>u, <2>g DEF Goto
  <2>s. ASSUME NEW what \in {"moot", "changed"}, Does(c, what), Succeed(c),
               records[c] = <<>>
        PROVE  Fine
    <3>1. PICK k \in {"success", "lost"} : records'[c] = Append(records[c], k)
      BY <2>s, <1>t, Recording DEF Succeed
    <3>2. Ledger(c)'
      BY <2>s, <3>1, <1>t DEF Ledger, Does, Succeed, Return, Goto, Before
    <3>3. QED
      BY <2>s, <3>2, <1>t, <1>u, Recording DEF Does, Effects, Succeed, Return, Goto
  <2>k. ASSUME Succeed(c), UNCHANGED effect, effect[c] # "none", records[c] = <<>>
        PROVE  Fine
    <3>1. PICK k \in {"success", "lost"} : records'[c] = Append(records[c], k)
      BY <2>k, <1>t, Recording DEF Succeed
    <3>2. Ledger(c)'
      BY <2>k, <3>1, <1>t DEF Ledger, Succeed, Return, Goto, Before
    <3>3. QED
      BY <2>k, <3>2, <1>t, <1>u, Recording DEF Succeed, Return, Goto
  <2>f. ASSUME Fail(c), UNCHANGED effect, effect[c] # "none" \/ records[c] = <<>>
        PROVE  Fine
    <3>1. PICK k \in {"failure", "lost"} : records'[c] = Append(records[c], k)
      BY <2>f, <1>t, Recording DEF Fail
    <3>2. Ledger(c)'
      <4>1. CASE effect[c] # "none"
        <5>1. cpc'[c] = "log" /\ effect'[c] # "none"
          BY <2>f, <4>1, <1>t DEF Fail, Return, Goto
        <5>2. records[c] \in Seq(RecordKinds) /\ k \in RecordKinds
          BY <1>t DEF RecordKinds
        <5>3. records'[c] # <<>>
          BY <3>1, <5>2
        <5>4. QED
          BY <5>1, <5>3 DEF Ledger, Before
      <4>2. CASE records[c] = <<>>
        BY <2>f, <3>1, <4>2, <1>t DEF Ledger, Fail, Return, Goto, Before
      <4>3. QED
        BY <2>f, <4>1, <4>2
    <3>3. QED
      BY <2>f, <3>2, <1>t, <1>u, Recording DEF Fail, Return, Goto
  <2>r. ASSUME Refuse(c)
        PROVE  Fine
    BY <2>r, <2>f, <2>a DEF Refuse, Ledger, Before, PCs
  <2>c. ASSUME NEW pc \in Before \cup {"log"}, NEW r, Call(c, pc, r)
        PROVE  Fine
    <3>1. Ledger(c)' /\ pc \in PCs
      BY <2>c, <2>a, <1>t DEF Call, auditVars, Goto, Ledger, Before, PCs
    <3>2. QED
      BY <2>c, <2>g, <3>1 DEF Call, auditVars
  <2>1. CASE Reject(c) \/ OpCall(c)
    BY <2>1, <2>c DEF Reject, OpCall, Before, PCs
  <2>2. CASE CreateFind(c) \/ UpdateFind(c) \/ StatusFind(c) \/ DeleteFind(c)
    BY <2>2, <2>c, <2>r DEF CreateFind, UpdateFind, StatusFind, DeleteFind, Before, PCs
  <2>3. CASE LoginFind(c)
    <3>1. CASE Fail(c)
      BY <2>3, <3>1, <2>f, <2>a DEF LoginFind, Ledger, Before, PCs
    <3>2. CASE Goto(c, "login_issue") /\ UNCHANGED records
      <4>1. Ledger(c)' /\ "login_issue" \in PCs
        BY <2>3, <3>2, <2>a, <1>t DEF LoginFind, Goto, Ledger, Before, PCs
      <4>2. QED
        BY <2>3, <3>2, <2>g, <4>1 DEF LoginFind
    <3>3. QED
      BY <2>3, <3>1, <3>2 DEF LoginFind
  <2>e. ASSUME Return(c), UNCHANGED <<effect, records>>, cpc[c] \in Before
        PROVE  Fine
    <3>1. Ledger(c)' /\ "log" \in PCs
      BY <2>e, <2>a, <1>t DEF Return, Goto, Ledger, Before, PCs
    <3>2. QED
      BY <2>e, <2>g, <3>1 DEF Return
  <2>4. CASE CreateInsert(c) \/ StatusWrite(c) \/ OpWrite(c) \/ DeleteWrite(c)
    BY <2>4, <2>s, <2>f, <2>a
       DEF CreateInsert, StatusWrite, OpWrite, DeleteWrite, Takes, Ledger, Before, PCs
  <2>12. CASE LoginIssue(c)
    BY <2>12, <2>s, <2>e, <2>a DEF LoginIssue, auditVars, Takes, Ledger, Before, PCs
  <2>5. CASE UpdateWrite(c)
    <3>1. CASE Fail(c) /\ UNCHANGED effect
      BY <2>5, <3>1, <2>f, <2>a DEF UpdateWrite, Ledger, Before, PCs
    <3>2. ASSUME NEW what \in {"moot", "changed"}, Does(c, what),
                 Goto(c, "update_read"), UNCHANGED records
          PROVE  Fine
      <4>1. Ledger(c)'
        BY <2>5, <3>2, <2>a, <1>t DEF UpdateWrite, Does, Goto, Ledger, Before, PCs
      <4>2. QED
        BY <3>2, <4>1, <1>t, <1>u DEF Does, Effects, Goto
    <3>3. QED
      BY <2>5, <3>1, <3>2 DEF UpdateWrite, Takes
  <2>6. CASE UpdateRead(c)
    BY <2>6, <2>k, <2>f, <2>a DEF UpdateRead, Ledger
  <2>7. CASE HardenWrite(c)
    <3>1. CASE UNCHANGED effect /\ Fail(c)
      BY <2>7, <3>1, <2>f, <2>a DEF HardenWrite, Ledger, Before, PCs
    <3>2. CASE Takes(c) /\ Record(c, "success") /\ Goto(c, "harden_read")
      <4>1. PICK k \in {"success", "lost"} : records'[c] = Append(records[c], k)
        BY <3>2, <1>t, Recording
      <4>2. records[c] = <<>>
        BY <2>7, <2>a DEF HardenWrite, Ledger, Before, PCs
      <4>3. Ledger(c)'
        BY <3>2, <4>1, <4>2, <1>t DEF Takes, Does, Goto, Ledger, Before
      <4>4. QED
        BY <3>2, <4>3, <1>t, <1>u, Recording DEF Takes, Does, Effects, Goto
    <3>3. QED
      BY <2>7, <3>1, <3>2 DEF HardenWrite
  <2>8. CASE HardenRead(c)
    <3>1. CASE Return(c) /\ UNCHANGED records
      <4>1. Ledger(c)' /\ "log" \in PCs
        BY <2>8, <3>1, <2>a, <1>t DEF HardenRead, Return, Goto, Ledger, Before, PCs
      <4>2. QED
        BY <2>8, <3>1, <2>g, <4>1 DEF HardenRead, Return
    <3>2. QED
      BY <2>8, <3>1, <2>f, <2>a DEF HardenRead, Ledger
  <2>9. CASE Download(c)
    BY <2>9, <2>e, <2>s, <2>a DEF Download, Takes, Ledger, Before, PCs
  <2>10. CASE LogRequest(c)
    <3>1. Ledger(c)'
      BY <2>10, <1>t DEF LogRequest, Does, Goto, Ledger, Before
    <3>2. /\ effect' \in [Clients -> Effects]
          /\ \A d \in Clients \ {c} : Kept(d)
      BY <2>10, <1>t DEF LogRequest, Does, Effects, Goto
    <3>3. <<>> \in Seq(RecordKinds)
      OBVIOUS
    <3>4. records' \in [Clients -> Seq(RecordKinds)]
      BY <2>10, <3>3, <1>t DEF LogRequest
    <3>5. QED
      BY <3>1, <3>2, <3>4, <1>u
  <2>11. QED
    BY <1>2, <2>1, <2>2, <2>3, <2>4, <2>5, <2>6, <2>7, <2>8, <2>9, <2>10, <2>12
       DEF Arrive, Continue
<1>3. ASSUME NEW e \in Emails, Start(e)
      PROVE  Fine
  <2>1. \A S : <<>> \in Seq(S)
    OBVIOUS
  <2>2. records' \in [Clients -> Seq(RecordKinds)]
    BY <1>3, <2>1 DEF Start
  <2>3. QED
    BY <1>3, <2>2 DEF Start, Ledger, Before, Effects
<1>4. QED
  BY <1>1, <1>2, <1>3 DEF Next, vars, Expire, auditVars

-----------------------------------------------------------------------------
LEMMA AccessInit ==
    Init => /\ AccessInv /\ UniqueEmail
            /\ \A c \in Clients : Ledger(c)
<1> SUFFICES ASSUME Init
             PROVE  /\ AccessInv /\ UniqueEmail
                    /\ \A c \in Clients : Ledger(c)
  OBVIOUS
<1>1. \A S : <<>> \in Seq(S)
  OBVIOUS
<1>2. records \in [Clients -> Seq(RecordKinds)]
  BY <1>1 DEF Init
<1>3. TypeOK
  BY <1>2, AccessAssumption DEF Init, TypeOK, NoReq, PCs, Effects
<1>4. AdminsKnown /\ UniqueEmail
  BY DEF Init, AdminsKnown, UniqueEmail, Exists
<1>5. \A c \in Clients : Flight(c) /\ Ledger(c)
  BY DEF Init, Flight, Ledger, Before
<1>6. QED
  BY <1>3, <1>4, <1>5 DEF AccessInv

(* Whoever becomes an administrator is remembered.                          *)
LEMMA AdminSteps ==
    ASSUME AccessInv, RowStep, [Next]_vars
    PROVE  AdminsKnown'
<1>1. CASE UNCHANGED vars
  BY <1>1 DEF vars, userVars, AccessInv, AdminsKnown, Exists
<1>2. CASE RecordAdmins
  <2>1. \A u \in Users : Exists(u)' /\ role'[u] = "admin" => u \in wasAdmin'
    BY <1>2 DEF RecordAdmins, Exists
  <2>2. \A t \in tokens' : t.role = "admin" => t.user \in wasAdmin
    BY TokenSteps DEF AccessInv, AdminsKnown
  <2>3. QED
    BY <1>2, <2>1, <2>2 DEF RecordAdmins, AdminsKnown
<1>3. QED
  BY <1>1, <1>2 DEF Next

LEMMA AccessStep ==
    ASSUME AccessInv, [Next]_vars, \A c \in Clients : Ledger(c)
    PROVE  AccessInv'
<1>1. RowStep
  BY RowSteps
<1>2. CASE UNCHANGED vars
  BY <1>2 DEF vars, userVars, auditVars, AccessInv, TypeOK, AdminsKnown, Flight, Exists
<1>3. CASE Next
  <2>1. RequestTypes' /\ \A c \in Clients : Flight(c)'
    <3>1. CASE UNCHANGED <<cpc, req>>
      BY <1>1, <1>3, <3>1, FlightStays DEF Next, AccessInv, TypeOK, RequestTypes
    <3>2. ASSUME NEW c \in Clients, Arrive(c) \/ Continue(c)
          PROVE  RequestTypes' /\ \A d \in Clients : Flight(d)'
      BY <1>1, <1>3, <3>2, MoveSteps, FlightStays DEF Next
    <3>3. ASSUME NEW e \in Emails, Start(e)
          PROVE  RequestTypes' /\ \A d \in Clients : Flight(d)'
      BY <3>3 DEF Start, RequestTypes, NoReq, PCs, Flight
    <3>4. QED
      BY <1>3, <3>1, <3>2, <3>3 DEF Next, Expire
  <2>2. tokens' \subseteq Claims
    BY TokenSteps DEF AccessInv, TypeOK
  <2>3. wasAdmin' \subseteq Users
    BY <1>3 DEF Next, RecordAdmins, AccessInv, TypeOK
  <2>6. items' \subseteq Items
    BY <1>3 DEF Next, Start, Expire, Arrive, Continue, Reject, LoginFind, CreateFind,
                UpdateFind, StatusFind, OpCall, DeleteFind, Call, Refuse, LoginIssue,
                CreateInsert, UpdateWrite, UpdateRead, StatusWrite, OpWrite, DeleteWrite,
                HardenWrite, HardenRead, Download, LogRequest, AccessInv, TypeOK
  <2>4. TypeOK'
    BY <1>1, <2>1, <2>2, <2>3, <2>6, RowsStay, AuditSteps DEF TypeOK, RequestTypes
  <2>5. QED
    BY <1>1, <2>1, <2>4, AdminSteps DEF AccessInv
<1>4. QED
  BY <1>2, <1>3

(* The unique index keeps e-mails apart, whatever the lookups said.         *)
LEMMA EmailStep ==
    ASSUME AccessInv, RowStep, UniqueEmail
    PROVE  UniqueEmail'
<1>1. TypeOK
  BY DEF AccessInv
<1>2. CASE UNCHANGED userVars
  BY <1>2 DEF userVars, UniqueEmail, Exists
<1>3. ASSUME NEW u \in Users, NEW e \in Emails, NEW r \in Roles, Added(u, e, r)
      PROVE  UniqueEmail'
  BY <1>1, <1>3 DEF Added, Taken, Exists, UniqueEmail, TypeOK
<1>4. ASSUME NEW u \in Users, NEW r \in Roles, RoleSet(u, r)
      PROVE  UniqueEmail'
  BY <1>4 DEF RoleSet, UniqueEmail, Exists
<1>5. ASSUME NEW u \in Users, NEW s \in Statuses, StatusSet(u, s)
      PROVE  UniqueEmail'
  BY <1>1, <1>5 DEF StatusSet, UniqueEmail, Exists, TypeOK
<1>6. QED
  BY <1>2, <1>3, <1>4, <1>5 DEF RowStep

(* The three together are inductive.                                        *)
LEMMA AccessInvariance ==
    Spec => [](AccessInv /\ UniqueEmail /\ \A c \in Clients : Ledger(c))
<1>1. AccessInv /\ UniqueEmail /\ (\A c \in Clients : Ledger(c)) /\ [Next]_vars
        => (AccessInv /\ UniqueEmail /\ \A c \in Clients : Ledger(c))'
  BY RowSteps, AccessStep, EmailStep, AuditSteps
<1>2. QED
  BY AccessInit, <1>1, PTL DEF Spec

-----------------------------------------------------------------------------
(* Every variable keeps its type; in particular a request's target is a row *)
(* that exists and a token's role a role.                                   *)
THEOREM AccessTypeCorrect == Spec => []TypeOK
<1>1. AccessInv => TypeOK
  BY DEF AccessInv
<1>2. QED
  BY AccessInvariance, <1>1, PTL

(* No two accounts ever share an e-mail, for any number of concurrent       *)
(* Create requests, updates and restarts (UserRepository.Create).           *)
THEOREM UniqueEmailAlways == Spec => []UniqueEmail
  BY AccessInvariance, PTL

(* When a request is done, nothing has changed without an attempt to record *)
(* it, and a success is recorded only when all its statements succeeded; of *)
(* two overlapping deletions of one row the later one changed nothing.      *)
THEOREM AuditTruthfulAlways == Spec => []AuditTruthful
<1>1. (\A c \in Clients : Ledger(c)) => AuditTruthful
  BY DEF Ledger, AuditTruthful
<1>2. QED
  BY AccessInvariance, <1>1, PTL

(* A new administrator is a row inserted by a start of the server whose     *)
(* configured e-mail no account had, or was made by somebody who has been   *)
(* an administrator, though the middleware goes by the role in a token that *)
(* may be out of date.                                                      *)
THEOREM AdminsAreMadeAlways == Spec => AdminsAreMade
<1> DEFINE Made(u) ==
       \/ Start(email'[u]) /\ ~Exists(u) /\ ~Taken(email'[u])
       \/ \E c \in Clients : Asks(c)
<1>1. ASSUME AccessInv, [Next]_vars
      PROVE  [\A u \in wasAdmin' \ wasAdmin : Made(u)]_vars
  <2>1. CASE UNCHANGED vars
    BY <2>1
  <2>2. ASSUME Next, NEW u \in wasAdmin' \ wasAdmin
        PROVE  Made(u)
    <3>1. /\ u \in Users
          /\ status'[u] # "none" /\ role'[u] = "admin"
          /\ ~(Exists(u) /\ role[u] = "admin")
      BY <1>1, <2>2 DEF Next, RecordAdmins, AccessInv, AdminsKnown
    <3>2. CASE Asked
      BY <3>2 DEF Asked
    <3>3. CASE ~Asked
      <4>1. RowStep /\ TypeOK
        BY <1>1, RowSteps DEF AccessInv
      <4>2. ~UNCHANGED userVars
        BY <3>1 DEF userVars, Exists
      <4>3. ASSUME NEW v \in Users, NEW s \in Statuses, StatusSet(v, s)
            PROVE  FALSE
        BY <3>1, <4>1, <4>3 DEF StatusSet, Exists, TypeOK
      <4>4. PICK v \in Users, e \in Emails, r \in Roles : Added(v, e, r) /\ Start(e)
        BY <3>3, <4>1, <4>2, <4>3 DEF RowStep
      <4>5. u = v
        BY <3>1, <4>1, <4>4 DEF Added, Exists, TypeOK
      <4>6. QED
        BY <4>1, <4>4, <4>5 DEF Added, TypeOK
    <3>4. QED
      BY <3>2, <3>3
  <2>3. QED
    BY <1>1, <2>1, <2>2
<1>2. QED
  BY <1>1, AccessInvariance, PTL DEF Spec, AdminsAreMade
=============================================================================
