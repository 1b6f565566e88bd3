------------------------------ MODULE Accounts ------------------------------
(***************************************************************************)
(* User accounts, their role and their access tokens (auth/, and the       *)
(* account routes of governance/routes.py).                                *)
(*                                                                         *)
(* A request that changes an account loads the rows, checks them and       *)
(* commits the columns it assigned.  SQLite runs each read on its own, so  *)
(* another request may commit in between: each client has one such request *)
(* at a time.                                                              *)
(***************************************************************************)
EXTENDS Naturals, FiniteSets

CONSTANTS
    Users,
    Clients,         \* account requests that may overlap
    None,            \* NULL, or a column that is not written
    MaxVersion       \* bound: token_version of an account

ASSUME AccountBounds == MaxVersion \in Nat

VARIABLES
    account,         \* users: role, is_active, token_version
    token,           \* a token each user holds: its claims tv and role
    request          \* what each client is about to write, or None

accountVars == <<account, token, request>>

Roles == {"ADMIN", "TEACHER", "STUDENT", "OPERATOR", "VIEWER"}

ASSUME AccountConstants ==
    /\ IsFiniteSet(Users)
    /\ None \notin Roles /\ None \notin Nat /\ None \notin BOOLEAN /\ None \notin Users \X Users

\* No row yet.
Absent == [role |-> None, active |-> FALSE, tv |-> 0]

IsRole(u, r) == account[u].role = r

\* actor, current_user: the row of a user who may act.
Acts(u) == account[u].active

\* roles_required("ADMIN") reads the row, not the claim.
IsAdmin(u) == Acts(u) /\ IsRole(u, "ADMIN")

-----------------------------------------------------------------------------
(* Columns to write: None where the request leaves a column alone. *)

Kept == [role |-> None, active |-> None, tv |-> None]

\* The value of a column, unless it equals what was read.
Differs(new, old) == IF new = old THEN None ELSE new

Write(u, r, a, bump) ==
    [role |-> Differs(r, account[u].role), active |-> Differs(a, account[u].active),
     tv |-> IF bump THEN account[u].tv + 1 ELSE None]

Written(row, w) ==
    [row EXCEPT !.role = IF w.role = None THEN @ ELSE w.role,
                !.active = IF w.active = None THEN @ ELSE w.active,
                !.tv = IF w.tv = None THEN @ ELSE w.tv]

\* move: the previous and the new administrator of a transfer, else None.
Begin(c, writes, move) ==
    /\ request[c] = None
    /\ \A u \in Users : writes[u].tv # None => writes[u].tv <= MaxVersion
    /\ request' = [request EXCEPT ![c] = [writes |-> writes, move |-> move]]
    /\ UNCHANGED <<account, token>>

Only(u, w) == [v \in Users |-> IF v = u THEN w ELSE Kept]

\* PATCH /api/users (governance)
PatchActive(c, a, u, enabled) ==
    /\ IsAdmin(a) /\ account[u] # Absent
    /\ IsRole(u, "ADMIN") => enabled
    /\ Begin(c, Only(u, Write(u, account[u].role, enabled, TRUE)), None)

\* _other_active_admins
OtherAdmins(u) == {v \in Users \ {u} : IsAdmin(v)}

\* _assert_no_admin(exclude_id=u)
NoAdminBut(u) == \A v \in Users \ {u} : ~IsRole(v, "ADMIN")

\* PUT /api/users (auth): role and active flag.
PutUser(c, a, u, r, enabled) ==
    /\ IsAdmin(a) /\ account[u] # Absent
    /\ IsAdmin(u) /\ ~(r = "ADMIN" /\ enabled) => u # a /\ OtherAdmins(u) # {}
    /\ u = a => enabled
    /\ r = "ADMIN" /\ ~IsRole(u, "ADMIN") => NoAdminBut(u)
    /\ LET w == Write(u, r, enabled, FALSE)
       IN  Begin(c, Only(u, IF w = Kept THEN w ELSE Write(u, r, enabled, TRUE)), None)

\* A transfer that leaves the tokens of the previous administrator alive.
HandOverQuietly(a, t) ==
    [u \in Users |->
        IF u = a THEN Write(a, "TEACHER", account[a].active, FALSE)
        ELSE IF u = t THEN Write(t, "ADMIN", account[t].active, TRUE) ELSE Kept]

HandOver(a, t) ==
    [u \in Users |->
        IF u = a THEN Write(a, "TEACHER", account[a].active, TRUE)
        ELSE IF u = t THEN Write(t, "ADMIN", account[t].active, TRUE) ELSE Kept]

TransferAdmin(c, a, t) ==
    /\ IsAdmin(a) /\ t # a /\ Acts(t) /\ IsRole(t, "TEACHER")
    /\ Begin(c, HandOver(a, t), <<a, t>>)

\* A new password: by an administrator, or by its owner.
ChangePassword(c, u) ==
    /\ Acts(u)
    /\ Begin(c, Only(u, Write(u, account[u].role, TRUE, TRUE)), None)

\* Without the index.
AnyAdmins(rows) == TRUE

\* The partial index uq_single_admin.
SingleAdmin(rows) == Cardinality({u \in Users : rows[u].role = "ADMIN"}) <= 1

AfterCommit(c) == [u \in Users |-> Written(account[u], request[c].writes[u])]

Commit(c) ==
    /\ request[c] # None /\ SingleAdmin(AfterCommit(c))
    /\ account' = AfterCommit(c)
    /\ request' = [request EXCEPT ![c] = None]
    /\ UNCHANGED token

\* IntegrityError: rolled back.
CommitFails(c) ==
    /\ request[c] # None /\ ~SingleAdmin(AfterCommit(c))
    /\ request' = [request EXCEPT ![c] = None]
    /\ UNCHANGED <<account, token>>

\* POST /api/users: an administrator creates any account, a teacher students;
\* may is the permission student.create of a teacher.
CreateUser(a, u, r, may) ==
    /\ account[u] = Absent
    /\ IsAdmin(a) \/ (Acts(a) /\ IsRole(a, "TEACHER") /\ r = "STUDENT" /\ may)
    /\ r = "ADMIN" => NoAdminBut(u)
    /\ account' = [account EXCEPT ![u] = [role |-> r, active |-> TRUE, tv |-> 0]]
    /\ UNCHANGED <<token, request>>

Login(u) ==
    /\ Acts(u)
    /\ token' = [token EXCEPT ![u] = [tv |-> account[u].tv, role |-> account[u].role]]
    /\ UNCHANGED <<account, request>>

\* is_token_revoked, negated
Valid(u) == token[u] # None /\ Acts(u) /\ token[u].tv = account[u].tv

InitAccounts(rows) ==
    /\ account = rows
    /\ token = [u \in Users |-> None]
    /\ request = [c \in Clients |-> None]

BeginRequest(c) ==
    \E a, u \in Users :
        \/ TransferAdmin(c, a, u)
        \/ \E on \in BOOLEAN : PatchActive(c, a, u, on)
        \/ \E on \in BOOLEAN, r \in Roles : PutUser(c, a, u, r, on)
        \/ a = u /\ ChangePassword(c, u)

AccountNext ==
    \/ \E c \in Clients : BeginRequest(c) \/ Commit(c) \/ CommitFails(c)
    \/ \E u \in Users : Login(u)
    \/ \E a, u \in Users, r \in Roles : CreateUser(a, u, r, TRUE)

-----------------------------------------------------------------------------
IsAccount(row) ==
    /\ row.role \in Roles \cup {None} /\ row.active \in BOOLEAN
    /\ row.tv \in 0..MaxVersion

AccountTypeOK ==
    /\ \A u \in Users : IsAccount(account[u])
    /\ \A u \in Users : token[u] # None => token[u].tv \in 0..MaxVersion

\* There is at most one administrator account, however requests overlap.
OneAdmin == \A u, v \in Users : IsRole(u, "ADMIN") /\ IsRole(v, "ADMIN") => u = v

\* Somebody can administer the system: "At least one active administrator
\* must remain." (auth/service.py:243)
AdminRemains == \E u \in Users : IsAdmin(u)

\* A token that still works was issued for the role its user has now
\* ("changing any of them logs the user out everywhere", auth/model.py:34).
TokenFitsRole == \A u \in Users : Valid(u) => token[u].role = account[u].role

=============================================================================
