------------------------------- MODULE Access -------------------------------
(***************************************************************************)
(* Groups, invitations and delegated permissions (governance/access.py,    *)
(* governance/routes.py, groups/).  Administrators grant permissions,      *)
(* teachers pass a delegable permission on to the students of a group.     *)
(***************************************************************************)
EXTENDS Projects, Sequences

CONSTANTS
    Groups, Devices,
    Actions,         \* the permissions that can be granted here
    Delays,          \* how long after now a new grant may start
    MaxGrants,       \* bound: rows of permission_grants
    MaxTime          \* bound: the clock

ASSUME AccessBounds == MaxGrants \in Nat /\ MaxTime \in Nat /\ Delays \subseteq Nat

VARIABLES
    group,           \* groups with their teachers, students and devices, or None
    suspended,       \* group_suspensions: pairs <<group, user>>
    grants,          \* permission_grants, by id
    invitation,      \* group_invitations: the expiry of each code not revoked
    joining,         \* group_join_requests: status of <<group, user>>, or None
    device,          \* environment and project of a device, or None
    now

accessVars == <<group, suspended, grants, invitation, joining, device, now>>

DeviceEnvironments == {"virtual", "physical_lab", "production"}
StudentForbidden == {"student.create", "group.create", "config.approve",
                     "assignment.manage", "lab.template", "lab.delete"}
TeacherDefault == {"student.create", "group.create"}

-----------------------------------------------------------------------------
(* Who belongs to a group, and which permissions are live. *)

GroupMember(u, g) ==
    /\ Acts(u) /\ group[g] # None /\ ~group[g].archived
    /\ \/ IsRole(u, "ADMIN")
       \/ /\ u \in IF IsRole(u, "TEACHER") THEN group[g].teachers ELSE group[g].students
          /\ <<g, u>> \notin suspended

\* require_group(manage=False) and (manage=True)
InGroup(u, g) == Acts(u) /\ group[g] # None /\ (IsRole(u, "ADMIN") \/ GroupMember(u, g))
Manages(u, g) == InGroup(u, g) /\ account[u].role \in {"ADMIN", "TEACHER"}

Covers(gr, g, d, env) ==
    /\ gr.group \in {None, g} /\ gr.device \in {None, d} /\ gr.env \in {None, env}

Within(expires, limit) == limit # None => expires # None /\ expires <= limit

\* The conditions of live on the grant itself.
Stands(gr) ==
    /\ ~gr.revoked /\ gr.starts <= now /\ (gr.expires # None => gr.expires > now)
    /\ Acts(gr.user) /\ Acts(gr.issuer)
    /\ gr.group # None =>
        /\ GroupMember(gr.user, gr.group)
        /\ account[gr.issuer].role \in {"ADMIN", "TEACHER"}
        /\ GroupMember(gr.issuer, gr.group) \/ IsRole(gr.issuer, "ADMIN")

\* ... and on the grant it was delegated from.
Backed(gr, parent) ==
    /\ parent.user = gr.issuer /\ parent.delegable /\ parent.action = gr.action
    /\ Covers(parent, gr.group, gr.device, gr.env) /\ Within(gr.expires, parent.expires)

\* Looks at the parent row, not at whether the parent is still live.
OnceBacked(gr, parent, live) == Backed(gr, parent)

StillBacked(gr, parent, live) == live /\ Backed(gr, parent)

Live(i) ==
    LET alive[j \in 1..i] ==
            LET gr == grants[j]
            IN  /\ Stands(gr)
                /\ IF gr.parent = 0 THEN IsRole(gr.issuer, "ADMIN")
                   ELSE StillBacked(gr, grants[gr.parent], alive[gr.parent])
    IN  alive[i]

EnvOf(d) == IF d = None THEN None ELSE device[d].env

\* The groups through which u may act on g or d.
Scopes(u, g, d) ==
    IF g # None THEN {h \in {g} : GroupMember(u, h) /\ (d = None \/ d \in group[h].devices)}
    ELSE IF d # None THEN {h \in Groups : GroupMember(u, h) /\ d \in group[h].devices}
    ELSE {None}

Holds(u, i, action) == grants[i].user = u /\ grants[i].action = action /\ Live(i)

Permitted(u, action, g, d) ==
    /\ Acts(u)
    /\ \/ IsRole(u, "ADMIN")
       \/ /\ account[u].role \in {"OPERATOR", "VIEWER"} /\ action = "device.read"
          /\ d # None /\ Viewer(u, device[d].project)
       \/ IsRole(u, "TEACHER") /\ action \in TeacherDefault
       \/ /\ account[u].role \in {"TEACHER", "STUDENT"}
          /\ IsRole(u, "STUDENT") => action \notin StudentForbidden
          /\ \E i \in DOMAIN grants, s \in Scopes(u, g, d) :
                 Holds(u, i, action) /\ Covers(grants[i], s, d, EnvOf(d))

-----------------------------------------------------------------------------
(* Permissions. *)

\* The first grant of the issuer this one may be delegated from, 0 if none.
ParentOf(gr) ==
    LET fits == {i \in DOMAIN grants :
                   /\ Holds(gr.issuer, i, gr.action) /\ grants[i].delegable
                   /\ Covers(grants[i], gr.group, gr.device, gr.env)
                   /\ Within(gr.expires, grants[i].expires) /\ grants[i].starts <= gr.starts}
    IN  IF fits = {} THEN 0 ELSE CHOOSE i \in fits : \A j \in fits : i <= j

Teaches(gr) ==
    /\ IsRole(gr.issuer, "TEACHER") /\ IsRole(gr.user, "STUDENT")
    /\ gr.group # None /\ ~gr.delegable /\ ParentOf(gr) # 0

\* POST /api/permissions
IssueGrant(gr) ==
    /\ Len(grants) < MaxGrants
    /\ Acts(gr.issuer) /\ Acts(gr.user) /\ account[gr.user].role \in {"TEACHER", "STUDENT"}
    /\ IsRole(gr.user, "STUDENT") => gr.action \notin StudentForbidden
    /\ gr.group # None => Manages(gr.issuer, gr.group) /\ GroupMember(gr.user, gr.group)
    /\ gr.device # None =>
        /\ gr.group # None /\ device[gr.device] # None /\ gr.device \in group[gr.group].devices
        /\ gr.env \in {None, device[gr.device].env}
    /\ gr.expires # None => gr.expires > gr.starts /\ gr.expires > now
    /\ IsRole(gr.issuer, "ADMIN") \/ Teaches(gr)
    /\ grants' = Append(grants,
           [gr EXCEPT !.parent = IF IsRole(gr.issuer, "ADMIN") THEN 0 ELSE ParentOf(gr)])
    /\ UNCHANGED <<group, suspended, invitation, joining, device, now>>

Revoked(hit) == [i \in DOMAIN grants |-> [grants[i] EXCEPT !.revoked = @ \/ i \in hit]]
OfGroup(g) == {i \in DOMAIN grants : grants[i].group = g}

RevokeGrant(u, i) ==
    /\ Acts(u)
    /\ IsRole(u, "ADMIN") \/ (/\ IsRole(u, "TEACHER") /\ grants[i].issuer = u
                              /\ grants[i].group # None /\ Manages(u, grants[i].group))
    /\ grants' = [grants EXCEPT ![i].revoked = TRUE]
    /\ UNCHANGED <<group, suspended, invitation, joining, device, now>>

\* The transfer of administration takes its root grants along: parent_id=None.
KeepGrants(c) == grants

ReissueGrants(c) ==
    LET move == request[c].move
    IN  [i \in DOMAIN grants |->
           IF move # None /\ grants[i].issuer = move[1] /\ grants[i].parent = 0
           THEN [grants[i] EXCEPT !.issuer = move[2]] ELSE grants[i]]

CommitAccount(c) ==
    /\ Commit(c)
    /\ grants' = ReissueGrants(c)
    /\ UNCHANGED <<group, suspended, invitation, joining, device, now>>

-----------------------------------------------------------------------------
(* Groups. *)

GroupWrite(g, row) ==
    /\ group' = [group EXCEPT ![g] = row]
    /\ UNCHANGED <<suspended, invitation, joining, device, now>>

CreateGroup(u, g) ==
    /\ group[g] = None /\ Permitted(u, "group.create", None, None)
    /\ GroupWrite(g, [teachers |-> IF IsRole(u, "TEACHER") THEN {u} ELSE {}, students |-> {},
                      devices |-> {}, archived |-> FALSE, auto |-> FALSE])
    /\ UNCHANGED grants

ArchiveGroup(u, g, archived) ==
    /\ Manages(u, g)
    /\ GroupWrite(g, [group[g] EXCEPT !.archived = archived])
    /\ UNCHANGED grants

TransferGroup(u, g, teacher) ==
    /\ IsAdmin(u) /\ group[g] # None /\ Acts(teacher) /\ IsRole(teacher, "TEACHER")
    /\ GroupWrite(g, [group[g] EXCEPT !.teachers = {teacher}])
    /\ UNCHANGED grants

SetAutoApprove(u, g, enabled) ==
    /\ Manages(u, g) /\ Permitted(u, "config.approve", g, None)
    /\ IsRole(u, "TEACHER") => u \in group[g].teachers
    /\ GroupWrite(g, [group[g] EXCEPT !.auto = enabled])
    /\ UNCHANGED grants

AllocateDevice(u, g, d) ==
    /\ IsAdmin(u) /\ group[g] # None /\ device[d] # None
    /\ GroupWrite(g, [group[g] EXCEPT !.devices = @ \cup {d}])
    /\ UNCHANGED grants

DeallocateDevice(u, g, d) ==
    /\ IsAdmin(u) /\ group[g] # None
    /\ GroupWrite(g, [group[g] EXCEPT !.devices = @ \ {d}])
    /\ grants' = Revoked({i \in OfGroup(g) : grants[i].device = d})

AddMember(u, g, s) ==
    /\ Manages(u, g) /\ Acts(s) /\ IsRole(s, "STUDENT")
    /\ GroupWrite(g, [group[g] EXCEPT !.students = @ \cup {s}])
    /\ UNCHANGED grants

\* A student leaves, or is removed.
RemoveStudent(u, g, s) ==
    /\ IF u = s THEN InGroup(u, g) ELSE Manages(u, g)
    /\ GroupWrite(g, [group[g] EXCEPT !.students = @ \ {s}])
    /\ grants' = Revoked({i \in OfGroup(g) : grants[i].user = s})

SuspendMember(u, g, s, on) ==
    /\ Manages(u, g) /\ s \in group[g].students
    /\ suspended' = IF on THEN suspended \cup {<<g, s>>} ELSE suspended \ {<<g, s>>}
    /\ UNCHANGED <<group, grants, invitation, joining, device, now>>

-----------------------------------------------------------------------------
(* Invitations.  A code is good for one tick of the clock (seven days). *)

Invite(u, g) ==
    /\ Manages(u, g)
    /\ invitation' = [invitation EXCEPT ![g] = @ \cup {now + 1}]
    /\ UNCHANGED <<group, suspended, grants, joining, device, now>>

RevokeInvitation(u, g) ==
    /\ Manages(u, g)
    /\ \E code \in invitation[g] : invitation' = [invitation EXCEPT ![g] = @ \ {code}]
    /\ UNCHANGED <<group, suspended, grants, joining, device, now>>

Join(s, g) ==
    /\ Acts(s) /\ IsRole(s, "STUDENT")
    /\ (\E code \in invitation[g] : code > now) /\ ~group[g].archived
    /\ joining' = [joining EXCEPT ![<<g, s>>] = "pending"]
    /\ UNCHANGED <<group, suspended, grants, invitation, device, now>>

ReviewJoin(u, g, s, accepted) ==
    /\ Manages(u, g) /\ joining[<<g, s>>] = "pending" /\ Acts(s)
    /\ joining' = [joining EXCEPT ![<<g, s>>] = IF accepted THEN "accepted" ELSE "rejected"]
    /\ group' = [group EXCEPT ![g].students = IF accepted THEN @ \cup {s} ELSE @]
    /\ UNCHANGED <<suspended, grants, invitation, device, now>>

Tick ==
    /\ now < MaxTime /\ now' = now + 1
    /\ UNCHANGED <<group, suspended, grants, invitation, joining, device>>

-----------------------------------------------------------------------------
NewGrants ==
    [user : Users, issuer : Users, parent : {0}, action : Actions, group : Groups \cup {None},
     device : Devices \cup {None}, env : {None, "virtual"}, starts : {now + n : n \in Delays},
     expires : {None, now + 1}, delegable : BOOLEAN, revoked : {FALSE}]

GroupStep(u, g) ==
    \/ CreateGroup(u, g)
    \/ \E on \in BOOLEAN : ArchiveGroup(u, g, on) \/ SetAutoApprove(u, g, on)
    \/ \E d \in Devices : AllocateDevice(u, g, d) \/ DeallocateDevice(u, g, d)
    \/ Invite(u, g) \/ RevokeInvitation(u, g) \/ Join(u, g)
    \/ \E s \in Users :
        \/ TransferGroup(u, g, s) \/ AddMember(u, g, s) \/ RemoveStudent(u, g, s)
        \/ \E on \in BOOLEAN : SuspendMember(u, g, s, on) \/ ReviewJoin(u, g, s, on)

\* The account steps with what they do to the grants.
AccountStep ==
    \/ \E c \in Clients : CommitAccount(c)
    \/ /\ \/ \E c \in Clients : BeginRequest(c) \/ CommitFails(c)
          \/ \E u \in Users : Login(u)
          \/ \E a, u \in Users, r \in {"TEACHER", "STUDENT"} :
                 CreateUser(a, u, r, Permitted(a, "student.create", None, None))
       /\ UNCHANGED accessVars

AccessStep ==
    \/ Len(grants) < MaxGrants /\ \E gr \in NewGrants : IssueGrant(gr)
    \/ \E u \in Users, i \in DOMAIN grants : RevokeGrant(u, i)
    \/ \E u \in Users, g \in Groups : GroupStep(u, g)
    \/ Tick

InitAccess(groups, devices) ==
    /\ group = groups /\ device = devices
    /\ suspended = {} /\ grants = <<>> /\ now = 0
    /\ invitation = [g \in Groups |-> {}]
    /\ joining = [x \in Groups \X Users |-> None]

-----------------------------------------------------------------------------
\* A permission a teacher handed on works only while the teacher has it in the
\* same scope: revoking, expiring, suspending or archiving anywhere up the
\* chain reaches the student (governance/access.py:69).
WithinIssuer ==
    \A i \in DOMAIN grants :
        LET gr == grants[i]
        IN  Live(i) /\ IsRole(gr.issuer, "TEACHER") =>
              \A d \in group[gr.group].devices \cup {None} :
                 Covers(gr, gr.group, d, EnvOf(d)) =>
                     Permitted(gr.issuer, gr.action, gr.group, d)

Lost(i) == Live(i) /\ ~Live(i)'

\* A handover to an account that may act takes permissions only from people whose own
\* accounts it changes and from those they handed them on to, whatever other requests
\* on accounts overlap with it: "Root grants remain platform-owned when administrator
\* ownership changes." (governance/routes.py:130)  When the new administrator was
\* disabled meanwhile, AdminRemains fails and with it every root.
TransferKeepsGrants ==
    [][(\E u \in Users : IsRole(u, "ADMIN") /\ account'[u].role = "TEACHER") /\ AdminRemains' =>
         \A i \in DOMAIN grants : Lost(i) =>
           \/ account'[grants[i].user] # account[grants[i].user]
           \/ /\ grants[i].parent # 0
              /\ \/ account'[grants[i].issuer] # account[grants[i].issuer]
                 \/ Lost(grants[i].parent)]_<<account, grants>>

=============================================================================
