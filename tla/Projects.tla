------------------------------ MODULE Projects ------------------------------
(***************************************************************************)
(* Projects and the users they are shared with (projects/service.py,       *)
(* projects/routes.py, projects/scope.py).  A request is one step here.    *)
(***************************************************************************)
EXTENDS Accounts

CONSTANTS
    Projects,
    DefaultLab       \* the seeded project everybody may look at

VARIABLES
    project,         \* the row, or None
    member           \* project_members: the access of each user, or None

projectVars == <<project, member>>

Accesses == {"viewer", "editor"}

NoMembers == [u \in Users |-> None]

\* default_lab_id creates the lab on first use, and again once it is gone.
LabRow == [owner |-> None, env |-> "pnetlab", ai |-> FALSE]

\* access_level
AccessLevel(u, p) ==
    LET level == IF project[p].owner = u THEN "owner" ELSE member[p][u]
    IN  IF ~Acts(u) \/ project[p] = None THEN None
        ELSE IF IsRole(u, "ADMIN") THEN "owner"
        ELSE IF p = DefaultLab THEN "viewer"
        ELSE IF level # None /\ IsRole(u, "VIEWER") THEN "viewer"
        ELSE level

\* require_project, the comparison of ACCESS_RANK spelled out.
Viewer(u, p) == AccessLevel(u, p) # None
Editor(u, p) == AccessLevel(u, p) \in {"editor", "owner"}
Owner(u, p) == AccessLevel(u, p) = "owner"

\* change_project: roles scoped by group need no edit right on the project.
ChangeScope(u, p) ==
    IF account[u].role \in {"TEACHER", "STUDENT"} THEN Viewer(u, p) ELSE Editor(u, p)

-----------------------------------------------------------------------------
CreateProject(u, p, env) ==
    /\ Acts(u) /\ ~IsRole(u, "VIEWER") /\ project[p] = None
    /\ project' = [project EXCEPT ![p] = [owner |-> u, env |-> env, ai |-> FALSE]]
    /\ UNCHANGED member

\* ai and env are None when the request does not send them.
AiAllowed(p, env, ai) ==
    LET on == IF ai = None THEN project[p].ai ELSE ai
        place == IF env = None THEN project[p].env ELSE env
    IN  on => place = "pnetlab"

UpdateProject(u, p, env, ai) ==
    /\ Owner(u, p) /\ AiAllowed(p, env, ai)
    /\ project' = [project EXCEPT ![p] =
           [@ EXCEPT !.env = IF env = None THEN @ ELSE env,
                     !.ai = IF ai = None THEN @ ELSE ai]]
    /\ UNCHANGED member

\* busy: the project has a batch that is pending, approved or running.
DeleteProject(u, p, busy) ==
    /\ Owner(u, p) /\ ~busy
    /\ project' = [project EXCEPT ![p] = IF p = DefaultLab THEN LabRow ELSE None]
    /\ member' = [member EXCEPT ![p] = NoMembers]

\* The access share_project stores; access is None when it was not asked for.
Granted(by, u, access) ==
    IF IsRole(u, "VIEWER") THEN "viewer"
    ELSE IF access # None THEN access
    ELSE IF IsRole(by, "OPERATOR") /\ IsRole(u, "OPERATOR") THEN "editor"
    ELSE "viewer"

ShareProject(by, p, u, access) ==
    /\ Owner(by, p) /\ Acts(u) /\ u # project[p].owner
    /\ IsRole(by, "OPERATOR") => account[u].role \in {"VIEWER", "OPERATOR"}
    /\ member' = [member EXCEPT ![p][u] = Granted(by, u, access)]
    /\ UNCHANGED project

UpdateMember(by, p, u, access) ==
    /\ Owner(by, p) /\ member[p][u] # None
    /\ member' = [member EXCEPT ![p][u] = access]
    /\ UNCHANGED project

LeaveProject(u, p) ==
    /\ Viewer(u, p) /\ member[p][u] # None
    /\ member' = [member EXCEPT ![p][u] = None]
    /\ UNCHANGED project

RemoveMember(by, p, u) ==
    /\ Owner(by, p) /\ member[p][u] # None
    /\ member' = [member EXCEPT ![p][u] = None]
    /\ UNCHANGED project

Environments == {"pnetlab", "physical", "mixed"}

ProjectNext(busy) ==
    \E u \in Users, p \in Projects :
        \/ \E env \in Environments : CreateProject(u, p, env)
        \/ \E env \in Environments \cup {None}, ai \in BOOLEAN \cup {None} :
               UpdateProject(u, p, env, ai)
        \/ DeleteProject(u, p, busy)
        \/ LeaveProject(u, p)
        \/ \E v \in Users :
            \/ RemoveMember(u, p, v)
            \/ \E a \in Accesses \cup {None} : ShareProject(u, p, v, a)
            \/ \E a \in Accesses : UpdateMember(u, p, v, a)

InitProjects ==
    /\ project = [p \in Projects |-> IF p = DefaultLab THEN LabRow ELSE None]
    /\ member = [p \in Projects |-> NoMembers]

=============================================================================
