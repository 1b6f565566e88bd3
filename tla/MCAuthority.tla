---------------------------- MODULE MCAuthority ----------------------------
(***************************************************************************)
(* Accounts, projects, groups, permissions, changes, reservations, labs    *)
(* and student work in one configuration.  focus says which part moves:    *)
(* the initial state chooses it, so the parts are explored side by side    *)
(* instead of multiplied, each with the steps that can disturb it.         *)
(***************************************************************************)
EXTENDS Learning, TLC

CONSTANTS
    Admin, Second, Third,      \* the three accounts
    Pupil,                     \* one more where administration is handed over
    Class,                     \* the group that exists from the start
    Other,                     \* one more where students work
    Lab2,                      \* a project a user owns from the start
    Node,                      \* the device
    Spare,                     \* one more where students work
    First,                     \* the client whose requests do not overlap
    MaxDisturb                 \* bound: steps of one focus, see Disturb

VARIABLES focus, disturbed

vars == <<accountVars, projectVars, accessVars, approvalVars, learningVars, focus, disturbed>>

LabSymmetry == Permutations(Labs)

Parts == {"overlap", "access", "projects", "changes", "operator", "booking", "study", "labs"}

Row(r) == [role |-> r, active |-> TRUE, tv |-> 0]

Rows(f) ==
    [u \in Users |->
        CASE u = Admin -> Row("ADMIN")
          [] u = Second -> Row(IF f \in {"projects", "operator"} THEN "OPERATOR" ELSE "TEACHER")
          [] u = Third -> Row(CASE f = "overlap" -> "TEACHER" [] f \in {"projects", "operator"} -> "VIEWER"
                                      [] OTHER -> "STUDENT")
          [] u = Pupil /\ f = "overlap" -> Row("STUDENT")
          [] OTHER -> Absent]

ClassRow(f) ==
    [teachers |-> {Second} \cup {Third : x \in {"overlap"} \cap {f}},
     students |-> IF f = "overlap" THEN {Pupil} ELSE {Third},
     devices |-> {Node}, archived |-> FALSE, auto |-> FALSE]
OtherRow == [teachers |-> {Second}, students |-> {Third}, devices |-> {Node, Spare},
             archived |-> FALSE, auto |-> FALSE]
NodeRow(f) == [env |-> IF f = "operator" THEN "pnetlab" ELSE "virtual", isolated |-> TRUE,
               project |-> IF f = "operator" THEN Lab2 ELSE DefaultLab,
               revision |-> 0, hashed |-> TRUE, deployable |-> TRUE]

Grant(u, issuer, parent, action, g, delegable) ==
    [user |-> u, issuer |-> issuer, parent |-> parent, action |-> action, group |-> g,
     device |-> None, env |-> None, starts |-> 0, expires |-> None,
     delegable |-> delegable, revoked |-> FALSE]

\* What the administrator gave the teacher, and the teacher the student.
Granted0 ==
    <<Grant(Second, Admin, 0, "config.create", Class, TRUE),
      Grant(Second, Admin, 0, "config.deploy", Class, TRUE),
      Grant(Second, Admin, 0, "device.read", Class, TRUE),
      Grant(Third, Second, 1, "config.create", Class, FALSE),
      Grant(Third, Second, 2, "config.deploy", Class, FALSE),
      Grant(Third, Second, 3, "device.read", Class, FALSE),
      Grant(Second, Admin, 0, "config.approve", Class, FALSE)>>

GrantedStudy ==
    <<Grant(Second, Admin, 0, "assignment.manage", Class, FALSE),
      Grant(Third, Admin, 0, "config.create", None, FALSE),
      Grant(Second, Admin, 0, "device.reserve", Class, FALSE),
      Grant(Third, Admin, 0, "ai.use", None, FALSE)>>

\* From the administrator to a teacher who stays one, and on to the pupil.
GrantedOn ==
    <<Grant(Third, Admin, 0, "config.create", Class, TRUE),
      Grant(Pupil, Third, 1, "config.create", Class, FALSE),
      Grant(Pupil, Admin, 0, "device.read", Class, FALSE)>>

GrantedLabs ==
    <<Grant(Second, Admin, 0, "lab.create", Class, FALSE),
      Grant(Second, Admin, 0, "lab.template", None, FALSE),
      Grant(Third, Admin, 0, "lab.start", Class, FALSE)>>

\* A lab the student may have from before.
LabRow0 == [owner |-> Third, group |-> Class, status |-> "stopped", time |-> "runs"]

Init ==
    /\ focus \in Parts /\ disturbed = 0
    /\ InitAccounts(Rows(focus))
    /\ project = [p \in Projects |->
         IF p = DefaultLab THEN LabRow
         ELSE IF p = Lab2 /\ focus # "projects"
         THEN [owner |-> Second, env |-> "pnetlab", ai |-> focus = "operator"] ELSE None]
    /\ member = [p \in Projects |-> NoMembers]
    /\ group = [g \in Groups |-> IF g = Class THEN ClassRow(focus)
                                 ELSE IF focus = "study" THEN OtherRow ELSE None]
    /\ device = [d \in Devices |-> IF d = Node \/ focus = "study" THEN NodeRow(focus) ELSE None]
    /\ suspended = {} /\ now = 0
    /\ grants = CASE focus = "changes" -> Granted0
                  [] focus \in {"study", "booking"} -> GrantedStudy
                  [] focus = "labs" -> GrantedLabs
                  [] focus = "overlap" -> GrantedOn
                  [] OTHER -> <<>>
    /\ invitation = [g \in Groups |-> {}]
    /\ joining = [x \in Groups \X Users |-> None]
    /\ InitApproval /\ InitStudy
    /\ \E old \in SUBSET Labs :
         /\ Cardinality(old) <= 1 /\ (old # {} => focus = "labs")
         /\ InitLabs([l \in Labs |-> IF l \in old THEN LabRow0 ELSE None],
                     [l \in Labs |-> IF l \in old THEN "stopped" ELSE None])

\* Requests on accounts that do not overlap.  While changes move, tokens do
\* not matter, and roles change by handing over the administration only.
Serial ==
    /\ \A c \in Clients \ {First} : request'[c] = None
    /\ focus \in {"changes", "operator"} =>
         /\ UNCHANGED token
         /\ request'[First] # None => disturbed' < MaxDisturb
         /\ LET r == request'[First]
            IN  r # None => r.move # None \/ \A u \in Users : r.writes[u].role = None

\* Longer chains of disturbances where nothing else moves; the limit of labs is
\* lowered once.
Disturb ==
    /\ disturbed < CASE focus \in {"access", "projects"} -> MaxDisturb + 1
                     [] focus = "labs" -> 1
                     [] OTHER -> MaxDisturb
    /\ disturbed' = disturbed + 1

\* What a request leaves as it was disturbs nothing.
Moves ==
    <<accountVars, projectVars, accessVars, approvalVars>>'
        # <<accountVars, projectVars, accessVars, approvalVars>>

\* While changes move, a request on an account is alone between its read and its
\* commit, and is begun only if it may still commit.
Quiet == \A c \in Clients : request[c] = None

Accounts0 ==
    AccountStep /\ Serial /\ account'[Pupil] = Absent
    /\ UNCHANGED <<projectVars, group, suspended, invitation, joining, device, now,
                   approvalVars, learningVars>>
Access0 ==
    /\ AccessStep
    /\ \A g \in Groups : group[g] = None => UNCHANGED <<group[g], invitation[g]>>
    /\ focus = "changes" => Quiet /\ UNCHANGED <<invitation, joining>>
    /\ UNCHANGED <<accountVars, projectVars, approvalVars, learningVars>>
Projects0(busy) ==
    ProjectNext(busy) /\ UNCHANGED <<accountVars, accessVars, approvalVars, learningVars>>
\* The administrator's own changes are explored next to those of an operator.
\* Two requests inside apply race in Deployment.
Changes0 ==
    /\ ChangeStep /\ Cardinality(applying') <= 1
    /\ focus = "changes" => \A i \in DOMAIN change' : change'[i].by # Admin
    /\ UNCHANGED <<accountVars, projectVars, learningVars>>
Settings0 ==
    /\ SettingStep /\ Quiet /\ policy'.labs = policy.labs
    /\ UNCHANGED <<accountVars, projectVars, learningVars>>

\* Before a change is asked for, nothing rests on rights: only policy moves.  Once it
\* is written or has ended, nothing rests on either.
Unwritten ==
    /\ \A i \in DOMAIN change : change[i].status \in {"pending_approval", "approved", "running"}
    /\ \A x \in applying : x.step # "writes"
Asked == change # <<>> /\ Unwritten

\* Two owners of labs are enough to tell a quota from the number of labs.  The time
\* of the student's labs runs out.  A reset is a stop that the deadline refuses.
TwoOwners ==
    /\ \A l \in Labs : lab'[l] # None => lab'[l].owner # Admin
    /\ \A l \in Labs : lab'[l] # None /\ lab'[l].time = "over" => lab'[l].owner = Third
    /\ \A c \in Clients : labWork'[c] # None /\ labWork'[c].step = "claim" =>
         labWork'[c].action # "reset"

\* The limit of labs moves while labs are asked for.
Limits0 ==
    /\ \E u \in Users, k \in LabLimits : UpdatePolicy(u, [policy EXCEPT !.labs = k])
    /\ UNCHANGED <<accountVars, projectVars, accessVars, learningVars>>

\* One assignment of the teacher's, one submission of it, one draft of the
\* administrator's, and quotas before any of them.
Coursework ==
    /\ Len(assignment') <= 1 /\ Len(submission') <= 1
    /\ \A i \in DOMAIN assignment' : assignment'[i].author = Second
    /\ \A i, j \in DOMAIN draft' : draft'[i].owner = Admin /\ draft'[j].owner = Admin => i = j
    /\ \A i \in DOMAIN draft' :
         draft'[i].owner = Admin => draft'[i].group = Class /\ draft'[i].device = Node
    /\ aiCalls' # aiCalls => draft = <<>> /\ assignment = <<>>

Steps(f) ==
    CASE f = "overlap" ->
           /\ \/ \E c \in Clients : CommitAccount(c)
              \/ (\E c \in Clients : BeginRequest(c) \/ CommitFails(c)) /\ UNCHANGED accessVars
           /\ \A c \in Clients : request'[c] # None => request'[c].writes[Pupil] = Kept
           /\ UNCHANGED <<projectVars, approvalVars, learningVars, disturbed>>
      [] f = "access" -> Disturb /\ (Accounts0 \/ Access0) /\ Moves
      [] f = "projects" -> Disturb /\ (Accounts0 \/ \E busy \in BOOLEAN : Projects0(busy)) /\ Moves
      [] f = "changes" -> \/ Changes0 /\ UNCHANGED disturbed
                          \/ Disturb /\ Settings0 /\ (Unwritten \/ change' # change) /\ Moves
                          \/ Asked /\ Disturb /\ (Accounts0 \/ Access0) /\ Moves
      [] f = "operator" -> \/ Changes0 /\ UNCHANGED disturbed
                           \/ Disturb /\ Settings0 /\ (Unwritten \/ change' # change) /\ Moves
                           \/ Asked /\ Disturb /\ (Accounts0 \/ (Quiet /\ Projects0(TRUE))) /\ Moves
      [] f = "booking" -> /\ ReserveStep /\ UNCHANGED <<accountVars, projectVars, learningVars>>
                          /\ UNCHANGED disturbed
      [] f = "study" -> /\ StudyStep /\ Coursework
                        /\ UNCHANGED <<accountVars, projectVars, accessVars, disturbed>>
      [] f = "labs" -> \/ /\ LabStep /\ TwoOwners
                          /\ UNCHANGED <<accountVars, projectVars, accessVars, disturbed>>
                       \/ Disturb /\ Limits0 /\ Moves

Next == Steps(focus) /\ UNCHANGED focus

Spec == Init /\ [][Next]_vars

-----------------------------------------------------------------------------
\* A token that still works carries the role its user has now ("changing any
\* of them logs the user out everywhere", auth/model.py:34), as long as the
\* requests on an account do not overlap.
TokenFitsRoleAlone == focus # "overlap" => TokenFitsRole

=============================================================================
