------------------------------ MODULE Learning ------------------------------
(***************************************************************************)
(* Drafts, assignments, submissions, labs and the daily AI quota           *)
(* (governance/learning.py, governance/quotas.py).  Lab requests call a    *)
(* provider outside the program and overlap; the others are one step.      *)
(***************************************************************************)
EXTENDS Approval

CONSTANTS
    Labs,            \* identifiers of labs
    AiLimit,         \* policy.ai_daily_limit
    MaxRecords       \* bound: drafts, assignments and submissions

ASSUME LearningBounds == AiLimit \in Nat /\ MaxRecords \in Nat

LabStatuses == {"provisioning", "running", "stopped", "busy", "failed", "deleted"}
LabRows == [owner : Users, group : Groups, status : LabStatuses,
            time : {"runs", "over"}]

ASSUME LearningConstants ==
    IsFiniteSet(Labs) /\ None \notin Clients /\ None \notin LabRows

VARIABLES
    draft,           \* config_drafts with their versions
    assignment,      \* assignments
    submission,      \* assignment_submissions
    lab,             \* labs: owner, group, status and runtime, or None
    labWork,         \* what each client is doing with a lab, or None
    infra,           \* the provider: what runs for each lab
    aiCalls          \* daily_usage of today

learningVars == <<draft, assignment, submission, lab, labWork, infra, aiCalls>>

-----------------------------------------------------------------------------
(* Drafts, assignments and submissions. *)

CreateDraft(u, g, d, c) ==
    /\ Len(draft) < MaxRecords
    /\ InGroup(u, g) /\ device[d] # None /\ Permitted(u, "config.create", g, d)
    /\ draft' = Append(draft, [owner |-> u, group |-> g, device |-> d, versions |-> <<c>>])
    /\ UNCHANGED <<assignment, submission, lab, labWork, infra, aiCalls>>

\* Any draft of the group.
GroupDraft(u, i) ==
    /\ InGroup(u, draft[i].group)
    /\ Permitted(u, "config.create", draft[i].group, draft[i].device)

\* own_draft
OwnDraft(u, i) ==
    /\ InGroup(u, draft[i].group)
    /\ IsRole(u, "ADMIN") \/ draft[i].owner = u
    /\ Permitted(u, "config.create", draft[i].group, draft[i].device)

VersionDraft(u, i, c) ==
    /\ Len(draft[i].versions) < MaxRecords /\ OwnDraft(u, i)
    /\ draft' = [draft EXCEPT ![i].versions = Append(@, c)]
    /\ UNCHANGED <<assignment, submission, lab, labWork, infra, aiCalls>>

\* prefixes: the commands an assignment allows, all of them when empty.
CreateAssignment(u, g, d, due, prefixes) ==
    /\ Len(assignment) < MaxRecords /\ due > now
    /\ Manages(u, g) /\ device[d] # None /\ Permitted(u, "assignment.manage", g, d)
    /\ assignment' = Append(assignment, [author |-> u, group |-> g, device |-> d,
                                         starts |-> now, due |-> due, allowed |-> prefixes])
    /\ UNCHANGED <<draft, submission, lab, labWork, infra, aiCalls>>

Allows(a, c) == a.allowed = {} \/ c \in a.allowed

\* check_assignment
OpenFor(a, ch) ==
    /\ a.group = ch.group /\ a.device = ch.device
    /\ a.starts <= now /\ now < a.due /\ Allows(a, ch.cmd)

Submit(u, a, i, v) ==
    LET target == assignment[a]
    IN  /\ Len(submission) < MaxRecords
        /\ Acts(u) /\ IsRole(u, "STUDENT") /\ InGroup(u, target.group)
        /\ OwnDraft(u, i)
        /\ OpenFor(target, [group |-> draft[i].group, device |-> draft[i].device,
                            cmd |-> draft[i].versions[v]])
        /\ submission' = Append(submission, [by |-> u, assignment |-> a, draft |-> i,
                                             version |-> v, score |-> None])
        /\ UNCHANGED <<draft, assignment, lab, labWork, infra, aiCalls>>

Grade(u, s, score) ==
    LET a == assignment[submission[s].assignment]
    IN  /\ Manages(u, a.group) /\ Permitted(u, "assignment.manage", a.group, a.device)
        /\ submission' = [submission EXCEPT ![s].score = score]
        /\ UNCHANGED <<draft, assignment, lab, labWork, infra, aiCalls>>

\* reject writes a status the CHECK constraint of change_requests refuses, so
\* the request ends in an IntegrityError and nothing is stored.
Reject(u, i) ==
    /\ change[i].status = "pending_approval" /\ ApproveAllowed(change[i], u)
    /\ UNCHANGED learningVars

\* consume_ai: one conditional UPDATE.
ConsumeAi(u) ==
    /\ Acts(u)
    /\ account[u].role \in {"OPERATOR", "VIEWER"} \/ Permitted(u, "ai.use", None, None)
    /\ aiCalls[u] < AiLimit
    /\ aiCalls' = [aiCalls EXCEPT ![u] = @ + 1]
    /\ UNCHANGED <<draft, assignment, submission, lab, labWork, infra>>

-----------------------------------------------------------------------------
(* Labs: create_lab. *)

LabsOf(u) == {l \in Labs : lab[l] # None /\ lab[l].owner = u /\ lab[l].status # "deleted"}

Doing(c, work) == labWork' = [labWork EXCEPT ![c] = work]

\* The checks, of a template that is enabled and allocated to the user, then
\* the no-op UPDATE of the owner's row.
LabRequest(c, u, g, owner) ==
    /\ labWork[c] = None /\ Free(c)
    /\ Manages(u, g) /\ InGroup(owner, g)
    /\ Permitted(u, "lab.create", g, None) /\ Permitted(u, "lab.template", None, None)
    /\ writer' = c
    /\ Doing(c, [step |-> "count", owner |-> owner, group |-> g])
    /\ UNCHANGED <<draft, assignment, submission, lab, infra, aiCalls>>

LabCount(c) ==
    /\ labWork[c] # None /\ labWork[c].step = "count"
    /\ IF Cardinality(LabsOf(labWork[c].owner)) >= policy.labs
       THEN Doing(c, None) /\ writer' = None
       ELSE Doing(c, [labWork[c] EXCEPT !.step = "insert"]) /\ UNCHANGED writer
    /\ UNCHANGED <<draft, assignment, submission, lab, infra, aiCalls>>

\* What the provider, which is told the deadline, lets a lab be once it is over.
Ended(state) == IF state = "running" THEN "stopped" ELSE state

\* expires_at passes: the provider stops the lab.  The row keeps its status, and
\* can only not be started again.
LabExpires(l) ==
    /\ lab[l] # None /\ lab[l].time = "runs"
    /\ lab' = [lab EXCEPT ![l].time = "over"]
    /\ infra' = [infra EXCEPT ![l] = Ended(@)]
    /\ UNCHANGED <<draft, assignment, submission, labWork, aiCalls, writer>>

LabInsert(c, l) ==
    /\ labWork[c] # None /\ labWork[c].step = "insert" /\ lab[l] = None
    /\ lab' = [lab EXCEPT ![l] = [owner |-> labWork[c].owner, group |-> labWork[c].group,
                                  status |-> "provisioning", time |-> "runs"]]
    /\ Doing(c, [step |-> "provision", lab |-> l, action |-> "stop"])
    /\ writer' = None
    /\ UNCHANGED <<draft, assignment, submission, infra, aiCalls>>

-----------------------------------------------------------------------------
(* lab_action. *)

LabActions == {"start", "stop", "reset", "delete"}
StatusAfter(action) ==
    CASE action = "start" -> "running" [] action = "delete" -> "deleted" [] OTHER -> "stopped"

ActionRead(c, u, l, action) ==
    /\ labWork[c] = None /\ lab[l] # None
    /\ InGroup(u, lab[l].group) /\ Permitted(u, "lab." \o action, lab[l].group, None)
    /\ IsRole(u, "STUDENT") => lab[l].owner = u
    /\ action \in {"start", "reset"} => lab[l].time = "runs"
    /\ lab[l].status \in {"running", "stopped"}
    /\ Doing(c, [step |-> "claim", lab |-> l, action |-> action])
    /\ UNCHANGED <<draft, assignment, submission, lab, infra, aiCalls, writer>>

\* UPDATE ... WHERE status IN (running, stopped), and its row count.
ClaimAny(l) == TRUE
Claimable(l) == lab[l].status \in {"running", "stopped"}

ActionClaim(c) ==
    /\ labWork[c] # None /\ labWork[c].step = "claim" /\ Free(c)
    /\ LET l == labWork[c].lab
       IN  IF Claimable(l)
           THEN /\ lab' = [lab EXCEPT ![l].status = "busy"]
                /\ Doing(c, [labWork[c] EXCEPT !.step = "provision"])
           ELSE /\ lab' = lab
                /\ Doing(c, None)
    /\ UNCHANGED <<draft, assignment, submission, infra, aiCalls, writer>>

\* The provider call; done tells whether it took effect.  A lab started at the last
\* moment is stopped at its deadline too.
Reached(time, action) ==
    IF time = "over" THEN Ended(StatusAfter(action)) ELSE StatusAfter(action)

Provide(c, done) ==
    /\ labWork[c] # None /\ labWork[c].step = "provision"
    /\ infra' = [infra EXCEPT ![labWork[c].lab] =
                    IF done THEN Reached(lab[labWork[c].lab].time, labWork[c].action) ELSE @]
    /\ \E step \in {"error"} \cup {x \in {"done"} : done} :
           Doing(c, [labWork[c] EXCEPT !.step = step])
    /\ UNCHANGED <<draft, assignment, submission, lab, aiCalls, writer>>

LabDone(c) ==
    /\ labWork[c] # None /\ labWork[c].step \in {"done", "error"} /\ Free(c)
    /\ lab' = [lab EXCEPT ![labWork[c].lab].status =
                  IF labWork[c].step = "done" THEN StatusAfter(labWork[c].action) ELSE "failed"]
    /\ Doing(c, None)
    /\ UNCHANGED <<draft, assignment, submission, infra, aiCalls, writer>>

\* The process dies: its transaction is rolled back, the lab stays as it is.
LabCrash(c) ==
    /\ labWork[c] # None
    /\ Doing(c, None)
    /\ writer' = IF writer = c THEN None ELSE writer
    /\ UNCHANGED <<draft, assignment, submission, lab, infra, aiCalls>>

-----------------------------------------------------------------------------
StudyStep ==
    /\ \/ \E u \in Users, g \in Groups, d \in Devices :
            \/ \E c \in Commands : CreateDraft(u, g, d, c)
            \/ \E p \in SUBSET Commands : CreateAssignment(u, g, d, now + 1, p)
       \/ \E u \in Users, i \in DOMAIN draft :
            \/ \E c \in Commands : VersionDraft(u, i, c)
            \/ \E a \in DOMAIN assignment, v \in DOMAIN draft[i].versions : Submit(u, a, i, v)
       \/ \E u \in Users, s \in DOMAIN submission : Grade(u, s, 100)
       \/ \E u \in Users : ConsumeAi(u)
       \/ \E u \in Users, i \in DOMAIN change : Reject(u, i)
    /\ UNCHANGED approvalVars

LabStep ==
    /\ \/ \E l \in Labs : LabExpires(l)
       \/ \E c \in Clients :
            \/ LabCount(c) \/ ActionClaim(c) \/ LabDone(c) \/ LabCrash(c)
            \/ \E done \in BOOLEAN : Provide(c, done)
            \/ \E l \in Labs : LabInsert(c, l)
            \/ \E u, owner \in Users, g \in Groups : LabRequest(c, u, g, owner)
            \/ \E u \in Users, l \in Labs, a \in LabActions : ActionRead(c, u, l, a)
    /\ UNCHANGED <<policy, change, applying, booked, booking>>

InitStudy ==
    /\ draft = <<>> /\ assignment = <<>> /\ submission = <<>>
    /\ aiCalls = [u \in Users |-> 0]

InitLabs(rows, states) ==
    /\ lab = rows /\ infra = states
    /\ labWork = [c \in Clients |-> None]

InitLearning == InitStudy /\ InitLabs([l \in Labs |-> None], [l \in Labs |-> None])

-----------------------------------------------------------------------------
(* Reservations, labs and the policy together: requests that insert behind a *)
(* check share SQLite's write lock, a client has one request open, and no    *)
(* other request writes these variables.                                     *)
courseVars == <<policy, booked, booking, writer, lab, labWork, infra>>

PolicyStep ==
    /\ \E u \in Users, new \in Policies : UpdatePolicy(u, new)
    /\ UNCHANGED <<lab, labWork, infra>>

CourseNext ==
    \/ PolicyStep
    \/ /\ (ReserveStep /\ UNCHANGED <<lab, labWork, infra>>) \/ LabStep
       /\ \A c \in Clients : booking'[c] = None \/ labWork'[c] = None

CourseSpec == InitApproval /\ InitLearning /\ [][CourseNext]_courseVars

-----------------------------------------------------------------------------
(* The whole of governance: accounts, projects, groups, permissions, changes, *)
(* reservations, labs and student work, any of them between any two steps of  *)
(* the others.                                                                *)
governanceVars == <<accountVars, projectVars, accessVars, approvalVars, learningVars>>

Nodes ==
    [env : DeviceEnvironments \cup {"pnetlab"}, isolated : BOOLEAN, project : Projects,
     revision : {0}, hashed : BOOLEAN, deployable : BOOLEAN]

InitGovernance ==
    /\ \E rows \in [Users -> {Absent} \cup [role : Roles, active : BOOLEAN, tv : {0}]] :
           SingleAdmin(rows) /\ InitAccounts(rows)
    /\ \E devices \in [Devices -> {None} \cup Nodes] :
           InitAccess([g \in Groups |-> None], devices)
    /\ InitProjects /\ InitApproval /\ InitLearning

PeopleStep ==
    \/ AccountStep
    \/ /\ \E a, u \in Users, r \in Roles :
              CreateUser(a, u, r, Permitted(a, "student.create", None, None))
       /\ UNCHANGED accessVars

GovernanceNext ==
    \/ PeopleStep /\ UNCHANGED <<projectVars, approvalVars, learningVars>>
    \/ AccessStep /\ UNCHANGED <<accountVars, projectVars, approvalVars, learningVars>>
    \/ /\ \E busy \in BOOLEAN : ProjectNext(busy)
       /\ UNCHANGED <<accountVars, accessVars, approvalVars, learningVars>>
    \/ (ChangeStep \/ SettingStep) /\ UNCHANGED <<accountVars, projectVars, learningVars>>
    \/ StudyStep /\ UNCHANGED <<accountVars, projectVars, accessVars>>
    \/ /\ \/ ReserveStep /\ UNCHANGED learningVars
          \/ LabStep /\ UNCHANGED accessVars
       /\ \A c \in Clients : booking'[c] = None \/ labWork'[c] = None
       /\ UNCHANGED <<accountVars, projectVars>>

GovernanceSpec == InitGovernance /\ [][GovernanceNext]_governanceVars

-----------------------------------------------------------------------------
\* Nobody is given one more lab than the policy allows at that moment, however
\* requests for labs and changes of the policy overlap (governance/learning.py:301).
LabQuota ==
    [][\A u \in Users : Cardinality(LabsOf(u)') > Cardinality(LabsOf(u)) =>
         Cardinality(LabsOf(u)') <= policy.labs]_<<lab>>

\* A lab listed as running, stopped or deleted is in that state at the provider: no
\* two operations on a lab overlap (governance/learning.py:338).  Past its deadline
\* one listed as running is known to be stopped instead, and nothing tells the row.
LabTellsTruth ==
    \A l \in Labs : lab[l] # None /\ lab[l].status \in {"running", "stopped", "deleted"} =>
        infra[l] = IF lab[l].time = "over" THEN Ended(lab[l].status) ELSE lab[l].status

\* What a student handed in is their own draft for the group and the device of
\* the assignment, and what is graded later is what was handed in
\* (governance/learning.py:181).
SubmittedWork ==
    \A s \in DOMAIN submission :
        LET d == draft[submission[s].draft]  a == assignment[submission[s].assignment]
        IN  /\ d.owner = submission[s].by /\ d.group = a.group /\ d.device = a.device
            /\ Allows(a, d.versions[submission[s].version])

=============================================================================
