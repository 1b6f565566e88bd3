------------------------------ MODULE Approval ------------------------------
(***************************************************************************)
(* Who may preview, approve and start a change, and who may book a device  *)
(* (governance/workflow.py, governance/routes.py, changes/service.py).     *)
(* A request is one step here but for apply, which reads what it rests on  *)
(* twice, and for reservations; Deployment has the steps on the device.    *)
(***************************************************************************)
EXTENDS Access

CONSTANTS
    Commands,        \* what a change does, by how policy tells it apart
    HighCommands,    \* those outside the safe patterns of risk()
    MaxChanges,      \* bound: rows of change_requests
    Slots,           \* the intervals a device can be booked for
    LabLimit,        \* policy.lab_limit at first
    LabLimits        \* what PATCH /api/policy may make of it

ASSUME ApprovalBounds ==
    /\ MaxChanges \in Nat /\ HighCommands \subseteq Commands
    /\ LabLimit \in LabLimits /\ LabLimits \subseteq Nat

VARIABLES
    policy,          \* platform_policy
    change,          \* change_requests, by id
    applying,        \* requests inside apply: change, user and how far they are
    booked,          \* device_reservations not cancelled
    booking,         \* what each client is about to insert, or None
    writer           \* the client that holds SQLite's write lock, or None

approvalVars == <<policy, change, applying, booked, booking, writer>>

Active == {"pending_approval", "approved", "running"}

\* operator_has_project_edit
OperatorEdits(u, d) == IsRole(u, "OPERATOR") /\ Editor(u, device[d].project)

\* _ai_management_consent: the requester agreed in the chat, for a lab node.
Consent(ch, u) ==
    LET d == ch.device  p == device[d].project
    IN  /\ ch.consent /\ ch.source = "ai" /\ u = ch.by
        /\ device[d] # None /\ OperatorEdits(u, d)
        /\ project[p].ai /\ project[p].env = "pnetlab"
        /\ device[d].env = "pnetlab" /\ device[d].isolated /\ device[d].deployable

Prohibited(c) == c \in policy.forbidden

Risk(c, d) ==
    IF \/ c \in HighCommands \cup policy.high \/ device[d].env = "production"
       \/ device[d].env = "physical_lab" /\ c \notin policy.labLow
       \/ device[d].env = "virtual" /\ ~device[d].isolated
    THEN "high" ELSE "low"

\* digest: everything an approval is bound to.
Digest(ch) ==
    [cmd |-> ch.cmd, source |-> ch.source, consent |-> ch.consent, group |-> ch.group,
     revision |-> ch.revision, device |-> device[ch.device],
     ai |-> project[device[ch.device].project].ai, policy |-> policy]

\* can_read_change: a missing change and one out of scope look the same.
CanRead(u, ch) ==
    LET d == ch.device  p == device[d].project
    IN  /\ Acts(u)
        /\ \/ IsRole(u, "ADMIN")
           \/ account[u].role \in {"OPERATOR", "VIEWER"} /\ Viewer(u, p)
           \/ /\ account[u].role \in {"OPERATOR", "VIEWER"} /\ ch.consent /\ ch.by = u
              /\ project[p].env = "pnetlab" /\ device[d].env = "pnetlab"
              /\ device[d].isolated /\ device[d].deployable
           \/ /\ ch.group # None \/ ch.by = u
              /\ Permitted(u, "device.read", ch.group, d)
              /\ IsRole(u, "TEACHER") \/ ch.by = u

\* change_project() and get_change(): what every lifecycle route checks first.
Reaches(u, ch) == device[ch.device] # None /\ ChangeScope(u, device[ch.device].project)
                  /\ CanRead(u, ch)

-----------------------------------------------------------------------------
\* create_preview: bind() of a change by u; g is None when none was named.
Unscoped(u, d, ch) == IsRole(u, "ADMIN") \/ OperatorEdits(u, d) \/ Consent(ch, u)

GroupsOf(u, d) ==
    {h \in Groups : /\ group[h] # None /\ d \in group[h].devices
                    /\ Permitted(u, "config.create", h, d)}

PendingOf(u) == {i \in DOMAIN change : change[i].by = u /\ change[i].status \in Active}

CreatePreview(u, d, g, c, source, consent, confirm) ==
    LET ch == [by |-> u, device |-> d, cmd |-> c, source |-> source, consent |-> consent,
               group |-> g, confirm |-> confirm \/ source = "restore",
               revision |-> device[d].revision, hashed |-> device[d].hashed,
               risk |-> IF confirm \/ source = "restore" THEN "high" ELSE Risk(c, d),
               status |-> "pending_approval", approver |-> None, at |-> None, digest |-> None]
    IN  /\ Len(change) < MaxChanges
        /\ Acts(u) /\ device[d] # None /\ ChangeScope(u, device[d].project)
        /\ Permitted(u, "device.read", None, d)
        /\ source = "restore" => Permitted(u, "config.restore", g, d)
        /\ \E h \in IF g = None /\ ~Unscoped(u, d, ch) THEN GroupsOf(u, d) ELSE {g} :
            /\ g = None /\ ~Unscoped(u, d, ch) => GroupsOf(u, d) = {h}
            /\ ~Consent(ch, u) /\ ~OperatorEdits(u, d) => Permitted(u, "config.create", h, d)
            /\ h # None => group[h] # None /\ ~group[h].archived /\ d \in group[h].devices
            /\ Cardinality(PendingOf(u)) < policy.limit
            /\ ~Prohibited(c)
            /\ change' = Append(change, [ch EXCEPT !.group = h])
        /\ UNCHANGED <<policy, applying, booked, booking, writer>>

-----------------------------------------------------------------------------
\* approve_allowed
ApproveAllowed(ch, u) ==
    LET d == ch.device
        free == Consent(ch, u) \/ OperatorEdits(u, d)
    IN  /\ Acts(u) /\ device[d] # None
        /\ IsRole(u, "ADMIN") \/ free \/ ch.group # None
        /\ IsRole(u, "STUDENT") => Consent(ch, u)
        /\ free \/ Permitted(u, "config.approve", ch.group, d)
        /\ (policy.independent /\ ~IsRole(u, "ADMIN") /\ ~free) => u # ch.by
        /\ (device[d].env = "production" /\ policy.prodAdmin)
              => IsRole(u, "ADMIN") \/ OperatorEdits(u, d)
        /\ Consent(ch, u) \/ (Acts(ch.by) /\ (OperatorEdits(ch.by, d)
                                 \/ Permitted(ch.by, "config.create", ch.group, d)))
        /\ device[d].revision = ch.revision /\ ~Prohibited(ch.cmd)

Approved(ch, u) ==
    [ch EXCEPT !.status = "approved", !.approver = u, !.at = now, !.digest = Digest(ch)]

\* _authorize_device_access of a teacher.
TeachesWith(u, d) ==
    \E g \in Groups : group[g] # None /\ u \in group[g].teachers /\ d \in group[g].devices

\* service.approve
Approve(u, i) ==
    /\ Reaches(u, change[i]) /\ change[i].status = "pending_approval"
    /\ account[u].role \in {"ADMIN", "OPERATOR", "TEACHER"}
    /\ IsRole(u, "TEACHER") => TeachesWith(u, change[i].device)
    /\ ApproveAllowed(change[i], u)
    /\ change' = [change EXCEPT ![i] = Approved(@, u)]
    /\ UNCHANGED <<policy, applying, booked, booking, writer>>

Cancel(u, i) ==
    /\ Reaches(u, change[i]) /\ Editor(u, device[change[i].device].project)
    /\ change[i].status \in {"pending_approval", "approved"}
    /\ change' = [change EXCEPT ![i].status = "cancelled"]
    /\ UNCHANGED <<policy, applying, booked, booking, writer>>

Bookings(d) == {b \in booked : b.device = d /\ b.slot = now}

\* deployment_allowed
DeployAllowed(ch, u) ==
    LET d == ch.device
        free == Consent(ch, u) \/ OperatorEdits(u, d)
    IN  /\ Acts(u) /\ device[d] # None
        /\ IsRole(u, "ADMIN") \/ free \/ ch.group # None
        /\ (device[d].env # "virtual" \/ ~device[d].isolated) => ch.hashed
        /\ free \/ Permitted(u, "config.deploy", ch.group, d)
        /\ ch.source = "restore" /\ ~OperatorEdits(u, d) => Permitted(u, "config.restore", ch.group, d)
        /\ Consent(ch, u) \/ (Acts(ch.by) /\ (OperatorEdits(ch.by, d)
                                 \/ Permitted(ch.by, "config.create", ch.group, d)))
        /\ IsRole(u, "STUDENT") /\ ~Consent(ch, u) => u = ch.by
        /\ ch.group # None /\ ~Consent(ch, u) =>
             ~group[ch.group].archived /\ d \in group[ch.group].devices
        /\ device[d].revision = ch.revision /\ ch.digest = Digest(ch)
        /\ ch.at # None => ch.at + policy.minutes > now
        /\ IF ch.approver # None THEN ApproveAllowed(ch, ch.approver)
           ELSE /\ ch.group # None /\ group[ch.group].auto
                /\ Risk(ch.cmd, d) = "low" /\ ~ch.confirm
        /\ ~Prohibited(ch.cmd)
        /\ \A b \in Bookings(d) : ~b.maintenance
        /\ (device[d].env # "virtual" /\ ~IsRole(u, "ADMIN") /\ ~free) =>
             \E b \in Bookings(d) : b.group = ch.group

\* apply() of an approved change, or Smart Approval of a student's own.
Smart(ch, u) ==
    /\ IsRole(u, "STUDENT") /\ ch.status = "pending_approval" /\ ch.by = u
    /\ ch.group # None /\ group[ch.group].auto /\ u \in group[ch.group].students
    /\ ch.device \in group[ch.group].devices
    /\ Risk(ch.cmd, ch.device) = "low" /\ ~ch.confirm /\ ~Prohibited(ch.cmd)

At(i, u, step) == [change |-> i, by |-> u, step |-> step]

\* An approval given by Smart Approval is committed before the checks.
Apply(u, i) ==
    LET ch == IF Smart(change[i], u) THEN Approved(change[i], None) ELSE change[i]
    IN  /\ Reaches(u, change[i]) /\ Permitted(u, "device.read", None, ch.device)
        /\ OperatorEdits(u, ch.device) \/ Permitted(u, "config.deploy", ch.group, ch.device)
        /\ IsRole(u, "TEACHER") => TeachesWith(u, ch.device)
        /\ ~IsRole(u, "VIEWER") /\ ch.status = "approved"
        /\ change' = [change EXCEPT ![i] = ch]
        /\ applying' = IF DeployAllowed(ch, u) THEN applying \cup {At(i, u, "checked")} ELSE applying
        /\ UNCHANGED <<policy, booked, booking, writer>>

\* claim: the lease of the device, and UPDATE ... WHERE status = 'approved'.
Leased(d) == \E y \in applying : y.step # "checked" /\ change[y.change].device = d

Claim(x) ==
    /\ x.step = "checked"
    /\ IF change[x.change].status = "approved" /\ ~Leased(change[x.change].device)
       THEN /\ change' = [change EXCEPT ![x.change].status = "running"]
            /\ applying' = (applying \ {x}) \cup {At(x.change, x.by, "claimed")}
       ELSE /\ change' = change
            /\ applying' = applying \ {x}
    /\ UNCHANGED <<policy, booked, booking, writer>>

\* What was checked before the claim is not looked at again.
CheckedOnce(ch, u) == ch.status = "running"

\* deployment_allowed once more, after the backup.
StillAllowed(ch, u) == DeployAllowed(ch, u)

\* A revision that is counted up here is written; an error fails the change.
Recheck(x) ==
    /\ x.step = "claimed"
    /\ IF StillAllowed(change[x.change], x.by)
       THEN /\ applying' = (applying \ {x}) \cup {At(x.change, x.by, "writes")}
            /\ device' = [device EXCEPT ![change[x.change].device].revision = @ + 1]
            /\ change' = change
       ELSE /\ applying' = applying \ {x} /\ device' = device
            /\ change' = [change EXCEPT ![x.change].status = "failed"]
    /\ UNCHANGED <<policy, booked, booking, writer>>

\* The steps on the device itself are the module Deployment.
Finished(x, outcome) ==
    /\ x.step = "writes" \/ (x.step = "claimed" /\ outcome = "failed")
    /\ change' = [change EXCEPT ![x.change].status = outcome]
    /\ applying' = applying \ {x}
    /\ UNCHANGED <<policy, booked, booking, writer>>

UpdatePolicy(u, new) ==
    /\ IsAdmin(u) /\ writer = None /\ policy' = new
    /\ UNCHANGED <<change, applying, booked, booking, writer>>

\* PUT /api/devices and PUT /api/projects of what the checks above read.
EditDevice(u, d, env, isolated) ==
    /\ device[d] # None /\ Editor(u, device[d].project)
    /\ device' = [device EXCEPT ![d].env = env, ![d].isolated = isolated]
    /\ UNCHANGED approvalVars

-----------------------------------------------------------------------------
(* Reservations: the no-op UPDATE takes the write lock, then the check. *)

\* Without the UPDATE that takes the lock.
NoLock(c) == TRUE

Free(c) == writer \in {None, c}

ReserveBegin(c, u, d, g, slot, maintenance) ==
    /\ booking[c] = None /\ Acts(u) /\ device[d] # None /\ slot >= now
    /\ IF maintenance THEN IsRole(u, "ADMIN")
       ELSE g # None /\ Manages(u, g) /\ Permitted(u, "device.reserve", g, d)
    /\ Free(c)
    /\ writer' = c
    /\ booking' = [booking EXCEPT ![c] =
           [device |-> d, group |-> g, slot |-> slot, maintenance |-> maintenance, clear |-> FALSE]]
    /\ UNCHANGED <<policy, change, applying, booked>>

ReserveCheck(c) ==
    /\ booking[c] # None /\ ~booking[c].clear
    /\ IF \E b \in booked : b.device = booking[c].device /\ b.slot = booking[c].slot
       THEN booking' = [booking EXCEPT ![c] = None] /\ writer' = None
       ELSE booking' = [booking EXCEPT ![c].clear = TRUE] /\ writer' = writer
    /\ UNCHANGED <<policy, change, applying, booked>>

ReserveCommit(c) ==
    /\ booking[c] # None /\ booking[c].clear
    /\ booked' = booked \cup {[id |-> Cardinality(booked), device |-> booking[c].device,
           group |-> booking[c].group, slot |-> booking[c].slot,
           maintenance |-> booking[c].maintenance]}
    /\ booking' = [booking EXCEPT ![c] = None]
    /\ writer' = None
    /\ UNCHANGED <<policy, change, applying>>

CancelReservation(u, b) ==
    /\ Acts(u)
    /\ IsRole(u, "ADMIN") \/ (b.group # None /\ Manages(u, b.group))
    /\ writer = None
    /\ booked' = booked \ {b}
    /\ UNCHANGED <<policy, change, applying, booking, writer>>

-----------------------------------------------------------------------------
Policies ==
    [independent : BOOLEAN, prodAdmin : {TRUE}, limit : {2}, minutes : {2},
     forbidden : {{}, HighCommands}, high : {{}}, labLow : {{}}, labs : LabLimits]

ChangeStep ==
    /\ \/ \E u \in Users, d \in Devices, g \in Groups \cup {None}, c \in Commands :
            \/ CreatePreview(u, d, g, c, "api", FALSE, FALSE)
            \/ CreatePreview(u, d, g, c, "ai", TRUE, FALSE)
            \/ CreatePreview(u, d, g, c, "restore", FALSE, FALSE)
       \/ \E u \in Users, i \in DOMAIN change : Approve(u, i) \/ Cancel(u, i) \/ Apply(u, i)
       \/ \E x \in applying : Claim(x)
    /\ UNCHANGED accessVars

SettingStep ==
    /\ \/ \E u \in Users, new \in Policies : UpdatePolicy(u, new) /\ UNCHANGED device
       \/ \E x \in applying : \/ Recheck(x)
                              \/ \E o \in {"success", "failed"} : Finished(x, o) /\ UNCHANGED device
       \/ \E u \in Users, d \in Devices, e \in DeviceEnvironments : EditDevice(u, d, e, TRUE)
    /\ UNCHANGED <<group, suspended, grants, invitation, joining, now>>

ReserveStep ==
    /\ \/ \E c \in Clients :
            \/ ReserveCheck(c) \/ ReserveCommit(c)
            \/ \E u \in Users, d \in Devices, g \in Groups \cup {None}, s \in Slots, m \in BOOLEAN :
                   ReserveBegin(c, u, d, g, s, m)
       \/ \E u \in Users, b \in booked : CancelReservation(u, b)
    /\ UNCHANGED accessVars

InitApproval ==
    /\ policy = [independent |-> TRUE, prodAdmin |-> TRUE, limit |-> 2, minutes |-> 2,
                 forbidden |-> {}, high |-> {}, labLow |-> {}, labs |-> LabLimit]
    /\ change = <<>> /\ applying = {} /\ booked = {} /\ writer = None
    /\ booking = [c \in Clients |-> None]

-----------------------------------------------------------------------------
Writes(x) == x.step = "claimed" /\ At(x.change, x.by, "writes") \in applying' \ applying

\* Nothing is written to a device unless, once the backup is taken, whoever
\* deploys it may still deploy, whoever asked for it could still ask and whoever
\* approved it could still approve it, whatever was revoked, archived, edited or
\* handed over since the approval, the first check or the claim ("revocation must
\* win before any write", changes/service.py:1022).
WritesUnderAuthority ==
    [][\A x \in applying : Writes(x) =>
         LET ch == change[x.change]
         IN  \/ Consent(ch, ch.by)
             \/ /\ \/ OperatorEdits(x.by, ch.device)
                   \/ Permitted(x.by, "config.deploy", ch.group, ch.device)
                /\ \/ OperatorEdits(ch.by, ch.device)
                   \/ Permitted(ch.by, "config.create", ch.group, ch.device)
                /\ ch.approver # None =>
                     \/ OperatorEdits(ch.approver, ch.device)
                     \/ Permitted(ch.approver, "config.approve", ch.group, ch.device)]_<<applying>>

\* A device is never booked twice for the same time (governance/routes.py:454).
NoDoubleBooking ==
    \A a, b \in booked : a.device = b.device /\ a.slot = b.slot => a = b

=============================================================================
