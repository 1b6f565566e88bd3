------------------------------ MODULE Inventory ------------------------------
(***************************************************************************)
(* The devices of one project and the rows that hang off a device id: its  *)
(* SSH login, its group membership and its change request.  Models          *)
(* devices/service.py, credentials/service.py and the project's default     *)
(* login in projects/routes.py.                                             *)
(*                                                                         *)
(* SQLite reuses row ids and does not enforce foreign keys here, so a row   *)
(* left behind by a deleted device would belong to the next device that     *)
(* gets its id.  To tell the two apart every device carries a serial number *)
(* (uid) that the program does not have.  Names and management addresses    *)
(* are numbers, because the program picks the lowest free one.              *)
(***************************************************************************)
EXTENDS Integers, FiniteSets, Sequences

CONSTANTS None,        \* an absent value
          Shared,      \* the login copied from the project's default
          MaxId,       \* bound: row ids of devices
          MaxBorn,     \* bound: devices ever created
          Names,       \* hostnames, 1..n
          Ips,         \* host addresses of the management network, 1..n
          MaxDevices   \* MAX_DEVICES_PER_PROJECT
ASSUME InventoryAssumption ==
    /\ None # Shared /\ None \notin Nat
    /\ MaxId \in Nat /\ MaxBorn \in Nat /\ MaxDevices \in Nat \ {0}
    /\ Names \subseteq Nat /\ IsFiniteSet(Names) /\ Ips \subseteq Nat /\ IsFiniteSet(Ips)

VARIABLES device,    \* row id -> device, or None
          login,     \* row id -> whose login is stored there: a uid, Shared or None
          member,    \* group_devices rows, [dev, uid]
          record,    \* grants, assignments, drafts and reservations on a device, [dev, uid, left]:
                     \* left says that a pruning restore took the device from under it
          change,    \* row id -> [uid, active] of its change request, or None
          default,   \* is a project_ssh_defaults row stored?
          born       \* number of devices created so far

invVars == <<device, login, member, record, change, default, born>>

Ids == 1 .. MaxId
Live == {d \in Ids : device[d] # None}

Types == {"ios", "asa", "generic"}
ManagedRoles == {"access", "core"}
Roles == ManagedRoles \cup {"host"}
ManagedKinds == {"router", "switch"}
Kinds == ManagedKinds \cup {"pc"}
Managed(x) == x.type # "generic"
Deployable(x) == Managed(x) /\ ~x.planned

(* What the table's CHECK constraints and the schemas let a device be. *)
Consistent(x) ==
    /\ ~Managed(x) => x.ip = None /\ ~x.planned
    /\ Deployable(x) => x.ip # None
(* What the schemas let a request make of a device. *)
WellFormed(x) ==
    /\ Managed(x) <=> x.kind \in ManagedKinds
    /\ Consistent(x)

Shapes == [name : Names, type : Types, role : Roles, kind : Kinds,
           planned : BOOLEAN, ip : Ips \cup {None}]
Shape(x) == [name |-> x.name, type |-> x.type, role |-> x.role, kind |-> x.kind,
             planned |-> x.planned, ip |-> x.ip]

WithUid(x, u) == [name |-> x.name, type |-> x.type, role |-> x.role, kind |-> x.kind,
                  planned |-> x.planned, ip |-> x.ip, uid |-> u]

(* The rows of the tables devices and change_requests.  None is no row. *)
DeviceRows == [name : Names, type : Types, role : Roles, kind : Kinds,
               planned : BOOLEAN, ip : Ips \cup {None}, uid : Nat]
ChangeRows == [uid : Nat, active : BOOLEAN]
ASSUME NoRow == None \notin DeviceRows /\ None \notin ChangeRows

(* _assert_unique, against the devices other than those in but *)
Unique(x, but) == \A d \in Live \ but : /\ device[d].name # x.name
                                        /\ x.ip # None => device[d].ip # x.ip

(* the row id SQLite gives the next device *)
LastId == IF Live = {} THEN 0 ELSE CHOOSE m \in Live : \A d \in Live : d <= m

FreeNames == Names \ {device[d].name : d \in Live}
FreeIps == Ips \ {device[d].ip : d \in Live}
(* the k-th lowest number of S *)
Lowest(S, k) == CHOOSE n \in S : Cardinality({m \in S : m <= n}) = k

InventoryInit ==
    /\ device = [d \in Ids |-> None]
    /\ login = [d \in Ids |-> None]
    /\ member = {}
    /\ record = {}
    /\ change = [d \in Ids |-> None]
    /\ default = FALSE
    /\ born = 0

(* The devices of the sequence batch, created one after the other.  A login    *)
(* typed in with a device is stored for it; without one a managed, provisioned *)
(* device takes the project's default.                                         *)
Fits(batch) == /\ LastId + Len(batch) <= MaxId /\ born + Len(batch) <= MaxBorn
               /\ Cardinality(Live) + Len(batch) <= MaxDevices
NewIds(batch) == LastId + 1 .. LastId + Len(batch)
Added(batch) ==
    [d \in Ids |-> IF d \notin NewIds(batch) THEN device[d]
                   ELSE WithUid(batch[d - LastId], born + d - LastId)]
AddedLogin(batch, typed) ==
    [d \in Ids |-> IF d \notin NewIds(batch) THEN login[d]
                   ELSE IF typed /\ Managed(batch[d - LastId]) THEN born + d - LastId
                   ELSE IF default /\ Deployable(batch[d - LastId]) THEN Shared ELSE None]
AddDevices(batch, typed) ==
    /\ Fits(batch)
    /\ device' = Added(batch)
    /\ login' = AddedLogin(batch, typed)
    /\ born' = born + Len(batch)
    /\ UNCHANGED <<member, record, change, default>>

(* create_device: managed roles are not enforced on create, only the kind is. *)
CreateDevice(x, typed, useProject) ==
    /\ WellFormed(x) /\ Unique(x, {})
    /\ typed \/ useProject => Managed(x)
    /\ useProject /\ ~typed /\ Deployable(x) => default
    /\ AddDevices(<<x>>, typed)

(* import_devices_csv: every row is checked against the project and the rows  *)
(* before it, then all are created.                                           *)
ImportCsv(batch, typed) ==
    /\ \A i \in 1 .. Len(batch) : /\ WellFormed(batch[i]) /\ Unique(batch[i], {})
                                  /\ typed => Managed(batch[i])
    /\ \A i, j \in 1 .. Len(batch) : i < j => /\ batch[i].name # batch[j].name
                                              /\ batch[i].ip # None => batch[i].ip # batch[j].ip
    /\ AddDevices(batch, typed)

(* update_device: neither the lifecycle nor managed/unmanaged can be edited. *)
UpdateDevice(d, x, cred) ==
    /\ d \in Live /\ WellFormed(x) /\ Unique(x, {d})
    /\ Managed(x) <=> Managed(device[d])
    /\ Managed(x) <=> x.role \in ManagedRoles
    /\ x.planned = device[d].planned
    /\ cred \in {None, "typed", "project"}
    /\ cred # None => Managed(x)
    /\ cred = "project" => default
    /\ device' = [device EXCEPT ![d] = WithUid(x, @.uid)]
    /\ login' = [login EXCEPT ![d] = CASE cred = None -> @
                                       [] cred = "typed" -> device[d].uid
                                       [] OTHER -> Shared]
    /\ UNCHANGED <<member, record, change, default, born>>

(* provision_device: a login already stored is kept unless one is typed in. *)
ProvisionDevice(d, ip, typed) ==
    /\ d \in Live /\ Managed(device[d]) /\ device[d].planned
    /\ \A e \in Live \ {d} : device[e].ip # ip
    /\ device' = [device EXCEPT ![d].ip = ip, ![d].planned = FALSE]
    /\ login' = [login EXCEPT ![d] = IF typed THEN device[d].uid
                                     ELSE IF @ = None /\ default THEN Shared ELSE @]
    /\ UNCHANGED <<member, record, change, default, born>>

(* put_ssh_default and delete_ssh_default: a blank password keeps the stored one. *)
PutDefault(blank) ==
    /\ blank => default
    /\ default' = TRUE
    /\ UNCHANGED <<device, login, member, record, change, born>>
DropDefault ==
    /\ default' = FALSE
    /\ UNCHANGED <<device, login, member, record, change, born>>

(* apply_ssh_default with scope "missing" or "all" *)
ApplyDefault(scope) ==
    /\ default
    /\ login' = [d \in Ids |-> IF /\ d \in Live /\ Deployable(device[d])
                                  /\ scope = "missing" => login[d] = None
                               THEN Shared ELSE login[d]]
    /\ UNCHANGED <<device, member, record, change, default, born>>

(* allocate_device and deallocate_device: a device enters or leaves a group.   *)
(* Leaving revokes the group's grants but keeps their rows.                     *)
Row(d) == [dev |-> d, uid |-> device[d].uid]
JoinGroup(d) ==
    /\ d \in Live
    /\ member' = member \cup {Row(d)}
    /\ UNCHANGED <<device, login, record, change, default, born>>
LeaveGroup(d) ==
    /\ member' = {m \in member : m.dev # d}
    /\ UNCHANGED <<device, login, record, change, default, born>>

(* a permission or teaching record is made for the device (Access, Approval, Learning) *)
MakeRecord(d) ==
    /\ d \in Live
    /\ record' = record \cup {[dev |-> d, uid |-> device[d].uid, left |-> FALSE]}
    /\ UNCHANGED <<device, login, member, change, default, born>>

(* a change batch aimed at the device opens and ends (module Deployment) *)
OpenChange(d) ==
    /\ d \in Live /\ Deployable(device[d])
    /\ change[d] # None => ~change[d].active
    /\ change' = [change EXCEPT ![d] = [uid |-> device[d].uid, active |-> TRUE]]
    /\ UNCHANGED <<device, login, member, record, default, born>>
CloseChange(d) ==
    /\ change[d] # None /\ change[d].active
    /\ change' = [change EXCEPT ![d].active = FALSE]
    /\ UNCHANGED <<device, login, member, record, default, born>>

(* delete_device refuses a device with an active batch or a kept record. *)
Deletable(d) == /\ d \in Live
                /\ change[d] # None => ~change[d].active
                /\ \A r \in record : r.dev # d

(* purge_devices: the rows of these ids; what Diagram adds to it is there.  It  *)
(* looks at no record, which only delete_device refuses, and leaves the rows of  *)
(* config_checkpoints (not modelled here) to whoever gets the id next.           *)
PurgeRowsKeepingMembers(S, dev, log) ==
    /\ device' = [d \in Ids |-> IF d \in S THEN None ELSE dev[d]]
    /\ login' = [d \in Ids |-> IF d \in S THEN None ELSE log[d]]
    /\ UNCHANGED member
    /\ change' = [d \in Ids |-> IF d \in S THEN None ELSE change[d]]
PurgeRows(S, dev, log) ==
    /\ device' = [d \in Ids |-> IF d \in S THEN None ELSE dev[d]]
    /\ login' = [d \in Ids |-> IF d \in S THEN None ELSE log[d]]
    /\ member' = {m \in member : m.dev \notin S}
    /\ change' = [d \in Ids |-> IF d \in S THEN None ELSE change[d]]

(* Type invariant. *)
InventoryTypeOK ==
    /\ \A d \in Ids : device[d] # None =>
          /\ Shape(device[d]) \in Shapes /\ Consistent(device[d])
          /\ device[d].uid \in 1 .. born
    /\ \A d \in Ids : login[d] \in 1 .. MaxBorn \cup {Shared, None}
    /\ default \in BOOLEAN /\ born \in 0 .. MaxBorn

(* What is found under a device's id was made for that device and not for    *)
(* one that had the id before, for the rows purge_devices and delete_device   *)
(* look after: a login typed in for another device is never used for it, and  *)
(* it has no group, no change request, no grant, assignment, draft or          *)
(* reservation of a predecessor.  The exceptions are the code's: a restore     *)
(* that prunes asks for no records (versions.restore), so those it takes the    *)
(* device from stay under the id (left), and no delete removes the device's     *)
(* checkpoints, which are outside this module.                                 *)
RowsFollowDevice ==
    /\ \A d \in Ids : /\ login[d] # None => /\ d \in Live
                                            /\ login[d] \in {Shared, device[d].uid}
                      /\ change[d] # None => d \in Live /\ change[d].uid = device[d].uid
    /\ \A m \in member : m.dev \in Live /\ m.uid = device[m.dev].uid
    /\ \A r \in record : r.left \/ (r.dev \in Live /\ r.uid = device[r.dev].uid)
==============================================================================
