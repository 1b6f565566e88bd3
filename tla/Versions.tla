------------------------------ MODULE Versions ------------------------------
(***************************************************************************)
(* Saved versions of a project's diagram: topology/versions.py over the      *)
(* project documents of projects/exchange.py.                               *)
(*                                                                         *)
(* A document names devices by hostname and holds no login.  Restoring one   *)
(* first stores the present diagram as an automatic version, then clears     *)
(* cables and design, creates the devices that are gone, and writes the      *)
(* document's cables and rows through the ordinary checks of Diagram.        *)
(* Clearing and every row are committed on their own, so a check that        *)
(* refuses one leaves what was written before it.                           *)
(***************************************************************************)
EXTENDS Diagram

CONSTANT MaxVersions   \* MAX_VERSIONS
ASSUME VersionsAssumption == MaxVersions \in Nat \ {0}

VARIABLES version,   \* topology_versions, oldest first: [auto, doc]
          undo       \* a restore that has just ended: [doc it saved first, prune], or None

vsVars == <<dgVars, version, undo>>

VersionsInit == version = <<>> /\ undo = None

NameOf(d) == device[d].name
(* export_project: the design's rows with a hostname for the device *)
ByName(rows) == {[r EXCEPT !.dev = NameOf(@)] : r \in rows}
Exported ==
    [devices |-> {Shape(device[d]) : d \in Live},
     cables |-> {[o EXCEPT !.a = NameOf(@), !.b = NameOf(@)] : o \in cable},
     vlan |-> vlan, access |-> ByName(access), svi |-> ByName(svi),
     subif |-> ByName(subif), loop |-> ByName(loop), plain |-> ByName(plain)]

Docs == {version[i].doc : i \in DOMAIN version}

(* _store: at the limit the oldest automatic version makes room; when there is   *)
(* none the new version is refused.                                             *)
AnyOfThem == DOMAIN version
Autos == {i \in DOMAIN version : version[i].auto}
Oldest == CHOOSE i \in Autos : \A j \in Autos : i <= j
Without(i) == SubSeq(version, 1, i - 1) \o SubSeq(version, i + 1, Len(version))
Storable == Len(version) < MaxVersions \/ Autos # {}
StoredUnbounded(auto) == Append(version, [auto |-> auto, doc |-> Exported])
Stored(auto) == Append(IF Len(version) < MaxVersions THEN version ELSE Without(Oldest),
                       [auto |-> auto, doc |-> Exported])

CreateVersion ==
    /\ Storable
    /\ version' = Stored(FALSE)
    /\ undo' = None
    /\ UNCHANGED dgVars

DeleteVersion(i) ==
    /\ i \in DOMAIN version
    /\ version' = Without(i)
    /\ undo' = None
    /\ UNCHANGED dgVars

----------------------------------------------------------------------------
(* What the checks of Diagram say of a document's cables and rows, restored      *)
(* onto the cleared diagram in the order of populate_cabling and import_design.   *)
(* Update-in-place sets role and kind before, never the type.                     *)

DocNamed(doc, n) == CHOOSE x \in doc.devices : x.name = n
Present(doc) == {d \in Live : \E x \in doc.devices : x.name = NameOf(d)}
Missing(doc) == {x \in doc.devices : \A d \in Live : NameOf(d) # x.name}

CablesFit(cs) == /\ Cardinality(cs) <= MaxLinks
                 /\ \A c \in cs : /\ EndsFree(c, cs \ {c}) /\ FieldsOk(c, cs \ {c})
                                  /\ ChannelOk(c, cs \ {c})

(* the device a row of the document lands on: the present one keeps its type *)
Landed(doc, n) ==
    LET x == DocNamed(doc, n) IN
    IF \E d \in Live : NameOf(d) = n
    THEN [x EXCEPT !.type = device[CHOOSE d \in Live : NameOf(d) = n].type] ELSE x
(* the rows of each kind that pass, in the order import_design writes the kinds *)
Passing(doc) ==
    LET on(r) == Landed(doc, r.dev) IN
    <<{r \in doc.access : AccessOk(r, on(r), doc.cables, doc.vlan, doc.access \ {r})},
      {r \in doc.svi : SviOk(r, on(r), doc.cables, doc.vlan, doc.svi \ {r}, {})},
      {r \in doc.loop : LoopOk(r, on(r), doc.cables, doc.svi, doc.loop \ {r})},
      {r \in doc.subif : SubifOk(r, on(r), doc.cables, doc.vlan, doc.svi, doc.subif \ {r})},
      {r \in doc.plain : PlainOk(r, on(r), doc.plain \ {r})}>>
RowKinds(doc) == <<doc.access, doc.svi, doc.loop, doc.subif, doc.plain>>
RowsFit(doc) == Passing(doc) = RowKinds(doc)
(* what may be written of the k-th kind: the first kind with a row that is refused *)
(* stops between two rows, and the kinds after it are not written                  *)
Written(doc, k) ==
    LET whole(j) == Passing(doc)[j] = RowKinds(doc)[j] IN
    IF \E j \in 1 .. k - 1 : ~whole(j) THEN {{}}
    ELSE IF whole(k) THEN {RowKinds(doc)[k]} ELSE SUBSET Passing(doc)[k]

(* create_device for the missing devices, before any pruning *)
DevicesFit(doc) ==
    /\ \A x \in Missing(doc) : WellFormed(x) /\ Unique(x, {})
    /\ Cardinality(Live) + Cardinality(Missing(doc)) <= MaxDevices

Restorable(doc) == DevicesFit(doc) /\ CablesFit(doc.cables) /\ RowsFit(doc)

(* the devices after the document's ones were created, in the order of their names *)
Sorted(made) == [i \in 1 .. Cardinality(made) |->
                   CHOOSE x \in made : Cardinality({y \in made : y.name <= x.name}) = i]
InPlace(doc, dev) ==
    [d \in Ids |-> IF d \notin Present(doc) THEN dev[d]
                   ELSE [dev[d] EXCEPT !.role = DocNamed(doc, NameOf(d)).role,
                                       !.kind = DocNamed(doc, NameOf(d)).kind]]
ById(dev, n) == CHOOSE d \in Ids : dev[d] # None /\ dev[d].name = n
Placed(rows, dev) == {[r EXCEPT !.dev = ById(dev, @)] : r \in rows}
PlacedCables(cs, dev) == {[o EXCEPT !.a = ById(dev, @), !.b = ById(dev, @)] : o \in cs}

(* The steps of a restore that has stored the backup.  A document whose devices   *)
(* do not fit leaves the diagram without cables and design, with some of the       *)
(* missing devices made; one whose cables do not fit leaves some of them and no     *)
(* rows; one whose rows do not fit leaves all cables and the VLANs.                *)
ClearDesign ==
    /\ cable' = {} /\ vlan' = {} /\ access' = {} /\ svi' = {} /\ subif' = {} /\ loop' = {}
    /\ plain' = {}

RestoreStops(doc) ==
    /\ ~DevicesFit(doc)
    /\ \E made \in SUBSET {x \in Missing(doc) : WellFormed(x) /\ Unique(x, {})},
          edited \in SUBSET Present(doc) :
          LET dev == Added(Sorted(made)) IN
          /\ Fits(Sorted(made))
          /\ device' = [d \in Ids |-> IF d \in edited THEN InPlace(doc, dev)[d] ELSE dev[d]]
          /\ login' = AddedLogin(Sorted(made), FALSE)
          /\ born' = born + Cardinality(made)
    /\ UNCHANGED <<member, record, change, default>>
    /\ ClearDesign

Write(doc, dev) ==
    LET fits == CablesFit(doc.cables) IN
    /\ \E cs \in SUBSET doc.cables :
          /\ CablesFit(cs)
          /\ fits => cs = doc.cables
          /\ cable' = PlacedCables(cs, dev)
    /\ vlan' = IF fits THEN doc.vlan ELSE {}
    /\ \E w \in IF fits THEN Written(doc, 1) ELSE {{}} : access' = Placed(w, dev)
    /\ \E w \in IF fits THEN Written(doc, 2) ELSE {{}} : svi' = Placed(w, dev)
    /\ \E w \in IF fits THEN Written(doc, 3) ELSE {{}} : loop' = Placed(w, dev)
    /\ \E w \in IF fits THEN Written(doc, 4) ELSE {{}} : subif' = Placed(w, dev)
    /\ \E w \in IF fits THEN Written(doc, 5) ELSE {{}} : plain' = Placed(w, dev)

PrunedAlways(doc, prune) == Live \ Present(doc)
Pruned(doc, prune) == IF prune THEN Live \ Present(doc) ELSE {}
(* purge_devices without delete_device's look at the records *)
LeftBehind(S) == {IF r.dev \in S THEN [dev |-> r.dev, uid |-> r.uid, left |-> TRUE] ELSE r : r \in record}
RestoreRuns(doc, prune) ==
    LET batch == Sorted(Missing(doc))
        dev == InPlace(doc, Added(batch))
    IN  /\ DevicesFit(doc) /\ Fits(batch)
        /\ PurgeRows(Pruned(doc, prune), dev, AddedLogin(batch, FALSE))
        /\ born' = born + Len(batch)
        /\ record' = LeftBehind(Pruned(doc, prune))
        /\ UNCHANGED default
        /\ Write(doc, dev)

RestoreVersion(i, prune) ==
    /\ i \in DOMAIN version /\ Storable
    /\ version' = Stored(TRUE)
    /\ undo' = [doc |-> Exported, prune |-> prune]
    /\ RestoreStops(version[i].doc) \/ RestoreRuns(version[i].doc, prune)
    /\ UNCHANGED <<imported, bin>>

----------------------------------------------------------------------------
(* Every request with every input, in any order.  What is saved is told apart    *)
(* right after a restore only.                                                  *)

DeviceStep ==
    /\ \/ \E x \in Shapes, typed, useProject \in BOOLEAN : CreateDevice(x, typed, useProject)
       \/ \E batch \in Seq(Shapes), typed \in BOOLEAN : ImportCsv(batch, typed)
       \/ \E d \in Ids, x \in Shapes, cred \in {None, "typed", "project"} : UpdateDevice(d, x, cred)
       \/ \E d \in Ids, ip \in Ips, typed \in BOOLEAN : ProvisionDevice(d, ip, typed)
       \/ DropDefault \/ \E blank \in BOOLEAN : PutDefault(blank)
       \/ \E scope \in {"missing", "all"} : ApplyDefault(scope)
       \/ \E d \in Ids : \/ JoinGroup(d) \/ LeaveGroup(d) \/ MakeRecord(d)
                         \/ OpenChange(d) \/ CloseChange(d)
    /\ UNCHANGED <<diagram, imported, bin>>

CableStep ==
    \/ \E c \in Cables : CreateCable(c)
    \/ \E o \in cable : DeleteCable(o) \/ \E c \in Cables : UpdateCable(o, c)

RowStep ==
    \/ \E v \in VlanIds : AddVlan(v) \/ RemoveVlan(v)
    \/ \E r \in AccessPorts : AddAccess(r)
    \/ \E r \in Svis, auto \in BOOLEAN : AddSvi(r, auto)
    \/ \E r \in Subifs : AddSubif(r)
    \/ \E r \in Loopbacks : AddLoop(r)
    \/ \E r \in Plains : AddPlain(r)
    \/ \E r \in access \cup svi \cup subif \cup loop \cup plain : RemoveItem(r)

BuildStep ==
    \/ \E t \in Templates, planned, typed \in BOOLEAN : QuickAdd(t, planned, typed)
    \/ \E t, u \in Templates, planned \in BOOLEAN, type \in {"physical", "routed"} :
          Blueprint(t, u, planned, type)
    \/ \E S \in SUBSET Ids : Duplicate(S)
    \/ \E nodes \in Seq(LabNodes), joins \in Seq(LabJoins), typed \in BOOLEAN :
          ImportLab(nodes, joins, typed)
    \/ \E m \in Messages : ImportChat(m)

TrashStep ==
    \/ \E d \in Ids, undoable \in BOOLEAN : DeleteDevice(d, undoable)
    \/ \E t \in bin : UndoDelete(t)

VersionStep ==
    \/ CreateVersion
    \/ \E i \in DOMAIN version : DeleteVersion(i)
    \/ \E i \in DOMAIN version, prune \in BOOLEAN : RestoreVersion(i, prune)

TopologyInit == InventoryInit /\ DiagramInit /\ VersionsInit
TopologyNext ==
    \/ /\ DeviceStep \/ CableStep \/ RowStep \/ BuildStep \/ TrashStep
       /\ undo' = None /\ UNCHANGED version
    \/ VersionStep
TopologySpec == TopologyInit /\ [][TopologyNext]_vsVars

----------------------------------------------------------------------------
(* Properties *)

VersionsTypeOK ==
    /\ DiagramTypeOK
    /\ Len(version) <= MaxVersions
    /\ \A i \in DOMAIN version : version[i].auto \in BOOLEAN

(* Housekeeping never costs a version somebody saved by hand: one leaves only     *)
(* when it is deleted, so never in a step that stores another.                    *)
SavedByHandIsKept ==
    [][\A i \in DOMAIN version :
          /\ ~version[i].auto
          /\ \A j \in DOMAIN version' : version'[j] # version[i]
          => Len(version') < Len(version)]_vsVars

(* "Restoring therefore keeps devices that still exist so their SSH logins        *)
(* survive": only a restore with prune takes a device away, and no restore, also    *)
(* one that stops halfway, gives a device that was there another id or login.       *)
RestoreKeepsLogins ==
    [][undo' # undo /\ undo' # None =>
         \A d \in Live : IF device'[d] = None THEN undo'.prune
                        ELSE device'[d].uid = device[d].uid /\ login'[d] = login[d]]_vsVars

(* "A restore first saves the current state as an automatic version, so it can    *)
(* itself be undone": right after a restore the version it saved can be restored.  *)
RestoreCanBeUndone == undo # None => Restorable(undo.doc)
=============================================================================
