----------------------------- MODULE MCVersions -----------------------------
(***************************************************************************)
(* Instances of Versions, and with it of Inventory and Diagram.  The focus    *)
(* chosen at the start says which operations a behaviour uses, so that the    *)
(* parts are explored side by side instead of multiplied: device rows and     *)
(* undo, cables, imported labs, design rows, and versions.                   *)
(***************************************************************************)
EXTENDS Versions, TLC

CONSTANT Focuses
VARIABLE focus
vars == <<vsVars, focus>>

Router == [type |-> "ios", role |-> "core", kind |-> "router"]
Switch == [type |-> "ios", role |-> "access", kind |-> "switch"]
Pc == [type |-> "generic", role |-> "host", kind |-> "pc"]
As(t, n, planned, ip) == [name |-> n, type |-> t.type, role |-> t.role, kind |-> t.kind,
                          planned |-> planned, ip |-> ip]
MCNets == ("plain" :> None) @@ ("addressed" :> 1)

(* Labs to import: a switch cabled to a PC twice over and to a node nobody knows, and    *)
(* two nodes of one name or of one address that are cabled together                   *)
At(t, n, ip) == [t |-> t, name |-> n, ip |-> ip]
Join(i, j, p) == [i |-> i, pi |-> p, j |-> j, pj |-> p]
Labs == {[nodes |-> <<At(Switch, 1, None), At(Pc, 2, None)>>,
          joins |-> <<Join(1, 2, 1), Join(2, 1, 1)>>],
         [nodes |-> <<At(None, 1, None), At(Router, 2, None)>>, joins |-> <<Join(1, 2, 1)>>],
         [nodes |-> <<At(Switch, 1, None), At(Router, 1, None)>>, joins |-> <<Join(1, 2, 1)>>],
         [nodes |-> <<At(Switch, 1, None), At(Router, 2, 1)>>, joins |-> <<Join(1, 2, 1)>>]}

Init ==
    /\ focus \in Focuses
    /\ InventoryInit /\ DiagramInit /\ VersionsInit

Aside(A) == A /\ UNCHANGED <<diagram, imported, bin>>

(* device rows, their logins, deletion and undo *)
Devices ==
    /\ focus = "devices"
    /\ \/ \E n \in Names, ip \in {1, None}, planned \in BOOLEAN :
             Aside(CreateDevice(As(Switch, n, planned, ip), n = 1, FALSE))
       \/ Aside(CreateDevice(As(Pc, 2, FALSE, None), FALSE, FALSE))
       \/ Aside(CreateDevice(As(Switch, 1, FALSE, 1), FALSE, TRUE))
       \/ Aside(ImportCsv(<<As(Switch, 1, FALSE, 1), As(Pc, 2, FALSE, None)>>, FALSE))
       \/ \E d \in Live, n \in Names :
             Aside(UpdateDevice(d, [Shape(device[d]) EXCEPT !.name = n], None))
       \/ \E d \in Live, cred \in {"typed", "project"} :
             Aside(UpdateDevice(d, Shape(device[d]), cred))
       \/ \E d \in Live, typed \in BOOLEAN : Aside(ProvisionDevice(d, 1, typed))
       \/ \E blank \in BOOLEAN : Aside(PutDefault(blank))
       \/ Aside(DropDefault)
       \/ \E scope \in {"missing", "all"} : Aside(ApplyDefault(scope))
       \/ Aside(JoinGroup(1)) \/ Aside(LeaveGroup(1)) \/ Aside(MakeRecord(2))
       \/ Aside(OpenChange(1)) \/ Aside(CloseChange(1))
       \/ \E d \in Ids, undoable \in BOOLEAN : DeleteDevice(d, undoable)
       \/ \E t \in bin : UndoDelete(t)
    /\ born' <= 2 /\ Cardinality(member') + Cardinality(record') <= 1
    /\ UNCHANGED <<version, undo, focus>>

(* cables and the requests that make several *)
Cabling ==
    /\ focus = "cables"
    /\ \/ QuickAdd(Switch, TRUE, FALSE)
       \/ \E type \in {"physical", "routed"} : Blueprint(Router, Switch, TRUE, type)
       \/ \E S \in SUBSET Live : Duplicate(S)
       \/ ImportChat("plain")
       \/ \E a, b \in Live, p \in Ports, type \in LinkTypes, net \in {Mgmt, 1, None},
             chan \in Channels \cup {None} :
             CreateCable([a |-> a, pa |-> p, b |-> b, pb |-> p, type |-> type, net |-> net,
                          vlans |-> None, chan |-> chan])
       \/ \E o \in cable, type \in LinkTypes, net \in {1, None}, vlans \in {None, {1}},
             chan \in Channels \cup {None} :
             /\ type = "trunk" \/ vlans = None
             /\ cable = {o} /\ bin = {}
             /\ UpdateCable(o, [o EXCEPT !.type = type, !.net = net, !.vlans = vlans, !.chan = chan])
       \/ \E o \in cable : DeleteCable(o)
       \/ \E d \in Ids : DeleteDevice(d, TRUE)
       \/ \E t \in bin : UndoDelete(t)
    /\ UNCHANGED <<version, undo, focus>>

(* labs imported into an empty diagram or next to a device *)
Importing ==
    /\ focus = "labs"
    /\ \/ born = 0 /\ QuickAdd(Switch, TRUE, FALSE)
       \/ \E lab \in Labs, typed \in BOOLEAN : ImportLab(lab.nodes, lab.joins, typed)
       \/ \E d \in Ids : DeleteDevice(d, TRUE)
       \/ \E t \in bin : UndoDelete(t)
       \/ \E o \in cable : DeleteCable(o)
       \/ Aside(PutDefault(FALSE))
    /\ UNCHANGED <<version, undo, focus>>

(* design rows, and the edits of a device that change what its rows may be *)
Rows ==
    \/ \E v \in VlanIds : AddVlan(v) \/ RemoveVlan(v)
    \/ \E r \in access \cup svi \cup subif \cup loop \cup plain : RemoveItem(r)
    \/ \E d \in Live, p \in {1}, v \in VlanIds, n \in {1, Mgmt}, auto \in BOOLEAN :
          \/ AddAccess([dev |-> d, port |-> p, vlan |-> v])
          \/ AddSvi([dev |-> d, vlan |-> v, net |-> IF auto THEN SviNet(v) ELSE n], auto)
          \/ AddSubif([dev |-> d, port |-> p, vlan |-> v, net |-> n])
          \/ AddLoop([dev |-> d, net |-> n])
    \/ \E d \in Live \cap {1}, k \in {"route", "ospf"} : AddPlain([dev |-> d, kind |-> k])
Retype ==
    \E d \in Live, t \in {Router, Switch} :
       Aside(UpdateDevice(d, [Shape(device[d]) EXCEPT !.role = t.role, !.kind = t.kind], None))
Designing ==
    /\ focus = "design"
    /\ \/ \E t \in {Router, Switch} : born < 2 /\ QuickAdd(t, TRUE, FALSE)
       \/ Rows \/ Retype
       \/ \E net \in {None, 1}, type \in {"physical", "routed"} :
             Cardinality(Live) = 2 /\ CreateCable(Link(1, 1, 2, 1, type, net, None))
       \/ \E d \in Ids : DeleteDevice(d, TRUE)
       \/ \E t \in bin : UndoDelete(t)
    /\ Cardinality(access') + Cardinality(svi') + Cardinality(subif') + Cardinality(loop')
          + Cardinality(plain') <= 2
    /\ UNCHANGED <<version, undo, focus>>

(* versions over small diagrams *)
Versioning ==
    /\ focus = "versions"
    /\ \/ CreateVersion
       \/ \E i \in DOMAIN version : DeleteVersion(i)
       \/ \E i \in DOMAIN version, prune \in BOOLEAN : RestoreVersion(i, prune)
       \/ /\ \/ QuickAdd(Switch, FALSE, TRUE)
             \/ Aside(CreateDevice(As(Switch, 2, FALSE, 1), FALSE, FALSE))
             \/ ImportChat("addressed")
             \/ \E v \in VlanIds : AddVlan(v)
             \/ \E d \in Live, v \in VlanIds : AddAccess([dev |-> d, port |-> 1, vlan |-> v])
             \/ Aside(UpdateDevice(1, [Shape(device[1]) EXCEPT !.role = "core", !.kind = "router"], None))
             \/ record = {} /\ Aside(MakeRecord(1))
             \/ DeleteDevice(1, FALSE)
          /\ undo' = None /\ UNCHANGED version
    /\ born' <= 2
    /\ UNCHANGED focus

Next == Devices \/ Cabling \/ Importing \/ Designing \/ Versioning
Spec == Init /\ [][Next]_vars
=============================================================================
