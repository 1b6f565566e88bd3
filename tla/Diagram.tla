------------------------------- MODULE Diagram -------------------------------
(***************************************************************************)
(* The topology of one project: cables between device ports, the design     *)
(* rows (VLANs, access ports, SVIs, subinterfaces, loopbacks, routes, OSPF),  *)
(* and the operations that build or remove several of them at once.  Models  *)
(* topology/service.py, design.py, ipam.py, templates.py, blueprints.py,     *)
(* chat_import.py and devices/trash.py.                                     *)
(*                                                                         *)
(* Networks are numbered, pairwise disjoint blocks (0 is the management     *)
(* network), so overlap is equality; a port is its canonical label.         *)
(* A request is one step.                                                   *)
(***************************************************************************)
EXTENDS Inventory

CONSTANTS Ports,      \* 1..n, lowest first
          VlanIds, Nets, Channels,
          MaxLinks,   \* MAX_LINKS_PER_PROJECT
          MaxTokens,  \* bound: restore tokens handed out
          Messages,   \* chat messages that carry a diagram
          ChatNet     \* message -> the network its link declares, or None
ASSUME DiagramAssumption ==
    /\ Ports \subseteq Nat /\ Ports # {} /\ IsFiniteSet(Ports)
    /\ Nets \subseteq Nat \ {0} /\ IsFiniteSet(Nets)
    /\ MaxLinks \in Nat /\ MaxTokens \in Nat
    /\ ChatNet \in [Messages -> Nets \cup {None}]

VARIABLES cable,     \* topology_links
          vlan,      \* design_vlans
          access,    \* [dev, port, vlan]
          svi,       \* [dev, vlan, net]
          subif,     \* [dev, port, vlan, net]
          loop,      \* loopbacks, [dev, net]: net is the block the address lies in
          plain,     \* routes and OSPF processes, [dev, kind]
          imported,  \* messages marked as imported into this project
          bin        \* restore tokens

design == <<vlan, access, svi, subif, loop, plain>>
diagram == <<cable, design>>
dgVars == <<invVars, diagram, imported, bin>>

Mgmt == 0
LinkTypes == {"physical", "routed", "trunk"}
SwitchRoles == {"access"}
Cables == [a : Ids, pa : Ports, b : Ids, pb : Ports, type : LinkTypes,
           net : Nets \cup {Mgmt, None}, vlans : {None} \cup SUBSET VlanIds,
           chan : Channels \cup {None}]
AccessPorts == [dev : Ids, port : Ports, vlan : VlanIds]
Svis == [dev : Ids, vlan : VlanIds, net : Nets]
Subifs == [dev : Ids, port : Ports, vlan : VlanIds, net : Nets]
Loopbacks == [dev : Ids, net : Nets]
Plains == [dev : Ids, kind : {"route", "ospf"}]

DiagramInit ==
    /\ cable = {} /\ vlan = {} /\ access = {} /\ svi = {} /\ subif = {}
    /\ loop = {} /\ plain = {} /\ imported = {} /\ bin = {}

----------------------------------------------------------------------------
(* Cables *)

Pair(c) == {c.a, c.b}
Ends(c) == {<<c.a, c.pa>>, <<c.b, c.pb>>}
EndsFree(c, others) == \A o \in others : Ends(o) \cap Ends(c) = {}

(* _finalize_fields and _resolve_routed: only the other cables' networks and   *)
(* the management network are looked at.                                       *)
FieldsOk(c, others) ==
    /\ c.type = "routed" => /\ c.net \in Nets /\ c.vlans = None
                            /\ \A o \in others : o.net # c.net
    /\ c.type = "trunk" => c.net = None
    /\ c.type = "physical" => c.net = None /\ c.vlans = None

(* _check_channel *)
ChannelOk(c, others) ==
    c.chan # None =>
        /\ c.type = "trunk"
        /\ \A o \in others : o.chan = c.chan /\ Pair(o) \cap Pair(c) # {}
                             => Pair(o) = Pair(c) /\ o.vlans = c.vlans

CreateCable(c) ==
    /\ c.a # c.b /\ Pair(c) \subseteq Live
    /\ EndsFree(c, cable)
    /\ Cardinality(cable) < MaxLinks
    /\ FieldsOk(c, cable) /\ ChannelOk(c, cable)
    /\ cable' = cable \cup {c}
    /\ UNCHANGED <<invVars, design, imported, bin>>

(* update_link: the ends are fixed; a cable that is no trunk leaves its channel. *)
UpdateCable(o, c) ==
    /\ o \in cable /\ Ends(o) = Ends(c) /\ c.a = o.a
    /\ c.type # "trunk" => c.chan = None
    /\ FieldsOk(c, cable \ {o}) /\ ChannelOk(c, cable \ {o})
    /\ cable' = (cable \ {o}) \cup {c}
    /\ UNCHANGED <<invVars, design, imported, bin>>

DeleteCable(o) ==
    /\ o \in cable
    /\ cable' = cable \ {o}
    /\ UNCHANGED <<invVars, design, imported, bin>>

(* ipam.used_networks and allocate; next_free_interface *)
CableNets == {o.net : o \in cable} \ {None}
FreeNets == Nets \ (CableNets \cup {s.net : s \in svi})
FreePorts(d) == {p \in Ports : /\ \A o \in cable : <<d, p>> \notin Ends(o)
                               /\ \A r \in access : r.dev = d => r.port # p}

----------------------------------------------------------------------------
(* Design rows.  The guards are operators of the rows they are checked         *)
(* against, because restoring a version checks them against the rows restored   *)
(* so far.                                                                     *)

IsSwitch(x) == x.type = "ios" /\ x.role \in SwitchRoles
IsRouter(x) == x.type = "ios" /\ x.kind = "router" /\ x.role \notin SwitchRoles

(* _used_networks: an SVI or subinterface may share the network of its own VLAN. *)
NetOk(r, cables, nets) == /\ r.net # Mgmt
                          /\ \A o \in cables : o.net # r.net
                          /\ \A s \in nets : s.net = r.net => s.vlan = r.vlan
AccessOk(r, x, cables, vlans, rows) ==
    /\ IsSwitch(x) /\ r.vlan \in vlans
    /\ \A o \in cables : <<r.dev, r.port>> \notin Ends(o)
    /\ \A q \in rows : <<q.dev, q.port>> # <<r.dev, r.port>>
SviOk(r, x, cables, vlans, rows, subifs) ==
    /\ IsSwitch(x) /\ r.vlan \in vlans
    /\ \A q \in rows : <<q.dev, q.vlan>> # <<r.dev, r.vlan>>
    /\ NetOk(r, cables, rows \cup subifs)
SubifOk(r, x, cables, vlans, svis, rows) ==
    /\ IsRouter(x) /\ r.vlan \in vlans
    /\ \A o \in cables : o.type = "routed" => <<r.dev, r.port>> \notin Ends(o)
    /\ \A q \in rows : <<q.dev, q.port, q.vlan>> # <<r.dev, r.port, r.vlan>>
    /\ NetOk(r, cables, svis \cup rows)
LoopOk(r, x, cables, nets, rows) ==
    /\ x.type = "ios" /\ r.net # Mgmt
    /\ \A q \in rows : q.dev # r.dev /\ q.net # r.net
    /\ \A o \in cables \cup nets : o.net # r.net
(* a route may sit on an ASA; setting OSPF again edits the one process *)
PlainOk(r, x, rows) == /\ r.kind = "route" => x.type \in {"ios", "asa"} /\ r \notin rows
                       /\ r.kind = "ospf" => x.type = "ios"

AddVlan(v) ==
    /\ v \notin vlan
    /\ vlan' = vlan \cup {v}
    /\ UNCHANGED <<invVars, cable, access, svi, subif, loop, plain, imported, bin>>
RemoveVlan(v) ==
    /\ v \in vlan /\ \A r \in access \cup svi \cup subif : r.vlan # v
    /\ vlan' = vlan \ {v}
    /\ UNCHANGED <<invVars, cable, access, svi, subif, loop, plain, imported, bin>>

AddAccess(r) ==
    /\ r.dev \in Live /\ AccessOk(r, device[r.dev], cable, vlan, access)
    /\ access' = access \cup {r}
    /\ UNCHANGED <<invVars, cable, vlan, svi, subif, loop, plain, imported, bin>>
(* "auto" takes the VLAN's network if it has one, else ipam's lowest free one *)
SviNet(v) == IF \E s \in svi : s.vlan = v THEN (CHOOSE s \in svi : s.vlan = v).net
             ELSE IF FreeNets = {} THEN Mgmt ELSE Lowest(FreeNets, 1)
AddSvi(r, auto) ==
    /\ r.dev \in Live
    /\ auto => r.net = SviNet(r.vlan)
    /\ SviOk(r, device[r.dev], cable, vlan, svi, subif)
    /\ svi' = svi \cup {r}
    /\ UNCHANGED <<invVars, cable, vlan, access, subif, loop, plain, imported, bin>>
AddSubif(r) ==
    /\ r.dev \in Live /\ SubifOk(r, device[r.dev], cable, vlan, svi, subif)
    /\ subif' = subif \cup {r}
    /\ UNCHANGED <<invVars, cable, vlan, access, svi, loop, plain, imported, bin>>
AddLoop(r) ==
    /\ r.dev \in Live /\ LoopOk(r, device[r.dev], cable, svi \cup subif, loop)
    /\ loop' = loop \cup {r}
    /\ UNCHANGED <<invVars, cable, vlan, access, svi, subif, plain, imported, bin>>
AddPlain(r) ==
    /\ r.dev \in Live /\ PlainOk(r, device[r.dev], plain)
    /\ plain' = plain \cup {r}
    /\ UNCHANGED <<invVars, cable, vlan, access, svi, subif, loop, imported, bin>>
RemoveItem(r) ==
    /\ r \in access \cup svi \cup subif \cup loop \cup plain
    /\ access' = access \ {r} /\ svi' = svi \ {r} /\ subif' = subif \ {r}
    /\ loop' = loop \ {r} /\ plain' = plain \ {r}
    /\ UNCHANGED <<invVars, cable, vlan, imported, bin>>

----------------------------------------------------------------------------
(* Deleting a device, and undoing it *)

On(rows, S) == {r \in rows : r.dev \in S}
TouchingFirst(S) == {o \in cable : o.a \in S}
Touching(S) == {o \in cable : Pair(o) \cap S # {}}

(* purge_devices, the topology's rows *)
PurgeDesign(S) ==
    /\ cable' = cable \ Touching(S)
    /\ access' = access \ On(access, S) /\ svi' = svi \ On(svi, S)
    /\ subif' = subif \ On(subif, S) /\ loop' = loop \ On(loop, S)
    /\ plain' = plain \ On(plain, S)
    /\ UNCHANGED vlan

(* trash.snapshot *)
Token(d) == [id |-> d, dev |-> device[d], login |-> login[d],
             grouped |-> \E m \in member : m.dev = d,
             access |-> On(access, {d}), svi |-> On(svi, {d}), subif |-> On(subif, {d}),
             loop |-> On(loop, {d}), plain |-> On(plain, {d}), cables |-> Touching({d})]

DeleteDevice(d, undoable) ==
    /\ Deletable(d)
    /\ undoable => Cardinality(bin) < MaxTokens
    /\ bin' = IF undoable THEN bin \cup {Token(d)} ELSE bin
    /\ PurgeRows({d}, device, login)
    /\ PurgeDesign({d})
    /\ UNCHANGED <<record, default, born, imported>>

(* trash.restore: the old id if it is free, else a new one.  The rows come back *)
(* under that id without the design's checks (only the loopback's unique index  *)
(* can refuse them); a cable is skipped when an end is gone or a port is taken.  *)
RestoredId(t) == IF device[t.id] = None THEN t.id ELSE LastId + 1
Moved(rows, d) == {[r EXCEPT !.dev = d] : r \in rows}
Recabled(c, t, d) == [c EXCEPT !.a = IF @ = t.id THEN d ELSE @, !.b = IF @ = t.id THEN d ELSE @]
UndoDelete(t) ==
    LET d == RestoredId(t)
        back == {Recabled(c, t, d) : c \in t.cables}
    IN  /\ t \in bin /\ d \in Ids
        /\ Unique(t.dev, {})
        /\ \A r \in t.loop : \A q \in loop : q.net # r.net
        /\ device' = [device EXCEPT ![d] = t.dev]
        /\ login' = [login EXCEPT ![d] = t.login]
        /\ member' = IF t.grouped THEN member \cup {[dev |-> d, uid |-> t.dev.uid]} ELSE member
        /\ access' = access \cup Moved(t.access, d) /\ svi' = svi \cup Moved(t.svi, d)
        /\ subif' = subif \cup Moved(t.subif, d) /\ loop' = loop \cup Moved(t.loop, d)
        /\ plain' = plain \cup Moved(t.plain, d)
        /\ cable' = cable \cup {c \in back : Pair(c) \subseteq Live \cup {d} /\ EndsFree(c, cable)}
        /\ UNCHANGED <<record, change, default, born, vlan, imported, bin>>

----------------------------------------------------------------------------
(* Building several devices and cables in one request *)

Link(a, pa, b, pb, type, net, vlans) ==
    [a |-> a, pa |-> pa, b |-> b, pb |-> pb, type |-> type, net |-> net, vlans |-> vlans,
     chan |-> None]

(* quick_add_device and Builder.device: the templates, with the lowest free    *)
(* names and management addresses.                                             *)
Templates == {[type |-> "ios", role |-> "core", kind |-> "router"],
              [type |-> "ios", role |-> "access", kind |-> "switch"],
              [type |-> "generic", role |-> "host", kind |-> "pc"]}
Templated(t, planned, name, ip) ==
    [name |-> name, type |-> t.type, role |-> t.role, kind |-> t.kind,
     planned |-> planned /\ Managed(t), ip |-> ip]

QuickAdd(t, planned, typed) ==
    LET needsIp == Managed(t) /\ ~planned
    IN  /\ FreeNames # {}
        /\ needsIp => FreeIps # {}
        /\ AddDevices(<<Templated(t, planned, Lowest(FreeNames, 1),
                                  IF needsIp THEN Lowest(FreeIps, 1) ELSE None)>>,
                      typed /\ needsIp)
        /\ UNCHANGED <<diagram, imported, bin>>

(* blueprints.build, for its smallest shape: two templates and the cable that   *)
(* joins them, routed over the next free network or plain.  What fails is       *)
(* purged again, so only the complete blueprint is a step.                      *)
Blueprint(t, u, planned, type) ==
    LET ts == <<t, u>>
        ipRank(i) == Cardinality({j \in 1 .. i : Managed(ts[j])})
        needs(i) == Managed(ts[i]) /\ ~planned
        batch == [i \in 1 .. 2 |->
                    Templated(ts[i], planned, Lowest(FreeNames, i),
                              IF needs(i) THEN Lowest(FreeIps, ipRank(i)) ELSE None)]
        c == Link(LastId + 1, Lowest(Ports, 1), LastId + 2, Lowest(Ports, 1), type,
                  IF type = "routed" THEN Lowest(FreeNets, 1) ELSE None, None)
    IN  /\ Cardinality(FreeNames) >= 2
        /\ ~planned => Cardinality(FreeIps) >= ipRank(2)
        /\ type = "routed" => FreeNets # {}
        /\ Cardinality(cable) < MaxLinks
        /\ FieldsOk(c, cable)
        /\ AddDevices(batch, FALSE)
        /\ cable' = cable \cup {c}
        /\ UNCHANGED <<design, imported, bin>>

(* duplicate_devices: copies under fresh names and addresses; their cables among *)
(* each other come along, a routed one as a plain cable.  A failure purges the   *)
(* copies, so only the complete copy is a step.                                  *)
Rank(S, d) == Cardinality({e \in S : e <= d})
Duplicate(S) ==
    LET orig(i) == CHOOSE d \in S : Rank(S, d) = i
        copied(d) == LastId + Rank(S, d)
        addressed == {d \in S : Deployable(device[d])}
        batch == [i \in 1 .. Cardinality(S) |->
                    LET d == orig(i) IN
                    [Shape(device[d]) EXCEPT
                        !.name = Lowest(FreeNames, i),
                        !.ip = IF d \in addressed THEN Lowest(FreeIps, Rank(addressed, d))
                               ELSE None]]
        among == {o \in cable : Pair(o) \subseteq S}
        copies == {Link(copied(o.a), o.pa, copied(o.b), o.pb,
                        IF o.type = "trunk" THEN "trunk" ELSE "physical", None,
                        IF o.type = "trunk" THEN o.vlans ELSE None) : o \in among}
    IN  /\ S # {} /\ S \subseteq Live
        /\ Cardinality(S) <= Cardinality(FreeNames)
        /\ Cardinality(addressed) <= Cardinality(FreeIps)
        /\ Cardinality(cable) + Cardinality(copies) <= MaxLinks
        /\ AddDevices(batch, FALSE)
        /\ cable' = cable \cup copies
        /\ UNCHANGED <<design, imported, bin>>

(* import_lab: the chosen nodes of a PNETLab lab, each [t, name, ip] with t None for *)
(* a template nobody knows and ip None for the next default address, which a node   *)
(* takes whether or not it is created in the end.  A node whose name is there stands *)
(* for that device; one that clashes or is beyond the quota is left out.            *)
Supported(nodes) == {i \in DOMAIN nodes : nodes[i].t # None}
Addressed(nodes) == {i \in Supported(nodes) : Managed(nodes[i].t)}
NodeIp(nodes, i) ==
    IF i \notin Addressed(nodes) THEN None
    ELSE IF nodes[i].ip # None THEN nodes[i].ip
    ELSE Lowest(FreeIps, Rank({j \in Addressed(nodes) : nodes[j].ip = None}, i))
FromNode(nodes, i) == Templated(nodes[i].t, FALSE, nodes[i].name, NodeIp(nodes, i))
Made(nodes) ==
    LET made[n \in 0 .. Len(nodes)] ==
            IF n = 0 THEN {}
            ELSE LET x == FromNode(nodes, n)
                     fresh == \A j \in made[n - 1] :
                                 LET y == FromNode(nodes, j) IN
                                 y.name # x.name /\ (x.ip # None => y.ip # x.ip)
                 IN  IF /\ n \in Supported(nodes)
                        /\ Unique(x, {}) /\ fresh
                        /\ Cardinality(Live) + Cardinality(made[n - 1]) < MaxDevices
                     THEN made[n - 1] \cup {n} ELSE made[n - 1]
    IN  made[Len(nodes)]

LabNodes == [t : Templates \cup {None}, name : Names, ip : Ips \cup {None}]
LabJoins == [i : Nat, pi : Ports, j : Nat, pj : Ports]

(* by_node: the device a node has become or stands for *)
ByNode(nodes, made, i) ==
    LET same == {d \in Live : device[d].name = nodes[i].name}
        twins == {j \in made : j <= i /\ nodes[j].name = nodes[i].name}
    IN  IF i \notin Supported(nodes) THEN None
        ELSE IF same # {} THEN CHOOSE d \in same : TRUE
        ELSE IF twins # {} THEN LastId + Rank(made, CHOOSE j \in twins : TRUE)
        ELSE None
(* its cables one after the other, each [i, pi, j, pj]; create_link refuses some *)
Joined(nodes, made, joins) ==
    LET by(i) == ByNode(nodes, made, i)
        c(k) == Link(by(joins[k].i), joins[k].pi, by(joins[k].j), joins[k].pj, "physical", None, None)
        cables[k \in 0 .. Len(joins)] ==
            IF k = 0 THEN cable
            ELSE IF /\ None \notin Pair(c(k)) /\ c(k).a # c(k).b
                    /\ EndsFree(c(k), cables[k - 1])
                    /\ Cardinality(cables[k - 1]) < MaxLinks
                 THEN cables[k - 1] \cup {c(k)} ELSE cables[k - 1]
    IN  cables[Len(joins)]
ImportLab(nodes, joins, typed) ==
    LET made == Made(nodes)
        chosen(k) == CHOOSE i \in made : Rank(made, i) = k
    IN  /\ Cardinality(FreeIps) > Len(nodes)
        /\ AddDevices([k \in 1 .. Cardinality(made) |-> FromNode(nodes, chosen(k))], typed)
        /\ cable' = Joined(nodes, made, joins)
        /\ UNCHANGED <<design, imported, bin>>

(* import_diagram: a planned router and a planned switch joined by a cable that  *)
(* keeps the network the message declares; imported at most once per project.    *)
ImportChat(m) ==
    LET batch == <<[name |-> Lowest(FreeNames, 1), type |-> "ios", role |-> "core",
                    kind |-> "router", planned |-> TRUE, ip |-> None],
                   [name |-> Lowest(FreeNames, 2), type |-> "ios", role |-> "access",
                    kind |-> "switch", planned |-> TRUE, ip |-> None]>>
    IN  /\ m \notin imported /\ Cardinality(FreeNames) >= 2
        /\ Cardinality(cable) < MaxLinks
        /\ AddDevices(batch, FALSE)
        /\ cable' = cable \cup {Link(LastId + 1, Lowest(Ports, 1), LastId + 2, Lowest(Ports, 1),
                                     "physical", ChatNet[m], None)}
        /\ imported' = imported \cup {m}
        /\ UNCHANGED <<design, bin>>

----------------------------------------------------------------------------
(* Type invariant. *)
DiagramTypeOK ==
    /\ InventoryTypeOK
    /\ cable \subseteq Cables /\ vlan \subseteq VlanIds
    /\ access \subseteq AccessPorts /\ svi \subseteq Svis /\ subif \subseteq Subifs
    /\ loop \subseteq Loopbacks /\ plain \subseteq Plains
    /\ imported \subseteq Messages

(* No cable and no design row ends on a device that is gone: the schema's       *)
(* cascades are not enforced, so every delete, undo, restore and rollback has    *)
(* to keep this by itself; export_project reads link.device_a.hostname and would *)
(* fail for the whole project.                                                  *)
NothingDangles ==
    /\ \A o \in cable : Pair(o) \subseteq Live
    /\ \A r \in access \cup svi \cup subif \cup loop \cup plain : r.dev \in Live
==============================================================================
