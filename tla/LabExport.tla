------------------------------ MODULE LabExport ------------------------------
(***************************************************************************)
(* Pushing a project's diagram to a PNETLab server as a new lab              *)
(* (topology/pnetlab_export.py over integrations/pnetlab_writer.py and       *)
(* pnetlab.py), the background jobs that do it (topology/bootstrap_jobs.py)  *)
(* and the login remembered for the server (integrations/saved_login.py).     *)
(*                                                                          *)
(* Every call to the server is a step: it is done, refused, or its answer is   *)
(* lost.  Other people work on the same server.                               *)
(***************************************************************************)
EXTENDS Bootstrap

CONSTANTS Hand,       \* somebody working on the PNETLab server
          Hosts,      \* addresses of the management network, 1..n
          Taken,      \* those of other projects' devices and of the server
          Templates,  \* the kinds this server has a template for
          Links,      \* the diagram's cables in id order, [a, pa, b, pb]
          ActualPort, \* device -> index planned -> index the server reports for it
          LabFileName,\* lab name typed in -> the file PNETLab keeps it in, or None
          MaxTries,   \* rounds that fit in PNETLAB_BOOT_TIMEOUT
          MaxSpent    \* bound: restarts and what others do on the server

(* Rows of the tables and of the server: what a device has, what a node runs, a   *)
(* lab file, and what a session captured.                                       *)
Texts == STRING \cup {"admin"}    \* a string, with one of them said by name
Logins == [user : Texts, pass : Texts]
Networked == {None} \cup SUBSET (Devices \cup Cloud0)
LabRows == [owner : Jobs \cup {Hand}, nets : SUBSET Networked]
SeenRows == [ip : Nat \cup {None}, login : Logins]
ASSUME LabAssumption ==
    /\ Hosts \subseteq Nat /\ IsFiniteSet(Hosts)
    /\ \A l \in DOMAIN LabFileName : LabFileName[l] \in Paths \cup {None}
    /\ Hand \notin Jobs
    /\ None \notin LabRows /\ None \notin SeenRows

VARIABLES lab,    \* lab file -> [owner, nets], or None
          saved,  \* the server whose login is remembered, or None
          spent   \* how much of MaxSpent is used

labVars == <<row, node, job, lab, saved, spent>>

(***************************************************************************)
(* The plan: what each device becomes, and which port each cable uses          *)
(***************************************************************************)
Networks == {"cloud", "segment"}
NodeKinds == Supported \cup {"asa", "pc"}
Exported == {d \in Devices : Kind[d] \in NodeKinds \cap Templates}
NetworkName(d) == IF Kind[d] = "cloud" THEN Cloud0 ELSE {d}

(* An interface is <<slot, port>>, and <<>> a management port. *)
InterfaceIndex(d, i) ==
    IF Kind[d] = "pc" THEN 0
    ELSE IF i = <<>> THEN IF Kind[d] \in {"asa", "firewall"} THEN 0 ELSE None
    ELSE IF Kind[d] = "asa" THEN i[2] + 1
    ELSE IF Kind[d] \in {"switch", "l3_switch"} THEN i[1] * 4 + i[2]
    ELSE i[2]

Ends(l) == <<[dev |-> l.a, port |-> InterfaceIndex(l.a, l.pa)],
             [dev |-> l.b, port |-> InterfaceIndex(l.b, l.pb)]>>
NodeEnds(l) == SelectSeq(Ends(l), LAMBDA e : Kind[e.dev] \notin Networks)
OnTheLab == Exported \cup {d \in Devices : Kind[d] \in Networks}
PortFree(e, used) == e.port # None /\ e \notin used
(* The cables are taken in order.  One whose second port is unusable is left    *)
(* out, but its first port stays used.                                         *)
TakeCable(l, acc) ==
    LET ends == NodeEnds(l) IN
    IF ~({l.a, l.b} \subseteq OnTheLab) \/ ends = <<>> THEN acc
    ELSE IF ~PortFree(ends[1], acc.used) THEN acc
    ELSE IF Len(ends) = 1 THEN [cables |-> acc.cables \cup {l}, used |-> acc.used \cup {ends[1]}]
    ELSE IF PortFree(ends[2], acc.used \cup {ends[1]})
         THEN [cables |-> acc.cables \cup {l}, used |-> acc.used \cup {ends[1], ends[2]}]
         ELSE [acc EXCEPT !.used = @ \cup {ends[1]}]
Taking[i \in 0 .. Len(Links)] ==
    IF i = 0 THEN [cables |-> {}, used |-> {}] ELSE TakeCable(Links[i], Taking[i - 1])
PlanCables == Taking[Len(Links)].cables
PlanUsed == Taking[Len(Links)].used
ManagementPort(d) == First({i \in PortNumbers : [dev |-> d, port |-> i] \notin PlanUsed})

(* A designed device gets its address during the bring-up. *)
AutoIp(j) == {d \in Exported : /\ job[j].req.bringUp /\ Kind[d] \in Supported /\ row[d].planned}
ManagedNodes(j) ==
    {d \in Exported : job[j].req.cloud /\ Managed(d) /\ (row[d].ip # None \/ d \in AutoIp(j))}
PlanNetworks(j) ==
    {NetworkName(d) : d \in {e \in Devices : Kind[e] \in Networks}}
    \cup (IF ManagedNodes(j) = {} THEN {} ELSE {Cloud0})
NoPlan == [auto |-> {}, management |-> {}, networks |-> {}, ip |-> [d \in Devices |-> None]]
ThePlan(j) == [auto |-> AutoIp(j), management |-> ManagedNodes(j), networks |-> PlanNetworks(j),
               ip |-> [d \in Devices |-> IF d \in AutoIp(j) THEN row[d].ip ELSE None]]

(***************************************************************************)
(* Jobs                                                                       *)
(***************************************************************************)
Idle == [status |-> "none", pc |-> "none", req |-> None, plan |-> NoPlan, todo |-> {}, pending |-> {},
         seen |-> [d \in Devices |-> None], k |-> 1, bad |-> FALSE, as |-> None, tries |-> 0,
         late |-> FALSE, asked |-> FALSE,
         result |-> [d \in Devices |-> None]]
Gone == [Idle EXCEPT !.pc = "ended"]
Finished == {"done", "error"}

(* fill_payload: an empty password is filled only for the server it is saved for *)
Filled(req) == req.typed \/ saved = req.server

(* start, with _prune dropping finished jobs a day old; then _run *)
Start(j, req) ==
    /\ job[j].pc = "none"
    /\ Filled(req)
    /\ \E old \in SUBSET {k \in Jobs : job[k].status \in Finished} :
          job' = [k \in Jobs |-> IF k = j THEN [Idle EXCEPT !.status = "queued", !.pc = "start", !.req = req]
                                 ELSE IF k \in old THEN Gone ELSE job[k]]
    /\ UNCHANGED <<row, node, lab, saved, spent>>
(* The request handlers.  Writing to devices outside the change workflow takes     *)
(* the owner; a lab of its own an editor may build.  The name is the one PNETLab  *)
(* keeps, so that check, opening and roll-back agree on the file.                *)
ValidName(req) == LabFileName[req.name] # None
Validated(req) == [req EXCEPT !.path = LabFileName[req.name]]
StartExport(j, req, role) ==
    /\ req.kind = "export" /\ ValidName(req)
    /\ req.bringUp => role = "owner"
    /\ Start(j, Validated(req))
StartBootstrap(j, req, role) ==
    /\ req.kind = "bootstrap" /\ role = "owner"
    /\ Start(j, req)

Run(j) ==
    /\ job[j].pc = "start"
    /\ job' = [job EXCEPT ![j].status = "running",
                          ![j].pc = IF job[j].req.kind = "export" THEN "login" ELSE "plan"]
    /\ UNCHANGED <<row, node, lab, saved, spent>>
(* _run's end: the job keeps its result and nothing else *)
Finish(j, status) ==
    job' = [job EXCEPT ![j] = [Gone EXCEPT !.status = status, !.result = job[j].result]]

(* PNETLab's answer to a call, or none.  Whatever a job's work raises ends it.   *)
CallFails(j) ==
    /\ job[j].pc \in {"login", "check", "post", "open", "again"}
    /\ Finish(j, "error")
    /\ UNCHANGED <<row, node, lab, saved, spent>>

(* preview and remember: a login that just worked is saved *)
PreviewExport(req) ==
    /\ Filled(req)
    /\ saved' = req.server
    /\ UNCHANGED <<row, node, job, lab, spent>>
Forget == saved' = None /\ UNCHANGED <<row, node, job, lab, spent>>

(***************************************************************************)
(* Creating the lab                                                           *)
(***************************************************************************)
PathOf(j) == job[j].req.path
NodesIn(p) == {d \in Devices : node[<<p, d>>] # None}
Empty(p) == NodesIn(p) = {} /\ lab[p].nets = {}
(* a job that was let into the lab builds there, or takes back what it built *)
Building == {"nodes", "networks", "cables", "rollback"}
Inside(p) == \E j \in Jobs : job[j].pc \in Building /\ PathOf(j) = p
Continue(j, pc) == GoTo(j, pc) /\ UNCHANGED <<row, node, lab, saved, spent>>
CreateFile(p, who) == lab' = [lab EXCEPT ![p] = [owner |-> who, nets |-> {}]]

LogIn(j) ==
    /\ job[j].pc = "login"
    /\ job' = [job EXCEPT ![j].plan = ThePlan(j), ![j].pc = "check"]
    /\ UNCHANGED <<row, node, lab, saved, spent>>
(* folder_problem and lab_exists, which says no of a folder it cannot list *)
CheckName(j) ==
    /\ job[j].pc = "check"
    /\ \/ lab[PathOf(j)] = None /\ Continue(j, "post")
       \/ lab[PathOf(j)] # None /\ Finish(j, "error") /\ UNCHANGED <<row, node, lab, saved, spent>>
       \/ Continue(j, "post")

(* POST /api/labs writes the file unless the name is taken; the answer may be lost. *)
PostLab(j) ==
    /\ job[j].pc = "post"
    /\ \/ /\ lab[PathOf(j)] = None
          /\ CreateFile(PathOf(j), j)
          /\ \/ GoTo(j, "open")
             \/ Finish(j, "error")
          /\ UNCHANGED <<row, node, saved, spent>>
       \/ Continue(j, "again")

(* opened: the session's lab is ours only while nothing is in it *)
OpenedAnyway(j) == job' = [job EXCEPT ![j].pc = "nodes", ![j].todo = Exported, ![j].k = 1]
Opened(j) ==
    IF Empty(PathOf(j))
    THEN job' = [job EXCEPT ![j].pc = "nodes", ![j].todo = Exported, ![j].k = 1]
    ELSE Finish(j, "error")
OpenLab(j) ==
    /\ job[j].pc = "open"
    /\ \/ lab[PathOf(j)] # None /\ Opened(j) /\ UNCHANGED <<row, node, lab, saved, spent>>
       \/ Continue(j, "again")
(* factory/create, in its two forms, opens a lab or creates it *)
FactoryCreate(j) ==
    /\ job[j].pc = "again"
    /\ \/ lab[PathOf(j)] # None /\ Opened(j) /\ UNCHANGED lab
       \/ /\ lab[PathOf(j)] = None
          /\ CreateFile(PathOf(j), j)
          /\ \/ job' = [job EXCEPT ![j].pc = "nodes", ![j].todo = Exported, ![j].k = 1]
             \/ Finish(j, "error")
       \/ /\ IF job[j].k = 1 THEN job' = [job EXCEPT ![j].k = 2] ELSE Finish(j, "error")
          /\ UNCHANGED lab
    /\ UNCHANGED <<row, node, saved, spent>>

(***************************************************************************)
(* Building it                                                                *)
(***************************************************************************)
(* any failure while building leads to the roll-back *)
BuildFails(j) == job[j].pc \in {"nodes", "networks", "cables"} /\ Continue(j, "rollback")

AddNode(j) ==
    LET d == First(job[j].todo) IN
    /\ job[j].pc = "nodes" /\ job[j].todo # {} /\ lab[PathOf(j)] # None
    /\ node' = [node EXCEPT ![<<PathOf(j), d>>] = Blank(d)]
    /\ \/ job' = [job EXCEPT ![j].todo = @ \ {d}, ![j].result[d] = "created"]
       \/ GoTo(j, "rollback")
    /\ UNCHANGED <<row, lab, saved, spent>>
NodesAdded(j) == job[j].pc = "nodes" /\ job[j].todo = {} /\ Continue(j, "networks")
AddNetworks(j) ==
    /\ job[j].pc = "networks" /\ lab[PathOf(j)] # None
    /\ lab' = [lab EXCEPT ![PathOf(j)].nets = job[j].plan.networks]
    /\ GoTo(j, "cables")
    /\ UNCHANGED <<row, node, saved, spent>>

(* What a node's port is cabled to: a network, the cable to another node, Cloud0.  *)
(* A cable goes to the port the server reports under the interface's name, the   *)
(* management cable to the port the plan found free.                            *)
ActualIndex(e) == IF e.port \in PortNumbers THEN ActualPort[e.dev][e.port] ELSE None
OtherEnd(l, d) == IF l.a = d THEN l.b ELSE l.a
CableOf(d, i) ==
    LET at == {l \in PlanCables : \E e \in {Ends(l)[1], Ends(l)[2]} : e.dev = d /\ ActualIndex(e) = i} IN
    IF at = {} THEN None
    ELSE LET o == OtherEnd(CHOOSE l \in at : TRUE, d) IN
         IF Kind[o] \in Networks THEN NetworkName(o) ELSE {d, o}
CabledPorts(j, d) ==
    [i \in PortNumbers |-> IF d \in job[j].plan.management /\ i = ManagementPort(d)
                           THEN Cloud0 ELSE CableOf(d, i)]
CandidateRows == [addr : Nat \cup {None}, users : SUBSET Logins]
NodeRows ==
    [power : {"off", "booting", "up"}, console : {"telnet", "vnc"},
     addr : Nat \cup {None}, users : SUBSET Logins, ssh : BOOLEAN,
     candidate : CandidateRows,
     port : [PortNumbers -> Networked \cup {CableOf(d, i) : d \in Devices, i \in PortNumbers}]]
ASSUME NodeAssumption == None \notin NodeRows
AddCables(j) ==
    /\ job[j].pc = "cables" /\ lab[PathOf(j)] # None
    /\ node' = [n \in Nodes |-> IF n[1] = PathOf(j) /\ node[n] # None
                                THEN [node[n] EXCEPT !.port = CabledPorts(j, n[2])] ELSE node[n]]
    /\ IF job[j].req.bringUp THEN GoTo(j, "address") ELSE Finish(j, "done")
    /\ UNCHANGED <<row, lab, saved, spent>>

(* delete_lab: by its path, or not at all *)
RollBack(j) ==
    /\ job[j].pc = "rollback"
    /\ Finish(j, "error")
    /\ \/ /\ lab' = [lab EXCEPT ![PathOf(j)] = None]
          /\ node' = [n \in Nodes |-> IF n[1] = PathOf(j) THEN None ELSE node[n]]
       \/ UNCHANGED <<lab, node>>
    /\ UNCHANGED <<row, saved, spent>>

(***************************************************************************)
(* Bringing the nodes up                                                      *)
(***************************************************************************)
Answering == {node[n].addr : n \in {m \in Nodes : node[m] # None /\ node[m].power = "up"}}
FreeHosts == Hosts \ (Taken \cup Answering \cup {row[d].ip : d \in Devices})
(* the k-th lowest address goes to the k-th device waiting *)
Rank(d, S) == Cardinality({e \in S : e <= d})
GivenTo(d, waiting) == CHOOSE h \in FreeHosts : Rank(h, FreeHosts) = Rank(d, waiting)

(* free_lab_addresses, before any device gets its address *)
FindAddresses(j) ==
    LET waiting == {d \in job[j].plan.auto : job[j].plan.ip[d] = None} IN
    /\ job[j].pc = "address"
    /\ IF Cardinality(FreeHosts) < Cardinality(waiting)
       THEN job' = [job EXCEPT ![j].pc = "store",
                               ![j].result = [d \in Devices |->
                                   IF d \in job[j].plan.auto THEN "skipped" ELSE @[d]]]
       ELSE job' = [job EXCEPT ![j].pc = IF job[j].plan.auto = {} THEN "store" ELSE "provision",
                               ![j].todo = job[j].plan.auto,
                               ![j].plan.ip = [d \in Devices |->
                                   IF d \in waiting THEN GivenTo(d, waiting) ELSE @[d]]]
    /\ UNCHANGED <<row, node, lab, saved, spent>>
(* provision_device for each of them; one that was provisioned meanwhile, or     *)
(* whose address the project uses by now, is skipped                            *)
MayProvision(d, ip) == row[d].planned /\ \A e \in Devices \ {d} : row[e].ip # ip
Provision(j) ==
    LET d == First(job[j].todo)
        ip == job[j].plan.ip[d]
    IN
    /\ job[j].pc = "provision"
    /\ row' = IF MayProvision(d, ip) THEN [row EXCEPT ![d].ip = ip, ![d].planned = FALSE] ELSE row
    /\ job' = [job EXCEPT ![j].todo = @ \ {d},
                          ![j].result[d] = IF MayProvision(d, ip) THEN @ ELSE "skipped",
                          ![j].pc = IF job[j].todo = {d} THEN "store" ELSE @]
    /\ UNCHANGED <<node, lab, saved, spent>>

(* the exported devices now live in this lab, reached with the lab login *)
StoreLogins(j) ==
    LET targets == {d \in Exported : Kind[d] \in Supported /\ row[d].ip # None} IN
    /\ job[j].pc = "store"
    /\ row' = [d \in Devices |-> IF d \in targets
                                 THEN [row[d] EXCEPT !.env = "pnetlab", !.login = job[j].req.ssh]
                                 ELSE row[d]]
    /\ job' = [job EXCEPT ![j].pending = targets, ![j].todo = Exported,
                          ![j].pc = IF Exported = {} THEN "report" ELSE "nodestart",
                          ![j].result = [d \in Devices |->
                              IF d \in targets THEN "pending"
                              ELSE IF d \in Exported /\ Kind[d] \in Supported THEN "skipped" ELSE @[d]]]
    /\ UNCHANGED <<node, lab, saved, spent>>

(* the devices that get SSH are started first; a node may not start *)
NextToStart(j) ==
    IF job[j].todo \cap job[j].pending # {} THEN First(job[j].todo \cap job[j].pending)
    ELSE First(job[j].todo)
StartNode(j) ==
    LET d == NextToStart(j)
        n == <<PathOf(j), d>>
        left == job[j].todo \ {d}
        then == IF left = {} THEN "plan" ELSE "nodestart"
    IN
    /\ job[j].pc = "nodestart"
    /\ \/ /\ node[n] # None
          /\ node' = [node EXCEPT ![n].power = "booting"]
          /\ job' = [job EXCEPT ![j].todo = left, ![j].pc = IF left = {} /\ job[j].pending = {}
                                                           THEN "report" ELSE then]
       \/ /\ job' = [job EXCEPT ![j].todo = left, ![j].pending = @ \ {d},
                                ![j].result[d] = IF d \in job[j].pending THEN "error" ELSE @,
                                ![j].pc = IF left = {} /\ job[j].pending \subseteq {d}
                                          THEN "report" ELSE then]
          /\ UNCHANGED node
    /\ UNCHANGED <<row, lab, saved, spent>>

(* A round in which the server does not answer is tried again like one whose     *)
(* devices are still booting; one that fails otherwise is the last.              *)
RoundFails(j) ==
    /\ job[j].pc = "plan"
    /\ IF job[j].req.kind = "bootstrap" THEN Finish(j, "error")
       ELSE \E outcome \in {"retry", "error"} :
              job' = [job EXCEPT ![j].pc = "report",
                                 ![j].result = [d \in Devices |->
                                     IF d \in job[j].pending THEN outcome ELSE @[d]]]
    /\ UNCHANGED <<row, node, lab, saved, spent>>
(* the end of a round: the devices still booting are waited for until the deadline *)
StillBooting(j) == {d \in job[j].pending : job[j].result[d] = "retry"}
AnotherRound(j) == job[j].tries < MaxTries
Report(j) ==
    /\ job[j].pc = "report"
    /\ IF job[j].req.kind = "export" /\ StillBooting(j) # {} /\ AnotherRound(j)
       THEN job' = [job EXCEPT ![j].pending = StillBooting(j), ![j].pc = "plan",
                                ![j].tries = IF @ = MaxTries THEN @ ELSE @ + 1]
       ELSE Finish(j, "done")
    /\ UNCHANGED <<row, node, lab, saved, spent>>

(***************************************************************************)
(* Everything a job's thread does, and what happens around it                  *)
(***************************************************************************)
BuildStep(j) ==
    \/ CallFails(j) \/ LogIn(j) \/ CheckName(j) \/ PostLab(j) \/ OpenLab(j) \/ FactoryCreate(j)
    \/ BuildFails(j) \/ AddNode(j) \/ NodesAdded(j) \/ AddNetworks(j) \/ AddCables(j) \/ RollBack(j)
    \/ FindAddresses(j) \/ Provision(j) \/ StoreLogins(j) \/ StartNode(j)
    \/ RoundFails(j) \/ Report(j)
JobStep(j) ==
    \/ Run(j)
    \/ BuildStep(j)
    \/ (PlanRound(j) \/ SessionStep(j)) /\ UNCHANGED <<lab, saved, spent>>

Spend == spent < MaxSpent /\ spent' = spent + 1
Boot(n) ==
    /\ node[n] # None /\ node[n].power = "booting"
    /\ node' = [node EXCEPT ![n].power = "up"]
    /\ UNCHANGED <<row, job, lab, saved, spent>>
(* somebody makes a lab, or copies one, to a free name *)
HandCopy(p, nodes) ==
    /\ Spend /\ lab[p] = None
    /\ CreateFile(p, Hand)
    /\ node' = [n \in Nodes |-> IF n[1] = p THEN nodes[n[2]] ELSE node[n]]
    /\ UNCHANGED <<row, job, saved>>
(* an editor stores another login for a device, or moves it to another address *)
EditRow(d, ip, login) ==
    /\ Spend /\ ~row[d].planned /\ \A e \in Devices \ {d} : row[e].ip # ip
    /\ row' = [row EXCEPT ![d].ip = ip, ![d].login = login]
    /\ UNCHANGED <<node, job, lab, saved>>
(* the service restarts: the jobs die with it *)
Restart ==
    /\ Spend
    /\ job' = [j \in Jobs |-> IF job[j].pc = "none" THEN job[j] ELSE Gone]
    /\ UNCHANGED <<row, node, lab, saved>>

LabInit ==
    /\ node = [n \in Nodes |-> None]
    /\ job = [j \in Jobs |-> Idle]
    /\ lab = [p \in Paths |-> None]
    /\ saved = None
    /\ spent = 0

(***************************************************************************)
(* Properties                                                                 *)
(***************************************************************************)
(* A lab somebody made on the PNETLab server is never deleted and never built     *)
(* into by an export that may only use its own, even when the name is taken        *)
(* between its check and its calls, as long as something was in that lab when the *)
(* export opened it.  An empty one, which PNETLab's own "Add new lab" makes, is    *)
(* taken for the one the export asked for (PNETLabWriter.create_lab's opened).    *)
HandLabKept ==
    [][\A p \in Paths : lab[p] # None /\ lab[p].owner = Hand /\ ~Empty(p) /\ ~Inside(p) =>
          /\ ~Inside(p)'
          /\ lab'[p] = lab[p]
          /\ \A d \in Devices :
                IF node[<<p, d>>] = None THEN node'[<<p, d>>] = None
                ELSE node'[<<p, d>>] # None /\ node'[<<p, d>>].port = node[<<p, d>>].port]_labVars

(* An IOS device that carries another user's login, or another address on its    *)
(* management interface, is left alone by a job that was not told to overwrite,   *)
(* in every round, with whatever the database holds by then, as long as its       *)
(* console answered everything before the carriage return was repeated.           *)
LeftAlone ==
    [][\A j \in Jobs, d \in Devices :
          LET n == <<job[j].req.path, d>> IN
          /\ job[j].todo # {} /\ job'[j] # job[j] /\ Kind[d] \in Ios /\ ~job[j].req.overwrite
          /\ ~job[j].late
          /\ node[n] # None /\ node'[n] # None
          /\ <<node'[n].users, node'[n].addr>> # <<node[n].users, node[n].addr>>
          => /\ job[j].seen[d] # None
             /\ \A l \in node[n].users : l.user = job[j].seen[d].login.user
             /\ node[n].addr \in {None, job[j].seen[d].ip}]_labVars

(* a job that was started and has neither a result nor an error *)
JobRuns(j) == job[j].status \in {"queued", "running"}
=============================================================================
