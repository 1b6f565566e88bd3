---------------------------- MODULE MCOperations ----------------------------
(***************************************************************************)
(* What the backend does to devices outside a deployment.  The focus chosen    *)
(* at the start says which part of it runs:                                   *)
(*   names, bringup, ios, panos   LabExport with a router, a firewall, a PC and *)
(*       a Cloud device: two exports to one name, the bring-up of a built lab,   *)
(*       or console jobs on nodes somebody made;                              *)
(*   shell, candidate             SshSession with a shell, or with PAN-OS;       *)
(*   polling, pages               Monitoring while devices come and go, or with  *)
(*       pages that watch.                                                    *)
(***************************************************************************)
EXTENDS LabExport, SshSession, Monitoring

CONSTANT Focuses
VARIABLE focus
vars == <<labVars, sshVars, monVars, focus>>
On(f) == focus \in f

MCKind == <<"router", "firewall", "pc", "cloud">>
MCLinks == <<[a |-> 1, pa |-> <<0, 0>>, b |-> 2, pb |-> <<1, 1>>],
             [a |-> 1, pa |-> <<0, 0>>, b |-> 3, pb |-> <<0, 0>>],
             [a |-> 1, pa |-> <<0, 1>>, b |-> 4, pb |-> <<0, 0>>]>>
G1 == [user |-> "g1", pass |-> "group1"]
G2 == [user |-> "g2", pass |-> "group2"]
Bad == [user |-> "g1", pass |-> "weak"]

(* "lab 1" and "lab-1" are one file to PNETLab, and "--" is none *)
MCLabFileName == [l \in {"lab 1", "lab-1", "--"} |-> IF l = "--" THEN None ELSE "p1"]
(* the router's second port is the server's third *)
MCActualPort == [d \in Devices |-> [i \in PortNumbers |-> IF d = 1 /\ i > 0 THEN 3 - i ELSE i]]

Asked == [kind |-> "export", name |-> "lab 1", path |-> "p1", devs |-> None, overwrite |-> FALSE, named |-> FALSE,
          account |-> "admin", default |-> "admin", gateway |-> FALSE, cloud |-> TRUE,
          bringUp |-> FALSE, ssh |-> G1, typed |-> TRUE, server |-> "lab"]
Console == [Asked EXCEPT !.kind = "bootstrap"]
Build == Asked
BringUp == [Asked EXCEPT !.bringUp = TRUE, !.typed = FALSE, !.name = "lab-1"]
Plain == [Console EXCEPT !.devs = {1}]
Force == [Plain EXCEPT !.overwrite = TRUE, !.gateway = TRUE]
AsAdminJob == [Console EXCEPT !.devs = {2}, !.path = "p2"]
Create == [Console EXCEPT !.path = "p2", !.account = "create", !.named = TRUE]

(* the request each of the two jobs is started with *)
Asking(f, j) ==
    CASE f = "names"   -> IF j = 1 THEN Build ELSE BringUp
      [] f = "bringup" -> [BringUp EXCEPT !.typed = TRUE]
      [] f = "ios"     -> IF j = 1 THEN Plain ELSE Force
      [] f = "panos"   -> IF j = 1 THEN AsAdminJob ELSE Create

Rows(f) ==
    [d \in Devices |->
       [ip |-> IF d = 1 /\ f # "bringup" THEN 1
              ELSE IF d = 2 /\ f = "panos" THEN 2 ELSE None,
        planned |-> f = "bringup" /\ d = 1,
        env |-> IF f \in {"ios", "panos"} THEN "pnetlab" ELSE "other",
        login |-> IF f \in {"ios", "panos"} THEN G1 ELSE None]]

(* the labs somebody else made: empty ones, and nodes that run, blank or configured *)
(* by hand                                                                      *)
Running(d) == [Blank(d) EXCEPT !.power = "up", !.port[0] = Cloud0]
ByHand(d) ==
    {Running(d), [Running(d) EXCEPT !.console = "vnc"], [Running(d) EXCEPT !.power = "off"],
     [Running(d) EXCEPT !.users = {G2}], [Running(d) EXCEPT !.addr = 3], [Running(d) EXCEPT !.power = "booting"]}
Target(f) == IF f = "panos" THEN 2 ELSE 1
HandLabs(f) ==
    IF f = "names" THEN {[d \in Devices |-> IF d = 1 THEN n ELSE None] : n \in {None, Running(1)}}
    ELSE {[d \in Devices |-> IF d = Target(f) THEN n ELSE None] : n \in ByHand(Target(f))}
HandPath(f) == IF f = "panos" THEN "p2" ELSE "p1"

Fit(d) == [uid |-> d, deployable |-> TRUE, enabled |-> TRUE, cred |-> TRUE, status |-> "unknown"]
(* a PC, which nobody connects to; a device left out of monitoring; a planned one *)
Unfit(d) == {[Fit(d) EXCEPT !.deployable = FALSE, !.cred = FALSE],
             [Fit(d) EXCEPT !.enabled = FALSE],
             [Fit(d) EXCEPT !.cred = FALSE]}

Init ==
    /\ focus \in Focuses
    /\ LabInit
    /\ row = Rows(focus)
    /\ SshInit
    /\ MonitoringInit
    /\ managed = [d \in Watched |-> Fit(d)]

(* one job at a time works on a lab *)
Alone(req) == \A k \in Jobs : job[k].req # None => job[k].req.path # req.path
Ask(j) == Alone(Asking(focus, j)) /\ (focus = "bringup" => j = 1)

LabNext ==
    \/ \E j \in Jobs, role \in {"owner", "editor"} :
          /\ Ask(j)
          /\ \/ StartExport(j, Asking(focus, j), role)
             \/ StartBootstrap(j, Asking(focus, j), role)
    \/ On({"names"}) /\ job[2].pc = "none" /\ (PreviewExport(Build) \/ Forget)
    \/ \E j \in Jobs : JobStep(j)
    \/ \E n \in Nodes : Boot(n)
    \/ On({"names", "ios", "panos"}) /\ \E nodes \in HandLabs(focus) : HandCopy(HandPath(focus), nodes)
    \/ On({"ios", "panos"}) /\ \E ip \in Hosts, l \in {G1, G2, Bad} : EditRow(Target(focus), ip, l)
    \/ On({"bringup"}) /\ EditRow(2, 1, G2)    \* takes the address that was free
    \/ On({"names", "ios"}) /\ Restart

SshNext ==
    \/ /\ On({"shell"})
       /\ ssh.n = 0    \* a shell keeps nothing of the session before
       /\ \/ \E type \in {"ios", "asa"} : OpenSession(type, "show", <<"line">>, FALSE)
          \/ OpenSession("ios", "config", <<"line", "line">>, FALSE)
          \/ \E allow \in BOOLEAN : OpenSession("ios", "exec", <<"copy", "line">>, allow)
    \/ /\ On({"candidate"})
       /\ \/ OpenSession("panos", "show", <<"line">>, FALSE)
          \/ OpenSession("panos", "config", <<"line", "line">>, FALSE)
          \/ OpenSession("panos", "exec", <<"line">>, FALSE)
    \/ SshStep
    \/ DeviceStep

MonNext ==
    \/ On({"polling"}) /\ (BeginSweep \/ SweepStep)
    \/ \E kind \in Reads, d \in Watched : AskRead(kind, d)
    \/ \E d \in Watched : BlockCommand(d)
    \/ ReadStep
    \/ On({"polling"}) /\ \E d \in Watched :
           DropDevice(d) \/ \E new \in {Fit(d)} \cup Unfit(d) : MakeDevice(d, new)
    \/ On({"pages"}) /\ \E s \in Streams : ConnectStream(s) \/ LeavePage(s) \/ StreamStep(s)

Lab == On({"names", "bringup", "ios", "panos"})
Ssh == On({"shell", "candidate"})
Mon == On({"polling", "pages"})
LabAlone == UNCHANGED <<sshVars, monVars, focus>>
SshAlone == UNCHANGED <<labVars, monVars, focus>>
MonAlone == UNCHANGED <<labVars, sshVars, focus>>

Next ==
    \/ Lab /\ LabNext /\ LabAlone
    \/ Ssh /\ SshNext /\ SshAlone
    \/ Mon /\ MonNext /\ MonAlone

(* The threads of the backend, two at most in any focus: the jobs, a session, the    *)
(* sweep and a request, a stream and a request.                                   *)
Thread(t) ==
    \/ Lab /\ JobStep(t) /\ LabAlone
    \/ Ssh /\ t = 1 /\ SshStep /\ SshAlone
    \/ On({"polling"}) /\ t = 1 /\ SweepStep /\ MonAlone
    \/ On({"pages"}) /\ t = 1 /\ (\E s \in Streams : StreamStep(s)) /\ MonAlone
    \/ Mon /\ t = 2 /\ ReadStep /\ MonAlone
Spec == Init /\ [][Next]_vars /\ \A t \in Jobs : WF_vars(Thread(t))

Busy(t) ==
    CASE Lab -> JobRuns(t)
      [] Ssh -> t = 1 /\ SessionRuns
      [] t = 1 -> SweepRuns \/ \E s \in Streams : Untold(s)
      [] OTHER -> ReadRuns

(* It is at a question of the device, which is answered without a look at the       *)
(* deadline: for as long as a console asks, and in SSH until it says something else. *)
Prompting(t) == (Lab /\ job[t].asked) \/ (Ssh /\ t = 1 /\ AtQuestion)

(* Every thread of the backend comes to the end of its work, unless the service       *)
(* restarts first: no node that never boots, no server or device that never         *)
(* answers and no device that is deleted meanwhile keeps a job, a session, a sweep    *)
(* or a request for ever, and a page with a stream open is told of every change or   *)
(* its stream ends.  Only a device that asks and asks can: a thread that is at a      *)
(* question again and again is left out.                                         *)
WorkEnds == \A t \in Jobs : <>[]~Prompting(t) => (Busy(t) ~> ~Busy(t))
=============================================================================
