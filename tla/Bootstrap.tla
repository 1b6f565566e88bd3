------------------------------ MODULE Bootstrap ------------------------------
(***************************************************************************)
(* Giving PNETLab nodes their management address, login and SSH through      *)
(* their serial console: topology/bootstrap.py (Cisco IOS),                  *)
(* topology/bootstrap_panos.py (Palo Alto) and integrations/console.py.      *)
(*                                                                          *)
(* A job works on one device after the other.  It reads the device rows and   *)
(* logins once, when it plans a round, and types on the consoles later, so    *)
(* what it types may be older than what the database holds.  A console is a   *)
(* step per question or command; it may close at any of them, ask something    *)
(* first, or answer late.                                                     *)
(***************************************************************************)
EXTENDS Integers, FiniteSets, Sequences

CONSTANTS None,       \* an absent value
          Devices,    \* row ids, numbers
          Kind,       \* device -> what it is
          Paths,      \* lab files on the PNETLab server
          Jobs,       \* background jobs
          Weak,       \* passwords PAN-OS' complexity rule refuses
          Untypable,  \* passwords that cannot be typed on a console
          PortNumbers \* interface indexes of a node, 0..n
ASSUME BootstrapAssumption ==
    /\ Devices \subseteq Nat /\ IsFiniteSet(Devices)
    /\ PortNumbers \subseteq Nat /\ 0 \in PortNumbers

VARIABLES row,   \* device -> [ip, planned, env, login] as the database has it
          node,  \* <<lab path, device>> -> its node in that lab, or None
          job    \* job -> its entry in _jobs with the locals of its thread

(* What a port is cabled to is a set: the two nodes of a cable, the one device     *)
(* that stands for a network, and {0} for Cloud0.                              *)
Cloud0 == {0}
Nodes == Paths \X Devices
Ios == {"router", "switch", "l3_switch"}
Supported == Ios \cup {"firewall"}
Managed(d) == Kind[d] \in Supported \cup {"asa"}
First(S) == CHOOSE d \in S : \A e \in S : d <= e

Factory == [user |-> "admin", pass |-> "admin"]
AsAdmin(login) == [user |-> "admin", pass |-> login.pass]
(* a login set on a device replaces the one of the same user *)
Override(old, new) == {l \in old : \A m \in new : m.user # l.user} \cup new

NoCandidate == [addr |-> None, users |-> {}]
(* a fresh node: stopped, nothing configured, a firewall with its factory login *)
Blank(d) == [power |-> "off", console |-> "telnet", addr |-> None,
             users |-> IF Kind[d] = "firewall" THEN {Factory} ELSE {},
             ssh |-> Kind[d] = "firewall", candidate |-> NoCandidate,
             port |-> [i \in PortNumbers |-> None]]

(* PanosConsole's and console.py's failures are told apart by what the caller  *)
(* does with them: "retry" is an answer that may mean "still booting".         *)
Outcomes == {"pending", "skipped", "retry", "refused", "error", "configured", "ok"}

(***************************************************************************)
(* Planning a round                                                          *)
(***************************************************************************)
(* read_lab: the lab's nodes, and the ports of each that are cabled *)
LabIsThere(p) == \E d \in Devices : node[<<p, d>>] # None
SessionLinks(n) == {i \in PortNumbers : node[n].port[i] # None}
(* the node's interfaces on Cloud0, which PNETLab bridges to its LAN *)
CloudInterfaces(n) == {i \in SessionLinks(n) : node[n].port[i] = Cloud0}
(* a VNC console has no telnet port *)
ConsolePort(n) == node[n].console = "telnet"
PanosPasswordProblem(login) == login.pass \in Weak
ConsoleTypable(login) == login.pass \notin Untypable

Candidates(j) ==
    IF job[j].req.devs = None
    THEN {d \in Devices : Managed(d) /\ row[d].env = "pnetlab"}
    ELSE job[j].req.devs

RowReady(d) ==
    /\ row[d].env = "pnetlab"
    /\ Kind[d] \in Supported
    /\ ~row[d].planned /\ row[d].ip # None
    /\ row[d].login # None
    /\ Kind[d] = "firewall" => ~PanosPasswordProblem(row[d].login)
    /\ ConsoleTypable(row[d].login)
Stopped(j, d) ==
    /\ RowReady(d)
    /\ node[<<job[j].req.path, d>>] # None
    /\ node[<<job[j].req.path, d>>].power = "off"
Ready(j, d) ==
    LET n == <<job[j].req.path, d>> IN
    /\ RowReady(d)
    /\ node[n] # None
    /\ node[n].power # "off"
    /\ ConsolePort(n)
    /\ job[j].req.named \/ CloudInterfaces(n) # {}

Planned(j, d) == IF Ready(j, d) THEN "pending"
                 ELSE IF Stopped(j, d) THEN "retry" ELSE "skipped"
(* entry["_run"]: what the session will use, read once *)
Captured(j, targets) ==
    [d \in Devices |-> IF d \in targets /\ Ready(j, d)
                       THEN [ip |-> row[d].ip, login |-> row[d].login] ELSE None]

(* _plan: the lab is read, then every target gets its entry.  A bootstrap job   *)
(* has one round; an export asks for the devices still pending.                 *)
Targets(j) == IF job[j].req.kind = "export" THEN job[j].pending ELSE Candidates(j)
PlanRound(j) ==
    LET todo == {d \in Targets(j) : Ready(j, d)} IN
    /\ job[j].pc = "plan"
    /\ LabIsThere(job[j].req.path)
    /\ job' = [job EXCEPT ![j].seen = Captured(j, Targets(j)),
                          ![j].result = [d \in Devices |->
                              IF d \in Targets(j) THEN Planned(j, d) ELSE @[d]],
                          ![j].todo = todo,
                          ![j].pc = IF todo = {} THEN "report" ELSE "enter"]
    /\ UNCHANGED <<row, node>>

(***************************************************************************)
(* A session on the console of the device at hand                            *)
(***************************************************************************)
At(j) == First(job[j].todo)
Node(j) == <<job[j].req.path, At(j)>>
Seen(j) == job[j].seen[At(j)]
Up(j) == node[Node(j)] # None /\ node[Node(j)].power = "up"

(* the session is over: its outcome is the device's, and the next one is due *)
Over(j, outcome) ==
    [job[j] EXCEPT !.result[At(j)] = outcome, !.seen[At(j)] = None,
                   !.todo = @ \ {At(j)}, !.k = 1, !.bad = FALSE, !.as = None,
                   !.late = FALSE, !.asked = FALSE,
                   !.pc = IF job[j].todo = {At(j)} THEN "report" ELSE "enter"]
End(j, outcome) == job' = [job EXCEPT ![j] = Over(j, outcome)]
GoTo(j, pc) == job' = [job EXCEPT ![j].pc = pc]

(* The console closes, cannot be opened or gives no prompt: the session ends      *)
(* there.  A firewall's candidate is dropped if it still answers the revert.     *)
Closed(j) ==
    /\ job[j].pc \in {"enter", "look", "write", "configure", "commit"}
    /\ End(j, IF job[j].bad /\ Kind[At(j)] = "firewall" THEN "error" ELSE "retry")
    /\ \/ UNCHANGED node
       \/ /\ job[j].pc \in {"configure", "commit"} /\ Up(j)
          /\ node' = [node EXCEPT ![Node(j)].candidate = NoCandidate]
    /\ UNCHANGED row

(* wake and run type another carriage return on a console that is silent too long. *)
(* Each brings a prompt of its own, which a later read may take for the end of its  *)
(* answer: from then on the answers are late.  They stay so for the session.       *)
MayBeLate(j) == {late \in BOOLEAN : job[j].late => late}

(* IOSConsole.wake: reach privileged EXEC.  A console that asks for a login      *)
(* takes the saved one or the session is over.                                  *)
Wake(j) ==
    /\ job[j].pc = "enter" /\ Kind[At(j)] \in Ios
    /\ \/ /\ Up(j)
          /\ \E late \in MayBeLate(j) : job' = [job EXCEPT ![j].pc = "look", ![j].late = late]
       \/ /\ Up(j) /\ node[Node(j)].users # {} /\ Seen(j).login \notin node[Node(j)].users
          /\ End(j, "error")
    /\ UNCHANGED <<row, node>>

(* _existing_state and the conflicts found in it *)
ExistingLogins(j) == {l.user : l \in node[Node(j)].users}
OnlyTheAddress(j) == node[Node(j)].addr \notin {None, Seen(j).ip}
Conflicts(j) ==
    \/ \E u \in ExistingLogins(j) : u # Seen(j).login.user
    \/ node[Node(j)].addr \notin {None, Seen(j).ip}
(* Two questions, for the logins and for the address.  A late answer shows neither *)
(* or one of them.                                                             *)
Look(j) ==
    /\ job[j].pc = "look" /\ Up(j) /\ ~job[j].asked
    /\ \/ Conflicts(j) /\ ~job[j].req.overwrite /\ End(j, "refused")
       \/ \E late \in MayBeLate(j) :
             /\ Conflicts(j) => job[j].req.overwrite \/ late
             /\ job' = [job EXCEPT ![j].pc = "write", ![j].late = late]
    /\ UNCHANGED <<row, node>>

(* build_commands, without the lines that only name things *)
Commands(j) ==
    <<"address">> \o (IF job[j].req.gateway THEN <<"gateway">> ELSE <<>>) \o <<"login", "ssh">>
Applied(c, n, ip, login) ==
    CASE c = "address" -> [n EXCEPT !.addr = ip]
      [] c = "login"   -> [n EXCEPT !.users = Override(@, {login})]
      [] c = "ssh"     -> [n EXCEPT !.ssh = TRUE]
      [] c = "gateway" -> n
(* One command: IOS takes it or rejects it, which a late answer hides, and the    *)
(* next one follows either way; after the last the configuration is saved.      *)
Write(j) ==
    LET c == Commands(j)[job[j].k]
        last == job[j].k = Len(Commands(j))
    IN
    /\ job[j].pc = "write" /\ Up(j) /\ ~job[j].asked
    /\ \E rejected, noted \in BOOLEAN, late \in MayBeLate(j) :
          /\ noted # rejected => job[j].late /\ ~noted
          /\ node' = IF rejected THEN node
                     ELSE [node EXCEPT ![Node(j)] = Applied(c, @, Seen(j).ip, Seen(j).login)]
          /\ IF last THEN IF noted \/ job[j].bad THEN End(j, "error") ELSE GoTo(j, "verify")
             ELSE job' = [job EXCEPT ![j].k = @ + 1, ![j].bad = @ \/ noted, ![j].late = late]
    /\ UNCHANGED row
(* IOSConsole.run's loop over MORE, CONFIRM, YES_NO and FILENAME: the console asks *)
(* and is answered, for as long as it asks; only silence has a deadline.          *)
Asks(j) ==
    /\ job[j].pc \in {"look", "write"} /\ Up(j)
    /\ job' = [job EXCEPT ![j].asked = ~@]
    /\ UNCHANGED <<row, node>>

(* check_reachability: some node of the LAN has the device's address and takes    *)
(* its stored login over SSH.                                                   *)
Reachable(r) ==
    \E n \in Nodes : /\ node[n] # None /\ node[n].power = "up" /\ node[n].ssh
                     /\ node[n].addr = r.ip /\ r.login \in node[n].users
(* _verify's attempts.  The status it commits expires the session's rows, so the *)
(* devices still to come are read again; their logins are not.                  *)
Verified(j, rows, ok) ==
    LET ended == Over(j, IF ok THEN "ok" ELSE "configured") IN
    [ended EXCEPT !.seen = [d \in Devices |->
        IF @[d] = None THEN None ELSE [@[d] EXCEPT !.ip = rows[d].ip]]]
Verify(j) ==
    /\ job[j].pc = "verify" /\ Kind[At(j)] \in Ios
    /\ \E ok \in BOOLEAN : /\ ok => Reachable(row[At(j)])
                           /\ job' = [job EXCEPT ![j] = Verified(j, row, ok)]
    /\ UNCHANGED <<row, node>>

(***************************************************************************)
(* PAN-OS                                                                     *)
(***************************************************************************)
(* login: the factory password, the saved login, then admin with the saved       *)
(* password.  A firewall that forces the first password change gets the saved   *)
(* one.                                                                        *)
Attempts(j) == <<[Factory EXCEPT !.pass = job[j].req.default], Seen(j).login, AsAdmin(Seen(j).login)>>
Accepted(j) == {i \in 1 .. 3 : Attempts(j)[i] \in node[Node(j)].users}
ChangedPassword(n, login) ==
    [n EXCEPT !.users = Override(@, {AsAdmin(login)}),
              !.candidate.users = {l \in @ : l.user # "admin"}]
Login(j) ==
    /\ job[j].pc = "enter" /\ Kind[At(j)] = "firewall" /\ Up(j)
    /\ IF Accepted(j) = {} THEN End(j, "error") /\ UNCHANGED node
       ELSE \E forced \in BOOLEAN :
              LET as == Attempts(j)[First(Accepted(j))] IN
              /\ forced => as = Factory
              /\ node' = IF forced THEN [node EXCEPT ![Node(j)] = ChangedPassword(@, Seen(j).login)]
                         ELSE node
              /\ job' = [job EXCEPT ![j].pc = "configure",
                                    ![j].as = IF forced THEN AsAdmin(Seen(j).login) ELSE as]
    /\ UNCHANGED row
(* PanosBooting until BOOTSTRAP_PANOS_BOOT_SECONDS have passed *)
BootTimeout(j) ==
    /\ job[j].pc = "enter" /\ Kind[At(j)] = "firewall"
    /\ node[Node(j)] # None /\ node[Node(j)].power = "booting"
    /\ End(j, "error")
    /\ UNCHANGED <<row, node>>

(* plan_steps, and the password step bootstrap_panos adds *)
Step(what, essential) == [what |-> what, essential |-> essential]
PlanSteps(j) ==
    <<Step("hostname", FALSE), Step("address", TRUE)>>
    \o (IF job[j].req.gateway THEN <<Step("gateway", FALSE)>> ELSE <<>>)
    \o (IF job[j].req.account = "create" /\ Seen(j).login.user # "admin"
        THEN <<Step("user", FALSE)>> ELSE <<>>)
    \o (IF job[j].req.account = "admin" /\ job[j].as # AsAdmin(Seen(j).login)
        THEN <<Step("admin", TRUE)>> ELSE <<>>)
Edited(what, candidate, ip, login) ==
    CASE what = "address" -> [candidate EXCEPT !.addr = ip]
      [] what = "user"    -> [candidate EXCEPT !.users = Override(@, {login})]
      [] what = "admin"   -> [candidate EXCEPT !.users = Override(@, {AsAdmin(login)})]
      [] OTHER            -> candidate
(* one step of the candidate configuration *)
Configure(j) ==
    LET s == PlanSteps(j)[job[j].k]
        last == job[j].k = Len(PlanSteps(j))
    IN
    /\ job[j].pc = "configure" /\ Up(j)
    /\ \E rejected \in BOOLEAN :
          /\ node' = IF rejected THEN node
                     ELSE [node EXCEPT ![Node(j)].candidate =
                               Edited(s.what, @, Seen(j).ip, Seen(j).login)]
          /\ job' = [job EXCEPT ![j].bad = @ \/ rejected,
                                ![j].k = IF last THEN 1 ELSE @ + 1,
                                ![j].pc = IF rejected /\ s.essential THEN "revert"
                                          ELSE IF last THEN "commit" ELSE @]
    /\ UNCHANGED row

Committed(n) ==
    [n EXCEPT !.addr = IF n.candidate.addr = None THEN @ ELSE n.candidate.addr,
              !.users = Override(@, n.candidate.users), !.candidate = NoCandidate]
Commit(j) ==
    /\ job[j].pc = "commit" /\ Up(j)
    /\ \/ node' = [node EXCEPT ![Node(j)] = Committed(@)] /\ GoTo(j, "verify")
       \/ UNCHANGED node /\ GoTo(j, "revert")
       \/ /\ node' = [node EXCEPT ![Node(j)] = Committed(@)]
          /\ End(j, IF job[j].bad THEN "error" ELSE "retry")
    /\ UNCHANGED row
(* the candidate is dropped; a console that closes here leaves it behind *)
Revert(j) ==
    /\ job[j].pc = "revert"
    /\ End(j, "error")
    /\ \/ Up(j) /\ node' = [node EXCEPT ![Node(j)].candidate = NoCandidate]
       \/ UNCHANGED node
    /\ UNCHANGED row

(* A firewall reached as admin gets that login stored, with the password the     *)
(* session used.                                                               *)
StoredLogin(j) ==
    IF job[j].req.account = "admin" /\ Seen(j).login.user # "admin"
    THEN AsAdmin(Seen(j).login) ELSE row[At(j)].login
VerifyPanos(j) ==
    LET stored == [row EXCEPT ![At(j)].login = StoredLogin(j)] IN
    /\ job[j].pc = "verify" /\ Kind[At(j)] = "firewall"
    /\ row' = stored
    /\ \E ok \in BOOLEAN : /\ ok => Reachable(stored[At(j)])
                           /\ job' = [job EXCEPT ![j] = Verified(j, stored, ok)]
    /\ UNCHANGED node

SessionStep(j) ==
    \/ Wake(j) \/ Look(j) \/ Write(j) \/ Asks(j) \/ Verify(j)
    \/ Login(j) \/ BootTimeout(j) \/ Configure(j) \/ Commit(j) \/ Revert(j) \/ VerifyPanos(j)
    \/ Closed(j)
=============================================================================
