------------------------------ MODULE SshSession ------------------------------
(***************************************************************************)
(* One SSH session at a time with one device: ssh/client.py for IOS and ASA,  *)
(* which types lines into a shell and reads until it goes quiet, and           *)
(* ssh/panos.py, which edits a candidate configuration and commits it.        *)
(*                                                                         *)
(* The device works at its own pace: what a line does to it, and when it says  *)
(* something, are steps of their own.  A command is its place in the batch;    *)
(* of its text only counts whether it is "copy running-config startup-config". *)
(***************************************************************************)
EXTENDS Integers, Sequences

CONSTANTS ConnectAttempts,     \* _CONNECT_ATTEMPTS
          MaxTyped,     \* bound: lines the device has not read yet
          MaxSessions   \* bound: sessions opened, one after the other
ASSUME SshAssumption ==
    /\ ConnectAttempts \in Nat \ {0} /\ MaxTyped \in Nat \ {0} /\ MaxSessions \in Nat

VARIABLES ssh,   \* the backend's side of the session
          cli    \* the device

sshVars == <<ssh, cli>>

DeviceTypes == {"ios", "asa", "panos"}
Operations == {"show", "config", "exec"}
Answer == 0      \* an empty line, or the "yes" a prompt asks for

NoSession == [n |-> 0, type |-> "ios", op |-> "show", cmds |-> <<>>, allow |-> FALSE,
              pc |-> "ended", attempt |-> 1, k |-> 1, seg |-> <<>>, typed |-> <<>>,
              expired |-> FALSE, nudged |-> FALSE, ahead |-> 0, result |-> "none"]
(* ahead is no variable of the program: how many prompts may come that no command *)
(* asked for.  A shell at its prompt: inbox holds lines not read yet, say what it  *)
(* is about to print, out what it printed and nobody read; lost says that a revert *)
(* left something in the candidate.                                             *)
FreshShell == [mode |-> "prompt", inbox |-> <<>>, say |-> <<"prompt">>, out |-> <<>>,
               asked |-> 0, done |-> <<>>]
NewCli == [shell |-> FreshShell, cand |-> {}, running |-> {}, lost |-> FALSE]

EndSession(result) == ssh' = [ssh EXCEPT !.pc = "ended", !.result = result]
Stage(pc) == ssh.pc = pc

(* run_show, run_config and run_exec, which a PAN-OS device refuses *)
OpenSession(type, op, cmds, allow) ==
    /\ Stage("ended") /\ ssh.n < MaxSessions
    /\ op # "exec" => ~allow
    /\ ssh' = [NoSession EXCEPT !.n = ssh.n + 1, !.type = type, !.op = op, !.cmds = cmds,
                                !.allow = allow,
                                !.pc = IF type = "panos" /\ op = "exec" THEN "ended" ELSE "connect",
                                !.result = IF type = "panos" /\ op = "exec" THEN "error" ELSE "none"]
    /\ cli' = [cli EXCEPT !.shell = FreshShell]

(* where a session that is connected starts *)
FirstStep ==
    CASE ssh.type = "panos" -> IF ssh.op = "show" THEN "show" ELSE "configure"
      [] ssh.op = "show" /\ ssh.type = "ios" -> "show"
      [] OTHER -> "login"
(* _connect: only a refused or reset connection is tried again, and only here,    *)
(* before anything was sent; Netmiko tries once.                                *)
MayRetry == ssh.type # "panos" /\ ssh.attempt < ConnectAttempts
Connect ==
    /\ Stage("connect")
    /\ \/ ssh' = [ssh EXCEPT !.pc = FirstStep]
       \/ MayRetry /\ ssh' = [ssh EXCEPT !.attempt = @ + 1]
       \/ EndSession("error")
    /\ UNCHANGED cli

(* one show over an exec channel, or through Netmiko *)
Show ==
    /\ Stage("show")
    /\ \E result \in {"ok", "error"} : EndSession(result)
    /\ UNCHANGED cli
(* the device closes the session, or a call on it times out *)
Broken ==
    /\ ssh.pc \in {"login", "send", "read"}
    /\ EndSession("error")
    /\ UNCHANGED cli

----------------------------------------------------------------------------
(* The shell *)

Type(line) == [cli EXCEPT !.shell.inbox = Append(@, line)]
LastOf(seg) == IF seg = <<>> THEN "nothing" ELSE seg[Len(seg)]
Says(token, seg) == \E i \in DOMAIN seg : seg[i] = token

(* _drain of the login banner; a device slower than _IDLE_SECONDS prints its      *)
(* prompt only afterwards                                                        *)
LoginDrain ==
    /\ Stage("login")
    /\ ssh' = [ssh EXCEPT !.pc = "send", !.ahead = IF LastOf(cli.shell.out) = "prompt" THEN 0 ELSE 1]
    /\ cli' = [cli EXCEPT !.shell.out = <<>>]

Send ==
    /\ Stage("send")
    /\ ssh' = [ssh EXCEPT !.pc = "read", !.typed = Append(@, ssh.k), !.seg = <<>>,
                          !.expired = FALSE, !.nudged = FALSE]
    /\ cli' = Type(ssh.k)

(* the deadline of a command passes *)
Expire ==
    /\ Stage("read") /\ ~ssh.expired
    /\ ssh' = [ssh EXCEPT !.expired = TRUE]
    /\ UNCHANGED cli

(* _respond_to_prompts looks at everything the command has said so far, one       *)
(* _drain after the other.                                                      *)
Segment == ssh.seg \o cli.shell.out
Drained == [cli EXCEPT !.shell.out = <<>>]
\* Anything the device says counts as its prompt.
AnyOutput == Segment # <<>>
AtPrompt == LastOf(Segment) = "prompt"
Reading == Stage("read") /\ ssh.op # "show"

(* A show in the shell of an ASA is drained once and taken as it is.             *)
TakeShow ==
    /\ Stage("read") /\ ssh.op = "show"
    /\ EndSession("ok") /\ cli' = Drained

(* The response is complete: a parser's complaint in it ends the batch.           *)
Complete ==
    /\ Reading /\ AtPrompt
    /\ IF Says("reject", Segment) THEN EndSession("error")
       ELSE IF ssh.k = Len(ssh.cmds) THEN EndSession("ok")
       ELSE ssh' = [ssh EXCEPT !.k = @ + 1, !.pc = "send"]
    /\ cli' = Drained

(* A question is answered without a look at the deadline: yes if that is allowed,  *)
(* an empty line for the file name a copy asks for.                              *)
Question == IF LastOf(Segment) = "filename" /\ ssh.cmds[ssh.k] # "copy" THEN "nothing"
            ELSE LastOf(Segment)
(* What is typed when nothing came since the answer before brings a prompt too      *)
(* many.  The device is typed at for ever; MaxTyped bounds the lines it still has  *)
(* to read.                                                                     *)
Fits == Len(cli.shell.inbox) < MaxTyped
Reply(nudged) ==
    /\ ssh' = [ssh EXCEPT !.seg = Segment, !.nudged = nudged \/ @, !.expired = @ /\ ~nudged,
                          !.ahead = IF cli.shell.out = <<>> /\ Fits THEN @ + 1 ELSE @]
    /\ cli' = [cli EXCEPT !.shell.inbox = IF Fits THEN Append(@, Answer) ELSE @,
                          !.shell.out = <<>>]
AtQuestion == Reading /\ Question \in {"confirm", "filename"}
Confirm ==
    /\ AtQuestion
    /\ Question = "confirm" => ssh.allow
    /\ Reply(FALSE)
RefuseToConfirm ==
    /\ Reading /\ Question = "confirm" /\ ~ssh.allow
    /\ EndSession("error") /\ cli' = Drained

(* Otherwise the deadline counts: a device that said nothing at all gets an empty  *)
(* line and another deadline, once.                                             *)
Waiting == Reading /\ ~AtPrompt /\ Question \notin {"confirm", "filename"}
KeepReading ==
    /\ Waiting /\ ~ssh.expired /\ cli.shell.out # <<>>
    /\ ssh' = [ssh EXCEPT !.seg = Segment] /\ cli' = Drained
\* A silent device gets another empty line and another deadline every time.
NudgeAgain == Waiting /\ ssh.expired /\ Segment = <<>> /\ Reply(TRUE)
Nudge == Waiting /\ ssh.expired /\ Segment = <<>> /\ ~ssh.nudged /\ Reply(TRUE)
GiveUp ==
    /\ Waiting /\ ssh.expired /\ (Segment = <<>> => ssh.nudged)
    /\ EndSession("error") /\ cli' = Drained
Read == TakeShow \/ Complete \/ Confirm \/ RefuseToConfirm \/ KeepReading \/ Nudge \/ GiveUp

----------------------------------------------------------------------------
(* An IOS or ASA shell, external: what it does with a line it reads, and what it   *)
(* prints, as client.py and its tests rely on it                                 *)

Echo(tokens) == <<"echo">> \o tokens
Obey(sh, line) == [sh EXCEPT !.done = Append(@, line), !.mode = "prompt"]
Reactions(sh, line) ==
    {[Obey(sh, line) EXCEPT !.say = Echo(<<"prompt">>)],
     [sh EXCEPT !.say = Echo(<<"reject", "prompt">>)],
     [sh EXCEPT !.mode = "confirm", !.asked = line, !.say = Echo(<<"confirm">>)]}
    \cup (IF ssh.cmds[line] = "copy"
          THEN {[sh EXCEPT !.mode = "filename", !.asked = line, !.say = Echo(<<"filename">>)]}
          ELSE {})
(* a line typed at a question answers it, whatever it says: yes or no *)
Answers(sh) == {[Obey(sh, sh.asked) EXCEPT !.say = <<"prompt">>],
                [sh EXCEPT !.mode = "prompt", !.say = <<"prompt">>]}
Accepts(sh) == {[Obey(sh, sh.asked) EXCEPT !.say = <<"prompt">>]}

DeviceReads ==
    LET line == Head(cli.shell.inbox)
        sh == [cli.shell EXCEPT !.inbox = Tail(@)]
    IN
    /\ cli.shell.inbox # <<>> /\ cli.shell.say = <<>>
    /\ \E after \in IF sh.mode = "prompt"
                    THEN IF line = Answer THEN {[sh EXCEPT !.say = <<"prompt">>]}
                         ELSE Reactions(sh, line)
                    ELSE IF line = Answer THEN Accepts(sh) ELSE Answers(sh) :
          cli' = [cli EXCEPT !.shell = after]
    /\ UNCHANGED ssh
DeviceSays ==
    /\ cli.shell.say # <<>> /\ ~Stage("ended") /\ ~Stage("connect")
    /\ cli' = [cli EXCEPT !.shell.say = Tail(@), !.shell.out = Append(@, Head(cli.shell.say))]
    /\ UNCHANGED ssh

----------------------------------------------------------------------------
(* PAN-OS.  The candidate outlives the session.  Every call is done or not, and   *)
(* its answer may be lost.                                                      *)

Line(k) == <<ssh.n, k>>
Move(pc) == ssh' = [ssh EXCEPT !.pc = pc]
EnterConfigure ==
    /\ Stage("configure")
    /\ Move("line") \/ Move("revert")
    /\ UNCHANGED cli
SetLine ==
    /\ Stage("line")
    /\ \/ /\ cli' = [cli EXCEPT !.cand = @ \cup {Line(ssh.k)}]
          /\ \/ ssh' = [ssh EXCEPT !.typed = Append(@, ssh.k), !.k = @ + 1,
                                   !.pc = IF ssh.k = Len(ssh.cmds) THEN "commit" ELSE "line"]
             \/ Move("revert")
       \/ Move("revert") /\ UNCHANGED cli
(* commit takes the whole candidate *)
Merged == [cli EXCEPT !.running = @ \cup cli.cand, !.cand = {}]
CommitCandidate ==
    /\ Stage("commit")
    /\ \/ cli' = Merged /\ (EndSession("ok") \/ Move("revert"))
       \/ UNCHANGED cli /\ Move("revert")
(* _revert; that it did not work is only logged *)
\* An edit that fails is reported and nothing else.
EndUnreverted == Stage("revert") /\ EndSession("error") /\ UNCHANGED cli
RevertCandidate ==
    /\ Stage("revert")
    /\ EndSession("error")
    /\ \/ cli' = [cli EXCEPT !.cand = {}]
       \/ cli' = [cli EXCEPT !.lost = @ \/ cli.cand # {}]

----------------------------------------------------------------------------
SshStep ==
    \/ Connect \/ Show \/ Broken \/ Expire \/ LoginDrain \/ Send \/ Read
    \/ EnterConfigure \/ SetLine \/ CommitCandidate \/ RevertCandidate
DeviceStep == DeviceReads \/ DeviceSays

SshInit == ssh = NoSession /\ cli = NewCli

(* sessions of any kind, with any list of commands *)
CommandLists == Seq({"line", "copy"}) \ {<<>>}
SessionNext ==
    \/ \E type \in DeviceTypes, op \in Operations, cmds \in CommandLists, allow \in BOOLEAN :
          OpenSession(type, op, cmds, allow)
    \/ SshStep
    \/ DeviceStep
SessionSpec == SshInit /\ [][SessionNext]_sshVars

(* A batch reported as done was typed once, in order, and was done: a PAN-OS      *)
(* commit took every line of it, and an IOS device accepted every command, the    *)
(* ones that asked something included, and is back at its prompt.  A prompt too    *)
(* many is read as the next command's: the login's, if it came after the banner    *)
(* was drained, one per empty line typed at a silent device, and one per answer    *)
(* typed twice.  Each hides what became of one more command at the end of a batch, *)
(* and no other, if none of its commands asked anything.                         *)
Batch == ssh.result = "ok" /\ ssh.op # "show"
DoneInStep ==
    /\ \A i \in DOMAIN ssh.typed : ssh.typed[i] = i
    /\ Batch =>
          /\ Len(ssh.typed) = Len(ssh.cmds)
          /\ ssh.type = "panos" => \A k \in DOMAIN ssh.cmds : Line(k) \in cli.running
          /\ ssh.type # "panos" /\ ssh.ahead = 0 =>
                cli.shell.done = ssh.typed /\ cli.shell.mode = "prompt"
DoneButTheLast ==
    Batch /\ ssh.type # "panos" /\ cli.shell.asked = 0 =>
        \A k \in 1 .. Len(ssh.cmds) - ssh.ahead :
            k \in DOMAIN cli.shell.done /\ cli.shell.done[k] = k
DoneAsReported == DoneInStep /\ DoneButTheLast

(* A PAN-OS batch is committed whole or not at all, whatever call fails or whose   *)
(* answer is lost.  Its candidate is its own, and nothing of it stays behind, as   *)
(* long as every revert reached the device: of one that did not, the rest goes      *)
(* with the next session's commit (_revert only logs it).                        *)
AllOrNothing ==
    /\ ssh.type = "panos" /\ Stage("ended") =>
          \/ \A k \in DOMAIN ssh.cmds : Line(k) \in cli.running
          \/ \A k \in DOMAIN ssh.cmds : Line(k) \notin cli.running
    /\ ~cli.lost => /\ cli.cand \subseteq {Line(k) : k \in DOMAIN ssh.cmds}
                    /\ Stage("ended") => cli.cand = {}

SessionRuns == ~Stage("ended")
===============================================================================
