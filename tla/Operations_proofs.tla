------------------------- MODULE Operations_proofs -------------------------
(***************************************************************************)
(* What the backend does to devices outside a deployment, for any devices,   *)
(* requests, pages, batches of commands, labs and any bounds: a failure during *)
(* a sweep costs one device, an SSH session that reports success tells the     *)
(* truth, and the jobs on PNETLab labs respect what other people made there.  *)
(***************************************************************************)
EXTENDS Monitoring, SshSession, LabExport, FiniteSetTheorems, SequenceTheorems,
        WellFoundedInduction, TLAPS

(* The sweep is a record, and while it saves, every device it prepared is due,  *)
(* saved or failed; one that raised leaves the rest due.                       *)
IsSweep ==
    /\ sweep = [pc |-> sweep.pc, ready |-> sweep.ready, todo |-> sweep.todo,
                got |-> sweep.got, saved |-> sweep.saved, failed |-> sweep.failed]
    /\ sweep.todo \subseteq Watched /\ \A r \in sweep.ready : r.dev \in Watched
NothingLost ==
    sweep.pc \in {"save", "raised"} =>
        \A r \in sweep.ready : r.dev \in sweep.todo \cup sweep.saved \cup sweep.failed
SweepInv == IsSweep /\ NothingLost

(* The steps of requests and pages leave the sweep alone. *)
LEMMA OthersKeepSweep ==
    ASSUME ReadStep \/ (\E d \in Watched :
              \/ BlockCommand(d) \/ DropDevice(d)
              \/ \E kind \in Reads : AskRead(kind, d)
              \/ \E new \in NewRows : MakeDevice(d, new))
           \/ (\E s \in Streams : ConnectStream(s) \/ LeavePage(s) \/ StreamStep(s))
    PROVE  sweep' = sweep
<1>1. ReadStep => sweep' = sweep
  BY DEF ReadStep, SshAnswers, WriteRead
<1>2. ASSUME NEW d \in Watched,
             BlockCommand(d) \/ DropDevice(d) \/ (\E kind \in Reads : AskRead(kind, d))
             \/ (\E new \in NewRows : MakeDevice(d, new))
      PROVE  sweep' = sweep
  BY <1>2 DEF BlockCommand, DropDevice, AskRead, MakeDevice
<1>3. ASSUME NEW s \in Streams, ConnectStream(s) \/ LeavePage(s) \/ StreamStep(s)
      PROVE  sweep' = sweep
  BY <1>3 DEF ConnectStream, LeavePage, StreamStep, TellState, CloseStream
<1> QED BY <1>1, <1>2, <1>3

(* What the steps of a sweep do to it. *)
LEMMA SweepKept ==
    ASSUME SweepInv, BeginSweep \/ SweepStep
    PROVE  SweepInv'
<1> USE DEF SweepInv, IsSweep, NothingLost
<1>1. CASE BeginSweep
  <2>1. Prepared \subseteq Watched
    BY DEF Prepared, Present
  <2> DEFINE ready == {[dev |-> d, was |-> managed[d].status] : d \in Prepared}
  <2>2. \A r \in ready : r.dev \in Watched
    BY <2>1
  <2>3. sweep' = [Resting EXCEPT !.pc = "collect", !.todo = Prepared, !.ready = ready]
    BY <1>1 DEF BeginSweep
  <2> HIDE DEF ready
  <2> QED BY <2>1, <2>2, <2>3 DEF Resting
<1>2. ASSUME NEW d \in Watched, Collect(d) PROVE SweepInv'
  BY <1>2 DEF Collect
<1>3. CASE AllCollected
  BY <1>3 DEF AllCollected
<1>4. CASE SaveNext /\ sweep' # [sweep EXCEPT !.pc = "raised"]
  <2>1. PICK d : \/ sweep' = [sweep EXCEPT !.todo = @ \ {d}, !.saved = @ \cup {d}]
                 \/ sweep' = [sweep EXCEPT !.todo = @ \ {d}, !.failed = @ \cup {d}]
    BY <1>4 DEF SaveNext, SkipDevice, DeviceSaved, RaiseOut
  <2>2. /\ IsSweep' /\ sweep'.pc = sweep.pc /\ sweep'.ready = sweep.ready
        /\ sweep'.todo \cup sweep'.saved \cup sweep'.failed
             = sweep.todo \cup sweep.saved \cup sweep.failed \cup {d}
    BY <2>1
  <2> QED BY <2>2
<1>5. CASE SaveNext /\ sweep' = [sweep EXCEPT !.pc = "raised"]
  BY <1>5 DEF SaveNext
<1>6. CASE EndSweep
  BY <1>6 DEF EndSweep, Resting
<1> QED BY <1>1, <1>2, <1>3, <1>4, <1>5, <1>6 DEF SweepStep

(* The invariant holds for ever. *)
THEOREM SweepInvariant == MonitoringSpec => []SweepInv
<1>1. MonitoringInit => SweepInv
  BY DEF MonitoringInit, Resting, SweepInv, IsSweep, NothingLost
<1>2. SweepInv /\ [MonitoringNext]_monVars => SweepInv'
  <2> SUFFICES ASSUME SweepInv, [MonitoringNext]_monVars PROVE SweepInv'
    OBVIOUS
  <2>1. CASE UNCHANGED monVars
    BY <2>1 DEF monVars, SweepInv, IsSweep, NothingLost
  <2>2. CASE BeginSweep \/ SweepStep
    BY <2>2, SweepKept
  <2>3. CASE MonitoringNext /\ ~(BeginSweep \/ SweepStep)
    <3>1. sweep' = sweep
      BY <2>3, OthersKeepSweep DEF MonitoringNext
    <3> QED BY <3>1 DEF SweepInv, IsSweep, NothingLost
  <2> QED BY <2>1, <2>2, <2>3
<1> QED BY <1>1, <1>2, PTL DEF MonitoringSpec

(* A set of numbers has a least one.                                           *)
LEMMA LeastOfNaturals ==
    ASSUME NEW T \in SUBSET Nat, T # {}
    PROVE  \E x \in T : \A y \in T : x <= y
<1>1. \E x \in T : \A y \in T : ~ (<<y, x>> \in OpToRel(<, Nat))
  BY WFMin, NatLessThanWellFounded, Zenon
<1>2. PICK x \in T : \A y \in T : ~ (<<y, x>> \in OpToRel(<, Nat))
  BY <1>1
<1>3. ASSUME NEW y \in T, y < x PROVE FALSE
  <2>1. <<y, x>> \in Nat \X Nat
    OBVIOUS
  <2>2. <<y, x>> \in OpToRel(<, Nat)
    BY <1>3, <2>1, Zenon DEF OpToRel
  <2> QED BY <1>2, <2>2
<1> QED BY <1>3

(* A failure during a sweep costs one device (monitoring/service.py): a sweep that  *)
(* comes to its end leaves every device it polled saved, or failed by itself, and    *)
(* one that raised those before the row at which it did.                          *)
THEOREM FailureCostsOneDevice == MonitoringSpec => OneFailureIsOne
<1> DEFINE Costs ==
      sweep.pc \in {"save", "raised"} /\ sweep'.pc = "rest" =>
         \A r \in sweep.ready :
             \/ r.dev \in sweep.saved \cup sweep.failed
             \/ sweep.pc = "raised" /\ r.dev >= FirstOf(sweep.todo)
<1>1. SweepInv /\ [MonitoringNext]_monVars => [Costs]_monVars
  <2> SUFFICES ASSUME SweepInv, MonitoringNext, sweep.pc \in {"save", "raised"}, sweep'.pc = "rest",
                      NEW r \in sweep.ready
               PROVE  \/ r.dev \in sweep.saved \cup sweep.failed
                      \/ sweep.pc = "raised" /\ r.dev >= FirstOf(sweep.todo)
    OBVIOUS
  <2>1. sweep' # sweep
    OBVIOUS
  <2>2. BeginSweep \/ SweepStep
    BY <2>1, OthersKeepSweep DEF MonitoringNext
  <2>3. ~BeginSweep /\ ~AllCollected /\ ~(\E d \in Watched : Collect(d))
    BY DEF BeginSweep, AllCollected, Collect
  <2>4. SaveNext => sweep'.pc # "rest"
    <3> SUFFICES ASSUME SaveNext PROVE sweep'.pc # "rest"
      OBVIOUS
    <3>1. PICK d : \/ sweep' = [sweep EXCEPT !.todo = @ \ {d}, !.saved = @ \cup {d}]
                   \/ sweep' = [sweep EXCEPT !.todo = @ \ {d}, !.failed = @ \cup {d}]
                   \/ sweep' = [sweep EXCEPT !.pc = "raised"]
      BY DEF SaveNext, SkipDevice, DeviceSaved, RaiseOut
    <3>2. sweep.pc = "save"
      BY DEF SaveNext
    <3> QED BY <3>1, <3>2 DEF SweepInv, IsSweep
  <2>5. sweep.pc = "raised" \/ sweep.todo = {}
    BY <2>2, <2>3, <2>4 DEF SweepStep, EndSweep
  <2>6. CASE r.dev \notin sweep.todo \/ sweep.todo = {}
    BY <2>6 DEF SweepInv, NothingLost
  <2>7. CASE r.dev \in sweep.todo /\ sweep.pc = "raised"
    <3>1. sweep.todo \in SUBSET Nat /\ sweep.todo # {}
      BY <2>7, MonitoringAssumption DEF SweepInv, IsSweep
    <3>2. \E x \in sweep.todo : \A y \in sweep.todo : x <= y
      BY <3>1, LeastOfNaturals
    <3>3. FirstOf(sweep.todo) \in sweep.todo /\ FirstOf(sweep.todo) <= r.dev
      BY <2>7, <3>2 DEF FirstOf
    <3> QED BY <2>7, <3>1, <3>3
  <2> QED BY <2>5, <2>6, <2>7
<1> QED BY <1>1, SweepInvariant, PTL DEF MonitoringSpec, OneFailureIsOne

----------------------------------------------------------------------------
(* What an SSH session reports                                              *)

Tokens == {"echo", "prompt", "reject", "confirm", "filename"}
Fresh(m) == [i \in 1..m |-> i]

(* Both are records, and what they hold has its type.                          *)
IsSsh ==
    /\ DOMAIN ssh = {"n", "type", "op", "cmds", "allow", "pc", "attempt", "k", "seg", "typed",
                     "expired", "nudged", "ahead", "result"}
    /\ ssh.ahead \in Nat /\ ssh.n \in Nat /\ ssh.k \in Nat \ {0} /\ ssh.cmds \in Seq({"line", "copy"}) /\ ssh.seg \in Seq(Tokens)
Shell == cli.shell
IsCli ==
    /\ DOMAIN cli = {"shell", "cand", "running", "lost"}
    /\ DOMAIN Shell = {"mode", "inbox", "say", "out", "asked", "done"}
    /\ Shell.inbox \in Seq(Nat) /\ Shell.say \in Seq(Tokens) /\ Shell.out \in Seq(Tokens)

(* The stages of a session, and that only an ended one has a result.           *)
Stages ==
    /\ ssh.pc \in {"connect", "show", "login", "send", "read",
                   "configure", "line", "commit", "revert", "ended"}
    /\ ssh.pc = "show" => ssh.op = "show"
    /\ ssh.pc \in {"login", "send", "read"} => ssh.type # "panos"
    /\ ssh.pc \in {"configure", "line", "commit", "revert"} => ssh.type = "panos"
    /\ ssh.pc # "ended" => ssh.result = "none"
    /\ ssh.pc \in {"connect", "login", "configure"} => ssh.k = 1

(* The lines typed are the first so many of the batch.                        *)
Reported == ssh.pc = "ended" /\ ssh.result = "ok" /\ ssh.op # "show"
TypedInOrder ==
    \E m \in Nat :
        /\ ssh.typed = Fresh(m)
        /\ ssh.pc \in {"connect", "configure", "login", "send", "line"} => ssh.k = m + 1
        /\ ssh.pc = "read" => ssh.k = m
        /\ ssh.pc = "commit" \/ Reported => m = Len(ssh.cmds)

(* PAN-OS has every line it was given, as a candidate and then for good.        *)
Held ==
    /\ ssh.pc \in {"line", "commit"} => \A i \in DOMAIN ssh.typed : Line(i) \in cli.cand
    /\ Reported /\ ssh.type = "panos" => \A i \in DOMAIN ssh.cmds : Line(i) \in cli.running

(* The shell, as long as no prompt too many may come: it waits at its prompt with    *)
(* nothing to say between two commands.  After one it says that it did it, that it    *)
(* did not, or it asks; it is answered once all of the question is read, and does    *)
(* the command then.                                                            *)
Said == ssh.seg \o Shell.out \o Shell.say
Calm(m) == Shell.inbox = <<>> /\ Shell.mode = "prompt" /\ Shell.done = Fresh(m)
Quiet == Shell.say = <<>> /\ Shell.out = <<>>
Questions == {<<"echo", "confirm">>, <<"echo", "filename">>}
Prompted == \/ Shell.say = <<"prompt">> /\ Shell.out = <<>>
            \/ Shell.say = <<>> /\ Shell.out = <<"prompt">>
InDoubt == Shell.mode # "prompt" /\ Shell.asked = ssh.k /\ Shell.done = Fresh(ssh.k - 1)
Unasked == Shell.inbox = <<ssh.k>> /\ Shell.mode = "prompt" /\ Shell.done = Fresh(ssh.k - 1)
           /\ Said = <<>>
Did == Calm(ssh.k) /\ Said = <<"echo", "prompt">>
Complains == Shell.inbox = <<>> /\ Said = <<"echo", "reject", "prompt">>
Inquires == /\ Shell.inbox = <<>> /\ InDoubt /\ ~Quiet /\ Said \in Questions
            /\ Said = <<"echo", "filename">> => ssh.cmds[ssh.k] = "copy"
Answered == Shell.inbox = <<Answer>> /\ InDoubt /\ Quiet /\ ssh.seg \in Questions
DidAnswered == Calm(ssh.k) /\ Prompted /\ ssh.seg \in Questions
AfterCommand == Unasked \/ Did \/ Complains \/ Inquires \/ Answered \/ DidAnswered
InStep ==
    /\ ssh.pc = "connect" => Shell = FreshShell /\ ssh.ahead = 0
    /\ ssh.pc = "login" => Calm(0) /\ Prompted
    /\ ssh.pc = "send" /\ ssh.ahead = 0 => Calm(ssh.k - 1) /\ Quiet
    /\ ssh.pc = "read" /\ ssh.ahead = 0 => AfterCommand
    /\ Reported /\ ssh.type # "panos" /\ ssh.ahead = 0 => Calm(Len(ssh.cmds))

SshInv == IsSsh /\ IsCli /\ Stages /\ TypedInOrder /\ Held /\ InStep

LEMMA FreshIs ==
    ASSUME NEW m \in Nat
    PROVE  /\ Fresh(m) \in Seq(Nat) /\ Len(Fresh(m)) = m /\ DOMAIN Fresh(m) = 1..m
           /\ \A i \in 1..m : Fresh(m)[i] = i
           /\ Append(Fresh(m), m + 1) = Fresh(m + 1)
           /\ Fresh(0) = <<>>
<1> USE DEF Fresh
<1>1. /\ Fresh(m) \in Seq(Nat) /\ Fresh(m + 1) \in Seq(Nat) /\ Len(Fresh(m)) = m
      /\ Len(Fresh(m + 1)) = m + 1
  BY IsASeq
<1>2. Append(Fresh(m), m + 1) = Fresh(m + 1)
  <2>1. /\ Append(Fresh(m), m + 1) \in Seq(Nat) /\ Len(Append(Fresh(m), m + 1)) = m + 1
        /\ \A i \in 1..m : Append(Fresh(m), m + 1)[i] = Fresh(m)[i]
        /\ Append(Fresh(m), m + 1)[m + 1] = m + 1
    BY <1>1, AppendProperties
  <2> QED BY <1>1, <2>1, SeqEqual
<1> QED BY <1>1, <1>2

(* What was said and what will be: printing and reading leave it the same.      *)
LEMMA SaidOn ==
    ASSUME NEW seg \in Seq(Tokens), NEW out \in Seq(Tokens), NEW say \in Seq(Tokens)
    PROVE  /\ seg \o out \in Seq(Tokens)
           /\ (seg \o out) \o <<>> \o say = seg \o out \o say
           /\ seg = <<>> /\ out = <<>> => seg \o out \o say = say
<1>1. seg \o out \in Seq(Tokens)
  BY ConcatProperties
<1>2. (seg \o out) \o <<>> = seg \o out
  BY <1>1, ConcatEmptySeq
<1>3. seg = <<>> /\ out = <<>> => seg \o out \o say = say
  BY ConcatEmptySeq
<1> QED BY <1>1, <1>2, <1>3

LEMMA PrintedOn ==
    ASSUME NEW seg \in Seq(Tokens), NEW out \in Seq(Tokens), NEW say \in Seq(Tokens), say # <<>>
    PROVE  (seg \o Append(out, Head(say))) \o Tail(say) = (seg \o out) \o say
<1>1. /\ Head(say) \in Tokens /\ Tail(say) \in Seq(Tokens) /\ Len(Tail(say)) = Len(say) - 1
      /\ \A i \in 1..Len(Tail(say)) : Tail(say)[i] = say[i + 1]
  BY HeadTailProperties
<1>2. /\ <<Head(say)>> \in Seq(Tokens) /\ Append(out, Head(say)) = out \o <<Head(say)>>
      /\ Append(out, Head(say)) \in Seq(Tokens) /\ seg \o out \in Seq(Tokens)
  BY <1>1, AppendIsConcat, AppendProperties, ConcatProperties
<1>3. <<Head(say)>> \o Tail(say) = say
  <2>1. /\ <<Head(say)>> \o Tail(say) \in Seq(Tokens)
        /\ Len(<<Head(say)>> \o Tail(say)) = 1 + Len(Tail(say))
        /\ \A i \in 1..1 + Len(Tail(say)) : (<<Head(say)>> \o Tail(say))[i] =
               IF i <= 1 THEN <<Head(say)>>[i] ELSE Tail(say)[i - 1]
    BY <1>1, <1>2, ConcatProperties
  <2> QED BY <1>1, <2>1, SeqEqual
<1>4. seg \o Append(out, Head(say)) = (seg \o out) \o <<Head(say)>>
  BY <1>2, ConcatAssociative
<1>5. ((seg \o out) \o <<Head(say)>>) \o Tail(say) = (seg \o out) \o (<<Head(say)>> \o Tail(say))
  BY <1>1, <1>2, ConcatAssociative
<1> QED BY <1>1, <1>2, <1>3, <1>4, <1>5

(* A prompt and a question are the last thing said, so what ends with one is all     *)
(* there is.                                                                    *)
AllSaid == {<<"echo", "prompt">>, <<"echo", "reject", "prompt">>, <<>>} \cup Questions
LEMMA PromptIsLast ==
    ASSUME NEW s \in Seq(Tokens), NEW say \in Seq(Tokens),
           NEW t \in {"prompt", "confirm", "filename"}, LastOf(s) = t, s \o say \in AllSaid
    PROVE  /\ say = <<>> /\ s = s \o say
           /\ t = "prompt" => s \o say = <<"echo", "prompt">> \/ Says("reject", s)
           /\ t # "prompt" => s \o say = <<"echo", t>>
<1>1. /\ s # <<>> /\ s[Len(s)] = t /\ Len(s) \in Nat \ {0}
  BY DEF LastOf
<1>2. /\ Len(s \o say) = Len(s) + Len(say) /\ (s \o say)[Len(s)] = t
      /\ Len(say) \in Nat
  BY <1>1, ConcatProperties
<1>3. /\ Len(s \o say) = Len(s)
      /\ t = "prompt" => s \o say \in {<<"echo", "prompt">>, <<"echo", "reject", "prompt">>}
      /\ t # "prompt" => s \o say = <<"echo", t>>
  <2> DEFINE all == s \o say  m == Len(s)  l == Len(say)
  <2>1. /\ m \in Nat \ {0} /\ l \in Nat /\ Len(all) = m + l /\ all[m] = t
        /\ all \in AllSaid
    BY <1>1, <1>2
  <2> SUFFICES /\ Len(all) = m
               /\ t = "prompt" => all \in {<<"echo", "prompt">>, <<"echo", "reject", "prompt">>}
               /\ t # "prompt" => all = <<"echo", t>>
    OBVIOUS
  <2> HIDE DEF all, m, l
  <2>2. CASE all = <<"echo", "prompt">>
    BY <2>1, <2>2
  <2>3. CASE all = <<"echo", "reject", "prompt">>
    BY <2>1, <2>3
  <2>4. CASE all = <<"echo", "confirm">>
    BY <2>1, <2>4
  <2>5. CASE all = <<"echo", "filename">>
    BY <2>1, <2>5
  <2>6. CASE all = <<>>
    BY <2>1, <2>6
  <2> QED BY <2>1, <2>2, <2>3, <2>4, <2>5, <2>6 DEF AllSaid, Questions
<1>4. say = <<>>
  BY <1>2, <1>3
<1>5. s \o say = s
  BY <1>4, ConcatEmptySeq
<1> QED BY <1>1, <1>2, <1>3, <1>4, <1>5 DEF Says

(* What was read of a question that was answered ends with it, or with the prompt.   *)
LEMMA AnswerIsLast ==
    ASSUME NEW seg \in Questions, NEW out \in {<<>>, <<"prompt">>}
    PROVE  /\ LastOf(seg \o out) = "prompt" <=> out = <<"prompt">>
           /\ seg \o <<>> = seg /\ seg \in Seq(Tokens)
<1>1. seg \in Seq(Tokens) /\ seg # <<>> /\ Len(seg) = 2 /\ seg[2] # "prompt"
  <2>1. \A q \in {"confirm", "filename"} :
            LET s == <<"echo", q>> IN s \in Seq(Tokens) /\ s # <<>> /\ Len(s) = 2 /\ s[2] # "prompt"
    BY DEF Tokens
  <2> QED BY <2>1 DEF Questions
<1>2. seg \o <<>> = seg
  BY <1>1, ConcatEmptySeq
<1>3. CASE out = <<>>
  BY <1>1, <1>2, <1>3 DEF LastOf
<1>4. CASE out = <<"prompt">>
  <2>1. <<"prompt">> \in Seq(Tokens)
    BY DEF Tokens
  <2>2. Len(seg \o out) = 3 /\ (seg \o out)[3] = "prompt"
    BY <1>1, <1>4, <2>1, ConcatProperties
  <2> QED BY <1>1, <1>2, <1>4, <2>2 DEF LastOf
<1> QED BY <1>1, <1>2, <1>3, <1>4

(* A session that fails, or that only asked, reports nothing.                  *)
LEMMA EndIsSound ==
    ASSUME SshInv, NEW result, EndSession(result), result # "ok" \/ ssh.op = "show", IsCli'
    PROVE  SshInv'
<1>1. /\ ssh'.pc = "ended" /\ ssh'.result = result /\ ssh'.typed = ssh.typed
      /\ ssh'.type = ssh.type /\ ssh'.op = ssh.op /\ ssh'.k = ssh.k /\ IsSsh'
  BY DEF SshInv, IsSsh, EndSession
<1>2. Stages' /\ Held' /\ InStep' /\ ~Reported'
  BY <1>1 DEF Stages, Held, InStep, Reported
<1>3. TypedInOrder'
  BY <1>1, <1>2 DEF SshInv, TypedInOrder
<1> QED BY <1>1, <1>2, <1>3 DEF SshInv

(* What typing a line and reading what was printed do to the shell.             *)
LEMMA LineTyped ==
    ASSUME IsCli, NEW line \in Nat
    PROVE  LET typed == Type(line) IN
           /\ DOMAIN typed = DOMAIN cli /\ DOMAIN typed.shell = DOMAIN Shell
           /\ typed.shell.inbox \in Seq(Nat)
           /\ Shell.inbox = <<>> => typed.shell.inbox = <<line>>
           /\ typed.shell.say = Shell.say /\ typed.shell.out = Shell.out
           /\ typed.shell.mode = Shell.mode /\ typed.shell.done = Shell.done
           /\ typed.cand = cli.cand /\ typed.running = cli.running
<1>1. Append(Shell.inbox, line) \in Seq(Nat)
  BY AppendProperties DEF IsCli
<1>2. Shell.inbox = <<>> => Append(Shell.inbox, line) = <<line>>
  OBVIOUS
<1>3. Type(line) = [cli EXCEPT !.shell = [Shell EXCEPT !.inbox = Append(Shell.inbox, line)]]
  BY DEF Type, IsCli, Shell
<1> QED BY <1>1, <1>2, <1>3 DEF IsCli, Shell

LEMMA OutDrained ==
    ASSUME IsCli, cli' = Drained
    PROVE  /\ IsCli' /\ Shell'.out = <<>> /\ cli'.cand = cli.cand /\ cli'.running = cli.running
           /\ \A field \in {"mode", "inbox", "say", "asked", "done"} : Shell'[field] = Shell[field]
<1>1. /\ DOMAIN cli' = DOMAIN cli /\ cli'.shell = [Shell EXCEPT !.out = <<>>]
      /\ cli'.cand = cli.cand /\ cli'.running = cli.running
  BY DEF Drained, IsCli, Shell
<1>2. /\ DOMAIN Shell' = DOMAIN Shell /\ Shell'.out = <<>>
      /\ \A field \in {"mode", "inbox", "say", "asked", "done"} : Shell'[field] = Shell[field]
  BY <1>1 DEF IsCli, Shell
<1> QED BY <1>1, <1>2 DEF IsCli

LEMMA OpenSound ==
    ASSUME SshInv, NEW type \in DeviceTypes, NEW op \in Operations,
           NEW cmds \in CommandLists, NEW allow \in BOOLEAN,
           OpenSession(type, op, cmds, allow)
    PROVE  SshInv'
<1>1. /\ ssh'.pc \in {"connect", "ended"} /\ ssh'.typed = <<>> /\ ssh'.k = 1 /\ ssh'.seg = <<>>
      /\ ssh'.cmds = cmds /\ ssh'.ahead = 0 /\ ssh'.n = ssh.n + 1
      /\ ssh'.result = IF ssh'.pc = "ended" THEN "error" ELSE "none"
  BY DEF OpenSession, NoSession
<1>2. IsSsh'
  <2>1. DOMAIN ssh' = DOMAIN NoSession
    BY DEF OpenSession
  <2>2. DOMAIN NoSession = {"n", "type", "op", "cmds", "allow", "pc", "attempt", "k", "seg",
                            "typed", "expired", "nudged", "ahead", "result"}
    BY DEF NoSession
  <2>3. ssh.n \in Nat
    BY DEF SshInv, IsSsh
  <2> QED BY <1>1, <2>1, <2>2, <2>3 DEF IsSsh, CommandLists
<1>3. cli'.shell = FreshShell /\ IsCli'
  <2>1. cli'.shell = FreshShell /\ DOMAIN cli' = DOMAIN cli
    BY DEF OpenSession, SshInv, IsCli
  <2>2. /\ DOMAIN FreshShell = {"mode", "inbox", "say", "out", "asked", "done"}
        /\ FreshShell.inbox \in Seq(Nat) /\ FreshShell.out \in Seq(Tokens)
        /\ FreshShell.say \in Seq(Tokens)
    BY DEF FreshShell, Tokens
  <2> QED BY <2>1, <2>2 DEF SshInv, IsCli, Shell
<1>4. Stages' /\ Held' /\ InStep' /\ ~Reported'
  BY <1>1, <1>3 DEF Stages, Held, InStep, Reported, Shell
<1>5. TypedInOrder'
  <2>1. Fresh(0) = <<>>
    BY FreshIs
  <2> QED BY <1>1, <1>4, <2>1 DEF TypedInOrder
<1> QED BY <1>2, <1>3, <1>4, <1>5 DEF SshInv

LEMMA ConnectSound ==
    ASSUME SshInv, Connect
    PROVE  SshInv'
<1> USE DEF Connect, Stage
<1>0. IsCli' /\ cli' = cli
  BY DEF SshInv, IsCli, Shell
<1>1. CASE ssh' = [ssh EXCEPT !.pc = FirstStep]
  <2>1. /\ ssh'.pc = FirstStep /\ ssh'.typed = ssh.typed /\ ssh'.type = ssh.type /\ ssh'.op = ssh.op
        /\ ssh'.k = ssh.k /\ ssh'.result = ssh.result /\ ssh'.ahead = ssh.ahead /\ IsSsh'
    BY <1>1 DEF SshInv, IsSsh
  <2>2. FirstStep \in {"show", "configure", "login"}
    BY DEF FirstStep
  <2>3. Stages' /\ Held' /\ ~Reported'
    BY <2>1, <1>0 DEF SshInv, Stages, Held, Reported, FirstStep
  <2>4. TypedInOrder'
    BY <2>1, <2>2, <2>3 DEF SshInv, TypedInOrder
  <2>5. InStep'
    <3>1. FreshShell.inbox = <<>> /\ FreshShell.mode = "prompt" /\ FreshShell.done = Fresh(0)
          /\ FreshShell.say = <<"prompt">> /\ FreshShell.out = <<>>
      BY FreshIs DEF FreshShell
    <3> QED BY <2>1, <2>2, <2>3, <1>0, <3>1 DEF SshInv, InStep, Calm, Prompted, Shell
  <2> QED BY <1>0, <2>1, <2>3, <2>4, <2>5 DEF SshInv
<1>2. CASE ssh' = [ssh EXCEPT !.attempt = @ + 1]
  <2>1. /\ ssh'.pc = "connect" /\ ssh'.typed = ssh.typed /\ ssh'.type = ssh.type /\ ssh'.op = ssh.op
        /\ ssh'.k = ssh.k /\ ssh'.result = ssh.result /\ ssh'.ahead = ssh.ahead /\ IsSsh'
    BY <1>2 DEF SshInv, IsSsh
  <2>2. Stages' /\ Held' /\ ~Reported' /\ TypedInOrder' /\ InStep'
    BY <2>1, <1>0 DEF SshInv, Stages, Held, Reported, TypedInOrder, InStep, Shell
  <2> QED BY <1>0, <2>1, <2>2 DEF SshInv
<1>3. CASE EndSession("error")
  BY <1>0, <1>3, EndIsSound
<1> QED BY <1>1, <1>2, <1>3

LEMMA BreakSound ==
    ASSUME SshInv, Show \/ Broken \/ RevertCandidate
    PROVE  SshInv'
<1>1. IsCli'
  BY DEF Show, Broken, RevertCandidate, SshInv, IsCli, Shell
<1>2. CASE Show
  <2>1. PICK result : EndSession(result)
    BY <1>2 DEF Show
  <2> QED BY <1>1, <1>2, <2>1, EndIsSound DEF Show, Stage, SshInv, Stages
<1>3. CASE Broken \/ RevertCandidate
  BY <1>1, <1>3, EndIsSound DEF Broken, RevertCandidate
<1> QED BY <1>2, <1>3

(* Steps of the backend that leave the device alone.                          *)
LEMMA ExpireSound ==
    ASSUME SshInv, Expire
    PROVE  SshInv'
<1>1. /\ IsCli' /\ cli' = cli
  BY DEF Expire, SshInv, IsCli, Shell
<1>2. /\ ssh'.pc = ssh.pc /\ ssh'.typed = ssh.typed /\ ssh'.type = ssh.type /\ ssh'.op = ssh.op
      /\ ssh'.k = ssh.k /\ ssh'.result = ssh.result /\ ssh'.ahead = ssh.ahead
      /\ ssh'.cmds = ssh.cmds /\ ssh'.seg = ssh.seg /\ ssh'.n = ssh.n /\ IsSsh'
  BY DEF Expire, SshInv, IsSsh
<1>3. Stages' /\ TypedInOrder' /\ (Reported <=> Reported')
  BY <1>2 DEF SshInv, Stages, TypedInOrder, Reported
<1>4. Held' /\ InStep'
  BY <1>1, <1>2, <1>3 DEF SshInv, Held, Line, InStep, Shell, Calm, AfterCommand, Unasked,
                          Did, Complains, Inquires, InDoubt, Answered, DidAnswered, Prompted,
                          Quiet, Said
<1> QED BY <1>1, <1>2, <1>3, <1>4 DEF SshInv

LEMMA LoginSound ==
    ASSUME SshInv, LoginDrain
    PROVE  SshInv'
<1>1. /\ IsCli' /\ Shell'.out = <<>> /\ cli'.cand = cli.cand
      /\ \A field \in {"mode", "inbox", "say", "asked", "done"} : Shell'[field] = Shell[field]
  BY OutDrained DEF LoginDrain, Drained, SshInv
<1>2. /\ ssh.pc = "login" /\ ssh'.pc = "send" /\ ssh'.typed = ssh.typed /\ ssh'.type = ssh.type
      /\ ssh'.op = ssh.op /\ ssh'.k = ssh.k /\ ssh'.result = ssh.result
      /\ (ssh'.ahead = 0 <=> LastOf(Shell.out) = "prompt") /\ IsSsh'
  BY DEF LoginDrain, Stage, SshInv, IsSsh, Shell
<1>3. Stages' /\ Held' /\ ~Reported'
  BY <1>2 DEF SshInv, Stages, Held, Reported
<1>4. TypedInOrder'
  BY <1>2, <1>3 DEF SshInv, TypedInOrder
<1>5. InStep'
  <2>1. Calm(0) /\ (LastOf(Shell.out) = "prompt" => Shell.say = <<>>)
    BY <1>2 DEF SshInv, InStep, Prompted, LastOf
  <2>2. ssh.k = 1
    BY <1>2 DEF SshInv, Stages
  <2> QED BY <1>1, <1>2, <1>3, <2>1, <2>2 DEF InStep, Calm, Quiet
<1> QED BY <1>1, <1>2, <1>3, <1>4, <1>5 DEF SshInv

LEMMA SendSound ==
    ASSUME SshInv, Send
    PROVE  SshInv'
<1>1. /\ IsCli' /\ cli'.cand = cli.cand /\ Shell'.say = Shell.say /\ Shell'.out = Shell.out
      /\ Shell'.mode = Shell.mode /\ Shell'.done = Shell.done
      /\ Shell.inbox = <<>> => Shell'.inbox = <<ssh.k>>
  <2>1. ssh.k \in Nat /\ cli' = Type(ssh.k)
    BY DEF Send, SshInv, IsSsh
  <2> QED BY <2>1, LineTyped DEF SshInv, IsCli, Shell
<1>2. /\ ssh.pc = "send" /\ ssh'.pc = "read" /\ ssh'.typed = Append(ssh.typed, ssh.k)
      /\ ssh'.type = ssh.type /\ ssh'.op = ssh.op /\ ssh'.k = ssh.k /\ ssh'.result = ssh.result
      /\ ssh'.ahead = ssh.ahead /\ ssh'.seg = <<>> /\ ssh'.cmds = ssh.cmds /\ IsSsh'
  BY DEF Send, Stage, SshInv, IsSsh
<1>3. Stages' /\ Held' /\ ~Reported'
  BY <1>2 DEF SshInv, Stages, Held, Reported
<1>4. TypedInOrder'
  <2>1. PICK m \in Nat : ssh.typed = Fresh(m) /\ ssh.k = m + 1
    BY <1>2 DEF SshInv, TypedInOrder
  <2>2. ssh'.typed = Fresh(m + 1) /\ ssh'.k = m + 1
    BY <1>2, <2>1, FreshIs
  <2> QED BY <1>2, <1>3, <2>2 DEF TypedInOrder
<1>5. InStep'
  <2>1. ASSUME ssh.ahead = 0 PROVE Unasked'
    <3>1. Calm(ssh.k - 1) /\ Quiet
      BY <1>2, <2>1 DEF SshInv, InStep
    <3>2. Said' = <<>>
      BY <1>1, <1>2, <3>1, ConcatEmptySeq DEF Said, Quiet
    <3> QED BY <1>1, <1>2, <3>1, <3>2 DEF Calm, Unasked
  <2> QED BY <1>2, <1>3, <2>1 DEF InStep, AfterCommand
<1> QED BY <1>1, <1>2, <1>3, <1>4, <1>5 DEF SshInv

(* Reading: what was read is the first part of what is said in all.            *)
LEMMA ReadSound ==
    ASSUME SshInv, Read
    PROVE  SshInv'
<1>0. /\ ssh.pc = "read" /\ ssh.type # "panos" /\ ssh.k \in Nat /\ Segment \in Seq(Tokens)
      /\ Said = Segment \o Shell.say /\ Said = Segment \o <<>> \o Shell.say
  <2>1. ssh.pc = "read"
    BY DEF Read, TakeShow, Complete, Confirm, RefuseToConfirm, KeepReading, Nudge, GiveUp, Waiting,
           AtQuestion, Reading, Stage
  <2> QED BY <2>1, SaidOn DEF SshInv, Stages, IsSsh, IsCli, Segment, Said, Shell
<1>1. CASE TakeShow \/ RefuseToConfirm \/ GiveUp
  <2>1. IsCli'
    BY <1>1, OutDrained DEF TakeShow, RefuseToConfirm, GiveUp, SshInv
  <2> QED BY <1>1, <2>1, EndIsSound DEF TakeShow, RefuseToConfirm, GiveUp
<1>2. CASE Complete
  <2>1. /\ IsCli' /\ Shell'.out = <<>> /\ cli'.cand = cli.cand /\ cli'.running = cli.running
        /\ Shell'.mode = Shell.mode /\ Shell'.inbox = Shell.inbox /\ Shell'.say = Shell.say
        /\ Shell'.done = Shell.done
    BY <1>2, OutDrained DEF Complete, SshInv
  <2>2. ssh.ahead = 0 /\ ~Says("reject", Segment) => Calm(ssh.k) /\ Shell.say = <<>>
    <3> SUFFICES ASSUME ssh.ahead = 0, ~Says("reject", Segment) PROVE Calm(ssh.k) /\ Shell.say = <<>>
      OBVIOUS
    <3>1. AfterCommand
      BY <1>0 DEF SshInv, InStep
    <3>2. LastOf(Segment) = "prompt" /\ Shell.say \in Seq(Tokens)
      BY <1>2 DEF Complete, AtPrompt, SshInv, IsCli
    <3>3. CASE Answered \/ DidAnswered
      <4>1. ssh.seg \in Questions /\ Shell.out \in {<<>>, <<"prompt">>}
        BY <3>3 DEF Answered, DidAnswered, Quiet, Prompted
      <4>2. Shell.out = <<"prompt">>
        BY <3>2, <4>1, AnswerIsLast DEF Segment, Shell
      <4> QED BY <3>3, <4>2 DEF Answered, DidAnswered, Quiet, Prompted
    <3>4. CASE ~(Answered \/ DidAnswered)
      <4>1. Said \in AllSaid
        BY <3>1, <3>4 DEF AfterCommand, Unasked, Did, Complains, Inquires, AllSaid
      <4>2. Shell.say = <<>> /\ Said = <<"echo", "prompt">>
        BY <1>0, <3>2, <4>1, PromptIsLast
      <4> QED BY <3>1, <3>4, <4>2 DEF AfterCommand, Unasked, Did, Complains, Inquires, Questions
    <3> QED BY <3>3, <3>4
  <2>3. CASE EndSession("error")
    BY <2>1, <2>3, EndIsSound
  <2>4. CASE EndSession("ok") /\ ssh.k = Len(ssh.cmds) /\ ~Says("reject", Segment)
    <3>1. /\ ssh'.pc = "ended" /\ ssh'.typed = ssh.typed /\ ssh'.type = ssh.type /\ ssh'.op = ssh.op
          /\ ssh'.k = ssh.k /\ ssh'.ahead = ssh.ahead /\ ssh'.cmds = ssh.cmds /\ IsSsh'
      BY <2>4 DEF EndSession, SshInv, IsSsh
    <3>2. Stages' /\ Held'
      BY <1>0, <3>1 DEF Stages, Held
    <3>3. TypedInOrder'
      BY <1>0, <2>4, <3>1 DEF SshInv, TypedInOrder
    <3>4. InStep'
      BY <2>1, <2>2, <2>4, <3>1 DEF InStep, Calm
    <3> QED BY <2>1, <3>1, <3>2, <3>3, <3>4 DEF SshInv
  <2>5. CASE ssh' = [ssh EXCEPT !.k = @ + 1, !.pc = "send"] /\ ~Says("reject", Segment)
    <3>1. /\ ssh'.pc = "send" /\ ssh'.typed = ssh.typed /\ ssh'.type = ssh.type /\ ssh'.op = ssh.op
          /\ ssh'.k = ssh.k + 1 /\ ssh'.ahead = ssh.ahead /\ ssh'.result = ssh.result /\ IsSsh'
      BY <2>5 DEF SshInv, IsSsh
    <3>2. Stages' /\ Held' /\ ~Reported'
      BY <1>0, <3>1 DEF SshInv, Stages, Held, Reported
    <3>3. TypedInOrder'
      BY <1>0, <3>1, <3>2 DEF SshInv, TypedInOrder
    <3>4. InStep'
      BY <1>0, <2>1, <2>2, <2>5, <3>1, <3>2 DEF InStep, Calm, Quiet
    <3> QED BY <2>1, <3>1, <3>2, <3>3, <3>4 DEF SshInv
  <2> QED BY <1>2, <2>3, <2>4, <2>5 DEF Complete
<1>3. ASSUME NEW nudged \in BOOLEAN, Reply(nudged), Nudge \/ AtQuestion PROVE SshInv'
  <2> DEFINE inbox == IF Fits THEN Append(Shell.inbox, Answer) ELSE Shell.inbox
             ahead == IF Shell.out = <<>> /\ Fits THEN ssh.ahead + 1 ELSE ssh.ahead
  <2>1. /\ IsCli' /\ Shell'.out = <<>> /\ cli'.cand = cli.cand /\ cli'.running = cli.running
        /\ Shell'.mode = Shell.mode /\ Shell'.inbox = inbox /\ Shell'.say = Shell.say
        /\ Shell'.done = Shell.done /\ Shell'.asked = Shell.asked
    <3>1. Append(Shell.inbox, Answer) \in Seq(Nat)
      BY AppendProperties DEF SshInv, IsCli, Answer
    <3>2. inbox \in Seq(Nat)
      BY <3>1 DEF SshInv, IsCli
    <3>3. cli' = [cli EXCEPT !.shell = [Shell EXCEPT !.inbox = inbox, !.out = <<>>]]
      BY <1>3 DEF Reply, Shell, SshInv, IsCli
    <3> HIDE DEF inbox
    <3>4. DOMAIN cli' = DOMAIN cli /\ Shell' = [Shell EXCEPT !.inbox = inbox, !.out = <<>>]
          /\ cli'.cand = cli.cand /\ cli'.running = cli.running
      BY <3>3 DEF SshInv, IsCli, Shell
    <3> QED BY <3>2, <3>4 DEF SshInv, IsCli
  <2>2. /\ ssh'.pc = ssh.pc /\ ssh'.typed = ssh.typed /\ ssh'.type = ssh.type /\ ssh'.op = ssh.op
        /\ ssh'.k = ssh.k /\ ssh'.result = ssh.result /\ ssh'.cmds = ssh.cmds
        /\ ssh'.seg = Segment /\ ssh'.ahead = ahead /\ IsSsh'
    <3>1. ahead \in Nat
      BY DEF SshInv, IsSsh
    <3>2. ssh' = [ssh EXCEPT !.seg = Segment, !.nudged = nudged \/ @, !.expired = @ /\ ~nudged,
                            !.ahead = ahead]
      BY <1>3 DEF Reply, Shell
    <3> HIDE DEF ahead
    <3> QED BY <1>0, <3>1, <3>2 DEF SshInv, IsSsh
  <2>3. Stages' /\ Held' /\ ~Reported'
    BY <1>0, <2>2 DEF SshInv, Stages, Held, Reported
  <2>4. TypedInOrder'
    BY <1>0, <2>2, <2>3 DEF SshInv, TypedInOrder
  <2>5. Said' = Said
    BY <1>0, <2>1, <2>2 DEF Said
  <2>6. ASSUME ahead = 0 PROVE AfterCommand'
    <3>1. ssh.ahead = 0 /\ AfterCommand /\ (Shell.out = <<>> => ~Fits)
      BY <1>0, <2>6 DEF SshInv, IsSsh, InStep
    <3>2. CASE Shell.out = <<>>
      <4>1. Shell'.inbox = Shell.inbox /\ Shell'.out = Shell.out
        BY <2>1, <3>1, <3>2
      <4>2. ssh.seg \in Questions => ssh'.seg = ssh.seg
        BY <2>2, <3>2, AnswerIsLast DEF Segment, Shell
      <4> QED BY <2>1, <2>2, <2>5, <3>1, <4>1, <4>2
              DEF AfterCommand, Unasked, Did, Complains, Inquires, InDoubt, Answered, DidAnswered,
                  Prompted, Quiet, Calm
    <3>3. CASE Shell.out # <<>>
      <4>1. AtQuestion /\ LastOf(Segment) \in {"confirm", "filename"}
        <5>1. Nudge => Shell.out = <<>>
          <6> SUFFICES ASSUME Nudge PROVE Shell.out = <<>>
            OBVIOUS
          <6>1. ssh.seg \o Shell.out = <<>> /\ ssh.seg \in Seq(Tokens) /\ Shell.out \in Seq(Tokens)
            BY DEF Nudge, Segment, Shell, SshInv, IsSsh, IsCli
          <6> QED BY <6>1, ConcatEqualIffEmpty
        <5>2. AtQuestion
          BY <1>3, <3>3, <5>1
        <5> QED BY <5>2 DEF AtQuestion, Question
      <4>2. ~Answered /\ ~DidAnswered
        <5>1. ~Answered
          BY <3>3 DEF Answered, Quiet
        <5>2. DidAnswered => Shell.out = <<"prompt">> /\ ssh.seg \in Questions
          BY <3>3 DEF DidAnswered, Prompted
        <5> QED BY <4>1, <5>1, <5>2, AnswerIsLast DEF Segment, Shell
      <4>3. Said \in AllSaid /\ Shell.say \in Seq(Tokens)
        BY <3>1, <4>2 DEF AfterCommand, Unasked, Did, Complains, Inquires, AllSaid, SshInv, IsCli
      <4>4. Shell.say = <<>> /\ Segment = Said /\ Said \in Questions
        BY <1>0, <4>1, <4>3, PromptIsLast DEF Questions
      <4>5. Inquires
        <5>1. /\ <<>> \notin Questions /\ <<"echo", "prompt">> \notin Questions
              /\ <<"echo", "reject", "prompt">> \notin Questions
          BY DEF Questions
        <5>2. ~Unasked /\ ~Did /\ ~Complains
          BY <4>4, <5>1 DEF Unasked, Did, Complains
        <5> QED BY <3>1, <4>2, <5>2 DEF AfterCommand
      <4>6. Fits /\ inbox = <<Answer>>
        BY <4>5, SshAssumption DEF Inquires, Fits, Shell
      <4> QED BY <2>1, <2>2, <4>4, <4>5, <4>6 DEF AfterCommand, Answered, Inquires, InDoubt, Quiet
    <3> QED BY <3>2, <3>3
  <2> HIDE DEF ahead, inbox
  <2>7. InStep'
    BY <1>0, <2>2, <2>3, <2>6 DEF InStep
  <2> QED BY <2>1, <2>2, <2>3, <2>4, <2>7 DEF SshInv
<1>4. CASE KeepReading
  <2>1. /\ IsCli' /\ Shell'.out = <<>> /\ cli'.cand = cli.cand /\ cli'.running = cli.running
        /\ Shell'.mode = Shell.mode /\ Shell'.inbox = Shell.inbox /\ Shell'.say = Shell.say
        /\ Shell'.done = Shell.done /\ Shell'.asked = Shell.asked
    BY <1>4, OutDrained DEF KeepReading, SshInv
  <2>2. /\ ssh'.pc = ssh.pc /\ ssh'.typed = ssh.typed /\ ssh'.type = ssh.type /\ ssh'.op = ssh.op
        /\ ssh'.k = ssh.k /\ ssh'.cmds = ssh.cmds /\ ssh'.ahead = ssh.ahead /\ ssh'.result = ssh.result
        /\ ssh'.seg = Segment /\ IsSsh'
    BY <1>0, <1>4 DEF KeepReading, SshInv, IsSsh
  <2>3. Stages' /\ Held' /\ ~Reported'
    BY <1>0, <2>2 DEF SshInv, Stages, Held, Reported
  <2>4. TypedInOrder'
    BY <1>0, <2>2, <2>3 DEF SshInv, TypedInOrder
  <2>5. Said' = Said
    BY <1>0, <2>1, <2>2 DEF Said
  <2>6. ASSUME ssh.ahead = 0 PROVE AfterCommand'
    <3>1. AfterCommand /\ Shell.out # <<>> /\ Shell.say \in Seq(Tokens)
      BY <1>0, <1>4, <2>6 DEF SshInv, InStep, KeepReading, Shell, IsCli
    <3>2. ~Answered /\ ~DidAnswered
      <4>1. DidAnswered => Shell.out = <<"prompt">> /\ ssh.seg \in Questions
        BY <3>1 DEF DidAnswered, Prompted
      <4>2. LastOf(Segment) # "prompt"
        BY <1>4 DEF KeepReading, Waiting, AtPrompt
      <4> QED BY <3>1, <4>1, <4>2, AnswerIsLast DEF Answered, Quiet, Segment, Shell
    <3>3. Inquires => Shell.say # <<>>
      <4> SUFFICES ASSUME Inquires, Shell.say = <<>> PROVE FALSE
        OBVIOUS
      <4>1. Segment = Said /\ Segment \in Questions
        BY <1>0, ConcatEmptySeq DEF Inquires
      <4>2. Question = LastOf(Segment)
        BY <4>1 DEF Question, Inquires, Questions, LastOf
      <4> QED BY <1>4, <4>1, <4>2 DEF KeepReading, Waiting, Questions, LastOf
    <3> QED BY <2>1, <2>2, <2>5, <3>1, <3>2, <3>3
            DEF AfterCommand, Unasked, Did, Complains, Inquires, InDoubt, Calm, Quiet
  <2>7. InStep'
    BY <1>0, <2>2, <2>3, <2>6 DEF InStep
  <2> QED BY <2>1, <2>2, <2>3, <2>4, <2>7 DEF SshInv
<1> QED BY <1>1, <1>2, <1>3, <1>4 DEF Read, Confirm, Nudge

(* PAN-OS: a line is held before it counts as typed.                          *)
LEMMA StageMoved ==
    ASSUME SshInv, NEW pc, Move(pc), pc = "revert" \/ (pc = "line" /\ ssh.pc = "configure"),
           ssh.type = "panos", ssh.result = "none", IsCli', cli'.cand = cli.cand \/ pc = "revert",
           ssh.typed = <<>> \/ pc = "revert"
    PROVE  SshInv'
<1>1. /\ ssh'.pc = pc /\ ssh'.typed = ssh.typed /\ ssh'.type = ssh.type /\ ssh'.op = ssh.op
      /\ ssh'.k = ssh.k /\ ssh'.result = ssh.result /\ IsSsh'
  BY DEF Move, SshInv, IsSsh
<1>2. Stages' /\ Held' /\ InStep' /\ ~Reported'
  BY <1>1 DEF SshInv, Stages, Held, InStep, Reported
<1>3. TypedInOrder'
  BY <1>1, <1>2 DEF SshInv, TypedInOrder
<1> QED BY <1>1, <1>2, <1>3 DEF SshInv

LEMMA LineSound ==
    ASSUME SshInv, SetLine
    PROVE  SshInv'
<1>0. ssh.pc = "line" /\ ssh.type = "panos" /\ ssh.result = "none" /\ IsCli'
      /\ (cli' = cli \/ cli' = [cli EXCEPT !.cand = @ \cup {Line(ssh.k)}])
  BY DEF SetLine, Stage, SshInv, Stages, IsCli, Shell
<1>1. CASE Move("revert")
  BY <1>0, <1>1, StageMoved
<1>2. CASE /\ cli' = [cli EXCEPT !.cand = @ \cup {Line(ssh.k)}]
           /\ ssh' = [ssh EXCEPT !.typed = Append(@, ssh.k), !.k = @ + 1,
                                 !.pc = IF ssh.k = Len(ssh.cmds) THEN "commit" ELSE "line"]
  <2>1. /\ ssh'.pc = IF ssh.k = Len(ssh.cmds) THEN "commit" ELSE "line"
        /\ ssh'.typed = Append(ssh.typed, ssh.k) /\ ssh'.type = ssh.type /\ ssh'.op = ssh.op
        /\ ssh'.k = ssh.k + 1 /\ ssh'.result = ssh.result /\ ssh'.cmds = ssh.cmds
        /\ ssh'.n = ssh.n /\ IsSsh'
    BY <1>2 DEF SshInv, IsSsh
  <2>2. Stages' /\ InStep' /\ ~Reported'
    BY <1>0, <2>1 DEF Stages, InStep, Reported
  <2>3. PICK m \in Nat : ssh.typed = Fresh(m) /\ ssh.k = m + 1
    BY <1>0 DEF SshInv, TypedInOrder
  <2>4. ssh'.typed = Fresh(m + 1) /\ ssh'.k = (m + 1) + 1
    BY <2>1, <2>3, FreshIs
  <2>5. TypedInOrder'
    BY <2>1, <2>2, <2>3, <2>4 DEF TypedInOrder
  <2>6. Held'
    <3>1. /\ DOMAIN ssh.typed = 1..m /\ DOMAIN ssh'.typed = 1..m + 1
      BY <2>3, <2>4, FreshIs
    <3>2. /\ cli'.cand = cli.cand \cup {Line(m + 1)}
          /\ \A i \in 1..m : Line(i) \in cli.cand
      BY <1>0, <1>2, <2>3, <3>1 DEF SshInv, Held, IsCli
    <3>3. \A i \in 1..m + 1 : <<ssh'.n, i>> \in cli'.cand
      BY <2>1, <3>2 DEF Line
    <3> QED BY <2>2, <3>1, <3>3 DEF Held, Line
  <2> QED BY <1>0, <2>1, <2>2, <2>5, <2>6 DEF SshInv
<1> QED BY <1>1, <1>2 DEF SetLine

LEMMA CommitSound ==
    ASSUME SshInv, CommitCandidate
    PROVE  SshInv'
<1>0. ssh.pc = "commit" /\ ssh.type = "panos" /\ ssh.result = "none" /\ (cli' = cli \/ cli' = Merged)
  BY DEF CommitCandidate, Stage, SshInv, Stages
<1>1. IsCli'
  BY <1>0 DEF Merged, SshInv, IsCli, Shell
<1>2. CASE Move("revert")
  BY <1>0, <1>1, <1>2, StageMoved
<1>3. CASE cli' = Merged /\ EndSession("ok")
  <2>1. /\ ssh'.pc = "ended" /\ ssh'.typed = ssh.typed /\ ssh'.type = ssh.type /\ ssh'.op = ssh.op
        /\ ssh'.k = ssh.k /\ ssh'.cmds = ssh.cmds /\ ssh'.n = ssh.n /\ IsSsh'
    BY <1>3 DEF EndSession, SshInv, IsSsh
  <2>2. Stages' /\ InStep'
    BY <1>0, <2>1 DEF Stages, InStep
  <2>3. PICK m \in Nat : ssh.typed = Fresh(m) /\ m = Len(ssh.cmds)
    BY <1>0 DEF SshInv, TypedInOrder
  <2>4. TypedInOrder'
    BY <2>1, <2>3 DEF TypedInOrder
  <2>5. Held'
    <3>1. DOMAIN ssh.typed = DOMAIN ssh.cmds
      BY <2>3, FreshIs DEF SshInv, IsSsh
    <3>2. cli'.running = cli.running \cup cli.cand
      BY <1>3 DEF Merged, SshInv, IsCli
    <3> QED BY <1>0, <2>1, <3>1, <3>2 DEF SshInv, Held, Line
  <2> QED BY <1>1, <2>1, <2>2, <2>4, <2>5 DEF SshInv
<1> QED BY <1>2, <1>3 DEF CommitCandidate

LEMMA ConfigureSound ==
    ASSUME SshInv, EnterConfigure
    PROVE  SshInv'
<1>1. /\ ssh.pc = "configure" /\ ssh.type = "panos" /\ ssh.result = "none" /\ cli' = cli /\ IsCli'
  BY DEF EnterConfigure, Stage, SshInv, Stages, IsCli, Shell
<1>2. ssh.typed = <<>>
  <2>1. PICK m \in Nat : ssh.typed = Fresh(m) /\ ssh.k = m + 1
    BY <1>1 DEF SshInv, TypedInOrder
  <2>2. ssh.k = 1
    BY <1>1 DEF SshInv, Stages
  <2>3. m = 0
    BY <2>1, <2>2
  <2>4. Fresh(0) = <<>>
    BY FreshIs
  <2> QED BY <2>1, <2>3, <2>4
<1> QED BY <1>1, <1>2, StageMoved DEF EnterConfigure

(* What a device does with a line touches neither the lines behind it nor what    *)
(* it printed.                                                                 *)
Sayings == {<<"echo", "prompt">>, <<"echo", "reject", "prompt">>, <<"echo", "confirm">>,
            <<"echo", "filename">>, <<"prompt">>}
LEMMA Echoes ==
    /\ Echo(<<"prompt">>) = <<"echo", "prompt">>
    /\ Echo(<<"reject", "prompt">>) = <<"echo", "reject", "prompt">>
    /\ Echo(<<"confirm">>) = <<"echo", "confirm">>
    /\ Echo(<<"filename">>) = <<"echo", "filename">>
<1>1. ASSUME NEW t \in Tokens PROVE Echo(<<t>>) = <<"echo", t>>
  <2>1. <<"echo">> \in Seq(Tokens) /\ <<t>> \in Seq(Tokens) /\ <<"echo", t>> \in Seq(Tokens)
    BY DEF Tokens
  <2>2. /\ Echo(<<t>>) \in Seq(Tokens) /\ Len(Echo(<<t>>)) = 2
        /\ Echo(<<t>>)[1] = "echo" /\ Echo(<<t>>)[2] = t
    BY <2>1, ConcatProperties DEF Echo
  <2> QED BY <2>1, <2>2, SeqEqual
<1>2. Echo(<<"reject", "prompt">>) = <<"echo", "reject", "prompt">>
  <2> DEFINE s == <<"reject", "prompt">>  t == <<"echo", "reject", "prompt">>
  <2>1. <<"echo">> \in Seq(Tokens) /\ s \in Seq(Tokens) /\ t \in Seq(Tokens)
    BY DEF Tokens
  <2>2. /\ Echo(s) \in Seq(Tokens) /\ Len(Echo(s)) = 3
        /\ Echo(s)[1] = "echo" /\ Echo(s)[2] = "reject" /\ Echo(s)[3] = "prompt"
    BY <2>1, ConcatProperties DEF Echo
  <2> QED BY <2>1, <2>2, SeqEqual
<1> QED BY <1>1, <1>2 DEF Tokens

LEMMA Reacts ==
    ASSUME NEW sh, NEW line, DOMAIN sh = {"mode", "inbox", "say", "out", "asked", "done"},
           NEW after \in Reactions(sh, line) \cup Answers(sh) \cup Accepts(sh)
                         \cup {[sh EXCEPT !.say = <<"prompt">>]}
    PROVE  /\ DOMAIN after = DOMAIN sh /\ after.inbox = sh.inbox /\ after.out = sh.out
           /\ after.say \in Sayings
           /\ after \in Reactions(sh, line) =>
                 /\ after.say # <<"prompt">>
                 /\ after.say = <<"echo", "prompt">> =>
                       after.mode = "prompt" /\ after.done = Append(sh.done, line)
                 /\ after.say \in Questions =>
                       after.mode # "prompt" /\ after.asked = line /\ after.done = sh.done
                 /\ after.say = <<"echo", "filename">> => ssh.cmds[line] = "copy"
           /\ after \in Accepts(sh) => /\ after.say = <<"prompt">> /\ after.mode = "prompt"
                                       /\ after.done = Append(sh.done, sh.asked)
<1>1. /\ DOMAIN Obey(sh, line) = DOMAIN sh /\ Obey(sh, line).inbox = sh.inbox
      /\ Obey(sh, line).out = sh.out /\ Obey(sh, line).mode = "prompt"
      /\ Obey(sh, line).done = Append(sh.done, line)
      /\ \A l : DOMAIN Obey(sh, l) = DOMAIN sh /\ Obey(sh, l).inbox = sh.inbox
                  /\ Obey(sh, l).out = sh.out /\ Obey(sh, l).mode = "prompt"
                  /\ Obey(sh, l).done = Append(sh.done, l)
  BY DEF Obey
<1> HIDE DEF Obey
<1>2. CASE after \in Reactions(sh, line)
  <2>1. \/ after = [Obey(sh, line) EXCEPT !.say = <<"echo", "prompt">>]
        \/ after = [sh EXCEPT !.say = <<"echo", "reject", "prompt">>]
        \/ after = [sh EXCEPT !.mode = "confirm", !.asked = line, !.say = <<"echo", "confirm">>]
        \/ /\ after = [sh EXCEPT !.mode = "filename", !.asked = line, !.say = <<"echo", "filename">>]
           /\ ssh.cmds[line] = "copy"
    BY <1>2, Echoes DEF Reactions
  <2>2. CASE after = [Obey(sh, line) EXCEPT !.say = <<"echo", "prompt">>]
    BY <1>1, <2>2 DEF Sayings, Questions, Accepts
  <2>3. CASE after = [sh EXCEPT !.say = <<"echo", "reject", "prompt">>]
    BY <1>1, <2>3 DEF Sayings, Questions, Accepts
  <2>4. CASE after = [sh EXCEPT !.mode = "confirm", !.asked = line, !.say = <<"echo", "confirm">>]
    BY <1>1, <2>4 DEF Sayings, Questions, Accepts
  <2>5. CASE /\ after = [sh EXCEPT !.mode = "filename", !.asked = line, !.say = <<"echo", "filename">>]
             /\ ssh.cmds[line] = "copy"
    BY <1>1, <2>5 DEF Sayings, Questions, Accepts
  <2> QED BY <2>1, <2>2, <2>3, <2>4, <2>5
<1>3. CASE after \notin Reactions(sh, line)
  <2>1. \/ after = [Obey(sh, sh.asked) EXCEPT !.say = <<"prompt">>]
        \/ /\ after = [sh EXCEPT !.mode = "prompt", !.say = <<"prompt">>] \/ after = [sh EXCEPT !.say = <<"prompt">>]
           /\ after \notin Accepts(sh)
    BY <1>3 DEF Answers, Accepts
  <2>2. CASE after = [Obey(sh, sh.asked) EXCEPT !.say = <<"prompt">>]
    BY <1>1, <1>3, <2>2 DEF Sayings
  <2>3. CASE /\ after = [sh EXCEPT !.mode = "prompt", !.say = <<"prompt">>] \/ after = [sh EXCEPT !.say = <<"prompt">>]
             /\ after \notin Accepts(sh)
    BY <1>3, <2>3 DEF Sayings
  <2> QED BY <2>1, <2>2, <2>3
<1> QED BY <1>2, <1>3

LEMMA SaysSound ==
    ASSUME SshInv, DeviceSays
    PROVE  SshInv'
<1>1. /\ ssh' = ssh /\ ssh.pc # "ended" /\ ssh.pc # "connect" /\ Shell.say # <<>>
      /\ cli'.cand = cli.cand /\ DOMAIN cli' = DOMAIN cli
      /\ Shell' = [Shell EXCEPT !.say = Tail(@), !.out = Append(@, Head(Shell.say))]
  BY DEF DeviceSays, Stage, SshInv, IsCli, Shell
<1>2. /\ Shell'.say = Tail(Shell.say) /\ Shell'.out = Append(Shell.out, Head(Shell.say))
      /\ Shell'.mode = Shell.mode /\ Shell'.inbox = Shell.inbox /\ Shell'.done = Shell.done
      /\ Shell'.asked = Shell.asked /\ DOMAIN Shell' = DOMAIN Shell /\ Shell'.out # <<>>
  BY <1>1 DEF SshInv, IsCli
<1>3. IsCli' /\ Said' = Said
  <2>1. /\ ssh.seg \in Seq(Tokens) /\ Shell.out \in Seq(Tokens) /\ Shell.say \in Seq(Tokens)
        /\ Shell.say # <<>>
    BY <1>1 DEF SshInv, IsCli, IsSsh
  <2>2. /\ Tail(Shell.say) \in Seq(Tokens) /\ Append(Shell.out, Head(Shell.say)) \in Seq(Tokens)
    BY <2>1, HeadTailProperties, AppendProperties
  <2>3. (ssh.seg \o Append(Shell.out, Head(Shell.say))) \o Tail(Shell.say)
           = (ssh.seg \o Shell.out) \o Shell.say
    BY <2>1, PrintedOn
  <2>4. Said' = Said
    BY <1>1, <1>2, <2>3 DEF Said
  <2> QED BY <1>1, <1>2, <2>2, <2>4 DEF SshInv, IsCli
<1>4. IsSsh' /\ Stages' /\ TypedInOrder' /\ Held' /\ ~Reported'
  BY <1>1 DEF SshInv, IsSsh, Stages, TypedInOrder, Held, Reported, Line
<1>5. InStep'
  <2>1. CASE ssh.pc = "login"
    <3>1. Shell.say = <<"prompt">> /\ Shell.out = <<>> /\ Calm(0)
      BY <1>1, <2>1 DEF SshInv, InStep, Prompted
    <3>2. Shell'.say = <<>> /\ Shell'.out = <<"prompt">>
      BY <1>2, <3>1
    <3> QED BY <1>1, <1>2, <1>4, <2>1, <3>1, <3>2 DEF InStep, Calm, Prompted
  <2>2. CASE ssh.pc = "read" /\ ssh.ahead = 0
    <3>1. AfterCommand /\ ~Answered
      BY <1>1, <2>2 DEF SshInv, InStep, Answered, Quiet
    <3>2. CASE DidAnswered
      <4>1. Shell.say = <<"prompt">> /\ Shell.out = <<>>
        BY <1>1, <3>2 DEF DidAnswered, Prompted
      <4>2. Shell'.say = <<>> /\ Shell'.out = <<"prompt">>
        BY <1>2, <4>1
      <4> QED BY <1>1, <1>2, <1>4, <2>2, <3>2, <4>2 DEF InStep, AfterCommand, DidAnswered, Prompted, Calm
    <3>3. CASE ~DidAnswered
      <4>1. AfterCommand'
        BY <1>1, <1>2, <1>3, <3>1, <3>3
           DEF AfterCommand, Unasked, Did, Complains, Inquires, InDoubt, Calm, Quiet
      <4> QED BY <1>1, <1>4, <2>2, <4>1 DEF InStep
    <3> QED BY <3>2, <3>3
  <2>3. CASE ssh.pc # "login" /\ ~(ssh.pc = "read" /\ ssh.ahead = 0)
    BY <1>1, <1>4, <2>3 DEF SshInv, InStep, Quiet
  <2> QED BY <2>1, <2>2, <2>3
<1> QED BY <1>3, <1>4, <1>5 DEF SshInv

LEMMA ReadsSound ==
    ASSUME SshInv, DeviceReads
    PROVE  SshInv'
<1> DEFINE line == Head(Shell.inbox)
           sh == [Shell EXCEPT !.inbox = Tail(@)]
<1>1. PICK after : /\ cli' = [cli EXCEPT !.shell = after]
                   /\ after \in Reactions(sh, line) \cup Answers(sh) \cup Accepts(sh)
                                  \cup {[sh EXCEPT !.say = <<"prompt">>]}
                   /\ Shell.mode = "prompt" /\ line # Answer => after \in Reactions(sh, line)
                   /\ Shell.mode # "prompt" /\ line = Answer => after \in Accepts(sh)
  BY DEF DeviceReads, SshInv, IsCli, Shell
<1>2. /\ ssh' = ssh /\ Shell.inbox # <<>> /\ Shell.say = <<>> /\ Shell' = after
      /\ cli'.cand = cli.cand /\ cli'.running = cli.running /\ DOMAIN cli' = DOMAIN cli
  BY <1>1 DEF DeviceReads, SshInv, IsCli, Shell
<1>3. /\ DOMAIN sh = DOMAIN Shell /\ sh.inbox = Tail(Shell.inbox) /\ sh.out = Shell.out
      /\ sh.done = Shell.done /\ sh.asked = Shell.asked /\ Tail(Shell.inbox) \in Seq(Nat)
  BY <1>2, HeadTailProperties DEF SshInv, IsCli
<1> HIDE DEF line, sh
<1>4. /\ DOMAIN after = DOMAIN sh /\ after.inbox = sh.inbox /\ after.out = sh.out
      /\ after.say \in Sayings
      /\ after \in Reactions(sh, line) =>
            /\ after.say # <<"prompt">>
            /\ after.say = <<"echo", "prompt">> =>
                  after.mode = "prompt" /\ after.done = Append(sh.done, line)
            /\ after.say \in Questions =>
                  after.mode # "prompt" /\ after.asked = line /\ after.done = sh.done
            /\ after.say = <<"echo", "filename">> => ssh.cmds[line] = "copy"
      /\ after \in Accepts(sh) => /\ after.say = <<"prompt">> /\ after.mode = "prompt"
                                  /\ after.done = Append(sh.done, sh.asked)
  <2>1. DOMAIN sh = {"mode", "inbox", "say", "out", "asked", "done"}
    BY <1>3 DEF SshInv, IsCli
  <2> QED BY <1>1, <2>1, Reacts
<1>5. IsCli'
  <2>1. Sayings \subseteq Seq(Tokens)
    BY DEF Sayings, Tokens
  <2> QED BY <1>2, <1>3, <1>4, <2>1 DEF SshInv, IsCli
<1>6. IsSsh' /\ Stages' /\ TypedInOrder' /\ Held' /\ (Reported <=> Reported')
  BY <1>2 DEF SshInv, IsSsh, Stages, TypedInOrder, Held, Reported, Line
<1>7. InStep'
  <2>0. CASE ssh.pc = "read" /\ ssh.ahead = 0 /\ Answered
    <3>1. line = Answer /\ Shell.mode # "prompt" /\ Tail(Shell.inbox) = <<>> /\ Shell.out = <<>>
          /\ Shell.asked = ssh.k /\ Shell.done = Fresh(ssh.k - 1) /\ ssh.seg \in Questions
      BY <2>0 DEF line, Answered, InDoubt, Quiet
    <3>2. after \in Accepts(sh)
      BY <1>1, <3>1
    <3>3. after.done = Fresh(ssh.k)
      <4>1. PICK m \in Nat : m = ssh.k - 1 /\ ssh.k = m + 1
        BY DEF SshInv, IsSsh
      <4>2. Append(Fresh(m), m + 1) = Fresh(m + 1)
        BY FreshIs
      <4> QED BY <1>3, <1>4, <3>1, <3>2, <4>1, <4>2
    <3>4. DidAnswered'
      BY <1>2, <1>3, <1>4, <3>1, <3>2, <3>3 DEF DidAnswered, Calm, Prompted
    <3>5. ~Reported'
      BY <1>6, <2>0 DEF Reported
    <3> QED BY <1>2, <2>0, <3>4, <3>5 DEF InStep, AfterCommand
  <2>1. CASE ssh.pc = "read" /\ ssh.ahead = 0 /\ ~Answered
    <3>1. Unasked
      BY <1>2, <2>1 DEF SshInv, InStep, AfterCommand, Did, Calm, Complains, Inquires, DidAnswered
    <3>2. line = ssh.k /\ Tail(Shell.inbox) = <<>> /\ Shell.mode = "prompt" /\ line # Answer
      BY <3>1 DEF line, Unasked, SshInv, IsSsh, Answer
    <3>3. after \in Reactions(sh, line)
      BY <1>1, <3>2
    <3>4. after.say = <<"echo", "prompt">> => after.done = Fresh(ssh.k)
      <4>1. PICK m \in Nat : m = ssh.k - 1 /\ ssh.k = m + 1
        BY DEF SshInv, IsSsh
      <4>2. Append(Fresh(m), m + 1) = Fresh(m + 1)
        BY FreshIs
      <4> QED BY <1>3, <1>4, <3>1, <3>2, <3>3, <4>1, <4>2 DEF Unasked
    <3>5. Said' = after.say
      <4>1. ssh.seg = <<>> /\ Shell.out = <<>>
        <5>1. ssh.seg \o Shell.out \in Seq(Tokens) /\ ssh.seg \in Seq(Tokens)
              /\ Shell.out \in Seq(Tokens) /\ Shell.say \in Seq(Tokens)
          BY ConcatProperties DEF SshInv, IsSsh, IsCli
        <5>2. ssh.seg \o Shell.out \o Shell.say = <<>>
          BY <3>1 DEF Unasked, Said
        <5>3. ssh.seg \o Shell.out = <<>>
          BY <5>1, <5>2, ConcatEqualIffEmpty
        <5> QED BY <5>1, <5>3, ConcatEqualIffEmpty
      <4>2. ssh'.seg \in Seq(Tokens) /\ Shell'.out \in Seq(Tokens) /\ Shell'.say \in Seq(Tokens)
        BY <1>5, <1>6 DEF IsSsh, IsCli
      <4>3. ssh'.seg = <<>> /\ Shell'.out = <<>>
        BY <1>2, <1>3, <1>4, <4>1
      <4>4. ssh'.seg \o Shell'.out \o Shell'.say = Shell'.say
        BY <4>2, <4>3, SaidOn
      <4> QED BY <1>2, <4>4 DEF Said
    <3>6. AfterCommand'
      <4>1. after.say \in Sayings \ {<<"prompt">>}
        BY <1>4, <3>3
      <4>2. after.say \in Questions => Inquires'
        <5>1. after.say # <<>>
          BY <4>1 DEF Sayings
        <5> QED BY <1>2, <1>3, <1>4, <3>1, <3>2, <3>3, <3>5, <5>1 DEF Inquires, InDoubt, Quiet, Unasked
      <4>3. after.say = <<"echo", "prompt">> => Did'
        BY <1>2, <1>3, <1>4, <3>2, <3>3, <3>4, <3>5 DEF Did, Calm
      <4>4. after.say = <<"echo", "reject", "prompt">> => Complains'
        BY <1>2, <1>3, <1>4, <3>2, <3>5 DEF Complains
      <4> QED BY <4>1, <4>2, <4>3, <4>4 DEF AfterCommand, Sayings, Questions
    <3>7. ~Reported'
      BY <1>6, <2>1 DEF Reported
    <3> QED BY <1>2, <2>1, <3>6, <3>7 DEF InStep
  <2>2. CASE ~(ssh.pc = "read" /\ ssh.ahead = 0)
    <3>1. /\ ssh.pc # "connect" /\ ssh.pc # "login" /\ ~(ssh.pc = "send" /\ ssh.ahead = 0)
          /\ ~(Reported /\ ssh.type # "panos" /\ ssh.ahead = 0)
      BY <1>2 DEF SshInv, InStep, Calm, FreshShell
    <3> QED BY <1>2, <1>6, <2>2, <3>1 DEF InStep
  <2> QED BY <2>0, <2>1, <2>2
<1> QED BY <1>5, <1>6, <1>7 DEF SshInv

THEOREM SessionInvariant == SessionSpec => []SshInv
<1>1. SshInit => SshInv
  <2> SUFFICES ASSUME SshInit PROVE SshInv
    OBVIOUS
  <2>1. /\ ssh.pc = "ended" /\ ssh.result = "none" /\ ssh.k = 1 /\ ssh.seg = <<>> /\ ssh.cmds = <<>>
        /\ ssh.typed = <<>> /\ cli.shell = FreshShell /\ ssh.n = 0 /\ ssh.ahead = 0
    BY DEF SshInit, NoSession, NewCli
  <2>2. IsSsh /\ Stages /\ Held /\ InStep /\ ~Reported
    <3>1. DOMAIN ssh = {"n", "type", "op", "cmds", "allow", "pc", "attempt", "k", "seg", "typed",
                       "expired", "nudged", "ahead", "result"}
      BY DEF SshInit, NoSession
    <3> QED BY <2>1, <3>1 DEF IsSsh, Stages, Held, InStep, Reported
  <2>3. IsCli
    <3>1. DOMAIN cli = {"shell", "cand", "running", "lost"} /\ Shell = FreshShell
      BY DEF SshInit, NewCli, Shell
    <3>2. /\ DOMAIN FreshShell = {"mode", "inbox", "say", "out", "asked", "done"}
          /\ FreshShell.inbox \in Seq(Nat) /\ FreshShell.out \in Seq(Tokens)
          /\ FreshShell.say \in Seq(Tokens)
      BY DEF FreshShell, Tokens
    <3> QED BY <3>1, <3>2 DEF IsCli
  <2>4. TypedInOrder
    <3>1. Fresh(0) = <<>>
      BY FreshIs
    <3> QED BY <2>1, <2>2, <3>1 DEF TypedInOrder
  <2> QED BY <2>2, <2>3, <2>4 DEF SshInv
<1>2. SshInv /\ [SessionNext]_sshVars => SshInv'
  <2> SUFFICES ASSUME SshInv, [SessionNext]_sshVars PROVE SshInv'
    OBVIOUS
  <2>1. CASE SshStep
    BY <2>1, ConnectSound, BreakSound, ExpireSound, LoginSound, SendSound, ReadSound, ConfigureSound,
       LineSound, CommitSound DEF SshStep
  <2>2. CASE DeviceStep
    BY <2>2, ReadsSound, SaysSound DEF DeviceStep
  <2>3. CASE UNCHANGED sshVars
    BY <2>3 DEF sshVars, SshInv, IsSsh, IsCli, Shell, Stages, TypedInOrder, Held, Line, InStep, Calm,
                AfterCommand, Unasked, Did, Complains, Inquires, InDoubt, Answered, DidAnswered,
                Prompted, Quiet, Said, Reported
  <2> QED BY <2>1, <2>2, <2>3, OpenSound DEF SessionNext
<1> QED BY <1>1, <1>2, PTL DEF SessionSpec

(* A batch reported as done was typed once, in order, and was done, for sessions   *)
(* of any kind with any commands, any number of them, and a device that asks what   *)
(* it likes and is as slow as it likes, unless a prompt too many came of it.        *)
THEOREM ReportsAreTrue == SessionSpec => []DoneInStep
<1>1. SshInv => DoneInStep
  <2> SUFFICES ASSUME SshInv PROVE DoneInStep
    OBVIOUS
  <2>1. PICK m \in Nat : ssh.typed = Fresh(m) /\ (Reported => m = Len(ssh.cmds))
    BY DEF SshInv, TypedInOrder
  <2>2. /\ DOMAIN ssh.typed = 1..m /\ Len(ssh.typed) = m /\ \A i \in 1..m : ssh.typed[i] = i
    BY <2>1, FreshIs
  <2>3. Batch => Reported
    BY DEF SshInv, Stages, Reported, Batch
  <2>4. Reported /\ ssh.type # "panos" /\ ssh.ahead = 0 => Calm(Len(ssh.cmds))
    BY DEF SshInv, InStep
  <2> QED BY <2>1, <2>2, <2>3, <2>4 DEF SshInv, Held, Calm, DoneInStep, Shell
<1> QED BY <1>1, SessionInvariant, PTL

(* Where the lines of PAN-OS sessions are: those of the session at hand are not in  *)
(* force before its commit, and all or none are after it; the candidate has no     *)
(* others, unless a revert was lost.                                             *)
Given == {Line(i) : i \in DOMAIN ssh.cmds}
Numbered(n) == (0 .. n) \X Nat
CandInv ==
    /\ cli.cand \cup cli.running \subseteq Numbered(ssh.n)
    /\ ssh.type = "panos" =>
          /\ Given \subseteq cli.running \/ Given \cap cli.running = {}
          /\ ssh.pc \notin {"revert", "ended"} => Given \cap cli.running = {}
          /\ ssh.pc \in {"connect", "configure", "line"} => ssh.k \in DOMAIN ssh.cmds
    /\ ~cli.lost => /\ cli.cand \subseteq Given
                    /\ ssh.pc \notin {"line", "commit", "revert"} => cli.cand = {}
SameLines == /\ ssh'.n = ssh.n /\ ssh'.type = ssh.type /\ ssh'.cmds = ssh.cmds
        /\ cli'.cand = cli.cand /\ cli'.running = cli.running /\ cli'.lost = cli.lost

(* Everything but an edit of the candidate.                                      *)
LEMMA CandidateKept ==
    ASSUME SshInv, DeviceStep \/ Connect \/ Show \/ Broken \/ Expire \/ LoginDrain \/ Send \/ Read
                   \/ EnterConfigure
    PROVE  /\ SameLines
           /\ \/ ssh'.pc = ssh.pc /\ ssh'.k = ssh.k
              \/ ssh.type # "panos" /\ ssh'.pc \notin {"line", "commit", "revert"}
              \/ /\ ssh.pc \in {"connect", "show"} /\ ssh'.k = ssh.k
                 /\ \/ ssh.pc = "connect" /\ ssh'.pc \in {"connect", "show", "configure", "login"}
                    \/ ssh'.pc = "ended"
              \/ ssh.pc = "configure" /\ ssh'.pc \in {"line", "revert"} /\ ssh'.k = ssh.k
<1>1. /\ DOMAIN ssh = {"n", "type", "op", "cmds", "allow", "pc", "attempt", "k", "seg", "typed",
                       "expired", "nudged", "ahead", "result"}
      /\ DOMAIN cli = {"shell", "cand", "running", "lost"}
  BY DEF SshInv, IsSsh, IsCli
<1>2. CASE DeviceStep
  BY <1>1, <1>2 DEF DeviceStep, DeviceReads, DeviceSays, SameLines
<1>3. CASE Connect
  <2>1. FirstStep \in {"show", "configure", "login"}
    BY DEF FirstStep
  <2> QED BY <1>1, <1>3, <2>1 DEF Connect, EndSession, Stage, SameLines
<1>4. CASE Show
  BY <1>1, <1>4 DEF Show, EndSession, Stage, SameLines
<1>5. CASE Broken \/ Expire \/ LoginDrain \/ Send
  <2>1. ssh.pc \in {"login", "send", "read"} /\ ssh.type # "panos"
    BY <1>5 DEF Broken, Expire, LoginDrain, Send, Stage, SshInv, Stages
  <2> QED BY <1>1, <1>5, <2>1 DEF Broken, Expire, LoginDrain, Send, EndSession, Type, SameLines
<1>6. CASE Read
  <2>1. ssh.pc = "read" /\ ssh.type # "panos"
    BY <1>6 DEF Read, TakeShow, Complete, Confirm, RefuseToConfirm, KeepReading, Nudge, GiveUp, Waiting,
           AtQuestion, Reading, Stage, SshInv, Stages
  <2>2. ASSUME NEW nudged, Reply(nudged) PROVE SameLines /\ ssh'.pc = "read"
    BY <1>1, <2>1, <2>2 DEF Reply, SameLines
  <2>3. CASE Confirm \/ Nudge
    BY <2>1, <2>2, <2>3 DEF Confirm, Nudge
  <2>4. CASE TakeShow \/ Complete \/ RefuseToConfirm \/ KeepReading \/ GiveUp
    BY <1>1, <2>1, <2>4 DEF TakeShow, Complete, RefuseToConfirm, KeepReading, GiveUp, EndSession, Drained,
           SameLines
  <2> QED BY <1>6, <2>3, <2>4 DEF Read
<1>7. CASE EnterConfigure
  BY <1>1, <1>7 DEF EnterConfigure, Move, Stage, SameLines
<1> QED BY <1>2, <1>3, <1>4, <1>5, <1>6, <1>7

LEMMA CandidateSound ==
    ASSUME SshInv, CandInv, SshStep \/ DeviceStep
    PROVE  CandInv'
<1>1. CASE DeviceStep \/ Connect \/ Show \/ Broken \/ Expire \/ LoginDrain \/ Send \/ Read
           \/ EnterConfigure
  <2>1. Given' = Given
    BY <1>1, CandidateKept DEF SameLines, Given, Line
  <2>2. ssh.pc \in {"configure", "line", "commit", "revert"} => ssh.type = "panos"
    BY DEF SshInv, Stages
  <2>3. SameLines
    BY <1>1, CandidateKept
  <2>4. CASE ssh'.pc = ssh.pc /\ ssh'.k = ssh.k
    BY <2>1, <2>3, <2>4 DEF SameLines, CandInv
  <2>5. CASE ssh.type # "panos" /\ ssh'.pc \notin {"line", "commit", "revert"}
    BY <2>1, <2>2, <2>3, <2>5 DEF SameLines, CandInv
  <2>6. CASE /\ ssh.pc \in {"connect", "show"} /\ ssh'.k = ssh.k
             /\ \/ ssh.pc = "connect" /\ ssh'.pc \in {"connect", "show", "configure", "login"}
                \/ ssh'.pc = "ended"
    BY <2>1, <2>3, <2>6 DEF SameLines, CandInv
  <2>7. CASE ssh.pc = "configure" /\ ssh'.pc \in {"line", "revert"} /\ ssh'.k = ssh.k
    BY <2>1, <2>3, <2>7 DEF SameLines, CandInv
  <2> QED BY <1>1, <2>4, <2>5, <2>6, <2>7, CandidateKept
<1>2. CASE SetLine
  <2>1. /\ ssh.pc = "line" /\ ssh.type = "panos" /\ ssh.k \in DOMAIN ssh.cmds /\ ssh.k \in Nat
        /\ ssh.n \in Nat /\ DOMAIN ssh.cmds = 1 .. Len(ssh.cmds) /\ Len(ssh.cmds) \in Nat
    BY <1>2 DEF SetLine, Stage, SshInv, Stages, CandInv, IsSsh
  <2>2. /\ ssh'.n = ssh.n /\ ssh'.type = ssh.type /\ ssh'.cmds = ssh.cmds
        /\ cli'.running = cli.running /\ cli'.lost = cli.lost
        /\ cli'.cand \in {cli.cand, cli.cand \cup {Line(ssh.k)}}
        /\ \/ ssh'.pc \in {"commit", "revert"}
           \/ ssh'.pc = "line" /\ ssh'.k = ssh.k + 1 /\ ssh.k # Len(ssh.cmds)
    BY <1>2 DEF SetLine, Move, SshInv, IsSsh, IsCli
  <2>3. Line(ssh.k) \in Given /\ Line(ssh.k) \in Numbered(ssh.n)
    BY <2>1 DEF Given, Line, Numbered
  <2>4. Given' = Given
    BY <2>2 DEF Given, Line
  <2>5. ssh'.pc = "line" => ssh'.k \in DOMAIN ssh'.cmds
    BY <2>1, <2>2
  <2> QED BY <2>1, <2>2, <2>3, <2>4, <2>5 DEF CandInv
<1>3. CASE CommitCandidate
  <2>1. /\ ssh.pc = "commit" /\ ssh.type = "panos"
        /\ ssh'.n = ssh.n /\ ssh'.type = ssh.type /\ ssh'.cmds = ssh.cmds /\ ssh'.pc \in {"revert", "ended"}
        /\ cli'.lost = cli.lost
        /\ \/ cli'.running = cli.running /\ cli'.cand = cli.cand /\ ssh'.pc = "revert"
           \/ cli'.running = cli.running \cup cli.cand /\ cli'.cand = {}
    BY <1>3 DEF CommitCandidate, Stage, Merged, EndSession, Move, SshInv, Stages, IsSsh, IsCli
  <2>2. Given \subseteq cli.cand
    <3>1. PICK m \in Nat : ssh.typed = Fresh(m) /\ m = Len(ssh.cmds)
      BY <2>1 DEF SshInv, TypedInOrder
    <3>2. DOMAIN ssh.typed = 1 .. m /\ DOMAIN ssh.cmds = 1 .. m
      BY <3>1, FreshIs DEF SshInv, IsSsh
    <3> QED BY <2>1, <3>2 DEF SshInv, Held, Given
  <2>3. Given' = Given
    BY <2>1 DEF Given, Line
  <2> QED BY <2>1, <2>2, <2>3 DEF CandInv
<1>4. CASE RevertCandidate
  <2>1. /\ ssh.pc = "revert" /\ ssh.type = "panos"
        /\ ssh'.n = ssh.n /\ ssh'.type = ssh.type /\ ssh'.cmds = ssh.cmds /\ ssh'.pc = "ended"
        /\ cli'.running = cli.running
        /\ \/ cli'.cand = {} /\ cli'.lost = cli.lost
           \/ cli'.cand = cli.cand /\ (~cli'.lost => ~cli.lost /\ cli.cand = {})
    BY <1>4 DEF RevertCandidate, Stage, EndSession, SshInv, Stages, IsSsh, IsCli
  <2>2. Given' = Given
    BY <2>1 DEF Given, Line
  <2> QED BY <2>1, <2>2 DEF CandInv
<1> QED BY <1>1, <1>2, <1>3, <1>4 DEF SshStep

(* A PAN-OS batch is in force whole or not at all when its session ends, in any     *)
(* series of sessions with any commands, and its candidate is its own and empty     *)
(* at the end, unless a revert was lost.                                          *)
THEOREM CommitsAreWhole == SessionSpec => []AllOrNothing
<1>1. SshInit => CandInv
  <2> SUFFICES ASSUME SshInit PROVE CandInv
    OBVIOUS
  <2>1. ssh.type = "ios" /\ cli.cand = {} /\ cli.running = {} /\ ssh.pc = "ended"
    BY DEF SshInit, NoSession, NewCli
  <2> QED BY <2>1 DEF CandInv
<1>2. SshInv /\ CandInv /\ [SessionNext]_sshVars => CandInv'
  <2> SUFFICES ASSUME SshInv, CandInv, [SessionNext]_sshVars PROVE CandInv'
    OBVIOUS
  <2>1. CASE UNCHANGED sshVars
    BY <2>1 DEF sshVars, CandInv, Given, Line
  <2>2. ASSUME NEW type \in DeviceTypes, NEW op \in Operations, NEW cmds \in CommandLists,
               NEW allow \in BOOLEAN, OpenSession(type, op, cmds, allow)
        PROVE  CandInv'
    <3>1. /\ ssh.pc = "ended" /\ ssh.n \in Nat /\ ssh'.n = ssh.n + 1 /\ ssh'.cmds = cmds /\ ssh'.k = 1
          /\ ssh'.pc \in {"connect", "ended"}
          /\ cli'.cand = cli.cand /\ cli'.running = cli.running /\ cli'.lost = cli.lost
      BY <2>2 DEF OpenSession, Stage, NoSession, SshInv, IsSsh, IsCli
    <3>2. Numbered(ssh.n) \subseteq Numbered(ssh'.n) /\ \A k : <<ssh'.n, k>> \notin Numbered(ssh.n)
      BY <3>1 DEF Numbered
    <3>3. Given' \cap cli'.running = {}
      BY <3>1, <3>2 DEF Given, Line, CandInv
    <3>4. ssh'.k \in DOMAIN ssh'.cmds
      BY <3>1, EmptySeq DEF CommandLists
    <3> QED BY <3>1, <3>2, <3>3, <3>4 DEF CandInv
  <2> QED BY <2>1, <2>2, CandidateSound DEF SessionNext
<1>3. CandInv => AllOrNothing
  BY DEF CandInv, AllOrNothing, Given, Stage
<1> QED BY <1>1, <1>2, <1>3, SessionInvariant, PTL DEF SessionSpec

----------------------------------------------------------------------------
(* Jobs on PNETLab labs, one at a time on each lab.                             *)

DeviceRows == [ip : Nat \cup {None}, planned : BOOLEAN, env : {"pnetlab", "other"},
               login : Logins \cup {None}]
Requests == [kind : {"export", "bootstrap"}, name : DOMAIN LabFileName, path : Paths,
             devs : {None} \cup SUBSET Devices, overwrite : BOOLEAN, named : BOOLEAN,
             account : {"admin", "create"}, default : STRING, gateway : BOOLEAN,
             cloud : BOOLEAN, bringUp : BOOLEAN, ssh : Logins, typed : BOOLEAN, server : STRING]
HandLabs == [Devices -> NodeRows \cup {None}]

Works(r) == r.pc \notin {"none", "ended"}
(* "One job at a time works on a lab": two exports to one name could roll back   *)
(* each other's lab.                                                           *)
FileOf(req) == IF req.kind = "export" THEN LabFileName[req.name] ELSE req.path
Alone(req) == \A k \in Jobs : Works(job[k]) => job[k].req.path # FileOf(req)

LabNext ==
    \/ \E j \in Jobs, req \in Requests, role \in {"owner", "editor"} :
          Alone(req) /\ (StartExport(j, req, role) \/ StartBootstrap(j, req, role))
    \/ \E req \in Requests : PreviewExport(req)
    \/ Forget
    \/ \E j \in Jobs : JobStep(j)
    \/ \E n \in Nodes : Boot(n)
    \/ \E p \in Paths, nodes \in HandLabs : HandCopy(p, nodes)
    \/ \E d \in Devices, ip \in Nat, login \in Logins : EditRow(d, ip, login)
    \/ Restart
LabSpec == LabInit /\ row \in [Devices -> DeviceRows] /\ [][LabNext]_labVars

(* What a job holds in each stage.  A lab it builds in is there; a node it is to   *)
(* add is not there; a session has a device, of its kind, and what it captured; an  *)
(* IOS node it writes to carries nothing but that, unless the job was told to        *)
(* overwrite or its console answers late.                                         *)
JobFields == {"status", "pc", "req", "plan", "todo", "pending", "seen", "k", "bad", "as",
              "tries", "late", "asked", "result"}
Plans == [auto : SUBSET Devices, management : SUBSET Devices, networks : SUBSET Networked,
          ip : [Devices -> Nat \cup {None}]]
OnConsole == {"enter", "look", "write", "configure", "commit", "revert", "verify"}
Counting == {"again", "write", "verify", "configure", "revert"}
IsJob(r) ==
    /\ DOMAIN r = JobFields
    /\ r.plan \in Plans /\ r.todo \in SUBSET Devices /\ r.pending \in SUBSET Devices
    /\ r.seen \in [Devices -> SeenRows \cup {None}]
    /\ Works(r) => r.req \in Requests
Agrees(n, s) == (\A l \in n.users : l.user = s.login.user) /\ n.addr \in {None, s.ip}
JobOK(r, nd, lb) ==
    LET p == r.req.path
        d == First(r.todo)
    IN  /\ r.pc \in Building => lb[p] # None
        /\ r.pc = "nodes" => \A e \in r.todo : nd[<<p, e>>] = None
        /\ r.pc \in OnConsole => r.todo # {} /\ \A e \in r.todo : r.seen[e] # None
        /\ r.pc \in {"look", "write"} => Kind[d] \in Ios
        /\ r.pc \in {"configure", "commit", "revert"} => Kind[d] = "firewall"
        /\ r.pc \notin Counting => r.k = 1
        /\ r.pc = "write" => r.k \in 1 .. IF r.req.gateway THEN 4 ELSE 3
        /\ r.pc = "write" /\ ~r.req.overwrite /\ ~r.late =>
               nd[<<p, d>>] # None /\ Agrees(nd[<<p, d>>], r.seen[d])

ServerOK(nd, lb) ==
    /\ nd \in [Nodes -> NodeRows \cup {None}] /\ lb \in [Paths -> LabRows \cup {None}]
    /\ \A p \in Paths : lb[p] = None => \A d \in Devices : nd[<<p, d>>] = None
JobsOK(jb, nd, lb) ==
    /\ jb = [j \in Jobs |-> jb[j]]
    /\ \A j \in Jobs : IsJob(jb[j]) /\ (Works(jb[j]) => JobOK(jb[j], nd, lb))
    /\ \A j, k \in Jobs : j # k /\ Works(jb[j]) /\ Works(jb[k]) => jb[j].req.path # jb[k].req.path
LabInv == row \in [Devices -> DeviceRows] /\ ServerOK(node, lab) /\ JobsOK(job, node, lab)

(* The promises about a step.                                                   *)
StaysOutside ==
    \A p \in Paths : lab[p] # None /\ ~Empty(p) /\ ~Inside(p) => ~Inside(p)'
KeepsHandLabs ==
    \A p \in Paths : lab[p] # None /\ lab[p].owner = Hand /\ ~Inside(p) =>
        /\ lab'[p] = lab[p]
        /\ \A d \in Devices :
              IF node[<<p, d>>] = None THEN node'[<<p, d>>] = None
              ELSE node'[<<p, d>>] # None /\ node'[<<p, d>>].port = node[<<p, d>>].port
LeavesAlone ==
    \A j \in Jobs, d \in Devices :
        LET n == <<job[j].req.path, d>> IN
        /\ job[j].todo # {} /\ job'[j] # job[j] /\ Kind[d] \in Ios /\ ~job[j].req.overwrite
        /\ ~job[j].late
        /\ node[n] # None /\ node'[n] # None
        /\ <<node'[n].users, node'[n].addr>> # <<node[n].users, node[n].addr>>
        => /\ job[j].seen[d] # None
           /\ \A l \in node[n].users : l.user = job[j].seen[d].login.user
           /\ node[n].addr \in {None, job[j].seen[d].ip}
Sound == LabInv' /\ KeepsHandLabs /\ LeavesAlone

(* The device at hand is one of those due.                                      *)
LEMMA LeastIsThere ==
    ASSUME NEW S \in SUBSET Devices, S # {}
    PROVE  First(S) \in S
<1>1. S \in SUBSET Nat
  BY BootstrapAssumption
<1> QED BY <1>1, LeastOfNaturals DEF First

(* A step of one job that keeps to its lab.                                    *)
LEMMA JobMoves ==
    ASSUME LabInv, NEW j \in Jobs, Works(job[j]), NEW r, job' = [job EXCEPT ![j] = r], IsJob(r),
           Works(r) => r.req = job[j].req /\ JobOK(r, node', lab'),
           row' \in [Devices -> DeviceRows], ServerOK(node', lab'),
           \A p \in Paths \ {job[j].req.path} :
               lab'[p] = lab[p] /\ \A d \in Devices : node'[<<p, d>>] = node[<<p, d>>]
    PROVE  LabInv'
<1>1. job' = [k \in Jobs |-> job'[k]] /\ job'[j] = r /\ \A k \in Jobs \ {j} : job'[k] = job[k]
  BY DEF LabInv, JobsOK
<1>2. ASSUME NEW k \in Jobs \ {j}, Works(job[k]) PROVE JobOK(job[k], node', lab')
  <2> DEFINE q == job[k]  p == q.req.path
  <2>1. q \in {job[k]} /\ IsJob(q) /\ JobOK(q, node, lab) /\ Works(q) /\ q.req \in Requests
    BY <1>2 DEF LabInv, JobsOK, IsJob
  <2>2. p \in Paths \ {job[j].req.path}
    BY <1>2, <2>1 DEF LabInv, JobsOK, Requests
  <2>3. lab'[p] = lab[p] /\ \A d \in Devices : node'[<<p, d>>] = node[<<p, d>>]
    BY <2>2
  <2>4. q.todo \in SUBSET Devices
    BY <2>1 DEF IsJob
  <2>5. q.todo # {} => First(q.todo) \in Devices
    BY <2>4, LeastIsThere
  <2> HIDE DEF q
  <2> QED BY <2>1, <2>3, <2>4, <2>5 DEF JobOK, q, OnConsole
<1>3. \A k \in Jobs : IsJob(job'[k]) /\ (Works(job'[k]) => JobOK(job'[k], node', lab'))
  BY <1>1, <1>2 DEF LabInv, JobsOK
<1>4. \A i, k \in Jobs : i # k /\ Works(job'[i]) /\ Works(job'[k]) => job'[i].req.path # job'[k].req.path
  BY <1>1 DEF LabInv, JobsOK
<1>5. JobsOK(job', node', lab')
  BY <1>1, <1>3, <1>4 DEF JobsOK
<1> QED BY <1>5 DEF LabInv

(* A step that touches neither labs nor nodes.                                  *)
LEMMA Untouched ==
    ASSUME UNCHANGED <<lab, node>>
    PROVE  KeepsHandLabs /\ LeavesAlone
BY DEF KeepsHandLabs, LeavesAlone

LEMMA JobTalks ==
    ASSUME LabInv, NEW j \in Jobs, Works(job[j]), NEW r, job' = [job EXCEPT ![j] = r], IsJob(r),
           Works(r) => r.req = job[j].req /\ JobOK(r, node, lab),
           row' \in [Devices -> DeviceRows], UNCHANGED <<lab, node>>
    PROVE  Sound
BY JobMoves, Untouched DEF Sound, LabInv

LEMMA JobIs ==
    ASSUME LabInv, NEW j \in Jobs
    PROVE  /\ IsJob(job[j]) /\ job = [k \in Jobs |-> job[k]]
           /\ Works(job[j]) => JobOK(job[j], node, lab) /\ job[j].req \in Requests
                               /\ job[j].req.path \in Paths
BY DEF LabInv, JobsOK, IsJob, Requests

LEMMA IdleIs == IsJob(Idle) /\ DOMAIN Gone = JobFields /\ Gone = [Idle EXCEPT !.pc = "ended"]
<1>1. NoPlan \in Plans
  BY DEF NoPlan, Plans
<1>2. IsJob(Idle)
  BY <1>1 DEF IsJob, Idle, JobFields, Works
<1> QED BY <1>2 DEF Gone, Idle, JobFields

LEMMA JobEnds ==
    ASSUME LabInv, NEW j \in Jobs, Works(job[j]), NEW status, Finish(j, status),
           row' \in [Devices -> DeviceRows], UNCHANGED <<lab, node>>
    PROVE  Sound
<1> DEFINE r == [Gone EXCEPT !.status = status, !.result = job[j].result]
<1>1. IsJob(r) /\ ~Works(r)
  BY IdleIs DEF IsJob, Idle, Gone, JobFields, Works
<1>2. job' = [job EXCEPT ![j] = r]
  BY DEF Finish
<1> HIDE DEF r
<1> QED BY <1>1, <1>2, JobTalks

(* A job goes on to a stage in which it holds no lab and no session.            *)
LEMMA JobGoes ==
    ASSUME LabInv, NEW j \in Jobs, Works(job[j]), NEW r, job' = [job EXCEPT ![j] = r],
           DOMAIN r = JobFields, r.req = job[j].req, job[j].pc \notin Counting, r.k = job[j].k,
           r.pc \notin Building \cup OnConsole,
           r.plan \in Plans, r.todo \in SUBSET Devices, r.pending \in SUBSET Devices,
           r.seen \in [Devices -> SeenRows \cup {None}],
           row' \in [Devices -> DeviceRows], UNCHANGED <<lab, node>>
    PROVE  Sound
<1>1. IsJob(r) /\ JobOK(r, node, lab)
  BY JobIs DEF IsJob, JobOK, OnConsole, Building, Counting
<1> QED BY <1>1, JobTalks

LEMMA CallsFail ==
    ASSUME LabInv, NEW j \in Jobs, CallFails(j) \/ Run(j) \/ LogIn(j) \/ CheckName(j)
    PROVE  Sound
<1>a. /\ ~CallFails(j) => job[j].pc \notin Counting
      /\ Works(job[j]) /\ IsJob(job[j])
      /\ row' \in [Devices -> DeviceRows] /\ UNCHANGED <<lab, node>>
  BY JobIs DEF CallFails, Run, LogIn, CheckName, Works, Counting, LabInv, Continue
<1>1. CASE CallFails(j)
  BY <1>1, <1>a, JobEnds DEF CallFails
<1>2. CASE Run(j) /\ ~CallFails(j)
  <2> DEFINE pc == IF job[j].req.kind = "export" THEN "login" ELSE "plan"
             r == [job[j] EXCEPT !.status = "running", !.pc = pc]
  <2>1. job' = [job EXCEPT ![j] = r]
    BY <1>2 DEF Run
  <2>2. DOMAIN r = JobFields /\ r.req = job[j].req /\ r.k = job[j].k /\ r.pc = pc /\ r.plan = job[j].plan
        /\ r.todo = job[j].todo /\ r.pending = job[j].pending /\ r.seen = job[j].seen
    BY <1>a DEF IsJob, JobFields
  <2>3. pc \notin Building \cup OnConsole
    BY DEF Building, OnConsole
  <2> HIDE DEF r, pc
  <2> QED BY <1>2, <1>a, <2>1, <2>2, <2>3, JobGoes DEF IsJob
<1>3. CASE LogIn(j) /\ ~CallFails(j)
  <2> DEFINE r == [job[j] EXCEPT !.plan = ThePlan(j), !.pc = "check"]
  <2>1. job' = [job EXCEPT ![j] = r]
    BY <1>3 DEF LogIn
  <2>2. DOMAIN r = JobFields /\ r.req = job[j].req /\ r.k = job[j].k /\ r.pc = "check" /\ r.plan = ThePlan(j)
        /\ r.todo = job[j].todo /\ r.pending = job[j].pending /\ r.seen = job[j].seen
    BY <1>a DEF IsJob, JobFields
  <2>3. ThePlan(j) \in Plans
    <3>1. AutoIp(j) \in SUBSET Devices /\ ManagedNodes(j) \in SUBSET Devices
      BY DEF AutoIp, ManagedNodes, Exported
    <3>2. PlanNetworks(j) \in SUBSET Networked
      BY DEF PlanNetworks, NetworkName, Networked, Cloud0
    <3>3. \A d \in Devices : row[d].ip \in Nat \cup {None}
      BY DEF LabInv, DeviceRows
    <3> QED BY <3>1, <3>2, <3>3 DEF ThePlan, Plans
  <2>4. "check" \notin Building \cup OnConsole
    BY DEF Building, OnConsole
  <2> HIDE DEF r
  <2> QED BY <1>3, <1>a, <2>1, <2>2, <2>3, <2>4, JobGoes DEF IsJob
<1>4. CASE CheckName(j) /\ ~CallFails(j)
  <2>1. CASE Finish(j, "error")
    BY <1>a, <2>1, JobEnds
  <2>2. CASE GoTo(j, "post")
    <3> DEFINE r == [job[j] EXCEPT !.pc = "post"]
    <3>1. DOMAIN r = JobFields /\ r.req = job[j].req /\ r.k = job[j].k /\ r.pc = "post" /\ r.plan = job[j].plan
          /\ r.todo = job[j].todo /\ r.pending = job[j].pending /\ r.seen = job[j].seen
      BY <1>a DEF IsJob, JobFields
    <3>2. "post" \notin Building \cup OnConsole /\ job' = [job EXCEPT ![j] = r]
      BY <2>2 DEF Building, OnConsole, GoTo
    <3> HIDE DEF r
    <3> QED BY <1>4, <1>a, <3>1, <3>2, JobGoes DEF IsJob
  <2> QED BY <1>4, <2>1, <2>2 DEF CheckName, Continue
<1> QED BY <1>1, <1>2, <1>3, <1>4

(* A session that is over leaves its device; the job goes on to the next.        *)
LEMMA OverIs ==
    ASSUME LabInv, NEW j \in Jobs, job[j].pc \in OnConsole, NEW outcome, NEW nd, NEW lb
    PROVE  LET r == Over(j, outcome) IN
           IsJob(r) /\ r.req = job[j].req /\ JobOK(r, nd, lb)
<1>1. IsJob(job[j]) /\ JobOK(job[j], node, lab) /\ Works(job[j])
  BY JobIs DEF OnConsole, Works
<1> DEFINE q == job[j]
           r == Over(j, outcome)
           d == First(q.todo)
<1>2. q.todo # {} /\ (\A e \in q.todo : q.seen[e] # None) /\ d \in q.todo
  BY <1>1, LeastIsThere DEF IsJob, JobOK
<1>3. /\ DOMAIN r = JobFields /\ r.req = q.req /\ r.plan = q.plan /\ r.pending = q.pending
      /\ r.seen = [q.seen EXCEPT ![d] = None] /\ r.todo = q.todo \ {d} /\ r.k = 1
      /\ r.pc = IF q.todo = {d} THEN "report" ELSE "enter"
  BY <1>1 DEF Over, At, IsJob, JobFields
<1> HIDE DEF q, r, d
<1>4. IsJob(r)
  BY <1>1, <1>3 DEF IsJob, q, Works
<1>5. JobOK(r, nd, lb)
  BY <1>1, <1>2, <1>3 DEF JobOK, Building, OnConsole, Counting, IsJob, q
<1> QED BY <1>3, <1>4, <1>5 DEF r, q

LEMMA SessionEnds ==
    ASSUME LabInv, NEW j \in Jobs, job[j].pc \in OnConsole, NEW outcome, End(j, outcome),
           UNCHANGED <<row, lab, node>>
    PROVE  Sound
<1>1. Works(job[j]) /\ row' \in [Devices -> DeviceRows]
  BY DEF OnConsole, Works, LabInv
<1>2. job' = [job EXCEPT ![j] = Over(j, outcome)]
  BY DEF End
<1> DEFINE r == Over(j, outcome)
<1>3. IsJob(r) /\ r.req = job[j].req /\ JobOK(r, node, lab)
  BY OverIs
<1> HIDE DEF r
<1> QED BY <1>1, <1>2, <1>3, JobTalks DEF r

(* The same job in another stage.                                              *)
LEMMA Turned ==
    ASSUME NEW q, IsJob(q), Works(q), NEW pc
    PROVE  LET r == [q EXCEPT !.pc = pc] IN
           /\ IsJob(r) /\ r.pc = pc /\ r.req = q.req /\ r.todo = q.todo /\ r.seen = q.seen
           /\ r.plan = q.plan /\ r.pending = q.pending /\ r.k = q.k /\ DOMAIN r = JobFields
BY DEF IsJob, JobFields, Works

LEMMA JobTurns ==
    ASSUME LabInv, NEW j \in Jobs, Works(job[j]), NEW pc, GoTo(j, pc),
           JobOK([job[j] EXCEPT !.pc = pc], node, lab), UNCHANGED <<row, lab, node>>
    PROVE  Sound
<1> DEFINE r == [job[j] EXCEPT !.pc = pc]
<1>1. IsJob(r) /\ r.req = job[j].req /\ JobOK(r, node, lab)
  BY JobIs, Turned
<1>2. job' = [job EXCEPT ![j] = r] /\ row' \in [Devices -> DeviceRows]
  BY DEF GoTo, LabInv
<1> HIDE DEF r
<1> QED BY <1>1, <1>2, JobTalks

LEMMA LooksAround ==
    ASSUME LabInv, NEW j \in Jobs, Wake(j) \/ Look(j) \/ BootTimeout(j), UNCHANGED lab
    PROVE  Sound
<1> DEFINE q == job[j]
<1>1. /\ UNCHANGED <<row, node>> /\ q.pc \in OnConsole /\ Works(q) /\ row' \in [Devices -> DeviceRows]
  BY DEF Wake, Look, BootTimeout, OnConsole, Works, LabInv
<1>2. IsJob(q) /\ JobOK(q, node, lab)
  BY <1>1, JobIs
<1>3. ASSUME NEW outcome, End(j, outcome) PROVE Sound
  BY <1>1, <1>3, SessionEnds
<1>5. ASSUME NEW late, q.pc = "enter", Kind[At(j)] \in Ios,
             job' = [job EXCEPT ![j].pc = "look", ![j].late = late]
      PROVE  Sound
  <2> DEFINE r == [q EXCEPT !.pc = "look", !.late = late]
  <2>1. job' = [job EXCEPT ![j] = r] /\ Kind[First(q.todo)] \in Ios
    BY <1>5 DEF At
  <2>2. /\ IsJob(r) /\ r.pc = "look"
        /\ r.todo = q.todo /\ r.seen = q.seen /\ r.req = q.req /\ r.k = q.k
    BY <1>1, <1>2 DEF IsJob, JobFields, Works
  <2> HIDE DEF r
  <2>3. JobOK(r, node, lab)
    BY <1>2, <1>5, <2>1, <2>2 DEF JobOK, Building, OnConsole, Counting
  <2> QED BY <1>1, <2>1, <2>2, <2>3, JobTalks
<1>6. ASSUME NEW late, q.pc = "look", Up(j), Conflicts(j) => q.req.overwrite \/ late,
             job' = [job EXCEPT ![j].pc = "write", ![j].late = late]
      PROVE  Sound
  <2> DEFINE r == [q EXCEPT !.pc = "write", !.late = late]
  <2>1. job' = [job EXCEPT ![j] = r]
    BY <1>6
  <2>2. /\ IsJob(r) /\ r.pc = "write" /\ r.late = late
        /\ r.todo = q.todo /\ r.seen = q.seen /\ r.req = q.req /\ r.k = q.k
    BY <1>1, <1>2 DEF IsJob, JobFields, Works
  <2>3. ~Conflicts(j) => Agrees(node[<<q.req.path, First(q.todo)>>], q.seen[First(q.todo)])
    BY DEF Conflicts, ExistingLogins, Node, At, Seen, Agrees
  <2> HIDE DEF r
  <2>4. JobOK(r, node, lab)
    BY <1>2, <1>6, <2>2, <2>3 DEF JobOK, Building, OnConsole, Counting, Up, Node, At
  <2> QED BY <1>1, <2>1, <2>2, <2>4, JobTalks
<1>7. CASE Wake(j)
  BY <1>3, <1>5, <1>7 DEF Wake
<1>8. CASE Look(j)
  BY <1>3, <1>6, <1>8 DEF Look
<1>9. CASE BootTimeout(j)
  BY <1>3, <1>9 DEF BootTimeout
<1> QED BY <1>7, <1>8, <1>9

(* A console that asks, or was answered, changes nothing else.                   *)
LEMMA AsksAgain ==
    ASSUME LabInv, NEW j \in Jobs, Asks(j), UNCHANGED lab
    PROVE  Sound
<1> DEFINE q == job[j]
           asked == ~q.asked
           r == [q EXCEPT !.asked = asked]
<1>1. /\ UNCHANGED <<row, node>> /\ Works(q) /\ row' \in [Devices -> DeviceRows]
      /\ job' = [job EXCEPT ![j] = r]
  BY DEF Asks, Works, LabInv
<1>2. IsJob(q) /\ JobOK(q, node, lab)
  BY <1>1, JobIs
<1> HIDE DEF asked
<1>3. /\ IsJob(r) /\ r.pc = q.pc /\ r.late = q.late /\ r.todo = q.todo /\ r.seen = q.seen
      /\ r.req = q.req /\ r.k = q.k
  BY <1>1, <1>2 DEF IsJob, JobFields, Works
<1> HIDE DEF r
<1>4. JobOK(r, node, lab)
  BY <1>2, <1>3 DEF JobOK
<1> QED BY <1>1, <1>3, <1>4, JobTalks

LEMMA PlansRound ==
    ASSUME LabInv, NEW j \in Jobs, PlanRound(j), UNCHANGED lab
    PROVE  Sound
<1> DEFINE q == job[j]
           todo == {d \in Targets(j) : Ready(j, d)}
           seen == Captured(j, Targets(j))
           r == [q EXCEPT !.seen = seen, !.result = [d \in Devices |->
                              IF d \in Targets(j) THEN Planned(j, d) ELSE @[d]],
                          !.todo = todo, !.pc = IF todo = {} THEN "report" ELSE "enter"]
<1>1. job' = [job EXCEPT ![j] = r] /\ UNCHANGED <<row, node>> /\ q.pc = "plan"
  BY DEF PlanRound
<1>2. IsJob(q) /\ Works(q) /\ JobOK(q, node, lab) /\ q.req \in Requests /\ row \in [Devices -> DeviceRows]
  BY <1>1, JobIs DEF Works, LabInv
<1>3. Targets(j) \in SUBSET Devices /\ todo \in SUBSET Devices
  <2>1. q.pending \in SUBSET Devices /\ (q.req.devs # None => q.req.devs \in SUBSET Devices)
    BY <1>2 DEF IsJob, Requests
  <2> QED BY <2>1 DEF Targets, Candidates
<1>4. \A d \in Devices : Ready(j, d) => [ip |-> row[d].ip, login |-> row[d].login] \in SeenRows
  <2> SUFFICES ASSUME NEW d \in Devices, RowReady(d)
               PROVE  [ip |-> row[d].ip, login |-> row[d].login] \in SeenRows
    BY DEF Ready
  <2>1. row[d] \in DeviceRows /\ row[d].login # None
    BY <1>2 DEF RowReady
  <2> QED BY <2>1 DEF DeviceRows, SeenRows
<1>5. seen \in [Devices -> SeenRows \cup {None}] /\ \A d \in todo : seen[d] # None
  BY <1>3, <1>4, LabAssumption DEF Captured
<1>6. /\ DOMAIN r = JobFields /\ r.req = q.req /\ r.plan = q.plan /\ r.pending = q.pending
      /\ r.seen = seen /\ r.todo = todo /\ r.k = q.k /\ r.pc = IF todo = {} THEN "report" ELSE "enter"
  BY <1>2 DEF IsJob, JobFields
<1> HIDE DEF r, seen, todo, q
<1>7. IsJob(r)
  BY <1>2, <1>3, <1>5, <1>6 DEF IsJob
<1>8. JobOK(r, node, lab)
  BY <1>1, <1>2, <1>5, <1>6 DEF JobOK, Building, OnConsole, Counting
<1> QED BY <1>1, <1>2, <1>6, <1>7, <1>8, JobTalks DEF q

(* A check of what was configured reads the rows again.                         *)
LEMMA Verifies ==
    ASSUME LabInv, NEW j \in Jobs, Verify(j) \/ VerifyPanos(j), UNCHANGED lab
    PROVE  Sound
<1> DEFINE q == job[j]
           d == First(q.todo)
<1>1. q.pc = "verify" /\ UNCHANGED node
  BY DEF Verify, VerifyPanos
<1>2. /\ q.pc \in OnConsole /\ Works(q) /\ IsJob(q) /\ q.req \in Requests
      /\ JobOK(q, node, lab) /\ row \in [Devices -> DeviceRows]
  BY <1>1, JobIs DEF Works, OnConsole, LabInv
<1>3. d \in q.todo /\ d \in Devices /\ q.seen[d] # None /\ q.seen[d] \in SeenRows /\ q.todo \in SUBSET Devices
  BY <1>2, LeastIsThere DEF IsJob, JobOK
<1>4. PICK after, ok : after = row' /\ job' = [job EXCEPT ![j] = Verified(j, after, ok)]
  BY DEF Verify, VerifyPanos
<1>5. row' \in [Devices -> DeviceRows]
  <2>1. CASE Verify(j)
    BY <1>2, <2>1 DEF Verify
  <2>2. CASE VerifyPanos(j)
    <3>1. row' = [row EXCEPT ![d].login = StoredLogin(j)]
      BY <2>2 DEF VerifyPanos, At
    <3>2. AsAdmin(Seen(j).login) \in Logins
      <4>1. Seen(j) \in SeenRows
        BY <1>3 DEF Seen, At
      <4>2. Seen(j).login.pass \in Texts
        BY <4>1 DEF SeenRows, Logins
      <4> QED BY <4>2 DEF AsAdmin, Logins, Texts
    <3>3. StoredLogin(j) \in Logins \cup {None}
      BY <1>2, <1>3, <3>2 DEF StoredLogin, At, DeviceRows
    <3> QED BY <1>2, <1>3, <3>1, <3>3 DEF DeviceRows
  <2> QED BY <2>1, <2>2
<1> DEFINE o == Over(j, IF ok THEN "ok" ELSE "configured")
           seen == [e \in Devices |-> IF o.seen[e] = None THEN None
                                      ELSE [o.seen[e] EXCEPT !.ip = after[e].ip]]
           r == [o EXCEPT !.seen = seen]
<1>6. IsJob(o) /\ o.req = q.req /\ JobOK(o, node, lab)
  BY <1>2, OverIs
<1>7. job' = [job EXCEPT ![j] = r]
  BY <1>4 DEF Verified
<1> HIDE DEF o, q
<1>8. /\ seen \in [Devices -> SeenRows \cup {None}]
      /\ \A e \in Devices : o.seen[e] # None => seen[e] # None
  <2> SUFFICES ASSUME NEW e \in Devices, o.seen[e] # None PROVE seen[e] \in SeenRows
    BY LabAssumption
  <2>1. o.seen[e] \in SeenRows /\ after[e] \in DeviceRows
    BY <1>4, <1>5, <1>6 DEF IsJob
  <2>2. [o.seen[e] EXCEPT !.ip = after[e].ip] \in SeenRows
    BY <2>1 DEF SeenRows, DeviceRows
  <2> QED BY <2>2
<1> HIDE DEF seen
<1>9. /\ DOMAIN r = JobFields /\ r.req = o.req /\ r.plan = o.plan /\ r.pending = o.pending
      /\ r.seen = seen /\ r.todo = o.todo /\ r.k = o.k /\ r.pc = o.pc
  BY <1>6 DEF IsJob, JobFields
<1>10. o.pc \in {"report", "enter"}
  BY <1>2 DEF o, Over, IsJob, JobFields, q
<1> HIDE DEF r
<1>11. IsJob(r)
  BY <1>6, <1>8, <1>9 DEF IsJob, Works
<1>12. JobOK(r, node, lab)
  BY <1>6, <1>8, <1>9, <1>10 DEF JobOK, IsJob, Building, OnConsole, Counting
<1> QED BY <1>1, <1>2, <1>5, <1>6, <1>7, <1>9, <1>11, <1>12, JobTalks DEF q

LEMMA FiniteIsBounded ==
    ASSUME NEW S \in SUBSET Nat, IsFiniteSet(S)
    PROVE  \E b \in Nat : \A e \in S : e <= b
<1> DEFINE Bounded(U) == \E b \in Nat : \A e \in U : e <= b
           Bad == {n \in Nat : \E U \in SUBSET S : Cardinality(U) = n /\ ~Bounded(U)}
<1> SUFFICES ASSUME ~Bounded(S) PROVE FALSE
  OBVIOUS
<1>1. \A U \in SUBSET S : IsFiniteSet(U) /\ Cardinality(U) \in Nat
  BY FS_Subset, FS_CardinalityType
<1>2. Cardinality(S) \in Bad
  BY <1>1
<1>3. PICK n \in Bad : \A m \in Bad : n <= m
  <2>1. Bad \in SUBSET Nat /\ Bad # {}
    BY <1>2
  <2> HIDE DEF Bad
  <2> QED BY <2>1, LeastOfNaturals
<1>4. PICK U \in SUBSET S : Cardinality(U) = n /\ ~Bounded(U)
  OBVIOUS
<1>5. PICK u \in U : TRUE
  BY <1>4
<1> DEFINE V == U \ {u}
<1>6. Cardinality(V) = n - 1 /\ Cardinality(V) \in Nat
  BY <1>1, <1>4, FS_RemoveElement
<1>7. PICK b \in Nat : \A e \in V : e <= b
  BY <1>3, <1>6
<1>8. IF u <= b THEN \A e \in U : e <= b ELSE \A e \in U : e <= u
  BY <1>7
<1> QED BY <1>4, <1>8

(* Some address has each rank, so that what is given to a device is free.        *)
LEMMA RankTaken ==
    ASSUME NEW S \in SUBSET Nat, IsFiniteSet(S), NEW k \in 1 .. Cardinality(S)
    PROVE  \E h \in S : Rank(h, S) = k
<1> DEFINE Upto(x) == {e \in S : e <= x}
<1>1. ASSUME NEW x \in Nat PROVE IsFiniteSet(Upto(x)) /\ Cardinality(Upto(x)) \in Nat
  BY FS_Subset, FS_CardinalityType
<1>2. PICK x \in Nat : /\ Cardinality(Upto(x)) >= k
                       /\ \A y \in Nat : Cardinality(Upto(y)) >= k => x <= y
  <2> DEFINE T == {x \in Nat : Cardinality(Upto(x)) >= k}
  <2>1. PICK b \in Nat : \A e \in S : e <= b
    BY FiniteIsBounded
  <2>2. Upto(b) = S
    BY <2>1
  <2>3. Cardinality(S) >= k
    BY FS_CardinalityType
  <2>4. T # {} /\ T \in SUBSET Nat
    BY <2>2, <2>3
  <2>5. PICK x \in T : \A y \in T : x <= y
    <3> HIDE DEF T
    <3> QED BY <2>4, LeastOfNaturals
  <2> QED BY <2>5
<1>3. Cardinality(Upto(x)) \in Nat /\ IsFiniteSet(Upto(x)) /\ k \in Nat /\ k >= 1
  BY <1>1, FS_CardinalityType
<1>4. ASSUME x # 0
      PROVE  /\ x - 1 \in Nat /\ Cardinality(Upto(x - 1)) \in Nat
             /\ Cardinality(Upto(x - 1)) < k /\ Upto(x - 1) = Upto(x) \ {x}
  <2>1. x - 1 \in Nat /\ ~(x <= x - 1)
    BY <1>4
  <2>2. Upto(x - 1) = Upto(x) \ {x}
    <3>1. \A e \in S : e <= x - 1 <=> e <= x /\ e # x
      BY <2>1
    <3> QED BY <3>1
  <2>3. Cardinality(Upto(x - 1)) \in Nat
    BY <1>1, <2>1
  <2>4. ~(Cardinality(Upto(x - 1)) >= k)
    BY <1>2, <2>1
  <2> HIDE DEF Upto
  <2> QED BY <1>3, <2>1, <2>2, <2>3, <2>4
<1>5. ASSUME x = 0 PROVE Upto(x) \ {x} = {}
  <2>1. \A e \in S : e <= x => e = x
    BY <1>5
  <2> QED BY <2>1
<1>6. Cardinality(Upto(x) \ {x}) < k
  <2>1. CASE x = 0
    BY <1>3, <1>5, <2>1, FS_EmptySet
  <2>2. CASE x # 0
    BY <1>4, <2>2
  <2> QED BY <2>1, <2>2
<1>7. x \in Upto(x)
  <2> SUFFICES ASSUME x \notin Upto(x) PROVE FALSE
    OBVIOUS
  <2>1. Upto(x) \ {x} = Upto(x)
    OBVIOUS
  <2> HIDE DEF Upto
  <2> QED BY <1>2, <1>3, <1>6, <2>1
<1>8. Cardinality(Upto(x) \ {x}) = Cardinality(Upto(x)) - 1
  <2> HIDE DEF Upto
  <2> QED BY <1>3, <1>7, FS_RemoveElement
<1>9. x \in S /\ Cardinality(Upto(x)) = k
  <2>1. x \in S
    BY <1>7
  <2> HIDE DEF Upto
  <2> QED BY <1>2, <1>3, <1>6, <1>8, <2>1
<1> QED BY <1>9 DEF Rank

LEMMA AddressesFound ==
    ASSUME LabInv, NEW j \in Jobs, FindAddresses(j)
    PROVE  Sound
<1> DEFINE q == job[j]
           waiting == {d \in q.plan.auto : q.plan.ip[d] = None}
           ip == [d \in Devices |-> IF d \in waiting THEN GivenTo(d, waiting) ELSE q.plan.ip[d]]
           told == [d \in Devices |-> IF d \in q.plan.auto THEN "skipped" ELSE q.result[d]]
           r1 == [q EXCEPT !.pc = "store", !.result = told]
           r2 == [q EXCEPT !.pc = IF q.plan.auto = {} THEN "store" ELSE "provision",
                           !.todo = q.plan.auto, !.plan.ip = ip]
<1>1. q.pc = "address" /\ UNCHANGED <<row, lab, node>> /\ row' \in [Devices -> DeviceRows]
  BY DEF FindAddresses, LabInv
<1>2. q.pc \notin Counting /\ Works(q) /\ IsJob(q) /\ q.plan \in Plans /\ q.plan.auto \in SUBSET Devices
      /\ q.plan.ip \in [Devices -> Nat \cup {None}]
  BY <1>1, JobIs DEF Works, IsJob, Plans, Counting
<1>3. {"store", "provision"} \cap (Building \cup OnConsole) = {}
  BY DEF Building, OnConsole
<1>4. CASE Cardinality(FreeHosts) < Cardinality(waiting)
  <2>1. job' = [job EXCEPT ![j] = r1]
    BY <1>4 DEF FindAddresses
  <2>2. /\ DOMAIN r1 = JobFields /\ r1.req = q.req /\ r1.pc = "store" /\ r1.plan = q.plan
        /\ r1.todo = q.todo /\ r1.pending = q.pending /\ r1.seen = q.seen /\ r1.k = q.k
    BY <1>2 DEF IsJob, JobFields
  <2> HIDE DEF r1
  <2> QED BY <1>1, <1>2, <1>3, <2>1, <2>2, JobGoes DEF IsJob
<1>5. CASE ~(Cardinality(FreeHosts) < Cardinality(waiting))
  <2>1. job' = [job EXCEPT ![j] = r2]
    BY <1>5 DEF FindAddresses
  <2>2. /\ DOMAIN r2 = JobFields /\ r2.req = q.req /\ r2.pc \in {"store", "provision"}
        /\ r2.plan = [q.plan EXCEPT !.ip = ip]
        /\ r2.todo = q.plan.auto /\ r2.pending = q.pending /\ r2.seen = q.seen /\ r2.k = q.k
    BY <1>2 DEF IsJob, JobFields
  <2>3. ASSUME NEW d \in waiting PROVE GivenTo(d, waiting) \in Nat
    <3> HIDE DEF q
    <3>1. FreeHosts \in SUBSET Nat /\ IsFiniteSet(FreeHosts)
      BY LabAssumption, FS_Subset DEF FreeHosts
    <3>2. waiting \in SUBSET Nat /\ IsFiniteSet(waiting)
      BY <1>2, BootstrapAssumption, FS_Subset
    <3> DEFINE lower == {e \in waiting : e <= d}
    <3>3. d \in lower /\ lower \in SUBSET waiting
      BY <3>2
    <3> HIDE DEF waiting
    <3>4. /\ IsFiniteSet(lower) /\ Cardinality(lower) <= Cardinality(waiting)
          /\ Cardinality(lower) \in Nat /\ Cardinality(lower) # 0
          /\ Cardinality(waiting) \in Nat /\ Cardinality(FreeHosts) \in Nat
      BY <3>1, <3>2, <3>3, FS_Subset, FS_CardinalityType, FS_EmptySet
    <3>5. Rank(d, waiting) \in 1 .. Cardinality(FreeHosts)
      BY <1>5, <3>4 DEF Rank
    <3>6. \E h \in FreeHosts : Rank(h, FreeHosts) = Rank(d, waiting)
      BY <3>1, <3>5, RankTaken
    <3> QED BY <3>1, <3>6 DEF GivenTo
  <2>4. ip \in [Devices -> Nat \cup {None}]
    BY <1>2, <2>3
  <2>5. [q.plan EXCEPT !.ip = ip] \in Plans
    <3> HIDE DEF ip, q
    <3> QED BY <1>2, <2>4 DEF Plans
  <2> HIDE DEF r2, ip
  <2> QED BY <1>1, <1>2, <1>3, <2>1, <2>2, <2>5, JobGoes DEF IsJob
<1> QED BY <1>4, <1>5

LEMMA Provisions ==
    ASSUME LabInv, NEW j \in Jobs, Provision(j) \/ StoreLogins(j)
    PROVE  Sound
<1> DEFINE q == job[j]
<1>1. q.pc \notin Counting /\ Works(q) /\ IsJob(q) /\ q.req \in Requests /\ UNCHANGED <<lab, node>>
      /\ q.plan \in Plans /\ q.todo \in SUBSET Devices /\ row \in [Devices -> DeviceRows]
  BY JobIs DEF Works, IsJob, Counting, Provision, StoreLogins, LabInv
<1>2. CASE Provision(j)
  <2>1. PICK d \in {First(q.todo)}, ip \in {q.plan.ip[First(q.todo)]} :
          /\ row' = IF MayProvision(d, ip) THEN [row EXCEPT ![d].ip = ip, ![d].planned = FALSE] ELSE row
          /\ job' = [job EXCEPT ![j].todo = @ \ {d},
                                ![j].result[d] = IF MayProvision(d, ip) THEN @ ELSE "skipped",
                                ![j].pc = IF q.todo = {d} THEN "store" ELSE @]
    BY <1>2 DEF Provision
  <2> DEFINE told == [q.result EXCEPT ![d] = IF MayProvision(d, ip) THEN @ ELSE "skipped"]
             r == [q EXCEPT !.todo = @ \ {d}, !.result = told,
                            !.pc = IF q.todo = {d} THEN "store" ELSE @]
  <2>2. job' = [job EXCEPT ![j] = r]
    BY <2>1
  <2>3. /\ DOMAIN r = JobFields /\ r.req = q.req /\ r.pc \in {"store", "provision"} /\ r.plan = q.plan
        /\ r.todo = q.todo \ {d} /\ r.pending = q.pending /\ r.seen = q.seen /\ r.k = q.k
    BY <1>1, <1>2 DEF IsJob, JobFields, Provision
  <2>4. row' \in [Devices -> DeviceRows]
    <3>1. CASE d \in Devices
      <4>1. ip \in Nat \cup {None} /\ row[d] \in DeviceRows
        BY <1>1, <2>1, <3>1 DEF Plans
      <4>2. [row[d] EXCEPT !.ip = ip, !.planned = FALSE] \in DeviceRows
        BY <4>1 DEF DeviceRows
      <4>3. row' = IF MayProvision(d, ip)
                   THEN [row EXCEPT ![d] = [row[d] EXCEPT !.ip = ip, !.planned = FALSE]] ELSE row
        BY <1>1, <2>1, <3>1
      <4> QED BY <1>1, <4>2, <4>3
    <3>2. CASE d \notin Devices
      BY <1>1, <2>1, <3>2
    <3> QED BY <3>1, <3>2
  <2>5. {"store", "provision"} \cap (Building \cup OnConsole) = {}
    BY DEF Building, OnConsole
  <2> HIDE DEF r
  <2> QED BY <1>1, <2>2, <2>3, <2>4, <2>5, JobGoes DEF IsJob
<1>3. CASE StoreLogins(j)
  <2> DEFINE targets == {d \in Exported : Kind[d] \in Supported /\ row[d].ip # None}
             told == [d \in Devices |->
                        IF d \in targets THEN "pending"
                        ELSE IF d \in Exported /\ Kind[d] \in Supported THEN "skipped" ELSE q.result[d]]
             r == [q EXCEPT !.pending = targets, !.todo = Exported,
                            !.pc = IF Exported = {} THEN "report" ELSE "nodestart", !.result = told]
  <2>1. job' = [job EXCEPT ![j] = r]
    BY <1>3 DEF StoreLogins
  <2>2. /\ DOMAIN r = JobFields /\ r.req = q.req /\ r.pc \in {"report", "nodestart"} /\ r.plan = q.plan
        /\ r.todo = Exported /\ r.pending = targets /\ r.seen = q.seen /\ r.k = q.k
    BY <1>1 DEF IsJob, JobFields
  <2>3. Exported \in SUBSET Devices /\ targets \in SUBSET Devices
    BY DEF Exported
  <2>4. row' \in [Devices -> DeviceRows]
    <3>1. \A d \in Devices : [row[d] EXCEPT !.env = "pnetlab", !.login = q.req.ssh] \in DeviceRows
      <4>1. q.req.ssh \in Logins
        BY <1>1 DEF Requests
      <4> HIDE DEF q
      <4> QED BY <1>1, <4>1 DEF DeviceRows
    <3> QED BY <1>1, <1>3, <3>1 DEF StoreLogins
  <2>5. {"report", "nodestart"} \cap (Building \cup OnConsole) = {}
    BY DEF Building, OnConsole
  <2> HIDE DEF r, targets
  <2> QED BY <1>1, <2>1, <2>2, <2>3, <2>4, <2>5, JobGoes DEF IsJob
<1> QED BY <1>2, <1>3

LEMMA Reports ==
    ASSUME LabInv, NEW j \in Jobs, RoundFails(j) \/ Report(j)
    PROVE  Sound
<1> DEFINE q == job[j]
<1>1. /\ q.pc \notin Counting /\ Works(q) /\ IsJob(q)
      /\ UNCHANGED <<row, lab, node>> /\ row' \in [Devices -> DeviceRows]
  BY JobIs DEF Works, Counting, RoundFails, Report, LabInv
<1>2. {"report", "plan"} \cap (Building \cup OnConsole) = {}
  BY DEF Building, OnConsole
<1>3. ASSUME NEW status, Finish(j, status) PROVE Sound
  BY <1>1, <1>3, JobEnds
<1>4. CASE RoundFails(j) /\ q.req.kind # "bootstrap"
  <2>1. PICK told : job' = [job EXCEPT ![j].pc = "report", ![j].result = told]
    BY <1>4 DEF RoundFails
  <2> DEFINE r == [q EXCEPT !.pc = "report", !.result = told]
  <2>2. job' = [job EXCEPT ![j] = r]
    BY <2>1
  <2>3. /\ DOMAIN r = JobFields /\ r.req = q.req /\ r.pc = "report" /\ r.plan = q.plan
        /\ r.todo = q.todo /\ r.pending = q.pending /\ r.seen = q.seen /\ r.k = q.k
    BY <1>1 DEF IsJob, JobFields
  <2> HIDE DEF r
  <2> QED BY <1>1, <1>2, <2>2, <2>3, JobGoes DEF IsJob
<1>5. CASE Report(j) /\ ~Finish(j, "done")
  <2> DEFINE r == [q EXCEPT !.pending = StillBooting(j), !.pc = "plan",
                            !.tries = IF @ = MaxTries THEN @ ELSE @ + 1]
  <2>1. job' = [job EXCEPT ![j] = r]
    BY <1>5 DEF Report
  <2>2. /\ DOMAIN r = JobFields /\ r.req = q.req /\ r.pc = "plan" /\ r.plan = q.plan
        /\ r.todo = q.todo /\ r.pending = StillBooting(j) /\ r.seen = q.seen /\ r.k = q.k
    BY <1>1 DEF IsJob, JobFields
  <2>3. StillBooting(j) \in SUBSET Devices
    BY <1>1 DEF StillBooting, IsJob
  <2> HIDE DEF r
  <2> QED BY <1>1, <1>2, <2>1, <2>2, <2>3, JobGoes DEF IsJob
<1> QED BY <1>3, <1>4, <1>5 DEF RoundFails

(* A lab is taken for the job's own when nothing is in it.                        *)
LEMMA OpensIt ==
    ASSUME LabInv, NEW j \in Jobs, job[j].pc \in {"open", "again"}, lab[PathOf(j)] # None, Opened(j),
           UNCHANGED <<row, lab, node>>
    PROVE  Sound
<1> DEFINE q == job[j]
<1>1. /\ Works(q) /\ IsJob(q) /\ row' \in [Devices -> DeviceRows] /\ PathOf(j) \in Paths
  BY JobIs DEF Works, LabInv, PathOf
<1>2. CASE ~Empty(PathOf(j))
  BY <1>1, <1>2, JobEnds DEF Opened
<1>3. CASE Empty(PathOf(j))
  <2> DEFINE r == [q EXCEPT !.pc = "nodes", !.todo = Exported, !.k = 1]
  <2>1. job' = [job EXCEPT ![j] = r]
    BY <1>3 DEF Opened
  <2>2. /\ DOMAIN r = JobFields /\ r.req = q.req /\ r.pc = "nodes" /\ r.plan = q.plan
        /\ r.todo = Exported /\ r.pending = q.pending /\ r.seen = q.seen /\ r.k = 1
    BY <1>1 DEF IsJob, JobFields
  <2>3. \A d \in Devices : node[<<PathOf(j), d>>] = None
    BY <1>3 DEF Empty, NodesIn
  <2>4. Exported \in SUBSET Devices
    BY DEF Exported
  <2> HIDE DEF r
  <2>5. IsJob(r) /\ JobOK(r, node, lab)
    BY <1>1, <2>2, <2>3, <2>4 DEF IsJob, JobOK, PathOf, Building, OnConsole, Counting, Works
  <2> QED BY <1>1, <2>1, <2>2, <2>5, JobTalks
<1> QED BY <1>2, <1>3

LEMMA Opens ==
    ASSUME LabInv, NEW j \in Jobs, OpenLab(j) \/ BuildFails(j) \/ NodesAdded(j)
    PROVE  Sound
<1> DEFINE q == job[j]
<1>1. /\ Works(q) /\ IsJob(q) /\ JobOK(q, node, lab) /\ UNCHANGED <<row, lab, node>>
      /\ row' \in [Devices -> DeviceRows]
  BY JobIs DEF Works, OpenLab, BuildFails, NodesAdded, LabInv, Continue
<1>2. ASSUME NEW pc \in {"networks", "rollback"}, q.pc \in Building, GoTo(j, pc) PROVE Sound
  <2> DEFINE r == [q EXCEPT !.pc = pc]
  <2>1. r.pc = pc /\ r.req = q.req /\ r.k = q.k
    BY <1>1, Turned
  <2> HIDE DEF r, q
  <2>2. JobOK(r, node, lab)
    BY <1>1, <1>2, <2>1 DEF JobOK, Building, OnConsole, Counting
  <2> QED BY <1>1, <1>2, <2>2, JobTurns DEF r, q
<1>3. CASE BuildFails(j) \/ NodesAdded(j)
  BY <1>2, <1>3 DEF BuildFails, NodesAdded, Continue, Building
<1>4. CASE OpenLab(j) /\ GoTo(j, "again")
  <2>1. JobOK([q EXCEPT !.pc = "again"], node, lab)
    <3> DEFINE r == [q EXCEPT !.pc = "again"]
    <3>1. r.pc = "again"
      BY <1>1, Turned
    <3> HIDE DEF r
    <3> QED BY <3>1 DEF JobOK, Building, OnConsole, Counting, r
  <2> QED BY <1>1, <1>4, <2>1, JobTurns
<1>5. CASE OpenLab(j) /\ lab[PathOf(j)] # None /\ Opened(j)
  BY <1>1, <1>5, OpensIt DEF OpenLab
<1> QED BY <1>3, <1>4, <1>5 DEF OpenLab, Continue

(* A job changes one node of its lab, cabled as it was.  An IOS node keeps its login *)
(* and address, unless the job may overwrite them, answers come late or it has seen  *)
(* that they are its.                                                           *)
LEMMA NodeEdited ==
    ASSUME LabInv, NEW j \in Jobs, Works(job[j]), NEW d \in Devices, NEW a, a = <<PathOf(j), d>>,
           node[a] # None, NEW n \in NodeRows, node' = [node EXCEPT ![a] = n],
           n.port = node[a].port, UNCHANGED <<row, lab>>,
           NEW r, job' = [job EXCEPT ![j] = r], IsJob(r),
           Works(r) => r.req = job[j].req /\ JobOK(r, node', lab'),
           \/ Kind[d] \notin Ios \/ job[j].req.overwrite \/ job[j].late
           \/ n.users = node[a].users /\ n.addr = node[a].addr
           \/ job[j].seen[d] # None /\ Agrees(node[a], job[j].seen[d])
    PROVE  Sound
<1>1. /\ PathOf(j) \in Paths /\ a \in Nodes /\ node \in [Nodes -> NodeRows \cup {None}]
      /\ lab \in [Paths -> LabRows \cup {None}] /\ n # None
  BY JobIs, NodeAssumption DEF LabInv, ServerOK, Nodes, PathOf
<1>2. node' \in [Nodes -> NodeRows \cup {None}] /\ \A m \in Nodes : node'[m] = IF m = a THEN n ELSE node[m]
  BY <1>1
<1>3. ServerOK(node', lab')
  <2>1. \A p \in Paths, e \in Devices : <<p, e>> \in Nodes /\ (node'[<<p, e>>] = None <=> node[<<p, e>>] = None)
    BY <1>1, <1>2 DEF Nodes
  <2> QED BY <1>2, <2>1 DEF LabInv, ServerOK
<1>4. KeepsHandLabs
  <2>1. \A p \in Paths, e \in Devices : <<p, e>> \in Nodes
    BY DEF Nodes
  <2> QED BY <1>1, <1>2, <2>1 DEF KeepsHandLabs
<1>5. LeavesAlone
  <2> SUFFICES ASSUME NEW k \in Jobs, NEW e \in Devices, NEW m, m = <<job[k].req.path, e>>, job'[k] # job[k],
                      Kind[e] \in Ios, ~job[k].req.overwrite, ~job[k].late, node[m] # None, node'[m] # None,
                      <<node'[m].users, node'[m].addr>> # <<node[m].users, node[m].addr>>
               PROVE  job[k].seen[e] # None /\ Agrees(node[m], job[k].seen[e])
    BY DEF LeavesAlone, Agrees
  <2>1. k = j
    BY JobIs
  <2>2. m \in Nodes /\ m = <<PathOf(j), e>>
    BY <1>1, <2>1 DEF Nodes, PathOf
  <2>3. m = a
    BY <1>2, <2>2
  <2>4. e = d
    BY <2>2, <2>3
  <2> QED BY <1>2, <2>1, <2>2, <2>3, <2>4
<1>6. \A p \in Paths \ {job[j].req.path} :
          lab'[p] = lab[p] /\ \A e \in Devices : node'[<<p, e>>] = node[<<p, e>>]
  BY <1>2 DEF Nodes, PathOf
<1>7. row' \in [Devices -> DeviceRows]
  BY DEF LabInv
<1>8. LabInv'
  BY <1>3, <1>6, <1>7, JobMoves
<1> QED BY <1>4, <1>5, <1>8 DEF Sound

(* What a session changes at its node is such a change.                          *)
LEMMA AtHand ==
    ASSUME LabInv, NEW j \in Jobs, job[j].pc \in OnConsole
    PROVE  /\ Works(job[j]) /\ IsJob(job[j]) /\ JobOK(job[j], node, lab) /\ job[j].req \in Requests
           /\ At(j) \in job[j].todo /\ At(j) \in Devices /\ Node(j) = <<PathOf(j), At(j)>>
           /\ Seen(j) \in SeenRows /\ Seen(j) # None /\ PathOf(j) \in Paths /\ Node(j) \in Nodes
           /\ node[Node(j)] \in NodeRows \cup {None}
<1>1. /\ Works(job[j]) /\ IsJob(job[j]) /\ JobOK(job[j], node, lab)
      /\ job[j].req \in Requests /\ PathOf(j) \in Paths
  BY JobIs DEF OnConsole, Works, PathOf
<1>2. At(j) \in job[j].todo /\ At(j) \in Devices /\ Seen(j) # None
  BY <1>1, LeastIsThere DEF IsJob, JobOK, At, Seen
<1>3. Seen(j) \in SeenRows
  BY <1>1, <1>2 DEF IsJob, Seen
<1>4. Node(j) = <<PathOf(j), At(j)>> /\ Node(j) \in Nodes
  BY <1>1, <1>2 DEF Node, PathOf, Nodes
<1> QED BY <1>1, <1>2, <1>3, <1>4 DEF LabInv, ServerOK

LEMMA Overridden ==
    ASSUME NEW old \in SUBSET Logins, NEW new \in SUBSET Logins
    PROVE  Override(old, new) \in SUBSET Logins
BY DEF Override

LEMMA CommandsAre ==
    ASSUME NEW j \in Jobs, NEW k \in 1 .. IF job[j].req.gateway THEN 4 ELSE 3
    PROVE  /\ Len(Commands(j)) = IF job[j].req.gateway THEN 4 ELSE 3
           /\ Commands(j)[k] \in {"address", "gateway", "login", "ssh"}
<1> DEFINE W == {"address", "gateway", "login", "ssh"}
           mid == IF job[j].req.gateway THEN <<"gateway">> ELSE <<>>
           a == <<"address">>
           z == <<"login", "ssh">>
<1>1. a \in Seq(W) /\ mid \in Seq(W) /\ z \in Seq(W) /\ Len(a) = 1 /\ Len(z) = 2
      /\ Len(mid) = IF job[j].req.gateway THEN 1 ELSE 0
  <2>1. a \in Seq(W) /\ Len(a) = 1
    OBVIOUS
  <2>2. z \in Seq(W) /\ Len(z) = 2
    OBVIOUS
  <2>3. mid \in Seq(W) /\ Len(mid) = IF job[j].req.gateway THEN 1 ELSE 0
    <3>1. <<"gateway">> \in Seq(W) /\ Len(<<"gateway">>) = 1 /\ <<>> \in Seq(W) /\ Len(<<>>) = 0
      BY EmptySeq
    <3> HIDE DEF W
    <3> QED BY <3>1
  <2> HIDE DEF a, z, mid, W
  <2> QED BY <2>1, <2>2, <2>3
<1> HIDE DEF a, mid, z
<1>2. a \o mid \in Seq(W) /\ Len(a \o mid) = Len(a) + Len(mid)
  BY <1>1, ConcatProperties
<1>3. (a \o mid) \o z \in Seq(W) /\ Len((a \o mid) \o z) = Len(a \o mid) + Len(z)
  BY <1>1, <1>2, ConcatProperties
<1>4. Commands(j) = (a \o mid) \o z
  BY DEF Commands, a, mid, z
<1> QED BY <1>1, <1>2, <1>3, <1>4, ElementOfSeq

LEMMA AppliedIs ==
    ASSUME NEW n \in NodeRows, NEW s \in SeenRows, NEW c \in {"address", "gateway", "login", "ssh"}
    PROVE  LET m == Applied(c, n, s.ip, s.login) IN
           m \in NodeRows /\ m.port = n.port /\ (Agrees(n, s) => Agrees(m, s))
<1>1. s.ip \in Nat \cup {None} /\ s.login \in Logins
  BY DEF SeenRows
<1>2. CASE c = "address"
  BY <1>1, <1>2 DEF Applied, NodeRows, Agrees
<1>3. CASE c = "login"
  <2> DEFINE u == Override(n.users, {s.login})
             m == [n EXCEPT !.users = u]
  <2>1. u \in SUBSET Logins
    BY <1>1, Overridden DEF NodeRows
  <2>2. \A l \in u : l \in n.users \/ l = s.login
    BY DEF Override
  <2>3. Applied(c, n, s.ip, s.login) = m
    BY <1>3 DEF Applied
  <2> HIDE DEF u
  <2>4. m \in NodeRows /\ m.users = u /\ m.addr = n.addr /\ m.port = n.port
    BY <2>1 DEF NodeRows
  <2> QED BY <2>2, <2>3, <2>4 DEF Agrees
<1>4. CASE c = "ssh"
  <2>1. PICK b \in BOOLEAN : b = TRUE
    OBVIOUS
  <2>2. Applied(c, n, s.ip, s.login) = [n EXCEPT !.ssh = b]
    BY <1>4, <2>1 DEF Applied
  <2>3. [n EXCEPT !.ssh = b] \in NodeRows
    BY DEF NodeRows
  <2> QED BY <2>2, <2>3 DEF NodeRows, Agrees
<1>5. CASE c = "gateway"
  BY <1>5 DEF Applied
<1> QED BY <1>2, <1>3, <1>4, <1>5

LEMMA WritesIos ==
    ASSUME LabInv, NEW j \in Jobs, Write(j), UNCHANGED lab
    PROVE  Sound
<1> DEFINE q == job[j]
           n == node[Node(j)]
           s == Seen(j)
           d == At(j)
           c == Commands(j)[q.k]
           last == q.k = Len(Commands(j))
<1>1. q.pc = "write" /\ Up(j) /\ UNCHANGED row /\ q.pc \in OnConsole
  BY DEF Write, OnConsole
<1>2. /\ Works(q) /\ IsJob(q) /\ JobOK(q, node, lab) /\ q.req \in Requests /\ d \in q.todo /\ d \in Devices
      /\ Node(j) = <<PathOf(j), d>> /\ s \in SeenRows /\ s # None /\ Node(j) \in Nodes
      /\ n \in NodeRows \cup {None} /\ PathOf(j) \in Paths
  BY <1>1, AtHand
<1>3. n \in NodeRows /\ n # None /\ s = q.seen[d]
  BY <1>1, <1>2 DEF Up, Seen
<1>4. q.req.overwrite \/ q.late \/ Agrees(n, s)
  BY <1>1, <1>2, <1>3 DEF JobOK, At, PathOf, Node, Seen
<1>c. /\ c \in {"address", "gateway", "login", "ssh"}
      /\ q.k \in 1 .. IF q.req.gateway THEN 4 ELSE 3
      /\ Len(Commands(j)) = IF q.req.gateway THEN 4 ELSE 3
  BY <1>1, <1>2, CommandsAre DEF JobOK
<1>5. PICK rejected \in BOOLEAN, noted \in BOOLEAN, late \in MayBeLate(j) :
          /\ node' = IF rejected THEN node
                     ELSE [node EXCEPT ![Node(j)] = Applied(c, n, s.ip, s.login)]
          /\ IF last THEN IF noted \/ q.bad THEN End(j, "error") ELSE GoTo(j, "verify")
             ELSE job' = [job EXCEPT ![j].k = @ + 1, ![j].bad = @ \/ noted, ![j].late = late]
  BY DEF Write
<1>l. q.late => late
  BY DEF MayBeLate
<1> DEFINE m == IF rejected THEN n ELSE Applied(c, n, s.ip, s.login)
<1>6. node' = [node EXCEPT ![Node(j)] = m]
  BY <1>2, <1>5 DEF LabInv, ServerOK
<1>7. m \in NodeRows /\ m.port = n.port /\ (Agrees(n, s) => Agrees(m, s))
  BY <1>2, <1>3, <1>c, AppliedIs
<1>8. node'[Node(j)] = m /\ m # None
  BY <1>2, <1>6, <1>7, NodeAssumption DEF LabInv, ServerOK
<1>9. ASSUME NEW r, job' = [job EXCEPT ![j] = r], IsJob(r),
             Works(r) => r.req = q.req /\ JobOK(r, node', lab')
      PROVE  Sound
  BY <1>1, <1>2, <1>3, <1>4, <1>6, <1>7, <1>9, NodeEdited, Zenon
<1> HIDE DEF m
<1>10. CASE last /\ (noted \/ q.bad)
  <2> DEFINE r == Over(j, "error")
  <2>1. IsJob(r) /\ r.req = q.req /\ JobOK(r, node', lab')
    BY <1>1, OverIs
  <2>2. job' = [job EXCEPT ![j] = r]
    BY <1>5, <1>10 DEF End
  <2> HIDE DEF r, q
  <2> QED BY <1>9, <2>1, <2>2
<1>11. CASE last /\ ~(noted \/ q.bad)
  <2> DEFINE r == [q EXCEPT !.pc = "verify"]
  <2>1. /\ IsJob(r) /\ r.pc = "verify" /\ r.req = q.req /\ r.todo = q.todo /\ r.seen = q.seen
    BY <1>2, Turned
  <2>2. job' = [job EXCEPT ![j] = r]
    BY <1>5, <1>11 DEF GoTo
  <2> HIDE DEF r, q
  <2>3. JobOK(r, node', lab')
    BY <1>1, <1>2, <2>1 DEF JobOK, Building, OnConsole, Counting
  <2> QED BY <1>9, <2>1, <2>2, <2>3
<1>12. CASE ~last
  <2> DEFINE r == [q EXCEPT !.k = @ + 1, !.bad = @ \/ noted, !.late = late]
  <2>1. /\ IsJob(r) /\ r.pc = "write" /\ r.late = late /\ r.req = q.req /\ r.todo = q.todo /\ r.seen = q.seen /\ r.k = q.k + 1
    BY <1>1, <1>2 DEF IsJob, JobFields, Works
  <2>2. job' = [job EXCEPT ![j] = r]
    BY <1>5, <1>12
  <2>3. r.k \in 1 .. IF r.req.gateway THEN 4 ELSE 3
    <3> HIDE DEF q, r
    <3> QED BY <1>c, <1>12, <2>1
  <2>4. Node(j) = <<r.req.path, First(r.todo)>> /\ s = r.seen[First(r.todo)]
    BY <2>1 DEF Node, At, Seen
  <2>5. Kind[First(r.todo)] \in Ios /\ r.todo # {} /\ \A e \in r.todo : r.seen[e] # None
    <3> HIDE DEF r, q
    <3> QED BY <1>1, <1>2, <2>1 DEF JobOK
  <2> HIDE DEF r, q, s, n
  <2>6. JobOK(r, node', lab')
    BY <1>4, <1>7, <1>8, <1>l, <2>1, <2>3, <2>4, <2>5 DEF JobOK, Building, OnConsole, Counting
  <2> QED BY <1>9, <2>1, <2>2, <2>6
<1> QED BY <1>10, <1>11, <1>12

LEMMA FirewallEdited ==
    ASSUME LabInv, NEW j \in Jobs, job[j].pc \in OnConsole, Kind[At(j)] = "firewall", Up(j),
           NEW n \in NodeRows, n.port = node[Node(j)].port, node' = [node EXCEPT ![Node(j)] = n],
           UNCHANGED <<row, lab>>, NEW r, job' = [job EXCEPT ![j] = r], IsJob(r), r.req = job[j].req,
           JobOK(r, node', lab')
    PROVE  Sound
<1>1. /\ Works(job[j]) /\ At(j) \in Devices /\ Node(j) = <<PathOf(j), At(j)>> /\ node[Node(j)] # None
      /\ Kind[At(j)] \notin Ios
  BY AtHand DEF Up, Ios
<1> QED BY <1>1, NodeEdited, Zenon

LEMMA FirewallIs ==
    ASSUME LabInv, NEW j \in Jobs, job[j].pc \in {"configure", "commit", "revert"}
    PROVE  Kind[At(j)] = "firewall"
BY AtHand DEF JobOK, At, OnConsole

(* The candidate of a firewall is dropped, or becomes its configuration.          *)
LEMMA Dropped ==
    ASSUME NEW n \in NodeRows
    PROVE  LET m == [n EXCEPT !.candidate = NoCandidate] IN m \in NodeRows /\ m.port = n.port
<1>1. NoCandidate \in CandidateRows
  BY DEF NoCandidate, CandidateRows
<1> HIDE DEF NoCandidate
<1> QED BY <1>1 DEF NodeRows

LEMMA Relogged ==
    ASSUME NEW n \in NodeRows, NEW u \in SUBSET Logins, NEW c \in CandidateRows
    PROVE  LET m == [n EXCEPT !.users = u, !.candidate = c] IN m \in NodeRows /\ m.port = n.port
<1> DEFINE n1 == [n EXCEPT !.users = u]
           m == [n1 EXCEPT !.candidate = c]
<1>1. n1 \in NodeRows /\ n1.port = n.port
  BY DEF NodeRows
<1>2. m = [n EXCEPT !.users = u, !.candidate = c]
  OBVIOUS
<1> HIDE DEF n1
<1>3. m \in NodeRows /\ m.port = n.port
  BY <1>1 DEF NodeRows
<1> HIDE DEF m
<1> QED BY <1>2, <1>3

LEMMA CommittedIs ==
    ASSUME NEW n \in NodeRows
    PROVE  Committed(n) \in NodeRows /\ Committed(n).port = n.port
<1>1. /\ n.candidate.addr \in Nat \cup {None} /\ n.candidate.users \in SUBSET Logins
      /\ n.addr \in Nat \cup {None} /\ n.users \in SUBSET Logins
  BY DEF NodeRows, CandidateRows
<1> DEFINE a == IF n.candidate.addr = None THEN n.addr ELSE n.candidate.addr
           u == Override(n.users, n.candidate.users)
<1>2. a \in Nat \cup {None} /\ u \in SUBSET Logins /\ NoCandidate \in CandidateRows
  BY <1>1, Overridden DEF NoCandidate, CandidateRows
<1> DEFINE n1 == [n EXCEPT !.addr = a]
           m == [n1 EXCEPT !.users = u, !.candidate = NoCandidate]
<1>3. Committed(n) = m
  BY DEF Committed
<1> HIDE DEF a, u
<1>4. n1 \in NodeRows /\ n1.port = n.port
  BY <1>2 DEF NodeRows
<1> HIDE DEF n1
<1>5. m \in NodeRows /\ m.port = n1.port
  BY <1>2, <1>4, Relogged, Zenon
<1> HIDE DEF m
<1> QED BY <1>3, <1>4, <1>5

LEMMA EndsFirewall ==
    ASSUME LabInv, NEW j \in Jobs, job[j].pc \in OnConsole, Kind[At(j)] = "firewall", Up(j),
           NEW n \in NodeRows, n.port = node[Node(j)].port, node' = [node EXCEPT ![Node(j)] = n],
           UNCHANGED <<row, lab>>, NEW outcome, End(j, outcome)
    PROVE  Sound
<1> DEFINE r == Over(j, outcome)
<1>1. IsJob(r) /\ r.req = job[j].req /\ JobOK(r, node', lab')
  BY OverIs
<1>2. job' = [job EXCEPT ![j] = r]
  BY DEF End
<1> HIDE DEF r
<1> QED BY <1>1, <1>2, FirewallEdited

LEMMA Closes ==
    ASSUME LabInv, NEW j \in Jobs, Closed(j) \/ Revert(j), UNCHANGED lab
    PROVE  Sound
<1>1. job[j].pc \in OnConsole /\ UNCHANGED row
  BY DEF Closed, Revert, OnConsole
<1>2. PICK outcome : End(j, outcome)
  BY DEF Closed, Revert
<1>3. CASE UNCHANGED node
  BY <1>1, <1>2, <1>3, SessionEnds
<1>4. CASE node' # node
  <2> DEFINE n == node[Node(j)]
             m == [n EXCEPT !.candidate = NoCandidate]
  <2>1. /\ job[j].pc \in {"configure", "commit", "revert"} /\ Up(j) /\ node' = [node EXCEPT ![Node(j)] = m]
    BY <1>4 DEF Closed, Revert
  <2>2. n \in NodeRows
    BY <1>1, <2>1, AtHand DEF Up
  <2>3. m \in NodeRows /\ m.port = n.port
    BY <2>2, Dropped
  <2> HIDE DEF m
  <2> QED BY <1>1, <1>2, <2>1, <2>3, FirewallIs, EndsFirewall
<1> QED BY <1>3, <1>4

LEMMA LogsIn ==
    ASSUME LabInv, NEW j \in Jobs, Login(j), UNCHANGED lab
    PROVE  Sound
<1> DEFINE q == job[j]
           n == node[Node(j)]
<1>1. q.pc = "enter" /\ q.pc \in OnConsole /\ Kind[At(j)] = "firewall" /\ Up(j) /\ UNCHANGED row
  BY DEF Login, OnConsole
<1>2. /\ Works(q) /\ IsJob(q) /\ JobOK(q, node, lab) /\ n \in NodeRows /\ Seen(j) \in SeenRows
      /\ Node(j) \in Nodes
  BY <1>1, AtHand DEF Up
<1>3. CASE End(j, "error") /\ UNCHANGED node
  BY <1>1, <1>3, SessionEnds
<1>4. CASE ~(End(j, "error") /\ UNCHANGED node)
  <2>1. PICK forced, as :
          /\ forced \in BOOLEAN
          /\ node' = IF forced THEN [node EXCEPT ![Node(j)] = ChangedPassword(n, Seen(j).login)] ELSE node
          /\ job' = [job EXCEPT ![j].pc = "configure", ![j].as = as]
    BY <1>4 DEF Login
  <2> DEFINE m == IF forced THEN ChangedPassword(n, Seen(j).login) ELSE n
             r == [q EXCEPT !.pc = "configure", !.as = as]
  <2>2. m \in NodeRows /\ m.port = n.port
    <3>1. AsAdmin(Seen(j).login) \in Logins
      <4>1. Seen(j).login.pass \in Texts
        BY <1>2 DEF SeenRows, Logins
      <4> QED BY <4>1 DEF AsAdmin, Logins, Texts
    <3> DEFINE u == Override(n.users, {AsAdmin(Seen(j).login)})
               v == {l \in n.candidate.users : l.user # "admin"}
               c == [n.candidate EXCEPT !.users = v]
    <3>2. u \in SUBSET Logins /\ c \in CandidateRows
      BY <1>2, <3>1, Overridden DEF NodeRows, CandidateRows
    <3>3. ChangedPassword(n, Seen(j).login) = [n EXCEPT !.users = u, !.candidate = c]
      BY DEF ChangedPassword
    <3> HIDE DEF u, c, n
    <3> DEFINE new == [n EXCEPT !.users = u, !.candidate = c]
    <3>4. new \in NodeRows /\ new.port = n.port
      BY <1>2, <3>2, Relogged, Zenon
    <3> HIDE DEF new
    <3> QED BY <1>2, <3>3, <3>4 DEF new
  <2>3. node' = [node EXCEPT ![Node(j)] = m]
    BY <1>2, <2>1 DEF LabInv, ServerOK
  <2>4. /\ job' = [job EXCEPT ![j] = r]
        /\ IsJob(r) /\ r.pc = "configure" /\ r.req = q.req /\ r.todo = q.todo /\ r.seen = q.seen
    BY <1>2, <2>1 DEF IsJob, JobFields, Works
  <2> HIDE DEF r, m
  <2>5. JobOK(r, node', lab')
    BY <1>1, <1>2, <2>4 DEF JobOK, Building, OnConsole, Counting, At
  <2> QED BY <1>1, <2>2, <2>3, <2>4, <2>5, FirewallEdited
<1> QED BY <1>3, <1>4

LEMMA Configures ==
    ASSUME LabInv, NEW j \in Jobs, Configure(j), UNCHANGED lab
    PROVE  Sound
<1> DEFINE q == job[j]
           n == node[Node(j)]
           what == PlanSteps(j)[q.k].what
           e == Edited(what, n.candidate, Seen(j).ip, Seen(j).login)
<1>1. q.pc = "configure" /\ q.pc \in OnConsole /\ Up(j) /\ UNCHANGED row
  BY DEF Configure, OnConsole
<1>2. /\ Works(q) /\ IsJob(q) /\ JobOK(q, node, lab) /\ n \in NodeRows /\ Seen(j) \in SeenRows
      /\ Node(j) \in Nodes /\ Kind[At(j)] = "firewall"
  BY <1>1, AtHand, FirewallIs DEF Up
<1>p. PICK rejected \in BOOLEAN :
          /\ node' = IF rejected THEN node ELSE [node EXCEPT ![Node(j)].candidate = e]
          /\ job' = [job EXCEPT ![j].bad = @ \/ rejected,
                                ![j].k = IF q.k = Len(PlanSteps(j)) THEN 1 ELSE @ + 1,
                                ![j].pc = IF rejected /\ PlanSteps(j)[q.k].essential THEN "revert"
                                          ELSE IF q.k = Len(PlanSteps(j)) THEN "commit" ELSE @]
  BY DEF Configure
<1> DEFINE bad == q.bad \/ rejected
           k == IF q.k = Len(PlanSteps(j)) THEN 1 ELSE q.k + 1
           pc == IF rejected /\ PlanSteps(j)[q.k].essential THEN "revert"
                 ELSE IF q.k = Len(PlanSteps(j)) THEN "commit" ELSE q.pc
<1>3. /\ node' = IF rejected THEN node ELSE [node EXCEPT ![Node(j)].candidate = e]
      /\ job' = [job EXCEPT ![j] = [q EXCEPT !.bad = bad, !.k = k, !.pc = pc]]
      /\ pc \in {"revert", "commit", "configure"} /\ (pc = "commit" => k = 1)
  <2>1. pc \in {"revert", "commit", "configure"} /\ (pc = "commit" => k = 1)
    BY <1>1
  <2>2. job' = [job EXCEPT ![j] = [q EXCEPT !.bad = bad, !.k = k, !.pc = pc]]
    BY <1>p
  <2> QED BY <1>p, <2>1, <2>2
<1> HIDE DEF bad, k, pc
<1> DEFINE m == IF rejected THEN n ELSE [n EXCEPT !.candidate = e]
           r == [q EXCEPT !.bad = bad, !.k = k, !.pc = pc]
<1>4. e \in CandidateRows
  <2>1. /\ Seen(j).ip \in Nat \cup {None} /\ Seen(j).login \in Logins /\ AsAdmin(Seen(j).login) \in Logins
    <3>1. Seen(j).ip \in Nat \cup {None} /\ Seen(j).login \in Logins
      BY <1>2 DEF SeenRows
    <3>2. Seen(j).login.pass \in Texts
      BY <3>1 DEF Logins
    <3> QED BY <3>1, <3>2 DEF AsAdmin, Logins, Texts
  <2>2. PICK c \in CandidateRows : c = n.candidate
    BY <1>2 DEF NodeRows
  <2>3. c.users \in SUBSET Logins
    BY DEF CandidateRows
  <2> DEFINE u1 == Override(c.users, {Seen(j).login})
             u2 == Override(c.users, {AsAdmin(Seen(j).login)})
  <2>4. u1 \in SUBSET Logins /\ u2 \in SUBSET Logins
    BY <2>1, <2>3, Overridden
  <2>5. e \in {[c EXCEPT !.addr = Seen(j).ip], [c EXCEPT !.users = u1], [c EXCEPT !.users = u2], c}
    BY <2>2 DEF Edited
  <2> HIDE DEF u1, u2, e
  <2> QED BY <2>1, <2>4, <2>5 DEF CandidateRows
<1>5. m \in NodeRows /\ m.port = n.port
  <2> HIDE DEF n, e
  <2> QED BY <1>2, <1>4 DEF NodeRows
<1>6. node' = [node EXCEPT ![Node(j)] = m]
  BY <1>2, <1>3 DEF LabInv, ServerOK
<1>7. /\ job' = [job EXCEPT ![j] = r]
      /\ IsJob(r) /\ r.pc = pc /\ r.k = k /\ r.req = q.req /\ r.todo = q.todo /\ r.seen = q.seen
  BY <1>2, <1>3 DEF IsJob, JobFields, Works
<1> HIDE DEF r, m
<1>8. JobOK(r, node', lab')
  BY <1>1, <1>2, <1>3, <1>7 DEF JobOK, Building, OnConsole, Counting, At
<1> QED BY <1>1, <1>2, <1>5, <1>6, <1>7, <1>8, FirewallEdited

LEMMA Commits ==
    ASSUME LabInv, NEW j \in Jobs, Commit(j), UNCHANGED lab
    PROVE  Sound
<1> DEFINE q == job[j]
           n == node[Node(j)]
           m == Committed(n)
<1>1. q.pc = "commit" /\ q.pc \in OnConsole /\ Up(j) /\ UNCHANGED row
  BY DEF Commit, OnConsole
<1>2. /\ Works(q) /\ IsJob(q) /\ JobOK(q, node, lab) /\ n \in NodeRows /\ Kind[At(j)] = "firewall"
  BY <1>1, AtHand, FirewallIs DEF Up
<1>3. m \in NodeRows /\ m.port = n.port
  BY <1>2, CommittedIs
<1>4. ASSUME NEW pc \in {"verify", "revert"}, NEW nd
      PROVE  LET r == [q EXCEPT !.pc = pc] IN IsJob(r) /\ r.req = q.req /\ JobOK(r, nd, lab)
  <2> DEFINE r == [q EXCEPT !.pc = pc]
  <2>1. IsJob(r) /\ r.pc = pc /\ r.req = q.req /\ r.todo = q.todo /\ r.seen = q.seen
    BY <1>2, Turned
  <2> HIDE DEF r
  <2>2. JobOK(r, nd, lab)
    BY <1>1, <1>2, <2>1 DEF JobOK, Building, OnConsole, Counting, At
  <2> QED BY <2>1, <2>2 DEF r
<1>5. CASE node' = [node EXCEPT ![Node(j)] = m] /\ GoTo(j, "verify")
  <2> DEFINE r == [q EXCEPT !.pc = "verify"]
  <2>1. job' = [job EXCEPT ![j] = r]
    BY <1>5 DEF GoTo
  <2>2. IsJob(r) /\ r.req = q.req /\ JobOK(r, node', lab')
    BY <1>4
  <2> HIDE DEF r, m
  <2> QED BY <1>1, <1>2, <1>3, <1>5, <2>1, <2>2, FirewallEdited
<1>6. CASE UNCHANGED node /\ GoTo(j, "revert")
  BY <1>1, <1>2, <1>4, <1>6, JobTurns
<1>7. ASSUME NEW outcome, node' = [node EXCEPT ![Node(j)] = m], End(j, outcome) PROVE Sound
  BY <1>1, <1>2, <1>3, <1>7, EndsFirewall
<1> QED BY <1>5, <1>6, <1>7 DEF Commit

LEMMA StartsNode ==
    ASSUME LabInv, NEW j \in Jobs, StartNode(j)
    PROVE  Sound
<1> DEFINE q == job[j]
           d == NextToStart(j)
           a == <<PathOf(j), d>>
           n == node[a]
<1>1. /\ q.pc = "nodestart" /\ q.pc \notin Counting /\ Works(q) /\ IsJob(q) /\ JobOK(q, node, lab)
      /\ UNCHANGED <<row, lab>> /\ row' \in [Devices -> DeviceRows] /\ PathOf(j) \in Paths
  BY JobIs DEF StartNode, Counting, Works, LabInv, PathOf
<1>2. {"report", "plan", "nodestart"} \cap (Building \cup OnConsole) = {}
  BY DEF Building, OnConsole
<1>3. PICK r :
          /\ job' = [job EXCEPT ![j] = r]
          /\ DOMAIN r = JobFields /\ r.req = q.req /\ r.plan = q.plan /\ r.seen = q.seen /\ r.k = q.k
          /\ r.todo = q.todo \ {d} /\ r.pending \in {q.pending, q.pending \ {d}}
          /\ r.pc \in {"report", "plan", "nodestart"}
          /\ \/ UNCHANGED node
             \/ n # None /\ node' = [node EXCEPT ![a].power = "booting"]
  <2>1. DOMAIN q = JobFields
    BY <1>1 DEF IsJob
  <2>2. CASE /\ n # None
             /\ node' = [node EXCEPT ![a].power = "booting"]
             /\ job' = [job EXCEPT ![j].todo = q.todo \ {d},
                          ![j].pc = IF q.todo \ {d} = {} /\ q.pending = {} THEN "report"
                                    ELSE IF q.todo \ {d} = {} THEN "plan" ELSE "nodestart"]
    <3> DEFINE pc == IF q.todo \ {d} = {} /\ q.pending = {} THEN "report"
                     ELSE IF q.todo \ {d} = {} THEN "plan" ELSE "nodestart"
               r == [q EXCEPT !.todo = q.todo \ {d}, !.pc = pc]
    <3>1. pc \in {"report", "plan", "nodestart"}
      OBVIOUS
    <3> HIDE DEF d, a, n
    <3>2. job' = [job EXCEPT ![j] = r]
      BY <2>2
    <3> HIDE DEF pc, q
    <3>3. /\ DOMAIN r = JobFields /\ r.req = q.req /\ r.plan = q.plan /\ r.seen = q.seen /\ r.k = q.k
          /\ r.todo = q.todo \ {d} /\ r.pending = q.pending /\ r.pc = pc
      BY <2>1 DEF JobFields
    <3> HIDE DEF r
    <3> QED BY <2>2, <3>1, <3>2, <3>3
  <2>3. CASE /\ UNCHANGED node
             /\ job' = [job EXCEPT ![j].todo = q.todo \ {d}, ![j].pending = @ \ {d},
                          ![j].result[d] = IF d \in q.pending THEN "error" ELSE @,
                          ![j].pc = IF q.todo \ {d} = {} /\ q.pending \subseteq {d} THEN "report"
                                    ELSE IF q.todo \ {d} = {} THEN "plan" ELSE "nodestart"]
    <3> DEFINE pc == IF q.todo \ {d} = {} /\ q.pending \subseteq {d} THEN "report"
                     ELSE IF q.todo \ {d} = {} THEN "plan" ELSE "nodestart"
               r == [q EXCEPT !.todo = q.todo \ {d}, !.pending = @ \ {d},
                              !.result[d] = IF d \in q.pending THEN "error" ELSE @, !.pc = pc]
    <3>1. pc \in {"report", "plan", "nodestart"}
      OBVIOUS
    <3> HIDE DEF d, a, n
    <3>2. job' = [job EXCEPT ![j] = r]
      BY <2>3
    <3> HIDE DEF pc, q
    <3>3. /\ DOMAIN r = JobFields /\ r.req = q.req /\ r.plan = q.plan /\ r.seen = q.seen /\ r.k = q.k
          /\ r.todo = q.todo \ {d} /\ r.pending = q.pending \ {d} /\ r.pc = pc
      BY <2>1 DEF JobFields
    <3> HIDE DEF r
    <3> QED BY <2>3, <3>1, <3>2, <3>3
  <2> HIDE DEF d
  <2> QED BY <2>2, <2>3 DEF StartNode, d
<1>6. r.todo \in SUBSET Devices /\ r.pending \in SUBSET Devices
  BY <1>1, <1>3 DEF IsJob
<1> HIDE DEF d
<1>9. \A nd, lb : IsJob(r) /\ JobOK(r, nd, lb)
  BY <1>1, <1>2, <1>3, <1>6 DEF IsJob, JobOK, Building, OnConsole, Counting
<1>7. CASE UNCHANGED node
  BY <1>1, <1>3, <1>7, <1>9, JobTalks
<1>8. CASE n # None /\ node' = [node EXCEPT ![a].power = "booting"]
  <2>1. node' = node \/ d \in Devices
    BY <1>1, <1>8 DEF LabInv, ServerOK, Nodes
  <2>2. CASE d \in Devices
    <3> DEFINE m == [n EXCEPT !.power = "booting"]
    <3>1. a \in Nodes /\ n \in NodeRows
      BY <1>1, <1>8, <2>2 DEF LabInv, ServerOK, Nodes
    <3>2. m \in NodeRows /\ m.port = n.port /\ m.users = n.users /\ m.addr = n.addr
      BY <3>1 DEF NodeRows
    <3>3. node' = [node EXCEPT ![a] = m]
      BY <1>8
    <3>4. a = <<PathOf(j), d>> /\ n = node[a] /\ q = job[j]
      OBVIOUS
    <3>5. Works(job[j]) /\ node[a] # None /\ m.port = node[a].port /\ m \in NodeRows
      BY <1>1, <1>8, <3>2
    <3>6. \/ Kind[d] \notin Ios \/ job[j].req.overwrite \/ job[j].late
          \/ m.users = node[a].users /\ m.addr = node[a].addr
          \/ job[j].seen[d] # None /\ Agrees(node[a], job[j].seen[d])
      BY <3>2
    <3>7. IsJob(r) /\ (Works(r) => r.req = job[j].req /\ JobOK(r, node', lab'))
      BY <1>3, <1>9
    <3>8. job' = [job EXCEPT ![j] = r] /\ UNCHANGED <<row, lab>>
      BY <1>1, <1>3
    <3> HIDE DEF m, q, n, a
    <3> QED BY <2>2, <3>3, <3>4, <3>5, <3>6, <3>7, <3>8, NodeEdited, Zenon
  <2> QED BY <1>7, <2>1, <2>2
<1> QED BY <1>3, <1>7, <1>8

(* A job makes a lab, or builds in the one it was let into.                       *)
LEMMA OwnLab ==
    ASSUME LabInv, NEW j \in Jobs, Works(job[j]), NEW r, job' = [job EXCEPT ![j] = r], IsJob(r),
           Works(r) => r.req = job[j].req /\ JobOK(r, node', lab'),
           UNCHANGED row, ServerOK(node', lab'), NEW p, p = PathOf(j),
           lab[p] = None \/ job[j].pc \in Building,
           \A f \in Paths \ {p} :
               lab'[f] = lab[f] /\ \A d \in Devices : node'[<<f, d>>] = node[<<f, d>>],
           \A d \in Devices : node[<<p, d>>] # None /\ node'[<<p, d>>] # None =>
               node'[<<p, d>>].users = node[<<p, d>>].users /\ node'[<<p, d>>].addr = node[<<p, d>>].addr
    PROVE  Sound
<1>1. LabInv'
  BY JobMoves DEF PathOf, LabInv
<1>2. KeepsHandLabs
  BY DEF KeepsHandLabs, Inside
<1>3. LeavesAlone
  <2>1. \A k \in Jobs : job'[k] # job[k] => k = j
    BY JobIs
  <2> QED BY <2>1 DEF LeavesAlone, PathOf
<1> QED BY <1>1, <1>2, <1>3 DEF Sound

LEMMA BlankIs ==
    ASSUME NEW d \in Devices
    PROVE  Blank(d) \in NodeRows
<1>1. Factory \in Logins /\ NoCandidate \in CandidateRows
  BY DEF Factory, Logins, Texts, NoCandidate, CandidateRows
<1> DEFINE u == IF Kind[d] = "firewall" THEN {Factory} ELSE {}
           s == Kind[d] = "firewall"
           w == [i \in PortNumbers |-> None]
<1>2. u \in SUBSET Logins /\ s \in BOOLEAN
      /\ w \in [PortNumbers -> Networked \cup {CableOf(e, i) : e \in Devices, i \in PortNumbers}]
  BY <1>1 DEF Networked
<1>3. Blank(d) = [power |-> "off", console |-> "telnet", addr |-> None, users |-> u, ssh |-> s,
                  candidate |-> NoCandidate, port |-> w]
  BY DEF Blank
<1> HIDE DEF u, s, w
<1> QED BY <1>1, <1>2, <1>3 DEF NodeRows

LEMMA Builds ==
    ASSUME LabInv, NEW j \in Jobs, AddNode(j) \/ AddNetworks(j) \/ AddCables(j) \/ RollBack(j)
    PROVE  Sound
<1> DEFINE q == job[j]
           p == PathOf(j)
<1>1. /\ q.pc \in Building /\ Works(q) /\ IsJob(q) /\ JobOK(q, node, lab) /\ UNCHANGED row /\ p \in Paths
      /\ lab[p] # None
  <2>1. q.pc \in Building /\ Works(q) /\ UNCHANGED row
    BY DEF AddNode, AddNetworks, AddCables, RollBack, Building, Works
  <2>2. IsJob(q) /\ JobOK(q, node, lab) /\ p \in Paths
    BY <2>1, JobIs DEF PathOf
  <2> QED BY <2>1, <2>2 DEF JobOK, PathOf
<1>2. /\ node \in [Nodes -> NodeRows \cup {None}] /\ lab \in [Paths -> LabRows \cup {None}]
      /\ \A f \in Paths, d \in Devices : <<f, d>> \in Nodes
  BY DEF LabInv, ServerOK, Nodes
<1>3. ServerOK(node, lab) /\ lab[p] \in LabRows
  BY <1>1, <1>2 DEF LabInv
<1>4. CASE AddNode(j)
  <2> DEFINE d == First(q.todo)
             a == <<p, d>>
  <2>1. q.pc = "nodes" /\ d \in q.todo /\ d \in Devices /\ UNCHANGED lab
        /\ node' = [node EXCEPT ![a] = Blank(d)]
    BY <1>1, <1>4, LeastIsThere DEF AddNode, IsJob
  <2>2. node[a] = None /\ a \in Nodes
    BY <1>1, <1>2, <2>1 DEF JobOK, PathOf
  <2>3. Blank(d) \in NodeRows /\ Blank(d) # None
    BY <2>1, BlankIs, NodeAssumption
  <2>4. ServerOK(node', lab')
    BY <1>1, <1>2, <1>3, <2>1, <2>2, <2>3 DEF ServerOK
  <2> HIDE DEF d
  <2>5. ASSUME NEW r, job' = [job EXCEPT ![j] = r], IsJob(r),
               Works(r) => r.req = q.req /\ JobOK(r, node', lab')
        PROVE  Sound
    <3>1. \A f \in Paths \ {p} :
             lab'[f] = lab[f] /\ \A e \in Devices : node'[<<f, e>>] = node[<<f, e>>]
      BY <1>2, <2>1
    <3>2. \A e \in Devices : node[<<p, e>>] # None => node'[<<p, e>>] = node[<<p, e>>]
      BY <1>1, <1>2, <2>1, <2>2
    <3> HIDE DEF p, q
    <3> QED BY <1>1, <2>4, <2>5, <3>1, <3>2, OwnLab DEF p, q
  <2>6. CASE GoTo(j, "rollback")
    <3> DEFINE r == [q EXCEPT !.pc = "rollback"]
    <3>1. IsJob(r) /\ r.pc = "rollback" /\ r.req = q.req /\ r.k = q.k
      BY <1>1, Turned
    <3>2. job' = [job EXCEPT ![j] = r]
      BY <2>6 DEF GoTo
    <3> HIDE DEF r, q
    <3>3. JobOK(r, node', lab')
      BY <1>1, <2>1, <3>1 DEF JobOK, Building, OnConsole, Counting, PathOf, q
    <3> QED BY <2>5, <3>1, <3>2, <3>3
  <2>7. CASE ~GoTo(j, "rollback")
    <3> DEFINE told == [q.result EXCEPT ![d] = "created"]
               r == [q EXCEPT !.todo = q.todo \ {d}, !.result = told]
    <3>0. job' = [job EXCEPT ![j].todo = @ \ {d}, ![j].result[d] = "created"]
      BY <1>4, <2>7 DEF AddNode, d
    <3>1. job' = [job EXCEPT ![j] = r]
      BY <3>0
    <3>2. /\ DOMAIN r = JobFields /\ r.req = q.req /\ r.pc = q.pc /\ r.plan = q.plan /\ r.seen = q.seen
          /\ r.todo = q.todo \ {d} /\ r.pending = q.pending /\ r.k = q.k
      BY <1>1 DEF IsJob, JobFields
    <3>3. \A e \in q.todo \ {d} : node'[<<p, e>>] = None
      BY <1>1, <1>2, <2>1, <2>2 DEF JobOK, IsJob, PathOf
    <3> HIDE DEF r
    <3>4. IsJob(r)
      BY <1>1, <3>2 DEF IsJob, Works
    <3>5. JobOK(r, node', lab')
      BY <1>1, <2>1, <3>2, <3>3 DEF JobOK, Building, OnConsole, Counting, PathOf
    <3> QED BY <2>5, <3>1, <3>2, <3>4, <3>5
  <2> QED BY <2>6, <2>7
<1>5. CASE AddNetworks(j)
  <2> DEFINE l == [lab[p] EXCEPT !.nets = q.plan.networks]
             r == [q EXCEPT !.pc = "cables"]
  <2>2. q.plan.networks \in SUBSET Networked
    BY <1>1 DEF IsJob, Plans
  <2>3. l \in LabRows /\ l.owner = lab[p].owner /\ l # None
    BY <1>3, <2>2, LabAssumption DEF LabRows
  <2>4. IsJob(r) /\ r.pc = "cables" /\ r.req = q.req /\ r.k = q.k
    BY <1>1, Turned
  <2> HIDE DEF l, r
  <2>5. lab' = [lab EXCEPT ![p] = l] /\ UNCHANGED node /\ job' = [job EXCEPT ![j] = r]
    BY <1>5 DEF AddNetworks, GoTo, l, r
  <2>6. ServerOK(node', lab')
    BY <1>1, <1>2, <1>3, <2>3, <2>5 DEF ServerOK
  <2>7. JobOK(r, node', lab')
    BY <1>1, <1>2, <2>3, <2>4, <2>5 DEF JobOK, Building, OnConsole, Counting, PathOf
  <2>8. \A f \in Paths \ {p} : lab'[f] = lab[f]
    BY <1>2, <2>5
  <2> HIDE DEF p, q
  <2> QED BY <1>1, <2>4, <2>5, <2>6, <2>7, <2>8, OwnLab DEF p, q
<1>6. CASE AddCables(j)
  <2> DEFINE With(n, d) == [n EXCEPT !.port = CabledPorts(j, d)]
  <2>1. /\ UNCHANGED lab
        /\ node' = [n \in Nodes |-> IF n[1] = p /\ node[n] # None THEN With(node[n], n[2]) ELSE node[n]]
    BY <1>6 DEF AddCables
  <2>2. ASSUME NEW n \in NodeRows, NEW d \in Devices
        PROVE  With(n, d) \in NodeRows /\ With(n, d).users = n.users /\ With(n, d).addr = n.addr
    <3> DEFINE w == CabledPorts(j, d)
    <3>1. Cloud0 \in Networked
      BY DEF Networked, Cloud0
    <3>2. w \in [PortNumbers -> Networked \cup {CableOf(e, i) : e \in Devices, i \in PortNumbers}]
      BY <3>1 DEF CabledPorts
    <3>3. With(n, d) = [n EXCEPT !.port = w]
      OBVIOUS
    <3> HIDE DEF w, With
    <3> QED BY <3>2, <3>3 DEF NodeRows
  <2> HIDE DEF With
  <2>3. \A f \in Paths, d \in Devices :
            node'[<<f, d>>] = IF f = p /\ node[<<f, d>>] # None THEN With(node[<<f, d>>], d) ELSE node[<<f, d>>]
    BY <1>2, <2>1
  <2>4. \A f \in Paths, d \in Devices :
            /\ node'[<<f, d>>] \in NodeRows \cup {None}
            /\ node'[<<f, d>>] = None <=> node[<<f, d>>] = None
            /\ node[<<f, d>>] # None => /\ node'[<<f, d>>].users = node[<<f, d>>].users
                                        /\ node'[<<f, d>>].addr = node[<<f, d>>].addr
    <3> SUFFICES ASSUME NEW f \in Paths, NEW d \in Devices, f = p, node[<<f, d>>] # None
                 PROVE  /\ With(node[<<f, d>>], d) \in NodeRows
                        /\ With(node[<<f, d>>], d) # None
                        /\ With(node[<<f, d>>], d).users = node[<<f, d>>].users
                        /\ With(node[<<f, d>>], d).addr = node[<<f, d>>].addr
      BY <1>2, <2>3
    <3>1. node[<<f, d>>] \in NodeRows
      BY <1>2
    <3> QED BY <2>2, <3>1, NodeAssumption
  <2>5. node' \in [Nodes -> NodeRows \cup {None}]
    <3>1. \A n \in Nodes : \E f \in Paths, d \in Devices : n = <<f, d>>
      BY DEF Nodes
    <3>2. \A n \in Nodes : node'[n] \in NodeRows \cup {None}
      BY <2>4, <3>1
    <3> QED BY <2>1, <3>2
  <2>6. ServerOK(node', lab')
    BY <1>3, <2>1, <2>4, <2>5 DEF ServerOK
  <2>7. \A f \in Paths \ {p} :
             lab'[f] = lab[f] /\ \A e \in Devices : node'[<<f, e>>] = node[<<f, e>>]
    BY <2>1, <2>3
  <2>8. ASSUME NEW r, job' = [job EXCEPT ![j] = r], IsJob(r),
               Works(r) => r.req = q.req /\ JobOK(r, node', lab')
        PROVE  Sound
    <3>1. \A d \in Devices : node[<<p, d>>] # None =>
              node'[<<p, d>>].users = node[<<p, d>>].users /\ node'[<<p, d>>].addr = node[<<p, d>>].addr
      BY <1>1, <2>4
    <3> HIDE DEF p, q
    <3> QED BY <1>1, <2>6, <2>7, <2>8, <3>1, OwnLab DEF p, q
  <2>9. CASE GoTo(j, "address")
    <3> DEFINE r == [q EXCEPT !.pc = "address"]
    <3>1. IsJob(r) /\ r.pc = "address" /\ r.req = q.req /\ r.k = q.k
      BY <1>1, Turned
    <3>2. job' = [job EXCEPT ![j] = r]
      BY <2>9 DEF GoTo
    <3> HIDE DEF r, q
    <3>3. JobOK(r, node', lab')
      BY <1>1, <3>1 DEF JobOK, Building, OnConsole, Counting, q
    <3> QED BY <2>8, <3>1, <3>2, <3>3
  <2>10. CASE Finish(j, "done")
    <3> DEFINE r == [Gone EXCEPT !.status = "done", !.result = q.result]
    <3>1. IsJob(r) /\ ~Works(r)
      BY IdleIs DEF IsJob, Idle, Gone, JobFields, Works
    <3>2. job' = [job EXCEPT ![j] = r]
      BY <2>10 DEF Finish
    <3> HIDE DEF r
    <3> QED BY <2>8, <3>1, <3>2
  <2> QED BY <1>6, <2>9, <2>10 DEF AddCables
<1>7. CASE RollBack(j)
  <2> DEFINE r == [Gone EXCEPT !.status = "error", !.result = q.result]
  <2>1. IsJob(r) /\ ~Works(r)
    BY IdleIs DEF IsJob, Idle, Gone, JobFields, Works
  <2>2. job' = [job EXCEPT ![j] = r]
    BY <1>7 DEF Finish, RollBack
  <2> HIDE DEF r
  <2>3. CASE UNCHANGED <<lab, node>>
    BY <1>1, <2>1, <2>2, <2>3, JobTalks DEF LabInv
  <2>4. CASE /\ lab' = [lab EXCEPT ![p] = None]
             /\ node' = [n \in Nodes |-> IF n[1] = p THEN None ELSE node[n]]
    <3>1. \A f \in Paths, d \in Devices : node'[<<f, d>>] = IF f = p THEN None ELSE node[<<f, d>>]
      BY <1>2, <2>4
    <3>2. node' \in [Nodes -> NodeRows \cup {None}] /\ lab' \in [Paths -> LabRows \cup {None}]
      BY <1>2, <2>4
    <3>3. \A f \in Paths : lab'[f] = IF f = p THEN None ELSE lab[f]
      BY <1>2, <2>4
    <3>4. ServerOK(node', lab')
      BY <1>3, <3>1, <3>2, <3>3 DEF ServerOK
    <3> HIDE DEF p, q
    <3> QED BY <1>1, <2>1, <2>2, <3>1, <3>3, <3>4, OwnLab DEF p, q
  <2> QED BY <1>7, <2>3, <2>4 DEF RollBack
<1> QED BY <1>4, <1>5, <1>6, <1>7

LEMMA Creates ==
    ASSUME LabInv, NEW j \in Jobs, PostLab(j) \/ FactoryCreate(j)
    PROVE  Sound
<1> DEFINE q == job[j]
           p == PathOf(j)
<1>1. q.pc \in {"post", "again"} /\ Works(q) /\ IsJob(q) /\ JobOK(q, node, lab) /\ UNCHANGED <<row, node>>
      /\ p \in Paths /\ row' \in [Devices -> DeviceRows]
  <2>1. q.pc \in {"post", "again"} /\ UNCHANGED <<row, node>>
    BY DEF PostLab, FactoryCreate, Continue
  <2> QED BY <2>1, JobIs DEF Works, PathOf, LabInv
<1>2. ASSUME NEW pc \in {"open", "again"} PROVE LET r == [q EXCEPT !.pc = pc] IN
             /\ IsJob(r) /\ r.req = q.req
             /\ (pc = "open" => q.pc = "post") => \A nd, lb : JobOK(r, nd, lb)
  <2> DEFINE r == [q EXCEPT !.pc = pc]
  <2>1. IsJob(r) /\ r.pc = pc /\ r.req = q.req /\ r.k = q.k
    BY <1>1, Turned
  <2> HIDE DEF r
  <2>2. (pc = "open" => q.pc = "post") => \A nd, lb : JobOK(r, nd, lb)
    BY <1>1, <2>1 DEF JobOK, Building, OnConsole, Counting
  <2> QED BY <2>1, <2>2 DEF r
<1>3. CASE UNCHANGED lab /\ GoTo(j, "again")
  <2>1. JobOK([q EXCEPT !.pc = "again"], node, lab)
    BY <1>2
  <2> QED BY <1>1, <1>3, <2>1, JobTurns
<1>4. CASE UNCHANGED lab /\ lab[p] # None /\ q.pc = "again" /\ Opened(j)
  BY <1>1, <1>4, OpensIt
<1>5. CASE UNCHANGED lab /\ (\E status : Finish(j, status))
  BY <1>1, <1>5, JobEnds
<1>6. CASE UNCHANGED lab /\ q.pc = "again" /\ job' = [job EXCEPT ![j].k = 2]
  <2> DEFINE r == [q EXCEPT !.k = 2]
  <2>1. IsJob(r) /\ r.pc = "again" /\ r.req = q.req
    BY <1>1, <1>6 DEF IsJob, JobFields, Works
  <2>2. job' = [job EXCEPT ![j] = r]
    BY <1>6
  <2> HIDE DEF r
  <2>3. JobOK(r, node, lab)
    BY <2>1 DEF JobOK, Building, OnConsole, Counting
  <2> QED BY <1>1, <1>6, <2>1, <2>2, <2>3, JobTalks
<1>7. CASE lab[p] = None /\ CreateFile(p, j)
  <2> DEFINE l == [owner |-> j, nets |-> {}]
  <2>1. l \in LabRows /\ l # None
    BY LabAssumption DEF LabRows
  <2>2. lab' = [lab EXCEPT ![p] = l]
    BY <1>7 DEF CreateFile
  <2> HIDE DEF l
  <2>3. /\ ServerOK(node, lab)
        /\ node \in [Nodes -> NodeRows \cup {None}] /\ lab \in [Paths -> LabRows \cup {None}]
        /\ \A d \in Devices : node[<<p, d>>] = None
    BY <1>1, <1>7 DEF LabInv, ServerOK
  <2>4. ServerOK(node', lab') /\ lab'[p] = l /\ \A f \in Paths \ {p} : lab'[f] = lab[f]
    BY <1>1, <2>1, <2>2, <2>3 DEF ServerOK
  <2>5. ASSUME NEW r, job' = [job EXCEPT ![j] = r], IsJob(r),
               Works(r) => r.req = q.req /\ JobOK(r, node', lab')
        PROVE  Sound
    <3> HIDE DEF p, q
    <3> QED BY <1>1, <1>7, <2>3, <2>4, <2>5, OwnLab DEF p, q
  <2>6. CASE GoTo(j, "open") /\ q.pc = "post"
    <3> DEFINE r == [q EXCEPT !.pc = "open"]
    <3>1. job' = [job EXCEPT ![j] = r] /\ IsJob(r) /\ r.req = q.req /\ JobOK(r, node', lab')
      BY <1>2, <2>6 DEF GoTo
    <3> HIDE DEF r, q
    <3> QED BY <2>5, <3>1
  <2>7. CASE \E status : Finish(j, status)
    <3>1. PICK status : Finish(j, status)
      BY <2>7
    <3> DEFINE r == [Gone EXCEPT !.status = status, !.result = q.result]
    <3>2. IsJob(r) /\ ~Works(r)
      BY IdleIs DEF IsJob, Idle, Gone, JobFields, Works
    <3>3. job' = [job EXCEPT ![j] = r]
      BY <3>1 DEF Finish
    <3> HIDE DEF r
    <3> QED BY <2>5, <3>2, <3>3
  <2>8. CASE job' = [job EXCEPT ![j].pc = "nodes", ![j].todo = Exported, ![j].k = 1]
    <3> DEFINE r == [q EXCEPT !.pc = "nodes", !.todo = Exported, !.k = 1]
    <3>1. /\ DOMAIN r = JobFields /\ r.req = q.req /\ r.pc = "nodes" /\ r.plan = q.plan
          /\ r.todo = Exported /\ r.pending = q.pending /\ r.seen = q.seen /\ r.k = 1
      BY <1>1 DEF IsJob, JobFields
    <3>2. job' = [job EXCEPT ![j] = r] /\ Exported \in SUBSET Devices
      BY <2>8 DEF Exported
    <3> HIDE DEF r
    <3>3. IsJob(r)
      BY <1>1, <3>1, <3>2 DEF IsJob, Works
    <3>4. JobOK(r, node', lab')
      BY <1>1, <2>1, <2>3, <2>4, <3>1, <3>2 DEF JobOK, PathOf, Building, OnConsole, Counting
    <3> QED BY <2>5, <3>1, <3>2, <3>3, <3>4
  <2>9. lab' # lab
    BY <1>7, <2>1, <2>4
  <2> HIDE DEF p
  <2>10. CASE PostLab(j)
    <3>1. q.pc = "post" /\ (GoTo(j, "open") \/ Finish(j, "error"))
      BY <2>9, <2>10 DEF PostLab, Continue
    <3> HIDE DEF q
    <3> QED BY <2>6, <2>7, <3>1
  <2>11. CASE FactoryCreate(j)
    <3>1. \/ job' = [job EXCEPT ![j].pc = "nodes", ![j].todo = Exported, ![j].k = 1]
          \/ Finish(j, "error")
      BY <2>9, <2>11 DEF FactoryCreate
    <3> HIDE DEF q
    <3> QED BY <2>7, <2>8, <3>1
  <2> QED BY <2>10, <2>11
<1>8. CASE PostLab(j)
  <2>1. \/ lab[p] = None /\ CreateFile(p, j)
        \/ UNCHANGED lab /\ GoTo(j, "again")
    BY <1>8 DEF PostLab, Continue
  <2> QED BY <1>3, <1>7, <2>1
<1>9. CASE FactoryCreate(j)
  <2>1. q.pc = "again"
    BY <1>9 DEF FactoryCreate
  <2>2. \/ UNCHANGED lab /\ lab[p] # None /\ Opened(j)
        \/ lab[p] = None /\ CreateFile(p, j)
        \/ UNCHANGED lab /\ job' = [job EXCEPT ![j].k = 2]
        \/ UNCHANGED lab /\ Finish(j, "error")
    BY <1>9 DEF FactoryCreate
  <2> HIDE DEF p
  <2> QED BY <1>4, <1>5, <1>6, <1>7, <2>1, <2>2
<1> QED BY <1>8, <1>9

(* A job is started on a lab nobody works on; finished ones may be forgotten.    *)
LEMMA Starts ==
    ASSUME LabInv, NEW j \in Jobs, NEW asked \in Requests, NEW role, Alone(asked),
           StartExport(j, asked, role) \/ StartBootstrap(j, asked, role)
    PROVE  Sound
<1>1. PICK req \in Requests : req.path = FileOf(asked) /\ Start(j, req)
  <2>1. CASE StartBootstrap(j, asked, role)
    BY <2>1 DEF StartBootstrap, FileOf
  <2>2. CASE StartExport(j, asked, role)
    <3> DEFINE f == LabFileName[asked.name]
    <3>1. f \in Paths /\ Start(j, [asked EXCEPT !.path = f]) /\ f = FileOf(asked)
      BY <2>2, LabAssumption DEF StartExport, ValidName, Validated, Requests, FileOf
    <3> HIDE DEF f
    <3>2. [asked EXCEPT !.path = f] \in Requests /\ [asked EXCEPT !.path = f].path = f
      BY <3>1 DEF Requests
    <3> QED BY <3>1, <3>2
  <2> QED BY <2>1, <2>2
<1> DEFINE r == [Idle EXCEPT !.status = "queued", !.pc = "start", !.req = req]
<1>2. PICK old \in SUBSET Jobs :
          job' = [k \in Jobs |-> IF k = j THEN r ELSE IF k \in old THEN Gone ELSE job[k]]
  BY <1>1 DEF Start
<1>3. UNCHANGED <<row, node, lab>>
  BY <1>1 DEF Start
<1>4. IsJob(r) /\ r.req = req /\ \A nd, lb : JobOK(r, nd, lb)
  <2>1. /\ DOMAIN r = JobFields /\ r.req = req /\ r.pc = "start" /\ r.plan = Idle.plan /\ r.seen = Idle.seen
        /\ r.todo = Idle.todo /\ r.pending = Idle.pending /\ r.k = 1
    BY DEF Idle, JobFields
  <2> HIDE DEF r
  <2>2. IsJob(r)
    BY <1>1, <2>1, IdleIs DEF IsJob
  <2> QED BY <2>1, <2>2 DEF JobOK, Building, OnConsole, Counting
<1>5. IsJob(Gone) /\ ~Works(Gone)
  BY IdleIs DEF IsJob, Idle, Gone, JobFields, Works
<1> HIDE DEF r
<1>6. \A k \in Jobs : IsJob(job'[k]) /\ (Works(job'[k]) => JobOK(job'[k], node', lab'))
  <2> SUFFICES ASSUME NEW k \in Jobs PROVE IsJob(job'[k]) /\ (Works(job'[k]) => JobOK(job'[k], node, lab))
    BY <1>3
  <2> QED BY <1>2, <1>4, <1>5, JobIs
<1>7. ASSUME NEW k \in Jobs, k # j, Works(job'[k]) PROVE job'[k] = job[k] /\ job[k].req.path # req.path
  BY <1>1, <1>2, <1>5, <1>7 DEF Alone
<1>8. ASSUME NEW i \in Jobs, NEW k \in Jobs, i # k, Works(job'[i]), Works(job'[k])
      PROVE  job'[i].req.path # job'[k].req.path
  BY <1>2, <1>4, <1>7, <1>8 DEF LabInv, JobsOK
<1>9. JobsOK(job', node', lab')
  BY <1>2, <1>6, <1>8 DEF JobsOK
<1> QED BY <1>3, <1>9, Untouched DEF Sound, LabInv

(* What others do on the server while the jobs stand still.                     *)
LEMMA Elsewhere ==
    ASSUME LabInv, job' = job, row' \in [Devices -> DeviceRows], ServerOK(node', lab'),
           \A p \in Paths :
               \/ lab[p] = None
               \/ /\ lab'[p] = lab[p]
                  /\ \A d \in Devices :
                        /\ node'[<<p, d>>] = None <=> node[<<p, d>>] = None
                        /\ node[<<p, d>>] # None => /\ node'[<<p, d>>].users = node[<<p, d>>].users
                                                    /\ node'[<<p, d>>].addr = node[<<p, d>>].addr
                                                    /\ node'[<<p, d>>].port = node[<<p, d>>].port
    PROVE  Sound
<1>1. KeepsHandLabs /\ LeavesAlone
  BY DEF KeepsHandLabs, LeavesAlone
<1>2. ASSUME NEW k \in Jobs, Works(job[k]) PROVE JobOK(job[k], node', lab')
  <2> DEFINE q == job[k]  p == q.req.path
  <2>1. IsJob(q) /\ JobOK(q, node, lab) /\ p \in Paths /\ q.todo \in SUBSET Devices
    BY <1>2, JobIs DEF IsJob
  <2>2. q.todo # {} => First(q.todo) \in Devices
    BY <2>1, LeastIsThere
  <2>e. q.pc = "write" => First(q.todo) \in Devices
    BY <2>1, <2>2 DEF JobOK, OnConsole
  <2>f. q.pc = "nodes" => q.pc \in Building
    BY DEF Building
  <2> HIDE DEF q, p
  <2>3. ASSUME lab[p] = None PROVE JobOK(q, node', lab')
    <3>1. \A d \in Devices : node[<<p, d>>] = None
      BY <2>1, <2>3 DEF LabInv, ServerOK
    <3>2. q.pc \notin Building /\ (q.pc = "write" => q.req.overwrite \/ q.late)
      BY <2>1, <2>e, <2>3, <3>1 DEF JobOK, p
    <3> QED BY <2>1, <2>f, <3>2 DEF JobOK, p
  <2>4. ASSUME lab[p] # None PROVE JobOK(q, node', lab')
    <3>1. /\ lab'[p] = lab[p]
          /\ \A d \in Devices :
                /\ node'[<<p, d>>] = None <=> node[<<p, d>>] = None
                /\ node[<<p, d>>] # None => /\ node'[<<p, d>>].users = node[<<p, d>>].users
                                            /\ node'[<<p, d>>].addr = node[<<p, d>>].addr
      BY <2>1, <2>4
    <3>2. q.pc \in Building => lab'[p] # None
      BY <2>1, <3>1 DEF JobOK, p
    <3>3. q.pc = "nodes" => \A e \in q.todo : node'[<<p, e>>] = None
      BY <2>1, <3>1 DEF JobOK, p
    <3>4. q.pc = "write" /\ ~q.req.overwrite /\ ~q.late =>
              node'[<<p, First(q.todo)>>] # None /\ Agrees(node'[<<p, First(q.todo)>>], q.seen[First(q.todo)])
      BY <2>1, <2>e, <3>1 DEF JobOK, Agrees, p
    <3> QED BY <2>1, <3>2, <3>3, <3>4 DEF JobOK, p
  <2>5. JobOK(q, node', lab')
    BY <2>3, <2>4
  <2> QED BY <2>5 DEF q
<1>3. JobsOK(job', node', lab')
  BY <1>2 DEF LabInv, JobsOK
<1> QED BY <1>1, <1>3 DEF Sound, LabInv

LEMMA OthersWork ==
    ASSUME LabInv,
           \/ \E n \in Nodes : Boot(n)
           \/ \E p \in Paths, nodes \in HandLabs : HandCopy(p, nodes)
           \/ \E d \in Devices, ip \in Nat, login \in Logins : EditRow(d, ip, login)
           \/ \E req \in Requests : PreviewExport(req)
           \/ Forget
           \/ UNCHANGED labVars
    PROVE  Sound
<1>1. /\ node \in [Nodes -> NodeRows \cup {None}] /\ lab \in [Paths -> LabRows \cup {None}]
      /\ ServerOK(node, lab) /\ row \in [Devices -> DeviceRows]
      /\ \A f \in Paths, d \in Devices : <<f, d>> \in Nodes
  BY DEF LabInv, ServerOK, Nodes
<1>2. CASE UNCHANGED <<node, job, lab>> /\ row' \in [Devices -> DeviceRows]
  BY <1>1, <1>2, Elsewhere
<1>3. CASE \E d \in Devices, ip \in Nat, login \in Logins : EditRow(d, ip, login)
  <2>1. PICK d \in Devices, ip \in Nat, login \in Logins : EditRow(d, ip, login)
    BY <1>3
  <2>2. [row[d] EXCEPT !.ip = ip, !.login = login] \in DeviceRows
    BY <1>1 DEF DeviceRows
  <2>3. UNCHANGED <<node, job, lab>> /\ row' = [row EXCEPT ![d] = [row[d] EXCEPT !.ip = ip, !.login = login]]
    BY <2>1 DEF EditRow
  <2>4. row' \in [Devices -> DeviceRows]
    BY <1>1, <2>2, <2>3
  <2> QED BY <1>2, <2>3, <2>4
<1>4. CASE \E n \in Nodes : Boot(n)
  <2>1. PICK n \in Nodes : Boot(n)
    BY <1>4
  <2> DEFINE m == [node[n] EXCEPT !.power = "up"]
  <2>2. node[n] \in NodeRows /\ node' = [node EXCEPT ![n] = m] /\ UNCHANGED <<row, job, lab>>
    BY <1>1, <2>1 DEF Boot
  <2>3. m \in NodeRows /\ m.users = node[n].users /\ m.addr = node[n].addr /\ m.port = node[n].port
    BY <2>2 DEF NodeRows
  <2> HIDE DEF m
  <2>4. node' \in [Nodes -> NodeRows \cup {None}] /\ m # None /\ node[n] # None
    BY <1>1, <2>2, <2>3, NodeAssumption
  <2>5. \A f \in Paths, d \in Devices :
            /\ node'[<<f, d>>] = None <=> node[<<f, d>>] = None
            /\ node[<<f, d>>] # None => /\ node'[<<f, d>>].users = node[<<f, d>>].users
                                        /\ node'[<<f, d>>].addr = node[<<f, d>>].addr
                                        /\ node'[<<f, d>>].port = node[<<f, d>>].port
    BY <1>1, <2>2, <2>3, <2>4
  <2>6. ServerOK(node', lab')
    BY <1>1, <2>2, <2>4, <2>5 DEF ServerOK
  <2> QED BY <1>1, <2>2, <2>5, <2>6, Elsewhere
<1>5. CASE \E p \in Paths, nodes \in HandLabs : HandCopy(p, nodes)
  <2>1. PICK p \in Paths, nodes \in HandLabs : HandCopy(p, nodes)
    BY <1>5
  <2> DEFINE l == [owner |-> Hand, nets |-> {}]
  <2>2. /\ lab[p] = None /\ lab' = [lab EXCEPT ![p] = l] /\ UNCHANGED <<row, job>>
        /\ node' = [n \in Nodes |-> IF n[1] = p THEN nodes[n[2]] ELSE node[n]]
    BY <2>1 DEF HandCopy, CreateFile
  <2>3. l \in LabRows /\ l # None
    BY LabAssumption DEF LabRows
  <2> HIDE DEF l
  <2>4. nodes \in [Devices -> NodeRows \cup {None}]
    BY DEF HandLabs
  <2>5. \A f \in Paths, d \in Devices : node'[<<f, d>>] = IF f = p THEN nodes[d] ELSE node[<<f, d>>]
    BY <1>1, <2>2
  <2>6. \A f \in Paths : lab'[f] = IF f = p THEN l ELSE lab[f]
    BY <1>1, <2>2
  <2>7. lab' \in [Paths -> LabRows \cup {None}]
    BY <1>1, <2>2, <2>3
  <2>8. node' \in [Nodes -> NodeRows \cup {None}]
    <3>1. \A n \in Nodes : n[1] \in Paths /\ n[2] \in Devices
      BY DEF Nodes
    <3>2. \A n \in Nodes : (IF n[1] = p THEN nodes[n[2]] ELSE node[n]) \in NodeRows \cup {None}
      BY <1>1, <2>4, <3>1
    <3> QED BY <2>2, <3>2
  <2>9. ServerOK(node', lab')
    <3>1. ASSUME NEW f \in Paths, lab'[f] = None PROVE \A d \in Devices : node'[<<f, d>>] = None
      BY <1>1, <2>3, <2>5, <2>6, <3>1 DEF ServerOK
    <3> QED BY <2>7, <2>8, <3>1 DEF ServerOK
  <2> QED BY <1>1, <2>2, <2>5, <2>6, <2>9, Elsewhere
<1> QED BY <1>1, <1>2, <1>3, <1>4, <1>5 DEF PreviewExport, Forget, labVars

LEMMA Restarts ==
    ASSUME LabInv, Restart
    PROVE  Sound
<1>1. job' = [j \in Jobs |-> IF job[j].pc = "none" THEN job[j] ELSE Gone] /\ UNCHANGED <<row, node, lab>>
  BY DEF Restart
<1>2. IsJob(Gone) /\ ~Works(Gone)
  BY IdleIs DEF IsJob, Idle, Gone, JobFields, Works
<1>3. \A j \in Jobs : IsJob(job'[j]) /\ ~Works(job'[j])
  <2> SUFFICES ASSUME NEW j \in Jobs PROVE IsJob(job'[j]) /\ ~Works(job'[j])
    OBVIOUS
  <2>1. IsJob(job[j]) /\ (job[j].pc = "none" => ~Works(job[j]))
    BY JobIs DEF Works
  <2> QED BY <1>1, <1>2, <2>1
<1>4. JobsOK(job', node', lab')
  BY <1>1, <1>3 DEF JobsOK
<1> QED BY <1>1, <1>4, Untouched DEF Sound, LabInv

LEMMA JobSteps ==
    ASSUME LabInv, NEW j \in Jobs, JobStep(j)
    PROVE  Sound
<1>1. CASE Run(j) \/ CallFails(j) \/ LogIn(j) \/ CheckName(j)
  BY <1>1, CallsFail
<1>2. CASE PostLab(j) \/ FactoryCreate(j)
  BY <1>2, Creates
<1>3. CASE OpenLab(j) \/ BuildFails(j) \/ NodesAdded(j)
  BY <1>3, Opens
<1>4. CASE AddNode(j) \/ AddNetworks(j) \/ AddCables(j) \/ RollBack(j)
  BY <1>4, Builds
<1>5. CASE FindAddresses(j)
  BY <1>5, AddressesFound
<1>6. CASE Provision(j) \/ StoreLogins(j)
  BY <1>6, Provisions
<1>7. CASE StartNode(j)
  BY <1>7, StartsNode
<1>8. CASE RoundFails(j) \/ Report(j)
  BY <1>8, Reports
<1>9. CASE PlanRound(j) /\ UNCHANGED lab
  BY <1>9, PlansRound
<1>10. CASE (Wake(j) \/ Look(j) \/ BootTimeout(j)) /\ UNCHANGED lab
  BY <1>10, LooksAround
<1>11. CASE Write(j) /\ UNCHANGED lab
  BY <1>11, WritesIos
<1>12. CASE (Verify(j) \/ VerifyPanos(j)) /\ UNCHANGED lab
  BY <1>12, Verifies
<1>13. CASE Login(j) /\ UNCHANGED lab
  BY <1>13, LogsIn
<1>14. CASE Configure(j) /\ UNCHANGED lab
  BY <1>14, Configures
<1>15. CASE Commit(j) /\ UNCHANGED lab
  BY <1>15, Commits
<1>16. CASE (Closed(j) \/ Revert(j)) /\ UNCHANGED lab
  BY <1>16, Closes
<1>17. CASE Asks(j) /\ UNCHANGED lab
  BY <1>17, AsksAgain
<1> QED
  BY <1>1, <1>2, <1>3, <1>4, <1>5, <1>6, <1>7, <1>8, <1>9, <1>10, <1>11, <1>12, <1>13, <1>14, <1>15, <1>16, <1>17
     DEF JobStep, BuildStep, SessionStep

LEMMA LabSteps ==
    ASSUME LabInv, [LabNext]_labVars
    PROVE  Sound
<1>1. CASE \E j \in Jobs, req \in Requests, role \in {"owner", "editor"} :
               Alone(req) /\ (StartExport(j, req, role) \/ StartBootstrap(j, req, role))
  BY <1>1, Starts
<1>2. CASE \E j \in Jobs : JobStep(j)
  BY <1>2, JobSteps
<1>3. CASE Restart
  BY <1>3, Restarts
<1>4. CASE \/ \E n \in Nodes : Boot(n)
           \/ \E p \in Paths, nodes \in HandLabs : HandCopy(p, nodes)
           \/ \E d \in Devices, ip \in Nat, login \in Logins : EditRow(d, ip, login)
           \/ \E req \in Requests : PreviewExport(req)
           \/ Forget
           \/ UNCHANGED labVars
  BY <1>4, OthersWork
<1> QED BY <1>1, <1>2, <1>3, <1>4 DEF LabNext

(* A job gets into a lab that was not there, or in which nothing was.             *)
LEMMA Enters ==
    ASSUME LabInv, NEW j \in Jobs, JobStep(j), job[j].pc \notin Building, job'[j].pc \in Building
    PROVE  /\ job'[j].req = job[j].req
           /\ lab[PathOf(j)] = None \/ Empty(PathOf(j))
<1>1. DOMAIN job[j] = JobFields /\ job = [k \in Jobs |-> job[k]]
  BY JobIs DEF IsJob
<1>2. ASSUME NEW pc, pc \notin Building, job'[j].pc = pc PROVE FALSE
  BY <1>2
<1>3. ASSUME NEW status, Finish(j, status) PROVE FALSE
  BY <1>1, <1>3 DEF Finish, Gone, Idle, Building
<1>4. ASSUME NEW outcome, End(j, outcome) PROVE FALSE
  BY <1>1, <1>4 DEF End, Over, JobFields, Building
<1>5. ASSUME NEW pc, GoTo(j, pc) PROVE pc \in Building
  BY <1>1, <1>5 DEF GoTo, JobFields
<1>6. CASE Run(j) \/ LogIn(j)
  BY <1>1, <1>6 DEF Run, LogIn, JobFields, Building
<1>7. CASE CallFails(j) \/ CheckName(j) \/ RoundFails(j) \/ Report(j)
  BY <1>1, <1>3, <1>5, <1>7 DEF CallFails, CheckName, Continue, RoundFails, Report, JobFields, Building
<1>8. CASE PostLab(j)
  BY <1>3, <1>5, <1>8 DEF PostLab, Continue, Building
<1>9. ASSUME Opened(j) PROVE job'[j].req = job[j].req /\ Empty(PathOf(j))
  BY <1>1, <1>3, <1>9 DEF Opened, JobFields
<1>10. CASE OpenLab(j)
  BY <1>5, <1>9, <1>10 DEF OpenLab, Continue, Building
<1>11. CASE FactoryCreate(j)
  BY <1>1, <1>3, <1>9, <1>11 DEF FactoryCreate, JobFields, Building
<1>12. CASE BuildFails(j) \/ AddNode(j) \/ NodesAdded(j) \/ AddNetworks(j) \/ AddCables(j) \/ RollBack(j)
  BY <1>12 DEF BuildFails, AddNode, NodesAdded, AddNetworks, AddCables, RollBack, Building
<1>13. CASE FindAddresses(j)
  BY <1>1, <1>13 DEF FindAddresses, JobFields, Building
<1>14. CASE Provision(j)
  BY <1>1, <1>14 DEF Provision, JobFields, Building
<1>15. CASE StoreLogins(j)
  BY <1>1, <1>15 DEF StoreLogins, JobFields, Building
<1>16. CASE StartNode(j)
  BY <1>1, <1>16 DEF StartNode, JobFields, Building
<1>17. CASE PlanRound(j)
  BY <1>1, <1>17 DEF PlanRound, JobFields, Building
<1>18. CASE BootTimeout(j) \/ Closed(j) \/ Revert(j)
  BY <1>4, <1>18 DEF BootTimeout, Closed, Revert
<1>19. CASE Wake(j) \/ Look(j)
  <2>1. ASSUME NEW pc \in {"look", "write"}, NEW late, job' = [job EXCEPT ![j].pc = pc, ![j].late = late]
        PROVE  FALSE
    BY <1>1, <2>1 DEF JobFields, Building
  <2> QED BY <1>4, <1>19, <2>1 DEF Wake, Look
<1>20. CASE Write(j)
  BY <1>1, <1>4, <1>5, <1>20 DEF Write, JobFields, Building
<1>21. CASE Asks(j)
  BY <1>1, <1>21 DEF Asks, JobFields, Building
<1>22. CASE Verify(j) \/ VerifyPanos(j)
  <2>1. PICK after, ok : job' = [job EXCEPT ![j] = Verified(j, after, ok)]
    BY <1>22 DEF Verify, VerifyPanos
  <2> DEFINE o == Over(j, IF ok THEN "ok" ELSE "configured")
  <2>2. o.pc \in {"report", "enter"} /\ "pc" \in DOMAIN o
    BY <1>1 DEF Over, JobFields
  <2> HIDE DEF o
  <2>3. Verified(j, after, ok).pc = o.pc
    BY <2>2 DEF Verified, o
  <2> QED BY <1>1, <2>1, <2>2, <2>3 DEF Building
<1>23. CASE Login(j)
  BY <1>1, <1>4, <1>23 DEF Login, JobFields, Building
<1>24. CASE Configure(j)
  BY <1>1, <1>24 DEF Configure, JobFields, Building
<1>25. CASE Commit(j)
  BY <1>4, <1>5, <1>25 DEF Commit, Building
<1> QED BY <1>6, <1>7, <1>8, <1>10, <1>11, <1>12, <1>13, <1>14, <1>15, <1>16, <1>17, <1>18,
        <1>19, <1>20, <1>21, <1>22, <1>23, <1>24, <1>25 DEF JobStep, BuildStep, SessionStep

LEMMA BuilderStays ==
    ASSUME LabInv, NEW j \in Jobs, JobStep(j), job[j].pc \in Building, job'[j].pc \in Building
    PROVE  job'[j].req = job[j].req
<1>1. DOMAIN job[j] = JobFields /\ job = [k \in Jobs |-> job[k]]
  BY JobIs DEF IsJob
<1>2. AddNode(j) \/ BuildFails(j) \/ NodesAdded(j) \/ AddNetworks(j) \/ AddCables(j) \/ RollBack(j)
  BY DEF JobStep, BuildStep, SessionStep, Run, CallFails, LogIn, CheckName, PostLab,
         OpenLab, FactoryCreate, FindAddresses, Provision, StoreLogins, StartNode, RoundFails, Report,
         PlanRound, Wake, Look, Write, Asks, Verify, Login, BootTimeout, Configure, Commit, Revert,
         VerifyPanos, Closed, Building
<1>3. ASSUME NEW status, Finish(j, status) PROVE FALSE
  BY <1>1, <1>3 DEF Finish, Gone, Idle, Building
<1> QED BY <1>1, <1>2, <1>3 DEF AddNode, BuildFails, NodesAdded, AddNetworks, AddCables, RollBack, GoTo,
           Continue, JobFields

LEMMA NobodyElseMoves ==
    ASSUME LabInv, NEW j \in Jobs, JobStep(j), NEW k \in Jobs, k # j
    PROVE  job'[k] = job[k]
<1>1. job = [i \in Jobs |-> job[i]]
  BY JobIs
<1>2. ASSUME NEW r, job' = [job EXCEPT ![j] = r] PROVE job'[k] = job[k]
  BY <1>1, <1>2
<1> QED BY <1>1, <1>2 DEF JobStep, BuildStep, SessionStep, Run, CallFails, LogIn, CheckName, PostLab,
           OpenLab, Opened, FactoryCreate, BuildFails, AddNode, NodesAdded, AddNetworks, AddCables,
           RollBack, FindAddresses, Provision, StoreLogins, StartNode, RoundFails, Report, PlanRound,
           Wake, Look, Write, Asks, Verify, Login, BootTimeout, Configure, Commit, Revert,
           VerifyPanos, Closed, Finish, GoTo, End, Continue

LEMMA Outside ==
    ASSUME LabInv, [LabNext]_labVars
    PROVE  StaysOutside
<1>1. ASSUME \A k \in Jobs : job'[k] = job[k] \/ job'[k].pc \notin Building PROVE StaysOutside
  BY <1>1 DEF StaysOutside, Inside, PathOf
<1>2. CASE \E j \in Jobs : JobStep(j)
  <2>1. PICK j \in Jobs : JobStep(j)
    BY <1>2
  <2>2. \A k \in Jobs \ {j} : job'[k] = job[k]
    BY <2>1, NobodyElseMoves
  <2>3. CASE job'[j].pc \notin Building
    BY <1>1, <2>2, <2>3
  <2>4. CASE job'[j].pc \in Building /\ job[j].pc \notin Building
    <3>1. job'[j].req = job[j].req /\ (lab[PathOf(j)] = None \/ Empty(PathOf(j)))
      BY <2>1, <2>4, Enters
    <3> QED BY <2>2, <3>1 DEF StaysOutside, Inside, PathOf
  <2>5. CASE job'[j].pc \in Building /\ job[j].pc \in Building
    <3>1. job'[j].req = job[j].req
      BY <2>1, <2>5, BuilderStays
    <3> QED BY <2>2, <2>5, <3>1 DEF StaysOutside, Inside, PathOf
  <2> QED BY <2>3, <2>4, <2>5
<1>3. CASE \E j \in Jobs, req \in Requests, role \in {"owner", "editor"} :
               Alone(req) /\ (StartExport(j, req, role) \/ StartBootstrap(j, req, role))
  <2>1. PICK j \in Jobs : \E req : Start(j, req)
    BY <1>3 DEF StartExport, StartBootstrap
  <2>p. PICK req : Start(j, req)
    BY <2>1
  <2>2. PICK old : job' = [k \in Jobs |-> IF k = j THEN [Idle EXCEPT !.status = "queued", !.pc = "start", !.req = req]
                                         ELSE IF k \in old THEN Gone ELSE job[k]]
    BY <2>p DEF Start
  <2>3. /\ [Idle EXCEPT !.status = "queued", !.pc = "start", !.req = req].pc = "start"
        /\ Gone.pc = "ended"
    BY DEF Gone, Idle
  <2> QED BY <1>1, <2>2, <2>3 DEF Building
<1>4. CASE Restart
  BY <1>1, <1>4 DEF Restart, Gone, Idle, Building
<1>5. CASE UNCHANGED job
  BY <1>1, <1>5
<1> QED BY <1>2, <1>3, <1>4, <1>5 DEF LabNext, PreviewExport, Forget, Boot, HandCopy, EditRow, labVars

(* In every state each job holds what its stage needs: the lab it builds in and    *)
(* would roll back is there, the nodes it is to add are not, a session has a        *)
(* device, of its kind, and what it captured for it, and an IOS node it writes to    *)
(* carries no login and no address but those, unless it was told to overwrite or    *)
(* the console answers late.                                                     *)
THEOREM LabInvariant == LabSpec => []LabInv
<1>1. ASSUME LabInit, row \in [Devices -> DeviceRows] PROVE LabInv
  <2>1. IsJob(Idle) /\ ~Works(Idle)
    BY IdleIs DEF Idle, Works
  <2>2. job = [j \in Jobs |-> Idle] /\ node = [n \in Nodes |-> None] /\ lab = [p \in Paths |-> None]
    BY <1>1 DEF LabInit
  <2> HIDE DEF Idle
  <2>3. JobsOK(job, node, lab)
    BY <2>1, <2>2 DEF JobsOK
  <2>4. ServerOK(node, lab)
    BY <2>2 DEF ServerOK, Nodes
  <2> QED BY <1>1, <2>3, <2>4 DEF LabInv
<1>2. LabInv /\ [LabNext]_labVars => LabInv'
  BY LabSteps DEF Sound
<1> QED BY <1>1, <1>2, PTL DEF LabSpec

(* Exporting to PNETLab and bringing a lab up, with calls lost, refused and rolled *)
(* back, never delete, rebuild or recable a lab that somebody made on the server    *)
(* and that something is in when the export opens it.                             *)
THEOREM HandLabsKept == LabSpec => HandLabKept
<1>1. LabInv /\ [LabNext]_labVars => [StaysOutside /\ KeepsHandLabs]_labVars
  BY LabSteps, Outside DEF Sound
<1> DEFINE Kept ==
      \A p \in Paths : lab[p] # None /\ lab[p].owner = Hand /\ ~Empty(p) /\ ~Inside(p) =>
          /\ ~Inside(p)'
          /\ lab'[p] = lab[p]
          /\ \A d \in Devices :
                IF node[<<p, d>>] = None THEN node'[<<p, d>>] = None
                ELSE node'[<<p, d>>] # None /\ node'[<<p, d>>].port = node[<<p, d>>].port
<1>2. LabInv /\ [LabNext]_labVars => [Kept]_labVars
  BY <1>1 DEF KeepsHandLabs, StaysOutside
<1> QED BY <1>2, LabInvariant, PTL DEF LabSpec, HandLabKept

(* A console job that was not told to overwrite changes no login and no address of *)
(* an IOS node that carries others than the ones it captured, in whatever round,    *)
(* as long as the console of that session answered everything in time.             *)
THEOREM OthersLeftAlone == LabSpec => LeftAlone
<1>1. LabInv /\ [LabNext]_labVars => [LeavesAlone]_labVars
  BY LabSteps DEF Sound
<1> QED BY <1>1, LabInvariant, PTL DEF LabSpec, LeftAlone, LeavesAlone
=============================================================================
