------------------------------ MODULE Monitoring ------------------------------
(***************************************************************************)
(* What the backend reads from devices and what the page sees of it: the      *)
(* periodic sweep and the refresh of one device (monitoring/service.py and    *)
(* scheduler.py), read-only commands (commands/service.py), the test of a      *)
(* connection (devices/service.py), and the stream that tells a page that      *)
(* something changed (realtime).                                            *)
(*                                                                         *)
(* A client is built before anything is sent.  SSH itself is module SshSession; *)
(* here it answers or fails.  Row ids come back (Inventory), so a device has    *)
(* a serial number that the program does not have.                            *)
(***************************************************************************)
EXTENDS Integers, FiniteSets

CONSTANTS Absent,       \* no value
          Watched,      \* ids of the project's devices
          MaxSweeps,    \* bound: polling cycles
          MaxReads,     \* bound: requests that read a device
          MaxEdits,     \* bound: devices deleted or made meanwhile
          Streams,      \* requests to /events
          MaxStreams    \* REALTIME_MAX_STREAMS
ASSUME MonitoringAssumption ==
    /\ Watched \subseteq Nat /\ IsFiniteSet(Watched)
    /\ MaxSweeps \in Nat /\ MaxReads \in Nat /\ MaxEdits \in Nat /\ MaxStreams \in Nat

VARIABLES managed,   \* id -> [uid, deployable, enabled, cred, status], or Absent
          sweep,     \* the polling job: [pc, ready, todo, got, saved, failed]
          reading,   \* a request that reads a device: [pc, kind, dev, was, result]
          snapshot,  \* id -> status of its latest snapshot, or Absent
          execution, \* rows of command_executions, [dev, status]
          stream,    \* request -> [pc, last]
          open,      \* _open_streams
          used       \* how much of each bound is used

monVars == <<managed, sweep, reading, snapshot, execution, stream, open, used>>
rows == <<managed, snapshot, execution>>
pages == <<stream, open>>

Present == {d \in Watched : managed[d] # Absent}
Use(what, max) == used[what] < max /\ used' = [used EXCEPT ![what] = @ + 1]

(* set_device_status and _save, whose snapshot is in the same commit *)
SetStatus(d, status) == managed' = [managed EXCEPT ![d].status = status]
Save(d, status) ==
    /\ SetStatus(d, status)
    /\ snapshot' = [snapshot EXCEPT ![d] = status]
    /\ UNCHANGED execution

(* The save of a device whose row is gone: what was read of it changes nothing if it  *)
(* was offline before, so there is nothing to update and the snapshot is stored for   *)
(* an id nobody has.  Otherwise the update finds no row and raises.                *)
Orphaned(was, status) == was = "offline" /\ status = "offline"
SaveOrphan(d) ==
    /\ snapshot' = [snapshot EXCEPT ![d] = "offline"]
    /\ UNCHANGED <<managed, execution>>

(* build_client_for_device: a deployable device with a login *)
Connectable(d) == managed[d].deployable /\ managed[d].cred

----------------------------------------------------------------------------
(* The polling job: max_instances=1, so a sweep starts when the one before it has  *)
(* ended.                                                                       *)

Resting == [pc |-> "rest", ready |-> {}, todo |-> {}, got |-> [d \in Watched |-> Absent],
            saved |-> {}, failed |-> {}]
(* a device without a login is skipped *)
Prepared == {d \in Present : managed[d].enabled /\ Connectable(d)}

BeginSweep ==
    /\ sweep.pc = "rest" /\ Use("sweeps", MaxSweeps)
    /\ sweep' = [Resting EXCEPT !.pc = "collect", !.todo = Prepared,
                                !.ready = {[dev |-> d, was |-> managed[d].status] : d \in Prepared}]
    /\ UNCHANGED <<rows, reading, pages>>
(* one worker thread is done with its device: every command was answered, or not *)
Collect(d) ==
    /\ sweep.pc = "collect" /\ d \in sweep.todo
    /\ \E status \in {"online", "offline"} :
          sweep' = [sweep EXCEPT !.todo = @ \ {d}, !.got[d] = status]
    /\ UNCHANGED <<rows, reading, pages, used>>
AllCollected ==
    /\ sweep.pc = "collect" /\ sweep.todo = {}
    /\ sweep' = [sweep EXCEPT !.pc = "save", !.todo = {r.dev : r \in sweep.ready}]
    /\ UNCHANGED <<rows, reading, pages, used>>
(* The results are saved in id order, to whatever row has the id by then.  A commit  *)
(* that fails is rolled back and costs only its device.  The handler reads the      *)
(* device's name before it rolls back, so a row that is gone or a flush that fails  *)
(* raises once more, out of the loop; a row not read since may be found gone only    *)
(* by the update.                                                               *)
FirstOf(S) == CHOOSE d \in S : \A e \in S : d <= e
\* A commit that fails ends the job.
EndJob(d) == sweep' = [sweep EXCEPT !.todo = {}, !.failed = @ \cup {d}]
SkipDevice(d) == sweep' = [sweep EXCEPT !.todo = @ \ {d}, !.failed = @ \cup {d}]
DeviceSaved(d) == sweep' = [sweep EXCEPT !.todo = @ \ {d}, !.saved = @ \cup {d}]
RaiseOut == sweep' = [sweep EXCEPT !.pc = "raised"] /\ UNCHANGED rows
SaveNext ==
    LET d == FirstOf(sweep.todo) IN
    /\ sweep.pc = "save" /\ sweep.todo # {}
    /\ \/ d \in Present /\ Save(d, sweep.got[d]) /\ DeviceSaved(d)
       \/ d \in Present /\ SkipDevice(d) /\ UNCHANGED rows
       \/ /\ d \notin Present /\ \E r \in sweep.ready : r.dev = d /\ Orphaned(r.was, sweep.got[d])
          /\ SaveOrphan(d) /\ DeviceSaved(d)
       \/ RaiseOut
    /\ UNCHANGED <<reading, pages, used>>
(* the sweep's end, or run_poll's except *)
EndSweep ==
    /\ sweep.pc = "raised" \/ (sweep.pc = "save" /\ sweep.todo = {})
    /\ sweep' = Resting
    /\ UNCHANGED <<rows, reading, pages, used>>
SweepStep == (\E d \in Watched : Collect(d)) \/ AllCollected \/ SaveNext \/ EndSweep

----------------------------------------------------------------------------
(* A request that reads one device: poll_device, execute_readonly and               *)
(* check_reachability                                                            *)

Reads == {"refresh", "command", "test"}
NoRead == [pc |-> "none", kind |-> "none", dev |-> 0, was |-> "none", result |-> "none"]

(* A device that cannot be connected to is refused before any SSH; only the test    *)
(* writes that down as offline.                                                  *)
AskRead(kind, d) ==
    /\ reading.pc = "none" /\ d \in Present /\ Use("reads", MaxReads)
    /\ IF Connectable(d)
       THEN /\ reading' = [pc |-> "ssh", kind |-> kind, dev |-> d, was |-> managed[d].status,
                           result |-> "none"]
            /\ UNCHANGED managed
       ELSE /\ IF kind = "test" THEN SetStatus(d, "offline") ELSE UNCHANGED managed
            /\ UNCHANGED reading
    /\ UNCHANGED <<sweep, snapshot, execution, pages>>
Record(d, status) == execution' = execution \cup {[dev |-> d, status |-> status]}
(* a command the read-only policy does not allow is recorded and not sent *)
BlockCommand(d) ==
    /\ reading.pc = "none" /\ d \in Present /\ managed[d].deployable /\ Use("reads", MaxReads)
    /\ Record(d, "blocked")
    /\ UNCHANGED <<managed, sweep, reading, snapshot, pages>>
SshAnswers ==
    /\ reading.pc = "ssh"
    /\ \E result \in {"online", "offline"} : reading' = [reading EXCEPT !.pc = "write", !.result = result]
    /\ UNCHANGED <<rows, sweep, pages, used>>
(* Without its row a request fails, or stores an orphan; a failed command is        *)
(* recorded before that.                                                        *)
WriteRead ==
    LET d == reading.dev IN
    /\ reading.pc = "write"
    /\ reading' = NoRead
    /\ \/ reading.kind = "refresh" /\ d \in Present /\ Save(d, reading.result)
       \/ /\ reading.kind = "test" /\ d \in Present
          /\ SetStatus(d, reading.result) /\ UNCHANGED <<snapshot, execution>>
       \/ /\ reading.kind = "command" /\ d \in Present
          /\ SetStatus(d, reading.result)
          /\ Record(d, IF reading.result = "online" THEN "success" ELSE "failed")
          /\ UNCHANGED snapshot
       \/ /\ d \notin Present /\ reading.kind = "refresh"
          /\ Orphaned(reading.was, reading.result)
          /\ SaveOrphan(d)
       \/ /\ d \notin Present
          /\ ~(reading.kind = "refresh" /\ Orphaned(reading.was, reading.result))
          /\ IF reading.kind = "command" /\ reading.result = "offline" THEN Record(d, "failed")
             ELSE UNCHANGED execution
          /\ UNCHANGED <<managed, snapshot>>
    /\ UNCHANGED <<sweep, pages, used>>
ReadStep == SshAnswers \/ WriteRead

(* Others delete a device, with its snapshots, and make one in its place *)
MakeDevice(d, new) ==
    /\ managed[d] = Absent /\ Use("edits", MaxEdits)
    /\ managed' = [managed EXCEPT ![d] = [new EXCEPT !.uid = used["edits"] + Cardinality(Watched)]]
    /\ UNCHANGED <<sweep, reading, snapshot, execution, pages>>
DropDevice(d) ==
    /\ d \in Present /\ Use("edits", MaxEdits)
    /\ managed' = [managed EXCEPT ![d] = Absent]
    /\ snapshot' = [snapshot EXCEPT ![d] = Absent]
    /\ execution' = {x \in execution : x.dev # d}
    /\ UNCHANGED <<sweep, reading, pages>>

----------------------------------------------------------------------------
(* The stream.  A page that is gone is noticed when something is sent to it; one    *)
(* that is gone before the generator runs keeps its place for ever.                 *)

(* project_state: a fingerprint of what the page shows, here of the devices *)
ProjectState == {<<d, managed[d].uid, managed[d].status>> : d \in Present}

ConnectStream(s) ==
    /\ stream[s].pc = "none"
    /\ IF open < MaxStreams
       THEN open' = open + 1 /\ stream' = [stream EXCEPT ![s].pc = "begun"]
       ELSE open' = open /\ stream' = [stream EXCEPT ![s].pc = "refused"]
    /\ UNCHANGED <<rows, sweep, reading, used>>
\* The fingerprint is taken once, when the stream starts.
TellOnce(s) == stream[s].pc = "begun"
News(s) == stream[s].pc = "begun" \/ (stream[s].pc = "on" /\ stream[s].last # ProjectState)
TellState(s) ==
    /\ News(s)
    /\ stream' = [stream EXCEPT ![s] = [pc |-> "on", last |-> ProjectState]]
    /\ UNCHANGED <<rows, sweep, reading, open, used>>
(* "bye" after REALTIME_MAX_SECONDS, or the end of a page that is gone *)
CloseStream(s) ==
    /\ stream[s].pc \in {"on", "gone"}
    /\ stream' = [stream EXCEPT ![s] = [pc |-> "closed", last |-> {}]]
    /\ open' = open - 1
    /\ UNCHANGED <<rows, sweep, reading, used>>
LeavePage(s) ==
    /\ stream[s].pc \in {"begun", "on"}
    /\ stream' = [stream EXCEPT ![s] = [pc |-> IF @.pc = "on" THEN "gone" ELSE "leaked", last |-> {}]]
    /\ UNCHANGED <<rows, sweep, reading, open, used>>
StreamStep(s) == TellState(s) \/ CloseStream(s)

MonitoringInit ==
    /\ sweep = Resting /\ reading = NoRead
    /\ snapshot = [d \in Watched |-> Absent]
    /\ execution = {}
    /\ stream = [s \in Streams |-> [pc |-> "none", last |-> {}]]
    /\ open = 0
    /\ used = [sweeps |-> 0, reads |-> 0, edits |-> 0]

(* Monitoring on its own, with any devices *)
NewRows == [uid : {0}, deployable : BOOLEAN, enabled : BOOLEAN, cred : BOOLEAN,
            status : {"unknown"}]
MonitoringNext ==
    \/ BeginSweep \/ SweepStep \/ ReadStep
    \/ \E d \in Watched :
          \/ BlockCommand(d) \/ DropDevice(d)
          \/ \E kind \in Reads : AskRead(kind, d)
          \/ \E new \in NewRows : MakeDevice(d, new)
    \/ \E s \in Streams : ConnectStream(s) \/ LeavePage(s) \/ StreamStep(s)
MonitoringSpec ==
    /\ MonitoringInit /\ managed \in [Watched -> NewRows \cup {Absent}]
    /\ [][MonitoringNext]_monVars

----------------------------------------------------------------------------
(* A failure during a sweep costs one device: a device that does not answer, and a     *)
(* commit that fails, leave every other device polled and saved.  The exception is a  *)
(* row that is gone or that the database refuses to write: it ends the sweep, after   *)
(* every device before it, in id order, was saved or failed alone.                *)
OneFailureIsOne ==
    [][sweep.pc \in {"save", "raised"} /\ sweep'.pc = "rest" =>
         \A r \in sweep.ready :
             \/ r.dev \in sweep.saved \cup sweep.failed
             \/ sweep.pc = "raised" /\ r.dev >= FirstOf(sweep.todo)]_monVars

SweepRuns == sweep.pc # "rest"
ReadRuns == reading.pc # "none"
(* a page with a stream open that was not told of the last change *)
Untold(s) == stream[s].pc = "on" /\ stream[s].last # ProjectState
===============================================================================
