---------------------------- MODULE Checkpoints -----------------------------
(***************************************************************************)
(* Undo and redo of deployed changes (checkpoints/service.py), together    *)
(* with the deployments that record and move the steps.                    *)
(*                                                                         *)
(* Every query of checkpoints/service.py is by device, so one device is    *)
(* modelled.  Deployment shows that its pipelines exclude each other, are  *)
(* fenced by the revision and start from the approved configuration; here  *)
(* a pipeline is the sequence of its commits.  Approving a pending change  *)
(* makes no difference to this component and is part of the claim.         *)
(***************************************************************************)
EXTENDS Naturals, Sequences, FiniteSets

CONSTANTS
    Changes,        \* change_requests rows of the device
    Configs,        \* running configurations the hash tells apart
    Threads,        \* requests that run at the same time
    None,           \* NULL
    MaxFaults       \* bound: restarts of the worker and edits of the device
                    \* outside the system

ASSUME NoneAssumption == None \notin Changes \cup Configs

ASSUME BoundAssumption == MaxFaults \in Nat

VARIABLES
    change,      \* change_requests: status, baseline and, for a restore, the
                 \* configuration its commands were computed from
    steps,       \* config_checkpoints in the order of created_at and id
    revision,    \* devices.baseline_revision
    newest,      \* running_config of the newest config_backups row
    lease,       \* the change that holds the device lease
    config,      \* the running configuration on the router
    req,         \* what each request holds
    faults

vars == <<change, steps, revision, newest, lease, config, req, faults>>

Actions == {"undo", "redo"}

Absent == [status |-> "absent", exec |-> FALSE, rev |-> 0, base |-> None,
           from |-> None]

IdleReq == [pc |-> "idle", cur |-> None, step |-> 0, action |-> "undo",
            target |-> None, from |-> None, pre |-> None, post |-> None]

Session(t, q) == req' = [req EXCEPT ![t] = q]

Goto(t, pc) == Session(t, [req[t] EXCEPT !.pc = pc])

\* _fail and then release need the change only.
Fail(t) == Session(t, [IdleReq EXCEPT !.pc = "fail", !.cur = req[t].cur])

Done(t) == Session(t, [IdleReq EXCEPT !.pc = "release", !.cur = req[t].cur])

Live == {"pending", "running"}

-----------------------------------------------------------------------------
\* prepare_change: the revision and the newest backup of this moment.
New(c, exec, from) ==
    change' = [change EXCEPT ![c] =
        [status |-> "pending", exec |-> exec, rev |-> revision,
         base |-> newest, from |-> from]]

Preview(c) ==
    /\ change[c].status = "absent"
    /\ \E exec \in BOOLEAN : New(c, exec, None)
    /\ UNCHANGED <<steps, revision, newest, lease, config, req, faults>>

Cancel(c) ==
    /\ change[c].status = "pending"
    /\ change' = [change EXCEPT ![c].status = "cancelled"]
    /\ UNCHANGED <<steps, revision, newest, lease, config, req, faults>>

-----------------------------------------------------------------------------
InState(state) == {i \in DOMAIN steps : steps[i].state = state}

\* _top_active
TopActive(i) == i \in InState("active") /\ \A j \in InState("active") : j <= i

\* _next_redo: steps are undone newest first.
NextRedo(i) == i \in InState("undone") /\ \A j \in InState("undone") : i <= j

\* _device_busy; a step's own pending change is a change of the device too.
DeviceBusy == \E c \in Changes : change[c].status \in Live

\* _target_backup
Target(i, action) == IF action = "undo" THEN steps[i].pre ELSE steps[i].post

\* request_restore up to the SSH read.
RestoreRead(t, i, action) ==
    /\ req[t].pc = "idle"
    /\ ~DeviceBusy
    /\ IF action = "undo" THEN TopActive(i) ELSE NextRedo(i)
    /\ Target(i, action) # None
    /\ Session(t, [IdleReq EXCEPT !.pc = "snapshot", !.step = i, !.action = action,
                                  !.target = Target(i, action)])
    /\ UNCHANGED <<change, steps, revision, newest, lease, config, faults>>

\* capture_backup and restore_commands; an empty plan ends the request.
Snapshot(t) ==
    /\ req[t].pc = "snapshot"
    /\ \/ /\ newest' = config
          /\ IF config = req[t].target
             THEN Session(t, IdleReq)
             ELSE Session(t, [req[t] EXCEPT !.pc = "stage", !.from = config])
       \/ Session(t, IdleReq) /\ UNCHANGED newest           \* SSHError
    /\ UNCHANGED <<change, steps, revision, lease, config, faults>>

\* An undo that leaves what Redo returns to as it was.
PostKept(t) == steps

\* Undo makes the snapshot what Redo returns to.
PostOfUndo(t) ==
    IF req[t].action = "undo"
    THEN [steps EXCEPT ![req[t].step].post = req[t].from]
    ELSE steps

\* create_preview commits the change and, with it, the step's new post state.
Stage(t, c) ==
    /\ req[t].pc = "stage"
    /\ change[c].status = "absent"
    /\ New(c, FALSE, req[t].from)
    /\ steps' = PostOfUndo(t)
    /\ Session(t, [req[t] EXCEPT !.pc = "link", !.cur = c])
    /\ UNCHANGED <<revision, newest, lease, config, faults>>

\* create_preview refuses: the session is dropped.
StageRefused(t) ==
    /\ req[t].pc = "stage"
    /\ Session(t, IdleReq)
    /\ UNCHANGED <<change, steps, revision, newest, lease, config, faults>>

\* step.pending_change_id = change.id, in a commit of its own.
Link(t) ==
    /\ req[t].pc = "link"
    /\ steps' = [steps EXCEPT ![req[t].step].pend = req[t].cur,
                              ![req[t].step].act  = req[t].action]
    /\ Session(t, IdleReq)
    /\ UNCHANGED <<change, revision, newest, lease, config, faults>>

-----------------------------------------------------------------------------
\* Approve and apply: the revision check of deployment_allowed, then claim.
Claim(t, c) ==
    /\ req[t].pc = "idle"
    /\ change[c].status = "pending"
    /\ change[c].rev = revision
    /\ lease = None
    /\ lease' = c
    /\ change' = [change EXCEPT ![c].status = "running"]
    /\ Session(t, [IdleReq EXCEPT !.pc = "check", !.cur = c])
    /\ UNCHANGED <<steps, revision, newest, config, faults>>

\* Whatever the backup shows.
AnyBaseline(t) == TRUE

OnBaseline(t) == change[req[t].cur].base \in {None, config}

\* The backup before the write, the hash, the last check of the revision and
\* the new revision.
Check(t) ==
    /\ req[t].pc = "check"
    /\ \/ Fail(t) /\ UNCHANGED <<revision, newest>>
       \/ /\ newest' = config
          /\ \/ /\ OnBaseline(t)
                /\ change[req[t].cur].rev = revision
                /\ revision' = revision + 1
                /\ Session(t, [req[t] EXCEPT !.pc = "push", !.pre = config])
             \/ Fail(t) /\ UNCHANGED revision
    /\ UNCHANGED <<change, steps, lease, config, faults>>

\* The lines of a configuration change; EXEC commands leave the running
\* configuration as it was.  An error may come half way.
Push(t) ==
    /\ req[t].pc = "push"
    /\ config' \in (IF change[req[t].cur].exec THEN {config} ELSE Configs)
    /\ Goto(t, "verify") \/ Fail(t)
    /\ UNCHANGED <<change, steps, revision, newest, lease, faults>>

\* run_verification and _refresh_baseline, whose failure loses the post state.
Verify(t) ==
    /\ req[t].pc = "verify"
    /\ \/ /\ newest' = config
          /\ Session(t, [req[t] EXCEPT !.pc = "finish", !.post = config])
       \/ Goto(t, "finish") /\ UNCHANGED newest
       \/ Fail(t) /\ newest' \in {newest, config}
    /\ UNCHANGED <<change, steps, revision, lease, config, faults>>

Finish(t) ==
    /\ req[t].pc = "finish"
    /\ change' = [change EXCEPT ![req[t].cur].status = "success"]
    /\ Goto(t, "record")
    /\ UNCHANGED <<steps, revision, newest, lease, config, faults>>

FailChange(t) ==
    /\ req[t].pc = "fail"
    /\ change' = [change EXCEPT ![req[t].cur].status = "failed"]
    /\ Done(t)
    /\ UNCHANGED <<steps, revision, newest, lease, config, faults>>

\* A new edit that leaves the redo branch of the device standing.
BranchKept == steps

\* A new edit ends the redo branch.
Discarded ==
    [i \in DOMAIN steps |->
        IF steps[i].state = "undone"
        THEN [steps[i] EXCEPT !.state = "discarded", !.pend = None]
        ELSE steps[i]]

\* _record
Recorded(t) ==
    Append(Discarded, [state |-> "active", pre |-> req[t].pre,
                       post |-> req[t].post, pend |-> None, act |-> "undo"])

\* _finish_restore
Restored(i) ==
    [steps EXCEPT ![i].state = IF steps[i].act = "undo" THEN "undone" ELSE "active",
                  ![i].pend = None]

Linked(c) == {i \in DOMAIN steps : steps[i].pend = c}

\* on_change_applied, a commit after that of the success.
Record(t) ==
    /\ req[t].pc = "record"
    /\ LET c == req[t].cur IN
         \/ \E i \in Linked(c) : steps' = Restored(i)
         \/ /\ Linked(c) = {}
            /\ steps' = IF change[c].exec THEN steps ELSE Recorded(t)
    /\ Done(t)
    /\ UNCHANGED <<change, revision, newest, lease, config, faults>>

Release(t) ==
    /\ req[t].pc = "release"
    /\ lease' = None
    /\ Session(t, IdleReq)
    /\ UNCHANGED <<change, steps, revision, newest, config, faults>>

-----------------------------------------------------------------------------
\* release_device_lease, once the request that held it is gone.
ReleaseOrphan ==
    /\ lease # None
    /\ \A t \in Threads : req[t].cur = lease => req[t].pc = "link"
    /\ lease' = None
    /\ change' = [change EXCEPT ![lease].status =
                                   IF @ = "running" THEN "failed" ELSE @]
    /\ UNCHANGED <<steps, revision, newest, config, req, faults>>

Crash ==
    /\ faults < MaxFaults
    /\ faults' = faults + 1
    /\ req' = [t \in Threads |-> IdleReq]
    /\ UNCHANGED <<change, steps, revision, newest, lease, config>>

\* Somebody edits the device by hand, but not between the last check and the
\* write (docs/scoped-backend.md:133).
Drift ==
    /\ faults < MaxFaults
    /\ \A t \in Threads : req[t].pc # "push"
    /\ config' \in Configs \ {config}
    /\ faults' = faults + 1
    /\ UNCHANGED <<change, steps, revision, newest, lease, req>>

-----------------------------------------------------------------------------
Init ==
    /\ change = [c \in Changes |-> Absent]
    /\ steps = <<>>
    /\ revision = 0
    /\ newest = None
    /\ lease = None
    /\ config \in Configs
    /\ req = [t \in Threads |-> IdleReq]
    /\ faults = 0

Step(t) ==
    \/ Snapshot(t) \/ StageRefused(t) \/ Link(t)
    \/ \E c \in Changes : Stage(t, c)
    \/ Check(t) \/ Push(t) \/ Verify(t) \/ Finish(t) \/ FailChange(t)
    \/ Record(t) \/ Release(t)

Arrive(t) ==
    \/ \E i \in DOMAIN steps, action \in Actions : RestoreRead(t, i, action)
    \/ \E c \in Changes : Claim(t, c)

Next ==
    \/ \E c \in Changes : Preview(c) \/ Cancel(c)
    \/ \E t \in Threads : Arrive(t) \/ Step(t)
    \/ ReleaseOrphan \/ Crash \/ Drift

Spec == Init /\ [][Next]_vars

-----------------------------------------------------------------------------
ChangeRow ==
    [status: {"absent", "pending", "running", "success", "failed", "cancelled"},
     exec: BOOLEAN, rev: Nat, base: Configs \cup {None}, from: Configs \cup {None}]

StepRow ==
    [state: {"active", "undone", "discarded"}, pre: Configs,
     post: Configs \cup {None}, pend: Changes \cup {None}, act: Actions]

Requests ==
    [pc: {"idle", "snapshot", "stage", "link", "check", "push", "verify",
          "finish", "fail", "record", "release"},
     cur: Changes \cup {None}, step: Nat, action: Actions,
     target: Configs \cup {None}, from: Configs \cup {None},
     pre: Configs \cup {None}, post: Configs \cup {None}]

\* The rows respect the CHECK constraints of checkpoints/model.py, and a step
\* that is pending or undone has the post state Redo needs.
TypeOK ==
    /\ change \in [Changes -> ChangeRow]
    /\ steps \in Seq(StepRow)
    /\ revision \in Nat
    /\ newest \in Configs \cup {None}
    /\ lease \in Changes \cup {None}
    /\ config \in Configs
    /\ req \in [Threads -> Requests]
    /\ faults \in Nat
    /\ \A i \in InState("undone") : steps[i].post # None

\* The steps of a device form an undo stack, whatever fails and whenever the
\* worker is restarted: recording, undoing and redoing are the steps of
\* UndoStack (backend/README.md:595-598).
Indices(state) ==
    SelectSeq([i \in DOMAIN steps |-> i], LAMBDA i : steps[i].state = state)

Stack == INSTANCE UndoStack
    WITH done <- Indices("active"), redo <- Indices("undone"),
         Entries <- 1 .. Cardinality(Changes)

IsStack == Stack!Spec

\* What is undone is newer than what is in effect: "only the newest active
\* step can be undone" (backend/README.md:595).
StackOrder ==
    \A i \in InState("undone"), j \in InState("active") : j < i

\* A restore is sent only to a device that still runs the configuration its
\* commands were computed from: "the preview's baseline is exactly this
\* config" (checkpoints/service.py:277-280).
RestoreFromSnapshot ==
    \A t \in Threads :
        req[t].pc = "push" /\ change[req[t].cur].from # None
        => change[req[t].cur].from = config

\* Redo returns to what the device ran just before the undo was written, not
\* to the state of an earlier undo that was staged and given up
\* (checkpoints/service.py:287-288).
RedoReturns ==
    [][\A i \in DOMAIN steps :
          steps[i].state = "active" /\ steps'[i].state = "undone"
          => \E t \in Threads : req[t].pre = steps[i].post]_vars

=============================================================================
