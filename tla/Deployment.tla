----------------------------- MODULE Deployment -----------------------------
(***************************************************************************)
(* The life of a configuration change, from preview to the SSH write, as   *)
(* changes/service.py, changes/batch_service.py, governance/workflow.py    *)
(* and chat/routes.py carry it out for concurrent requests.                *)
(*                                                                         *)
(* One Gunicorn worker serves every request in a thread of its own.  A row *)
(* of change_requests or change_batches is read into the session of its    *)
(* request and written back later, with no version check, so a request is  *)
(* split into the read and the commit that uses it.  Three mechanisms keep *)
(* two writers off a device: the process-wide lock of                      *)
(* history_extension/pending_routes.py, the device_leases row, and the     *)
(* baseline_revision column.  Not every route takes the lock.              *)
(***************************************************************************)
EXTENDS Naturals, Sequences, FiniteSets

CONSTANTS
    Changes,        \* change_requests rows that may be created
    Batches,        \* change_batches rows that may be created
    ChatBatches,    \* the batches a chat answer creates (chat_message_id set)
    Devices,
    Configs,        \* running configurations the hash tells apart
    Threads,        \* request threads of the one worker
    Admins,         \* requests that release an orphaned lease
    None,           \* NULL
    DeviceOf,       \* the device a change targets
    BatchOf,        \* the batch a change belongs to, or None
    HostRank,       \* the order of target_hostname
    MaxCrashes,     \* bound: restarts of the worker
    MaxDrift,       \* bound: edits of a device outside the system
    MaxBaselines,   \* bound: baselines captured by hand
    MaxEvents       \* bound: these three together

Rows == Changes \cup Batches

ASSUME BatchAssumption ==
    /\ Changes \cap Batches = {}
    /\ ChatBatches \subseteq Batches
    /\ BatchOf \in [Changes -> Batches \cup {None}]
    /\ DeviceOf \in [Changes -> Devices]
    /\ None \notin Rows \cup Devices \cup Configs \cup Threads \cup Admins

\* create_batch_preview resolves every device to one change.
ASSUME OneChangePerDevice ==
    \A c1, c2 \in Changes :
        /\ BatchOf[c1] = BatchOf[c2]
        /\ BatchOf[c1] # None
        /\ DeviceOf[c1] = DeviceOf[c2]
        => c1 = c2

\* A preview that resolves to no device is refused (batch_service.py:101-107).
ASSUME BatchHasChildren ==
    \A b \in Batches : \E c \in Changes : BatchOf[c] = b

ASSUME OrderAssumption == HostRank \in [Devices -> Nat]

ASSUME BoundAssumption ==
    {MaxCrashes, MaxDrift, MaxBaselines, MaxEvents} \subseteq Nat

VARIABLES
    status,      \* change_requests.status and change_batches.status
    signed,      \* the rows with approved_at set: somebody approved them
    baseRev,     \* change_requests.baseline_revision
    baseCfg,     \* change_requests.baseline_hash, as the configuration hashed
    revision,    \* devices.baseline_revision
    newest,      \* running_config of the newest config_backups row of a device
    lease,       \* device_leases: the change that holds a device
    config,      \* the running configuration on the router itself
    lock,        \* request_lock: the thread that holds it
    req,         \* what each request thread holds in its session
    releasing,   \* what each lease-release request holds in its session
    pushes,      \* history: the writes sent to each device, in order
    crashes, drifts, baselines

vars == <<status, signed, baseRev, baseCfg, revision, newest, lease, config, lock,
          req, releasing, pushes, crashes, drifts, baselines>>

frozen   == <<signed, baseRev, baseCfg>>
database == <<status, frozen, revision, newest, lease>>
bounds   == <<crashes, drifts, baselines>>
outside  == <<config, releasing, pushes, bounds>>

\* The bounds leave room for one more restart, edit or baseline.
Eventful == crashes + drifts + baselines < MaxEvents

-----------------------------------------------------------------------------
ChangeStatuses == {"absent", "pending_approval", "approved", "running",
                   "success", "failed", "cancelled"}
Statuses == ChangeStatuses \cup {"partial_success"}

Members(r) == IF r \in Batches THEN {c \in Changes : BatchOf[c] = r} ELSE {r}

\* _reject_batch_child: the rows a lifecycle request may name.
Jobs == Batches \cup {c \in Changes : BatchOf[c] = None}

\* Inside _apply_approved_change, from the commit of claim() to release().
Owning == {"start", "backup", "check", "bump", "push", "asked", "verify",
           "finish", "fail", "release"}
PCs == Owning \cup
       {"idle", "approve", "cancel", "smart", "claim", "claimBatch", "child",
        "refail", "capture", "store", "create", "chatApprove", "chatApply"}

IdleReq == [pc |-> "idle", chat |-> FALSE, job |-> None, cur |-> None,
            todo |-> {}, seen |-> {}, outcomes |-> {}, rev |-> 0,
            targets |-> {}, dev |-> None, cfg |-> None, raised |-> FALSE]

\* The local state request t goes on with.
Session(t, q) == req' = [req EXCEPT ![t] = q]

Goto(t, pc) == Session(t, [req[t] EXCEPT !.pc = pc])

Fail(t, exception) ==
    Session(t, [req[t] EXCEPT !.pc = "fail", !.raised = exception])

\* A request that ends without its teardown handler.
EndWithoutUnlock(t) ==
    Session(t, IdleReq) /\ UNCHANGED lock

\* teardown_request releases the lock if this request took it.
EndRequest(t) ==
    /\ Session(t, IdleReq)
    /\ lock' = IF lock = t THEN None ELSE lock

\* A lifecycle route outside the prefixes before_request knows.
NotSerialized(t) == UNCHANGED lock

\* before_request: the routes under /api/changes and /api/change-batches.
Locked(t) == lock = None /\ lock' = t
Unlocked  == UNCHANGED lock

Dev(t) == DeviceOf[req[t].cur]
IsBatch(t) == req[t].job \in Batches

-----------------------------------------------------------------------------
\* The inserts of a preview make rows that did not exist.
New(r) == \A x \in {r} \cup Members(r) : status[x] = "absent"

\* prepare_change and workflow.bind freeze the device's revision and the
\* hash of its newest backup into every change of the preview.
Create(r) ==
    /\ status' = [x \in Rows |-> IF x \in {r} \cup Members(r)
                                 THEN "pending_approval" ELSE status[x]]
    /\ baseRev' = [c \in Changes |-> IF c \in Members(r)
                                     THEN revision[DeviceOf[c]] ELSE baseRev[c]]
    /\ baseCfg' = [c \in Changes |-> IF c \in Members(r)
                                     THEN newest[DeviceOf[c]] ELSE baseCfg[c]]

Preview(r) ==
    /\ r \in Jobs \ ChatBatches
    /\ New(r)
    /\ Create(r)
    /\ UNCHANGED <<signed, revision, newest, lease, lock, req, outside>>

\* Without the comparison of the two revisions.
NeverStale(r) == TRUE

\* approve_allowed refuses a change whose device moved on since its preview.
Current(r) == \A c \in Members(r) : baseRev[c] = revision[DeviceOf[c]]

\* The session now holds these rows as they are; the commit will use them.
\* (Idle already means the lock is not held by t.)
Load(t, r, next, isChat, wanted) ==
    Session(t, [IdleReq EXCEPT
                  !.pc = next, !.job = r, !.chat = isChat,
                  !.seen = {c \in Members(r) : status[c] \in wanted}])

ApproveRead(t, r) ==
    /\ req[t].pc = "idle"
    /\ r \in Jobs
    /\ Locked(t)
    /\ status[r] = "pending_approval"
    /\ Current(r)
    /\ Load(t, r, "approve", FALSE, {"pending_approval"})
    /\ UNCHANGED <<database, outside>>

\* approve / approve_batch: the rows are written as they were read.
ApproveCommit(t) ==
    /\ req[t].pc = "approve"
    /\ status' = [x \in Rows |-> IF x \in {req[t].job} \cup req[t].seen
                                 THEN "approved" ELSE status[x]]
    /\ signed' = signed \cup {req[t].job} \cup req[t].seen
    /\ IF req[t].chat THEN Goto(t, "chatApply") /\ Unlocked ELSE EndRequest(t)
    /\ UNCHANGED <<baseRev, baseCfg, revision, newest, lease, outside>>

CancelRead(t, r) ==
    /\ req[t].pc = "idle"
    /\ r \in Jobs
    /\ Locked(t) \/ (r \in ChatBatches /\ Unlocked)
    /\ status[r] \in {"pending_approval", "approved"}
    /\ Load(t, r, "cancel", FALSE, {"pending_approval", "approved"})
    /\ UNCHANGED <<database, outside>>

\* capture_before may or may not refresh the rows of this session before
\* they are written; the status of the job is not looked at again.
CancelCommit(t) ==
    /\ req[t].pc = "cancel"
    /\ \E rows \in {req[t].seen,
                    {c \in Members(req[t].job) :
                        status[c] \in {"pending_approval", "approved"}}} :
          status' = [x \in Rows |-> IF x \in {req[t].job} \cup rows
                                    THEN "cancelled" ELSE status[x]]
    /\ EndRequest(t)
    /\ UNCHANGED <<frozen, revision, newest, lease, outside>>

\* _eligible: a draft nobody approved, cancelled or not.
Draft(x) == status[x] \in {"pending_approval", "cancelled"} /\ x \notin signed

\* POST /api/pending-history/undo, redo and restore: one transaction under the
\* request lock cancels drafts and reopens cancelled ones, a batch with all
\* its children.  Which of them its owner's history names is the matter of
\* PendingWorkspace; here it is any of them.
MoveDrafts(moved) ==
    /\ lock = None
    /\ \A r \in moved : \A x \in {r} \cup Members(r) :
          Draft(x) /\ status[x] = status[r]
    /\ status' = [x \in Rows |->
                     IF \A r \in moved : x \notin {r} \cup Members(r) THEN status[x]
                     ELSE IF status[x] = "cancelled" THEN "pending_approval"
                     ELSE "cancelled"]
    /\ UNCHANGED <<frozen, revision, newest, lease, lock, req, outside>>

-----------------------------------------------------------------------------
\* apply: Smart Approval of a student's own pending change, then, or
\* otherwise, an approved one.  deployment_allowed compares the revisions;
\* its other refusals end the request before anything is written.
ApplyRead(t, c) ==
    /\ req[t].pc = "idle"
    /\ c \in Jobs \cap Changes
    /\ Locked(t)
    /\ \/ /\ status[c] = "approved"
          /\ Current(c)
          /\ Session(t, [IdleReq EXCEPT !.pc = "claim", !.job = c, !.cur = c])
       \/ /\ status[c] = "pending_approval"
          /\ Session(t, [IdleReq EXCEPT !.pc = "smart", !.job = c, !.cur = c])
    /\ UNCHANGED <<database, outside>>

SmartApprove(t) ==
    /\ req[t].pc = "smart"
    /\ status' = [status EXCEPT ![req[t].cur] = "approved"]
    /\ signed' = signed \cup {req[t].cur}
    /\ \/ Current(req[t].cur) /\ Goto(t, "claim") /\ Unlocked
       \/ EndRequest(t)     \* deployment_allowed refuses; the row is approved
    /\ UNCHANGED <<baseRev, baseCfg, revision, newest, lease, outside>>

\* apply_batch up to the conditional UPDATE.
ApplyBatchRead(t, b) ==
    /\ req[t].pc = "idle"
    /\ b \in Batches
    /\ Locked(t) \/ (b \in ChatBatches /\ Unlocked)
    /\ status[b] = "approved"
    /\ Current(b)
    /\ Load(t, b, "claimBatch", FALSE, {})
    /\ UNCHANGED <<database, outside>>

\* UPDATE change_batches SET status = 'running' WHERE status = 'approved'.
ClaimBatch(t) ==
    /\ req[t].pc = "claimBatch"
    /\ IF status[req[t].job] = "approved"
       THEN /\ status' = [status EXCEPT ![req[t].job] = "running"]
            /\ Session(t, [req[t] EXCEPT !.pc = "child",
                                        !.todo = Members(req[t].job)])
            /\ UNCHANGED lock
       ELSE EndRequest(t) /\ UNCHANGED status
    /\ UNCHANGED <<frozen, revision, newest, lease, outside>>

\* outcomes.append(change.status) of the child that just ended.
Outcomes(t) == req[t].outcomes \cup
               (IF req[t].cur = None THEN {} ELSE {status[req[t].cur]})

\* The next child in hostname order, read afresh, goes through the checks of
\* _apply_approved_change; a refusal is an exception of this child alone.
NextChild(t) ==
    /\ req[t].pc = "child"
    /\ \E c \in req[t].todo :
         /\ \A x \in req[t].todo :
               HostRank[DeviceOf[c]] <= HostRank[DeviceOf[x]]
         /\ \E pc \in {"claim", "refail"} :
              /\ pc = "claim" => /\ status[c] = "approved"
                                 /\ status[req[t].job] = "running"
                                 /\ Current(c)
              /\ Session(t, [req[t] EXCEPT !.pc = pc,
                                          !.cur = c,
                                          !.todo = @ \ {c},
                                          !.outcomes = Outcomes(t)])
    /\ UNCHANGED <<database, lock, outside>>

\* One good child makes a good batch.
any_success(outcomes) ==
    IF "success" \in outcomes THEN "success" ELSE "failed"

aggregate_status(outcomes) ==
    CASE outcomes = {"success"}  -> "success"
      [] outcomes \subseteq {"failed"} -> "failed"
      [] OTHER -> "partial_success"

FinishBatch(t) ==
    /\ req[t].pc = "child"
    /\ req[t].todo = {}
    /\ status' = [status EXCEPT ![req[t].job] = aggregate_status(Outcomes(t))]
    /\ EndRequest(t)
    /\ UNCHANGED <<frozen, revision, newest, lease, outside>>

-----------------------------------------------------------------------------
\* device_leases without its primary key.
Leasable(d) == TRUE

Unleased(d) == lease[d] = None

\* claim: insert the lease (primary key device_id), then
\* UPDATE change_requests SET status = 'running' WHERE status = 'approved'.
Claim(t) ==
    /\ req[t].pc = "claim"
    /\ Unleased(Dev(t))
    /\ status[req[t].cur] = "approved"
    /\ lease'  = [lease EXCEPT ![Dev(t)] = req[t].cur]
    /\ status' = [status EXCEPT ![req[t].cur] = "running"]
    /\ Goto(t, "start")
    /\ UNCHANGED <<frozen, revision, newest, lock, outside>>

ClaimConflict(t) ==
    /\ req[t].pc = "claim"
    /\ ~Unleased(Dev(t)) \/ status[req[t].cur] # "approved"
    /\ IF IsBatch(t) THEN Goto(t, "refail") /\ UNCHANGED lock ELSE EndRequest(t)
    /\ UNCHANGED <<database, outside>>

\* _execute_locked_change up to the SSH session: the rows are read again, the
\* device is loaded (which may raise), its identity is compared and the
\* credentials are opened (which only fails the change).
Start(t) ==
    /\ req[t].pc = "start"
    /\ \/ /\ status[req[t].cur] = "running"
          /\ IsBatch(t) => status[req[t].job] = "running"
          /\ Goto(t, "backup") \/ \E exception \in BOOLEAN : Fail(t, exception)
       \/ /\ \/ status[req[t].cur] # "running"
             \/ IsBatch(t) /\ status[req[t].job] # "running"
          /\ Fail(t, TRUE)
    /\ UNCHANGED <<database, lock, outside>>

\* capture_backup before the write; an SSHError fails the change.
Backup(t) ==
    /\ req[t].pc = "backup"
    /\ \/ /\ newest' = [newest EXCEPT ![Dev(t)] = config[Dev(t)]]
          /\ Session(t, [req[t] EXCEPT !.pc = "check", !.cfg = config[Dev(t)]])
       \/ Fail(t, FALSE) /\ UNCHANGED newest
    /\ UNCHANGED <<status, frozen, revision, lease, lock, outside>>

\* The write goes ahead whatever the backup shows.
HashIgnored(t) == TRUE

HashMatches(t) == baseCfg[req[t].cur] \in {None, req[t].cfg}

\* The hash of the backup, then deployment_allowed once more on fresh rows.
Check(t) ==
    /\ req[t].pc = "check"
    /\ IF ~HashMatches(t)
       THEN Fail(t, FALSE)
       ELSE \/ /\ Current(req[t].cur)
               /\ Session(t, [req[t] EXCEPT !.pc = "bump",
                                           !.rev = revision[Dev(t)]])
            \/ Fail(t, TRUE)
    /\ UNCHANGED <<database, lock, outside>>

\* A write that leaves the approvals of other changes standing.
BumpForgotten(t) ==
    /\ req[t].pc = "bump"
    /\ Goto(t, "push")
    /\ UNCHANGED <<database, lock, outside>>

\* device.baseline_revision += 1, computed from the value of the session.
Bump(t) ==
    /\ req[t].pc = "bump"
    /\ revision' = [revision EXCEPT ![Dev(t)] = req[t].rev + 1]
    /\ Goto(t, "push")
    /\ UNCHANGED <<status, frozen, newest, lease, lock, outside>>

\* run_config / run_exec.  An error may come after some lines were accepted.
\* An EXEC command may ask the operator something before it is over.
Push(t) ==
    /\ req[t].pc = "push"
    /\ pushes' = [pushes EXCEPT ![Dev(t)] =
                    Append(@, [chg |-> req[t].cur,
                               rev |-> baseRev[req[t].cur]])]
    /\ \E cfg \in Configs : config' = [config EXCEPT ![Dev(t)] = cfg]
    /\ \/ Goto(t, "verify") \/ Goto(t, "asked")
       \/ \E exception \in BOOLEAN : Fail(t, exception)
    /\ UNCHANGED <<database, lock, releasing, bounds>>

\* _respond_to_prompts answers every question without a look at its deadline,
\* so the command ends when the device shows its prompt, and not before.
PromptShown(t) ==
    /\ req[t].pc = "asked"
    /\ Goto(t, "verify") \/ \E exception \in BOOLEAN : Fail(t, exception)
    /\ UNCHANGED <<database, lock, outside>>

\* run_verification, then _refresh_baseline, whose own failure is ignored.
Verify(t) ==
    /\ req[t].pc = "verify"
    /\ \/ Fail(t, FALSE) /\ UNCHANGED newest
       \/ /\ newest' \in {newest, [newest EXCEPT ![Dev(t)] = config[Dev(t)]]}
          /\ Goto(t, "finish") \/ Fail(t, FALSE)
    /\ UNCHANGED <<status, frozen, revision, lease, lock, outside>>

Finish(t) ==
    /\ req[t].pc = "finish"
    /\ status' = [status EXCEPT ![req[t].cur] = "success"]
    /\ Goto(t, "release")
    /\ UNCHANGED <<frozen, revision, newest, lease, lock, outside>>

\* A status the CHECK constraint of change_requests does not list.
FailAsRejected(t) ==
    /\ req[t].pc = "fail"
    /\ status' = [status EXCEPT ![req[t].cur] = "rejected"]
    /\ Goto(t, "release")
    /\ UNCHANGED <<frozen, revision, newest, lease, lock, outside>>

\* _fail, from inside the pipeline or from its exception handler.
FailChange(t) ==
    /\ req[t].pc = "fail"
    /\ status' = [status EXCEPT ![req[t].cur] = "failed"]
    /\ Goto(t, "release")
    /\ UNCHANGED <<frozen, revision, newest, lease, lock, outside>>

\* Without the finally clause, an exception skips the release.
ReleasedUnlessRaised(t) ==
    IF req[t].raised THEN lease[Dev(t)] ELSE None

ReleasedLease(t) ==
    IF lease[Dev(t)] = req[t].cur THEN None ELSE lease[Dev(t)]

\* DELETE FROM device_leases WHERE device_id = ... AND change_id = ...
Release(t) ==
    /\ req[t].pc = "release"
    /\ lease' = [lease EXCEPT ![Dev(t)] = ReleasedLease(t)]
    /\ IF ~IsBatch(t) THEN EndRequest(t)
       ELSE Goto(t, IF req[t].raised THEN "refail" ELSE "child") /\ UNCHANGED lock
    /\ UNCHANGED <<status, frozen, revision, newest, outside>>

\* The first child that raises ends the request and leaves its batch running.
RefailAborts(t) ==
    /\ req[t].pc = "refail"
    /\ status' = [status EXCEPT ![req[t].cur] = "failed"]
    /\ EndRequest(t)
    /\ UNCHANGED <<frozen, revision, newest, lease, outside>>

\* apply_batch catches what a child raised and calls _fail (again), after
\* the lease is gone.
Refail(t) ==
    /\ req[t].pc = "refail"
    /\ status' = [status EXCEPT ![req[t].cur] = "failed"]
    /\ Session(t, [req[t] EXCEPT !.pc = "child", !.raised = FALSE])
    /\ UNCHANGED <<frozen, revision, newest, lease, lock, outside>>

-----------------------------------------------------------------------------
\* POST /api/devices/<id>/baseline: the lease is looked at once, before the
\* SSH read; the backup row is inserted after it.
BaselineRead(t, d) ==
    /\ req[t].pc = "idle"
    /\ baselines < MaxBaselines /\ Eventful
    /\ Unleased(d)
    /\ Session(t, [IdleReq EXCEPT !.pc = "capture", !.targets = {d}])
    /\ baselines' = baselines + 1
    /\ UNCHANGED <<database, config, lock, releasing, pushes, crashes, drifts>>

\* POST /api/chat/messages/<id>/apply-configurations captures every target,
\* creates the batch, approves it and applies it, in one unlocked request.
ChatSubmit(t, b) ==
    /\ req[t].pc = "idle"
    /\ b \in ChatBatches
    /\ New(b)
    /\ Session(t, [IdleReq EXCEPT
                     !.pc = "capture", !.chat = TRUE, !.job = b,
                     !.targets = {DeviceOf[c] : c \in Members(b)}])
    /\ UNCHANGED <<database, lock, outside>>

\* capture_backup: show running-config ...
CaptureRead(t) ==
    /\ req[t].pc = "capture"
    /\ \/ \E d \in req[t].targets :
             Session(t, [req[t] EXCEPT !.pc = "store", !.cfg = config[d],
                                       !.dev = d])
       \/ Session(t, IdleReq)                     \* SSHError
    /\ UNCHANGED <<database, lock, outside>>

\* ... and the insert of the row.
CaptureStore(t) ==
    /\ req[t].pc = "store"
    /\ newest' = [newest EXCEPT ![req[t].dev] = req[t].cfg]
    /\ LET left == req[t].targets \ {req[t].dev} IN
         \/ /\ left # {}
            /\ Session(t, [req[t] EXCEPT !.pc = "capture", !.targets = left])
         \/ /\ left = {} /\ req[t].chat
            /\ Session(t, [IdleReq EXCEPT !.pc = "create", !.chat = TRUE,
                                          !.job = req[t].job])
         \/ /\ left = {} /\ ~req[t].chat
            /\ Session(t, IdleReq)
    /\ UNCHANGED <<status, frozen, revision, lease, lock, outside>>

\* The unique index on chat_message_id lets one submission through.
ChatCreate(t) ==
    /\ req[t].pc = "create"
    /\ IF New(req[t].job)
       THEN Create(req[t].job) /\ Goto(t, "chatApprove") /\ UNCHANGED lock
       ELSE EndRequest(t) /\ UNCHANGED <<status, baseRev, baseCfg>>
    /\ UNCHANGED <<signed, revision, newest, lease, outside>>

\* approve_batch of the chat request: the read.
ChatApprove(t) ==
    /\ req[t].pc = "chatApprove"
    /\ IF status[req[t].job] = "pending_approval" /\ Current(req[t].job)
       THEN Load(t, req[t].job, "approve", TRUE, {"pending_approval"})
            /\ UNCHANGED lock
       ELSE EndRequest(t)
    /\ UNCHANGED <<database, outside>>

\* apply_batch of the chat request, unless the batch needs a confirmation.
ChatApply(t) ==
    /\ req[t].pc = "chatApply"
    /\ \/ /\ status[req[t].job] = "approved"
          /\ Current(req[t].job)
          /\ Goto(t, "claimBatch")
          /\ UNCHANGED lock
       \/ EndRequest(t)
    /\ UNCHANGED <<database, outside>>

-----------------------------------------------------------------------------
\* A thread that may still write to the device of c on behalf of c.
Working(c) == \E t \in Threads : req[t].pc \in Owning /\ req[t].cur = c

\* release_device_lease: an Admin who confirmed that the worker has stopped
\* reads the lease and the change it names ...
AdminReleaseRead(a, d) ==
    /\ releasing[a] = None
    /\ lease[d] # None
    /\ ~Working(lease[d])
    /\ releasing' = [releasing EXCEPT ![a] =
                       [dev |-> d, chg |-> lease[d],
                        fail |-> status[lease[d]] = "running"]]
    /\ UNCHANGED <<database, config, lock, req, pushes, bounds>>

\* A release that forgets the change the lease names.
StatusKept(a) == status

\* The change is failed if the admin saw it running.
StatusAfterRelease(a) ==
    IF releasing[a].fail
    THEN [status EXCEPT ![releasing[a].chg] = "failed"]
    ELSE status

\* ... and deletes the lease of that device, whatever it holds by now.
AdminReleaseCommit(a) ==
    /\ releasing[a] # None
    /\ lease' = [lease EXCEPT ![releasing[a].dev] = None]
    /\ status' = StatusAfterRelease(a)
    /\ releasing' = [releasing EXCEPT ![a] = None]
    /\ UNCHANGED <<frozen, revision, newest, config, lock, req, pushes, bounds>>

\* The worker process dies: sessions and the lock are lost, rows are not.
Crash ==
    /\ crashes < MaxCrashes /\ Eventful
    /\ crashes' = crashes + 1
    /\ req' = [t \in Threads |-> IdleReq]
    /\ releasing' = [a \in Admins |-> None]
    /\ lock' = None
    /\ UNCHANGED <<database, config, pushes, drifts, baselines>>

\* Someone edits the device outside the system.  docs/scoped-backend.md:133
\* leaves the moment between the last check and the write to the operator.
Drift(d) ==
    /\ drifts < MaxDrift /\ Eventful
    /\ \A t \in Threads :
          req[t].pc \in {"check", "bump", "push"} => Dev(t) # d
    /\ \E cfg \in Configs \ {config[d]} : config' = [config EXCEPT ![d] = cfg]
    /\ drifts' = drifts + 1
    /\ UNCHANGED <<database, lock, req, releasing, pushes, crashes, baselines>>

-----------------------------------------------------------------------------
Init ==
    /\ status = [r \in Rows |-> "absent"]
    /\ signed = {}
    /\ baseRev = [c \in Changes |-> 0]
    /\ baseCfg = [c \in Changes |-> None]
    /\ revision = [d \in Devices |-> 0]
    /\ newest = [d \in Devices |-> None]
    /\ lease = [d \in Devices |-> None]
    /\ config \in [Devices -> Configs]
    /\ lock = None
    /\ req = [t \in Threads |-> IdleReq]
    /\ releasing = [a \in Admins |-> None]
    /\ pushes = [d \in Devices |-> <<>>]
    /\ crashes = 0 /\ drifts = 0 /\ baselines = 0

\* What a request thread does once its request has begun.
Step(t) ==
    \/ ApproveCommit(t) \/ CancelCommit(t) \/ SmartApprove(t)
    \/ ClaimBatch(t) \/ NextChild(t) \/ FinishBatch(t)
    \/ Claim(t) \/ ClaimConflict(t) \/ Start(t) \/ Backup(t) \/ Check(t)
    \/ Bump(t) \/ Push(t) \/ PromptShown(t) \/ Verify(t) \/ Finish(t)
    \/ FailChange(t) \/ Release(t) \/ Refail(t)
    \/ CaptureRead(t) \/ CaptureStore(t) \/ ChatCreate(t) \/ ChatApprove(t)
    \/ ChatApply(t)

\* A request arrives on an idle thread.
Arrive(t) ==
    \/ \E r \in Jobs : ApproveRead(t, r) \/ CancelRead(t, r)
    \/ \E c \in Changes : ApplyRead(t, c)
    \/ \E b \in Batches : ApplyBatchRead(t, b) \/ ChatSubmit(t, b)
    \/ \E d \in Devices : BaselineRead(t, d)

AdminStep(a) ==
    \/ \E d \in Devices : AdminReleaseRead(a, d)
    \/ AdminReleaseCommit(a)

Next ==
    \/ \E r \in Jobs : Preview(r)
    \/ \E moved \in SUBSET Jobs : MoveDrafts(moved)
    \/ \E t \in Threads : Arrive(t) \/ Step(t)
    \/ \E a \in Admins : AdminStep(a)
    \/ Crash
    \/ \E d \in Devices : Drift(d)

Spec == Init /\ [][Next]_vars

\* A request that has begun goes on: its SSH calls have timeouts, but for the
\* dialogue of an EXEC command (PromptShown), which depends on the device.
\* Nobody is obliged to send a request, or to release a lease.
FairSpec ==
    Spec /\ \A t \in Threads : WF_vars(req[t].pc # "asked" /\ Step(t))

-----------------------------------------------------------------------------
Requests ==
    [pc: PCs, chat: BOOLEAN, job: Rows \cup {None}, cur: Changes \cup {None},
     todo: SUBSET Changes, seen: SUBSET Changes, outcomes: SUBSET Statuses,
     rev: Nat, targets: SUBSET Devices, dev: Devices \cup {None},
     cfg: Configs \cup {None}, raised: BOOLEAN]

\* A session holds what its next statement needs.
Ready(q) ==
    /\ q \in Requests
    /\ q.pc \in Owning \cup {"smart", "claim", "refail"} => q.cur \in Changes
    /\ q.pc \notin {"idle", "capture", "store"} => q.job \in Rows
    /\ q.pc \in {"create", "chatApprove", "chatApply", "claimBatch", "child",
                 "refail"} \/ q.chat => q.job \in Batches
    /\ q.pc = "store" => q.dev \in Devices /\ q.cfg \in Configs

\* The rows respect the CHECK constraints of changes/model.py, and every
\* session holds what its next statement needs.
TypeOK ==
    /\ status \in [Rows -> Statuses]
    /\ \A c \in Changes : status[c] \in ChangeStatuses
    /\ signed \subseteq Rows
    /\ baseRev \in [Changes -> Nat]
    /\ baseCfg \in [Changes -> Configs \cup {None}]
    /\ revision \in [Devices -> Nat]
    /\ newest \in [Devices -> Configs \cup {None}]
    /\ lease \in [Devices -> Changes \cup {None}]
    /\ config \in [Devices -> Configs]
    /\ lock \in Threads \cup {None}
    /\ req \in [Threads -> Requests] /\ \A t \in Threads : Ready(req[t])
    /\ releasing \in [Admins -> [dev: Devices, chg: Changes, fail: BOOLEAN]
                                \cup {None}]
    /\ pushes \in [Devices -> Seq([chg: Changes, rev: Nat])]
    /\ crashes \in Nat /\ drifts \in Nat /\ baselines \in Nat

InPipeline(t) == req[t].pc \in Owning

\* Two requests never run the deployment pipeline on one device at a time:
\* the primary key of device_leases (governance/workflow.py:250-267), whatever
\* the routes that skip the request lock do.
LeaseExclusion ==
    \A t1, t2 \in Threads :
        t1 # t2 /\ InPipeline(t1) /\ InPipeline(t2) => Dev(t1) # Dev(t2)

\* The writes to a device follow the order of the revisions they were
\* approved for, and no approval is used for two writes: not after a crash, a
\* released lease, a second request for the same change or an approval that
\* reopens it (changes/service.py:1023-1026).
RevisionFencing ==
    \A d \in Devices : \A i, j \in DOMAIN pushes[d] :
        i < j => /\ pushes[d][i].rev < pushes[d][j].rev
                 /\ pushes[d][i].chg # pushes[d][j].chg

\* A write is sent only to a device that runs the configuration the approver
\* saw (changes/service.py:1020-1021), with no other write in between.
PushOnBaseline ==
    \A t \in Threads :
        req[t].pc = "push" /\ baseCfg[req[t].cur] # None
        => config[Dev(t)] = baseCfg[req[t].cur]

\* A request in the pipeline holds the lease of its device, and a lease an
\* Admin is about to delete protects nobody.
LeaseHeld ==
    /\ \A t \in Threads : InPipeline(t) => lease[Dev(t)] = req[t].cur
    /\ \A a \in Admins : releasing[a] # None =>
          /\ lease[releasing[a].dev] # None
          /\ \A t \in Threads : InPipeline(t) => Dev(t) # releasing[a].dev

\* What was written, or is on its way to be, is never previewed again.
Previewed ==
    /\ \A t \in Threads : InPipeline(t) \/ req[t].pc \in {"smart", "claim"}
                          => status[req[t].cur] # "absent"
    /\ \A d \in Devices : \A i \in DOMAIN pushes[d] :
          /\ status[pushes[d][i].chg] # "absent"
          /\ pushes[d][i].rev = baseRev[pushes[d][i].chg]

\* The revision of a device has passed every write sent to it, and the
\* pipeline works on the revision and the configuration it has checked.
Fenced ==
    /\ \A d \in Devices : \A i \in DOMAIN pushes[d] :
          pushes[d][i].rev < revision[d]
    /\ \A t \in Threads :
          /\ req[t].pc = "check" => req[t].cfg = config[Dev(t)]
          /\ req[t].pc = "bump" => /\ req[t].rev = revision[Dev(t)]
                                   /\ req[t].rev = baseRev[req[t].cur]
          /\ req[t].pc = "push" =>
                /\ revision[Dev(t)] = baseRev[req[t].cur] + 1
                /\ \A i \in DOMAIN pushes[Dev(t)] :
                      pushes[Dev(t)][i].rev < baseRev[req[t].cur]
          /\ req[t].pc \in {"bump", "push"} =>
                baseCfg[req[t].cur] \in {None, config[Dev(t)]}

\* The inductive invariant behind LeaseExclusion, RevisionFencing and
\* PushOnBaseline: lease, revision and hash protect each other's steps.
IInv == LeaseHeld /\ LeaseExclusion /\ Previewed /\ Fenced /\ RevisionFencing

\* While the worker has not been restarted, a lease belongs to a request that
\* is still working under it: no path of the pipeline leaves a device locked
\* (the finally clause, changes/service.py:950-951).
LeaseHasOwner ==
    \A d \in Devices :
        lease[d] # None => crashes > 0 \/ (DeviceOf[lease[d]] = d /\ Working(lease[d]))

\* A change in state running holds the lease of its device, so that an Admin
\* can always find and release the one a restart left behind
\* (governance/routes.py:538-556).
RunningIsLeased ==
    \A c \in Changes : status[c] = "running" => lease[DeviceOf[c]] = c

\* The status of a batch that ended is that of all its children
\* (changes/batch_service.py:251-259).
BatchOutcome ==
    \A b \in Batches :
        LET outcomes == {status[c] : c \in Members(b)} IN
        /\ status[b] = "success" => outcomes = {"success"}
        /\ status[b] = "failed"  => outcomes = {"failed"}
        /\ status[b] = "partial_success" => "success" \in outcomes
        /\ status[b] = "cancelled" => outcomes = {"cancelled"}

\* What was carried out stays as it ended, whatever requests were on their way
\* (backend/README.md:614), and what was cancelled comes back only as a draft
\* nobody has approved, while no request under the lock still goes by what it
\* read (history_extension/pending_service.py:54).
Carried == {"success", "failed", "partial_success"}
TerminalStays ==
    [][\A r \in Rows :
          /\ status[r] \in Carried => status'[r] = status[r]
          /\ status[r] = "cancelled" /\ status'[r] # "cancelled"
             => status'[r] = "pending_approval" /\ r \notin signed /\ lock = None]_vars

\* "plus `cancelled` from either of the first two states"
\* (backend/README.md:614): a deployment that has begun is not cancelled.
CancelOnlyBeforeRun ==
    [][\A c \in Changes :
          status'[c] = "cancelled" /\ status[c] # "cancelled"
          => status[c] \in {"pending_approval", "approved"}]_vars

\* No device stops in the middle of the dialogue of an EXEC command.
DevicesAnswer == \A t \in Threads : []<>(req[t].pc # "asked")

\* A deployment ends, and says how, unless the worker is restarted or the
\* device never comes back from a question (changes/service.py:943-951).
DeploymentEnds ==
    DevicesAnswer =>
        \A r \in Rows : status[r] = "running" ~>
                            status[r] # "running" \/ crashes > 0

\* The lock every lifecycle request waits for is given back, on the same
\* condition: teardown_request runs however a request ends, but not before.
LockComesBack ==
    DevicesAnswer => \A t \in Threads : lock = t ~> lock # t

=============================================================================
