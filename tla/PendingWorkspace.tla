-------------------------- MODULE PendingWorkspace --------------------------
(***************************************************************************)
(* The editable drafts of one administrator and their undo history         *)
(* (history_extension/pending_service.py, pending_routes.py), with the     *)
(* requests that create, cancel, approve and claim the same drafts.        *)
(*                                                                         *)
(* A draft is a standalone change or a batch with its children, which are  *)
(* written together everywhere.  A pending-history request holds the       *)
(* request lock and work.lock throughout; the others may come from routes  *)
(* that do not take the request lock (chat, checkpoints, drafts), so none  *)
(* of them is assumed to.                                                  *)
(***************************************************************************)
EXTENDS HistoryManager, FiniteSets

CONSTANTS
    Drafts,          \* rows: changes or batches requested by the owner
    Texts,           \* what an edit can change: commands, description, mode
    Tabs,            \* browser tabs with an editor
    Clients,         \* requests other than pending-history that run at a time
    None,            \* NULL or absent
    MaxJournal,      \* bound: events in the journal when a request begins
    MaxFaults        \* bound: restarts, failed commits, readdressed devices

ASSUME PendingBounds == MaxJournal \in Nat /\ MaxFaults \in Nat

\* The columns of a row, absent where there is none.
Rows == [st : {"absent", "pending", "cancelled", "approved", "running"},
         text : Texts \cup {None}, used : BOOLEAN, digest : Texts \cup {None}]

\* What a tab has opened, and whether its draft is still as it was then.
Editors == [rev : [draft : Drafts, epoch : Nat, raw : Rows, moved : BOOLEAN],
            fresh : BOOLEAN]

\* None is neither a text nor what a tab has opened, and what a history without a
\* state returns is no snapshot.
ASSUME PendingValues ==
    /\ None \notin Texts /\ None \notin Editors
    /\ \A active \in SUBSET Drafts : NoSnapshot \notin [active -> Texts]

VARIABLES
    row,        \* change_requests and change_batches
    moved,      \* the identity of the device differs from the frozen target
    live,       \* HistoryManager._state: published history and fingerprints
    attempt,    \* PendingWorkspace._attempt: a publication not acknowledged
    flag,       \* PendingWorkspace._recovery_flag
    saved,      \* the last backup that was downloaded
    editor,     \* the revision and the text each tab has opened
    op,         \* the pending-history request that waits for its commit
    req,        \* the lifecycle request of each client
    faults

vars == <<row, moved, live, attempt, flag, saved, editor, op, req, faults>>

\* used: approved_by_id, approved_at, applied_at or a result is set.
\* digest: the text that approval_digest was computed from.
NoRow == [st |-> "absent", text |-> None, used |-> FALSE, digest |-> None]

NewRow(x) == [st |-> "pending", text |-> x, used |-> FALSE, digest |-> None]

\* _eligible
Eligible(r) == r.st \in {"pending", "cancelled"} /\ ~r.used

\* read: the snapshot of the unapproved pending drafts.
ActiveOf(rs) == {d \in Drafts : rs[d].st = "pending" /\ Eligible(rs[d])}

SnapshotOf(rs) == [d \in ActiveOf(rs) |-> rs[d].text]

RawOf(rs, K) == [d \in {k \in K : rs[k].st # "absent"} |-> rs[d]]

\* No pending-history request waits for its commit.
NoOp == [sent |-> FALSE]

FreshState == [h |-> EmptyHistory, expected |-> <<>>, epoch |-> 0, dirty |-> FALSE]

\* A tracked row that is no longer what the history last saw.
Diverged(s, rs) == \E d \in DOMAIN s.expected : rs[d] # s.expected[d]

\* recovery_required
RecoveryRequired == flag \/ attempt # None \/ live.dirty

-----------------------------------------------------------------------------
(* synchronize and _record on a state s, as their caller will publish it. *)

\* _matches
Matches(s, rs) ==
    /\ Current(s.h) = SnapshotOf(rs)
    /\ ActiveOf(rs) \subseteq DOMAIN s.expected
    /\ ~Diverged(s, rs)

ChangedOutside(s, rs) ==
    /\ Current(s.h) # NoSnapshot
    /\ \/ s.dirty
       \/ Current(s.h) # SnapshotOf(rs)
       \/ ~(ActiveOf(rs) \subseteq DOMAIN s.expected)
       \/ Diverged(s, rs)

\* A reconciled state: tracks what is active now, in a new epoch.
Reconciled(s, h, rs) ==
    [h |-> h, expected |-> RawOf(rs, ActiveOf(rs)), epoch |-> s.epoch + 1,
     dirty |-> FALSE]

SyncedState(s, rs) ==
    IF Current(s.h) = NoSnapshot
    THEN Reconciled(s, PushState(s.h, SnapshotOf(rs)), rs)
    ELSE IF ChangedOutside(s, rs)
    THEN Reconciled(s, Checkpoint(s.h, SnapshotOf(rs)), rs)
    ELSE s

\* synchronize refuses when the live state is neither end of the attempt.
SyncAllowed == attempt # None => live \in {attempt.base, attempt.target}

\* What a successful synchronize publishes, attempt included.
Synchronized ==
    IF attempt = None THEN SyncedState(live, row)
    ELSE IF Matches(attempt.target, row) THEN attempt.target
    ELSE LET seed == IF live = attempt.base THEN attempt.target ELSE live
         IN  Reconciled(seed, Checkpoint(seed.h, SnapshotOf(row)), row)

Synchronize == SyncAllowed /\ live' = Synchronized /\ attempt' = None

\* _record with rows rs: before is what the caller saw, after what it did.
Recorded(s, before, after, rs) ==
    LET known == Current(s.h) = before
        h == IF ~known THEN Checkpoint(s.h, after)
             ELSE IF before # after THEN PushState(s.h, after)
             ELSE s.h
        keys == (IF known THEN DOMAIN s.expected \cup DOMAIN before ELSE {})
                    \cup DOMAIN after
    IN  [h |-> h, expected |-> RawOf(rs, keys),
         epoch |-> IF before # after \/ ~known THEN s.epoch + 1 ELSE s.epoch,
         dirty |-> FALSE]

-----------------------------------------------------------------------------
(* Pending-history requests.  They hold work.lock until they answer. *)

Free == op = NoOp

Room == Len(live.h.journal) <= MaxJournal

\* The rows after _apply has written the target to what it tracks.
Written(target, keys) ==
    [d \in Drafts |->
        IF d \notin keys THEN row[d]
        ELSE IF d \in DOMAIN target
             THEN [row[d] EXCEPT !.st = "pending", !.text = target[d]]
             ELSE [row[d] EXCEPT !.st = "cancelled"]]

\* The checks of _validate_target and _apply, on the rows read.
Applicable(target, pinned) ==
    /\ moved => DOMAIN pinned = {}
    /\ DOMAIN target \subseteq DOMAIN pinned
    /\ \A d \in DOMAIN pinned : row[d] = pinned[d] /\ Eligible(row[d])

\* The request waits for its transaction with this packet.
Prepare(target, pinned, h, epoch, tab) ==
    /\ Applicable(target, pinned)
    /\ op' = [target |-> target, pinned |-> pinned, h |-> h, epoch |-> epoch,
              before |-> SnapshotOf(row), tab |-> tab, sent |-> FALSE]
    /\ UNCHANGED <<row, moved, live, attempt, flag, saved, editor, req, faults>>

\* move: refused when an outside change would be taken for the user's own.
Move(h) ==
    /\ ~ChangedOutside(live, row)
    /\ Prepare(Current(h), live.expected, h, live.epoch + 1, None)

UndoRequest ==
    /\ Free /\ Room /\ ~RecoveryRequired
    /\ CanUndo(live.h) /\ Move(Undone(live.h))

RedoRequest ==
    /\ Free /\ Room /\ ~RecoveryRequired
    /\ CanRedo(live.h) /\ Move(Redone(live.h))

\* move with a backup: every state in it must be restorable now.
RestoreRequest ==
    /\ Free /\ ~RecoveryRequired /\ saved # None
    /\ Len(live.h.journal) + Len(saved.journal) <= MaxJournal + 2
    /\ Restorable(saved) /\ saved.undo # <<>>
    /\ Current(live.h) # NoSnapshot =>
           Current(live.h) = SnapshotOf(row) /\ ~Diverged(live, row)
    /\ \A s \in ActiveSnapshots(Restored(live.h, saved)) :
           Applicable(s, live.expected)
    /\ LET h == Restored(live.h, saved)
       IN  Prepare(Current(h), live.expected, h, live.epoch + 1, None)

\* A revision of the contents alone.
RevisionOfRow(d) == [draft |-> d, raw |-> row[d], moved |-> moved]

\* _revision: an HMAC of the epoch, the row and the identity of its device.
RevisionOf(d) == [draft |-> d, epoch |-> live.epoch, raw |-> row[d], moved |-> moved]

OpenEditor(b, d) ==
    /\ Free /\ ~RecoveryRequired /\ d \in ActiveOf(row)
    /\ editor' = [editor EXCEPT ![b] = [rev |-> RevisionOf(d), fresh |-> TRUE]]
    /\ UNCHANGED <<row, moved, live, attempt, flag, saved, op, req, faults>>

\* edit: history and rows are prepared on a fork, which synchronizes first.
SaveEditor(b, x) ==
    /\ Free /\ Room /\ ~RecoveryRequired /\ editor[b] # None
    /\ LET d == editor[b].rev.draft
           before == SnapshotOf(row)
           target == [before EXCEPT ![d] = x]
           fork == SyncedState(live, row)
           done == Recorded(fork, before, target, row)
       IN  /\ d \in ActiveOf(row)
           /\ editor[b].rev = RevisionOf(d)
           /\ Prepare(target, done.expected, done.h, done.epoch, b)

\* GET: synchronize, then the recovery flag is dropped.
Status ==
    /\ Free /\ Synchronize
    /\ flag' = FALSE
    /\ UNCHANGED <<row, moved, saved, editor, op, req, faults>>

Backup ==
    /\ Free /\ Room /\ Synchronize
    /\ flag' = FALSE
    /\ saved' = Exported(live'.h)
    /\ UNCHANGED <<row, moved, editor, op, req, faults>>

-----------------------------------------------------------------------------
(* The commit of a pending-history request. *)

\* A comparison of what the user can see only.
CasOnText == \A d \in DOMAIN op.pinned : row[d].text = op.pinned[d].text

\* _cas: each tracked row still has every column it was read with.
CasHolds == \A d \in DOMAIN op.pinned : row[d] = op.pinned[d]

CommitPossible ==
    /\ CasHolds /\ (moved => DOMAIN op.pinned = {})
    /\ SnapshotOf(Written(op.target, DOMAIN op.pinned)) = op.target

\* A change of a row spoils what every tab has opened.
Spoiled(rs) ==
    [b \in Tabs |-> IF editor[b] = None THEN None ELSE
        [editor[b] EXCEPT !.fresh = @ /\ rs[editor[b].rev.draft] = row[editor[b].rev.draft]]]

WriteRows ==
    /\ row' = Written(op.target, DOMAIN op.pinned)
    /\ editor' = Spoiled(row')

\* The publication prepared with the rows rs.
TargetState(rs) ==
    [h |-> op.h, expected |-> RawOf(rs, DOMAIN op.pinned), epoch |-> op.epoch,
     dirty |-> FALSE]

Commit ==
    /\ op # NoOp /\ ~op.sent /\ CommitPossible
    /\ WriteRows
    /\ live' = TargetState(row') /\ attempt' = None
    /\ op' = NoOp
    /\ UNCHANGED <<moved, flag, saved, req, faults>>

CommitRefused ==
    /\ op # NoOp /\ ~op.sent /\ ~CommitPossible
    /\ op' = NoOp
    /\ UNCHANGED <<row, moved, live, attempt, flag, saved, editor, req, faults>>

\* The driver raises, whether or not the transaction is on disk.
CommitRaises ==
    /\ op # NoOp /\ ~op.sent /\ CommitPossible /\ faults < MaxFaults
    /\ WriteRows \/ UNCHANGED <<row, editor>>
    /\ op' = [op EXCEPT !.sent = TRUE] /\ faults' = faults + 1
    /\ UNCHANGED <<moved, live, attempt, flag, saved, req>>

\* _apply reads back what happened; an unclear outcome asks for a refresh.
ReadBack ==
    /\ op # NoOp /\ op.sent
    /\ LET want == [d \in DOMAIN op.pinned |->
               IF d \in DOMAIN op.target
               THEN [op.pinned[d] EXCEPT !.st = "pending", !.text = op.target[d]]
               ELSE [op.pinned[d] EXCEPT !.st = "cancelled"]]
           Is(snapshot, values) == /\ SnapshotOf(row) = snapshot
                                   /\ \A d \in DOMAIN values : row[d] = values[d]
           original == Is(op.before, op.pinned)
           committed == Is(op.target, want)
       IN  \/ /\ committed /\ ~original
              /\ live' = TargetState(row) /\ attempt' = None /\ UNCHANGED flag
           \/ original /\ UNCHANGED <<live, attempt, flag>>
           \/ flag' = TRUE /\ UNCHANGED <<live, attempt>>   \* unclear, or unreadable
    /\ op' = NoOp
    /\ UNCHANGED <<row, moved, saved, editor, req, faults>>

\* Committed, and the callback that publishes fails twice.
CallbackFails ==
    /\ op # NoOp /\ ~op.sent /\ CommitPossible /\ faults < MaxFaults
    /\ WriteRows
    /\ attempt' = [base |-> live, target |-> TargetState(row')]
    /\ flag' = TRUE /\ op' = NoOp /\ faults' = faults + 1
    /\ UNCHANGED <<moved, live, saved, req>>

-----------------------------------------------------------------------------
(* create, cancel, approve and claim, with the hooks around the first two. *)

Idle == [pc |-> "idle", draft |-> None, text |-> None, token |-> None]

Session(c, q) == req' = [req EXCEPT ![c] = q]

\* capture_before: synchronize; if it fails the operation goes on without it.
CaptureBefore(c, pc, d, x) ==
    \/ /\ Synchronize
       /\ Session(c, [pc |-> pc, draft |-> d, text |-> x, token |-> SnapshotOf(row)])
    \/ /\ ~SyncAllowed /\ UNCHANGED <<live, attempt>>
       /\ Session(c, [pc |-> pc, draft |-> d, text |-> x, token |-> None])

Create(c, d, x) ==
    /\ req[c].pc = "idle" /\ Free /\ Room /\ row[d].st = "absent"
    /\ \A o \in Clients : req[o].draft # d
    /\ CaptureBefore(c, "insert", d, x)
    /\ UNCHANGED <<row, moved, flag, saved, editor, op, faults>>

Cancel(c, d) ==
    /\ req[c].pc = "idle" /\ Free /\ Room
    /\ row[d].st \in {"pending", "approved"}
    /\ CaptureBefore(c, "cancel", d, None)
    /\ UNCHANGED <<row, moved, flag, saved, editor, op, faults>>

\* The commit of either, by primary key.
CommitCore(c) ==
    /\ req[c].pc \in {"insert", "cancel"}
    /\ LET d == req[c].draft
       IN  row' = [row EXCEPT ![d] = IF req[c].pc = "insert" THEN NewRow(req[c].text)
                                     ELSE [@ EXCEPT !.st = "cancelled"]]
    /\ editor' = Spoiled(row')
    /\ Session(c, [req[c] EXCEPT !.pc = "record"])
    /\ UNCHANGED <<moved, live, attempt, flag, saved, op, faults>>

\* The drafts that differ between two snapshots.
Delta(a, b) ==
    {d \in DOMAIN a \cup DOMAIN b :
        ~(d \in DOMAIN a /\ d \in DOMAIN b /\ a[d] = b[d])}

\* record_after: a barrier when others changed drafts in the meantime.
RecordAfter(c) ==
    /\ req[c].pc = "record" /\ Free
    /\ Session(c, Idle)
    /\ LET before == req[c].token
           after == SnapshotOf(row)
       IN  \/ before = None /\ UNCHANGED <<live, attempt>>
           \/ /\ before # None /\ Delta(before, after) \ {req[c].draft} # {}
              /\ live' = Reconciled(live, Checkpoint(live.h, after), row)
              /\ attempt' = None
           \/ /\ before # None /\ Delta(before, after) \subseteq {req[c].draft}
              /\ live' = Recorded(live, before, after, row)
              /\ UNCHANGED attempt
    /\ UNCHANGED <<row, moved, flag, saved, editor, op, faults>>

\* The hook raises after a part of its publications; the caller only logs it.
RecordFails(c) ==
    /\ req[c].pc = "record" /\ Free /\ req[c].token # None /\ faults < MaxFaults
    /\ Session(c, Idle)
    /\ \/ UNCHANGED live
       \/ live' = [live EXCEPT !.epoch = @ + 1, !.dirty = TRUE]
       \/ live' = [live EXCEPT !.h = PushState(@, SnapshotOf(row)),
                               !.epoch = @ + 1, !.dirty = TRUE]
    /\ faults' = faults + 1
    /\ UNCHANGED <<row, moved, attempt, flag, saved, editor, op>>

\* approve: reads the draft and digests it, then commits by primary key.
Approve(c, d) ==
    /\ req[c].pc = "idle" /\ row[d].st = "pending"
    /\ Session(c, [Idle EXCEPT !.pc = "approve", !.draft = d, !.text = row[d].text])
    /\ UNCHANGED <<row, moved, live, attempt, flag, saved, editor, op, faults>>

ApproveCommit(c) ==
    /\ req[c].pc = "approve"
    /\ row' = [row EXCEPT ![req[c].draft] =
           [@ EXCEPT !.st = "approved", !.used = TRUE, !.digest = req[c].text]]
    /\ editor' = Spoiled(row')
    /\ Session(c, Idle)
    /\ UNCHANGED <<moved, live, attempt, flag, saved, op, faults>>

\* An approval that is believed without its digest.
AnyDigest(d) == row[d].digest # None

\* deployment_allowed compares the digest with the row it will deploy.
DigestMatches(d) == row[d].digest = row[d].text

Claim(d) ==
    /\ row[d].st = "approved" /\ ~moved /\ DigestMatches(d)
    /\ row' = [row EXCEPT ![d].st = "running"]
    /\ editor' = Spoiled(row')
    /\ UNCHANGED <<moved, live, attempt, flag, saved, op, req, faults>>

-----------------------------------------------------------------------------
\* The address or name of the device is edited.
Readdress ==
    /\ faults < MaxFaults /\ faults' = faults + 1
    /\ moved' = ~moved
    /\ UNCHANGED <<row, live, attempt, flag, saved, editor, op, req>>

\* The process restarts: rows and downloaded files stay, a new HMAC key makes
\* every open editor stale.
Restart ==
    /\ faults < MaxFaults /\ faults' = faults + 1
    /\ live' = FreshState /\ attempt' = None /\ flag' = FALSE
    /\ saved' = None                \* the backup key is the process's too
    /\ editor' = [b \in Tabs |-> None]
    /\ op' = NoOp /\ req' = [c \in Clients |-> Idle]
    /\ UNCHANGED <<row, moved>>

Init ==
    /\ row = [d \in Drafts |-> NoRow] /\ moved = FALSE
    /\ live = FreshState /\ attempt = None /\ flag = FALSE /\ saved = None
    /\ editor = [b \in Tabs |-> None] /\ op = NoOp
    /\ req = [c \in Clients |-> Idle] /\ faults = 0

PendingRequest ==
    \/ UndoRequest \/ RedoRequest \/ RestoreRequest \/ Backup
    \/ \E b \in Tabs, d \in Drafts : OpenEditor(b, d)
    \/ \E b \in Tabs, x \in Texts : SaveEditor(b, x)

Outcome == Commit \/ CommitRefused \/ CommitRaises \/ ReadBack \/ CallbackFails

Arrive(c) ==
    \E d \in Drafts : Cancel(c, d) \/ Approve(c, d) \/ \E x \in Texts : Create(c, d, x)

Proceed(c) == CommitCore(c) \/ RecordAfter(c) \/ RecordFails(c) \/ ApproveCommit(c)

Next ==
    \/ PendingRequest \/ Status \/ Outcome
    \/ \E c \in Clients : Arrive(c) \/ Proceed(c)
    \/ \E d \in Drafts : Claim(d)
    \/ Readdress \/ Restart

Spec == Init /\ [][Next]_vars

\* Requests go on, and the page asks for the status every 15 seconds
\* (static/js/history-panel.js); nobody is obliged to act.
FairSpec ==
    /\ Spec
    /\ WF_vars(Outcome) /\ WF_vars(Status)
    /\ \A c \in Clients : WF_vars(Proceed(c))

-----------------------------------------------------------------------------
IsState(s) ==
    /\ DOMAIN s.expected \subseteq Drafts
    /\ \A d \in DOMAIN s.expected : s.expected[d] \in Rows
    /\ Range(s.h.undo \o s.h.redo) \subseteq DOMAIN s.h.journal
    /\ IsInjective(s.h.undo \o s.h.redo)
    /\ s.h.undo = <<>> => s.h.redo = <<>>
    /\ s.epoch \in Nat /\ s.dirty \in BOOLEAN

\* Rows are well formed, and in every published state the stacks are distinct
\* positions of the journal.
TypeOK ==
    /\ row \in [Drafts -> Rows]
    /\ \A d \in Drafts : row[d].st = "absent" <=> row[d].text = None
    /\ IsState(live)
    /\ attempt # None => IsState(attempt.base) /\ IsState(attempt.target)
    /\ {moved, flag} \subseteq BOOLEAN

\* A request that edits, undoes, redoes or restores leaves a draft alone once
\* it was approved, though the approval came after its checks
\* ("never-approved pending previews", pending_service.py:1).
ApprovedIsFrozen ==
    [][op # NoOp /\ op' # op =>
          \A d \in Drafts : row[d].used => row'[d] = row[d]]_vars

\* What is deployed is the text whose digest was approved, although the
\* approval and an edit may have overlapped.
RunsAsApproved == \A d \in Drafts : row[d].st = "running" => row[d].digest = row[d].text

\* A tab saves only what nobody has changed since it opened it, not even
\* there and back (pending_service.py:493).
SaveIsFresh ==
    [][op # NoOp /\ op' = NoOp /\ row' # row /\ op.tab # None =>
          editor[op.tab].fresh]_vars

\* The published history is an undo stack between barriers.
T == INSTANCE Timeline WITH
        Entries <- Nat \ {0},
        done <- live.h.undo, redo <- Reverse(live.h.redo)

IsTimeline == T!TimelineSpec

=============================================================================
