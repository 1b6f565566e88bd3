# Verification of network_copilot

`backend/` is a Flask application that lets students, teachers, operators and an AI
assistant configure network devices over SSH. A change is previewed, approved and
applied; applying it takes a backup, writes to the router and verifies the result.
This directory holds TLA+ models of that system, the TLC configurations that check
them, and TLAPS proofs about them. Paths below are relative to
`backend/src/network_copilot/` unless they start with `backend/` or `docs/`.

## 1. Inventory

One Gunicorn worker runs the application; its threads serve the requests
(`topology/bootstrap_jobs.py:7`, `backend/README.md:135`). State is either a row of
the SQLite database, which survives a restart, or memory of the process, which does
not.

| Component | State | Operations | Hard behaviour | What makes it correct |
|---|---|---|---|---|
| Changes (`changes/service.py`, `batch_service.py`) | `change_requests`, `change_batches` | preview, approve, cancel, apply, apply a batch | read-then-write rows with no version, long SSH calls, children that fail | what was carried out stays; a batch reports its children; an approval is used once |
| Leases and baselines (`governance/workflow.py`, `governance/routes.py`, `backups/`) | `device_leases`, `devices.baseline_revision`, `config_backups` | claim, release, administrator release, capture | crash between claim and release, stale releases | one deployment per device; a write only on the approved baseline |
| Request lock (`history_extension/pending_routes.py`) | a process-wide lock | acquire and release around a request | covers some routes only | it always comes back |
| Chat (`chat/routes.py`) | the batch of a chat answer | apply suggestion, apply, cancel | outside the request lock | the same guarantees as the other routes |
| Checkpoints (`checkpoints/`) | a stack of steps per device | undo, redo, rename, record after apply | check, then create a change later | restores follow the stack order |
| Pending workspace (`history_extension/pending_service.py`) | in-memory timeline per owner, pending rows | edit, undo, redo, restore, recover | publication after commit, compare-and-swap | memory and rows agree or recovery is flagged |
| History manager (`history_extension/history_manager.py`) | undo and redo stacks, a journal | push, undo, redo, backup, restore | any order of calls | the stacks are one timeline |
| Users (`auth/`, `governance/routes.py`) | accounts, `token_version`, tokens | create, edit, deactivate, hand over the administration | checks on rows another request changes | one administrator; a token fits its role |
| Projects (`projects/`) | owner, members, environment, SSH default | create, share, leave, delete | roles that cap an access level | access is what was shared |
| Groups, permissions (`groups/`, `governance/access.py`) | members, invitations, grants | invite, join, grant, delegate, revoke, suspend | revocation, expiry and scope through a chain | no right without its grantor's |
| Approval, reservations (`governance/workflow.py`, `governance/routes.py`) | policy, change rows, bookings | preview, approve, apply, reserve | what an approval rests on changes before the apply; check and insert | nothing is written without live authority; no double booking |
| Learning (`governance/learning.py`, `quotas.py`) | drafts, assignments, submissions, labs, daily use | submit, grade, create and operate a lab | a provider called between two commits | quotas hold; a lab's status is true until its deadline |
| Devices, credentials, trash (`devices/`, `credentials/`) | device rows, logins, restore tokens | create, import, provision, delete, undo | row ids that come back, no enforced foreign keys | nothing of one device reaches another |
| Topology (`topology/service.py`, `design.py`, `blueprints.py`, `chat_import.py`, `pnetlab_import.py`) | cables and design rows | cable, address, copy, build, import | several rows per request, checks against other rows | nothing dangles |
| Versions (`topology/versions.py`, `projects/exchange.py`) | saved documents | save, delete, restore, prune | a restore commits row by row | what was saved by hand stays; logins survive |
| Jobs (`topology/bootstrap_jobs.py`, `bootstrap*.py`, `pnetlab_export.py`, `integrations/`) | registry in memory, a PNETLab server, consoles | export, bring up, bootstrap | threads, lost answers, other people on the server, restart | another's lab and configured nodes are left alone (section 8 has the exceptions); a job ends |
| SSH client (`ssh/client.py`, `ssh/panos.py`) | one session | show, configure, exec | prompts, silence, rejected lines, lost commits | what is reported done was done; a commit is whole |
| Monitoring (`monitoring/`, `commands/`) | snapshots, device status, executions | sweep, refresh, test, read-only command | devices deleted meanwhile, failed saves | one failure costs one device |
| Realtime (`realtime/`) | stream counter | open, tell, close | a page that leaves early | a page is told of the last change |
| AI, parsers, exchange, audit | prompts, text, append-only rows | generate, parse, import, export | external services | mostly conversions |

Components meet in four places: every write to a router goes through
`_apply_approved_change`; every preview through `workflow.bind`; every route of the
change lifecycle through the request lock, except those of the chat; and `checkpoints`
is called back by a deployment that succeeded.

`PROJECT.json` lists each component with its status, and under "hazards" what is hard
to test here, at its line, with the properties that cover it or the reason why none
does.

## 2. Plan

| Order | Module | Composes | Abstract specification, properties | Theorems |
|---|---|---|---|---|
| 1 (done) | `Deployment` | changes, leases, request lock, chat routes, backups | exclusion, fencing, baseline, what was carried out stays, liveness | type, exclusion, fencing, baseline, lease owners, running is leased, batch outcome, what was carried out stays |
| 2 (done) | `UndoStack`, `Checkpoints` | restores and deployments on one device | the steps of a device implement an undo stack | type, fresh restores, stack order, redo target |
| 3 (done) | `HistoryManager`, `Timeline`, `PendingWorkspace` | drafts, their history, and the routes that approve them | the published history implements `Timeline`, which extends `UndoStack` | type, `ApprovedIsFrozen`, `RunsAsApproved`, the refinement |
| 4 (done) | `Accounts`, `Projects`, `Access`, `Approval`, `Learning` | each extends the one before | who may do what, when and for how long | double bookings, lab quota, lab status, one administrator, tokens, student work, permissions handed on, transfer, authority at the write |
| 5 (done) | `Inventory`, `Diagram`, `Versions` | each extends the one before | rows follow their device; restores lose nothing | all of them: type, rows, drawing, what a restore keeps |
| 6 (done) | `Bootstrap`, `LabExport`, `SshSession`, `Monitoring` | put side by side by `MCOperations` | what is done to devices outside a deployment | `OneFailureIsOne`, `DoneInStep`, `AllOrNothing`, `HandLabKept`, `LeftAlone` |
| 7 (done) | `Versions_proofs` | | `TopologySpec`, a general specification of `Versions` | those of row 5 |
| 8 | `AssistantTurn` | a chat turn with its quota, provider call and stored answer | an answer is charged once and stored with what it proposes | |
| 9 | `Exchange`, `Commands` | project files; wrapping, validation and risk of commands | against reference definitions | none (data) |

Modules that will be proved about declare no RECURSIVE operator: recursion goes into
recursive functions or folds.

## 3. Deployment

### Correspondence

| Variable | Code |
|---|---|
| `status` | `status` of `change_requests` and `change_batches`; `"absent"` before the insert |
| `signed` | the rows with `approved_at` set: somebody has approved them |
| `baseRev`, `baseCfg` | `baseline_revision` and `baseline_hash` of a change, frozen by `workflow.bind` and `prepare_change` |
| `revision` | `devices.baseline_revision` |
| `newest` | `running_config` of the newest `config_backups` row of a device |
| `lease` | the `device_leases` row of a device |
| `config` | what the router really runs |
| `lock` | `request_lock` |
| `req` | the local variables and the ORM session of each request thread; `pc` is the statement it has reached |
| `releasing` | the rows an administrator's release request has read |
| `pushes` | history only: the writes sent to each device |

A request is an action that begins it (`ApproveRead`, `CancelRead`, `ApplyRead`,
`ApplyBatchRead`, `BaselineRead`, `ChatSubmit`) and one action per statement that
commits or that waits for SSH. Between two of them any other request, an
administrator, an undo of drafts, a restart or a person on the router may act.

* Session and commit. `approve`, `cancel` and their batch forms test a row they have
  read and then write it by primary key. `seen` keeps what was read. `cancel_batch`
  may or may not see fresher children, since `capture_before` refreshes the rows it
  reads; `CancelCommit` allows both.
* The request lock covers POST and PATCH under `/api/changes` and
  `/api/change-batches`, and `/api/pending-history`. Previews only insert rows and are
  one action; a preview under the lock or not makes no difference. The chat routes,
  the baseline and the lease release do not take it.
* Refusals that depend on data the model leaves out (permission, digest, expiry,
  reservation, confirmation phrase, changed connection identity) are alternatives that
  may or may not be taken. Where refusing changes nothing, the action simply does not
  happen.
* `Preview` is atomic: `bind` reads the revision in the request that inserts the row,
  and a revision read too early can only lead to a refusal later.
* A configuration is a value of `Configs`; the hash tells two of them apart. A
  `baseline_hash` that is NULL (no backup yet) is `None` and matches everything, as in
  the code.
* `MoveDrafts` is `/api/pending-history/undo`, `redo` and `restore`: one transaction
  under the request lock that cancels drafts and reopens cancelled ones
  (`history_extension/pending_service.py:54`, `:322`). Only drafts nobody has approved
  can move (`Draft`), a batch with its children. Which drafts a history names is the
  matter of section 5; here it is any of them, at any moment at which the lock is
  free.
* `Push` may fail after the device accepted some lines: the configuration afterwards
  is any of `Configs` in every case. An EXEC command may ask something first: `Push`
  then goes to `asked`, and `PromptShown` is the device's next word.
* An exception raised inside the pipeline (`raised`) is distinguished from a failure
  that `_fail` reports: in a batch the first is caught by `apply_batch`, which calls
  `_fail` a second time after the lease is gone (`Refail`).
* `AdminReleaseRead` requires that no request works under the lease: the route demands
  `confirm_worker_stopped`, and the model takes the administrator's word for the
  moment the lease is read, not for later.
* `Drift` (a person configures the router) is not taken between the reading of the
  backup's hash and the write; `docs/scoped-backend.md:133` leaves that moment to the
  router.
* `Crash` is the end of the worker: sessions and lock are lost, rows stay. Nothing
  recovers rows at start-up, and so the model has no recovery action.

Every step of the pipeline, the reading of the device after the claim
(`changes/service.py:982`) included, may also raise (`raised`).

Not modelled here: database errors after a success (a locked SQLite file), how the
Pending editor changes the text of a draft (section 5), `reject` (section 6),
checkpoint restores (they enter as previews; section 4), and notifications and audit
rows.

### Runs

| Run | Specification | Shows |
|---|---|---|
| `deployment_locked` | `FairSpec` | Two children on two devices, a competing standalone change, an undo of drafts, one administrator, one restart: `TypeOK`; a running change can be found through its lease (`RunningIsLeased`); the status of a batch is that of its children (`BatchOutcome`); what was carried out stays as it ended, and what was cancelled comes back only as a draft nobody has approved, while no request holds the lock (`TerminalStays`). If no device stays for ever in the dialogue of an EXEC command (`DevicesAnswer`), deployments end unless the worker is restarted (`DeploymentEnds`), and the lock comes back (`LockComesBack`) |
| `deployment_chat` | `Spec` | A chat batch outside the lock against a standalone change of the same device, with a restart, an edit by hand or a baseline capture: `LeaseExclusion`, `RevisionFencing`, `PushOnBaseline`, `LeaseHasOwner`, and the inductive invariant `IInv` |
| `deployment_cancel` | `Spec` | violated: the chat cancel route marks as cancelled what is being deployed (`CancelOnlyBeforeRun`) |
| `deployment_admins` | `Spec` | violated: two administrators who release one orphaned lease free a device on which a new deployment has begun (`LeaseExclusion`) |

`TerminalStays`, `RunningIsLeased` and `BatchOutcome` are claims about the routes
under the lock: the instance of `deployment_locked` has no chat batch, and
`deployment_cancel` shows what the chat's cancel does to them.

Bounds. Each change is previewed once and written at most once, so statuses, revisions
and histories are bounded by the number of changes; `MaxCrashes`, `MaxDrift` and
`MaxBaselines` bound what else could go on for ever, and `MaxEvents` the three
together: a behaviour of `deployment_chat` has one of them, beside the captures of the
chat request itself, so a stale capture and a manual edit do meet; the theorems hold
for any number of each. Two threads let every pair of requests interleave; the claims
concern pairs of requests. Two changes of one device are what fencing and exclusion
are about; a batch of two is what a partial outcome needs. Two configurations suffice,
as they are only compared with one baseline. The run with an administrator race needs
a third change: one whose lease is orphaned, one that claims, one that intrudes.
Threads and configurations are symmetric; no symmetry is used with the liveness
properties. Deadlock is not checked: when every change has ended and the bounds are
used up, nothing is left to do.

Fairness. `FairSpec` is weak fairness of each thread's `Step`, except at `asked`: a
request that has begun goes on, as threads are scheduled and every SSH call has a
timeout (`ssh/client.py`) but one. The loop that answers the questions of an EXEC
command (`ssh/client.py:314-338`) looks at its deadline only when what it has read
does not end in a question. When a device falls silent after one, the text goes on
ending in it, and the loop answers it again and again. Such a device keeps the
deployment, and with it the lease and the request lock, although the docstring
(`ssh/client.py:293-300`) promises an error "once `command_timeout` has elapsed". The
model lets it: no fairness is assumed of `PromptShown`, and the two liveness
properties say so with `DevicesAnswer`. No request is obliged to arrive, no
administrator to act.

### Findings

* `chat/routes.py:348-364` cancels without the request lock, and
  `changes/batch_service.py:224-246` writes the status unconditionally, so a running
  deployment becomes `cancelled` (and later `success` or `failed`, as `Finish` writes
  unconditionally too). `backend/README.md:614` and `docs/scoped-backend.md:198` say
  otherwise.
* `governance/routes.py:553` deletes a lease by its device, whatever change it has
  come to name. `docs/scoped-backend.md:131` promises that the lease keeps two workers
  apart.

### Proofs

`Deployment_proofs` proves, for any sets of changes, batches, devices, threads and
configurations and any bounds:

* `TypeCorrect`: `Spec => []TypeOK`. It is split into the sessions (`SessionStep`,
  `SessionArrive`) and the rows (`DataStep`, `DataArrive`).
* `Invariant`: `Spec => []IInv`, assuming `OneAdmin`.
* `LeaseIsExclusive`, `WritesAreFenced`, `WritesOnBaseline`: its consequences
  `LeaseExclusion`, `RevisionFencing`, `PushOnBaseline`.

None of the three is inductive. `IInv` adds that a request in the pipeline holds the
lease of its device and that a lease about to be deleted protects nobody
(`LeaseHeld`), that a change that was written is never previewed again (`Previewed`),
and that at each statement of the pipeline the revision and the configuration just
checked are still those of the device (`Fenced`). The argument: the lease makes the
pipeline's statements of one device sequential; so the revision that `Check` compared
is the one `Bump` passes; after `Bump` the revision is above every write, and an
approval bound to the older one is refused. The proof follows that order: control flow
(`RouteOf`), rows (`RowsStep`), leases (`LeaseStep`, `LeaseOther`), fence
(`FencedStep`, `FenceOther`).

`OneAdmin` says that at most one request at a time releases leases. It is needed:
`deployment_admins` violates the theorem's conclusion without it. The other
assumptions, declared in `Deployment`, say that the constants are of the right kind,
that the rows of two tables are distinct, and that a batch has one change per device.

`Leases_proofs` adds where leases come from and where they go:

* `LeasesHaveOwners`: `Spec => []LeaseHasOwner`, for any number of Admins. The
  pipeline has one way out, and it releases (`OneWayOut`).
* `RunningHoldsLease`: `Spec => []RunningIsLeased`, assuming `OneAdmin`. Its invariant
  `LeaseBook` adds that a change whose lease is about to be deleted is settled, and
  that an Admin's release still names the lease it read.

`Batch_proofs` says what becomes of the rows, assuming `NoChat`: no batch belongs to a
chat, whose cancel `deployment_cancel` shows to break both.

* `BatchTellsOutcome`: `Spec => []BatchOutcome`.
* `EndedStays`: `Spec => TerminalStays`.

Their invariant `BatchInv` says that who works on a change has the request lock
(`Serial`); that a batch which has ended agrees with its children (`Agrees`); that
`apply_batch` knows of each child what the rows say, and the children it has not come
to are still to be applied (`Plan`); and that a change an Admin saw running is one a
restart left behind (`Orphaned`). The last is what a release needs: it fails a change
whose worker is gone, and no request can come back to it. An undo of drafts finds the
lock free, so nobody under it has read what it moves, and what it moves was never
approved, so it was never running and is in no request's plan. `BatchHasChildren`, an
assumption of `Deployment`, is the refusal of an empty batch
(`changes/batch_service.py:101`).

Only model-checked: the liveness properties, which are out of the prover's reach.

## 4. Checkpoints

`UndoStack` is what any undo history promises: the steps in effect, the steps that can
be redone, and `Do`, `Undo`, `Redo`. `Checkpoints` models `checkpoints/service.py`
with the deployments that call it back.

| Variable | Code |
|---|---|
| `change` | a `change_requests` row: status, mode, revision, baseline, and `from`, the snapshot the commands of a restore were computed from |
| `steps` | the `config_checkpoints` rows of the device in the order of `created_at` and `id` |
| `revision`, `newest`, `lease`, `config` | as in `Deployment`, for one device |
| `req` | the local variables of a request: a restore being staged, or a deployment |

Every query of the component is by device, so one device is modelled. `pending` stands
for `pending_approval` and `approved`: both are live for `_device_busy`, and `Claim`
contains the approval. The pipeline is the sequence of its commits; its exclusion, its
fence and its baseline check are what `Deployment` establishes. A restore reads
(`RestoreRead`), takes its snapshot over SSH (`Snapshot`), commits the change with the
step's new post state (`Stage`), and commits the link from the step to the change
(`Link`); a deployment commits its success (`Finish`) before its step (`Record`). The
difference of two configurations (`checkpoints/diff.py`) is abstracted to whether it
is empty, and the result of a write is any configuration, since some lines are skipped
on purpose. EXEC changes leave the configuration alone and record nothing.

| Run | Shows |
|---|---|
| `checkpoints_stack` | one request at a time, four changes, one restart or edit by hand at any moment, every failure: `IsStack` (the steps implement `UndoStack`), `RestoreFromSnapshot`, `RedoReturns`, `TypeOK` |
| `checkpoints_overlap` | violated with two requests: `StackOrder`. An undo that is requested after a deployment's success is committed, and before its step is, ends below an active step |

One request at a time is what the order of the steps needs, and `checkpoints_overlap`
shows it: nothing is checked again after the SSH read of a restore.
`RestoreFromSnapshot` needs less, and `RestoreIsFresh` says what: no deployment may
back the device up between the snapshot of a restore (`Snapshot`) and the commit of
its change (`Stage`), which binds the change to the newest backup. When one does, the
commands of the restore were computed from one configuration and its approval is bound
to another, which the hash check then finds on the router, although
`checkpoints/service.py:277-280` says that what the device carries is what the
commands were computed from. Four changes allow two edits and two restores, or an
edit, an undo, a redo and an undo, or a new edit on top of an undone one. The
refinement maps `done` to the indices of the active steps and `redo` to those of the
undone ones; everything else a step may do, a restart between success and record
included, is a stutter or a `Do`. Symmetry over changes and configurations is sound
here: all the properties are safety properties that only compare them.

`Checkpoints_proofs` proves, for any changes, configurations and faults:

* `TypeCorrect`: `Spec => []TypeOK`, for any number of requests. `TypeInv` adds what a
  request knows at each statement (`Ready`) and that an undone step has what a redo
  needs (`Redoable`).
* `RestoreIsFresh`, for any number of requests: `Spec /\ []Undisturbed` implies
  `RestoreFromSnapshot`, where `Undisturbed` is the condition just named. Its
  invariant says that a change was bound to the snapshot its commands come from
  (`BaseIsFrom`), and that a deployment which has passed its check still has that
  configuration before it (`Fenced`).
* `OrderKept`, `UndoKeepsReturn`, `MovesAreStack`, assuming `OneRequest`. Their
  invariant `Book` says that an approval of a restore is bound to the snapshot its
  commands come from (`ChangeBook`); that a request which restores found no step
  waiting for a change that can still be claimed, and one that writes has made every
  other restore stale (`RequestBook`); and that the step a restore may still be
  recorded for is the one that is due, and has its snapshot as post state
  (`PendBook`). `OrderKept` is `StackOrder`, which `checkpoints_overlap` violates with
  two requests; and `MovesAreStack` says that a step of the component leaves the
  states of all steps, appends an active one and discards the undone, undoes the
  newest active one, or redoes the one undone last.

Only model-checked: `IsStack`, which says the same of the sequences `SelectSeq` makes
of the steps. `SelectSeq` is a recursive function, and what it computes of every
sequence is an induction.

Not modelled: `rename`, `list_checkpoints` (it reads), devices that are not Cisco IOS
(they are refused), and `CONFIG_CHECKPOINTS_ENABLED=false`.

## 5. Pending workspace

`HistoryManager` is a value with operators, as the class is: a journal that only grows
and two stacks of positions in it. `Timeline` is what a draft history promises: an
`UndoStack` between barriers, where a barrier (data changed behind its back, a
restored backup, a restart) leaves nothing reachable from before it.
`PendingWorkspace` is the service around it.

| Variable | Code |
|---|---|
| `row` | the owner's `change_requests` and `change_batches`; a batch and its children are written together everywhere and are one draft |
| `moved` | the device's address or name differs from the one frozen in the draft |
| `live` | `HistoryManager._state` with the fingerprints (`expected`), epoch and dirty flag of the workspace |
| `attempt`, `flag` | `_attempt`, a publication not acknowledged, and `_recovery_flag` |
| `saved` | the last backup file downloaded |
| `editor` | what each browser tab has open; `fresh` is history only |
| `op` | the pending-history request, under the request lock and `work.lock`, that waits for its commit |
| `req` | the lifecycle request of each client, with the hooks around it |

An editor request prepares rows and a successor of the live history (`Prepare`), and
commits later, compare-and-swap: between the two a client may approve, cancel or claim
a draft. The commit may succeed, be refused, raise with the rows on disk or not
(`CommitRaises`, then `ReadBack`), or succeed with a publication that fails
(`CallbackFails`). The clients do not take the request lock, since chat, checkpoints
and drafts do not.

`pending_edit` checks two drafts, two texts, a tab, a client, a journal of three
entries when a request begins and one fault of any kind. Two drafts make the snapshot
of one editor go stale through the other; three entries allow an edit, its undo and
what follows. Drafts and texts are only compared, so both are symmetric. The
properties say that no editor request touches a draft approved meanwhile
(`ApprovedIsFrozen`), that what runs has the text whose digest was approved
(`RunsAsApproved`), that a tab saves only over what it opened (`SaveIsFresh`), and
that the published history implements `Timeline` (`IsTimeline`: positions of the undo
stack are the steps done, those of the redo stack, reversed, the steps to redo). Not
modelled: the order of rows in a batch, texts shown to the user, several owners (each
has a workspace of its own).

`PendingWorkspace_proofs` proves, for any drafts, texts, tabs and clients and any
bounds:

* `ApprovalBeatsEditor` (`ApprovedIsFrozen`). The waiting request pins the rows it
  read and has only drafts in them that may still be edited (`OpInvariant`); the
  commit compares those rows with the database, so one approved meanwhile cannot be
  among them.
* `DeploysWhatWasApproved` (`RunsAsApproved`). A claim compares the approved digest
  with the row it starts.
* `WorkspaceTyped` (`TypeOK`) and `TimelineKept`, the refinement of `Timeline`. Their
  invariant `WorkspaceInv` says that every state that is published, prepared, kept as
  an attempt or backed up is a history whose stacks are distinct positions of its
  journal (`IsHistory`), and that what is prepared, and the target of an attempt, is
  one step of the timeline away from what is live, or from its base (`Follows`).
  `Follows` is where the failures matter: a publication that comes late still starts
  from the state it was prepared on, because nothing else may publish while a request
  waits, and an attempt is taken only from its base or its target. A save prepares two
  steps at once, to synchronize and to record; together they are one `Do` or one
  `Barrier`, since all positions after a barrier are beyond the old journal
  (`StillLater`). `MoveIsStep` then turns `Follows` into the steps of `Timeline`, with
  the redo stack reversed (`ReverseAppend`, `ReverseFront`).

* `SavesAreFresh` (`SaveIsFresh`). The compare-and-swap sees contents only, so a draft
  that was changed there and back would pass it. What a revision has besides is the
  epoch, and the proof is about when that is enough. Its invariant `FreshInv` says
  that a draft written since its tab opened it is not active again while the epoch is
  the same (`StaleSound`), unless a write waits to be read back or a recovery is
  required, and nothing is saved then. Such a draft must also differ from what the
  published history shows: a refresh that finds the history right keeps the epoch, and
  would otherwise make the tab valid again. Therefore what a packet writes is new to
  the published state or was in the row before (`WritesNews`), a packet with an old
  epoch writes what is there already (`Restates`), and outside a recovery the history
  agrees with the rows on every draft both have (`HistoryAgrees`), which the clients
  keep because a hook that fails leaves the history dirty.

`PendingValues` is assumed: None is neither a text nor what a tab has open, and what a
history without a state returns is no snapshot. `Timeline` has all positive numbers as
entries, so that the refinement does not rest on `MaxJournal`. `FreshInv` was
model-checked on the instance of `pending_edit`, and with two clients and a journal of
one.

## 6. Authority

Each module extends the one before: `Accounts`, `Projects`, `Access` (groups,
invitations, grants), `Approval` (policy, previews, approvals, reservations) and
`Learning` (drafts, assignments, labs, quotas).

* A request is one step, except where two of them can meet: an account request reads
  and commits in two (`Begin`, `Commit`), a reservation and the creation of a lab in
  three under SQLite's write lock (`writer`), an operation on a lab around the
  provider's call, and a deployment in four: `Apply` checks
  (`changes/service.py:942`), `Claim` takes the lease and the row in a transaction of
  its own (`:943`), `Recheck` looks again once the backup is taken (`:1022-1024`) and
  counts the revision up, and `Finished` tells the outcome. Any request may come in
  between. What is left is the time from the second look to the write itself, which
  `docs/scoped-backend.md:133` leaves to the router; what happens there is section 3.
* The deadline of a lab is known to the provider, which stops it then
  (`docs/scoped-backend.md:186`, `:192`; `governance/learning.py:310`, `:344`).
  `LabExpires` is that step. Nothing tells the row, which goes on saying `running`.
* A grant counts only as long as everything it rests on does: `Live` follows `parent`
  up to an administrator, and tests time, scope, suspension and role at each link.
  Time is a clock of a few ticks; an interval that matters (expiry, seven days of an
  invitation, the minutes of an approval) is one or two of them.
* `Digest` is the record an approval is bound to; `DeployAllowed` compares it with
  what holds at each of the two looks.
* `Reject` is the request that always ends in an `IntegrityError`
  (`governance/learning.py:364` writes a status the table refuses).

`authority` puts the parts side by side. The initial state picks `focus`, and with it
the steps that move: overlapping account requests; grants with the group and account
steps that invalidate them; projects; changes under a class of one teacher and one
student; changes of operators and of the assistant; bookings; course work; labs. What
moves is cut to what a property can see: rights are disturbed only after a change was
asked for and before it is written; an account request is alone between its read and
its commit, except in the part about overlaps; the administrator's own changes are
explored in the part about operators; labs have two owners, one of whom may have a lab
from before and whose labs meet their deadline, and the limit of labs is lowered once.
`MaxDisturb` bounds the steps taken against a part (revocations, edits, policy,
transfers of the administration, time), so two of them can hit one change between its
approval and its write. Three users are an administrator, a teacher who delegates and
a student; the part about overlaps has one more, so that a permission is handed on by
a teacher who stays one while the administration changes hands. Student work has two
groups, two devices and two drafts of two versions, so that a draft of another group
or device can be handed in by mistake. Two clients are what overlaps.

The properties: at most one administrator (`OneAdmin`); a token that works has its
user's role, unless requests overlapped (`TokenFitsRoleAlone`); a delegated permission
works only within its issuer's (`WithinIssuer`); no double booking; nobody is given
one more lab than the policy allows at that moment (`LabQuota`, a property of steps,
because lowering the limit takes no lab away); a lab is what it is listed as until its
deadline (`LabTellsTruth`); hand-ins fit their assignment (`SubmittedWork`); a
handover to somebody who may still act takes permissions only from those whose own
accounts it changes and those they handed them on to (`TransferKeepsGrants`); and
nothing is written unless, after the backup, the one who deploys, the author and the
approver still have the authority (`WritesUnderAuthority`).

What is not promised: `TransferKeepsGrants` asks that an active administrator is left,
since the finding below leaves none and every permission ends with the last
administrator; and a successor who was a teacher loses the grants a teacher may have,
and with them those handed on from them. `TokenFitsRoleAlone` leaves overlapping
requests out: `token_version` is read and written back, so two requests on one account
may both count to the same version, and a token issued between their commits then
outlives the second. `auth/model.py:32-34` and `docs/scoped-backend.md:35` promise
otherwise.

`Learning_proofs` proves most of them, from two specifications. `CourseSpec` is the
part of reservations and labs, with any overlap of requests and any crash of a lab
request, and with everything else free to change. `GovernanceSpec` lets all parts move
at once and without the limits of the `authority` run: every step of accounts, groups,
grants, policy, projects, changes, course work, reservations and labs.

* `NoDoubleBookings`, `QuotaHolds`, `LabsAreAsListed`. `CourseInv` says that who
  checks before an insert holds the write lock until it has inserted, so what was
  checked still holds (`NoClash`, `Below`); and that an operation has its lab to
  itself, in status `busy` or `provisioning`, until it says what became of it
  (`Claimed`). `CourseInGovernance` shows that governance implements `CourseSpec`, so
  the three hold in it as well (`CourseHolds`), where the limit and the deadlines move
  too.
* `OneAdministrator`: the partial index refuses a commit that would leave two, and a
  creation looks at all accounts (`AccountInv`).
* `TokensFitRoles`, as long as no two open requests write the same account (`Apart`),
  whatever else overlaps. A request writes an account with its version one higher than
  the row has, so a token of the old role is out of date (`TokenInv`).
* `SubmittedWorkStays`: drafts and assignments grow and nothing in them that a hand-in
  refers to is replaced (`Keeps`).
* `AuthorityAtWrite`: only `Recheck` lets a claimed change be written, whatever moved
  since `Apply` and `Claim`, and its second look is at all that an approval rests on,
  the rights of the property among it; nothing pending has an approver yet
  (`ChangeInv`), so there is none whose rights were not looked at.
* `HandedOnStaysWithin`: `Live` is a recursive function along chains of grants. A
  grant rests on one with a lower id and is in a group if it rests on any
  (`GrantsInv`), so two chains that satisfy the recursion agree, or there would be a
  least grant about which they differ (`ChainsAgree`), and `Live` may be unfolded one
  step (`LiveUnfolds`). What is live is then backed by its issuer's grant in every
  scope it covers.
* `GrantsOutliveTransfer`, for any overlap of account requests: a commit that makes a
  teacher of an administrator is that administrator's transfer (`MoveInv`), and puts
  the successor as issuer on every root grant along with the roles. A grant whose
  holder and issuer keep their accounts then stands as before, so it can stop being
  live only because the grant it rests on did.

Assumed: `AccountConstants` and what the modules say of their constants; labs are
finitely many. Only model-checked: `TokenFitsRoleAlone`, the form `TokenFitsRole`
takes in a run whose requests may overlap.

Finding, `accounts_transfer` (`AdminRemains`): `governance/routes.py:121` makes a
teacher administrator without looking again whether the account is active. A
deactivation that commits in between leaves no active administrator, which
`auth/service.py:243` says must not be.

## 7. Diagram

`Inventory` has the device rows and what hangs off their ids, `Diagram` cables, design
rows and the requests that make several of them, `Versions` the saved documents.

* A device has a serial number `uid` the program does not have. SQLite hands out an id
  again once the highest one is free, foreign keys are not enforced, and restore
  tokens outlive the device: `uid` tells whether a row belongs to the device that has
  its id now.
* Names and addresses are numbers, because the code picks the lowest free one.
  Networks are disjoint blocks, so that overlap is equality. Ports are canonical
  labels. Passwords are the `uid` they were typed for, or `Shared`.
* A request is one step; one that fails halfway and rolls back by purging what it made
  leaves nothing (`Blueprint`, `Duplicate`). `ImportLab` takes its nodes and cables
  one at a time and keeps those that pass. `RestoreVersion` commits row by row, so a
  document that is refused halfway leaves every state its commits can leave
  (`RestoreStops`, `Write`).

`diagram` explores five focuses, chosen at the start: device rows with deletion and
its undo, cables, imported labs, design rows, versions. Two ids and three births are
what a reused id needs, two links and two ports what a port conflict and a channel
need, and two versions reach the limit at which an automatic one is evicted. A cable
is edited only while nothing is to be undone, and one device at a time is in a group
or has a record. Checked: rows belong to the device that has their id
(`RowsFollowDevice`: logins, group rows and changes, and the records of teaching,
which are grants, assignments, drafts and reservations), nothing dangles
(`NothingDangles`), what was saved by hand stays until it is deleted
(`SavedByHandIsKept`), and logins survive a restore (`RestoreKeepsLogins`).

`RowsFollowDevice` has two exceptions, both the code's. A restore that prunes does not
ask for records of teaching (`topology/versions.py:167-171`), so those of a device it
takes away stay under the id (`left`, `LeftBehind`) and fall to the next device that
gets it, which `devices/service.py:376-378` says must not be. And no deletion removes
a device's `config_checkpoints` (`devices/service.py:337-368`,
`checkpoints/model.py:32`), although `purge_devices` is to take "everything that hangs
off them": the next device with the id starts with the undo steps of its predecessor.
Checkpoints are a module of their own (section 4) whose one device is never deleted,
so this is not modelled here.

Finding, `versions_undo` (`RestoreCanBeUndone`): a diagram imported from a chat
message (`topology/chat_import.py:324`) has plain cables with a network, which
`create_link` refuses. The automatic version a restore saves of such a diagram cannot
be restored, and trying clears the diagram first. `topology/versions.py:7` says a
restore can be undone.

What the model shows beside its properties: `versions.restore` with prune removes
devices without the checks of a deletion (`topology/versions.py:167`); the backup it
takes at the limit may evict the very version being restored, from memory only;
`trash.restore` puts a cable back on whatever device has the far end's id.
`versions._update_in_place` (`topology/versions.py:182`) takes role and kind from the
stored document and leaves the type, so restoring over a device of another type that
has taken the name can leave a managed type with an unmanaged kind. `VersionsTypeOK`
therefore asks a device only what no request can break (`Consistent`: an unmanaged
device has no address and is not planned, one that can be deployed to has an address),
and not `WellFormed`, which the schemas ask of what a request sends.

`Versions_proofs` proves all five properties for `TopologySpec`: every request of the
three modules with any input, batches, labs and documents of any length included, in
any order, one after the other. Two threads that both pass the check of a name or an
address before either inserts (`devices/service.py:146`, `:160`) are not explored. The
inductive invariant `TopologyInv` has four parts, and each needs the others:

* `RegistryInv`: devices have rows of their types and differ in name and address
  (`Apart`); the `uid` of a login, a group row or a change is that of the device, and
  so is that of a record unless a restore left it behind (`RecordsOK`). A name stands
  for one device, which is what turns a document's cables, which have names, into
  cables between ids. Whatever frees an id takes the rows that hang off it
  (`PurgeRows`).
* `DrawingInv`: cables and rows end on devices that are there. A delete takes out what
  touches the device (`Touching`), and a restore writes the whole drawing anew.
* `BinInv`: a restore token outlives its device, its neighbours and their ids, so its
  rows are only well typed and its device consistent, with its own login (`TokenOK`).
  `UndoDelete` therefore looks again at name, address and loopbacks, moves the rows to
  the id it has found and drops the cables whose other end is gone or taken.
* `VersionsInv`: a saved document (`DocOK`) has devices that are apart and cables and
  rows between names it has itself. A restore puts that document over whatever is
  there, so every device of it is found by name or made anew before anything is drawn.

Three families of lemmas carry it. Ranks: of the elements of a finite set in the order
of a key each rank is taken once, so that "the n-th lowest free name" is free and two
of them differ (`RankTaken`, `LowestTaken`, `LowestDiffer`), which the templates,
blueprints, copies and default addresses of an import rest on. Batches: a batch of
rows that are apart from each other and from what is there keeps `RegistryInv`
(`GoodBatch`, `RegistryAdds`). Folds: what is built one element after the other, as
the nodes and the cables of an imported lab and the rows of a design, exists whatever
the step does (`Folded`, from the least length at which it would not), and keeps what
each step keeps (`MadeIsGood`, `JoinedIsGood`).

Assumed: ports are finitely many and not none, networks finitely many, `None` is
neither a number nor a row, and what the modules say of their other constants.

Not modelled: notes, positions, discovery and the linter, import and export of project
files, and configuration text, which is generated and never stored.

## 8. Operations

`Bootstrap` types on consoles, `LabExport` builds labs on a PNETLab server and brings
them up, both in background jobs; `SshSession` is one session with one device, and
`Monitoring` what is read from devices and told to pages. `MCOperations` puts them
side by side with eight focuses: `names`, `bringup`, `ios`, `panos`, `shell`,
`candidate`, `polling`, `pages`.

The parts of it:

* `row`, `node` and `job` are the database, the nodes on the server and the entries of
  `_jobs` with the locals of their threads. Every call to PNETLab is done, refused, or
  done with its answer lost; a console closes at any prompt; other people put labs on
  the server, empty ones too, edit logins and addresses, and the service restarts, up
  to `MaxSpent` such events. A job reads rows when it plans a round and types them
  later (`seen`), as the code does. A console that was silent for the timeout is typed
  another carriage return (`topology/bootstrap.py:337-341`, `:376-380`), whose prompt
  a later read takes for the end of its answer (`integrations/console.py:103-109`):
  from then on the session is `late`, and each look may see nothing of what is there.
  A console may also ask one question after another (`asked`), which are answered
  without an overall deadline.
* `ssh` is the backend's side, `cli` the device: a shell that reads lines when it
  likes, prints its prompt late, asks questions, rejects lines or falls silent;
  `ahead` counts the prompts too many that have come of it; a PAN-OS candidate whose
  commits and reverts may be lost. A command is its place in the batch.
* A sweep collects in worker threads and saves in id order; devices are deleted and
  their ids come back (`uid`) while it runs. A failed commit is rolled back and costs
  one device. A row that is gone, or a flush that fails, makes the handler raise
  again, as it reads `device.hostname` before it rolls back
  (`monitoring/service.py:167-169`), and ends the sweep (`RaiseOut`). A snapshot whose
  status does not change is an insert only, and is stored for an id that is gone
  (`SaveOrphan`). A page is told when the fingerprint of its project changes.

| Property | Says |
|---|---|
| `HandLabKept` | a lab somebody else made, and that had something in it when the job opened it, is never deleted or built into, even under a name taken between the check of an export and its calls |
| `LeftAlone` | an IOS node with another user's login or address is left alone unless the job may overwrite, whatever the database holds by then, in every session whose console answered before the carriage return was repeated |
| `DoneAsReported` | a batch reported as done was typed once, in order, and was done (`DoneInStep`); each prompt too many hides the end of one more command, the last ones of the batch, and nothing else (`DoneButTheLast`) |
| `AllOrNothing` | a PAN-OS batch is in force whole or not at all when its session ends, and its candidate is its own and empty then, unless a revert was lost |
| `OneFailureIsOne` | a sweep that comes to its end has saved each device it polled, or failed it alone; one that raised has done so with every device before the row at which it did |
| `WorkEnds` | jobs, sessions, sweeps and reads end, and an open page is told of the last change, unless a device asks for ever |

What these properties leave out, the code does, and the model contains:

* An empty lab, which PNETLab's own "Add new lab" makes, is taken by `opened()` for
  the one the export asked for, built into, and deleted if the export fails
  (`integrations/pnetlab_writer.py:160-164`, `topology/pnetlab_export.py:500-502`).
  The comment at `:161-162` says that what somebody made in the meantime must not be
  built into.
* In a session that is `late`, the logins and the address of a configured node may not
  be seen, so that it is overwritten, which `topology/bootstrap.py:17-18` says does
  not happen unless the user asks for it.
* A prompt too many comes of a login whose prompt was printed after the banner had
  been drained, of an empty line sent to a silent device, and of an answer typed
  twice. Then the last command of a batch may have been rejected although the batch is
  reported as done. A command that asks something shifts this further, and
  `DoneButTheLast` leaves such batches out; `DoneInStep` has them.
* A revert that fails is only logged (`ssh/panos.py:185`), and the next session's
  commit takes the lines left in the candidate along, although "a change is all or
  nothing" (`ssh/panos.py:10-12`). A commit whose answer was lost may be in force,
  although `backend/README.md:127-131` says that nothing is applied when it does not
  report success.
* A sweep ends at a row that is gone, although `monitoring/service.py:121` says "One
  failure never stops the rest.", and a snapshot may be stored for an id that is gone,
  which the next device with that id has then. Both last until the next sweep.
* Two exports to one name at the same time are not run: the roll-back deletes by path
  (`integrations/pnetlab_writer.py:272`), so the one that fails could delete the
  other's lab, which is nobody's hand-made one.
* A restart forgets the jobs, so a page asking for one gets an error although its lab
  was made. No document promises otherwise.

Bounds. Two jobs: one that builds and one that comes later, with one round again after
a boot. Four devices, a router, a firewall, a PC and a cloud, are the kinds an export
tells apart. `ConnectAttempts` is the code's 3. Two commands in a batch are what an
early prompt needs; two PAN-OS sessions what a candidate left behind needs, while a
shell keeps nothing. Two watched devices are one that fails and one that must not; one
place for two streams is the limit.

Fairness is weak fairness of each backend thread (`Thread(t)`): job threads are daemon
threads of the process whose `_run` catches every exception, every network call has a
timeout, and the scheduler starts the next sweep only when the last is over
(`max_instances=1`). No fairness is assumed of devices, servers, users or the boot of
a node. `WorkEnds` excludes a thread that is at a question again and again
(`Prompting`): `ssh/client.py:314-338` and `topology/bootstrap.py:371-390` answer
without an overall deadline, so a device that asks for ever, and in SSH one that falls
silent after a question, keeps its session. Jobs that a restart ended count as ended.

`Operations_proofs` proves three groups of facts.

* `FailureCostsOneDevice` (`OneFailureIsOne`), for any sweep: while it saves, each
  device it prepared is due, saved or failed (`NothingLost`), and those due come after
  the others, as it takes the lowest id each time.
* `ReportsAreTrue` (`DoneInStep`) and `CommitsAreWhole` (`AllOrNothing`), for
  `SessionSpec`: sessions with any list of commands and any device. The invariant
  `SshInv` says at each stage of a session what was typed (`Stages`, `TypedInOrder`),
  that a PAN-OS device has every line it was given, as a candidate and then for good
  (`Held`), and that as long as no prompt too many was read the device is at the
  command the session believes it is at (`InStep`). `CandInv` adds that of the lines a
  session was given (`Given`) all are in force or none, and none before the commit,
  and that the candidate has no others unless a revert was lost.
* `HandLabsKept` (`HandLabKept`) and `OthersLeftAlone` (`LeftAlone`), for `LabSpec`:
  jobs with any requests on any diagram and server, among people who put labs on the
  server, edit logins and move devices without bound. The invariant `LabInv` says what
  a job holds in each of its stages (`JobOK`), and that matters at the step where it
  acts. From the moment a file is opened until the roll-back it is there, and the job
  created it or found it empty; the nodes still to be added are not there. On a
  console the device at hand is one the round captured (`seen`), of the kind the
  dialogue is for, and between the look and the last command an IOS node carries no
  login and no address but the captured ones, whatever the row says by then, unless
  the session is late. Half of the state belongs to others: a lab that is not there
  has no nodes (`ServerOK`), so that a copy made under a job's name in between
  disturbs no job that believes it holds one.

Assumed: one job at a time works on a lab (`Alone`), as above. `Hosts` is finite, a
name becomes a file of the server or none, and `None` is no row (`LabAssumption`,
`NodeAssumption`).

## 9. What is proved, what is checked, what is left out

| Module | Proves, for every value of the constants | Section |
|---|---|---|
| `Deployment_proofs` | `TypeOK`, `IInv`, `LeaseExclusion`, `RevisionFencing`, `PushOnBaseline` | 3 |
| `Leases_proofs` | `LeaseHasOwner`, `RunningIsLeased` | 3 |
| `Batch_proofs` | `BatchOutcome`, `TerminalStays` | 3 |
| `Checkpoints_proofs` | `TypeOK`, `RestoreFromSnapshot`, `RedoReturns`, `StackOrder` | 4 |
| `PendingWorkspace_proofs` | `TypeOK`, `ApprovedIsFrozen`, `RunsAsApproved`, `IsTimeline`, `SaveIsFresh` | 5 |
| `Learning_proofs` | `NoDoubleBooking`, `LabQuota`, `LabTellsTruth`, `OneAdmin`, `SubmittedWork`, `WithinIssuer`, `TransferKeepsGrants`, `WritesUnderAuthority`, `TokenFitsRole` | 6 |
| `Versions_proofs` | `VersionsTypeOK`, `RowsFollowDevice`, `NothingDangles`, `SavedByHandIsKept`, `RestoreKeepsLogins` | 7 |
| `Operations_proofs` | `OneFailureIsOne`, `DoneInStep`, `AllOrNothing`, `HandLabKept`, `LeftAlone` | 8 |

Most of the inductive invariants were model-checked on the instances of the runs
first. Only model-checked: liveness (`DeploymentEnds`, `LockComesBack`,
`WorkEnds`), which the prover does not do; `IsStack`, whose sequences `SelectSeq`
makes, an induction over data (`StackMove` says the same of indices and is proved);
`DoneButTheLast`, the half of `DoneAsReported` about sessions with a prompt too many;
and `TokenFitsRoleAlone`, which is `TokenFitsRole` outside one focus of its run
(`TokenFitsRole` is proved of requests that do not write the same account).

Five runs end in a violation, and `PROJECT.json` lists what they show as findings.
Beside them the code differs from what it says of itself in these places, each
disclosed where its property makes an exception:

| Code | Says otherwise | Section |
|---|---|---|
| `ssh/client.py:314-338` answers a device that fell silent after a question for ever | `ssh/client.py:293-300` | 3, 8 |
| `checkpoints/service.py:280` and the change of the restore are two commits; a deployment between them moves the baseline | `checkpoints/service.py:277-280` | 4 |
| `auth/service.py`, `governance/routes.py` read and write back `token_version` | `auth/model.py:32-34`, `docs/scoped-backend.md:35` | 6 |
| `governance/learning.py` leaves a lab `running` that the provider has stopped at its deadline | the row itself | 6 |
| `topology/versions.py:167-171` prunes devices with grants, assignments, drafts and reservations | `devices/service.py:376-378` | 7 |
| `devices/service.py:337-368` leaves `config_checkpoints` behind | its own docstring | 7 |
| `integrations/pnetlab_writer.py:160-164` takes an empty lab as its own | the comment at `:161-162` | 8 |
| `topology/bootstrap.py:337-341`, `:376-380` repeat the carriage return and go on out of step | `topology/bootstrap.py:17-18` | 8 |
| `ssh/panos.py:185` only logs a revert that failed | `ssh/panos.py:10-12` | 8 |
| a PAN-OS commit whose answer is lost is reported as failed and may be in force | `backend/README.md:127-131` | 8 |
| `monitoring/service.py:167-169` raises again inside the handler | `monitoring/service.py:121` | 8 |

Not modelled: the assistant's prompts, intents and answers (`ai/`), whose output
enters as previews and chat diagrams; parsers, command validation, templates and
redaction, which are text; project files; encryption of logins; the audit log and
notifications, which nothing reads back; dashboards, static pages and migrations.
