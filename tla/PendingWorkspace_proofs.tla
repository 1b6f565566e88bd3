----------------------- MODULE PendingWorkspace_proofs -----------------------
(***************************************************************************)
(* Approval against the editor, the published history as a refinement of     *)
(* Timeline, and that a save is fresh: for any drafts, texts, tabs and       *)
(* clients, any bound on the journal and any number of faults.               *)
(***************************************************************************)
EXTENDS PendingWorkspace, SequenceTheorems, TLAPS

(* The request that waits for its commit has pinned no approved draft. *)
IsOp ==
    op # NoOp => op = [target |-> op.target, pinned |-> op.pinned, h |-> op.h,
                       epoch |-> op.epoch, before |-> op.before, tab |-> op.tab,
                       sent |-> op.sent]
PinsEligible == op # NoOp => \A d \in DOMAIN op.pinned : Eligible(op.pinned[d])
OpInv == IsOp /\ PinsEligible

-----------------------------------------------------------------------------
(* What the requests of the editor pin. *)

LEMMA PreparePins ==
    ASSUME NEW target, NEW pinned, NEW h, NEW epoch, NEW tab,
           Prepare(target, pinned, h, epoch, tab)
    PROVE  OpInv' /\ row' = row
BY DEF Prepare, Applicable, OpInv, IsOp, PinsEligible, Eligible

LEMMA RequestPins ==
    ASSUME OpInv, PendingRequest
    PROVE  OpInv' /\ row' = row /\ op = NoOp
<1>1. CASE UndoRequest
  BY <1>1, PreparePins DEF UndoRequest, Move, Free
<1>2. CASE RedoRequest
  BY <1>2, PreparePins DEF RedoRequest, Move, Free
<1>3. CASE RestoreRequest
  <2>1. PICK target, pinned, h, epoch : Prepare(target, pinned, h, epoch, None)
    BY <1>3 DEF RestoreRequest
  <2> QED BY <2>1, <1>3, PreparePins DEF RestoreRequest, Free
<1>4. CASE Backup
  BY <1>4 DEF Backup, Free, OpInv, IsOp, PinsEligible
<1>5. ASSUME NEW b \in Tabs, NEW d \in Drafts, OpenEditor(b, d)
      PROVE  OpInv' /\ row' = row /\ op = NoOp
  BY <1>5 DEF OpenEditor, Free, OpInv, IsOp, PinsEligible
<1>6. ASSUME NEW b \in Tabs, NEW x \in Texts, SaveEditor(b, x)
      PROVE  OpInv' /\ row' = row /\ op = NoOp
  <2>1. PICK target, pinned, h, epoch : Prepare(target, pinned, h, epoch, b)
    BY <1>6 DEF SaveEditor
  <2> QED BY <2>1, <1>6, PreparePins DEF SaveEditor, Free
<1> QED BY <1>1, <1>2, <1>3, <1>4, <1>5, <1>6 DEF PendingRequest

(* Clients, claims and the world leave the waiting request alone, or end it. *)
LEMMA OthersKeepOp ==
    ASSUME \/ Status \/ Readdress
           \/ \E c \in Clients : Arrive(c) \/ Proceed(c)
           \/ \E d \in Drafts : Claim(d)
    PROVE  op' = op
<1>1. ASSUME NEW c \in Clients, Arrive(c) PROVE op' = op
  BY <1>1 DEF Arrive, Cancel, Approve, Create
<1>2. ASSUME NEW c \in Clients, Proceed(c) PROVE op' = op
  BY <1>2 DEF Proceed, CommitCore, RecordAfter, RecordFails, ApproveCommit
<1> QED BY <1>1, <1>2 DEF Status, Readdress, Claim

(* Whatever comes of the commit, an approved draft keeps its row. *)
LEMMA WriteFreezes ==
    ASSUME OpInv, op # NoOp, CommitPossible, WriteRows,
           NEW d \in Drafts, row[d].used
    PROVE  row'[d] = row[d]
BY DEF OpInv, PinsEligible, Eligible, CommitPossible, CasHolds, WriteRows, Written

LEMMA OutcomeFreezes ==
    ASSUME OpInv, Outcome
    PROVE  /\ OpInv'
           /\ \A d \in Drafts : row[d].used => row'[d] = row[d]
<1>1. CASE Commit
  BY <1>1, WriteFreezes DEF Commit, OpInv, IsOp, PinsEligible
<1>2. CASE CommitRefused
  BY <1>2 DEF CommitRefused, OpInv, IsOp, PinsEligible
<1>3. CASE CommitRaises
  <2>1. IsOp' /\ (op' # NoOp => op'.pinned = op.pinned)
    BY <1>3 DEF CommitRaises, OpInv, IsOp
  <2>2. OpInv'
    BY <2>1, <1>3 DEF CommitRaises, OpInv, PinsEligible, Eligible
  <2>3. op # NoOp /\ CommitPossible /\ (WriteRows \/ row' = row)
    BY <1>3 DEF CommitRaises
  <2> QED BY <2>2, <2>3, WriteFreezes
<1>4. CASE ReadBack
  BY <1>4 DEF ReadBack, OpInv, IsOp, PinsEligible
<1>5. CASE CallbackFails
  BY <1>5, WriteFreezes DEF CallbackFails, OpInv, IsOp, PinsEligible
<1> QED BY <1>1, <1>2, <1>3, <1>4, <1>5 DEF Outcome

(* Only eligible drafts are ever pinned by the request that waits. *)
THEOREM OpInvariant == Spec => []OpInv
<1>1. Init => OpInv
  BY DEF Init, OpInv, IsOp, PinsEligible
<1>2. OpInv /\ [Next]_vars => OpInv'
  <2> SUFFICES ASSUME OpInv, [Next]_vars PROVE OpInv'
    OBVIOUS
  <2>1. CASE UNCHANGED vars
    BY <2>1 DEF vars, OpInv, IsOp, PinsEligible, Eligible
  <2>2. CASE PendingRequest
    BY <2>2, RequestPins
  <2>3. CASE Outcome
    BY <2>3, OutcomeFreezes
  <2>4. CASE Restart
    BY <2>4 DEF Restart, OpInv, IsOp, PinsEligible
  <2>5. CASE Next /\ ~(PendingRequest \/ Outcome \/ Restart)
    <3>1. op' = op
      BY <2>5, OthersKeepOp DEF Next
    <3> QED BY <3>1 DEF OpInv, IsOp, PinsEligible, Eligible
  <2> QED BY <2>1, <2>2, <2>3, <2>4, <2>5
<1> QED BY <1>1, <1>2, PTL DEF Spec

(* "Never-approved pending previews" (pending_service.py:1): an edit, an undo, a *)
(* redo or a restore leaves a draft alone that was approved after its checks.    *)
THEOREM ApprovalBeatsEditor == Spec => ApprovedIsFrozen
<1> DEFINE Frozen ==
      op # NoOp /\ op' # op => \A d \in Drafts : row[d].used => row'[d] = row[d]
<1>1. OpInv /\ [Next]_vars => [Frozen]_vars
  <2> SUFFICES ASSUME OpInv, Next, op # NoOp, op' # op
               PROVE  \A d \in Drafts : row[d].used => row'[d] = row[d]
    OBVIOUS
  <2>1. CASE PendingRequest
    BY <2>1, RequestPins
  <2>2. CASE Outcome
    BY <2>2, OutcomeFreezes
  <2>3. CASE Restart
    BY <2>3 DEF Restart
  <2> QED BY <2>1, <2>2, <2>3, OthersKeepOp DEF Next
<1> QED BY <1>1, OpInvariant, PTL DEF Spec, ApprovedIsFrozen

-----------------------------------------------------------------------------
(* Rows are records of four columns. *)
IsRow(r) == r = [st |-> r.st, text |-> r.text, used |-> r.used, digest |-> r.digest]
AreRows == DOMAIN row = Drafts /\ row = [d \in Drafts |-> row[d]]
           /\ \A d \in Drafts : IsRow(row[d])
RunInv == AreRows /\ RunsAsApproved

LEMMA WriteKeepsRun ==
    ASSUME RunInv, WriteRows
    PROVE  RunInv'
<1> DEFINE keys == DOMAIN op.pinned
<1>1. row' = [d \in Drafts |->
         IF d \notin keys THEN row[d]
         ELSE IF d \in DOMAIN op.target
              THEN [row[d] EXCEPT !.st = "pending", !.text = op.target[d]]
              ELSE [row[d] EXCEPT !.st = "cancelled"]]
  BY DEF WriteRows, Written
<1>2. ASSUME NEW d \in Drafts
      PROVE  IsRow(row'[d]) /\ (row'[d].st = "running" => row'[d].digest = row'[d].text)
  <2>1. CASE d \notin keys
    BY <1>1, <2>1 DEF RunInv, AreRows, IsRow, RunsAsApproved
  <2>2. CASE d \in keys /\ d \in DOMAIN op.target
    <3>1. row'[d] = [row[d] EXCEPT !.st = "pending", !.text = op.target[d]]
      BY <1>1, <2>2
    <3>2. IsRow(row[d])
      BY DEF RunInv, AreRows
    <3> QED BY <3>1, <3>2 DEF IsRow
  <2>3. CASE d \in keys /\ d \notin DOMAIN op.target
    <3>1. row'[d] = [row[d] EXCEPT !.st = "cancelled"]
      BY <1>1, <2>3
    <3>2. IsRow(row[d])
      BY DEF RunInv, AreRows
    <3> QED BY <3>1, <3>2 DEF IsRow
  <2> QED BY <2>1, <2>2, <2>3
<1> QED BY <1>1, <1>2 DEF RunInv, AreRows, RunsAsApproved

(* A client's commit writes one row, and does not set it running. *)
LEMMA RowKeepsRun ==
    ASSUME RunInv, NEW e, NEW r, row' = [row EXCEPT ![e] = r],
           e \in Drafts => IsRow(r) /\ (r.st = "running" => r.digest = r.text)
    PROVE  RunInv'
<1>1. /\ DOMAIN row' = Drafts /\ row' = [d \in Drafts |-> row'[d]]
      /\ \A d \in Drafts : row'[d] = IF d = e THEN r ELSE row[d]
  BY DEF RunInv, AreRows
<1>2. ASSUME NEW d \in Drafts
      PROVE  IsRow(row'[d]) /\ (row'[d].st = "running" => row'[d].digest = row'[d].text)
  <2>1. CASE d = e
    BY <1>1, <2>1
  <2>2. CASE d # e
    BY <1>1, <2>2 DEF RunInv, AreRows, RunsAsApproved, IsRow
  <2> QED BY <2>1, <2>2
<1> QED BY <1>1, <1>2 DEF RunInv, AreRows, RunsAsApproved

(* A row keeps its shape whatever is written into its used column. *)
LEMMA UsedKeepsShape ==
    ASSUME NEW p, NEW b, IsRow(p)
    PROVE  LET s == [p EXCEPT !.used = b] IN IsRow(s) /\ s.st = p.st
<1> DEFINE s == [p EXCEPT !.used = b]
<1>1. s = [st |-> p.st, text |-> p.text, used |-> b, digest |-> p.digest]
  BY DEF IsRow
<1> QED BY <1>1 DEF IsRow

(* The row an approval writes. *)
LEMMA ApprovedRow ==
    ASSUME NEW q, NEW x, IsRow(q)
    PROVE  LET r == [q EXCEPT !.st = "approved", !.used = TRUE, !.digest = x]
           IN  IsRow(r) /\ r.st = "approved"
<1> DEFINE p == [q EXCEPT !.st = "approved"]
           s == [p EXCEPT !.used = TRUE]
           t == [s EXCEPT !.digest = x]
<1>1. IsRow(p) /\ p.st = "approved"
  BY DEF IsRow
<1>2. IsRow(s) /\ s.st = "approved"
  <2> HIDE DEF p
  <2> QED BY <1>1, UsedKeepsShape, Zenon
<1>3. IsRow(t) /\ t.st = "approved"
  <2> HIDE DEF s
  <2> QED BY <1>2 DEF IsRow
<1> QED BY <1>3

(* What runs has the text whose digest was approved, although an approval and an  *)
(* edit may have overlapped: deployment_allowed compares the digest with the row. *)
THEOREM DeploysWhatWasApproved == Spec => []RunsAsApproved
<1>1. Init => RunInv
  <2> SUFFICES ASSUME row = [d \in Drafts |-> NoRow] PROVE RunInv
    BY DEF Init
  <2>1. IsRow(NoRow) /\ NoRow.st # "running"
    BY DEF IsRow, NoRow
  <2> QED BY <2>1 DEF RunInv, AreRows, RunsAsApproved
<1>2. RunInv /\ [Next]_vars => RunInv'
  <2> SUFFICES ASSUME RunInv, [Next]_vars PROVE RunInv'
    OBVIOUS
  <2>1. ASSUME row' = row PROVE RunInv'
    BY <2>1 DEF RunInv, AreRows, IsRow, RunsAsApproved
  <2>2. CASE UNCHANGED vars
    BY <2>1, <2>2 DEF vars
  <2>3. CASE PendingRequest
    <3>1. row' = row
      BY <2>3 DEF PendingRequest, UndoRequest, RedoRequest, RestoreRequest, Backup,
                  OpenEditor, SaveEditor, Move, Prepare
    <3> QED BY <2>1, <3>1
  <2>4. CASE Outcome
    <3>1. WriteRows \/ row' = row
      BY <2>4 DEF Outcome, Commit, CommitRefused, CommitRaises, ReadBack, CallbackFails
    <3> QED BY <2>1, <3>1, WriteKeepsRun
  <2>5. ASSUME NEW c \in Clients, Arrive(c) PROVE RunInv'
    BY <2>1, <2>5 DEF Arrive, Cancel, Approve, Create
  <2>6. ASSUME NEW c \in Clients, Proceed(c) PROVE RunInv'
    <3> DEFINE d == req[c].draft
    <3>1. CASE RecordAfter(c) \/ RecordFails(c)
      BY <2>1, <3>1 DEF RecordAfter, RecordFails
    <3>2. CASE CommitCore(c)
      <4> DEFINE r == IF req[c].pc = "insert" THEN NewRow(req[c].text)
                      ELSE [row[d] EXCEPT !.st = "cancelled"]
      <4>1. row' = [row EXCEPT ![d] = r]
        BY <3>2 DEF CommitCore
      <4>2. ASSUME d \in Drafts PROVE IsRow(r) /\ r.st # "running"
        <5>1. IsRow(row[d])
          BY <4>2 DEF RunInv, AreRows
        <5> QED BY <5>1 DEF IsRow, NewRow
      <4> QED BY <4>1, <4>2, RowKeepsRun
    <3>3. CASE ApproveCommit(c)
      <4> DEFINE r == [row[d] EXCEPT !.st = "approved", !.used = TRUE, !.digest = req[c].text]
      <4>1. row' = [row EXCEPT ![d] = r]
        BY <3>3 DEF ApproveCommit
      <4>2. ASSUME d \in Drafts PROVE IsRow(r) /\ r.st # "running"
        <5>1. IsRow(row[d])
          BY <4>2 DEF RunInv, AreRows
        <5> QED BY <5>1, ApprovedRow
      <4> QED BY <4>1, <4>2, RowKeepsRun
    <3> QED BY <2>6, <3>1, <3>2, <3>3 DEF Proceed
  <2>7. ASSUME NEW d \in Drafts, Claim(d) PROVE RunInv'
    <3>1. row' = [row EXCEPT ![d] = [row[d] EXCEPT !.st = "running"]]
      BY <2>7 DEF Claim
    <3>2. row[d].digest = row[d].text /\ IsRow(row[d])
      BY <2>7 DEF Claim, DigestMatches, RunInv, AreRows
    <3> DEFINE r == [row[d] EXCEPT !.st = "running"]
    <3>3. IsRow(r) /\ r.digest = r.text
      BY <3>2 DEF IsRow
    <3> QED BY <3>1, <3>3, RowKeepsRun
  <2>8. CASE Status \/ Readdress \/ Restart
    BY <2>1, <2>8 DEF Status, Readdress, Restart
  <2> QED BY <2>2, <2>3, <2>4, <2>5, <2>6, <2>7, <2>8 DEF Next
<1>3. RunInv => RunsAsApproved
  BY DEF RunInv
<1> QED BY <1>1, <1>2, <1>3, PTL DEF Spec

-----------------------------------------------------------------------------
(* The state the pending workspace is in. *)

Snapshots == UNION {[D -> Texts] : D \in SUBSET Drafts}

\* A row, which has a text unless nobody wrote it.
IsDraft(r) == r \in Rows /\ (r.st = "absent" <=> r.text = None)
ArePins(p) == DOMAIN p \subseteq Drafts /\ \A d \in DOMAIN p : IsDraft(p[d])

\* The stacks of a history are distinct positions of its journal.
Apart(u, r) ==
    /\ \A i, j \in DOMAIN u : u[i] = u[j] => i = j
    /\ \A i, j \in DOMAIN r : r[i] = r[j] => i = j
    /\ \A i \in DOMAIN u, j \in DOMAIN r : u[i] # r[j]
Distinct(h) == Apart(h.undo, h.redo)
IsHistory(h) ==
    /\ DOMAIN h = {"journal", "undo", "redo"}
    /\ h.journal \in Seq(Snapshots)
    /\ h.undo \in Seq(1..Len(h.journal)) /\ h.redo \in Seq(1..Len(h.journal))
    /\ Distinct(h)
    /\ h.undo = <<>> => h.redo = <<>>

\* What a published state may become in one step of the timeline.
Later(h, k) ==
    /\ \A i \in DOMAIN k.undo : k.undo[i] > Len(h.journal)
    /\ \A i \in DOMAIN k.redo : k.redo[i] > Len(h.journal)
Grows(h, k) == k.undo = Append(h.undo, Len(h.journal) + 1) /\ k.redo = <<>>
Follows(h, k) ==
    /\ Len(h.journal) <= Len(k.journal)
    /\ \/ k.undo = h.undo /\ k.redo = h.redo
       \/ Grows(h, k)
       \/ h.undo # <<>> /\ k.undo = Front(h.undo) /\ k.redo = Append(h.redo, Last(h.undo))
       \/ h.redo # <<>> /\ k.undo = Append(h.undo, Last(h.redo)) /\ k.redo = Front(h.redo)
       \/ Later(h, k)

IsPublished(s) ==
    /\ DOMAIN s = {"h", "expected", "epoch", "dirty"}
    /\ IsHistory(s.h) /\ ArePins(s.expected) /\ s.epoch \in Nat /\ s.dirty \in BOOLEAN

AreDrafts(rs) == rs \in [Drafts -> Rows] /\ \A d \in Drafts : IsDraft(rs[d])
WaitsSound ==
    op # NoOp =>
        /\ op.target \in Snapshots /\ ArePins(op.pinned) /\ op.epoch \in Nat
        /\ IsHistory(op.h) /\ Follows(live.h, op.h)
AttemptSound ==
    attempt # None =>
        /\ IsPublished(attempt.base) /\ IsPublished(attempt.target)
        /\ Follows(attempt.base.h, attempt.target.h)
ClientSound(c) ==
    /\ DOMAIN req[c] = {"pc", "draft", "text", "token"}
    /\ req[c].pc \in {"idle", "insert", "cancel", "record", "approve"}
    /\ req[c].pc \in {"insert", "cancel", "approve"} => req[c].draft \in Drafts
    /\ req[c].pc \in {"insert", "approve"} => req[c].text \in Texts
    /\ req[c].pc \in {"cancel", "approve"} => row[req[c].draft].st # "absent"
    /\ req[c].pc # "idle" => req[c].token \in Snapshots \cup {None}
WorkspaceInv ==
    /\ AreDrafts(row) /\ IsPublished(live) /\ AttemptSound /\ WaitsSound
    /\ (saved # None => IsHistory(saved))
    /\ DOMAIN req = Clients /\ \A c \in Clients : ClientSound(c)
    /\ moved \in BOOLEAN /\ flag \in BOOLEAN

-----------------------------------------------------------------------------
(* What the methods of a history make of it. *)

\* A position further on is still a position of a longer journal.
LEMMA Widen ==
    ASSUME NEW m \in Nat, NEW n \in Nat, m <= n, NEW u \in Seq(1..m)
    PROVE  u \in Seq(1..n)
<1>1. 1..m \subseteq 1..n
  OBVIOUS
<1> QED BY <1>1, SeqMonotonic

LEMMA AppendIs ==
    ASSUME NEW S, NEW u \in Seq(S), NEW e \in S
    PROVE  /\ Append(u, e) \in Seq(S) /\ Append(u, e) # <<>> /\ Len(Append(u, e)) = Len(u) + 1
           /\ Len(u) \in Nat /\ DOMAIN u = 1..Len(u) /\ DOMAIN Append(u, e) = 1..Len(u) + 1
           /\ \A i \in DOMAIN u : Append(u, e)[i] = u[i]
           /\ Append(u, e)[Len(u) + 1] = e
BY AppendProperties, LenProperties

LEMMA PushHistory ==
    ASSUME NEW h, IsHistory(h), NEW s \in Snapshots
    PROVE  /\ IsHistory(PushState(h, s)) /\ Grows(h, PushState(h, s))
           /\ Len(PushState(h, s).journal) = Len(h.journal) + 1
<1> DEFINE n == Len(h.journal)
           k == PushState(h, s)
<1>1. /\ DOMAIN k = {"journal", "undo", "redo"} /\ k.journal = Append(h.journal, s)
      /\ k.undo = Append(h.undo, n + 1) /\ k.redo = <<>>
  BY DEF PushState, Event, IsHistory
<1>2. /\ n \in Nat /\ k.journal \in Seq(Snapshots) /\ Len(k.journal) = n + 1
  BY <1>1, AppendProperties DEF IsHistory
<1>3. h.undo \in Seq(1..n + 1) /\ n + 1 \in 1..n + 1
  BY <1>2, Widen DEF IsHistory
<1> HIDE DEF k, n
<1>4. /\ k.undo \in Seq(1..n + 1) /\ k.undo # <<>>
      /\ Len(h.undo) \in Nat /\ DOMAIN h.undo = 1..Len(h.undo)
      /\ DOMAIN k.undo = 1..Len(h.undo) + 1
      /\ \A i \in DOMAIN h.undo : k.undo[i] = h.undo[i]
      /\ k.undo[Len(h.undo) + 1] = n + 1
  <2> DEFINE S == 1..n + 1  e == n + 1
  <2>1. h.undo \in Seq(S) /\ e \in S /\ k.undo = Append(h.undo, e)
    BY <1>1, <1>3
  <2> HIDE DEF S, e
  <2>2. /\ k.undo \in Seq(S) /\ k.undo # <<>>
        /\ Len(h.undo) \in Nat /\ DOMAIN h.undo = 1..Len(h.undo)
        /\ DOMAIN k.undo = 1..Len(h.undo) + 1
        /\ \A i \in DOMAIN h.undo : k.undo[i] = h.undo[i]
        /\ k.undo[Len(h.undo) + 1] = e
    BY <2>1, AppendIs
  <2> QED BY <2>2 DEF S, e
<1>5. \A i \in DOMAIN h.undo : h.undo[i] \in 1..n
  BY DEF IsHistory, n
<1>6. Distinct(k)
  <2>1. DOMAIN k.redo = {}
    BY <1>1
  <2>2. ASSUME NEW i \in DOMAIN k.undo, NEW j \in DOMAIN k.undo, k.undo[i] = k.undo[j]
        PROVE  i = j
    <3>1. \A a, b \in DOMAIN h.undo : h.undo[a] = h.undo[b] => a = b
      BY DEF IsHistory, Distinct, Apart
    <3>2. ASSUME NEW a \in DOMAIN h.undo PROVE k.undo[a] # n + 1
      <4>1. k.undo[a] = h.undo[a] /\ h.undo[a] \in 1..n
        BY <1>4, <1>5
      <4> QED BY <1>2, <4>1
    <3>3. \A a \in DOMAIN k.undo : a \notin DOMAIN h.undo => a = Len(h.undo) + 1
      BY <1>4
    <3>4. CASE i \in DOMAIN h.undo /\ j \in DOMAIN h.undo
      BY <1>4, <2>2, <3>1, <3>4
    <3>5. CASE i \notin DOMAIN h.undo /\ j \in DOMAIN h.undo
      BY <1>4, <2>2, <3>5, <3>2, <3>3
    <3>6. CASE i \in DOMAIN h.undo /\ j \notin DOMAIN h.undo
      BY <1>4, <2>2, <3>6, <3>2, <3>3
    <3>7. CASE i \notin DOMAIN h.undo /\ j \notin DOMAIN h.undo
      BY <1>4, <3>7
    <3> QED BY <3>4, <3>5, <3>6, <3>7
  <2> QED BY <2>1, <2>2 DEF Distinct, Apart
<1>7. IsHistory(k)
  BY <1>1, <1>2, <1>4, <1>6 DEF IsHistory
<1> QED BY <1>1, <1>2, <1>7 DEF Grows, k, n

LEMMA CheckpointHistory ==
    ASSUME NEW h, IsHistory(h), NEW s \in Snapshots
    PROVE  /\ IsHistory(Checkpoint(h, s)) /\ Later(h, Checkpoint(h, s))
           /\ Len(Checkpoint(h, s).journal) = Len(h.journal) + 1
           /\ Checkpoint(h, s).undo = <<Len(h.journal) + 1>> /\ Checkpoint(h, s).redo = <<>>
<1> DEFINE n == Len(h.journal)
           k == Checkpoint(h, s)
<1>1. /\ DOMAIN k = {"journal", "undo", "redo"} /\ k.journal = Append(h.journal, s)
      /\ k.undo = <<n + 1>> /\ k.redo = <<>>
  BY DEF Checkpoint, Event, IsHistory
<1>2. /\ n \in Nat /\ k.journal \in Seq(Snapshots) /\ Len(k.journal) = n + 1
  BY <1>1, AppendProperties DEF IsHistory
<1> HIDE DEF k, n
<1>3. k.undo \in Seq(1..n + 1) /\ DOMAIN k.undo = {1} /\ k.undo[1] = n + 1 /\ DOMAIN k.redo = {}
  BY <1>1, <1>2
<1>4. IsHistory(k)
  BY <1>1, <1>2, <1>3 DEF IsHistory, Distinct, Apart
<1>5. Later(h, k)
  BY <1>2, <1>3 DEF Later, n
<1> QED BY <1>1, <1>2, <1>4, <1>5 DEF k, n

\* What was later stays later when it grows or is forgotten.
LEMMA StillLater ==
    ASSUME NEW h, NEW k, IsHistory(h), IsHistory(k), NEW s \in Snapshots,
           Len(h.journal) <= Len(k.journal)
    PROVE  /\ Later(h, Checkpoint(k, s))
           /\ Later(h, k) \/ k.undo = <<>> => Later(h, PushState(k, s))
<1>1. Len(h.journal) \in Nat /\ Len(k.journal) \in Nat
  BY DEF IsHistory
<1>2. Later(h, Checkpoint(k, s))
  BY <1>1, CheckpointHistory DEF Later
<1>3. ASSUME Later(h, k) \/ k.undo = <<>> PROVE Later(h, PushState(k, s))
  <2> DEFINE p == PushState(k, s)
  <2>1. p.undo = Append(k.undo, Len(k.journal) + 1) /\ p.redo = <<>>
    BY PushHistory DEF Grows
  <2>2. k.undo \in Seq(Nat) /\ Len(k.journal) + 1 \in Nat
    <3>1. 1..Len(k.journal) \subseteq Nat
      OBVIOUS
    <3> QED BY <1>1, <3>1, SeqMonotonic DEF IsHistory
  <2> HIDE DEF p
  <2>3. /\ Len(k.undo) \in Nat /\ DOMAIN k.undo = 1..Len(k.undo)
        /\ DOMAIN p.undo = 1..Len(k.undo) + 1
        /\ \A i \in DOMAIN k.undo : p.undo[i] = k.undo[i]
        /\ p.undo[Len(k.undo) + 1] = Len(k.journal) + 1
    BY <2>1, <2>2, AppendIs
  <2>4. \A i \in DOMAIN k.undo : k.undo[i] > Len(h.journal)
    BY <1>3 DEF Later
  <2>5. \A i \in DOMAIN p.undo : p.undo[i] > Len(h.journal)
    BY <1>1, <2>3, <2>4
  <2>6. DOMAIN p.redo = {}
    BY <2>1
  <2> QED BY <2>5, <2>6 DEF Later, p
<1> QED BY <1>2, <1>3

\* The state on top is one of the journal.
LEMMA CurrentIs ==
    ASSUME NEW h, IsHistory(h)
    PROVE  /\ h.undo # <<>> => Current(h) \in Snapshots /\ Current(h) # NoSnapshot
           /\ Current(h) = NoSnapshot => h.undo = <<>>
<1>1. NoSnapshot \notin Snapshots
  BY PendingValues DEF Snapshots
<1>2. ASSUME h.undo # <<>> PROVE Current(h) \in Snapshots
  <2>1. Len(h.undo) \in DOMAIN h.undo /\ Last(h.undo) \in 1..Len(h.journal)
    BY <1>2 DEF IsHistory, Last
  <2> QED BY <1>2, <2>1 DEF IsHistory, Current
<1> QED BY <1>1, <1>2

\* Cutting the top off a stack.
LEMMA FrontIs ==
    ASSUME NEW S, NEW u \in Seq(S), u # <<>>
    PROVE  /\ Front(u) \in Seq(S) /\ Last(u) \in S /\ Last(u) = u[Len(u)] /\ Len(u) \in Nat \ {0}
           /\ Len(Front(u)) = Len(u) - 1 /\ DOMAIN Front(u) = 1..Len(u) - 1
           /\ DOMAIN u = 1..Len(u) /\ Front(u) = SubSeq(u, 1, Len(u) - 1)
           /\ \A i \in DOMAIN Front(u) : Front(u)[i] = u[i]
<1>1. Len(u) \in Nat \ {0} /\ DOMAIN u = 1..Len(u) /\ Last(u) = u[Len(u)]
  BY DEF Last
<1>2. \A i \in 1..Len(u) - 1 : u[i] \in S
  BY <1>1
<1>3. /\ SubSeq(u, 1, Len(u) - 1) \in Seq(S) /\ Len(SubSeq(u, 1, Len(u) - 1)) = Len(u) - 1
      /\ \A i \in 1..Len(u) - 1 : SubSeq(u, 1, Len(u) - 1)[i] = u[i]
  BY <1>1, <1>2, SubSeqProperties
<1> QED BY <1>1, <1>3, LenProperties DEF Front

\* The top of one stack put on the other leaves positions distinct.
LEMMA MoveDistinct ==
    ASSUME NEW S, NEW u \in Seq(S), NEW r \in Seq(S), u # <<>>,
           Apart(u, r)
    PROVE  Apart(Front(u), Append(r, Last(u)))
<1> DEFINE f == Front(u)  a == Append(r, Last(u))
<1>1. /\ Len(u) \in Nat \ {0} /\ DOMAIN u = 1..Len(u) /\ DOMAIN f = 1..Len(u) - 1
      /\ \A i \in DOMAIN f : f[i] = u[i]
      /\ Last(u) \in S /\ Last(u) = u[Len(u)]
  BY FrontIs
<1>2. /\ Len(r) \in Nat /\ DOMAIN r = 1..Len(r) /\ DOMAIN a = 1..Len(r) + 1
      /\ \A i \in DOMAIN r : a[i] = r[i]
      /\ a[Len(r) + 1] = Last(u)
  BY <1>1, AppendIs
<1> USE DEF Apart
<1> HIDE DEF f, a
<1>3. \A i, j \in DOMAIN f : f[i] = f[j] => i = j
  BY <1>1
<1>4. \A i \in DOMAIN r : a[i] # a[Len(r) + 1]
  BY <1>1, <1>2
<1>5. \A i \in DOMAIN a : i \in DOMAIN r \/ i = Len(r) + 1
  BY <1>2
<1>6. \A i, j \in DOMAIN a : a[i] = a[j] => i = j
  BY <1>2, <1>4, <1>5
<1>7. \A i \in DOMAIN f : f[i] # Last(u) /\ \A j \in DOMAIN r : f[i] # r[j]
  BY <1>1
<1>8. \A i \in DOMAIN f, j \in DOMAIN a : f[i] # a[j]
  BY <1>2, <1>5, <1>7
<1> QED BY <1>3, <1>6, <1>8 DEF f, a

LEMMA UndoneHistory ==
    ASSUME NEW h, IsHistory(h), CanUndo(h)
    PROVE  IsHistory(Undone(h)) /\ Follows(h, Undone(h)) /\ Undone(h).undo # <<>>
<1> DEFINE n == Len(h.journal)
           P == 1..n
           m == [h EXCEPT !.undo = Front(@), !.redo = Append(@, Last(h.undo))]
           k == Undone(h)
<1>1. /\ DOMAIN m = {"journal", "undo", "redo"} /\ m.journal = h.journal
      /\ m.undo = Front(h.undo) /\ m.redo = Append(h.redo, Last(h.undo))
  BY DEF IsHistory
<1>2. /\ DOMAIN k = DOMAIN m /\ k.journal = Append(h.journal, Current(m))
      /\ k.undo = m.undo /\ k.redo = m.redo
  BY <1>1 DEF Undone, Event
<1> HIDE DEF m, k, P
<1>3. /\ h.undo # <<>> /\ h.undo \in Seq(P) /\ h.redo \in Seq(P) /\ n \in Nat
      /\ Len(h.undo) > 1 /\ h.journal \in Seq(Snapshots)
  BY DEF IsHistory, CanUndo, P
<1>4. /\ m.undo \in Seq(P) /\ m.redo \in Seq(P) /\ m.undo # <<>>
      /\ Last(m.undo) \in P
  <2>1. Len(h.undo) \in Nat
    BY <1>3
  <2>2. /\ m.undo \in Seq(P) /\ Last(h.undo) \in P /\ Len(m.undo) = Len(h.undo) - 1
    BY <1>1, <1>3, FrontIs
  <2>3. m.undo # <<>>
    BY <1>3, <2>1, <2>2
  <2> QED BY <1>1, <1>3, <2>2, <2>3, AppendIs, FrontIs
<1>5. Current(m) \in Snapshots
  BY <1>1, <1>3, <1>4 DEF Current, P
<1>6. k.journal \in Seq(Snapshots) /\ Len(k.journal) = n + 1
  BY <1>2, <1>3, <1>5, AppendIs
<1>7. k.undo \in Seq(1..n + 1) /\ k.redo \in Seq(1..n + 1)
  BY <1>2, <1>3, <1>4, Widen DEF P
<1>8. Distinct(m)
  BY <1>1, <1>3, MoveDistinct DEF IsHistory, Distinct
<1>9. IsHistory(k)
  <2>1. Distinct(k)
    BY <1>2, <1>8 DEF Distinct
  <2> QED BY <1>1, <1>2, <1>4, <1>6, <1>7, <2>1 DEF IsHistory
<1>10. Follows(h, k)
  BY <1>1, <1>2, <1>3, <1>6 DEF Follows
<1> QED BY <1>2, <1>4, <1>9, <1>10 DEF k

LEMMA RedoneHistory ==
    ASSUME NEW h, IsHistory(h), CanRedo(h)
    PROVE  IsHistory(Redone(h)) /\ Follows(h, Redone(h)) /\ Redone(h).undo # <<>>
<1> DEFINE n == Len(h.journal)
           P == 1..n
           m == [h EXCEPT !.undo = Append(@, Last(h.redo)), !.redo = Front(@)]
           k == Redone(h)
<1>1. /\ DOMAIN m = {"journal", "undo", "redo"} /\ m.journal = h.journal
      /\ m.undo = Append(h.undo, Last(h.redo)) /\ m.redo = Front(h.redo)
  BY DEF IsHistory
<1>2. /\ DOMAIN k = DOMAIN m /\ k.journal = Append(h.journal, Current(m))
      /\ k.undo = m.undo /\ k.redo = m.redo
  BY <1>1 DEF Redone, Event
<1> HIDE DEF m, k, P
<1>3. /\ h.redo # <<>> /\ h.undo \in Seq(P) /\ h.redo \in Seq(P) /\ n \in Nat
      /\ h.journal \in Seq(Snapshots)
  BY DEF IsHistory, CanRedo, P
<1>4. /\ m.undo \in Seq(P) /\ m.redo \in Seq(P) /\ m.undo # <<>>
      /\ Last(m.undo) \in P
  <2>1. /\ m.redo \in Seq(P) /\ Last(h.redo) \in P
    BY <1>1, <1>3, FrontIs
  <2>2. m.undo \in Seq(P) /\ m.undo # <<>>
    BY <1>1, <1>3, <2>1, AppendIs
  <2> QED BY <2>1, <2>2, FrontIs
<1>5. Current(m) \in Snapshots
  BY <1>1, <1>3, <1>4 DEF Current, P
<1>6. k.journal \in Seq(Snapshots) /\ Len(k.journal) = n + 1
  BY <1>2, <1>3, <1>5, AppendIs
<1>7. k.undo \in Seq(1..n + 1) /\ k.redo \in Seq(1..n + 1)
  BY <1>2, <1>3, <1>4, Widen DEF P
<1>8. Distinct(m)
  <2>1. Apart(h.redo, h.undo)
    BY DEF IsHistory, Distinct, Apart
  <2>2. Apart(m.redo, m.undo)
    BY <1>1, <1>3, <2>1, MoveDistinct
  <2> QED BY <2>2 DEF Distinct, Apart
<1>9. IsHistory(k)
  <2>1. Distinct(k)
    BY <1>2, <1>8 DEF Distinct
  <2> QED BY <1>1, <1>2, <1>4, <1>6, <1>7, <2>1 DEF IsHistory
<1>10. Follows(h, k)
  BY <1>1, <1>2, <1>3, <1>6 DEF Follows
<1> QED BY <1>2, <1>4, <1>9, <1>10 DEF k

\* A stack of a backup, moved behind the journal it is restored into.
Shifted(u, n) == [k \in DOMAIN u |-> u[k] + n]
LEMMA ShiftIs ==
    ASSUME NEW m \in Nat, NEW n \in Nat, NEW u \in Seq(1..m)
    PROVE  /\ Shifted(u, n) \in Seq(1..n + m) /\ Shifted(u, n) \in Seq(1..n + m + 1)
           /\ DOMAIN Shifted(u, n) = DOMAIN u /\ (Shifted(u, n) = <<>> <=> u = <<>>)
           /\ \A k \in DOMAIN u : Shifted(u, n)[k] > n /\ Shifted(u, n)[k] = u[k] + n
<1> DEFINE t == Shifted(u, n)
<1>1. /\ DOMAIN u = 1..Len(u) /\ Len(u) \in Nat /\ \A k \in 1..Len(u) : u[k] \in 1..m
  BY LenProperties
<1>2. \A k \in 1..Len(u) : u[k] + n \in 1..n + m /\ u[k] + n \in 1..n + m + 1 /\ u[k] + n > n
  BY <1>1
<1>3. t = [k \in 1..Len(u) |-> u[k] + n]
  BY <1>1 DEF Shifted
<1>4. t \in Seq(1..n + m)
  BY <1>1, <1>2, <1>3, IsASeq
<1>5. t \in Seq(1..n + m + 1)
  BY <1>1, <1>2, <1>3, IsASeq
<1>6. t = <<>> <=> u = <<>>
  BY <1>1, <1>3
<1> HIDE DEF t
<1>7. /\ DOMAIN t = DOMAIN u
      /\ \A k \in DOMAIN u : t[k] > n /\ t[k] = u[k] + n
  BY <1>1, <1>2, <1>3
<1> QED BY <1>4, <1>5, <1>6, <1>7 DEF t

LEMMA RestoredHistory ==
    ASSUME NEW h, NEW b, IsHistory(h), IsHistory(b), b.undo # <<>>
    PROVE  /\ IsHistory(Restored(h, b)) /\ Follows(h, Restored(h, b))
           /\ Restored(h, b).undo # <<>>
<1> DEFINE n == Len(h.journal)  l == Len(b.journal)
           undo == Shifted(b.undo, n)
           redo == Shifted(b.redo, n)
           m == [journal |-> h.journal \o b.journal, undo |-> undo, redo |-> redo]
           k == Restored(h, b)
           P == 1..n + l
<1>1. k = [m EXCEPT !.journal = Append(@, Current(m))]
  BY DEF Restored, Event, Shifted
<1>2. /\ DOMAIN k = {"journal", "undo", "redo"}
      /\ k.journal = Append(h.journal \o b.journal, Current(m))
      /\ k.undo = undo /\ k.redo = redo /\ m.undo = undo /\ m.journal = h.journal \o b.journal
  BY <1>1
<1>3. /\ h.journal \in Seq(Snapshots) /\ b.journal \in Seq(Snapshots) /\ n \in Nat /\ l \in Nat
      /\ b.undo \in Seq(1..l) /\ b.redo \in Seq(1..l)
  BY DEF IsHistory
<1> HIDE DEF m, k, n, l
<1> HIDE DEF undo, redo
<1>4. /\ undo \in Seq(1..n + l) /\ undo \in Seq(1..n + l + 1) /\ undo # <<>>
      /\ DOMAIN undo = DOMAIN b.undo
      /\ \A i \in DOMAIN b.undo : undo[i] > n /\ undo[i] = b.undo[i] + n
  BY <1>3, ShiftIs DEF undo
<1>5. /\ redo \in Seq(1..n + l) /\ redo \in Seq(1..n + l + 1)
      /\ DOMAIN redo = DOMAIN b.redo
      /\ \A i \in DOMAIN b.redo : redo[i] > n /\ redo[i] = b.redo[i] + n
  BY <1>3, ShiftIs DEF redo
<1>6. /\ \A i \in DOMAIN b.undo : b.undo[i] \in Nat
      /\ \A i \in DOMAIN b.redo : b.redo[i] \in Nat
  BY <1>3
<1>7. Distinct(k)
  <2>1. Apart(b.undo, b.redo)
    BY DEF IsHistory, Distinct
  <2>2. \A i, j \in DOMAIN undo : undo[i] = undo[j] => i = j
    <3> SUFFICES ASSUME NEW i \in DOMAIN b.undo, NEW j \in DOMAIN b.undo, undo[i] = undo[j]
                 PROVE  i = j
      BY <1>4
    <3>1. PICK x, y : x = b.undo[i] /\ y = b.undo[j]
      OBVIOUS
    <3>2. x \in Nat /\ y \in Nat /\ n \in Nat
      BY <1>3, <1>6, <3>1
    <3>3. x + n = y + n
      BY <1>4, <3>1
    <3>4. x = y
      BY <3>2, <3>3
    <3> QED BY <2>1, <3>1, <3>4 DEF Apart
  <2>3. \A i, j \in DOMAIN redo : redo[i] = redo[j] => i = j
    <3> SUFFICES ASSUME NEW i \in DOMAIN b.redo, NEW j \in DOMAIN b.redo, redo[i] = redo[j]
                 PROVE  i = j
      BY <1>5
    <3>1. PICK x, y : x = b.redo[i] /\ y = b.redo[j]
      OBVIOUS
    <3>2. x \in Nat /\ y \in Nat /\ n \in Nat
      BY <1>3, <1>6, <3>1
    <3>3. x + n = y + n
      BY <1>5, <3>1
    <3>4. x = y
      BY <3>2, <3>3
    <3> QED BY <2>1, <3>1, <3>4 DEF Apart
  <2>4. \A i \in DOMAIN undo, j \in DOMAIN redo : undo[i] # redo[j]
    <3> SUFFICES ASSUME NEW i \in DOMAIN b.undo, NEW j \in DOMAIN b.redo PROVE undo[i] # redo[j]
      BY <1>4, <1>5
    <3>1. b.undo[i] # b.redo[j]
      BY <2>1 DEF Apart
    <3>2. b.undo[i] \in Nat /\ b.redo[j] \in Nat /\ n \in Nat
      BY <1>3, <1>6
    <3>3. undo[i] = b.undo[i] + n
      BY <1>4
    <3>4. redo[j] = b.redo[j] + n
      BY <1>5
    <3> QED BY <3>1, <3>2, <3>3, <3>4
  <2> QED BY <1>2, <2>2, <2>3, <2>4 DEF Distinct, Apart
<1>8. /\ h.journal \o b.journal \in Seq(Snapshots) /\ Len(h.journal \o b.journal) = n + l
  BY <1>3, ConcatProperties DEF n, l
<1>9. Current(m) \in Snapshots
  <2>1. undo \in Seq(P) /\ undo # <<>>
    BY <1>4
  <2>2. Last(undo) \in P
    <3> HIDE DEF P
    <3> QED BY <2>1, FrontIs
  <2>3. DOMAIN m.journal = P /\ m.journal \in Seq(Snapshots)
    BY <1>2, <1>8, LenProperties
  <2>4. m.journal[Last(undo)] \in Snapshots
    <3> HIDE DEF P
    <3> QED BY <2>2, <2>3
  <2> QED BY <1>2, <1>4, <2>4 DEF Current
<1>10. k.journal \in Seq(Snapshots) /\ Len(k.journal) = n + l + 1
  <2> DEFINE j == h.journal \o b.journal
  <2>1. j \in Seq(Snapshots) /\ Len(j) = n + l /\ k.journal = Append(j, Current(m))
    BY <1>2, <1>8
  <2> HIDE DEF j
  <2> QED BY <1>9, <2>1, AppendIs
<1>11. IsHistory(k)
  BY <1>2, <1>4, <1>5, <1>7, <1>10 DEF IsHistory
<1>12. Follows(h, k)
  BY <1>2, <1>3, <1>4, <1>5, <1>10 DEF Follows, Later, n
<1> QED BY <1>2, <1>4, <1>11, <1>12 DEF k

\* The stacks of a history are distinct positions, in the words of TypeOK.
LEMMA StacksAre ==
    ASSUME NEW h, IsHistory(h)
    PROVE  /\ Range(h.undo \o h.redo) \subseteq DOMAIN h.journal
           /\ IsInjective(h.undo \o h.redo)
<1> DEFINE P == 1..Len(h.journal)  u == h.undo  r == h.redo  c == h.undo \o h.redo
<1>1. u \in Seq(P) /\ r \in Seq(P) /\ DOMAIN h.journal = P /\ Apart(u, r)
  BY DEF IsHistory, Distinct
<1>2. c = u \o r
  OBVIOUS
<1> HIDE DEF P, u, r, c
<1>3. /\ c \in Seq(P) /\ Len(c) = Len(u) + Len(r)
      /\ \A i \in 1..Len(u) + Len(r) : c[i] = IF i <= Len(u) THEN u[i] ELSE r[i - Len(u)]
  BY <1>1, <1>2, ConcatProperties
<1>4. /\ Len(u) \in Nat /\ Len(r) \in Nat /\ DOMAIN u = 1..Len(u) /\ DOMAIN r = 1..Len(r)
      /\ DOMAIN c = 1..Len(u) + Len(r)
  BY <1>1, <1>3, LenProperties
<1>5. \A i \in DOMAIN c : c[i] \in P
  BY <1>3, <1>4
<1>6. ASSUME NEW i \in DOMAIN c, NEW j \in DOMAIN c, c[i] = c[j] PROVE i = j
  <2>1. CASE i \in DOMAIN u /\ j \in DOMAIN u
    BY <1>1, <1>3, <1>4, <1>6, <2>1 DEF Apart
  <2>2. CASE i \in DOMAIN u /\ j \notin DOMAIN u
    <3>1. c[i] = u[i] /\ c[j] = r[j - Len(u)] /\ j - Len(u) \in DOMAIN r
      BY <1>3, <1>4, <2>2
    <3> QED BY <1>1, <1>6, <2>2, <3>1 DEF Apart
  <2>3. CASE i \notin DOMAIN u /\ j \in DOMAIN u
    <3>1. c[j] = u[j] /\ c[i] = r[i - Len(u)] /\ i - Len(u) \in DOMAIN r
      BY <1>3, <1>4, <2>3
    <3> QED BY <1>1, <1>6, <2>3, <3>1 DEF Apart
  <2>4. CASE i \notin DOMAIN u /\ j \notin DOMAIN u
    <3>1. /\ c[j] = r[j - Len(u)] /\ c[i] = r[i - Len(u)]
          /\ i - Len(u) \in DOMAIN r /\ j - Len(u) \in DOMAIN r
      BY <1>3, <1>4, <2>4
    <3>2. i - Len(u) = j - Len(u)
      BY <1>1, <1>6, <3>1 DEF Apart
    <3> QED BY <1>4, <3>2
  <2> QED BY <2>1, <2>2, <2>3, <2>4
<1> QED BY <1>1, <1>5, <1>6 DEF Range, IsInjective, c

-----------------------------------------------------------------------------
(* What synchronize and _record make of a state. *)

LEMMA SnapshotIs ==
    ASSUME NEW rs, AreDrafts(rs)
    PROVE  SnapshotOf(rs) \in Snapshots /\ ActiveOf(rs) \subseteq Drafts
<1>1. ActiveOf(rs) \subseteq Drafts
  BY DEF ActiveOf
<1>2. ASSUME NEW d \in ActiveOf(rs) PROVE rs[d].text \in Texts
  <2>1. d \in Drafts /\ rs[d].st = "pending"
    BY <1>2 DEF ActiveOf
  <2> QED BY <2>1 DEF AreDrafts, IsDraft, Rows
<1>3. SnapshotOf(rs) \in [ActiveOf(rs) -> Texts]
  BY <1>2 DEF SnapshotOf
<1> QED BY <1>1, <1>3 DEF Snapshots

LEMMA RawIs ==
    ASSUME NEW rs, AreDrafts(rs), NEW K, K \subseteq Drafts
    PROVE  ArePins(RawOf(rs, K))
BY DEF RawOf, ArePins, AreDrafts

LEMMA ReconciledSound ==
    ASSUME NEW s, IsPublished(s), NEW h, IsHistory(h), NEW rs, AreDrafts(rs)
    PROVE  IsPublished(Reconciled(s, h, rs)) /\ Reconciled(s, h, rs).h = h
BY SnapshotIs, RawIs DEF Reconciled, IsPublished

\* A first state or a barrier: either way the stacks are later ones.
LEMMA SyncedSound ==
    ASSUME NEW s, IsPublished(s), NEW rs, AreDrafts(rs)
    PROVE  LET t == SyncedState(s, rs) IN
           /\ IsPublished(t) /\ Len(s.h.journal) <= Len(t.h.journal)
           /\ t.h = s.h \/ Later(s.h, t.h)
<1> DEFINE x == SnapshotOf(rs)
<1>1. IsHistory(s.h) /\ x \in Snapshots /\ Len(s.h.journal) \in Nat
  BY SnapshotIs DEF IsPublished, IsHistory
<1> HIDE DEF x
<1>2. CASE Current(s.h) = NoSnapshot
  <2>1. SyncedState(s, rs) = Reconciled(s, PushState(s.h, x), rs)
    BY <1>2 DEF SyncedState, x
  <2>2. s.h.undo = <<>>
    BY <1>1, <1>2, CurrentIs
  <2>3. /\ IsHistory(PushState(s.h, x)) /\ Later(s.h, PushState(s.h, x))
        /\ Len(PushState(s.h, x).journal) = Len(s.h.journal) + 1
    <3>1. Later(s.h, PushState(s.h, x))
      <4>1. Len(s.h.journal) <= Len(s.h.journal)
        BY <1>1
      <4> QED BY <1>1, <2>2, <4>1, StillLater, Zenon
    <3> QED BY <1>1, <3>1, PushHistory
  <2> QED BY <1>1, <2>1, <2>3, ReconciledSound
<1>3. CASE Current(s.h) # NoSnapshot /\ ChangedOutside(s, rs)
  <2>1. SyncedState(s, rs) = Reconciled(s, Checkpoint(s.h, x), rs)
    BY <1>3 DEF SyncedState, x
  <2>2. /\ IsHistory(Checkpoint(s.h, x)) /\ Later(s.h, Checkpoint(s.h, x))
        /\ Len(Checkpoint(s.h, x).journal) = Len(s.h.journal) + 1
    BY <1>1, CheckpointHistory
  <2> QED BY <1>1, <2>1, <2>2, ReconciledSound
<1>4. CASE Current(s.h) # NoSnapshot /\ ~ChangedOutside(s, rs)
  <2>1. SyncedState(s, rs) = s
    BY <1>4 DEF SyncedState
  <2> QED BY <1>1, <2>1
<1> QED BY <1>2, <1>3, <1>4

LEMMA RecordedSound ==
    ASSUME NEW s, IsPublished(s), NEW before \in Snapshots, NEW after \in Snapshots,
           NEW rs, AreDrafts(rs)
    PROVE  LET t == Recorded(s, before, after, rs) IN
           /\ IsPublished(t)
           /\ t.h = s.h \/ t.h = PushState(s.h, after) \/ t.h = Checkpoint(s.h, after)
<1> DEFINE t == Recorded(s, before, after, rs)
           keys == (IF Current(s.h) = before THEN DOMAIN s.expected \cup DOMAIN before ELSE {})
                      \cup DOMAIN after
<1>1. /\ DOMAIN t = {"h", "expected", "epoch", "dirty"} /\ t.dirty = FALSE
      /\ t.h = s.h \/ t.h = PushState(s.h, after) \/ t.h = Checkpoint(s.h, after)
      /\ t.expected = RawOf(rs, keys) /\ (t.epoch = s.epoch \/ t.epoch = s.epoch + 1)
  BY DEF Recorded
<1>2. keys \subseteq Drafts
  BY DEF Snapshots, IsPublished, ArePins
<1>3. IsHistory(s.h)
  BY DEF IsPublished
<1>4. IsHistory(t.h)
  BY <1>1, <1>3, PushHistory, CheckpointHistory
<1>5. ArePins(RawOf(rs, keys))
  BY <1>2, RawIs
<1> HIDE DEF t, keys
<1>6. IsPublished(t)
  <2>1. ArePins(t.expected)
    BY <1>1, <1>5
  <2>2. t.epoch \in Nat
    <3>1. s.epoch \in Nat
      BY DEF IsPublished
    <3> QED BY <1>1, <3>1
  <2>3. t.dirty \in BOOLEAN
    BY <1>1
  <2> QED BY <1>1, <1>4, <2>1, <2>2, <2>3 DEF IsPublished
<1> QED BY <1>1, <1>6 DEF t

LEMMA AnyFollows ==
    ASSUME NEW h, IsHistory(h), NEW x \in Snapshots, NEW k,
           k = h \/ k = PushState(h, x) \/ k = Checkpoint(h, x)
    PROVE  Follows(h, k)
<1>1. Len(h.journal) \in Nat
  BY DEF IsHistory
<1>2. CASE k = h
  BY <1>1, <1>2 DEF Follows
<1>3. CASE k = PushState(h, x)
  <2>1. Grows(h, k) /\ Len(k.journal) = Len(h.journal) + 1
    BY <1>3, PushHistory
  <2> QED BY <1>1, <2>1 DEF Follows
<1>4. CASE k = Checkpoint(h, x)
  <2>1. Later(h, k) /\ Len(k.journal) = Len(h.journal) + 1
    BY <1>4, CheckpointHistory
  <2> QED BY <1>1, <2>1 DEF Follows
<1> QED BY <1>2, <1>3, <1>4

\* Recording is one step of the timeline, and so is what a save prepares: to
\* synchronize first and then to record.
LEMMA RecordFollows ==
    ASSUME NEW s, IsPublished(s), NEW before \in Snapshots, NEW after \in Snapshots,
           NEW rs, AreDrafts(rs)
    PROVE  Follows(s.h, Recorded(s, before, after, rs).h)
<1>1. IsHistory(s.h) /\ Len(s.h.journal) \in Nat
  BY DEF IsPublished, IsHistory
<1>2. PICK k : k = Recorded(s, before, after, rs).h
  OBVIOUS
<1>3. k = s.h \/ k = PushState(s.h, after) \/ k = Checkpoint(s.h, after)
  BY <1>2, RecordedSound
<1>4. Follows(s.h, k)
  BY <1>1, <1>3, AnyFollows
<1> QED BY <1>2, <1>4

LEMMA SaveFollows ==
    ASSUME NEW s, IsPublished(s), NEW before \in Snapshots, NEW after \in Snapshots,
           NEW rs, AreDrafts(rs)
    PROVE  LET t == Recorded(SyncedState(s, rs), before, after, rs) IN
           IsPublished(t) /\ Follows(s.h, t.h)
<1>1. PICK f, t : f = SyncedState(s, rs) /\ t = Recorded(f, before, after, rs)
  OBVIOUS
<1>2. /\ IsPublished(f) /\ Len(s.h.journal) <= Len(f.h.journal)
      /\ f.h = s.h \/ Later(s.h, f.h)
  BY <1>1, SyncedSound
<1>3. /\ IsPublished(t)
      /\ t.h = f.h \/ t.h = PushState(f.h, after) \/ t.h = Checkpoint(f.h, after)
  BY <1>1, <1>2, RecordedSound
<1>4. IsHistory(s.h) /\ IsHistory(f.h) /\ Len(s.h.journal) \in Nat /\ Len(f.h.journal) \in Nat
  BY <1>2 DEF IsPublished, IsHistory
<1>5. CASE f.h = s.h
  <2>1. Follows(s.h, t.h)
    BY <1>3, <1>4, <1>5, AnyFollows
  <2> QED BY <1>1, <1>3, <2>1
<1>6. CASE Later(s.h, f.h)
  <2>1. Later(s.h, t.h)
    BY <1>2, <1>3, <1>4, <1>6, StillLater
  <2>2. Len(f.h.journal) <= Len(t.h.journal) /\ Len(t.h.journal) \in Nat
    <3>1. Follows(f.h, t.h)
      BY <1>3, <1>4, AnyFollows
    <3> QED BY <1>3, <3>1 DEF Follows, IsPublished, IsHistory
  <2>3. Follows(s.h, t.h)
    BY <1>2, <1>4, <2>1, <2>2 DEF Follows
  <2> QED BY <1>1, <1>3, <2>3
<1> QED BY <1>2, <1>5, <1>6

-----------------------------------------------------------------------------
(* Every step keeps the workspace well formed and moves the timeline by one step. *)

TimelineMove == live' = live \/ Follows(live.h, live'.h) \/ live'.h = EmptyHistory

\* A draft that is there stays there, for the clients that work on it.
Kept == \A d \in Drafts : row[d].st # "absent" => row'[d].st # "absent"
LEMMA ClientsKept ==
    ASSUME WorkspaceInv, req' = req, Kept
    PROVE  DOMAIN req' = Clients /\ \A c \in Clients : ClientSound(c)'
BY DEF WorkspaceInv, ClientSound, Kept

LEMMA ClientMoves ==
    ASSUME WorkspaceInv, Kept, NEW c \in Clients, NEW q, Session(c, q),
           DOMAIN q = {"pc", "draft", "text", "token"},
           q.pc \in {"idle", "insert", "cancel", "record", "approve"},
           q.pc \in {"insert", "cancel", "approve"} => q.draft \in Drafts,
           q.pc \in {"insert", "approve"} => q.text \in Texts,
           q.pc \in {"cancel", "approve"} => row'[q.draft].st # "absent",
           q.pc # "idle" => q.token \in Snapshots \cup {None}
    PROVE  DOMAIN req' = Clients /\ \A e \in Clients : ClientSound(e)'
<1>1. DOMAIN req' = Clients /\ \A e \in Clients : req'[e] = IF e = c THEN q ELSE req[e]
  BY DEF Session, WorkspaceInv
<1>2. ClientSound(c)'
  BY <1>1 DEF ClientSound
<1>3. ASSUME NEW e \in Clients, e # c PROVE ClientSound(e)'
  BY <1>1, <1>3 DEF WorkspaceInv, ClientSound, Kept
<1> QED BY <1>1, <1>2, <1>3

\* Nothing of what the drafts, the published state and the waiting requests are.
LEMMA OtherwiseKept ==
    ASSUME WorkspaceInv, UNCHANGED <<row, live, attempt, saved, op, req>>,
           moved' \in BOOLEAN, flag' \in BOOLEAN
    PROVE  WorkspaceInv' /\ TimelineMove
<1>1. Kept
  BY DEF Kept
<1>2. DOMAIN req' = Clients /\ \A c \in Clients : ClientSound(c)'
  BY <1>1, ClientsKept
<1> QED BY <1>2 DEF WorkspaceInv, AttemptSound, WaitsSound, TimelineMove

LEMMA PrepareSound ==
    ASSUME WorkspaceInv, NEW target \in Snapshots, NEW pinned, ArePins(pinned), NEW h, IsHistory(h),
           Follows(live.h, h), NEW epoch \in Nat, NEW tab, Prepare(target, pinned, h, epoch, tab)
    PROVE  WorkspaceInv' /\ TimelineMove
<1>1. /\ UNCHANGED <<row, moved, live, attempt, flag, saved, req>>
      /\ op'.target = target /\ op'.pinned = pinned /\ op'.epoch = epoch /\ op'.h = h
  BY DEF Prepare
<1>2. DOMAIN req' = Clients /\ \A c \in Clients : ClientSound(c)'
  BY <1>1, ClientsKept DEF Kept
<1>3. WaitsSound'
  BY <1>1 DEF WaitsSound
<1> QED BY <1>1, <1>2, <1>3 DEF WorkspaceInv, AttemptSound, TimelineMove

LEMMA MoveSound ==
    ASSUME WorkspaceInv, NEW h, IsHistory(h), Follows(live.h, h), h.undo # <<>>, NEW tab,
           Prepare(Current(h), live.expected, h, live.epoch + 1, tab)
    PROVE  WorkspaceInv' /\ TimelineMove
<1>1. Current(h) \in Snapshots
  BY CurrentIs
<1>2. ArePins(live.expected) /\ live.epoch + 1 \in Nat
  BY DEF WorkspaceInv, IsPublished
<1> QED BY <1>1, <1>2, PrepareSound

LEMMA UndoRequestSound ==
    ASSUME WorkspaceInv, UndoRequest \/ RedoRequest \/ RestoreRequest
    PROVE  WorkspaceInv' /\ TimelineMove
<1>0. IsHistory(live.h)
  BY DEF WorkspaceInv, IsPublished
<1>1. CASE UndoRequest
  <2>1. PICK h : h = Undone(live.h)
    OBVIOUS
  <2>2. IsHistory(h) /\ Follows(live.h, h) /\ h.undo # <<>>
    BY <1>0, <1>1, <2>1, UndoneHistory DEF UndoRequest
  <2> QED BY <1>1, <2>1, <2>2, MoveSound DEF UndoRequest, Move
<1>2. CASE RedoRequest
  <2>1. PICK h : h = Redone(live.h)
    OBVIOUS
  <2>2. IsHistory(h) /\ Follows(live.h, h) /\ h.undo # <<>>
    BY <1>0, <1>2, <2>1, RedoneHistory DEF RedoRequest
  <2> QED BY <1>2, <2>1, <2>2, MoveSound DEF RedoRequest, Move
<1>3. CASE RestoreRequest
  <2>1. PICK h : h = Restored(live.h, saved)
    OBVIOUS
  <2>2. saved # None /\ saved.undo # <<>> /\ IsHistory(saved)
    BY <1>3 DEF RestoreRequest, WorkspaceInv
  <2>3. IsHistory(h) /\ Follows(live.h, h) /\ h.undo # <<>>
    BY <1>0, <2>1, <2>2, RestoredHistory
  <2> QED BY <1>3, <2>1, <2>3, MoveSound DEF RestoreRequest
<1> QED BY <1>1, <1>2, <1>3

LEMMA SaveEditorSound ==
    ASSUME WorkspaceInv, NEW b \in Tabs, NEW x \in Texts, SaveEditor(b, x)
    PROVE  WorkspaceInv' /\ TimelineMove
<1>1. PICK d, before, target, done :
         /\ before = SnapshotOf(row) /\ target = [before EXCEPT ![d] = x] /\ d \in ActiveOf(row)
         /\ done = Recorded(SyncedState(live, row), before, target, row)
         /\ Prepare(target, done.expected, done.h, done.epoch, b)
  BY DEF SaveEditor
<1>2. AreDrafts(row) /\ IsPublished(live)
  BY DEF WorkspaceInv
<1>3. before \in Snapshots
  BY <1>1, <1>2, SnapshotIs
<1>4. target \in Snapshots
  BY <1>1, <1>3 DEF Snapshots
<1>5. IsPublished(done) /\ Follows(live.h, done.h)
  BY <1>1, <1>2, <1>3, <1>4, SaveFollows
<1>6. ArePins(done.expected) /\ IsHistory(done.h) /\ done.epoch \in Nat
  BY <1>5 DEF IsPublished
<1> QED BY <1>1, <1>4, <1>5, <1>6, PrepareSound

LEMMA SyncSound ==
    ASSUME WorkspaceInv, Synchronize
    PROVE  IsPublished(live') /\ Follows(live.h, live'.h) /\ attempt' = None
<1>1. /\ AreDrafts(row) /\ IsPublished(live) /\ IsHistory(live.h) /\ AttemptSound
      /\ Len(live.h.journal) \in Nat /\ attempt' = None /\ live' = Synchronized
  BY DEF WorkspaceInv, IsPublished, IsHistory, Synchronize
<1>2. CASE attempt = None
  <2>1. PICK t : t = SyncedState(live, row)
    OBVIOUS
  <2>2. /\ IsPublished(t) /\ Len(live.h.journal) <= Len(t.h.journal)
        /\ t.h = live.h \/ Later(live.h, t.h)
    BY <1>1, <2>1, SyncedSound
  <2> QED BY <1>1, <1>2, <2>1, <2>2 DEF Synchronized, Follows
<1>3. CASE attempt # None
  <2>1. /\ IsPublished(attempt.base) /\ IsPublished(attempt.target)
        /\ Follows(attempt.base.h, attempt.target.h) /\ live \in {attempt.base, attempt.target}
    BY <1>1, <1>3 DEF AttemptSound, Synchronize, SyncAllowed
  <2>2. CASE Matches(attempt.target, row)
    <3>1. live' = attempt.target
      BY <1>1, <1>3, <2>2 DEF Synchronized
    <3>2. Follows(live.h, live.h)
      BY <1>1 DEF Follows
    <3> QED BY <1>1, <2>1, <3>1, <3>2
  <2>3. CASE ~Matches(attempt.target, row)
    <3>1. PICK seed, x : /\ seed = IF live = attempt.base THEN attempt.target ELSE live
                         /\ x = SnapshotOf(row)
      OBVIOUS
    <3>2. live' = Reconciled(seed, Checkpoint(seed.h, x), row)
      BY <1>1, <1>3, <2>3, <3>1 DEF Synchronized
    <3>3. /\ IsPublished(seed) /\ IsHistory(seed.h) /\ Len(live.h.journal) <= Len(seed.h.journal)
          /\ x \in Snapshots
      BY <1>1, <2>1, <3>1, SnapshotIs DEF IsPublished, Follows
    <3>4. /\ IsHistory(Checkpoint(seed.h, x)) /\ Later(live.h, Checkpoint(seed.h, x))
          /\ Len(Checkpoint(seed.h, x).journal) = Len(seed.h.journal) + 1
      BY <1>1, <3>3, CheckpointHistory, StillLater
    <3>5. PICK k : k = Checkpoint(seed.h, x)
      OBVIOUS
    <3>6. Follows(live.h, k)
      <4>1. Len(seed.h.journal) \in Nat
        BY <3>3 DEF IsHistory
      <4> QED BY <1>1, <3>3, <3>4, <3>5, <4>1 DEF Follows
    <3>7. IsPublished(live') /\ live'.h = k
      BY <1>1, <3>2, <3>3, <3>4, <3>5, ReconciledSound
    <3> QED BY <1>1, <3>6, <3>7
  <2> QED BY <2>2, <2>3
<1> QED BY <1>2, <1>3

LEMMA StatusSound ==
    ASSUME WorkspaceInv, Status \/ Backup
    PROVE  WorkspaceInv' /\ TimelineMove
<1>1. /\ Synchronize /\ op = NoOp /\ UNCHANGED <<row, moved, op, req>> /\ flag' = FALSE
      /\ saved' = saved \/ saved' = live'.h
  BY DEF Status, Backup, Free, Exported
<1>2. IsPublished(live') /\ Follows(live.h, live'.h) /\ attempt' = None
  BY <1>1, SyncSound
<1>3. DOMAIN req' = Clients /\ \A c \in Clients : ClientSound(c)'
  BY <1>1, ClientsKept DEF Kept
<1>4. saved' # None => IsHistory(saved')
  BY <1>1, <1>2 DEF WorkspaceInv, IsPublished
<1> QED BY <1>1, <1>2, <1>3, <1>4 DEF WorkspaceInv, AttemptSound, WaitsSound, TimelineMove

LEMMA CaptureSound ==
    ASSUME WorkspaceInv, op = NoOp, UNCHANGED <<row, moved, flag, saved, op>>,
           NEW c \in Clients, NEW d \in Drafts, NEW x, NEW pc,
           CaptureBefore(c, pc, d, x),
           pc \in {"insert", "cancel"}, pc = "insert" => x \in Texts,
           pc = "cancel" => row[d].st # "absent"
    PROVE  WorkspaceInv' /\ TimelineMove
<1>1. PICK q : /\ Session(c, q) /\ q = [pc |-> pc, draft |-> d, text |-> x, token |-> q.token]
               /\ q.token \in {SnapshotOf(row), None}
               /\ Synchronize \/ UNCHANGED <<live, attempt>>
  BY DEF CaptureBefore
<1>2. /\ DOMAIN q = {"pc", "draft", "text", "token"} /\ q.pc = pc /\ q.draft = d /\ q.text = x
      /\ q.token \in Snapshots \cup {None}
  BY <1>1, SnapshotIs DEF WorkspaceInv
<1>3. Kept
  BY DEF Kept
<1>4. DOMAIN req' = Clients /\ \A e \in Clients : ClientSound(e)'
  BY <1>1, <1>2, <1>3, ClientMoves
<1>5. IsPublished(live') /\ AttemptSound' /\ TimelineMove
  <2>1. CASE Synchronize
    BY <2>1, SyncSound DEF AttemptSound, TimelineMove
  <2>2. CASE UNCHANGED <<live, attempt>>
    BY <2>2 DEF WorkspaceInv, AttemptSound, TimelineMove
  <2> QED BY <1>1, <2>1, <2>2
<1> QED BY <1>4, <1>5 DEF WorkspaceInv, WaitsSound

LEMMA ArriveSound ==
    ASSUME WorkspaceInv, NEW c \in Clients, Arrive(c)
    PROVE  WorkspaceInv' /\ TimelineMove
<1>1. ASSUME NEW d \in Drafts, NEW x \in Texts, Create(c, d, x) PROVE WorkspaceInv' /\ TimelineMove
  <2>1. PICK pc : pc = "insert"
    OBVIOUS
  <2>2. op = NoOp /\ UNCHANGED <<row, moved, flag, saved, op>> /\ CaptureBefore(c, pc, d, x)
    BY <1>1, <2>1 DEF Create, Free
  <2>3. pc \in {"insert", "cancel"} /\ pc # "cancel"
    BY <2>1
  <2> QED BY <2>2, <2>3, CaptureSound
<1>2. ASSUME NEW d \in Drafts, Cancel(c, d) PROVE WorkspaceInv' /\ TimelineMove
  BY <1>2, CaptureSound DEF Cancel, Free
<1>3. ASSUME NEW d \in Drafts, Approve(c, d) PROVE WorkspaceInv' /\ TimelineMove
  <2>1. PICK q : q = [Idle EXCEPT !.pc = "approve", !.draft = d, !.text = row[d].text]
    OBVIOUS
  <2>2. /\ DOMAIN q = {"pc", "draft", "text", "token"} /\ q.pc = "approve" /\ q.draft = d
        /\ q.text = row[d].text /\ q.token = None
    BY <2>1 DEF Idle
  <2>3. /\ Session(c, q) /\ row[d].st = "pending"
        /\ UNCHANGED <<row, moved, live, attempt, flag, saved, op>>
    BY <1>3, <2>1 DEF Approve
  <2>4. row[d].text \in Texts
    BY <2>3 DEF WorkspaceInv, AreDrafts, IsDraft, Rows
  <2>5. DOMAIN req' = Clients /\ \A e \in Clients : ClientSound(e)'
    BY <2>2, <2>3, <2>4, ClientMoves DEF Kept
  <2> QED BY <2>3, <2>5 DEF WorkspaceInv, AttemptSound, WaitsSound, TimelineMove
<1> QED BY <1>1, <1>2, <1>3 DEF Arrive

\* A commit of one row.
LEMMA RowWritten ==
    ASSUME AreDrafts(row), NEW e \in Drafts, NEW r, row' = [row EXCEPT ![e] = r], IsDraft(r),
           r.st # "absent"
    PROVE  AreDrafts(row') /\ Kept /\ row'[e].st # "absent"
<1>1. /\ DOMAIN row' = Drafts
      /\ \A d \in Drafts : row'[d] = IF d = e THEN r ELSE row[d]
  BY DEF AreDrafts
<1> QED BY <1>1 DEF AreDrafts, IsDraft, Kept

\* What is written to a row, column by column.
LEMMA DraftIs ==
    ASSUME NEW r, IsDraft(r)
    PROVE  /\ r = [st |-> r.st, text |-> r.text, used |-> r.used, digest |-> r.digest]
           /\ r.st # "absent" => r.text \in Texts
           /\ \A st \in {"pending", "cancelled", "approved", "running"} :
                 r.st # "absent" => IsDraft([r EXCEPT !.st = st])
BY DEF IsDraft, Rows

LEMMA CommitCoreSound ==
    ASSUME WorkspaceInv, NEW c \in Clients, CommitCore(c)
    PROVE  WorkspaceInv' /\ TimelineMove
<1>1. PICK d, q : /\ d = req[c].draft /\ q = [req[c] EXCEPT !.pc = "record"]
  OBVIOUS
<1>2. /\ Session(c, q) /\ req[c].pc \in {"insert", "cancel"}
      /\ UNCHANGED <<moved, live, attempt, flag, saved, op>>
  BY <1>1 DEF CommitCore
<1>3. /\ d \in Drafts /\ DOMAIN req[c] = {"pc", "draft", "text", "token"}
      /\ req[c].token \in Snapshots \cup {None}
      /\ req[c].pc = "insert" => req[c].text \in Texts
      /\ req[c].pc = "cancel" => row[d].st # "absent"
  BY <1>1, <1>2 DEF WorkspaceInv, ClientSound
<1>4. /\ DOMAIN q = {"pc", "draft", "text", "token"} /\ q.pc = "record" /\ q.token = req[c].token
  BY <1>1, <1>3
<1>5. AreDrafts(row') /\ Kept
  <2>1. PICK r : /\ row' = [row EXCEPT ![d] = r]
                 /\ r = IF req[c].pc = "insert" THEN NewRow(req[c].text)
                        ELSE [row[d] EXCEPT !.st = "cancelled"]
    BY <1>1 DEF CommitCore
  <2>2. IsDraft(r) /\ r.st # "absent"
    <3>1. CASE req[c].pc = "insert"
      BY <1>3, <2>1, <3>1, PendingValues DEF NewRow, IsDraft, Rows
    <3>2. CASE req[c].pc = "cancel"
      <4>1. r = [row[d] EXCEPT !.st = "cancelled"] /\ IsDraft(row[d]) /\ row[d].st # "absent"
        BY <1>3, <2>1, <3>2 DEF WorkspaceInv, AreDrafts
      <4>2. r.st = "cancelled"
        BY <4>1 DEF IsDraft, Rows
      <4> QED BY <4>1, <4>2, DraftIs
    <3> QED BY <1>2, <3>1, <3>2
  <2> QED BY <1>3, <2>1, <2>2, RowWritten DEF WorkspaceInv
<1>6. DOMAIN req' = Clients /\ \A e \in Clients : ClientSound(e)'
  BY <1>2, <1>3, <1>4, <1>5, ClientMoves
<1> QED BY <1>2, <1>5, <1>6 DEF WorkspaceInv, AttemptSound, WaitsSound, TimelineMove

LEMMA ApproveCommitSound ==
    ASSUME WorkspaceInv, NEW c \in Clients, ApproveCommit(c)
    PROVE  WorkspaceInv' /\ TimelineMove
<1>1. PICK d : d = req[c].draft
  OBVIOUS
<1>2. /\ Session(c, Idle) /\ req[c].pc = "approve"
      /\ UNCHANGED <<moved, live, attempt, flag, saved, op>>
  BY <1>1 DEF ApproveCommit
<1>3. d \in Drafts /\ row[d].st # "absent" /\ req[c].text \in Texts /\ IsDraft(row[d])
  BY <1>1, <1>2 DEF WorkspaceInv, ClientSound, AreDrafts
<1>4. AreDrafts(row') /\ Kept
  <2>1. PICK r : /\ row' = [row EXCEPT ![d] = r]
                 /\ r = [row[d] EXCEPT !.st = "approved", !.used = TRUE, !.digest = req[c].text]
    BY <1>1 DEF ApproveCommit
  <2>2. /\ DOMAIN r = {"st", "text", "used", "digest"} /\ r = [x \in DOMAIN r |-> r[x]]
        /\ r.st = "approved" /\ r.used = TRUE
        /\ r.text = row[d].text /\ r.digest = req[c].text
    <3>1. DOMAIN row[d] = {"st", "text", "used", "digest"}
      BY <1>3 DEF IsDraft, Rows
    <3> QED BY <2>1, <3>1
  <2>3. r = [st |-> r.st, text |-> r.text, used |-> r.used, digest |-> r.digest]
    BY <2>2
  <2>4. row[d].text \in Texts
    BY <1>3, DraftIs
  <2>5. IsDraft(r) /\ r.st # "absent"
    BY <1>3, <2>2, <2>3, <2>4, PendingValues DEF IsDraft, Rows
  <2> QED BY <1>3, <2>1, <2>5, RowWritten DEF WorkspaceInv
<1>5. DOMAIN req' = Clients /\ \A e \in Clients : ClientSound(e)'
  BY <1>2, <1>4, ClientMoves DEF Idle
<1> QED BY <1>2, <1>4, <1>5 DEF WorkspaceInv, AttemptSound, WaitsSound, TimelineMove

LEMMA ClaimSound ==
    ASSUME WorkspaceInv, NEW d \in Drafts, Claim(d)
    PROVE  WorkspaceInv' /\ TimelineMove
<1>1. PICK r : row' = [row EXCEPT ![d] = r] /\ r = [row[d] EXCEPT !.st = "running"]
  BY DEF Claim
<1>2. IsDraft(row[d]) /\ row[d].st = "approved"
  BY DEF Claim, WorkspaceInv, AreDrafts
<1>3. IsDraft(r) /\ r.st = "running"
  BY <1>1, <1>2, DraftIs DEF IsDraft, Rows
<1>4. AreDrafts(row') /\ Kept
  BY <1>1, <1>3, RowWritten DEF WorkspaceInv
<1>5. UNCHANGED <<moved, live, attempt, flag, saved, op, req>>
  BY DEF Claim
<1> QED BY <1>4, <1>5, ClientsKept DEF WorkspaceInv, AttemptSound, WaitsSound, TimelineMove

LEMMA RecordSound ==
    ASSUME WorkspaceInv, NEW c \in Clients, RecordAfter(c) \/ RecordFails(c)
    PROVE  WorkspaceInv' /\ TimelineMove
<1>1. /\ op = NoOp /\ UNCHANGED <<row, moved, flag, saved, op>> /\ Session(c, Idle)
      /\ req[c].pc = "record" /\ req[c].token \in Snapshots \cup {None}
  BY DEF RecordAfter, RecordFails, Free, WorkspaceInv, ClientSound
<1>2. /\ AreDrafts(row) /\ IsPublished(live) /\ IsHistory(live.h) /\ SnapshotOf(row) \in Snapshots
  BY SnapshotIs DEF WorkspaceInv, IsPublished
<1>3. DOMAIN req' = Clients /\ \A e \in Clients : ClientSound(e)'
  BY <1>1, ClientMoves DEF Idle, Kept
<1>4. IsPublished(live') /\ AttemptSound' /\ TimelineMove
  <2>1. CASE UNCHANGED <<live, attempt>>
    BY <2>1 DEF WorkspaceInv, AttemptSound, TimelineMove
  <2>2. CASE /\ req[c].token # None /\ attempt' = attempt
             /\ live' = Recorded(live, req[c].token, SnapshotOf(row), row)
    <3>1. req[c].token \in Snapshots
      BY <1>1, <2>2
    <3>2. IsPublished(live') /\ Follows(live.h, live'.h)
      BY <1>2, <2>2, <3>1, RecordedSound, RecordFollows
    <3> QED BY <2>2, <3>2 DEF WorkspaceInv, AttemptSound, TimelineMove
  <2>3. CASE /\ live' = Reconciled(live, Checkpoint(live.h, SnapshotOf(row)), row)
             /\ attempt' = None
    <3>1. PICK k : k = Checkpoint(live.h, SnapshotOf(row))
      OBVIOUS
    <3>2. IsHistory(k) /\ Follows(live.h, k)
      BY <1>2, <3>1, CheckpointHistory, AnyFollows
    <3>3. IsPublished(live') /\ live'.h = k
      BY <1>2, <2>3, <3>1, <3>2, ReconciledSound
    <3> QED BY <2>3, <3>2, <3>3 DEF AttemptSound, TimelineMove
  <2>4. CASE /\ attempt' = attempt
             /\ \/ live' = [live EXCEPT !.epoch = @ + 1, !.dirty = TRUE]
                \/ live' = [live EXCEPT !.h = PushState(@, SnapshotOf(row)),
                                       !.epoch = @ + 1, !.dirty = TRUE]
    <3>1. PICK k : /\ k = live.h \/ k = PushState(live.h, SnapshotOf(row))
                   /\ live'.h = k /\ DOMAIN live' = DOMAIN live /\ live'.expected = live.expected
                   /\ live'.epoch = live.epoch + 1 /\ live'.dirty = TRUE
      BY <1>2, <2>4 DEF IsPublished
    <3>2. IsHistory(k) /\ Follows(live.h, k)
      BY <1>2, <3>1, PushHistory, AnyFollows
    <3>3. IsPublished(live')
      <4>1. /\ DOMAIN live = {"h", "expected", "epoch", "dirty"} /\ ArePins(live.expected)
            /\ live.epoch \in Nat
        BY <1>2 DEF IsPublished
      <4>2. live'.epoch \in Nat
        BY <3>1, <4>1
      <4>3. live'.dirty \in BOOLEAN
        BY <3>1
      <4> QED BY <3>1, <3>2, <4>1, <4>2, <4>3 DEF IsPublished
    <3>4. AttemptSound'
      BY <2>4 DEF WorkspaceInv, AttemptSound
    <3> QED BY <3>1, <3>2, <3>3, <3>4 DEF TimelineMove
  <2> QED BY <2>1, <2>2, <2>3, <2>4 DEF RecordAfter, RecordFails
<1> QED BY <1>1, <1>3, <1>4 DEF WorkspaceInv, WaitsSound

\* What the waiting request writes, and what it then publishes.
LEMMA WriteSound ==
    ASSUME WorkspaceInv, OpInv, op # NoOp, CommitPossible, WriteRows
    PROVE  /\ AreDrafts(row') /\ Kept
           /\ IsPublished(TargetState(row')) /\ Follows(live.h, TargetState(row').h)
<1>1. PICK P, X : P = op.pinned /\ X = op.target
  OBVIOUS
<1>2. /\ AreDrafts(row) /\ ArePins(P) /\ X \in Snapshots /\ op.epoch \in Nat
      /\ IsHistory(op.h) /\ Follows(live.h, op.h)
  BY <1>1 DEF WorkspaceInv, WaitsSound
<1>3. \A d \in DOMAIN P : row[d] = P[d] /\ row[d].st # "absent"
  BY <1>1 DEF OpInv, PinsEligible, Eligible, CommitPossible, CasHolds
<1>4. /\ DOMAIN row' = Drafts
      /\ \A d \in Drafts : row'[d] = IF d \notin DOMAIN P THEN row[d]
             ELSE IF d \in DOMAIN X
                  THEN [row[d] EXCEPT !.st = "pending", !.text = X[d]]
                  ELSE [row[d] EXCEPT !.st = "cancelled"]
  BY <1>1 DEF WriteRows, Written
<1>5. ASSUME NEW d \in Drafts
      PROVE  IsDraft(row'[d]) /\ (row[d].st # "absent" => row'[d].st # "absent")
  <2>1. IsDraft(row[d])
    BY <1>2 DEF AreDrafts
  <2>2. CASE d \notin DOMAIN P
    BY <1>4, <2>1, <2>2
  <2>3. CASE d \in DOMAIN P /\ d \in DOMAIN X
    <3>1. X[d] \in Texts
      BY <1>2, <2>3 DEF Snapshots
    <3>2. row'[d] = [row[d] EXCEPT !.st = "pending", !.text = X[d]]
      BY <1>4, <2>3
    <3>3. /\ row'[d] = [st |-> "pending", text |-> X[d], used |-> row[d].used,
                        digest |-> row[d].digest]
      BY <2>1, <3>2 DEF IsDraft, Rows
    <3> QED BY <2>1, <3>1, <3>3, PendingValues DEF IsDraft, Rows
  <2>4. CASE d \in DOMAIN P /\ d \notin DOMAIN X
    <3>1. row'[d] = [row[d] EXCEPT !.st = "cancelled"] /\ row[d].st # "absent"
      BY <1>3, <1>4, <2>4
    <3>2. row'[d].st = "cancelled"
      BY <2>1, <3>1 DEF IsDraft, Rows
    <3> QED BY <2>1, <3>1, <3>2, DraftIs
  <2> QED BY <2>2, <2>3, <2>4
<1>6. AreDrafts(row') /\ Kept
  <2>1. row' = [d \in Drafts |-> row'[d]]
    BY DEF WriteRows, Written
  <2> QED BY <1>5, <2>1 DEF AreDrafts, IsDraft, Kept
<1>7. ArePins(RawOf(row', DOMAIN P))
  BY <1>2, <1>6, RawIs DEF ArePins
<1>8. IsPublished(TargetState(row')) /\ TargetState(row').h = op.h
  BY <1>1, <1>2, <1>7 DEF TargetState, IsPublished
<1> QED BY <1>2, <1>6, <1>8

\* The rows as the waiting request finds them when it reads back.
LEMMA ReadBackSound ==
    ASSUME WorkspaceInv, op # NoOp
    PROVE  IsPublished(TargetState(row)) /\ Follows(live.h, TargetState(row).h)
<1>1. ArePins(RawOf(row, DOMAIN op.pinned))
  BY RawIs DEF WorkspaceInv, WaitsSound, ArePins
<1>2. TargetState(row).h = op.h /\ IsPublished(TargetState(row))
  BY <1>1 DEF WorkspaceInv, WaitsSound, TargetState, IsPublished
<1> QED BY <1>2 DEF WorkspaceInv, WaitsSound

LEMMA OutcomeSound ==
    ASSUME WorkspaceInv, OpInv, Outcome
    PROVE  WorkspaceInv' /\ TimelineMove
<1>1. op # NoOp /\ UNCHANGED <<moved, saved, req>>
  BY DEF Outcome, Commit, CommitRefused, CommitRaises, ReadBack, CallbackFails
<1>2. CASE Commit
  <2>1. PICK t : t = TargetState(row')
    OBVIOUS
  <2>2. /\ AreDrafts(row') /\ Kept /\ IsPublished(t) /\ Follows(live.h, t.h)
        /\ live' = t /\ attempt' = None /\ op' = NoOp /\ flag' = flag
    BY <1>2, <2>1, WriteSound DEF Commit
  <2> QED BY <1>1, <2>2, ClientsKept DEF WorkspaceInv, AttemptSound, WaitsSound, TimelineMove
<1>3. CASE CommitRefused
  <2>1. Kept
    BY <1>3 DEF CommitRefused, Kept
  <2> QED BY <1>1, <1>3, <2>1, ClientsKept
          DEF CommitRefused, WorkspaceInv, AttemptSound, WaitsSound, TimelineMove
<1>4. CASE CommitRaises
  <2>1. AreDrafts(row') /\ Kept
    <3>1. CASE WriteRows
      BY <1>4, <3>1, WriteSound DEF CommitRaises
    <3>2. CASE row' = row
      BY <3>2 DEF WorkspaceInv, Kept
    <3> QED BY <1>4, <3>1, <3>2 DEF CommitRaises
  <2>2. WaitsSound'
    <3>1. /\ op'.target = op.target /\ op'.pinned = op.pinned /\ op'.epoch = op.epoch
          /\ op'.h = op.h /\ live' = live
      BY <1>1, <1>4 DEF CommitRaises, OpInv, IsOp
    <3> QED BY <1>1, <3>1 DEF WorkspaceInv, WaitsSound
  <2>3. UNCHANGED <<live, attempt, flag>>
    BY <1>4 DEF CommitRaises
  <2> QED BY <1>1, <2>1, <2>2, <2>3, ClientsKept DEF WorkspaceInv, AttemptSound, TimelineMove
<1>5. CASE ReadBack
  <2>1. PICK t : t = TargetState(row)
    OBVIOUS
  <2>2. IsPublished(t) /\ Follows(live.h, t.h)
    BY <1>1, <2>1, ReadBackSound
  <2>3. /\ row' = row /\ op' = NoOp
        /\ \/ live' = t /\ attempt' = None /\ flag' = flag
           \/ UNCHANGED <<live, attempt>> /\ flag' \in {flag, TRUE}
    BY <1>5, <2>1 DEF ReadBack
  <2>4. DOMAIN req' = Clients /\ \A c \in Clients : ClientSound(c)'
    BY <1>1, <2>3, ClientsKept DEF Kept
  <2>5. CASE live' = t /\ attempt' = None /\ flag' = flag
    BY <1>1, <2>2, <2>3, <2>4, <2>5 DEF WorkspaceInv, AttemptSound, WaitsSound, TimelineMove
  <2>6. CASE UNCHANGED <<live, attempt>> /\ flag' \in {flag, TRUE}
    BY <1>1, <2>3, <2>4, <2>6 DEF WorkspaceInv, AttemptSound, WaitsSound, TimelineMove
  <2> QED BY <2>3, <2>5, <2>6
<1>6. CASE CallbackFails
  <2>1. PICK t, a : t = TargetState(row') /\ a = [base |-> live, target |-> t]
    OBVIOUS
  <2>2. /\ AreDrafts(row') /\ Kept /\ IsPublished(t) /\ Follows(live.h, t.h)
        /\ live' = live /\ attempt' = a /\ op' = NoOp /\ flag' = TRUE
    BY <1>6, <2>1, WriteSound DEF CallbackFails
  <2>3. a.base = live /\ a.target = t
    BY <2>1
  <2>4. AttemptSound'
    BY <2>2, <2>3 DEF WorkspaceInv, AttemptSound
  <2> QED BY <1>1, <2>2, <2>4, ClientsKept DEF WorkspaceInv, WaitsSound, TimelineMove
<1> QED BY <1>2, <1>3, <1>4, <1>5, <1>6 DEF Outcome

LEMMA RestartSound ==
    ASSUME WorkspaceInv, Restart
    PROVE  WorkspaceInv' /\ TimelineMove
<1>1. IsHistory(EmptyHistory)
  BY DEF IsHistory, EmptyHistory, Distinct, Apart
<1>2. IsPublished(FreshState) /\ FreshState.h = EmptyHistory
  BY <1>1 DEF FreshState, IsPublished, ArePins
<1>3. /\ row' = row /\ moved' = moved /\ live' = FreshState /\ attempt' = None /\ flag' = FALSE
      /\ saved' = None /\ op' = NoOp /\ req' = [c \in Clients |-> Idle]
  BY DEF Restart
<1>4. DOMAIN req' = Clients /\ \A c \in Clients : ClientSound(c)'
  BY <1>3 DEF ClientSound, Idle
<1> QED BY <1>2, <1>3, <1>4 DEF WorkspaceInv, AttemptSound, WaitsSound, TimelineMove

LEMMA NextSound ==
    ASSUME WorkspaceInv, OpInv, Next
    PROVE  WorkspaceInv' /\ TimelineMove
<1>1. CASE PendingRequest
  <2>1. ASSUME NEW b \in Tabs, NEW d \in Drafts, OpenEditor(b, d)
        PROVE  WorkspaceInv' /\ TimelineMove
    BY <2>1, OtherwiseKept DEF OpenEditor, WorkspaceInv
  <2> QED BY <1>1, <2>1, UndoRequestSound, StatusSound, SaveEditorSound DEF PendingRequest
<1>2. ASSUME NEW c \in Clients, Proceed(c) PROVE WorkspaceInv' /\ TimelineMove
  BY <1>2, CommitCoreSound, RecordSound, ApproveCommitSound DEF Proceed
<1>3. CASE Readdress
  BY <1>3, OtherwiseKept DEF Readdress, WorkspaceInv
<1> QED BY <1>1, <1>2, <1>3, StatusSound, OutcomeSound, ArriveSound, ClaimSound, RestartSound
        DEF Next

THEOREM WorkspaceInvariant == Spec => []WorkspaceInv
<1>1. Init => WorkspaceInv
  <2> SUFFICES ASSUME Init PROVE WorkspaceInv
    OBVIOUS
  <2>1. IsHistory(EmptyHistory)
    BY DEF IsHistory, EmptyHistory, Distinct, Apart
  <2>2. IsPublished(FreshState)
    BY <2>1 DEF FreshState, IsPublished, ArePins
  <2>3. AreDrafts(row)
    <3>1. IsDraft(NoRow)
      BY DEF NoRow, IsDraft, Rows
    <3> QED BY <3>1 DEF Init, AreDrafts, IsDraft
  <2>4. DOMAIN req = Clients /\ \A c \in Clients : ClientSound(c)
    BY DEF Init, ClientSound, Idle
  <2> QED BY <2>2, <2>3, <2>4 DEF Init, WorkspaceInv, AttemptSound, WaitsSound
<1>2. WorkspaceInv /\ OpInv /\ [Next]_vars => WorkspaceInv'
  <2> SUFFICES ASSUME WorkspaceInv, OpInv, [Next]_vars PROVE WorkspaceInv'
    OBVIOUS
  <2>1. CASE UNCHANGED vars
    BY <2>1, OtherwiseKept DEF vars, WorkspaceInv
  <2> QED BY <2>1, NextSound
<1> QED BY <1>1, <1>2, OpInvariant, PTL DEF Spec

\* Rows are well formed, and in every published state, also one whose publication
\* was not acknowledged, the stacks are distinct positions of the journal.
THEOREM WorkspaceTyped == Spec => []TypeOK
<1>1. ASSUME NEW s, IsPublished(s) PROVE IsState(s)
  <2>1. IsHistory(s.h) /\ ArePins(s.expected)
    BY <1>1 DEF IsPublished
  <2>2. /\ Range(s.h.undo \o s.h.redo) \subseteq DOMAIN s.h.journal
        /\ IsInjective(s.h.undo \o s.h.redo)
    BY <2>1, StacksAre
  <2>3. s.h.undo = <<>> => s.h.redo = <<>>
    BY <2>1 DEF IsHistory
  <2> QED BY <1>1, <2>1, <2>2, <2>3 DEF IsState, IsPublished, ArePins, IsDraft
<1>2. WorkspaceInv => TypeOK
  BY <1>1 DEF WorkspaceInv, AttemptSound, AreDrafts, IsDraft, TypeOK
<1> QED BY <1>2, WorkspaceInvariant, PTL

-----------------------------------------------------------------------------
(* The steps of the stacks, in the words of the timeline, which has the state *)
(* that is redone next in front.                                              *)

LEMMA ReverseIs ==
    ASSUME NEW S, NEW r \in Seq(S)
    PROVE  /\ Reverse(r) \in Seq(S) /\ Len(Reverse(r)) = Len(r) /\ Len(r) \in Nat
           /\ DOMAIN Reverse(r) = 1..Len(r) /\ DOMAIN r = 1..Len(r)
           /\ \A i \in 1..Len(r) : Reverse(r)[i] = r[(Len(r) - i) + 1]
<1>1. Len(r) \in Nat /\ \A i \in 1..Len(r) : r[(Len(r) - i) + 1] \in S
  <2>1. Len(r) \in Nat /\ \A i \in 1..Len(r) : r[i] \in S
    OBVIOUS
  <2>2. \A i \in 1..Len(r) : (Len(r) - i) + 1 \in 1..Len(r)
    BY <2>1
  <2> QED BY <2>1, <2>2
<1>2. Reverse(r) = [i \in 1..Len(r) |-> r[(Len(r) - i) + 1]]
  BY DEF Reverse
<1>3. Reverse(r) \in Seq(S)
  BY <1>1, <1>2, IsASeq
<1> QED BY <1>1, <1>2, <1>3, LenProperties

LEMMA ReverseAppend ==
    ASSUME NEW S, NEW r \in Seq(S), NEW x \in S
    PROVE  Reverse(Append(r, x)) = (<<x>> \o Reverse(r))
<1>1. PICK a, v, w, n : /\ a = Append(r, x) /\ v = Reverse(a)
                        /\ w = (<<x>> \o Reverse(r)) /\ n = Len(r)
  OBVIOUS
<1>2. /\ a \in Seq(S) /\ Len(a) = n + 1 /\ n \in Nat
      /\ \A i \in 1..n : a[i] = r[i]
      /\ a[n + 1] = x
  <2>1. DOMAIN r = 1..n
    BY <1>1
  <2> QED BY <1>1, <2>1, AppendIs
<1>3. /\ v \in Seq(S) /\ Len(v) = n + 1 /\ \A i \in 1..n + 1 : v[i] = a[((n + 1) - i) + 1]
  <2>1. /\ v \in Seq(S) /\ Len(v) = Len(a)
        /\ \A i \in 1..Len(a) : v[i] = a[(Len(a) - i) + 1]
    <3>1. a \in Seq(S) /\ v = Reverse(a)
      BY <1>1, <1>2
    <3> QED BY <3>1, ReverseIs
  <2> QED BY <1>2, <2>1
<1>4. /\ Reverse(r) \in Seq(S) /\ Len(Reverse(r)) = n
      /\ \A i \in 1..n : Reverse(r)[i] = r[(n - i) + 1]
  BY <1>1, ReverseIs
<1>5. /\ w \in Seq(S) /\ Len(w) = n + 1 /\ w[1] = x
      /\ \A i \in 2..n + 1 : w[i] = Reverse(r)[i - 1]
  <2>1. /\ <<x>> \in Seq(S) /\ Len(<<x>>) = 1 /\ <<x>>[1] = x
    OBVIOUS
  <2>2. /\ w \in Seq(S) /\ Len(w) = 1 + n
        /\ \A i \in 1..1 + n : w[i] = IF i <= 1 THEN <<x>>[i] ELSE Reverse(r)[i - 1]
    BY <1>1, <1>4, <2>1, ConcatProperties
  <2> QED BY <1>2, <2>1, <2>2
<1>6. ASSUME NEW i \in 1..n + 1 PROVE v[i] = w[i]
  <2>1. CASE i = 1
    <3>1. v[i] = a[n + 1]
      BY <1>2, <1>3, <2>1
    <3> QED BY <1>2, <1>5, <2>1, <3>1
  <2>2. CASE i # 1
    <3>1. /\ i \in 2..n + 1 /\ i - 1 \in 1..n /\ ((n + 1) - i) + 1 = (n - (i - 1)) + 1
          /\ (n - (i - 1)) + 1 \in 1..n
      BY <1>2, <2>2
    <3>2. v[i] = r[(n - (i - 1)) + 1] /\ w[i] = r[(n - (i - 1)) + 1]
      BY <1>2, <1>3, <1>4, <1>5, <3>1
    <3> QED BY <3>2
  <2> QED BY <2>1, <2>2
<1>7. v = w
  BY <1>3, <1>5, <1>6, SeqEqual
<1> QED BY <1>1, <1>7

LEMMA ReverseFront ==
    ASSUME NEW S, NEW r \in Seq(S), r # <<>>
    PROVE  /\ Reverse(r) # <<>> /\ Head(Reverse(r)) = Last(r)
           /\ Tail(Reverse(r)) = Reverse(Front(r))
<1>1. PICK f, x : f = Front(r) /\ x = Last(r)
  OBVIOUS
<1>2. /\ f \in Seq(S) /\ x \in S /\ Len(r) \in Nat \ {0} /\ Len(f) = Len(r) - 1
      /\ \A i \in 1..Len(f) : f[i] = r[i]
      /\ x = r[Len(r)]
  BY <1>1, FrontIs
<1>3. r = Append(f, x)
  <2>1. /\ Append(f, x) \in Seq(S) /\ Len(Append(f, x)) = Len(r)
        /\ \A i \in 1..Len(f) : Append(f, x)[i] = f[i]
        /\ Append(f, x)[Len(r)] = x
    <3>1. DOMAIN f = 1..Len(f) /\ Len(f) + 1 = Len(r)
      BY <1>2
    <3> QED BY <1>2, <3>1, AppendIs
  <2>2. \A i \in 1..Len(r) : i \in 1..Len(f) \/ i = Len(r)
    BY <1>2
  <2>3. \A i \in 1..Len(r) : r[i] = Append(f, x)[i]
    BY <1>2, <2>1, <2>2
  <2> QED BY <2>1, <2>3, SeqEqual
<1>4. Reverse(r) = (<<x>> \o Reverse(f)) /\ Reverse(f) \in Seq(S)
  BY <1>2, <1>3, ReverseAppend, ReverseIs
<1>5. PICK g : g = Reverse(f)
  OBVIOUS
<1>6. (<<x>> \o g) # <<>> /\ Head(<<x>> \o g) = x /\ Tail(<<x>> \o g) = g
  BY <1>2, <1>4, <1>5
<1> QED BY <1>1, <1>4, <1>5, <1>6

LEMMA ReverseRange ==
    ASSUME NEW S, NEW r \in Seq(S)
    PROVE  Range(Reverse(r)) \subseteq Range(r) /\ (r = <<>> => Reverse(r) = <<>>)
<1>1. ASSUME NEW i \in 1..Len(r) PROVE (Len(r) - i) + 1 \in 1..Len(r)
  OBVIOUS
<1>2. Range(Reverse(r)) \subseteq Range(r)
  BY <1>1, ReverseIs DEF Range
<1>3. r = <<>> => Reverse(r) = <<>>
  BY DEF Reverse
<1> QED BY <1>2, <1>3

\* One step of the published history is one of its timeline.
LEMMA MoveIsStep ==
    ASSUME IsHistory(live.h), IsHistory(live'.h), TimelineMove
    PROVE  \/ T!Next \/ T!Barrier
           \/ UNCHANGED <<live.h.undo, Reverse(live.h.redo)>>
<1>1. PICK h, k, P, n : h = live.h /\ k = live'.h /\ n = Len(h.journal) /\ P = 1..n
  OBVIOUS
<1>2. /\ h.undo \in Seq(P) /\ h.redo \in Seq(P) /\ n \in Nat /\ IsHistory(k)
  BY <1>1 DEF IsHistory
<1>3. CASE k.undo = h.undo /\ k.redo = h.redo
  BY <1>1, <1>3
<1>4. CASE Grows(h, k)
  <2>1. PICK e : e = n + 1
    OBVIOUS
  <2>2. k.undo = Append(h.undo, e) /\ Reverse(k.redo) = <<>> /\ e \in Nat \ {0}
    BY <1>1, <1>2, <1>4, <2>1 DEF Grows, Reverse
  <2>3. h.undo \in Seq(Nat)
    <3>1. P \subseteq Nat
      BY <1>1
    <3> QED BY <1>2, <3>1, SeqMonotonic
  <2>4. k.undo # <<>> /\ k.undo[Len(k.undo)] = e
    BY <2>2, <2>3, AppendIs
  <2>5. T!Do
    BY <1>1, <2>2, <2>4 DEF T!Do
  <2> QED BY <2>5 DEF T!Next
<1>5. CASE h.undo # <<>> /\ k.undo = Front(h.undo) /\ k.redo = Append(h.redo, Last(h.undo))
  <2>1. /\ k.undo = SubSeq(h.undo, 1, Len(h.undo) - 1) /\ Last(h.undo) \in P
        /\ Last(h.undo) = h.undo[Len(h.undo)]
    BY <1>2, <1>5, FrontIs
  <2>2. Reverse(k.redo) = (<<Last(h.undo)>> \o Reverse(h.redo))
    BY <1>2, <1>5, <2>1, ReverseAppend
  <2>3. T!Undo
    BY <1>1, <1>5, <2>1, <2>2 DEF T!Undo
  <2> QED BY <2>3 DEF T!Next
<1>6. CASE h.redo # <<>> /\ k.undo = Append(h.undo, Last(h.redo)) /\ k.redo = Front(h.redo)
  <2>1. /\ Reverse(h.redo) # <<>> /\ Head(Reverse(h.redo)) = Last(h.redo)
        /\ Tail(Reverse(h.redo)) = Reverse(k.redo)
    BY <1>2, <1>6, ReverseFront
  <2>2. T!Redo
    BY <1>1, <1>6, <2>1 DEF T!Redo
  <2> QED BY <2>2 DEF T!Next
<1>7. CASE Later(h, k) \/ k = EmptyHistory
  <2>1. PICK l, Q : l = Len(k.journal) /\ Q = 1..l
    OBVIOUS
  <2>2. k.undo \in Seq(Q) /\ k.redo \in Seq(Q) /\ (k.undo = <<>> => k.redo = <<>>)
    BY <1>2, <2>1 DEF IsHistory
  <2>3. /\ Range(Reverse(h.redo)) \subseteq Range(h.redo)
        /\ Range(Reverse(k.redo)) \subseteq Range(k.redo)
        /\ k.redo = <<>> => Reverse(k.redo) = <<>>
    BY <1>2, <2>2, ReverseRange
  <2>4. \A x \in Range(h.undo) \cup Range(h.redo) : x \in P
    <3>1. DOMAIN h.undo = 1..Len(h.undo) /\ DOMAIN h.redo = 1..Len(h.redo)
      BY <1>2
    <3> QED BY <1>2, <3>1 DEF Range
  <2>5. \A x \in Range(k.undo) \cup Range(k.redo) : x \notin P
    <3>1. CASE Later(h, k)
      <4>1. \A x \in Range(k.undo) \cup Range(k.redo) : x > n
        BY <1>1, <3>1 DEF Later, Range
      <4> QED BY <1>1, <1>2, <4>1
    <3>2. CASE k = EmptyHistory
      BY <3>2 DEF EmptyHistory, Range
    <3> QED BY <1>7, <3>1, <3>2
  <2>6. \A f : T!Range(f) = Range(f)
    BY DEF T!Range, Range
  <2>7. (Range(k.undo) \cup Range(Reverse(k.redo)))
           \cap (Range(h.undo) \cup Range(Reverse(h.redo))) = {}
    BY <2>3, <2>4, <2>5
  <2>8. k.undo = <<>> => Reverse(k.redo) = <<>>
    BY <2>2, <2>3
  <2>9. T!Barrier
    BY <1>1, <2>6, <2>7, <2>8 DEF T!Barrier, T!InTimeline
  <2> QED BY <2>9
<1> QED BY <1>1, <1>3, <1>4, <1>5, <1>6, <1>7 DEF TimelineMove, Follows

\* The refinement: between two barriers the published history is an undo stack,
\* and a barrier lets nothing from before it be undone or redone to.
THEOREM TimelineKept == Spec => IsTimeline
<1>1. Init => T!Init
  BY DEF Init, T!Init, FreshState, EmptyHistory, Reverse
<1>2. ASSUME WorkspaceInv, OpInv, [Next]_vars
      PROVE  [T!Next \/ T!Barrier]_<<live.h.undo, Reverse(live.h.redo)>>
  <2>1. WorkspaceInv' /\ TimelineMove
    <3>1. CASE UNCHANGED vars
      BY <1>2, <3>1, OtherwiseKept DEF vars, WorkspaceInv
    <3> QED BY <1>2, <3>1, NextSound
  <2>2. IsHistory(live.h) /\ IsHistory(live'.h)
    BY <1>2, <2>1 DEF WorkspaceInv, IsPublished
  <2> QED BY <2>1, <2>2, MoveIsStep
<1> QED BY <1>1, <1>2, OpInvariant, WorkspaceInvariant, PTL DEF Spec, IsTimeline, T!TimelineSpec

-----------------------------------------------------------------------------
(* Why a save is fresh.  A tab is stale when its draft was written since it   *)
(* was opened.  Its revision names the epoch it was opened in, so what has to *)
(* be shown is that the draft cannot be active again within that epoch,       *)
(* except while a write waits to be read back or a recovery is required.      *)

IsSent == op # NoOp /\ op.sent

\* The published state shows d with the text x.
Shows(h, d, x) ==
    /\ Current(h) # NoSnapshot
    /\ d \in DOMAIN Current(h) /\ Current(h)[d] = x

\* A tab has opened a draft in this epoch or an earlier one.
TabShape(b) ==
    LET e == editor[b]
    IN  e # None =>
        /\ e \in Editors /\ e.rev.epoch <= live.epoch
        /\ row[e.rev.draft].st # "absent"
        /\ e.rev.raw.st = "pending" /\ Eligible(e.rev.raw)

\* The draft of the tab was written in this epoch, and is active.
Stale(b) ==
    /\ editor[b] # None /\ ~editor[b].fresh
    /\ editor[b].rev.epoch = live.epoch /\ editor[b].rev.draft \in ActiveOf(row)

StaleSound(b) ==
    Stale(b) =>
        LET d == editor[b].rev.draft
        IN  /\ RecoveryRequired \/ IsSent
            /\ ~Shows(live.h, d, row[d].text)
            /\ IsSent => d \in DOMAIN op.pinned /\ row[d] # op.pinned[d]

TabsSound ==
    DOMAIN editor = Tabs /\ \A b \in Tabs : TabShape(b) /\ StaleSound(b)

\* Two snapshots agree on the drafts that are in both.
Agree(a, b) == a # NoSnapshot => \A d \in DOMAIN a \cap DOMAIN b : a[d] = b[d]

HistoryAgrees == ~RecoveryRequired /\ ~IsSent => Agree(Current(live.h), SnapshotOf(row))

\* The packet of the waiting request writes what is there already.
Restates ==
    /\ op.epoch = live.epoch /\ op.h = live.h
    /\ \A d \in DOMAIN op.pinned :
          IF d \in DOMAIN op.target
          THEN op.pinned[d].st = "pending" /\ op.pinned[d].text = op.target[d]
          ELSE op.pinned[d].st = "cancelled"

\* What a packet writes is new to the published state, or was there before.
WritesNews ==
    \A d \in DOMAIN op.pinned \cap DOMAIN op.target :
        Shows(live.h, d, op.target[d]) =>
            op.pinned[d].st = "pending" /\ op.pinned[d].text = op.target[d]

\* The tab that saves was opened in this epoch, on the row that is pinned.
SavesPinned ==
    op.tab # None =>
        LET rev == editor[op.tab].rev
        IN  /\ op.tab \in Tabs /\ editor[op.tab] # None /\ rev.epoch = live.epoch
            /\ rev.draft \in DOMAIN op.pinned /\ op.pinned[rev.draft] = rev.raw

PacketSound ==
    op # NoOp =>
        /\ ~RecoveryRequired /\ op.sent \in BOOLEAN
        /\ Current(op.h) = op.target /\ Agree(Current(live.h), op.before)
        /\ op.epoch > live.epoch \/ Restates
        /\ WritesNews /\ SavesPinned

\* A publication that was not acknowledged is in a later epoch, or no other state.
AttemptRises ==
    attempt # None =>
        \/ attempt.target.epoch > attempt.base.epoch
        \/ attempt.target.epoch = attempt.base.epoch /\ attempt.target.h = attempt.base.h

\* A draft that is not there is in no published state, and one client inserts it.
UnknownBefore ==
    \A d \in Drafts : row[d].st = "absent" /\ Current(live.h) # NoSnapshot =>
        d \notin DOMAIN Current(live.h)
InsertedOnce ==
    \A c \in Clients : req[c].pc = "insert" =>
        /\ row[req[c].draft].st = "absent"
        /\ \A o \in Clients : req[o].pc = "insert" /\ req[o].draft = req[c].draft => o = c

FreshInv ==
    /\ TabsSound /\ HistoryAgrees /\ PacketSound /\ AttemptRises
    /\ UnknownBefore /\ InsertedOnce

-----------------------------------------------------------------------------
(* What is on top after a state was recorded. *)

LEMMA CurrentTyped ==
    ASSUME NEW h, IsHistory(h)
    PROVE  Current(h) \in Snapshots \cup {NoSnapshot} /\ NoSnapshot \notin Snapshots
<1>1. NoSnapshot \notin Snapshots
  BY PendingValues DEF Snapshots
<1>2. CASE h.undo = <<>>
  BY <1>1, <1>2 DEF Current
<1>3. CASE h.undo # <<>>
  BY <1>1, <1>3, CurrentIs
<1> QED BY <1>2, <1>3

LEMMA CheckpointCurrent ==
    ASSUME NEW h, IsHistory(h), NEW s \in Snapshots
    PROVE  Current(Checkpoint(h, s)) = s
<1> DEFINE k == Checkpoint(h, s)
<1>1. h.journal \in Seq(Snapshots)
  BY DEF IsHistory
<1>2. k.journal = Append(h.journal, s)
  BY DEF Checkpoint, Event, IsHistory
<1>3. k.undo = <<Len(h.journal) + 1>>
  BY DEF Checkpoint, Event, IsHistory
<1> HIDE DEF k
<1>4. k.undo # <<>> /\ Last(k.undo) = Len(h.journal) + 1
  BY <1>3 DEF Last
<1>5. k.journal[Len(h.journal) + 1] = s
  BY <1>1, <1>2, AppendIs
<1> QED BY <1>4, <1>5 DEF Current, k

LEMMA PushCurrent ==
    ASSUME NEW h, IsHistory(h), NEW s \in Snapshots
    PROVE  Current(PushState(h, s)) = s
<1> DEFINE k == PushState(h, s)
<1>1. h.journal \in Seq(Snapshots) /\ h.undo \in Seq(1..Len(h.journal))
  BY DEF IsHistory
<1>2. k.journal = Append(h.journal, s)
  BY DEF PushState, Event, IsHistory
<1>3. k.undo = Append(h.undo, Len(h.journal) + 1)
  BY PushHistory DEF Grows
<1> HIDE DEF k
<1>4. h.undo \in Seq(Nat) /\ Len(h.journal) + 1 \in Nat
  <2>1. 1..Len(h.journal) \subseteq Nat
    OBVIOUS
  <2> QED BY <1>1, <2>1, SeqMonotonic
<1>5. k.undo # <<>> /\ Last(k.undo) = Len(h.journal) + 1
  BY <1>3, <1>4, AppendIs DEF Last
<1>6. k.journal[Len(h.journal) + 1] = s
  BY <1>1, <1>2, AppendIs
<1> QED BY <1>5, <1>6 DEF Current, k

\* A synchronized state shows the active drafts; it is a new epoch, unless
\* nothing has changed.
LEMMA SyncedCurrent ==
    ASSUME NEW s, IsPublished(s), NEW rs, AreDrafts(rs)
    PROVE  LET t == SyncedState(s, rs) IN
           Current(t.h) = SnapshotOf(rs) /\ (t = s \/ t.epoch = s.epoch + 1)
<1>1. IsHistory(s.h) /\ SnapshotOf(rs) \in Snapshots
  BY SnapshotIs DEF IsPublished
<1> QED BY <1>1, PushCurrent, CheckpointCurrent DEF SyncedState, Reconciled, ChangedOutside

\* So does a recorded one.
LEMMA RecordedCurrent ==
    ASSUME NEW s, IsPublished(s), NEW before \in Snapshots, NEW after \in Snapshots,
           NEW rs
    PROVE  LET t == Recorded(s, before, after, rs) IN
           /\ Current(t.h) = after
           /\ t.epoch = s.epoch + 1 \/ (t.epoch = s.epoch /\ t.h = s.h /\ before = after)
           /\ \A d \in DOMAIN after : rs[d].st # "absent" =>
                 d \in DOMAIN t.expected /\ t.expected[d] = rs[d]
<1>1. IsHistory(s.h)
  BY DEF IsPublished
<1> DEFINE t == Recorded(s, before, after, rs)
<1>2. Current(t.h) = after
  BY <1>1, PushCurrent, CheckpointCurrent DEF Recorded
<1>3. t.epoch = s.epoch + 1 \/ (t.epoch = s.epoch /\ t.h = s.h /\ before = after)
  BY DEF Recorded
<1>4. \A d \in DOMAIN after : rs[d].st # "absent" =>
         d \in DOMAIN t.expected /\ t.expected[d] = rs[d]
  BY DEF Recorded, RawOf
<1> QED BY <1>2, <1>3, <1>4

-----------------------------------------------------------------------------
(* Every step keeps what makes a save fresh.                                *)

\* A new epoch, unless the published history is the same.
Rises == live'.epoch > live.epoch \/ (live'.epoch = live.epoch /\ live'.h = live.h)

LEMMA SyncRises ==
    ASSUME WorkspaceInv, AttemptRises, Synchronize
    PROVE  /\ IsPublished(live') /\ Current(live'.h) = SnapshotOf(row) /\ Rises
           /\ attempt' = None
<1>1. /\ AreDrafts(row) /\ IsPublished(live) /\ AttemptSound /\ attempt' = None
      /\ live' = Synchronized /\ live.epoch \in Nat /\ SnapshotOf(row) \in Snapshots
  BY SnapshotIs DEF WorkspaceInv, IsPublished, Synchronize
<1>2. IsPublished(live')
  BY SyncSound
<1>3. CASE attempt = None
  <2>1. PICK t : t = SyncedState(live, row)
    OBVIOUS
  <2>2. Current(t.h) = SnapshotOf(row) /\ (t = live \/ t.epoch = live.epoch + 1)
    BY <1>1, <2>1, SyncedCurrent
  <2>3. live' = t
    BY <1>1, <1>3, <2>1 DEF Synchronized
  <2> QED BY <1>1, <1>2, <2>2, <2>3 DEF Rises
<1>4. CASE attempt # None
  <2>1. PICK l, m : l = attempt.base /\ m = attempt.target
    OBVIOUS
  <2>2. /\ IsPublished(l) /\ IsPublished(m) /\ live \in {l, m}
        /\ m.epoch > l.epoch \/ (m.epoch = l.epoch /\ m.h = l.h)
    BY <1>1, <1>4, <2>1 DEF AttemptSound, Synchronize, SyncAllowed, AttemptRises
  <2>3. CASE Matches(m, row)
    <3>1. live' = m /\ Current(m.h) = SnapshotOf(row)
      BY <1>1, <1>4, <2>1, <2>3 DEF Synchronized, Matches
    <3> QED BY <1>1, <1>2, <2>2, <3>1 DEF Rises
  <2>4. CASE ~Matches(m, row)
    <3>1. PICK seed : seed = IF live = l THEN m ELSE live
      OBVIOUS
    <3>2. live' = Reconciled(seed, Checkpoint(seed.h, SnapshotOf(row)), row)
      BY <1>1, <1>4, <2>1, <2>4, <3>1 DEF Synchronized
    <3>3. IsPublished(seed) /\ seed.epoch \in Nat /\ seed.epoch >= live.epoch
      BY <1>1, <2>2, <3>1 DEF IsPublished
    <3>4. live'.epoch = seed.epoch + 1 /\ live'.h = Checkpoint(seed.h, SnapshotOf(row))
      BY <3>2 DEF Reconciled
    <3>5. Current(live'.h) = SnapshotOf(row)
      BY <1>1, <3>3, <3>4, CheckpointCurrent DEF IsPublished
    <3> QED BY <1>1, <1>2, <3>3, <3>4, <3>5 DEF Rises
  <2> QED BY <2>3, <2>4
<1> QED BY <1>3, <1>4

\* The published state shows every active draft.
LEMMA ShowsActive ==
    ASSUME NEW h, NEW rs, AreDrafts(rs), Current(h) = SnapshotOf(rs), NEW d \in ActiveOf(rs)
    PROVE  Shows(h, d, rs[d].text)
<1>1. SnapshotOf(rs) # NoSnapshot
  BY SnapshotIs, PendingValues DEF Snapshots
<1> QED BY <1>1 DEF Shows, SnapshotOf

\* A publication of the rows as they are.
LEMMA PublishedFresh ==
    ASSUME WorkspaceInv, TabsSound, UnknownBefore, IsPublished(live'),
           op = NoOp, UNCHANGED <<row, editor, op>>,
           Current(live'.h) = SnapshotOf(row), Rises
    PROVE  TabsSound' /\ HistoryAgrees' /\ PacketSound' /\ UnknownBefore'
<1>1. AreDrafts(row) /\ live.epoch \in Nat /\ live'.epoch \in Nat
  BY DEF WorkspaceInv, IsPublished
<1>2. ASSUME NEW b \in Tabs PROVE TabShape(b)' /\ StaleSound(b)'
  <2>1. TabShape(b) /\ StaleSound(b)
    BY DEF TabsSound
  <2>2. TabShape(b)'
    <3>1. editor[b] # None => editor[b].rev.epoch \in Nat
      BY <2>1 DEF TabShape, Editors
    <3> QED BY <1>1, <2>1, <3>1 DEF TabShape, Rises
  <2>3. ASSUME Stale(b)' PROVE FALSE
    <3>1. /\ editor[b] # None /\ ~editor[b].fresh /\ editor[b].rev.epoch = live'.epoch
          /\ editor[b].rev.draft \in ActiveOf(row)
      BY <2>3 DEF Stale
    <3>2. live'.epoch = live.epoch /\ live'.h = live.h
      BY <1>1, <2>1, <3>1 DEF TabShape, Rises
    <3>3. Shows(live.h, editor[b].rev.draft, row[editor[b].rev.draft].text)
      BY <1>1, <3>1, <3>2, ShowsActive
    <3> QED BY <2>1, <3>1, <3>2, <3>3 DEF StaleSound, Stale
  <2> QED BY <2>2, <2>3 DEF StaleSound
<1>3. HistoryAgrees'
  BY DEF HistoryAgrees, Agree
<1>4. UnknownBefore'
  BY DEF UnknownBefore, SnapshotOf, ActiveOf
<1> QED BY <1>2, <1>3, <1>4 DEF TabsSound, PacketSound

\* Nothing of what they speak of.
LEMMA FreshKept ==
    ASSUME FreshInv, UNCHANGED <<row, live, attempt, flag, editor, op, req>>
    PROVE  FreshInv'
<1>1. TabsSound'
  BY DEF FreshInv, TabsSound, TabShape, StaleSound, Stale, RecoveryRequired, IsSent
<1>2. HistoryAgrees'
  BY DEF FreshInv, HistoryAgrees, RecoveryRequired, IsSent
<1>3. PacketSound'
  BY DEF FreshInv, PacketSound, Restates, WritesNews, SavesPinned, RecoveryRequired
<1>4. AttemptRises' /\ UnknownBefore' /\ InsertedOnce'
  BY DEF FreshInv, AttemptRises, UnknownBefore, InsertedOnce
<1> QED BY <1>1, <1>2, <1>3, <1>4 DEF FreshInv

\* A request that waits with its packet.
LEMMA PreparedFresh ==
    ASSUME WorkspaceInv, FreshInv, op = NoOp, ~RecoveryRequired,
           NEW target, NEW pinned, ArePins(pinned), NEW h, NEW epoch, NEW tab,
           Prepare(target, pinned, h, epoch, tab), Current(h) = target,
           epoch > live.epoch \/ (epoch = live.epoch /\ h = live.h /\ target = SnapshotOf(row)),
           \A d \in DOMAIN pinned \cap DOMAIN target :
               Shows(live.h, d, target[d]) => d \in ActiveOf(row),
           tab # None =>
               /\ tab \in Tabs /\ editor[tab] # None /\ editor[tab].rev.epoch = live.epoch
               /\ editor[tab].rev.draft \in DOMAIN pinned
               /\ pinned[editor[tab].rev.draft] = editor[tab].rev.raw
    PROVE  FreshInv'
<1>1. /\ UNCHANGED <<row, live, attempt, flag, editor, req>>
      /\ op' # NoOp => /\ op'.target = target /\ op'.pinned = pinned /\ op'.h = h
                       /\ op'.epoch = epoch /\ op'.before = SnapshotOf(row)
                       /\ op'.tab = tab /\ op'.sent = FALSE
      /\ \A d \in DOMAIN pinned : row[d] = pinned[d] /\ Eligible(row[d]) /\ d \in Drafts
  BY DEF Prepare, Applicable, ArePins
<1>2. RecoveryRequired' = RecoveryRequired /\ ~IsSent /\ ~IsSent'
  BY <1>1 DEF RecoveryRequired, IsSent
<1>3. TabsSound'
  <2>1. ASSUME NEW b \in Tabs PROVE TabShape(b)' /\ StaleSound(b)'
    <3>1. TabShape(b) /\ StaleSound(b)
      BY DEF FreshInv, TabsSound
    <3>2. ~Stale(b)
      BY <1>2, <3>1 DEF StaleSound
    <3> QED BY <1>1, <3>1, <3>2 DEF TabShape, StaleSound, Stale
  <2> QED BY <1>1, <2>1 DEF FreshInv, TabsSound
<1>4. Agree(Current(live.h), SnapshotOf(row)) /\ HistoryAgrees'
  BY <1>1, <1>2 DEF FreshInv, HistoryAgrees
<1>5. ASSUME op' # NoOp PROVE Restates' \/ op'.epoch > live'.epoch
  <2>1. CASE epoch > live.epoch
    BY <1>1, <1>5, <2>1
  <2>2. CASE epoch = live.epoch /\ h = live.h /\ target = SnapshotOf(row)
    <3>1. ASSUME NEW d \in DOMAIN pinned
          PROVE  IF d \in DOMAIN target
                 THEN pinned[d].st = "pending" /\ pinned[d].text = target[d]
                 ELSE pinned[d].st = "cancelled"
      <4>1. row[d] = pinned[d] /\ Eligible(row[d]) /\ d \in Drafts
        BY <1>1
      <4> QED BY <2>2, <4>1 DEF SnapshotOf, ActiveOf, Eligible
    <3> QED BY <1>1, <1>5, <2>2, <3>1 DEF Restates
  <2> QED BY <2>1, <2>2
<1>6. ASSUME op' # NoOp PROVE WritesNews'
  <2>1. ASSUME NEW d \in DOMAIN pinned \cap DOMAIN target, Shows(live.h, d, target[d])
        PROVE  pinned[d].st = "pending" /\ pinned[d].text = target[d]
    <3>1. row[d] = pinned[d] /\ d \in ActiveOf(row)
      BY <1>1, <2>1
    <3>2. row[d].st = "pending" /\ row[d].text = target[d]
      BY <1>4, <2>1, <3>1 DEF Agree, Shows, SnapshotOf, ActiveOf
    <3> QED BY <3>1, <3>2
  <2> QED BY <1>1, <1>6, <2>1 DEF WritesNews, Shows
<1>7. ASSUME op' # NoOp PROVE SavesPinned'
  BY <1>1, <1>7 DEF SavesPinned
<1>8. PacketSound'
  <2>1. ASSUME op' # NoOp
        PROVE  Current(op'.h) = op'.target /\ Agree(Current(live'.h), op'.before)
    BY <1>1, <1>4, <2>1
  <2> QED BY <1>1, <1>2, <1>5, <1>6, <1>7, <2>1 DEF PacketSound
<1>9. AttemptRises' /\ UnknownBefore' /\ InsertedOnce'
  BY <1>1 DEF FreshInv, AttemptRises, UnknownBefore, InsertedOnce
<1> QED BY <1>1, <1>2, <1>3, <1>4, <1>8, <1>9 DEF FreshInv

LEMMA MoveFresh ==
    ASSUME WorkspaceInv, FreshInv, UndoRequest \/ RedoRequest \/ RestoreRequest
    PROVE  FreshInv'
<1>1. /\ op = NoOp /\ ~RecoveryRequired
      /\ Current(live.h) # NoSnapshot => Current(live.h) = SnapshotOf(row)
  BY DEF UndoRequest, RedoRequest, RestoreRequest, Move, ChangedOutside, Free
<1>2. PICK h : Prepare(Current(h), live.expected, h, live.epoch + 1, None)
  BY DEF UndoRequest, RedoRequest, RestoreRequest, Move
<1>3. ArePins(live.expected) /\ live.epoch \in Nat
  BY DEF WorkspaceInv, IsPublished
<1>4. PICK target, epoch : target = Current(h) /\ epoch = live.epoch + 1
  OBVIOUS
<1>5. \A d : Shows(live.h, d, target[d]) => d \in ActiveOf(row)
  BY <1>1 DEF Shows, SnapshotOf
<1>6. epoch > live.epoch
  BY <1>3, <1>4
<1> QED BY <1>1, <1>2, <1>3, <1>4, <1>5, <1>6, PreparedFresh

LEMMA SaveEditorFresh ==
    ASSUME WorkspaceInv, FreshInv, NEW b \in Tabs, NEW x \in Texts, SaveEditor(b, x)
    PROVE  FreshInv'
<1>1. PICK d, before, target, fork, done :
         /\ d = editor[b].rev.draft
         /\ before = SnapshotOf(row) /\ target = [before EXCEPT ![d] = x] /\ d \in ActiveOf(row)
         /\ fork = SyncedState(live, row) /\ done = Recorded(fork, before, target, row)
         /\ editor[b].rev = RevisionOf(d)
         /\ Prepare(target, done.expected, done.h, done.epoch, b)
  BY DEF SaveEditor
<1>2. /\ op = NoOp /\ ~RecoveryRequired /\ editor[b] # None
      /\ AreDrafts(row) /\ IsPublished(live) /\ live.epoch \in Nat
  BY DEF SaveEditor, Free, WorkspaceInv, IsPublished
<1>3. before \in Snapshots /\ DOMAIN before = ActiveOf(row)
  BY <1>1, <1>2, SnapshotIs DEF SnapshotOf
<1>4. target \in Snapshots /\ DOMAIN target = ActiveOf(row)
  BY <1>1, <1>3 DEF Snapshots
<1>5. IsPublished(fork) /\ (fork = live \/ fork.epoch = live.epoch + 1)
  BY <1>1, <1>2, SyncedSound, SyncedCurrent
<1>6. /\ Current(done.h) = target
      /\ \/ done.epoch = fork.epoch + 1
         \/ done.epoch = fork.epoch /\ done.h = fork.h /\ before = target
      /\ \A k \in DOMAIN target : row[k].st # "absent" =>
            k \in DOMAIN done.expected /\ done.expected[k] = row[k]
  <2>1. done = Recorded(fork, before, target, row) /\ before \in Snapshots /\ target \in Snapshots
    BY <1>1, <1>3, <1>4
  <2> QED BY <1>5, <2>1, RecordedCurrent
<1>7. IsPublished(done)
  BY <1>1, <1>2, <1>3, <1>4, SaveFollows
<1>8. \/ done.epoch > live.epoch
      \/ done.epoch = live.epoch /\ done.h = live.h /\ target = SnapshotOf(row)
  <2>1. before = SnapshotOf(row) /\ fork.epoch \in Nat
    BY <1>1, <1>5 DEF IsPublished
  <2> QED BY <1>2, <1>5, <1>6, <2>1
<1>9. /\ editor[b].rev.epoch = live.epoch /\ editor[b].rev.draft = d /\ editor[b].rev.raw = row[d]
      /\ d \in DOMAIN done.expected /\ done.expected[d] = row[d]
  <2>1. editor[b].rev = RevisionOf(d) /\ d \in DOMAIN target /\ row[d].st = "pending"
    BY <1>1, <1>4 DEF ActiveOf
  <2> QED BY <1>6, <2>1 DEF RevisionOf
<1>10. ArePins(done.expected)
  BY <1>7 DEF IsPublished
<1>11. PICK p, h, e : p = done.expected /\ h = done.h /\ e = done.epoch
  OBVIOUS
<1>12. \A k \in DOMAIN p \cap DOMAIN target : k \in ActiveOf(row)
  BY <1>4
<1>13. Prepare(target, p, h, e, b)
  BY <1>1, <1>11
<1> HIDE DEF FreshInv, WorkspaceInv
<1> QED BY <1>2, <1>6, <1>8, <1>9, <1>10, <1>11, <1>12, <1>13, PreparedFresh

\* A write of rows leaves a tab its revision, and spoils it if its draft is written.
LEMMA SpoiledTab ==
    ASSUME TabsSound, NEW rs, editor' = Spoiled(rs), NEW b \in Tabs
    PROVE  /\ DOMAIN editor' = Tabs
           /\ editor[b] = None => editor'[b] = None
           /\ editor[b] # None =>
                 LET d == editor[b].rev.draft
                 IN  /\ editor'[b] # None /\ editor'[b] \in Editors
                     /\ editor'[b].rev = editor[b].rev
                     /\ editor'[b].fresh <=> (editor[b].fresh /\ rs[d] = row[d])
<1>1. DOMAIN editor' = Tabs
  BY DEF Spoiled
<1>2. ASSUME editor[b] = None PROVE editor'[b] = None
  BY <1>2 DEF Spoiled
<1>3. ASSUME editor[b] # None
      PROVE  LET d == editor[b].rev.draft
             IN  /\ editor'[b] # None /\ editor'[b] \in Editors
                 /\ editor'[b].rev = editor[b].rev
                 /\ editor'[b].fresh <=> (editor[b].fresh /\ rs[d] = row[d])
  <2>1. PICK e, d, f : e = editor[b] /\ d = e.rev.draft /\ f = (e.fresh /\ rs[d] = row[d])
    OBVIOUS
  <2>2. e \in Editors
    BY <1>3, <2>1 DEF TabsSound, TabShape
  <2>3. editor'[b] = [e EXCEPT !.fresh = f]
    BY <1>3, <2>1 DEF Spoiled
  <2>4. f \in BOOLEAN /\ (f <=> (e.fresh /\ rs[d] = row[d]))
    BY <2>1
  <2>5. editor'[b] = [rev |-> e.rev, fresh |-> f]
    BY <2>2, <2>3 DEF Editors
  <2>6. editor'[b] \in Editors
    BY <2>2, <2>4, <2>5 DEF Editors
  <2>7. editor'[b].rev = e.rev /\ editor'[b].fresh = f
    BY <2>5
  <2> QED BY <2>1, <2>4, <2>6, <2>7, PendingValues
<1> QED BY <1>1, <1>2, <1>3

\* What the history and the packet say outlives a write that makes no draft
\* active, or one that was not there.
LEMMA RowFresh ==
    ASSUME WorkspaceInv, FreshInv, NEW e \in Drafts, NEW r, row' = [row EXCEPT ![e] = r],
           editor' = Spoiled(row'), UNCHANGED <<live, attempt, flag, op>>,
           r.st # "absent", e \in ActiveOf(row') => row[e].st = "absent"
    PROVE  TabsSound' /\ HistoryAgrees' /\ PacketSound' /\ AttemptRises' /\ UnknownBefore'
<1>1. /\ \A d \in Drafts : row'[d] = IF d = e THEN r ELSE row[d]
      /\ RecoveryRequired' = RecoveryRequired /\ IsSent' = IsSent
  BY DEF WorkspaceInv, AreDrafts, RecoveryRequired, IsSent
<1>2. /\ ActiveOf(row') \subseteq ActiveOf(row) \cup {e}
      /\ \A d \in ActiveOf(row') : row[d].st # "absent" => d \in ActiveOf(row) /\ row'[d] = row[d]
  BY <1>1 DEF ActiveOf
<1>3. ASSUME NEW b \in Tabs PROVE TabShape(b)' /\ StaleSound(b)'
  <2>1. TabShape(b) /\ StaleSound(b)
    BY DEF FreshInv, TabsSound
  <2>2. /\ editor[b] = None => editor'[b] = None
        /\ editor[b] # None =>
              /\ editor'[b] \in Editors /\ editor'[b].rev = editor[b].rev
              /\ editor'[b].fresh <=>
                    (editor[b].fresh /\ row'[editor[b].rev.draft] = row[editor[b].rev.draft])
    BY SpoiledTab DEF FreshInv
  <2>3. editor[b] # None => editor[b].rev.draft \in Drafts
    BY <2>1 DEF TabShape, Editors
  <2>4. TabShape(b)'
    BY <1>1, <2>1, <2>2, <2>3 DEF TabShape
  <2>5. ASSUME Stale(b)' PROVE Stale(b) /\ row'[editor[b].rev.draft] = row[editor[b].rev.draft]
    BY <1>2, <2>1, <2>2, <2>5 DEF Stale, TabShape
  <2>6. StaleSound(b)'
    BY <1>1, <2>1, <2>2, <2>5 DEF StaleSound, Stale, Shows
  <2> QED BY <2>4, <2>6
<1>4. TabsSound'
  BY <1>3, SpoiledTab DEF FreshInv, TabsSound, Spoiled
<1>5. UnknownBefore'
  BY <1>1 DEF FreshInv, UnknownBefore
<1>6. HistoryAgrees'
  <2>1. ASSUME ~RecoveryRequired, ~IsSent, Current(live.h) # NoSnapshot,
               NEW d \in DOMAIN Current(live.h) \cap DOMAIN SnapshotOf(row')
        PROVE  Current(live.h)[d] = SnapshotOf(row')[d]
    <3>1. d \in ActiveOf(row') /\ d \in Drafts
      BY <2>1 DEF SnapshotOf, ActiveOf
    <3>2. row[d].st # "absent"
      BY <2>1, <3>1 DEF FreshInv, UnknownBefore
    <3>3. d \in ActiveOf(row) /\ row'[d] = row[d]
      BY <1>2, <3>1, <3>2
    <3> QED BY <2>1, <3>1, <3>3 DEF FreshInv, HistoryAgrees, Agree, SnapshotOf
  <2> QED BY <1>1, <2>1 DEF HistoryAgrees, Agree
<1>7. PacketSound'
  <2>1. op # NoOp => SavesPinned'
    BY SpoiledTab DEF FreshInv, PacketSound, SavesPinned
  <2> QED BY <1>1, <2>1 DEF FreshInv, PacketSound, Restates, WritesNews
<1> QED BY <1>4, <1>5, <1>6, <1>7 DEF FreshInv, AttemptRises

\* A client whose request goes on.
LEMMA OnceKept ==
    ASSUME WorkspaceInv, InsertedOnce, NEW c \in Clients, NEW q, Session(c, q),
           \A o \in Clients : o # c /\ req[o].pc = "insert" =>
               row'[req[o].draft].st = "absent",
           q.pc = "insert" =>
               /\ row'[q.draft].st = "absent"
               /\ \A o \in Clients : req[o].draft # q.draft
    PROVE  InsertedOnce'
<1>1. \A e \in Clients : req'[e] = IF e = c THEN q ELSE req[e]
  BY DEF Session, WorkspaceInv
<1>2. ASSUME NEW a \in Clients, req'[a].pc = "insert"
      PROVE  /\ row'[req'[a].draft].st = "absent"
             /\ \A o \in Clients :
                   req'[o].pc = "insert" /\ req'[o].draft = req'[a].draft => o = a
  BY <1>1, <1>2 DEF InsertedOnce
<1> QED BY <1>2 DEF InsertedOnce

LEMMA CaptureFresh ==
    ASSUME WorkspaceInv, FreshInv, op = NoOp, UNCHANGED <<row, flag, editor, op>>,
           NEW c \in Clients, NEW d \in Drafts, NEW x, NEW pc, CaptureBefore(c, pc, d, x),
           pc = "insert" =>
               row[d].st = "absent" /\ \A o \in Clients : req[o].draft # d
    PROVE  FreshInv'
<1>1. PICK q : /\ Session(c, q) /\ q.pc = pc /\ q.draft = d
               /\ Synchronize \/ UNCHANGED <<live, attempt>>
  BY DEF CaptureBefore
<1>2. InsertedOnce'
  BY <1>1, OnceKept DEF FreshInv, InsertedOnce
<1>3. CASE Synchronize
  <2>1. AttemptRises' /\ IsPublished(live') /\ Current(live'.h) = SnapshotOf(row) /\ Rises
    BY <1>3, SyncRises DEF FreshInv, AttemptRises
  <2>2. TabsSound' /\ HistoryAgrees' /\ PacketSound' /\ UnknownBefore'
    BY <2>1, PublishedFresh DEF FreshInv
  <2> QED BY <1>2, <2>1, <2>2 DEF FreshInv
<1>4. CASE UNCHANGED <<live, attempt>>
  <2>1. TabsSound'
    BY <1>4 DEF FreshInv, TabsSound, TabShape, StaleSound, Stale, RecoveryRequired, IsSent
  <2>2. HistoryAgrees'
    BY <1>4 DEF FreshInv, HistoryAgrees, RecoveryRequired, IsSent
  <2> QED BY <1>2, <1>4, <2>1, <2>2 DEF FreshInv, PacketSound, AttemptRises, UnknownBefore
<1> QED BY <1>1, <1>3, <1>4

LEMMA StatusFresh ==
    ASSUME WorkspaceInv, FreshInv, Status \/ Backup
    PROVE  FreshInv'
<1>1. /\ Synchronize /\ op = NoOp /\ UNCHANGED <<row, editor, op, req>>
  BY DEF Status, Backup, Free
<1>2. /\ IsPublished(live') /\ Current(live'.h) = SnapshotOf(row) /\ Rises /\ attempt' = None
  BY <1>1, SyncRises DEF FreshInv
<1>3. TabsSound' /\ HistoryAgrees' /\ PacketSound' /\ UnknownBefore'
  BY <1>1, <1>2, PublishedFresh DEF FreshInv
<1> QED BY <1>1, <1>2, <1>3 DEF FreshInv, AttemptRises, InsertedOnce

LEMMA ArriveFresh ==
    ASSUME WorkspaceInv, FreshInv, NEW c \in Clients, Arrive(c)
    PROVE  FreshInv'
<1>1. ASSUME NEW d \in Drafts, NEW x \in Texts, Create(c, d, x) PROVE FreshInv'
  <2>1. PICK pc : pc = "insert"
    OBVIOUS
  <2>2. /\ op = NoOp /\ UNCHANGED <<row, flag, editor, op>> /\ CaptureBefore(c, pc, d, x)
        /\ row[d].st = "absent" /\ \A o \in Clients : req[o].draft # d
    BY <1>1, <2>1 DEF Create, Free
  <2> QED BY <2>2, CaptureFresh
<1>2. ASSUME NEW d \in Drafts, Cancel(c, d) PROVE FreshInv'
  <2>1. PICK pc : pc = "cancel"
    OBVIOUS
  <2>2. op = NoOp /\ UNCHANGED <<row, flag, editor, op>> /\ CaptureBefore(c, pc, d, None)
    BY <1>2, <2>1 DEF Cancel, Free
  <2>3. pc # "insert"
    BY <2>1
  <2> QED BY <2>2, <2>3, CaptureFresh
<1>3. ASSUME NEW d \in Drafts, Approve(c, d) PROVE FreshInv'
  <2>1. PICK q : q = [Idle EXCEPT !.pc = "approve", !.draft = d, !.text = row[d].text]
    OBVIOUS
  <2>2. q.pc = "approve" /\ Session(c, q) /\ UNCHANGED <<row, live, attempt, flag, editor, op>>
    BY <1>3, <2>1 DEF Approve, Idle
  <2>3. InsertedOnce'
    BY <2>2, OnceKept DEF FreshInv, InsertedOnce
  <2>4. TabsSound'
    BY <2>2 DEF FreshInv, TabsSound, TabShape, StaleSound, Stale, RecoveryRequired, IsSent
  <2>5. HistoryAgrees'
    BY <2>2 DEF FreshInv, HistoryAgrees, RecoveryRequired, IsSent
  <2>6. PacketSound'
    BY <2>2 DEF FreshInv, PacketSound, Restates, WritesNews, SavesPinned, RecoveryRequired
  <2> QED BY <2>2, <2>3, <2>4, <2>5, <2>6 DEF FreshInv, AttemptRises, UnknownBefore
<1> QED BY <1>1, <1>2, <1>3 DEF Arrive

LEMMA CommitCoreFresh ==
    ASSUME WorkspaceInv, FreshInv, NEW c \in Clients, CommitCore(c)
    PROVE  FreshInv'
<1>1. PICK d, q, r :
         /\ d = req[c].draft /\ q = [req[c] EXCEPT !.pc = "record"]
         /\ r = IF req[c].pc = "insert" THEN NewRow(req[c].text)
                ELSE [row[d] EXCEPT !.st = "cancelled"]
  OBVIOUS
<1>2. /\ Session(c, q) /\ req[c].pc \in {"insert", "cancel"} /\ row' = [row EXCEPT ![d] = r]
      /\ editor' = Spoiled(row') /\ UNCHANGED <<live, attempt, flag, op>>
  BY <1>1 DEF CommitCore
<1>3. /\ d \in Drafts /\ DOMAIN req[c] = {"pc", "draft", "text", "token"} /\ q.pc = "record"
      /\ req[c].pc = "cancel" => row[d].st # "absent"
      /\ req[c].pc = "insert" => row[d].st = "absent"
  BY <1>1, <1>2 DEF WorkspaceInv, ClientSound, FreshInv, InsertedOnce
<1>4. \A k \in Drafts : row'[k] = IF k = d THEN r ELSE row[k]
  BY <1>2, <1>3 DEF WorkspaceInv, AreDrafts
<1>5. r.st # "absent" /\ (d \in ActiveOf(row') => row[d].st = "absent")
  <2>1. CASE req[c].pc = "insert"
    BY <1>1, <1>3, <2>1 DEF NewRow
  <2>2. CASE req[c].pc = "cancel"
    <3>1. r.st = "cancelled"
      BY <1>1, <1>3, <2>2 DEF WorkspaceInv, AreDrafts, IsDraft, Rows
    <3> QED BY <1>3, <1>4, <3>1 DEF ActiveOf
  <2> QED BY <1>2, <2>1, <2>2
<1>6. TabsSound' /\ HistoryAgrees' /\ PacketSound' /\ AttemptRises' /\ UnknownBefore'
  BY <1>2, <1>3, <1>5, RowFresh
<1>7. ASSUME NEW o \in Clients, o # c, req[o].pc = "insert"
      PROVE  row'[req[o].draft].st = "absent"
  <2>1. /\ req[o].draft \in Drafts /\ row[req[o].draft].st = "absent"
        /\ req[c].pc = "insert" => req[o].draft # d
    BY <1>1, <1>7 DEF WorkspaceInv, ClientSound, FreshInv, InsertedOnce
  <2> QED BY <1>2, <1>3, <1>4, <2>1
<1>8. InsertedOnce'
  BY <1>2, <1>3, <1>7, OnceKept DEF FreshInv
<1> QED BY <1>6, <1>8 DEF FreshInv

LEMMA ApproveCommitFresh ==
    ASSUME WorkspaceInv, FreshInv, NEW c \in Clients, ApproveCommit(c)
    PROVE  FreshInv'
<1>1. PICK d, r :
         /\ d = req[c].draft
         /\ r = [row[d] EXCEPT !.st = "approved", !.used = TRUE, !.digest = req[c].text]
  OBVIOUS
<1>2. /\ Session(c, Idle) /\ req[c].pc = "approve" /\ row' = [row EXCEPT ![d] = r]
      /\ editor' = Spoiled(row') /\ UNCHANGED <<live, attempt, flag, op>>
  BY <1>1 DEF ApproveCommit
<1>3. d \in Drafts /\ row[d].st # "absent" /\ IsDraft(row[d])
  BY <1>1, <1>2 DEF WorkspaceInv, ClientSound, AreDrafts
<1>4. r.st = "approved"
  <2>1. IsRow(row[d])
    BY <1>3, DraftIs DEF IsRow
  <2> QED BY <1>1, <2>1, ApprovedRow
<1>5. \A k \in Drafts : row'[k] = IF k = d THEN r ELSE row[k]
  BY <1>2, <1>3 DEF WorkspaceInv, AreDrafts
<1>6. TabsSound' /\ HistoryAgrees' /\ PacketSound' /\ AttemptRises' /\ UnknownBefore'
  BY <1>2, <1>3, <1>4, <1>5, RowFresh DEF ActiveOf
<1>7. ASSUME NEW o \in Clients, o # c, req[o].pc = "insert"
      PROVE  row'[req[o].draft].st = "absent"
  BY <1>3, <1>5, <1>7 DEF WorkspaceInv, ClientSound, FreshInv, InsertedOnce
<1>8. InsertedOnce'
  BY <1>2, <1>7, OnceKept DEF FreshInv, Idle
<1> QED BY <1>6, <1>8 DEF FreshInv

LEMMA ClaimFresh ==
    ASSUME WorkspaceInv, FreshInv, NEW d \in Drafts, Claim(d)
    PROVE  FreshInv'
<1>1. PICK r : r = [row[d] EXCEPT !.st = "running"]
  OBVIOUS
<1>2. /\ row' = [row EXCEPT ![d] = r] /\ row[d].st = "approved" /\ editor' = Spoiled(row')
      /\ UNCHANGED <<live, attempt, flag, op, req>>
  BY <1>1 DEF Claim
<1>3. r.st = "running"
  BY <1>1 DEF WorkspaceInv, AreDrafts, IsDraft, Rows
<1>4. \A k \in Drafts : row'[k] = IF k = d THEN r ELSE row[k]
  BY <1>2 DEF WorkspaceInv, AreDrafts
<1>5. TabsSound' /\ HistoryAgrees' /\ PacketSound' /\ AttemptRises' /\ UnknownBefore'
  BY <1>2, <1>3, <1>4, RowFresh DEF ActiveOf
<1>6. InsertedOnce'
  BY <1>2, <1>4 DEF FreshInv, InsertedOnce, WorkspaceInv, ClientSound
<1> QED BY <1>5, <1>6 DEF FreshInv

\* A later epoch that asks for a recovery leaves nobody stale.
LEMMA DirtyFresh ==
    ASSUME WorkspaceInv, TabsSound, op = NoOp, UNCHANGED <<row, editor, op>>,
           live'.epoch = live.epoch + 1, live'.dirty = TRUE
    PROVE  TabsSound' /\ HistoryAgrees' /\ PacketSound'
<1>1. live.epoch \in Nat /\ RecoveryRequired'
  BY DEF WorkspaceInv, IsPublished, RecoveryRequired
<1>2. ASSUME NEW b \in Tabs, editor[b] # None
      PROVE  editor[b].rev.epoch < live'.epoch /\ editor[b].rev.epoch \in Nat
  <2>1. editor[b].rev.epoch \in Nat /\ editor[b].rev.epoch <= live.epoch
    BY <1>2 DEF TabsSound, TabShape, Editors
  <2> QED BY <1>1, <2>1
<1>3. ASSUME NEW b \in Tabs PROVE TabShape(b)' /\ StaleSound(b)'
  <2>1. TabShape(b)
    BY DEF TabsSound
  <2>2. TabShape(b)'
    BY <1>1, <1>2, <2>1 DEF TabShape
  <2>3. ~Stale(b)'
    BY <1>1, <1>2 DEF Stale
  <2> QED BY <2>2, <2>3 DEF StaleSound
<1> QED BY <1>1, <1>3 DEF TabsSound, HistoryAgrees, PacketSound

LEMMA RecordFresh ==
    ASSUME WorkspaceInv, FreshInv, NEW c \in Clients, RecordAfter(c) \/ RecordFails(c)
    PROVE  FreshInv'
<1>1. /\ op = NoOp /\ UNCHANGED <<row, flag, editor, op>> /\ Session(c, Idle)
      /\ req[c].token \in Snapshots \cup {None}
  BY DEF RecordAfter, RecordFails, Free, WorkspaceInv, ClientSound
<1>2. /\ AreDrafts(row) /\ IsPublished(live) /\ IsHistory(live.h) /\ SnapshotOf(row) \in Snapshots
      /\ live.epoch \in Nat
  BY SnapshotIs DEF WorkspaceInv, IsPublished
<1>3. InsertedOnce'
  BY <1>1, OnceKept DEF FreshInv, InsertedOnce, Idle
<1>4. CASE UNCHANGED <<live, attempt>>
  <2>1. TabsSound'
    BY <1>1, <1>4 DEF FreshInv, TabsSound, TabShape, StaleSound, Stale, RecoveryRequired, IsSent
  <2>2. HistoryAgrees'
    BY <1>1, <1>4 DEF FreshInv, HistoryAgrees, RecoveryRequired, IsSent
  <2> QED BY <1>1, <1>3, <1>4, <2>1, <2>2
          DEF FreshInv, PacketSound, AttemptRises, UnknownBefore
<1>5. CASE /\ live' = Reconciled(live, Checkpoint(live.h, SnapshotOf(row)), row)
           /\ attempt' = None
  <2>1. /\ IsPublished(live')
        /\ live'.h = Checkpoint(live.h, SnapshotOf(row)) /\ live'.epoch = live.epoch + 1
    BY <1>2, <1>5, CheckpointHistory, ReconciledSound DEF Reconciled
  <2>2. Current(live'.h) = SnapshotOf(row) /\ Rises
    BY <1>2, <2>1, CheckpointCurrent DEF Rises
  <2> QED BY <1>1, <1>3, <1>5, <2>1, <2>2, PublishedFresh DEF FreshInv, AttemptRises
<1>6. CASE /\ req[c].token # None /\ attempt' = attempt
           /\ live' = Recorded(live, req[c].token, SnapshotOf(row), row)
  <2>1. req[c].token \in Snapshots
    BY <1>1, <1>6
  <2>2. IsPublished(live')
    BY <1>2, <1>6, <2>1, RecordedSound
  <2>3. Current(live'.h) = SnapshotOf(row) /\ Rises
    <3>1. /\ Current(live'.h) = SnapshotOf(row)
          /\ live'.epoch = live.epoch + 1 \/ (live'.epoch = live.epoch /\ live'.h = live.h)
      BY <1>2, <1>6, <2>1, RecordedCurrent
    <3> QED BY <1>2, <3>1 DEF Rises
  <2> QED BY <1>1, <1>3, <1>6, <2>2, <2>3, PublishedFresh DEF FreshInv, AttemptRises
<1>7. CASE /\ attempt' = attempt
           /\ \/ live' = [live EXCEPT !.epoch = @ + 1, !.dirty = TRUE]
              \/ live' = [live EXCEPT !.h = PushState(@, SnapshotOf(row)),
                                     !.epoch = @ + 1, !.dirty = TRUE]
  <2>1. /\ live'.h = live.h \/ live'.h = PushState(live.h, SnapshotOf(row))
        /\ live'.epoch = live.epoch + 1 /\ live'.dirty = TRUE
    BY <1>2, <1>7 DEF IsPublished
  <2>2. TabsSound' /\ HistoryAgrees' /\ PacketSound'
    BY <1>1, <2>1, DirtyFresh DEF FreshInv
  <2>3. UnknownBefore'
    <3>1. Current(live'.h) = Current(live.h) \/ Current(live'.h) = SnapshotOf(row)
      BY <1>2, <2>1, PushCurrent
    <3> QED BY <1>1, <3>1 DEF FreshInv, UnknownBefore, SnapshotOf, ActiveOf
  <2> QED BY <1>3, <1>7, <2>2, <2>3 DEF FreshInv, AttemptRises
<1> QED BY <1>4, <1>5, <1>6, <1>7 DEF RecordAfter, RecordFails

\* What the waiting request writes: a draft that becomes active, or changes, is
\* pinned as it was, and the published state does not show what is written.
LEMMA WriteFacts ==
    ASSUME WorkspaceInv, OpInv, FreshInv, op # NoOp, CommitPossible, WriteRows,
           NEW d \in Drafts
    PROVE  /\ row[d].st # "absent" => row'[d].st # "absent"
           /\ row[d].st = "absent" => row'[d] = row[d]
           /\ d \in ActiveOf(row') /\ row'[d] # row[d] =>
                 /\ d \in DOMAIN op.pinned /\ row'[d] # op.pinned[d]
                 /\ ~Shows(live.h, d, row'[d].text)
           /\ Restates => row'[d] = row[d]
<1>1. PICK P, X : P = op.pinned /\ X = op.target
  OBVIOUS
<1>2. IsDraft(row[d])
  BY DEF WorkspaceInv, AreDrafts
<1>3. d \in DOMAIN P => row[d] = P[d] /\ Eligible(row[d])
  BY <1>1 DEF OpInv, PinsEligible, CommitPossible, CasHolds
<1>4. row'[d] = IF d \notin DOMAIN P THEN row[d]
                ELSE IF d \in DOMAIN X
                     THEN [row[d] EXCEPT !.st = "pending", !.text = X[d]]
                     ELSE [row[d] EXCEPT !.st = "cancelled"]
  BY <1>1 DEF WriteRows, Written
<1>5. CASE d \notin DOMAIN P
  BY <1>4, <1>5
<1>6. CASE d \in DOMAIN P /\ d \in DOMAIN X
  <2>1. row'[d] = [st |-> "pending", text |-> X[d], used |-> row[d].used,
                   digest |-> row[d].digest]
    BY <1>2, <1>4, <1>6 DEF IsDraft, Rows
  <2>2. row[d] = [st |-> row[d].st, text |-> row[d].text, used |-> row[d].used,
                  digest |-> row[d].digest]
    BY <1>2, DraftIs
  <2>3. Shows(live.h, d, X[d]) => P[d].st = "pending" /\ P[d].text = X[d]
    BY <1>1, <1>6 DEF FreshInv, PacketSound, WritesNews
  <2>4. Restates => P[d].st = "pending" /\ P[d].text = X[d]
    BY <1>1, <1>6 DEF Restates
  <2>5. row[d] = P[d] /\ row[d].st # "absent"
    BY <1>3, <1>6 DEF Eligible
  <2>6. P[d].st = "pending" /\ P[d].text = X[d] => row'[d] = row[d]
    BY <2>1, <2>2, <2>5
  <2>7. row'[d].st = "pending" /\ row'[d].text = X[d]
    BY <2>1
  <2> QED BY <1>1, <1>6, <2>3, <2>4, <2>5, <2>6, <2>7
<1>7. CASE d \in DOMAIN P /\ d \notin DOMAIN X
  <2>1. row'[d] = [row[d] EXCEPT !.st = "cancelled"] /\ row[d] = P[d] /\ row[d].st # "absent"
    BY <1>3, <1>4, <1>7 DEF Eligible
  <2>2. row'[d].st = "cancelled"
    BY <1>2, <2>1 DEF IsDraft, Rows
  <2>3. Restates => row[d].st = "cancelled"
    BY <1>1, <1>7, <2>1 DEF Restates
  <2>4. Restates => row'[d] = row[d]
    BY <1>2, <2>1, <2>3 DEF IsDraft, Rows
  <2> QED BY <2>1, <2>2, <2>4 DEF ActiveOf
<1> QED BY <1>5, <1>6, <1>7

LEMMA WriteTabs ==
    ASSUME WorkspaceInv, OpInv, FreshInv, op # NoOp, ~op.sent, CommitPossible, WriteRows,
           NEW b \in Tabs, editor'[b] # None
    PROVE  LET d == editor'[b].rev.draft
           IN  /\ editor'[b] \in Editors /\ editor'[b].rev.epoch <= live.epoch
               /\ row'[d].st # "absent"
               /\ editor'[b].rev.raw.st = "pending" /\ Eligible(editor'[b].rev.raw)
               /\ ~editor'[b].fresh /\ editor'[b].rev.epoch = live.epoch /\ d \in ActiveOf(row') =>
                     /\ d \in DOMAIN op.pinned /\ row'[d] # op.pinned[d] /\ ~Restates
                     /\ ~Shows(live.h, d, row'[d].text)
<1>1. TabShape(b) /\ StaleSound(b) /\ ~RecoveryRequired /\ ~IsSent
  BY DEF FreshInv, TabsSound, PacketSound, IsSent
<1>2. ~Stale(b)
  BY <1>1 DEF StaleSound
<1>3. PICK d : d = editor[b].rev.draft
  OBVIOUS
<1>4. /\ editor[b] # None /\ editor'[b] \in Editors /\ editor'[b].rev = editor[b].rev
      /\ editor'[b].fresh <=> (editor[b].fresh /\ row'[d] = row[d])
  BY <1>3, SpoiledTab DEF FreshInv, WriteRows
<1>5. d \in Drafts /\ row[d].st # "absent" /\ editor'[b].rev.draft = d
  BY <1>1, <1>3, <1>4 DEF TabShape, Editors
<1>6. /\ row'[d].st # "absent"
      /\ d \in ActiveOf(row') /\ row'[d] # row[d] =>
            /\ d \in DOMAIN op.pinned /\ row'[d] # op.pinned[d]
            /\ ~Shows(live.h, d, row'[d].text)
      /\ Restates => row'[d] = row[d]
  BY <1>5, WriteFacts
<1>7. ASSUME ~editor'[b].fresh, editor'[b].rev.epoch = live.epoch, d \in ActiveOf(row')
      PROVE  row'[d] # row[d]
  <2>1. SUFFICES ASSUME row'[d] = row[d] PROVE FALSE
    OBVIOUS
  <2>2. ~editor[b].fresh /\ d \in ActiveOf(row)
    BY <1>4, <1>7, <2>1 DEF ActiveOf
  <2> QED BY <1>2, <1>3, <1>4, <1>7, <2>2 DEF Stale
<1>8. editor'[b].rev.epoch <= live.epoch /\ editor'[b].rev.raw.st = "pending"
      /\ Eligible(editor'[b].rev.raw)
  BY <1>1, <1>4 DEF TabShape
<1> QED BY <1>4, <1>5, <1>6, <1>7, <1>8

\* Nobody waits any more, and what was written is published.
LEMMA CommitFresh ==
    ASSUME WorkspaceInv, OpInv, FreshInv, Commit
    PROVE  FreshInv'
<1>1. /\ op # NoOp /\ ~op.sent /\ CommitPossible /\ WriteRows
      /\ live'.h = op.h /\ live'.epoch = op.epoch /\ attempt' = None /\ op' = NoOp
      /\ req' = req
  BY DEF Commit, TargetState
<1>2. /\ Current(op.h) = op.target /\ (op.epoch > live.epoch \/ Restates)
      /\ live.epoch \in Nat /\ op.epoch \in Nat
  BY <1>1 DEF FreshInv, PacketSound, WorkspaceInv, WaitsSound, IsPublished
<1>3. Current(live'.h) = SnapshotOf(row')
  BY <1>1, <1>2 DEF CommitPossible, WriteRows
<1>4. ASSUME NEW b \in Tabs PROVE TabShape(b)' /\ StaleSound(b)'
  <2>1. CASE editor'[b] = None
    BY <2>1 DEF TabShape, StaleSound, Stale
  <2>2. CASE editor'[b] # None
    <3>1. PICK e : e = editor'[b]
      OBVIOUS
    <3>2. /\ e \in Editors /\ e.rev.epoch <= live.epoch /\ row'[e.rev.draft].st # "absent"
          /\ e.rev.raw.st = "pending" /\ Eligible(e.rev.raw)
          /\ ~e.fresh /\ e.rev.epoch = live.epoch /\ e.rev.draft \in ActiveOf(row') => ~Restates
      BY <1>1, <2>2, <3>1, WriteTabs
    <3>3. e.rev.epoch \in Nat
      BY <3>2 DEF Editors
    <3>4. live'.epoch >= live.epoch /\ (live'.epoch = live.epoch => Restates)
      BY <1>1, <1>2 DEF Restates
    <3>5. TabShape(b)'
      BY <1>1, <1>2, <3>1, <3>2, <3>3, <3>4 DEF TabShape
    <3>6. ~Stale(b)'
      <4>1. SUFFICES ASSUME Stale(b)' PROVE FALSE
        OBVIOUS
      <4>2. ~e.fresh /\ e.rev.epoch = live'.epoch /\ e.rev.draft \in ActiveOf(row')
        BY <3>1, <4>1 DEF Stale
      <4>3. live'.epoch = live.epoch
        BY <1>1, <1>2, <3>2, <3>3, <3>4, <4>2
      <4> QED BY <3>2, <3>4, <4>2, <4>3
    <3> QED BY <3>5, <3>6 DEF StaleSound
  <2> QED BY <2>1, <2>2
<1>5. TabsSound'
  BY <1>1, <1>4 DEF TabsSound, WriteRows, Spoiled
<1>6. HistoryAgrees' /\ UnknownBefore'
  BY <1>3 DEF HistoryAgrees, Agree, UnknownBefore, SnapshotOf, ActiveOf
<1>7. InsertedOnce'
  BY <1>1, WriteFacts DEF FreshInv, InsertedOnce, WorkspaceInv, ClientSound
<1> QED BY <1>1, <1>5, <1>6, <1>7 DEF FreshInv, PacketSound, AttemptRises

\* The same write, whose outcome the request does not know or could not publish.
LEMMA DoubtTabs ==
    ASSUME WorkspaceInv, OpInv, FreshInv, op # NoOp, ~op.sent, CommitPossible, WriteRows,
           UNCHANGED <<live, req>>,
           (IsSent' /\ op'.pinned = op.pinned) \/ (~IsSent' /\ RecoveryRequired')
    PROVE  TabsSound' /\ HistoryAgrees' /\ UnknownBefore' /\ InsertedOnce'
<1>1. ASSUME NEW b \in Tabs PROVE TabShape(b)' /\ StaleSound(b)'
  <2>1. CASE editor'[b] = None
    BY <2>1 DEF TabShape, StaleSound, Stale
  <2>2. CASE editor'[b] # None
    <3>1. PICK e, d : e = editor'[b] /\ d = e.rev.draft
      OBVIOUS
    <3>2. /\ e \in Editors /\ e.rev.epoch <= live.epoch /\ row'[d].st # "absent"
          /\ e.rev.raw.st = "pending" /\ Eligible(e.rev.raw)
          /\ ~e.fresh /\ e.rev.epoch = live.epoch /\ d \in ActiveOf(row') =>
                /\ d \in DOMAIN op.pinned /\ row'[d] # op.pinned[d]
                /\ ~Shows(live.h, d, row'[d].text)
      BY <2>2, <3>1, WriteTabs
    <3>3. TabShape(b)'
      BY <3>1, <3>2 DEF TabShape
    <3>4. StaleSound(b)'
      <4>1. SUFFICES ASSUME Stale(b)'
                     PROVE  /\ RecoveryRequired' \/ IsSent'
                            /\ ~Shows(live'.h, d, row'[d].text)
                            /\ IsSent' => d \in DOMAIN op'.pinned /\ row'[d] # op'.pinned[d]
        BY <3>1 DEF StaleSound, Shows
      <4>2. ~e.fresh /\ e.rev.epoch = live.epoch /\ d \in ActiveOf(row')
        BY <3>1, <4>1 DEF Stale
      <4> QED BY <3>2, <4>2
    <3> QED BY <3>3, <3>4
  <2> QED BY <2>1, <2>2
<1>2. TabsSound'
  BY <1>1 DEF TabsSound, WriteRows, Spoiled
<1>3. HistoryAgrees'
  BY DEF HistoryAgrees
<1>4. UnknownBefore'
  BY WriteFacts DEF FreshInv, UnknownBefore
<1>5. InsertedOnce'
  BY WriteFacts DEF FreshInv, InsertedOnce, WorkspaceInv, ClientSound
<1> QED BY <1>2, <1>3, <1>4, <1>5

LEMMA RaisesFresh ==
    ASSUME WorkspaceInv, OpInv, FreshInv, CommitRaises
    PROVE  FreshInv'
<1>1. /\ op # NoOp /\ ~op.sent /\ CommitPossible /\ UNCHANGED <<live, attempt, flag, req>>
      /\ op' = [op EXCEPT !.sent = TRUE]
  BY DEF CommitRaises
<1>2. /\ op'.sent = TRUE /\ op'.target = op.target /\ op'.pinned = op.pinned /\ op'.h = op.h
      /\ op'.epoch = op.epoch /\ op'.before = op.before /\ op'.tab = op.tab
  BY <1>1 DEF OpInv, IsOp
<1>3. RecoveryRequired' = RecoveryRequired
  BY <1>1 DEF RecoveryRequired
<1>4. PacketSound /\ ~RecoveryRequired /\ ~IsSent
  BY <1>1 DEF FreshInv, PacketSound, IsSent
<1>5. op' # NoOp => SavesPinned'
  <2>1. op.tab # None /\ op.tab \in Tabs /\ editor[op.tab] # None =>
            editor'[op.tab] # None /\ editor'[op.tab].rev = editor[op.tab].rev
    BY <1>1, SpoiledTab DEF FreshInv, CommitRaises, WriteRows
  <2> QED BY <1>1, <1>2, <1>4, <2>1 DEF PacketSound, SavesPinned
<1>6. op' # NoOp => WritesNews' /\ (op'.epoch > live'.epoch \/ Restates')
  BY <1>1, <1>2, <1>4 DEF PacketSound, WritesNews, Shows, Restates
<1>7. PacketSound'
  BY <1>1, <1>2, <1>3, <1>4, <1>5, <1>6 DEF PacketSound
<1>8. CASE WriteRows /\ op' # NoOp
  <2>1. IsSent' /\ op'.pinned = op.pinned
    BY <1>2, <1>8 DEF IsSent
  <2> QED BY <1>1, <1>7, <1>8, <2>1, DoubtTabs DEF FreshInv, AttemptRises
<1>9. CASE UNCHANGED <<row, editor>>
  <2>1. ASSUME NEW b \in Tabs PROVE TabShape(b)' /\ StaleSound(b)'
    <3>1. TabShape(b) /\ StaleSound(b)
      BY DEF FreshInv, TabsSound
    <3>2. ~Stale(b)
      BY <1>4, <3>1 DEF StaleSound
    <3> QED BY <1>1, <1>9, <3>1, <3>2 DEF TabShape, StaleSound, Stale
  <2>2. TabsSound' /\ UnknownBefore' /\ InsertedOnce'
    BY <1>1, <1>9, <2>1 DEF FreshInv, TabsSound, UnknownBefore, InsertedOnce
  <2>3. HistoryAgrees'
    BY <1>1, <1>3, <1>4, <1>9 DEF FreshInv, HistoryAgrees
  <2> QED BY <1>1, <1>7, <2>2, <2>3 DEF FreshInv, AttemptRises
<1>10. op' # NoOp
  <2>1. "target" \in DOMAIN op
    BY <1>1 DEF OpInv, IsOp
  <2>2. "target" \in DOMAIN op'
    BY <1>1, <2>1
  <2> QED BY <2>2 DEF NoOp
<1> QED BY <1>8, <1>9, <1>10 DEF CommitRaises

LEMMA CallbackFresh ==
    ASSUME WorkspaceInv, OpInv, FreshInv, CallbackFails
    PROVE  FreshInv'
<1>1. PICK t : t = TargetState(row')
  OBVIOUS
<1>2. /\ op # NoOp /\ ~op.sent /\ CommitPossible /\ WriteRows /\ UNCHANGED <<live, req>>
      /\ attempt' = [base |-> live, target |-> t] /\ flag' = TRUE /\ op' = NoOp
      /\ t.h = op.h /\ t.epoch = op.epoch
  BY <1>1 DEF CallbackFails, TargetState
<1>3. ~IsSent' /\ RecoveryRequired'
  BY <1>2 DEF IsSent, RecoveryRequired
<1>4. attempt'.base = live /\ attempt'.target = t
  BY <1>2
<1>5. op.epoch > live.epoch \/ (op.epoch = live.epoch /\ op.h = live.h)
  BY <1>2 DEF FreshInv, PacketSound, Restates
<1>6. AttemptRises' /\ PacketSound'
  BY <1>2, <1>4, <1>5 DEF AttemptRises, PacketSound
<1> QED BY <1>2, <1>3, <1>6, DoubtTabs DEF FreshInv

\* The rows are read back: published, or as before, or nobody knows.
LEMMA ReadBackFresh ==
    ASSUME WorkspaceInv, OpInv, FreshInv, ReadBack
    PROVE  FreshInv'
<1> DEFINE target == op.target  pinned == op.pinned
<1>1. /\ op # NoOp /\ op.sent /\ IsSent /\ op' = NoOp /\ UNCHANGED <<row, editor, req>> /\ ~IsSent'
      /\ PacketSound /\ live.epoch \in Nat /\ op.epoch \in Nat
  BY DEF ReadBack, IsSent, FreshInv, WorkspaceInv, WaitsSound, IsPublished
<1>2. \/ /\ SnapshotOf(row) = op.target /\ live' = TargetState(row) /\ attempt' = None
         /\ flag' = flag
      \/ /\ SnapshotOf(row) = op.before /\ \A d \in DOMAIN op.pinned : row[d] = op.pinned[d]
         /\ UNCHANGED <<live, attempt, flag>>
      \/ UNCHANGED <<live, attempt>> /\ flag' = TRUE
  BY DEF ReadBack
<1>3. PacketSound' /\ InsertedOnce'
  BY <1>1 DEF FreshInv, PacketSound, InsertedOnce
<1>4. CASE /\ SnapshotOf(row) = op.target /\ live' = TargetState(row) /\ attempt' = None
  <2>1. live'.h = op.h /\ live'.epoch = op.epoch
    BY <1>4 DEF TargetState
  <2>2. Current(live'.h) = SnapshotOf(row) /\ Rises
    BY <1>1, <1>4, <2>1 DEF PacketSound, Restates, Rises
  <2>3. AreDrafts(row)
    BY DEF WorkspaceInv
  <2>4. ASSUME NEW b \in Tabs PROVE TabShape(b)' /\ StaleSound(b)'
    <3>1. TabShape(b) /\ StaleSound(b)
      BY DEF FreshInv, TabsSound
    <3>2. editor[b] # None => editor[b].rev.epoch \in Nat
      BY <3>1 DEF TabShape, Editors
    <3>3. TabShape(b)'
      BY <1>1, <2>1, <2>2, <3>1, <3>2 DEF TabShape, Rises
    <3>4. ASSUME Stale(b)' PROVE FALSE
      <4>1. /\ editor[b] # None /\ ~editor[b].fresh /\ editor[b].rev.epoch = live'.epoch
            /\ editor[b].rev.draft \in ActiveOf(row)
        BY <1>1, <3>4 DEF Stale
      <4>2. live'.epoch = live.epoch /\ live'.h = live.h
        BY <1>1, <2>1, <2>2, <3>1, <3>2, <4>1 DEF TabShape, Rises
      <4>3. Shows(live.h, editor[b].rev.draft, row[editor[b].rev.draft].text)
        BY <2>2, <2>3, <4>1, <4>2, ShowsActive
      <4> QED BY <3>1, <4>1, <4>2, <4>3 DEF StaleSound, Stale
    <3> QED BY <3>3, <3>4 DEF StaleSound
  <2>5. TabsSound'
    BY <1>1, <2>4 DEF FreshInv, TabsSound
  <2>6. HistoryAgrees' /\ UnknownBefore'
    BY <1>1, <2>2 DEF HistoryAgrees, Agree, UnknownBefore, SnapshotOf, ActiveOf
  <2> QED BY <1>3, <1>4, <2>5, <2>6 DEF FreshInv, AttemptRises
<1>5. CASE /\ SnapshotOf(row) = op.before /\ \A d \in DOMAIN op.pinned : row[d] = op.pinned[d]
           /\ UNCHANGED <<live, attempt, flag>>
  <2>1. ASSUME NEW b \in Tabs PROVE TabShape(b)' /\ StaleSound(b)'
    <3>1. TabShape(b) /\ StaleSound(b)
      BY DEF FreshInv, TabsSound
    <3>2. ~Stale(b)
      BY <1>1, <1>5, <3>1 DEF StaleSound
    <3> QED BY <1>1, <1>5, <3>1, <3>2 DEF TabShape, StaleSound, Stale
  <2>2. TabsSound' /\ UnknownBefore'
    BY <1>1, <1>5, <2>1 DEF FreshInv, TabsSound, UnknownBefore
  <2>3. HistoryAgrees'
    BY <1>1, <1>5 DEF PacketSound, HistoryAgrees
  <2> QED BY <1>3, <1>5, <2>2, <2>3 DEF FreshInv, AttemptRises
<1>6. CASE UNCHANGED <<live, attempt>> /\ flag' = TRUE
  <2>1. RecoveryRequired'
    BY <1>6 DEF RecoveryRequired
  <2>2. ASSUME NEW b \in Tabs PROVE TabShape(b)' /\ StaleSound(b)'
    BY <1>1, <1>6, <2>1 DEF FreshInv, TabsSound, TabShape, StaleSound, Stale, Shows
  <2>3. TabsSound' /\ UnknownBefore'
    BY <1>1, <1>6, <2>2 DEF FreshInv, TabsSound, UnknownBefore
  <2> QED BY <1>3, <1>6, <2>1, <2>3 DEF FreshInv, AttemptRises, HistoryAgrees
<1> QED BY <1>2, <1>4, <1>5, <1>6

LEMMA OpenFresh ==
    ASSUME WorkspaceInv, FreshInv, NEW b \in Tabs, NEW d \in Drafts, OpenEditor(b, d)
    PROVE  FreshInv'
<1>1. PICK e : e = [rev |-> RevisionOf(d), fresh |-> TRUE]
  OBVIOUS
<1>2. /\ op = NoOp /\ ~RecoveryRequired /\ d \in ActiveOf(row) /\ editor' = [editor EXCEPT ![b] = e]
      /\ UNCHANGED <<row, live, attempt, flag, op, req>>
  BY <1>1 DEF OpenEditor, Free
<1>3. /\ row[d] \in Rows /\ row[d].st = "pending" /\ Eligible(row[d])
      /\ live.epoch \in Nat /\ moved \in BOOLEAN
  BY <1>2 DEF ActiveOf, WorkspaceInv, AreDrafts, IsPublished
<1>4. /\ e \in Editors /\ e.rev.draft = d /\ e.rev.epoch = live.epoch /\ e.rev.raw = row[d]
      /\ e.fresh = TRUE
  BY <1>1, <1>3 DEF RevisionOf, Editors
<1>5. DOMAIN editor' = Tabs /\ \A a \in Tabs : editor'[a] = IF a = b THEN e ELSE editor[a]
  BY <1>2 DEF FreshInv, TabsSound
<1>6. ASSUME NEW a \in Tabs PROVE TabShape(a)' /\ StaleSound(a)'
  <2>1. CASE a = b
    <3>1. TabShape(a)'
      BY <1>2, <1>3, <1>4, <1>5, <2>1 DEF TabShape
    <3>2. ~Stale(a)'
      BY <1>4, <1>5, <2>1 DEF Stale
    <3> QED BY <3>1, <3>2 DEF StaleSound
  <2>2. CASE a # b
    <3>1. editor'[a] = editor[a] /\ TabShape(a) /\ StaleSound(a)
      BY <1>5, <2>2 DEF FreshInv, TabsSound
    <3> QED BY <1>2, <3>1 DEF TabShape, StaleSound, Stale, Shows, RecoveryRequired, IsSent
  <2> QED BY <2>1, <2>2
<1>7. TabsSound' /\ PacketSound'
  BY <1>2, <1>5, <1>6 DEF TabsSound, PacketSound
<1>8. HistoryAgrees'
  BY <1>2 DEF FreshInv, HistoryAgrees, RecoveryRequired, IsSent
<1> QED BY <1>2, <1>7, <1>8 DEF FreshInv, AttemptRises, UnknownBefore, InsertedOnce

LEMMA RestartFresh ==
    ASSUME FreshInv, Restart
    PROVE  FreshInv'
<1>1. /\ live' = FreshState /\ attempt' = None /\ editor' = [b \in Tabs |-> None]
      /\ op' = NoOp /\ req' = [c \in Clients |-> Idle]
  BY DEF Restart
<1>2. Current(live'.h) = NoSnapshot
  BY <1>1 DEF FreshState, EmptyHistory, Current
<1>3. TabsSound'
  BY <1>1 DEF TabsSound, TabShape, StaleSound, Stale
<1>4. HistoryAgrees' /\ UnknownBefore'
  BY <1>2 DEF HistoryAgrees, Agree, UnknownBefore
<1>5. InsertedOnce'
  BY <1>1 DEF InsertedOnce, Idle
<1> QED BY <1>1, <1>3, <1>4, <1>5 DEF FreshInv, PacketSound, AttemptRises

LEMMA NextFresh ==
    ASSUME WorkspaceInv, OpInv, FreshInv, [Next]_vars
    PROVE  FreshInv'
<1>1. CASE UNCHANGED vars \/ Readdress \/ CommitRefused
  <2>1. CASE UNCHANGED vars \/ Readdress
    BY <2>1, FreshKept DEF vars, Readdress
  <2>2. CASE CommitRefused
    <3>1. /\ UNCHANGED <<row, live, attempt, flag, editor, req>>
          /\ op # NoOp /\ op' = NoOp /\ ~IsSent /\ ~IsSent'
      BY <2>2 DEF CommitRefused, IsSent
    <3>2. ASSUME NEW b \in Tabs PROVE TabShape(b)' /\ StaleSound(b)'
      BY <3>1 DEF FreshInv, TabsSound, TabShape, StaleSound, Stale, Shows, RecoveryRequired
    <3>3. TabsSound' /\ PacketSound'
      BY <3>1, <3>2 DEF FreshInv, TabsSound, PacketSound
    <3>4. HistoryAgrees'
      BY <3>1 DEF FreshInv, HistoryAgrees, RecoveryRequired
    <3> QED BY <3>1, <3>3, <3>4 DEF FreshInv, AttemptRises, UnknownBefore, InsertedOnce
  <2> QED BY <1>1, <2>1, <2>2
<1>2. CASE PendingRequest
  BY <1>2, MoveFresh, StatusFresh, OpenFresh, SaveEditorFresh DEF PendingRequest
<1>3. CASE Outcome
  BY <1>1, <1>3, CommitFresh, RaisesFresh, ReadBackFresh, CallbackFresh DEF Outcome
<1>4. ASSUME NEW c \in Clients, Proceed(c) PROVE FreshInv'
  BY <1>4, CommitCoreFresh, RecordFresh, ApproveCommitFresh DEF Proceed
<1> QED BY <1>1, <1>2, <1>3, <1>4, StatusFresh, ArriveFresh, ClaimFresh, RestartFresh DEF Next

LEMMA FreshInvariant == Spec => []FreshInv
<1>1. Init => FreshInv
  <2> SUFFICES ASSUME Init PROVE FreshInv
    OBVIOUS
  <2>1. Current(live.h) = NoSnapshot
    BY DEF Init, FreshState, EmptyHistory, Current
  <2>2. TabsSound
    BY DEF Init, TabsSound, TabShape, StaleSound, Stale
  <2>3. HistoryAgrees /\ UnknownBefore
    BY <2>1 DEF HistoryAgrees, Agree, UnknownBefore
  <2> QED BY <2>2, <2>3
          DEF Init, FreshInv, PacketSound, AttemptRises, InsertedOnce, Idle
<1>2. WorkspaceInv /\ OpInv /\ FreshInv /\ [Next]_vars => FreshInv'
  BY NextFresh
<1> QED BY <1>1, <1>2, OpInvariant, WorkspaceInvariant, PTL DEF Spec

\* The packet writes only where the tab, if one saves, is not stale.
LEMMA CommitsFresh ==
    ASSUME WorkspaceInv, FreshInv, op # NoOp, ~op.sent, CommitPossible, op.tab # None
    PROVE  editor[op.tab].fresh
<1>1. PICK b, d : b = op.tab /\ d = editor[b].rev.draft
  OBVIOUS
<1>2. /\ b \in Tabs /\ editor[b] # None /\ editor[b].rev.epoch = live.epoch
      /\ d \in DOMAIN op.pinned /\ op.pinned[d] = editor[b].rev.raw
      /\ ~RecoveryRequired /\ ~IsSent
  BY <1>1 DEF FreshInv, PacketSound, SavesPinned, IsSent
<1>3. TabShape(b) /\ StaleSound(b)
  BY <1>2 DEF FreshInv, TabsSound
<1>4. row[d] = op.pinned[d]
  BY <1>2 DEF CommitPossible, CasHolds
<1>5. d \in ActiveOf(row)
  BY <1>1, <1>2, <1>3, <1>4 DEF TabShape, Editors, ActiveOf
<1>6. ~Stale(b)
  BY <1>2, <1>3 DEF StaleSound
<1> QED BY <1>1, <1>2, <1>5, <1>6 DEF Stale

(* A tab saves only what nobody has changed since it opened it, not even there and *)
(* back (pending_service.py:493): a revision names the epoch, and within an epoch   *)
(* no draft that was written becomes active again, unless a write waits to be read  *)
(* back or the workspace asks for a recovery, and then nothing is saved.            *)
THEOREM SavesAreFresh == Spec => SaveIsFresh
<1> DEFINE Fresh == op # NoOp /\ op' = NoOp /\ row' # row /\ op.tab # None => editor[op.tab].fresh
<1>1. WorkspaceInv /\ FreshInv /\ [Next]_vars => [Fresh]_vars
  <2> SUFFICES ASSUME WorkspaceInv, FreshInv, Next,
                      op # NoOp, op' = NoOp, row' # row, op.tab # None
               PROVE  editor[op.tab].fresh
    OBVIOUS
  <2>1. CASE PendingRequest
    BY <2>1 DEF PendingRequest, UndoRequest, RedoRequest, RestoreRequest, Backup, OpenEditor,
                SaveEditor, Free
  <2>2. CASE Outcome
    <3>1. ~op.sent /\ CommitPossible
      BY <2>2 DEF Outcome, Commit, CommitRefused, CommitRaises, ReadBack, CallbackFails
    <3> QED BY <3>1, CommitsFresh
  <2>3. CASE Restart
    BY <2>3 DEF Restart
  <2> QED BY <2>1, <2>2, <2>3, OthersKeepOp DEF Next
<1> QED BY <1>1, FreshInvariant, WorkspaceInvariant, PTL DEF Spec, SaveIsFresh
=============================================================================
