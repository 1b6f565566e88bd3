------------------------- MODULE Checkpoints_proofs -------------------------
(***************************************************************************)
(* Proofs about Checkpoints for any changes, configurations and faults:    *)
(* the rows are well typed whatever overlaps, a restore is sent only to    *)
(* the configuration it was computed from unless another backup comes in   *)
(* between, and with one request at a time the steps of a device are a     *)
(* stack and Redo returns to what the undo replaced.                       *)
(***************************************************************************)
EXTENDS Checkpoints, SequenceTheorems, TLAPS

-----------------------------------------------------------------------------
(* Types.                                                                  *)

Restoring == {"snapshot", "stage", "link"}
Written == {"push", "verify", "finish", "record"}
Pipe == {"check"} \cup Written

\* What the session q needs for its next statement, given the steps s.
Ready(q, s) ==
    /\ q \in Requests
    /\ q.pc \in Restoring => q.step \in DOMAIN s
    /\ q.pc = "snapshot" => q.target \in Configs
    /\ q.pc = "stage" => q.from \in Configs
    /\ q.pc \in Pipe \cup {"link", "fail", "release"} => q.cur \in Changes
    /\ q.pc \in Written => q.pre \in Configs
    /\ q.pc = "link" /\ q.action = "undo" => s[q.step].post # None

\* A step row an undo can leave undone.
Redoable(e) == e.state = "undone" \/ (e.pend # None /\ e.act = "undo") => e.post # None

StepsType(s) == s \in Seq(StepRow) /\ \A i \in DOMAIN s : Redoable(s[i])

RowsType ==
    /\ change \in [Changes -> ChangeRow]
    /\ revision \in Nat
    /\ newest \in Configs \cup {None}
    /\ lease \in Changes \cup {None}
    /\ config \in Configs
    /\ faults \in Nat

TypeInv ==
    /\ RowsType
    /\ StepsType(steps)
    /\ req \in [Threads -> Requests]
    /\ \A t \in Threads : Ready(req[t], steps)

\* The type invariant is what TypeInv says of the rows and of the steps.
LEMMA TypeInvTypes == TypeInv => TypeOK
  BY DEF TypeInv, RowsType, StepsType, Redoable, TypeOK, InState

\* Replacing one row of a sequence.
LEMMA RowWrite ==
  ASSUME NEW s \in Seq(StepRow), NEW i \in DOMAIN s, NEW e \in StepRow
  PROVE  /\ [s EXCEPT ![i] = e] \in Seq(StepRow)
         /\ DOMAIN [s EXCEPT ![i] = e] = DOMAIN s
         /\ \A j \in DOMAIN s : [s EXCEPT ![i] = e][j] = IF j = i THEN e ELSE s[j]
  <1>1. DOMAIN s = 1 .. Len(s)
    BY LenProperties
  <1>2. /\ [s EXCEPT ![i] = e] \in Seq(StepRow)
        /\ Len([s EXCEPT ![i] = e]) = Len(s)
        /\ \A j \in 1 .. Len(s) : [s EXCEPT ![i] = e][j] = IF j = i THEN e ELSE s[j]
    BY <1>1, ExceptSeq
  <1>3. DOMAIN [s EXCEPT ![i] = e] = 1 .. Len([s EXCEPT ![i] = e])
    BY <1>2, LenProperties
  <1> QED
    BY <1>1, <1>2, <1>3

\* The rows of steps are step rows.
LEMMA RowsAre ==
  ASSUME NEW s \in Seq(StepRow), NEW i \in DOMAIN s
  PROVE  s[i] \in StepRow
  BY LenProperties, ElementOfSeq

\* A step row by its columns, and the updates of one or two of them.
Row(state, pre, post, pend, act) ==
    [state |-> state, pre |-> pre, post |-> post, pend |-> pend, act |-> act]

LEMMA PostUpdate ==
  ASSUME NEW e \in StepRow, NEW x
  PROVE  [e EXCEPT !.post = x] = Row(e.state, e.pre, x, e.pend, e.act)
  BY DEF StepRow, Row

LEMMA PendActUpdate ==
  ASSUME NEW e \in StepRow, NEW x, NEW y
  PROVE  [e EXCEPT !.pend = x, !.act = y] = Row(e.state, e.pre, e.post, x, y)
  <1>1. [e EXCEPT !.pend = x] = Row(e.state, e.pre, e.post, x, e.act)
    BY DEF StepRow, Row
  <1>2. [Row(e.state, e.pre, e.post, x, e.act) EXCEPT !.act = y]
          = Row(e.state, e.pre, e.post, x, y)
    BY DEF Row
  <1>3. [e EXCEPT !.pend = x, !.act = y] = [[e EXCEPT !.pend = x] EXCEPT !.act = y]
    OBVIOUS
  <1> QED
    BY <1>1, <1>2, <1>3

LEMMA StatePendUpdate ==
  ASSUME NEW e \in StepRow, NEW x, NEW y
  PROVE  [e EXCEPT !.state = x, !.pend = y] = Row(x, e.pre, e.post, y, e.act)
  <1>1. [e EXCEPT !.state = x] = Row(x, e.pre, e.post, e.pend, e.act)
    BY DEF StepRow, Row
  <1>2. [Row(x, e.pre, e.post, e.pend, e.act) EXCEPT !.pend = y]
          = Row(x, e.pre, e.post, y, e.act)
    BY DEF Row
  <1>3. [e EXCEPT !.state = x, !.pend = y] = [[e EXCEPT !.state = x] EXCEPT !.pend = y]
    OBVIOUS
  <1> QED
    BY <1>1, <1>2, <1>3

\* What Stage writes: the post state of one step.
StageRow(t) == LET e == steps[req[t].step] IN
    Row(e.state, e.pre, req[t].from, e.pend, e.act)

LEMMA StageSteps ==
  ASSUME TypeInv, NEW t \in Threads, NEW c \in Changes, Stage(t, c)
  PROVE  /\ steps' \in Seq(StepRow) /\ DOMAIN steps' = DOMAIN steps
         /\ \A j \in DOMAIN steps :
               steps'[j] = IF req[t].action = "undo" /\ j = req[t].step
                           THEN StageRow(t) ELSE steps[j]
         /\ StageRow(t) \in StepRow
  <1> DEFINE i == req[t].step
  <1>1. i \in DOMAIN steps /\ req[t].from \in Configs /\ steps \in Seq(StepRow)
    BY DEF TypeInv, Ready, Stage, Restoring, StepsType
  <1>2. steps[i] \in StepRow
    BY <1>1, RowsAre
  <1>3. StageRow(t) \in StepRow
    BY <1>1, <1>2 DEF StageRow, Row, StepRow, Actions
  <1>4. CASE req[t].action = "undo"
    <2>1. steps' = [steps EXCEPT ![i] = [steps[i] EXCEPT !.post = req[t].from]]
      BY <1>1, <1>4 DEF Stage, PostOfUndo
    <2>2. steps' = [steps EXCEPT ![i] = StageRow(t)]
      BY <1>2, <2>1, PostUpdate DEF StageRow
    <2> QED
      BY <1>1, <1>3, <1>4, <2>2, RowWrite
  <1>5. CASE req[t].action # "undo"
    BY <1>1, <1>3, <1>5 DEF Stage, PostOfUndo
  <1> QED
    BY <1>4, <1>5

\* What Link writes: which change a step waits for, and what it is to do.
LinkRow(t) == LET e == steps[req[t].step] IN
    Row(e.state, e.pre, e.post, req[t].cur, req[t].action)

LEMMA LinkSteps ==
  ASSUME TypeInv, NEW t \in Threads, Link(t)
  PROVE  /\ steps' \in Seq(StepRow) /\ DOMAIN steps' = DOMAIN steps
         /\ \A j \in DOMAIN steps :
               steps'[j] = IF j = req[t].step THEN LinkRow(t) ELSE steps[j]
         /\ LinkRow(t) \in StepRow
  <1> DEFINE i == req[t].step
  <1>1. /\ i \in DOMAIN steps /\ req[t].cur \in Changes /\ steps \in Seq(StepRow)
        /\ req[t].action \in Actions
    BY DEF TypeInv, Ready, Link, Restoring, StepsType, Requests
  <1>2. steps[i] \in StepRow
    BY <1>1, RowsAre
  <1>3. LinkRow(t) \in StepRow
    BY <1>1, <1>2 DEF LinkRow, Row, StepRow, Actions
  <1>4. steps' = [steps EXCEPT ![i] =
                    [steps[i] EXCEPT !.pend = req[t].cur, !.act = req[t].action]]
    BY <1>1 DEF Link
  <1>5. [steps[i] EXCEPT !.pend = req[t].cur, !.act = req[t].action] = LinkRow(t)
    <2> DEFINE e == steps[i]
    <2>1. [e EXCEPT !.pend = req[t].cur, !.act = req[t].action]
            = Row(e.state, e.pre, e.post, req[t].cur, req[t].action)
      <3> HIDE DEF e
      <3> QED
        BY <1>2, PendActUpdate DEF e
    <2> QED
      BY <2>1 DEF LinkRow
  <1> QED
    BY <1>1, <1>3, <1>4, <1>5, RowWrite

\* What a recorded restore writes: the step is undone, or active again.
RestoredRow(i) == LET e == steps[i] IN
    Row(IF e.act = "undo" THEN "undone" ELSE "active", e.pre, e.post, None, e.act)

LEMMA RestoredSteps ==
  ASSUME TypeInv, NEW i \in DOMAIN steps, steps' = Restored(i)
  PROVE  /\ steps' \in Seq(StepRow) /\ DOMAIN steps' = DOMAIN steps
         /\ \A j \in DOMAIN steps : steps'[j] = IF j = i THEN RestoredRow(i) ELSE steps[j]
         /\ RestoredRow(i) \in StepRow
  <1> DEFINE state == IF steps[i].act = "undo" THEN "undone" ELSE "active"
  <1>1. steps \in Seq(StepRow)
    BY DEF TypeInv, StepsType
  <1>2. steps[i] \in StepRow
    BY <1>1, RowsAre
  <1>3. RestoredRow(i) \in StepRow
    BY <1>2 DEF RestoredRow, Row, StepRow, Actions
  <1>4. steps' = [steps EXCEPT ![i] = [steps[i] EXCEPT !.state = state, !.pend = None]]
    BY <1>1 DEF Restored
  <1>5. steps' = [steps EXCEPT ![i] = RestoredRow(i)]
    BY <1>2, <1>4, StatePendUpdate DEF RestoredRow
  <1> QED
    BY <1>1, <1>3, <1>5, RowWrite

\* What a recorded edit writes: the redo branch is discarded and a step added.
DiscardedRow(j) == LET e == steps[j] IN
    IF e.state = "undone" THEN Row("discarded", e.pre, e.post, None, e.act) ELSE e

NewRow(t) == Row("active", req[t].pre, req[t].post, None, "undo")

LEMMA RecordedSteps ==
  ASSUME TypeInv, NEW t \in Threads, req[t].pc = "record", steps' = Recorded(t)
  PROVE  /\ steps' \in Seq(StepRow)
         /\ Len(steps) \in Nat /\ DOMAIN steps = 1 .. Len(steps)
         /\ DOMAIN steps' = 1 .. Len(steps) + 1
         /\ \A j \in DOMAIN steps : steps'[j] = DiscardedRow(j)
         /\ steps'[Len(steps) + 1] = NewRow(t)
         /\ NewRow(t) \in StepRow
         /\ \A j \in DOMAIN steps : steps[j] \in StepRow /\ DiscardedRow(j) \in StepRow
  <1>1. /\ steps \in Seq(StepRow) /\ req[t] \in Requests /\ req[t].pre \in Configs
    BY DEF TypeInv, Ready, StepsType, Written, Pipe
  <1>2. NewRow(t) \in StepRow
    BY <1>1 DEF NewRow, Row, StepRow, Requests, Actions
  <1>3. ASSUME NEW j \in DOMAIN steps
        PROVE  /\ steps[j] \in StepRow /\ DiscardedRow(j) \in StepRow
               /\ (IF steps[j].state = "undone"
                   THEN [steps[j] EXCEPT !.state = "discarded", !.pend = None]
                   ELSE steps[j]) = DiscardedRow(j)
    <2>1. steps[j] \in StepRow
      BY <1>1, RowsAre
    <2>2. DiscardedRow(j) \in StepRow
      BY <2>1 DEF DiscardedRow, Row, StepRow, Actions
    <2> QED
      BY <2>1, <2>2, StatePendUpdate DEF DiscardedRow
  <1>4. Len(steps) \in Nat /\ DOMAIN steps = 1 .. Len(steps)
    BY <1>1, LenProperties
  <1>5. Discarded = [j \in 1 .. Len(steps) |-> DiscardedRow(j)]
    BY <1>3, <1>4 DEF Discarded
  <1>6. Discarded \in Seq(StepRow) /\ Len(Discarded) = Len(steps)
    <2>1. Discarded \in [1 .. Len(steps) -> StepRow]
      BY <1>3, <1>4, <1>5
    <2>2. Discarded \in Seq(StepRow)
      BY <1>4, <2>1
    <2>3. DOMAIN Discarded = 1 .. Len(Discarded) /\ Len(Discarded) \in Nat
      BY <2>2, LenProperties
    <2> QED
      BY <1>4, <2>1, <2>2, <2>3
  <1>7. steps' = Append(Discarded, NewRow(t))
    BY DEF Recorded, NewRow, Row
  <1>8. /\ steps' \in Seq(StepRow) /\ Len(steps') = Len(steps) + 1
        /\ \A j \in 1 .. Len(steps) : steps'[j] = Discarded[j]
        /\ steps'[Len(steps) + 1] = NewRow(t)
    <2> HIDE DEF NewRow
    <2> QED
      BY <1>2, <1>6, <1>7, AppendProperties
  <1>9. DOMAIN steps' = 1 .. Len(steps) + 1
    BY <1>8, LenProperties
  <1> QED
    BY <1>2, <1>3, <1>4, <1>5, <1>8, <1>9

\* A session that no longer restores, or goes on with its step, stays ready.
LEMMA ReadyFrame ==
  ASSUME NEW q, NEW s, NEW s2, Ready(q, s), DOMAIN s \subseteq DOMAIN s2,
         \A i \in DOMAIN s : s[i].post # None => s2[i].post # None
  PROVE  Ready(q, s2)
  BY DEF Ready, Restoring, Pipe, Written

\* A request that writes its session leaves every session ready.
LEMMA SessionsReady ==
  ASSUME TypeInv, NEW t \in Threads, NEW q, Session(t, q), Ready(q, steps'),
         DOMAIN steps \subseteq DOMAIN steps',
         \A i \in DOMAIN steps : steps[i].post # None => steps'[i].post # None
  PROVE  req' \in [Threads -> Requests] /\ \A u \in Threads : Ready(req'[u], steps')
  <1>1. q \in Requests /\ req \in [Threads -> Requests]
    BY DEF Ready, TypeInv
  <1>2. req' \in [Threads -> Requests]
        /\ \A u \in Threads : req'[u] = IF u = t THEN q ELSE req[u]
    BY <1>1 DEF Session
  <1>3. \A u \in Threads : Ready(req[u], steps')
    BY ReadyFrame DEF TypeInv
  <1> QED
    BY <1>2, <1>3

\* A step that leaves the steps alone and writes one session.
LEMMA SessionTypes ==
  ASSUME TypeInv, NEW t \in Threads, NEW q, Session(t, q), Ready(q, steps),
         UNCHANGED steps, RowsType'
  PROVE  TypeInv'
  <1>1. req' \in [Threads -> Requests] /\ \A u \in Threads : Ready(req'[u], steps')
    BY SessionsReady
  <1> QED
    BY <1>1 DEF TypeInv

\* A step that leaves the steps and the sessions alone.
LEMMA RowsTypes ==
  ASSUME TypeInv, UNCHANGED <<steps, req>>, RowsType'
  PROVE  TypeInv'
  BY DEF TypeInv

\* A request that ends, fails or has only to release its lease is ready.
LEMMA EndReady ==
  ASSUME NEW q \in Requests, NEW s
  PROVE  /\ Ready(IdleReq, s)
         /\ q.cur \in Changes => /\ Ready([IdleReq EXCEPT !.pc = "fail", !.cur = q.cur], s)
                                 /\ Ready([IdleReq EXCEPT !.pc = "release", !.cur = q.cur], s)
  BY DEF Ready, IdleReq, Requests, Restoring, Pipe, Written, Actions

LEMMA InitTypes == Init => TypeInv
  <1> SUFFICES ASSUME Init PROVE TypeInv
    OBVIOUS
  <1>1. RowsType
    BY DEF Init, RowsType, Absent, ChangeRow
  <1>2. StepsType(steps)
    BY DEF Init, StepsType
  <1>3. IdleReq \in Requests
    BY DEF IdleReq, Requests, Actions
  <1>4. Ready(IdleReq, steps)
    BY <1>3, EndReady
  <1> QED
    BY <1>1, <1>2, <1>3, <1>4 DEF Init, TypeInv

LEMMA TypeNext == TypeInv /\ [Next]_vars => TypeInv'
  <1> SUFFICES ASSUME TypeInv, [Next]_vars PROVE TypeInv'
    OBVIOUS
  <1> USE NoneAssumption, BoundAssumption
  <1>r. RowsType /\ steps \in Seq(StepRow) /\ req \in [Threads -> Requests]
        /\ \A t \in Threads : Ready(req[t], steps)
    BY DEF TypeInv, StepsType
  <1>q. \A t \in Threads : req[t] \in Requests /\ Ready(IdleReq, steps)
    BY <1>r, EndReady
  <1>1. ASSUME NEW c \in Changes, Preview(c) PROVE TypeInv'
    <2>1. RowsType'
      BY <1>1, <1>r DEF Preview, New, RowsType, ChangeRow
    <2> QED
      BY <1>1, <2>1, RowsTypes DEF Preview
  <1>2. ASSUME NEW c \in Changes, Cancel(c) PROVE TypeInv'
    <2>1. RowsType'
      BY <1>2, <1>r DEF Cancel, RowsType, ChangeRow
    <2> QED
      BY <1>2, <2>1, RowsTypes DEF Cancel
  <1>3. ASSUME NEW t \in Threads, NEW i \in DOMAIN steps, NEW action \in Actions,
               RestoreRead(t, i, action)
        PROVE  TypeInv'
    <2> DEFINE q == [IdleReq EXCEPT !.pc = "snapshot", !.step = i, !.action = action,
                                    !.target = Target(i, action)]
    <2>1. steps[i] \in StepRow /\ i \in Nat
      BY <1>r, RowsAre, LenProperties
    <2>2. Target(i, action) \in Configs
      BY <1>3, <2>1 DEF RestoreRead, Target, StepRow
    <2>3. q \in Requests /\ q.pc = "snapshot" /\ q.step = i /\ q.target \in Configs
      BY <2>1, <2>2 DEF IdleReq, Requests
    <2>4. Ready(q, steps)
      BY <2>3 DEF Ready, Restoring, Pipe, Written
    <2>5. RowsType' /\ UNCHANGED steps /\ Session(t, q)
      BY <1>3, <1>r DEF RestoreRead, RowsType
    <2> HIDE DEF q
    <2> QED
      BY <2>4, <2>5, SessionTypes
  <1>4. ASSUME NEW t \in Threads, Snapshot(t) PROVE TypeInv'
    <2>1. RowsType' /\ UNCHANGED steps
      BY <1>4, <1>r DEF Snapshot, RowsType
    <2>2. Ready([req[t] EXCEPT !.pc = "stage", !.from = config], steps)
      <3> DEFINE q == [req[t] EXCEPT !.pc = "stage", !.from = config]
      <3>1. /\ q \in Requests /\ q.pc = "stage" /\ q.from = config
            /\ q.step = req[t].step /\ req[t].pc = "snapshot" /\ config \in Configs
        BY <1>4, <1>r, <1>q DEF Snapshot, Requests, RowsType
      <3>2. req[t].step \in DOMAIN steps
        BY <1>r, <3>1 DEF Ready, Restoring
      <3> HIDE DEF q
      <3>3. Ready(q, steps)
        BY <3>1, <3>2 DEF Ready, Restoring, Pipe, Written
      <3> QED
        BY <3>3 DEF q
    <2> QED
      BY <1>4, <2>1, <2>2, <1>q, SessionTypes DEF Snapshot
  <1>5. ASSUME NEW t \in Threads, StageRefused(t) PROVE TypeInv'
    <2>1. RowsType' /\ UNCHANGED steps
      BY <1>5, <1>r DEF StageRefused, RowsType
    <2> QED
      BY <1>5, <2>1, <1>q, SessionTypes DEF StageRefused
  <1>6. ASSUME NEW t \in Threads, Link(t) PROVE TypeInv'
    <2>1. RowsType'
      BY <1>6, <1>r DEF Link, RowsType
    <2>2. /\ steps' \in Seq(StepRow) /\ DOMAIN steps' = DOMAIN steps
          /\ \A j \in DOMAIN steps :
                steps'[j] = IF j = req[t].step THEN LinkRow(t) ELSE steps[j]
          /\ LinkRow(t) \in StepRow
      BY <1>6, LinkSteps
    <2>3. /\ LinkRow(t).post = steps[req[t].step].post
          /\ LinkRow(t).state = steps[req[t].step].state
          /\ LinkRow(t).act = req[t].action
          /\ req[t].step \in DOMAIN steps
          /\ req[t].action = "undo" => steps[req[t].step].post # None
      BY <1>6, <1>r DEF LinkRow, Row, Link, Ready, Restoring
    <2>4. Redoable(LinkRow(t))
      BY <2>3 DEF TypeInv, StepsType, Redoable
    <2>5. StepsType(steps')
      BY <2>2, <2>4 DEF TypeInv, StepsType
    <2>6. \A i \in DOMAIN steps : steps[i].post # None => steps'[i].post # None
      BY <2>2, <2>3
    <2>7. Ready(IdleReq, steps') /\ Session(t, IdleReq)
      BY <1>6, <1>q, EndReady DEF Link
    <2>8. req' \in [Threads -> Requests] /\ \A u \in Threads : Ready(req'[u], steps')
      BY <2>2, <2>6, <2>7, SessionsReady
    <2> QED
      BY <2>1, <2>5, <2>8 DEF TypeInv
  <1>7. ASSUME NEW t \in Threads, NEW c \in Changes, Stage(t, c) PROVE TypeInv'
    <2> DEFINE q == [req[t] EXCEPT !.pc = "link", !.cur = c]
    <2>1. RowsType'
      BY <1>7, <1>r, <1>q DEF Stage, New, RowsType, ChangeRow, Requests
    <2>2. /\ steps' \in Seq(StepRow) /\ DOMAIN steps' = DOMAIN steps
          /\ \A j \in DOMAIN steps :
                steps'[j] = IF req[t].action = "undo" /\ j = req[t].step
                            THEN StageRow(t) ELSE steps[j]
          /\ StageRow(t) \in StepRow
      BY <1>7, StageSteps
    <2>3. /\ StageRow(t).post # None /\ StageRow(t).post = req[t].from
          /\ req[t].step \in DOMAIN steps
      BY <1>7, <1>r DEF StageRow, Row, Stage, Ready, Restoring
    <2>4. StepsType(steps')
      BY <2>2, <2>3 DEF TypeInv, StepsType, Redoable
    <2>5. \A i \in DOMAIN steps : steps[i].post # None => steps'[i].post # None
      BY <2>2, <2>3
    <2>6. /\ q \in Requests /\ q.pc = "link" /\ q.cur = c
          /\ q.step = req[t].step /\ q.action = req[t].action
      BY <1>q DEF Requests
    <2>7. Ready(q, steps')
      <3> HIDE DEF q
      <3> QED
        BY <2>2, <2>3, <2>6 DEF Ready, Restoring, Pipe, Written
    <2>8. Session(t, q)
      BY <1>7 DEF Stage
    <2>9. req' \in [Threads -> Requests] /\ \A u \in Threads : Ready(req'[u], steps')
      <3> HIDE DEF q
      <3> QED
        BY <2>2, <2>5, <2>7, <2>8, SessionsReady
    <2> QED
      BY <2>1, <2>4, <2>9 DEF TypeInv
  <1>8. ASSUME NEW t \in Threads, NEW c \in Changes, Claim(t, c) PROVE TypeInv'
    <2> DEFINE q == [IdleReq EXCEPT !.pc = "check", !.cur = c]
    <2>1. RowsType' /\ UNCHANGED steps /\ Session(t, q)
      BY <1>8, <1>r DEF Claim, RowsType, ChangeRow
    <2>2. Ready(q, steps)
      BY DEF Ready, IdleReq, Requests, Restoring, Pipe, Written, Actions
    <2> HIDE DEF q
    <2> QED
      BY <2>1, <2>2, SessionTypes
  <1>9. ASSUME NEW t \in Threads, Check(t) PROVE TypeInv'
    <2>1. RowsType' /\ UNCHANGED steps
      BY <1>9, <1>r DEF Check, RowsType
    <2>2. req[t].cur \in Changes
      BY <1>9, <1>r DEF Check, Ready, Pipe
    <2>3. Ready([req[t] EXCEPT !.pc = "push", !.pre = config], steps)
      <3> DEFINE q == [req[t] EXCEPT !.pc = "push", !.pre = config]
      <3>1. /\ q \in Requests /\ q.pc = "push" /\ q.pre = config
            /\ q.cur = req[t].cur /\ config \in Configs
        BY <1>r, <1>q DEF Requests, RowsType
      <3> HIDE DEF q
      <3>2. Ready(q, steps)
        BY <2>2, <3>1 DEF Ready, Restoring, Pipe, Written
      <3> QED
        BY <3>2 DEF q
    <2> QED
      BY <1>9, <1>q, <2>1, <2>2, <2>3, SessionTypes, EndReady DEF Check, Fail
  <1>10. ASSUME NEW t \in Threads, Push(t) PROVE TypeInv'
    <2>1. RowsType' /\ UNCHANGED steps
      BY <1>10, <1>r DEF Push, RowsType
    <2>2. req[t].cur \in Changes
      BY <1>10, <1>r DEF Push, Ready, Pipe, Written
    <2>3. Ready([req[t] EXCEPT !.pc = "verify"], steps)
      BY <1>10, <2>2, <1>r, <1>q DEF Push, Ready, Restoring, Pipe, Written, Requests
    <2> QED
      BY <1>10, <1>q, <2>1, <2>2, <2>3, SessionTypes, EndReady DEF Push, Fail, Goto
  <1>11. ASSUME NEW t \in Threads, Verify(t) PROVE TypeInv'
    <2>1. RowsType' /\ UNCHANGED steps
      BY <1>11, <1>r DEF Verify, RowsType
    <2>2. req[t].cur \in Changes /\ req[t].pre \in Configs
      BY <1>11, <1>r DEF Verify, Ready, Pipe, Written
    <2>3. Ready([req[t] EXCEPT !.pc = "finish", !.post = config], steps)
      <3> DEFINE q == [req[t] EXCEPT !.pc = "finish", !.post = config]
      <3>1. /\ q \in Requests /\ q.pc = "finish"
            /\ q.cur = req[t].cur /\ q.pre = req[t].pre
        BY <1>r, <1>q DEF Requests, RowsType
      <3> HIDE DEF q
      <3>2. Ready(q, steps)
        BY <2>2, <3>1 DEF Ready, Restoring, Pipe, Written
      <3> QED
        BY <3>2 DEF q
    <2>4. Ready([req[t] EXCEPT !.pc = "finish"], steps)
      BY <2>2, <1>q DEF Ready, Restoring, Pipe, Written, Requests
    <2> QED
      BY <1>11, <1>q, <2>1, <2>2, <2>3, <2>4, SessionTypes, EndReady DEF Verify, Fail, Goto
  <1>12. ASSUME NEW t \in Threads, Finish(t) PROVE TypeInv'
    <2>1. req[t].cur \in Changes /\ req[t].pre \in Configs
      BY <1>12, <1>r DEF Finish, Ready, Pipe, Written
    <2>2. RowsType' /\ UNCHANGED steps
      BY <1>12, <1>r, <2>1 DEF Finish, RowsType, ChangeRow
    <2>3. Ready([req[t] EXCEPT !.pc = "record"], steps)
      BY <2>1, <1>q DEF Ready, Restoring, Pipe, Written, Requests
    <2> QED
      BY <1>12, <2>2, <2>3, SessionTypes DEF Finish, Goto
  <1>13. ASSUME NEW t \in Threads, FailChange(t) PROVE TypeInv'
    <2>1. req[t].cur \in Changes
      BY <1>13, <1>r DEF FailChange, Ready
    <2>2. RowsType' /\ UNCHANGED steps
      BY <1>13, <1>r, <2>1 DEF FailChange, RowsType, ChangeRow
    <2> QED
      BY <1>13, <1>q, <2>1, <2>2, SessionTypes, EndReady DEF FailChange, Done
  <1>14. ASSUME NEW t \in Threads, Record(t) PROVE TypeInv'
    <2> DEFINE c == req[t].cur
               q == [IdleReq EXCEPT !.pc = "release", !.cur = c]
    <2>1. c \in Changes
      BY <1>14, <1>r DEF Record, Ready, Pipe, Written
    <2>2. RowsType' /\ Session(t, q)
      BY <1>14, <1>r DEF Record, RowsType, Done
    <2>3. \A s : Ready(q, s)
      BY <1>q, <2>1, EndReady
    <2>4. StepsType(steps') /\ DOMAIN steps \subseteq DOMAIN steps'
          /\ \A i \in DOMAIN steps : steps[i].post # None => steps'[i].post # None
      <3>1. CASE UNCHANGED steps
        BY <3>1 DEF TypeInv
      <3>2. ASSUME NEW i \in Linked(c), steps' = Restored(i)
            PROVE  <2>4
        <4>1. i \in DOMAIN steps /\ steps[i].pend # None
          BY <2>1 DEF Linked
        <4>2. /\ steps' \in Seq(StepRow) /\ DOMAIN steps' = DOMAIN steps
              /\ \A j \in DOMAIN steps :
                    steps'[j] = IF j = i THEN RestoredRow(i) ELSE steps[j]
          BY <3>2, <4>1, RestoredSteps
        <4>3. /\ RestoredRow(i).post = steps[i].post /\ RestoredRow(i).pend = None
              /\ RestoredRow(i).state = "undone" => steps[i].act = "undo"
          BY DEF RestoredRow, Row
        <4>4. Redoable(RestoredRow(i))
          BY <4>1, <4>3 DEF TypeInv, StepsType, Redoable
        <4> QED
          BY <4>2, <4>3, <4>4 DEF TypeInv, StepsType
      <3>3. CASE steps' = Recorded(t)
        <4>1. /\ steps' \in Seq(StepRow)
              /\ Len(steps) \in Nat /\ DOMAIN steps = 1 .. Len(steps)
              /\ DOMAIN steps' = 1 .. Len(steps) + 1
              /\ \A j \in DOMAIN steps : steps'[j] = DiscardedRow(j)
              /\ steps'[Len(steps) + 1] = NewRow(t)
          BY <1>14, <3>3, RecordedSteps DEF Record
        <4>2. \A j \in DOMAIN steps :
                 /\ DiscardedRow(j).post = steps[j].post
                 /\ Redoable(DiscardedRow(j))
          BY DEF TypeInv, StepsType, DiscardedRow, Row, Redoable
        <4>3. Redoable(NewRow(t))
          BY DEF Redoable, NewRow, Row
        <4>4. \A j \in 1 .. Len(steps) + 1 :
                 j \in DOMAIN steps \/ j = Len(steps) + 1
          BY <4>1
        <4> QED
          BY <4>1, <4>2, <4>3, <4>4 DEF StepsType
      <3> QED
        BY <1>14, <3>1, <3>2, <3>3 DEF Record
    <2>5. req' \in [Threads -> Requests] /\ \A u \in Threads : Ready(req'[u], steps')
      <3> HIDE DEF q
      <3> QED
        BY <2>2, <2>3, <2>4, SessionsReady
    <2> QED
      BY <2>2, <2>4, <2>5 DEF TypeInv
  <1>15. ASSUME NEW t \in Threads, Release(t) PROVE TypeInv'
    <2>1. RowsType' /\ UNCHANGED steps
      BY <1>15, <1>r DEF Release, RowsType
    <2> QED
      BY <1>15, <2>1, <1>q, SessionTypes DEF Release
  <1>16. CASE ReleaseOrphan
    <2> DEFINE row == [change[lease] EXCEPT !.status = IF @ = "running" THEN "failed" ELSE @]
    <2>1. lease \in Changes /\ change[lease] \in ChangeRow
      BY <1>16, <1>r DEF ReleaseOrphan, RowsType
    <2>2. row \in ChangeRow
      BY <2>1 DEF ChangeRow
    <2>3. change' = [change EXCEPT ![lease] = row]
      BY <1>16 DEF ReleaseOrphan
    <2> HIDE DEF row
    <2>4. RowsType'
      BY <1>16, <1>r, <2>2, <2>3 DEF ReleaseOrphan, RowsType
    <2> QED
      BY <1>16, <2>4, RowsTypes DEF ReleaseOrphan
  <1>17. CASE Crash
    <2>1. RowsType' /\ UNCHANGED steps
      BY <1>17, <1>r DEF Crash, RowsType
    <2>2. IdleReq \in Requests
      BY DEF IdleReq, Requests, Actions
    <2>3. req' \in [Threads -> Requests] /\ \A u \in Threads : Ready(req'[u], steps')
      BY <1>17, <2>1, <2>2, EndReady DEF Crash
    <2> QED
      BY <2>1, <2>3 DEF TypeInv
  <1>18. CASE Drift
    <2>1. RowsType'
      BY <1>18, <1>r DEF Drift, RowsType
    <2> QED
      BY <1>18, <2>1, RowsTypes DEF Drift
  <1>19. CASE UNCHANGED vars
    BY <1>19 DEF vars, TypeInv, RowsType
  <1> QED
    BY <1>1, <1>2, <1>3, <1>4, <1>5, <1>6, <1>7, <1>8, <1>9, <1>10, <1>11, <1>12, <1>13,
       <1>14, <1>15, <1>16, <1>17, <1>18, <1>19 DEF Next, Arrive, Step

\* The rows, the sessions and the steps keep to the constraints of their
\* tables, and an undone step has the post state Redo needs, however requests
\* overlap and whenever the worker is restarted (checkpoints/model.py).
THEOREM TypeCorrect == Spec => []TypeOK
  <1>1. Spec => []TypeInv
    BY InitTypes, TypeNext, PTL DEF Spec
  <1> QED
    BY <1>1, TypeInvTypes, PTL

-----------------------------------------------------------------------------
(* What a restore is computed from.                                        *)

\* Nobody takes a backup of the device between the snapshot of a restore and
\* the change staged from it: create_preview takes the newest backup there is
\* for the baseline.
Undisturbed == \A t \in Threads : req[t].pc = "stage" => newest = req[t].from

Held == Pipe \cup {"fail", "release"}

\* A restore's baseline is what it was computed from, and one request at a time
\* has the lease, which looked at the baseline before it writes.
BaseIsFrom == \A c \in Changes : change[c].from # None => change[c].base = change[c].from
Fenced ==
    \A t \in Threads : req[t].pc \in Held =>
        /\ lease = req[t].cur /\ change[req[t].cur].status # "absent"
        /\ \A u \in Threads : req[u].pc \in Held => u = t
        /\ req[t].pc = "push" => change[req[t].cur].base \in {None, config}

Kept == \A c \in Changes : change[c].status # "absent" =>
          /\ change'[c].status # "absent"
          /\ change'[c].from = change[c].from /\ change'[c].base = change[c].base

\* A step after which the lease is with whom it was.
LEMMA FenceFrame ==
  ASSUME TypeInv, Fenced, Kept, lease' = lease,
         \A u \in Threads : req'[u].pc \in Held =>
            /\ req[u].pc \in Held /\ req'[u].cur = req[u].cur
            /\ req'[u].pc = "push" => change[req[u].cur].base \in {None, config'}
  PROVE  Fenced'
  <1> SUFFICES ASSUME NEW t \in Threads, req'[t].pc \in Held
               PROVE  /\ lease' = req'[t].cur /\ change'[req'[t].cur].status # "absent"
                      /\ \A u \in Threads : req'[u].pc \in Held => u = t
                      /\ req'[t].pc = "push" => change'[req'[t].cur].base \in {None, config'}
    BY DEF Fenced
  <1>1. req[t].cur \in Changes
    BY DEF TypeInv, Ready, Held
  <1> QED
    BY <1>1 DEF Fenced, Kept

LEMMA RestingRow ==
  ASSUME TypeInv, NEW t \in Threads, NEW q, Session(t, q)
  PROVE  /\ req'[t] = q /\ \A u \in Threads \ {t} : req'[u] = req[u]
         /\ IdleReq.pc \notin Held
  BY DEF TypeInv, Session, IdleReq, Held, Pipe, Written

\* A step of a request that has no lease.
LEMMA Outside ==
  ASSUME TypeInv, Fenced, Kept, UNCHANGED <<lease, config>>,
         NEW t \in Threads, NEW q, Session(t, q), q.pc \notin Held
  PROVE  Fenced'
  <1>1. \A u \in Threads : req'[u].pc \in Held => req'[u] = req[u]
    BY RestingRow
  <1> QED
    BY <1>1, FenceFrame DEF Fenced

\* A step of the one that has it.
LEMMA Inside ==
  ASSUME TypeInv, Fenced, Kept, lease' = lease, NEW t \in Threads, req[t].pc \in Held,
         NEW q, Session(t, q), q.cur = req[t].cur,
         q.pc = "push" => change[req[t].cur].base \in {None, config'}
  PROVE  Fenced'
  <1>1. \A u \in Threads : req'[u].pc \in Held =>
           u = t /\ req[u].pc \in Held /\ req'[u].cur = req[u].cur
    BY RestingRow DEF Fenced
  <1>2. req'[t] = q
    BY RestingRow
  <1> QED
    BY <1>1, <1>2, FenceFrame

LEMMA NoneInside ==
  ASSUME \A t \in Threads : req'[t].pc \notin Held
  PROVE  Fenced'
  BY DEF Fenced

\* The status of a row that exists changes.
LEMMA StatusKept ==
  ASSUME TypeInv, BaseIsFrom, NEW c \in Changes, NEW s, s # "absent",
         change' = [change EXCEPT ![c].status = s]
  PROVE  Kept /\ BaseIsFrom'
  <1>1. \A d \in Changes : /\ change'[d].from = change[d].from /\ change'[d].base = change[d].base
                           /\ change'[d].status = IF d = c THEN s ELSE change[d].status
    BY DEF TypeInv, RowsType, ChangeRow
  <1> QED
    BY <1>1 DEF Kept, BaseIsFrom

\* A row is made.
LEMMA RowMade ==
  ASSUME TypeInv, BaseIsFrom, NEW c \in Changes, change[c].status = "absent",
         NEW exec, NEW from, New(c, exec, from), from \in {None, newest}
  PROVE  Kept /\ BaseIsFrom'
  <1>1. /\ change'[c].from = from /\ change'[c].base = newest
        /\ \A d \in Changes \ {c} : change'[d] = change[d]
    BY DEF New, TypeInv, RowsType
  <1> QED
    BY <1>1 DEF Kept, BaseIsFrom

LEMMA FenceNext ==
  ASSUME TypeInv, BaseIsFrom, Fenced, Undisturbed, [Next]_vars
  PROVE  BaseIsFrom' /\ Fenced'
  <1> USE NoneAssumption
  <1>0. req \in [Threads -> Requests] /\ \A t \in Threads : req[t] \in Requests
    BY DEF TypeInv
  <1>s. UNCHANGED change => Kept /\ BaseIsFrom'
    BY DEF Kept, BaseIsFrom
  <1>i. IdleReq.pc \notin Held /\ IdleReq.cur = None
    BY DEF IdleReq, Held, Pipe, Written
  <1>1. ASSUME NEW c \in Changes, Preview(c) PROVE BaseIsFrom' /\ Fenced'
    <2>1. Kept /\ BaseIsFrom'
      BY <1>1, RowMade DEF Preview
    <2> QED
      BY <1>1, <2>1, FenceFrame DEF Preview, Fenced
  <1>2. ASSUME NEW c \in Changes, Cancel(c) PROVE BaseIsFrom' /\ Fenced'
    <2>1. PICK s : s = "cancelled" /\ change' = [change EXCEPT ![c].status = s]
      BY <1>2 DEF Cancel
    <2>2. Kept /\ BaseIsFrom'
      BY <2>1, StatusKept
    <2> QED
      BY <1>2, <2>2, FenceFrame DEF Cancel, Fenced
  <1>3. ASSUME NEW t \in Threads, NEW i, NEW a, RestoreRead(t, i, a)
        PROVE  BaseIsFrom' /\ Fenced'
    <2> DEFINE q == [IdleReq EXCEPT !.pc = "snapshot", !.step = i, !.action = a,
                                    !.target = Target(i, a)]
    <2>1. q.pc = "snapshot"
      BY DEF IdleReq
    <2>2. Session(t, q)
      BY <1>3 DEF RestoreRead
    <2> HIDE DEF q
    <2> QED
      BY <1>3, <1>s, <2>1, <2>2, Outside DEF RestoreRead, Held, Pipe, Written
  <1>4. ASSUME NEW t \in Threads, Snapshot(t) PROVE BaseIsFrom' /\ Fenced'
    <2>1. [req[t] EXCEPT !.pc = "stage", !.from = config].pc = "stage"
      BY <1>0 DEF Requests
    <2>2. PICK q : Session(t, q) /\ q.pc \in {"stage", IdleReq.pc}
      BY <1>4, <2>1 DEF Snapshot
    <2> QED
      BY <1>4, <1>s, <1>i, <2>2, Outside DEF Snapshot, Held, Pipe, Written
  <1>5. ASSUME NEW t \in Threads, NEW c \in Changes, Stage(t, c) PROVE BaseIsFrom' /\ Fenced'
    <2>1. newest = req[t].from
      BY <1>5 DEF Stage, Undisturbed
    <2>2. Kept /\ BaseIsFrom'
      BY <1>5, <2>1, RowMade DEF Stage
    <2>3. [req[t] EXCEPT !.pc = "link", !.cur = c].pc = "link"
      BY <1>0 DEF Requests
    <2> QED
      BY <1>5, <2>2, <2>3, Outside DEF Stage, Held, Pipe, Written
  <1>6. ASSUME NEW t \in Threads, StageRefused(t) \/ Link(t) PROVE BaseIsFrom' /\ Fenced'
    BY <1>6, <1>s, <1>i, Outside DEF StageRefused, Link
  <1>7. ASSUME NEW t \in Threads, NEW c \in Changes, Claim(t, c) PROVE BaseIsFrom' /\ Fenced'
    <2>1. PICK s : s = "running" /\ change' = [change EXCEPT ![c].status = s]
      BY <1>7 DEF Claim
    <2>2. Kept /\ BaseIsFrom'
      BY <2>1, StatusKept
    <2>3. \A u \in Threads : req[u].pc \notin Held
      BY <1>7 DEF Claim, Fenced, TypeInv, Ready, Held
    <2>4. PICK q : Session(t, q) /\ q.pc = "check" /\ q.cur = c /\ lease' = c
      BY <1>7 DEF Claim, IdleReq
    <2>5. req'[t] = q /\ \A u \in Threads \ {t} : req'[u].pc \notin Held
      BY <2>3, <2>4, RestingRow
    <2>6. change'[c].status # "absent"
      BY <2>1 DEF TypeInv, RowsType, ChangeRow
    <2> QED
      BY <2>2, <2>4, <2>5, <2>6 DEF Fenced
  <1>8. ASSUME NEW t \in Threads, req[t].pc \in Held, NEW pc, pc # "push", Goto(t, pc),
               Kept, lease' = lease
        PROVE  Fenced'
    <2>1. PICK q : Session(t, q) /\ q.cur = req[t].cur /\ q.pc = pc
      BY <1>0, <1>8 DEF Goto, Requests
    <2> QED
      BY <1>8, <2>1, Inside
  <1>9. ASSUME NEW t \in Threads, req[t].pc \in Held, Fail(t) \/ Done(t), Kept, lease' = lease
        PROVE  Fenced'
    <2> DEFINE q(pc) == [IdleReq EXCEPT !.pc = pc, !.cur = req[t].cur]
    <2>1. \A pc : q(pc).cur = req[t].cur /\ q(pc).pc = pc
      BY DEF IdleReq
    <2>2. PICK pc \in {"fail", "release"} : Session(t, q(pc))
      BY <1>9 DEF Fail, Done
    <2> HIDE DEF q
    <2> QED
      BY <1>9, <2>1, <2>2, Inside
  <1>10. ASSUME NEW t \in Threads, Check(t) PROVE BaseIsFrom' /\ Fenced'
    <2>1. req[t].pc \in Held /\ UNCHANGED <<change, lease, config>>
      BY <1>10 DEF Check, Held, Pipe
    <2>2. ASSUME OnBaseline(t), Session(t, [req[t] EXCEPT !.pc = "push", !.pre = config])
          PROVE  Fenced'
      <3> DEFINE q == [req[t] EXCEPT !.pc = "push", !.pre = config]
      <3>1. q.cur = req[t].cur
        BY <1>0 DEF Requests
      <3>2. Session(t, q)
        BY <2>2
      <3> HIDE DEF q
      <3> QED
        BY <1>s, <2>1, <2>2, <3>1, <3>2, Inside DEF OnBaseline
    <2> QED
      BY <1>9, <1>10, <1>s, <2>1, <2>2 DEF Check
  <1>11. ASSUME NEW t \in Threads, Push(t) PROVE BaseIsFrom' /\ Fenced'
    <2>1. req[t].pc \in Held /\ UNCHANGED <<change, lease>>
      BY <1>11 DEF Push, Held, Pipe, Written
    <2>2. PICK s : s = "verify" /\ (Goto(t, s) \/ Fail(t))
      BY <1>11 DEF Push
    <2> QED
      BY <1>8, <1>9, <1>s, <2>1, <2>2
  <1>12. ASSUME NEW t \in Threads, Verify(t) PROVE BaseIsFrom' /\ Fenced'
    <2>1. req[t].pc \in Held /\ UNCHANGED <<change, lease>>
      BY <1>12 DEF Verify, Held, Pipe, Written
    <2>2. CASE Fail(t)
      BY <1>9, <1>s, <2>1, <2>2
    <2>3. CASE Goto(t, "finish")
      BY <1>8, <1>s, <2>1, <2>3
    <2>4. CASE Session(t, [req[t] EXCEPT !.pc = "finish", !.post = config])
      <3> DEFINE q == [req[t] EXCEPT !.pc = "finish", !.post = config]
      <3>1. q.cur = req[t].cur /\ q.pc = "finish"
        BY <1>0 DEF Requests
      <3>2. Session(t, q)
        BY <2>4
      <3> HIDE DEF q
      <3> QED
        BY <1>s, <2>1, <3>1, <3>2, Inside
    <2> QED
      BY <1>12, <2>2, <2>3, <2>4 DEF Verify
  <1>13. ASSUME NEW t \in Threads, Finish(t) \/ FailChange(t) PROVE BaseIsFrom' /\ Fenced'
    <2>1. req[t].pc \in Held /\ lease' = lease /\ req[t].cur \in Changes
      BY <1>13 DEF Finish, FailChange, Held, Pipe, Written, TypeInv, Ready
    <2>2. PICK s \in {"success", "failed"} : change' = [change EXCEPT ![req[t].cur].status = s]
      BY <1>13 DEF Finish, FailChange
    <2>3. Kept /\ BaseIsFrom'
      BY <2>1, <2>2, StatusKept
    <2>4. PICK r : r = "record"
      OBVIOUS
    <2> QED
      BY <1>8, <1>9, <1>13, <2>1, <2>3, <2>4 DEF Finish, FailChange
  <1>14. ASSUME NEW t \in Threads, Record(t) PROVE BaseIsFrom' /\ Fenced'
    <2>1. req[t].pc \in Held /\ Done(t) /\ UNCHANGED <<change, lease>>
      BY <1>14 DEF Record, Held, Pipe, Written
    <2> QED
      BY <1>9, <1>s, <2>1
  <1>15. ASSUME NEW t \in Threads, Release(t) PROVE BaseIsFrom' /\ Fenced'
    <2>1. \A u \in Threads \ {t} : req[u].pc \notin Held
      BY <1>15 DEF Release, Fenced, Held
    <2>2. \A u \in Threads : req'[u].pc \notin Held
      BY <1>15, <2>1, RestingRow DEF Release
    <2> QED
      BY <1>15, <1>s, <2>2, NoneInside DEF Release
  <1>16. CASE ReleaseOrphan
    <2>1. lease \in Changes /\ UNCHANGED req
      BY <1>16 DEF ReleaseOrphan, TypeInv, RowsType
    <2>2. \A t \in Threads : req[t].pc \notin Held
      BY <1>16 DEF ReleaseOrphan, Fenced, Held, Pipe, Written
    <2>3. change' = [change EXCEPT ![lease].status = IF @ = "running" THEN "failed" ELSE @]
      BY <1>16 DEF ReleaseOrphan
    <2>4. \A c \in Changes : change'[c].from = change[c].from /\ change'[c].base = change[c].base
      BY <2>1, <2>3 DEF TypeInv, RowsType, ChangeRow
    <2> QED
      BY <2>1, <2>2, <2>4, NoneInside DEF BaseIsFrom
  <1>17. CASE Crash
    BY <1>17, <1>s, <1>i, NoneInside DEF Crash
  <1>18. CASE Drift
    BY <1>18, <1>s, FenceFrame DEF Drift, Fenced
  <1>19. CASE UNCHANGED vars
    BY <1>19, <1>s DEF vars, Fenced
  <1> QED
    BY <1>1, <1>2, <1>3, <1>4, <1>5, <1>6, <1>7, <1>10, <1>11, <1>12, <1>13, <1>14, <1>15,
       <1>16, <1>17, <1>18, <1>19 DEF Next, Arrive, Step

\* A restore is sent only to a device that still runs the configuration its
\* commands were computed from (checkpoints/service.py:277-280), whatever requests
\* overlap, as long as no backup of the device comes between the snapshot of a
\* restore and its change.  A deployment that takes one there breaks it: the restore
\* is then bound to the newer backup, and its old commands are sent.
THEOREM RestoreIsFresh == Spec /\ []Undisturbed => []RestoreFromSnapshot
  <1>1. Init => BaseIsFrom /\ Fenced
    BY DEF Init, Absent, IdleReq, BaseIsFrom, Fenced, Held, Pipe, Written
  <1>2. TypeInv /\ BaseIsFrom /\ Fenced /\ Undisturbed /\ [Next]_vars => (BaseIsFrom /\ Fenced)'
    BY FenceNext
  <1>3. TypeInv /\ BaseIsFrom /\ Fenced => RestoreFromSnapshot
    <2> SUFFICES ASSUME TypeInv, BaseIsFrom, Fenced, NEW t \in Threads, req[t].pc = "push",
                        change[req[t].cur].from # None
                 PROVE  change[req[t].cur].from = config
      BY DEF RestoreFromSnapshot
    <2>1. req[t].cur \in Changes /\ req[t].pc \in Held
      BY DEF TypeInv, Ready, Held, Pipe, Written
    <2> QED
      BY <2>1 DEF BaseIsFrom, Fenced
  <1> QED
    BY <1>1, <1>2, <1>3, InitTypes, TypeNext, PTL DEF Spec

-----------------------------------------------------------------------------
(* One request at a time.                                                  *)
(*                                                                         *)
(* The steps are a stack only while no two requests restore the same       *)
(* device at once (checkpoints_overlap shows what happens when two do).    *)

OneRequest == \A t, u \in Threads : t = u

\* The step that an undo or a redo is allowed to move.
Due(i, action) == IF action = "undo" THEN TopActive(i) ELSE NextRedo(i)

\* A change that may still reach its record: its revision is current, or it is
\* being applied.
Ahead(c) ==
    \/ change[c].status = "pending" /\ change[c].rev = revision
    \/ \E t \in Threads : req[t].cur = c /\ req[t].pc \in Pipe

\* A restore is bound to the configuration its commands were computed from.
ChangeBook ==
    \A c \in Changes :
        /\ change[c].rev <= revision
        /\ change[c].from # None => change[c].base = change[c].from

\* A request that restores found the device quiet, so no step waits for a
\* change that can be claimed; one that writes has made every other restore of
\* the device stale.
RequestBook(t) ==
    LET q == req[t] IN
    /\ q.pc \in Restoring =>
         /\ Due(q.step, q.action)
         /\ \A i \in DOMAIN steps :
               steps[i].pend # None => change[steps[i].pend].status # "pending"
    /\ q.pc = "stage" => newest = q.from
    /\ q.pc = "link" =>
         /\ change[q.cur].status # "absent" /\ change[q.cur].from # None
         /\ q.action = "undo" => steps[q.step].post = change[q.cur].from
    /\ q.pc \in Pipe => change[q.cur].status \notin {"absent", "pending"}
    /\ q.pc \in Written =>
         /\ change[q.cur].base \in {None, q.pre}
         /\ \A i \in DOMAIN steps : LET c == steps[i].pend IN
               c \notin {None, q.cur} /\ change[c].status = "pending" => change[c].rev < revision
    /\ q.pc = "push" => q.pre = config

\* The change a step waits for belongs to the step that is due, for as long as
\* it may be recorded.
PendBook(i) ==
    LET e == steps[i] IN
    e.pend # None =>
        /\ change[e.pend].status # "absent"
        /\ Ahead(e.pend) => /\ Due(i, e.act)
                            /\ change[e.pend].from # None
                            /\ e.act = "undo" => e.post = change[e.pend].from

Book ==
    /\ ChangeBook
    /\ \A t \in Threads : RequestBook(t)
    /\ \A i \in DOMAIN steps : PendBook(i)
    /\ StackOrder

\* The steps that are due depend on the states of the rows only.
LEMMA DueSame ==
  ASSUME DOMAIN steps' = DOMAIN steps, \A j \in DOMAIN steps : steps'[j].state = steps[j].state,
         NEW i, NEW action, Due(i, action)
  PROVE  Due(i, action)'
  BY DEF Due, TopActive, NextRedo, InState

LEMMA OrderSame ==
  ASSUME DOMAIN steps' = DOMAIN steps, \A j \in DOMAIN steps : steps'[j].state = steps[j].state,
         StackOrder
  PROVE  StackOrder'
  BY DEF StackOrder, InState

\* A step of a request other than those that write steps: no change becomes
\* able to reach its record, and none that exists is computed anew.
LEMMA PendFrame ==
  ASSUME TypeInv, Book, UNCHANGED steps,
         \A c \in Changes : change[c].status # "absent" =>
            change'[c].status # "absent" /\ change'[c].from = change[c].from,
         \A c \in Changes : change[c].status # "absent" /\ Ahead(c)' => Ahead(c)
  PROVE  (\A i \in DOMAIN steps' : PendBook(i)') /\ StackOrder'
  <1>1. ASSUME NEW i \in DOMAIN steps, steps[i].pend # None
        PROVE  PendBook(i)'
    <2> DEFINE c == steps[i].pend
    <2>1. c \in Changes
      <3>1. steps[i] \in StepRow
        BY RowsAre DEF TypeInv, StepsType
      <3> QED
        BY <1>1, <3>1 DEF StepRow
    <2>2. /\ change[c].status # "absent"
          /\ Ahead(c) => /\ Due(i, steps[i].act)
                         /\ change[c].from # None
                         /\ steps[i].act = "undo" => steps[i].post = change[c].from
      BY <1>1 DEF Book, PendBook
    <2>3. /\ change'[c].status # "absent" /\ change'[c].from = change[c].from
          /\ Ahead(c)' => Ahead(c)
      BY <2>1, <2>2
    <2>4. Due(i, steps[i].act) => Due(i, steps[i].act)'
      BY DueSame
    <2> QED
      BY <2>2, <2>3, <2>4 DEF PendBook
  <1>2. StackOrder'
    BY OrderSame DEF Book
  <1> QED
    BY <1>1, <1>2 DEF PendBook

\* A step waits for a change that exists.
LEMMA PendIs ==
  ASSUME TypeInv, Book, NEW i \in DOMAIN steps
  PROVE  /\ steps[i] \in StepRow /\ i \in Nat
         /\ steps[i].pend # None =>
              steps[i].pend \in Changes /\ change[steps[i].pend].status # "absent"
  <1>1. steps[i] \in StepRow /\ i \in Nat
    BY RowsAre, LenProperties DEF TypeInv, StepsType
  <1> QED
    BY <1>1 DEF StepRow, Book, PendBook

\* The states of a request that is over: nothing is said of it.
LEMMA EndBook ==
  ASSUME NEW t \in Threads, req'[t].pc \in {"idle", "fail", "release"}
  PROVE  RequestBook(t)'
  BY DEF RequestBook, Restoring, Pipe, Written

\* What a step does to the states of the steps, in the words of UndoStack: an
\* edit is recorded, the newest active step is undone, or the step undone last
\* becomes active again.
Still ==
    /\ DOMAIN steps' = DOMAIN steps
    /\ \A j \in DOMAIN steps : steps'[j].state = steps[j].state

Moved(i, state) ==
    /\ DOMAIN steps' = DOMAIN steps
    /\ \A j \in DOMAIN steps : steps'[j].state = IF j = i THEN state ELSE steps[j].state

EditMove ==
    /\ DOMAIN steps' = 1 .. Len(steps) + 1
    /\ steps'[Len(steps) + 1].state = "active"
    /\ \A j \in DOMAIN steps :
          steps'[j].state = IF steps[j].state = "undone" THEN "discarded" ELSE steps[j].state

UndoMove == \E i \in DOMAIN steps : TopActive(i) /\ Moved(i, "undone")

RedoMove == \E i \in DOMAIN steps : NextRedo(i) /\ Moved(i, "active")

StackMove == Still \/ EditMove \/ UndoMove \/ RedoMove

\* An undo puts the step's post state where the write started.
FromPre(t) ==
    \A i \in DOMAIN steps :
        steps[i].state = "active" /\ steps'[i].state = "undone" => req[t].pre = steps[i].post

\* A recorded change moves the stack by one operation.
LEMMA RecordMoves ==
  ASSUME TypeInv, Book, NEW t \in Threads, Record(t)
  PROVE  /\ StackMove
         /\ FromPre(t)
         /\ \A j \in DOMAIN steps' : steps'[j].pend # None =>
               j \in DOMAIN steps /\ steps'[j].pend = steps[j].pend
  <1>0. PICK c \in Changes : c = req[t].cur
    BY DEF Record, TypeInv, Ready, Pipe, Written
  <1>1. req[t].pc = "record"
    BY DEF Record
  <1>2. CASE UNCHANGED steps
    BY <1>2 DEF StackMove, Still, FromPre
  <1>3. ASSUME NEW i \in Linked(c), steps' = Restored(i)
        PROVE  /\ StackMove
               /\ FromPre(t)
               /\ \A j \in DOMAIN steps' : steps'[j].pend # None =>
                     j \in DOMAIN steps /\ steps'[j].pend = steps[j].pend
    <2>1. i \in DOMAIN steps /\ steps[i].pend = c /\ c # None
      BY NoneAssumption DEF Linked
    <2>2. Ahead(c)
      BY <1>0, <1>1 DEF Ahead, Pipe, Written
    <2>3. /\ Due(i, steps[i].act) /\ change[c].from # None
          /\ steps[i].act = "undo" => steps[i].post = change[c].from
      BY <2>1, <2>2 DEF Book, PendBook
    <2>4. /\ DOMAIN steps' = DOMAIN steps
          /\ \A j \in DOMAIN steps : steps'[j] = IF j = i THEN RestoredRow(i) ELSE steps[j]
      BY <1>3, <2>1, RestoredSteps
    <2>5. /\ RestoredRow(i).state = (IF steps[i].act = "undo" THEN "undone" ELSE "active")
          /\ RestoredRow(i).pend = None
      BY DEF RestoredRow, Row
    <2>6. StackMove
      <3>1. CASE steps[i].act = "undo"
        <4>1. TopActive(i) /\ Moved(i, "undone")
          BY <2>3, <2>4, <2>5, <3>1 DEF Due, Moved
        <4> QED
          BY <2>1, <4>1 DEF StackMove, UndoMove
      <3>2. CASE steps[i].act # "undo"
        <4>1. NextRedo(i) /\ Moved(i, "active")
          BY <2>3, <2>4, <2>5, <3>2 DEF Due, Moved
        <4> QED
          BY <2>1, <4>1 DEF StackMove, RedoMove
      <3> QED
        BY <3>1, <3>2
    <2>7. steps[i].act = "undo" => req[t].pre = steps[i].post
      <3>1. change[c].base = change[c].from
        BY <2>3 DEF Book, ChangeBook
      <3>2. change[c].base \in {None, req[t].pre}
        BY <1>0, <1>1 DEF Book, RequestBook, Written
      <3> QED
        BY <2>3, <3>1, <3>2
    <2>8. FromPre(t)
      BY <2>4, <2>5, <2>7 DEF FromPre
    <2> QED
      BY <2>4, <2>5, <2>6, <2>8
  <1>4. CASE steps' = Recorded(t)
    <2>1. /\ Len(steps) \in Nat /\ DOMAIN steps = 1 .. Len(steps)
          /\ DOMAIN steps' = 1 .. Len(steps) + 1
          /\ \A j \in DOMAIN steps : steps'[j] = DiscardedRow(j)
          /\ steps'[Len(steps) + 1] = NewRow(t)
          /\ \A j \in DOMAIN steps : steps[j] \in StepRow
      BY <1>1, <1>4, RecordedSteps
    <2>2. /\ NewRow(t).state = "active" /\ NewRow(t).pend = None
          /\ \A j \in DOMAIN steps :
                /\ DiscardedRow(j).state = (IF steps[j].state = "undone" THEN "discarded"
                                            ELSE steps[j].state)
                /\ DiscardedRow(j).pend \in {None, steps[j].pend}
      BY DEF NewRow, DiscardedRow, Row
    <2>3. StackMove
      BY <2>1, <2>2 DEF StackMove, EditMove
    <2>4. FromPre(t)
      BY <2>1, <2>2 DEF FromPre
    <2>5. \A j \in DOMAIN steps' : j \in DOMAIN steps \/ j = Len(steps) + 1
      BY <2>1
    <2> QED
      BY <2>1, <2>2, <2>3, <2>4, <2>5
  <1> QED
    BY <1>0, <1>2, <1>3, <1>4 DEF Record

\* Each operation of the stack leaves what is undone newer than what is active.
LEMMA MoveOrder ==
  ASSUME TypeInv, StackOrder, StackMove
  PROVE  StackOrder'
  <1>0. Len(steps) \in Nat /\ DOMAIN steps = 1 .. Len(steps)
    BY LenProperties DEF TypeInv, StepsType
  <1>1. CASE Still
    BY <1>1 DEF Still, StackOrder, InState
  <1>2. CASE EditMove
    <2>1. InState("undone")' = {}
      BY <1>0, <1>2 DEF EditMove, InState
    <2> QED
      BY <2>1 DEF StackOrder
  <1>3. CASE UndoMove
    BY <1>0, <1>3 DEF UndoMove, Moved, StackOrder, TopActive, InState
  <1>4. CASE RedoMove
    BY <1>0, <1>4 DEF RedoMove, Moved, StackOrder, NextRedo, InState
  <1> QED
    BY <1>1, <1>2, <1>3, <1>4 DEF StackMove

LEMMA InitBook == Init => Book
  <1> SUFFICES ASSUME Init PROVE Book
    OBVIOUS
  <1>1. ChangeBook
    BY DEF Init, ChangeBook, Absent
  <1>2. \A t \in Threads : RequestBook(t)
    BY DEF Init, RequestBook, IdleReq, Restoring, Pipe, Written
  <1>3. DOMAIN steps = {}
    BY DEF Init
  <1> QED
    BY <1>1, <1>2, <1>3 DEF Book, StackOrder, InState

LEMMA BookNext == OneRequest /\ TypeInv /\ TypeInv' /\ Book /\ [Next]_vars => Book'
  <1> SUFFICES ASSUME OneRequest, TypeInv, TypeInv', Book, [Next]_vars PROVE Book'
    OBVIOUS
  <1> USE NoneAssumption
  <1>r. /\ RowsType /\ req \in [Threads -> Requests] /\ steps \in Seq(StepRow)
        /\ \A c \in Changes : change[c] \in ChangeRow /\ change[c].rev \in Nat
        /\ revision \in Nat
    BY DEF TypeInv, RowsType, ChangeRow, StepsType
  <1>b. ChangeBook /\ StackOrder /\ \A t \in Threads : RequestBook(t)
    BY DEF Book
  <1>p. \A i \in DOMAIN steps :
           /\ steps[i] \in StepRow /\ i \in Nat
           /\ steps[i].pend # None =>
                steps[i].pend \in Changes /\ change[steps[i].pend].status # "absent"
    BY PendIs
  <1>u. \A t, u \in Threads : t = u
    BY DEF OneRequest
  <1>1. ASSUME NEW c \in Changes, Preview(c) PROVE Book'
    <2>1. /\ change[c].status = "absent" /\ UNCHANGED <<steps, revision, newest, config, req>>
          /\ change'[c].rev = revision /\ change'[c].from = None
          /\ \A d \in Changes : d # c => change'[d] = change[d]
      BY <1>1, <1>r DEF Preview, New, RowsType
    <2>2. ChangeBook'
      BY <2>1, <1>b, <1>r DEF ChangeBook
    <2>3. ASSUME NEW t \in Threads PROVE RequestBook(t)'
      <3>1. req[t].pc \in Pipe \cup {"link"} => req[t].cur \in Changes \ {c}
        BY <2>1, <1>b DEF TypeInv, Ready, RequestBook
      <3> QED
        BY <2>1, <3>1, <1>b, <1>p DEF RequestBook, Due, TopActive, NextRedo, InState, Pipe, Written
    <2>4. (\A i \in DOMAIN steps' : PendBook(i)') /\ StackOrder'
      BY <2>1, PendFrame DEF Ahead
    <2> QED
      BY <2>2, <2>3, <2>4 DEF Book
  <1>2. ASSUME NEW c \in Changes, Cancel(c) PROVE Book'
    <2>1. /\ change[c].status = "pending" /\ UNCHANGED <<steps, revision, newest, config, req>>
          /\ change'[c].status = "cancelled"
          /\ \A d \in Changes : /\ change'[d].rev = change[d].rev
                                /\ change'[d].from = change[d].from
                                /\ change'[d].base = change[d].base
                                /\ d # c => change'[d] = change[d]
      BY <1>2, <1>r DEF Cancel, RowsType, ChangeRow
    <2>2. ChangeBook'
      BY <2>1, <1>b DEF ChangeBook
    <2>3. ASSUME NEW t \in Threads PROVE RequestBook(t)'
      <3>1. req[t].pc \in Pipe \cup {"link"} => req[t].cur \in Changes
        BY DEF TypeInv, Ready
      <3> QED
        BY <2>1, <3>1, <1>b, <1>p DEF RequestBook, Due, TopActive, NextRedo, InState, Pipe, Written
    <2>4. (\A i \in DOMAIN steps' : PendBook(i)') /\ StackOrder'
      BY <2>1, PendFrame DEF Ahead
    <2> QED
      BY <2>2, <2>3, <2>4 DEF Book
  <1>3. ASSUME NEW t \in Threads, NEW i \in DOMAIN steps, NEW action \in Actions,
               RestoreRead(t, i, action)
        PROVE  Book'
    <2>1. /\ UNCHANGED <<change, steps, revision, newest, config>>
          /\ \A c \in Changes : change[c].status # "pending"
          /\ Due(i, action)
      BY <1>3 DEF RestoreRead, Due, DeviceBusy, Live
    <2>2. /\ req'[t].pc = "snapshot" /\ req'[t].step = i /\ req'[t].action = action
      BY <1>3, <1>r DEF RestoreRead, Session, IdleReq
    <2>3. ChangeBook'
      BY <2>1, <1>b DEF ChangeBook
    <2>4. RequestBook(t)'
      <3>1. Due(i, action)'
        BY <2>1, DueSame
      <3> QED
        BY <2>1, <2>2, <3>1, <1>p DEF RequestBook, Pipe, Written
    <2>5. \A c \in Changes : Ahead(c)' => Ahead(c)
      BY <2>1, <2>2, <1>u DEF Ahead, Pipe, Written
    <2>6. (\A j \in DOMAIN steps' : PendBook(j)') /\ StackOrder'
      BY <2>1, <2>5, PendFrame
    <2> QED
      BY <2>3, <2>4, <2>6, <1>u DEF Book
  <1>4. ASSUME NEW t \in Threads, Snapshot(t) PROVE Book'
    <2>1. UNCHANGED <<change, steps, revision, config>> /\ req[t].pc = "snapshot"
      BY <1>4 DEF Snapshot
    <2>2. \/ req'[t].pc = "idle"
          \/ /\ req'[t].pc = "stage" /\ req'[t].step = req[t].step
             /\ req'[t].action = req[t].action /\ newest' = req'[t].from
      <3> DEFINE q == [req[t] EXCEPT !.pc = "stage", !.from = config]
      <3>1. /\ q.pc = "stage" /\ q.step = req[t].step /\ q.action = req[t].action
            /\ q.from = config /\ IdleReq.pc = "idle"
        BY <1>r DEF Requests, IdleReq
      <3>2. \/ req' = [req EXCEPT ![t] = IdleReq]
            \/ req' = [req EXCEPT ![t] = q] /\ newest' = config
        BY <1>4 DEF Snapshot, Session
      <3> HIDE DEF q
      <3> QED
        BY <1>r, <3>1, <3>2
    <2>3. ChangeBook'
      BY <2>1, <1>b DEF ChangeBook
    <2>4. RequestBook(t)'
      <3>1. CASE req'[t].pc = "idle"
        BY <3>1, EndBook
      <3>2. CASE req'[t].pc = "stage"
        <4>1. \A i, action : Due(i, action) => Due(i, action)'
          BY <2>1, DueSame
        <4>3. Due(req[t].step, req[t].action)
          BY <2>1, <1>b DEF RequestBook, Restoring
        <4>2. \A j \in DOMAIN steps :
                 steps[j].pend # None => change[steps[j].pend].status # "pending"
          BY <2>1, <1>b DEF RequestBook, Restoring
        <4> QED
          BY <2>1, <2>2, <3>2, <4>1, <4>2, <4>3 DEF RequestBook, Pipe, Written
      <3> QED
        BY <2>2, <3>1, <3>2
    <2>5. \A c \in Changes : Ahead(c)' => Ahead(c)
      BY <2>1, <2>2, <1>u DEF Ahead, Pipe, Written
    <2>6. (\A j \in DOMAIN steps' : PendBook(j)') /\ StackOrder'
      BY <2>1, <2>5, PendFrame
    <2> QED
      BY <2>3, <2>4, <2>6, <1>u DEF Book
  <1>5. ASSUME NEW t \in Threads, StageRefused(t) PROVE Book'
    <2>1. UNCHANGED <<change, steps, revision, config>> /\ req'[t].pc = "idle"
      BY <1>5, <1>r DEF StageRefused, Session, IdleReq
    <2>2. ChangeBook'
      BY <2>1, <1>b DEF ChangeBook
    <2>3. RequestBook(t)'
      BY <2>1, EndBook
    <2>4. \A c \in Changes : Ahead(c)' => Ahead(c)
      BY <2>1, <1>u DEF Ahead, Pipe, Written
    <2>5. (\A j \in DOMAIN steps' : PendBook(j)') /\ StackOrder'
      BY <2>1, <2>4, PendFrame
    <2> QED
      BY <2>2, <2>3, <2>5, <1>u DEF Book
  <1>6. ASSUME NEW t \in Threads, Link(t) PROVE Book'
    <2>0. PICK i \in DOMAIN steps, c \in Changes : i = req[t].step /\ c = req[t].cur
      BY <1>6 DEF Link, TypeInv, Ready, Restoring
    <2>1. /\ UNCHANGED <<change, revision, newest, config>> /\ req'[t].pc = "idle"
          /\ req[t].pc = "link"
      BY <1>6, <1>r DEF Link, Session, IdleReq
    <2>2. /\ DOMAIN steps' = DOMAIN steps
          /\ \A j \in DOMAIN steps : steps'[j] = IF j = i THEN LinkRow(t) ELSE steps[j]
      BY <2>0, <1>6, LinkSteps
    <2>3. /\ LinkRow(t).state = steps[i].state /\ LinkRow(t).post = steps[i].post
          /\ LinkRow(t).pend = c /\ LinkRow(t).act = req[t].action
      BY <2>0 DEF LinkRow, Row
    <2>4. \A j \in DOMAIN steps : steps'[j].state = steps[j].state
      BY <2>2, <2>3
    <2>5. ChangeBook'
      BY <2>1, <1>b DEF ChangeBook
    <2>6. RequestBook(t)'
      BY <2>1, EndBook
    <2>7. \A d \in Changes : Ahead(d)' => Ahead(d)
      BY <2>1, <1>u DEF Ahead, Pipe, Written
    <2>8. PendBook(i)'
      <3>0. PICK action \in Actions : action = req[t].action
        BY <1>r DEF Requests
      <3>3. Due(i, action)
        BY <2>0, <2>1, <3>0, <1>b DEF RequestBook, Restoring
      <3>1. Due(i, action)'
        BY <2>2, <2>4, <3>3, DueSame
      <3>2. /\ change[c].status # "absent" /\ change[c].from # None
            /\ req[t].action = "undo" => steps[i].post = change[c].from
        BY <2>0, <2>1, <1>b DEF RequestBook
      <3> QED
        BY <2>1, <2>2, <2>3, <3>0, <3>1, <3>2 DEF PendBook
    <2>9. ASSUME NEW j \in DOMAIN steps, j # i PROVE PendBook(j)'
      <3>1. \A action : Due(j, action) => Due(j, action)'
        BY <2>2, <2>4, DueSame
      <3> QED
        BY <2>1, <2>2, <2>7, <2>9, <3>1, <1>p DEF Book, PendBook
    <2>10. StackOrder'
      BY <2>2, <2>4, <1>b, OrderSame
    <2> QED
      BY <2>2, <2>5, <2>6, <2>8, <2>9, <2>10, <1>u DEF Book
  <1>7. ASSUME NEW t \in Threads, NEW c \in Changes, Stage(t, c) PROVE Book'
    <2>0. PICK i \in DOMAIN steps : i = req[t].step
      BY <1>7 DEF Stage, TypeInv, Ready, Restoring
    <2>1. /\ UNCHANGED <<revision, newest, config>> /\ req[t].pc = "stage"
          /\ change[c].status = "absent"
          /\ \A d \in Changes \ {c} : change'[d] = change[d]
          /\ change'[c].status = "pending" /\ change'[c].rev = revision
          /\ change'[c].from = req[t].from /\ change'[c].base = newest
          /\ req[t].from \in Configs /\ newest = req[t].from
      BY <1>7, <1>r, <1>b DEF Stage, New, RowsType, RequestBook, TypeInv, Ready, Restoring
    <2>2. /\ req'[t].pc = "link" /\ req'[t].cur = c /\ req'[t].step = i
          /\ req'[t].action = req[t].action
      <3> DEFINE q == [req[t] EXCEPT !.pc = "link", !.cur = c]
      <3>1. /\ q.pc = "link" /\ q.cur = c /\ q.step = req[t].step
            /\ q.action = req[t].action
        BY <1>r DEF Requests
      <3>2. req' = [req EXCEPT ![t] = q]
        BY <1>7 DEF Stage, Session
      <3> HIDE DEF q
      <3> QED
        BY <1>r, <2>0, <3>1, <3>2
    <2>3. /\ DOMAIN steps' = DOMAIN steps
          /\ \A j \in DOMAIN steps :
                steps'[j] = IF req[t].action = "undo" /\ j = i THEN StageRow(t) ELSE steps[j]
      BY <2>0, <1>7, StageSteps
    <2>4. /\ StageRow(t).state = steps[i].state /\ StageRow(t).pend = steps[i].pend
          /\ StageRow(t).act = steps[i].act /\ StageRow(t).post = req[t].from
      BY <2>0 DEF StageRow, Row
    <2>5. \A j \in DOMAIN steps : /\ steps'[j].state = steps[j].state
                                  /\ steps'[j].pend = steps[j].pend
      BY <2>3, <2>4
    <2>6. ChangeBook'
      BY <2>1, <1>b, <1>r DEF ChangeBook
    <2>7. \A j \in DOMAIN steps :
             steps[j].pend # None => /\ steps[j].pend \in Changes \ {c}
                                     /\ change[steps[j].pend].status # "absent"
                                     /\ change[steps[j].pend].status # "pending"
      BY <2>1, <1>p, <1>b DEF RequestBook, Restoring
    <2>8. RequestBook(t)'
      <3>1. \A action : Due(i, action) => Due(i, action)'
        BY <2>3, <2>5, DueSame
      <3>4. Due(i, req[t].action)
        BY <2>0, <2>1, <1>b DEF RequestBook, Restoring
      <3>2. \A j \in DOMAIN steps' :
               steps'[j].pend # None => change'[steps'[j].pend].status # "pending"
        BY <2>1, <2>3, <2>5, <2>7
      <3>3. req[t].action = "undo" => steps'[i].post = req[t].from
        BY <2>1, <2>3, <2>4
      <3> QED
        BY <2>1, <2>2, <3>1, <3>2, <3>3, <3>4 DEF RequestBook, Pipe, Written
    <2>9. ASSUME NEW j \in DOMAIN steps PROVE PendBook(j)'
      <3>1. \A d \in Changes \ {c} : change[d].status # "pending" => ~Ahead(d)'
        BY <2>1, <2>2, <1>u DEF Ahead, Pipe, Written
      <3> QED
        BY <2>1, <2>5, <2>7, <3>1 DEF PendBook
    <2>10. StackOrder'
      BY <2>3, <2>5, <1>b, OrderSame
    <2> QED
      BY <2>3, <2>6, <2>8, <2>9, <2>10, <1>u DEF Book
  <1>8. ASSUME NEW t \in Threads, NEW c \in Changes, Claim(t, c) PROVE Book'
    <2>1. /\ UNCHANGED <<steps, revision, newest, config>>
          /\ change[c].status = "pending" /\ change[c].rev = revision
          /\ change'[c].status = "running"
          /\ \A d \in Changes : /\ change'[d].rev = change[d].rev
                                /\ change'[d].from = change[d].from
                                /\ change'[d].base = change[d].base
                                /\ d # c => change'[d] = change[d]
      BY <1>8, <1>r DEF Claim, RowsType, ChangeRow
    <2>2. req'[t].pc = "check" /\ req'[t].cur = c
      <3> DEFINE q == [IdleReq EXCEPT !.pc = "check", !.cur = c]
      <3>1. q.pc = "check" /\ q.cur = c
        BY DEF IdleReq
      <3>2. req' = [req EXCEPT ![t] = q]
        BY <1>8 DEF Claim, Session
      <3> HIDE DEF q
      <3> QED
        BY <1>r, <3>1, <3>2
    <2>3. ChangeBook'
      BY <2>1, <1>b DEF ChangeBook
    <2>4. RequestBook(t)'
      BY <2>1, <2>2 DEF RequestBook, Restoring, Pipe, Written
    <2>5. \A d \in Changes : Ahead(d)' => Ahead(d)
      BY <2>1, <2>2, <1>u DEF Ahead
    <2>6. (\A j \in DOMAIN steps' : PendBook(j)') /\ StackOrder'
      BY <2>1, <2>5, PendFrame
    <2> QED
      BY <2>3, <2>4, <2>6, <1>u DEF Book
  <1>9. ASSUME NEW t \in Threads, Check(t) PROVE Book'
    <2>1. UNCHANGED <<change, steps, config>> /\ req[t].pc = "check"
      BY <1>9 DEF Check
    <2>2. \/ req'[t].pc = "fail" /\ UNCHANGED revision
          \/ /\ req'[t].pc = "push" /\ req'[t].cur = req[t].cur /\ req'[t].pre = config
             /\ change[req[t].cur].base \in {None, config} /\ revision' = revision + 1
      <3> DEFINE q == [req[t] EXCEPT !.pc = "push", !.pre = config]
                 f == [IdleReq EXCEPT !.pc = "fail", !.cur = req[t].cur]
      <3>1. /\ q.pc = "push" /\ q.cur = req[t].cur /\ q.pre = config /\ f.pc = "fail"
        BY <1>r DEF Requests, IdleReq
      <3>2. \/ req' = [req EXCEPT ![t] = f] /\ UNCHANGED revision
            \/ /\ req' = [req EXCEPT ![t] = q] /\ revision' = revision + 1
               /\ change[req[t].cur].base \in {None, config}
        BY <1>9 DEF Check, Session, Fail, OnBaseline
      <3> HIDE DEF q, f
      <3> QED
        BY <1>r, <3>1, <3>2
    <2>3. ChangeBook'
      BY <2>1, <2>2, <1>b, <1>r DEF ChangeBook
    <2>4. RequestBook(t)'
      <3>1. CASE req'[t].pc = "fail"
        BY <3>1, EndBook
      <3>2. CASE req'[t].pc = "push"
        <4>1. change[req[t].cur].status \notin {"absent", "pending"}
          BY <2>1, <1>b DEF RequestBook, Pipe
        <4>2. \A j \in DOMAIN steps :
                 steps[j].pend # None => change[steps[j].pend].rev < revision + 1
          BY <1>p, <1>b, <1>r DEF ChangeBook
        <4> QED
          BY <2>1, <2>2, <3>2, <4>1, <4>2 DEF RequestBook, Restoring
      <3> QED
        BY <2>2, <3>1, <3>2
    <2>5. \A d \in Changes : Ahead(d)' => Ahead(d)
      <3>1. \A d \in Changes : change[d].rev # revision + 1
        BY <1>b, <1>r DEF ChangeBook
      <3> QED
        BY <2>1, <2>2, <3>1, <1>u DEF Ahead, Pipe, Written
    <2>6. (\A j \in DOMAIN steps' : PendBook(j)') /\ StackOrder'
      BY <2>1, <2>5, PendFrame
    <2> QED
      BY <2>3, <2>4, <2>6, <1>u DEF Book
  <1>10. ASSUME NEW t \in Threads, Push(t) PROVE Book'
    <2>1. UNCHANGED <<change, steps, revision, newest>> /\ req[t].pc = "push"
      BY <1>10 DEF Push
    <2>2. \/ req'[t].pc = "fail"
          \/ /\ req'[t].pc = "verify" /\ req'[t].cur = req[t].cur /\ req'[t].pre = req[t].pre
      BY <1>10, <1>r DEF Push, Goto, Fail, Session, IdleReq, Requests
    <2>3. ChangeBook'
      BY <2>1, <1>b DEF ChangeBook
    <2>4. RequestBook(t)'
      <3>1. RequestBook(t)
        BY <1>b
      <3> QED
        BY <2>1, <2>2, <3>1 DEF RequestBook, Restoring, Pipe, Written
    <2>5. \A d \in Changes : Ahead(d)' => Ahead(d)
      BY <2>1, <2>2, <1>u DEF Ahead, Pipe, Written
    <2>6. (\A j \in DOMAIN steps' : PendBook(j)') /\ StackOrder'
      BY <2>1, <2>5, PendFrame
    <2> QED
      BY <2>3, <2>4, <2>6, <1>u DEF Book
  <1>11. ASSUME NEW t \in Threads, Verify(t) PROVE Book'
    <2>1. UNCHANGED <<change, steps, revision, config>> /\ req[t].pc = "verify"
      BY <1>11 DEF Verify
    <2>2. \/ req'[t].pc = "fail"
          \/ /\ req'[t].pc = "finish" /\ req'[t].cur = req[t].cur /\ req'[t].pre = req[t].pre
      <3> DEFINE q == [req[t] EXCEPT !.pc = "finish", !.post = config]
                 p == [req[t] EXCEPT !.pc = "finish"]
                 f == [IdleReq EXCEPT !.pc = "fail", !.cur = req[t].cur]
      <3>1. /\ q.pc = "finish" /\ q.cur = req[t].cur /\ q.pre = req[t].pre /\ f.pc = "fail"
            /\ p.pc = "finish" /\ p.cur = req[t].cur /\ p.pre = req[t].pre
        BY <1>r DEF Requests, IdleReq
      <3>2. \E r \in {p, q, f} : req' = [req EXCEPT ![t] = r]
        BY <1>11 DEF Verify, Session, Fail, Goto
      <3> HIDE DEF q, p, f
      <3> QED
        BY <1>r, <3>1, <3>2
    <2>3. ChangeBook'
      BY <2>1, <1>b DEF ChangeBook
    <2>4. RequestBook(t)'
      <3>1. RequestBook(t)
        BY <1>b
      <3> QED
        BY <2>1, <2>2, <3>1 DEF RequestBook, Restoring, Pipe, Written
    <2>5. \A d \in Changes : Ahead(d)' => Ahead(d)
      BY <2>1, <2>2, <1>u DEF Ahead, Pipe, Written
    <2>6. (\A j \in DOMAIN steps' : PendBook(j)') /\ StackOrder'
      BY <2>1, <2>5, PendFrame
    <2> QED
      BY <2>3, <2>4, <2>6, <1>u DEF Book
  <1>12. ASSUME NEW t \in Threads, Finish(t) PROVE Book'
    <2>0. req[t].cur \in Changes
      BY <1>12 DEF Finish, TypeInv, Ready, Pipe, Written
    <2>1. /\ UNCHANGED <<steps, revision, newest, config>> /\ req[t].pc = "finish"
          /\ change'[req[t].cur].status = "success"
          /\ \A d \in Changes : /\ change'[d].rev = change[d].rev
                                /\ change'[d].from = change[d].from
                                /\ change'[d].base = change[d].base
                                /\ d # req[t].cur => change'[d] = change[d]
      BY <1>12, <1>r, <2>0 DEF Finish, RowsType, ChangeRow
    <2>2. req'[t].pc = "record" /\ req'[t].cur = req[t].cur /\ req'[t].pre = req[t].pre
      BY <1>12, <1>r DEF Finish, Goto, Session, Requests
    <2>3. ChangeBook'
      BY <2>1, <1>b DEF ChangeBook
    <2>4. RequestBook(t)'
      <3>1. RequestBook(t)
        BY <1>b
      <3> QED
        BY <2>0, <2>1, <2>2, <3>1, <1>p DEF RequestBook, Restoring, Pipe, Written
    <2>5. \A d \in Changes : Ahead(d)' => Ahead(d)
      BY <2>0, <2>1, <2>2, <1>u DEF Ahead, Pipe, Written
    <2>6. (\A j \in DOMAIN steps' : PendBook(j)') /\ StackOrder'
      BY <2>1, <2>5, PendFrame
    <2> QED
      BY <2>3, <2>4, <2>6, <1>u DEF Book
  <1>13. ASSUME NEW t \in Threads, FailChange(t) PROVE Book'
    <2>0. req[t].cur \in Changes
      BY <1>13 DEF FailChange, TypeInv, Ready
    <2>1. /\ UNCHANGED <<steps, revision, newest, config>>
          /\ change'[req[t].cur].status = "failed"
          /\ \A d \in Changes : /\ change'[d].rev = change[d].rev
                                /\ change'[d].from = change[d].from
                                /\ change'[d].base = change[d].base
                                /\ d # req[t].cur => change'[d] = change[d]
      BY <1>13, <1>r, <2>0 DEF FailChange, RowsType, ChangeRow
    <2>2. req'[t].pc = "release"
      BY <1>13, <1>r DEF FailChange, Done, Session, IdleReq
    <2>3. ChangeBook'
      BY <2>1, <1>b DEF ChangeBook
    <2>4. RequestBook(t)'
      BY <2>2, EndBook
    <2>5. \A d \in Changes : Ahead(d)' => Ahead(d)
      BY <2>0, <2>1, <2>2, <1>u DEF Ahead, Pipe, Written
    <2>6. (\A j \in DOMAIN steps' : PendBook(j)') /\ StackOrder'
      BY <2>1, <2>5, PendFrame
    <2> QED
      BY <2>3, <2>4, <2>6, <1>u DEF Book
  <1>14. ASSUME NEW t \in Threads, Record(t) PROVE Book'
    <2>0. PICK c \in Changes : c = req[t].cur
      BY <1>14 DEF Record, TypeInv, Ready, Pipe, Written
    <2>1. UNCHANGED <<change, revision>> /\ req[t].pc = "record"
      BY <1>14 DEF Record
    <2>2. req'[t].pc = "release"
      BY <1>14, <1>r DEF Record, Done, Session, IdleReq
    <2>3. ChangeBook'
      BY <2>1, <1>b DEF ChangeBook
    <2>4. RequestBook(t)'
      BY <2>2, EndBook
    <2>5. \A d \in Changes : Ahead(d)' => change[d].status = "pending" /\ change[d].rev = revision
      BY <2>1, <2>2, <1>u DEF Ahead, Pipe, Written
    <2>6. ASSUME NEW j \in DOMAIN steps, NEW d \in Changes, d = steps[j].pend
          PROVE  ~Ahead(d)' /\ change[d].status # "absent"
      <3>1. change[d].status # "absent" /\ d # None
        BY <2>6, <1>p
      <3>2. CASE d = c
        <4>1. change[c].status # "pending"
          BY <2>0, <2>1, <1>b DEF RequestBook, Pipe, Written
        <4> QED
          BY <2>5, <3>1, <3>2, <4>1
      <3>3. CASE d # c
        <4>1. change[d].status = "pending" => change[d].rev < revision
          BY <2>0, <2>1, <2>6, <3>1, <3>3, <1>b DEF RequestBook, Written
        <4> QED
          BY <2>5, <3>1, <4>1, <1>r
      <3> QED
        BY <3>2, <3>3
    <2>7. ASSUME NEW j \in DOMAIN steps', steps'[j].pend # None PROVE PendBook(j)'
      <3>1. j \in DOMAIN steps /\ steps'[j].pend = steps[j].pend
        BY <1>14, <2>7, RecordMoves
      <3>2. PICK d \in Changes : d = steps[j].pend
        BY <2>7, <3>1, <1>p
      <3>3. ~Ahead(d)' /\ change[d].status # "absent"
        BY <2>6, <3>1, <3>2
      <3> QED
        BY <2>1, <3>1, <3>2, <3>3 DEF PendBook
    <2>8. \A j \in DOMAIN steps' : PendBook(j)'
      BY <2>7 DEF PendBook
    <2>9. StackOrder'
      BY <1>14, <1>b, RecordMoves, MoveOrder
    <2> QED
      BY <2>3, <2>4, <2>8, <2>9, <1>u DEF Book
  <1>15. ASSUME NEW t \in Threads, Release(t) PROVE Book'
    <2>1. UNCHANGED <<change, steps, revision, config>> /\ req'[t].pc = "idle"
      BY <1>15, <1>r DEF Release, Session, IdleReq
    <2>2. ChangeBook'
      BY <2>1, <1>b DEF ChangeBook
    <2>3. RequestBook(t)'
      BY <2>1, EndBook
    <2>4. \A c \in Changes : Ahead(c)' => Ahead(c)
      BY <2>1, <1>u DEF Ahead, Pipe, Written
    <2>5. (\A j \in DOMAIN steps' : PendBook(j)') /\ StackOrder'
      BY <2>1, <2>4, PendFrame
    <2> QED
      BY <2>2, <2>3, <2>5, <1>u DEF Book
  <1>16. CASE ReleaseOrphan
    <2>0. PICK c \in Changes : c = lease
      BY <1>16, <1>r DEF ReleaseOrphan, RowsType
    <2>1. /\ UNCHANGED <<steps, revision, newest, config, req>>
          /\ \A d \in Changes : /\ change'[d].rev = change[d].rev
                                /\ change'[d].from = change[d].from
                                /\ change'[d].base = change[d].base
                                /\ change'[d].status \in {change[d].status, "failed"}
      <3> DEFINE status == IF change[c].status = "running" THEN "failed" ELSE change[c].status
      <3>1. change' = [change EXCEPT ![c].status = status]
        BY <1>16, <2>0 DEF ReleaseOrphan
      <3>2. status \in {change[c].status, "failed"}
        OBVIOUS
      <3> HIDE DEF status
      <3>3. UNCHANGED <<steps, revision, newest, config, req>>
        BY <1>16 DEF ReleaseOrphan
      <3> QED
        BY <1>r, <3>1, <3>2, <3>3 DEF RowsType, ChangeRow
    <2>2. ChangeBook'
      BY <2>1, <1>b DEF ChangeBook
    <2>3. ASSUME NEW t \in Threads PROVE RequestBook(t)'
      <3>1. req[t].pc \in Pipe \cup {"link"} => req[t].cur \in Changes
        BY DEF TypeInv, Ready
      <3>2. RequestBook(t)
        BY <1>b
      <3> QED
        BY <2>1, <3>1, <3>2, <1>p DEF RequestBook, Due, TopActive, NextRedo, InState, Pipe, Written
    <2>4. (\A i \in DOMAIN steps' : PendBook(i)') /\ StackOrder'
      BY <2>1, PendFrame DEF Ahead
    <2> QED
      BY <2>2, <2>3, <2>4 DEF Book
  <1>17. CASE Crash
    <2>1. /\ UNCHANGED <<change, steps, revision, config>>
          /\ \A t \in Threads : req'[t].pc = "idle"
      BY <1>17 DEF Crash, IdleReq
    <2>2. ChangeBook'
      BY <2>1, <1>b DEF ChangeBook
    <2>3. \A t \in Threads : RequestBook(t)'
      BY <2>1, EndBook
    <2>4. \A c \in Changes : Ahead(c)' => Ahead(c)
      BY <2>1 DEF Ahead, Pipe, Written
    <2>5. (\A j \in DOMAIN steps' : PendBook(j)') /\ StackOrder'
      BY <2>1, <2>4, PendFrame
    <2> QED
      BY <2>2, <2>3, <2>5 DEF Book
  <1>18. CASE Drift
    <2>1. /\ UNCHANGED <<change, steps, revision, newest, req>>
          /\ \A t \in Threads : req[t].pc # "push"
      BY <1>18 DEF Drift
    <2>2. ChangeBook'
      BY <2>1, <1>b DEF ChangeBook
    <2>3. ASSUME NEW t \in Threads PROVE RequestBook(t)'
      BY <2>1, <1>b DEF RequestBook, Due, TopActive, NextRedo, InState
    <2>4. (\A j \in DOMAIN steps' : PendBook(j)') /\ StackOrder'
      BY <2>1, PendFrame DEF Ahead
    <2> QED
      BY <2>2, <2>3, <2>4 DEF Book
  <1>19. CASE UNCHANGED vars
    <2>1. UNCHANGED <<change, steps, revision, newest, config, req>>
      BY <1>19 DEF vars
    <2>2. ChangeBook'
      BY <2>1, <1>b DEF ChangeBook
    <2>3. ASSUME NEW t \in Threads PROVE RequestBook(t)'
      BY <2>1, <1>b DEF RequestBook, Due, TopActive, NextRedo, InState
    <2>4. (\A j \in DOMAIN steps' : PendBook(j)') /\ StackOrder'
      BY <2>1, PendFrame DEF Ahead
    <2> QED
      BY <2>2, <2>3, <2>4 DEF Book
  <1> QED
    BY <1>1, <1>2, <1>3, <1>4, <1>5, <1>6, <1>7, <1>8, <1>9, <1>10, <1>11, <1>12, <1>13,
       <1>14, <1>15, <1>16, <1>17, <1>18, <1>19 DEF Next, Arrive, Step

\* Both invariants together.
LEMMA BookAlways == ASSUME OneRequest PROVE Spec => [](TypeInv /\ Book)
  <1>1. TypeInv /\ Book /\ [Next]_vars => (TypeInv /\ Book)'
    BY TypeNext, BookNext
  <1> QED
    BY <1>1, InitTypes, InitBook, PTL DEF Spec

\* What is undone stays newer than what is in effect: only the newest active
\* step is ever undone (checkpoints/service.py:112-121).
THEOREM OrderKept == ASSUME OneRequest PROVE Spec => []StackOrder
  <1>1. Book => StackOrder
    BY DEF Book
  <1> QED
    BY <1>1, BookAlways, PTL

\* A step of Next moves the stack only in Record.
LEMMA NextMoves ==
  ASSUME TypeInv, Book, [Next]_vars
  PROVE  StackMove /\ (Still \/ \E t \in Threads : FromPre(t))
  <1>1. ASSUME NEW t \in Threads, Record(t) PROVE StackMove /\ FromPre(t)
    BY <1>1, RecordMoves
  <1>2. ASSUME NEW t \in Threads, Link(t) PROVE Still
    <2>1. LinkRow(t).state = steps[req[t].step].state
      BY DEF LinkRow, Row
    <2>2. /\ DOMAIN steps' = DOMAIN steps
          /\ \A j \in DOMAIN steps :
                steps'[j] = IF j = req[t].step THEN LinkRow(t) ELSE steps[j]
      BY <1>2, LinkSteps
    <2> QED
      BY <2>1, <2>2 DEF Still
  <1>3. ASSUME NEW t \in Threads, NEW c \in Changes, Stage(t, c) PROVE Still
    <2>1. StageRow(t).state = steps[req[t].step].state
      BY DEF StageRow, Row
    <2>2. /\ DOMAIN steps' = DOMAIN steps
          /\ \A j \in DOMAIN steps :
                steps'[j] = IF req[t].action = "undo" /\ j = req[t].step
                            THEN StageRow(t) ELSE steps[j]
      BY <1>3, StageSteps
    <2> QED
      BY <2>1, <2>2 DEF Still
  <1>4. UNCHANGED steps => Still
    BY DEF Still
  <1> QED
    BY <1>1, <1>2, <1>3, <1>4
       DEF Next, Arrive, Step, vars, Preview, Cancel, RestoreRead, Snapshot, StageRefused,
           Claim, Check, Push, Verify, Finish, FailChange, Release, ReleaseOrphan, Crash,
           Drift, StackMove

\* Every step of the system leaves the states of the steps alone or is one
\* operation of an undo stack: an edit is recorded and ends the redo branch, the
\* newest active step is undone, the step undone last becomes active again
\* (checkpoints/service.py:319-352).
THEOREM MovesAreStack == ASSUME OneRequest PROVE Spec => [][StackMove]_vars
  <1>1. TypeInv /\ Book /\ [Next]_vars => [StackMove]_vars
    BY NextMoves
  <1> QED
    BY <1>1, BookAlways, PTL DEF Spec

\* Redo returns to what the device ran just before the undo was written
\* (checkpoints/service.py:287-288).
THEOREM UndoKeepsReturn == ASSUME OneRequest PROVE Spec => RedoReturns
  <1> DEFINE A == \A i \in DOMAIN steps :
                    steps[i].state = "active" /\ steps'[i].state = "undone"
                    => \E t \in Threads : req[t].pre = steps[i].post
  <1>1. TypeInv /\ Book /\ [Next]_vars => [A]_vars
    BY NextMoves DEF Still, FromPre
  <1>2. Spec => [][A]_vars
    <2> HIDE DEF A
    <2> QED
      BY <1>1, BookAlways, PTL DEF Spec
  <1> QED
    BY <1>2 DEF RedoReturns
=============================================================================
