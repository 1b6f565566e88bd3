---------------------------- MODULE Batch_proofs ----------------------------
(***************************************************************************)
(* What the request lock is worth: a batch reports what became of its      *)
(* children, and no request writes what has ended.  Both are claims        *)
(* about the routes under the lock (NoChat); the cancel of a chat answer   *)
(* breaks them.  Restarts, manual edits and any number of Admins are       *)
(* allowed.                                                                *)
(***************************************************************************)
EXTENDS Deployment_proofs

\* No batch comes from a chat answer, so every lifecycle request is serialized.
NoChat == ChatBatches = {}

-----------------------------------------------------------------------------
(* The inductive invariant, over a session q and the statuses st.          *)

\* A session that is idle or captures a baseline; it looks at no change.
Local(q) == q.pc \in {"idle", "capture", "store"}

\* A batch under way: the children to come are approved, and outcomes has the
\* statuses of those that are over.
Progress(q, st) ==
    /\ st[q.job] = "running"
    /\ q.cur \notin q.todo
    /\ q.todo \subseteq Members(q.job)
    /\ \A c \in q.todo : st[c] = "approved"
    /\ q.outcomes = {st[c] : c \in (Members(q.job) \ q.todo) \ {q.cur}}
    /\ q.outcomes \subseteq {"success", "failed"}

\* The change at hand is of the job, and has one of these statuses.
AtHand(q, st, S) ==
    /\ q.job \in Jobs
    /\ q.cur \in Members(q.job)
    /\ st[q.cur] \in S
    /\ q.job \in Batches => Progress(q, st)

\* What the rows are when a request reaches each of its statements.
Plan(q, st) ==
    /\ q.pc \in {"approve", "cancel"} => q.job \in Jobs /\ q.seen = Members(q.job)
    /\ q.pc = "approve" => st[q.job] = "pending_approval"
    /\ q.pc = "cancel" => st[q.job] \in {"pending_approval", "approved"}
    /\ q.pc = "smart" => q.job \in Changes /\ AtHand(q, st, {"pending_approval"})
    /\ q.pc = "claim" => AtHand(q, st, {"approved"})
    /\ q.pc = "claimBatch" => st[q.job] = "approved" /\ q.cur = None /\ q.outcomes = {}
    /\ q.pc = "child" =>
          /\ Progress(q, st)
          /\ q.cur = None => q.todo = Members(q.job)
          /\ q.cur # None => AtHand(q, st, {"success", "failed"})
    /\ q.pc \in Owning \ {"release"} => AtHand(q, st, {"running"})
    /\ q.pc = "release" =>
          AtHand(q, st, IF q.raised THEN {"failed"} ELSE {"success", "failed"})
    /\ q.pc = "refail" => AtHand(q, st, {"approved", "failed"})
    /\ q.raised => q.pc \in {"fail", "release", "refail"}

\* A batch and its children move together until it is claimed, and it ends as
\* they did.
Agrees(b, st) ==
    LET outcomes == {st[c] : c \in Members(b)} IN
    /\ st[b] \in {"absent", "pending_approval", "approved", "cancelled"}
          => \A c \in Members(b) : st[c] = st[b]
    /\ st[b] \in {"success", "failed", "partial_success"}
          => /\ outcomes \subseteq {"success", "failed"}
             /\ st[b] = aggregate_status(outcomes)

\* Only the holder of the lock works on a change.
Serial ==
    \A t \in Threads :
        /\ ~req[t].chat /\ req[t].pc \notin {"create", "chatApprove", "chatApply"}
        /\ ~Local(req[t]) => lock = t

\* A change an Admin has seen running is one a restart left behind.
Orphaned ==
    \A a \in Admins : releasing[a] # None /\ releasing[a].fail =>
        status[releasing[a].chg] \in {"running", "failed"} /\ ~Working(releasing[a].chg)

BatchInv ==
    /\ Serial
    /\ \A b \in Batches : Agrees(b, status)
    /\ \A t \in Threads : Plan(req[t], status)
    /\ Orphaned

\* What a request does to the rows, once it has begun: none that ended is
\* written, neither a carried out one nor a cancelled one.
Terminal == Carried \cup {"cancelled"}
EndedKept == \A r \in Rows : status[r] \in Terminal => status'[r] = status[r]

\* What any step does to them.
EndedMoves ==
    \A r \in Rows :
        /\ status[r] \in Carried => status'[r] = status[r]
        /\ status[r] = "cancelled" /\ status'[r] # "cancelled"
           => status'[r] = "pending_approval" /\ r \notin signed /\ lock = None

-----------------------------------------------------------------------------
(* Rows and jobs.                                                          *)

\* A change is a member of its own batch, or of itself.
LEMMA MemberOf ==
  /\ \A b \in Batches : \A c \in Members(b) : c \in Changes /\ c \notin Batches
                                              /\ BatchOf[c] = b /\ c # None
  /\ \A r \in Jobs \ Batches : r \in Changes /\ BatchOf[r] = None /\ Members(r) = {r}
  /\ \A r \in Jobs : r \in Rows /\ r # None /\ Members(r) \subseteq Changes
  /\ \A r \in Jobs : \A b \in Batches : b # r => b \notin Members(r)
                        /\ r \notin Members(b) /\ Members(b) \cap Members(r) = {}
  /\ None \notin Batches /\ None \notin Changes
  BY BatchAssumption DEF Members, Jobs, Rows

\* A plan rests on the rows of its job alone.
LEMMA PlanFrame ==
  ASSUME NEW q, NEW st, NEW st2, Plan(q, st), Ready(q),
         ~Local(q) => \A r \in {q.job} \cup Members(q.job) : st2[r] = st[r]
  PROVE  Plan(q, st2)
  <1>1. CASE Local(q)
    BY <1>1 DEF Local, Plan, Owning
  <1>2. CASE ~Local(q)
    <2> DEFINE S == (Members(q.job) \ q.todo) \ {q.cur}
    <2>1. {st[c] : c \in S} = {st2[c] : c \in S}
      BY <1>2
    <2>2. Progress(q, st) => Progress(q, st2)
      BY <1>2, <2>1 DEF Progress
    <2>3. ASSUME NEW T, AtHand(q, st, T) PROVE AtHand(q, st2, T)
      BY <1>2, <2>2, <2>3 DEF AtHand
    <2> HIDE DEF S
    <2> QED
      BY <1>2, <2>2, <2>3 DEF Plan
  <1> QED
    BY <1>1, <1>2

\* So does what a batch says.
LEMMA AgreesFrame ==
  ASSUME NEW b, NEW st, NEW st2, Agrees(b, st),
         \A r \in {b} \cup Members(b) : st2[r] = st[r]
  PROVE  Agrees(b, st2)
  <1>1. {st[c] : c \in Members(b)} = {st2[c] : c \in Members(b)}
    OBVIOUS
  <1> QED
    BY <1>1 DEF Agrees

\* The rows of a job under way exist, and only its batch and the change in the
\* pipeline are running.
Underway(q, st) ==
    \A r \in {q.job} \cup Members(q.job) :
        /\ st[r] # "absent"
        /\ st[r] = "running" => r \in Batches \/ (r = q.cur /\ q.pc \in Owning)

LEMMA PlanStatuses ==
  ASSUME NEW q, NEW st, Plan(q, st), Ready(q), ~Local(q),
         q.pc \notin {"create", "chatApprove", "chatApply"},
         \A b \in Batches : Agrees(b, st)
  PROVE  Underway(q, st)
  <1>1. ASSUME Progress(q, st), q.job \in Batches, NEW r \in Members(q.job), r # q.cur
        PROVE  st[r] \in {"approved", "success", "failed"}
    BY <1>1 DEF Progress
  <1>2. CASE q.pc \in {"approve", "cancel", "claimBatch"}
    <2>1. q.job \in Jobs
      BY <1>2 DEF Plan, Ready, Jobs, Owning
    <2>2. st[q.job] \in {"pending_approval", "approved"}
      BY <1>2 DEF Plan
    <2>3. \A r \in Members(q.job) : st[r] = st[q.job]
      <3>1. q.job \in Batches => Agrees(q.job, st)
        OBVIOUS
      <3> QED
        BY <2>1, <2>2, <3>1, MemberOf DEF Agrees
    <2> QED
      BY <2>2, <2>3 DEF Underway
  <1>3. ASSUME NEW S, AtHand(q, st, S), "absent" \notin S,
               "running" \in S => q.pc \in Owning
        PROVE  Underway(q, st)
    <2>1. CASE q.job \in Batches
      <3>1. Progress(q, st) /\ st[q.cur] \in S /\ st[q.job] = "running"
        BY <1>3, <2>1 DEF AtHand, Progress
      <3>2. \A r \in Members(q.job) \ {q.cur} : st[r] # "absent" /\ st[r] # "running"
        BY <1>1, <2>1, <3>1
      <3> QED
        BY <1>3, <2>1, <3>1, <3>2 DEF Underway
    <2>2. CASE q.job \notin Batches
      BY <1>3, <2>2, MemberOf DEF AtHand, Underway
    <2> QED
      BY <2>1, <2>2
  <1>4. CASE q.pc = "child" /\ q.cur = None
    <2>1. q.job \in Batches /\ Progress(q, st)
      BY <1>4 DEF Plan, Ready
    <2>2. \A r \in Members(q.job) : r # q.cur
      BY <1>4, <2>1, MemberOf
    <2> QED
      BY <1>1, <2>1, <2>2, MemberOf DEF Underway, Progress
  <1>5. CASE q.pc \in {"smart", "claim", "refail"} \cup Owning
             \/ (q.pc = "child" /\ q.cur # None)
    <2>1. CASE q.pc \in Owning \ {"release"}
      BY <1>3, <2>1 DEF Plan
    <2>2. CASE q.pc = "release"
      <3>1. AtHand(q, st, IF q.raised THEN {"failed"} ELSE {"success", "failed"})
        BY <2>2 DEF Plan
      <3> QED
        BY <1>3, <3>1
    <2>3. CASE q.pc \in {"smart", "claim", "refail"}
      <3>1. \/ AtHand(q, st, {"pending_approval"}) \/ AtHand(q, st, {"approved"})
            \/ AtHand(q, st, {"approved", "failed"})
        BY <2>3 DEF Plan
      <3> QED
        BY <1>3, <3>1
    <2>4. CASE q.pc = "child" /\ q.cur # None
      <3>1. AtHand(q, st, {"success", "failed"})
        BY <2>4 DEF Plan
      <3> QED
        BY <1>3, <3>1
    <2> QED
      BY <1>5, <2>1, <2>2, <2>3, <2>4
  <1> QED
    BY <1>2, <1>4, <1>5 DEF Ready, Requests, PCs, Local

-----------------------------------------------------------------------------
(* Writing one change, or one batch.                                       *)

\* Writing a change whose batch, if it has one, is running.
LEMMA ChildWrite ==
  ASSUME NEW st \in [Rows -> Statuses], \A b \in Batches : Agrees(b, st),
         NEW c \in Changes, BatchOf[c] \in Batches => st[BatchOf[c]] = "running", NEW v
  PROVE  \A b \in Batches : Agrees(b, [st EXCEPT ![c] = v])
  <1> SUFFICES ASSUME NEW b \in Batches PROVE Agrees(b, [st EXCEPT ![c] = v])
    OBVIOUS
  <1>1. c # b /\ c \in Rows /\ b \in Rows /\ Members(b) \subseteq Rows
    BY MemberOf, BatchAssumption DEF Rows
  <1>2. CASE c \in Members(b)
    <2>1. st[b] = "running" /\ [st EXCEPT ![c] = v][b] = "running"
      BY <1>1, <1>2, MemberOf
    <2> QED
      BY <2>1 DEF Agrees
  <1>3. CASE c \notin Members(b)
    <2>1. \A r \in {b} \cup Members(b) : [st EXCEPT ![c] = v][r] = st[r]
      BY <1>1, <1>3
    <2> QED
      BY <2>1, AgreesFrame
  <1> QED
    BY <1>2, <1>3

\* The batch of the change at hand is running, as the change is its child.
LEMMA AtHandBatch ==
  ASSUME NEW q, NEW st, NEW S, AtHand(q, st, S)
  PROVE  /\ q.cur \in Changes
         /\ BatchOf[q.cur] \in Batches => st[BatchOf[q.cur]] = "running"
  BY MemberOf DEF AtHand, Progress, Rows

\* Writing the change at hand leaves the progress of its batch alone.
LEMMA AtHandWrite ==
  ASSUME NEW q, NEW st \in [Rows -> Statuses], NEW S, AtHand(q, st, S), NEW v,
         NEW n, n.job = q.job, n.cur = q.cur, n.todo = q.todo, n.outcomes = q.outcomes
  PROVE  AtHand(n, [st EXCEPT ![q.cur] = v], {v})
  <1> DEFINE st2 == [st EXCEPT ![q.cur] = v]
             T == (Members(q.job) \ q.todo) \ {q.cur}
  <1>1. q.cur \in Rows /\ st2[q.cur] = v
    BY AtHandBatch DEF Rows
  <1>2. ASSUME q.job \in Batches PROVE Progress(n, st2)
    <2>1. Progress(q, st) /\ q.cur \in Members(q.job) /\ q.cur # q.job
      BY <1>2, MemberOf DEF AtHand
    <2>2. \A r \in {q.job} \cup T \cup q.todo : r \in Rows /\ r # q.cur
      BY <1>2, <2>1, MemberOf DEF Progress, Rows
    <2>3. \A r \in {q.job} \cup T \cup q.todo : st2[r] = st[r]
      BY <2>2
    <2>4. {st[c] : c \in T} = {st2[c] : c \in T}
      BY <2>3
    <2> HIDE DEF st2, T
    <2>5. q.outcomes = {st2[c] : c \in T}
      BY <2>1, <2>4 DEF Progress, T
    <2> QED
      BY <2>1, <2>3, <2>5 DEF Progress, T
  <1> QED
    BY <1>1, <1>2 DEF AtHand

\* What is at hand stays so while the request goes on and the rows stay.
LEMMA AtHandGoesOn ==
  ASSUME NEW q, NEW st, NEW S, AtHand(q, st, S), NEW T, S \subseteq T,
         NEW n, n.job = q.job, n.cur = q.cur, n.todo = q.todo, n.outcomes = q.outcomes
  PROVE  AtHand(n, st, T)
  BY DEF AtHand, Progress

-----------------------------------------------------------------------------
(* Steps of a request: its session.                                        *)

\* A session that goes on with the same job.
SameJob(n, q) ==
    /\ n.job = q.job /\ n.cur = q.cur /\ n.todo = q.todo /\ n.outcomes = q.outcomes
    /\ n.chat = q.chat

LEMMA SameByGoto ==
  ASSUME SessionType, NEW t \in Threads, NEW pc, Goto(t, pc)
  PROVE  req'[t].pc = pc /\ SameJob(req'[t], req[t]) /\ req'[t].raised = req[t].raised
         /\ req'[t].seen = req[t].seen
  BY DEF SessionType, Goto, Session, Requests, SameJob

LEMMA SameByFail ==
  ASSUME SessionType, NEW t \in Threads, NEW x, Fail(t, x)
  PROVE  req'[t].pc = "fail" /\ SameJob(req'[t], req[t]) /\ req'[t].raised = x
  BY DEF SessionType, Fail, Session, Requests, SameJob

\* An ended request plans nothing.
LEMMA IdlePlan ==
  ASSUME SessionType, NEW t \in Threads, Session(t, IdleReq) \/ EndRequest(t), NEW st
  PROVE  req'[t] = IdleReq /\ Plan(req'[t], st) /\ Local(req'[t])
  <1>1. req'[t] = IdleReq
    BY DEF SessionType, EndRequest, Session
  <1>2. IdleReq.pc = "idle" /\ IdleReq.raised = FALSE
    BY DEF IdleReq
  <1> QED
    BY <1>1, <1>2 DEF Plan, Local, Owning

\* How a step of a request moves the lock.
LockMove(t) ==
    LET n == req'[t] IN
    /\ ~n.chat /\ n.pc \notin {"create", "chatApprove", "chatApply"}
    /\ \/ lock' = lock /\ (~Local(n) => ~Local(req[t]))
       \/ lock = None /\ lock' = t /\ Local(req[t])
       \/ Local(n) /\ lock' = IF lock = t THEN None ELSE lock

\* Every handler either keeps the lock, takes it while it is free, or ends.
LEMMA LockMoves ==
  ASSUME NoChat, SessionType, Serial, NEW t \in Threads, Step(t) \/ Arrive(t)
  PROVE  LockMove(t)
  <1> DEFINE q == req[t]
             n == req'[t]
  <1>0. /\ q \in Requests /\ ~q.chat
        /\ q.pc \notin {"create", "chatApprove", "chatApply"}
    BY DEF SessionType, Serial
  <1>1. ASSUME NEW pc, Goto(t, pc), lock' = lock, ~Local(q),
               pc \notin {"create", "chatApprove", "chatApply"}
        PROVE  LockMove(t)
    BY <1>0, <1>1, SameByGoto DEF LockMove, SameJob
  <1>2. ASSUME NEW x, Fail(t, x), lock' = lock, ~Local(q)
        PROVE  LockMove(t)
    BY <1>0, <1>2, SameByFail DEF LockMove, SameJob
  <1>3. ASSUME EndRequest(t) PROVE LockMove(t)
    <2>1. n = IdleReq /\ Local(n)
      BY <1>3, IdlePlan
    <2> QED
      BY <1>3, <2>1 DEF LockMove, EndRequest, IdleReq
  <1>4. ASSUME Session(t, IdleReq), lock' = lock PROVE LockMove(t)
    <2>1. n = IdleReq /\ Local(n)
      BY <1>4, IdlePlan
    <2> QED
      BY <1>4, <2>1 DEF LockMove, IdleReq
  <1>5. ASSUME NEW m, Session(t, m), ~m.chat,
               m.pc \notin {"create", "chatApprove", "chatApply"},
               \/ lock' = lock /\ (~Local(m) => ~Local(q))
               \/ Locked(t) /\ q.pc = "idle"
        PROVE  LockMove(t)
    <2>1. n = m
      BY <1>5, SessionFields
    <2> QED
      BY <1>5, <2>1 DEF LockMove, Locked, Local
  <1>6. ASSUME NEW pc, NEW c, NEW todo, NEW outcomes, NEW rev, NEW cfg, NEW dev,
               NEW targets, NEW raised
        PROVE  /\ [q EXCEPT !.pc = pc, !.todo = todo].pc = pc
               /\ ~[q EXCEPT !.pc = pc, !.todo = todo].chat
               /\ [q EXCEPT !.pc = pc, !.cur = c, !.todo = @ \ {c},
                            !.outcomes = outcomes].pc = pc
               /\ ~[q EXCEPT !.pc = pc, !.cur = c, !.todo = @ \ {c},
                            !.outcomes = outcomes].chat
               /\ [q EXCEPT !.pc = pc, !.cfg = cfg].pc = pc
               /\ ~[q EXCEPT !.pc = pc, !.cfg = cfg].chat
               /\ [q EXCEPT !.pc = pc, !.rev = rev].pc = pc
               /\ ~[q EXCEPT !.pc = pc, !.rev = rev].chat
               /\ [q EXCEPT !.pc = pc, !.raised = raised].pc = pc
               /\ ~[q EXCEPT !.pc = pc, !.raised = raised].chat
               /\ [q EXCEPT !.pc = pc, !.cfg = cfg, !.dev = dev].pc = pc
               /\ ~[q EXCEPT !.pc = pc, !.cfg = cfg, !.dev = dev].chat
               /\ [q EXCEPT !.pc = pc, !.targets = targets].pc = pc
               /\ ~[q EXCEPT !.pc = pc, !.targets = targets].chat
    BY <1>0 DEF Requests
  <1>7. CASE ApproveCommit(t) \/ CancelCommit(t) \/ FinishBatch(t)
    BY <1>0, <1>3, <1>7 DEF ApproveCommit, CancelCommit, FinishBatch
  <1>8. CASE SmartApprove(t) \/ ClaimConflict(t)
    BY <1>1, <1>3, <1>8 DEF SmartApprove, ClaimConflict, Unlocked, Local
  <1>9. CASE ClaimBatch(t)
    <2>1. ~Local(q)
      BY <1>9 DEF ClaimBatch, Local
    <2>2. ASSUME Session(t, [q EXCEPT !.pc = "child", !.todo = Members(q.job)]), lock' = lock
          PROVE  LockMove(t)
      <3> DEFINE m == [q EXCEPT !.pc = "child", !.todo = Members(q.job)]
      <3>1. Session(t, m) /\ m.pc = "child" /\ ~m.chat
        BY <1>6, <2>2
      <3> HIDE DEF m
      <3> QED
        BY <1>5, <2>1, <2>2, <3>1
    <2> QED
      BY <1>3, <1>9, <2>1, <2>2 DEF ClaimBatch
  <1>10. CASE NextChild(t)
    <2>1. ~Local(q)
      BY <1>10 DEF NextChild, Local
    <2>2. PICK c \in q.todo, pc \in {"claim", "refail"} :
             Session(t, [q EXCEPT !.pc = pc, !.cur = c, !.todo = @ \ {c},
                                  !.outcomes = Outcomes(t)])
      BY <1>10 DEF NextChild
    <2> DEFINE m == [q EXCEPT !.pc = pc, !.cur = c, !.todo = @ \ {c},
                              !.outcomes = Outcomes(t)]
    <2>3. Session(t, m) /\ m.pc = pc /\ ~m.chat /\ lock' = lock
      BY <1>6, <1>10, <2>2 DEF NextChild
    <2> HIDE DEF m
    <2> QED
      BY <1>5, <2>1, <2>3
  <1>11. CASE Claim(t) \/ Bump(t) \/ Finish(t) \/ FailChange(t)
    BY <1>1, <1>11 DEF Claim, Bump, Finish, FailChange, Local
  <1>12. CASE Start(t)
    BY <1>1, <1>2, <1>12 DEF Start, Local
  <1>13. CASE Push(t)
    BY <1>1, <1>2, <1>13 DEF Push, Local
  <1>14. CASE PromptShown(t) \/ Verify(t)
    BY <1>1, <1>2, <1>14 DEF PromptShown, Verify, Local
  <1>15. CASE Backup(t) \/ Check(t)
    <2>1. ~Local(q)
      BY <1>15 DEF Backup, Check, Local
    <2>2. ASSUME NEW x, Session(t, [q EXCEPT !.pc = "check", !.cfg = x]), lock' = lock
          PROVE  LockMove(t)
      <3> DEFINE m == [q EXCEPT !.pc = "check", !.cfg = x]
      <3>1. Session(t, m) /\ m.pc = "check" /\ ~m.chat
        BY <1>6, <2>2
      <3> HIDE DEF m
      <3> QED
        BY <1>5, <2>1, <2>2, <3>1
    <2>3. ASSUME NEW x, Session(t, [q EXCEPT !.pc = "bump", !.rev = x]), lock' = lock
          PROVE  LockMove(t)
      <3> DEFINE m == [q EXCEPT !.pc = "bump", !.rev = x]
      <3>1. Session(t, m) /\ m.pc = "bump" /\ ~m.chat
        BY <1>6, <2>3
      <3> HIDE DEF m
      <3> QED
        BY <1>5, <2>1, <2>3, <3>1
    <2> QED
      BY <1>2, <1>15, <2>1, <2>2, <2>3 DEF Backup, Check
  <1>16. CASE Release(t)
    <2>1. CASE ~IsBatch(t)
      BY <1>3, <1>16, <2>1 DEF Release
    <2>2. CASE IsBatch(t)
      BY <1>1, <1>16, <2>2 DEF Release, Local
    <2> QED
      BY <2>1, <2>2
  <1>17. CASE Refail(t)
    <2>1. ~Local(q)
      BY <1>17 DEF Refail, Local
    <2> DEFINE m == [q EXCEPT !.pc = "child", !.raised = FALSE]
    <2>2. Session(t, m) /\ m.pc = "child" /\ ~m.chat /\ lock' = lock
      BY <1>6, <1>17 DEF Refail
    <2> HIDE DEF m
    <2> QED
      BY <1>5, <2>1, <2>2
  <1>18. CASE CaptureRead(t)
    <2>1. ASSUME NEW d, Session(t, [q EXCEPT !.pc = "store", !.cfg = config[d],
                                             !.dev = d])
          PROVE  LockMove(t)
      <3> DEFINE m == [q EXCEPT !.pc = "store", !.cfg = config[d], !.dev = d]
      <3>1. m.pc = "store" /\ ~m.chat
        BY <1>6
      <3>2. Local(m) /\ Session(t, m) /\ lock' = lock
        BY <1>18, <2>1, <3>1 DEF Local, CaptureRead
      <3> HIDE DEF m
      <3> QED
        BY <1>5, <3>1, <3>2
    <2> QED
      BY <1>4, <1>18, <2>1 DEF CaptureRead
  <1>19. CASE CaptureStore(t)
    <2>1. ASSUME NEW left, Session(t, [q EXCEPT !.pc = "capture", !.targets = left])
          PROVE  LockMove(t)
      <3> DEFINE m == [q EXCEPT !.pc = "capture", !.targets = left]
      <3>1. m.pc = "capture" /\ ~m.chat
        BY <1>6
      <3>2. Local(m) /\ Session(t, m) /\ lock' = lock
        BY <1>19, <2>1, <3>1 DEF Local, CaptureStore
      <3> HIDE DEF m
      <3> QED
        BY <1>5, <3>1, <3>2
    <2> QED
      BY <1>0, <1>4, <1>19, <2>1 DEF CaptureStore
  <1>20. CASE ChatCreate(t) \/ ChatApprove(t) \/ ChatApply(t)
    BY <1>0, <1>20 DEF ChatCreate, ChatApprove, ChatApply
  <1>21. CASE Arrive(t)
    <2>1. ASSUME Locked(t), q.pc = "idle", NEW r, NEW S,
                 NEW pc \in {"approve", "cancel", "claimBatch"}, Load(t, r, pc, FALSE, S)
          PROVE  LockMove(t)
      <3> DEFINE m == [IdleReq EXCEPT !.pc = pc, !.job = r, !.chat = FALSE,
                          !.seen = {c \in Members(r) : status[c] \in S}]
      <3>1. Session(t, m) /\ m.pc = pc /\ ~m.chat
        BY <2>1 DEF Load, IdleReq
      <3> HIDE DEF m
      <3> QED
        BY <1>5, <2>1, <3>1
    <2>2. ASSUME NEW r \in Jobs, ApproveRead(t, r) \/ CancelRead(t, r)
          PROVE  LockMove(t)
      BY <2>1, <2>2 DEF ApproveRead, CancelRead, NoChat
    <2>3. ASSUME NEW c \in Changes, ApplyRead(t, c) PROVE LockMove(t)
      <3>1. ASSUME NEW pc \in {"claim", "smart"},
                   Session(t, [IdleReq EXCEPT !.pc = pc, !.job = c, !.cur = c])
            PROVE  LockMove(t)
        <4> DEFINE m == [IdleReq EXCEPT !.pc = pc, !.job = c, !.cur = c]
        <4>1. Session(t, m) /\ m.pc = pc /\ ~m.chat
          BY <3>1 DEF IdleReq
        <4> HIDE DEF m
        <4> QED
          BY <1>5, <2>3, <4>1 DEF ApplyRead
      <3> QED
        BY <2>3, <3>1 DEF ApplyRead
    <2>4. ASSUME NEW b \in Batches, ApplyBatchRead(t, b) \/ ChatSubmit(t, b)
          PROVE  LockMove(t)
      BY <2>1, <2>4 DEF ApplyBatchRead, ChatSubmit, NoChat
    <2>5. ASSUME NEW d \in Devices, BaselineRead(t, d) PROVE LockMove(t)
      <3> DEFINE m == [IdleReq EXCEPT !.pc = "capture", !.targets = {d}]
      <3>1. Session(t, m) /\ m.pc = "capture" /\ ~m.chat /\ lock' = lock
        BY <2>5 DEF BaselineRead, IdleReq
      <3> HIDE DEF m
      <3> QED
        BY <1>5, <3>1 DEF Local
    <2> QED
      BY <1>21, <2>2, <2>3, <2>4, <2>5 DEF Arrive
  <1> QED
    BY <1>7, <1>8, <1>9, <1>10, <1>11, <1>12, <1>13, <1>14, <1>15, <1>16, <1>17,
       <1>18, <1>19, <1>20, <1>21 DEF Step

\* The lock serializes what works on changes.
LEMMA SerialStep ==
  ASSUME SessionType, DataType, Serial, NEW t \in Threads, Step(t) \/ Arrive(t),
         LockMove(t)
  PROVE  Serial'
  <1>1. \A u \in Threads \ {t} : req'[u] = req[u]
    BY OthersKept
  <1>2. None \notin Threads
    BY BatchAssumption
  <1>3. ASSUME NEW u \in Threads, ~Local(req'[u]) PROVE lock' = u
    <2>1. CASE u = t
      BY <1>3, <2>1 DEF Serial, LockMove
    <2>2. CASE u # t
      <3>1. lock = u
        BY <1>1, <1>3, <2>2 DEF Serial
      <3> QED
        BY <1>2, <2>2, <3>1 DEF LockMove, Serial
    <2> QED
      BY <2>1, <2>2
  <1> QED
    BY <1>1, <1>3 DEF Serial, LockMove

-----------------------------------------------------------------------------
(* Steps of a request: its plan and its rows.                              *)

\* What is at hand makes the plan of each statement of the pipeline.
LEMMA PlanOwning ==
  ASSUME NEW n, NEW st, NEW S, AtHand(n, st, S),
         \/ n.pc \in Owning \ {"release"} /\ S = {"running"} /\ (n.raised => n.pc = "fail")
         \/ n.pc = "release" /\ S = {"success"} /\ ~n.raised
         \/ n.pc = "release" /\ S = {"failed"}
  PROVE  Plan(n, st)
  <1>1. CASE n.pc \in Owning \ {"release"}
    <2>1. n.pc \notin {"approve", "cancel", "smart", "claim", "claimBatch", "child",
                       "release", "refail"}
      BY <1>1 DEF Owning
    <2> QED
      BY <1>1, <2>1 DEF Plan
  <1>2. CASE n.pc = "release"
    <2>1. AtHand(n, st, IF n.raised THEN {"failed"} ELSE {"success", "failed"})
      BY <1>2 DEF AtHand
    <2> QED
      BY <1>2, <2>1 DEF Plan
  <1> QED
    BY <1>1, <1>2 DEF Owning

\* And of the statements around the pipeline.
LEMMA PlanAround ==
  ASSUME NEW n, NEW st, NEW S, AtHand(n, st, S),
         \/ n.pc = "claim" /\ S = {"approved"} /\ ~n.raised
         \/ n.pc = "smart" /\ S = {"pending_approval"} /\ ~n.raised /\ n.job \in Changes
         \/ n.pc = "refail" /\ S \subseteq {"approved", "failed"}
         \/ /\ n.pc = "child" /\ S \subseteq {"success", "failed"} /\ ~n.raised
            /\ n.job \in Batches
  PROVE  Plan(n, st)
  <1>1. n.pc = "refail" => AtHand(n, st, {"approved", "failed"})
    BY DEF AtHand
  <1>2. n.pc = "child" => AtHand(n, st, {"success", "failed"}) /\ n.cur # None
                          /\ Progress(n, st)
    BY AtHandBatch, MemberOf DEF AtHand
  <1> QED
    BY <1>1, <1>2 DEF Plan, Owning

\* What a step of t does to its plan and to the rows.
Effect(t) ==
    /\ Plan(req'[t], status')
    /\ \A b \in Batches : Agrees(b, status')
    /\ EndedKept
    /\ \A r \in Rows : status'[r] # status[r] =>
          ~Local(req[t]) /\ r \in {req[t].job} \cup Members(req[t].job)

\* A step that writes no row.
LEMMA StaticEffect ==
  ASSUME BatchInv, NEW t \in Threads, UNCHANGED status, Plan(req'[t], status)
  PROVE  Effect(t)
  <1>1. status' = status
    OBVIOUS
  <1>2. \A b \in Batches : Agrees(b, status)
    BY DEF BatchInv
  <1> QED
    BY <1>1, <1>2 DEF Effect, EndedKept

\* A step that writes the change at hand.
LEMMA ChildEffect ==
  ASSUME DataType, BatchInv, NEW t \in Threads, ~Local(req[t]),
         NEW S, AtHand(req[t], status, S), NEW v, S \cap (Terminal \ {v}) = {},
         status' = [status EXCEPT ![req[t].cur] = v],
         Plan(req'[t], [status EXCEPT ![req[t].cur] = v])
  PROVE  Effect(t)
  <1> DEFINE c == req[t].cur
  <1>1. c \in Changes /\ c \in Rows /\ status[c] \in S /\ c \in Members(req[t].job)
    BY AtHandBatch DEF AtHand, Rows
  <1>2. status \in [Rows -> Statuses] /\ \A b \in Batches : Agrees(b, status)
    BY DEF DataType, BatchInv
  <1>3. \A b \in Batches : Agrees(b, [status EXCEPT ![c] = v])
    BY <1>1, <1>2, AtHandBatch, ChildWrite
  <1>4. \A r \in Rows : status'[r] = IF r = c THEN v ELSE status[r]
    BY <1>2
  <1>5. EndedKept
    BY <1>1, <1>4 DEF EndedKept
  <1> QED
    BY <1>1, <1>3, <1>4, <1>5 DEF Effect

\* Start to Verify: the pipeline before it settles the change.
LEMMA PipelineEffect ==
  ASSUME SessionType, DataType, BatchInv, NEW t \in Threads,
         \/ Start(t) \/ Backup(t) \/ Check(t) \/ Bump(t) \/ Push(t)
         \/ PromptShown(t) \/ Verify(t)
  PROVE  Effect(t)
  <1> DEFINE q == req[t]
             n == req'[t]
  <1>1. /\ q \in Requests /\ Plan(q, status)
        /\ q.pc \in {"start", "backup", "check", "bump", "push", "asked", "verify"}
    BY DEF SessionType, BatchInv, Start, Backup, Check, Bump, Push, PromptShown, Verify
  <1>2. AtHand(q, status, {"running"}) /\ ~q.raised
    BY <1>1 DEF Plan, Owning, Requests
  <1>3. UNCHANGED status
    BY DEF database, Start, Backup, Check, Bump, Push, PromptShown, Verify
  <1>4. /\ SameJob(n, q) /\ n.pc \in Owning \ {"release"}
        /\ n.raised => n.pc = "fail"
    <2>1. ASSUME NEW pc \in {"backup", "push", "asked", "verify", "finish"}, Goto(t, pc)
          PROVE  SameJob(n, q) /\ n.pc \in Owning \ {"release"} /\ ~n.raised
      BY <1>2, <2>1, SameByGoto DEF Owning
    <2>2. ASSUME NEW x, Fail(t, x)
          PROVE  SameJob(n, q) /\ n.pc \in Owning \ {"release"} /\ n.pc = "fail"
      BY <2>2, SameByFail DEF Owning
    <2>3. ASSUME NEW x, \/ Session(t, [q EXCEPT !.pc = "check", !.cfg = x])
                        \/ Session(t, [q EXCEPT !.pc = "bump", !.rev = x])
          PROVE  SameJob(n, q) /\ n.pc \in Owning \ {"release"} /\ ~n.raised
      <3>1. \/ n = [q EXCEPT !.pc = "check", !.cfg = x]
            \/ n = [q EXCEPT !.pc = "bump", !.rev = x]
        BY <2>3, SessionFields
      <3> QED
        BY <1>1, <1>2, <3>1 DEF Requests, SameJob, Owning
    <2>4. CASE Start(t)
      BY <2>1, <2>2, <2>4 DEF Start
    <2>5. CASE Backup(t) \/ Check(t)
      BY <2>2, <2>3, <2>5 DEF Backup, Check
    <2>6. CASE Bump(t) \/ Push(t) \/ PromptShown(t)
      BY <2>1, <2>2, <2>6 DEF Bump, Push, PromptShown
    <2>7. CASE Verify(t)
      BY <2>1, <2>2, <2>7 DEF Verify
    <2> QED
      BY <2>4, <2>5, <2>6, <2>7
  <1>5. AtHand(n, status, {"running"})
    BY <1>2, <1>4, AtHandGoesOn DEF SameJob
  <1> QED
    BY <1>3, <1>4, <1>5, PlanOwning, StaticEffect

\* The steps that settle the change, before and after its lease.
LEMMA SettleEffect ==
  ASSUME SessionType, DataType, BatchInv, NEW t \in Threads,
         Claim(t) \/ Finish(t) \/ FailChange(t) \/ Refail(t)
  PROVE  Effect(t)
  <1> DEFINE q == req[t]
             n == req'[t]
  <1>1. q \in Requests /\ Ready(q) /\ Plan(q, status) /\ status \in [Rows -> Statuses]
    BY DEF SessionType, BatchInv, DataType
  <1>2. ASSUME NEW S, AtHand(q, status, S), NEW v, SameJob(n, q)
        PROVE  AtHand(n, [status EXCEPT ![q.cur] = v], {v})
    BY <1>1, <1>2, AtHandWrite DEF SameJob
  <1>0. /\ {"approved"} \cap (Terminal \ {"running"}) = {}
        /\ {"running"} \cap (Terminal \ {"success"}) = {}
        /\ {"running"} \cap (Terminal \ {"failed"}) = {}
        /\ {"approved", "failed"} \cap (Terminal \ {"failed"}) = {}
    BY DEF Terminal, Carried
  <1>3. CASE Claim(t)
    <2>1. q.pc = "claim" /\ AtHand(q, status, {"approved"}) /\ ~q.raised /\ ~Local(q)
      BY <1>1, <1>3 DEF Claim, Plan, Owning, Requests, Local
    <2>2. n.pc = "start" /\ SameJob(n, q) /\ ~n.raised
      BY <1>3, <2>1, SameByGoto DEF Claim
    <2>3. status' = [status EXCEPT ![q.cur] = "running"]
      BY <1>3 DEF Claim
    <2>4. Plan(n, [status EXCEPT ![q.cur] = "running"])
      BY <1>2, <2>1, <2>2, PlanOwning DEF Owning
    <2> QED
      BY <1>0, <2>1, <2>3, <2>4, ChildEffect
  <1>4. CASE Finish(t)
    <2>1. q.pc = "finish" /\ AtHand(q, status, {"running"}) /\ ~q.raised /\ ~Local(q)
      BY <1>1, <1>4 DEF Finish, Plan, Owning, Requests, Local
    <2>2. n.pc = "release" /\ SameJob(n, q) /\ ~n.raised
      BY <1>4, <2>1, SameByGoto DEF Finish
    <2>3. status' = [status EXCEPT ![q.cur] = "success"]
      BY <1>4 DEF Finish
    <2>4. Plan(n, [status EXCEPT ![q.cur] = "success"])
      BY <1>2, <2>1, <2>2, PlanOwning
    <2> QED
      BY <1>0, <2>1, <2>3, <2>4, ChildEffect
  <1>5. CASE FailChange(t)
    <2>1. q.pc = "fail" /\ AtHand(q, status, {"running"}) /\ ~Local(q)
      BY <1>1, <1>5 DEF FailChange, Plan, Owning, Local
    <2>2. n.pc = "release" /\ SameJob(n, q)
      BY <1>5, SameByGoto DEF FailChange
    <2>3. status' = [status EXCEPT ![q.cur] = "failed"]
      BY <1>5 DEF FailChange
    <2>4. Plan(n, [status EXCEPT ![q.cur] = "failed"])
      BY <1>2, <2>1, <2>2, PlanOwning
    <2> QED
      BY <1>0, <2>1, <2>3, <2>4, ChildEffect
  <1>6. CASE Refail(t)
    <2>1. /\ q.pc = "refail" /\ AtHand(q, status, {"approved", "failed"})
          /\ q.job \in Batches /\ ~Local(q)
      BY <1>1, <1>6 DEF Refail, Plan, Owning, Ready, Local
    <2>2. n = [q EXCEPT !.pc = "child", !.raised = FALSE]
      BY <1>6, SessionFields DEF Refail
    <2>3. n.pc = "child" /\ SameJob(n, q) /\ ~n.raised
      BY <1>1, <2>2 DEF Requests, SameJob
    <2>4. status' = [status EXCEPT ![q.cur] = "failed"]
      BY <1>6 DEF Refail
    <2>5. AtHand(n, [status EXCEPT ![q.cur] = "failed"], {"failed"})
      BY <1>2, <2>1, <2>3
    <2>6. Plan(n, [status EXCEPT ![q.cur] = "failed"])
      BY <2>1, <2>3, <2>5, PlanAround DEF SameJob
    <2> QED
      BY <1>0, <2>1, <2>4, <2>6, ChildEffect
  <1> QED
    BY <1>3, <1>4, <1>5, <1>6

\* The steps around the pipeline of one change.
LEMMA AroundEffect ==
  ASSUME SessionType, DataType, BatchInv, NEW t \in Threads,
         SmartApprove(t) \/ ClaimConflict(t) \/ Release(t)
  PROVE  Effect(t)
  <1> DEFINE q == req[t]
             n == req'[t]
  <1>1. q \in Requests /\ Ready(q) /\ Plan(q, status) /\ status \in [Rows -> Statuses]
    BY DEF SessionType, BatchInv, DataType
  <1>2. ASSUME EndRequest(t), NEW st PROVE Plan(n, st)
    BY <1>2, IdlePlan
  <1>3. CASE SmartApprove(t)
    <2>1. /\ q.pc = "smart" /\ AtHand(q, status, {"pending_approval"})
          /\ q.job \in Changes /\ ~q.raised /\ ~Local(q)
      BY <1>1, <1>3 DEF SmartApprove, Plan, Owning, Requests, Local
    <2>2. status' = [status EXCEPT ![q.cur] = "approved"]
      BY <1>3 DEF SmartApprove
    <2>3. ASSUME Goto(t, "claim") PROVE Plan(n, [status EXCEPT ![q.cur] = "approved"])
      <3>1. n.pc = "claim" /\ SameJob(n, q) /\ ~n.raised
        BY <2>1, <2>3, SameByGoto
      <3>2. AtHand(n, [status EXCEPT ![q.cur] = "approved"], {"approved"})
        BY <1>1, <2>1, <3>1, AtHandWrite DEF SameJob
      <3> QED
        BY <3>1, <3>2, PlanAround
    <2>4. Plan(n, [status EXCEPT ![q.cur] = "approved"])
      BY <1>2, <1>3, <2>3 DEF SmartApprove
    <2>5. {"pending_approval"} \cap (Terminal \ {"approved"}) = {}
      BY DEF Terminal, Carried
    <2> QED
      BY <2>1, <2>2, <2>4, <2>5, ChildEffect
  <1>4. CASE ClaimConflict(t)
    <2>1. q.pc = "claim" /\ AtHand(q, status, {"approved"})
      BY <1>1, <1>4 DEF ClaimConflict, Plan
    <2>2. ASSUME Goto(t, "refail") PROVE Plan(n, status)
      <3>1. n.pc = "refail" /\ SameJob(n, q)
        BY <2>2, SameByGoto
      <3>2. AtHand(n, status, {"approved"})
        BY <2>1, <3>1, AtHandGoesOn DEF SameJob
      <3> QED
        BY <3>1, <3>2, PlanAround
    <2>3. Plan(n, status) /\ UNCHANGED status
      BY <1>2, <1>4, <2>2 DEF ClaimConflict, database
    <2> QED
      BY <2>3, StaticEffect
  <1>5. CASE Release(t)
    <2>1. /\ q.pc = "release"
          /\ AtHand(q, status, IF q.raised THEN {"failed"} ELSE {"success", "failed"})
      BY <1>1, <1>5 DEF Release, Plan
    <2>2. ASSUME IsBatch(t), Goto(t, IF q.raised THEN "refail" ELSE "child")
          PROVE  Plan(n, status)
      <3>1. /\ n.pc = (IF q.raised THEN "refail" ELSE "child") /\ SameJob(n, q)
            /\ n.raised = q.raised /\ n.job \in Batches
        BY <2>2, SameByGoto DEF SameJob, IsBatch
      <3>2. AtHand(n, status, IF q.raised THEN {"failed"} ELSE {"success", "failed"})
        BY <2>1, <3>1, AtHandGoesOn DEF SameJob
      <3>3. CASE q.raised
        BY <3>1, <3>2, <3>3, PlanAround
      <3>4. CASE ~q.raised
        BY <3>1, <3>2, <3>4, PlanAround
      <3> QED
        BY <3>3, <3>4
    <2>3. Plan(n, status) /\ UNCHANGED status
      BY <1>2, <1>5, <2>2 DEF Release
    <2> QED
      BY <2>3, StaticEffect
  <1> QED
    BY <1>3, <1>4, <1>5

\* The statuses a batch has collected are those of the children that are over.
LEMMA OutcomesSoFar ==
  ASSUME SessionType, BatchInv, NEW t \in Threads, req[t].pc = "child"
  PROVE  LET q == req[t] IN
         /\ q.job \in Batches /\ Progress(q, status)
         /\ Outcomes(t) = {status[c] : c \in Members(q.job) \ q.todo}
         /\ Outcomes(t) \subseteq {"success", "failed"}
  <1> DEFINE q == req[t]
             D == Members(q.job) \ q.todo
  <1>1. q.job \in Batches /\ Plan(q, status)
    BY DEF SessionType, BatchInv, Ready
  <1>2. Progress(q, status)
    BY <1>1 DEF Plan
  <1>3. q.outcomes = {status[c] : c \in D \ {q.cur}}
    BY <1>2 DEF Progress
  <1>4. CASE q.cur = None
    <2>1. q.todo = Members(q.job)
      BY <1>1, <1>4 DEF Plan
    <2>2. D = {}
      BY <2>1
    <2>3. Outcomes(t) = q.outcomes
      BY <1>4 DEF Outcomes
    <2> QED
      BY <1>1, <1>2, <1>3, <2>2, <2>3
  <1>5. CASE q.cur # None
    <2>1. AtHand(q, status, {"success", "failed"})
      BY <1>1, <1>5 DEF Plan
    <2>2. q.cur \in D /\ status[q.cur] \in {"success", "failed"}
      BY <1>2, <2>1 DEF AtHand, Progress
    <2>3. Outcomes(t) = q.outcomes \cup {status[q.cur]}
      BY <1>5 DEF Outcomes
    <2>4. {status[c] : c \in D \ {q.cur}} \cup {status[q.cur]} = {status[c] : c \in D}
      BY <2>2
    <2> QED
      BY <1>1, <1>2, <1>3, <2>2, <2>3, <2>4 DEF Progress
  <1> QED
    BY <1>4, <1>5

\* A batch is claimed, takes up its children one by one, and ends.
LEMMA BatchEffect ==
  ASSUME SessionType, DataType, BatchInv, NEW t \in Threads,
         ClaimBatch(t) \/ NextChild(t) \/ FinishBatch(t)
  PROVE  Effect(t)
  <1> DEFINE q == req[t]
             n == req'[t]
             b == q.job
  <1>1. /\ q \in Requests /\ Ready(q) /\ Plan(q, status)
        /\ status \in [Rows -> Statuses] /\ \A x \in Batches : Agrees(x, status)
    BY DEF SessionType, BatchInv, DataType
  <1>2. ASSUME NEW v, b \in Batches, status[b] \in {"approved", "running"},
               status' = [status EXCEPT ![b] = v], Agrees(b, status'), Plan(n, status'),
               ~Local(q)
        PROVE  Effect(t)
    <2>1. \A r \in Rows : status'[r] = IF r = b THEN v ELSE status[r]
      BY <1>1, <1>2
    <2>2. ASSUME NEW x \in Batches, x # b PROVE Agrees(x, status')
      <3>1. \A r \in {x} \cup Members(x) : r \in Rows /\ r # b
        BY <1>2, <2>2, MemberOf DEF Rows
      <3> QED
        BY <1>1, <2>1, <3>1, AgreesFrame
    <2> QED
      BY <1>2, <2>1, <2>2 DEF Effect, EndedKept, Terminal, Carried
  <1>3. CASE ClaimBatch(t)
    <2>1. q.pc = "claimBatch" /\ b \in Batches /\ ~Local(q)
      BY <1>1, <1>3 DEF ClaimBatch, Ready, Local
    <2>2. status[b] = "approved" /\ q.cur = None /\ q.outcomes = {} /\ ~q.raised
      BY <1>1, <2>1 DEF Plan, Owning, Requests
    <2>3. /\ status' = [status EXCEPT ![b] = "running"]
          /\ n = [q EXCEPT !.pc = "child", !.todo = Members(b)]
      BY <1>3, <2>2, SessionFields DEF ClaimBatch
    <2>4. /\ n.pc = "child" /\ n.job = b /\ n.cur = None /\ n.outcomes = {} /\ ~n.raised
          /\ n.todo = Members(b)
      BY <1>1, <2>2, <2>3 DEF Requests
    <2>5. status'[b] = "running" /\ \A c \in Members(b) : status'[c] = "approved"
      <3>1. \A c \in Members(b) : status[c] = "approved"
        BY <1>1, <2>1, <2>2 DEF Agrees
      <3>2. \A c \in Members(b) : c # b
        BY <2>1, MemberOf
      <3> QED
        BY <1>1, <2>1, <2>3, <3>1, <3>2 DEF Rows
    <2>6. Progress(n, status')
      BY <2>1, <2>4, <2>5, MemberOf DEF Progress
    <2>7. Plan(n, status')
      BY <2>4, <2>6 DEF Plan, Owning
    <2>8. Agrees(b, status')
      BY <2>5 DEF Agrees
    <2> QED
      BY <1>2, <2>1, <2>2, <2>3, <2>7, <2>8
  <1>4. CASE NextChild(t)
    <2>1. q.pc = "child"
      BY <1>4 DEF NextChild
    <2>2. /\ b \in Batches /\ Progress(q, status)
          /\ Outcomes(t) = {status[c] : c \in Members(b) \ q.todo}
          /\ Outcomes(t) \subseteq {"success", "failed"}
      BY <2>1, OutcomesSoFar
    <2>3. PICK c \in q.todo, pc \in {"claim", "refail"} :
             Session(t, [q EXCEPT !.pc = pc, !.cur = c, !.todo = @ \ {c},
                                  !.outcomes = Outcomes(t)])
      BY <1>4 DEF NextChild
    <2>4. n = [q EXCEPT !.pc = pc, !.cur = c, !.todo = @ \ {c}, !.outcomes = Outcomes(t)]
      BY <2>3, SessionFields
    <2>5. /\ n.pc = pc /\ n.cur = c /\ n.todo = q.todo \ {c} /\ n.outcomes = Outcomes(t)
          /\ n.job = b /\ n.raised = q.raised
      BY <1>1, <2>4 DEF Requests
    <2>6. ~q.raised
      BY <1>1, <2>1 DEF Plan
    <2>7. (Members(b) \ n.todo) \ {c} = Members(b) \ q.todo
      BY <2>2, <2>5 DEF Progress
    <2>8. Progress(n, status)
      BY <2>2, <2>5, <2>7 DEF Progress
    <2>9. AtHand(n, status, {"approved"})
      BY <2>2, <2>5, <2>8 DEF AtHand, Progress, Jobs
    <2>10. Plan(n, status)
      BY <2>5, <2>6, <2>9, PlanAround
    <2> QED
      BY <1>4, <2>10, StaticEffect DEF NextChild, database
  <1>5. CASE FinishBatch(t)
    <2>1. q.pc = "child" /\ q.todo = {} /\ ~Local(q)
      BY <1>5 DEF FinishBatch, Local
    <2>2. /\ b \in Batches /\ Progress(q, status)
          /\ Outcomes(t) = {status[c] : c \in Members(b)}
          /\ Outcomes(t) \subseteq {"success", "failed"}
      BY <2>1, OutcomesSoFar
    <2>3. status' = [status EXCEPT ![b] = aggregate_status(Outcomes(t))]
      BY <1>5 DEF FinishBatch
    <2>4. /\ status'[b] = aggregate_status(Outcomes(t))
          /\ \A c \in Members(b) : status'[c] = status[c]
      <3>1. \A c \in Members(b) : c # b
        BY <2>2, MemberOf
      <3> QED
        BY <1>1, <2>2, <2>3, <3>1 DEF Rows
    <2>5. Outcomes(t) = {status'[c] : c \in Members(b)}
      BY <2>2, <2>4
    <2>6. status'[b] \in {"success", "failed", "partial_success"}
      BY <2>4 DEF aggregate_status
    <2>7. Agrees(b, status')
      BY <2>2, <2>4, <2>5, <2>6 DEF Agrees
    <2>8. Plan(n, status')
      BY <1>5, IdlePlan DEF FinishBatch
    <2> QED
      BY <1>2, <2>1, <2>2, <2>3, <2>7, <2>8 DEF Progress
  <1> QED
    BY <1>3, <1>4, <1>5

\* An approval and a cancellation write the job and its members, all of them.
LEMMA DecideEffect ==
  ASSUME SessionType, DataType, BatchInv, NEW t \in Threads, ~req[t].chat,
         ApproveCommit(t) \/ CancelCommit(t)
  PROVE  Effect(t)
  <1> DEFINE q == req[t]
             n == req'[t]
             W == {q.job} \cup Members(q.job)
  <1>1. /\ Plan(q, status) /\ status \in [Rows -> Statuses]
        /\ \A x \in Batches : Agrees(x, status)
    BY DEF SessionType, BatchInv, DataType
  <1>2. /\ q.pc \in {"approve", "cancel"} /\ q.job \in Jobs /\ q.seen = Members(q.job)
        /\ ~Local(q) /\ status[q.job] \in {"pending_approval", "approved"}
    BY <1>1 DEF ApproveCommit, CancelCommit, Plan, Local
  <1>3. \A r \in W : status[r] = status[q.job] /\ r \in Rows
    <2>1. q.job \in Batches => Agrees(q.job, status)
      BY <1>1
    <2> QED
      BY <1>2, <2>1, MemberOf DEF Agrees, Rows
  <1>4. PICK v \in {"approved", "cancelled"} :
           status' = [x \in Rows |-> IF x \in W THEN v ELSE status[x]]
    <2>1. CASE ApproveCommit(t)
      BY <1>2, <2>1 DEF ApproveCommit
    <2>2. CASE CancelCommit(t)
      <3>1. {c \in Members(q.job) : status[c] \in {"pending_approval", "approved"}} = q.seen
        BY <1>2, <1>3
      <3> QED
        BY <1>2, <2>2, <3>1 DEF CancelCommit
    <2> QED
      BY <2>1, <2>2
  <1>5. Plan(n, status')
    BY IdlePlan DEF ApproveCommit, CancelCommit
  <1>6. ASSUME NEW b \in Batches PROVE Agrees(b, status')
    <2>1. b \in Rows /\ Members(b) \subseteq Rows
      BY MemberOf DEF Rows
    <2>2. CASE b = q.job
      <3>1. status'[b] = v /\ \A c \in Members(b) : status'[c] = v
        BY <1>4, <2>1, <2>2
      <3> QED
        BY <3>1 DEF Agrees
    <2>3. CASE b # q.job
      <3>1. \A r \in {b} \cup Members(b) : r \notin W
        BY <1>2, <2>3, MemberOf
      <3>2. \A r \in {b} \cup Members(b) : status'[r] = status[r]
        BY <1>4, <2>1, <3>1
      <3> QED
        BY <1>1, <3>2, AgreesFrame
    <2> QED
      BY <2>2, <2>3
  <1> QED
    BY <1>2, <1>3, <1>4, <1>5, <1>6 DEF Effect, EndedKept, Terminal, Carried

\* What a request finds when it arrives or captures a baseline.
LEMMA ArriveEffect ==
  ASSUME NoChat, SessionType, DataType, BatchInv, NEW t \in Threads,
         Arrive(t) \/ CaptureRead(t) \/ CaptureStore(t)
  PROVE  Effect(t)
  <1> DEFINE q == req[t]
             n == req'[t]
  <1>1. /\ q \in Requests /\ Plan(q, status) /\ ~q.chat
        /\ \A x \in Batches : Agrees(x, status)
    BY DEF SessionType, BatchInv, Serial
  <1>2. UNCHANGED status
    BY DEF database, Arrive, ApproveRead, CancelRead, ApplyRead, ApplyBatchRead,
           ChatSubmit, BaselineRead, CaptureRead, CaptureStore
  <1>3. ASSUME n.pc \in {"capture", "store"}, ~n.raised PROVE Plan(n, status)
    BY <1>3 DEF Plan, Owning
  <1>4. ASSUME NEW r \in Jobs, ApproveRead(t, r) \/ CancelRead(t, r)
        PROVE  Plan(n, status)
    <2> DEFINE Loads(pc, S) ==
                 /\ pc \in {"approve", "cancel"}
                 /\ Load(t, r, pc, FALSE, S) /\ status[r] \in S
                 /\ \/ pc = "approve" /\ S = {"pending_approval"}
                    \/ pc = "cancel" /\ S = {"pending_approval", "approved"}
    <2>0. \E pc, S : Loads(pc, S)
      <3>1. CASE ApproveRead(t, r)
        <4>1. Loads("approve", {"pending_approval"})
          BY <3>1 DEF ApproveRead
        <4> HIDE DEF Loads
        <4> QED
          BY <4>1
      <3>2. CASE CancelRead(t, r)
        <4>1. Loads("cancel", {"pending_approval", "approved"})
          BY <3>2 DEF CancelRead
        <4> HIDE DEF Loads
        <4> QED
          BY <4>1
      <3> QED
        BY <1>4, <3>1, <3>2
    <2>1. PICK pc, S : Loads(pc, S)
      BY <2>0
    <2>2. n = [IdleReq EXCEPT !.pc = pc, !.job = r, !.chat = FALSE,
                              !.seen = {c \in Members(r) : status[c] \in S}]
      BY <2>1, SessionFields DEF Load
    <2>3. /\ n.pc = pc /\ n.job = r /\ ~n.raised
          /\ n.seen = {c \in Members(r) : status[c] \in S}
      BY <2>2 DEF IdleReq
    <2>4. \A c \in Members(r) : status[c] = status[r]
      <3>1. r \in Batches => Agrees(r, status)
        BY <1>1
      <3> QED
        BY <2>1, <3>1, MemberOf DEF Agrees
    <2> QED
      BY <2>1, <2>3, <2>4 DEF Plan, Owning
  <1>5. ASSUME NEW c \in Changes, ApplyRead(t, c) PROVE Plan(n, status)
    <2>1. PICK pc \in {"claim", "smart"} :
             /\ Session(t, [IdleReq EXCEPT !.pc = pc, !.job = c, !.cur = c])
             /\ status[c] = IF pc = "claim" THEN "approved" ELSE "pending_approval"
      BY <1>5 DEF ApplyRead
    <2>2. n = [IdleReq EXCEPT !.pc = pc, !.job = c, !.cur = c]
      BY <2>1, SessionFields
    <2>3. n.pc = pc /\ n.job = c /\ n.cur = c /\ ~n.raised
      BY <2>2 DEF IdleReq
    <2>4. c \in Jobs /\ c \notin Batches /\ Members(c) = {c}
      BY <1>5, BatchAssumption DEF ApplyRead, Members
    <2>5. AtHand(n, status, {status[c]})
      BY <2>3, <2>4 DEF AtHand
    <2> QED
      BY <2>1, <2>3, <2>5, PlanAround
  <1>6. ASSUME NEW b \in Batches, ApplyBatchRead(t, b) PROVE Plan(n, status)
    <2>1. n = [IdleReq EXCEPT !.pc = "claimBatch", !.job = b, !.chat = FALSE,
                              !.seen = {c \in Members(b) : status[c] \in {}}]
      BY <1>6, SessionFields DEF ApplyBatchRead, Load
    <2>2. n.pc = "claimBatch" /\ n.job = b /\ n.cur = None /\ n.outcomes = {} /\ ~n.raised
      BY <2>1 DEF IdleReq
    <2> QED
      BY <1>6, <2>2 DEF ApplyBatchRead, Plan, Owning
  <1>7. ASSUME NEW b \in Batches, ChatSubmit(t, b) PROVE FALSE
    BY <1>7 DEF ChatSubmit, NoChat
  <1>8. ASSUME NEW d \in Devices, BaselineRead(t, d) PROVE Plan(n, status)
    <2>1. n = [IdleReq EXCEPT !.pc = "capture", !.targets = {d}]
      BY <1>8, SessionFields DEF BaselineRead
    <2> QED
      BY <1>3, <2>1 DEF IdleReq
  <1>9. CASE CaptureRead(t) \/ CaptureStore(t)
    <2>0. q.pc \in {"capture", "store"}
      BY <1>9 DEF CaptureRead, CaptureStore
    <2>1. ~q.raised
      <3>1. q.raised \in BOOLEAN
        BY <1>1 DEF Requests
      <3>2. q.raised => q.pc \in {"fail", "release", "refail"}
        BY <1>1 DEF Plan
      <3> QED
        BY <2>0, <3>1, <3>2
    <2>2. ASSUME NEW x, NEW d, Session(t, [q EXCEPT !.pc = "store", !.cfg = x, !.dev = d])
          PROVE  Plan(n, status)
      <3>1. n = [q EXCEPT !.pc = "store", !.cfg = x, !.dev = d]
        BY <2>2, SessionFields
      <3> QED
        BY <1>1, <1>3, <2>1, <3>1 DEF Requests
    <2>3. ASSUME NEW x, Session(t, [q EXCEPT !.pc = "capture", !.targets = x])
          PROVE  Plan(n, status)
      <3>1. n = [q EXCEPT !.pc = "capture", !.targets = x]
        BY <2>3, SessionFields
      <3> QED
        BY <1>1, <1>3, <2>1, <3>1 DEF Requests
    <2>4. ASSUME Session(t, IdleReq) PROVE Plan(n, status)
      BY <2>4, IdlePlan
    <2>5. CaptureRead(t) => Plan(n, status)
      BY <2>2, <2>4 DEF CaptureRead
    <2>6. CaptureStore(t) => Plan(n, status)
      BY <1>1, <2>3, <2>4 DEF CaptureStore
    <2> QED
      BY <1>2, <1>9, <2>5, <2>6, StaticEffect
  <1> QED
    BY <1>2, <1>4, <1>5, <1>6, <1>7, <1>8, <1>9, StaticEffect DEF Arrive

\* Every step of a request follows its plan, and writes only rows of its job.
LEMMA StepEffect ==
  ASSUME NoChat, SessionType, DataType, BatchInv, NEW t \in Threads,
         Step(t) \/ Arrive(t)
  PROVE  Effect(t)
  <1>1. ~req[t].chat /\ req[t].pc \notin {"create", "chatApprove", "chatApply"}
    BY DEF BatchInv, Serial
  <1>2. ~ChatCreate(t) /\ ~ChatApprove(t) /\ ~ChatApply(t)
    BY <1>1 DEF ChatCreate, ChatApprove, ChatApply
  <1> QED
    BY <1>1, <1>2, PipelineEffect, SettleEffect, AroundEffect, BatchEffect,
       DecideEffect, ArriveEffect DEF Step

-----------------------------------------------------------------------------
(* The invariant is inductive.                                             *)

\* A request leaves the plans of the others and the orphaned changes alone.
LEMMA BatchStep ==
  ASSUME NoChat, SessionType, DataType, BatchInv, NEW t \in Threads,
         Step(t) \/ Arrive(t)
  PROVE  BatchInv' /\ EndedKept
  <1>1. Effect(t) /\ LockMove(t)
    BY StepEffect, LockMoves DEF BatchInv
  <1>2. \A u \in Threads \ {t} : req'[u] = req[u]
    BY OthersKept
  <1>3. UNCHANGED releasing
    BY Resources
  <1>4. Serial'
    BY <1>1, SerialStep DEF BatchInv
  <1>5. ASSUME NEW u \in Threads, u # t PROVE Plan(req'[u], status')
    <2>1. Plan(req[u], status) /\ Ready(req[u]) /\ req'[u] = req[u]
      BY <1>2, <1>5 DEF BatchInv, SessionType
    <2>2. ~Local(req[u]) => Local(req[t])
      BY <1>5 DEF BatchInv, Serial
    <2>3. ~Local(req[u]) => \A r \in {req[u].job} \cup Members(req[u].job) :
                                r \in Rows
      <3>1. ~Local(req[u]) => req[u].job \in Rows
        BY <2>1 DEF Ready, Local
      <3> QED
        BY <3>1, MembersType DEF Rows
    <2>4. ~Local(req[u]) => \A r \in {req[u].job} \cup Members(req[u].job) :
                                status'[r] = status[r]
      BY <1>1, <2>2, <2>3 DEF Effect
    <2> QED
      BY <2>1, <2>4, PlanFrame
  <1>6. Orphaned'
    <2> SUFFICES ASSUME NEW a \in Admins, releasing[a] # None, releasing[a].fail
                 PROVE  /\ status'[releasing[a].chg] \in {"running", "failed"}
                        /\ ~Working(releasing[a].chg)'
      BY <1>3 DEF Orphaned
    <2> DEFINE c == releasing[a].chg
    <2>1. /\ c \in Changes /\ c \in Rows /\ c \notin Batches
          /\ status[c] \in {"running", "failed"} /\ ~Working(c)
      BY BatchAssumption DEF DataType, BatchInv, Orphaned, Rows
    <2>2. Plan(req[t], status) /\ Ready(req[t])
      BY DEF BatchInv, SessionType
    <2>3. status'[c] = status[c]
      <3>1. CASE status[c] = "failed"
        BY <1>1, <2>1, <3>1 DEF Effect, EndedKept, Terminal, Carried
      <3>2. CASE status[c] = "running"
        <4>1. SUFFICES ASSUME status'[c] # status[c] PROVE FALSE
          OBVIOUS
        <4>2. ~Local(req[t]) /\ c \in {req[t].job} \cup Members(req[t].job)
          BY <1>1, <2>1, <4>1 DEF Effect
        <4>3. Underway(req[t], status)
          BY <2>2, <4>2, PlanStatuses DEF BatchInv, Serial
        <4>4. c = req[t].cur /\ req[t].pc \in Owning
          BY <2>1, <3>2, <4>2, <4>3 DEF Underway
        <4> QED
          BY <2>1, <4>4 DEF Working
      <3> QED
        BY <2>1, <3>1, <3>2
    <2>4. ~(req'[t].pc \in Owning /\ req'[t].cur = c)
      <3>1. SUFFICES ASSUME req'[t].pc \in Owning, req'[t].cur = c PROVE FALSE
        OBVIOUS
      <3>2. req[t].cur = c /\ req[t].pc \in Owning \cup {"claim"}
        BY <3>1, RouteOf DEF Route
      <3>3. req[t].pc = "claim" /\ AtHand(req[t], status, {"approved"})
        BY <2>1, <2>2, <3>2 DEF Working, Plan
      <3> QED
        BY <2>1, <3>2, <3>3 DEF AtHand
    <2> QED
      BY <1>2, <1>3, <2>1, <2>3, <2>4 DEF Working
  <1> QED
    BY <1>1, <1>4, <1>5, <1>6 DEF BatchInv, Effect

\* So do previews, the history of drafts, Admins, restarts and manual edits.
LEMMA BatchOther ==
  ASSUME SessionType, DataType, BatchInv,
         \/ \E r \in Jobs : Preview(r)
         \/ \E moved \in SUBSET Jobs : MoveDrafts(moved)
         \/ \E a \in Admins : AdminStep(a)
         \/ Crash
         \/ \E d \in Devices : Drift(d)
  PROVE  BatchInv' /\ EndedMoves
  <1> USE DEF frozen, database, bounds, outside
  <1>1. status \in [Rows -> Statuses] /\ \A b \in Batches : Agrees(b, status)
    BY DEF DataType, BatchInv
  <1>2. \A t \in Threads : ~Local(req[t]) => Underway(req[t], status)
    BY PlanStatuses DEF BatchInv, Serial, SessionType
  <1>3. \A t \in Threads : ~Local(req[t]) =>
            {req[t].job} \cup Members(req[t].job) \subseteq Rows
    <2>1. \A t \in Threads : ~Local(req[t]) => req[t].job \in Rows
      BY DEF SessionType, Ready, Local
    <2> QED
      BY <2>1, MembersType DEF Rows
  <1>4. ASSUME NEW X \in SUBSET Rows, UNCHANGED <<req, lock>>,
               \A r \in Rows \ X : status'[r] = status[r],
               \A t \in Threads : ~Local(req[t]) =>
                   X \cap ({req[t].job} \cup Members(req[t].job)) = {}
        PROVE  Serial' /\ \A t \in Threads : Plan(req'[t], status')
    <2>1. Serial'
      BY <1>4 DEF BatchInv, Serial
    <2>2. ASSUME NEW t \in Threads PROVE Plan(req[t], status')
      <3>1. Plan(req[t], status) /\ Ready(req[t])
        BY DEF BatchInv, SessionType
      <3>2. ~Local(req[t]) => \A r \in {req[t].job} \cup Members(req[t].job) :
                                  status'[r] = status[r]
        BY <1>3, <1>4
      <3> QED
        BY <3>1, <3>2, PlanFrame
    <2> QED
      BY <1>4, <2>1, <2>2
  <1>5. ASSUME NEW r \in Jobs, Preview(r) PROVE BatchInv' /\ EndedMoves
    <2> DEFINE X == {r} \cup Members(r)
    <2>1. /\ UNCHANGED <<req, lock, releasing>> /\ \A x \in X : status[x] = "absent"
          /\ status' = [x \in Rows |-> IF x \in X THEN "pending_approval" ELSE status[x]]
      BY <1>5 DEF Preview, New, Create
    <2>2. X \subseteq Rows
      BY MemberOf DEF Rows
    <2>3. \A x \in Rows : status'[x] = IF x \in X THEN "pending_approval" ELSE status[x]
      BY <2>1
    <2> HIDE DEF X
    <2>4. \A t \in Threads : ~Local(req[t]) =>
              X \cap ({req[t].job} \cup Members(req[t].job)) = {}
      BY <1>2, <2>1 DEF Underway
    <2>5. Serial' /\ \A t \in Threads : Plan(req'[t], status')
      BY <1>4, <2>1, <2>2, <2>3, <2>4
    <2>6. ASSUME NEW b \in Batches PROVE Agrees(b, status')
      <3>1. b \in Rows /\ Members(b) \subseteq Rows
        BY MemberOf DEF Rows
      <3>2. CASE b = r
        <4>1. status'[b] = "pending_approval"
              /\ \A c \in Members(b) : status'[c] = "pending_approval"
          BY <2>3, <3>1, <3>2 DEF X
        <4> QED
          BY <4>1 DEF Agrees
      <3>3. CASE b # r
        <4>1. \A x \in {b} \cup Members(b) : x \notin X
          BY <3>3, MemberOf DEF X
        <4>2. \A x \in {b} \cup Members(b) : status'[x] = status[x]
          BY <2>3, <3>1, <4>1
        <4> QED
          BY <1>1, <4>2, AgreesFrame
      <3> QED
        BY <3>2, <3>3
    <2>7. EndedMoves
      BY <2>1, <2>3 DEF EndedMoves, Carried
    <2>8. Orphaned'
      <3>1. \A a \in Admins : releasing[a] # None => releasing[a].chg \in Rows
        BY DEF DataType, Rows
      <3> QED
        BY <2>1, <2>3, <3>1 DEF BatchInv, Orphaned, Working
    <2> QED
      BY <2>5, <2>6, <2>7, <2>8 DEF BatchInv
  <1>6. CASE Crash
    <2>1. /\ \A t \in Threads : req'[t] = IdleReq
          /\ \A a \in Admins : releasing'[a] = None
          /\ status' = status
      BY <1>6 DEF Crash
    <2>2. IdleReq.pc = "idle" /\ ~IdleReq.raised /\ ~IdleReq.chat
      BY DEF IdleReq
    <2>3. Plan(IdleReq, status') /\ Local(IdleReq)
      BY <2>2 DEF Plan, Local, Owning
    <2>4. Serial' /\ Orphaned'
      BY <2>1, <2>2, <2>3 DEF Serial, Orphaned
    <2>5. \A b \in Batches : Agrees(b, status')
      BY <1>1, <2>1
    <2> QED
      BY <2>1, <2>3, <2>4, <2>5 DEF BatchInv, EndedMoves
  <1>7. ASSUME UNCHANGED <<req, lock, status>>, Orphaned' PROVE BatchInv' /\ EndedMoves
    <2>1. status' = status /\ req' = req /\ lock' = lock
      BY <1>7
    <2> QED
      BY <1>7, <2>1 DEF BatchInv, EndedMoves, Serial
  <1>8. ASSUME NEW a \in Admins, NEW d \in Devices, AdminReleaseRead(a, d)
        PROVE  BatchInv' /\ EndedMoves
    <2>1. /\ UNCHANGED <<req, lock, status>>
          /\ ~Working(lease[d])
          /\ \A x \in Admins \ {a} : releasing'[x] = releasing[x]
          /\ releasing'[a].chg = lease[d]
          /\ releasing'[a].fail = (status[lease[d]] = "running")
      BY <1>8 DEF AdminReleaseRead, DataType
    <2>2. Orphaned'
      BY <2>1 DEF BatchInv, Orphaned, Working
    <2> QED
      BY <1>7, <2>1, <2>2
  <1>9. ASSUME NEW a \in Admins, AdminReleaseCommit(a) PROVE BatchInv' /\ EndedMoves
    <2> DEFINE c == releasing[a].chg
    <2>1. /\ UNCHANGED <<req, lock>> /\ releasing[a] # None
          /\ status' = StatusAfterRelease(a)
          /\ releasing' = [releasing EXCEPT ![a] = None]
      BY <1>9 DEF AdminReleaseCommit
    <2>2. c \in Changes /\ c \in Rows /\ c \notin Batches
      BY <2>1, BatchAssumption DEF DataType, Rows
    <2>3. \A x \in Admins : releasing'[x] = IF x = a THEN None ELSE releasing[x]
      BY <2>1 DEF DataType
    <2>4. CASE releasing[a].fail /\ status[c] = "running"
      <3>1. status' = [status EXCEPT ![c] = "failed"] /\ ~Working(c)
        BY <2>1, <2>4 DEF StatusAfterRelease, BatchInv, Orphaned
      <3>2. \A r \in Rows : status'[r] = IF r = c THEN "failed" ELSE status[r]
        BY <1>1, <3>1
      <3>3. \A t \in Threads : ~Local(req[t]) =>
                {c} \cap ({req[t].job} \cup Members(req[t].job)) = {}
        BY <1>2, <2>2, <2>4, <3>1 DEF Underway, Working
      <3>4. Serial' /\ \A t \in Threads : Plan(req'[t], status')
        BY <1>4, <2>1, <2>2, <3>2, <3>3
      <3>5. BatchOf[c] \in Batches => status[BatchOf[c]] = "running"
        <4>1. SUFFICES ASSUME BatchOf[c] \in Batches PROVE status[BatchOf[c]] = "running"
          OBVIOUS
        <4>2. c \in Members(BatchOf[c]) /\ Agrees(BatchOf[c], status)
              /\ status[BatchOf[c]] \in Statuses
          BY <1>1, <2>2, <4>1 DEF Members, Rows
        <4> QED
          BY <2>4, <4>2 DEF Agrees, Statuses, ChangeStatuses
      <3>6. \A b \in Batches : Agrees(b, status')
        BY <1>1, <2>2, <3>1, <3>5, ChildWrite
      <3>7. Orphaned'
        <4>1. \A x \in Admins : releasing[x] # None => releasing[x].chg \in Rows
          BY DEF DataType, Rows
        <4> QED
          BY <2>1, <2>3, <3>2, <4>1 DEF BatchInv, Orphaned, Working
      <3> QED
        BY <2>4, <3>2, <3>4, <3>6, <3>7 DEF BatchInv, EndedMoves, Carried
    <2>5. CASE ~(releasing[a].fail /\ status[c] = "running")
      <3>1. status' = status
        BY <1>1, <2>1, <2>2, <2>5 DEF StatusAfterRelease, BatchInv, Orphaned
      <3>2. Orphaned'
        BY <2>1, <2>3, <3>1 DEF BatchInv, Orphaned, Working
      <3> QED
        BY <1>7, <2>1, <3>1, <3>2
    <2> QED
      BY <2>4, <2>5
  <1>10. ASSUME NEW d \in Devices, Drift(d) PROVE BatchInv' /\ EndedMoves
    <2>1. UNCHANGED <<req, lock, status, releasing>>
      BY <1>10 DEF Drift
    <2>2. Orphaned'
      BY <2>1 DEF BatchInv, Orphaned, Working
    <2> QED
      BY <1>7, <2>1, <2>2
  <1>11. ASSUME NEW moved \in SUBSET Jobs, MoveDrafts(moved)
         PROVE  BatchInv' /\ EndedMoves
    <2> DEFINE Hit(x) == \E r \in moved : x \in {r} \cup Members(r)
               Flip(x) == IF status[x] = "cancelled" THEN "pending_approval"
                          ELSE "cancelled"
    <2>1. /\ UNCHANGED <<req, lock, releasing>> /\ lock = None
          /\ status' = [x \in Rows |-> IF ~Hit(x) THEN status[x] ELSE Flip(x)]
          /\ \A r \in moved : \A x \in {r} \cup Members(r) :
                Draft(x) /\ status[x] = status[r]
      BY <1>11 DEF MoveDrafts
    <2>2. \A x \in Rows : \/ status'[x] = status[x]
                          \/ /\ Draft(x) /\ status[x] # status'[x]
                             /\ status'[x] \in {"pending_approval", "cancelled"}
      BY <1>11, MovedRows
    <2>3. \A t \in Threads : Local(req[t])
      BY <2>1, BatchAssumption DEF BatchInv, Serial
    <2>4. Serial' /\ \A t \in Threads : Plan(req'[t], status')
      BY <1>4, <2>1, <2>3, Rows \in SUBSET Rows
    <2>5. ASSUME NEW b \in Batches PROVE Agrees(b, status')
      <3>1. b \in Rows /\ b \in Jobs /\ Members(b) \subseteq Rows
        BY MemberOf DEF Rows, Jobs
      <3>2. CASE b \in moved
        <4>1. \A x \in {b} \cup Members(b) : Hit(x) /\ status[x] = status[b] /\ x \in Rows
          BY <2>1, <3>1, <3>2
        <4>2. status[b] \in {"pending_approval", "cancelled"}
          BY <2>1, <3>2 DEF Draft
        <4>3. \A x \in {b} \cup Members(b) : status'[x] = Flip(b)
          BY <2>1, <4>1
        <4> QED
          BY <4>2, <4>3 DEF Agrees
      <3>3. CASE b \notin moved
        <4>1. \A x \in {b} \cup Members(b) : ~Hit(x)
          BY <3>1, <3>3, MemberOf
        <4>2. \A x \in {b} \cup Members(b) : status'[x] = status[x]
          BY <2>1, <3>1, <4>1
        <4> QED
          BY <1>1, <4>2, AgreesFrame
      <3> QED
        BY <3>2, <3>3
    <2>6. EndedMoves
      BY <2>1, <2>2 DEF EndedMoves, Carried, Draft
    <2>7. Orphaned'
      <3>1. \A a \in Admins : releasing[a] # None => releasing[a].chg \in Rows
        BY DEF DataType, Rows
      <3> QED
        BY <2>1, <2>2, <3>1 DEF BatchInv, Orphaned, Working, Draft
    <2> QED
      BY <2>4, <2>5, <2>6, <2>7 DEF BatchInv
  <1> QED
    BY <1>5, <1>6, <1>8, <1>9, <1>10, <1>11 DEF AdminStep

\* The invariant holds of the empty database.
LEMMA BatchInit == Init => BatchInv
  <1> SUFFICES ASSUME Init PROVE BatchInv
    OBVIOUS
  <1>1. /\ \A t \in Threads : req[t] = IdleReq
        /\ \A a \in Admins : releasing[a] = None
        /\ \A r \in Rows : status[r] = "absent"
    BY DEF Init
  <1>2. IdleReq.pc = "idle" /\ ~IdleReq.raised /\ ~IdleReq.chat
    BY DEF IdleReq
  <1>3. Plan(IdleReq, status) /\ Local(IdleReq)
    BY <1>2 DEF Plan, Local, Owning
  <1>4. ASSUME NEW b \in Batches PROVE Agrees(b, status)
    <2>1. status[b] = "absent" /\ \A c \in Members(b) : status[c] = "absent"
      BY <1>1, MemberOf DEF Rows
    <2> QED
      BY <2>1 DEF Agrees
  <1> QED
    BY <1>1, <1>2, <1>3, <1>4 DEF BatchInv, Serial, Orphaned

\* Every step keeps it; only the history of drafts writes a row that ended.
LEMMA BatchNext ==
  ASSUME NoChat, TypeOK, BatchInv, [Next]_vars
  PROVE  BatchInv' /\ EndedMoves
  <1>1. SessionType /\ DataType
    BY TypeParts
  <1>2. CASE UNCHANGED vars
    <2>1. req' = req /\ lock' = lock /\ status' = status /\ releasing' = releasing
      BY <1>2 DEF vars
    <2> QED
      BY <2>1 DEF BatchInv, Serial, Orphaned, Working, EndedMoves
  <1>3. EndedKept => EndedMoves
    BY DEF EndedKept, EndedMoves, Terminal
  <1> QED
    BY <1>1, <1>2, <1>3, BatchStep, BatchOther DEF Next

\* What it says of a batch that ended.
LEMMA BatchTells == (\A b \in Batches : Agrees(b, status)) => BatchOutcome
  <1> SUFFICES ASSUME NEW b \in Batches, Agrees(b, status)
               PROVE  LET outcomes == {status[c] : c \in Members(b)} IN
                      /\ status[b] = "success" => outcomes = {"success"}
                      /\ status[b] = "failed"  => outcomes = {"failed"}
                      /\ status[b] = "partial_success" => "success" \in outcomes
                      /\ status[b] = "cancelled" => outcomes = {"cancelled"}
    BY DEF BatchOutcome
  <1> DEFINE outcomes == {status[c] : c \in Members(b)}
  <1>1. PICK c \in Changes : c \in Members(b)
    BY BatchHasChildren DEF Members
  <1>2. outcomes # {}
    BY <1>1
  <1>3. CASE status[b] \in {"success", "failed", "partial_success"}
    <2>1. outcomes \subseteq {"success", "failed"} /\ status[b] = aggregate_status(outcomes)
      BY <1>3 DEF Agrees
    <2>2. outcomes \in {{"success"}, {"failed"}, {"success", "failed"}}
      BY <1>2, <2>1
    <2> HIDE DEF outcomes
    <2>3. /\ aggregate_status({"success"}) = "success"
          /\ aggregate_status({"failed"}) = "failed"
          /\ aggregate_status({"success", "failed"}) = "partial_success"
      BY DEF aggregate_status
    <2>6. /\ status[b] = "success" => outcomes = {"success"}
          /\ status[b] = "failed"  => outcomes = {"failed"}
          /\ status[b] = "partial_success" => "success" \in outcomes
          /\ status[b] # "cancelled"
      BY <1>3, <2>1, <2>2, <2>3
    <2> QED
      BY <2>6 DEF outcomes
  <1>4. CASE status[b] = "cancelled"
    BY <1>1, <1>4 DEF Agrees
  <1> QED
    BY <1>3, <1>4

\* A batch that ended has the status of its children, whatever failed, was
\* refused or released, for any batches and any number of threads and Admins
\* (changes/batch_service.py:251-259).
THEOREM BatchTellsOutcome == ASSUME NoChat PROVE Spec => []BatchOutcome
  <1>1. TypeOK /\ BatchInv /\ [Next]_vars => BatchInv'
    BY NoChat, BatchNext
  <1>2. BatchInv => BatchOutcome
    BY BatchTells DEF BatchInv
  <1> QED
    BY <1>1, <1>2, BatchInit, TypeCorrect, PTL DEF Spec

\* No request on its way, no restart and no Admin writes a row that has been
\* carried out (backend/README.md:614), as long as the request lock is taken;
\* a cancelled row comes back through the history of drafts alone, if nobody
\* approved it, and at a moment when no request goes by what it read.
THEOREM EndedStays == ASSUME NoChat PROVE Spec => TerminalStays
  <1>1. TypeOK /\ BatchInv /\ [Next]_vars => BatchInv'
    BY NoChat, BatchNext
  <1>2. TypeOK /\ BatchInv /\ [Next]_vars
        => [\A r \in Rows :
              /\ status[r] \in Carried => status'[r] = status[r]
              /\ status[r] = "cancelled" /\ status'[r] # "cancelled"
                 => status'[r] = "pending_approval" /\ r \notin signed /\ lock = None]_vars
    BY NoChat, BatchNext DEF EndedMoves
  <1> QED
    BY <1>1, <1>2, BatchInit, TypeCorrect, PTL DEF Spec, TerminalStays
=============================================================================
