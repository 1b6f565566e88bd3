------------------------- MODULE Deployment_proofs --------------------------
(***************************************************************************)
(* Proofs about Deployment for any sets of changes, batches, devices,      *)
(* threads and configurations and any bounds.                              *)
(***************************************************************************)
EXTENDS Deployment, TLAPS

-----------------------------------------------------------------------------
(* Types: what a session holds, and what the database holds.               *)

SessionType == req \in [Threads -> Requests] /\ \A t \in Threads : Ready(req[t])

DataType ==
    /\ status \in [Rows -> Statuses]
    /\ \A c \in Changes : status[c] \in ChangeStatuses
    /\ signed \subseteq Rows
    /\ baseRev \in [Changes -> Nat]
    /\ baseCfg \in [Changes -> Configs \cup {None}]
    /\ revision \in [Devices -> Nat]
    /\ newest \in [Devices -> Configs \cup {None}]
    /\ lease \in [Devices -> Changes \cup {None}]
    /\ config \in [Devices -> Configs]
    /\ lock \in Threads \cup {None}
    /\ releasing \in [Admins -> [dev: Devices, chg: Changes, fail: BOOLEAN]
                                \cup {None}]
    /\ pushes \in [Devices -> Seq([chg: Changes, rev: Nat])]
    /\ crashes \in Nat /\ drifts \in Nat /\ baselines \in Nat

\* The type invariant is its two halves.
LEMMA TypeParts == TypeOK <=> SessionType /\ DataType
  BY DEF TypeOK, SessionType, DataType

\* The members of a row are changes.
LEMMA MembersType == \A r \in Rows : Members(r) \subseteq Changes
  BY DEF Members, Rows

\* An idle session is well formed.
LEMMA IdleReady == Ready(IdleReq)
  BY DEF Ready, IdleReq, Requests, PCs, Owning, Rows

\* One session changes, and what it becomes is well formed.
LEMMA SessionUpdate ==
  ASSUME SessionType, NEW t \in Threads, NEW q, Ready(q), Session(t, q)
  PROVE  SessionType' /\ req'[t] = q
  BY DEF SessionType, Ready, Session

\* The pipeline keeps the job and the change it works on.
LEMMA ReadyPipeline ==
  ASSUME NEW q, Ready(q), q.pc \in Owning \cup {"claim"}, NEW pc \in Owning
  PROVE  Ready([q EXCEPT !.pc = pc])
  BY DEF Ready, Requests, PCs, Owning

\* A pipeline stays well formed when it goes to its failure branch.
LEMMA ReadyFail ==
  ASSUME NEW q, Ready(q), q.pc \in Owning, NEW x \in BOOLEAN
  PROVE  Ready([q EXCEPT !.pc = "fail", !.raised = x])
  BY DEF Ready, Requests, PCs, Owning

\* Ending a request leaves an idle session.
LEMMA EndType ==
  ASSUME SessionType, NEW t \in Threads, EndRequest(t)
  PROVE  SessionType'
  BY IdleReady, SessionUpdate DEF EndRequest

-----------------------------------------------------------------------------
(* SessionType is preserved, one action at a time.                         *)

\* Every step of a running request leaves its session well formed.
LEMMA SessionStep ==
  ASSUME SessionType, DataType, NEW t \in Threads, Step(t)
  PROVE  SessionType'
  <1> DEFINE q == req[t]
  <1>0. Ready(q)
    BY DEF SessionType
  <1>1. CASE ApproveCommit(t)
    <2>1. Ready([q EXCEPT !.pc = "chatApply"]) \/ ~q.chat
      BY <1>0, <1>1 DEF ApproveCommit, Ready, Requests, PCs, Owning
    <2> QED
      BY <1>1, <2>1, SessionUpdate, EndType DEF ApproveCommit, Goto
  <1>2. CASE CancelCommit(t)
    BY <1>2, EndType DEF CancelCommit
  <1>3. CASE SmartApprove(t)
    <2>1. Ready([q EXCEPT !.pc = "claim"])
      BY <1>0, <1>3 DEF SmartApprove, Ready, Requests, PCs, Owning
    <2> QED
      BY <1>3, <2>1, SessionUpdate, EndType DEF SmartApprove, Goto
  <1>4. CASE ClaimBatch(t)
    <2>1. q.pc = "claimBatch" /\ q.job \in Batches /\ q.job \in Rows
      BY <1>0, <1>4 DEF ClaimBatch, Ready, Rows
    <2>2. Ready([q EXCEPT !.pc = "child", !.todo = Members(q.job)])
      BY <1>0, <2>1, MembersType DEF Ready, Requests, PCs, Owning
    <2> QED
      BY <1>4, <2>2, SessionUpdate, EndType DEF ClaimBatch
  <1>5. CASE NextChild(t)
    <2>1. q.pc = "child" /\ q.job \in Batches /\ q.job \in Rows /\ q.todo \subseteq Changes
      BY <1>0, <1>5 DEF NextChild, Ready, Rows, Requests
    <2>2. Outcomes(t) \subseteq Statuses
      BY <1>0 DEF Outcomes, DataType, Ready, Requests, Rows
    <2>3. ASSUME NEW c \in q.todo, NEW pc \in {"claim", "refail"}
          PROVE  Ready([q EXCEPT !.pc = pc, !.cur = c, !.todo = @ \ {c},
                                 !.outcomes = Outcomes(t)])
      <3>1. c \in Changes /\ q.todo \ {c} \subseteq Changes
        BY <2>1
      <3> HIDE DEF q
      <3> QED
        BY <1>0, <2>1, <2>2, <3>1 DEF Ready, Requests, PCs, Owning
    <2> QED
      BY <1>5, <2>3, SessionUpdate DEF NextChild
  <1>6. CASE FinishBatch(t)
    BY <1>6, EndType DEF FinishBatch
  <1>7. CASE Claim(t)
    BY <1>0, <1>7, ReadyPipeline, SessionUpdate DEF Claim, Goto, Owning
  <1>8. CASE ClaimConflict(t)
    <2>1. Ready([q EXCEPT !.pc = "refail"]) \/ ~IsBatch(t)
      BY <1>0, <1>8 DEF ClaimConflict, IsBatch, Ready, Requests, PCs, Owning
    <2> QED
      BY <1>8, <2>1, SessionUpdate, EndType DEF ClaimConflict, Goto
  <1>9. CASE Start(t)
    BY <1>0, <1>9, ReadyPipeline, ReadyFail, SessionUpdate
    DEF Start, Goto, Fail, Owning
  <1>10. CASE Backup(t)
    <2>1. q.pc = "backup" /\ Dev(t) \in Devices
      BY <1>0, <1>10, BatchAssumption DEF Backup, Ready, Dev, Owning
    <2>2. Ready([q EXCEPT !.pc = "check", !.cfg = config[Dev(t)]])
      BY <1>0, <2>1 DEF DataType, Ready, Requests, PCs, Owning
    <2> QED
      BY <1>0, <1>10, <2>1, <2>2, ReadyFail, SessionUpdate DEF Backup, Fail, Owning
  <1>11. CASE Check(t)
    <2>1. q.pc = "check" /\ Dev(t) \in Devices
      BY <1>0, <1>11, BatchAssumption DEF Check, Ready, Dev, Owning
    <2>2. Ready([q EXCEPT !.pc = "bump", !.rev = revision[Dev(t)]])
      BY <1>0, <2>1 DEF DataType, Ready, Requests, PCs, Owning
    <2> QED
      BY <1>0, <1>11, <2>1, <2>2, ReadyFail, SessionUpdate DEF Check, Fail, Owning
  <1>12. CASE Bump(t)
    BY <1>0, <1>12, ReadyPipeline, SessionUpdate DEF Bump, Goto, Owning
  <1>13. CASE Push(t)
    BY <1>0, <1>13, ReadyPipeline, ReadyFail, SessionUpdate
    DEF Push, Goto, Fail, Owning
  <1>14. CASE Verify(t)
    BY <1>0, <1>14, ReadyPipeline, ReadyFail, SessionUpdate
    DEF Verify, Goto, Fail, Owning
  <1>15. CASE Finish(t)
    BY <1>0, <1>15, ReadyPipeline, SessionUpdate DEF Finish, Goto, Owning
  <1>16. CASE FailChange(t)
    BY <1>0, <1>16, ReadyPipeline, SessionUpdate DEF FailChange, Goto, Owning
  <1>17. CASE Release(t)
    <2>1. ASSUME IsBatch(t), NEW pc \in {"refail", "child"}
          PROVE  Ready([q EXCEPT !.pc = pc])
      BY <1>0, <1>17, <2>1 DEF Release, IsBatch, Ready, Requests, PCs, Owning
    <2> QED
      BY <1>17, <2>1, SessionUpdate, EndType DEF Release, Goto
  <1>18. CASE Refail(t)
    <2>1. Ready([q EXCEPT !.pc = "child", !.raised = FALSE])
      BY <1>0, <1>18 DEF Refail, Ready, Requests, PCs, Owning
    <2> QED
      BY <1>18, <2>1, SessionUpdate DEF Refail
  <1>19. CASE CaptureRead(t)
    <2>1. ASSUME NEW d \in q.targets
          PROVE  Ready([q EXCEPT !.pc = "store", !.cfg = config[d], !.dev = d])
      <3>1. q.pc = "capture" /\ d \in Devices /\ config[d] \in Configs
        BY <1>0, <1>19 DEF CaptureRead, DataType, Ready, Requests
      <3>2. q.chat => q.job \in Rows
        BY <1>0 DEF Ready, Rows
      <3> HIDE DEF q
      <3> QED
        BY <1>0, <3>1, <3>2 DEF Ready, Requests, PCs, Owning
    <2> QED
      BY <1>19, <2>1, IdleReady, SessionUpdate DEF CaptureRead
  <1>20. CASE CaptureStore(t)
    <2>1. ASSUME NEW left, left = q.targets \ {q.dev}
          PROVE  Ready([q EXCEPT !.pc = "capture", !.targets = left])
      BY <1>0, <1>20, <2>1 DEF CaptureStore, Ready, Requests, PCs, Owning
    <2>2. q.chat => Ready([IdleReq EXCEPT !.pc = "create", !.chat = TRUE,
                                          !.job = q.job])
      BY <1>0 DEF Ready, Requests, PCs, Owning, IdleReq, Rows
    <2> QED
      BY <1>20, <2>1, <2>2, IdleReady, SessionUpdate DEF CaptureStore
  <1>21. CASE ChatCreate(t)
    <2>1. Ready([q EXCEPT !.pc = "chatApprove"])
      BY <1>0, <1>21 DEF ChatCreate, Ready, Requests, PCs, Owning
    <2> QED
      BY <1>21, <2>1, SessionUpdate, EndType DEF ChatCreate, Goto
  <1>22. CASE ChatApprove(t)
    <2>1. q.job \in Batches /\ q.job \in Rows
      BY <1>0, <1>22 DEF ChatApprove, Ready, Rows
    <2>2. Ready([IdleReq EXCEPT
                   !.pc = "approve", !.job = q.job, !.chat = TRUE,
                   !.seen = {c \in Members(q.job) :
                               status[c] \in {"pending_approval"}}])
      BY <2>1, MembersType DEF Ready, Requests, PCs, Owning, IdleReq, Rows
    <2> QED
      BY <1>22, <2>2, SessionUpdate, EndType DEF ChatApprove, Load
  <1>23. CASE ChatApply(t)
    <2>1. Ready([q EXCEPT !.pc = "claimBatch"])
      BY <1>0, <1>23 DEF ChatApply, Ready, Requests, PCs, Owning
    <2> QED
      BY <1>23, <2>1, SessionUpdate, EndType DEF ChatApply, Goto
  <1>24. CASE PromptShown(t)
    BY <1>0, <1>24, ReadyPipeline, ReadyFail, SessionUpdate
    DEF PromptShown, Goto, Fail, Owning
  <1> QED
    BY <1>1, <1>2, <1>3, <1>4, <1>5, <1>6, <1>7, <1>8, <1>9, <1>10, <1>11,
       <1>12, <1>13, <1>14, <1>15, <1>16, <1>17, <1>18, <1>19, <1>20, <1>21,
       <1>22, <1>23, <1>24 DEF Step

\* So does the arrival of a request.
LEMMA SessionArrive ==
  ASSUME SessionType, DataType, NEW t \in Threads, Arrive(t)
  PROVE  SessionType'
  <1>1. ASSUME NEW r \in Jobs, NEW pc \in {"approve", "cancel", "claimBatch"},
               NEW S, r \in Batches \/ pc # "claimBatch", Load(t, r, pc, FALSE, S)
        PROVE  SessionType'
    <2>1. r \in Rows /\ Members(r) \subseteq Changes
      BY MembersType DEF Jobs, Rows
    <2>2. Ready([IdleReq EXCEPT !.pc = pc, !.job = r, !.chat = FALSE,
                                !.seen = {c \in Members(r) : status[c] \in S}])
      BY <1>1, <2>1 DEF Ready, Requests, PCs, Owning, IdleReq
    <2> QED
      BY <1>1, <2>2, SessionUpdate DEF Load
  <1>2. ASSUME NEW r \in Jobs, ApproveRead(t, r) \/ CancelRead(t, r)
        PROVE  SessionType'
    BY <1>1, <1>2 DEF ApproveRead, CancelRead
  <1>3. ASSUME NEW c \in Changes, ApplyRead(t, c)
        PROVE  SessionType'
    <2>1. ASSUME NEW pc \in {"claim", "smart"}
          PROVE  Ready([IdleReq EXCEPT !.pc = pc, !.job = c, !.cur = c])
      BY DEF Ready, Requests, PCs, Owning, IdleReq, Rows
    <2> QED
      BY <1>3, <2>1, SessionUpdate DEF ApplyRead
  <1>4. ASSUME NEW b \in Batches, ApplyBatchRead(t, b)
        PROVE  SessionType'
    BY <1>1, <1>4 DEF ApplyBatchRead, Jobs
  <1>5. ASSUME NEW b \in Batches, ChatSubmit(t, b)
        PROVE  SessionType'
    <2>1. {DeviceOf[c] : c \in Members(b)} \subseteq Devices
      BY MembersType, BatchAssumption DEF Rows
    <2>2. Ready([IdleReq EXCEPT !.pc = "capture", !.chat = TRUE, !.job = b,
                     !.targets = {DeviceOf[c] : c \in Members(b)}])
      BY <2>1 DEF Ready, Requests, PCs, Owning, IdleReq, Rows
    <2> QED
      BY <1>5, <2>2, SessionUpdate DEF ChatSubmit
  <1>6. ASSUME NEW d \in Devices, BaselineRead(t, d)
        PROVE  SessionType'
    <2>1. Ready([IdleReq EXCEPT !.pc = "capture", !.targets = {d}])
      BY DEF Ready, Requests, PCs, Owning, IdleReq
    <2> QED
      BY <1>6, <2>1, SessionUpdate DEF BaselineRead
  <1> QED
    BY <1>2, <1>3, <1>4, <1>5, <1>6 DEF Arrive

-----------------------------------------------------------------------------
(* DataType is preserved.                                                  *)

\* Ending a request leaves the lock with a thread or with nobody.
LEMMA EndLock ==
  ASSUME NEW t \in Threads, EndRequest(t), lock \in Threads \cup {None}
  PROVE  lock' \in Threads \cup {None}
  BY DEF EndRequest

\* Writing known statuses into a set of rows.
LEMMA StatusWrite ==
  ASSUME DataType, NEW S, NEW v \in ChangeStatuses,
         status' = [x \in Rows |-> IF x \in S THEN v ELSE status[x]]
  PROVE  /\ status' \in [Rows -> Statuses]
         /\ \A c \in Changes : status'[c] \in ChangeStatuses
  BY DEF DataType, Statuses, Rows

\* Writing one known status keeps the statuses known.
LEMMA StatusSet ==
  ASSUME DataType, NEW r \in Rows, NEW v \in Statuses,
         r \in Changes => v \in ChangeStatuses,
         status' = [status EXCEPT ![r] = v]
  PROVE  /\ status' \in [Rows -> Statuses]
         /\ \A c \in Changes : status'[c] \in ChangeStatuses
  BY DEF DataType, Statuses, Rows

\* The rows a preview inserts are well typed.
LEMMA CreateType ==
  ASSUME DataType, NEW r \in Rows, Create(r)
  PROVE  /\ status' \in [Rows -> Statuses]
         /\ \A c \in Changes : status'[c] \in ChangeStatuses
         /\ baseRev' \in [Changes -> Nat]
         /\ baseCfg' \in [Changes -> Configs \cup {None}]
  <1>1. "pending_approval" \in ChangeStatuses
    BY DEF ChangeStatuses
  <1>2. baseRev' \in [Changes -> Nat]
    BY BatchAssumption DEF DataType, Create
  <1>3. baseCfg' \in [Changes -> Configs \cup {None}]
    BY BatchAssumption DEF DataType, Create
  <1> QED
    BY <1>1, <1>2, <1>3, StatusWrite DEF Create

\* What Append does to a sequence.
LEMMA AppendType ==
  ASSUME NEW T, NEW s \in Seq(T), NEW e \in T
  PROVE  /\ Append(s, e) \in Seq(T)
         /\ DOMAIN Append(s, e) = DOMAIN s \cup {Len(s) + 1}
         /\ \A i \in DOMAIN s : Append(s, e)[i] = s[i] /\ i < Len(s) + 1
         /\ Append(s, e)[Len(s) + 1] = e
  OBVIOUS

\* Every step of a running request keeps the rows well typed.
LEMMA DataStep ==
  ASSUME SessionType, DataType, NEW t \in Threads, Step(t)
  PROVE  DataType'
  <1> DEFINE q == req[t]
  <1> USE DEF frozen, database, bounds, outside
  <1>0. Ready(q)
    BY DEF SessionType
  <1>a. {"approved", "running", "success", "failed", "cancelled"} \subseteq ChangeStatuses
    BY DEF ChangeStatuses
  <1>b. Dev(t) \in Devices \/ q.cur = None
    BY <1>0, BatchAssumption DEF Dev, Ready, Requests
  <1>c. q.pc \in Owning \cup {"smart", "claim", "refail"} =>
          q.cur \in Changes /\ q.cur \in Rows /\ Dev(t) \in Devices
    BY <1>0, BatchAssumption DEF Dev, Ready, Rows
  <1>1. CASE ApproveCommit(t)
    <2>1. signed' \subseteq Rows
      BY <1>0, <1>1 DEF ApproveCommit, DataType, Ready, Requests, Rows
    <2>2. /\ status' \in [Rows -> Statuses]
          /\ \A c \in Changes : status'[c] \in ChangeStatuses
      BY <1>1, <1>a, StatusWrite DEF ApproveCommit
    <2> QED
      BY <1>1, <2>1, <2>2, EndLock DEF ApproveCommit, DataType, Unlocked
  <1>2. CASE CancelCommit(t)
    <2>1. PICK rows : status' = [x \in Rows |-> IF x \in {q.job} \cup rows
                                                THEN "cancelled" ELSE status[x]]
      BY <1>2 DEF CancelCommit
    <2>2. /\ status' \in [Rows -> Statuses]
          /\ \A c \in Changes : status'[c] \in ChangeStatuses
      BY <2>1, <1>a, StatusWrite
    <2> QED
      BY <1>2, <2>2, EndLock DEF CancelCommit, DataType
  <1>3. CASE SmartApprove(t)
    <2>1. q.cur \in Rows
      BY <1>3, <1>c DEF SmartApprove
    <2> QED
      BY <1>3, <2>1, <1>a, StatusSet, EndLock, ChangeStatuses \subseteq Statuses
      DEF SmartApprove, DataType, Unlocked, Statuses
  <1>4. CASE ClaimBatch(t)
    <2>1. q.job \in Rows
      BY <1>0, <1>4 DEF ClaimBatch, Ready
    <2> QED
      BY <1>4, <2>1, <1>a, StatusSet, EndLock DEF ClaimBatch, DataType, Statuses
  <1>5. CASE NextChild(t)
    BY <1>5 DEF NextChild, DataType
  <1>6. CASE FinishBatch(t)
    <2>1. q.job \in Rows /\ q.job \notin Changes
      BY <1>0, <1>6, BatchAssumption DEF FinishBatch, Ready, Rows
    <2>2. aggregate_status(Outcomes(t)) \in Statuses
      BY DEF aggregate_status, Statuses, ChangeStatuses
    <2> QED
      BY <1>6, <2>1, <2>2, StatusSet, EndLock DEF FinishBatch, DataType
  <1>7. CASE Claim(t)
    <2>1. q.cur \in Changes /\ q.cur \in Rows /\ Dev(t) \in Devices
      BY <1>7, <1>c DEF Claim
    <2> QED
      BY <1>7, <2>1, <1>a, StatusSet DEF Claim, DataType, Statuses
  <1>8. CASE ClaimConflict(t)
    BY <1>8, EndLock DEF ClaimConflict, DataType
  <1>9. CASE Start(t)
    BY <1>9 DEF Start, DataType
  <1>10. CASE Backup(t)
    <2>1. Dev(t) \in Devices
      BY <1>10, <1>c DEF Backup, Owning
    <2> QED
      BY <1>10, <2>1 DEF Backup, DataType
  <1>11. CASE Check(t)
    BY <1>11 DEF Check, DataType
  <1>12. CASE Bump(t)
    <2>1. Dev(t) \in Devices /\ q.rev \in Nat
      BY <1>12, <1>c, <1>0 DEF Bump, Owning, Ready, Requests
    <2>2. revision' \in [Devices -> Nat]
      BY <1>12, <2>1 DEF Bump, DataType
    <2> QED
      BY <1>12, <2>2 DEF Bump, DataType
  <1>13. CASE Push(t)
    <2>1. Dev(t) \in Devices /\ q.cur \in Changes
      BY <1>13, <1>c DEF Push, Owning
    <2>2. [chg |-> q.cur, rev |-> baseRev[q.cur]] \in [chg: Changes, rev: Nat]
      BY <2>1 DEF DataType
    <2>3. Append(pushes[Dev(t)], [chg |-> q.cur, rev |-> baseRev[q.cur]])
            \in Seq([chg: Changes, rev: Nat])
      BY <2>1, <2>2, AppendType DEF DataType
    <2>4. pushes' \in [Devices -> Seq([chg: Changes, rev: Nat])]
      BY <1>13, <2>1, <2>3 DEF Push, DataType
    <2>5. config' \in [Devices -> Configs]
      BY <1>13, <2>1 DEF Push, DataType
    <2> QED
      BY <1>13, <2>4, <2>5 DEF Push, DataType
  <1>14. CASE Verify(t)
    <2>1. Dev(t) \in Devices
      BY <1>14, <1>c DEF Verify, Owning
    <2> QED
      BY <1>14, <2>1 DEF Verify, DataType
  <1>15. CASE Finish(t)
    <2>1. q.cur \in Rows
      BY <1>15, <1>c DEF Finish, Owning
    <2> QED
      BY <1>15, <2>1, <1>a, StatusSet DEF Finish, DataType, Statuses
  <1>16. CASE FailChange(t)
    <2>1. q.cur \in Rows
      BY <1>16, <1>c DEF FailChange, Owning
    <2> QED
      BY <1>16, <2>1, <1>a, StatusSet DEF FailChange, DataType, Statuses
  <1>17. CASE Release(t)
    <2>1. Dev(t) \in Devices
      BY <1>17, <1>c DEF Release, Owning
    <2> QED
      BY <1>17, <2>1, EndLock DEF Release, ReleasedLease, DataType
  <1>18. CASE Refail(t)
    <2>1. q.cur \in Rows
      BY <1>18, <1>c DEF Refail
    <2> QED
      BY <1>18, <2>1, <1>a, StatusSet DEF Refail, DataType, Statuses
  <1>19. CASE CaptureRead(t)
    BY <1>19 DEF CaptureRead, DataType
  <1>20. CASE CaptureStore(t)
    <2>1. q.dev \in Devices /\ q.cfg \in Configs
      BY <1>0, <1>20 DEF CaptureStore, Ready
    <2> QED
      BY <1>20, <2>1 DEF CaptureStore, DataType
  <1>21. CASE ChatCreate(t)
    <2>1. q.job \in Rows
      BY <1>0, <1>21 DEF ChatCreate, Ready
    <2> QED
      BY <1>21, <2>1, CreateType, EndLock DEF ChatCreate, DataType
  <1>22. CASE ChatApprove(t)
    BY <1>22, EndLock DEF ChatApprove, DataType
  <1>23. CASE ChatApply(t)
    BY <1>23, EndLock DEF ChatApply, DataType
  <1>24. CASE PromptShown(t)
    BY <1>24 DEF PromptShown, DataType
  <1> QED
    BY <1>1, <1>2, <1>3, <1>4, <1>5, <1>6, <1>7, <1>8, <1>9, <1>10, <1>11,
       <1>12, <1>13, <1>14, <1>15, <1>16, <1>17, <1>18, <1>19, <1>20, <1>21,
       <1>22, <1>23, <1>24 DEF Step

\* The arrival of a request keeps the rows well typed.
LEMMA DataArrive ==
  ASSUME SessionType, DataType, NEW t \in Threads, Arrive(t)
  PROVE  DataType'
  <1> USE DEF frozen, database, bounds, outside
  <1>1. /\ UNCHANGED <<database, config, releasing, pushes, crashes, drifts>>
        /\ Locked(t) \/ UNCHANGED lock
        /\ UNCHANGED baselines \/ baselines' = baselines + 1
    BY DEF Arrive, ApproveRead, CancelRead, ApplyRead, ApplyBatchRead, ChatSubmit,
           BaselineRead, Unlocked
  <1>2. baselines' \in Nat
    BY <1>1 DEF DataType
  <1> QED
    BY <1>1, <1>2 DEF DataType, Locked

\* What the history of pending changes does to the rows: drafts nobody signed
\* are cancelled or reopened, the others stay.
LEMMA MovedRows ==
  ASSUME DataType, NEW moved \in SUBSET Jobs, MoveDrafts(moved)
  PROVE  /\ status' \in [Rows -> Statuses]
         /\ \A x \in Rows : \/ status'[x] = status[x]
                             \/ /\ Draft(x) /\ status[x] # status'[x]
                                /\ status'[x] \in {"pending_approval", "cancelled"}
  <1> DEFINE Hit(x) == \E r \in moved : x \in {r} \cup Members(r)
             Flip(x) == IF status[x] = "cancelled" THEN "pending_approval" ELSE "cancelled"
  <1>1. status' = [x \in Rows |-> IF ~Hit(x) THEN status[x] ELSE Flip(x)]
    BY DEF MoveDrafts
  <1>2. \A x \in Rows : Hit(x) => Draft(x)
    BY DEF MoveDrafts
  <1>3. \A x \in Rows : Draft(x) =>
            /\ Flip(x) \in {"pending_approval", "cancelled"}
            /\ Flip(x) # status[x]
    BY DEF Draft
  <1>4. {"pending_approval", "cancelled"} \subseteq Statuses
    BY DEF Statuses, ChangeStatuses
  <1> HIDE DEF Hit, Flip
  <1>5. \A x \in Rows : status'[x] = IF ~Hit(x) THEN status[x] ELSE Flip(x)
    BY <1>1
  <1>6. \A x \in Rows : (IF ~Hit(x) THEN status[x] ELSE Flip(x)) \in Statuses
    BY <1>2, <1>3, <1>4 DEF DataType
  <1> QED
    BY <1>1, <1>2, <1>3, <1>5, <1>6

\* The remaining actions leave the sessions alone, or empty them.
LEMMA OtherStep ==
  ASSUME SessionType, DataType,
         \/ \E r \in Jobs : Preview(r)
         \/ \E moved \in SUBSET Jobs : MoveDrafts(moved)
         \/ \E a \in Admins : AdminStep(a)
         \/ Crash
         \/ \E d \in Devices : Drift(d)
  PROVE  SessionType' /\ DataType'
  <1> USE DEF frozen, database, bounds, outside
  <1>1. ASSUME NEW r \in Jobs, Preview(r) PROVE SessionType' /\ DataType'
    <2>1. r \in Rows
      BY DEF Jobs, Rows
    <2> QED
      BY <1>1, <2>1, CreateType DEF Preview, DataType, SessionType, Ready
  <1>2. ASSUME NEW a \in Admins, NEW d \in Devices, AdminReleaseRead(a, d)
        PROVE  SessionType' /\ DataType'
    BY <1>2 DEF AdminReleaseRead, DataType, SessionType, Ready
  <1>3. ASSUME NEW a \in Admins, AdminReleaseCommit(a)
        PROVE  SessionType' /\ DataType'
    <2>1. releasing[a].dev \in Devices /\ releasing[a].chg \in Changes
          /\ releasing[a].chg \in Rows
      BY <1>3 DEF AdminReleaseCommit, DataType, Rows
    <2>2. /\ status' \in [Rows -> Statuses]
          /\ \A c \in Changes : status'[c] \in ChangeStatuses
      BY <1>3, <2>1, StatusSet
      DEF AdminReleaseCommit, StatusAfterRelease, DataType, Statuses, ChangeStatuses
    <2> QED
      BY <1>3, <2>1, <2>2 DEF AdminReleaseCommit, DataType, SessionType, Ready
  <1>4. CASE Crash
    <2>1. SessionType'
      BY <1>4, IdleReady DEF Crash, SessionType, Ready
    <2>2. crashes' \in Nat
      BY <1>4 DEF Crash, DataType
    <2> QED
      BY <1>4, <2>1, <2>2 DEF Crash, DataType
  <1>5. ASSUME NEW d \in Devices, Drift(d) PROVE SessionType' /\ DataType'
    <2>1. config' \in [Devices -> Configs] /\ drifts' \in Nat
      BY <1>5 DEF Drift, DataType
    <2> QED
      BY <1>5, <2>1 DEF Drift, DataType, SessionType, Ready
  <1>6. ASSUME NEW moved \in SUBSET Jobs, MoveDrafts(moved)
        PROVE  SessionType' /\ DataType'
    <2>1. UNCHANGED req
      BY <1>6 DEF MoveDrafts
    <2>2. /\ status' \in [Rows -> Statuses]
          /\ \A c \in Changes : status'[c] \in ChangeStatuses
      BY <1>6, MovedRows DEF Statuses, ChangeStatuses, DataType, Rows
    <2> QED
      BY <1>6, <2>1, <2>2 DEF MoveDrafts, DataType, SessionType, Ready
  <1> QED
    BY <1>1, <1>2, <1>3, <1>4, <1>5, <1>6 DEF AdminStep

\* The initial state is well typed.
LEMMA TypeInit == Init => TypeOK
  <1> SUFFICES ASSUME Init PROVE SessionType /\ DataType
    BY TypeParts
  <1>1. SessionType
    BY IdleReady DEF Init, SessionType, Ready
  <1>2. DataType
    BY DEF Init, DataType, Statuses, ChangeStatuses, Rows
  <1> QED
    BY <1>1, <1>2

\* Every step keeps the state well typed.
LEMMA TypeNext == TypeOK /\ [Next]_vars => TypeOK'
  <1> SUFFICES ASSUME SessionType, DataType, [Next]_vars
               PROVE  SessionType' /\ DataType'
    BY TypeParts, TypeParts, PTL
  <1>1. CASE \E t \in Threads : Step(t)
    BY <1>1, SessionStep, DataStep
  <1>2. CASE \E t \in Threads : Arrive(t)
    BY <1>2, SessionArrive, DataArrive
  <1>3. CASE UNCHANGED vars
    BY <1>3 DEF vars, SessionType, DataType, Ready
  <1> QED
    BY <1>1, <1>2, <1>3, OtherStep DEF Next

\* Type correctness: the statuses respect the CHECK constraints, and every
\* step finds in its session what it needs.
THEOREM TypeCorrect == Spec => []TypeOK
  BY TypeInit, TypeNext, PTL DEF Spec

-----------------------------------------------------------------------------
(* Control flow: how a request enters each part of the pipeline.           *)

\* A request changes no session but its own.
LEMMA OthersKept ==
  ASSUME SessionType, NEW t \in Threads, Step(t) \/ Arrive(t)
  PROVE  \A u \in Threads \ {t} : req'[u] = req[u]
  BY DEF SessionType, Session, Goto, Fail, EndRequest, Load, Step, Arrive,
         ApproveCommit, CancelCommit, SmartApprove, ClaimBatch, NextChild,
         FinishBatch, Claim, ClaimConflict, Start, Backup, Check, Bump, Push,
         Verify, Finish, FailChange, Release, Refail, CaptureRead, CaptureStore,
         ChatCreate, ChatApprove, ChatApply, PromptShown, ApproveRead, CancelRead, ApplyRead,
         ApplyBatchRead, ChatSubmit, BaselineRead

\* What an assigned session holds.
LEMMA SessionFields ==
  ASSUME SessionType, NEW t \in Threads, NEW q, Session(t, q)
  PROVE  req'[t] = q
  BY DEF SessionType, Session

\* Going to another statement keeps the change at hand.
LEMMA GotoFields ==
  ASSUME SessionType, NEW t \in Threads, NEW pc, Goto(t, pc)
  PROVE  req'[t].pc = pc /\ req'[t].cur = req[t].cur
  BY DEF SessionType, Goto, Session, Requests

\* So does going to the failure branch.
LEMMA FailFields ==
  ASSUME SessionType, NEW t \in Threads, NEW x, Fail(t, x)
  PROVE  req'[t].pc = "fail" /\ req'[t].cur = req[t].cur
  BY DEF SessionType, Fail, Session, Requests

\* A request that ended is idle.
LEMMA EndFields ==
  ASSUME SessionType, NEW t \in Threads, Session(t, IdleReq) \/ EndRequest(t)
  PROVE  req'[t].pc = "idle"
  BY DEF SessionType, EndRequest, Session, IdleReq

\* What the apply of a standalone change begins with.
LEMMA StandaloneFields ==
  ASSUME SessionType, NEW t \in Threads, NEW c, NEW pc,
         Session(t, [IdleReq EXCEPT !.pc = pc, !.job = c, !.cur = c])
  PROVE  req'[t].pc = pc
  <1>1. req'[t] = [IdleReq EXCEPT !.pc = pc, !.job = c, !.cur = c]
    BY DEF Session, SessionType
  <1>2. [IdleReq EXCEPT !.pc = pc, !.job = c, !.cur = c].pc = pc
    BY DEF IdleReq
  <1> QED
    BY <1>1, <1>2

\* What a request holds after it has read its rows.
LEMMA LoadFields ==
  ASSUME SessionType, NEW t \in Threads, NEW r, NEW pc, NEW x, NEW S,
         Load(t, r, pc, x, S)
  PROVE  req'[t].pc = pc
  BY DEF SessionType, Load, Session, IdleReq

\* Where one move of a request may lead.
Route(old, new) ==
    /\ new.pc \in Owning => /\ new.cur = old.cur
                            /\ old.pc \in Owning \cup {"claim"}
                            /\ old.pc = "claim" => new.pc = "start"
    /\ new.pc = "check" => old.pc = "backup"
    /\ new.pc = "bump" => old.pc = "check"
    /\ new.pc = "push" => old.pc = "bump"
    /\ new.pc = "smart" => old.pc = "idle"
    /\ new.pc = "claim" => old.pc \in {"idle", "smart", "child"}
    /\ old.pc = "smart" /\ new.pc = "claim" => new.cur = old.cur

\* Every step of a request follows the control flow of its handler.
LEMMA RouteOf ==
  ASSUME SessionType, NEW t \in Threads, Step(t) \/ Arrive(t)
  PROVE  Route(req[t], req'[t])
  <1> DEFINE q == req[t]
             n == req'[t]
  <1> USE GotoFields, FailFields, EndFields
  <1>1. CASE ApproveCommit(t)
    <2>1. q.pc = "approve" /\ n.pc \in {"chatApply", "idle"}
      BY <1>1 DEF ApproveCommit
    <2> QED
      BY <2>1 DEF Route, Owning
  <1>2. CASE CancelCommit(t) \/ FinishBatch(t)
    <2>1. n.pc = "idle"
      BY <1>2 DEF CancelCommit, FinishBatch
    <2> QED
      BY <2>1 DEF Route, Owning
  <1>3. CASE SmartApprove(t)
    <2>1. q.pc = "smart" /\ (n.pc = "idle" \/ (n.pc = "claim" /\ n.cur = q.cur))
      BY <1>3 DEF SmartApprove
    <2> QED
      BY <2>1 DEF Route, Owning
  <1>4. CASE ClaimBatch(t)
    <2>1. n.pc \in {"child", "idle"}
      BY <1>4 DEF ClaimBatch, Session, SessionType, Requests
    <2> QED
      BY <2>1 DEF Route, Owning
  <1>5. CASE NextChild(t)
    <2>1. q.pc = "child" /\ n.pc \in {"claim", "refail"}
      BY <1>5 DEF NextChild, Session, SessionType, Requests
    <2> QED
      BY <2>1 DEF Route, Owning
  <1>6. CASE Claim(t)
    <2>1. q.pc = "claim" /\ n.pc = "start" /\ n.cur = q.cur
      BY <1>6 DEF Claim
    <2> QED
      BY <2>1 DEF Route, Owning
  <1>7. CASE ClaimConflict(t)
    <2>1. n.pc \in {"refail", "idle"}
      BY <1>7 DEF ClaimConflict
    <2> QED
      BY <2>1 DEF Route, Owning
  <1>8. CASE Start(t)
    <2>1. q.pc = "start" /\ n.pc \in {"backup", "fail"} /\ n.cur = q.cur
      BY <1>8 DEF Start
    <2> QED
      BY <2>1 DEF Route, Owning
  <1>9. CASE Backup(t)
    <2>1. q.pc = "backup" /\ n.pc \in {"check", "fail"} /\ n.cur = q.cur
      BY <1>9 DEF Backup, Session, SessionType, Requests
    <2> QED
      BY <2>1 DEF Route, Owning
  <1>10. CASE Check(t)
    <2>1. q.pc = "check" /\ n.pc \in {"bump", "fail"} /\ n.cur = q.cur
      BY <1>10 DEF Check, Session, SessionType, Requests
    <2> QED
      BY <2>1 DEF Route, Owning
  <1>11. CASE Bump(t)
    <2>1. q.pc = "bump" /\ n.pc = "push" /\ n.cur = q.cur
      BY <1>11 DEF Bump
    <2> QED
      BY <2>1 DEF Route, Owning
  <1>12. CASE Push(t) \/ PromptShown(t) \/ Verify(t)
    <2>1. /\ q.pc \in {"push", "asked", "verify"} /\ n.cur = q.cur
          /\ n.pc \in {"asked", "verify", "finish", "fail"}
      BY <1>12 DEF Push, PromptShown, Verify
    <2> QED
      BY <2>1 DEF Route, Owning
  <1>13. CASE Finish(t) \/ FailChange(t)
    <2>1. q.pc \in {"finish", "fail"} /\ n.cur = q.cur /\ n.pc = "release"
      BY <1>13 DEF Finish, FailChange
    <2> QED
      BY <2>1 DEF Route, Owning
  <1>14. CASE Release(t) \/ Refail(t)
    <2>1. n.pc \in {"refail", "child", "idle"}
      <3>1. CASE Release(t)
        BY <3>1 DEF Release
      <3>2. CASE Refail(t)
        BY <3>2, SessionFields DEF Refail, SessionType, Requests
      <3> QED
        BY <1>14, <3>1, <3>2
    <2> QED
      BY <2>1 DEF Route, Owning
  <1>15. CASE CaptureRead(t)
    <2>1. n.pc \in {"store", "idle"}
      <3>1. ASSUME NEW d, Session(t, [q EXCEPT !.pc = "store", !.cfg = config[d],
                                               !.dev = d])
            PROVE  n.pc = "store"
        BY <3>1, SessionFields DEF SessionType, Requests
      <3> QED
        BY <1>15, <3>1 DEF CaptureRead
    <2> QED
      BY <2>1 DEF Route, Owning
  <1>16. CASE CaptureStore(t)
    <2>1. n.pc \in {"capture", "create", "idle"}
      <3>1. ASSUME NEW S, Session(t, [q EXCEPT !.pc = "capture", !.targets = S])
            PROVE  n.pc = "capture"
        BY <3>1, SessionFields DEF SessionType, Requests
      <3>2. ASSUME NEW j, Session(t, [IdleReq EXCEPT !.pc = "create",
                                                    !.chat = TRUE, !.job = j])
            PROVE  n.pc = "create"
        BY <3>2, SessionFields DEF IdleReq
      <3> QED
        BY <1>16, <3>1, <3>2 DEF CaptureStore
    <2> QED
      BY <2>1 DEF Route, Owning
  <1>17. CASE ChatCreate(t) \/ ChatApply(t)
    <2>1. n.pc \in {"chatApprove", "claimBatch", "idle"}
      BY <1>17 DEF ChatCreate, ChatApply
    <2> QED
      BY <2>1 DEF Route, Owning
  <1>18. CASE ChatApprove(t)
    <2>1. n.pc \in {"approve", "idle"}
      BY <1>18, LoadFields DEF ChatApprove
    <2> QED
      BY <2>1 DEF Route, Owning
  <1>19. CASE Arrive(t)
    <2>1. /\ q.pc = "idle"
          /\ n.pc \in {"approve", "cancel", "claim", "smart", "claimBatch", "capture"}
      <3>1. ASSUME NEW r, ApproveRead(t, r) \/ CancelRead(t, r) \/ ApplyBatchRead(t, r)
            PROVE  q.pc = "idle" /\ n.pc \in {"approve", "cancel", "claimBatch"}
        BY <3>1, LoadFields DEF ApproveRead, CancelRead, ApplyBatchRead
      <3>2. ASSUME NEW c, ApplyRead(t, c)
            PROVE  q.pc = "idle" /\ n.pc \in {"claim", "smart"}
        BY <3>2, StandaloneFields DEF ApplyRead
      <3>3. ASSUME NEW x, ChatSubmit(t, x) \/ BaselineRead(t, x)
            PROVE  q.pc = "idle" /\ n.pc = "capture"
        BY <3>3 DEF ChatSubmit, BaselineRead, Session, SessionType, IdleReq
      <3> QED
        BY <1>19, <3>1, <3>2, <3>3 DEF Arrive
    <2> QED
      BY <2>1 DEF Route, Owning
  <1> QED
    BY <1>1, <1>2, <1>3, <1>4, <1>5, <1>6, <1>7, <1>8, <1>9, <1>10, <1>11,
       <1>12, <1>13, <1>14, <1>15, <1>16, <1>17, <1>18, <1>19 DEF Step

-----------------------------------------------------------------------------
(* What a step does to the rows and to the devices.                        *)

\* A preview never touches a row that exists.
LEMMA CreateKeeps ==
  ASSUME DataType, NEW r \in Rows, New(r), Create(r), NEW c \in Changes,
         status[c] # "absent"
  PROVE  status'[c] # "absent" /\ baseRev'[c] = baseRev[c] /\ baseCfg'[c] = baseCfg[c]
  BY DEF Create, New, DataType, Rows

\* A row that exists goes on existing, with the baseline it was created with.
RowsKept ==
    \A c \in Changes : status[c] # "absent" =>
        status'[c] # "absent" /\ baseRev'[c] = baseRev[c] /\ baseCfg'[c] = baseCfg[c]

\* A step of a request keeps the rows that exist.
LEMMA RowsStep ==
  ASSUME SessionType, DataType, NEW t \in Threads, Step(t) \/ Arrive(t)
  PROVE  RowsKept
  <1> USE DEF frozen, database, bounds, outside, RowsKept
  <1>1. CASE ChatCreate(t)
    <2>1. req[t].job \in Rows
      BY <1>1 DEF ChatCreate, SessionType, Ready
    <2> QED
      BY <1>1, <2>1, CreateKeeps DEF ChatCreate
  <1>2. CASE ApproveCommit(t) \/ CancelCommit(t)
    BY <1>2 DEF ApproveCommit, CancelCommit, DataType, Rows
  <1>3. CASE SmartApprove(t) \/ Claim(t) \/ Finish(t) \/ FailChange(t) \/ Refail(t)
    BY <1>3 DEF SmartApprove, Claim, Finish, FailChange, Refail, DataType, Rows
  <1>4. CASE ClaimBatch(t) \/ FinishBatch(t)
    <2>1. aggregate_status(Outcomes(t)) # "absent"
      BY DEF aggregate_status
    <2> QED
      BY <1>4, <2>1 DEF ClaimBatch, FinishBatch, DataType, Rows
  <1>5. CASE NextChild(t) \/ ClaimConflict(t) \/ Start(t) \/ Check(t) \/ Push(t)
             \/ PromptShown(t) \/ CaptureRead(t) \/ ChatApprove(t) \/ ChatApply(t)
    BY <1>5 DEF NextChild, ClaimConflict, Start, Check, Push, PromptShown,
                CaptureRead, ChatApprove, ChatApply
  <1>6. CASE Backup(t) \/ Bump(t) \/ Verify(t) \/ Release(t) \/ CaptureStore(t)
    BY <1>6 DEF Backup, Bump, Verify, Release, CaptureStore
  <1>7. CASE Arrive(t)
    BY <1>7 DEF Arrive, ApproveRead, CancelRead, ApplyRead, ApplyBatchRead,
                ChatSubmit, BaselineRead
  <1> QED
    BY <1>1, <1>2, <1>3, <1>4, <1>5, <1>6, <1>7 DEF Step

\* So does every other step.
LEMMA RowsOther ==
  ASSUME SessionType, DataType,
         \/ \E r \in Jobs : Preview(r)
         \/ \E moved \in SUBSET Jobs : MoveDrafts(moved)
         \/ \E a \in Admins : AdminStep(a)
         \/ Crash
         \/ \E d \in Devices : Drift(d)
  PROVE  RowsKept
  <1> USE DEF frozen, database, bounds, outside, RowsKept
  <1>1. ASSUME NEW r \in Jobs, Preview(r) PROVE RowsKept
    BY <1>1, CreateKeeps DEF Preview, Jobs, Rows
  <1>2. ASSUME NEW a \in Admins, AdminStep(a) PROVE RowsKept
    BY <1>2 DEF AdminStep, AdminReleaseRead, AdminReleaseCommit,
                StatusAfterRelease, DataType, Rows
  <1>3. ASSUME NEW moved \in SUBSET Jobs, MoveDrafts(moved) PROVE RowsKept
    BY <1>3, MovedRows DEF MoveDrafts, Rows
  <1> QED
    BY <1>1, <1>2, <1>3 DEF Crash, Drift

\* Which steps of a request touch the leases, the revisions, the routers.
LEMMA Resources ==
  ASSUME NEW t \in Threads, Step(t) \/ Arrive(t)
  PROVE  /\ UNCHANGED releasing
         /\ UNCHANGED lease \/ Claim(t) \/ Release(t)
         /\ UNCHANGED revision \/ Bump(t)
         /\ UNCHANGED <<config, pushes>> \/ Push(t)
  BY DEF frozen, database, bounds, outside, Step, Arrive,
         ApproveCommit, CancelCommit, SmartApprove, ClaimBatch, NextChild,
         FinishBatch, Claim, ClaimConflict, Start, Backup, Check, Bump, Push,
         Verify, Finish, FailChange, Release, Refail, CaptureRead, CaptureStore,
         ChatCreate, ChatApprove, ChatApply, PromptShown, ApproveRead, CancelRead, ApplyRead,
         ApplyBatchRead, ChatSubmit, BaselineRead

-----------------------------------------------------------------------------
(* The lease.  Two Admins releasing the same lease are excluded: the second *)
(* of two deletes may hit the lease of a later deployment.                 *)

OneAdmin == \A a, b \in Admins : a = b

\* A step of a request keeps the lease protocol.
LEMMA LeaseStep ==
  ASSUME SessionType, DataType, LeaseHeld, LeaseExclusion,
         NEW t \in Threads, Step(t) \/ Arrive(t)
  PROVE  LeaseHeld' /\ LeaseExclusion'
  <1>1. \A u \in Threads \ {t} : req'[u] = req[u]
    BY OthersKept
  <1>2. Route(req[t], req'[t])
    BY RouteOf
  <1>3. \A u \in Threads : InPipeline(u) =>
            req[u].cur \in Changes /\ req[u].cur # None /\ Dev(u) \in Devices
    BY BatchAssumption DEF SessionType, Ready, InPipeline, Dev, Rows
  <1>4. UNCHANGED releasing
    BY Resources
  <1>5. CASE Claim(t)
    <2>1. /\ req[t].pc = "claim" /\ req[t].cur \in Changes /\ Dev(t) \in Devices
          /\ req[t].cur # None
      BY <1>5, BatchAssumption DEF Claim, SessionType, Ready, Dev, Rows
    <2>2. lease[Dev(t)] = None /\ lease' = [lease EXCEPT ![Dev(t)] = req[t].cur]
      BY <1>5 DEF Claim, Unleased
    <2>3. req'[t].pc = "start" /\ req'[t].cur = req[t].cur
      BY <1>5, GotoFields DEF Claim
    <2>4. ~InPipeline(t)
      BY <2>1 DEF InPipeline, Owning
    <2>5. \A u \in Threads : u # t /\ InPipeline(u) => Dev(u) # Dev(t)
      BY <1>3, <2>2 DEF LeaseHeld
    <2>6. \A u \in Threads : Dev(u)' = Dev(u) /\ (u # t => InPipeline(u)' = InPipeline(u))
      BY <1>1, <2>3 DEF Dev, InPipeline
    <2>7. LeaseExclusion'
      BY <2>5, <2>6 DEF LeaseExclusion
    <2>8. \A u \in Threads : InPipeline(u)' => lease'[Dev(u)'] = req'[u].cur
      BY <1>1, <1>3, <2>1, <2>2, <2>3, <2>5, <2>6 DEF LeaseHeld, DataType
    <2>9. ASSUME NEW a \in Admins, releasing[a] # None
          PROVE  /\ lease'[releasing[a].dev] # None
                 /\ \A u \in Threads : InPipeline(u)' => Dev(u)' # releasing[a].dev
      <3>1. releasing[a].dev # Dev(t) /\ lease[releasing[a].dev] # None
        BY <2>2, <2>9 DEF LeaseHeld
      <3> QED
        BY <2>2, <2>6, <2>9, <3>1 DEF LeaseHeld, DataType
    <2> QED
      BY <1>4, <2>7, <2>8, <2>9 DEF LeaseHeld
  <1>6. CASE ~Claim(t)
    <2>1. \A u \in Threads : InPipeline(u)' =>
              InPipeline(u) /\ req'[u].cur = req[u].cur /\ Dev(u)' = Dev(u)
      <3>1. req'[t].pc \in Owning => req[t].pc # "claim"
        <4>1. ASSUME req[t].pc = "claim", req'[t].pc \in Owning PROVE FALSE
          <5>1. ClaimConflict(t)
            BY <1>6, <4>1
            DEF Step, Arrive, ApproveCommit, CancelCommit, SmartApprove, ClaimBatch,
                NextChild, FinishBatch, ClaimConflict, Start, Backup, Check, Bump,
                Push, Verify, Finish, FailChange, Release, Refail, CaptureRead,
                CaptureStore, ChatCreate, ChatApprove, ChatApply, PromptShown, ApproveRead,
                CancelRead, ApplyRead, ApplyBatchRead, ChatSubmit, BaselineRead
          <5>2. req'[t].pc \in {"refail", "idle"}
            BY <5>1, GotoFields, EndFields DEF ClaimConflict
          <5> QED
            BY <4>1, <5>2 DEF Owning
        <4> QED
          BY <4>1
      <3> QED
        BY <1>1, <1>2, <3>1 DEF Route, InPipeline, Dev
    <2>2. LeaseExclusion'
      BY <2>1 DEF LeaseExclusion
    <2>3. CASE UNCHANGED lease
      BY <1>4, <2>1, <2>2, <2>3 DEF LeaseHeld
    <2>4. CASE Release(t)
      <3>1. InPipeline(t) /\ req'[t].pc \in {"refail", "child", "idle"}
        BY <2>4, GotoFields, EndFields DEF Release, InPipeline, Owning
      <3>2. ~InPipeline(t)'
        BY <3>1 DEF InPipeline, Owning
      <3>3. \A d \in Devices : d # Dev(t) => lease'[d] = lease[d]
        BY <2>4, <1>3, <3>1 DEF Release, DataType
      <3>4. \A u \in Threads : InPipeline(u)' => Dev(u) # Dev(t) /\ Dev(u) \in Devices
        BY <1>3, <2>1, <3>1, <3>2 DEF LeaseExclusion
      <3>5. \A u \in Threads : InPipeline(u)' => lease'[Dev(u)'] = req'[u].cur
        BY <2>1, <3>3, <3>4 DEF LeaseHeld
      <3>6. ASSUME NEW a \in Admins, releasing[a] # None
            PROVE  /\ lease'[releasing[a].dev] # None
                   /\ \A u \in Threads : InPipeline(u)' => Dev(u)' # releasing[a].dev
        BY <2>1, <3>1, <3>3, <3>6 DEF LeaseHeld, DataType
      <3> QED
        BY <1>4, <2>2, <3>5, <3>6 DEF LeaseHeld
    <2> QED
      BY <1>6, <2>3, <2>4, Resources
  <1> QED
    BY <1>5, <1>6

\* So does every other step, with at most one Admin.
LEMMA LeaseOther ==
  ASSUME SessionType, DataType, OneAdmin, LeaseHeld, LeaseExclusion,
         \/ \E r \in Jobs : Preview(r)
         \/ \E moved \in SUBSET Jobs : MoveDrafts(moved)
         \/ \E a \in Admins : AdminStep(a)
         \/ Crash
         \/ \E d \in Devices : Drift(d)
  PROVE  LeaseHeld' /\ LeaseExclusion'
  <1> USE DEF frozen, database, bounds, outside
  <1>1. CASE UNCHANGED <<req, lease, releasing>>
    BY <1>1 DEF LeaseHeld, LeaseExclusion, InPipeline, Dev
  <1>2. CASE Crash
    <2>1. /\ \A t \in Threads : ~InPipeline(t)'
          /\ \A a \in Admins : releasing'[a] = None
      BY <1>2 DEF Crash, InPipeline, IdleReq, Owning
    <2> QED
      BY <2>1 DEF LeaseHeld, LeaseExclusion
  <1>3. ASSUME NEW a \in Admins, NEW d \in Devices, AdminReleaseRead(a, d)
        PROVE  LeaseHeld' /\ LeaseExclusion'
    <2>1. \A t \in Threads : InPipeline(t) => Dev(t) # d
      BY <1>3 DEF AdminReleaseRead, Working, LeaseHeld, InPipeline
    <2>2. releasing'[a].dev = d /\ \A b \in Admins \ {a} : releasing'[b] = releasing[b]
      BY <1>3 DEF AdminReleaseRead, DataType
    <2>3. UNCHANGED <<req, lease>> /\ lease[d] # None
      BY <1>3 DEF AdminReleaseRead
    <2> QED
      BY <2>1, <2>2, <2>3 DEF LeaseHeld, LeaseExclusion, InPipeline, Dev
  <1>4. ASSUME NEW a \in Admins, AdminReleaseCommit(a)
        PROVE  LeaseHeld' /\ LeaseExclusion'
    <2>1. /\ UNCHANGED req
          /\ releasing[a] # None
          /\ lease' = [lease EXCEPT ![releasing[a].dev] = None]
          /\ releasing' = [releasing EXCEPT ![a] = None]
      BY <1>4 DEF AdminReleaseCommit
    <2>2. \A b \in Admins : releasing'[b] = None
      BY <2>1 DEF OneAdmin, DataType
    <2>3. \A t \in Threads : InPipeline(t) =>
              Dev(t) # releasing[a].dev /\ Dev(t) \in Devices
      BY <2>1, BatchAssumption DEF LeaseHeld, SessionType, Ready, InPipeline, Dev
    <2>4. \A t \in Threads : InPipeline(t)' => lease'[Dev(t)'] = req'[t].cur
      BY <2>1, <2>3 DEF LeaseHeld, InPipeline, Dev, DataType
    <2> QED
      BY <2>1, <2>2, <2>4 DEF LeaseHeld, LeaseExclusion, InPipeline, Dev
  <1> QED
    BY <1>1, <1>2, <1>3, <1>4 DEF Preview, MoveDrafts, AdminStep, Drift

-----------------------------------------------------------------------------
(* The revisions: nothing already written, or on its way, can come again.  *)

\* The place a request has reached decides what its next step is.
LEMMA ByPc ==
  ASSUME NEW t \in Threads, Step(t) \/ Arrive(t)
  PROVE  /\ req[t].pc = "backup" => Backup(t)
         /\ req[t].pc = "check" => Check(t)
         /\ req[t].pc = "bump" => Bump(t)
         /\ req[t].pc = "push" => Push(t)
         /\ req[t].pc = "child" => NextChild(t) \/ FinishBatch(t)
         /\ req[t].pc = "idle" => Arrive(t)
  BY DEF Step, Arrive, ApproveCommit, CancelCommit, SmartApprove, ClaimBatch,
         NextChild, FinishBatch, Claim, ClaimConflict, Start, Backup, Check, Bump,
         Push, Verify, Finish, FailChange, Release, Refail, CaptureRead,
         CaptureStore, ChatCreate, ChatApprove, ChatApply, PromptShown, ApproveRead, CancelRead,
         ApplyRead, ApplyBatchRead, ChatSubmit, BaselineRead

\* A change that a request is about to claim exists.
LEMMA ClaimTarget ==
  ASSUME SessionType, NEW t \in Threads, Step(t) \/ Arrive(t),
         req'[t].pc \in {"smart", "claim"}, req[t].pc # "smart"
  PROVE  status[req'[t].cur] # "absent"
  <1>1. req[t].pc \in {"idle", "child"}
    BY RouteOf DEF Route
  <1>2. CASE req[t].pc = "child"
    <2>1. CASE FinishBatch(t)
      BY <2>1, EndFields DEF FinishBatch
    <2>2. CASE NextChild(t)
      <3>1. PICK c \in req[t].todo, pc \in {"claim", "refail"} :
              /\ pc = "claim" => status[c] = "approved"
              /\ Session(t, [req[t] EXCEPT !.pc = pc, !.cur = c, !.todo = @ \ {c},
                                           !.outcomes = Outcomes(t)])
        BY <2>2 DEF NextChild
      <3>2. req'[t].pc = pc /\ req'[t].cur = c
        BY <3>1, SessionFields DEF SessionType, Requests
      <3> QED
        BY <3>1, <3>2
    <2> QED
      BY <1>2, <2>1, <2>2, ByPc
  <1>3. CASE req[t].pc = "idle"
    <2>1. Arrive(t)
      BY <1>3, ByPc
    <2>2. ASSUME NEW r, ApproveRead(t, r) \/ CancelRead(t, r) \/ ApplyBatchRead(t, r)
          PROVE  req'[t].pc \in {"approve", "cancel", "claimBatch"}
      BY <2>2, LoadFields DEF ApproveRead, CancelRead, ApplyBatchRead
    <2>3. ASSUME NEW x, ChatSubmit(t, x) \/ BaselineRead(t, x)
          PROVE  req'[t].pc = "capture"
      BY <2>3 DEF ChatSubmit, BaselineRead, Session, SessionType, IdleReq
    <2>4. PICK c \in Changes : ApplyRead(t, c)
      BY <2>1, <2>2, <2>3 DEF Arrive
    <2>5. ASSUME NEW pc, Session(t, [IdleReq EXCEPT !.pc = pc, !.job = c, !.cur = c])
          PROVE  req'[t].cur = c
      BY <2>5, SessionFields DEF IdleReq
    <2> QED
      BY <2>4, <2>5 DEF ApplyRead
  <1> QED
    BY <1>1, <1>2, <1>3

\* The facts about the new element a push appends to the history.
LEMMA PushAppends ==
  ASSUME SessionType, DataType, NEW t \in Threads, Push(t)
  PROVE  /\ Dev(t) \in Devices /\ req[t].cur \in Changes /\ req[t].pc = "push"
         /\ \A d \in Devices \ {Dev(t)} : pushes'[d] = pushes[d]
         /\ \E n \in Nat :
              /\ DOMAIN pushes'[Dev(t)] = DOMAIN pushes[Dev(t)] \cup {n}
              /\ \A i \in DOMAIN pushes[Dev(t)] :
                    i < n /\ pushes'[Dev(t)][i] = pushes[Dev(t)][i]
              /\ pushes'[Dev(t)][n].chg = req[t].cur
              /\ pushes'[Dev(t)][n].rev = baseRev[req[t].cur]
  <1> DEFINE e == [chg |-> req[t].cur, rev |-> baseRev[req[t].cur]]
             s == pushes[Dev(t)]
  <1>1. Dev(t) \in Devices /\ req[t].cur \in Changes /\ req[t].pc = "push"
    BY BatchAssumption DEF Push, SessionType, Ready, Dev, Owning
  <1>2. pushes' = [pushes EXCEPT ![Dev(t)] = Append(s, e)]
    BY DEF Push
  <1>3. s \in Seq([chg: Changes, rev: Nat]) /\ e \in [chg: Changes, rev: Nat]
    BY <1>1 DEF DataType
  <1>4. pushes'[Dev(t)] = Append(s, e)
    BY <1>1, <1>2 DEF DataType
  <1>5. Len(s) + 1 \in Nat
    BY <1>3
  <1>6. /\ DOMAIN Append(s, e) = DOMAIN s \cup {Len(s) + 1}
        /\ \A i \in DOMAIN s : Append(s, e)[i] = s[i] /\ i < Len(s) + 1
        /\ Append(s, e)[Len(s) + 1] = e
    BY <1>3, AppendType
  <1>7. \A d \in Devices \ {Dev(t)} : pushes'[d] = pushes[d]
    BY <1>1, <1>2 DEF DataType
  <1> HIDE DEF s
  <1>8. /\ DOMAIN pushes'[Dev(t)] = DOMAIN s \cup {Len(s) + 1}
        /\ \A i \in DOMAIN s : i < Len(s) + 1 /\ pushes'[Dev(t)][i] = s[i]
        /\ pushes'[Dev(t)][Len(s) + 1].chg = req[t].cur
        /\ pushes'[Dev(t)][Len(s) + 1].rev = baseRev[req[t].cur]
    BY <1>4, <1>6
  <1> QED
    BY <1>1, <1>5, <1>7, <1>8 DEF s

\* Elements of the history are typed.
LEMMA PushTypes ==
  ASSUME DataType, NEW d \in Devices, NEW i \in DOMAIN pushes[d]
  PROVE  pushes[d][i].chg \in Changes /\ pushes[d][i].rev \in Nat /\ i \in Nat
  <1>1. ASSUME NEW T, NEW s \in Seq(T), NEW k \in DOMAIN s
        PROVE  s[k] \in T /\ k \in Nat
    BY <1>1
  <1>2. pushes[d] \in Seq([chg: Changes, rev: Nat])
    BY DEF DataType
  <1>3. pushes[d][i] \in [chg: Changes, rev: Nat] /\ i \in Nat
    BY <1>1, <1>2
  <1> QED
    BY <1>3

\* No step of a request makes a written change absent again.
LEMMA PreviewedStep ==
  ASSUME SessionType, DataType, SessionType', Previewed,
         NEW t \in Threads, Step(t) \/ Arrive(t)
  PROVE  Previewed'
  <1>1. RowsKept
    BY RowsStep
  <1>2. ASSUME NEW u \in Threads, InPipeline(u)' \/ req'[u].pc \in {"smart", "claim"}
        PROVE  status'[req'[u].cur] # "absent"
    <2>1. req'[u].cur \in Changes
      BY <1>2 DEF SessionType, Ready, InPipeline
    <2>2. status[req'[u].cur] # "absent"
      <3>1. CASE u # t
        BY <1>2, <3>1, OthersKept DEF Previewed, InPipeline
      <3>2. CASE u = t /\ InPipeline(u)'
        BY <3>2, RouteOf DEF Route, Previewed, InPipeline
      <3>3. CASE u = t /\ req'[u].pc \in {"smart", "claim"} /\ req[u].pc = "smart"
        BY <3>3, RouteOf DEF Route, Previewed, InPipeline
      <3>4. CASE u = t /\ req'[u].pc \in {"smart", "claim"} /\ req[u].pc # "smart"
        BY <3>4, ClaimTarget
      <3> QED
        BY <1>2, <3>1, <3>2, <3>3, <3>4
    <2> QED
      BY <1>1, <2>1, <2>2 DEF RowsKept
  <1>3. ASSUME NEW d \in Devices, NEW i \in DOMAIN pushes'[d]
        PROVE  /\ status'[pushes'[d][i].chg] # "absent"
               /\ pushes'[d][i].rev = baseRev'[pushes'[d][i].chg]
    <2>1. ASSUME i \in DOMAIN pushes[d], pushes'[d][i] = pushes[d][i]
          PROVE  /\ status'[pushes'[d][i].chg] # "absent"
                 /\ pushes'[d][i].rev = baseRev'[pushes'[d][i].chg]
      <3>1. /\ status[pushes[d][i].chg] # "absent"
            /\ pushes[d][i].rev = baseRev[pushes[d][i].chg]
        BY <2>1 DEF Previewed
      <3> QED
        BY <1>1, <2>1, <3>1, PushTypes DEF RowsKept
    <2>2. CASE UNCHANGED pushes
      BY <2>1, <2>2
    <2>3. CASE Push(t)
      <3>1. CASE d # Dev(t)
        BY <2>1, <2>3, <3>1, PushAppends
      <3>2. CASE d = Dev(t)
        <4>1. \/ i \in DOMAIN pushes[d] /\ pushes'[d][i] = pushes[d][i]
              \/ /\ pushes'[d][i].chg = req[t].cur
                 /\ pushes'[d][i].rev = baseRev[req[t].cur]
          BY <2>3, <3>2, PushAppends
        <4>2. req[t].cur \in Changes /\ status[req[t].cur] # "absent"
          BY <2>3, PushAppends DEF Previewed, InPipeline, Owning
        <4> QED
          BY <1>1, <2>1, <4>1, <4>2 DEF RowsKept
      <3> QED
        BY <3>1, <3>2
    <2> QED
      BY <2>2, <2>3, Resources
  <1> QED
    BY <1>2, <1>3 DEF Previewed

\* What Fenced says of one thread.
Guarded(u) ==
    /\ req[u].pc = "check" => req[u].cfg = config[Dev(u)]
    /\ req[u].pc = "bump" => /\ req[u].rev = revision[Dev(u)]
                             /\ req[u].rev = baseRev[req[u].cur]
    /\ req[u].pc = "push" =>
          /\ revision[Dev(u)] = baseRev[req[u].cur] + 1
          /\ \A i \in DOMAIN pushes[Dev(u)] :
                pushes[Dev(u)][i].rev < baseRev[req[u].cur]
    /\ req[u].pc \in {"bump", "push"} =>
          baseCfg[req[u].cur] \in {None, config[Dev(u)]}

\* A step of a request keeps writes behind the revision of their device.
LEMMA FencedStep ==
  ASSUME SessionType, DataType, SessionType', DataType', LeaseExclusion, Previewed,
         Fenced, RevisionFencing, NEW t \in Threads, Step(t) \/ Arrive(t)
  PROVE  Fenced' /\ RevisionFencing'
  <1> USE DEF frozen, database, bounds, outside
  <1>0. RowsKept
    BY RowsStep
  <1>1. /\ \A d \in Devices : \A i \in DOMAIN pushes[d] : pushes[d][i].rev < revision[d]
        /\ \A u \in Threads : Guarded(u)
    BY DEF Fenced, Guarded
  <1>2. \A u \in Threads : req[u].pc \in Owning =>
            /\ req[u].cur \in Changes /\ Dev(u) \in Devices
            /\ status[req[u].cur] # "absent"
    BY BatchAssumption DEF SessionType, Ready, Dev, Previewed, InPipeline
  <1>3. ASSUME Bump(t)
        PROVE  /\ Dev(t) \in Devices /\ req[t].pc = "bump"
               /\ revision'[Dev(t)] = revision[Dev(t)] + 1
               /\ revision[Dev(t)] = baseRev[req[t].cur]
               /\ \A d \in Devices \ {Dev(t)} : revision'[d] = revision[d]
    BY <1>1, <1>2, <1>3 DEF Bump, DataType, Owning, Guarded
  <1>4. \A d \in Devices : \A i \in DOMAIN pushes'[d] : pushes'[d][i].rev < revision'[d]
    <2>1. CASE UNCHANGED <<pushes, revision>>
      BY <1>1, <2>1
    <2>2. CASE Bump(t)
      <3>1. UNCHANGED pushes
        BY <2>2 DEF Bump
      <3>2. ASSUME NEW d \in Devices PROVE revision[d] <= revision'[d]
        <4>1. revision[d] \in Nat
          BY DEF DataType
        <4>2. revision'[d] \in {revision[d], revision[d] + 1}
          BY <1>3, <2>2
        <4> QED
          BY <4>1, <4>2
      <3>3. ASSUME NEW d \in Devices, NEW i \in DOMAIN pushes[d]
            PROVE  pushes[d][i].rev < revision'[d]
        <4>1. pushes[d][i].rev \in Nat /\ revision[d] \in Nat /\ revision'[d] \in Nat
          BY PushTypes DEF DataType
        <4> QED
          BY <1>1, <3>2, <4>1
      <3> QED
        BY <3>1, <3>3
    <2>3. CASE Push(t)
      <3>1. UNCHANGED <<revision, baseRev>>
        BY <2>3 DEF Push
      <3>2. revision[Dev(t)] = baseRev[req[t].cur] + 1 /\ baseRev[req[t].cur] \in Nat
        BY <1>1, <2>3, PushAppends DEF Guarded, DataType
      <3>3. baseRev[req[t].cur] < revision[Dev(t)]
        BY <3>2
      <3> QED
        BY <1>1, <2>3, <3>1, <3>3, PushAppends
    <2> QED
      BY <2>1, <2>2, <2>3, Resources DEF Bump, Push
  <1>5. ASSUME NEW u \in Threads PROVE Guarded(u)'
    <2>1. CASE u # t /\ req[u].pc \in {"check", "bump", "push"}
      <3>1. /\ req'[u] = req[u] /\ Dev(u)' = Dev(u) /\ Dev(u) \in Devices
            /\ req[u].pc \in Owning /\ req[u].cur \in Changes
        BY <1>2, <2>1, OthersKept DEF Dev, Owning
      <3>2. baseRev'[req[u].cur] = baseRev[req[u].cur]
            /\ baseCfg'[req[u].cur] = baseCfg[req[u].cur]
        BY <1>0, <1>2, <3>1 DEF RowsKept
      <3>3. req[t].pc \in {"bump", "push"} => Dev(t) # Dev(u)
        BY <2>1, <3>1 DEF LeaseExclusion, InPipeline, Owning
      <3>4. revision'[Dev(u)] = revision[Dev(u)]
        BY <1>3, <3>1, <3>3, Resources
      <3>5. pushes'[Dev(u)] = pushes[Dev(u)] /\ config'[Dev(u)] = config[Dev(u)]
        <4>1. CASE Push(t)
          <5>1. Dev(t) # Dev(u)
            BY <3>3, <4>1, PushAppends
          <5>2. pushes'[Dev(u)] = pushes[Dev(u)]
            BY <3>1, <4>1, <5>1, PushAppends
          <5>3. PICK cfg \in Configs : config' = [config EXCEPT ![Dev(t)] = cfg]
            BY <4>1 DEF Push
          <5> QED
            BY <3>1, <5>1, <5>2, <5>3 DEF DataType
        <4> QED
          BY <4>1, Resources
      <3> QED
        BY <1>1, <3>1, <3>2, <3>4, <3>5 DEF Guarded
    <2>2. CASE u # t /\ req[u].pc \notin {"check", "bump", "push"}
      BY <2>2, OthersKept DEF Guarded
    <2>3. CASE u = t /\ req'[t].pc = "check"
      <3>1. Backup(t)
        BY <2>3, RouteOf, ByPc DEF Route
      <3>2. req'[t].cfg = config[Dev(t)] /\ req'[t].cur = req[t].cur
        <4>1. CASE Fail(t, FALSE)
          BY <2>3, <4>1, FailFields
        <4>2. CASE Session(t, [req[t] EXCEPT !.pc = "check", !.cfg = config[Dev(t)]])
          BY <4>2, SessionFields DEF SessionType, Requests
        <4> QED
          BY <3>1, <4>1, <4>2 DEF Backup
      <3>3. UNCHANGED config
        BY <3>1 DEF Backup
      <3> QED
        BY <2>3, <3>2, <3>3 DEF Guarded, Dev
    <2>4. CASE u = t /\ req'[t].pc = "bump"
      <3>1. Check(t) /\ req[t].pc = "check"
        BY <2>4, RouteOf, ByPc DEF Route
      <3>2. /\ HashMatches(t) /\ Current(req[t].cur)
            /\ req'[t].rev = revision[Dev(t)] /\ req'[t].cur = req[t].cur
        <4>1. \A x : ~Fail(t, x)
          BY <2>4, FailFields
        <4>2. /\ HashMatches(t) /\ Current(req[t].cur)
              /\ Session(t, [req[t] EXCEPT !.pc = "bump", !.rev = revision[Dev(t)]])
          BY <3>1, <4>1 DEF Check
        <4> QED
          BY <4>2, SessionFields DEF SessionType, Requests
      <3>3. revision[Dev(t)] = baseRev[req[t].cur]
        BY <1>2, <3>1, <3>2, BatchAssumption DEF Current, Members, Dev, Owning
      <3>4. baseCfg[req[t].cur] \in {None, config[Dev(t)]}
        BY <1>1, <3>1, <3>2 DEF HashMatches, Guarded
      <3>5. UNCHANGED <<revision, baseRev, baseCfg, config>>
        BY <3>1 DEF Check
      <3> QED
        BY <2>4, <3>2, <3>3, <3>4, <3>5 DEF Guarded, Dev
    <2>5. CASE u = t /\ req'[t].pc = "push"
      <3>1. Bump(t) /\ req[t].pc = "bump"
        BY <2>5, RouteOf, ByPc DEF Route
      <3>2. req'[t].cur = req[t].cur
        BY <3>1, GotoFields DEF Bump
      <3>3. UNCHANGED <<pushes, baseRev, baseCfg, config>>
        BY <3>1 DEF Bump
      <3>4. baseCfg[req[t].cur] \in {None, config[Dev(t)]}
        BY <1>1, <3>1 DEF Guarded
      <3> QED
        BY <1>1, <1>3, <2>5, <3>1, <3>2, <3>3, <3>4 DEF Guarded, Dev
    <2>6. CASE u = t /\ req'[t].pc \notin {"check", "bump", "push"}
      BY <2>6 DEF Guarded
    <2> QED
      BY <2>1, <2>2, <2>3, <2>4, <2>5, <2>6
  <1>6. RevisionFencing'
    <2>1. CASE UNCHANGED pushes
      BY <2>1 DEF RevisionFencing
    <2>2. CASE Push(t)
      <3>1. \A k \in DOMAIN pushes[Dev(t)] :
                /\ pushes[Dev(t)][k].rev < baseRev[req[t].cur]
                /\ pushes[Dev(t)][k].rev = baseRev[pushes[Dev(t)][k].chg]
        BY <1>1, <2>2, PushAppends DEF Guarded, Previewed
      <3>2. baseRev[req[t].cur] \in Nat
        BY <2>2, PushAppends DEF DataType
      <3>3. \A k \in DOMAIN pushes[Dev(t)] : pushes[Dev(t)][k].chg # req[t].cur
        BY <3>1, <3>2
      <3>4. PICK n \in Nat :
              /\ DOMAIN pushes'[Dev(t)] = DOMAIN pushes[Dev(t)] \cup {n}
              /\ \A k \in DOMAIN pushes[Dev(t)] :
                    k < n /\ pushes'[Dev(t)][k] = pushes[Dev(t)][k]
              /\ pushes'[Dev(t)][n].chg = req[t].cur
              /\ pushes'[Dev(t)][n].rev = baseRev[req[t].cur]
        BY <2>2, PushAppends
      <3>5. ASSUME NEW i \in DOMAIN pushes'[Dev(t)], NEW j \in DOMAIN pushes'[Dev(t)],
                   i < j
            PROVE  /\ pushes'[Dev(t)][i].rev < pushes'[Dev(t)][j].rev
                   /\ pushes'[Dev(t)][i].chg # pushes'[Dev(t)][j].chg
        <4>0. Dev(t) \in Devices
          BY <2>2, PushAppends
        <4>1. CASE i \in DOMAIN pushes[Dev(t)] /\ j \in DOMAIN pushes[Dev(t)]
          BY <3>4, <3>5, <4>0, <4>1 DEF RevisionFencing
        <4>2. CASE i \in DOMAIN pushes[Dev(t)] /\ j = n
          BY <3>1, <3>3, <3>4, <4>2
        <4>3. CASE i = n
          <5>1. j = n \/ (j \in DOMAIN pushes[Dev(t)] /\ j < n)
            BY <3>4
          <5>2. j \in Nat
            BY <3>4, <4>0, PushTypes
          <5> QED
            BY <3>5, <4>3, <5>1, <5>2
        <4> QED
          BY <3>4, <4>1, <4>2, <4>3
      <3> QED
        BY <2>2, <3>5, PushAppends DEF RevisionFencing
    <2> QED
      BY <2>1, <2>2, Resources
  <1> QED
    BY <1>4, <1>5, <1>6 DEF Fenced, Guarded

\* So does every other step.
LEMMA FenceOther ==
  ASSUME SessionType, DataType, Previewed, Fenced, RevisionFencing,
         \/ \E r \in Jobs : Preview(r)
         \/ \E moved \in SUBSET Jobs : MoveDrafts(moved)
         \/ \E a \in Admins : AdminStep(a)
         \/ Crash
         \/ \E d \in Devices : Drift(d)
  PROVE  Previewed' /\ Fenced' /\ RevisionFencing'
  <1> USE DEF frozen, database, bounds, outside
  <1>1. RowsKept
    BY RowsOther
  <1>2. UNCHANGED <<pushes, revision>>
    BY DEF Preview, MoveDrafts, AdminStep, AdminReleaseRead, AdminReleaseCommit,
           Crash, Drift
  <1>3. UNCHANGED req \/ \A u \in Threads : req'[u].pc = "idle"
    BY DEF Preview, MoveDrafts, AdminStep, AdminReleaseRead, AdminReleaseCommit,
           Crash, Drift,
           IdleReq
  <1>4. \A u \in Threads : req[u].pc \in Owning \cup {"smart", "claim"} =>
            req[u].cur \in Changes /\ status[req[u].cur] # "absent"
    BY DEF SessionType, Ready, Previewed, InPipeline
  <1>5. Previewed'
    <2>1. ASSUME NEW u \in Threads, InPipeline(u)' \/ req'[u].pc \in {"smart", "claim"}
          PROVE  status'[req'[u].cur] # "absent"
      BY <1>1, <1>3, <1>4, <2>1 DEF RowsKept, InPipeline, Owning
    <2>2. ASSUME NEW d \in Devices, NEW i \in DOMAIN pushes[d]
          PROVE  /\ status'[pushes[d][i].chg] # "absent"
                 /\ pushes[d][i].rev = baseRev'[pushes[d][i].chg]
      BY <1>1, PushTypes DEF RowsKept, Previewed
    <2> QED
      BY <1>2, <2>1, <2>2 DEF Previewed
  <1>6. ASSUME NEW u \in Threads PROVE Guarded(u)'
    <2>1. CASE req'[u].pc \notin {"check", "bump", "push"}
      BY <2>1 DEF Guarded
    <2>2. CASE req'[u].pc \in {"check", "bump", "push"}
      <3>1. UNCHANGED req /\ Dev(u)' = Dev(u)
        BY <1>3, <2>2 DEF Dev
      <3>2. req[u].cur \in Changes /\ status[req[u].cur] # "absent"
        BY <1>4, <2>2, <3>1 DEF Owning
      <3>3. Dev(u) \in Devices
        BY <3>2, BatchAssumption DEF Dev
      <3>4. config'[Dev(u)] = config[Dev(u)]
        <4>1. ASSUME NEW d \in Devices, Drift(d) PROVE config'[Dev(u)] = config[Dev(u)]
          <5>1. Dev(u) # d
            BY <2>2, <3>1, <4>1 DEF Drift
          <5> QED
            BY <3>3, <4>1, <5>1 DEF Drift, DataType
        <4> QED
          BY <4>1 DEF Preview, MoveDrafts, AdminStep, AdminReleaseRead,
                      AdminReleaseCommit, Crash
      <3>5. Guarded(u)
        BY DEF Fenced, Guarded
      <3> QED
        BY <1>1, <1>2, <3>1, <3>2, <3>4, <3>5 DEF Guarded, RowsKept
    <2> QED
      BY <2>1, <2>2
  <1>7. Fenced'
    BY <1>2, <1>6 DEF Fenced, Guarded
  <1>8. RevisionFencing'
    BY <1>2 DEF RevisionFencing
  <1> QED
    BY <1>5, <1>7, <1>8

-----------------------------------------------------------------------------
(* The inductive invariant, and the theorems.                              *)

\* The invariant holds initially.
LEMMA InvInit == Init => IInv
  <1> SUFFICES ASSUME Init PROVE IInv
    OBVIOUS
  <1>1. \A t \in Threads : req[t].pc = "idle"
    BY DEF Init, IdleReq
  <1>2. \A d \in Devices : DOMAIN pushes[d] = {}
    BY DEF Init
  <1>3. \A a \in Admins : releasing[a] = None
    BY DEF Init
  <1> QED
    BY <1>1, <1>2, <1>3
    DEF IInv, LeaseHeld, LeaseExclusion, Previewed, Fenced, RevisionFencing,
        InPipeline, Owning

\* The invariant is inductive while at most one Admin releases leases.
LEMMA InvNext ==
  ASSUME OneAdmin, TypeOK, TypeOK', IInv, [Next]_vars
  PROVE  IInv'
  <1>0. SessionType /\ DataType /\ SessionType' /\ DataType'
    BY TypeOK, TypeOK' DEF TypeOK, SessionType, DataType
  <1> USE <1>0 DEF IInv
  <1>1. CASE \E t \in Threads : Step(t) \/ Arrive(t)
    <2>1. PICK t \in Threads : Step(t) \/ Arrive(t)
      BY <1>1
    <2>2. LeaseHeld' /\ LeaseExclusion'
      BY <2>1, LeaseStep
    <2>3. Previewed'
      BY <2>1, PreviewedStep
    <2>4. Fenced' /\ RevisionFencing'
      BY <2>1, FencedStep
    <2> QED
      BY <2>2, <2>3, <2>4
  <1>2. CASE UNCHANGED vars
    BY <1>2 DEF vars, LeaseHeld, LeaseExclusion, Previewed, Fenced, RevisionFencing,
                InPipeline, Dev
  <1> QED
    BY <1>1, <1>2, LeaseOther, FenceOther DEF Next

\* With one Admin at a time on the lease release, the invariant behind the
\* three safety theorems holds of every behaviour.
THEOREM Invariant == ASSUME OneAdmin PROVE Spec => []IInv
  <1>1. IInv /\ TypeOK /\ TypeOK' /\ [Next]_vars => IInv'
    BY InvNext, OneAdmin
  <1> QED
    BY <1>1, InvInit, TypeCorrect, PTL DEF Spec

\* No two requests deploy to one device at a time, although the chat routes
\* do not take the request lock.
THEOREM LeaseIsExclusive == ASSUME OneAdmin PROVE Spec => []LeaseExclusion
  <1>1. IInv => LeaseExclusion
    BY DEF IInv
  <1> QED
    BY <1>1, Invariant, OneAdmin, PTL

\* Writes reach a device in the order of the revisions they were approved
\* for, and each approval is used for one write at most.
THEOREM WritesAreFenced == ASSUME OneAdmin PROVE Spec => []RevisionFencing
  <1>1. IInv => RevisionFencing
    BY DEF IInv
  <1> QED
    BY <1>1, Invariant, OneAdmin, PTL

\* A write starts from the configuration its approver saw.
THEOREM WritesOnBaseline == ASSUME OneAdmin PROVE Spec => []PushOnBaseline
  <1>1. IInv => PushOnBaseline
    BY DEF IInv, Fenced, PushOnBaseline
  <1> QED
    BY <1>1, Invariant, OneAdmin, PTL

=============================================================================
