---------------------------- MODULE Leases_proofs ----------------------------
(***************************************************************************)
(* Where leases come from and where they go: for any changes, batches,     *)
(* devices and threads, with the chat routes that skip the request lock.   *)
(***************************************************************************)
EXTENDS Deployment_proofs

-----------------------------------------------------------------------------
(* The pipeline has one way out.                                           *)

\* A request inside the pipeline stays inside, with its change, until it
\* releases the lease.
LEMMA OneWayOut ==
  ASSUME SessionType, NEW t \in Threads, Step(t) \/ Arrive(t),
         InPipeline(t), ~Release(t)
  PROVE  /\ InPipeline(t)' /\ req'[t].cur = req[t].cur
         /\ req'[t].pc = "release" => Finish(t) \/ FailChange(t)
  <1> DEFINE q == req[t]
             n == req'[t]
  <1> USE GotoFields, FailFields
  <1>1. Start(t) \/ Backup(t) \/ Check(t) \/ Bump(t) \/ Push(t) \/ PromptShown(t)
        \/ Verify(t) \/ Finish(t) \/ FailChange(t)
    BY DEF InPipeline, Owning, Step, Arrive, ApproveCommit, CancelCommit,
           SmartApprove, ClaimBatch, NextChild, FinishBatch, Claim, ClaimConflict,
           Refail, CaptureRead, CaptureStore, ChatCreate, ChatApprove, ChatApply,
           ApproveRead, CancelRead, ApplyRead, ApplyBatchRead, ChatSubmit,
           BaselineRead
  <1>2. /\ n.cur = q.cur
        /\ \/ n.pc \in {"backup", "check", "bump", "push", "verify", "finish", "fail"}
           \/ n.pc = "asked"
           \/ n.pc = "release" /\ (Finish(t) \/ FailChange(t))
    <2>1. CASE Start(t) \/ Bump(t) \/ Push(t) \/ PromptShown(t) \/ Verify(t)
      BY <2>1 DEF Start, Bump, Push, PromptShown, Verify
    <2>2. CASE Finish(t) \/ FailChange(t)
      BY <2>2 DEF Finish, FailChange
    <2>3. CASE Backup(t)
      <3>1. ASSUME NEW x, Session(t, [q EXCEPT !.pc = "check", !.cfg = x])
            PROVE  n.pc = "check" /\ n.cur = q.cur
        <4>1. n = [q EXCEPT !.pc = "check", !.cfg = x]
          BY <3>1, SessionFields
        <4>2. q \in Requests
          BY DEF SessionType
        <4> QED
          BY <4>1, <4>2 DEF Requests
      <3> QED
        BY <2>3, <3>1 DEF Backup
    <2>4. CASE Check(t)
      <3>1. ASSUME NEW x, Session(t, [q EXCEPT !.pc = "bump", !.rev = x])
            PROVE  n.pc = "bump" /\ n.cur = q.cur
        <4>1. n = [q EXCEPT !.pc = "bump", !.rev = x]
          BY <3>1, SessionFields
        <4>2. q \in Requests
          BY DEF SessionType
        <4> QED
          BY <4>1, <4>2 DEF Requests
      <3> QED
        BY <2>4, <3>1 DEF Check
    <2> QED
      BY <1>1, <2>1, <2>2, <2>3, <2>4
  <1> QED
    BY <1>2 DEF InPipeline, Owning

\* A step of a request leaves every lease with an owner.
LEMMA OwnerStep ==
  ASSUME SessionType, DataType, LeaseHasOwner,
         NEW t \in Threads, Step(t) \/ Arrive(t)
  PROVE  LeaseHasOwner'
  <1> DEFINE Held(c) == \E u \in Threads : req'[u].pc \in Owning /\ req'[u].cur = c
  <1>1. \A u \in Threads \ {t} : req'[u] = req[u]
    BY OthersKept
  <1>2. crashes' = crashes
    BY DEF frozen, database, bounds, outside, Step, Arrive, ApproveCommit,
           CancelCommit, SmartApprove, ClaimBatch, NextChild, FinishBatch, Claim,
           ClaimConflict, Start, Backup, Check, Bump, Push, Verify, Finish,
           FailChange, Release, Refail, CaptureRead, CaptureStore, ChatCreate,
           ChatApprove, ChatApply, PromptShown, ApproveRead, CancelRead,
           ApplyRead, ApplyBatchRead, ChatSubmit, BaselineRead
  <1> SUFFICES ASSUME NEW d \in Devices, lease'[d] # None, ~(crashes > 0)
               PROVE  DeviceOf[lease'[d]] = d /\ Held(lease'[d])
    BY <1>2 DEF LeaseHasOwner, Working
  <1>3. ASSUME lease'[d] = lease[d], NEW u \in Threads, u # t,
               req[u].pc \in Owning, req[u].cur = lease[d]
        PROVE  Held(lease'[d])
    BY <1>1, <1>3
  <1>4. CASE Claim(t)
    <2>1. /\ req[t].pc = "claim" /\ Dev(t) \in Devices
          /\ lease' = [lease EXCEPT ![Dev(t)] = req[t].cur]
      BY <1>4, BatchAssumption DEF Claim, SessionType, Ready, Dev, Rows
    <2>2. req'[t].pc = "start" /\ req'[t].cur = req[t].cur
      BY <1>4, GotoFields DEF Claim
    <2>3. CASE d = Dev(t)
      <3>1. lease'[d] = req[t].cur
        BY <2>1, <2>3 DEF DataType
      <3> QED
        BY <2>2, <2>3, <3>1 DEF Owning, Dev
    <2>4. CASE d # Dev(t)
      <3>1. lease'[d] = lease[d]
        BY <2>1, <2>4 DEF DataType
      <3>2. DeviceOf[lease[d]] = d /\ Working(lease[d])
        BY <3>1 DEF LeaseHasOwner
      <3>3. PICK u \in Threads : req[u].pc \in Owning /\ req[u].cur = lease[d]
        BY <3>2 DEF Working
      <3>4. u # t
        BY <2>1, <3>3 DEF Owning
      <3> QED
        BY <1>3, <3>1, <3>2, <3>3, <3>4
    <2> QED
      BY <2>3, <2>4
  <1>5. CASE Release(t)
    <2>1. lease' = [lease EXCEPT ![Dev(t)] = ReleasedLease(t)]
      BY <1>5 DEF Release
    <2>2. lease'[d] = lease[d] /\ (d = Dev(t) => lease[d] # req[t].cur)
      BY <2>1 DEF ReleasedLease, DataType
    <2>3. DeviceOf[lease[d]] = d /\ Working(lease[d])
      BY <2>2 DEF LeaseHasOwner
    <2>4. PICK u \in Threads : req[u].pc \in Owning /\ req[u].cur = lease[d]
      BY <2>3 DEF Working
    <2>5. u # t
      BY <2>2, <2>3, <2>4 DEF Dev
    <2> QED
      BY <1>3, <2>2, <2>3, <2>4, <2>5
  <1>6. CASE lease' = lease /\ ~Release(t)
    <2>1. DeviceOf[lease[d]] = d /\ Working(lease[d])
      BY <1>6 DEF LeaseHasOwner
    <2>2. PICK u \in Threads : req[u].pc \in Owning /\ req[u].cur = lease[d]
      BY <2>1 DEF Working
    <2>3. CASE u = t
      <3>1. req'[t].pc \in Owning /\ req'[t].cur = lease[d]
        BY <1>6, <2>2, <2>3, OneWayOut DEF InPipeline
      <3> QED
        BY <1>6, <2>1, <3>1
    <2> QED
      BY <1>3, <1>6, <2>1, <2>2, <2>3
  <1> QED
    BY <1>4, <1>5, <1>6, Resources

\* While the worker has not been restarted, every lease is held by a request
\* that is still under way: failures, exceptions and refusals all give it back.
THEOREM LeasesHaveOwners == Spec => []LeaseHasOwner
  <1>1. Init => LeaseHasOwner
    BY DEF Init, LeaseHasOwner
  <1>2. LeaseHasOwner /\ TypeOK /\ [Next]_vars => LeaseHasOwner'
    <2> SUFFICES ASSUME LeaseHasOwner, TypeOK, [Next]_vars PROVE LeaseHasOwner'
      OBVIOUS
    <2>0. SessionType /\ DataType
      BY TypeParts
    <2>1. CASE \E t \in Threads : Step(t) \/ Arrive(t)
      BY <2>0, <2>1, OwnerStep
    <2>2. CASE Crash
      <3>1. crashes' > 0
        BY <2>0, <2>2 DEF Crash, DataType
      <3> QED
        BY <3>1 DEF LeaseHasOwner
    <2>3. ASSUME NEW a \in Admins, AdminReleaseCommit(a) PROVE LeaseHasOwner'
      <3>1. /\ UNCHANGED <<req, crashes>>
            /\ lease' = [lease EXCEPT ![releasing[a].dev] = None]
        BY <2>3 DEF AdminReleaseCommit, bounds
      <3>2. \A d \in Devices : lease'[d] # None => lease'[d] = lease[d]
        BY <2>0, <3>1 DEF DataType
      <3> QED
        BY <3>1, <3>2 DEF LeaseHasOwner, Working
    <2>4. CASE UNCHANGED <<req, lease, crashes>>
      BY <2>4 DEF LeaseHasOwner, Working
    <2> QED
      BY <2>1, <2>2, <2>3, <2>4
      DEF Next, vars, Preview, MoveDrafts, AdminStep, AdminReleaseRead, Drift, outside,
          bounds, database
  <1> QED
    BY <1>1, <1>2, TypeCorrect, PTL DEF Spec

-----------------------------------------------------------------------------
(* A running change can be found through its lease.                        *)

\* Which lease names which change; what a release may rely on.
LeaseBook ==
    /\ \A d \in Devices : lease[d] # None => DeviceOf[lease[d]] = d
    /\ RunningIsLeased
    /\ \A t \in Threads : req[t].pc = "release" => status[req[t].cur] # "running"
    /\ \A a \in Admins : releasing[a] # None =>
          /\ lease[releasing[a].dev] = releasing[a].chg
          /\ ~releasing[a].fail => status[releasing[a].chg] # "running"

\* Only a claim sets a change running.
LEMMA OnlyClaimRuns ==
  ASSUME SessionType, DataType, NEW t \in Threads, Step(t) \/ Arrive(t),
         NEW c \in Changes, status'[c] = "running"
  PROVE  status[c] = "running" \/ (Claim(t) /\ c = req[t].cur)
  <1> USE DEF frozen, database, outside
  <1>1. c \in Rows /\ c \notin Batches
    BY BatchAssumption DEF Rows
  <1>2. CASE ChatCreate(t)
    BY <1>1, <1>2 DEF ChatCreate, Create
  <1>3. CASE ApproveCommit(t) \/ CancelCommit(t)
    BY <1>1, <1>3 DEF ApproveCommit, CancelCommit
  <1>4. CASE SmartApprove(t) \/ Finish(t) \/ FailChange(t) \/ Refail(t) \/ Claim(t)
    BY <1>1, <1>4 DEF SmartApprove, Finish, FailChange, Refail, Claim, DataType
  <1>5. CASE ClaimBatch(t) \/ FinishBatch(t)
    <2>1. req[t].job \in Batches
      BY <1>5 DEF ClaimBatch, FinishBatch, SessionType, Ready
    <2> QED
      BY <1>1, <1>5, <2>1 DEF ClaimBatch, FinishBatch, DataType
  <1>6. CASE NextChild(t) \/ ClaimConflict(t) \/ Start(t) \/ Check(t) \/ Push(t)
             \/ PromptShown(t) \/ CaptureRead(t) \/ ChatApprove(t) \/ ChatApply(t)
    BY <1>6 DEF NextChild, ClaimConflict, Start, Check, Push, PromptShown,
                CaptureRead, ChatApprove, ChatApply
  <1>7. CASE Backup(t) \/ Bump(t) \/ Verify(t) \/ Release(t) \/ CaptureStore(t)
    BY <1>7 DEF Backup, Bump, Verify, Release, CaptureStore
  <1>8. CASE Arrive(t)
    BY <1>8 DEF Arrive, ApproveRead, CancelRead, ApplyRead, ApplyBatchRead,
                ChatSubmit, BaselineRead
  <1> QED
    BY <1>2, <1>3, <1>4, <1>5, <1>6, <1>7, <1>8 DEF Step

\* A request on its way to release has settled its change.
LEMMA SettledStep ==
  ASSUME SessionType, DataType, NEW t \in Threads, Step(t) \/ Arrive(t),
         req'[t].pc = "release"
  PROVE  status'[req'[t].cur] # "running"
  <1>1. InPipeline(t) /\ req[t].cur \in Rows
    BY RouteOf DEF Route, Owning, InPipeline, SessionType, Ready, Rows
  <1>2. ~Release(t)
    BY GotoFields, EndFields DEF Release
  <1>3. (Finish(t) \/ FailChange(t)) /\ req'[t].cur = req[t].cur
    BY <1>1, <1>2, OneWayOut
  <1> QED
    BY <1>1, <1>3 DEF Finish, FailChange, DataType

\* What a step of a request does to the leases and to those who rely on them.
LEMMA BookStep ==
  ASSUME SessionType, DataType, LeaseHeld, LeaseBook,
         NEW t \in Threads, Step(t) \/ Arrive(t)
  PROVE  LeaseBook'
  <1>1. \A u \in Threads \ {t} : req'[u] = req[u]
    BY OthersKept
  <1>2. UNCHANGED releasing
    BY Resources
  <1>3. \A u \in Threads : InPipeline(u) =>
            req[u].cur \in Changes /\ req[u].cur # None /\ Dev(u) \in Devices
    BY BatchAssumption DEF SessionType, Ready, InPipeline, Dev, Rows
  <1>4. \A c \in Changes : c # None /\ DeviceOf[c] \in Devices
    BY BatchAssumption DEF Rows
  <1>5. Claim(t) =>
          /\ req[t].cur \in Changes /\ Dev(t) \in Devices /\ lease[Dev(t)] = None
          /\ lease' = [lease EXCEPT ![Dev(t)] = req[t].cur]
    BY <1>4 DEF Claim, SessionType, Ready, Dev, Unleased
  <1>6. Release(t) =>
          /\ InPipeline(t) /\ req[t].pc = "release"
          /\ lease' = [lease EXCEPT ![Dev(t)] = ReleasedLease(t)]
    BY DEF Release, InPipeline, Owning
  <1>7. \A d \in Devices : lease'[d] # lease[d] =>
          \/ Claim(t) /\ d = Dev(t) /\ lease[d] = None /\ lease'[d] = req[t].cur
          \/ /\ Release(t) /\ d = Dev(t) /\ lease[d] = req[t].cur /\ lease'[d] = None
    BY <1>5, <1>6, Resources DEF ReleasedLease, DataType
  <1>8. \A d \in Devices : lease'[d] # None => DeviceOf[lease'[d]] = d
    BY <1>7 DEF LeaseBook, Dev
  <1>9. ASSUME NEW c \in Changes, status'[c] = "running"
        PROVE  lease'[DeviceOf[c]] = c
    <2>1. CASE Claim(t) /\ c = req[t].cur
      BY <1>5, <2>1 DEF Dev, DataType
    <2>2. CASE status[c] = "running"
      <3>1. lease[DeviceOf[c]] = c
        BY <2>2 DEF LeaseBook, RunningIsLeased
      <3> QED
        BY <1>4, <1>6, <1>7, <2>2, <3>1 DEF LeaseBook
    <2> QED
      BY <1>9, <2>1, <2>2, OnlyClaimRuns
  <1>10. ASSUME NEW u \in Threads, req'[u].pc = "release"
         PROVE  status'[req'[u].cur] # "running"
    <2>1. CASE u = t
      BY <1>10, <2>1, SettledStep
    <2>2. CASE u # t
      <3>1. req'[u] = req[u] /\ InPipeline(u)
        BY <1>1, <1>10, <2>2 DEF InPipeline, Owning
      <3>2. lease[Dev(u)] = req[u].cur /\ status[req[u].cur] # "running"
        BY <1>10, <3>1 DEF LeaseHeld, LeaseBook
      <3>3. ~(Claim(t) /\ req[u].cur = req[t].cur)
        BY <1>3, <1>5, <3>1, <3>2 DEF Dev
      <3> QED
        BY <1>3, <3>1, <3>2, <3>3, OnlyClaimRuns
    <2> QED
      BY <2>1, <2>2
  <1>11. ASSUME NEW a \in Admins, releasing[a] # None
         PROVE  /\ lease'[releasing[a].dev] = releasing[a].chg
                /\ ~releasing[a].fail => status'[releasing[a].chg] # "running"
    <2> DEFINE d == releasing[a].dev
               c == releasing[a].chg
    <2>1. d \in Devices /\ c \in Changes
      BY <1>11 DEF DataType
    <2>2. lease[d] = c /\ c # None /\ DeviceOf[c] = d
      BY <1>4, <1>11, <2>1 DEF LeaseBook
    <2>3. lease'[d] = c
      BY <1>6, <1>7, <1>11, <2>1, <2>2 DEF LeaseHeld
    <2>4. ~(Claim(t) /\ c = req[t].cur)
      BY <1>5, <2>2 DEF Dev
    <2>5. ~releasing[a].fail => status'[c] # "running"
      BY <1>11, <2>1, <2>4, OnlyClaimRuns DEF LeaseBook
    <2> QED
      BY <2>3, <2>5
  <1> QED
    BY <1>2, <1>8, <1>9, <1>10, <1>11 DEF LeaseBook, RunningIsLeased

\* So do the other steps, with at most one Admin.
LEMMA BookOther ==
  ASSUME SessionType, DataType, OneAdmin, LeaseBook,
         \/ \E r \in Jobs : Preview(r)
         \/ \E moved \in SUBSET Jobs : MoveDrafts(moved)
         \/ \E a \in Admins : AdminStep(a)
         \/ Crash
         \/ \E d \in Devices : Drift(d)
  PROVE  LeaseBook'
  <1> USE DEF frozen, database, bounds, outside
  <1>1. CASE UNCHANGED <<req, lease, releasing, status>>
    BY <1>1 DEF LeaseBook, RunningIsLeased
  <1>2. CASE Crash
    <2>1. /\ \A t \in Threads : req'[t].pc # "release"
          /\ \A a \in Admins : releasing'[a] = None
          /\ UNCHANGED <<lease, status>>
      BY <1>2 DEF Crash, IdleReq
    <2> QED
      BY <2>1 DEF LeaseBook, RunningIsLeased
  <1>3. ASSUME NEW r \in Jobs, Preview(r) PROVE LeaseBook'
    <2>1. \A c \in Changes : status'[c] = "running" => status[c] = "running"
      BY <1>3 DEF Preview, Create, Rows
    <2>2. \A t \in Threads : req[t].pc = "release" => req[t].cur \in Changes
      BY DEF SessionType, Ready, Owning
    <2>3. \A a \in Admins : releasing[a] # None => releasing[a].chg \in Changes
      BY DEF DataType
    <2> QED
      BY <1>3, <2>1, <2>2, <2>3 DEF Preview, LeaseBook, RunningIsLeased
  <1>4. ASSUME NEW a \in Admins, NEW d \in Devices, AdminReleaseRead(a, d)
        PROVE  LeaseBook'
    <2>1. /\ releasing'[a].dev = d /\ releasing'[a].chg = lease[d]
          /\ releasing'[a].fail = (status[lease[d]] = "running")
          /\ \A b \in Admins \ {a} : releasing'[b] = releasing[b]
      BY <1>4 DEF AdminReleaseRead, DataType
    <2>2. UNCHANGED <<req, lease, status>>
      BY <1>4 DEF AdminReleaseRead
    <2> QED
      BY <2>1, <2>2 DEF LeaseBook, RunningIsLeased
  <1>5. ASSUME NEW a \in Admins, AdminReleaseCommit(a) PROVE LeaseBook'
    <2> DEFINE d == releasing[a].dev
               c == releasing[a].chg
    <2>1. /\ UNCHANGED req /\ releasing[a] # None
          /\ lease' = [lease EXCEPT ![d] = None]
          /\ status' = StatusAfterRelease(a)
          /\ releasing' = [releasing EXCEPT ![a] = None]
      BY <1>5 DEF AdminReleaseCommit
    <2>2. \A b \in Admins : releasing'[b] = None
      BY <2>1 DEF OneAdmin, DataType
    <2>3. \A x \in Changes : status'[x] = "running" => status[x] = "running" /\ x # c
      BY <2>1 DEF StatusAfterRelease, LeaseBook, DataType, Rows
    <2>4. \A x \in Devices : lease'[x] = IF x = d THEN None ELSE lease[x]
      BY <2>1 DEF DataType
    <2>5. lease[d] = c
      BY <2>1 DEF LeaseBook
    <2>6. RunningIsLeased'
      BY <2>3, <2>4, <2>5, BatchAssumption DEF LeaseBook, RunningIsLeased
    <2>7. \A t \in Threads : req[t].pc = "release" => req[t].cur \in Changes
      BY DEF SessionType, Ready, Owning
    <2> QED
      BY <2>1, <2>2, <2>3, <2>4, <2>6, <2>7 DEF LeaseBook
  <1>6. ASSUME NEW moved \in SUBSET Jobs, MoveDrafts(moved) PROVE LeaseBook'
    <2>1. \A c \in Changes : status'[c] = "running" => status[c] = "running"
      BY <1>6, MovedRows DEF Rows
    <2>2. \A t \in Threads : req[t].pc = "release" => req[t].cur \in Changes
      BY DEF SessionType, Ready, Owning
    <2>3. \A a \in Admins : releasing[a] # None => releasing[a].chg \in Changes
      BY DEF DataType
    <2> QED
      BY <1>6, <2>1, <2>2, <2>3 DEF MoveDrafts, LeaseBook, RunningIsLeased
  <1> QED
    BY <1>1, <1>2, <1>3, <1>4, <1>5, <1>6 DEF AdminStep, Drift

\* An Admin can always find a change that a restart left running, and release
\* it: it holds the lease of its device, with one Admin at a time.
THEOREM RunningHoldsLease == ASSUME OneAdmin PROVE Spec => []RunningIsLeased
  <1>1. Init => LeaseBook
    BY DEF Init, LeaseBook, RunningIsLeased, IdleReq, Rows
  <1>2. LeaseBook /\ IInv /\ TypeOK /\ [Next]_vars => LeaseBook'
    <2> SUFFICES ASSUME LeaseBook, IInv, TypeOK, [Next]_vars PROVE LeaseBook'
      OBVIOUS
    <2>1. SessionType /\ DataType /\ LeaseHeld
      BY TypeParts DEF IInv
    <2>2. CASE \E t \in Threads : Step(t) \/ Arrive(t)
      BY <2>1, <2>2, BookStep
    <2>3. CASE UNCHANGED vars
      BY <2>3 DEF vars, LeaseBook, RunningIsLeased
    <2> QED
      BY <2>1, <2>2, <2>3, OneAdmin, BookOther DEF Next
  <1>3. LeaseBook => RunningIsLeased
    BY DEF LeaseBook
  <1> QED
    BY <1>1, <1>2, <1>3, TypeCorrect, Invariant, OneAdmin, PTL DEF Spec
=============================================================================
