-------------------------- MODULE Learning_proofs --------------------------
(***************************************************************************)
(* Reservations and labs keep their promises under any overlap of requests *)
(* and any crash of a lab request, for any users, clients, devices, slots, *)
(* labs and limit, and whatever the rights of the users become.  Then the  *)
(* whole of governance: one administrator, tokens that fit their roles,    *)
(* student work, the authority behind a change and permissions that are    *)
(* handed on, under any interleaving of its parts.                         *)
(***************************************************************************)
EXTENDS Learning, FiniteSetTheorems, SequenceTheorems, WellFoundedInduction, TLAPS

-----------------------------------------------------------------------------
(* What a client may be doing. *)

Asked == [device : Devices, group : Groups \cup {None}, slot : Slots,
          maintenance : BOOLEAN, clear : BOOLEAN]
Creations == [step : {"count", "insert"}, owner : Users, group : Groups]
Operations == [step : {"claim", "provision", "done", "error"}, lab : Labs,
               action : LabActions]

CourseType ==
    /\ booking \in [Clients -> {None} \cup Asked]
    /\ labWork \in [Clients -> {None} \cup Creations \cup Operations]
    /\ lab \in [Labs -> {None} \cup LabRows]
    /\ infra \in [Labs -> {None, "running", "stopped", "deleted"}]
    /\ policy.labs \in Nat

Creates(c) == labWork[c] # None /\ labWork[c].step \in {"count", "insert"}
Operates(c) == labWork[c] # None /\ labWork[c].step \in {"claim", "provision", "done", "error"}
HasLab(c) == labWork[c] # None /\ labWork[c].step \in {"provision", "done", "error"}

(* A lab is never removed, only marked. *)
Existing == \A c \in Clients : Operates(c) => lab[labWork[c].lab] # None

(* Who checks before an insert has the write lock until it has inserted. *)
Locked ==
    /\ \A c \in Clients : booking[c] # None \/ Creates(c) => writer = c
    /\ \A c \in Clients : booking[c] = None \/ labWork[c] = None

(* So what was checked still holds. *)
NoClash ==
    \A c \in Clients : booking[c] # None /\ booking[c].clear =>
        ~ \E b \in booked : b.device = booking[c].device /\ b.slot = booking[c].slot
Below ==
    \A c \in Clients : Creates(c) /\ labWork[c].step = "insert" =>
        Cardinality(LabsOf(labWork[c].owner)) < policy.labs

(* An operation has its lab to itself until it says what became of it. *)
Claimed ==
    /\ \A c \in Clients : HasLab(c) =>
         lab[labWork[c].lab] # None /\ lab[labWork[c].lab].status \in {"busy", "provisioning"}
    /\ \A c, d \in Clients : HasLab(c) /\ HasLab(d) /\ labWork[c].lab = labWork[d].lab => c = d
    /\ \A c \in Clients : HasLab(c) /\ labWork[c].step = "done" =>
         infra[labWork[c].lab] = Reached(lab[labWork[c].lab].time, labWork[c].action)

CourseInv ==
    /\ CourseType /\ Existing /\ Locked /\ NoClash /\ NoDoubleBooking
    /\ Below /\ Claimed /\ LabTellsTruth

-----------------------------------------------------------------------------
(* Types. *)

LEMMA Outcomes ==
    /\ \A a \in LabActions : StatusAfter(a) \in {"running", "stopped", "deleted"}
    /\ \A s \in {None, "running", "stopped", "deleted"} : Ended(s) \in {s, "stopped"}
BY DEF LabActions, StatusAfter, Ended

LEMMA Kinds ==
    ASSUME NEW w \in {None} \cup Creations \cup Operations, w # None
    PROVE  /\ w.step \in {"count", "insert"} => w \in Creations
           /\ w.step \in {"claim", "provision", "done", "error"} => w \in Operations
BY DEF Creations, Operations

(* What a step of a reservation does, whoever asks for it. *)
Begun(c, new) ==
    /\ booking[c] = None /\ Free(c) /\ writer' = c /\ ~new.clear
    /\ booking' = [booking EXCEPT ![c] = new] /\ booked' = booked
Cancelled(b) == writer = None /\ booked' = booked \ {b} /\ UNCHANGED <<booking, writer>>

LEMMA ReserveForms ==
    ASSUME ReserveStep
    PROVE  \/ \E c \in Clients : ReserveCheck(c) \/ ReserveCommit(c) \/ \E new \in Asked : Begun(c, new)
           \/ \E b \in booked : Cancelled(b)
<1>1. ASSUME NEW c \in Clients, NEW u \in Users, NEW d \in Devices, NEW g \in Groups \cup {None},
             NEW s \in Slots, NEW m \in BOOLEAN, ReserveBegin(c, u, d, g, s, m)
      PROVE  \E new \in Asked : Begun(c, new)
  <2> DEFINE new == [device |-> d, group |-> g, slot |-> s, maintenance |-> m, clear |-> FALSE]
  <2>1. new \in Asked
    BY Zenon DEF Asked
  <2>2. /\ booking' = [booking EXCEPT ![c] = new]
        /\ booking[c] = None /\ Free(c) /\ writer' = c /\ booked' = booked
    BY <1>1, Zenon DEF ReserveBegin
  <2>3. ~new.clear
    OBVIOUS
  <2>4. Begun(c, new)
    BY <2>2, <2>3, Zenon DEF Begun
  <2> QED BY <2>1, <2>4, Zenon
<1>2. ASSUME NEW c \in Clients,
             \E u \in Users, d \in Devices, g \in Groups \cup {None}, s \in Slots, m \in BOOLEAN :
                 ReserveBegin(c, u, d, g, s, m)
      PROVE  \E new \in Asked : Begun(c, new)
  <2>1. PICK u \in Users, d \in Devices, g \in Groups \cup {None}, s \in Slots, m \in BOOLEAN :
               ReserveBegin(c, u, d, g, s, m)
    BY <1>2, Zenon
  <2> QED BY <1>1, <2>1, Zenon
<1>3. ASSUME NEW u \in Users, NEW b \in booked, CancelReservation(u, b) PROVE Cancelled(b)
  BY <1>3 DEF CancelReservation, Cancelled
<1>4. CASE \E u \in Users, b \in booked : CancelReservation(u, b)
  BY <1>3, <1>4, Zenon
<1> QED BY <1>2, <1>4, Zenon DEF ReserveStep

LEMMA ReserveTypes ==
    ASSUME CourseType, ReserveStep, UNCHANGED <<lab, labWork, infra>>
    PROVE  CourseType' /\ policy' = policy
<1>p. policy' = policy
  BY DEF ReserveStep, ReserveCheck, ReserveCommit, ReserveBegin, CancelReservation
<1>1. ASSUME NEW c \in Clients, ReserveCheck(c) PROVE booking' \in [Clients -> {None} \cup Asked]
  <2>1. booking[c] \in Asked
    BY <1>1 DEF CourseType, ReserveCheck
  <2>2. [booking[c] EXCEPT !.clear = TRUE] \in Asked
    BY <2>1 DEF Asked
  <2>3. \/ booking' = [booking EXCEPT ![c] = None]
        \/ booking' = [booking EXCEPT ![c] = [booking[c] EXCEPT !.clear = TRUE]]
    BY <1>1 DEF ReserveCheck
  <2> QED BY <2>2, <2>3 DEF CourseType
<1>2. ASSUME NEW c \in Clients, ReserveCommit(c) PROVE booking' \in [Clients -> {None} \cup Asked]
  BY <1>2 DEF ReserveCommit, CourseType
<1>3. ASSUME NEW c \in Clients, NEW new \in Asked, Begun(c, new)
      PROVE  booking' \in [Clients -> {None} \cup Asked]
  BY <1>3 DEF Begun, CourseType
<1>4. ASSUME NEW b \in booked, Cancelled(b) PROVE booking' \in [Clients -> {None} \cup Asked]
  BY <1>4 DEF Cancelled, CourseType
<1>5. booking' \in [Clients -> {None} \cup Asked]
  BY ReserveForms, <1>1, <1>2, <1>3, <1>4, Zenon
<1> QED BY <1>p, <1>5 DEF CourseType

\* A step of one client's lab request.
LabMove(c) ==
    \/ LabCount(c) \/ ActionClaim(c) \/ LabDone(c) \/ LabCrash(c)
    \/ \E done \in BOOLEAN : Provide(c, done)
    \/ \E l \in Labs : LabInsert(c, l)
    \/ \E u, owner \in Users, g \in Groups : LabRequest(c, u, g, owner)
    \/ \E u \in Users, l \in Labs, a \in LabActions : ActionRead(c, u, l, a)

LEMMA LabForms ==
    ASSUME LabStep
    PROVE  (\E c \in Clients : LabMove(c)) \/ (\E l \in Labs : LabExpires(l))
BY Zenon DEF LabStep, LabMove

LEMMA LabTypes ==
    ASSUME CourseType, Existing, LabStep
    PROVE  CourseType'
<1> DEFINE Works == {None} \cup Creations \cup Operations
           WorksAre == labWork' \in [Clients -> Works]
           LabsAre == lab' \in [Labs -> {None} \cup LabRows]
           InfraIs == infra' \in [Labs -> {None, "running", "stopped", "deleted"}]
<1>1. ASSUME NEW c \in Clients, NEW w \in Works, Doing(c, w) PROVE WorksAre
  BY <1>1 DEF Doing, CourseType
<1>2. ASSUME NEW l \in Labs, NEW s \in LabStatuses, lab[l] # None,
             lab' = [lab EXCEPT ![l].status = s]
      PROVE  LabsAre
  <2>1. lab[l] \in LabRows
    BY <1>2 DEF CourseType
  <2>2. [lab[l] EXCEPT !.status = s] \in LabRows
    BY <2>1 DEF LabRows
  <2> QED BY <1>2, <2>2 DEF CourseType
<1>3. ASSUME NEW c \in Clients, NEW u, NEW g \in Groups, NEW owner \in Users, LabRequest(c, u, g, owner)
      PROVE  WorksAre /\ LabsAre /\ InfraIs
  <2>1. [step |-> "count", owner |-> owner, group |-> g] \in Works
    BY DEF Creations
  <2>2. WorksAre
    BY <1>1, <1>3, <2>1 DEF LabRequest
  <2> QED BY <1>3, <2>2 DEF LabRequest, CourseType
<1>4. ASSUME NEW c \in Clients, LabCount(c)
      PROVE  WorksAre /\ LabsAre /\ InfraIs
  <2>1. labWork[c] \in Creations
    BY <1>4, Kinds DEF LabCount, CourseType
  <2>2. [labWork[c] EXCEPT !.step = "insert"] \in Works
    BY <2>1 DEF Creations
  <2>3. Doing(c, None) \/ Doing(c, [labWork[c] EXCEPT !.step = "insert"])
    BY <1>4 DEF LabCount
  <2>4. WorksAre
    BY <1>1, <2>2, <2>3
  <2> QED BY <1>4, <2>4 DEF LabCount, CourseType
<1>5. ASSUME NEW c \in Clients, NEW l \in Labs, LabInsert(c, l)
      PROVE  WorksAre /\ LabsAre /\ InfraIs
  <2> DEFINE new == [owner |-> labWork[c].owner, group |-> labWork[c].group,
                     status |-> "provisioning", time |-> "runs"]
             work == [step |-> "provision", lab |-> l, action |-> "stop"]
  <2>1. labWork[c] \in Creations
    BY <1>5, Kinds DEF LabInsert, CourseType
  <2>2. new \in LabRows
    BY <2>1 DEF Creations, LabRows, LabStatuses
  <2>3. work \in Works
    BY DEF Operations, LabActions
  <2>4. Doing(c, work) /\ lab' = [lab EXCEPT ![l] = new]
    BY <1>5 DEF LabInsert
  <2>5. WorksAre
    BY <1>1, <2>3, <2>4
  <2>6. LabsAre
    BY <2>2, <2>4 DEF CourseType
  <2> QED BY <1>5, <2>5, <2>6 DEF LabInsert, CourseType
<1>6. ASSUME NEW c \in Clients, NEW u, NEW l \in Labs, NEW a \in LabActions, ActionRead(c, u, l, a)
      PROVE  WorksAre /\ LabsAre /\ InfraIs
  <2>1. [step |-> "claim", lab |-> l, action |-> a] \in Works
    BY DEF Operations
  <2>2. WorksAre
    BY <1>1, <1>6, <2>1 DEF ActionRead
  <2> QED BY <1>6, <2>2 DEF ActionRead, CourseType
<1>7. ASSUME NEW c \in Clients, ActionClaim(c)
      PROVE  WorksAre /\ LabsAre /\ InfraIs
  <2>1. labWork[c] \in Operations
    BY <1>7, Kinds DEF ActionClaim, CourseType
  <2> DEFINE l == labWork[c].lab
  <2>2. l \in Labs /\ [labWork[c] EXCEPT !.step = "provision"] \in Works
    BY <2>1 DEF Operations
  <2>3. Doing(c, None) \/ Doing(c, [labWork[c] EXCEPT !.step = "provision"])
    BY <1>7 DEF ActionClaim
  <2>4. WorksAre
    BY <1>1, <2>2, <2>3
  <2>5. CASE Claimable(l)
    <3>1. lab' = [lab EXCEPT ![l].status = "busy"]
      BY <1>7, <2>5 DEF ActionClaim
    <3>2. lab[l] # None
      BY <1>7, <2>1 DEF ActionClaim, Existing, Operates, Operations
    <3>3. LabsAre
      BY <1>2, <2>2, <3>1, <3>2 DEF LabStatuses
    <3> QED BY <1>7, <2>4, <3>3 DEF ActionClaim, CourseType
  <2>6. CASE ~Claimable(l)
    BY <1>7, <2>4, <2>6 DEF ActionClaim, CourseType
  <2> QED BY <2>5, <2>6
<1>8. ASSUME NEW c \in Clients, NEW done \in BOOLEAN, Provide(c, done)
      PROVE  WorksAre /\ LabsAre /\ InfraIs
  <2>1. labWork[c] \in Operations
    BY <1>8, Kinds DEF Provide, CourseType
  <2> DEFINE l == labWork[c].lab
  <2>2. PICK step \in {"error", "done"} : Doing(c, [labWork[c] EXCEPT !.step = step])
    BY <1>8 DEF Provide
  <2>3. l \in Labs /\ labWork[c].action \in LabActions
        /\ [labWork[c] EXCEPT !.step = step] \in Works
    BY <2>1 DEF Operations
  <2>4. WorksAre
    BY <1>1, <2>2, <2>3
  <2>5. infra' = [infra EXCEPT ![l] = Reached(lab[l].time, labWork[c].action)] \/ infra' = [infra EXCEPT ![l] = @]
    BY <1>8 DEF Provide
  <2>6. Reached(lab[l].time, labWork[c].action) \in {"running", "stopped", "deleted"}
    BY <2>3, Outcomes DEF Reached
  <2>7. InfraIs
    BY <2>3, <2>5, <2>6 DEF CourseType
  <2> QED BY <1>8, <2>4, <2>7 DEF Provide, CourseType
<1>9. ASSUME NEW c \in Clients, LabDone(c)
      PROVE  WorksAre /\ LabsAre /\ InfraIs
  <2>1. labWork[c] \in Operations
    BY <1>9, Kinds DEF LabDone, CourseType
  <2> DEFINE l == labWork[c].lab
             s == IF labWork[c].step = "done" THEN StatusAfter(labWork[c].action) ELSE "failed"
  <2>2. l \in Labs /\ s \in LabStatuses
    BY <2>1, Outcomes DEF Operations, LabStatuses
  <2>3. WorksAre
    BY <1>1, <1>9 DEF LabDone
  <2>4. lab' = [lab EXCEPT ![l].status = s]
    BY <1>9 DEF LabDone
  <2>5. lab[l] # None
    BY <1>9, <2>1 DEF LabDone, Existing, Operates, Operations
  <2>6. LabsAre
    BY <1>2, <2>2, <2>4, <2>5
  <2> QED BY <1>9, <2>3, <2>6 DEF LabDone, CourseType
<1>10. ASSUME NEW c \in Clients, LabCrash(c)
       PROVE  WorksAre /\ LabsAre /\ InfraIs
  <2>1. WorksAre
    BY <1>1, <1>10 DEF LabCrash
  <2> QED BY <1>10, <2>1 DEF LabCrash, CourseType
<1>11. ASSUME NEW c \in Clients, LabMove(c) PROVE WorksAre /\ LabsAre /\ InfraIs
  BY <1>3, <1>4, <1>5, <1>6, <1>7, <1>8, <1>9, <1>10, <1>11 DEF LabMove
<1>12. ASSUME NEW l \in Labs, LabExpires(l) PROVE WorksAre /\ LabsAre /\ InfraIs
  <2>1. lab[l] \in LabRows
    BY <1>12 DEF LabExpires, CourseType
  <2>2. [lab[l] EXCEPT !.time = "over"] \in LabRows
    BY <2>1 DEF LabRows
  <2>3. infra[l] \in {None, "running", "stopped", "deleted"}
    BY DEF CourseType
  <2>4. Ended(infra[l]) \in {None, "running", "stopped", "deleted"}
    BY <2>3, Outcomes
  <2> QED BY <1>12, <2>2, <2>4 DEF LabExpires, CourseType
<1>13. booking' = booking /\ policy' = policy
  BY DEF LabStep
<1> QED BY <1>11, <1>12, <1>13, LabForms DEF CourseType

-----------------------------------------------------------------------------
(* Reservations. *)

OneRequest == \A c \in Clients : booking[c] = None \/ labWork[c] = None

\* Only the client with the write lock has anything to insert.
LEMMA LockIsExclusive ==
    ASSUME Locked
    PROVE  /\ \A c, d \in Clients : booking[c] # None /\ booking[d] # None => c = d
           /\ \A c \in Clients : Free(c) =>
                \A d \in Clients : booking[d] # None \/ Creates(d) => d = c
BY LearningConstants DEF Locked, Free

LEMMA BookingKept ==
    ASSUME CourseType, Locked, NoClash, NoDoubleBooking, ReserveStep,
           UNCHANGED <<lab, labWork, infra>>, OneRequest'
    PROVE  Locked' /\ NoClash' /\ NoDoubleBooking'
<1> USE LearningConstants
<1>1. ASSUME NEW c \in Clients, ReserveCheck(c) PROVE Locked' /\ NoClash' /\ NoDoubleBooking'
  <2>1. writer = c /\ booking[c] \in Asked /\ booked' = booked
    BY <1>1 DEF ReserveCheck, Locked, CourseType
  <2>2. \A d \in Clients \ {c} : booking[d] = None /\ ~Creates(d) /\ booking'[d] = booking[d]
    BY <1>1, <2>1 DEF ReserveCheck, Locked, CourseType
  <2>3. ~Creates(c)
    BY <1>1 DEF ReserveCheck, Locked, Creates
  <2>4. booking'[c] # None => writer' = c
    BY <1>1, <2>1 DEF ReserveCheck, CourseType
  <2>5. booking'[c] # None =>
          /\ ~ \E b \in booked : b.device = booking[c].device /\ b.slot = booking[c].slot
          /\ booking'[c].device = booking[c].device /\ booking'[c].slot = booking[c].slot
    BY <1>1, <2>1 DEF ReserveCheck, CourseType, Asked
  <2>6. Locked'
    BY <2>2, <2>3, <2>4 DEF Locked, Creates, OneRequest
  <2>7. NoClash'
    BY <2>1, <2>2, <2>5 DEF NoClash
  <2> QED BY <2>1, <2>6, <2>7 DEF NoDoubleBooking
<1>2. ASSUME NEW c \in Clients, ReserveCommit(c) PROVE Locked' /\ NoClash' /\ NoDoubleBooking'
  <2>1. writer = c /\ ~Creates(c)
    BY <1>2 DEF ReserveCommit, Locked, Creates
  <2>2. \A d \in Clients : booking'[d] = None /\ ~Creates(d)
    BY <1>2, <2>1 DEF ReserveCommit, Locked, CourseType
  <2>3. Locked' /\ NoClash'
    BY <2>2 DEF Locked, NoClash, Creates
  <2>4. ~ \E b \in booked : b.device = booking[c].device /\ b.slot = booking[c].slot
    BY <1>2 DEF ReserveCommit, NoClash
  <2> DEFINE row == [id |-> Cardinality(booked), device |-> booking[c].device,
                     group |-> booking[c].group, slot |-> booking[c].slot,
                     maintenance |-> booking[c].maintenance]
  <2>5. PICK new : booked' = booked \cup {new} /\ new.device = booking[c].device /\ new.slot = booking[c].slot
    <3>1. booked' = booked \cup {row}
      BY <1>2 DEF ReserveCommit
    <3>2. row.device = booking[c].device /\ row.slot = booking[c].slot
      OBVIOUS
    <3> HIDE DEF row
    <3> QED BY <3>1, <3>2
  <2> HIDE DEF row
  <2>6. \A b \in booked : ~(b.device = new.device /\ b.slot = new.slot)
    BY <2>4, <2>5
  <2>7. NoDoubleBooking'
    BY <2>5, <2>6 DEF NoDoubleBooking
  <2> QED BY <2>3, <2>7
<1>3. ASSUME NEW c \in Clients, NEW new \in Asked, Begun(c, new)
      PROVE  Locked' /\ NoClash' /\ NoDoubleBooking'
  <2>1. \A d \in Clients \ {c} : booking[d] = None /\ ~Creates(d) /\ booking'[d] = None
    BY <1>3, LockIsExclusive DEF Begun, CourseType
  <2>2. booking'[c] = new
    BY <1>3 DEF Begun, CourseType
  <2>3. Locked'
    <3>1. writer' = c
      BY <1>3 DEF Begun
    <3>2. \A d \in Clients \ {c} : booking'[d] = None /\ ~Creates(d)'
      BY <2>1 DEF Creates
    <3> QED BY <3>1, <3>2 DEF Locked, OneRequest
  <2>4. NoClash'
    BY <1>3, <2>1, <2>2 DEF Begun, NoClash
  <2> QED BY <1>3, <2>3, <2>4 DEF Begun, NoDoubleBooking
<1>4. ASSUME NEW b \in booked, Cancelled(b) PROVE Locked' /\ NoClash' /\ NoDoubleBooking'
  BY <1>4 DEF Cancelled, Locked, Creates, NoClash, NoDoubleBooking
<1> QED BY ReserveForms, <1>1, <1>2, <1>3, <1>4, Zenon

-----------------------------------------------------------------------------
(* Labs. *)

\* It moves that client's request only.
LEMMA OwnRequest ==
    ASSUME CourseType, NEW c \in Clients, LabMove(c)
    PROVE  /\ \A d \in Clients \ {c} : labWork'[d] = labWork[d]
           /\ \A d \in Clients \ {c} : Creates(d)' = Creates(d) /\ HasLab(d)' = HasLab(d)
                                       /\ Operates(d)' = Operates(d)
<1>1. \A d \in Clients \ {c} : labWork'[d] = labWork[d]
  BY DEF LabMove, LabCount, ActionClaim, LabDone, LabCrash, Provide, LabInsert, LabRequest,
         ActionRead, Doing, CourseType
<1> QED BY <1>1 DEF Creates, HasLab, Operates

\* Where it is afterwards.
LEMMA ReadWork ==
    ASSUME CourseType, NEW c \in Clients, NEW u \in Users, NEW l \in Labs, NEW a \in LabActions,
           ActionRead(c, u, l, a)
    PROVE  labWork'[c].step = "claim" /\ labWork'[c].lab = l /\ lab[l] # None
BY DEF ActionRead, Doing, CourseType

LEMMA InsertWork ==
    ASSUME CourseType, NEW c \in Clients, NEW l \in Labs, LabInsert(c, l)
    PROVE  labWork'[c].step = "provision" /\ labWork'[c].lab = l
BY DEF LabInsert, Doing, CourseType

LEMMA OperationWork ==
    ASSUME CourseType, NEW c \in Clients, labWork[c] # None,
           labWork[c].step \in {"claim", "provision", "done", "error"},
           NEW s, Doing(c, [labWork[c] EXCEPT !.step = s])
    PROVE  /\ labWork'[c].step = s /\ labWork'[c].lab = labWork[c].lab
           /\ labWork'[c].action = labWork[c].action
           /\ labWork[c] \in Operations
<1>1. labWork[c] \in Operations
  BY Kinds DEF CourseType
<1>2. labWork'[c] = [labWork[c] EXCEPT !.step = s]
  BY DEF Doing, CourseType
<1> QED BY <1>1, <1>2 DEF Operations

\* A request that is going to insert got the lock, or has it.
LEMMA CreationKeepsLock ==
    ASSUME CourseType, Locked, NEW c \in Clients, LabMove(c), Creates(c)'
    PROVE  writer' = c
<1>1. CASE \E u, owner \in Users, g \in Groups : LabRequest(c, u, g, owner)
  BY <1>1 DEF LabRequest
<1>2. CASE LabCount(c)
  <2>1. ~Doing(c, None)
    BY DEF Doing, Creates, CourseType
  <2> QED BY <1>2, <2>1 DEF LabCount, Creates, Locked
<1>3. CASE ActionClaim(c) \/ \E done \in BOOLEAN : Provide(c, done)
  <2>1. ~Doing(c, None)
    BY DEF Doing, Creates, CourseType
  <2>2. PICK s \in {"provision", "done", "error"} : Doing(c, [labWork[c] EXCEPT !.step = s])
    BY <1>3, <2>1 DEF ActionClaim, Provide
  <2> QED BY <1>3, <2>2, OperationWork DEF ActionClaim, Provide, Creates
<1>4. CASE LabDone(c) \/ LabCrash(c)
  BY <1>4 DEF LabDone, LabCrash, Doing, Creates, CourseType
<1>5. CASE \E l \in Labs : LabInsert(c, l)
  BY <1>5, InsertWork DEF Creates
<1>6. CASE \E u \in Users, l \in Labs, a \in LabActions : ActionRead(c, u, l, a)
  BY <1>6, ReadWork DEF Creates
<1> QED BY <1>1, <1>2, <1>3, <1>4, <1>5, <1>6 DEF LabMove

LEMMA LabLock ==
    ASSUME CourseType, Locked, NoClash, NoDoubleBooking, LabStep, OneRequest'
    PROVE  Locked' /\ NoClash' /\ NoDoubleBooking'
<1> USE LearningConstants
<1>1. booked' = booked /\ booking' = booking
  BY DEF LabStep
<1>2. ASSUME NEW c \in Clients, LabMove(c) PROVE Locked'
  <2>1. \A d \in Clients \ {c} : Creates(d)' = Creates(d)
    BY <1>2, OwnRequest
  <2>2. \/ UNCHANGED writer
        \/ writer = c /\ writer' = None
        \/ Free(c) /\ writer' = c
    BY <1>2 DEF LabMove, LabCount, ActionClaim, LabDone, LabCrash, Provide, LabInsert, LabRequest,
                ActionRead, Creates, Locked
  <2>3. Creates(c)' => writer' = c
    BY <1>2, CreationKeepsLock
  <2>4. \A d \in Clients \ {c} : booking'[d] # None \/ Creates(d)' => writer' = d
    BY <1>1, <2>1, <2>2, LockIsExclusive DEF Locked
  <2>5. booking'[c] # None => writer' = c
    <3>1. labWork[c] # None \/ writer' = c \/ UNCHANGED writer
      BY <1>2 DEF LabMove, LabCount, ActionClaim, LabDone, LabCrash, Provide, LabInsert,
                  LabRequest, ActionRead
    <3> QED BY <1>1, <3>1 DEF Locked
  <2> QED BY <2>3, <2>4, <2>5 DEF Locked, OneRequest
<1>3. ASSUME NEW l \in Labs, LabExpires(l) PROVE Locked'
  BY <1>1, <1>3 DEF LabExpires, Locked, Creates
<1>4. Locked'
  BY <1>2, <1>3, LabForms
<1> QED BY <1>1, <1>4 DEF NoClash, NoDoubleBooking

-----------------------------------------------------------------------------
(* Labs: rows and the quota. *)

\* A new status.
LEMMA NewStatus ==
    ASSUME CourseType, NEW l \in Labs, lab[l] # None, NEW s \in LabStatuses,
           lab' = [lab EXCEPT ![l].status = s]
    PROVE  /\ \A k \in Labs \ {l} : lab'[k] = lab[k]
           /\ lab'[l] # None /\ lab'[l].status = s /\ lab'[l].owner = lab[l].owner
           /\ lab'[l].time = lab[l].time
<1>1. lab[l] \in LabRows
  BY DEF CourseType
<1>2. [lab[l] EXCEPT !.status = s] \in LabRows
  BY <1>1 DEF LabRows
<1>3. lab'[l] = [lab[l] EXCEPT !.status = s]
  BY DEF CourseType
<1>4. lab'[l] # None
  BY <1>2, <1>3, LearningConstants
<1> QED BY <1>1, <1>3, <1>4 DEF CourseType, LabRows

\* A lab is inserted, claimed, or given back by the request that has it; else it stays.
LEMMA LabEffect ==
    ASSUME CourseType, Existing, Claimed, NEW c \in Clients, LabMove(c)
    PROVE  \/ UNCHANGED lab
           \/ \E l \in Labs : LabInsert(c, l)
           \/ \E l \in Labs, s \in LabStatuses :
                 /\ lab[l] # None /\ lab[l].status # "deleted"
                 /\ lab' = [lab EXCEPT ![l].status = s]
<1>1. CASE ActionClaim(c)
  <2>1. labWork[c] \in Operations /\ Operates(c)
    BY <1>1, Kinds DEF ActionClaim, CourseType, Operates
  <2>2. labWork[c].lab \in Labs /\ lab[labWork[c].lab] # None
    BY <2>1 DEF Operations, Existing
  <2> QED BY <1>1, <2>2 DEF ActionClaim, Claimable, LabStatuses
<1>2. CASE LabDone(c)
  <2> DEFINE s == IF labWork[c].step = "done" THEN StatusAfter(labWork[c].action) ELSE "failed"
  <2>1. labWork[c] \in Operations /\ HasLab(c)
    BY <1>2, Kinds DEF LabDone, CourseType, HasLab
  <2>2. labWork[c].lab \in Labs /\ s \in LabStatuses
    BY <2>1, Outcomes DEF Operations, LabStatuses
  <2>3. lab[labWork[c].lab] # None /\ lab[labWork[c].lab].status # "deleted"
    BY <2>1 DEF Claimed
  <2>4. lab' = [lab EXCEPT ![labWork[c].lab].status = s]
    BY <1>2 DEF LabDone
  <2> QED BY <2>2, <2>3, <2>4
<1>3. CASE ~ActionClaim(c) /\ ~LabDone(c) /\ ~(\E l \in Labs : LabInsert(c, l))
  BY <1>3 DEF LabMove, LabCount, LabCrash, Provide, LabRequest, ActionRead
<1> QED BY <1>1, <1>2, <1>3

\* Labs that exist go on existing.
LEMMA LabsStay ==
    ASSUME CourseType, Existing, Claimed, NEW c \in Clients, LabMove(c), NEW l \in Labs, lab[l] # None
    PROVE  lab'[l] # None
<1>1. ASSUME NEW k \in Labs, LabInsert(c, k) PROVE lab'[l] # None
  BY <1>1 DEF LabInsert, CourseType
<1>2. ASSUME NEW k \in Labs, NEW s \in LabStatuses, lab[k] # None, lab' = [lab EXCEPT ![k].status = s]
      PROVE  lab'[l] # None
  BY <1>2, NewStatus
<1> QED BY <1>1, <1>2, LabEffect

LEMMA ExistingKept ==
    ASSUME CourseType, CourseType', Existing, Claimed, NEW c \in Clients, LabMove(c)
    PROVE  Existing'
<1>1. ASSUME NEW d \in Clients \ {c}, Operates(d)' PROVE lab'[labWork'[d].lab] # None
  <2>1. Operates(d) /\ labWork'[d] = labWork[d]
    BY <1>1, OwnRequest
  <2>2. labWork[d] \in Operations /\ lab[labWork[d].lab] # None
    BY <2>1, Kinds DEF Operates, CourseType, Existing
  <2> QED BY <2>1, <2>2, LabsStay DEF Operations
<1>2. ASSUME Operates(c)' PROVE lab'[labWork'[c].lab] # None
  <2>1. CASE \E u \in Users, l \in Labs, a \in LabActions : ActionRead(c, u, l, a)
    BY <2>1, ReadWork DEF ActionRead
  <2>2. ASSUME NEW l \in Labs, LabInsert(c, l) PROVE lab'[labWork'[c].lab] # None
    <3> DEFINE new == [owner |-> labWork[c].owner, group |-> labWork[c].group,
                       status |-> "provisioning", time |-> "runs"]
    <3>1. labWork[c] \in Creations
      BY <2>2, Kinds DEF LabInsert, CourseType
    <3>2. new \in LabRows
      BY <3>1 DEF Creations, LabRows, LabStatuses
    <3>3. lab'[l] = new
      BY <2>2 DEF LabInsert, CourseType
    <3>4. new # None
      BY <3>2, LearningConstants
    <3> QED BY <2>2, <3>3, <3>4, InsertWork
  <2>3. CASE ActionClaim(c) \/ \E done \in BOOLEAN : Provide(c, done)
    <3>1. ~Doing(c, None)
      BY <1>2 DEF Doing, Operates, CourseType
    <3>2. PICK s \in {"provision", "done", "error"} : Doing(c, [labWork[c] EXCEPT !.step = s])
      BY <2>3, <3>1 DEF ActionClaim, Provide
    <3>3. Operates(c)
      BY <2>3 DEF ActionClaim, Provide, Operates
    <3>4. labWork[c] \in Operations /\ labWork'[c].lab = labWork[c].lab
      BY <3>2, <3>3, OperationWork DEF Operates
    <3> QED BY <3>3, <3>4, LabsStay DEF Operations, Existing
  <2>4. CASE LabCount(c) \/ LabDone(c) \/ LabCrash(c)
    <3>1. ~Doing(c, None)
      BY <1>2 DEF Doing, Operates, CourseType
    <3>2. Doing(c, [labWork[c] EXCEPT !.step = "insert"]) /\ labWork[c] \in Creations
      BY <2>4, <3>1, Kinds DEF LabCount, LabDone, LabCrash, CourseType
    <3>3. labWork'[c].step = "insert"
      BY <3>2 DEF Doing, Creations, CourseType
    <3> QED BY <1>2, <3>3 DEF Operates
  <2>5. CASE \E u, owner \in Users, g \in Groups : LabRequest(c, u, g, owner)
    BY <1>2, <2>5 DEF LabRequest, Doing, Operates, CourseType
  <2> QED BY <2>1, <2>2, <2>3, <2>4, <2>5 DEF LabMove
<1> QED BY <1>1, <1>2 DEF Existing

LEMMA LabsCounted ==
    ASSUME NEW u
    PROVE  /\ IsFiniteSet(LabsOf(u)) /\ Cardinality(LabsOf(u)) \in Nat
           /\ IsFiniteSet(LabsOf(u)') /\ Cardinality(LabsOf(u)') \in Nat
<1>1. LabsOf(u) \subseteq Labs /\ LabsOf(u)' \subseteq Labs
  BY DEF LabsOf
<1> QED BY <1>1, LearningConstants, FS_Subset, FS_CardinalityType

\* A change of status gives nobody a lab.
LEMMA NoMoreLabs ==
    ASSUME CourseType, NEW u,
           \/ UNCHANGED lab
           \/ \E l \in Labs, s \in LabStatuses :
                 /\ lab[l] # None /\ lab[l].status # "deleted"
                 /\ lab' = [lab EXCEPT ![l].status = s]
    PROVE  Cardinality(LabsOf(u)') <= Cardinality(LabsOf(u))
<1>1. ASSUME NEW l \in Labs, NEW s \in LabStatuses, lab[l] # None, lab[l].status # "deleted",
             lab' = [lab EXCEPT ![l].status = s]
      PROVE  LabsOf(u)' \subseteq LabsOf(u)
  BY <1>1, NewStatus DEF LabsOf
<1>2. UNCHANGED lab => LabsOf(u)' \subseteq LabsOf(u)
  BY DEF LabsOf
<1>3. LabsOf(u)' \subseteq LabsOf(u)
  BY <1>1, <1>2 DEF LabsOf
<1> QED BY <1>3, LabsCounted, FS_Subset

\* An insert gives one lab to the owner that was checked.
LEMMA OneMoreLab ==
    ASSUME CourseType, NEW c \in Clients, NEW l \in Labs, LabInsert(c, l), NEW u
    PROVE  Cardinality(LabsOf(u)') <= Cardinality(LabsOf(u)) + (IF u = labWork[c].owner THEN 1 ELSE 0)
<1> DEFINE new == [owner |-> labWork[c].owner, group |-> labWork[c].group,
                   status |-> "provisioning", time |-> "runs"]
<1>1. lab' = [lab EXCEPT ![l] = new] /\ lab[l] = None
  BY DEF LabInsert
<1>2. LabsOf(u)' \subseteq LabsOf(u) \cup (IF u = labWork[c].owner THEN {l} ELSE {})
  BY <1>1 DEF LabsOf, CourseType
<1>3. CASE u = labWork[c].owner
  <2>1. LabsOf(u)' \subseteq LabsOf(u) \cup {l} /\ l \notin LabsOf(u)
    BY <1>1, <1>2, <1>3 DEF LabsOf
  <2>2. /\ IsFiniteSet(LabsOf(u) \cup {l})
        /\ Cardinality(LabsOf(u) \cup {l}) = Cardinality(LabsOf(u)) + 1
    BY <2>1, LabsCounted, FS_AddElement
  <2>3. Cardinality(LabsOf(u)') <= Cardinality(LabsOf(u) \cup {l})
    BY <2>1, <2>2, FS_Subset
  <2> QED BY <1>3, <2>2, <2>3
<1>4. CASE u # labWork[c].owner
  <2>1. LabsOf(u)' \subseteq LabsOf(u)
    BY <1>2, <1>4
  <2>2. Cardinality(LabsOf(u)') <= Cardinality(LabsOf(u))
    BY <2>1, LabsCounted, FS_Subset
  <2> QED BY <1>4, <2>2, LabsCounted
<1> QED BY <1>3, <1>4

\* Who is given a lab more had fewer than the policy allows.
Allowed ==
    \A u \in Users : Cardinality(LabsOf(u)') > Cardinality(LabsOf(u)) =>
        Cardinality(LabsOf(u)') <= policy.labs

LEMMA NobodyMore ==
    ASSUME \A u \in Users : LabsOf(u)' = LabsOf(u)
    PROVE  Allowed
<1> SUFFICES ASSUME NEW u \in Users, Cardinality(LabsOf(u)') > Cardinality(LabsOf(u)) PROVE FALSE
  BY DEF Allowed
<1>1. Cardinality(LabsOf(u)') = Cardinality(LabsOf(u)) /\ Cardinality(LabsOf(u)) \in Nat
  BY LabsCounted
<1> QED BY <1>1

LEMMA QuotaKept ==
    ASSUME CourseType, CourseType', Existing, Claimed, Locked, Below, policy' = policy,
           NEW c \in Clients, LabMove(c)
    PROVE  Below' /\ Allowed
<1> USE LearningConstants
<1>1. LabMove(c) /\ policy.labs \in Nat
  BY DEF CourseType
<1>2. ASSUME NEW l \in Labs, LabInsert(c, l) PROVE Below' /\ Allowed
  <2>1. Creates(c) /\ labWork[c].step = "insert" /\ labWork[c].owner \in Users
    BY <1>2, Kinds DEF LabInsert, Creates, CourseType, Creations
  <2>2. Cardinality(LabsOf(labWork[c].owner)) < policy.labs
    BY <2>1 DEF Below
  <2>3. Allowed
    <3> SUFFICES ASSUME NEW u \in Users, Cardinality(LabsOf(u)') > Cardinality(LabsOf(u))
                 PROVE  Cardinality(LabsOf(u)') <= policy.labs
      BY DEF Allowed
    <3>1. Cardinality(LabsOf(u)) \in Nat /\ Cardinality(LabsOf(u)') \in Nat
      BY LabsCounted
    <3>2. Cardinality(LabsOf(u)') <= Cardinality(LabsOf(u)) + (IF u = labWork[c].owner THEN 1 ELSE 0)
      BY <1>2, OneMoreLab
    <3> QED BY <1>1, <2>2, <3>1, <3>2
  <2>4. \A d \in Clients : ~Creates(d)'
    BY <1>1, <1>2, <2>1, OwnRequest, InsertWork DEF Locked, Creates
  <2> QED BY <2>3, <2>4 DEF Below
<1>3. CASE ~(\E l \in Labs : LabInsert(c, l))
  <2>1. \A u : Cardinality(LabsOf(u)') <= Cardinality(LabsOf(u))
    BY <1>1, <1>3, LabEffect, NoMoreLabs
  <2>2. \A u : Cardinality(LabsOf(u)) \in Nat /\ Cardinality(LabsOf(u)') \in Nat
    BY LabsCounted
  <2>3. Allowed
    BY <2>1, <2>2 DEF Allowed
  <2>4. ASSUME NEW d \in Clients, Creates(d)', labWork'[d].step = "insert",
               NEW o, o = labWork'[d].owner
        PROVE  Cardinality(LabsOf(o)') < policy.labs
    <3>1. CASE d # c
      <4>1. Creates(d) /\ labWork'[d] = labWork[d]
        BY <1>1, <2>4, <3>1, OwnRequest
      <4>2. Cardinality(LabsOf(o)) < policy.labs
        BY <2>4, <4>1 DEF Below
      <4> QED BY <1>1, <2>1, <2>2, <4>2
    <3>2. CASE d = c
      <4>1. CASE LabCount(c)
        <5>1. ~Doing(c, None)
          BY <2>4, <3>2 DEF Doing, Creates, CourseType
        <5>2. /\ Cardinality(LabsOf(labWork[c].owner)) < policy.labs
              /\ Doing(c, [labWork[c] EXCEPT !.step = "insert"])
              /\ labWork[c] \in Creations
          BY <2>2, <4>1, <5>1, Kinds DEF LabCount, CourseType
        <5>3. labWork'[c].owner = labWork[c].owner
          BY <5>2 DEF Doing, Creations, CourseType
        <5>4. Cardinality(LabsOf(o)) < policy.labs
          BY <2>4, <3>2, <5>2, <5>3
        <5> QED BY <1>1, <2>1, <2>2, <5>4
      <4>2. CASE \E u, owner \in Users, g \in Groups : LabRequest(c, u, g, owner)
        BY <2>4, <3>2, <4>2 DEF LabRequest, Doing, CourseType
      <4>3. CASE ActionClaim(c) \/ \E done \in BOOLEAN : Provide(c, done)
        <5>1. ~Doing(c, None)
          BY <2>4, <3>2 DEF Doing, Creates, CourseType
        <5>2. PICK s \in {"provision", "done", "error"} : Doing(c, [labWork[c] EXCEPT !.step = s])
          BY <4>3, <5>1 DEF ActionClaim, Provide
        <5>3. labWork'[c].step = s
          BY <4>3, <5>2, OperationWork DEF ActionClaim, Provide
        <5> QED BY <2>4, <3>2, <5>3
      <4>4. CASE LabDone(c) \/ LabCrash(c)
        BY <2>4, <3>2, <4>4 DEF LabDone, LabCrash, Doing, Creates, CourseType
      <4>5. CASE \E u \in Users, l \in Labs, a \in LabActions : ActionRead(c, u, l, a)
        BY <2>4, <3>2, <4>5, ReadWork
      <4> QED BY <1>1, <1>3, <4>1, <4>2, <4>3, <4>4, <4>5 DEF LabMove
    <3> QED BY <3>1, <3>2
  <2>5. Below'
    <3> SUFFICES ASSUME NEW d \in Clients, Creates(d)', labWork'[d].step = "insert"
                 PROVE  (Cardinality(LabsOf(labWork[d].owner)) < policy.labs)'
      BY DEF Below
    <3>1. PICK o : o = labWork'[d].owner
      OBVIOUS
    <3>2. Cardinality(LabsOf(o)') < policy.labs
      BY <2>4, <3>1
    <3>3. LabsOf(o)' = LabsOf(labWork[d].owner)'
      BY <3>1 DEF LabsOf
    <3> QED BY <3>2, <3>3
  <2> QED BY <2>3, <2>5
<1> QED BY <1>2, <1>3

-----------------------------------------------------------------------------
(* Labs: one operation at a time.                                          *)

LEMMA Holding ==
    ASSUME CourseType, Claimed, NEW c \in Clients, HasLab(c)
    PROVE  /\ labWork[c] \in Operations /\ labWork[c].lab \in Labs
           /\ labWork[c].action \in LabActions
           /\ lab[labWork[c].lab] # None
           /\ lab[labWork[c].lab].status \in {"busy", "provisioning"}
<1>1. labWork[c] \in Operations
  BY Kinds DEF CourseType, HasLab
<1> QED BY <1>1 DEF Operations, Claimed

\* Another client's lab is out of reach.
LEMMA OthersLab ==
    ASSUME CourseType, Existing, Claimed, NEW c \in Clients, LabMove(c),
           NEW d \in Clients \ {c}, HasLab(d)
    PROVE  LET l == labWork[d].lab IN lab'[l] = lab[l] /\ infra'[l] = infra[l]
<1> DEFINE l == labWork[d].lab
<1>1. /\ l \in Labs /\ lab[l] # None /\ lab[l].status \in {"busy", "provisioning"}
  BY Holding
<1>2. HasLab(c) => labWork[c].lab # l
  BY DEF Claimed
<1>3. lab'[l] = lab[l]
  <2>1. ASSUME NEW k \in Labs, LabInsert(c, k) PROVE lab'[l] = lab[l]
    BY <1>1, <2>1 DEF LabInsert, CourseType
  <2>2. CASE ActionClaim(c)
    BY <1>1, <2>2 DEF ActionClaim, Claimable, CourseType
  <2>3. CASE LabDone(c)
    <3>1. HasLab(c)
      BY <2>3 DEF LabDone, HasLab
    <3> QED BY <1>1, <1>2, <2>3, <3>1 DEF LabDone, CourseType
  <2>4. CASE ~ActionClaim(c) /\ ~LabDone(c) /\ ~(\E k \in Labs : LabInsert(c, k))
    BY <2>4 DEF LabMove, LabCount, LabCrash, Provide, LabRequest, ActionRead
  <2> QED BY <2>1, <2>2, <2>3, <2>4
<1>4. infra'[l] = infra[l]
  <2>1. ASSUME NEW done \in BOOLEAN, Provide(c, done) PROVE infra'[l] = infra[l]
    <3>1. HasLab(c)
      BY <2>1 DEF Provide, HasLab
    <3>2. PICK x : infra' = [infra EXCEPT ![labWork[c].lab] = x]
      BY <2>1 DEF Provide
    <3> QED BY <1>1, <1>2, <3>1, <3>2 DEF CourseType
  <2>2. CASE ~(\E done \in BOOLEAN : Provide(c, done))
    BY <2>2 DEF LabMove, LabCount, LabCrash, ActionClaim, LabDone, LabInsert, LabRequest, ActionRead
  <2> QED BY <2>1, <2>2
<1> QED BY <1>3, <1>4

\* How a request comes to hold a lab.
HeldBy(c) ==
    LET l == labWork'[c].lab
    IN  /\ l \in Labs /\ lab'[l].status \in {"busy", "provisioning"}
        /\ \A d \in Clients \ {c} : HasLab(d) => labWork[d].lab # l
        /\ labWork'[c].step = "done" => infra'[l] = Reached(lab'[l].time, labWork'[c].action)

LEMMA ComesToHold ==
    ASSUME CourseType, CourseType', Existing, Claimed, NEW c \in Clients, LabMove(c), HasLab(c)'
    PROVE  HeldBy(c)
<1>1. ASSUME NEW l \in Labs, LabInsert(c, l) PROVE HeldBy(c)
  <2>1. labWork'[c].step = "provision" /\ labWork'[c].lab = l
    BY <1>1, InsertWork
  <2>2. lab[l] = None /\ lab'[l].status = "provisioning"
    BY <1>1 DEF LabInsert, CourseType
  <2>3. \A d \in Clients \ {c} : HasLab(d) => labWork[d].lab # l
    BY <2>2, Holding
  <2> QED BY <2>1, <2>2, <2>3 DEF HeldBy
<1>2. CASE ActionClaim(c)
  <2>1. ~Doing(c, None)
    BY DEF Doing, HasLab, CourseType
  <2>2. /\ Claimable(labWork[c].lab) /\ Operates(c)
        /\ lab' = [lab EXCEPT ![labWork[c].lab].status = "busy"]
        /\ Doing(c, [labWork[c] EXCEPT !.step = "provision"])
    BY <1>2, <2>1 DEF ActionClaim, Operates
  <2>3. /\ labWork'[c].step = "provision" /\ labWork'[c].lab = labWork[c].lab
        /\ labWork[c].lab \in Labs
    BY <2>2, OperationWork DEF Operates, Operations
  <2>4. lab'[labWork[c].lab].status = "busy"
    BY <2>2, <2>3, NewStatus DEF Existing, LabStatuses
  <2>5. \A d \in Clients \ {c} : HasLab(d) => labWork[d].lab # labWork[c].lab
    BY <2>2, Holding DEF Claimable
  <2> QED BY <2>3, <2>4, <2>5 DEF HeldBy
<1>3. ASSUME NEW done \in BOOLEAN, Provide(c, done) PROVE HeldBy(c)
  <2>1. HasLab(c)
    BY <1>3 DEF Provide, HasLab
  <2>2. PICK s \in {"done", "error"} :
            /\ Doing(c, [labWork[c] EXCEPT !.step = s])
            /\ s = "done" => done
    BY <1>3 DEF Provide
  <2>3. /\ labWork'[c].step = s /\ labWork'[c].lab = labWork[c].lab
        /\ labWork'[c].action = labWork[c].action
    BY <2>1, <2>2, OperationWork DEF HasLab
  <2>4. /\ labWork[c].lab \in Labs
        /\ lab[labWork[c].lab].status \in {"busy", "provisioning"} /\ lab' = lab
    BY <1>3, <2>1, Holding DEF Provide
  <2>5. s = "done" => infra'[labWork[c].lab] = Reached(lab[labWork[c].lab].time, labWork[c].action)
    BY <1>3, <2>2, <2>4 DEF Provide, CourseType
  <2>6. \A d \in Clients \ {c} : HasLab(d) => labWork[d].lab # labWork[c].lab
    BY <2>1 DEF Claimed
  <2> QED BY <2>3, <2>4, <2>5, <2>6 DEF HeldBy
<1>4. CASE LabCount(c)
  <2>1. ~Doing(c, None)
    BY DEF Doing, HasLab, CourseType
  <2>2. Doing(c, [labWork[c] EXCEPT !.step = "insert"]) /\ labWork[c] \in Creations
    BY <1>4, <2>1, Kinds DEF LabCount, CourseType
  <2>3. labWork'[c].step = "insert"
    BY <2>2 DEF Doing, Creations, CourseType
  <2> QED BY <2>3 DEF HasLab
<1>5. CASE LabDone(c) \/ LabCrash(c)
  BY <1>5 DEF LabDone, LabCrash, Doing, HasLab, CourseType
<1>6. CASE \E u, owner \in Users, g \in Groups : LabRequest(c, u, g, owner)
  BY <1>6 DEF LabRequest, Doing, HasLab, CourseType
<1>7. CASE \E u \in Users, l \in Labs, a \in LabActions : ActionRead(c, u, l, a)
  BY <1>7, ReadWork DEF HasLab
<1> QED BY <1>1, <1>2, <1>3, <1>4, <1>5, <1>6, <1>7 DEF LabMove

LEMMA ClaimedKept ==
    ASSUME CourseType, CourseType', Existing, Claimed, NEW c \in Clients, LabMove(c)
    PROVE  Claimed'
<1>1. ASSUME NEW d \in Clients \ {c}, HasLab(d)'
      PROVE  /\ HasLab(d) /\ labWork'[d] = labWork[d]
             /\ lab'[labWork[d].lab] = lab[labWork[d].lab]
             /\ infra'[labWork[d].lab] = infra[labWork[d].lab]
  <2>1. HasLab(d) /\ labWork'[d] = labWork[d]
    BY <1>1, OwnRequest
  <2> QED BY <2>1, OthersLab
<1>2. HasLab(c)' => HeldBy(c)
  BY ComesToHold
<1>3. ASSUME NEW d \in Clients, HasLab(d)'
      PROVE  lab'[labWork'[d].lab] # None /\ lab'[labWork'[d].lab].status \in {"busy", "provisioning"}
  <2>1. CASE d = c
    BY <1>2, <1>3, <2>1, ExistingKept DEF HeldBy, Existing, Operates, HasLab
  <2>2. CASE d # c
    BY <1>1, <1>3, <2>2, Holding
  <2> QED BY <2>1, <2>2
<1>4. \A d, e \in Clients : HasLab(d)' /\ HasLab(e)' /\ labWork'[d].lab = labWork'[e].lab => d = e
  BY <1>1, <1>2 DEF HeldBy, Claimed
<1>5. ASSUME NEW d \in Clients, HasLab(d)', labWork'[d].step = "done"
      PROVE  infra'[labWork'[d].lab] = Reached(lab'[labWork'[d].lab].time, labWork'[d].action)
  BY <1>1, <1>2, <1>5 DEF HeldBy, Claimed
<1> QED BY <1>3, <1>4, <1>5 DEF Claimed

LEMMA TruthKept ==
    ASSUME CourseType, Existing, Claimed, LabTellsTruth, NEW c \in Clients, LabMove(c)
    PROVE  LabTellsTruth'
<1> DEFINE True(l) == lab'[l] # None /\ lab'[l].status \in {"running", "stopped", "deleted"}
                        => infra'[l] = IF lab'[l].time = "over" THEN Ended(lab'[l].status)
                                       ELSE lab'[l].status
<1> SUFFICES ASSUME NEW l \in Labs PROVE True(l)
  BY DEF LabTellsTruth
<1>1. CASE UNCHANGED <<lab, infra>>
  BY <1>1 DEF LabTellsTruth
<1>2. ASSUME NEW k \in Labs, LabInsert(c, k) PROVE True(l)
  BY <1>2 DEF LabInsert, CourseType, LabTellsTruth
<1>3. CASE ActionClaim(c)
  <2>1. labWork[c] \in Operations /\ Operates(c)
    BY <1>3, Kinds DEF ActionClaim, CourseType, Operates
  <2>2. labWork[c].lab \in Labs /\ lab[labWork[c].lab] # None
    BY <2>1 DEF Operations, Existing
  <2>3. CASE lab' = [lab EXCEPT ![labWork[c].lab].status = "busy"]
    <3>1. lab'[labWork[c].lab].status = "busy" /\ \A k \in Labs \ {labWork[c].lab} : lab'[k] = lab[k]
      BY <2>2, <2>3, NewStatus DEF LabStatuses
    <3> QED BY <1>3, <3>1 DEF ActionClaim, LabTellsTruth
  <2>4. CASE lab' = lab
    BY <1>3, <2>4 DEF ActionClaim, LabTellsTruth
  <2> QED BY <1>3, <2>3, <2>4 DEF ActionClaim
<1>4. ASSUME NEW done \in BOOLEAN, Provide(c, done) PROVE True(l)
  <2>1. HasLab(c) /\ lab' = lab
    BY <1>4 DEF Provide, HasLab
  <2>2. lab[labWork[c].lab].status \in {"busy", "provisioning"}
    BY <2>1, Holding
  <2>3. l # labWork[c].lab => infra'[l] = infra[l]
    BY <1>4 DEF Provide, CourseType
  <2> QED BY <2>1, <2>2, <2>3 DEF LabTellsTruth
<1>5. CASE LabDone(c)
  <2> DEFINE s == IF labWork[c].step = "done" THEN StatusAfter(labWork[c].action) ELSE "failed"
  <2>1. HasLab(c) /\ infra' = infra /\ lab' = [lab EXCEPT ![labWork[c].lab].status = s]
    BY <1>5 DEF LabDone, HasLab
  <2>2. labWork[c].lab \in Labs /\ s \in LabStatuses /\ lab[labWork[c].lab] # None
    BY <2>1, Holding, Outcomes DEF LabStatuses
  <2> HIDE DEF s
  <2>3. lab'[labWork[c].lab].status = s /\ \A k \in Labs \ {labWork[c].lab} : lab'[k] = lab[k]
    BY <2>1, <2>2, NewStatus
  <2>4. \/ s = "failed"
        \/ infra[labWork[c].lab] = IF lab[labWork[c].lab].time = "over" THEN Ended(s) ELSE s
    BY <2>1 DEF Claimed, Reached, s
  <2> QED BY <2>1, <2>3, <2>4 DEF LabTellsTruth
<1> QED
  BY <1>1, <1>2, <1>3, <1>4, <1>5
     DEF LabMove, LabCount, LabCrash, LabRequest, ActionRead

\* At its deadline a lab is stopped, whatever is being done with it.
LEMMA ExpiryKeeps ==
    ASSUME CourseType, Existing, Below, Claimed, LabTellsTruth, policy' = policy,
           NEW l \in Labs, LabExpires(l)
    PROVE  Existing' /\ Below' /\ Allowed /\ Claimed' /\ LabTellsTruth'
<1>1. /\ lab[l] \in LabRows
      /\ lab'[l] = [lab[l] EXCEPT !.time = "over"] /\ \A k \in Labs \ {l} : lab'[k] = lab[k]
  BY DEF LabExpires, CourseType
<1>2. /\ lab'[l] \in LabRows /\ lab'[l].status = lab[l].status /\ lab'[l].owner = lab[l].owner
      /\ lab'[l].time = "over" /\ lab[l].time = "runs"
  BY <1>1 DEF LabRows, LabExpires
<1>3. \A k \in Labs : /\ (lab'[k] = None) = (lab[k] = None)
                     /\ lab'[k].status = lab[k].status /\ lab'[k].owner = lab[k].owner
  BY <1>1, <1>2, LearningConstants
<1>4. /\ labWork' = labWork
      /\ infra'[l] = Ended(infra[l]) /\ \A k \in Labs \ {l} : infra'[k] = infra[k]
  BY DEF LabExpires, CourseType
<1>5. \A u : LabsOf(u)' = LabsOf(u)
  BY <1>3 DEF LabsOf
<1>6. Allowed
  BY <1>5, NobodyMore
<1>7. Below'
  BY <1>4, <1>5 DEF Below, Creates
<1>8. \A c \in Clients : Operates(c) => labWork[c].lab \in Labs
  BY Kinds DEF Operates, Operations, CourseType
<1>9. Existing'
  BY <1>3, <1>4, <1>8 DEF Existing, Operates
<1>10. \A c \in Clients : HasLab(c) => Operates(c)
  BY DEF HasLab, Operates
<1>11. ASSUME NEW c \in Clients, HasLab(c), labWork[c].step = "done"
       PROVE  infra'[labWork[c].lab] = Reached(lab'[labWork[c].lab].time, labWork[c].action)
  <2>1. infra[labWork[c].lab] = Reached(lab[labWork[c].lab].time, labWork[c].action)
    BY <1>11 DEF Claimed
  <2>2. labWork[c].lab \in Labs
    BY <1>8, <1>10, <1>11
  <2> QED BY <1>1, <1>2, <1>4, <2>1, <2>2 DEF Reached
<1>12. Claimed'
  BY <1>3, <1>4, <1>8, <1>10, <1>11 DEF Claimed, HasLab
<1>13. ASSUME NEW k \in Labs, lab'[k] # None, lab'[k].status \in {"running", "stopped", "deleted"}
       PROVE  infra'[k] = IF lab'[k].time = "over" THEN Ended(lab'[k].status) ELSE lab'[k].status
  <2>1. infra[k] = IF lab[k].time = "over" THEN Ended(lab[k].status) ELSE lab[k].status
    BY <1>3, <1>13 DEF LabTellsTruth
  <2>2. CASE k # l
    BY <1>1, <1>4, <2>1, <2>2
  <2>3. CASE k = l
    BY <1>2, <1>4, <2>1, <2>3
  <2> QED BY <2>2, <2>3
<1>14. LabTellsTruth'
  BY <1>13 DEF LabTellsTruth
<1> QED BY <1>6, <1>7, <1>9, <1>12, <1>14

-----------------------------------------------------------------------------
\* The policy moves only while nobody is between a count and an insert.
LEMMA PolicyKeeps ==
    ASSUME CourseInv, PolicyStep
    PROVE  CourseInv' /\ Allowed
<1>1. PICK u \in Users, new \in Policies : UpdatePolicy(u, new)
  BY DEF PolicyStep
<1>2. /\ policy' = new /\ writer = None
      /\ UNCHANGED <<booked, booking, writer, lab, labWork, infra>>
  BY <1>1 DEF UpdatePolicy, PolicyStep
<1>3. policy'.labs \in Nat
  BY <1>2, ApprovalBounds DEF Policies
<1>4. \A c \in Clients : ~Creates(c)
  BY <1>2, LearningConstants DEF CourseInv, Locked
<1>5. Below'
  BY <1>2, <1>4 DEF Below, Creates
<1>7. CourseType'
  BY <1>2, <1>3 DEF CourseInv, CourseType
<1>8. Existing' /\ Locked' /\ NoClash' /\ NoDoubleBooking' /\ Claimed' /\ LabTellsTruth'
  BY <1>2 DEF CourseInv, Existing, Operates, Locked, Creates, NoClash, NoDoubleBooking, Claimed, HasLab,
              LabTellsTruth
<1>6. \A v : LabsOf(v)' = LabsOf(v)
  BY <1>2 DEF LabsOf
<1> QED BY <1>5, <1>6, <1>7, <1>8, NobodyMore DEF CourseInv

LEMMA CourseKept ==
    ASSUME CourseInv, [CourseNext]_courseVars
    PROVE  CourseInv' /\ Allowed
<1> USE DEF CourseInv
<1>1. CASE UNCHANGED courseVars
  <2>1. \A u : LabsOf(u)' = LabsOf(u)
    BY <1>1 DEF courseVars, LabsOf
  <2> QED BY <1>1, <2>1, NobodyMore DEF courseVars, CourseType, Existing, Operates, Locked, Creates, NoClash,
              NoDoubleBooking, Below, LabsOf, Claimed, HasLab, LabTellsTruth
<1>2. CASE OneRequest' /\ ReserveStep /\ UNCHANGED <<lab, labWork, infra>>
  <2>1. CourseType' /\ policy' = policy
    BY <1>2, ReserveTypes
  <2>2. Locked' /\ NoClash' /\ NoDoubleBooking'
    BY <1>2, BookingKept
  <2>3. Existing' /\ Below' /\ Claimed' /\ LabTellsTruth'
    BY <1>2, <2>1 DEF Existing, Operates, Below, Creates, LabsOf, Claimed, HasLab, LabTellsTruth
  <2>4. \A u : LabsOf(u)' = LabsOf(u)
    BY <1>2 DEF LabsOf
  <2> QED BY <2>1, <2>2, <2>3, <2>4, NobodyMore
<1>3. CASE OneRequest' /\ LabStep
  <2>1. CourseType' /\ policy' = policy
    BY <1>3, LabTypes DEF LabStep
  <2>2. Locked' /\ NoClash' /\ NoDoubleBooking'
    BY <1>3, LabLock
  <2>3. ASSUME NEW c \in Clients, LabMove(c)
        PROVE  Existing' /\ Below' /\ Allowed /\ Claimed' /\ LabTellsTruth'
    BY <2>1, <2>3, ExistingKept, ClaimedKept, TruthKept, QuotaKept
  <2>4. ASSUME NEW l \in Labs, LabExpires(l)
        PROVE  Existing' /\ Below' /\ Allowed /\ Claimed' /\ LabTellsTruth'
    BY <2>1, <2>4, ExpiryKeeps
  <2> QED BY <1>3, <2>1, <2>2, <2>3, <2>4, LabForms
<1>4. CASE PolicyStep
  BY <1>4, PolicyKeeps
<1> HIDE DEF CourseInv
<1> QED BY <1>1, <1>2, <1>3, <1>4 DEF CourseNext, OneRequest

(* The invariant holds for ever. *)
THEOREM CourseInvariant == CourseSpec => []CourseInv
<1>1. InitApproval /\ InitLearning => CourseInv
  <2> SUFFICES ASSUME InitApproval, InitLearning PROVE CourseInv
    OBVIOUS
  <2>1. policy.labs \in Nat
    BY ApprovalBounds DEF InitApproval
  <2>2. CourseType
    BY <2>1 DEF InitApproval, InitLearning, InitLabs, CourseType
  <2>3. \A c \in Clients : booking[c] = None /\ labWork[c] = None
    BY DEF InitApproval, InitLearning, InitLabs
  <2>4. Existing /\ Locked /\ NoClash /\ Below /\ Claimed
    BY <2>3 DEF Existing, Operates, Locked, Creates, NoClash, Below, Claimed, HasLab
  <2>5. NoDoubleBooking /\ LabTellsTruth
    BY DEF InitApproval, InitLearning, InitLabs, NoDoubleBooking, LabTellsTruth
  <2> QED BY <2>2, <2>4, <2>5 DEF CourseInv
<1>2. CourseInv /\ [CourseNext]_courseVars => CourseInv'
  BY CourseKept
<1> QED BY <1>1, <1>2, PTL DEF CourseSpec

(* No device is booked twice for a slot, however requests overlap: their     *)
(* scheduling is serialized by the write lock (governance/routes.py:454).    *)
THEOREM NoDoubleBookings == CourseSpec => []NoDoubleBooking
<1>1. CourseInv => NoDoubleBooking
  BY DEF CourseInv
<1> QED BY <1>1, CourseInvariant, PTL

(* Nobody is given more labs than the policy of that moment allows, however requests *)
(* for labs, their deaths and changes of the policy overlap                          *)
(* (governance/learning.py:301).                                                     *)
THEOREM QuotaHolds == CourseSpec => LabQuota
<1>1. CourseInv /\ [CourseNext]_courseVars =>
        [\A u \in Users : Cardinality(LabsOf(u)') > Cardinality(LabsOf(u)) =>
             Cardinality(LabsOf(u)') <= policy.labs]_<<lab>>
  BY CourseKept DEF Allowed
<1> QED BY <1>1, CourseInvariant, PTL DEF CourseSpec, LabQuota

(* A lab is what it is listed as, since an operation has it to itself                *)
(* (governance/learning.py:338), or was running when its time ended and is stopped.  *)
THEOREM LabsAreAsListed == CourseSpec => []LabTellsTruth
<1>1. CourseInv => LabTellsTruth
  BY DEF CourseInv
<1> QED BY <1>1, CourseInvariant, PTL

-----------------------------------------------------------------------------
(* Accounts.                                                               *)

AccountRows == [role : Roles \cup {None}, active : BOOLEAN, tv : Nat]
WriteRows == [role : Roles \cup {None}, active : BOOLEAN \cup {None}, tv : Nat \cup {None}]
Requests == [writes : [Users -> WriteRows], move : {None} \cup (Users \X Users)]
Tokens == [tv : Nat, role : Roles \cup {None}]

(* A request writes an account as it read it, and logs its user out. *)
WriteFits(w, u) == w = Kept \/ (w.tv = account[u].tv + 1 /\ account[u] # Absent)

AccountInv ==
    /\ account \in [Users -> AccountRows]
    /\ request \in [Clients -> {None} \cup Requests]
    /\ token \in [Users -> {None} \cup Tokens]
    /\ OneAdmin

(* A token is no newer than its account and tells its role while it is as new. *)
TokenInv ==
    /\ \A u \in Users : token[u] # None =>
         /\ account[u] # Absent /\ token[u].tv <= account[u].tv
         /\ token[u].tv = account[u].tv => token[u].role = account[u].role
    /\ \A c \in Clients, u \in Users :
         request[c] # None => WriteFits(request[c].writes[u], u)

LEMMA WriteIs ==
    ASSUME NEW u \in Users, account \in [Users -> AccountRows],
           NEW r \in Roles \cup {None}, NEW a \in BOOLEAN, NEW bump \in BOOLEAN
    PROVE  /\ Write(u, r, a, bump) \in WriteRows
           /\ bump => Write(u, r, a, bump).tv = account[u].tv + 1
BY DEF Write, WriteRows, Differs, AccountRows

LEMMA WrittenIs ==
    ASSUME NEW row \in AccountRows, NEW w \in WriteRows
    PROVE  /\ Written(row, w) \in AccountRows
           /\ Written(row, w).role = IF w.role = None THEN row.role ELSE w.role
           /\ Written(row, w).tv = IF w.tv = None THEN row.tv ELSE w.tv
           /\ w = Kept => Written(row, w) = row
<1> DEFINE role == IF w.role = None THEN row.role ELSE w.role
           active == IF w.active = None THEN row.active ELSE w.active
           tv == IF w.tv = None THEN row.tv ELSE w.tv
           r1 == [row EXCEPT !.role = role]
           r2 == [r1 EXCEPT !.active = active]
           r3 == [r2 EXCEPT !.tv = tv]
<1>1. role \in Roles \cup {None} /\ active \in BOOLEAN /\ tv \in Nat
  BY DEF AccountRows, WriteRows
<1>2. /\ r1 = [role |-> role, active |-> row.active, tv |-> row.tv]
      /\ [row EXCEPT !.role = role] \in AccountRows
  BY <1>1 DEF AccountRows
<1>3. r2 = [role |-> role, active |-> active, tv |-> row.tv]
  <2>1. [[role |-> role, active |-> row.active, tv |-> row.tv] EXCEPT !.active = active]
          = [role |-> role, active |-> active, tv |-> row.tv]
    <3> HIDE DEF role, active, tv, r1
    <3> QED OBVIOUS
  <2> HIDE DEF role, active, r1
  <2> QED BY <1>2, <2>1
<1>4. r3 = [role |-> role, active |-> active, tv |-> tv]
  <2>1. [[role |-> role, active |-> active, tv |-> row.tv] EXCEPT !.tv = tv]
          = [role |-> role, active |-> active, tv |-> tv]
    <3> HIDE DEF role, active, tv, r2
    <3> QED OBVIOUS
  <2> HIDE DEF role, active, tv, r2
  <2> QED BY <1>3, <2>1
<1>5. Written(row, w) = r3
  BY DEF Written
<1>6. w = Kept => role = row.role /\ active = row.active /\ tv = row.tv
  BY DEF Kept
<1>7. row = [role |-> row.role, active |-> row.active, tv |-> row.tv]
  BY DEF AccountRows
<1> HIDE DEF r3
<1>8. r3 \in AccountRows /\ r3.role = role /\ r3.tv = tv
  BY <1>1, <1>4 DEF AccountRows
<1> QED BY <1>4, <1>5, <1>6, <1>7, <1>8

(* No two rows an index accepts are administrators. *)
LEMMA IndexHolds ==
    ASSUME NEW rows, SingleAdmin(rows), NEW u \in Users, NEW v \in Users,
           rows[u].role = "ADMIN", rows[v].role = "ADMIN"
    PROVE  u = v
<1> DEFINE S == {w \in Users : rows[w].role = "ADMIN"}
<1>1. IsFiniteSet(S) /\ u \in S /\ v \in S /\ Cardinality(S) <= 1
  BY AccountConstants, FS_Subset DEF SingleAdmin
<1> HIDE DEF S
<1>2. Cardinality(S \ {u}) = Cardinality(S) - 1 /\ IsFiniteSet(S \ {u})
  BY <1>1, FS_RemoveElement
<1>3. Cardinality(S) \in Nat /\ Cardinality(S \ {u}) \in Nat
  BY <1>1, <1>2, FS_CardinalityType
<1>4. S \ {u} = {}
  BY <1>1, <1>2, <1>3, FS_EmptySet
<1> QED BY <1>1, <1>4

(* A request is begun by one that may, and computed from the rows as they are. *)
LEMMA BegunRequest ==
    ASSUME AccountInv, NEW c \in Clients, BeginRequest(c)
    PROVE  \E w \in [Users -> WriteRows], m \in {None} \cup (Users \X Users) :
              /\ request' = [request EXCEPT ![c] = [writes |-> w, move |-> m]]
              /\ \A u \in Users : WriteFits(w[u], u)
              /\ UNCHANGED <<account, token>>
<1>k. Kept \in WriteRows
  BY DEF Kept, WriteRows
<1>a. account \in [Users -> AccountRows]
  BY DEF AccountInv
<1>x. \A u \in Users : Acts(u) => account[u] # Absent
  BY DEF Acts, Absent
<1>1. ASSUME NEW u \in Users, NEW w \in WriteRows, WriteFits(w, u), Begin(c, Only(u, w), None)
      PROVE  \E v \in [Users -> WriteRows], m \in {None} \cup (Users \X Users) :
              /\ request' = [request EXCEPT ![c] = [writes |-> v, move |-> m]]
              /\ \A x \in Users : WriteFits(v[x], x)
              /\ UNCHANGED <<account, token>>
  <2>1. Only(u, w) \in [Users -> WriteRows] /\ \A x \in Users : WriteFits(Only(u, w)[x], x)
    BY <1>1, <1>k DEF Only, WriteFits
  <2>2. /\ request' = [request EXCEPT ![c] = [writes |-> Only(u, w), move |-> None]]
        /\ UNCHANGED <<account, token>>
    BY <1>1 DEF Begin
  <2> QED BY <2>1, <2>2
<1>2. ASSUME NEW a \in Users, NEW u \in Users, NEW on \in BOOLEAN, PatchActive(c, a, u, on)
      PROVE  \E v \in [Users -> WriteRows], m \in {None} \cup (Users \X Users) :
              /\ request' = [request EXCEPT ![c] = [writes |-> v, move |-> m]]
              /\ \A x \in Users : WriteFits(v[x], x)
              /\ UNCHANGED <<account, token>>
  <2> DEFINE w == Write(u, account[u].role, on, TRUE)
  <2>1. account[u].role \in Roles \cup {None}
    BY <1>a DEF AccountRows
  <2>2. w \in WriteRows /\ w.tv = account[u].tv + 1
    BY <1>a, <2>1, WriteIs
  <2>3. account[u] # Absent /\ Begin(c, Only(u, w), None)
    BY <1>2 DEF PatchActive
  <2> HIDE DEF w
  <2>4. WriteFits(w, u)
    BY <2>2, <2>3 DEF WriteFits
  <2> QED BY <1>1, <2>2, <2>3, <2>4
<1>3. ASSUME NEW a \in Users, NEW u \in Users, NEW on \in BOOLEAN, NEW r \in Roles,
             PutUser(c, a, u, r, on)
      PROVE  \E v \in [Users -> WriteRows], m \in {None} \cup (Users \X Users) :
              /\ request' = [request EXCEPT ![c] = [writes |-> v, move |-> m]]
              /\ \A x \in Users : WriteFits(v[x], x)
              /\ UNCHANGED <<account, token>>
  <2> DEFINE w0 == Write(u, r, on, FALSE)
             w1 == Write(u, r, on, TRUE)
             w == IF w0 = Kept THEN w0 ELSE w1
  <2>1. w0 \in WriteRows /\ w1 \in WriteRows /\ w1.tv = account[u].tv + 1
    BY <1>a, WriteIs
  <2>2. account[u] # Absent /\ Begin(c, Only(u, w), None)
    BY <1>3 DEF PutUser
  <2> HIDE DEF w0, w1
  <2>3. WriteFits(w, u) /\ w \in WriteRows
    BY <2>1, <2>2 DEF WriteFits
  <2> HIDE DEF w
  <2> QED BY <1>1, <2>2, <2>3
<1>4. ASSUME NEW u \in Users, ChangePassword(c, u)
      PROVE  \E v \in [Users -> WriteRows], m \in {None} \cup (Users \X Users) :
              /\ request' = [request EXCEPT ![c] = [writes |-> v, move |-> m]]
              /\ \A x \in Users : WriteFits(v[x], x)
              /\ UNCHANGED <<account, token>>
  <2> DEFINE w == Write(u, account[u].role, TRUE, TRUE)
  <2>1. account[u].role \in Roles \cup {None}
    BY <1>a DEF AccountRows
  <2>2. w \in WriteRows /\ w.tv = account[u].tv + 1
    BY <1>a, <2>1, WriteIs
  <2>3. account[u] # Absent /\ Begin(c, Only(u, w), None)
    BY <1>4, <1>x DEF ChangePassword
  <2> HIDE DEF w
  <2>4. WriteFits(w, u)
    BY <2>2, <2>3 DEF WriteFits
  <2> QED BY <1>1, <2>2, <2>3, <2>4
<1>5. ASSUME NEW a \in Users, NEW t \in Users, TransferAdmin(c, a, t)
      PROVE  \E v \in [Users -> WriteRows], m \in {None} \cup (Users \X Users) :
              /\ request' = [request EXCEPT ![c] = [writes |-> v, move |-> m]]
              /\ \A x \in Users : WriteFits(v[x], x)
              /\ UNCHANGED <<account, token>>
  <2> DEFINE wa == Write(a, "TEACHER", account[a].active, TRUE)
             wt == Write(t, "ADMIN", account[t].active, TRUE)
  <2>1. account[a].active \in BOOLEAN /\ account[t].active \in BOOLEAN
    BY <1>a DEF AccountRows
  <2>2. {"TEACHER", "ADMIN"} \subseteq Roles
    BY DEF Roles
  <2>3. /\ wa \in WriteRows /\ wa.tv = account[a].tv + 1
        /\ wt \in WriteRows /\ wt.tv = account[t].tv + 1
    BY <1>a, <2>1, <2>2, WriteIs
  <2>4. account[a] # Absent /\ account[t] # Absent
    BY <1>5, <1>x DEF TransferAdmin, IsAdmin
  <2>5. HandOver(a, t) = [u \in Users |-> IF u = a THEN wa ELSE IF u = t THEN wt ELSE Kept]
    BY DEF HandOver
  <2> HIDE DEF wa, wt
  <2>6. /\ HandOver(a, t) \in [Users -> WriteRows]
        /\ \A u \in Users : WriteFits(HandOver(a, t)[u], u)
    BY <1>k, <2>3, <2>4, <2>5 DEF WriteFits
  <2>7. /\ request' = [request EXCEPT ![c] = [writes |-> HandOver(a, t), move |-> <<a, t>>]]
        /\ UNCHANGED <<account, token>>
    BY <1>5 DEF TransferAdmin, Begin
  <2> DEFINE v == HandOver(a, t)
  <2>8. <<a, t>> \in {None} \cup (Users \X Users)
    OBVIOUS
  <2> HIDE DEF v
  <2> QED BY <2>6, <2>7, <2>8, Zenon DEF v
<1> QED BY <1>2, <1>3, <1>4, <1>5 DEF BeginRequest

LEMMA RequestIs ==
    ASSUME AccountInv, NEW c \in Clients, request[c] # None
    PROVE  /\ request[c].writes \in [Users -> WriteRows]
           /\ \A u \in Users : AfterCommit(c)[u] = Written(account[u], request[c].writes[u])
           /\ AfterCommit(c) \in [Users -> AccountRows]
<1>1. request[c].writes \in [Users -> WriteRows]
  BY DEF AccountInv, Requests
<1>2. account \in [Users -> AccountRows]
  BY DEF AccountInv
<1>3. \A u \in Users : Written(account[u], request[c].writes[u]) \in AccountRows
  BY <1>1, <1>2, WrittenIs
<1> QED BY <1>1, <1>3 DEF AfterCommit

LEMMA AccountsKept ==
    ASSUME AccountInv, PeopleStep
    PROVE  AccountInv'
<1>1. ASSUME NEW c \in Clients, BeginRequest(c) PROVE AccountInv'
  <2>1. PICK w \in [Users -> WriteRows], m \in {None} \cup (Users \X Users) :
           /\ request' = [request EXCEPT ![c] = [writes |-> w, move |-> m]]
           /\ UNCHANGED <<account, token>>
    BY <1>1, BegunRequest
  <2>2. [writes |-> w, move |-> m] \in Requests
    BY DEF Requests
  <2>3. request' \in [Clients -> {None} \cup Requests]
    BY <2>1, <2>2 DEF AccountInv
  <2> QED BY <2>1, <2>3 DEF AccountInv, OneAdmin, IsRole
<1>2. ASSUME NEW c \in Clients, Commit(c) PROVE AccountInv'
  <2>1. account' = AfterCommit(c) /\ SingleAdmin(account') /\ request[c] # None
    BY <1>2 DEF Commit
  <2>2. account' \in [Users -> AccountRows]
    BY <2>1, RequestIs
  <2>3. OneAdmin'
    BY <2>1, IndexHolds DEF OneAdmin, IsRole
  <2>4. request' \in [Clients -> {None} \cup Requests] /\ token' = token
    BY <1>2 DEF Commit, AccountInv
  <2> QED BY <2>2, <2>3, <2>4 DEF AccountInv
<1>3. ASSUME NEW c \in Clients, CommitFails(c) PROVE AccountInv'
  BY <1>3 DEF CommitFails, AccountInv, OneAdmin, IsRole
<1>4. ASSUME NEW u \in Users, Login(u) PROVE AccountInv'
  <2>1. [tv |-> account[u].tv, role |-> account[u].role] \in Tokens
    BY DEF AccountInv, AccountRows, Tokens
  <2>2. token' \in [Users -> {None} \cup Tokens] /\ UNCHANGED <<account, request>>
    BY <1>4, <2>1 DEF Login, AccountInv
  <2> QED BY <2>2 DEF AccountInv, OneAdmin, IsRole
<1>5. ASSUME NEW a \in Users, NEW u \in Users, NEW r \in Roles, NEW may, CreateUser(a, u, r, may)
      PROVE  AccountInv'
  <2> DEFINE row == [role |-> r, active |-> TRUE, tv |-> 0]
  <2>1. row \in AccountRows /\ row.role = r
    BY DEF AccountRows
  <2>2. account' = [account EXCEPT ![u] = row] /\ UNCHANGED <<token, request>>
    BY <1>5 DEF CreateUser
  <2> HIDE DEF row
  <2>3. /\ account' \in [Users -> AccountRows] /\ account'[u] = row
        /\ \A v \in Users \ {u} : account'[v] = account[v]
    BY <2>1, <2>2 DEF AccountInv
  <2>4. r = "ADMIN" => \A v \in Users \ {u} : account[v].role # "ADMIN"
    BY <1>5 DEF CreateUser, NoAdminBut, IsRole
  <2>5. OneAdmin'
    BY <2>1, <2>3, <2>4 DEF OneAdmin, IsRole, AccountInv
  <2> QED BY <2>2, <2>3, <2>5 DEF AccountInv
<1>6. {"TEACHER", "STUDENT"} \subseteq Roles
  BY DEF Roles
<1>7. CASE AccountStep
  BY <1>1, <1>2, <1>3, <1>4, <1>5, <1>6, <1>7 DEF AccountStep, CommitAccount
<1> QED BY <1>5, <1>7 DEF PeopleStep

(* Only the requests about people touch the accounts. *)
LEMMA AccountSteps ==
    ASSUME [GovernanceNext]_governanceVars
    PROVE  PeopleStep \/ UNCHANGED accountVars
<1>1. CASE UNCHANGED governanceVars
  BY <1>1 DEF governanceVars
<1>2. CASE GovernanceNext
  BY <1>2, Zenon DEF GovernanceNext
<1> QED BY <1>1, <1>2

LEMMA AccountsBegin ==
    ASSUME InitGovernance
    PROVE  AccountInv /\ TokenInv
<1>1. PICK rows \in [Users -> {Absent} \cup [role : Roles, active : BOOLEAN, tv : {0}]] :
          SingleAdmin(rows) /\ InitAccounts(rows)
  BY DEF InitGovernance
<1>2. account = rows /\ account \in [Users -> AccountRows]
  <2>1. Absent \in AccountRows
    BY DEF Absent, AccountRows
  <2>2. [role : Roles, active : BOOLEAN, tv : {0}] \subseteq AccountRows
    BY DEF AccountRows
  <2>3. \A u \in Users : rows[u] \in AccountRows
    BY <2>1, <2>2
  <2>4. account = rows
    BY <1>1 DEF InitAccounts
  <2> QED BY <2>3, <2>4
<1>3. OneAdmin
  BY <1>1, <1>2, IndexHolds DEF OneAdmin, IsRole
<1>4. /\ token = [u \in Users |-> None]
      /\ request = [c \in Clients |-> None]
  BY <1>1 DEF InitAccounts
<1> QED BY <1>2, <1>3, <1>4 DEF AccountInv, TokenInv

LEMMA AccountsSound == GovernanceSpec => []AccountInv
<1>1. InitGovernance => AccountInv
  BY AccountsBegin
<1>2. AccountInv /\ [GovernanceNext]_governanceVars => AccountInv'
  <2> SUFFICES ASSUME AccountInv, [GovernanceNext]_governanceVars PROVE AccountInv'
    OBVIOUS
  <2>1. CASE PeopleStep
    BY <2>1, AccountsKept
  <2>2. CASE UNCHANGED accountVars
    BY <2>2 DEF accountVars, AccountInv, OneAdmin, IsRole
  <2> QED BY <2>1, <2>2, AccountSteps
<1> QED BY <1>1, <1>2, PTL DEF GovernanceSpec

(* There is at most one administrator, however account requests overlap with *)
(* each other and with anything else: whoever promotes checks the table, and *)
(* the partial index refuses what the check missed (auth/service.py:141).    *)
THEOREM OneAdministrator == GovernanceSpec => []OneAdmin
<1>1. AccountInv => OneAdmin
  BY DEF AccountInv
<1> QED BY <1>1, AccountsSound, PTL

-----------------------------------------------------------------------------
(* Tokens, while no two open requests write the same account: then a request *)
(* that commits still knows the row it read.                                *)
Apart ==
    \A c, d \in Clients, u \in Users :
        request[c] # None /\ request[d] # None /\ c # d =>
            request[c].writes[u] = Kept \/ request[d].writes[u] = Kept

LEMMA TokensKept ==
    ASSUME Apart, AccountInv, TokenInv, PeopleStep
    PROVE  TokenInv'
<1> DEFINE Fits(tok, row) == tok # None =>
               /\ row # Absent /\ tok.tv <= row.tv
               /\ tok.tv = row.tv => tok.role = row.role
           Told == \A u \in Users : Fits(token'[u], account'[u])
           Fresh == \A c \in Clients, u \in Users : request'[c] # None =>
                       \/ request'[c].writes[u] = Kept
                       \/ /\ request'[c].writes[u].tv = account'[u].tv + 1
                          /\ account'[u] # Absent
<1>0. ASSUME Told, Fresh PROVE TokenInv'
  BY <1>0 DEF TokenInv, WriteFits
<1>t. \A u \in Users : Fits(token[u], account[u])
  BY DEF TokenInv
<1>f. \A c \in Clients, u \in Users : request[c] # None => WriteFits(request[c].writes[u], u)
  BY DEF TokenInv
<1>a. \A u \in Users : account[u] \in AccountRows
  BY DEF AccountInv
<1>r. /\ \A u \in Users : account[u].tv \in Nat
      /\ \A u \in Users : token[u] # None => token[u].tv \in Nat
  BY DEF AccountInv, AccountRows, Tokens
<1> HIDE DEF Told, Fresh
<1>1. ASSUME NEW c \in Clients, BeginRequest(c) PROVE TokenInv'
  <2>1. PICK w \in [Users -> WriteRows], m \in {None} \cup (Users \X Users) :
           /\ request' = [request EXCEPT ![c] = [writes |-> w, move |-> m]]
           /\ \A u \in Users : WriteFits(w[u], u)
           /\ UNCHANGED <<account, token>>
    BY <1>1, BegunRequest
  <2>2. Told
    BY <2>1, <1>t DEF Told
  <2>3. /\ request'[c].writes = w
        /\ \A d \in Clients \ {c} : request'[d] = request[d]
    BY <2>1 DEF AccountInv
  <2>4. Fresh
    BY <1>f, <2>1, <2>3 DEF Fresh, WriteFits
  <2> QED BY <2>2, <2>4, <1>0
<1>2. ASSUME NEW c \in Clients, Commit(c) PROVE TokenInv'
  <2>1. /\ account' = AfterCommit(c) /\ token' = token /\ request[c] # None
        /\ request' = [request EXCEPT ![c] = None]
    BY <1>2 DEF Commit
  <2>2. ASSUME NEW d \in Clients, NEW u \in Users, request'[d] # None
        PROVE  \/ request'[d].writes[u] = Kept
               \/ request'[d].writes[u].tv = account'[u].tv + 1 /\ account'[u] # Absent
    <3>1. d # c /\ request'[d] = request[d] /\ WriteFits(request[d].writes[u], u)
      BY <1>f, <2>1, <2>2 DEF AccountInv
    <3>2. CASE request[c].writes[u] # Kept
      BY <2>1, <2>2, <3>1, <3>2 DEF Apart
    <3>3. CASE request[c].writes[u] = Kept
      <4>1. account'[u] = account[u]
        BY <1>a, <2>1, <3>3, RequestIs, WrittenIs
      <4> QED BY <3>1, <4>1 DEF WriteFits
    <3> QED BY <3>2, <3>3
  <2>f. Fresh
    BY <2>2 DEF Fresh
  <2>3. ASSUME NEW u \in Users PROVE Fits(token'[u], account'[u])
    <3> DEFINE w == request[c].writes[u]
    <3>1. w \in WriteRows /\ account'[u] = Written(account[u], w) /\ WriteFits(w, u)
      BY <1>f, <2>1, RequestIs
    <3> HIDE DEF w
    <3>2. /\ w = Kept => account'[u] = account[u]
          /\ account'[u].tv = IF w.tv = None THEN account[u].tv ELSE w.tv
      BY <1>a, <3>1, WrittenIs
    <3>3. CASE w = Kept
      BY <1>t, <2>1, <3>2, <3>3
    <3>4. CASE w # Kept
      <4>1. w.tv = account[u].tv + 1 /\ w.tv # None
        <5>1. w.tv = account[u].tv + 1
          BY <3>1, <3>4 DEF WriteFits
        <5>2. w.tv \in Nat
          BY <1>r, <5>1
        <5> QED BY <5>1, <5>2, AccountConstants
      <4>2. account'[u].tv = account[u].tv + 1
        BY <3>2, <4>1
      <4>3. account'[u] # Absent
        <5>1. Absent.tv = 0
          BY DEF Absent
        <5> QED BY <1>r, <4>2, <5>1
      <4>4. token[u] # None => token[u].tv <= account[u].tv
        BY <1>t
      <4>5. token[u] # None => token[u].tv <= account[u].tv + 1 /\ token[u].tv # account[u].tv + 1
        BY <1>r, <4>4
      <4> QED BY <2>1, <4>2, <4>3, <4>5
    <3> QED BY <3>3, <3>4
  <2>4. Told
    BY <2>3 DEF Told
  <2> QED BY <2>f, <2>4, <1>0
<1>3. ASSUME NEW c \in Clients, CommitFails(c) PROVE TokenInv'
  <2>1. UNCHANGED <<account, token>> /\ request' = [request EXCEPT ![c] = None]
    BY <1>3 DEF CommitFails
  <2>2. Told
    BY <2>1, <1>t DEF Told
  <2>3. Fresh
    BY <1>f, <2>1 DEF Fresh, WriteFits, AccountInv
  <2> QED BY <2>2, <2>3, <1>0
<1>4. ASSUME NEW u \in Users, Login(u) PROVE TokenInv'
  <2> DEFINE tok == [tv |-> account[u].tv, role |-> account[u].role]
  <2>1. token' = [token EXCEPT ![u] = tok] /\ UNCHANGED <<account, request>>
    BY <1>4 DEF Login
  <2>2. account[u] # Absent
    BY <1>4 DEF Login, Acts, Absent
  <2>3. tok.tv = account[u].tv /\ tok.role = account[u].role
    OBVIOUS
  <2> HIDE DEF tok
  <2>4. token'[u] = tok /\ \A v \in Users \ {u} : token'[v] = token[v]
    BY <2>1 DEF AccountInv
  <2>5. Fits(tok, account[u])
    <3>1. account[u].tv <= account[u].tv
      BY <1>r
    <3> QED BY <2>2, <2>3, <3>1
  <2>6. Told
    BY <1>t, <2>1, <2>4, <2>5 DEF Told
  <2>7. Fresh
    BY <1>f, <2>1 DEF Fresh, WriteFits
  <2> QED BY <2>6, <2>7, <1>0
<1>5. ASSUME NEW a \in Users, NEW u \in Users, NEW r \in Roles, NEW may, CreateUser(a, u, r, may)
      PROVE  TokenInv'
  <2> DEFINE row == [role |-> r, active |-> TRUE, tv |-> 0]
  <2>1. account' = [account EXCEPT ![u] = row] /\ UNCHANGED <<token, request>> /\ account[u] = Absent
    BY <1>5 DEF CreateUser
  <2>2. token[u] = None /\ \A c \in Clients : request[c] # None => request[c].writes[u] = Kept
    BY <1>t, <1>f, <2>1 DEF WriteFits
  <2>3. \A v \in Users \ {u} : account'[v] = account[v]
    BY <2>1 DEF AccountInv
  <2>4. Told
    BY <1>t, <2>1, <2>2, <2>3 DEF Told
  <2>5. Fresh
    BY <1>f, <2>1, <2>2, <2>3 DEF Fresh, WriteFits
  <2> QED BY <2>4, <2>5, <1>0
<1>6. {"TEACHER", "STUDENT"} \subseteq Roles
  BY DEF Roles
<1>7. CASE AccountStep
  BY <1>1, <1>2, <1>3, <1>4, <1>5, <1>6, <1>7 DEF AccountStep, CommitAccount
<1> QED BY <1>5, <1>7 DEF PeopleStep

(* A token that still works tells the role its user has ("changing any of    *)
(* them logs the user out everywhere", auth/model.py:34), whatever requests   *)
(* overlap, as long as no two of them write the same account.  Two that do    *)
(* count token_version up from the same value, and may break it.              *)
THEOREM TokensFitRoles == GovernanceSpec /\ []Apart => []TokenFitsRole
<1>1. InitGovernance => AccountInv /\ TokenInv
  BY AccountsBegin
<1>2. (AccountInv /\ TokenInv) /\ Apart /\ [GovernanceNext]_governanceVars => (AccountInv /\ TokenInv)'
  <2> SUFFICES ASSUME AccountInv, TokenInv, Apart, [GovernanceNext]_governanceVars
               PROVE  AccountInv' /\ TokenInv'
    OBVIOUS
  <2>1. CASE PeopleStep
    BY <2>1, AccountsKept, TokensKept
  <2>2. CASE UNCHANGED accountVars
    BY <2>2 DEF accountVars, AccountInv, TokenInv, WriteFits, OneAdmin, IsRole
  <2> QED BY <2>1, <2>2, AccountSteps
<1>3. AccountInv /\ TokenInv => TokenFitsRole
  BY DEF TokenInv, TokenFitsRole, Valid
<1> QED BY <1>1, <1>2, <1>3, PTL DEF GovernanceSpec

-----------------------------------------------------------------------------
(* Student work.  Drafts and assignments are only added, and a draft only    *)
(* gains versions: what a submission names stays what it was.                *)

Drafts == [owner : Users, group : Groups, device : Devices, versions : Seq(Commands)]
Assignments == [author : Users, group : Groups, device : Devices, starts : Nat,
                due : Nat, allowed : SUBSET Commands]
Submissions == [by : Users, assignment : Nat, draft : Nat, version : Nat, score : {None, 100}]

WorkType ==
    /\ draft \in Seq(Drafts) /\ assignment \in Seq(Assignments)
    /\ submission \in Seq(Submissions) /\ now \in Nat

Refers(s, ds, as) ==
    /\ s.draft \in DOMAIN ds /\ s.assignment \in DOMAIN as
    /\ s.version \in DOMAIN ds[s.draft].versions

\* The body of SubmittedWork for one submission.
Proper(s, ds, as) ==
    LET d == ds[s.draft]  a == as[s.assignment]
    IN  /\ d.owner = s.by /\ d.group = a.group /\ d.device = a.device
        /\ Allows(a, d.versions[s.version])

WorkInv ==
    /\ WorkType
    /\ \A s \in DOMAIN submission :
         /\ Refers(submission[s], draft, assignment)
         /\ Proper(submission[s], draft, assignment)

(* What is there stays there. *)
Keeps(ds, es) ==
    \A i \in DOMAIN ds :
        /\ i \in DOMAIN es
        /\ es[i].owner = ds[i].owner /\ es[i].group = ds[i].group /\ es[i].device = ds[i].device
        /\ \A v \in DOMAIN ds[i].versions :
             v \in DOMAIN es[i].versions /\ es[i].versions[v] = ds[i].versions[v]
Extends(as, bs) == \A i \in DOMAIN as : i \in DOMAIN bs /\ bs[i] = as[i]

LEMMA StaysProper ==
    ASSUME NEW s, NEW ds, NEW es, NEW as, NEW bs,
           Keeps(ds, es), Extends(as, bs), Refers(s, ds, as), Proper(s, ds, as)
    PROVE  Refers(s, es, bs) /\ Proper(s, es, bs)
BY DEF Keeps, Extends, Refers, Proper, Allows

LEMMA Appended ==
    ASSUME NEW S, NEW s \in Seq(S), NEW e \in S
    PROVE  /\ Append(s, e) \in Seq(S)
           /\ DOMAIN Append(s, e) = DOMAIN s \cup {Len(s) + 1}
           /\ \A i \in DOMAIN s : Append(s, e)[i] = s[i]
           /\ Append(s, e)[Len(s) + 1] = e
OBVIOUS

LEMMA DraftSteps ==
    ASSUME WorkType, NEW u \in Users, NEW c \in Commands,
           \/ \E g \in Groups, d \in Devices : CreateDraft(u, g, d, c)
           \/ \E i \in DOMAIN draft : VersionDraft(u, i, c)
    PROVE  /\ draft' \in Seq(Drafts) /\ Keeps(draft, draft')
           /\ UNCHANGED <<assignment, submission>>
<1>1. ASSUME NEW g \in Groups, NEW d \in Devices, CreateDraft(u, g, d, c)
      PROVE  /\ draft' \in Seq(Drafts) /\ Keeps(draft, draft')
             /\ UNCHANGED <<assignment, submission>>
  <2> DEFINE new == [owner |-> u, group |-> g, device |-> d, versions |-> <<c>>]
  <2>1. new \in Drafts
    BY DEF Drafts
  <2>2. draft' = Append(draft, new) /\ UNCHANGED <<assignment, submission>>
    BY <1>1 DEF CreateDraft
  <2> HIDE DEF new
  <2>3. draft' \in Seq(Drafts) /\ \A i \in DOMAIN draft : i \in DOMAIN draft' /\ draft'[i] = draft[i]
    BY <2>1, <2>2, Appended DEF WorkType
  <2> QED BY <2>2, <2>3 DEF Keeps
<1>2. ASSUME NEW i \in DOMAIN draft, VersionDraft(u, i, c)
      PROVE  /\ draft' \in Seq(Drafts) /\ Keeps(draft, draft')
             /\ UNCHANGED <<assignment, submission>>
  <2> DEFINE old == draft[i]
             vs == Append(old.versions, c)
             new == [old EXCEPT !.versions = vs]
  <2>0. old \in Drafts
    BY DEF WorkType
  <2>1. old \in Drafts /\ old.versions \in Seq(Commands)
    BY <2>0 DEF Drafts
  <2>2. vs \in Seq(Commands) /\ \A v \in DOMAIN old.versions : v \in DOMAIN vs /\ vs[v] = old.versions[v]
    BY <2>1, Appended
  <2>3. draft' = [draft EXCEPT ![i] = new] /\ UNCHANGED <<assignment, submission>>
    BY <1>2 DEF VersionDraft
  <2> HIDE DEF old, vs
  <2>4. /\ new \in Drafts /\ new.owner = old.owner /\ new.group = old.group
        /\ new.device = old.device /\ new.versions = vs
    BY <2>1, <2>2 DEF Drafts
  <2> HIDE DEF new
  <2>5. draft' \in Seq(Drafts) /\ DOMAIN draft' = DOMAIN draft /\ draft'[i] = new
        /\ \A j \in DOMAIN draft \ {i} : draft'[j] = draft[j]
    BY <2>3, <2>4 DEF WorkType
  <2>6. Keeps(draft, draft')
    BY <2>2, <2>4, <2>5 DEF Keeps, old
  <2> QED BY <2>3, <2>5, <2>6
<1> QED BY <1>1, <1>2

LEMMA AssignmentStep ==
    ASSUME WorkType, NEW u \in Users, NEW g \in Groups, NEW d \in Devices,
           NEW p \in SUBSET Commands, CreateAssignment(u, g, d, now + 1, p)
    PROVE  /\ assignment' \in Seq(Assignments) /\ Extends(assignment, assignment')
           /\ UNCHANGED <<draft, submission>>
<1> DEFINE new == [author |-> u, group |-> g, device |-> d,
                   starts |-> now, due |-> now + 1, allowed |-> p]
<1>1. new \in Assignments
  BY DEF Assignments, WorkType
<1>2. assignment' = Append(assignment, new) /\ UNCHANGED <<draft, submission>>
  BY DEF CreateAssignment
<1> HIDE DEF new
<1> QED BY <1>1, <1>2, Appended DEF Extends, WorkType

LEMMA SubmitStep ==
    ASSUME WorkType, NEW u \in Users, NEW i \in DOMAIN draft,
           NEW a \in DOMAIN assignment, NEW v \in DOMAIN draft[i].versions, Submit(u, a, i, v)
    PROVE  \E s \in Submissions :
              /\ submission' = Append(submission, s) /\ UNCHANGED <<draft, assignment>>
              /\ Refers(s, draft, assignment) /\ Proper(s, draft, assignment)
<1> DEFINE s == [by |-> u, assignment |-> a, draft |-> i, version |-> v, score |-> None]
           ch == [group |-> draft[i].group, device |-> draft[i].device,
                  cmd |-> draft[i].versions[v]]
<1>1. a \in Nat /\ i \in Nat /\ v \in Nat
  <2>1. a \in Nat /\ i \in Nat /\ draft[i] \in Drafts
    BY DEF WorkType
  <2>2. draft[i].versions \in Seq(Commands)
    BY <2>1 DEF Drafts
  <2> QED BY <2>1, <2>2
<1>2. /\ s \in Submissions /\ s.by = u /\ s.assignment = a /\ s.draft = i /\ s.version = v
  BY <1>1 DEF Submissions
<1>3. submission' = Append(submission, s) /\ UNCHANGED <<draft, assignment>>
  BY DEF Submit
<1>4. IsRole(u, "STUDENT") /\ OwnDraft(u, i) /\ OpenFor(assignment[a], ch)
  BY DEF Submit
<1>5. draft[i].owner = u
  BY <1>4 DEF OwnDraft, IsRole
<1>6. ch.group = draft[i].group /\ ch.device = draft[i].device /\ ch.cmd = draft[i].versions[v]
  OBVIOUS
<1> HIDE DEF s, ch
<1>7. Proper(s, draft, assignment)
  BY <1>2, <1>4, <1>5, <1>6 DEF Proper, OpenFor
<1>8. Refers(s, draft, assignment)
  BY <1>2 DEF Refers
<1> QED BY <1>2, <1>3, <1>7, <1>8

LEMMA GradeStep ==
    ASSUME WorkType, NEW u \in Users, NEW s \in DOMAIN submission, Grade(u, s, 100)
    PROVE  /\ submission' \in Seq(Submissions) /\ DOMAIN submission' = DOMAIN submission
           /\ \A t \in DOMAIN submission :
                /\ submission'[t].by = submission[t].by
                /\ submission'[t].assignment = submission[t].assignment
                /\ submission'[t].draft = submission[t].draft
                /\ submission'[t].version = submission[t].version
           /\ UNCHANGED <<draft, assignment>>
<1> DEFINE old == submission[s]
           new == [old EXCEPT !.score = 100]
<1>1. old \in Submissions
  BY DEF WorkType
<1>2. submission' = [submission EXCEPT ![s] = new] /\ UNCHANGED <<draft, assignment>>
  BY DEF Grade
<1> HIDE DEF old
<1>3. /\ new \in Submissions /\ new.by = old.by /\ new.assignment = old.assignment
      /\ new.draft = old.draft /\ new.version = old.version
  BY <1>1 DEF Submissions
<1> HIDE DEF new
<1> QED BY <1>2, <1>3 DEF WorkType, old

LEMMA WorkKept ==
    ASSUME WorkInv, StudyStep, UNCHANGED accessVars
    PROVE  WorkInv'
<1> USE DEF WorkInv
<1>n. now' = now
  BY DEF accessVars
<1>1. ASSUME draft' \in Seq(Drafts), assignment' \in Seq(Assignments), UNCHANGED submission,
             Keeps(draft, draft'), Extends(assignment, assignment')
      PROVE  WorkInv'
  BY <1>1, <1>n, StaysProper DEF WorkType
<1>2. Keeps(draft, draft) /\ Extends(assignment, assignment)
  BY DEF Keeps, Extends
<1>3. ASSUME NEW u \in Users, NEW g \in Groups, NEW d \in Devices, NEW c \in Commands,
             CreateDraft(u, g, d, c)
      PROVE  WorkInv'
  BY <1>1, <1>2, <1>3, DraftSteps DEF WorkType
<1>4. ASSUME NEW u \in Users, NEW g \in Groups, NEW d \in Devices, NEW p \in SUBSET Commands,
             CreateAssignment(u, g, d, now + 1, p)
      PROVE  WorkInv'
  BY <1>1, <1>2, <1>4, AssignmentStep DEF WorkType
<1>5. ASSUME NEW u \in Users, NEW i \in DOMAIN draft, NEW c \in Commands, VersionDraft(u, i, c)
      PROVE  WorkInv'
  BY <1>1, <1>2, <1>5, DraftSteps DEF WorkType
<1>6. ASSUME NEW u \in Users, NEW i \in DOMAIN draft, NEW a \in DOMAIN assignment,
             NEW v \in DOMAIN draft[i].versions, Submit(u, a, i, v)
      PROVE  WorkInv'
  <2>1. PICK s \in Submissions :
           /\ submission' = Append(submission, s) /\ UNCHANGED <<draft, assignment>>
           /\ Refers(s, draft, assignment) /\ Proper(s, draft, assignment)
    BY <1>6, SubmitStep
  <2>2. /\ submission' \in Seq(Submissions)
        /\ DOMAIN submission' = DOMAIN submission \cup {Len(submission) + 1}
        /\ \A t \in DOMAIN submission : submission'[t] = submission[t]
        /\ submission'[Len(submission) + 1] = s
    BY <2>1, Appended DEF WorkType
  <2> QED BY <1>n, <2>1, <2>2 DEF WorkType
<1>7. ASSUME NEW u \in Users, NEW s \in DOMAIN submission, Grade(u, s, 100) PROVE WorkInv'
  <2>1. /\ submission' \in Seq(Submissions) /\ DOMAIN submission' = DOMAIN submission
        /\ \A t \in DOMAIN submission :
             /\ submission'[t].by = submission[t].by
             /\ submission'[t].assignment = submission[t].assignment
             /\ submission'[t].draft = submission[t].draft
             /\ submission'[t].version = submission[t].version
        /\ UNCHANGED <<draft, assignment>>
    BY <1>7, GradeStep
  <2> QED BY <1>n, <2>1 DEF WorkType, Refers, Proper
<1>8. ASSUME UNCHANGED <<draft, assignment, submission>> PROVE WorkInv'
  BY <1>8, <1>n DEF WorkType
<1>9. ASSUME NEW u \in Users, ConsumeAi(u) PROVE WorkInv'
  BY <1>8, <1>9 DEF ConsumeAi
<1>10. ASSUME NEW u \in Users, NEW i \in DOMAIN change, Reject(u, i) PROVE WorkInv'
  BY <1>8, <1>10 DEF Reject, learningVars
<1> QED BY <1>3, <1>4, <1>5, <1>6, <1>7, <1>9, <1>10 DEF StudyStep

(* The other parts of the system leave student work alone and let time pass. *)
LEMMA WorkSteps ==
    ASSUME [GovernanceNext]_governanceVars
    PROVE  \/ StudyStep /\ UNCHANGED accessVars
           \/ (UNCHANGED <<draft, assignment, submission>> /\ now' \in {now, now + 1})
<1> DEFINE Rest == UNCHANGED <<draft, assignment, submission>> /\ now' \in {now, now + 1}
<1>1. CASE UNCHANGED governanceVars
  BY <1>1 DEF governanceVars, learningVars, accessVars
<1>2. CASE PeopleStep /\ UNCHANGED <<projectVars, approvalVars, learningVars>>
  BY <1>2 DEF PeopleStep, AccountStep, CommitAccount, accessVars, learningVars
<1>3. CASE AccessStep /\ UNCHANGED <<accountVars, projectVars, approvalVars, learningVars>>
  <2>1. now' \in {now, now + 1}
    <3>1. ASSUME NEW gr, IssueGrant(gr) PROVE now' = now
      BY <3>1 DEF IssueGrant
    <3>2. ASSUME NEW u, NEW i, RevokeGrant(u, i) PROVE now' = now
      BY <3>2 DEF RevokeGrant
    <3>3. ASSUME NEW u \in Users, NEW g \in Groups, GroupStep(u, g) PROVE now' = now
      <4>1. ASSUME NEW v, NEW row, GroupWrite(v, row) PROVE now' = now
        BY <4>1 DEF GroupWrite
      <4>2. ASSUME NEW on, ArchiveGroup(u, g, on) \/ SetAutoApprove(u, g, on) PROVE now' = now
        BY <4>1, <4>2 DEF ArchiveGroup, SetAutoApprove
      <4>3. ASSUME NEW d, AllocateDevice(u, g, d) \/ DeallocateDevice(u, g, d) PROVE now' = now
        BY <4>1, <4>3 DEF AllocateDevice, DeallocateDevice
      <4>4. CASE CreateGroup(u, g) \/ Invite(u, g) \/ RevokeInvitation(u, g) \/ Join(u, g)
        BY <4>1, <4>4 DEF CreateGroup, Invite, RevokeInvitation, Join
      <4>5. ASSUME NEW s, \/ TransferGroup(u, g, s) \/ AddMember(u, g, s) \/ RemoveStudent(u, g, s)
                          \/ \E on \in BOOLEAN : SuspendMember(u, g, s, on) \/ ReviewJoin(u, g, s, on)
            PROVE  now' = now
        BY <4>1, <4>5 DEF TransferGroup, AddMember, RemoveStudent, SuspendMember, ReviewJoin
      <4> QED BY <3>3, <4>2, <4>3, <4>4, <4>5 DEF GroupStep
    <3>4. Tick => now' = now + 1
      BY DEF Tick
    <3> QED BY <1>3, <3>1, <3>2, <3>3, <3>4 DEF AccessStep
  <2> QED BY <1>3, <2>1 DEF learningVars
<1>4. CASE UNCHANGED <<accountVars, accessVars, approvalVars, learningVars>>
  BY <1>4 DEF accessVars, learningVars
<1>5. CASE (ChangeStep \/ SettingStep) /\ UNCHANGED <<accountVars, projectVars, learningVars>>
  BY <1>5 DEF ChangeStep, SettingStep, accessVars, learningVars
<1>6. CASE ReserveStep /\ UNCHANGED learningVars
  BY <1>6 DEF ReserveStep, accessVars, learningVars
<1>7. CASE LabStep /\ UNCHANGED accessVars
  <2>1. UNCHANGED <<draft, assignment, submission>>
    <3>1. ASSUME NEW l, LabExpires(l) PROVE UNCHANGED <<draft, assignment, submission>>
      BY <3>1 DEF LabExpires
    <3>2. ASSUME NEW c, LabMove(c) PROVE UNCHANGED <<draft, assignment, submission>>
      BY <3>2 DEF LabMove, LabCount, ActionClaim, LabDone, LabCrash, Provide, LabInsert,
                  LabRequest, ActionRead
    <3> QED BY <1>7, <3>1, <3>2, LabForms
  <2>2. now' = now
    BY <1>7 DEF accessVars
  <2> QED BY <2>1, <2>2
<1> QED BY <1>1, <1>2, <1>3, <1>4, <1>5, <1>6, <1>7 DEF GovernanceNext

(* What a student handed in is their own draft for the group and the device   *)
(* of the assignment, and stays what was handed in (governance/learning.py:181), *)
(* whatever else happens to people, groups, permissions and devices.          *)
THEOREM SubmittedWorkStays == GovernanceSpec => []SubmittedWork
<1>1. InitGovernance => WorkInv
  BY DEF InitGovernance, InitLearning, InitStudy, InitAccess, WorkInv, WorkType
<1>2. WorkInv /\ [GovernanceNext]_governanceVars => WorkInv'
  <2> SUFFICES ASSUME WorkInv, [GovernanceNext]_governanceVars PROVE WorkInv'
    OBVIOUS
  <2>1. CASE StudyStep /\ UNCHANGED accessVars
    BY <2>1, WorkKept
  <2>2. CASE UNCHANGED <<draft, assignment, submission>> /\ now' \in {now, now + 1}
    BY <2>2 DEF WorkInv, WorkType
  <2> QED BY <2>1, <2>2, WorkSteps
<1>3. WorkInv => SubmittedWork
  BY DEF WorkInv, SubmittedWork, Proper
<1> QED BY <1>1, <1>2, <1>3, PTL DEF GovernanceSpec

-----------------------------------------------------------------------------
(* Who stands behind a change that starts.                                   *)

ChangeFields ==
    {"by", "device", "cmd", "source", "consent", "group", "confirm", "revision", "hashed",
     "risk", "status", "approver", "at", "digest"}

(* Rows of change_requests: nobody has approved what is still pending. *)
IsChange(ch) ==
    /\ DOMAIN ch = ChangeFields
    /\ ch.status = "pending_approval" => ch.approver = None

Rows ==
    /\ \E S : change \in Seq(S)
    /\ \A i \in DOMAIN change : IsChange(change[i])

ChangeInv == Rows /\ \A x \in applying : x.change \in DOMAIN change

LEMMA NewStatusOf ==
    ASSUME NEW ch, IsChange(ch), NEW s, s # "pending_approval"
    PROVE  /\ IsChange([ch EXCEPT !.status = s]) /\ [ch EXCEPT !.status = s].status = s
           /\ \A f \in ChangeFields \ {"status"} : [ch EXCEPT !.status = s][f] = ch[f]
BY DEF IsChange, ChangeFields

LEMMA ApprovedIs ==
    ASSUME NEW ch, IsChange(ch), NEW u
    PROVE  /\ IsChange(Approved(ch, u)) /\ Approved(ch, u).status = "approved"
           /\ Approved(ch, u).approver = u
           /\ \A f \in ChangeFields \ {"status", "approver", "at", "digest"} : Approved(ch, u)[f] = ch[f]
<1> DEFINE r1 == [ch EXCEPT !.status = "approved"]
           r2 == [r1 EXCEPT !.approver = u]
           r3 == [r2 EXCEPT !.at = now]
           r4 == [r3 EXCEPT !.digest = Digest(ch)]
<1>1. DOMAIN r1 = ChangeFields /\ r1.status = "approved"
      /\ \A f \in ChangeFields \ {"status"} : r1[f] = ch[f]
  BY DEF IsChange, ChangeFields
<1>2. Approved(ch, u) = r4
  BY DEF Approved
<1> HIDE DEF r1
<1>3. DOMAIN r2 = ChangeFields /\ r2.approver = u
      /\ \A f \in ChangeFields \ {"approver"} : r2[f] = r1[f]
  BY <1>1 DEF ChangeFields
<1> HIDE DEF r2
<1>4. DOMAIN r3 = ChangeFields /\ \A f \in ChangeFields \ {"at"} : r3[f] = r2[f]
  BY <1>3 DEF ChangeFields
<1> HIDE DEF r3
<1>5. DOMAIN r4 = ChangeFields /\ \A f \in ChangeFields \ {"digest"} : r4[f] = r3[f]
  BY <1>4 DEF ChangeFields
<1> HIDE DEF r4
<1>6. r4.status = "approved" /\ r4.approver = u
  BY <1>1, <1>3, <1>4, <1>5 DEF ChangeFields
<1>7. \A f \in ChangeFields \ {"status", "approver", "at", "digest"} : r4[f] = ch[f]
  BY <1>1, <1>3, <1>4, <1>5
<1> QED BY <1>2, <1>5, <1>6, <1>7 DEF IsChange

(* A row is added, or one row is written. *)
LEMMA AddedRow ==
    ASSUME Rows, NEW ch, IsChange(ch), change' = Append(change, ch)
    PROVE  Rows' /\ DOMAIN change \subseteq DOMAIN change'
<1>1. PICK S : change \in Seq(S)
  BY DEF Rows
<1> DEFINE T == S \cup {ch}
<1>2. change \in Seq(T) /\ ch \in T
  BY <1>1
<1> HIDE DEF T
<1>3. /\ change' \in Seq(T) /\ DOMAIN change' = DOMAIN change \cup {Len(change) + 1}
      /\ \A i \in DOMAIN change : change'[i] = change[i]
      /\ change'[Len(change) + 1] = ch
  BY <1>2, Appended
<1> QED BY <1>3 DEF Rows

LEMMA WrittenRow ==
    ASSUME Rows, NEW i \in DOMAIN change, NEW ch, IsChange(ch),
           change' = [change EXCEPT ![i] = ch]
    PROVE  Rows' /\ DOMAIN change' = DOMAIN change
<1>1. PICK S : change \in Seq(S)
  BY DEF Rows
<1> DEFINE T == S \cup {ch}
<1>2. change \in Seq(T) /\ ch \in T
  BY <1>1
<1> HIDE DEF T
<1>3. change' \in Seq(T)
  BY <1>2
<1>4. change'[i] = ch /\ DOMAIN change' = DOMAIN change
      /\ \A j \in DOMAIN change \ {i} : change'[j] = change[j]
  OBVIOUS
<1> QED BY <1>3, <1>4 DEF Rows

LEMMA StatusRow ==
    ASSUME Rows, NEW i \in DOMAIN change, NEW s, s # "pending_approval",
           change' = [change EXCEPT ![i].status = s]
    PROVE  Rows' /\ DOMAIN change' = DOMAIN change
<1>1. IsChange([change[i] EXCEPT !.status = s])
  BY NewStatusOf DEF Rows
<1> QED BY <1>1, WrittenRow

\* What WritesUnderAuthority asks of a change that u is about to write.
Behind(ch, u) ==
    \/ Consent(ch, ch.by)
    \/ /\ \/ OperatorEdits(u, ch.device)
          \/ Permitted(u, "config.deploy", ch.group, ch.device)
       /\ \/ OperatorEdits(ch.by, ch.device)
          \/ Permitted(ch.by, "config.create", ch.group, ch.device)
       /\ ch.approver # None =>
            \/ OperatorEdits(ch.approver, ch.device)
            \/ Permitted(ch.approver, "config.approve", ch.group, ch.device)

LEMMA AllowedBehind ==
    ASSUME NEW ch, NEW u, DeployAllowed(ch, u)
    PROVE  Behind(ch, u)
<1>1. Consent(ch, u) => u = ch.by
  BY DEF Consent
<1>2. CASE Consent(ch, u)
  BY <1>1, <1>2 DEF Behind
<1>3. CASE ~Consent(ch, u)
  <2>1. \/ OperatorEdits(ch.by, ch.device)
        \/ Permitted(ch.by, "config.create", ch.group, ch.device)
    BY <1>3, Zenon DEF DeployAllowed
  <2>2. OperatorEdits(u, ch.device) \/ Permitted(u, "config.deploy", ch.group, ch.device)
    BY <1>3, Zenon DEF DeployAllowed
  <2>3. ASSUME ch.approver # None PROVE ApproveAllowed(ch, ch.approver)
    BY <2>3, Zenon DEF DeployAllowed
  <2>4. ASSUME ch.approver # None
        PROVE  \/ Consent(ch, ch.approver) \/ OperatorEdits(ch.approver, ch.device)
               \/ Permitted(ch.approver, "config.approve", ch.group, ch.device)
    BY <2>3, <2>4, Zenon DEF ApproveAllowed
  <2>5. Consent(ch, ch.approver) => ch.approver = ch.by
    BY DEF Consent
  <2> QED BY <2>1, <2>2, <2>4, <2>5 DEF Behind
<1> QED BY <1>2, <1>3

\* What each step does to the changes and to the requests that apply them.
ChangeRule == ChangeInv' /\ \A x \in applying : Writes(x) => Behind(change[x.change], x.by)

\* A request that nothing is written for.
Quiet == \A y \in applying' \ applying : y.step # "writes" /\ y.change \in DOMAIN change

LEMMA QuietRule ==
    ASSUME ChangeInv, Rows', DOMAIN change \subseteq DOMAIN change', Quiet
    PROVE  ChangeRule
<1>1. ChangeInv'
  BY DEF ChangeInv, Quiet
<1>2. \A x \in applying : ~Writes(x)
  BY DEF Writes, At, Quiet
<1> QED BY <1>1, <1>2 DEF ChangeRule

LEMMA AtIs == \A i, u, s : /\ At(i, u, s).change = i /\ At(i, u, s).by = u
                          /\ At(i, u, s).step = s
BY DEF At

LEMMA PreviewIs ==
    ASSUME ChangeInv, NEW u, NEW d, NEW g, NEW c, NEW source, NEW consent, NEW confirm,
           CreatePreview(u, d, g, c, source, consent, confirm)
    PROVE  ChangeRule
<1> DEFINE ch == [by |-> u, device |-> d, cmd |-> c, source |-> source, consent |-> consent,
               group |-> g, confirm |-> confirm \/ source = "restore",
               revision |-> device[d].revision, hashed |-> device[d].hashed,
               risk |-> IF confirm \/ source = "restore" THEN "high" ELSE Risk(c, d),
               status |-> "pending_approval", approver |-> None, at |-> None, digest |-> None]
<1>1. PICK h : change' = Append(change, [ch EXCEPT !.group = h])
  BY Zenon DEF CreatePreview
<1>2. DOMAIN ch = ChangeFields /\ ch.approver = None
  BY DEF ChangeFields
<1> HIDE DEF ch
<1>3. IsChange([ch EXCEPT !.group = h])
  BY <1>2 DEF IsChange, ChangeFields
<1>4. Quiet
  BY DEF CreatePreview, Quiet
<1> QED BY <1>1, <1>3, <1>4, AddedRow, QuietRule DEF ChangeInv

LEMMA ApplyIs ==
    ASSUME ChangeInv, NEW u \in Users, NEW i \in DOMAIN change, Apply(u, i)
    PROVE  ChangeRule
<1> DEFINE ch == IF Smart(change[i], u) THEN Approved(change[i], None) ELSE change[i]
<1>1. change' = [change EXCEPT ![i] = ch] /\ applying' \subseteq applying \cup {At(i, u, "checked")}
  BY Zenon DEF Apply
<1>2. IsChange(ch)
  BY ApprovedIs DEF ChangeInv, Rows
<1> HIDE DEF ch
<1>3. Quiet
  BY <1>1, AtIs DEF Quiet
<1> QED BY <1>1, <1>2, <1>3, WrittenRow, QuietRule DEF ChangeInv

LEMMA ClaimIs ==
    ASSUME ChangeInv, NEW x \in applying, Claim(x)
    PROVE  ChangeRule
<1>1. x.change \in DOMAIN change
  BY DEF ChangeInv
<1>2. applying' \subseteq applying \cup {At(x.change, x.by, "claimed")}
  BY Zenon DEF Claim
<1>3. Quiet
  BY <1>1, <1>2, AtIs DEF Quiet
<1>4. CASE change' = change
  BY <1>3, <1>4, QuietRule DEF ChangeInv, Rows
<1>5. CASE change' = [change EXCEPT ![x.change].status = "running"]
  <2>1. PICK s : s = "running"
    OBVIOUS
  <2>2. s # "pending_approval" /\ change' = [change EXCEPT ![x.change].status = s]
    BY <1>5, <2>1
  <2> QED BY <1>1, <1>3, <2>2, StatusRow, QuietRule DEF ChangeInv
<1> QED BY <1>4, <1>5, Zenon DEF Claim

\* The only step that goes on to write.
LEMMA RecheckIs ==
    ASSUME ChangeInv, NEW x \in applying, Recheck(x)
    PROVE  ChangeRule
<1>1. x.change \in DOMAIN change
  BY DEF ChangeInv
<1>2. CASE StillAllowed(change[x.change], x.by)
  <2>1. change' = change /\ applying' = (applying \ {x}) \cup {At(x.change, x.by, "writes")}
    BY <1>2, Zenon DEF Recheck
  <2>2. ChangeInv'
    BY <1>1, <2>1, AtIs DEF ChangeInv, Rows
  <2>3. Behind(change[x.change], x.by)
    BY <1>2, AllowedBehind DEF StillAllowed
  <2>4. ASSUME NEW y \in applying, Writes(y) PROVE y.change = x.change /\ y.by = x.by
    <3>1. At(y.change, y.by, "writes") = At(x.change, x.by, "writes")
      BY <2>1, <2>4 DEF Writes
    <3> QED BY <3>1, AtIs
  <2> QED BY <2>2, <2>3, <2>4 DEF ChangeRule
<1>3. CASE ~StillAllowed(change[x.change], x.by)
  <2>1. change' = [change EXCEPT ![x.change].status = "failed"] /\ applying' = applying \ {x}
    BY <1>3, Zenon DEF Recheck
  <2>2. PICK s : s = "failed"
    OBVIOUS
  <2>3. s # "pending_approval" /\ change' = [change EXCEPT ![x.change].status = s]
    BY <2>1, <2>2
  <2>4. Quiet
    BY <2>1 DEF Quiet
  <2> QED BY <1>1, <2>3, <2>4, StatusRow, QuietRule DEF ChangeInv
<1> QED BY <1>2, <1>3

LEMMA FinishedIs ==
    ASSUME ChangeInv, NEW x \in applying, NEW o \in {"success", "failed"}, Finished(x, o)
    PROVE  ChangeRule
<1>1. x.change \in DOMAIN change
  BY DEF ChangeInv
<1>2. change' = [change EXCEPT ![x.change].status = o] /\ applying' = applying \ {x}
  BY DEF Finished
<1>3. Quiet
  BY <1>2 DEF Quiet
<1> QED BY <1>1, <1>2, <1>3, StatusRow, QuietRule DEF ChangeInv

LEMMA ChangeSteps ==
    ASSUME ChangeInv, [GovernanceNext]_governanceVars
    PROVE  ChangeRule
<1>1. ASSUME UNCHANGED <<change, applying>> PROVE ChangeRule
  BY <1>1, QuietRule DEF ChangeInv, Rows, Quiet
<1>2. ASSUME NEW u \in Users, NEW i \in DOMAIN change, Approve(u, i) PROVE ChangeRule
  <2>1. change' = [change EXCEPT ![i] = Approved(change[i], u)] /\ applying' = applying
    BY <1>2 DEF Approve
  <2>2. IsChange(Approved(change[i], u))
    BY ApprovedIs DEF ChangeInv, Rows
  <2> QED BY <2>1, <2>2, WrittenRow, QuietRule DEF ChangeInv, Quiet
<1>3. ASSUME NEW u \in Users, NEW i \in DOMAIN change, Cancel(u, i) PROVE ChangeRule
  <2>1. change' = [change EXCEPT ![i].status = "cancelled"] /\ applying' = applying
    BY <1>3 DEF Cancel
  <2>2. PICK s : s = "cancelled"
    OBVIOUS
  <2>3. s # "pending_approval" /\ change' = [change EXCEPT ![i].status = s]
    BY <2>1, <2>2
  <2> QED BY <2>1, <2>3, StatusRow, QuietRule DEF ChangeInv, Quiet
<1>4. CASE ChangeStep
  BY <1>2, <1>3, <1>4, PreviewIs, ApplyIs, ClaimIs, Zenon DEF ChangeStep
<1>5. CASE SettingStep
  <2>1. ASSUME NEW u, NEW new, UpdatePolicy(u, new) PROVE UNCHANGED <<change, applying>>
    BY <2>1 DEF UpdatePolicy
  <2>2. ASSUME NEW u, NEW d, NEW e, EditDevice(u, d, e, TRUE) PROVE UNCHANGED <<change, applying>>
    BY <2>2 DEF EditDevice, approvalVars
  <2> QED BY <1>1, <1>5, <2>1, <2>2, RecheckIs, FinishedIs, Zenon DEF SettingStep
<1>6. CASE ~ChangeStep /\ ~SettingStep
  <2>1. CASE UNCHANGED governanceVars \/ UNCHANGED approvalVars
    BY <1>1, <2>1 DEF governanceVars, approvalVars
  <2>2. CASE LabStep
    BY <1>1, <2>2 DEF LabStep
  <2>3. CASE ReserveStep
    <3>1. ASSUME NEW c, \/ ReserveCheck(c) \/ ReserveCommit(c)
                        \/ \E u, d, g, s, m : ReserveBegin(c, u, d, g, s, m)
          PROVE  UNCHANGED <<change, applying>>
      BY <3>1 DEF ReserveCheck, ReserveCommit, ReserveBegin
    <3>2. ASSUME NEW u, NEW b, CancelReservation(u, b) PROVE UNCHANGED <<change, applying>>
      BY <3>2 DEF CancelReservation
    <3> QED BY <1>1, <2>3, <3>1, <3>2 DEF ReserveStep
  <2>4. StudyStep => UNCHANGED approvalVars
    BY DEF StudyStep
  <2> QED BY <1>6, <2>1, <2>2, <2>3, <2>4, Zenon DEF GovernanceNext
<1> QED BY <1>4, <1>5, <1>6

(* Nothing is written but while its deployer, its requester and its approver  *)
(* still have the rights for it (changes/service.py:1022), whatever the rest  *)
(* of the system did since the approval, the first check and the claim.       *)
THEOREM AuthorityAtWrite == GovernanceSpec => WritesUnderAuthority
<1>1. InitGovernance => ChangeInv
  <2> SUFFICES ASSUME InitGovernance PROVE ChangeInv
    OBVIOUS
  <2>1. change = <<>> /\ applying = {}
    BY DEF InitGovernance, InitApproval
  <2>2. change \in Seq({})
    BY <2>1
  <2> QED BY <2>1, <2>2 DEF ChangeInv, Rows
<1>2. ChangeInv /\ [GovernanceNext]_governanceVars => ChangeInv'
  BY ChangeSteps DEF ChangeRule
<1>3. ChangeInv /\ [GovernanceNext]_governanceVars =>
        [\A x \in applying : Writes(x) =>
            LET ch == change[x.change]
            IN  \/ Consent(ch, ch.by)
                \/ /\ \/ OperatorEdits(x.by, ch.device)
                      \/ Permitted(x.by, "config.deploy", ch.group, ch.device)
                   /\ \/ OperatorEdits(ch.by, ch.device)
                      \/ Permitted(ch.by, "config.create", ch.group, ch.device)
                   /\ ch.approver # None =>
                        \/ OperatorEdits(ch.approver, ch.device)
                        \/ Permitted(ch.approver, "config.approve", ch.group, ch.device)]_<<applying>>
  BY ChangeSteps DEF ChangeRule, Behind
<1> QED BY <1>1, <1>2, <1>3, PTL DEF GovernanceSpec, WritesUnderAuthority

-----------------------------------------------------------------------------
(* Reservations and labs run inside the whole as they run alone.             *)

LEMMA CourseSteps ==
    ASSUME [GovernanceNext]_governanceVars
    PROVE  [CourseNext]_courseVars
<1>1. CASE UNCHANGED governanceVars
  BY <1>1 DEF governanceVars, approvalVars, learningVars, courseVars
<1>2. CASE UNCHANGED <<approvalVars, learningVars>>
  BY <1>2 DEF approvalVars, learningVars, courseVars
<1>3. CASE (ChangeStep \/ SettingStep) /\ UNCHANGED learningVars
  <2> DEFINE still == UNCHANGED <<policy, booked, booking, writer>>
  <2>1. ASSUME NEW u, NEW d, NEW g, NEW c, NEW s, NEW a, NEW b, CreatePreview(u, d, g, c, s, a, b)
        PROVE  still
    BY <2>1 DEF CreatePreview
  <2>2. ASSUME NEW u, NEW i, Approve(u, i) \/ Cancel(u, i) \/ Apply(u, i) PROVE still
    BY <2>2 DEF Approve, Cancel, Apply
  <2>3. ASSUME NEW x, NEW o, Claim(x) \/ Recheck(x) \/ Finished(x, o) PROVE still
    BY <2>3 DEF Claim, Recheck, Finished
  <2>4. ASSUME NEW u, NEW d, NEW e, EditDevice(u, d, e, TRUE) PROVE still
    BY <2>4 DEF EditDevice, approvalVars
  <2>5. UNCHANGED <<lab, labWork, infra>>
    BY <1>3 DEF learningVars
  <2>6. ASSUME NEW u \in Users, NEW new \in Policies, UpdatePolicy(u, new) PROVE CourseNext
    <3>1. PolicyStep
      BY <2>5, <2>6 DEF PolicyStep
    <3> QED BY <3>1 DEF CourseNext
  <2>7. still => UNCHANGED courseVars
    BY <2>5 DEF courseVars
  <2> HIDE DEF still
  <2>8. CASE ChangeStep
    BY <2>1, <2>2, <2>3, <2>7, <2>8, Zenon DEF ChangeStep
  <2>9. CASE SettingStep
    BY <2>3, <2>4, <2>6, <2>7, <2>9, Zenon DEF SettingStep
  <2> QED BY <1>3, <2>8, <2>9
<1>4. CASE StudyStep
  <2>1. UNCHANGED <<lab, labWork, infra>>
    <3>1. ASSUME NEW u, NEW i, NEW c, \/ VersionDraft(u, i, c)
                                      \/ \E g, d : CreateDraft(u, g, d, c)
          PROVE  UNCHANGED <<lab, labWork, infra>>
      BY <3>1 DEF CreateDraft, VersionDraft
    <3>2. ASSUME NEW u, NEW g, NEW d, NEW p, CreateAssignment(u, g, d, now + 1, p)
          PROVE  UNCHANGED <<lab, labWork, infra>>
      BY <3>2 DEF CreateAssignment
    <3>3. ASSUME NEW u, NEW i, NEW a, NEW v, Submit(u, a, i, v) PROVE UNCHANGED <<lab, labWork, infra>>
      BY <3>3 DEF Submit
    <3>4. ASSUME NEW u, NEW s, Grade(u, s, 100) PROVE UNCHANGED <<lab, labWork, infra>>
      BY <3>4 DEF Grade
    <3>5. ASSUME NEW u, ConsumeAi(u) PROVE UNCHANGED <<lab, labWork, infra>>
      BY <3>5 DEF ConsumeAi
    <3>6. ASSUME NEW u, NEW i, Reject(u, i) PROVE UNCHANGED <<lab, labWork, infra>>
      BY <3>6 DEF Reject, learningVars
    <3> QED BY <1>4, <3>1, <3>2, <3>3, <3>4, <3>5, <3>6 DEF StudyStep
  <2> QED BY <1>4, <2>1 DEF StudyStep, approvalVars, courseVars
<1>5. CASE /\ \/ ReserveStep /\ UNCHANGED learningVars
              \/ LabStep /\ UNCHANGED accessVars
           /\ \A c \in Clients : booking'[c] = None \/ labWork'[c] = None
  BY <1>5 DEF CourseNext, learningVars
<1> QED BY <1>1, <1>2, <1>3, <1>4, <1>5, Zenon DEF GovernanceNext

(* The promises on reservations and labs hold in the whole system: its steps  *)
(* are steps of reservations and labs, or leave them alone.                   *)
THEOREM CourseInGovernance == GovernanceSpec => CourseSpec
<1>1. InitGovernance => InitApproval /\ InitLearning
  BY DEF InitGovernance
<1>2. [GovernanceNext]_governanceVars => [CourseNext]_courseVars
  BY CourseSteps
<1> QED BY <1>1, <1>2, PTL DEF GovernanceSpec, CourseSpec

THEOREM CourseHolds == GovernanceSpec => [](NoDoubleBooking /\ LabTellsTruth) /\ LabQuota
BY CourseInGovernance, NoDoubleBookings, QuotaHolds, LabsAreAsListed, PTL

-----------------------------------------------------------------------------
(* Permissions.  Whether a grant is live is told by a recursion along the grants  *)
(* it was handed on from: each has a lower id than those that rest on it.        *)

GrantRows ==
    [user : Users, issuer : Users, parent : Nat, action : Actions, group : Groups \cup {None},
     device : Devices \cup {None}, env : {None, "virtual"}, starts : Nat,
     expires : {None} \cup Nat, delegable : BOOLEAN, revoked : BOOLEAN]
GrantsInv ==
    /\ now \in Nat /\ grants \in Seq(GrantRows)
    /\ \A i \in DOMAIN grants : /\ grants[i].parent < i
                                /\ grants[i].parent # 0 => grants[i].group # None

(* What the rows up to n say of whether each of them is live. *)
Chain(n, alive) ==
    alive = [j \in 1 .. n |->
               LET gr == grants[j]
               IN  /\ Stands(gr)
                   /\ IF gr.parent = 0 THEN IsRole(gr.issuer, "ADMIN")
                      ELSE StillBacked(gr, grants[gr.parent], alive[gr.parent])]

LEMMA GrantIs ==
    ASSUME GrantsInv, NEW i \in DOMAIN grants
    PROVE  /\ grants[i] \in GrantRows /\ grants[i].parent \in Nat
           /\ i \in 1 .. Len(grants) /\ Len(grants) \in Nat /\ grants[i].parent < i
<1>1. grants \in Seq(GrantRows) /\ grants[i].parent < i
  BY DEF GrantsInv
<1>2. /\ i \in 1 .. Len(grants) /\ Len(grants) \in Nat /\ grants[i] \in GrantRows
  BY <1>1, LenProperties, ElementOfSeq
<1>3. grants[i].parent \in Nat
  BY <1>2 DEF GrantRows
<1> QED BY <1>1, <1>2, <1>3

LEMMA LeastOfNaturals ==
    ASSUME NEW T \in SUBSET Nat, T # {}
    PROVE  \E x \in T : \A y \in T : x <= y
<1>1. \E x \in T : \A y \in T : ~ (<<y, x>> \in OpToRel(<, Nat))
  BY WFMin, NatLessThanWellFounded, Zenon
<1>2. PICK x \in T : \A y \in T : ~ (<<y, x>> \in OpToRel(<, Nat))
  BY <1>1
<1>3. ASSUME NEW y \in T, y < x PROVE FALSE
  <2>1. <<y, x>> \in Nat \X Nat
    OBVIOUS
  <2>2. <<y, x>> \in OpToRel(<, Nat)
    BY <1>3, <2>1, Zenon DEF OpToRel
  <2> QED BY <1>2, <2>2
<1> QED BY <1>3

LEMMA LiveIsChain ==
    ASSUME NEW i
    PROVE  Live(i) = (CHOOSE alive : Chain(i, alive))[i]
BY DEF Live, Chain

(* The first row about which two chains disagree would rest on a lower one. *)
LEMMA ChainsAgree ==
    ASSUME GrantsInv, NEW n \in Nat, NEW m \in Nat, n <= m, m <= Len(grants),
           NEW f, Chain(n, f), NEW g, Chain(m, g), NEW i \in 1 .. n
    PROVE  f[i] = g[i]
<1> DEFINE T == {j \in 1 .. n : f[j] # g[j]}
<1> SUFFICES ASSUME i \in T PROVE FALSE
  OBVIOUS
<1>1. T \in SUBSET Nat /\ T # {}
  OBVIOUS
<1>2. PICK j \in T : \A k \in T : j <= k
  <2> HIDE DEF T
  <2> QED BY <1>1, LeastOfNaturals
<1>3. j \in 1 .. n /\ j \in 1 .. m /\ f[j] # g[j] /\ j \in DOMAIN grants
  BY DEF GrantsInv
<1> DEFINE gr == grants[j]
           p == gr.parent
<1>4. p \in Nat /\ p < j
  BY <1>3, GrantIs
<1>5. p # 0 => f[p] = g[p]
  <2> SUFFICES ASSUME p # 0 PROVE f[p] = g[p]
    OBVIOUS
  <2>1. p \in 1 .. n /\ p \notin T
    BY <1>2, <1>3, <1>4
  <2> QED BY <2>1
<1> DEFINE body(alive) == /\ Stands(gr)
                          /\ IF p = 0 THEN IsRole(gr.issuer, "ADMIN")
                             ELSE StillBacked(gr, grants[p], alive[p])
<1>6. f[j] = body(f)
  BY <1>3 DEF Chain
<1>7. g[j] = body(g)
  BY <1>3 DEF Chain
<1>8. body(f) = body(g)
  BY <1>5 DEF StillBacked
<1> QED BY <1>3, <1>6, <1>7, <1>8

LEMMA ChainThere ==
    ASSUME GrantsInv, NEW n \in 0 .. Len(grants)
    PROVE  \E f : Chain(n, f)
<1> DEFINE Bad == {m \in 0 .. Len(grants) : ~ \E f : Chain(m, f)}
<1> SUFFICES ASSUME n \in Bad PROVE FALSE
  OBVIOUS
<1>0. Len(grants) \in Nat /\ DOMAIN grants = 1 .. Len(grants)
  BY DEF GrantsInv
<1>1. Bad \in SUBSET Nat /\ Bad # {}
  BY <1>0
<1>2. PICK m \in Bad : \A k \in Bad : m <= k
  <2> HIDE DEF Bad
  <2> QED BY <1>1, LeastOfNaturals
<1>3. m \in 0 .. Len(grants) /\ ~ \E f : Chain(m, f)
  OBVIOUS
<1>4. m # 0
  <2> SUFFICES ASSUME m = 0 PROVE FALSE
    OBVIOUS
  <2> DEFINE f == [j \in 1 .. 0 |-> TRUE]
  <2>1. 1 .. 0 = {}
    OBVIOUS
  <2>2. Chain(0, f)
    BY <2>1 DEF Chain
  <2> QED BY <1>3, <2>2
<1>5. m - 1 \in 0 .. Len(grants) /\ m - 1 \notin Bad
  BY <1>0, <1>2, <1>3, <1>4
<1>6. PICK g : Chain(m - 1, g)
  BY <1>5
<1> DEFINE body(alive, j) ==
             /\ Stands(grants[j])
             /\ IF grants[j].parent = 0 THEN IsRole(grants[j].issuer, "ADMIN")
                ELSE StillBacked(grants[j], grants[grants[j].parent], alive[grants[j].parent])
           f == [j \in 1 .. m |-> body(g, j)]
<1>7. ASSUME NEW j \in 1 .. m PROVE body(f, j) = body(g, j)
  <2> DEFINE p == grants[j].parent
  <2>1. p \in Nat /\ p < j
    BY <1>0, <1>3, GrantIs
  <2>2. CASE p = 0
    BY <2>2
  <2>3. CASE p # 0
    <3>1. p \in 1 .. m - 1 /\ p \in 1 .. m
      BY <1>0, <1>3, <2>1, <2>3
    <3>2. g[p] = body(g, p)
      BY <1>6, <3>1 DEF Chain
    <3>3. f[p] = body(g, p)
      BY <3>1
    <3> HIDE DEF f, body
    <3>4. f[p] = g[p]
      BY <3>2, <3>3
    <3>5. grants[j].parent = p
      OBVIOUS
    <3> HIDE DEF p
    <3> QED BY <3>4, <3>5 DEF body
  <2> QED BY <2>2, <2>3
<1>8. f = [j \in 1 .. m |-> body(f, j)]
  <2> DEFINE h == [j \in 1 .. m |-> body(f, j)]
  <2>1. \A j \in 1 .. m : h[j] = f[j]
    BY <1>7
  <2>2. f = h
    <3>1. DOMAIN f = 1 .. m /\ DOMAIN h = 1 .. m /\ f = [j \in DOMAIN f |-> f[j]] /\ h = [j \in DOMAIN h |-> h[j]]
      OBVIOUS
    <3> HIDE DEF f, h
    <3> QED BY <2>1, <3>1
  <2> QED BY <2>2
<1> HIDE DEF f
<1>9. Chain(m, f)
  BY <1>8 DEF Chain
<1> QED BY <1>3, <1>9

(* One step of the recursion. *)
LEMMA LiveUnfolds ==
    ASSUME GrantsInv, NEW i \in DOMAIN grants
    PROVE  Live(i) <=> /\ Stands(grants[i])
                       /\ IF grants[i].parent = 0 THEN IsRole(grants[i].issuer, "ADMIN")
                          ELSE Live(grants[i].parent) /\ Backed(grants[i], grants[grants[i].parent])
<1> DEFINE gr == grants[i]
           p == gr.parent
<1>1. i \in 1 .. Len(grants) /\ Len(grants) \in Nat /\ p \in Nat /\ p < i
  BY GrantIs
<1>2. PICK f : f = (CHOOSE alive : Chain(i, alive)) /\ Chain(i, f)
  <2>1. \E f : Chain(i, f)
    BY <1>1, ChainThere
  <2> QED BY <2>1, Zenon
<1>3. Live(i) = f[i]
  BY <1>2, LiveIsChain
<1>4. f[i] = (/\ Stands(gr)
              /\ IF p = 0 THEN IsRole(gr.issuer, "ADMIN") ELSE StillBacked(gr, grants[p], f[p]))
  <2>1. i \in 1 .. i
    BY <1>1
  <2>2. f = [j \in 1 .. i |->
               /\ Stands(grants[j])
               /\ IF grants[j].parent = 0 THEN IsRole(grants[j].issuer, "ADMIN")
                  ELSE StillBacked(grants[j], grants[grants[j].parent], f[grants[j].parent])]
    BY <1>2 DEF Chain
  <2>3. f[i] = (/\ Stands(grants[i])
                /\ IF grants[i].parent = 0 THEN IsRole(grants[i].issuer, "ADMIN")
                   ELSE StillBacked(grants[i], grants[grants[i].parent], f[grants[i].parent]))
    BY <2>1, <2>2, Zenon
  <2> QED BY <2>3
<1>5. p # 0 => Live(p) = f[p]
  <2> SUFFICES ASSUME p # 0 PROVE Live(p) = f[p]
    OBVIOUS
  <2>1. PICK g : g = (CHOOSE alive : Chain(p, alive)) /\ Chain(p, g)
    <3>1. \E g : Chain(p, g)
      BY <1>1, ChainThere
    <3> QED BY <3>1, Zenon
  <2>2. p \in 1 .. p /\ p <= i /\ i <= Len(grants) /\ i \in Nat
    BY <1>1
  <2>3. g[p] = f[p]
    <3> HIDE DEF p
    <3> QED BY <1>1, <1>2, <2>1, <2>2, ChainsAgree
  <2> QED BY <2>1, <2>3, LiveIsChain
<1> QED BY <1>3, <1>4, <1>5 DEF StillBacked

Unfolds == GrantsInv => \A i \in DOMAIN grants :
    Live(i) <=> /\ Stands(grants[i])
                /\ IF grants[i].parent = 0 THEN IsRole(grants[i].issuer, "ADMIN")
                   ELSE Live(grants[i].parent) /\ Backed(grants[i], grants[grants[i].parent])
LEMMA UnfoldsToo == Unfolds /\ Unfolds'
<1>1. Unfolds
  BY LiveUnfolds DEF Unfolds
<1> QED BY <1>1, PTL

(* Steps that touch the permissions, and steps that do not. *)
LEMMA GrantSteps ==
    ASSUME [GovernanceNext]_governanceVars
    PROVE  \/ UNCHANGED grants
           \/ \E gr \in NewGrants : IssueGrant(gr)
           \/ \E u \in Users, i \in DOMAIN grants : RevokeGrant(u, i)
           \/ \E hit : grants' = Revoked(hit)
           \/ \E c \in Clients : CommitAccount(c)
<1>1. CASE UNCHANGED governanceVars
  BY <1>1 DEF governanceVars, accessVars
<1>2. CASE PeopleStep
  BY <1>2 DEF PeopleStep, AccountStep, accessVars
<1>3. CASE AccessStep
  <2>1. ASSUME NEW u \in Users, NEW g \in Groups, GroupStep(u, g)
        PROVE  UNCHANGED grants \/ \E hit : grants' = Revoked(hit)
    <3>1. ASSUME NEW on, ArchiveGroup(u, g, on) \/ SetAutoApprove(u, g, on) PROVE UNCHANGED grants
      BY <3>1 DEF ArchiveGroup, SetAutoApprove
    <3>2. ASSUME NEW d, AllocateDevice(u, g, d) PROVE UNCHANGED grants
      BY <3>2 DEF AllocateDevice
    <3>3. ASSUME NEW d, DeallocateDevice(u, g, d) PROVE \E hit : grants' = Revoked(hit)
      BY <3>3 DEF DeallocateDevice
    <3>4. CASE CreateGroup(u, g) \/ Invite(u, g) \/ RevokeInvitation(u, g) \/ Join(u, g)
      BY <3>4 DEF CreateGroup, Invite, RevokeInvitation, Join
    <3>5. ASSUME NEW s, \/ TransferGroup(u, g, s) \/ AddMember(u, g, s)
                        \/ \E on \in BOOLEAN : SuspendMember(u, g, s, on) \/ ReviewJoin(u, g, s, on)
          PROVE  UNCHANGED grants
      BY <3>5 DEF TransferGroup, AddMember, SuspendMember, ReviewJoin
    <3>6. ASSUME NEW s, RemoveStudent(u, g, s) PROVE \E hit : grants' = Revoked(hit)
      BY <3>6 DEF RemoveStudent
    <3> QED BY <2>1, <3>1, <3>2, <3>3, <3>4, <3>5, <3>6 DEF GroupStep
  <2>2. Tick => UNCHANGED grants
    BY DEF Tick
  <2> QED BY <1>3, <2>1, <2>2 DEF AccessStep
<1>4. CASE UNCHANGED accessVars
  BY <1>4 DEF accessVars
<1>5. CASE ChangeStep \/ SettingStep
  BY <1>5 DEF ChangeStep, SettingStep, accessVars
<1>6. CASE StudyStep /\ UNCHANGED <<accountVars, projectVars, accessVars>>
  BY <1>6 DEF accessVars
<1>7. CASE ReserveStep
  BY <1>7 DEF ReserveStep, accessVars
<1> QED BY <1>1, <1>2, <1>3, <1>4, <1>5, <1>6, <1>7 DEF GovernanceNext

LEMMA TimeSteps ==
    ASSUME [GovernanceNext]_governanceVars
    PROVE  now' \in {now, now + 1}
BY WorkSteps DEF accessVars

LEMMA GrantsKept ==
    ASSUME AccountInv, GrantsInv, [GovernanceNext]_governanceVars
    PROVE  GrantsInv'
<1>0. now' \in Nat
  BY TimeSteps DEF GrantsInv
<1>g. grants \in Seq(GrantRows) /\ Len(grants) \in Nat /\ DOMAIN grants = 1 .. Len(grants)
  BY LenProperties DEF GrantsInv
<1>1. ASSUME NEW new, DOMAIN new = DOMAIN grants, grants' = new, new = [i \in DOMAIN new |-> new[i]],
             \A i \in DOMAIN grants : /\ new[i] \in GrantRows
                                      /\ new[i].parent = grants[i].parent
                                      /\ new[i].group = grants[i].group
      PROVE  GrantsInv'
  <2>1. new \in Seq(GrantRows)
    <3>1. new \in [1 .. Len(grants) -> GrantRows]
      BY <1>1, <1>g
    <3> QED BY <3>1, <1>g, SeqDef
  <2> QED BY <1>0, <1>1, <2>1 DEF GrantsInv
<1>2. CASE UNCHANGED grants
  BY <1>0, <1>2 DEF GrantsInv
<1>3. ASSUME NEW gr \in NewGrants, IssueGrant(gr) PROVE GrantsInv'
  <2> DEFINE p == IF IsRole(gr.issuer, "ADMIN") THEN 0 ELSE ParentOf(gr)
             row == [gr EXCEPT !.parent = p]
  <2>1. grants' = Append(grants, row)
    BY <1>3 DEF IssueGrant
  <2>2. ParentOf(gr) \in {0} \cup DOMAIN grants
    BY DEF ParentOf
  <2>3. p \in Nat /\ p < Len(grants) + 1 /\ (p # 0 => gr.group # None)
    <3>1. IsRole(gr.issuer, "ADMIN") \/ Teaches(gr)
      BY <1>3 DEF IssueGrant
    <3>2. p \in {0} \cup 1 .. Len(grants)
      BY <1>g, <2>2
    <3>3. p # 0 => gr.group # None
      BY <3>1 DEF Teaches
    <3> HIDE DEF p
    <3> QED BY <1>g, <3>2, <3>3
  <2>4. row \in GrantRows /\ row.parent = p /\ row.group = gr.group
    <3>1. {now + n : n \in Delays} \subseteq Nat /\ {None, now + 1} \subseteq {None} \cup Nat
      BY AccessBounds DEF GrantsInv
    <3>2. gr \in GrantRows
      <4> DEFINE starts == {now + n : n \in Delays}
                 ends == {None, now + 1}
      <4>1. gr \in [user : Users, issuer : Users, parent : {0}, action : Actions,
                    group : Groups \cup {None}, device : Devices \cup {None},
                    env : {None, "virtual"}, starts : starts, expires : ends,
                    delegable : BOOLEAN, revoked : {FALSE}]
        BY DEF NewGrants
      <4>2. starts \subseteq Nat /\ ends \subseteq {None} \cup Nat
        BY <3>1
      <4> HIDE DEF starts, ends
      <4>3. /\ gr.parent = 0 /\ gr.revoked = FALSE
            /\ gr.starts \in Nat /\ gr.expires \in {None} \cup Nat
        BY <4>1, <4>2
      <4>4. gr = [user |-> gr.user, issuer |-> gr.issuer, parent |-> gr.parent,
                  action |-> gr.action, group |-> gr.group, device |-> gr.device,
                  env |-> gr.env, starts |-> gr.starts, expires |-> gr.expires,
                  delegable |-> gr.delegable, revoked |-> gr.revoked]
        BY <4>1
      <4>5. /\ gr.user \in Users /\ gr.issuer \in Users /\ gr.action \in Actions
            /\ gr.group \in Groups \cup {None} /\ gr.device \in Devices \cup {None}
            /\ gr.env \in {None, "virtual"} /\ gr.delegable \in BOOLEAN
        BY <4>1
      <4>6. gr.parent \in Nat
        BY <4>3
      <4>7. gr.revoked \in BOOLEAN
        BY <4>3, Zenon
      <4> QED BY <4>3, <4>4, <4>5, <4>6, <4>7 DEF GrantRows
    <3> HIDE DEF p
    <3> QED BY <2>3, <3>2 DEF GrantRows
  <2> HIDE DEF p, row
  <2>5. /\ grants' \in Seq(GrantRows) /\ Len(grants') = Len(grants) + 1
        /\ grants'[Len(grants) + 1] = row
        /\ \A i \in 1 .. Len(grants) : grants'[i] = grants[i]
        /\ DOMAIN grants' = 1 .. Len(grants) + 1
    BY <1>g, <2>1, <2>4, AppendProperties
  <2>6. ASSUME NEW i \in DOMAIN grants'
        PROVE  grants'[i].parent < i /\ (grants'[i].parent # 0 => grants'[i].group # None)
    <3>1. CASE i = Len(grants) + 1
      BY <2>3, <2>4, <2>5, <3>1
    <3>2. CASE i \in 1 .. Len(grants)
      BY <1>g, <2>5, <3>2 DEF GrantsInv
    <3> QED BY <1>g, <2>5, <3>1, <3>2
  <2> QED BY <1>0, <2>5, <2>6 DEF GrantsInv
<1>4. ASSUME NEW hit, grants' = Revoked(hit) PROVE GrantsInv'
  <2> DEFINE new == Revoked(hit)
  <2>1. /\ new = [i \in DOMAIN new |-> new[i]] /\ DOMAIN new = DOMAIN grants
        /\ \A i \in DOMAIN grants :
              new[i] = [grants[i] EXCEPT !.revoked = grants[i].revoked \/ i \in hit]
    BY DEF Revoked
  <2>2. \A row \in GrantRows, b \in BOOLEAN :
           LET now_ == [row EXCEPT !.revoked = b]
           IN  now_ \in GrantRows /\ now_.parent = row.parent /\ now_.group = row.group
    BY DEF GrantRows
  <2>3. ASSUME NEW i \in DOMAIN grants
        PROVE  new[i] \in GrantRows /\ new[i].parent = grants[i].parent /\ new[i].group = grants[i].group
    <3>1. grants[i] \in GrantRows
      BY GrantIs
    <3>2. (grants[i].revoked \/ i \in hit) \in BOOLEAN
      OBVIOUS
    <3> HIDE DEF new
    <3> QED BY <2>1, <2>2, <3>1, <3>2
  <2> HIDE DEF new
  <2> QED BY <1>1, <1>4, <2>1, <2>3 DEF new
<1>5. ASSUME NEW u \in Users, NEW k \in DOMAIN grants, RevokeGrant(u, k) PROVE GrantsInv'
  <2> DEFINE new == [grants EXCEPT ![k].revoked = TRUE]
  <2>1. /\ grants' = new /\ DOMAIN new = DOMAIN grants /\ new = [i \in DOMAIN new |-> new[i]]
        /\ new[k] = [grants[k] EXCEPT !.revoked = TRUE]
        /\ \A i \in DOMAIN grants \ {k} : new[i] = grants[i]
    BY <1>5, <1>g DEF RevokeGrant
  <2>2. \A i \in DOMAIN grants : grants[i] \in GrantRows
    BY GrantIs
  <2>3. /\ new[k] \in GrantRows /\ new[k].parent = grants[k].parent /\ new[k].group = grants[k].group
    <3>1. \A row \in GrantRows :
             LET out == [row EXCEPT !.revoked = TRUE]
             IN  out \in GrantRows /\ out.parent = row.parent /\ out.group = row.group
      BY DEF GrantRows
    <3> HIDE DEF new
    <3> QED BY <2>1, <2>2, <3>1
  <2> HIDE DEF new
  <2> QED BY <1>1, <2>1, <2>2, <2>3
<1>6. ASSUME NEW c \in Clients, CommitAccount(c) PROVE GrantsInv'
  <2> DEFINE new == ReissueGrants(c)
             move == request[c].move
  <2>1. move \in {None} \cup (Users \X Users)
    BY <1>6 DEF CommitAccount, Commit, AccountInv, Requests
  <2>2. /\ grants' = new /\ DOMAIN new = DOMAIN grants /\ new = [i \in DOMAIN new |-> new[i]]
        /\ \A i \in DOMAIN grants :
             new[i] = IF move # None /\ grants[i].issuer = move[1] /\ grants[i].parent = 0
                      THEN [grants[i] EXCEPT !.issuer = move[2]] ELSE grants[i]
    BY <1>6 DEF CommitAccount, ReissueGrants
  <2>3. \A row \in GrantRows, v \in Users :
           LET out == [row EXCEPT !.issuer = v]
           IN  out \in GrantRows /\ out.parent = row.parent /\ out.group = row.group
    BY DEF GrantRows
  <2>4. \A i \in DOMAIN grants : grants[i] \in GrantRows
    BY GrantIs
  <2>5. move # None => move[2] \in Users
    BY <2>1
  <2> HIDE DEF new
  <2>6. \A i \in DOMAIN grants :
           new[i] \in GrantRows /\ new[i].parent = grants[i].parent /\ new[i].group = grants[i].group
    <3> SUFFICES ASSUME NEW i \in DOMAIN grants
                 PROVE  /\ new[i] \in GrantRows /\ new[i].parent = grants[i].parent
                        /\ new[i].group = grants[i].group
      OBVIOUS
    <3>1. CASE move # None /\ grants[i].issuer = move[1] /\ grants[i].parent = 0
      <4> HIDE DEF move
      <4>1. new[i] = [grants[i] EXCEPT !.issuer = move[2]]
        BY <2>2, <3>1
      <4> QED BY <2>3, <2>4, <2>5, <3>1, <4>1
    <3>2. CASE ~(move # None /\ grants[i].issuer = move[1] /\ grants[i].parent = 0)
      <4> HIDE DEF move
      <4> QED BY <2>2, <2>4, <3>2
    <3> QED BY <3>1, <3>2
  <2> QED BY <1>1, <2>2, <2>6
<1> QED BY <1>2, <1>3, <1>4, <1>5, <1>6, GrantSteps

LEMMA GrantsBegin == InitGovernance => GrantsInv
<1> SUFFICES ASSUME InitGovernance PROVE GrantsInv
  OBVIOUS
<1>1. grants = <<>> /\ now = 0
  BY DEF InitGovernance, InitAccess
<1>2. <<>> \in Seq(GrantRows) /\ DOMAIN <<>> = {}
  BY EmptySeq
<1> QED BY <1>1, <1>2 DEF GrantsInv

LEMMA GrantsSound == GovernanceSpec => [](AccountInv /\ GrantsInv)
<1>1. InitGovernance => AccountInv /\ GrantsInv
  BY AccountsBegin, GrantsBegin
<1>2. AccountInv /\ GrantsInv /\ [GovernanceNext]_governanceVars => GrantsInv'
  BY GrantsKept
<1> QED BY <1>1, <1>2, AccountsSound, PTL DEF GovernanceSpec

(* A permission a teacher handed on works only while the teacher has it in the    *)
(* same scope, however long the chain: what revokes, expires, suspends or        *)
(* archives it anywhere up the chain reaches the student (governance/access.py:69). *)
THEOREM HandedOnStaysWithin == GovernanceSpec => []WithinIssuer
<1>1. GrantsInv => WithinIssuer
  <2> SUFFICES ASSUME GrantsInv, NEW i \in DOMAIN grants, Live(i),
                      IsRole(grants[i].issuer, "TEACHER"),
                      NEW d \in group[grants[i].group].devices \cup {None},
                      Covers(grants[i], grants[i].group, d, EnvOf(d))
               PROVE  Permitted(grants[i].issuer, grants[i].action, grants[i].group, d)
    BY DEF WithinIssuer
  <2> DEFINE gr == grants[i]
             p == gr.parent
  <2>1. Stands(gr) /\ p # 0 /\ Live(p) /\ Backed(gr, grants[p])
    BY LiveUnfolds DEF IsRole
  <2>2. p \in DOMAIN grants /\ gr.group # None
    <3>1. p \in Nat /\ p < i /\ i \in 1 .. Len(grants) /\ Len(grants) \in Nat
      BY GrantIs
    <3>2. DOMAIN grants = 1 .. Len(grants)
      BY LenProperties DEF GrantsInv
    <3>3. p \in DOMAIN grants
      <4> HIDE DEF p
      <4> QED BY <2>1, <3>1, <3>2
    <3> QED BY <2>1, <3>3 DEF GrantsInv
  <2>3. Acts(gr.issuer) /\ GroupMember(gr.issuer, gr.group)
    BY <2>1, <2>2 DEF Stands, IsRole
  <2>4. Holds(gr.issuer, p, gr.action)
    BY <2>1 DEF Backed, Holds
  <2>5. Covers(grants[p], gr.group, d, EnvOf(d))
    BY <2>1 DEF Backed, Covers
  <2>6. gr.group \in Scopes(gr.issuer, gr.group, d)
    BY <2>2, <2>3 DEF Scopes
  <2>7. account[gr.issuer].role \in {"TEACHER", "STUDENT"} /\ ~IsRole(gr.issuer, "STUDENT")
    BY DEF IsRole
  <2> HIDE DEF gr, p
  <2>8. \E k \in DOMAIN grants, s \in Scopes(gr.issuer, gr.group, d) :
           Holds(gr.issuer, k, gr.action) /\ Covers(grants[k], s, d, EnvOf(d))
    BY <2>2, <2>4, <2>5, <2>6
  <2> QED BY <2>3, <2>7, <2>8 DEF Permitted, gr
<1> QED BY <1>1, GrantsSound, PTL

-----------------------------------------------------------------------------
(* Handing over the administration, whatever other requests on accounts overlap. *)

(* Only a transfer writes two accounts, and it says whose. *)
Hands(r) ==
    \A x, y \in Users :
        x # y /\ r.writes[x].role = "TEACHER" /\ r.writes[y].role = "ADMIN" => r.move = <<x, y>>
MoveInv == \A c \in Clients : request[c] # None => Hands(request[c])

LEMMA BegunHands ==
    ASSUME AccountInv, NEW c \in Clients, BeginRequest(c)
    PROVE  Hands(request'[c])
<1>n. None \notin {"TEACHER", "ADMIN"} /\ Kept.role = None
  BY AccountConstants DEF Roles, Kept
<1>1. ASSUME NEW u \in Users, NEW w, Begin(c, Only(u, w), None) PROVE Hands(request'[c])
  <2>1. request'[c] = [writes |-> Only(u, w), move |-> None]
    BY <1>1 DEF Begin, AccountInv
  <2>2. \A v \in Users \ {u} : Only(u, w)[v].role = None
    BY <1>n DEF Only
  <2> QED BY <1>n, <2>1, <2>2 DEF Hands
<1>2. ASSUME NEW a \in Users, NEW t \in Users, TransferAdmin(c, a, t) PROVE Hands(request'[c])
  <2> DEFINE w == HandOver(a, t)
  <2>1. request'[c] = [writes |-> w, move |-> <<a, t>>]
    BY <1>2 DEF TransferAdmin, Begin, AccountInv
  <2>2. t # a /\ \A v \in Users \ {a, t} : w[v].role = None
    BY <1>2, <1>n DEF TransferAdmin, HandOver
  <2>3. w[a].role # "ADMIN" /\ w[t].role # "TEACHER"
    BY <1>n, <2>2 DEF HandOver, Write, Differs
  <2> HIDE DEF w
  <2> QED BY <1>n, <2>1, <2>2, <2>3 DEF Hands
<1>3. ASSUME NEW a \in Users, NEW u \in Users, NEW on \in BOOLEAN, NEW r \in Roles,
             \/ PatchActive(c, a, u, on) \/ PutUser(c, a, u, r, on) \/ ChangePassword(c, u)
      PROVE  Hands(request'[c])
  BY <1>1, <1>3, Zenon DEF PatchActive, PutUser, ChangePassword
<1>r. Roles # {} /\ BOOLEAN # {}
  BY DEF Roles
<1> QED BY <1>2, <1>3, <1>r, Zenon DEF BeginRequest

LEMMA MovesKept ==
    ASSUME AccountInv, MoveInv, PeopleStep
    PROVE  MoveInv'
<1>1. ASSUME NEW c \in Clients, BeginRequest(c) PROVE MoveInv'
  <2>1. \A d \in Clients \ {c} : request'[d] = request[d]
    BY <1>1, BegunRequest DEF AccountInv
  <2>2. Hands(request'[c])
    BY <1>1, BegunHands
  <2>3. ASSUME NEW d \in Clients, request'[d] # None PROVE Hands(request'[d])
    BY <2>1, <2>2, <2>3 DEF MoveInv
  <2> QED BY <2>3 DEF MoveInv, Hands
<1>2. ASSUME NEW c \in Clients, Commit(c) \/ CommitFails(c) PROVE MoveInv'
  BY <1>2 DEF Commit, CommitFails, AccountInv, MoveInv, Hands
<1>3. UNCHANGED request => MoveInv'
  BY DEF MoveInv, Hands
<1>4. ASSUME NEW u, Login(u) PROVE UNCHANGED request
  BY <1>4 DEF Login
<1>5. ASSUME NEW a, NEW u, NEW r, NEW may, CreateUser(a, u, r, may) PROVE UNCHANGED request
  BY <1>5 DEF CreateUser
<1>6. CASE AccountStep
  BY <1>1, <1>2, <1>3, <1>4, <1>5, <1>6 DEF AccountStep, CommitAccount
<1> QED BY <1>3, <1>5, <1>6 DEF PeopleStep

\* The commit that makes a teacher of the administrator and leaves another in office.
Succeeds(c, u, t) ==
    /\ CommitAccount(c) /\ request[c].move = <<u, t>> /\ IsRole(u, "ADMIN")
    /\ account'[t].role = "ADMIN" /\ account'[t].active

LEMMA Successor ==
    ASSUME AccountInv, MoveInv, PeopleStep, AdminRemains',
           NEW u \in Users, IsRole(u, "ADMIN"), account'[u].role = "TEACHER"
    PROVE  \E c \in Clients, t \in Users : Succeeds(c, u, t)
<1>1. PICK t \in Users : account'[t].role = "ADMIN" /\ account'[t].active
  BY DEF AdminRemains, IsAdmin, Acts, IsRole
<1>2. t # u /\ account[t].role # "ADMIN"
  BY <1>1 DEF AccountInv, OneAdmin, IsRole
<1>3. PICK c \in Clients : CommitAccount(c)
  <2>1. ASSUME NEW a \in Users, NEW v \in Users, NEW r \in Roles, NEW may, CreateUser(a, v, r, may)
        PROVE  FALSE
    <3>1. account[v] = Absent /\ \A x \in Users \ {v} : account'[x] = account[x]
      BY <2>1 DEF CreateUser, AccountInv
    <3>2. u # v
      BY <3>1, AccountConstants DEF IsRole, Absent, Roles
    <3> QED BY <3>1, <3>2 DEF IsRole
  <2>2. ASSUME NEW c \in Clients, BeginRequest(c) \/ CommitFails(c) PROVE account' = account
    BY <2>2, BegunRequest DEF CommitFails
  <2>3. ASSUME NEW v, Login(v) PROVE account' = account
    BY <2>3 DEF Login
  <2>4. {"TEACHER", "STUDENT"} \subseteq Roles
    BY DEF Roles
  <2>5. CASE AccountStep
    BY <2>1, <2>2, <2>3, <2>4, <2>5 DEF AccountStep, IsRole
  <2> QED BY <2>1, <2>5 DEF PeopleStep
<1> DEFINE w == request[c].writes
<1>4. request[c] # None /\ account' = AfterCommit(c)
  BY <1>3 DEF CommitAccount, Commit
<1>5. ASSUME NEW v \in Users
      PROVE  account'[v].role = IF w[v].role = None THEN account[v].role ELSE w[v].role
  <2>1. w[v] \in WriteRows /\ account'[v] = Written(account[v], w[v]) /\ account[v] \in AccountRows
    BY <1>4, RequestIs DEF AccountInv
  <2> HIDE DEF w
  <2> QED BY <2>1, WrittenIs
<1>6. w[u].role = "TEACHER" /\ w[t].role = "ADMIN"
  BY <1>1, <1>2, <1>5 DEF IsRole
<1>7. request[c].move = <<u, t>>
  BY <1>2, <1>4, <1>6 DEF MoveInv, Hands
<1> QED BY <1>1, <1>3, <1>7 DEF Succeeds

(* Its roots are the successor's from then on. *)
LEMMA RootsStay ==
    ASSUME AccountInv, GrantsInv, GrantsInv', NEW c, NEW u \in Users, NEW t \in Users, Succeeds(c, u, t),
           NEW i \in DOMAIN grants, Live(i), account'[grants[i].user] = account[grants[i].user],
           \/ grants[i].parent = 0
           \/ account'[grants[i].issuer] = account[grants[i].issuer] /\ Live(grants[i].parent)'
    PROVE  Live(i)'
<1>0. PICK gr : gr = grants[i]
  OBVIOUS
<1>1. /\ gr \in GrantRows /\ i \in 1 .. Len(grants) /\ gr.parent \in Nat /\ gr.parent < i
      /\ DOMAIN grants = 1 .. Len(grants) /\ Len(grants) \in Nat
  BY <1>0, GrantIs DEF GrantsInv
<1>2. /\ Stands(gr)
      /\ gr.parent = 0 => IsRole(gr.issuer, "ADMIN")
      /\ gr.parent # 0 => Live(gr.parent) /\ Backed(gr, grants[gr.parent])
  BY <1>0, LiveUnfolds
<1>3. UNCHANGED <<group, suspended, now>> /\ grants' = ReissueGrants(c) /\ <<u, t>> # None
  BY AccountConstants DEF Succeeds, CommitAccount
<1>4. /\ DOMAIN grants' = DOMAIN grants
      /\ \A j \in DOMAIN grants :
           grants'[j] = IF grants[j].issuer = u /\ grants[j].parent = 0
                        THEN [grants[j] EXCEPT !.issuer = t] ELSE grants[j]
  <2>1. PICK move : move = request[c].move /\ move = <<u, t>>
    BY DEF Succeeds
  <2>2. move # None /\ move[1] = u /\ move[2] = t
    BY <1>3, <2>1
  <2>3. grants' = [j \in DOMAIN grants |->
           IF move # None /\ grants[j].issuer = move[1] /\ grants[j].parent = 0
           THEN [grants[j] EXCEPT !.issuer = move[2]] ELSE grants[j]]
    BY <1>3, <2>1, Zenon DEF ReissueGrants
  <2> QED BY <2>2, <2>3
<1>5. \A row \in GrantRows :
         LET new == [row EXCEPT !.issuer = t]
         IN  /\ new.issuer = t /\ new.user = row.user /\ new.parent = row.parent
             /\ new.group = row.group /\ new.revoked = row.revoked /\ new.starts = row.starts
             /\ new.expires = row.expires /\ new.action = row.action /\ new.device = row.device
             /\ new.env = row.env /\ new.delegable = row.delegable
  BY DEF GrantRows
<1>6. Live(i)' <=> /\ Stands(grants[i])'
                   /\ IF grants'[i].parent = 0 THEN IsRole(grants[i].issuer, "ADMIN")'
                      ELSE (Live(grants[i].parent) /\ Backed(grants[i], grants[grants[i].parent]))'
  BY <1>4, UnfoldsToo DEF Unfolds
<1>7. gr.group # None => GroupMember(gr.user, gr.group)'
  <2> SUFFICES ASSUME gr.group # None PROVE GroupMember(gr.user, gr.group)'
    OBVIOUS
  <2>1. GroupMember(gr.user, gr.group) /\ account'[gr.user] = account[gr.user]
    BY <1>0, <1>2 DEF Stands
  <2> QED BY <1>3, <2>1 DEF GroupMember, Acts, IsRole
<1>8. Acts(gr.user)'
  BY <1>0, <1>2 DEF Stands, Acts
<1>9. CASE gr.parent = 0
  <2>1. gr.issuer = u
    BY <1>1, <1>2, <1>9 DEF GrantRows, AccountInv, OneAdmin, Succeeds
  <2>2. PICK new : new = [gr EXCEPT !.issuer = t] /\ grants'[i] = new
    BY <1>0, <1>4, <1>9, <2>1
  <2>3. /\ new.issuer = t /\ new.user = gr.user /\ new.parent = 0 /\ new.group = gr.group
        /\ new.revoked = gr.revoked /\ new.starts = gr.starts /\ new.expires = gr.expires
    BY <1>1, <1>5, <1>9, <2>2
  <2>4. Stands(new)'
    BY <1>2, <1>3, <1>7, <1>8, <2>3 DEF Stands, Acts, IsRole, Succeeds
  <2> QED BY <1>6, <2>2, <2>3, <2>4 DEF IsRole, Succeeds
<1>10. CASE gr.parent # 0
  <2>1. PICK p : p = gr.parent /\ p \in DOMAIN grants
    BY <1>1, <1>10
  <2>2. grants'[i] = gr /\ account'[gr.issuer] = account[gr.issuer] /\ Live(p)'
    <3>1. Live(grants[i].parent)' = Live(p)'
      BY <1>0, <1>4, <1>10, <2>1
    <3> QED BY <1>0, <1>4, <1>10, <3>1
  <2>3. Backed(gr, grants[p])'
    <3>1. Backed(gr, grants[p]) /\ grants[p] \in GrantRows
      BY <1>2, <1>10, <2>1, GrantIs
    <3>2. PICK old, new : old = grants[p] /\ new = grants'[p]
      OBVIOUS
    <3>3. /\ new.user = old.user /\ new.delegable = old.delegable /\ new.action = old.action
          /\ new.group = old.group /\ new.device = old.device /\ new.env = old.env
          /\ new.expires = old.expires
      <4>1. old \in GrantRows /\ (new = old \/ new = [old EXCEPT !.issuer = t])
        BY <1>4, <2>1, <3>1, <3>2
      <4> QED BY <1>5, <4>1
    <3>4. Backed(gr, new)
      BY <3>1, <3>2, <3>3 DEF Backed, Covers
    <3> QED BY <3>2, <3>4 DEF Backed, Covers, Within
  <2>4. gr.group # None /\ Acts(gr.issuer)'
    <3>1. gr.group # None
      BY <1>0, <1>10 DEF GrantsInv
    <3> QED BY <1>2, <2>2, <3>1 DEF Stands, Acts
  <2>5. GroupMember(gr.issuer, gr.group)' \/ IsRole(gr.issuer, "ADMIN")'
    <3>1. GroupMember(gr.issuer, gr.group) \/ IsRole(gr.issuer, "ADMIN")
      BY <1>2, <2>4 DEF Stands
    <3> QED BY <1>3, <2>2, <3>1 DEF GroupMember, Acts, IsRole
  <2>6. Stands(gr)'
    BY <1>2, <1>3, <1>7, <1>8, <2>2, <2>4, <2>5 DEF Stands
  <2> QED BY <1>6, <1>10, <2>1, <2>2, <2>3, <2>6
<1> QED BY <1>9, <1>10

(* A handover takes permissions only from those whose accounts it changes and from *)
(* those they handed them on to ("Root grants remain platform-owned when           *)
(* administrator ownership changes", governance/routes.py:130), whatever requests   *)
(* overlap with it, as long as the successor may still act.                       *)
THEOREM GrantsOutliveTransfer == GovernanceSpec => TransferKeepsGrants
<1> DEFINE I == AccountInv /\ GrantsInv /\ MoveInv
<1>1. InitGovernance => I
  BY AccountsBegin, GrantsBegin DEF InitGovernance, InitAccounts, MoveInv
<1>2. I /\ [GovernanceNext]_governanceVars => I'
  <2> SUFFICES ASSUME I, [GovernanceNext]_governanceVars PROVE I'
    OBVIOUS
  <2>1. GrantsInv'
    BY GrantsKept
  <2>2. CASE PeopleStep
    BY <2>1, <2>2, AccountsKept, MovesKept
  <2>3. CASE UNCHANGED accountVars
    BY <2>1, <2>3 DEF accountVars, AccountInv, OneAdmin, IsRole, MoveInv, Hands
  <2> QED BY <2>2, <2>3, AccountSteps
<1> DEFINE A == (\E u \in Users : IsRole(u, "ADMIN") /\ account'[u].role = "TEACHER") /\ AdminRemains' =>
                  \A i \in DOMAIN grants : Lost(i) =>
                     \/ account'[grants[i].user] # account[grants[i].user]
                     \/ /\ grants[i].parent # 0
                        /\ \/ account'[grants[i].issuer] # account[grants[i].issuer]
                           \/ Lost(grants[i].parent)
<1>3. I /\ I' /\ [GovernanceNext]_governanceVars => [A]_<<account, grants>>
  <2> SUFFICES ASSUME I, I', [GovernanceNext]_governanceVars, AdminRemains',
                      NEW u \in Users, IsRole(u, "ADMIN"), account'[u].role = "TEACHER",
                      NEW i \in DOMAIN grants, Live(i),
                      account'[grants[i].user] = account[grants[i].user],
                      \/ grants[i].parent = 0
                      \/ /\ account'[grants[i].issuer] = account[grants[i].issuer]
                         /\ ~Lost(grants[i].parent)
               PROVE  Live(i)'
    BY Zenon DEF Lost
  <2>1. PeopleStep
    BY AccountSteps DEF accountVars, IsRole
  <2>2. PICK c \in Clients, t \in Users : Succeeds(c, u, t)
    BY <2>1, Successor
  <2>3. grants[i].parent # 0 => Live(grants[i].parent)
    BY LiveUnfolds
  <2> QED BY <2>2, <2>3, RootsStay DEF Lost
<1> HIDE DEF I, A
<1>4. GovernanceSpec => [][A]_<<account, grants>>
  BY <1>1, <1>2, <1>3, PTL DEF GovernanceSpec
<1> QED BY <1>4 DEF A, TransferKeepsGrants

=============================================================================
