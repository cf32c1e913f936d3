------------------------- MODULE MediaIntakeProofs -------------------------
(***************************************************************************)
(* How an upload gets into the queue, for any number of jobs, clients and  *)
(* receivers.  Reservation: the lock of the policy row makes its three     *)
(* statements one, so that the capacity is respected as MediaQueue has it. *)
(* Intake: a queued job has the input its row describes, one receiver      *)
(* works on a job, no private file outlives its row, and all attempts at a *)
(* job are given the same input.                                           *)
(***************************************************************************)
EXTENDS MediaIntake, MediaAdmission, MediaQueueProofs

(* Reservation. *)

LEMMA InitAdmissionInv == AdmissionInit => AdmissionInv
  <1> SUFFICES ASSUME AdmissionInit PROVE AdmissionInv
    OBVIOUS
  <1>1. QueueInv
    BY InitQueueInv DEF AdmissionInit
  <1>2. PendingWithinCapacity
    BY CapacityAtInit DEF AdmissionInit
  <1>3. QED
    BY <1>1, <1>2, AdmissionAssumption
    DEF AdmissionInit, AdmissionInv, AdmissionTypeOK, LockIsHeld, CountIsSafe, QueueInv, Progress

\* A decided reservation finds the room it counted.
LEMMA AdmitIsReserve ==
  ASSUME AdmissionInv, NEW c \in Clients, NEW j \in Jobs, NEW k \in Kinds, Admit(c, j, k)
  PROVE  Reserve(j, k)
  <1>1. Cardinality(Pending) \in Nat
    BY FS_Subset, FS_CardinalityType, QueueAssumption DEF Pending
  <1>2. QED
    BY <1>1, QueueAssumption
    DEF Admit, Reserve, AdmissionInv, AdmissionTypeOK, CountIsSafe

\* What happens beside the reservations is a step of MediaQueue and admits no one.
LEMMA OtherStepSettles ==
  ASSUME AdmissionInv, OtherStep PROVE QueueNext /\ Pending' \subseteq Pending
  <1>1. QueueNext
    BY DEF OtherStep, QueueNext, IntakeStep
  <1>2. Pending' \subseteq Pending
    <2> USE DEF Pending, PendingStates, SettledStates, AdmissionInv, QueueInv, QueueTypeOK, LiveLease
    <2>1. ASSUME NEW j \in Jobs, QueueJob(j) \/ AbortIntake(j) \/ Elapse(j) \/ Claim(j)
                                 \/ ForgetTerminal(j)
          PROVE  Pending' \subseteq Pending
      BY <2>1 DEF QueueJob, AbortIntake, Elapse, Claim, ForgetTerminal
    <2>2. ASSUME NEW j \in Jobs, NEW t \in Tokens, NEW d \in Digests, Complete(j, t, d)
          PROVE  Pending' \subseteq Pending
      BY <2>2 DEF Complete
    <2>3. ASSUME NEW j \in Jobs, NEW t \in Tokens, NEW r \in Failures, NEW again \in BOOLEAN,
                 Fail(j, t, r, again)
          PROVE  Pending' \subseteq Pending
      BY <2>3 DEF Fail, Requeue, GiveUp
    <2>4. ASSUME NEW j \in Jobs, NEW t \in Tokens, NEW r \in Failures, FinishCandidate(j, t, r)
          PROVE  Pending' \subseteq Pending
      BY <2>4 DEF FinishCandidate, GiveUp
    <2>5. ASSUME NEW batch \in SUBSET Jobs, Expire(batch) PROVE Pending' \subseteq Pending
      BY <2>5 DEF Expire
    <2>6. QED
      BY <2>1, <2>2, <2>3, <2>4, <2>5 DEF OtherStep, LeaseStep, CleanupStep
  <1>3. QED
    BY <1>1, <1>2

\* Every step is a step of MediaQueue or leaves the table alone.
LEMMA ReservationIsQueueStep ==
  ASSUME AdmissionInv, [AdmissionNext]_reservationVars PROVE [QueueNext]_queueVars
  <1>1. CASE OtherStep
    BY <1>1, OtherStepSettles
  <1>2. ASSUME NEW c \in Clients, ClientStep(c) PROVE [QueueNext]_queueVars
    <2>1. ASSUME NEW j \in Jobs, NEW k \in Kinds, Admit(c, j, k) PROVE QueueNext
      BY <1>2, <2>1, AdmitIsReserve DEF QueueNext, IntakeStep
    <2>2. CASE LockPolicy(c) \/ CountPending(c) \/ RefuseFull(c) \/ Rollback(c)
      BY <2>2 DEF LockPolicy, CountPending, RefuseFull, Rollback
    <2>3. QED
      BY <1>2, <2>1, <2>2 DEF ClientStep
  <1>3. CASE UNCHANGED reservationVars
    BY <1>3 DEF reservationVars
  <1>4. QED
    BY <1>1, <1>2, <1>3 DEF AdmissionNext

LEMMA StepAdmissionInv == AdmissionInv /\ [AdmissionNext]_reservationVars => AdmissionInv'
  <1> SUFFICES ASSUME AdmissionInv, [AdmissionNext]_reservationVars PROVE AdmissionInv'
    OBVIOUS
  <1> USE DEF AdmissionTypeOK, LockIsHeld, CountIsSafe, Progress, End
  <1>1. QueueInv'
    BY ReservationIsQueueStep, StepQueueInv DEF AdmissionInv
  <1>0. PendingWithinCapacity'
    BY ReservationIsQueueStep, CapacityStep DEF AdmissionInv
  <1>2. QueueTypeOK'
    BY <1>1 DEF QueueInv
  <1>3. Cardinality(Pending) \in Nat /\ IsFiniteSet(Pending)
    BY FS_Subset, FS_CardinalityType, QueueAssumption DEF Pending
  <1>4. CASE OtherStep
    <2>1. Pending' \subseteq Pending
      BY <1>4, OtherStepSettles
    <2>2. Cardinality(Pending') <= Cardinality(Pending) /\ Cardinality(Pending') \in Nat
      BY <1>3, <2>1, FS_Subset, FS_CardinalityType
    <2>3. AdmissionTypeOK' /\ LockIsHeld'
      BY <1>2, <1>4 DEF OtherStep, admissionVars, AdmissionInv
    <2>4. CountIsSafe'
      <3> SUFFICES ASSUME NEW c \in Clients, progress[c] = "deciding"
                   PROVE  Cardinality(Pending') <= v_pending[c]
        BY <1>4 DEF OtherStep, admissionVars
      <3>1. Cardinality(Pending) <= v_pending[c] /\ v_pending[c] \in Nat
        BY DEF AdmissionInv
      <3>2. QED
        BY <1>3, <2>2, <3>1
    <2>5. QED
      BY <1>0, <1>1, <2>3, <2>4 DEF AdmissionInv
  <1>5. ASSUME NEW c \in Clients, LockPolicy(c) PROVE AdmissionInv'
    <2>1. Pending' = Pending
      BY <1>5 DEF LockPolicy, queueVars, Pending
    <2>2. QED
      BY <1>0, <1>1, <1>2, <1>5, <2>1, AdmissionAssumption DEF LockPolicy, AdmissionInv
  <1>6. ASSUME NEW c \in Clients, CountPending(c) PROVE AdmissionInv'
    <2>1. Pending' = Pending
      BY <1>6 DEF CountPending, queueVars, Pending
    <2>2. QED
      BY <1>0, <1>1, <1>2, <1>3, <1>6, <2>1 DEF CountPending, AdmissionInv
  <1>7. ASSUME NEW c \in Clients, NEW j \in Jobs, NEW k \in Kinds, Admit(c, j, k)
        PROVE  AdmissionInv'
    <2>1. \A other \in Clients : progress[other] = "deciding" => other = c
      BY <1>7, AdmissionAssumption DEF Admit, AdmissionInv
    <2>2. AdmissionTypeOK' /\ LockIsHeld' /\ \A b \in Clients : progress'[b] # "deciding"
      BY <1>2, <1>7, <2>1, AdmissionAssumption DEF Admit, AdmissionInv
    <2>3. QED
      BY <1>0, <1>1, <2>2 DEF AdmissionInv
  <1>8. ASSUME NEW c \in Clients, RefuseFull(c) \/ Rollback(c) PROVE AdmissionInv'
    <2>1. Pending' = Pending
      BY <1>8 DEF RefuseFull, Rollback, queueVars, Pending
    <2>2. QED
      BY <1>0, <1>1, <1>2, <1>8, <2>1, AdmissionAssumption DEF RefuseFull, Rollback, AdmissionInv
  <1>9. CASE UNCHANGED reservationVars
    <2>1. Pending' = Pending
      BY <1>9 DEF reservationVars, queueVars, Pending
    <2>2. QED
      BY <1>0, <1>1, <1>2, <1>9, <2>1 DEF reservationVars, admissionVars, AdmissionInv
  <1>10. QED
    BY <1>4, <1>5, <1>6, <1>7, <1>8, <1>9 DEF AdmissionNext, ClientStep

\* The number a reservation decides on is never below the number of unsettled
\* jobs: an expiry or a retry beside it cannot make it admit one too many.
THEOREM CountStaysSafe == AdmissionSpec => []CountIsSafe
  <1>1. AdmissionInv => CountIsSafe
    BY DEF AdmissionInv
  <1>2. QED
    BY InitAdmissionInv, StepAdmissionInv, <1>1, PTL DEF AdmissionSpec

\* The queue's table, the lock and the count are right together: a client is in
\* its transaction while it holds the row, and what it counted is still safe.
THEOREM AdmissionInvariant == AdmissionSpec => []AdmissionInv
  BY InitAdmissionInv, StepAdmissionInv, PTL DEF AdmissionSpec

\* The locked transactions implement MediaQueue, which takes a reservation as
\* one step; so PendingWithinCapacity holds of them too.
THEOREM ReservationStaysAtomic == AdmissionSpec => ReservationIsAtomic
  <1>1. AdmissionInit => QueueInit
    BY DEF AdmissionInit
  <1>2. AdmissionInv /\ [AdmissionNext]_reservationVars => [QueueNext]_queueVars
    BY ReservationIsQueueStep
  <1>3. QED
    BY InitAdmissionInv, StepAdmissionInv, <1>1, <1>2, PTL
    DEF AdmissionSpec, ReservationIsAtomic, QueueSpec

\* Clients that compete for the last place never take more than there is.
THEOREM AdmissionKeepsCapacity == AdmissionSpec => []PendingWithinCapacity
  <1>1. AdmissionInv => PendingWithinCapacity
    BY DEF AdmissionInv
  <1>2. QED
    BY <1>1, AdmissionInvariant, PTL

-----------------------------------------------------------------------------
(* Intake. *)

LEMMA InitIntakeInv == IntakeInit => IntakeInv
  <1> SUFFICES ASSUME IntakeInit PROVE IntakeInv
    OBVIOUS
  <1>1. QueueInv
    BY InitQueueInv DEF IntakeInit
  <1>2. IntakeTypeOK
    BY <1>1, IntakeAssumption
    DEF IntakeInit, IntakeTypeOK, QueueInv, Bytes, Handles, Stages, Sweeps
  <1>3. QED
    BY <1>1, <1>2, IntakeAssumption
    DEF IntakeInit, QueueInit, IntakeInv, ReceiverInv, SoleReceiver, RequestInv, JobInv, SweepInv

\* What a worker or an expiry may do to a row, as far as the intake can tell.
RowKept(j) ==
    /\ kind'[j] = kind[j]
    /\ \/ state'[j] = state[j] /\ (state[j] \in SettledStates => due'[j] = due[j])
       \/ /\ state[j] \in PendingStates
          /\ state'[j] \in {"queued", "processing", "published", "failed"}
          /\ state'[j] \in {"queued", "processing"} => state[j] \in {"queued", "processing"}
          /\ ~due'[j]
    /\ failure'[j] = "intake_failed" => failure[j] = "intake_failed"

LEMMA WorkKeepsRows == ASSUME QueueInv, LeaseStep, NEW i \in Jobs PROVE RowKept(i)
  <1> USE DEF QueueInv, QueueTypeOK, RowKept, Touch, PendingStates, SettledStates, LiveLease
  <1>1. ASSUME NEW j \in Jobs, Claim(j) PROVE RowKept(i)
    BY <1>1 DEF Claim
  <1>2. ASSUME NEW j \in Jobs, NEW t \in Tokens, NEW d \in Digests, Complete(j, t, d)
        PROVE  RowKept(i)
    BY <1>2 DEF Complete
  <1>3. ASSUME NEW j \in Jobs, NEW t \in Tokens, NEW r \in Failures, NEW again \in BOOLEAN,
               Fail(j, t, r, again)
        PROVE  RowKept(i)
    BY <1>3 DEF Fail, Requeue, GiveUp
  <1>4. ASSUME NEW j \in Jobs, NEW t \in Tokens, NEW r \in Failures, FinishCandidate(j, t, r)
        PROVE  RowKept(i)
    BY <1>4 DEF FinishCandidate, GiveUp
  <1>5. QED
    BY <1>1, <1>2, <1>3, <1>4 DEF LeaseStep

LEMMA ExpiryKeepsRows ==
  ASSUME QueueInv, NEW batch \in SUBSET Jobs, Expire(batch), NEW i \in Jobs PROVE RowKept(i)
  BY DEF QueueInv, QueueTypeOK, RowKept, PendingStates, SettledStates, Expire

\* The part of the invariant that is not MediaQueue's own.
IntakeCore ==
    /\ \A u \in Receivers : ReceiverInv(u)
    /\ SoleReceiver
    /\ RequestInv
    /\ \A j \in Jobs : JobInv(j)
    /\ SweepInv

\* Every step is a step of MediaQueue or leaves the table alone.
LEMMA StepIsQueueStep == ASSUME IntakeTypeOK, [IntakeNext]_vars PROVE [QueueNext]_queueVars
  <1>1. ASSUME NEW u \in Receivers, StartStep(u) \/ ReceiverStep(u) PROVE [QueueNext]_queueVars
    BY <1>1 DEF StartStep, ReceiverStep, BeginUpload, OperatorIntake, CreatePart, ReceiveFails,
       LinkInput, ClosePart, SendFinish, SendAbort, Cancel, QueueNext, IntakeStep, Kinds
  <1>2. ASSUME NEW dead \in SUBSET Receivers, Crash(dead) PROVE UNCHANGED queueVars
    BY <1>2 DEF Crash
  <1>3. ASSUME NEW j \in Jobs, JobStep(j) PROVE [QueueNext]_queueVars
    BY <1>3 DEF JobStep, ReserveUpload, Reconcile, Elapses, QueueNext, IntakeStep
  <1>4. CASE SweepStep
    BY <1>4 DEF SweepStep, ListCandidates, RemoveInput, RemovePart, ForgetJob, SweepEnds,
       QueueNext, CleanupStep
  <1>5. CASE ExpireOverdue \/ Work
    BY <1>5 DEF ExpireOverdue, Work, QueueNext, CleanupStep
  <1>6. CASE RequestStep
    BY <1>6 DEF RequestStep, FinishCommits, AbortCommits, RequestEnds, QueueNext, IntakeStep,
       IntakeTypeOK
  <1>7. CASE UNCHANGED vars
    BY <1>7 DEF vars
  <1>8. QED
    BY <1>1, <1>2, <1>3, <1>4, <1>5, <1>6, <1>7 DEF IntakeNext

-----------------------------------------------------------------------------
(* The steps of MediaIntake keep the invariant. *)

LEMMA TypeStepIntake ==
  ASSUME IntakeInv, QueueTypeOK', [IntakeNext]_vars PROVE IntakeTypeOK'
  <1> IntakeTypeOK
    BY DEF IntakeInv
  <1> USE IntakeAssumption
      DEF IntakeTypeOK, Bytes, Handles, Stages, Sweeps, Sender, Go, Start, Stop, DropPart,
          fileVars, receiverVars, requestVars, sweepVars
  <1>1. ASSUME NEW u \in Receivers, NEW j \in Jobs, BeginUpload(u, j) \/ OperatorIntake(u, j)
        PROVE  IntakeTypeOK'
    BY <1>1 DEF BeginUpload, OperatorIntake
  <1>2. ASSUME NEW u \in Receivers, CreatePart(u) \/ ReceiveFails(u) \/ LinkInput(u) \/ ClosePart(u)
        PROVE  IntakeTypeOK'
    BY <1>2 DEF CreatePart, ReceiveFails, LinkInput, ClosePart
  <1>3. ASSUME NEW u \in Receivers, SendFinish(u) PROVE IntakeTypeOK'
    <2>1. task[u] \in Jobs
      BY <1>3 DEF SendFinish, IntakeInv, ReceiverInv
    <2>2. QED
      BY <1>3, <2>1 DEF SendFinish
  <1>4. ASSUME NEW u \in Receivers, SendAbort(u) PROVE IntakeTypeOK'
    <2>1. task[u] \in Jobs
      BY <1>4 DEF SendAbort, IntakeInv, ReceiverInv
    <2>2. QED
      BY <1>4, <2>1 DEF SendAbort
  <1>5. ASSUME NEW u \in Receivers, Cancel(u) PROVE IntakeTypeOK'
    BY <1>5 DEF Cancel
  <1>6. ASSUME NEW dead \in SUBSET Receivers, Crash(dead) PROVE IntakeTypeOK'
    BY <1>6 DEF Crash
  <1>7. CASE RequestStep
    <2>1. ASSUME NEW r \in finishing, FinishCommits(r) PROVE IntakeTypeOK'
      BY <2>1 DEF FinishCommits
    <2>2. ASSUME NEW r \in aborting, AbortCommits(r) PROVE IntakeTypeOK'
      BY <2>2 DEF AbortCommits
    <2>3. CASE RequestEnds
      BY <2>3 DEF RequestEnds
    <2>4. QED
      BY <1>7, <2>1, <2>2, <2>3 DEF RequestStep
  <1>8. CASE SweepStep
    <2>1. ASSUME NEW batch \in SUBSET Jobs, ListCandidates(batch) PROVE IntakeTypeOK'
      BY <2>1 DEF ListCandidates
    <2>2. ASSUME NEW j \in Jobs, RemoveInput(j) PROVE IntakeTypeOK'
      BY <2>2 DEF RemoveInput
    <2>3. ASSUME NEW j \in Jobs, ForgetJob(j) PROVE IntakeTypeOK'
      BY <2>3 DEF ForgetJob, NextCandidate
    <2>4. CASE RemovePart \/ SweepEnds
      BY <2>4 DEF RemovePart, SweepEnds
    <2>5. QED
      BY <1>8, <2>1, <2>2, <2>3, <2>4 DEF SweepStep
  <1>9. ASSUME NEW j \in Jobs, JobStep(j) PROVE IntakeTypeOK'
    BY <1>9 DEF JobStep, ReserveUpload, Reconcile, Elapses
  <1>10. CASE ExpireOverdue \/ Work
    BY <1>10 DEF ExpireOverdue, Work
  <1>11. CASE UNCHANGED vars
    BY <1>11 DEF vars
  <1>12. QED
    BY <1>1, <1>2, <1>3, <1>4, <1>5, <1>6, <1>7, <1>8, <1>9, <1>10, <1>11
    DEF IntakeNext, StartStep, ReceiverStep

\* Workers and expiry never bring a row back to where the intake could touch it.
LEMMA BackgroundStep ==
  ASSUME IntakeInv, ExpireOverdue \/ Work PROVE IntakeCore'
  <1>1. \A j \in Jobs : RowKept(j)
    BY WorkKeepsRows, ExpiryKeepsRows DEF ExpireOverdue, Work, IntakeInv
  <1>2. UNCHANGED <<handle, described, fileVars, receiverVars, requestVars, sweepVars>>
    BY DEF ExpireOverdue, Work
  <1> USE <1>1, <1>2
      DEF RowKept, IntakeInv, IntakeTypeOK, fileVars, receiverVars, requestVars, sweepVars,
          PendingStates, SettledStates
  <1>3. \A u \in Receivers : ReceiverInv(u)'
    BY DEF ReceiverInv
  <1>4. SoleReceiver'
    BY DEF SoleReceiver
  <1>5. RequestInv'
    BY DEF RequestInv
  <1>6. \A j \in Jobs : JobInv(j)'
    BY DEF JobInv
  <1>7. SweepInv'
    BY DEF SweepInv
  <1>8. QED
    BY <1>3, <1>4, <1>5, <1>6, <1>7 DEF IntakeCore

\* A receiver that starts finds nothing of its job in the quarantine.
LEMMA StartKeeps ==
  ASSUME IntakeInv, NEW u \in Receivers, StartStep(u) PROVE IntakeCore'
  <1> USE IntakeAssumption
      DEF IntakeInv, IntakeTypeOK, QueueInv, QueueTypeOK, TableChecks, fileVars, receiverVars,
          requestVars, sweepVars, Start, PendingStates, SettledStates
  <1>1. ASSUME NEW j \in Jobs, BeginUpload(u, j) PROVE IntakeCore'
    <2> USE <1>1 DEF BeginUpload, queueVars
    <2>1. \A v \in Receivers : ReceiverInv(v)'
      BY DEF ReceiverInv, JobInv
    <2>2. SoleReceiver'
      BY DEF SoleReceiver, ReceiverInv
    <2>3. RequestInv'
      BY DEF RequestInv
    <2>4. \A i \in Jobs : JobInv(i)'
      BY DEF JobInv
    <2>5. SweepInv'
      BY DEF SweepInv
    <2>6. QED
      BY <2>1, <2>2, <2>3, <2>4, <2>5 DEF IntakeCore
  <1>2. ASSUME NEW j \in Jobs, OperatorIntake(u, j) PROVE IntakeCore'
    <2> USE <1>2 DEF OperatorIntake, Reserve, InsertJob, Touch
    <2>0. handle[j] = "none"
      BY DEF JobInv, Handles
    <2>1. \A v \in Receivers : ReceiverInv(v)'
      BY <2>0 DEF ReceiverInv, JobInv
    <2>2. SoleReceiver'
      BY DEF SoleReceiver, ReceiverInv
    <2>3. RequestInv'
      BY DEF RequestInv, ReceiverInv
    <2>4. \A i \in Jobs : JobInv(i)'
      BY DEF JobInv
    <2>5. SweepInv'
      BY DEF SweepInv
    <2>6. QED
      BY <2>1, <2>2, <2>3, <2>4, <2>5 DEF IntakeCore
  <1>3. QED
    BY <1>1, <1>2 DEF StartStep

LEMMA ReceiveKeeps ==
  ASSUME IntakeInv, NEW u \in Receivers, ReceiverStep(u) PROVE IntakeCore'
  <1> USE IntakeAssumption
      DEF IntakeInv, IntakeTypeOK, Stages, fileVars, receiverVars, requestVars,
          sweepVars, queueVars, Go, Stop, DropPart, Sender, PendingStates, SettledStates
  <1>1. CASE CreatePart(u)
    <2> USE <1>1 DEF CreatePart
    <2>1. \A v \in Receivers : ReceiverInv(v)'
      BY DEF ReceiverInv, SoleReceiver
    <2>2. SoleReceiver' /\ RequestInv'
      BY DEF SoleReceiver, RequestInv
    <2>3. (\A i \in Jobs : JobInv(i)') /\ SweepInv'
      BY DEF JobInv, SweepInv, ReceiverInv
    <2>4. QED
      BY <2>1, <2>2, <2>3 DEF IntakeCore
  <1>2. CASE ReceiveFails(u)
    <2> USE <1>2 DEF ReceiveFails
    <2>1. \A v \in Receivers : ReceiverInv(v)'
      BY DEF ReceiverInv, SoleReceiver
    <2>2. SoleReceiver' /\ RequestInv'
      BY DEF SoleReceiver, RequestInv
    <2>3. (\A i \in Jobs : JobInv(i)') /\ SweepInv'
      BY DEF JobInv, SweepInv, ReceiverInv
    <2>4. QED
      BY <2>1, <2>2, <2>3 DEF IntakeCore
  <1>3. CASE LinkInput(u)
    <2> USE <1>3 DEF LinkInput
    <2>1. \A v \in Receivers : ReceiverInv(v)'
      BY DEF ReceiverInv, SoleReceiver
    <2>2. SoleReceiver' /\ RequestInv'
      BY DEF SoleReceiver, RequestInv, ReceiverInv
    <2>3. (\A i \in Jobs : JobInv(i)') /\ SweepInv'
      BY DEF JobInv, SweepInv, ReceiverInv
    <2>4. QED
      BY <2>1, <2>2, <2>3 DEF IntakeCore
  <1>4. CASE ClosePart(u)
    <2> USE <1>4 DEF ClosePart
    <2>1. \A v \in Receivers : ReceiverInv(v)'
      BY DEF ReceiverInv, SoleReceiver
    <2>2. SoleReceiver' /\ RequestInv'
      BY DEF SoleReceiver, RequestInv
    <2>3. (\A i \in Jobs : JobInv(i)') /\ SweepInv'
      BY DEF JobInv, SweepInv, ReceiverInv
    <2>4. QED
      BY <2>1, <2>2, <2>3 DEF IntakeCore
  <1>5. CASE SendFinish(u)
    <2> USE <1>5 DEF SendFinish
    <2>1. \A v \in Receivers : ReceiverInv(v)'
      BY DEF ReceiverInv
    <2>2. SoleReceiver' /\ RequestInv'
      BY DEF SoleReceiver, RequestInv, ReceiverInv
    <2>3. (\A i \in Jobs : JobInv(i)') /\ SweepInv'
      BY DEF JobInv, SweepInv
    <2>4. QED
      BY <2>1, <2>2, <2>3 DEF IntakeCore
  <1>6. CASE SendAbort(u)
    <2> USE <1>6 DEF SendAbort
    <2>1. \A v \in Receivers : ReceiverInv(v)'
      BY DEF ReceiverInv
    <2>2. SoleReceiver' /\ RequestInv'
      BY DEF SoleReceiver, RequestInv, ReceiverInv
    <2>3. (\A i \in Jobs : JobInv(i)') /\ SweepInv'
      BY DEF JobInv, SweepInv
    <2>4. QED
      BY <2>1, <2>2, <2>3 DEF IntakeCore
  <1>7. CASE Cancel(u)
    <2> USE <1>7 DEF Cancel
    <2>1. \A v \in Receivers : ReceiverInv(v)'
      BY DEF ReceiverInv, SoleReceiver
    <2>2. SoleReceiver' /\ RequestInv'
      BY DEF SoleReceiver, RequestInv
    <2>3. (\A i \in Jobs : JobInv(i)') /\ SweepInv'
      BY DEF JobInv, SweepInv, ReceiverInv
    <2>4. QED
      BY <2>1, <2>2, <2>3 DEF IntakeCore
  <1>8. QED
    BY <1>1, <1>2, <1>3, <1>4, <1>5, <1>6, <1>7 DEF ReceiverStep

LEMMA CrashKeeps ==
  ASSUME IntakeInv, NEW dead \in SUBSET Receivers, Crash(dead) PROVE IntakeCore'
  <1> USE DEF IntakeInv, IntakeTypeOK, fileVars, requestVars, sweepVars, queueVars, Crash, Stop
  <1>1. \A v \in Receivers : ReceiverInv(v)'
    BY DEF ReceiverInv
  <1>2. SoleReceiver' /\ RequestInv'
    BY DEF SoleReceiver, RequestInv
  <1>3. (\A i \in Jobs : JobInv(i)') /\ SweepInv'
    BY DEF JobInv, SweepInv
  <1>4. QED
    BY <1>1, <1>2, <1>3 DEF IntakeCore

\* A statement commits long after its sender is gone, or never.
LEMMA RequestKeeps == ASSUME IntakeInv, RequestStep PROVE IntakeCore'
  <1> USE DEF IntakeInv, IntakeTypeOK, QueueInv, QueueTypeOK, fileVars, receiverVars,
          sweepVars, Touch, PendingStates, SettledStates
  <1>1. ASSUME NEW r \in finishing, FinishCommits(r) PROVE IntakeCore'
    <2> USE <1>1 DEF FinishCommits, QueueJob
    <2>1. r[1] \in Jobs /\ r[2] \in Receivers
      OBVIOUS
    <2>2. \A v \in Receivers : ReceiverInv(v)'
      BY <2>1 DEF ReceiverInv
    <2>3. SoleReceiver' /\ RequestInv'
      BY <2>1 DEF SoleReceiver, RequestInv
    <2>4. (\A i \in Jobs : JobInv(i)') /\ SweepInv'
      BY <2>1, IntakeAssumption DEF JobInv, SweepInv, RequestInv
    <2>5. QED
      BY <2>2, <2>3, <2>4 DEF IntakeCore
  <1>2. ASSUME NEW r \in aborting, AbortCommits(r) PROVE IntakeCore'
    <2> USE <1>2 DEF AbortCommits, AbortIntake
    <2>1. r[1] \in Jobs
      OBVIOUS
    <2>2. \A v \in Receivers : ReceiverInv(v)'
      BY <2>1 DEF ReceiverInv, RequestInv
    <2>3. SoleReceiver' /\ RequestInv'
      BY <2>1 DEF SoleReceiver, RequestInv
    <2>4. (\A i \in Jobs : JobInv(i)') /\ SweepInv'
      BY <2>1 DEF JobInv, SweepInv, RequestInv
    <2>5. QED
      BY <2>2, <2>3, <2>4 DEF IntakeCore
  <1>3. CASE RequestEnds
    BY <1>3 DEF RequestEnds, queueVars, IntakeCore, ReceiverInv, SoleReceiver, RequestInv, JobInv, SweepInv
  <1>4. QED
    BY <1>1, <1>2, <1>3 DEF RequestStep

\* The cleanup works on settled rows, which nobody else touches any more.
LEMMA SweepKeeps == ASSUME IntakeInv, SweepStep PROVE IntakeCore'
  <1> USE DEF IntakeInv, IntakeTypeOK, QueueInv, QueueTypeOK, fileVars, receiverVars,
          requestVars, Touch, PendingStates, SettledStates
  <1>1. ASSUME NEW batch \in SUBSET Jobs, ListCandidates(batch) PROVE IntakeCore'
    BY <1>1 DEF ListCandidates, queueVars, IntakeCore, ReceiverInv, SoleReceiver, RequestInv, JobInv, SweepInv
  <1>2. ASSUME NEW j \in Jobs, RemoveInput(j) PROVE IntakeCore'
    <2> USE <1>2 DEF RemoveInput, queueVars
    <2>1. \A v \in Receivers : ReceiverInv(v)'
      BY DEF ReceiverInv, SweepInv
    <2>2. SoleReceiver' /\ RequestInv'
      BY DEF SoleReceiver, RequestInv, SweepInv
    <2>3. (\A i \in Jobs : JobInv(i)') /\ SweepInv'
      BY DEF JobInv, SweepInv
    <2>4. QED
      BY <2>1, <2>2, <2>3 DEF IntakeCore
  <1>3. CASE RemovePart
    <2> USE <1>3 DEF RemovePart, queueVars
    <2>1. \A v \in Receivers : ReceiverInv(v)'
      BY DEF ReceiverInv, SweepInv
    <2>2. SoleReceiver' /\ RequestInv'
      BY DEF SoleReceiver, RequestInv
    <2>3. (\A i \in Jobs : JobInv(i)') /\ SweepInv'
      BY DEF JobInv, SweepInv
    <2>4. QED
      BY <2>1, <2>2, <2>3 DEF IntakeCore
  <1>4. ASSUME NEW j \in Jobs, ForgetJob(j) PROVE IntakeCore'
    <2> USE <1>4 DEF ForgetJob, ForgetTerminal, NextCandidate
    <2>1. \A v \in Receivers : ReceiverInv(v)'
      BY DEF ReceiverInv
    <2>2. SoleReceiver' /\ RequestInv'
      BY DEF SoleReceiver, RequestInv
    <2>3. (\A i \in Jobs : JobInv(i)') /\ SweepInv'
      BY DEF JobInv, SweepInv
    <2>4. QED
      BY <2>1, <2>2, <2>3 DEF IntakeCore
  <1>5. CASE SweepEnds
    BY <1>5 DEF SweepEnds, queueVars, IntakeCore, ReceiverInv, SoleReceiver, RequestInv, JobInv, SweepInv
  <1>6. QED
    BY <1>1, <1>2, <1>3, <1>4, <1>5 DEF SweepStep

LEMMA JobKeeps == ASSUME IntakeInv, NEW j \in Jobs, JobStep(j) PROVE IntakeCore'
  <1> USE DEF IntakeInv, IntakeTypeOK, QueueInv, QueueTypeOK, fileVars, receiverVars,
          requestVars, sweepVars, Touch, PendingStates, SettledStates
  <1>1. ASSUME NEW k \in Kinds, ReserveUpload(j, k) PROVE IntakeCore'
    <2> USE <1>1 DEF ReserveUpload, Reserve, InsertJob
    <2>1. \A v \in Receivers : ReceiverInv(v)'
      BY DEF ReceiverInv
    <2>2. SoleReceiver' /\ RequestInv'
      BY DEF SoleReceiver, RequestInv
    <2>3. (\A i \in Jobs : JobInv(i)') /\ SweepInv'
      BY DEF JobInv, SweepInv
    <2>4. QED
      BY <2>1, <2>2, <2>3 DEF IntakeCore
  <1>2. CASE Reconcile(j)
    <2> USE <1>2 DEF Reconcile, queueVars
    <2>1. \A v \in Receivers : ReceiverInv(v)'
      BY DEF ReceiverInv
    <2>2. SoleReceiver' /\ RequestInv'
      BY DEF SoleReceiver, RequestInv
    <2>3. (\A i \in Jobs : JobInv(i)') /\ SweepInv'
      BY DEF JobInv, SweepInv
    <2>4. QED
      BY <2>1, <2>2, <2>3 DEF IntakeCore
  <1>3. CASE Elapses(j)
    <2> USE <1>3 DEF Elapses, Elapse
    <2>1. \A v \in Receivers : ReceiverInv(v)'
      BY DEF ReceiverInv, Receiving
    <2>2. SoleReceiver' /\ RequestInv'
      BY DEF SoleReceiver, RequestInv
    <2>3. (\A i \in Jobs : JobInv(i)') /\ SweepInv'
      BY DEF JobInv, SweepInv
    <2>4. QED
      BY <2>1, <2>2, <2>3 DEF IntakeCore
  <1>4. QED
    BY <1>1, <1>2, <1>3 DEF JobStep

LEMMA StepIntakeInv == IntakeInv /\ [IntakeNext]_vars => IntakeInv'
  <1> SUFFICES ASSUME IntakeInv, [IntakeNext]_vars PROVE IntakeInv'
    OBVIOUS
  <1>1. QueueInv'
    BY StepIsQueueStep, StepQueueInv DEF IntakeInv
  <1>2. IntakeTypeOK'
    BY <1>1, TypeStepIntake DEF IntakeInv, QueueInv
  <1>3. CASE UNCHANGED vars
    <2>1. IntakeCore
      BY DEF IntakeInv, IntakeCore
    <2>2. IntakeCore'
      BY <1>3, <2>1 DEF vars, queueVars, fileVars, receiverVars, requestVars, sweepVars,
         IntakeCore, ReceiverInv, SoleReceiver, RequestInv, JobInv, SweepInv
    <2>3. QED
      BY <1>1, <1>2, <2>2 DEF IntakeInv, IntakeCore
  <1>4. CASE IntakeNext
    <2>1. IntakeCore'
      BY <1>4, StartKeeps, ReceiveKeeps, CrashKeeps, RequestKeeps, SweepKeeps, JobKeeps, BackgroundStep
      DEF IntakeNext
    <2>2. QED
      BY <1>1, <1>2, <2>1 DEF IntakeInv, IntakeCore
  <1>5. QED
    BY <1>3, <1>4

\* Receivers, late statements, rows, files and the cleanup agree throughout.
THEOREM IntakeInvariant == IntakeSpec => []IntakeInv
  BY InitIntakeInv, StepIntakeInv, PTL DEF IntakeSpec

-----------------------------------------------------------------------------
\* A claimed job always has its input, and the row describes these bytes.
THEOREM InputStaysDescribed == IntakeSpec => []InputIsDescribed
  <1>1. IntakeInv => InputIsDescribed
    BY DEF IntakeInv, JobInv, InputIsDescribed
  <1>2. QED
    BY InitIntakeInv, StepIntakeInv, <1>1, PTL DEF IntakeSpec

\* No private file outlives its row, whatever crashes or fails.
THEOREM FilesKeepTheirRow == IntakeSpec => []NoOrphanFile
  <1>1. IntakeInv => NoOrphanFile
    BY DEF IntakeInv, JobInv, NoOrphanFile
  <1>2. QED
    BY InitIntakeInv, StepIntakeInv, <1>1, PTL DEF IntakeSpec

\* A capability admits one receiver, whose partial file is its own.
THEOREM OneReceiverOnly == IntakeSpec => []OneReceiver
  <1>1. IntakeInv => OneReceiver
    BY DEF IntakeInv, SoleReceiver, ReceiverInv, OneReceiver
  <1>2. QED
    BY InitIntakeInv, StepIntakeInv, <1>1, PTL DEF IntakeSpec

\* A completely stored image is never given up by its own handler.
THEOREM StoredNeverFails == IntakeSpec => []StoredIsNotFailed
  <1>1. IntakeInv => StoredIsNotFailed
    BY DEF IntakeInv, JobInv, StoredIsNotFailed
  <1>2. QED
    BY InitIntakeInv, StepIntakeInv, <1>1, PTL DEF IntakeSpec

-----------------------------------------------------------------------------
(* One input for all attempts. *)

\* What a step may do to what the workers of job j are given.
OfferKept(j) ==
    Offered(j)' # Offered(j) =>
      \/ state[j] = "receiving" /\ state'[j] = "queued"
      \/ state'[j] \in SettledStates

\* Workers and expiry take an offer away for good, and change no file.
LEMMA BackgroundKeepsOffer ==
  ASSUME IntakeInv, ExpireOverdue \/ Work, NEW i \in Jobs PROVE OfferKept(i)
  <1>1. RowKept(i)
    BY WorkKeepsRows, ExpiryKeepsRows DEF ExpireOverdue, Work, IntakeInv
  <1>2. described' = described /\ input' = input
    BY DEF ExpireOverdue, Work, fileVars
  <1>3. QED
    BY <1>1, <1>2 DEF RowKept, OfferKept, Offered, SettledStates

\* A receiver links an input only where none was offered.
LEMMA ReceiverKeepsOffer ==
  ASSUME IntakeInv, NEW u \in Receivers, StartStep(u) \/ ReceiverStep(u), NEW i \in Jobs
  PROVE  OfferKept(i)
  <1> USE DEF OfferKept, Offered
  <1>1. ASSUME NEW j \in Jobs, BeginUpload(u, j) PROVE OfferKept(i)
    BY <1>1 DEF BeginUpload, queueVars, fileVars
  <1>2. ASSUME NEW j \in Jobs, OperatorIntake(u, j) PROVE OfferKept(i)
    BY <1>2 DEF OperatorIntake, Reserve, InsertJob, fileVars, IntakeInv, QueueInv, QueueTypeOK
  <1>3. CASE LinkInput(u)
    <2>1. input[task[u]] = NoBytes /\ task[u] \in Jobs
      BY <1>3 DEF LinkInput, IntakeInv, ReceiverInv
    <2>2. state[task[u]] \notin {"queued", "processing"}
      BY <2>1 DEF IntakeInv, JobInv
    <2>3. i # task[u] => input'[i] = input[i]
      BY <1>3 DEF LinkInput, IntakeInv, IntakeTypeOK
    <2>4. QED
      BY <1>3, <2>2, <2>3 DEF LinkInput, queueVars
  <1>4. CASE CreatePart(u) \/ ReceiveFails(u) \/ ClosePart(u) \/ SendFinish(u) \/ SendAbort(u)
             \/ Cancel(u)
    BY <1>4 DEF CreatePart, ReceiveFails, ClosePart, SendFinish, SendAbort, Cancel, queueVars,
       fileVars
  <1>5. QED
    BY <1>1, <1>2, <1>3, <1>4 DEF StartStep, ReceiverStep

\* A statement that commits late finds the row it was written for, or none.
LEMMA RequestKeepsOffer ==
  ASSUME IntakeInv, RequestStep, NEW i \in Jobs PROVE OfferKept(i)
  <1> USE DEF OfferKept, Offered, fileVars, IntakeInv, IntakeTypeOK, QueueInv, QueueTypeOK
  <1>1. ASSUME NEW r \in finishing, FinishCommits(r) PROVE OfferKept(i)
    BY <1>1 DEF FinishCommits, QueueJob
  <1>2. ASSUME NEW r \in aborting, AbortCommits(r) PROVE OfferKept(i)
    BY <1>2 DEF AbortCommits, AbortIntake, SettledStates
  <1>3. CASE RequestEnds
    BY <1>3 DEF RequestEnds, queueVars
  <1>4. QED
    BY <1>1, <1>2, <1>3 DEF RequestStep

\* The cleanup removes files of settled rows only.
LEMMA SweepKeepsOffer ==
  ASSUME IntakeInv, SweepStep, NEW i \in Jobs PROVE OfferKept(i)
  <1> USE DEF OfferKept, Offered, fileVars, queueVars, IntakeInv, IntakeTypeOK, QueueInv,
          QueueTypeOK
  <1>1. ASSUME NEW batch \in SUBSET Jobs, ListCandidates(batch) PROVE OfferKept(i)
    BY <1>1 DEF ListCandidates
  <1>2. ASSUME NEW j \in Jobs, RemoveInput(j) PROVE OfferKept(i)
    BY <1>2 DEF RemoveInput, SweepInv, SettledStates
  <1>3. ASSUME NEW j \in Jobs, ForgetJob(j) PROVE OfferKept(i)
    BY <1>3 DEF ForgetJob, ForgetTerminal, SettledStates
  <1>4. CASE RemovePart \/ SweepEnds
    BY <1>4 DEF RemovePart, SweepEnds
  <1>5. QED
    BY <1>1, <1>2, <1>3, <1>4 DEF SweepStep

LEMMA JobKeepsOffer ==
  ASSUME IntakeInv, NEW j \in Jobs, JobStep(j), NEW i \in Jobs PROVE OfferKept(i)
  BY DEF JobStep, ReserveUpload, Reserve, InsertJob, Reconcile, Elapses, Elapse, OfferKept, Offered,
     fileVars, queueVars, IntakeInv, IntakeTypeOK, QueueInv, QueueTypeOK

\* All attempts at a job work on one input, and a settled job is not offered
\* again: not by a late finish, a reconciled pair or a second receiver.
THEOREM InputStaysOffered == IntakeSpec => InputIsOfferedOnce
  <1>1. ASSUME IntakeInv, [IntakeNext]_vars, NEW i \in Jobs PROVE OfferKept(i)
    <2>1. ASSUME NEW dead \in SUBSET Receivers, Crash(dead) PROVE OfferKept(i)
      BY <2>1 DEF Crash, OfferKept, Offered, queueVars, fileVars
    <2>2. CASE UNCHANGED vars
      BY <2>2 DEF vars, OfferKept, Offered, queueVars, fileVars
    <2>3. QED
      BY <1>1, <2>1, <2>2, BackgroundKeepsOffer, ReceiverKeepsOffer, RequestKeepsOffer,
         SweepKeepsOffer, JobKeepsOffer DEF IntakeNext
  <1>2. IntakeInv /\ [IntakeNext]_vars =>
          [\A j \in Jobs : Offered(j)' # Offered(j) =>
             \/ state[j] = "receiving" /\ state'[j] = "queued"
             \/ state'[j] \in SettledStates]_vars
    BY <1>1 DEF OfferKept
  <1>3. QED
    BY InitIntakeInv, StepIntakeInv, <1>2, PTL DEF IntakeSpec, InputIsOfferedOnce
=============================================================================
