-------------------------- MODULE MediaQueueProofs --------------------------
(***************************************************************************)
(* For every table of jobs, attempt bound and batch size: the domains, the *)
(* table's CHECK constraints, the newest lease, the truth of the recorded  *)
(* failure and the finality of a published row are kept by every statement *)
(* of MediaQueue; and the capacity is never exceeded.                      *)
(***************************************************************************)
EXTENDS MediaQueue, FiniteSetTheorems, TLAPS

\* The parts of the invariant, one row at a time: a step that changes one row
\* disturbs nothing of the others.
RowInv(j) ==
    /\ (state[j] \in {"processing", "published"}) <=> (lease[j] # 0)
    /\ (state[j] = "published") <=> (output[j] # NoDigest)
    /\ (state[j] = "failed") <=> (failure[j] # "none")
    /\ state[j] \in {"processing", "published"} => attempts[j] > 0
    /\ state[j] = "published" => kind[j] # "candidate"
    /\ failure[j] = "candidate_checked" => kind[j] = "candidate"
    /\ lease[j] \in {0, attempts[j]}
    /\ state[j] \in {"receiving", "queued"} => attempts[j] < MaxAttempts
    /\ failure[j] = "retry_exhausted" => attempts[j] = MaxAttempts
    /\ failure[j] = "abandoned" => attempts[j] < MaxAttempts
    /\ failure[j] = "intake_failed" => attempts[j] = 0
    /\ state[j] \in {"absent", "receiving"} => attempts[j] = 0

LEMMA RowByRow == QueueInv <=> QueueTypeOK /\ \A j \in Jobs : RowInv(j)
  BY DEF QueueInv, TableChecks, LeaseIsNewest, FailureIsTrue, Unclaimed, RowInv

LEMMA InitQueueInv == QueueInit => QueueInv
  BY QueueAssumption
  DEF QueueInit, QueueInv, QueueTypeOK, TableChecks, LeaseIsNewest, FailureIsTrue,
      Unclaimed, Kinds, States, PendingStates, SettledStates, Failures

\* Every statement leaves every column in its domain.
LEMMA TypeStep == ASSUME QueueInv, [QueueNext]_queueVars PROVE QueueTypeOK'
  <1> USE QueueAssumption DEF QueueInv, QueueTypeOK, Kinds, States, PendingStates,
          SettledStates, Failures, Tokens, Touch
  <1>1. ASSUME NEW j \in Jobs, NEW k \in Kinds, Reserve(j, k) PROVE QueueTypeOK'
    BY <1>1 DEF Reserve, InsertJob
  <1>2. ASSUME NEW j \in Jobs, QueueJob(j) \/ AbortIntake(j) \/ ForgetTerminal(j) \/ Elapse(j)
        PROVE  QueueTypeOK'
    <2>1. CASE QueueJob(j)        BY <2>1 DEF QueueJob
    <2>2. CASE AbortIntake(j)     BY <2>2 DEF AbortIntake
    <2>3. CASE ForgetTerminal(j)  BY <2>3 DEF ForgetTerminal
    <2>4. CASE Elapse(j)          BY <2>4 DEF Elapse
    <2>5. QED                     BY <1>2, <2>1, <2>2, <2>3, <2>4
  <1>3. ASSUME NEW j \in Jobs, Claim(j) PROVE QueueTypeOK'
    BY <1>3 DEF Claim
  <1>4. ASSUME NEW j \in Jobs, NEW t \in Tokens, NEW d \in Digests, Complete(j, t, d)
        PROVE  QueueTypeOK'
    BY <1>4 DEF Complete
  <1>5. ASSUME NEW j \in Jobs, NEW t \in Tokens, NEW r \in Failures, NEW again \in BOOLEAN,
               Fail(j, t, r, again)
        PROVE  QueueTypeOK'
    <2>1. CASE Requeue(j)
      BY <1>5, <2>1 DEF Fail, Requeue
    <2>2. CASE \E why \in {"retry_exhausted", r} : GiveUp(j, why)
      BY <1>5, <2>2 DEF Fail, GiveUp
    <2>3. QED
      BY <1>5, <2>1, <2>2 DEF Fail
  <1>6. ASSUME NEW j \in Jobs, NEW t \in Tokens, NEW r \in Failures, FinishCandidate(j, t, r)
        PROVE  QueueTypeOK'
    BY <1>6 DEF FinishCandidate, GiveUp
  <1>7. ASSUME NEW batch \in SUBSET Jobs, Expire(batch) PROVE QueueTypeOK'
    BY <1>7 DEF Expire
  <1>8. CASE UNCHANGED queueVars
    BY <1>8 DEF queueVars
  <1>9. CASE IntakeStep
    BY <1>1, <1>2, <1>9 DEF IntakeStep
  <1>10. CASE LeaseStep
    BY <1>3, <1>4, <1>5, <1>6, <1>10 DEF LeaseStep
  <1>11. CASE CleanupStep
    BY <1>2, <1>7, <1>11 DEF CleanupStep
  <1>12. QED
    BY <1>2, <1>8, <1>9, <1>10, <1>11 DEF QueueNext

\* Every statement keeps the constraints of every row.
LEMMA RowStep ==
  ASSUME QueueInv, [QueueNext]_queueVars, NEW i \in Jobs PROVE RowInv(i)'
  <1>0. RowInv(i)
    BY RowByRow
  <1> USE <1>0, QueueAssumption DEF QueueInv, QueueTypeOK, RowInv, Kinds, States,
          PendingStates, SettledStates, Failures, Tokens, Touch
  <1>1. ASSUME NEW j \in Jobs, NEW k \in Kinds, Reserve(j, k) PROVE RowInv(i)'
    BY <1>1 DEF Reserve, InsertJob
  <1>2. ASSUME NEW j \in Jobs, QueueJob(j) \/ AbortIntake(j) \/ ForgetTerminal(j) \/ Elapse(j)
        PROVE  RowInv(i)'
    <2>1. CASE QueueJob(j)        BY <2>1 DEF QueueJob
    <2>2. CASE AbortIntake(j)     BY <2>2 DEF AbortIntake
    <2>3. CASE ForgetTerminal(j)  BY <2>3 DEF ForgetTerminal
    <2>4. CASE Elapse(j)          BY <2>4 DEF Elapse
    <2>5. QED                     BY <1>2, <2>1, <2>2, <2>3, <2>4
  <1>3. ASSUME NEW j \in Jobs, Claim(j) PROVE RowInv(i)'
    BY <1>3 DEF Claim
  <1>4. ASSUME NEW j \in Jobs, NEW t \in Tokens, NEW d \in Digests, Complete(j, t, d)
        PROVE  RowInv(i)'
    BY <1>4 DEF Complete, LiveLease
  <1>5. ASSUME NEW j \in Jobs, NEW t \in Tokens, NEW r \in Failures, NEW again \in BOOLEAN,
               Fail(j, t, r, again)
        PROVE  RowInv(i)'
    <2>1. CASE Requeue(j) /\ attempts[j] < MaxAttempts
      BY <1>5, <2>1 DEF Fail, Requeue, LiveLease
    <2>2. CASE GiveUp(j, "retry_exhausted") /\ ~(attempts[j] < MaxAttempts)
      BY <1>5, <2>2 DEF Fail, GiveUp, LiveLease
    <2>3. CASE GiveUp(j, r) /\ r \in {"processing_failed", "invalid_output"}
      BY <1>5, <2>3 DEF Fail, GiveUp, LiveLease
    <2>4. QED
      BY <1>5, <2>1, <2>2, <2>3 DEF Fail
  <1>6. ASSUME NEW j \in Jobs, NEW t \in Tokens, NEW r \in Failures, FinishCandidate(j, t, r)
        PROVE  RowInv(i)'
    BY <1>6 DEF FinishCandidate, GiveUp, LiveLease
  <1>7. ASSUME NEW batch \in SUBSET Jobs, Expire(batch) PROVE RowInv(i)'
    BY <1>7 DEF Expire
  <1>8. CASE UNCHANGED queueVars
    BY <1>8 DEF queueVars
  <1>9. CASE IntakeStep
    BY <1>1, <1>2, <1>9 DEF IntakeStep
  <1>10. CASE LeaseStep
    BY <1>3, <1>4, <1>5, <1>6, <1>10 DEF LeaseStep
  <1>11. CASE CleanupStep
    BY <1>2, <1>7, <1>11 DEF CleanupStep
  <1>12. QED
    BY <1>2, <1>8, <1>9, <1>10, <1>11 DEF QueueNext

LEMMA StepQueueInv == QueueInv /\ [QueueNext]_queueVars => QueueInv'
  <1> SUFFICES ASSUME QueueInv, [QueueNext]_queueVars PROVE QueueInv'
    OBVIOUS
  <1>1. QueueTypeOK'
    BY TypeStep
  <1>2. \A i \in Jobs : RowInv(i)'
    BY RowStep
  <1>3. QED
    BY <1>1, <1>2 DEF QueueInv, TableChecks, LeaseIsNewest, FailureIsTrue, Unclaimed, RowInv

\* No statement of the queue is ever refused by a CHECK constraint of the
\* table, and every column keeps its domain.
THEOREM TableChecksHold == QueueSpec => [](QueueTypeOK /\ TableChecks)
  <1>1. QueueInv => QueueTypeOK /\ TableChecks
    BY DEF QueueInv
  <1>2. QED
    BY InitQueueInv, StepQueueInv, <1>1, PTL DEF QueueSpec

\* A superseded token is never the lease of the row again.
THEOREM LeaseStaysNewest == QueueSpec => []LeaseIsNewest
  <1>1. QueueInv => LeaseIsNewest
    BY DEF QueueInv
  <1>2. QED
    BY InitQueueInv, StepQueueInv, <1>1, PTL DEF QueueSpec

\* The failure that an operator reads in a row is what happened to it.
THEOREM FailureStaysTrue == QueueSpec => []FailureIsTrue
  <1>1. QueueInv => FailureIsTrue
    BY DEF QueueInv
  <1>2. QED
    BY InitQueueInv, StepQueueInv, <1>1, PTL DEF QueueSpec

\* Only a reservation adds to the unsettled rows, and it adds one.
LEMMA PendingStep ==
  ASSUME QueueInv, [QueueNext]_queueVars
  PROVE  \/ Pending' \subseteq Pending
         \/ /\ Cardinality(Pending) < Capacity
            /\ \E j \in Jobs : Pending' = Pending \cup {j}
  <1> USE QueueAssumption DEF QueueInv, QueueTypeOK, Pending, PendingStates, SettledStates
  <1>1. ASSUME NEW j \in Jobs, NEW k \in Kinds, Reserve(j, k)
        PROVE  /\ Cardinality(Pending) < Capacity
               /\ Pending' = Pending \cup {j}
    BY <1>1 DEF Reserve, InsertJob
  <1>2. ASSUME NEW j \in Jobs, QueueJob(j) \/ AbortIntake(j) \/ ForgetTerminal(j) \/ Elapse(j) \/ Claim(j)
        PROVE  Pending' \subseteq Pending
    <2>1. CASE QueueJob(j) \/ Claim(j)        BY <2>1 DEF QueueJob, Claim
    <2>2. CASE AbortIntake(j)     BY <2>2 DEF AbortIntake
    <2>3. CASE ForgetTerminal(j)  BY <2>3 DEF ForgetTerminal
    <2>4. CASE Elapse(j)          BY <2>4 DEF Elapse
    <2>5. QED                     BY <1>2, <2>1, <2>2, <2>3, <2>4
  <1>3. ASSUME NEW j \in Jobs, NEW t \in Tokens, NEW d \in Digests, Complete(j, t, d)
        PROVE  Pending' \subseteq Pending
    BY <1>3 DEF Complete
  <1>4. ASSUME NEW j \in Jobs, NEW t \in Tokens, NEW r \in Failures, NEW again \in BOOLEAN,
               Fail(j, t, r, again)
        PROVE  Pending' \subseteq Pending
    <2>1. CASE Requeue(j)                     BY <1>4, <2>1 DEF Fail, Requeue, LiveLease
    <2>2. CASE GiveUp(j, "retry_exhausted")   BY <2>2 DEF GiveUp
    <2>3. CASE GiveUp(j, r)                   BY <2>3 DEF GiveUp
    <2>4. QED                                 BY <1>4, <2>1, <2>2, <2>3 DEF Fail
  <1>5. ASSUME NEW j \in Jobs, NEW t \in Tokens, NEW r \in Failures, FinishCandidate(j, t, r)
        PROVE  Pending' \subseteq Pending
    BY <1>5 DEF FinishCandidate, GiveUp
  <1>6. ASSUME NEW batch \in SUBSET Jobs, Expire(batch) PROVE Pending' \subseteq Pending
    BY <1>6 DEF Expire
  <1>7. CASE UNCHANGED queueVars
    BY <1>7 DEF queueVars
  <1>8. CASE IntakeStep
    BY <1>1, <1>2, <1>8 DEF IntakeStep
  <1>9. CASE LeaseStep
    BY <1>2, <1>3, <1>4, <1>5, <1>9 DEF LeaseStep
  <1>10. CASE CleanupStep
    BY <1>2, <1>6, <1>10 DEF CleanupStep
  <1>11. QED
    BY <1>2, <1>7, <1>8, <1>9, <1>10 DEF QueueNext

LEMMA CapacityAtInit == QueueInit => PendingWithinCapacity
  <1> SUFFICES ASSUME QueueInit PROVE PendingWithinCapacity
    OBVIOUS
  <1>1. Pending = {}
    BY DEF QueueInit, Pending, PendingStates
  <1>2. QED
    BY <1>1, FS_EmptySet, QueueAssumption DEF PendingWithinCapacity

LEMMA CapacityStep ==
  ASSUME QueueInv, PendingWithinCapacity, [QueueNext]_queueVars
  PROVE  PendingWithinCapacity'
  <1>1. IsFiniteSet(Pending) /\ Cardinality(Pending) \in Nat
    BY FS_Subset, FS_CardinalityType, QueueAssumption DEF Pending
  <1>2. CASE Pending' \subseteq Pending
    <2>1. Cardinality(Pending') <= Cardinality(Pending) /\ Cardinality(Pending') \in Nat
      BY <1>1, <1>2, FS_Subset, FS_CardinalityType
    <2>2. QED
      BY <1>1, <2>1, QueueAssumption DEF PendingWithinCapacity
  <1>3. ASSUME Cardinality(Pending) < Capacity, NEW j \in Jobs, Pending' = Pending \cup {j}
        PROVE  PendingWithinCapacity'
    <2>1. Cardinality(Pending') <= Cardinality(Pending) + 1 /\ Cardinality(Pending') \in Nat
      BY <1>1, <1>3, FS_AddElement, FS_CardinalityType
    <2>2. QED
      BY <1>1, <1>3, <2>1, QueueAssumption DEF PendingWithinCapacity
  <1>4. QED
    BY <1>2, <1>3, PendingStep

\* However uploads, retries and cleanup interleave, the table never holds more
\* unsettled jobs than queue_policy allows.
THEOREM CapacityHolds == QueueSpec => []PendingWithinCapacity
  BY InitQueueInv, StepQueueInv, CapacityAtInit, CapacityStep, PTL DEF QueueSpec

\* What has been published under a lease is out of reach of every other one.
THEOREM PublishedStaysFinal == QueueSpec => PublishedIsFinal
  <1> DEFINE Final == \A j \in Jobs : state[j] = "published" =>
                 \/ state'[j] = "published" /\ output'[j] = output[j] /\ lease'[j] = lease[j]
                 \/ state'[j] = "forgotten" /\ due[j]
  <1>1. QueueInv /\ [QueueNext]_queueVars => Final
    <2> SUFFICES ASSUME QueueInv, [QueueNext]_queueVars, NEW i \in Jobs, state[i] = "published"
                 PROVE  \/ state'[i] = "published" /\ output'[i] = output[i] /\ lease'[i] = lease[i]
                        \/ state'[i] = "forgotten" /\ due[i]
      OBVIOUS
    <2> USE DEF QueueInv, QueueTypeOK, PendingStates, SettledStates, LiveLease
    <2>1. ASSUME NEW j \in Jobs, NEW k \in Kinds, Reserve(j, k)
          PROVE  state'[i] = "published" /\ output'[i] = output[i] /\ lease'[i] = lease[i]
      BY <2>1 DEF Reserve, InsertJob
    <2>2. ASSUME NEW j \in Jobs, QueueJob(j) \/ AbortIntake(j) \/ Elapse(j) \/ Claim(j)
          PROVE  state'[i] = "published" /\ output'[i] = output[i] /\ lease'[i] = lease[i]
      BY <2>2 DEF QueueJob, AbortIntake, Elapse, Claim
    <2>3. ASSUME NEW j \in Jobs, ForgetTerminal(j)
          PROVE  \/ state'[i] = "published" /\ output'[i] = output[i] /\ lease'[i] = lease[i]
                 \/ state'[i] = "forgotten" /\ due[i]
      BY <2>3 DEF ForgetTerminal
    <2>4. ASSUME NEW j \in Jobs, NEW t \in Tokens, NEW d \in Digests, Complete(j, t, d)
          PROVE  state'[i] = "published" /\ output'[i] = output[i] /\ lease'[i] = lease[i]
      BY <2>4 DEF Complete
    <2>5. ASSUME NEW j \in Jobs, NEW t \in Tokens, NEW r \in Failures, NEW again \in BOOLEAN,
                 Fail(j, t, r, again)
          PROVE  state'[i] = "published" /\ output'[i] = output[i] /\ lease'[i] = lease[i]
      <3>1. i # j
        BY <2>5 DEF Fail
      <3>2. QED
        BY <2>5, <3>1 DEF Fail, Requeue, GiveUp
    <2>6. ASSUME NEW j \in Jobs, NEW t \in Tokens, NEW r \in Failures, FinishCandidate(j, t, r)
          PROVE  state'[i] = "published" /\ output'[i] = output[i] /\ lease'[i] = lease[i]
      BY <2>6 DEF FinishCandidate, GiveUp
    <2>7. ASSUME NEW batch \in SUBSET Jobs, Expire(batch)
          PROVE  state'[i] = "published" /\ output'[i] = output[i] /\ lease'[i] = lease[i]
      BY <2>7 DEF Expire
    <2>8. CASE UNCHANGED queueVars
      BY <2>8 DEF queueVars
    <2>9. QED
      BY <2>1, <2>2, <2>3, <2>4, <2>5, <2>6, <2>7, <2>8
      DEF QueueNext, IntakeStep, LeaseStep, CleanupStep
  <1>2. QED
    BY InitQueueInv, StepQueueInv, <1>1, PTL DEF QueueSpec, PublishedIsFinal
=============================================================================
