----------------------------- MODULE MediaQueue -----------------------------
(***************************************************************************)
(* The media job table (crates/store/src/media.rs, migrations/0002, 0003,  *)
(* 0116 and 0144): one row per reserved upload, worked on under leases     *)
(* that expire, retried a bounded number of times, forgotten a day after   *)
(* it settles.  Every action is one committed statement or transaction on  *)
(* one row, so a row is only ever seen between two of them.                *)
(*                                                                         *)
(* Abstractions.  A claim draws a fresh random lease token and increments  *)
(* `attempts' in the same UPDATE, and nothing ever decrements `attempts':  *)
(* the token of a claim is named by the attempt it started, 0 is NULL.     *)
(* Time is the Boolean `due': for a row that has a deadline, that          *)
(* expires_at has passed; for a settled row, that updated_at is more than  *)
(* a day old.  Every UPDATE of a row restarts its clock.  The bytes of an  *)
(* output are one of Digests.                                              *)
(***************************************************************************)
EXTENDS Integers, FiniteSets

CONSTANTS
    Jobs,           \* identifiers gen_random_uuid() may draw; none is drawn twice
    Digests,        \* what output_sha256 and output_bytes tell apart
    NoDigest,       \* NULL
    Capacity,       \* media.queue_policy.capacity
    MaxAttempts,    \* 3 in every statement and in the CHECK on attempts
    BatchLimit      \* LIMIT 64 of expire

ASSUME QueueAssumption ==
    /\ IsFiniteSet(Jobs)
    /\ NoDigest \notin Digests
    /\ Capacity \in Nat \ {0}
    /\ MaxAttempts \in Nat \ {0}
    /\ BatchLimit \in Nat \ {0}

VARIABLES
    kind,       \* input_kind with drawing_publication: what the job may become
    state,      \* media.jobs.state; "absent" before INSERT, "forgotten" after DELETE
    attempts,   \* media.jobs.attempts
    lease,      \* media.jobs.lease_token, named by its attempt; 0 is NULL
    due,        \* the row's clock has run out
    failure,    \* media.jobs.failure, "none" is NULL
    output      \* media.jobs.output_sha256 and output_bytes

queueVars == <<kind, state, attempts, lease, due, failure, output>>

Kinds == {"image", "drawing", "candidate"}
PendingStates == {"receiving", "queued", "processing"}
SettledStates == {"published", "failed"}
States == PendingStates \cup SettledStates \cup {"absent", "forgotten"}
Failures == {"none", "intake_failed", "abandoned", "processing_failed",
             "invalid_output", "retry_exhausted", "candidate_checked"}
Tokens == 1..MaxAttempts

Pending == {j \in Jobs : state[j] \in PendingStates}

\* Fault: the statement compares the token and forgets state = 'processing'.
LeaseByToken(j, t) == lease[j] = t /\ ~due[j]

\* The row is leased to whoever presents token t, and the lease still runs.
LiveLease(j, t) == state[j] = "processing" /\ lease[j] = t /\ ~due[j]

\* Every UPDATE sets updated_at, and expires_at anew.
Touch(j) == due' = [due EXCEPT ![j] = FALSE]

-----------------------------------------------------------------------------
QueueInit ==
    /\ kind = [j \in Jobs |-> "image"]
    /\ state = [j \in Jobs |-> "absent"]
    /\ attempts = [j \in Jobs |-> 0]
    /\ lease = [j \in Jobs |-> 0]
    /\ due = [j \in Jobs |-> FALSE]
    /\ failure = [j \in Jobs |-> "none"]
    /\ output = [j \in Jobs |-> NoDigest]

\* INSERT INTO media.jobs at the end of a reservation.
InsertJob(j, k) ==
    /\ state[j] = "absent"
    /\ state' = [state EXCEPT ![j] = "receiving"]
    /\ kind' = [kind EXCEPT ![j] = k]
    /\ Touch(j)
    /\ UNCHANGED <<attempts, lease, failure, output>>

\* A reservation under the row lock of queue_policy: MediaAdmission shows
\* that the lock makes the count and the insertion one step.
Reserve(j, k) ==
    /\ Cardinality(Pending) < Capacity
    /\ InsertJob(j, k)

\* The complete input is stored: finish_upload, finish_pair_upload, queue.
QueueJob(j) ==
    /\ state[j] = "receiving" /\ ~due[j]
    /\ state' = [state EXCEPT ![j] = "queued"]
    /\ Touch(j)
    /\ UNCHANGED <<kind, attempts, lease, failure, output>>

\* The intake gives up.  The operator's abort_intake does not look at the
\* deadline; abort_upload refuses a row that is due.
AbortIntake(j) ==
    /\ state[j] = "receiving"
    /\ state' = [state EXCEPT ![j] = "failed"]
    /\ failure' = [failure EXCEPT ![j] = "intake_failed"]
    /\ Touch(j)
    /\ UNCHANGED <<kind, attempts, lease, output>>

\* claim, claim_drawing and claim_paired_candidate differ in the kind only.
Claim(j) ==
    /\ state[j] = "queued" /\ ~due[j] /\ attempts[j] < MaxAttempts
    /\ state' = [state EXCEPT ![j] = "processing"]
    /\ attempts' = [attempts EXCEPT ![j] = @ + 1]
    /\ lease' = [lease EXCEPT ![j] = attempts[j] + 1]
    /\ Touch(j)
    /\ UNCHANGED <<kind, failure, output>>

\* The job half of complete, approve_output and approve_drawing_output.
Complete(j, t, d) ==
    /\ LiveLease(j, t) /\ kind[j] # "candidate"
    /\ state' = [state EXCEPT ![j] = "published"]
    /\ output' = [output EXCEPT ![j] = d]
    /\ Touch(j)
    /\ UNCHANGED <<kind, attempts, lease, failure>>

\* Back to the queue for another attempt.
Requeue(j) ==
    /\ state' = [state EXCEPT ![j] = "queued"]
    /\ lease' = [lease EXCEPT ![j] = 0]
    /\ Touch(j)
    /\ UNCHANGED <<kind, attempts, failure, output>>

\* The job ends without an output.
GiveUp(j, reason) ==
    /\ state' = [state EXCEPT ![j] = "failed"]
    /\ failure' = [failure EXCEPT ![j] = reason]
    /\ lease' = [lease EXCEPT ![j] = 0]
    /\ Touch(j)
    /\ UNCHANGED <<kind, attempts, output>>

\* The worker reports a failure under its lease.
Fail(j, t, reason, retryable) ==
    /\ LiveLease(j, t)
    /\ reason \in {"processing_failed", "invalid_output"}
    /\ IF retryable /\ attempts[j] < MaxAttempts
         THEN Requeue(j)
         ELSE GiveUp(j, IF retryable THEN "retry_exhausted" ELSE reason)

\* finish_paired_candidate: a qualification run ends, whatever it found.
FinishCandidate(j, t, reason) ==
    /\ LiveLease(j, t) /\ kind[j] = "candidate"
    /\ reason \in {"candidate_checked", "processing_failed"}
    /\ GiveUp(j, reason)

\* Fault: the expiry passes over workers that died with their last attempt.
ExpireAttemptsLeft(batch) ==
    /\ batch # {} /\ Cardinality(batch) <= BatchLimit
    /\ \A j \in batch : /\ state[j] \in PendingStates /\ due[j]
                       /\ attempts[j] < MaxAttempts
    /\ state' = [j \in Jobs |-> IF j \notin batch THEN state[j]
                                ELSE IF state[j] = "processing" THEN "queued" ELSE "failed"]
    /\ failure' = [j \in Jobs |-> IF j \notin batch \/ state[j] = "processing"
                                  THEN failure[j] ELSE "abandoned"]
    /\ lease' = [j \in Jobs |-> IF j \in batch THEN 0 ELSE lease[j]]
    /\ due' = [j \in Jobs |-> due[j] /\ j \notin batch]
    /\ UNCHANGED <<kind, attempts, output>>

\* expire settles a batch of the overdue rows; SKIP LOCKED may leave any out.
Expire(batch) ==
    LET retried == {j \in batch : state[j] = "processing" /\ attempts[j] < MaxAttempts}
    IN  /\ batch # {} /\ Cardinality(batch) <= BatchLimit
        /\ \A j \in batch : state[j] \in PendingStates /\ due[j]
        /\ state' = [j \in Jobs |-> IF j \notin batch THEN state[j]
                                    ELSE IF j \in retried THEN "queued" ELSE "failed"]
        /\ failure' = [j \in Jobs |->
                         IF j \notin batch \/ j \in retried THEN failure[j]
                         ELSE IF state[j] = "processing" THEN "retry_exhausted"
                         ELSE "abandoned"]
        /\ lease' = [j \in Jobs |-> IF j \in batch THEN 0 ELSE lease[j]]
        /\ due' = [j \in Jobs |-> due[j] /\ j \notin batch]
        /\ UNCHANGED <<kind, attempts, output>>

\* forget_terminal deletes the row; its identifier is never drawn again.
ForgetTerminal(j) ==
    /\ state[j] \in SettledStates /\ due[j]
    /\ state' = [state EXCEPT ![j] = "forgotten"]
    /\ lease' = [lease EXCEPT ![j] = 0]
    /\ failure' = [failure EXCEPT ![j] = "none"]
    /\ output' = [output EXCEPT ![j] = NoDigest]
    /\ Touch(j)
    /\ UNCHANGED <<kind, attempts>>

\* Wall-clock time passes a deadline, or the day of a settled row.
Elapse(j) ==
    /\ state[j] \in PendingStates \cup SettledStates /\ ~due[j]
    /\ due' = [due EXCEPT ![j] = TRUE]
    /\ UNCHANGED <<kind, state, attempts, lease, failure, output>>

-----------------------------------------------------------------------------
IntakeStep == \E j \in Jobs :
    \/ \E k \in Kinds : Reserve(j, k)
    \/ QueueJob(j)
    \/ AbortIntake(j)

\* A worker may present any token that was ever issued, stale ones included.
LeaseStep == \E j \in Jobs :
    \/ Claim(j)
    \/ \E t \in Tokens :
         \/ \E d \in Digests : Complete(j, t, d)
         \/ \E reason \in Failures, retryable \in BOOLEAN : Fail(j, t, reason, retryable)
         \/ \E reason \in Failures : FinishCandidate(j, t, reason)

CleanupStep ==
    \/ \E batch \in SUBSET Jobs : Expire(batch)
    \/ \E j \in Jobs : ForgetTerminal(j)

QueueNext == IntakeStep \/ LeaseStep \/ CleanupStep \/ \E j \in Jobs : Elapse(j)

QueueSpec == QueueInit /\ [][QueueNext]_queueVars

\* Time passes and the operator's cleanup command is run again and again.
FairQueueSpec ==
    /\ QueueSpec
    /\ \A j \in Jobs : WF_queueVars(Elapse(j))
    /\ WF_queueVars(\E batch \in SUBSET Jobs : Expire(batch))

-----------------------------------------------------------------------------
\* Every column holds a value of its domain.
QueueTypeOK ==
    /\ kind \in [Jobs -> Kinds]
    /\ state \in [Jobs -> States]
    /\ attempts \in [Jobs -> 0..MaxAttempts]
    /\ lease \in [Jobs -> 0..MaxAttempts]
    /\ due \in [Jobs -> BOOLEAN]
    /\ failure \in [Jobs -> Failures]
    /\ output \in [Jobs -> Digests \cup {NoDigest}]

\* The CHECK constraints of media.jobs (0002:24-29 with 0144:33-41) hold of
\* every row, so none of the statements above can be refused by the table.
TableChecks == \A j \in Jobs :
    /\ (state[j] \in {"processing", "published"}) <=> (lease[j] # 0)
    /\ (state[j] = "published") <=> (output[j] # NoDigest)
    /\ (state[j] = "failed") <=> (failure[j] # "none")
    /\ state[j] \in {"processing", "published"} => attempts[j] > 0
    /\ state[j] = "published" => kind[j] # "candidate"
    /\ failure[j] = "candidate_checked" => kind[j] = "candidate"

\* A lease is the newest one: no worker holds the row under a token that an
\* expiry or a retry has already taken from it, and a queued row always has
\* an attempt left, so no row waits in the queue that no claim will take.
LeaseIsNewest == \A j \in Jobs :
    /\ lease[j] \in {0, attempts[j]}
    /\ state[j] \in {"receiving", "queued"} => attempts[j] < MaxAttempts

\* reserve and its SQL siblings admit no more than queue_policy.capacity
\* unsettled rows, whatever retries put back in the queue.
PendingWithinCapacity == Cardinality(Pending) <= Capacity

\* The recorded reason is the true one: retries were exhausted exactly when
\* the last attempt was used up, an abandoned job still had one, and an
\* intake failure was never claimed.
FailureIsTrue == \A j \in Jobs :
    /\ failure[j] = "retry_exhausted" => attempts[j] = MaxAttempts
    /\ failure[j] = "abandoned" => attempts[j] < MaxAttempts
    /\ failure[j] = "intake_failed" => attempts[j] = 0

\* A row no worker ever claimed: what FailureIsTrue needs of a lost intake.
Unclaimed == \A j \in Jobs : state[j] \in {"absent", "receiving"} => attempts[j] = 0

\* Domains, the table's constraints, the newest lease and the recorded reason
\* together are what every statement preserves.
QueueInv ==
    /\ QueueTypeOK
    /\ TableChecks
    /\ LeaseIsNewest
    /\ FailureIsTrue
    /\ Unclaimed

\* A published row keeps its output and the token that produced it until it
\* is forgotten a day later: a late completion or failure cannot touch it.
PublishedIsFinal ==
    [][\A j \in Jobs : state[j] = "published" =>
         \/ state'[j] = "published" /\ output'[j] = output[j] /\ lease'[j] = lease[j]
         \/ state'[j] = "forgotten" /\ due[j]]_queueVars

\* Every reservation settles: a lost upload, a dead worker or an idle queue
\* holds its place in the capacity only for a while.
ReservationsSettle == \A j \in Jobs : state[j] \in PendingStates ~> state[j] \notin PendingStates
=============================================================================
