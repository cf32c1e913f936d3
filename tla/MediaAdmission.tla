--------------------------- MODULE MediaAdmission ---------------------------
(***************************************************************************)
(* How a reservation is admitted (MediaQueue::reserve and its SQL siblings *)
(* media_intake.reserve, reserve_pair, reserve_drawing): a transaction of  *)
(* three statements.  It locks the row of queue_policy, counts the         *)
(* unsettled jobs in a fresh snapshot, and inserts its own row if there is *)
(* room.  Each statement is a step; the workers, the uploads and the       *)
(* cleanup of MediaQueue run between any two of them, and a client may     *)
(* disappear at any point.  The row of an open transaction is seen by      *)
(* nobody, so the insertion is part of the step that commits it.           *)
(*                                                                         *)
(* MediaQueue takes the whole reservation as one step.  This module shows  *)
(* that it may.                                                            *)
(***************************************************************************)
EXTENDS MediaQueue

CONSTANTS
    Clients,    \* connections that run a reservation
    NoClient    \* the policy row is not locked

ASSUME AdmissionAssumption == NoClient \notin Clients

VARIABLES
    policyLock, \* who holds the row lock of media.queue_policy
    progress,   \* how far the transaction of a client is
    v_pending   \* the number it counted

admissionVars == <<policyLock, progress, v_pending>>
reservationVars == <<queueVars, admissionVars>>

Progress == {"idle", "counting", "deciding"}

AdmissionInit ==
    /\ QueueInit
    /\ policyLock = NoClient
    /\ progress = [c \in Clients |-> "idle"]
    /\ v_pending = [c \in Clients |-> 0]

\* The transaction ends, and with it the lock.
End(c) ==
    /\ policyLock' = IF policyLock = c THEN NoClient ELSE policyLock
    /\ progress' = [progress EXCEPT ![c] = "idle"]
    /\ v_pending' = [v_pending EXCEPT ![c] = 0]

\* Fault: the policy is read without FOR UPDATE.
ReadPolicy(c) ==
    /\ progress[c] = "idle"
    /\ policyLock' = c
    /\ progress' = [progress EXCEPT ![c] = "counting"]
    /\ UNCHANGED <<queueVars, v_pending>>

\* SELECT capacity ... FOR UPDATE waits until no one else holds the row.
LockPolicy(c) ==
    /\ progress[c] = "idle" /\ policyLock = NoClient
    /\ policyLock' = c
    /\ progress' = [progress EXCEPT ![c] = "counting"]
    /\ UNCHANGED <<queueVars, v_pending>>

\* Fault: uploads that are still under way are not counted.
CountReceived(c) ==
    /\ progress[c] = "counting"
    /\ progress' = [progress EXCEPT ![c] = "deciding"]
    /\ v_pending' = [v_pending EXCEPT ![c] = Cardinality({j \in Pending : state[j] # "receiving"})]
    /\ UNCHANGED <<queueVars, policyLock>>

\* SELECT count(*) sees what was committed when it starts: the functions
\* refuse any other isolation level than Read Committed.
CountPending(c) ==
    /\ progress[c] = "counting"
    /\ progress' = [progress EXCEPT ![c] = "deciding"]
    /\ v_pending' = [v_pending EXCEPT ![c] = Cardinality(Pending)]
    /\ UNCHANGED <<queueVars, policyLock>>

\* INSERT and COMMIT.
Admit(c, j, k) ==
    /\ progress[c] = "deciding" /\ v_pending[c] < Capacity
    /\ InsertJob(j, k)
    /\ End(c)

\* `The media queue is full.'
RefuseFull(c) ==
    /\ progress[c] = "deciding" /\ v_pending[c] >= Capacity
    /\ End(c)
    /\ UNCHANGED queueVars

\* An error, a cancelled request or a lost connection rolls back.
Rollback(c) ==
    /\ progress[c] # "idle"
    /\ End(c)
    /\ UNCHANGED queueVars

\* Everything else that happens to the table.
OtherStep ==
    /\ \/ \E j \in Jobs : QueueJob(j) \/ AbortIntake(j) \/ Elapse(j)
       \/ LeaseStep
       \/ CleanupStep
    /\ UNCHANGED admissionVars

ClientStep(c) ==
    \/ LockPolicy(c)
    \/ CountPending(c)
    \/ \E j \in Jobs, k \in Kinds : Admit(c, j, k)
    \/ RefuseFull(c)
    \/ Rollback(c)

AdmissionNext == OtherStep \/ \E c \in Clients : ClientStep(c)

AdmissionSpec == AdmissionInit /\ [][AdmissionNext]_reservationVars

\* Time passes and expiry is run again and again, as in MediaQueue; nothing is
\* assumed of the clients, who may stay in a transaction until they are cut off.
FairAdmissionSpec ==
    /\ AdmissionSpec
    /\ \A j \in Jobs : WF_reservationVars(Elapse(j) /\ UNCHANGED admissionVars)
    /\ WF_reservationVars((\E batch \in SUBSET Jobs : Expire(batch)) /\ UNCHANGED admissionVars)

-----------------------------------------------------------------------------
AdmissionTypeOK ==
    /\ QueueTypeOK
    /\ policyLock \in Clients \cup {NoClient}
    /\ progress \in [Clients -> Progress]
    /\ v_pending \in [Clients -> Nat]

\* The number a client decides on may be out of date, but only upwards:
\* jobs settle behind its back and none is admitted, so it never finds room
\* that is no longer there.
CountIsSafe == \A c \in Clients :
    progress[c] = "deciding" => Cardinality(Pending) <= v_pending[c]

\* A client is inside its transaction exactly while it holds the row.
LockIsHeld == \A c \in Clients : progress[c] # "idle" <=> policyLock = c

\* The inductive invariant: every row of the table satisfies its constraints
\* and the truth about its lease and failure (QueueInv) while reservations are
\* half way, no count is too low, and no more jobs wait than the policy allows.
AdmissionInv ==
    /\ AdmissionTypeOK
    /\ QueueInv
    /\ LockIsHeld
    /\ CountIsSafe
    /\ PendingWithinCapacity

\* The three statements of a reservation have the effect of one: every run
\* of this module is a run of MediaQueue, with Admit for Reserve.
ReservationIsAtomic == QueueSpec
=============================================================================
