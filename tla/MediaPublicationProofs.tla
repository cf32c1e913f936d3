----------------------- MODULE MediaPublicationProofs -----------------------
(***************************************************************************)
(* For any number of jobs, attempts, coordinators and outputs: whoever     *)
(* holds the file lock is right about what it established, an approved     *)
(* asset is complete, no file is untracked, and job and asset agree.       *)
(***************************************************************************)
EXTENDS MediaPublication, MediaQueueProofs

-----------------------------------------------------------------------------
\* What a step of the queue other than a completion leaves alone: attempts
\* are never taken back, an issued token never comes to life again, a
\* published job stays as it is until it is forgotten.
QueueKept == \A j \in Jobs :
    /\ attempts[j] <= attempts'[j]
    /\ \A t \in Tokens : t <= attempts[j] /\ LiveLease(j, t)' => LiveLease(j, t)
    /\ state[j] \in {"published", "forgotten"} => state'[j] \in {"published", "forgotten"}
    /\ state'[j] = "published" =>
         state[j] = "published" /\ lease'[j] = lease[j] /\ output'[j] = output[j]

LEMMA UnchangedKept == ASSUME QueueInv, UNCHANGED queueVars PROVE QueueKept
  BY DEF QueueKept, queueVars, LiveLease, QueueInv, QueueTypeOK

LEMMA ClaimKept == ASSUME QueueInv, NEW j \in Jobs, Claim(j) PROVE QueueKept
  BY QueueAssumption
  DEF QueueKept, LiveLease, QueueInv, QueueTypeOK, LeaseIsNewest, Claim, Touch, Tokens

LEMMA GiveUpKept ==
  ASSUME QueueInv, NEW j \in Jobs, NEW why, state[j] = "processing", GiveUp(j, why)
  PROVE  QueueKept
  BY QueueAssumption DEF QueueKept, LiveLease, QueueInv, QueueTypeOK, GiveUp, Touch, Tokens

LEMMA IntakeKept == ASSUME QueueInv, IntakeStep PROVE QueueKept
  <1> USE QueueAssumption DEF QueueKept, LiveLease, QueueInv, QueueTypeOK, Touch, Tokens
  <1>1. ASSUME NEW j \in Jobs, NEW k \in Kinds, Reserve(j, k) PROVE QueueKept
    BY <1>1 DEF Reserve, InsertJob
  <1>2. ASSUME NEW j \in Jobs, QueueJob(j) PROVE QueueKept
    BY <1>2 DEF QueueJob
  <1>3. ASSUME NEW j \in Jobs, AbortIntake(j) PROVE QueueKept
    BY <1>3 DEF AbortIntake
  <1>4. QED
    BY <1>1, <1>2, <1>3 DEF IntakeStep

LEMMA CleanupKept == ASSUME QueueInv, CleanupStep PROVE QueueKept
  <1> USE QueueAssumption DEF QueueKept, LiveLease, QueueInv, QueueTypeOK, Touch, Tokens
  <1>1. ASSUME NEW batch \in SUBSET Jobs, Expire(batch) PROVE QueueKept
    BY <1>1 DEF Expire, PendingStates
  <1>2. ASSUME NEW j \in Jobs, ForgetTerminal(j) PROVE QueueKept
    BY <1>2 DEF ForgetTerminal, SettledStates
  <1>3. QED
    BY <1>1, <1>2 DEF CleanupStep

LEMMA ElapseKept == ASSUME QueueInv, NEW j \in Jobs, Elapse(j) PROVE QueueKept
  BY QueueAssumption DEF QueueKept, LiveLease, QueueInv, QueueTypeOK, Elapse, Tokens

\* Every step of publication is a step of the queue, and only an approval
\* completes a job.
LEMMA PublicationIsQueue ==
  ASSUME PublicationInv, [PublicationNext]_allVars
  PROVE  /\ [QueueNext]_queueVars
         /\ QueueKept \/ \E r \in Assets \X Paths : Approve(r)
  <1> USE DEF PublicationInv
  <1>u. ASSUME UNCHANGED queueVars PROVE [QueueNext]_queueVars /\ QueueKept
    BY <1>u, UnchangedKept
  <1>1. ASSUME NEW j \in Jobs, Claim(j) PROVE [QueueNext]_queueVars /\ QueueKept
    BY <1>1, ClaimKept DEF QueueNext, LeaseStep
  <1>2. ASSUME NEW p \in Coordinators, ExtendStillLease(p) PROVE [QueueNext]_queueVars /\ QueueKept
    <2>1. task[p] \in Assets /\ ~due[task[p][1]]
      BY <1>2 DEF ExtendStillLease, WorkInv, LiveAsset, LiveLease
    <2>2. UNCHANGED queueVars
      BY <1>2, <2>1 DEF ExtendStillLease, Touch, Assets, QueueInv, QueueTypeOK, queueVars
    <2>3. QED
      BY <2>2, <1>u
  <1>3. ASSUME NEW p \in Coordinators, Leave(p) PROVE [QueueNext]_queueVars /\ QueueKept
    <2>1. ASSUME NEW why \in {"processing_failed", "invalid_output"},
                 Fail(task[p][1], task[p][2], why, FALSE)
          PROVE  [QueueNext]_queueVars /\ QueueKept
      <3>1. task[p][1] \in Jobs /\ task[p][2] \in Tokens
        BY <1>3 DEF Leave, WorkInv, Assets
      <3>2. why \in Failures /\ FALSE \in BOOLEAN
        BY DEF Failures
      <3>3. [QueueNext]_queueVars
        BY <2>1, <3>1, <3>2 DEF QueueNext, LeaseStep
      <3>4. QueueKept
        BY <2>1, <3>1, GiveUpKept DEF Fail, LiveLease
      <3>5. QED
        BY <3>3, <3>4
    <2>2. QED
      BY <1>3, <2>1, <1>u DEF Leave
  <1>4. ASSUME NEW r \in Assets \X Paths, Approve(r) PROVE [QueueNext]_queueVars
    <2>1. r[1][1] \in Jobs /\ r[1][2] \in Tokens /\ r[1] \in Assets
      BY DEF Assets
    <2>2. manifest[r[1]] \in Digests
      BY <1>4, <2>1 DEF Approve, AssetInv
    <2>3. QED
      BY <1>4, <2>1, <2>2 DEF Approve, QueueNext, LeaseStep
  <1>5. CASE QueueStep
    <2>1. ASSUME NEW j \in Jobs, NEW t \in Tokens, NEW why \in Failures, FinishCandidate(j, t, why)
          PROVE  [QueueNext]_queueVars /\ QueueKept
      BY <2>1, GiveUpKept DEF QueueNext, LeaseStep, FinishCandidate, LiveLease
    <2>2. CASE IntakeStep
      BY <2>2, IntakeKept DEF QueueNext
    <2>3. CASE CleanupStep
      BY <2>3, CleanupKept DEF QueueNext
    <2>4. ASSUME NEW j \in Jobs, Elapse(j) PROVE [QueueNext]_queueVars /\ QueueKept
      BY <2>4, ElapseKept DEF QueueNext
    <2>5. QED
      BY <1>1, <1>5, <2>1, <2>2, <2>3, <2>4 DEF QueueStep
  <1>6. ASSUME NEW p \in Coordinators, CoordinatorStep(p) PROVE [QueueNext]_queueVars /\ QueueKept
    BY <1>6, <1>u, <1>1, <1>2, <1>3
    DEF CoordinatorStep, Take, PublishByHand, Process, TryLock, Prepare, RecordReceipt,
        InstallPrimary, InstallThumbnail, Install, SendApproval, Done
  <1>7. CASE PassStep \/ AbortPass
    BY <1>7, <1>u
    DEF PassStep, AbortPass, FinishPass, EndPass, LockPass, ListAbandoned, ForgetOutput, Retire,
        BeginDeletion, RemovePrimary, RemoveThumbnail, Remove
  <1>8. CASE DatabaseStep
    BY <1>8, <1>u, <1>4 DEF DatabaseStep, DropRequest
  <1>9. CASE UNCHANGED allVars
    BY <1>9, <1>u DEF allVars
  <1>10. QED
    BY <1>1, <1>5, <1>6, <1>7, <1>8, <1>9 DEF PublicationNext, ClaimByHand

-----------------------------------------------------------------------------
\* Every step leaves every variable in its domain.
LEMMA PublicationTypeStep ==
  ASSUME PublicationInv, [PublicationNext]_allVars PROVE PublicationTypeOK'
  <1>q. QueueTypeOK'
    BY PublicationIsQueue, TypeStep DEF PublicationInv
  <1> USE <1>q DEF PublicationInv, PublicationTypeOK, assetVars, workVars, passVars
  <1>1. ASSUME NEW p \in Coordinators, NEW j \in Jobs, NEW how \in Paths, Take(p, j, how)
        PROVE  PublicationTypeOK'
    <2>1. attempts[j] + 1 \in Tokens
      BY <1>1, QueueAssumption DEF Take, Claim, QueueInv, QueueTypeOK, Tokens
    <2>2. QED
      BY <1>1, <2>1 DEF Take, Go, Stages, Assets
  <1>2. ASSUME NEW j \in Jobs, ClaimByHand(j) PROVE PublicationTypeOK'
    <2>1. attempts[j] + 1 \in Tokens
      BY <1>2, QueueAssumption DEF ClaimByHand, Claim, QueueInv, QueueTypeOK, Tokens
    <2>2. QED
      BY <1>2, <2>1 DEF ClaimByHand, Assets
  <1>3. ASSUME NEW p \in Coordinators, NEW a \in Assets, NEW d \in Digests, PublishByHand(p, a, d)
        PROVE  PublicationTypeOK'
    BY <1>3 DEF PublishByHand, Go, Stages, Paths
  <1>4. ASSUME NEW p \in Coordinators, ExtendStillLease(p) PROVE PublicationTypeOK'
    BY <1>4 DEF ExtendStillLease, Go, Stages
  <1>5. ASSUME NEW p \in Coordinators, NEW d \in Digests, Process(p, d) PROVE PublicationTypeOK'
    BY <1>5 DEF Process, Go, Stages
  <1>6. ASSUME NEW p \in Coordinators, TryLock(p) PROVE PublicationTypeOK'
    BY <1>6 DEF TryLock, Go, Stages
  <1>7. ASSUME NEW p \in Coordinators, Leave(p) \/ Done(p) PROVE PublicationTypeOK'
    <2>1. CASE Leave(p)   BY <2>1 DEF Leave, Return, Stages, Paths
    <2>2. CASE Done(p)    BY <2>2 DEF Done, Return, Stages, Paths
    <2>3. QED             BY <1>7, <2>1, <2>2
  <1>8. ASSUME NEW p \in Coordinators, Prepare(p) PROVE PublicationTypeOK'
    BY <1>8 DEF Prepare, Go, Stages, AssetStates
  <1>9. ASSUME NEW p \in Coordinators, RecordReceipt(p) PROVE PublicationTypeOK'
    BY <1>9 DEF RecordReceipt, Go, Stages
  <1>10. ASSUME NEW p \in Coordinators, InstallPrimary(p) \/ InstallThumbnail(p)
         PROVE  PublicationTypeOK'
    <2>1. CASE InstallPrimary(p)
      BY <2>1 DEF InstallPrimary, Install, Go, Stages, Variants
    <2>2. CASE InstallThumbnail(p)
      BY <2>2 DEF InstallThumbnail, Install, Go, Stages, Variants
    <2>3. QED
      BY <1>10, <2>1, <2>2
  <1>11. ASSUME NEW p \in Coordinators, SendApproval(p) PROVE PublicationTypeOK'
    BY <1>11 DEF SendApproval, Holding, Go, Stages, WorkInv
  <1>12. ASSUME NEW r \in Assets \X Paths, Approve(r) PROVE PublicationTypeOK'
    BY <1>12 DEF Approve, AssetStates, Assets
  <1>13. ASSUME NEW r \in Assets \X Paths, DropRequest(r) PROVE PublicationTypeOK'
    BY <1>13 DEF DropRequest
  <1>14. CASE LockPass \/ ListAbandoned
    BY <1>14 DEF LockPass, ListAbandoned, Passes
  <1>15. ASSUME NEW a \in Assets, Retire(a) PROVE PublicationTypeOK'
    BY <1>15 DEF Retire, AssetStates
  <1>16. ASSUME NEW a \in Assets, BeginDeletion(a) PROVE PublicationTypeOK'
    BY <1>16 DEF BeginDeletion, AssetStates, Passes
  <1>17. CASE RemovePrimary \/ RemoveThumbnail
    <2>1. CASE RemovePrimary    BY <2>1 DEF RemovePrimary, Remove, Passes, Variants
    <2>2. CASE RemoveThumbnail  BY <2>2 DEF RemoveThumbnail, Remove, Passes, Variants
    <2>3. QED                   BY <1>17, <2>1, <2>2
  <1>18. CASE ForgetOutput
    BY <1>18 DEF ForgetOutput, AssetStates, Passes
  <1>19. CASE FinishPass \/ AbortPass
    BY <1>19 DEF FinishPass, AbortPass, EndPass, Passes
  <1>20. CASE UNCHANGED publicationVars
    BY <1>20 DEF publicationVars
  <1>21. ASSUME NEW p \in Coordinators, CoordinatorStep(p) PROVE PublicationTypeOK'
    BY <1>1, <1>3, <1>4, <1>5, <1>6, <1>7, <1>8, <1>9, <1>10, <1>11, <1>21 DEF CoordinatorStep
  <1>22. CASE DatabaseStep
    BY <1>12, <1>13, <1>22 DEF DatabaseStep
  <1>23. CASE PassStep
    BY <1>14, <1>15, <1>16, <1>17, <1>18, <1>19, <1>23 DEF PassStep
  <1>24. CASE QueueStep \/ UNCHANGED allVars
    BY <1>20, <1>24 DEF QueueStep, allVars
  <1>25. QED
    BY <1>2, <1>19, <1>21, <1>22, <1>23, <1>24 DEF PublicationNext

\* The lock has one holder, and the stages under the lock are its own.
LEMMA LockStep == ASSUME PublicationInv, [PublicationNext]_allVars PROVE LockInv' /\ WorkInv'
  <1> USE PublicationAssumption
          DEF PublicationInv, PublicationTypeOK, LockInv, WorkInv, Stages, LockedStages,
              assetVars, workVars, passVars, Go
  <1>1. ASSUME NEW p \in Coordinators, NEW j \in Jobs, NEW how \in Paths, Take(p, j, how)
        PROVE  LockInv' /\ WorkInv'
    <2>1. attempts[j] + 1 \in Tokens
      BY <1>1, QueueAssumption DEF Take, Claim, QueueInv, QueueTypeOK, Tokens
    <2>2. QED
      BY <1>1, <2>1 DEF Take, Assets
  <1>2. ASSUME NEW p \in Coordinators, NEW a \in Assets, NEW d \in Digests, PublishByHand(p, a, d)
        PROVE  LockInv' /\ WorkInv'
    BY <1>2 DEF PublishByHand
  <1>3. ASSUME NEW p \in Coordinators, ExtendStillLease(p) PROVE LockInv' /\ WorkInv'
    BY <1>3 DEF ExtendStillLease
  <1>4. ASSUME NEW p \in Coordinators, NEW d \in Digests, Process(p, d) PROVE LockInv' /\ WorkInv'
    BY <1>4 DEF Process
  <1>5. ASSUME NEW p \in Coordinators, TryLock(p) PROVE LockInv' /\ WorkInv'
    BY <1>5 DEF TryLock
  <1>6. ASSUME NEW p \in Coordinators, Leave(p) \/ Done(p) PROVE LockInv' /\ WorkInv'
    <2>1. CASE Leave(p)   BY <2>1 DEF Leave, Return
    <2>2. CASE Done(p)    BY <2>2 DEF Done, Return
    <2>3. QED             BY <1>6, <2>1, <2>2
  <1>7. ASSUME NEW p \in Coordinators, Prepare(p) PROVE LockInv' /\ WorkInv'
    BY <1>7 DEF Prepare, Holding
  <1>8. ASSUME NEW p \in Coordinators, RecordReceipt(p) PROVE LockInv' /\ WorkInv'
    BY <1>8 DEF RecordReceipt, Holding
  <1>9. ASSUME NEW p \in Coordinators, InstallPrimary(p) \/ InstallThumbnail(p)
        PROVE  LockInv' /\ WorkInv'
    BY <1>9 DEF InstallPrimary, InstallThumbnail, Install, Holding
  <1>10. ASSUME NEW p \in Coordinators, SendApproval(p) PROVE LockInv' /\ WorkInv'
    BY <1>10 DEF SendApproval, Holding
  <1>11. CASE LockPass
    BY <1>11 DEF LockPass
  <1>12. ASSUME UNCHANGED <<holder, workVars>>, pass # "idle", pass' # "idle"
         PROVE  LockInv' /\ WorkInv'
    BY <1>12
  <1>13. CASE FinishPass \/ AbortPass
    BY <1>13 DEF FinishPass, AbortPass, EndPass
  <1>14. ASSUME UNCHANGED <<holder, stage, task, result, pass>> PROVE LockInv' /\ WorkInv'
    BY <1>14
  <1>15. ASSUME NEW p \in Coordinators, CoordinatorStep(p) PROVE LockInv' /\ WorkInv'
    BY <1>1, <1>2, <1>3, <1>4, <1>5, <1>6, <1>7, <1>8, <1>9, <1>10, <1>15 DEF CoordinatorStep
  <1>16. CASE DatabaseStep
    BY <1>14, <1>16 DEF DatabaseStep, Approve, DropRequest
  <1>17. CASE PassStep
    BY <1>11, <1>12, <1>13, <1>17
    DEF PassStep, ListAbandoned, Retire, BeginDeletion, RemovePrimary, RemoveThumbnail, Remove,
        ForgetOutput
  <1>18. CASE QueueStep \/ UNCHANGED allVars \/ \E j \in Jobs : ClaimByHand(j)
    BY <1>14, <1>18 DEF QueueStep, allVars, publicationVars, ClaimByHand
  <1>19. QED
    BY <1>13, <1>15, <1>16, <1>17, <1>18 DEF PublicationNext

\* Nothing but the queue moved: what an asset is worth stays.
LEMMA AssetKept ==
  ASSUME PublicationInv, QueueKept, QueueTypeOK', UNCHANGED <<asset, manifest, files>>,
         NEW a \in Assets
  PROVE  AssetInv(a)'
  <1>1. a[1] \in Jobs /\ a[2] \in Tokens /\ AssetInv(a)
    BY DEF Assets, PublicationInv
  <1>2. /\ a[2] \in Nat /\ attempts[a[1]] \in Nat /\ attempts'[a[1]] \in Nat
        /\ attempts[a[1]] <= attempts'[a[1]]
    BY <1>1, QueueAssumption DEF QueueKept, PublicationInv, QueueInv, QueueTypeOK, Tokens
  <1>3. a[2] <= attempts[a[1]] /\ ~LiveAsset(a) => ~LiveAsset(a)'
    BY <1>1 DEF QueueKept, LiveAsset
  <1>4. state[a[1]] \in {"published", "forgotten"} => state'[a[1]] \in {"published", "forgotten"}
    BY <1>1 DEF QueueKept
  <1>5. a[2] <= attempts[a[1]] => a[2] <= attempts'[a[1]]
    BY <1>2
  <1>6. QED
    BY <1>1, <1>3, <1>4, <1>5 DEF AssetInv

\* The steps that touch assets or files, one by one; all others keep both.
LEMMA AssetStep ==
  ASSUME PublicationInv, [PublicationNext]_allVars, NEW a \in Assets PROVE AssetInv(a)'
  <1>q. QueueKept \/ \E r \in Assets \X Paths : Approve(r)
    BY PublicationIsQueue
  <1>t. QueueTypeOK'
    BY PublicationTypeStep DEF PublicationTypeOK
  <1>a. /\ AssetInv(a)
        /\ a[1] \in Jobs /\ a[2] \in Tokens
        /\ PublicationTypeOK /\ QueueTypeOK
    BY DEF PublicationInv, PublicationTypeOK, Assets
  <1>u. ASSUME UNCHANGED <<asset, manifest, files, queueVars>> PROVE AssetInv(a)'
    BY <1>u, <1>t, AssetKept, UnchangedKept DEF PublicationInv
  <1> USE <1>a DEF AssetInv, PublicationTypeOK, assetVars, workVars, passVars
  <1>1. ASSUME NEW p \in Coordinators, Prepare(p) PROVE AssetInv(a)'
    <2> DEFINE b == task[p]
    <2>1. CASE UNCHANGED assetVars
      BY <1>1, <1>u, <2>1 DEF Prepare
    <2>2. CASE /\ asset[b] \in {"none", "forgotten"} /\ LiveAsset(b)
               /\ asset' = [asset EXCEPT ![b] = "pending"]
               /\ manifest' = [manifest EXCEPT ![b] = result[p]]
      <3>1. b \in Assets /\ result[p] \in Digests
        BY <1>1 DEF Prepare, Holding, PublicationInv, WorkInv, Stages, LockedStages
      <3>2. b[1] \in Jobs /\ b[2] \in Tokens /\ b[2] <= attempts[b[1]]
        <4>1. b[1] \in Jobs /\ b[2] \in Tokens
          BY <3>1 DEF Assets
        <4>2. b[2] = lease[b[1]] /\ lease[b[1]] \in {0, attempts[b[1]]} /\ attempts[b[1]] \in Nat
          BY <2>2, <4>1, QueueAssumption
          DEF LiveAsset, LiveLease, PublicationInv, QueueInv, LeaseIsNewest, QueueTypeOK
        <4>3. QED
          BY <4>1, <4>2 DEF Tokens
      <3>3. AssetInv(b)
        BY <3>1 DEF PublicationInv
      <3>4. UNCHANGED <<queueVars, files>>
        BY <1>1 DEF Prepare
      <3>5. QED
        BY <2>2, <3>1, <3>2, <3>3, <3>4 DEF LiveAsset, LiveLease, queueVars
    <2>3. QED
      BY <1>1, <2>1, <2>2 DEF Prepare
  <1>2. ASSUME NEW p \in Coordinators, NEW v \in Variants, Install(p, v),
               Holding(p, "receipted") \/ Holding(p, "primary")
        PROVE  AssetInv(a)'
    <2> DEFINE b == task[p]
    <2>1. b \in Assets /\ result[p] \in Digests /\ manifest[b] = result[p]
          /\ asset[b] \in {"pending", "approved"}
      BY <1>2 DEF Holding, PublicationInv, WorkInv, CoordinatorInv, Stages, LockedStages
    <2>2. QED
      BY <1>2, <2>1 DEF Install, LiveAsset, LiveLease, queueVars, Variants
  <1>3. ASSUME NEW r \in Assets \X Paths, Approve(r) PROVE AssetInv(a)'
    <2> DEFINE b == r[1]
    <2>1. b \in Assets /\ b[1] \in Jobs /\ b[2] \in Tokens /\ AssetInv(b)
      BY DEF Assets, PublicationInv
    <2>2. \A v \in Variants : files[b][v] = manifest[b]
      BY <1>3, <2>1 DEF Approve, PublicationInv, RequestInv
    <2>3. /\ asset[b] = "pending" /\ asset' = [asset EXCEPT ![b] = "approved"]
          /\ state[b[1]] = "processing" /\ state' = [state EXCEPT ![b[1]] = "published"]
          /\ due' = [due EXCEPT ![b[1]] = FALSE]
          /\ UNCHANGED <<manifest, files, attempts, lease>>
      BY <1>3 DEF Approve, Complete, LiveLease, Touch
    <2>4. LiveAsset(a)' => LiveAsset(a)
      BY <2>1, <2>3 DEF LiveAsset, LiveLease, QueueTypeOK
    <2>5. state[a[1]] \in {"published", "forgotten"} => state'[a[1]] \in {"published", "forgotten"}
      BY <2>1, <2>3 DEF QueueTypeOK
    <2>6. CASE a = b
      BY <2>1, <2>2, <2>3, <2>6 DEF QueueTypeOK
    <2>7. CASE a # b
      BY <2>1, <2>3, <2>4, <2>5, <2>7
    <2>8. QED
      BY <2>6, <2>7
  <1>4. ASSUME NEW b \in Assets, Retire(b) PROVE AssetInv(a)'
    BY <1>4 DEF Retire, LiveAsset, LiveLease, queueVars
  <1>5. ASSUME NEW b \in Assets, BeginDeletion(b) PROVE AssetInv(a)'
    <2>1. AssetInv(b)
      BY DEF PublicationInv
    <2>2. QED
      BY <1>5, <2>1 DEF BeginDeletion, Abandoned, LiveAsset, LiveLease, queueVars
  <1>6. CASE RemovePrimary \/ RemoveThumbnail
    <2>1. victim \in Assets /\ asset[victim] = "deleting"
      BY <1>6 DEF RemovePrimary, RemoveThumbnail, PublicationInv, PassInv
    <2>2. CASE RemovePrimary
      BY <2>1, <2>2 DEF RemovePrimary, Remove, Variants, LiveAsset, LiveLease, queueVars
    <2>3. CASE RemoveThumbnail
      BY <2>1, <2>3 DEF RemoveThumbnail, Remove, Variants, LiveAsset, LiveLease, queueVars
    <2>4. QED
      BY <1>6, <2>2, <2>3
  <1>7. CASE ForgetOutput
    <2>1. /\ victim \in Assets /\ asset[victim] = "deleting"
          /\ \A v \in Variants : files[victim][v] = NoDigest
      BY <1>7 DEF ForgetOutput, PublicationInv, PassInv, Variants
    <2>2. AssetInv(victim)
      BY <2>1 DEF PublicationInv
    <2>3. QED
      BY <1>7, <2>1, <2>2 DEF ForgetOutput, LiveAsset, LiveLease, queueVars
  <1>8. ASSUME QueueKept, UNCHANGED <<asset, manifest, files>> PROVE AssetInv(a)'
    BY <1>8, <1>t, AssetKept
  <1>9. ASSUME NEW p \in Coordinators, CoordinatorStep(p), QueueKept PROVE AssetInv(a)'
    BY <1>1, <1>2, <1>8, <1>9
    DEF CoordinatorStep, Take, PublishByHand, ExtendStillLease, Process, TryLock, Leave,
        RecordReceipt, InstallPrimary, InstallThumbnail, SendApproval, Done, Variants
  <1>10. CASE PassStep /\ QueueKept
    BY <1>4, <1>5, <1>6, <1>7, <1>8, <1>10
    DEF PassStep, LockPass, ListAbandoned, FinishPass, EndPass
  <1>11. CASE QueueKept /\ (AbortPass \/ QueueStep \/ \E j \in Jobs : ClaimByHand(j))
    BY <1>8, <1>11 DEF AbortPass, EndPass, QueueStep, ClaimByHand, publicationVars
  <1>12. CASE DatabaseStep
    BY <1>3, <1>u, <1>12 DEF DatabaseStep, DropRequest
  <1>13. CASE UNCHANGED allVars
    BY <1>u, <1>13 DEF allVars, publicationVars
  <1>14. QED
    BY <1>q, <1>3, <1>9, <1>10, <1>11, <1>12, <1>13 DEF PublicationNext

\* The pass works on an object whose row it marked, in the order of remove.
LEMMA PassInvStep == ASSUME PublicationInv, [PublicationNext]_allVars PROVE PassInv'
  <1>t. PublicationTypeOK /\ PassInv /\ LockInv
    BY DEF PublicationInv
  <1> USE <1>t, PublicationAssumption
          DEF PassInv, PublicationTypeOK, assetVars, workVars, passVars
  <1>1. ASSUME UNCHANGED <<pass, victim>>,
               \A a \in Assets : asset[a] = "deleting" => asset'[a] = "deleting",
               \A a \in Assets, v \in Variants : asset[a] = "deleting" => files'[a][v] = files[a][v]
        PROVE  PassInv'
    BY <1>1 DEF Variants
  <1>2. ASSUME NEW p \in Coordinators, CoordinatorStep(p) PROVE PassInv'
    <2>1. ASSUME NEW v \in Variants, Install(p, v), Holding(p, "receipted") \/ Holding(p, "primary")
          PROVE  PassInv'
      <3>1. task[p] \in Assets /\ asset[task[p]] # "deleting"
        BY <2>1 DEF Holding, PublicationInv, WorkInv, CoordinatorInv, Stages, LockedStages
      <3>2. QED
        BY <1>1, <2>1, <3>1 DEF Install
    <2>2. CASE Prepare(p)
      BY <1>1, <2>2 DEF Prepare
    <2>3. QED
      BY <1>1, <1>2, <2>1, <2>2
      DEF CoordinatorStep, Take, PublishByHand, ExtendStillLease, Process, TryLock, Leave,
          RecordReceipt, InstallPrimary, InstallThumbnail, SendApproval, Done, Variants
  <1>3. CASE DatabaseStep
    BY <1>1, <1>3 DEF DatabaseStep, Approve, DropRequest
  <1>4. CASE LockPass \/ ListAbandoned \/ FinishPass \/ AbortPass
    BY <1>4 DEF LockPass, ListAbandoned, FinishPass, AbortPass, EndPass
  <1>5. ASSUME NEW a \in Assets, Retire(a) PROVE PassInv'
    BY <1>5 DEF Retire
  <1>6. ASSUME NEW a \in Assets, BeginDeletion(a) PROVE PassInv'
    BY <1>6 DEF BeginDeletion
  <1>7. CASE RemovePrimary
    BY <1>7 DEF RemovePrimary, Remove, Variants
  <1>8. CASE RemoveThumbnail
    BY <1>8 DEF RemoveThumbnail, Remove, Variants
  <1>9. CASE ForgetOutput
    BY <1>9 DEF ForgetOutput
  <1>10. CASE QueueStep \/ UNCHANGED allVars \/ \E j \in Jobs : ClaimByHand(j)
    BY <1>1, <1>10 DEF QueueStep, allVars, publicationVars, ClaimByHand
  <1>11. QED
    BY <1>2, <1>3, <1>4, <1>5, <1>6, <1>7, <1>8, <1>9, <1>10 DEF PublicationNext, PassStep

\* Under the lock nobody else changes what a coordinator relies on: the pass
\* is idle, and an approval that commits late only confirms its row.
LEMMA CoordinatorInvStep ==
  ASSUME PublicationInv, [PublicationNext]_allVars, NEW q \in Coordinators
  PROVE  CoordinatorInv(q)'
  <1>t. /\ PublicationTypeOK /\ CoordinatorInv(q) /\ LockInv
        /\ stage[q] # "idle" => task[q] \in Assets
        /\ stage[q] \in LockedStages \cup {"processed"} => result[q] \in Digests
    BY DEF PublicationInv, WorkInv
  <1> USE <1>t, PublicationAssumption
          DEF PublicationTypeOK, assetVars, workVars, passVars, LockedStages, Stages, Go, LockInv
  <1>n. ASSUME stage'[q] \in {"idle", "working", "extended", "processed", "locked"}
        PROVE  CoordinatorInv(q)'
    BY <1>n DEF CoordinatorInv
  <1>u. ASSUME UNCHANGED <<asset, manifest, receipt, files>>,
               stage'[q] = stage[q], task'[q] = task[q], path'[q] = path[q], result'[q] = result[q]
        PROVE  CoordinatorInv(q)'
    BY <1>u DEF CoordinatorInv
  <1>o. ASSUME NEW p \in Coordinators, stage[p] \in LockedStages, p # q,
               stage' = [stage EXCEPT ![p] = stage'[p]]
        PROVE  CoordinatorInv(q)'
    BY <1>o, <1>n
  <1>1. ASSUME NEW p \in Coordinators, CoordinatorStep(p), p # q PROVE CoordinatorInv(q)'
    <2>1. CASE Prepare(p) \/ RecordReceipt(p) \/ InstallPrimary(p) \/ InstallThumbnail(p)
      BY <1>1, <1>o, <2>1 DEF Prepare, RecordReceipt, InstallPrimary, InstallThumbnail, Holding
    <2>2. CASE \/ ExtendStillLease(p) \/ TryLock(p) \/ SendApproval(p)
               \/ \E d \in Digests : Process(p, d)
      BY <1>1, <1>u, <2>2 DEF ExtendStillLease, Process, TryLock, SendApproval, Holding
    <2>3. CASE \/ \E j \in Jobs, how \in Paths : Take(p, j, how)
               \/ \E a \in Assets, d \in Digests : PublishByHand(p, a, d)
      BY <1>1, <1>u, <2>3 DEF Take, PublishByHand
    <2>4. CASE Leave(p) \/ Done(p)
      BY <1>1, <1>u, <2>4 DEF Leave, Return, Done
    <2>5. QED
      BY <1>1, <2>1, <2>2, <2>3, <2>4 DEF CoordinatorStep
  <1>2. CASE CoordinatorStep(q)
    <2>1. CASE Prepare(q)
      <3>1. task[q] \in Assets
        BY <2>1 DEF Prepare, Holding
      <3>2. QED
        BY <2>1, <3>1 DEF Prepare, Holding, CoordinatorInv
    <2>2. CASE RecordReceipt(q)
      <3>1. task[q] \in Assets
        BY <2>2 DEF RecordReceipt, Holding
      <3>2. QED
        BY <2>2, <3>1 DEF RecordReceipt, Holding, CoordinatorInv
    <2>3. CASE InstallPrimary(q)
      <3>1. task[q] \in Assets
        BY <2>3 DEF InstallPrimary, Holding
      <3>2. QED
        BY <2>3, <3>1 DEF InstallPrimary, Install, Holding, CoordinatorInv, Variants
    <2>4. CASE InstallThumbnail(q)
      <3>1. task[q] \in Assets
        BY <2>4 DEF InstallThumbnail, Holding
      <3>2. QED
        BY <2>4, <3>1 DEF InstallThumbnail, Install, Holding, CoordinatorInv, Variants
    <2>5. CASE SendApproval(q)
      BY <2>5 DEF SendApproval, Holding, CoordinatorInv
    <2>6. QED
      BY <1>2, <1>n, <2>1, <2>2, <2>3, <2>4, <2>5
      DEF CoordinatorStep, Take, PublishByHand, ExtendStillLease, Process, TryLock, Leave, Return, Done
  <1>3. ASSUME NEW r \in Assets \X Paths, Approve(r) PROVE CoordinatorInv(q)'
    BY <1>3 DEF Approve, CoordinatorInv
  <1>4. CASE PassStep \/ AbortPass
    <2>1. CASE pass = "idle"
      BY <1>4, <1>u, <2>1
      DEF PassStep, AbortPass, LockPass, ListAbandoned, ForgetOutput, FinishPass, EndPass, Retire,
          BeginDeletion, RemovePrimary, RemoveThumbnail
    <2>2. CASE pass # "idle"
      <3>1. stage[q] \notin LockedStages
        BY <2>2
      <3>2. stage' = stage
        BY <1>4
        DEF PassStep, AbortPass, LockPass, ListAbandoned, ForgetOutput, FinishPass, EndPass, Retire,
            BeginDeletion, RemovePrimary, RemoveThumbnail, Remove
      <3>3. QED
        BY <3>1, <3>2, <1>n
    <2>3. QED
      BY <2>1, <2>2
  <1>5. CASE DatabaseStep
    BY <1>3, <1>5, <1>u DEF DatabaseStep, DropRequest
  <1>6. CASE QueueStep \/ UNCHANGED allVars \/ \E j \in Jobs : ClaimByHand(j)
    BY <1>6, <1>u DEF QueueStep, allVars, publicationVars, ClaimByHand
  <1>7. QED
    BY <1>1, <1>2, <1>4, <1>5, <1>6 DEF PublicationNext

\* Files of a requested asset are only removed once it can not be approved.
LEMMA RequestInvStep == ASSUME PublicationInv, [PublicationNext]_allVars PROVE RequestInv'
  <1>t. PublicationTypeOK /\ RequestInv /\ PassInv
    BY DEF PublicationInv
  <1> USE <1>t DEF PublicationTypeOK, RequestInv, assetVars, workVars, passVars
  <1>u. ASSUME requests' \subseteq requests,
               \A a \in Assets : asset[a] # "none" => asset'[a] # "none",
               \A a \in Assets : asset'[a] = "pending" /\ asset[a] # "none" =>
                 /\ asset[a] = "pending" /\ manifest'[a] = manifest[a]
                 /\ \A v \in Variants : files[a][v] = manifest[a] => files'[a][v] = manifest[a]
        PROVE  RequestInv'
    BY <1>u
  <1>1. ASSUME NEW p \in Coordinators, CoordinatorStep(p) PROVE RequestInv'
    <2>1. CASE Prepare(p)
      <3>1. task[p] \in Assets /\ AssetInv(task[p])
        BY <2>1 DEF Prepare, Holding, PublicationInv, WorkInv, Stages
      <3>2. QED
        BY <1>u, <2>1, <3>1 DEF Prepare, AssetInv
    <2>2. ASSUME NEW v \in Variants, Install(p, v), requests' = requests,
                 Holding(p, "receipted") \/ Holding(p, "primary")
          PROVE  RequestInv'
      <3>1. task[p] \in Assets /\ manifest[task[p]] = result[p]
        BY <2>2 DEF Holding, PublicationInv, WorkInv, CoordinatorInv, Stages, LockedStages
      <3>2. QED
        BY <1>u, <2>2, <3>1 DEF Install
    <2>3. CASE InstallPrimary(p) \/ InstallThumbnail(p)
      BY <2>2, <2>3 DEF InstallPrimary, InstallThumbnail, Install, Variants
    <2>4. CASE SendApproval(p)
      <3>1. /\ asset[task[p]] \in {"pending", "approved"}
            /\ \A v \in Variants : files[task[p]][v] = manifest[task[p]]
        BY <2>4 DEF SendApproval, Holding, PublicationInv, CoordinatorInv, Stages, LockedStages, Variants
      <3>2. QED
        BY <2>4, <3>1 DEF SendApproval
    <2>5. QED
      BY <1>1, <1>u, <2>1, <2>3, <2>4
      DEF CoordinatorStep, Take, PublishByHand, ExtendStillLease, Process, TryLock, Leave, Done, RecordReceipt
  <1>2. CASE DatabaseStep
    BY <1>2, <1>u DEF DatabaseStep, Approve, DropRequest
  <1>3. CASE LockPass \/ ListAbandoned \/ FinishPass \/ AbortPass
    BY <1>3, <1>u DEF LockPass, ListAbandoned, FinishPass, AbortPass, EndPass
  <1>4. ASSUME NEW a \in Assets, Retire(a) \/ BeginDeletion(a) PROVE RequestInv'
    BY <1>4, <1>u DEF Retire, BeginDeletion
  <1>5. CASE RemovePrimary \/ RemoveThumbnail \/ ForgetOutput
    BY <1>5, <1>u DEF RemovePrimary, RemoveThumbnail, Remove, ForgetOutput, PassInv
  <1>6. CASE QueueStep \/ UNCHANGED allVars \/ \E j \in Jobs : ClaimByHand(j)
    BY <1>6, <1>u DEF QueueStep, allVars, publicationVars, ClaimByHand
  <1>7. QED
    BY <1>1, <1>2, <1>3, <1>4, <1>5, <1>6 DEF PublicationNext, PassStep

\* Only an approval publishes a job or approves an asset, and it does both.
LEMMA JobInvStep ==
  ASSUME PublicationInv, [PublicationNext]_allVars, NEW j \in Jobs PROVE JobInv(j)'
  <1>q. QueueKept \/ \E r \in Assets \X Paths : Approve(r)
    BY PublicationIsQueue
  <1>t. /\ PublicationTypeOK /\ QueueInv /\ JobInv(j)
        /\ \A t \in Tokens : <<j, t>> \in Assets
    BY DEF PublicationInv, Assets
  <1>l. state[j] = "published" => <<j, lease[j]>> \in Assets
    <2> SUFFICES ASSUME state[j] = "published" PROVE <<j, lease[j]>> \in Assets
      OBVIOUS
    <2>1. lease[j] \in 0..MaxAttempts /\ lease[j] # 0
      BY <1>t DEF QueueInv, QueueTypeOK, TableChecks
    <2>2. QED
      BY <1>t, <2>1, QueueAssumption DEF Tokens
  <1> USE <1>t, <1>l DEF PublicationTypeOK, assetVars, workVars, passVars, JobInv
  <1>k. ASSUME QueueKept,
               \A a \in Assets : asset'[a] = "approved" => asset[a] = "approved",
               \A a \in Assets : asset[a] \in {"approved", "deleting", "forgotten"} =>
                 /\ asset'[a] \in {"approved", "deleting", "forgotten"}
                 /\ asset[a] = "forgotten" => asset'[a] = "forgotten"
                 /\ asset'[a] # "forgotten" => manifest'[a] = manifest[a]
        PROVE  JobInv(j)'
    BY <1>k DEF QueueKept
  <1>1. ASSUME NEW r \in Assets \X Paths, Approve(r) PROVE JobInv(j)'
    <2> DEFINE b == r[1]
    <2>1. b \in Assets /\ b[1] \in Jobs /\ b[2] \in Tokens /\ b = <<b[1], b[2]>>
      BY DEF Assets
    <2>2. /\ asset[b] = "pending" /\ asset' = [asset EXCEPT ![b] = "approved"]
          /\ state[b[1]] = "processing" /\ state' = [state EXCEPT ![b[1]] = "published"]
          /\ output' = [output EXCEPT ![b[1]] = manifest[b]]
          /\ lease[b[1]] = b[2]
          /\ UNCHANGED <<manifest, lease>>
      BY <1>1 DEF Approve, Complete, LiveLease
    <2>3. \A t \in Tokens : <<b[1], t>> \in Assets /\ asset[<<b[1], t>>] # "approved"
      BY <2>1, <2>2 DEF PublicationInv, AssetInv, Assets
    <2>4. CASE b[1] = j
      <3>1. \A t \in Tokens : asset'[<<j, t>>] = "approved" => t = b[2]
        BY <2>1, <2>2, <2>3, <2>4
      <3>2. /\ lease'[j] = b[2]
            /\ asset'[<<j, lease'[j]>>] = "approved"
            /\ output'[j] = manifest'[<<j, lease'[j]>>]
        BY <2>1, <2>2, <2>4 DEF QueueInv, QueueTypeOK
      <3>3. QED
        BY <3>1, <3>2
    <2>5. CASE b[1] # j
      <3>1. \A t \in Tokens \cup {lease[j]} : <<j, t>> # b
        BY <2>1, <2>5
      <3>2. /\ \A t \in Tokens : asset'[<<j, t>>] = asset[<<j, t>>]
            /\ state[j] = "published" => asset'[<<j, lease[j]>>] = asset[<<j, lease[j]>>]
            /\ state'[j] = state[j] /\ output'[j] = output[j] /\ lease'[j] = lease[j]
        BY <2>1, <2>2, <2>5, <3>1 DEF QueueInv, QueueTypeOK
      <3>3. QED
        BY <2>2, <3>2
    <2>6. QED
      BY <2>4, <2>5
  <1>2. ASSUME NEW p \in Coordinators, CoordinatorStep(p), QueueKept PROVE JobInv(j)'
    <2>1. CASE Prepare(p)
      <3>1. task[p] \in Assets /\ AssetInv(task[p])
        BY <2>1 DEF Prepare, Holding, PublicationInv, WorkInv, Stages
      <3>2. asset[task[p]] = "forgotten" => ~LiveAsset(task[p])
        BY <3>1 DEF AssetInv
      <3>3. QED
        BY <1>2, <1>k, <2>1, <3>1, <3>2 DEF Prepare
    <2>2. QED
      BY <1>2, <1>k, <2>1
      DEF CoordinatorStep, Take, PublishByHand, ExtendStillLease, Process, TryLock, Leave, Done,
          RecordReceipt, InstallPrimary, InstallThumbnail, Install, SendApproval
  <1>3. ASSUME NEW r \in Assets \X Paths, DropRequest(r) PROVE JobInv(j)'
    BY <1>3, <1>k, UnchangedKept DEF DropRequest
  <1>4. CASE QueueKept /\ (PassStep \/ AbortPass)
    <2>1. ASSUME NEW a \in Assets, Retire(a) \/ BeginDeletion(a) PROVE JobInv(j)'
      BY <1>4, <1>k, <2>1 DEF Retire, BeginDeletion, Abandoned
    <2>2. CASE ForgetOutput
      BY <1>4, <1>k, <2>2 DEF ForgetOutput, PublicationInv, PassInv
    <2>3. QED
      BY <1>4, <1>k, <2>1, <2>2
      DEF PassStep, AbortPass, LockPass, ListAbandoned, FinishPass, EndPass, RemovePrimary,
          RemoveThumbnail, Remove
  <1>5. CASE QueueKept /\ (QueueStep \/ UNCHANGED allVars \/ \E i \in Jobs : ClaimByHand(i))
    BY <1>5, <1>k DEF QueueStep, allVars, publicationVars, ClaimByHand
  <1>6. CASE UNCHANGED allVars
    BY <1>5, <1>6, UnchangedKept DEF allVars
  <1>7. QED
    BY <1>q, <1>1, <1>2, <1>3, <1>4, <1>5, <1>6 DEF PublicationNext, DatabaseStep

LEMMA InitPublicationInv == PublicationInit => PublicationInv
  <1> SUFFICES ASSUME PublicationInit PROVE PublicationInv
    OBVIOUS
  <1>1. QueueInv
    BY InitQueueInv DEF PublicationInit
  <1>2. PublicationTypeOK
    BY <1>1 DEF QueueInv, PublicationInit, PublicationTypeOK, AssetStates, NoFiles, Stages, Paths, Passes
  <1>3. LockInv /\ WorkInv /\ RequestInv /\ PassInv
    BY PublicationAssumption
    DEF PublicationInit, LockInv, WorkInv, RequestInv, PassInv, LockedStages, Stages
  <1>4. \A a \in Assets : AssetInv(a)
    BY DEF PublicationInit, AssetInv, NoFiles
  <1>5. \A p \in Coordinators : CoordinatorInv(p)
    BY DEF PublicationInit, CoordinatorInv, LockedStages, Stages
  <1>6. \A j \in Jobs : JobInv(j)
    BY DEF PublicationInit, QueueInit, JobInv, Assets
  <1>7. QED
    BY <1>1, <1>2, <1>3, <1>4, <1>5, <1>6 DEF PublicationInv

LEMMA StepPublicationInv == PublicationInv /\ [PublicationNext]_allVars => PublicationInv'
  <1> SUFFICES ASSUME PublicationInv, [PublicationNext]_allVars PROVE PublicationInv'
    OBVIOUS
  <1>1. QueueInv'
    BY PublicationIsQueue, StepQueueInv DEF PublicationInv
  <1>2. Assets' = Assets
    BY DEF Assets
  <1>3. QED
    BY <1>1, <1>2, PublicationTypeStep, LockStep, AssetStep, CoordinatorInvStep, RequestInvStep,
       PassInvStep, JobInvStep
    DEF PublicationInv

THEOREM PublicationInvariant == PublicationSpec => []PublicationInv
  BY InitPublicationInv, StepPublicationInv, PTL DEF PublicationSpec

-----------------------------------------------------------------------------
\* A reader who finds an asset approved finds every file of it, with the
\* bytes its row describes.
THEOREM ApprovedStaysComplete == PublicationSpec => []ApprovedIsComplete
  <1>1. PublicationInv => ApprovedIsComplete
    BY QueueAssumption DEF PublicationInv, AssetInv, ApprovedIsComplete, Installed
  <1>2. QED
    BY <1>1, PublicationInvariant, PTL

\* No crash, error or late commit leaves a file that no row names.
THEOREM FilesStayTracked == PublicationSpec => []NoUntrackedFile
  <1>1. PublicationInv => NoUntrackedFile
    <2> SUFFICES ASSUME PublicationInv, NEW a \in Assets, NEW v \in Variants, files[a][v] # NoDigest
                 PROVE  asset[a] \notin {"none", "forgotten"} /\ Installed(a, v)
      BY DEF NoUntrackedFile
    <2>1. AssetInv(a) /\ asset[a] \in AssetStates
      BY DEF PublicationInv, PublicationTypeOK
    <2>2. QED
      BY <2>1, QueueAssumption DEF AssetInv, Installed, AssetStates
  <1>2. QED
    BY <1>1, PublicationInvariant, PTL

\* A published job has the asset of its lease and no other one is approved.
THEOREM JobAndAssetStayAgreed == PublicationSpec => []JobAndAssetAgree
  <1>1. PublicationInv => JobAndAssetAgree
    <2> SUFFICES ASSUME PublicationInv, NEW j \in Jobs, NEW t \in Tokens,
                        asset[<<j, t>>] = "approved"
                 PROVE  /\ state[j] \in {"published", "forgotten"}
                        /\ \A u \in Tokens \ {t} : asset[<<j, u>>] # "approved"
      BY DEF PublicationInv, JobInv, JobAndAssetAgree
    <2>1. <<j, t>> \in Assets /\ <<j, t>>[1] = j
      BY DEF Assets
    <2>2. QED
      BY <2>1 DEF PublicationInv, AssetInv, JobInv
  <1>2. QED
    BY <1>1, PublicationInvariant, PTL

\* Between two calls under the lock nothing a coordinator relies on changes.
THEOREM CoordinatorStaysRight == PublicationSpec => []CoordinatorIsRight
  <1>1. ASSUME PublicationInv, NEW p \in Coordinators
        PROVE  /\ CoordinatorInv(p)
               /\ stage[p] \in LockedStages => holder = p /\ result[p] # NoDigest
    BY <1>1, QueueAssumption DEF PublicationInv, LockInv, WorkInv
  <1>2. PublicationInv => CoordinatorIsRight
    BY <1>1 DEF CoordinatorIsRight, CoordinatorInv, Installed, LockedStages, Stages
  <1>3. QED
    BY <1>2, PublicationInvariant, PTL

\* No approved or leased object reaches the removal of files.
THEOREM RemovalStaysSafe == PublicationSpec => []RemovalIsSafe
  <1>1. PublicationInv => RemovalIsSafe
    BY DEF PublicationInv, PassInv, AssetInv, RemovalIsSafe
  <1>2. QED
    BY <1>1, PublicationInvariant, PTL

-----------------------------------------------------------------------------
(* Publication implements MediaPromise. *)

\* An upload had its turn exactly when its job was published.
SpentInv == \A j \in spent : state[j] \in {"published", "forgotten"}

LEMMA SpentStep == ASSUME PublicationInv, SpentInv, [PublicationNext]_allVars PROVE SpentInv'
  <1>1. ASSUME NEW r \in Assets \X Paths, Approve(r) PROVE SpentInv'
    <2>1. r[1][1] \in Jobs
      BY DEF Assets
    <2>2. QED
      BY <1>1, <2>1 DEF Approve, Complete, SpentInv, PublicationInv, PublicationTypeOK, QueueTypeOK
  <1>2. ASSUME QueueKept, UNCHANGED spent PROVE SpentInv'
    BY <1>2 DEF SpentInv, QueueKept, PublicationInv, PublicationTypeOK
  <1>3. ASSUME NEW p \in Coordinators, CoordinatorStep(p) PROVE UNCHANGED spent
    BY <1>3
    DEF CoordinatorStep, Take, PublishByHand, ExtendStillLease, Process, TryLock, Leave, Prepare,
        RecordReceipt, InstallPrimary, InstallThumbnail, Install, SendApproval, Done
  <1>4. CASE PassStep \/ AbortPass
    <2>1. UNCHANGED spent
      BY <1>4
      DEF PassStep, AbortPass, LockPass, ListAbandoned, ForgetOutput, FinishPass, EndPass, Retire,
          BeginDeletion, RemovePrimary, RemoveThumbnail, Remove
    <2>2. \A r \in Assets \X Paths : Approve(r) => SpentInv'
      BY <1>1
    <2>3. QED
      BY <1>2, <2>1, <2>2, PublicationIsQueue
  <1>5. CASE DatabaseStep
    BY <1>1, <1>2, <1>5, UnchangedKept DEF DatabaseStep, DropRequest, PublicationInv
  <1>6. CASE QueueStep \/ UNCHANGED allVars \/ \E j \in Jobs : ClaimByHand(j)
    <2>1. UNCHANGED spent
      BY <1>6 DEF QueueStep, allVars, publicationVars, ClaimByHand
    <2>2. QED
      BY <1>1, <1>2, <2>1, PublicationIsQueue
  <1>7. QED
    BY <1>1, <1>2, <1>3, <1>4, <1>5, <1>6, PublicationIsQueue DEF PublicationNext

\* The refinement mapping of Promise.
Shown == [j \in Jobs |-> {files[a] : a \in {b \in {j} \X Tokens : asset[b] = "approved"}}]

LEMMA ShownKept ==
  ASSUME PublicationInv,
         \A a \in Assets : asset'[a] = "approved" <=> asset[a] = "approved",
         \A a \in Assets : asset[a] = "approved" => files'[a] = files[a]
  PROVE  Shown' = Shown
  <1>1. \A j \in Jobs : {b \in {j} \X Tokens : asset'[b] = "approved"}
                        = {b \in {j} \X Tokens : asset[b] = "approved"}
    BY DEF Assets
  <1>2. ASSUME NEW j \in Jobs
        PROVE  {files'[a] : a \in {b \in {j} \X Tokens : asset'[b] = "approved"}}
               = {files[a] : a \in {b \in {j} \X Tokens : asset[b] = "approved"}}
    BY <1>1 DEF Assets
  <1>3. QED
    BY <1>2 DEF Shown

\* An approval shows the whole output of an upload that had shown none.
LEMMA ApproveShows ==
  ASSUME PublicationInv, SpentInv, NEW r \in Assets \X Paths, Approve(r)
  PROVE  LET j == r[1][1] IN
         /\ j \in Jobs \ spent /\ spent' = spent \cup {j}
         /\ \E d \in Digests : Shown' = [Shown EXCEPT ![j] = {[v \in Variants |-> d]}]
  <1> DEFINE b == r[1]  j == b[1]  out == [v \in Variants |-> manifest[b]]
  <1>1. b \in Assets /\ j \in Jobs /\ b[2] \in Tokens /\ b = <<j, b[2]>> /\ AssetInv(b)
    BY DEF Assets, PublicationInv
  <1>2. /\ asset[b] = "pending" /\ asset' = [asset EXCEPT ![b] = "approved"]
        /\ state[j] = "processing" /\ spent' = spent \cup {j} /\ files' = files
    BY DEF Approve, Complete, LiveLease
  <1>3. j \notin spent
    BY <1>2 DEF SpentInv
  <1>4. files[b] = out /\ manifest[b] \in Digests
    <2>1. files[b] \in [Variants -> Digests \cup {NoDigest}]
      BY <1>1 DEF PublicationInv, PublicationTypeOK
    <2>2. \A v \in Variants : files[b][v] = manifest[b]
      BY <1>1, <1>2 DEF Approve, PublicationInv, RequestInv
    <2>3. QED
      BY <1>1, <1>2, <2>1, <2>2 DEF AssetInv
  <1>5. {c \in {j} \X Tokens : asset'[c] = "approved"} = {b}
    <2>1. \A t \in Tokens : <<j, t>> \in Assets /\ asset[<<j, t>>] # "approved"
      BY <1>1, <1>2 DEF PublicationInv, AssetInv, Assets
    <2>2. \A c \in {j} \X Tokens : c \in Assets /\ asset[c] # "approved"
      BY <2>1
    <2>3. QED
      BY <1>1, <1>2, <2>2 DEF PublicationInv, PublicationTypeOK
  <1>6. Shown'[j] = {out}
    BY <1>1, <1>2, <1>4, <1>5 DEF Shown
  <1>7. ASSUME NEW i \in Jobs, i # j PROVE Shown'[i] = Shown[i]
    <2>1. {c \in {i} \X Tokens : asset'[c] = "approved"} = {c \in {i} \X Tokens : asset[c] = "approved"}
      BY <1>1, <1>2, <1>7 DEF PublicationInv, PublicationTypeOK, Assets
    <2>2. QED
      BY <1>2, <2>1 DEF Shown
  <1>8. Shown' = [Shown EXCEPT ![j] = {out}]
    BY <1>1, <1>6, <1>7 DEF Shown
  <1>9. QED
    BY <1>1, <1>2, <1>3, <1>4, <1>8

\* A retirement withdraws all an upload has to show.
LEMMA RetireWithdraws ==
  ASSUME PublicationInv, NEW a \in Assets, asset[a] = "approved",
         asset' = [asset EXCEPT ![a] = "deleting"], files' = files
  PROVE  /\ a[1] \in Jobs /\ Shown[a[1]] # {}
         /\ Shown' = [Shown EXCEPT ![a[1]] = {}]
  <1> DEFINE j == a[1]
  <1>1. j \in Jobs /\ a[2] \in Tokens /\ a = <<j, a[2]>>
    BY DEF Assets
  <1>2. Shown[j] # {}
    BY <1>1 DEF Shown
  <1>3. \A c \in {j} \X Tokens : asset'[c] # "approved"
    <2>1. \A t \in Tokens : asset[<<j, t>>] = "approved" => t = a[2]
      BY <1>1 DEF PublicationInv, JobInv
    <2>2. \A t \in Tokens : asset'[<<j, t>>] # "approved"
      BY <1>1, <2>1 DEF PublicationInv, PublicationTypeOK, Assets
    <2>3. QED
      BY <2>2
  <1>4. Shown'[j] = {}
    BY <1>1, <1>3 DEF Shown
  <1>5. ASSUME NEW i \in Jobs, i # j PROVE Shown'[i] = Shown[i]
    <2>1. {c \in {i} \X Tokens : asset'[c] = "approved"} = {c \in {i} \X Tokens : asset[c] = "approved"}
      BY <1>1, <1>5 DEF PublicationInv, PublicationTypeOK, Assets
    <2>2. QED
      BY <2>1 DEF Shown
  <1>6. QED
    BY <1>1, <1>2, <1>4, <1>5 DEF Shown

\* A step of the promise, or one that changes nothing to be seen.
ShowStep == \E j \in Jobs \ spent, d \in Digests :
    /\ Shown' = [Shown EXCEPT ![j] = {[v \in Variants |-> d]}]
    /\ spent' = spent \cup {j}

WithdrawStep == \E j \in Jobs :
    /\ Shown[j] # {} /\ Shown' = [Shown EXCEPT ![j] = {}]
    /\ spent' = spent

PromisedStep == ShowStep \/ WithdrawStep \/ (Shown' = Shown /\ spent' = spent)

LEMMA PromiseStep ==
  ASSUME PublicationInv, SpentInv, [PublicationNext]_allVars PROVE PromisedStep
  <1>t. PublicationTypeOK
    BY DEF PublicationInv
  <1>k. ASSUME spent' = spent,
               \A a \in Assets : asset'[a] = "approved" <=> asset[a] = "approved",
               \A a \in Assets : asset[a] = "approved" => files'[a] = files[a]
        PROVE  PromisedStep
    BY <1>k, ShownKept DEF PromisedStep
  <1> USE <1>t DEF PublicationTypeOK, assetVars, workVars, passVars
  <1>1. ASSUME NEW r \in Assets \X Paths, Approve(r) PROVE PromisedStep
    BY <1>1, ApproveShows DEF PromisedStep, ShowStep
  <1>2. ASSUME NEW p \in Coordinators, CoordinatorStep(p) PROVE PromisedStep
    <2>1. ASSUME NEW v \in Variants, Install(p, v), UNCHANGED spent,
                 Holding(p, "receipted") \/ Holding(p, "primary")
          PROVE  PromisedStep
      <3> DEFINE b == task[p]
      <3>1. b \in Assets /\ manifest[b] = result[p] /\ AssetInv(b)
        BY <2>1 DEF Holding, PublicationInv, WorkInv, CoordinatorInv, Stages, LockedStages
      <3>2. asset' = asset /\ files' = [files EXCEPT ![b] = [@ EXCEPT ![v] = result[p]]]
        BY <2>1 DEF Install
      <3>3. asset[b] = "approved" => files[b][v] = result[p]
        BY <3>1 DEF AssetInv
      <3>4. files[b] \in [Variants -> Digests \cup {NoDigest}]
        BY <3>1
      <3>5. asset[b] = "approved" => files'[b] = files[b]
        BY <3>1, <3>2, <3>3, <3>4
      <3>6. \A a \in Assets : asset[a] = "approved" => files'[a] = files[a]
        BY <3>1, <3>2, <3>5
      <3>7. QED
        BY <1>k, <2>1, <3>2, <3>6
    <2>2. CASE InstallPrimary(p) \/ InstallThumbnail(p)
      BY <2>1, <2>2 DEF InstallPrimary, InstallThumbnail, Install, Variants
    <2>3. CASE Prepare(p)
      BY <1>k, <2>3 DEF Prepare
    <2>4. QED
      BY <1>2, <1>k, <2>2, <2>3
      DEF CoordinatorStep, Take, PublishByHand, ExtendStillLease, Process, TryLock, Leave, Done,
          RecordReceipt, SendApproval
  <1>3. ASSUME NEW a \in Assets, Retire(a) PROVE PromisedStep
    <2>1. CASE asset' = asset
      BY <1>3, <1>k, <2>1 DEF Retire
    <2>2. CASE asset[a] = "approved" /\ asset' = [asset EXCEPT ![a] = "deleting"]
      <3>1. files' = files /\ spent' = spent
        BY <1>3 DEF Retire
      <3>2. QED
        BY <2>2, <3>1, RetireWithdraws DEF PromisedStep, WithdrawStep
    <2>3. QED
      BY <1>3, <2>1, <2>2 DEF Retire
  <1>4. ASSUME NEW a \in Assets, BeginDeletion(a) PROVE PromisedStep
    BY <1>4, <1>k DEF BeginDeletion, Abandoned
  <1>5. CASE RemovePrimary \/ RemoveThumbnail \/ ForgetOutput
    BY <1>5, <1>k DEF RemovePrimary, RemoveThumbnail, Remove, ForgetOutput, PublicationInv, PassInv
  <1>6. CASE LockPass \/ ListAbandoned \/ FinishPass \/ AbortPass
    BY <1>6, <1>k DEF LockPass, ListAbandoned, FinishPass, AbortPass, EndPass
  <1>7. ASSUME NEW r \in Assets \X Paths, DropRequest(r) PROVE PromisedStep
    BY <1>7, <1>k DEF DropRequest
  <1>8. CASE QueueStep \/ UNCHANGED allVars \/ \E j \in Jobs : ClaimByHand(j)
    BY <1>8, <1>k DEF QueueStep, allVars, publicationVars, ClaimByHand
  <1>9. QED
    BY <1>1, <1>2, <1>3, <1>4, <1>5, <1>6, <1>7, <1>8 DEF PublicationNext, PassStep, DatabaseStep

\* What the public sees of an upload is MediaPromise: one complete output at
\* most, once, and nothing after its withdrawal.
THEOREM PublicationKeepsPromise == PublicationSpec => KeepsPromise
  <1>1. PublicationInit => Promise!PromiseInit /\ SpentInv
    <2> SUFFICES ASSUME PublicationInit PROVE Promise!PromiseInit /\ SpentInv
      OBVIOUS
    <2>1. \A j \in Jobs : {b \in {j} \X Tokens : asset[b] = "approved"} = {}
      BY DEF PublicationInit, Assets
    <2>2. \A j \in Jobs : {files[a] : a \in {b \in {j} \X Tokens : asset[b] = "approved"}} = {}
      BY <2>1
    <2>3. QED
      BY <2>2 DEF PublicationInit, Promise!PromiseInit, SpentInv
  <1>2. PublicationInv /\ SpentInv /\ [PublicationNext]_allVars
        => [Promise!PromiseNext]_Promise!promiseVars
    BY PromiseStep
    DEF PromisedStep, ShowStep, WithdrawStep, Promise!PromiseNext, Promise!Show, Promise!Withdraw, Promise!promiseVars, Shown
  <1>3. PublicationInv /\ SpentInv /\ [PublicationNext]_allVars => SpentInv'
    BY SpentStep
  <1>4. QED
    BY <1>1, <1>2, <1>3, PublicationInvariant, PTL
    DEF PublicationSpec, KeepsPromise, Promise!PromiseSpec
=============================================================================
