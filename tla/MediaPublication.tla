-------------------------- MODULE MediaPublication --------------------------
(***************************************************************************)
(* How a processed upload becomes a public file (apps/media-admin, the     *)
(* asset half of crates/store, crates/media/publication.rs).  Coordinators *)
(* claim a job, have it processed, take the file lock of the publication   *)
(* directory, reserve an asset row, record the receipt of the input,       *)
(* install the files and approve row and job in one transaction.  Under    *)
(* the same lock the operator's reconcile pass retires what no post shows, *)
(* removes the files of abandoned reservations and forgets their rows.     *)
(* Between two calls anything may happen: a crash, an expiry, a step of    *)
(* another process, a late commit of a transaction nobody waits for.       *)
(*                                                                         *)
(* An asset is named <<job, token>>, the UNIQUE key of media.assets.  What *)
(* a manifest says of its output is one of Digests.  Of the files of an    *)
(* object, the primary image and the thumbnail stand for all variants.     *)
(***************************************************************************)
EXTENDS MediaQueue

CONSTANTS
    Coordinators,   \* processes of media-publish
    Reconciler,     \* the process of media-publish reconcile
    Nobody          \* the lock file is free

ASSUME PublicationAssumption ==
    /\ Reconciler \notin Coordinators
    /\ Nobody \notin Coordinators \cup {Reconciler}

VARIABLES
    asset,      \* media.assets.state; "none" before INSERT, "forgotten" after DELETE
    manifest,   \* the output an asset row describes
    receipt,    \* media.input_receipts has a row for the asset
    files,      \* the bytes installed under each name of an object
    holder,     \* who holds .publication.lock
    stage,      \* how far a coordinator is
    task,       \* the asset a coordinator works for
    path,       \* the function that publishes it
    result,     \* the output it received
    requests,   \* approvals sent to the database and not yet decided
    leaseFiles, \* leases the operator holds in a file for publishing by hand
    pass,       \* how far the reconcile pass is
    todo,       \* the candidates it read and has not looked at yet
    victim,     \* the asset whose files it removes
    spent       \* history: the jobs whose output was ever approved

assetVars == <<asset, manifest, receipt>>
workVars == <<stage, task, path, result, leaseFiles>>
passVars == <<pass, todo, victim>>
publicationVars == <<assetVars, files, holder, workVars, requests, passVars, spent>>
allVars == <<queueVars, publicationVars>>

Assets == Jobs \X Tokens
Variants == {"primary", "thumbnail"}
AssetStates == {"none", "pending", "approved", "deleting", "forgotten"}
Paths == {"plain", "still", "drawing", "manual"}
Stages == {"idle", "working", "extended", "processed", "locked", "reserved", "receipted",
           "primary", "complete", "approving"}
LockedStages == Stages \ {"idle", "working", "extended", "processed"}
Passes == {"idle", "retiring", "cleaning", "removing", "halfway", "removed"}
NoAsset == <<"none", 0>>
NoFiles == [v \in Variants |-> NoDigest]

LiveAsset(a) == LiveLease(a[1], a[2])

\* Fault: a deletion that was cut off is not taken up again.
AbandonedPending(a) == asset[a] = "pending" /\ ~LiveAsset(a)

\* Nobody can approve the reservation any more: its lease is not the running
\* one.  The WHERE clause of the candidate list and of its recheck.
Abandoned(a) == asset[a] = "deleting" \/ (asset[a] = "pending" /\ ~LiveAsset(a))

PublicationInit ==
    /\ QueueInit
    /\ asset = [a \in Assets |-> "none"]
    /\ manifest = [a \in Assets |-> NoDigest]
    /\ receipt = [a \in Assets |-> FALSE]
    /\ files = [a \in Assets |-> NoFiles]
    /\ holder = Nobody
    /\ stage = [p \in Coordinators |-> "idle"]
    /\ task = [p \in Coordinators |-> NoAsset]
    /\ path = [p \in Coordinators |-> "plain"]
    /\ result = [p \in Coordinators |-> NoDigest]
    /\ requests = {}
    /\ leaseFiles = {}
    /\ pass = "idle"
    /\ todo = {}
    /\ victim = NoAsset
    /\ spent = {}

-----------------------------------------------------------------------------
(* A coordinator before publication. *)

Go(p, s) == stage' = [stage EXCEPT ![p] = s]

\* dispatch and dispatch-drawing claim the oldest queued job of their kind.
Take(p, j, how) ==
    /\ stage[p] = "idle"
    /\ \/ how \in {"plain", "still"} /\ kind[j] = "image"
       \/ how = "drawing" /\ kind[j] = "drawing"
    /\ Claim(j)
    /\ Go(p, "working")
    /\ task' = [task EXCEPT ![p] = <<j, attempts[j] + 1>>]
    /\ path' = [path EXCEPT ![p] = how]
    /\ UNCHANGED <<assetVars, files, holder, result, leaseFiles, requests, passVars, spent>>

\* `media-publish claim' leaves the lease in a file, unless it dies first.
ClaimByHand(j) ==
    /\ kind[j] = "image"
    /\ Claim(j)
    /\ leaseFiles' \in {leaseFiles, leaseFiles \cup {<<j, attempts[j] + 1>>}}
    /\ UNCHANGED <<assetVars, files, holder, stage, task, path, result, requests, passVars, spent>>

\* `media-publish publish' may be run again and again with one lease file,
\* each time with whatever output disk the operator passes.
PublishByHand(p, a, d) ==
    /\ stage[p] = "idle" /\ a \in leaseFiles
    /\ Go(p, "processed")
    /\ task' = [task EXCEPT ![p] = a]
    /\ path' = [path EXCEPT ![p] = "manual"]
    /\ result' = [result EXCEPT ![p] = d]
    /\ UNCHANGED <<queueVars, assetVars, files, holder, leaseFiles, requests, passVars, spent>>

\* extend_still_lease: a still image gets 90 seconds before it is sent.
ExtendStillLease(p) ==
    LET a == task[p] IN
    /\ stage[p] = "working" /\ path[p] = "still" /\ LiveAsset(a)
    /\ Touch(a[1])
    /\ Go(p, "extended")
    /\ UNCHANGED <<kind, state, attempts, lease, failure, output>>
    /\ UNCHANGED <<assetVars, files, holder, task, path, result, leaseFiles, requests, passVars, spent>>

\* The guest answered and its output passed validation.
Process(p, d) ==
    /\ stage[p] = IF path[p] = "still" THEN "extended" ELSE "working"
    /\ Go(p, "processed")
    /\ result' = [result EXCEPT ![p] = d]
    /\ UNCHANGED <<queueVars, assetVars, files, holder, task, path, leaseFiles, requests, passVars, spent>>

\* store.try_lock() never waits: a held lock is an error (see Leave).
TryLock(p) ==
    /\ stage[p] = "processed" /\ holder = Nobody
    /\ holder' = p
    /\ Go(p, "locked")
    /\ UNCHANGED <<queueVars, assetVars, files, task, path, result, leaseFiles, requests, passVars, spent>>

\* The guard is dropped with the coordinator's frame, and all it knew.
Return(p) ==
    /\ holder' = IF holder = p THEN Nobody ELSE holder
    /\ stage' = [stage EXCEPT ![p] = "idle"]
    /\ task' = [task EXCEPT ![p] = NoAsset]
    /\ path' = [path EXCEPT ![p] = "plain"]
    /\ result' = [result EXCEPT ![p] = NoDigest]
    /\ UNCHANGED leaseFiles

\* An error returns through every caller, or the process dies.  Before
\* publication started an error fails the lease; afterwards only the still
\* path fails it, whatever became of the approval.  A refused or lost failure
\* is ignored.
Leave(p) ==
    LET a == task[p] IN
    /\ stage[p] # "idle"
    /\ Return(p)
    /\ \/ /\ stage[p] = "working" \/ path[p] = "still"
          /\ \E why \in {"processing_failed", "invalid_output"} : Fail(a[1], a[2], why, FALSE)
       \/ UNCHANGED queueVars
    /\ UNCHANGED <<assetVars, files, requests, passVars, spent>>

-----------------------------------------------------------------------------
(* Publication, under the lock. *)

Holding(p, s) == stage[p] = s /\ holder = p

\* Fault: a reservation is reused without comparing its manifest.
PrepareAnyManifest(p) ==
    LET a == task[p] IN
    /\ Holding(p, "locked")
    /\ \/ asset[a] = "approved" /\ path[p] # "drawing" /\ UNCHANGED assetVars
       \/ asset[a] = "pending" /\ LiveAsset(a) /\ UNCHANGED assetVars
       \/ /\ asset[a] \in {"none", "forgotten"} /\ LiveAsset(a)
          /\ asset' = [asset EXCEPT ![a] = "pending"]
          /\ manifest' = [manifest EXCEPT ![a] = result[p]]
          /\ UNCHANGED receipt
    /\ Go(p, "reserved")
    /\ UNCHANGED <<queueVars, files, holder, task, path, result, leaseFiles, requests, passVars, spent>>

\* prepare_*_output inserts the row under a live lease, or finds the row of
\* an earlier try with the same manifest.  A lost answer is Leave afterwards.
Prepare(p) ==
    LET a == task[p]
        same == manifest[a] = result[p]
    IN
    /\ Holding(p, "locked")
    /\ \/ asset[a] = "approved" /\ same /\ path[p] # "drawing" /\ UNCHANGED assetVars
       \/ asset[a] = "pending" /\ same /\ LiveAsset(a) /\ UNCHANGED assetVars
       \/ /\ asset[a] \in {"none", "forgotten"} /\ LiveAsset(a)
          /\ asset' = [asset EXCEPT ![a] = "pending"]
          /\ manifest' = [manifest EXCEPT ![a] = result[p]]
          /\ UNCHANGED receipt
    /\ Go(p, "reserved")
    /\ UNCHANGED <<queueVars, files, holder, task, path, result, leaseFiles, requests, passVars, spent>>

\* record_input_receipt; publishing by hand has no input to vouch for.
RecordReceipt(p) ==
    LET a == task[p] IN
    /\ Holding(p, "reserved")
    /\ IF path[p] = "manual" THEN UNCHANGED receipt
       ELSE \/ asset[a] = "approved" /\ receipt[a] /\ UNCHANGED receipt
            \/ /\ asset[a] = "pending" /\ LiveAsset(a)
               /\ receipt' = [receipt EXCEPT ![a] = TRUE]
    /\ Go(p, "receipted")
    /\ UNCHANGED <<queueVars, asset, manifest, files, holder, task, path, result, leaseFiles, requests, passVars, spent>>

\* install: bytes that are already there must be the same bytes.
Install(p, v) ==
    LET a == task[p] IN
    /\ files[a][v] \in {NoDigest, result[p]}
    /\ files' = [files EXCEPT ![a][v] = result[p]]
    /\ UNCHANGED <<queueVars, assetVars, holder, task, path, result, leaseFiles, requests, passVars, spent>>

InstallPrimary(p) == Holding(p, "receipted") /\ Install(p, "primary") /\ Go(p, "primary")

InstallThumbnail(p) == Holding(p, "primary") /\ Install(p, "thumbnail") /\ Go(p, "complete")

\* Fault: the approval is sent before the thumbnail is in place.
SendApprovalEarly(p) ==
    /\ Holding(p, "primary")
    /\ Go(p, "approving")
    /\ requests' = requests \cup {<<task[p], path[p]>>}
    /\ UNCHANGED <<queueVars, assetVars, files, holder, task, path, result, leaseFiles, passVars, spent>>

\* approve_*_output is a transaction of its own: it may commit after its
\* sender died or gave up waiting (80 seconds on the still path).
SendApproval(p) ==
    /\ Holding(p, "complete")
    /\ Go(p, "approving")
    /\ requests' = requests \cup {<<task[p], path[p]>>}
    /\ UNCHANGED <<queueVars, assetVars, files, holder, task, path, result, leaseFiles, passVars, spent>>

\* Fault: the asset is approved beside its job, not with it.
ApproveAlone(r) ==
    LET a == r[1] IN
    /\ r \in requests
    /\ asset[a] = "pending"
    /\ asset' = [asset EXCEPT ![a] = "approved"]
    /\ spent' = spent \cup {a[1]}
    /\ requests' = requests \ {r}
    /\ UNCHANGED <<queueVars, manifest, receipt, files, holder, workVars, passVars>>

\* Asset and job change together under both row locks, or not at all.
Approve(r) ==
    LET a == r[1] IN
    /\ r \in requests
    /\ asset[a] = "pending"
    /\ r[2] # "manual" => receipt[a]
    /\ Complete(a[1], a[2], manifest[a])
    /\ asset' = [asset EXCEPT ![a] = "approved"]
    /\ spent' = spent \cup {a[1]}
    /\ requests' = requests \ {r}
    /\ UNCHANGED <<manifest, receipt, files, holder, workVars, passVars>>

\* The transaction is refused, lost, or finds the asset approved already.
DropRequest(r) ==
    /\ r \in requests
    /\ requests' = requests \ {r}
    /\ UNCHANGED <<queueVars, assetVars, files, holder, workVars, passVars, spent>>

\* The coordinator hears that its output is approved, and unlocks.
Done(p) ==
    /\ Holding(p, "approving")
    /\ <<task[p], path[p]>> \notin requests
    /\ asset[task[p]] = "approved"
    /\ Return(p)
    /\ UNCHANGED <<queueVars, assetVars, files, requests, passVars, spent>>

-----------------------------------------------------------------------------
(* The reconcile pass. *)

LockPass ==
    /\ holder = Nobody /\ pass = "idle"
    /\ holder' = Reconciler
    /\ pass' = "retiring"
    /\ todo' = {a \in Assets : asset[a] = "approved"}
    /\ UNCHANGED <<queueVars, assetVars, files, workVars, requests, victim, spent>>

\* retire_output looks again under the job's lock whether a post shows the
\* file or may still claim it: PostAttachment decides, here either may be.
Retire(a) ==
    /\ pass = "retiring" /\ a \in todo
    /\ todo' = todo \ {a}
    /\ asset' \in {asset, [asset EXCEPT ![a] = IF @ = "approved" THEN "deleting" ELSE @]}
    /\ UNCHANGED <<queueVars, manifest, receipt, files, holder, workVars, requests, pass, victim, spent>>

\* output_cleanup_candidates, read without a lock on any row.
ListAbandoned ==
    /\ pass = "retiring" /\ todo = {}
    /\ pass' = "cleaning"
    /\ todo' = {a \in Assets : Abandoned(a)}
    /\ UNCHANGED <<queueVars, assetVars, files, holder, workVars, requests, victim, spent>>

\* Fault: the pass decides as the list does, and does not mark the row.
BeginDeletionUnmarked(a) ==
    /\ pass = "cleaning" /\ a \in todo
    /\ todo' = todo \ {a}
    /\ IF Abandoned(a)
         THEN pass' = "removing" /\ victim' = a /\ UNCHANGED asset
         ELSE UNCHANGED <<asset, pass, victim>>
    /\ UNCHANGED <<queueVars, manifest, receipt, files, holder, workVars, requests, spent>>

\* begin_output_deletion checks again under both row locks.
BeginDeletion(a) ==
    /\ pass = "cleaning" /\ a \in todo
    /\ todo' = todo \ {a}
    /\ IF Abandoned(a)
         THEN pass' = "removing" /\ victim' = a /\ asset' = [asset EXCEPT ![a] = "deleting"]
         ELSE UNCHANGED <<asset, pass, victim>>
    /\ UNCHANGED <<queueVars, manifest, receipt, files, holder, workVars, requests, spent>>

\* guard.remove unlinks every name in turn, then syncs the directory.
Remove(v) ==
    /\ files' = [files EXCEPT ![victim][v] = NoDigest]
    /\ UNCHANGED <<queueVars, assetVars, holder, workVars, requests, todo, victim, spent>>

RemovePrimary == pass = "removing" /\ Remove("primary") /\ pass' = "halfway"

RemoveThumbnail == pass = "halfway" /\ Remove("thumbnail") /\ pass' = "removed"

\* Fault: the row goes before the thumbnail does.
ForgetOutputEarly ==
    /\ pass \in {"halfway", "removed"}
    /\ asset' = [asset EXCEPT ![victim] = "forgotten"]
    /\ manifest' = [manifest EXCEPT ![victim] = NoDigest]
    /\ receipt' = [receipt EXCEPT ![victim] = FALSE]
    /\ pass' = "cleaning" /\ victim' = NoAsset
    /\ UNCHANGED <<queueVars, files, holder, workVars, requests, todo, spent>>

\* forget_output deletes the row, and its receipt with it.
ForgetOutput ==
    /\ pass = "removed"
    /\ IF asset[victim] = "deleting"
         THEN /\ asset' = [asset EXCEPT ![victim] = "forgotten"]
              /\ manifest' = [manifest EXCEPT ![victim] = NoDigest]
              /\ receipt' = [receipt EXCEPT ![victim] = FALSE]
         ELSE UNCHANGED assetVars
    /\ pass' = "cleaning" /\ victim' = NoAsset
    /\ UNCHANGED <<queueVars, files, holder, workVars, requests, todo, spent>>

EndPass ==
    /\ holder' = Nobody /\ pass' = "idle" /\ todo' = {} /\ victim' = NoAsset
    /\ UNCHANGED <<queueVars, assetVars, files, workVars, requests, spent>>

FinishPass == pass = "cleaning" /\ todo = {} /\ EndPass

\* Any error or crash ends the pass where it is; the lock goes with it.
AbortPass == pass # "idle" /\ EndPass

-----------------------------------------------------------------------------
CoordinatorStep(p) ==
    \/ \E j \in Jobs, how \in Paths : Take(p, j, how)
    \/ \E a \in Assets, d \in Digests : PublishByHand(p, a, d)
    \/ ExtendStillLease(p)
    \/ \E d \in Digests : Process(p, d)
    \/ TryLock(p) \/ Leave(p)
    \/ Prepare(p) \/ RecordReceipt(p) \/ InstallPrimary(p) \/ InstallThumbnail(p)
    \/ SendApproval(p) \/ Done(p)

DatabaseStep == \E r \in Assets \X Paths : Approve(r) \/ DropRequest(r)

PassStep ==
    \/ LockPass \/ ListAbandoned \/ FinishPass
    \/ \E a \in Assets : Retire(a) \/ BeginDeletion(a)
    \/ RemovePrimary \/ RemoveThumbnail \/ ForgetOutput

\* The rest of the queue: uploads, qualification runs, cleanup, time.
QueueStep ==
    /\ \/ IntakeStep \/ CleanupStep
       \/ \E j \in Jobs : Elapse(j) \/ (kind[j] = "candidate" /\ Claim(j))
       \/ \E j \in Jobs, t \in Tokens, why \in Failures : FinishCandidate(j, t, why)
    /\ UNCHANGED publicationVars

PublicationNext ==
    \/ \E p \in Coordinators : CoordinatorStep(p)
    \/ \E j \in Jobs : ClaimByHand(j)
    \/ DatabaseStep \/ PassStep \/ AbortPass \/ QueueStep

PublicationSpec == PublicationInit /\ [][PublicationNext]_allVars

\* Operators rerun the pass until it gets through, nobody keeps the lock, and
\* a pass that is cut off again and again is not always cut off at one point.
FairPublicationSpec ==
    /\ PublicationSpec
    /\ \A j \in Jobs : WF_allVars(Elapse(j) /\ UNCHANGED publicationVars)
    /\ \A p \in Coordinators : WF_allVars(Leave(p) \/ Done(p))
    /\ \A r \in Assets \X Paths : WF_allVars(Approve(r) \/ DropRequest(r))
    /\ SF_allVars(LockPass)
    /\ \A a \in Assets : SF_allVars(Retire(a)) /\ SF_allVars(BeginDeletion(a))
    /\ SF_allVars(ListAbandoned)
    /\ SF_allVars(RemovePrimary)
    /\ SF_allVars(RemoveThumbnail)
    /\ SF_allVars(ForgetOutput)
    /\ WF_allVars(FinishPass)

-----------------------------------------------------------------------------
\* Every variable has a value of its domain.
PublicationTypeOK ==
    /\ QueueTypeOK
    /\ asset \in [Assets -> AssetStates]
    /\ manifest \in [Assets -> Digests \cup {NoDigest}]
    /\ receipt \in [Assets -> BOOLEAN]
    /\ files \in [Assets -> [Variants -> Digests \cup {NoDigest}]]
    /\ holder \in Coordinators \cup {Reconciler, Nobody}
    /\ stage \in [Coordinators -> Stages]
    /\ task \in [Coordinators -> Assets \cup {NoAsset}]
    /\ path \in [Coordinators -> Paths]
    /\ result \in [Coordinators -> Digests \cup {NoDigest}]
    /\ requests \in SUBSET (Assets \X Paths)
    /\ leaseFiles \in SUBSET Assets
    /\ pass \in Passes
    /\ todo \in SUBSET Assets
    /\ victim \in Assets \cup {NoAsset}
    /\ spent \in SUBSET Jobs

\* The bytes of a variant are there and are the ones the row promises.
Installed(a, v) == files[a][v] = manifest[a] /\ manifest[a] # NoDigest

\* A reader who finds an asset approved finds all its files, with the bytes
\* the row describes: an approval that commits after its coordinator died
\* included (lib.rs:412-465, approve_output_checked).
ApprovedIsComplete == \A a \in Assets :
    asset[a] = "approved" => \A v \in Variants : Installed(a, v)

\* Every file of the store is named by a row that the pass can find, so none
\* is left behind unlisted (docs/media-approval.md:9), wherever a publisher
\* or a pass was cut off.
NoUntrackedFile == \A a \in Assets, v \in Variants :
    files[a][v] # NoDigest => asset[a] \notin {"none", "forgotten"} /\ Installed(a, v)

\* Job and asset agree although they live and die apart: a published job has
\* exactly the asset of its lease, approved or retired since, and no asset is
\* approved for a job that did not publish it.
JobAndAssetAgree == \A j \in Jobs :
    /\ state[j] = "published" =>
         /\ asset[<<j, lease[j]>>] \in {"approved", "deleting", "forgotten"}
         /\ asset[<<j, lease[j]>>] # "forgotten" => output[j] = manifest[<<j, lease[j]>>]
    /\ \A t \in Tokens : asset[<<j, t>>] = "approved" =>
         /\ state[j] \in {"published", "forgotten"}
         /\ \A u \in Tokens \ {t} : asset[<<j, u>>] # "approved"

\* What a coordinator established under the lock still holds when it acts on
\* it: the row stands with its manifest, the receipt is recorded, the files
\* written so far are in place.  Only the lock keeps the pass from undoing it.
CoordinatorIsRight == \A p \in Coordinators :
    LET a == task[p] IN
    /\ stage[p] \in LockedStages => holder = p
    /\ stage[p] \in LockedStages \ {"locked"} =>
         asset[a] \in {"pending", "approved"} /\ manifest[a] = result[p]
    /\ stage[p] \in LockedStages \ {"locked", "reserved"} => path[p] = "manual" \/ receipt[a]
    /\ stage[p] \in {"primary", "complete", "approving"} => Installed(a, "primary")
    /\ stage[p] \in {"complete", "approving"} => Installed(a, "thumbnail")

\* "Approved or currently leased objects must never reach here": while remove
\* works on an object its row is marked deleting, no lease runs for it, and an
\* approval still under way can only be refused (publication.rs:409-411).
RemovalIsSafe ==
    pass \in {"removing", "halfway", "removed"} =>
        asset[victim] = "deleting" /\ ~LiveAsset(victim)

\* The lock file names the one process that is under the lock.
LockInv ==
    /\ \A p \in Coordinators : stage[p] \in LockedStages <=> holder = p
    /\ pass # "idle" <=> holder = Reconciler

\* A coordinator that works has a task, and one that publishes an output.
WorkInv == \A p \in Coordinators :
    /\ stage[p] # "idle" => task[p] \in Assets
    /\ stage[p] \in LockedStages \cup {"processed"} => result[p] \in Digests

\* An asset that is being deleted is past saving: its lease never runs again.
AssetInv(a) ==
    /\ asset[a] \in {"none", "forgotten"} =>
         manifest[a] = NoDigest /\ \A v \in Variants : files[a][v] = NoDigest
    /\ asset[a] \in {"pending", "approved", "deleting"} =>
         manifest[a] \in Digests /\ \A v \in Variants : files[a][v] \in {NoDigest, manifest[a]}
    /\ asset[a] = "approved" => \A v \in Variants : files[a][v] = manifest[a]
    /\ asset[a] # "none" => a[2] <= attempts[a[1]]
    /\ asset[a] \in {"deleting", "forgotten"} => ~LiveAsset(a)
    /\ asset[a] = "approved" => state[a[1]] \in {"published", "forgotten"}

\* What a coordinator established under the lock.
CoordinatorInv(p) ==
    LET a == task[p] IN
    /\ stage[p] \in LockedStages \ {"locked"} =>
         asset[a] \in {"pending", "approved"} /\ manifest[a] = result[p]
    /\ stage[p] \in LockedStages \ {"locked", "reserved"} => path[p] = "manual" \/ receipt[a]
    /\ stage[p] \in {"primary", "complete", "approving"} => files[a]["primary"] = result[p]
    /\ stage[p] \in {"complete", "approving"} => files[a]["thumbnail"] = result[p]

\* An approval under way finds all the files, or a row it cannot approve.
RequestInv == \A r \in requests :
    /\ asset[r[1]] # "none"
    /\ asset[r[1]] = "pending" => \A v \in Variants : files[r[1]][v] = manifest[r[1]]

\* The pass works on a row marked deleting, and what it removed is gone.
PassInv ==
    /\ pass \in {"removing", "halfway", "removed"} => victim \in Assets /\ asset[victim] = "deleting"
    /\ pass \in {"halfway", "removed"} => files[victim]["primary"] = NoDigest
    /\ pass = "removed" => files[victim]["thumbnail"] = NoDigest

\* Job and asset, one job at a time.
JobInv(j) ==
    /\ state[j] = "published" =>
         /\ asset[<<j, lease[j]>>] \in {"approved", "deleting", "forgotten"}
         /\ asset[<<j, lease[j]>>] # "forgotten" => output[j] = manifest[<<j, lease[j]>>]
    /\ \A t, u \in Tokens :
         asset[<<j, t>>] = "approved" /\ asset[<<j, u>>] = "approved" => t = u

\* The inductive invariant: the lock, what was established under it, the files
\* of every row and every approval under way agree.
PublicationInv ==
    /\ QueueInv
    /\ PublicationTypeOK
    /\ LockInv
    /\ WorkInv
    /\ \A a \in Assets : AssetInv(a)
    /\ \A p \in Coordinators : CoordinatorInv(p)
    /\ RequestInv
    /\ PassInv
    /\ \A j \in Jobs : JobInv(j)

\* A reservation never waits for ever: it is approved, or a pass removes its
\* files and forgets it, however often coordinators and passes are cut off.
ReservationsEnd == \A a \in Assets :
    asset[a] \in {"pending", "deleting"} ~> asset[a] \in {"approved", "forgotten"}

-----------------------------------------------------------------------------
\* What the public sees of a job: the bytes of its approved outputs.
Promise == INSTANCE MediaPromise WITH
    shown <- [j \in Jobs |-> {files[a] : a \in {b \in {j} \X Tokens : asset[b] = "approved"}}]

\* Publication keeps the promise: one complete output at most, once, and
\* after its withdrawal nothing.
KeepsPromise == Promise!PromiseSpec
=============================================================================
