---------------------------- MODULE MediaIntake ----------------------------
(***************************************************************************)
(* How an upload becomes a queued job, and how its private file goes away  *)
(* again (apps/media-intake, `media-admin intake' and `media-admin         *)
(* cleanup', crates/media/quarantine.rs).  A receiver claims the           *)
(* reservation, writes <id>.part, links it to <id>.input and asks the      *)
(* database to queue the job.  A handler may be cancelled at every await,  *)
(* a process may die anywhere, and a statement whose sender is gone may    *)
(* still commit.  A day after a job has settled, the cleanup command       *)
(* removes both files and then the row.                                    *)
(*                                                                         *)
(* The bytes of a file are named by the receiver that wrote them.  The     *)
(* admission is MediaQueue's Reserve, the workers are MediaQueue's.        *)
(***************************************************************************)
EXTENDS MediaQueue

CONSTANTS
    Receivers,  \* upload handlers of the intake server and runs of `media-admin intake'
    NoBytes,    \* there is no such file, NULL
    NoJob       \* nothing was received or removed yet

ASSUME IntakeAssumption == NoBytes \notin Receivers /\ NoJob \notin Jobs

VARIABLES
    handle,     \* media_intake.handles: no row, reserved, or upload_started_at set
    described,  \* the bytes input_bytes and input_sha256 of the row tell of
    part,       \* <id>.part in the quarantine
    input,      \* <id>.input in the quarantine
    stage,      \* how far a receiver is
    task,       \* the job it receives
    operator,   \* it is `media-admin intake', not a handler of the server
    finishing,  \* finish_upload sent and not decided, with the bytes it describes
    aborting,   \* abort_upload or abort_intake sent and not decided
    sweep,      \* how far the cleanup command is
    todo,       \* the candidates it has still to look at
    victim      \* the job whose files it removes

fileVars == <<part, input>>
receiverVars == <<stage, task, operator>>
requestVars == <<finishing, aborting>>
sweepVars == <<sweep, todo, victim>>
vars == <<queueVars, handle, described, fileVars, receiverVars, requestVars, sweepVars>>

Bytes == Receivers \cup {NoBytes}
Handles == {"none", "reserved", "started"}
Stages == {"idle", "begun", "writing", "linked", "stored", "failing"}
Sweeps == {"idle", "listed", "halfway", "removed"}
Receiving(u, j) == stage[u] # "idle" /\ task[u] = j

Sender(u) == IF operator[u] THEN "operator" ELSE "web"

IntakeInit ==
    /\ QueueInit
    /\ handle = [j \in Jobs |-> "none"]
    /\ described = [j \in Jobs |-> NoBytes]
    /\ part = [j \in Jobs |-> NoBytes]
    /\ input = [j \in Jobs |-> NoBytes]
    /\ stage = [u \in Receivers |-> "idle"]
    /\ task = [u \in Receivers |-> NoJob]
    /\ operator = [u \in Receivers |-> FALSE]
    /\ finishing = {}
    /\ aborting = {}
    /\ sweep = "idle"
    /\ todo = {}
    /\ victim = NoJob

Go(u, s) ==
    /\ stage' = [stage EXCEPT ![u] = s]
    /\ UNCHANGED <<task, operator>>

Start(u, j, byOperator) ==
    /\ stage' = [stage EXCEPT ![u] = "begun"]
    /\ task' = [task EXCEPT ![u] = j]
    /\ operator' = [operator EXCEPT ![u] = byOperator]

Stop(dead) ==
    /\ stage' = [u \in Receivers |-> IF u \in dead THEN "idle" ELSE stage[u]]
    /\ task' = [u \in Receivers |-> IF u \in dead THEN NoJob ELSE task[u]]
    /\ operator' = [u \in Receivers |-> operator[u] /\ u \notin dead]

\* Drop of PartialFile: the name is unlinked if the file system lets it.
DropPart(j) == part' \in {part, [part EXCEPT ![j] = NoBytes]}

-----------------------------------------------------------------------------
(* The server: a reservation, and the claim of its upload. *)

\* The transaction that inserts the row inserts the handle as well.
ReserveUpload(j, k) ==
    /\ Reserve(j, k)
    /\ handle' = [handle EXCEPT ![j] = "reserved"]
    /\ UNCHANGED <<described, fileVars, receiverVars, requestVars, sweepVars>>

\* Fault: the claim does not look whether an upload has started.
BeginAgain(u, j) ==
    /\ stage[u] = "idle" /\ handle[j] # "none"
    /\ state[j] = "receiving" /\ ~due[j]
    /\ handle' = [handle EXCEPT ![j] = "started"]
    /\ Start(u, j, FALSE)
    /\ UNCHANGED <<queueVars, described, fileVars, requestVars, sweepVars>>

\* begin_upload, begin_pair_upload and begin_drawing_upload: whoever presents
\* the capability first, under the locks of the row and the handle.
BeginUpload(u, j) ==
    /\ stage[u] = "idle" /\ handle[j] = "reserved"
    /\ state[j] = "receiving" /\ ~due[j]
    /\ handle' = [handle EXCEPT ![j] = "started"]
    /\ Start(u, j, FALSE)
    /\ UNCHANGED <<queueVars, described, fileVars, requestVars, sweepVars>>

\* `media-admin intake' reserves a job without a handle and receives at once.
OperatorIntake(u, j) ==
    /\ stage[u] = "idle"
    /\ Reserve(j, "image")
    /\ Start(u, j, TRUE)
    /\ UNCHANGED <<handle, described, fileVars, requestVars, sweepVars>>

-----------------------------------------------------------------------------
(* Receiving the bytes. *)

\* <id>.part is created exclusively.
CreatePart(u) ==
    /\ stage[u] = "begun" /\ part[task[u]] = NoBytes
    /\ part' = [part EXCEPT ![task[u]] = u]
    /\ Go(u, "writing")
    /\ UNCHANGED <<queueVars, handle, described, input, requestVars, sweepVars>>

\* The file cannot be created, or the body breaks off, is empty, too large,
\* not a pair, or takes 15 seconds.
ReceiveFails(u) ==
    /\ stage[u] \in {"begun", "writing"}
    /\ IF stage[u] = "writing" THEN DropPart(task[u]) ELSE UNCHANGED part
    /\ Go(u, "failing")
    /\ UNCHANGED <<queueVars, handle, described, input, requestVars, sweepVars>>

\* sync_all and hard_link, which replaces nothing.
LinkInput(u) ==
    /\ stage[u] = "writing" /\ input[task[u]] = NoBytes
    /\ input' = [input EXCEPT ![task[u]] = u]
    /\ Go(u, "linked")
    /\ UNCHANGED <<queueVars, handle, described, part, requestVars, sweepVars>>

\* The guard removes <id>.part.  receive_pair synchronizes the directory
\* first; if that fails, the receive fails although <id>.input is there.
ClosePart(u) ==
    /\ stage[u] = "linked"
    /\ DropPart(task[u])
    /\ \/ Go(u, "stored")
       \/ kind[task[u]] # "image" /\ Go(u, "failing")
    /\ UNCHANGED <<queueVars, handle, described, input, requestVars, sweepVars>>

\* The handler sends its last statement; what comes of it changes nothing
\* but the answer.
SendFinish(u) ==
    /\ stage[u] = "stored"
    /\ finishing' = finishing \cup {<<task[u], u, Sender(u)>>}
    /\ Stop({u})
    /\ UNCHANGED <<queueVars, handle, described, fileVars, aborting, sweepVars>>

\* The failed receive is reported; the result is not looked at.
SendAbort(u) ==
    /\ stage[u] = "failing"
    /\ aborting' = aborting \cup {<<task[u], Sender(u)>>}
    /\ Stop({u})
    /\ UNCHANGED <<queueVars, handle, described, fileVars, finishing, sweepVars>>

\* protect drops a handler after 20 seconds, the server one whose client is
\* gone: at an await, so not between the link and the removal of the part.
Cancel(u) ==
    /\ stage[u] \in {"begun", "writing", "stored", "failing"} /\ ~operator[u]
    /\ IF stage[u] = "writing" THEN DropPart(task[u]) ELSE UNCHANGED part
    /\ Stop({u})
    /\ UNCHANGED <<queueVars, handle, described, input, requestVars, sweepVars>>

\* A process dies and its files stay: the server with all its handlers, or
\* one run of the operator's command.
Crash(dead) ==
    /\ \E u \in dead : stage[u] # "idle"
    /\ \/ dead = {u \in Receivers : ~operator[u]}
       \/ \E u \in Receivers : operator[u] /\ dead = {u}
    /\ Stop(dead)
    /\ UNCHANGED <<queueVars, handle, described, fileVars, requestVars, sweepVars>>

-----------------------------------------------------------------------------
(* What the database makes of the last statement. *)

\* Fault: the statement looks at the handle and not at the state of the row.
FinishLate(r) ==
    /\ r \in finishing
    /\ state[r[1]] \in PendingStates \cup SettledStates
    /\ state' = [state EXCEPT ![r[1]] = "queued"]
    /\ Touch(r[1])
    /\ described' = [described EXCEPT ![r[1]] = r[2]]
    /\ finishing' = finishing \ {r}
    /\ UNCHANGED <<kind, attempts, lease, failure, output, handle, fileVars, receiverVars,
                   aborting, sweepVars>>

\* finish_upload and finish_pair_upload need a started upload, queue none.
FinishCommits(r) ==
    /\ r \in finishing
    /\ r[3] = "web" => handle[r[1]] = "started"
    /\ QueueJob(r[1])
    /\ described' = [described EXCEPT ![r[1]] = r[2]]
    /\ finishing' = finishing \ {r}
    /\ UNCHANGED <<handle, fileVars, receiverVars, aborting, sweepVars>>

\* abort_upload refuses an overdue row, abort_intake does not.
AbortCommits(r) ==
    /\ r \in aborting
    /\ r[2] = "web" => ~due[r[1]]
    /\ AbortIntake(r[1])
    /\ aborting' = aborting \ {r}
    /\ UNCHANGED <<handle, described, fileVars, receiverVars, finishing, sweepVars>>

\* The statement is refused, or repeats what is already recorded, or is lost.
RequestEnds ==
    /\ \/ \E r \in finishing : finishing' = finishing \ {r} /\ UNCHANGED aborting
       \/ \E r \in aborting : aborting' = aborting \ {r} /\ UNCHANGED finishing
    /\ UNCHANGED <<queueVars, handle, described, fileVars, receiverVars, sweepVars>>

\* paired::reconcile reads the stored pair again and repeats the statement.
\* (Of a row that is further on, the statement is refused: left out here.)
Reconcile(j) ==
    /\ handle[j] # "none" /\ kind[j] # "image"
    /\ state[j] \in {"receiving", "queued"} /\ ~due[j]
    /\ input[j] # NoBytes
    /\ finishing' = finishing \cup {<<j, input[j], "web">>}
    /\ UNCHANGED <<queueVars, handle, described, fileVars, receiverVars, aborting, sweepVars>>

-----------------------------------------------------------------------------
(* `media-admin cleanup': expire, list, and per candidate both files, then   *)
(* the row.                                                                  *)

\* Fault: only the published rows are listed.
ListPublished(batch) ==
    /\ sweep = "idle"
    /\ batch # {} /\ Cardinality(batch) <= BatchLimit
    /\ \A j \in batch : state[j] = "published" /\ due[j]
    /\ todo' = batch
    /\ sweep' = "listed"
    /\ UNCHANGED <<queueVars, handle, described, fileVars, receiverVars, requestVars, victim>>

\* SELECT ... LIMIT 64 of the rows that settled more than a day ago.
ListCandidates(batch) ==
    /\ sweep = "idle"
    /\ batch # {} /\ Cardinality(batch) <= BatchLimit
    /\ \A j \in batch : state[j] \in SettledStates /\ due[j]
    /\ todo' = batch
    /\ sweep' = "listed"
    /\ UNCHANGED <<queueVars, handle, described, fileVars, receiverVars, requestVars, victim>>

RemoveInput(j) ==
    /\ sweep = "listed" /\ j \in todo
    /\ input' = [input EXCEPT ![j] = NoBytes]
    /\ victim' = j
    /\ sweep' = "halfway"
    /\ UNCHANGED <<queueVars, handle, described, part, receiverVars, requestVars, todo>>

RemovePart ==
    /\ sweep = "halfway"
    /\ part' = [part EXCEPT ![victim] = NoBytes]
    /\ sweep' = "removed"
    /\ UNCHANGED <<queueVars, handle, described, input, receiverVars, requestVars, todo, victim>>

NextCandidate ==
    /\ todo' = todo \ {victim}
    /\ sweep' = IF todo' = {} THEN "idle" ELSE "listed"
    /\ victim' = NoJob

\* Fault: the row goes as soon as the first file is gone.
ForgetEarly(j) ==
    /\ sweep \in {"halfway", "removed"} /\ j = victim
    /\ ForgetTerminal(j)
    /\ handle' = [handle EXCEPT ![j] = "none"]
    /\ described' = [described EXCEPT ![j] = NoBytes]
    /\ NextCandidate
    /\ UNCHANGED <<fileVars, receiverVars, requestVars>>

\* The handle goes with the row, by ON DELETE CASCADE.
ForgetJob(j) ==
    /\ sweep = "removed" /\ j = victim
    /\ ForgetTerminal(j)
    /\ handle' = [handle EXCEPT ![j] = "none"]
    /\ described' = [described EXCEPT ![j] = NoBytes]
    /\ NextCandidate
    /\ UNCHANGED <<fileVars, receiverVars, requestVars>>

\* The first error ends the command, and so does a crash.
SweepEnds ==
    /\ sweep # "idle"
    /\ sweep' = "idle"
    /\ todo' = {}
    /\ victim' = NoJob
    /\ UNCHANGED <<queueVars, handle, described, fileVars, receiverVars, requestVars>>

\* The first statement of the command.
ExpireOverdue ==
    /\ \E batch \in SUBSET Jobs : Expire(batch)
    /\ UNCHANGED <<handle, described, fileVars, receiverVars, requestVars, sweepVars>>

Work ==
    /\ LeaseStep
    /\ UNCHANGED <<handle, described, fileVars, receiverVars, requestVars, sweepVars>>

\* A day is longer than a receive: 15 seconds for the body and 20 for the
\* handler.  A deadline may pass at any time.
Elapses(j) ==
    /\ state[j] \in SettledStates => \A u \in Receivers : ~Receiving(u, j)
    /\ Elapse(j)
    /\ UNCHANGED <<handle, described, fileVars, receiverVars, requestVars, sweepVars>>

-----------------------------------------------------------------------------
StartStep(u) == \E j \in Jobs : BeginUpload(u, j) \/ OperatorIntake(u, j)

ReceiverStep(u) ==
    \/ CreatePart(u)
    \/ ReceiveFails(u)
    \/ LinkInput(u)
    \/ ClosePart(u)
    \/ SendFinish(u)
    \/ SendAbort(u)
    \/ Cancel(u)

RequestStep ==
    \/ \E r \in finishing : FinishCommits(r)
    \/ \E r \in aborting : AbortCommits(r)
    \/ RequestEnds

SweepStep ==
    \/ \E batch \in SUBSET Jobs : ListCandidates(batch)
    \/ \E j \in Jobs : RemoveInput(j) \/ ForgetJob(j)
    \/ RemovePart
    \/ SweepEnds

JobStep(j) ==
    \/ \E k \in Kinds : ReserveUpload(j, k)
    \/ Reconcile(j)
    \/ Elapses(j)

IntakeNext ==
    \/ \E u \in Receivers : StartStep(u) \/ ReceiverStep(u)
    \/ \E dead \in SUBSET Receivers : Crash(dead)
    \/ RequestStep
    \/ SweepStep
    \/ \E j \in Jobs : JobStep(j)
    \/ ExpireOverdue
    \/ Work

IntakeSpec == IntakeInit /\ [][IntakeNext]_vars

\* Time passes, receivers end one way or the other, and the operator repeats
\* the cleanup until a run meets no error.
FairIntakeSpec ==
    /\ IntakeSpec
    /\ \A u \in Receivers : WF_vars(ReceiverStep(u))
    /\ \A j \in Jobs :
         /\ WF_vars(Elapses(j))
         /\ SF_vars(RemoveInput(j))
         /\ SF_vars(ForgetJob(j))
    /\ WF_vars(ExpireOverdue)
    /\ SF_vars(\E batch \in SUBSET Jobs : ListCandidates(batch))
    /\ SF_vars(RemovePart)

-----------------------------------------------------------------------------
IntakeTypeOK ==
    /\ QueueTypeOK
    /\ handle \in [Jobs -> Handles]
    /\ described \in [Jobs -> Bytes]
    /\ part \in [Jobs -> Bytes]
    /\ input \in [Jobs -> Bytes]
    /\ stage \in [Receivers -> Stages]
    /\ task \in [Receivers -> Jobs \cup {NoJob}]
    /\ operator \in [Receivers -> BOOLEAN]
    /\ finishing \subseteq Jobs \X Receivers \X {"web", "operator"}
    /\ aborting \subseteq Jobs \X {"web", "operator"}
    /\ sweep \in Sweeps
    /\ todo \subseteq Jobs
    /\ victim \in Jobs \cup {NoJob}

\* A worker that claims a job finds its input, and it is the one the row
\* describes: neither a late finish nor a cleanup comes between.
InputIsDescribed == \A j \in Jobs :
    state[j] \in {"queued", "processing"} => input[j] # NoBytes /\ described[j] = input[j]

\* No private file outlives its row: after any crash, cancellation or failed
\* cleanup, a file in the quarantine belongs to a row the next run will list.
NoOrphanFile == \A j \in Jobs :
    part[j] # NoBytes \/ input[j] # NoBytes => state[j] \notin {"absent", "forgotten"}

\* However often a capability is presented, one receiver has the job, and
\* the partial file it writes, and will unlink by name, is its own.
OneReceiver ==
    /\ \A u, v \in Receivers :
         stage[u] # "idle" /\ stage[v] # "idle" /\ task[u] = task[v] => u = v
    /\ \A u \in Receivers : stage[u] \in {"writing", "linked"} => part[task[u]] = u

\* An image that was stored completely is never reported as a failed intake:
\* a handler that does not know whether its finish committed lets it be.
StoredIsNotFailed == \A j \in Jobs :
    failure[j] = "intake_failed" /\ kind[j] = "image" => input[j] = NoBytes

\* A receiver works on an open row that it has claimed, and knows what is in
\* the quarantine.
ReceiverInv(u) ==
    stage[u] # "idle" =>
      /\ task[u] \in Jobs
      /\ state[task[u]] \notin {"absent", "forgotten"}
      /\ state[task[u]] \in SettledStates => ~due[task[u]]
      /\ handle[task[u]] = IF operator[u] THEN "none" ELSE "started"
      /\ failure[task[u]] # "intake_failed"
      /\ stage[u] \in {"begun", "writing"} => input[task[u]] = NoBytes
      /\ stage[u] \in {"writing", "linked"} => part[task[u]] = u
      /\ stage[u] \in {"linked", "stored"} => input[task[u]] = u
      /\ stage[u] = "failing" /\ kind[task[u]] = "image" => input[task[u]] = NoBytes

\* One receiver works on a row.
SoleReceiver == \A u, v \in Receivers :
    stage[u] # "idle" /\ stage[v] # "idle" /\ task[u] = task[v] => u = v

\* A statement under way names what is stored, and an abort that can still
\* take effect concerns a row nobody works on.
RequestInv ==
    /\ \A r \in finishing : /\ state[r[1]] # "absent"
                            /\ state[r[1]] = "receiving" => input[r[1]] = r[2]
    /\ \A r \in aborting :
         /\ state[r[1]] # "absent"
         /\ handle[r[1]] # "reserved"
         /\ state[r[1]] = "receiving" =>
              /\ \A u \in Receivers : stage[u] # "idle" => task[u] # r[1]
              /\ kind[r[1]] = "image" => input[r[1]] = NoBytes

\* What the quarantine holds for a row, and what its capability says.
JobInv(j) ==
    /\ state[j] \in {"queued", "processing"} => input[j] # NoBytes /\ described[j] = input[j]
    /\ part[j] # NoBytes \/ input[j] # NoBytes => state[j] \notin {"absent", "forgotten"}
    /\ handle[j] # "none" => state[j] \notin {"absent", "forgotten"}
    /\ handle[j] = "reserved" => input[j] = NoBytes
    /\ failure[j] = "intake_failed" /\ kind[j] = "image" => input[j] = NoBytes

\* What the cleanup has listed stays settled, and what it removed is gone.
SweepInv ==
    /\ \A j \in todo : state[j] \in SettledStates /\ due[j]
    /\ sweep \in {"halfway", "removed"} => victim \in todo /\ input[victim] = NoBytes
    /\ sweep = "removed" => part[victim] = NoBytes

\* The inductive invariant: whatever is cancelled, crashes or commits late,
\* receivers, statements under way, rows, files and the cleanup know the
\* truth about each other.
IntakeInv ==
    /\ IntakeTypeOK
    /\ QueueInv
    /\ \A u \in Receivers : ReceiverInv(u)
    /\ SoleReceiver
    /\ RequestInv
    /\ \A j \in Jobs : JobInv(j)
    /\ SweepInv

\* What a worker of job j is given: the row's description and the file.
Offered(j) ==
    IF state[j] \in {"queued", "processing"} THEN <<described[j], input[j]>> ELSE <<>>

\* All attempts at a job work on one input: it is offered when the row leaves
\* receiving, stays the same through leases, retries and repeated statements,
\* and once the row has settled no late finish offers it again.
InputIsOfferedOnce ==
    [][\A j \in Jobs : Offered(j)' # Offered(j) =>
         \/ state[j] = "receiving" /\ state'[j] = "queued"
         \/ state'[j] \in SettledStates]_vars

\* Every private file is removed some day, also that of a receiver that died.
FilesGo == \A j \in Jobs :
    part[j] # NoBytes \/ input[j] # NoBytes ~> part[j] = NoBytes /\ input[j] = NoBytes
=============================================================================
