# A TLA+ model of the 26chan board

The repository is an imageboard written in Rust: Axum services, command-line
workers and one PostgreSQL database. Its hard behaviour is seldom inside one
function. It is in the protocols between short-lived processes: rows with state
machines guarded by `SECURITY DEFINER` functions, row locks taken in a fixed
order, leases with deadlines, files on disk that must agree with rows, and
reruns after a crash. This directory models those protocols, checks them with
TLC on small instances, and proves the central ones with TLAPS for every value
of the constants.

Paths below are relative to the repository. `PROJECT.json` maps each definition
to the lines it stands for.

## 1. Inventory

### Modelled

| Component | State it keeps | Operations | Hard behaviour | Correct when |
|---|---|---|---|---|
| media job queue (`crates/store/src/media.rs`, `migrations/0002`) | rows of `media.jobs`: state, attempt, lease token and deadline, failure, digests; the singleton `queue_policy` | reserve, queue, abort, claim, complete, fail, finish a candidate, expire leases, forget terminal rows | a lease expires under a running worker that then reports; bounded retries; a limit on unsettled work | a late report changes nothing, a published job stays published, a job fails for a true reason, every reservation settles |
| upload admission (`media.rs:106`, `migrations/0011, 0115, 0144, 0148`) | the policy row lock, a count read before an insert | lock, count, insert or refuse, roll back | the count is read in one statement and used in another | the check and the insert act as one step |
| upload intake and quarantine (`apps/media-intake`, `crates/media/src/quarantine.rs`, `media-admin cleanup`) | `media_intake.handles`, a private input file and a partial file per job, requests in flight | reserve, begin, receive, link, finish, abort, cancel, crash; cleanup sweep | a commit whose answer is lost, a client that goes away, a crash between file and row, a sweep beside a receiver | the row describes the bytes on disk, no file outlives its row, files go in the end |
| media publication (`apps/media-admin/src/lib.rs, still.rs, drawing.rs`, `media_assets.rs`, `publication.rs`) | `media.assets`, `media.input_receipts`, approved files (primary and thumbnail), one lock file | claim, process, lock, prepare, receipt, install, approve; reconcile: retire, delete, forget | two coordinators, a crash between any two steps, an approval that commits after its sender died | an approved output is complete, no file without a row, job and output agree |
| post attachments and retention (`migrations/0196, 0013, 0016, 0130, 0138`, `write.rs`, `archives.rs`, `post_media.rs`) | posts and threads, `content.post_media`, upload handles, row locks | post, attach, cancel, delete file or post, archive, expire, roll over, retire | posting racing retention and cancellation; the image limit under concurrent replies | a shown file is never retired, an upload is used once, a cancelled upload stays out |
| pass membership notices (`migrations/0232`, `apps/verification-mailer`, `board-pass-notices.rs`, `board-pass-admin.rs`) | memberships (status, expiry), contacts with a version and two flags, `pass_mail_outbox` with delivery leases | list and queue notices, claim, deliver by SMTP, acknowledge; meanwhile renew, hold, log in, change the address | delivery happens between two transactions; the membership changes meanwhile; a lost reply, an expired lease, a stale candidate | one mail is pending, flags tell the truth, a membership ends only after its own notice |
| pass checkout (`migrations/0234, 0235`, `apps/verification`, `apps/checkout`) | orders with state, payment and what was prepared for them, memberships, the ticket of a preparation, events of the provider | form, prepare, show the page, capture; apply an event; refund, dispute; operator's reset, restriction and renewal | events that come late, twice, reordered, or whose answer is lost; a form overtaking another; full tables at the moment of fulfilment | a paid order adds one period to one account or waits for a person, an acknowledged event took effect, no restricted account comes back |
| PIN recovery mail (`migrations/0233`, `apps/verification-mailer`) | one row per account with lease and link, requests being prepared, letters sent | request, seal, queue; claim, deliver, acknowledge; follow a link | a letter sealed outside the transaction; the account changes before it is read; a mailer that lost its lease | a link sets a PIN once, for the credentials and address it was made for |
| HTTP transport and response budget (`crates/http`) | connection slots, request leases, blocks of the shared output budget, deadlines | accept, serve, retire, time out, write a body in blocks, stop | permits owned by values that are dropped on every path; cancellation in the middle of a response | no permit is lost or given twice, a handler has its window, a stop ends |
| posting transaction, threads and archives (`crates/store/src/write.rs, archives.rs`, `migrations/0062, 0087, 0117, 0129`) | boards with threads, posts and reply counters, the shared number sequence, what Robot9000 saw, actors' last threads | post a thread or reply, refuse, replay, commit; options, archiving, deletion, cleanup | a number drawn before it is known to be used; a refusal that must commit its mute and nothing else; limits that hand over to each other | threads stay within their limits, numbers appear in order, no two posts that Robot9000 judged say the same, a refused post leaves no trace |

How they interact: an upload is *admitted* (a queue row in `receiving` and a
handle), *received* into quarantine (row `queued`), *claimed* by a coordinator
under a lease, *published* as an asset with its files (row `published`),
*attached* to a post by its handle, and at last *retired* when no visible
thread shows it and it is a day old. All of this goes through the database; the
only other shared state is the two file stores and the coordinator lock file.
The pass modules are a system of their own: checkout, mailers, producers and
the operator's tool meet only in the database, where each of their functions
first takes the `pass_policy` row. Every public service stands on the HTTP
transport, which knows nothing of what its handlers do. The posting
transaction holds the locks under which `PostAttachment` attaches a file.

### Not modelled

`PROJECT.json` lists every part with its reason. In short:

- **Open** (section 2): sessions rechecked before the commit of a moderation
  transaction, thread transfer, restrictions and reports, verification
  challenges and sessions, the mail that verifies an address (0159, 0163: the
  same leases as in `PassRecovery`), the media dispatch gateway.
- **Left out**: media decoders and text rules (sequential data
  transformations), rendering and browser JavaScript, read-only monitors,
  operator imports.

## 2. Plan

Modules, in order. All but the last, with their proofs, are written.

1. `MediaQueue`: the table and its state machine, alone. Everything about media
   is stated over it.
2. `MediaAdmission` extends it with the transactions that admit an upload, and
   is shown to implement it (`ReservationIsAtomic`).
3. `MediaIntake` extends it with receivers, requests and the sweep. Its steps
   are queue steps or leave the rows alone by the way they are written; what it
   adds is the agreement of rows, files and late statements.
4. `MediaPublication` extends it in the same way with coordinators, files and
   reconciliation; it is shown to implement `MediaPromise`, what a reader of
   approved files may rely on.
5. `PostAttachment`: boards, threads and posts against retention. It starts
   where `MediaPublication` ends and decides what `Retire` leaves open there.
6. `PassNotices`: delivery outside any transaction between a claim and an
   acknowledgement, against renewals, holds and changes of address. It is
   independent of the media modules.
7. `PassRecovery`: letters with links, beside it; `PassCheckout` extends it with
   orders and payment events, and is shown to implement `PaymentLedger`, in
   which each paid order is granted once or under review.
8. `HttpServing`: permits, retirement, deadlines, the block budget of responses.
9. `BoardPosting`: the whole posting transaction, from the request to its commit
   or refusal. `PostAttachment` keeps what it says of files; the two share
   locks, not state.
10. `StaffModeration` (open): sessions rechecked before commit, report groups,
    thread transfer between boards.

The runs stay small (one or two rows and two or three processes, symmetric where
nothing is ordered) with a separate instance for liveness where the safety
instance is too large for it.

## 3. Modules and code

State names follow the columns; an action is one database transaction, one file
system operation, or the arrival of one deadline. Mutated operators
(`\* Fault: ...`) stand before the definition they corrupt and are used only to
show that a property can fail.

### MediaQueue

`state`, `attempt`, `lease`, `due`, `failure` and the digests are the columns of
`media.jobs`. A lease token is the attempt that drew it: tokens are random and
fresh, and an attempt draws one. `due` says that the row's deadline (lease or
reservation) has passed; `Elapse` lets it pass at any moment. `Expire` takes a
batch, as the statement's `LIMIT` does. `forgotten` rows never return, because
identifiers are random. `complete` is reached only from tests and `fail` is
never called with `retryable = true` in production; both are modelled, since
they are the interface of the store.

### MediaAdmission

One action per statement of the admitting transaction: `LockPolicy`,
`CountPending`, then `Admit`, `RefuseFull` or `Rollback`. `OtherStep` is any
other transaction on the queue; it can settle rows between the count and the
insert but cannot reserve, because reserving needs the lock.

### MediaIntake

A receiver goes `begun`, `writing`, `linked`, `stored` or `failing`; at each point
it may be cancelled (the HTTP future is dropped) or the process may crash.
`finishing` and `aborting` hold the statements that were sent and not yet
decided: `FinishCommits` and `AbortCommits` may happen after the sender is
gone, `RequestEnds` is the lost one. The sweep of `media-admin cleanup` lists
candidates, removes the input, then the partial file, then the row.
`Reconcile` is offered for rows in `receiving` or `queued` only: on any other row
the code refuses it. `InputIsOfferedOnce` follows a row through its whole life:
every attempt at it is given the same bytes and the same description, whatever
is sent again, and once it has settled nothing offers it again.

### MediaPublication and MediaPromise

A coordinator claims (`Take`), processes, takes the lock file, prepares the
asset row and its manifest, records the receipt, installs the primary and the
thumbnail file, and sends the approval; `Leave` ends it at any point and stands
for an error return, an expired lease and a crash. `Reconciler` runs the
passes of `media-publish reconcile` under the same lock file. The paths `still`,
`drawing` and `manual` differ in the guards the code has (lease extension, receipts,
operator leases). Primary and thumbnail stand for all variants of an output.
An approval may commit after its sender died. The recheck inside
`begin_output_deletion` turns out to be redundant as long as the lock file is
held; it is modelled all the same. `MediaPromise` says what a reader sees: a job
shows at most one output, complete from the first moment, and withdrawn for good.

### PostAttachment

Writers post with an attachment or cancel an upload; the reconciler retires.
One lock per board stands for the board row and the thread rows taken under it;
one lock per upload for the `media.jobs` row. `RoomMade` is `make_room` of
`write.rs` and `archives.rs` inside the posting transaction. `pinned` stands for
sticky or undead; `ForceArchive` therefore allows a little more than the staff
action does. The `UNIQUE(job_id)` of `post_media` is deliberately left out:
`AttachedOnce` holds without it, so it never refuses a post. `Elapse` makes an
output a day old; a receiver is ended by 15 s and 20 s limits, so no upload is
in use by an intake when this happens.

### PassNotices

Database functions that touch memberships take the `pass_policy` row first, so
each is one action. Renewals only extend the expiry: `term` numbers the
expiries, and `age` says whether the current one is more than seven days away,
less, or over. A row's `live`, `waiting` and `old` are its three deadlines
(`lease_until`, `retry_after`, `expires_at`). `holder` is the mailer whose claim
is the last: a lease hash is drawn per claim and a mailer works on one claim at a
time, so the two name the same thing. `letter` is what the mailer decrypted: it is
delivered even if the row is purged meanwhile. `DeliverFails` covers a refusal, a
timeout, an envelope that cannot be opened and a final reply that is lost.
`candidates` are the lists of any number of producer runs. `Renew` is the
operator's command and also covers a paid renewal, whose guards are narrower.
The batches of a hundred rows that a statement removes are not bounded, and the
oldest-first order of claims is left open. Statuses 2 to 5 are one, `held`.

### PassRecovery

A recovery request is three steps: the snapshot under a ticket (`attempt`), the
sealing outside any transaction, and the insertion if the account is still as it
was. `row` is the one row of `pass_recoveries` per account; a letter carries the
link and the versions stored with it. `inbox` is what the relay took: whoever
reads it may follow the link, late, after the account changed, or again. `pin`
and `contact` number the credentials and the addresses an account has had.
`RefuseRecovery` is a request over its quotas or against a full table: its
deletions commit all the same, and nothing else ever removes rows. Flood
limits are left open, so any request may be refused.

### PassCheckout and PaymentLedger

`PassCheckout` extends `PassRecovery`, whose tables and limits it shares. An
order goes through the states of its row; `ticket` is the preparation that may
still write, and a form that comes again takes over a preparation that is late.
The provider is external: money of an order that was shown may be captured, and
every event about it may arrive at any time and again. `ApplyEvent` is the
endpoint with all it calls: refused, applied, repeated, or answered `capacity`
(the provider is to come again). A fulfilled purchase inserts account, address
and first letter in one transaction. Identities are drawn at random and
refused if taken. The count of preparations, prices, signatures and flood limits are left
out: each only refuses more. `PaymentLedger` is the abstract specification: an
order is settled once, a granted one has added exactly one period to exactly one
account, and it is only ever taken back.

### HttpServing

A connection is one task: accepted with a slot, it begins a header, runs a
handler with a lease, writes the response, or is closed. A permit returns when
the last value that owns it is dropped; `End` is that drop for all a task owns,
on every way it may end (`HangUp`, a deadline, an abort once the metrics
endpoint has ended). Blocks are allocated all or none, and a failed writer
writes nothing more. `age` and `spent` count up to the deadline of the
connection and the timeout of the handler, and no further. The parser,
its buffer and the client are external and choose. Peer identification and the
write limiter of `protect_inner` are left out.

### BoardPosting

`content[b]` is what is committed on a board: its threads (state, options, reply
counter), its posts, and what Robot9000 remembers. `number` is the sequence
shared by all boards, which no rollback gives back. A writer has `view`, the
board as its transaction sees it; `saved`, the board as the savepoint has it;
and `mark`, the number it drew and what Robot9000 decided, with the one reading
of the clock that check and replay share. Locks are taken in the order of the
code: the gate of the actor, for a new thread the one capacity gate, the
row of the board. `WriteThread` and `WriteReply` draw the number and write;
`Accept` commits the view, `Reject` rolls back to the savepoint, asks
Robot9000 again and commits the mute that remains, `Filter` is a late
classifier's refusal, `Abandon` every end without a commit. `vip` marks a post
with a receipt of a verified name: `RobotApplies` is false of it, so it is
neither judged nor remembered, and `verified` in `content[b]` is the set of such
posts, which may repeat others and be repeated. A late classifier may refuse it
all the same, and then nothing is left of it. `SetOptions`,
`ForceArchive`, `Remove` and `Cleanup` are the staff's and authors' transactions,
one step each, as they hold the row of the board from the first to the last
thing they do. The reply and same-board timers and quotas end in `Abandon`, which may
come at any moment. Which thread is oldest, and so who makes room, is left open; the order by
bumps with it. Left out: how a verified post gets its receipt and name, and the
image checks that its badge skips; posts of the staff, boards for the staff only, growth
and decay of mutes, `low_signal`, and the record of an actor's last thread once
it is too old to stop anybody.

## 4. Runs

| Run | Instance | Shows |
|---|---|---|
| `media_admission` | 2 clients, 2 jobs, capacity 1, 3 attempts, batch 2 | the table's checks, the limit on pending rows and the agreement of count and insert (`AdmissionInv`); published is final; admission acts as `Reserve`; every reservation settles |
| `media_intake` | 1 job, 3 receivers, 2 attempts | one receiver, row and bytes agree, a stored input is not failed, all attempts are given one input and a settled job is not offered again, no file outlives its row, files of settled jobs go |
| `media_publication` | 1 job, 2 attempts, 2 coordinators, 2 digests; symmetric; 613,000 states | approved outputs are complete, files are tracked, removal is safe, job and output agree, the promise holds |
| `media_publication_live` | 1 job, 1 attempt, 1 coordinator | reservations of outputs end |
| `attachment` | 2 uploads, 2 boards of which one is switched, 3 threads, 2 replies, 2 writers, image limit 1; 473,000 states | the lock races of posting, cancelling, retiring, hiding and displacing; the image limit under concurrent replies |
| `attachment_retained` | 1 upload, 2 boards with a thread each | **violated**, see section 7 |
| `pass_notices` | 1 account, 2 rows, 1 mailer, 2 expiries, 2 addresses; 1.67 million states | flags, rows and expiry under changes of the account during delivery |
| `pass_notices_live` | 2 mailers, 1 row, 2 attempts | leases are lost only by their owner, by time or by a change of the account; a membership that is over is announced |
| `pass_checkout` | 2 accounts, 2 orders, 2 handlers, 2 links, 1 ticket, 1 mailer, 1 event of a kind; 413,000 states | the ledger is implemented, acknowledgements are true, holds stay, links are rightful |
| `pass_checkout_live` | 2 accounts, 1 order, 1 handler, limit 1 with a member in the way; 286,000 states | a captured payment settles |
| `http_serving` | 2 listeners, connections, slots, leases and blocks; 273,000 states | permits are free or have one owner, a handler has its window, a stop ends |
| `board_posting` | 2 boards, 2 actors, 2 texts, 2 writers, 1 slot for threads, 2 replies a thread, autoarchive at 2, 4 numbers, 2 seconds, one verified post; 523,000 states | limits, order of numbers, originality of what Robot9000 judged, traces of refusals, and admission that still holds at the commit |

**Why these bounds are enough.** Two attempts give a stale worker beside a
current one, and the last one is also reached. Capacity 1 with two jobs gives
the refusal. Three receivers give one that writes, one that was
cancelled with its request in flight and one that begins again; further
receivers only repeat these. One job suffices where jobs share no row or file.
Two coordinators and the reconciler give every pair on the lock file, and two
digests tell a right manifest from a wrong one. Accounts meet in the notices only
in the outbox limit, so one account is enough for its flags and rows; two
expiries and two addresses give each notice a successor that makes it stale, and
two identifiers allow an old row beside its replacement.

**Instances that are cut.** Four safety instances do not explore every
combination. Their MC modules name what they keep, as a guard on the next state
or a constraint. What is cut is covered by the theorems of section 6, which know
no such bound; the runs are there to find an error quickly and to show that
each property can fail.

- `attachment` (`OneUpload \/ OneThread`): either one upload that is posted to
  open threads on two boards and may be cancelled, displaced and retired,
  or two uploads as files of two replies of one thread while the board is
  switched. Deadlock, visibility and rollover need the first, the image limit
  the second; no property relates an upload of one kind to the other.
- `pass_checkout` (`Focus`): at most one member was there before; either orders
  or letters are in motion, and forms overtake each other before money was
  paid. A purchase hands its first letter to the mailers in both parts.
- `http_serving` (`Home`): each listener takes one connection at a time, into
  the slot and with the lease of its number. Blocks, over which responses
  compete, are shared by both.
- `board_posting` (`OnRobot \/ OnArchive \/ OnBoth`): races of two writers over
  texts, mutes and time in one thread, with one verified post among the first; one post at a time against all options
  and the archives of two threads; new threads on both boards by several actors.

**CHECK_DEADLOCK FALSE.** Job identifiers, attempts, orders and post numbers are
finite here and never reused: once they are used up the instance stops, where
the program would draw new ones. A server that was stopped stays so.

## 5. Fairness

Liveness is stated only under what the scheduling gives.

- `FairAdmissionSpec`: deadlines arrive, and expiry is run again and again by
  the coordinators and the cleanup command. Clients may stay in a transaction.
- `FairIntakeSpec`: a receiver ends, by its time limits; `media-admin cleanup`
  is a command that is rerun, not a timer inside a service, so its steps get strong
  fairness: it is started infinitely often, and it is not cut off at the same point
  each time. A file that can never be removed blocks the candidates behind it
  (`media-admin/src/main.rs:55`); this is recorded as a hazard.
- `FairPublicationSpec`: the same for `media-publish reconcile`.
- `NoticeLive`: `deploy/verification-mailer.timer` starts a mailer each minute
  and a row stays for an hour, so a ready row is claimed; a delivery has five
  seconds of a lease of sixty, so it and its acknowledgement are in time again
  and again; the relay does not refuse forever. That the producer is run again
  and again is an assumption: no timer is deployed for it.
- `CheckoutFairness`: the provider repeats an event until it is answered, and
  one of the repetitions arrives (strong fairness); links run out; recovery
  requests keep coming, because only they remove what is over; and the operator raises
  a limit that is in the way. The last two are assumptions about people.
- `HttpFairness`: the runtime polls what is ready and the clock runs. Nothing is
  assumed of clients, which may never send or read a byte.

No fairness is given to clients, posts or operators beyond that.

## 6. Proofs

Every safety property the runs check, invariants and action properties, is also
a theorem. The assumptions are those of the modules, each named there: the sizes
are natural numbers, positive where the code needs it, and the null values are
no members of the sets (`QueueAssumption`, `AdmissionAssumption`,
`IntakeAssumption`, `PublicationAssumption`, `AttachmentAssumption`,
`NoticeAssumption`, `NullAssumption`, `RecoveryAssumption`,
`NoLetterAssumption`, `CheckoutAssumption`, `HttpAssumption`,
`PostingAssumption`). The sets are arbitrary otherwise, and finite only where the modules
assume so, which is where things are counted.

- **MediaQueueProofs.** `QueueInv` is the type invariant, the table's checks and
  the fact that a live lease is the newest; it is taken apart row by row
  (`RowByRow`), so that a step is checked on one row. The capacity theorem goes
  by the cardinality of the pending set.
- **MediaIntakeProofs**, admission. `CountIsSafe` alone is not inductive: it
  needs that a transaction past its first statement holds the lock
  (`LockIsHeld`). From both, each step is a step of the queue
  (`ReservationIsQueueStep`)
  and the queue's theorems carry over (`AdmissionKeepsCapacity`).
- **MediaIntakeProofs**, intake. `IntakeInv` ties what is on disk to the stage of
  the one receiver that may write, and to the requests in flight: a finish that
  may still commit names the bytes that are linked. `InputIsOfferedOnce` is read
  off the steps under it (`OfferKept`): only a commit in `receiving` makes an
  offer, a link finds none there, and a cleanup removes files of settled rows.
- **MediaPublicationProofs.** `PublicationInv` is the conjunction of `LockInv`,
  `WorkInv`, `AssetInv`, `CoordinatorInv`, `RequestInv`, `PassInv` and `JobInv`.
  The promise needs one more, `SpentInv`: an output that was withdrawn has used
  up its attempt, so that the job cannot show another. `PublicationKeepsPromise`
  is the refinement: initial states map to initial states, every step to a step
  or a stutter.
- **PostAttachmentProofs.** `AttachmentInv` is the type invariant with
  `PlaceInv`, `PolicyInv`, `JobInv`, `WriterInv`, `ReconcilerInv`, `FileInv` and
  `AttachedOnce`. The heart is `WriterInv` and `ReconcilerInv`: what a session
  checked stays true while it holds the lock it checked it under, and what a file
  under retirement was attached to is gone for good. `ShownFilesKept` speaks of
  boards that no operator switches. `PublicLimit` needs `LimitInv` besides: a
  writer that has inserted a reply still holds its board's lock and still has room
  in the thread, because every other step that adds an image to the thread needs
  that lock. From there it is a count: the images after a commit are those before
  with one more.
- **PassNoticesProofs.** `NoticeInv` adds to the checked invariants only
  `MailerInv`: a mailer at work knows the notice of its row for as long as the row
  lasts, and what it calls sent was accepted. Steps are first reduced to what
  they do to the rows (`StepOfRows`: some go, at most one is added, and then it is
  the only one of its account). `DoneIsNotQueued` is not inductive alone: the
  acknowledged row must be the only one of its account. `LeaseIsKept` needs
  `LiveIsYoung`, that no lease outlasts its row.
- **PassCheckoutProofs.** The inductive invariant is `RecoveryInv /\ OrderInv`.
  `RecoveryInv` holds whatever orders there are: rows, attempts and links belong
  to their accounts, a link is in one letter only, what is marked as delivered was
  sent, the queue fits. `OrderInv` holds given the accounts: payable orders are
  prepared, paid ones settled, recorded events agree with the state, an
  acknowledgement is true, an envelope's identity is not taken. The split keeps
  each case to the half it disturbs. The refinement `CheckoutKeepsLedger` uses it
  to show that only events settle (`OnlyEventsSettle`), each at most once;
  `LinksAreRightful` and `HoldsAreKept` are read off the steps under the invariant.
- **HttpServingProofs.** `ServingInv` is inductive as checked: permits partition
  into free ones and the owners', bytes agree with blocks, a handler began in
  time. `RequestsHaveTime` follows from the last part by arithmetic on age and
  time spent.
- **BoardPostingProofs.** The inductive invariant `IndInv` is `PostingInv`
  with `RepliesAreBounded` and `RobotPostsAreOriginal` (lemma `IndInvIs`), taken
  apart into what holds of each board (`GoodBoard`) and of each writer
  (`WriterInv`). The argument: a writer that holds the row of its board is alone with
  it (`HeldAlone`), so that its view is what is committed and stays so. In that
  view the three ceilings each leave room for one reply: the window of a pinned
  thread drops all but the newest (`WindowMakesRoom`, by the counting lemma
  `NewestAreFew`), the count of survivors and the counter refuse at the limit.
  The drawn number is new and the highest (`NumberIsNew`), since those of a board
  are drawn under its lock. Robot9000 knows every text that it judged and
  that is not old, so that what it allows is original (`PostedIsOriginal`), and asked again at the
  same time it says the same. A verified post is kept out of that account on
  both sides: it is in `verified`, and Robot9000 is left as it was
  (`ExemptIsLeftAlone`). The savepoint is the committed board, hence a
  rollback to it commits a mute and nothing else. The four action theorems come
  from who may change what: only an accepted post adds one (`OnlyAcceptPosts`,
  `AcceptPosts`), and only its own steps end a transaction (`OnlyItEnds`).

**Only model-checked.** Liveness: `ReservationsSettle`, `FilesGo`,
`ReservationsEnd`, `ExpiryIsSettled`, `PaymentSettles`, `ShutdownEnds`. It rests
on fairness and so on `ENABLED`, which TLAPS does not treat here.

## 7. Findings

`attachment_retained`: docs/post-attachments.md:81 says that retained archives
are not eligible for retirement, and `migrations/0138:75-76` that setting the
retention to zero hides archives without erasing their storage. But
`media.retirable_outputs` asks `content.visible_threads`, from which the archived
threads of such a board drop out at once, so the next reconciliation deletes
their files. The same holds for a board that is switched to staff only; the run's
counterexample uses the retention.

## 8. Limits of the model

- Process crashes are modelled, power loss is not: docs/media.md:37 excludes
  the durability of directory entries.
- Time is a set of deadlines that may pass at any moment in any order, except that a
  settled row becomes old only when no receiver works on it. `HttpServing` and
  `BoardPosting`, where lengths of time are compared, have a clock.
- A transaction under the locks modelled is atomic at its commit; read-committed
  reads between locks are separate steps only where the code uses what it read
  earlier. `BoardPosting` has the transaction's own view and its savepoint.
- Digests, names, pixels, texts and amounts are members of small sets.
- Quotas and flood limits that only refuse (networks that ask too often, prepared
  orders, posts per minute) are left out, or are a refusal that may come at any time.
- The HTTP parser and its clients, the SMTP relay and the payment provider are
  external; they do what the code is ready for, in any order. The limit the service
  manager sets to a stop (docs/public-request-limits.md:62-67) is not
  modelled: `ShutdownEnds` says that the program ends by itself.
