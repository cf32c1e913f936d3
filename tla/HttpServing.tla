---------------------------- MODULE HttpServing ----------------------------
\* How a server of this repository serves HTTP/1 (crates/http): listeners that
\* share one pool of connection slots, requests that share a pool of leases, and
\* responses that are encoded into blocks of a shared budget. A permit belongs
\* to a Rust value and returns when its last owner is dropped: the owner of a
\* slot is the connection task, the owners of a lease are the handler, then the
\* body, and every piece of data that the body has emitted.
\*
\* A connection is one task and does one thing at a time. The HTTP parser, its
\* write buffer and the client behind it are external: they choose.
EXTENDS Integers, FiniteSets

CONSTANTS
    Listeners,          \* public, and perhaps the JSON listener
    Connections,        \* connection tasks; an identity is used again
    Slots,              \* permits of ConnectionBudget.admission
    Leases,             \* permits of Limits.active
    Blocks,             \* permits of ResponseBudget
    NoSlot, NoLease,
    NoBlock,            \* data that is not charged: a fixed page
    BlockBytes,         \* 4096 in the code
    MaxResponse,        \* response_bytes
    ConnectionTimeout,
    HandlerTimeout,
    Share               \* 8 in the code

ASSUME HttpAssumption ==
    /\ NoSlot \notin Slots /\ NoLease \notin Leases /\ NoBlock \notin Blocks
    /\ IsFiniteSet(Blocks)
    /\ {BlockBytes, MaxResponse, ConnectionTimeout, HandlerTimeout, Share} \subseteq Nat \ {0}

VARIABLES
    stopped,            \* the watch channel
    serving,            \* how far HttpListener::serve is
    admission,          \* free slots
    active,             \* free leases
    output,             \* free blocks
    phase,              \* what a connection task is doing
    listener,           \* the listener that accepted it
    slot,               \* its permit
    closing,            \* graceful_shutdown was called
    age,                \* time since it was accepted
    spent,              \* time that the handler has had
    lease,              \* the lease in the hands of handler or body
    blocks,             \* blocks of the writer, later those the body has left
    len,                \* bytes in the writer
    failed,             \* the writer's error
    emitted             \* data the parser still has to write, with its lease

pools == <<admission, active, output>>
writerVars == <<len, failed>>
connectionVars == <<phase, listener, slot, closing, age, spent, lease, blocks, writerVars, emitted>>
vars == <<stopped, serving, pools, connectionVars>>

LeastOf(a, b) == IF a <= b THEN a ELSE b

\* The connection stops taking requests this long before its deadline.
Window == LeastOf(HandlerTimeout, ConnectionTimeout \div Share)
Retirement == ConnectionTimeout - Window

Phases == {"free", "waiting", "reading", "handling", "sending", "finished"}
Live == {c \in Connections : phase[c] \notin {"free", "finished"}}
Data == [block : Blocks \cup {NoBlock}, lease : Leases]

HttpInit ==
    /\ stopped = FALSE
    /\ serving = [l \in Listeners |-> "open"]
    /\ admission = Slots /\ active = Leases /\ output = Blocks
    /\ phase = [c \in Connections |-> "free"]
    /\ listener \in [Connections -> Listeners]
    /\ slot = [c \in Connections |-> NoSlot]
    /\ closing = [c \in Connections |-> FALSE]
    /\ age = [c \in Connections |-> 0]
    /\ spent = [c \in Connections |-> 0]
    /\ lease = [c \in Connections |-> NoLease]
    /\ blocks = [c \in Connections |-> {}]
    /\ len = [c \in Connections |-> 0]
    /\ failed = [c \in Connections |-> FALSE]
    /\ emitted = [c \in Connections |-> {}]

\* What the values that a connection task owns keep away from the others.
ChargedData(c) == {b \in Blocks : \E e \in emitted[c] : e.block = b}
LeasedData(c) == {r \in Leases : \E e \in emitted[c] : e.lease = r}
Charged(c) == blocks[c] \cup ChargedData(c)
Leased(c) == ({lease[c]} \cap Leases) \cup LeasedData(c)

-----------------------------------------------------------------------------
\* The listener.

\* A socket that finds no slot is closed and leaves no trace; neither does one
\* that cannot be accepted. The loop looks at the stop signal first, which may
\* come just after.
Accept(l, c) ==
    /\ serving[l] = "open" /\ phase[c] = "free"
    /\ \E s \in admission :
         /\ admission' = admission \ {s}
         /\ slot' = [slot EXCEPT ![c] = s]
    /\ phase' = [phase EXCEPT ![c] = "waiting"]
    /\ listener' = [listener EXCEPT ![c] = l]
    /\ UNCHANGED <<stopped, serving, active, output, closing, age, spent, lease, blocks,
                   writerVars, emitted>>

LoopEnds(l) ==
    /\ stopped /\ serving[l] = "open"
    /\ serving' = [serving EXCEPT ![l] = "draining"]
    /\ UNCHANGED <<stopped, pools, connectionVars>>

\* join_next, in the loop and after it.
Join(c) ==
    /\ phase[c] = "finished" /\ serving[listener[c]] # "dropped"
    /\ phase' = [phase EXCEPT ![c] = "free"]
    /\ UNCHANGED <<stopped, serving, pools, listener, slot, closing, age, spent, lease,
                   blocks, writerVars, emitted>>

ServeEnds(l) ==
    /\ serving[l] = "draining"
    /\ \A c \in Connections : listener[c] = l => phase[c] = "free"
    /\ serving' = [serving EXCEPT ![l] = "ended"]
    /\ UNCHANGED <<stopped, pools, connectionVars>>

Stop ==
    /\ ~stopped /\ stopped' = TRUE
    /\ UNCHANGED <<serving, pools, connectionVars>>

\* The metrics endpoint that is paired with the server ends: the futures of all
\* listeners are dropped, and with each its set of tasks.
Cancel ==
    /\ \E l \in Listeners : serving[l] \in {"open", "draining"}
    /\ serving' = [l \in Listeners |-> IF serving[l] = "ended" THEN "ended" ELSE "dropped"]
    /\ UNCHANGED <<stopped, pools, connectionVars>>

-----------------------------------------------------------------------------
\* The connection task.

\* It ends and everything it owns is dropped.
End(c) ==
    /\ phase' = [phase EXCEPT ![c] = "finished"]
    /\ slot' = [slot EXCEPT ![c] = NoSlot]
    /\ admission' = admission \cup {slot[c]}
    /\ active' = active \cup Leased(c)
    /\ output' = output \cup Charged(c)
    /\ closing' = [closing EXCEPT ![c] = FALSE]
    /\ age' = [age EXCEPT ![c] = 0]
    /\ spent' = [spent EXCEPT ![c] = 0]
    /\ lease' = [lease EXCEPT ![c] = NoLease]
    /\ blocks' = [blocks EXCEPT ![c] = {}]
    /\ len' = [len EXCEPT ![c] = 0]
    /\ failed' = [failed EXCEPT ![c] = FALSE]
    /\ emitted' = [emitted EXCEPT ![c] = {}]
    /\ UNCHANGED <<stopped, serving, listener>>

\* The client goes away, the header takes too long, or the task panics.
HangUp(c) == c \in Live /\ End(c)

Abort(c) == c \in Live /\ serving[listener[c]] = "dropped" /\ End(c)

\* The handler's own timeout, where it is due.
Overdue(c) == phase[c] = "handling" /\ spent[c] >= HandlerTimeout

\* Fault: only the exchange up to its response is under the deadline.
ExpireUnanswered(c) ==
    c \in Live /\ age[c] = ConnectionTimeout /\ ~Overdue(c) /\ phase[c] # "sending" /\ End(c)

\* The deadline, whatever the connection is doing. The exchange is polled first,
\* and with it a timeout of the handler that is due.
Expire(c) == c \in Live /\ age[c] = ConnectionTimeout /\ ~Overdue(c) /\ End(c)

\* The stop signal or retirement: no other request, but the one at hand goes on.
Close(c) ==
    /\ c \in Live /\ ~closing[c]
    /\ stopped \/ age[c] >= Retirement
    /\ closing' = [closing EXCEPT ![c] = TRUE]
    /\ UNCHANGED <<stopped, serving, pools, phase, listener, slot, age, spent, lease, blocks,
                   writerVars, emitted>>

CloseIdle(c) == phase[c] = "waiting" /\ closing[c] /\ emitted[c] = {} /\ End(c)

BeginHeader(c) ==
    /\ phase[c] = "waiting" /\ ~closing[c]
    /\ phase' = [phase EXCEPT ![c] = "reading"]
    /\ UNCHANGED <<stopped, serving, pools, listener, slot, closing, age, spent, lease, blocks,
                   writerVars, emitted>>

\* A complete header enters the router with a lease, or is told that the server
\* is busy.
Enter(c) ==
    /\ \E r \in active :
         /\ active' = active \ {r}
         /\ lease' = [lease EXCEPT ![c] = r]
    /\ phase' = [phase EXCEPT ![c] = "handling"]
    /\ spent' = [spent EXCEPT ![c] = 0]
    /\ UNCHANGED <<stopped, serving, admission, output, listener, slot, closing, age, blocks,
                   writerVars, emitted>>

Busy(c) ==
    /\ active = {}
    /\ phase' = [phase EXCEPT ![c] = "waiting"]
    /\ UNCHANGED <<stopped, serving, pools, listener, slot, closing, age, spent, lease, blocks,
                   writerVars, emitted>>

\* Fault: a header that was begun in time is served.
DispatchLate(c) == phase[c] = "reading" /\ (Enter(c) \/ Busy(c))

\* A header that is complete only after retirement ends the connection.
Dispatch(c) ==
    /\ phase[c] = "reading"
    /\ \/ age[c] < Retirement /\ (Enter(c) \/ Busy(c))
       \/ age[c] >= Retirement /\ End(c)

-----------------------------------------------------------------------------
\* The response.

CeilDiv(n) == (n + BlockBytes - 1) \div BlockBytes

\* Blocks for n more bytes: the last block may have room.
NewBlocks(c, n) ==
    LET tail == Cardinality(blocks[c]) * BlockBytes - len[c]
    IN IF n <= tail THEN 0 ELSE CeilDiv(n - tail)

\* Lengths of what is written at a time; longer pieces fail alike.
Pieces == 1..MaxResponse + 1

\* All the blocks at once or none, and after a failure nothing more.
Append(c, n) ==
    /\ phase[c] = "handling" /\ ~failed[c]
    /\ len[c] + n <= MaxResponse
    /\ \E taken \in SUBSET output :
         /\ Cardinality(taken) = NewBlocks(c, n)
         /\ output' = output \ taken
         /\ blocks' = [blocks EXCEPT ![c] = @ \cup taken]
    /\ len' = [len EXCEPT ![c] = @ + n]
    /\ UNCHANGED <<stopped, serving, admission, active, phase, listener, slot, closing, age,
                   spent, lease, failed, emitted>>

AppendFails(c, n) ==
    /\ phase[c] = "handling" /\ ~failed[c]
    /\ len[c] + n > MaxResponse \/ NewBlocks(c, n) > Cardinality(output)
    /\ failed' = [failed EXCEPT ![c] = TRUE]
    /\ UNCHANGED <<stopped, serving, pools, phase, listener, slot, closing, age, spent, lease,
                   blocks, len, emitted>>

Finish(c) ==
    /\ phase[c] = "handling" /\ ~failed[c] /\ len[c] > 0
    /\ phase' = [phase EXCEPT ![c] = "sending"]
    /\ len' = [len EXCEPT ![c] = 0]
    /\ UNCHANGED <<stopped, serving, pools, listener, slot, closing, age, spent, lease, blocks,
                   failed, emitted>>

\* The writer is dropped with what it has.
DropWriter(c) ==
    /\ output' = output \cup blocks[c]
    /\ blocks' = [blocks EXCEPT ![c] = {}]
    /\ len' = [len EXCEPT ![c] = 0]
    /\ failed' = [failed EXCEPT ![c] = FALSE]

\* A fixed page, that of an error or of the timeout included.
FixedPage(c) ==
    /\ phase[c] = "handling"
    /\ DropWriter(c)
    /\ phase' = [phase EXCEPT ![c] = "sending"]
    /\ UNCHANGED <<stopped, serving, admission, active, listener, slot, closing, age, spent,
                   lease, emitted>>

HandlerTimesOut(c) == Overdue(c) /\ FixedPage(c)

\* The body has ended, or there never was one: its hold on the lease goes.
LetGo(c) ==
    /\ active' = active \cup ({lease[c]} \ LeasedData(c))
    /\ lease' = [lease EXCEPT ![c] = NoLease]
    /\ phase' = [phase EXCEPT ![c] = "waiting"]

\* A response without a body is not retained.
EmptyResponse(c) ==
    /\ phase[c] = "handling"
    /\ DropWriter(c)
    /\ LetGo(c)
    /\ UNCHANGED <<stopped, serving, admission, listener, slot, closing, age, spent, emitted>>

\* The answer to HEAD is dropped unread.
DropBody(c) ==
    /\ phase[c] = "sending"
    /\ DropWriter(c)
    /\ LetGo(c)
    /\ UNCHANGED <<stopped, serving, admission, listener, slot, closing, age, spent, emitted>>

\* The parser takes a piece of data, which shares the lease; with the last one
\* the body lets go.
SendData(c) ==
    /\ phase[c] = "sending"
    /\ \E b \in IF blocks[c] = {} THEN {NoBlock} ELSE blocks[c] :
         /\ emitted' = [emitted EXCEPT ![c] = @ \cup {[block |-> b, lease |-> lease[c]]}]
         /\ blocks' = [blocks EXCEPT ![c] = @ \ {b}]
         /\ IF blocks[c] \subseteq {b}
            THEN /\ lease' = [lease EXCEPT ![c] = NoLease]
                 /\ phase' = [phase EXCEPT ![c] = "waiting"]
            ELSE UNCHANGED <<lease, phase>>
    /\ UNCHANGED <<stopped, serving, pools, listener, slot, closing, age, spent, writerVars>>

\* Fault: the lease belongs to a piece of data, not to all of them.
LastOwnerAny(c, e) == TRUE

\* Neither the body nor other data shares the lease of e.
LastOwner(c, e) ==
    /\ lease[c] # e.lease
    /\ \A f \in emitted[c] \ {e} : f.lease # e.lease

\* The data was written to the socket.
Flush(c, e) ==
    /\ e \in emitted[c]
    /\ emitted' = [emitted EXCEPT ![c] = @ \ {e}]
    /\ output' = output \cup ({e.block} \cap Blocks)
    /\ active' = IF LastOwner(c, e) THEN active \cup {e.lease} ELSE active
    /\ UNCHANGED <<stopped, serving, admission, phase, listener, slot, closing, age, spent,
                   lease, blocks, writerVars>>

-----------------------------------------------------------------------------
\* Time passes for all; what lies beyond a deadline is not told apart.
Tick ==
    /\ \E c \in Live : age[c] < ConnectionTimeout
    /\ age' = [c \in Connections |->
         IF c \in Live /\ age[c] < ConnectionTimeout THEN age[c] + 1 ELSE age[c]]
    /\ spent' = [c \in Connections |->
         IF phase[c] = "handling" /\ age[c] < ConnectionTimeout THEN spent[c] + 1 ELSE spent[c]]
    /\ UNCHANGED <<stopped, serving, pools, phase, listener, slot, closing, lease, blocks,
                   writerVars, emitted>>

Listen == \E l \in Listeners : LoopEnds(l) \/ ServeEnds(l) \/ \E c \in Connections : Accept(l, c)

Connect(c) ==
    Join(c) \/ HangUp(c) \/ Abort(c) \/ Expire(c) \/ Close(c) \/ CloseIdle(c) \/ BeginHeader(c)
        \/ Dispatch(c)

Answer(c) ==
    \/ \E n \in Pieces : Append(c, n) \/ AppendFails(c, n)
    \/ Finish(c) \/ FixedPage(c) \/ HandlerTimesOut(c) \/ EmptyResponse(c)
    \/ DropBody(c) \/ SendData(c)
    \/ \E e \in emitted[c] : Flush(c, e)

HttpNext == Stop \/ Cancel \/ Tick \/ Listen \/ \E c \in Connections : Connect(c) \/ Answer(c)

HttpSpec == HttpInit /\ [][HttpNext]_vars

\* The runtime polls what is ready, and time passes. Nothing is assumed of the
\* clients: they may never send a byte, nor read one.
HttpFairness ==
    /\ WF_vars(Tick)
    /\ \A l \in Listeners : WF_vars(LoopEnds(l)) /\ WF_vars(ServeEnds(l))
    /\ \A c \in Connections :
         WF_vars(Join(c)) /\ WF_vars(Expire(c)) /\ WF_vars(HandlerTimesOut(c))

FairHttpSpec == HttpSpec /\ HttpFairness

-----------------------------------------------------------------------------
\* What the transport promises.

\* Shapes of the state.
HttpTypeOK ==
    /\ stopped \in BOOLEAN
    /\ serving \in [Listeners -> {"open", "draining", "ended", "dropped"}]
    /\ admission \subseteq Slots /\ active \subseteq Leases /\ output \subseteq Blocks
    /\ phase \in [Connections -> Phases]
    /\ listener \in [Connections -> Listeners]
    /\ slot \in [Connections -> Slots \cup {NoSlot}]
    /\ closing \in [Connections -> BOOLEAN]
    /\ age \in [Connections -> 0..ConnectionTimeout]
    /\ spent \in [Connections -> 0..ConnectionTimeout]
    /\ lease \in [Connections -> Leases \cup {NoLease}]
    /\ blocks \in [Connections -> SUBSET Blocks]
    /\ len \in [Connections -> 0..MaxResponse]
    /\ failed \in [Connections -> BOOLEAN]
    /\ emitted \in [Connections -> SUBSET Data]

\* A task has a slot as long as it lives, and nothing of its own afterwards.
TasksHaveSlots == \A c \in Connections :
    /\ c \in Live <=> slot[c] # NoSlot
    /\ lease[c] # NoLease <=> phase[c] \in {"handling", "sending"}
    /\ blocks[c] # {} => phase[c] \in {"handling", "sending"}
    /\ emitted[c] # {} => c \in Live
    /\ len[c] > 0 \/ failed[c] => phase[c] = "handling"
    /\ phase[c] # "free" => serving[listener[c]] # "ended"

\* Every slot is free or has one owner (transport.rs:106, 177).
SlotsBalance ==
    /\ \A s \in Slots : s \in admission <=> \A c \in Connections : slot[c] # s
    /\ \A c, d \in Connections : slot[c] = slot[d] /\ slot[c] # NoSlot => c = d

\* Every lease is free or belongs to one request (lib.rs:33-121).
LeasesBalance ==
    /\ \A r \in Leases : r \in active <=> \A c \in Connections : r \notin Leased(c)
    /\ \A c, d \in Connections : c # d => Leased(c) \cap Leased(d) = {}

\* Every block is free or holds bytes of one response (output.rs:125-144, 195-199).
BlocksBalance ==
    /\ \A b \in Blocks : b \in output <=> \A c \in Connections : b \notin Charged(c)
    /\ \A c, d \in Connections : c # d => Charged(c) \cap Charged(d) = {}
    /\ \A c \in Connections : blocks[c] \cap ChargedData(c) = {}
    /\ \A c \in Connections : \A e, f \in emitted[c] : e.block = f.block /\ e.block # NoBlock => e = f

\* A response has blocks for all its bytes and none to spare (output.rs:112-117).
ChargeIsExact == \A c \in Connections : phase[c] = "handling" =>
    /\ len[c] <= Cardinality(blocks[c]) * BlockBytes
    /\ blocks[c] # {} => len[c] > (Cardinality(blocks[c]) - 1) * BlockBytes

\* Handlers start before retirement, on connections that count the same time
\* (transport.rs:188).
StartedInTime == \A c \in Connections :
    /\ spent[c] <= age[c]
    /\ phase[c] = "handling" => age[c] - spent[c] < Retirement

\* Whatever is cut short, no permit is lost and none is given out twice.
ServingInv ==
    /\ HttpTypeOK /\ TasksHaveSlots /\ SlotsBalance /\ LeasesBalance /\ BlocksBalance
    /\ ChargeIsExact /\ StartedInTime

\* A request whose handler the deadline of its connection can cut off has had
\* the whole window: all the time a handler is allowed, where that is the shorter
\* part (transport.rs:25, 188-193).
RequestsHaveTime == \A c \in Connections :
    phase[c] = "handling" /\ age[c] = ConnectionTimeout => spent[c] >= Window

\* Asked to stop, the server does: every listener ends and every permit returns,
\* though clients neither send nor read (transport.rs:130-132, 231).
ShutdownEnds ==
    stopped ~> /\ \A l \in Listeners : serving[l] \in {"ended", "dropped"}
               /\ Live = {} /\ admission = Slots /\ active = Leases /\ output = Blocks
=============================================================================
