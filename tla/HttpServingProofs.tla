------------------------- MODULE HttpServingProofs -------------------------
(***************************************************************************)
(* For any number of listeners, connections and permits, and any limits:   *)
(* no permit is lost or given out twice, and the deadline of a connection  *)
(* leaves each of its requests the time that the retirement window allows. *)
(***************************************************************************)
EXTENDS HttpServing, FiniteSetTheorems, TLAPS

(* Arithmetic of the blocks. *)

LEMMA CeilBounds ==
  ASSUME NEW n \in Nat \ {0}
  PROVE  /\ CeilDiv(n) \in Nat \ {0}
         /\ (CeilDiv(n) - 1) * BlockBytes < n
         /\ n <= CeilDiv(n) * BlockBytes
  <1> DEFINE k == (n + BlockBytes - 1) \div BlockBytes
  <1>1. BlockBytes \in Nat \ {0}
    BY HttpAssumption
  <1>2. k \in Int /\ k * BlockBytes <= n + BlockBytes - 1
        /\ n + BlockBytes - 1 < k * BlockBytes + BlockBytes
    BY <1>1, SMT
  <1>3. k > 0
    BY <1>1, <1>2
  <1>4. (k - 1) * BlockBytes = k * BlockBytes - BlockBytes
    BY <1>1, <1>2
  <1>5. QED
    BY <1>1, <1>2, <1>3, <1>4 DEF CeilDiv

(* More bytes in more blocks. *)
LEMMA MoreBlocks ==
  ASSUME NEW k \in Nat, NEW l \in Nat, NEW n \in Nat \ {0},
         l <= k * BlockBytes,
         k > 0 => l > (k - 1) * BlockBytes,
         NEW new \in Nat,
         new = IF n <= k * BlockBytes - l THEN 0 ELSE CeilDiv(n - (k * BlockBytes - l))
  PROVE  /\ l + n <= (k + new) * BlockBytes
         /\ l + n > (k + new - 1) * BlockBytes
  <1>1. BlockBytes \in Nat \ {0}
    BY HttpAssumption
  <1>2. k * BlockBytes \in Nat /\ new * BlockBytes \in Nat
    BY <1>1
  <1>3. /\ (k + new) * BlockBytes = k * BlockBytes + new * BlockBytes
        /\ (k + new - 1) * BlockBytes = k * BlockBytes + (new - 1) * BlockBytes
        /\ (k + new - 1) * BlockBytes = (k - 1) * BlockBytes + new * BlockBytes
    BY <1>1
  <1>4. CASE n <= k * BlockBytes - l
    <2>1. new = 0 /\ new * BlockBytes = 0
      BY <1>1, <1>4
    <2>2. k # 0
      BY <1>1, <1>4
    <2>3. (k - 1) * BlockBytes \in Int
      BY <1>1
    <2>4. QED
      BY <1>2, <1>3, <1>4, <2>1, <2>2, <2>3
  <1>5. CASE ~(n <= k * BlockBytes - l)
    <2> DEFINE m == n - (k * BlockBytes - l)
    <2>1. m \in Nat \ {0}
      BY <1>2, <1>5
    <2>2. /\ (new - 1) * BlockBytes < m
          /\ m <= new * BlockBytes
      BY <1>5, <2>1, CeilBounds
    <2>3. (new - 1) * BlockBytes \in Int
      BY <1>1
    <2>4. QED
      BY <1>2, <1>3, <2>2, <2>3
  <1>6. QED
    BY <1>4, <1>5

LEMMA WindowType == Window \in Int /\ Retirement \in Int
  BY HttpAssumption DEF Window, Retirement, LeastOf

-----------------------------------------------------------------------------
(* Steps that leave alone what a conjunct speaks of. *)

LEMMA TasksKept ==
  ASSUME TasksHaveSlots, UNCHANGED <<serving, phase, listener, slot, lease, blocks, len, failed, emitted>>
  PROVE  TasksHaveSlots'
  BY DEF TasksHaveSlots, Live

LEMMA SlotsKept ==
  ASSUME SlotsBalance, UNCHANGED <<admission, slot>>
  PROVE  SlotsBalance'
  BY DEF SlotsBalance

LEMMA LeasesKept ==
  ASSUME LeasesBalance, UNCHANGED <<active, lease, emitted>>
  PROVE  LeasesBalance'
  BY DEF LeasesBalance, Leased, LeasedData

LEMMA BlocksKept ==
  ASSUME BlocksBalance, UNCHANGED <<output, blocks, emitted>>
  PROVE  BlocksBalance'
  BY DEF BlocksBalance, Charged, ChargedData

LEMMA ChargeKept ==
  ASSUME ChargeIsExact, UNCHANGED <<blocks, len>>,
         \A c \in Connections : phase'[c] = "handling" => phase[c] = "handling"
  PROVE  ChargeIsExact'
  BY DEF ChargeIsExact

LEMMA TimeKept ==
  ASSUME StartedInTime, UNCHANGED <<age, spent>>,
         \A c \in Connections : phase'[c] = "handling" => phase[c] = "handling"
  PROVE  StartedInTime'
  BY DEF StartedInTime

-----------------------------------------------------------------------------
(* Listeners. *)

LEMMA AcceptStep ==
  ASSUME ServingInv, NEW l \in Listeners, NEW c \in Connections, Accept(l, c)
  PROVE  ServingInv'
  <1> USE HttpAssumption DEF Accept, writerVars
  <1>1. HttpTypeOK'
    BY DEF ServingInv, HttpTypeOK, Phases
  <1>2. TasksHaveSlots'
    BY DEF ServingInv, HttpTypeOK, TasksHaveSlots, Live
  <1>3. SlotsBalance'
    BY DEF ServingInv, HttpTypeOK, TasksHaveSlots, SlotsBalance, Live
  <1>4. \A d \in Connections : phase'[d] = "handling" => phase[d] = "handling"
    BY DEF ServingInv, HttpTypeOK
  <1>5. QED
    BY <1>1, <1>2, <1>3, <1>4, LeasesKept, BlocksKept, ChargeKept, TimeKept DEF ServingInv

LEMMA ListenStep ==
  ASSUME ServingInv, Listen \/ Stop \/ Cancel
  PROVE  ServingInv'
  <1>1. ASSUME NEW l \in Listeners, NEW c \in Connections, Accept(l, c) PROVE ServingInv'
    BY <1>1, AcceptStep
  <1>2. ASSUME UNCHANGED <<pools, connectionVars>>, HttpTypeOK', TasksHaveSlots'
        PROVE  ServingInv'
    BY <1>2, SlotsKept, LeasesKept, BlocksKept, ChargeKept, TimeKept
    DEF ServingInv, pools, connectionVars, writerVars
  <1>3. CASE Stop
    <2>1. HttpTypeOK' /\ TasksHaveSlots'
      BY <1>3, TasksKept DEF Stop, ServingInv, HttpTypeOK, pools, connectionVars, writerVars
    <2>2. QED
      BY <1>2, <1>3, <2>1 DEF Stop
  <1>4. CASE Cancel
    <2>1. HttpTypeOK'
      BY <1>4 DEF Cancel, ServingInv, HttpTypeOK, pools, connectionVars, writerVars
    <2>2. TasksHaveSlots'
      BY <1>4 DEF Cancel, ServingInv, HttpTypeOK, TasksHaveSlots, Live, pools, connectionVars, writerVars
    <2>3. QED
      BY <1>2, <1>4, <2>1, <2>2 DEF Cancel
  <1>5. ASSUME NEW l \in Listeners, LoopEnds(l) PROVE ServingInv'
    <2>1. HttpTypeOK'
      BY <1>5 DEF LoopEnds, ServingInv, HttpTypeOK, pools, connectionVars, writerVars
    <2>2. TasksHaveSlots'
      BY <1>5 DEF LoopEnds, ServingInv, HttpTypeOK, TasksHaveSlots, Live, pools, connectionVars, writerVars
    <2>3. QED
      BY <1>2, <1>5, <2>1, <2>2 DEF LoopEnds
  <1>6. ASSUME NEW l \in Listeners, ServeEnds(l) PROVE ServingInv'
    <2>1. HttpTypeOK'
      BY <1>6 DEF ServeEnds, ServingInv, HttpTypeOK, pools, connectionVars, writerVars
    <2>2. TasksHaveSlots'
      BY <1>6 DEF ServeEnds, ServingInv, HttpTypeOK, TasksHaveSlots, Live, pools, connectionVars, writerVars
    <2>3. QED
      BY <1>2, <1>6, <2>1, <2>2 DEF ServeEnds
  <1>7. QED
    BY <1>1, <1>3, <1>4, <1>5, <1>6 DEF Listen

-----------------------------------------------------------------------------
(* The end of a task. *)

LEMMA EndStep ==
  ASSUME ServingInv, NEW c \in Live, End(c)
  PROVE  ServingInv'
  <1> USE HttpAssumption DEF End
  <1>1. c \in Connections /\ slot[c] \in Slots
    BY DEF Live, ServingInv, HttpTypeOK, TasksHaveSlots
  <1>2. Leased(c) \subseteq Leases /\ Charged(c) \subseteq Blocks
    BY <1>1 DEF Leased, LeasedData, Charged, ChargedData, ServingInv, HttpTypeOK
  <1>3. HttpTypeOK'
    BY <1>1, <1>2 DEF ServingInv, HttpTypeOK, Phases
  <1>4. TasksHaveSlots'
    BY <1>1 DEF ServingInv, HttpTypeOK, TasksHaveSlots, Live
  <1>5. SlotsBalance'
    BY <1>1 DEF ServingInv, HttpTypeOK, SlotsBalance
  <1>6. /\ Leased(c)' = {} /\ Charged(c)' = {} /\ blocks'[c] = {} /\ emitted'[c] = {}
        /\ \A d \in Connections \ {c} :
             /\ Leased(d)' = Leased(d) /\ Charged(d)' = Charged(d)
             /\ ChargedData(d)' = ChargedData(d)
             /\ blocks'[d] = blocks[d] /\ emitted'[d] = emitted[d]
    BY <1>1 DEF ServingInv, HttpTypeOK, Leased, LeasedData, Charged, ChargedData
  <1>7. LeasesBalance'
    BY <1>1, <1>2, <1>6 DEF ServingInv, HttpTypeOK, LeasesBalance
  <1>8. BlocksBalance'
    BY <1>1, <1>2, <1>6 DEF ServingInv, HttpTypeOK, BlocksBalance
  <1>9. ChargeIsExact'
    BY <1>1 DEF ServingInv, HttpTypeOK, ChargeIsExact
  <1>10. StartedInTime'
    BY <1>1 DEF ServingInv, HttpTypeOK, StartedInTime
  <1>11. QED
    BY <1>3, <1>4, <1>5, <1>7, <1>8, <1>9, <1>10 DEF ServingInv

-----------------------------------------------------------------------------
(* The rest of a connection's life. *)

LEMMA JoinStep ==
  ASSUME ServingInv, NEW c \in Connections, Join(c)
  PROVE  ServingInv'
  <1> USE DEF Join, pools, writerVars
  <1>1. HttpTypeOK'
    BY DEF ServingInv, HttpTypeOK, Phases
  <1>2. TasksHaveSlots'
    BY DEF ServingInv, HttpTypeOK, TasksHaveSlots, Live
  <1>3. \A d \in Connections : phase'[d] = "handling" => phase[d] = "handling"
    BY DEF ServingInv, HttpTypeOK
  <1>4. QED
    BY <1>1, <1>2, <1>3, SlotsKept, LeasesKept, BlocksKept, ChargeKept, TimeKept DEF ServingInv

LEMMA CloseStep ==
  ASSUME ServingInv, NEW c \in Connections, Close(c)
  PROVE  ServingInv'
  <1> USE DEF Close, pools, writerVars
  <1>1. HttpTypeOK'
    BY DEF ServingInv, HttpTypeOK
  <1>2. QED
    BY <1>1, TasksKept, SlotsKept, LeasesKept, BlocksKept, ChargeKept, TimeKept DEF ServingInv

LEMMA HeaderStep ==
  ASSUME ServingInv, NEW c \in Connections, BeginHeader(c) \/ (phase[c] = "reading" /\ Busy(c))
  PROVE  ServingInv'
  <1> USE DEF BeginHeader, Busy, pools, writerVars
  <1>1. HttpTypeOK'
    BY DEF ServingInv, HttpTypeOK, Phases
  <1>2. TasksHaveSlots'
    BY DEF ServingInv, HttpTypeOK, TasksHaveSlots, Live
  <1>3. \A d \in Connections : phase'[d] = "handling" => phase[d] = "handling"
    BY DEF ServingInv, HttpTypeOK
  <1>4. QED
    BY <1>1, <1>2, <1>3, SlotsKept, LeasesKept, BlocksKept, ChargeKept, TimeKept DEF ServingInv

LEMMA EnterStep ==
  ASSUME ServingInv, NEW c \in Connections, phase[c] = "reading", age[c] < Retirement, Enter(c)
  PROVE  ServingInv'
  <1> USE HttpAssumption, WindowType DEF Enter, writerVars
  <1>1. HttpTypeOK'
    BY DEF ServingInv, HttpTypeOK, Phases
  <1>2. TasksHaveSlots'
    BY DEF ServingInv, HttpTypeOK, TasksHaveSlots, Live
  <1>3. PICK r \in active : active' = active \ {r} /\ lease' = [lease EXCEPT ![c] = r]
    OBVIOUS
  <1>4. r \in Leases /\ lease[c] = NoLease
    BY <1>3 DEF ServingInv, HttpTypeOK, TasksHaveSlots
  <1>5. /\ Leased(c)' = Leased(c) \cup {r}
        /\ \A d \in Connections \ {c} : Leased(d)' = Leased(d)
    BY <1>3, <1>4 DEF ServingInv, HttpTypeOK, Leased, LeasedData
  <1>6. LeasesBalance'
    BY <1>3, <1>4, <1>5 DEF ServingInv, HttpTypeOK, LeasesBalance
  <1>7. ChargeIsExact'
    <2>1. blocks[c] = {} /\ len[c] = 0
      BY DEF ServingInv, HttpTypeOK, TasksHaveSlots
    <2>2. Cardinality({}) = 0
      BY FS_EmptySet
    <2>3. blocks' = blocks /\ len' = len /\ BlockBytes \in Nat
      OBVIOUS
    <2>4. len'[c] <= Cardinality(blocks'[c]) * BlockBytes /\ blocks'[c] = {}
      BY <2>1, <2>2, <2>3
    <2>5. ASSUME NEW d \in Connections \ {c}, phase'[d] = "handling"
          PROVE  /\ len'[d] <= Cardinality(blocks'[d]) * BlockBytes
                 /\ blocks'[d] # {} => len'[d] > (Cardinality(blocks'[d]) - 1) * BlockBytes
      <3>1. phase[d] = "handling"
        BY <2>5 DEF ServingInv, HttpTypeOK
      <3>2. QED
        BY <2>3, <3>1 DEF ServingInv, ChargeIsExact
    <2>6. QED
      BY <2>4, <2>5 DEF ChargeIsExact
  <1>8. StartedInTime'
    BY DEF ServingInv, HttpTypeOK, StartedInTime
  <1>9. QED
    BY <1>1, <1>2, <1>6, <1>7, <1>8, SlotsKept, BlocksKept DEF ServingInv

LEMMA ConnectStep ==
  ASSUME ServingInv, NEW c \in Connections, Connect(c)
  PROVE  ServingInv'
  <1>1. CASE HangUp(c) \/ Abort(c) \/ Expire(c)
    BY <1>1, EndStep DEF HangUp, Abort, Expire
  <1>2. CASE CloseIdle(c)
    BY <1>2, EndStep DEF CloseIdle, Live
  <1>3. CASE Dispatch(c)
    BY <1>3, EndStep, EnterStep, HeaderStep DEF Dispatch, Live
  <1>4. QED
    BY <1>1, <1>2, <1>3, JoinStep, CloseStep, HeaderStep DEF Connect

-----------------------------------------------------------------------------
(* Responses. *)

LEMMA NewBlocksType ==
  ASSUME ServingInv, NEW c \in Connections, NEW n \in Nat \ {0}, phase[c] = "handling"
  PROVE  /\ NewBlocks(c, n) \in Nat
         /\ IsFiniteSet(blocks[c]) /\ Cardinality(blocks[c]) \in Nat
  <1> DEFINE tail == Cardinality(blocks[c]) * BlockBytes - len[c]
  <1>1. IsFiniteSet(blocks[c]) /\ Cardinality(blocks[c]) \in Nat
    BY HttpAssumption, FS_Subset, FS_CardinalityType DEF ServingInv, HttpTypeOK
  <1>2. tail \in Nat
    BY <1>1, HttpAssumption DEF ServingInv, HttpTypeOK, ChargeIsExact
  <1>3. CASE n <= tail
    BY <1>1, <1>3 DEF NewBlocks
  <1>4. CASE ~(n <= tail)
    <2>1. n - tail \in Nat \ {0}
      BY <1>2, <1>4
    <2>2. QED
      BY <1>1, <1>4, <2>1, CeilBounds DEF NewBlocks
  <1>5. QED
    BY <1>1, <1>3, <1>4

LEMMA AppendStep ==
  ASSUME ServingInv, NEW c \in Connections, NEW n \in Pieces, Append(c, n)
  PROVE  ServingInv'
  <1> USE HttpAssumption
  <1>0. n \in Nat \ {0} /\ len[c] \in Nat
    BY DEF Pieces, ServingInv, HttpTypeOK
  <1>1. PICK taken \in SUBSET output :
          /\ Cardinality(taken) = NewBlocks(c, n)
          /\ output' = output \ taken
          /\ blocks' = [blocks EXCEPT ![c] = @ \cup taken]
    BY DEF Append
  <1>2. taken \subseteq Blocks /\ blocks[c] \subseteq Blocks
    BY DEF ServingInv, HttpTypeOK
  <1>3. HttpTypeOK'
    BY <1>0, <1>1, <1>2 DEF Append, ServingInv, HttpTypeOK
  <1>4. TasksHaveSlots'
    BY <1>0, <1>1 DEF Append, ServingInv, HttpTypeOK, TasksHaveSlots, Live
  <1>5. /\ Charged(c)' = Charged(c) \cup taken /\ ChargedData(c)' = ChargedData(c)
        /\ \A d \in Connections \ {c} :
             /\ Charged(d)' = Charged(d) /\ ChargedData(d)' = ChargedData(d)
             /\ blocks'[d] = blocks[d]
    BY <1>1 DEF Append, ServingInv, HttpTypeOK, Charged, ChargedData
  <1>6. taken \cap Charged(c) = {} /\ \A d \in Connections : taken \cap Charged(d) = {}
    BY <1>2 DEF ServingInv, BlocksBalance
  <1>7. BlocksBalance'
    <2>1. ChargedData(c) \subseteq Charged(c) /\ emitted' = emitted
      BY DEF Charged, Append
    <2>2. blocks'[c] = blocks[c] \cup taken
      BY <1>1 DEF ServingInv, HttpTypeOK
    <2>3. \A b \in Blocks : b \in output' <=> \A d \in Connections : b \notin Charged(d)'
      BY <1>1, <1>5, <1>6 DEF ServingInv, BlocksBalance
    <2>4. \A d, e \in Connections : d # e => Charged(d)' \cap Charged(e)' = {}
      BY <1>5, <1>6 DEF ServingInv, BlocksBalance
    <2>5. \A d \in Connections : blocks'[d] \cap ChargedData(d)' = {}
      BY <1>5, <1>6, <2>1, <2>2 DEF ServingInv, BlocksBalance
    <2>6. QED
      BY <2>1, <2>3, <2>4, <2>5 DEF ServingInv, BlocksBalance
  <1>8. ChargeIsExact'
    <2>1. /\ IsFiniteSet(blocks[c]) /\ Cardinality(blocks[c]) \in Nat
          /\ NewBlocks(c, n) \in Nat
      BY <1>0, NewBlocksType DEF Append
    <2>2. IsFiniteSet(taken) /\ blocks[c] \cap taken = {}
      BY <1>2, <1>6, FS_Subset DEF Charged
    <2>3. Cardinality(blocks[c] \cup taken) = Cardinality(blocks[c]) + NewBlocks(c, n)
      <3>1. Cardinality(blocks[c] \cup taken)
              = Cardinality(blocks[c]) + Cardinality(taken) - Cardinality(blocks[c] \cap taken)
        BY <2>1, <2>2, FS_Union
      <3>2. Cardinality(blocks[c] \cap taken) = 0
        BY <2>2, FS_EmptySet
      <3>3. QED
        BY <1>1, <2>1, <3>1, <3>2
    <2>4. /\ len[c] <= Cardinality(blocks[c]) * BlockBytes
          /\ Cardinality(blocks[c]) > 0 => len[c] > (Cardinality(blocks[c]) - 1) * BlockBytes
      BY <2>1, FS_EmptySet DEF Append, ServingInv, ChargeIsExact
    <2>5. /\ len[c] + n <= (Cardinality(blocks[c]) + NewBlocks(c, n)) * BlockBytes
          /\ len[c] + n > (Cardinality(blocks[c]) + NewBlocks(c, n) - 1) * BlockBytes
      BY <1>0, <2>1, <2>4, MoreBlocks DEF NewBlocks
    <2>6. /\ blocks'[c] = blocks[c] \cup taken /\ len'[c] = len[c] + n
          /\ \A d \in Connections \ {c} : blocks'[d] = blocks[d] /\ len'[d] = len[d]
          /\ phase' = phase
      BY <1>1 DEF Append, ServingInv, HttpTypeOK
    <2>7. /\ len'[c] <= Cardinality(blocks'[c]) * BlockBytes
          /\ len'[c] > (Cardinality(blocks'[c]) - 1) * BlockBytes
      <3>1. /\ Cardinality(blocks'[c]) = Cardinality(blocks[c]) + NewBlocks(c, n)
            /\ len'[c] = len[c] + n
        BY <2>3, <2>6
      <3>2. QED
        BY <1>0, <2>1, <2>5, <3>1
    <2>8. ASSUME NEW d \in Connections \ {c}, phase'[d] = "handling"
          PROVE  /\ len'[d] <= Cardinality(blocks'[d]) * BlockBytes
                 /\ blocks'[d] # {} => len'[d] > (Cardinality(blocks'[d]) - 1) * BlockBytes
      BY <2>6, <2>8 DEF ServingInv, ChargeIsExact
    <2>9. QED
      BY <2>7, <2>8 DEF ChargeIsExact
  <1>9. QED
    BY <1>3, <1>4, <1>7, <1>8, SlotsKept, LeasesKept, TimeKept DEF Append, ServingInv

LEMMA FailStep ==
  ASSUME ServingInv, NEW c \in Connections, NEW n \in Pieces, AppendFails(c, n)
  PROVE  ServingInv'
  <1> USE DEF AppendFails, pools
  <1>1. HttpTypeOK'
    BY DEF ServingInv, HttpTypeOK
  <1>2. TasksHaveSlots'
    BY DEF ServingInv, HttpTypeOK, TasksHaveSlots, Live
  <1>3. QED
    BY <1>1, <1>2, SlotsKept, LeasesKept, BlocksKept, ChargeKept, TimeKept DEF ServingInv

LEMMA FinishStep ==
  ASSUME ServingInv, NEW c \in Connections, Finish(c)
  PROVE  ServingInv'
  <1> USE DEF Finish, pools
  <1>1. HttpTypeOK'
    BY HttpAssumption DEF ServingInv, HttpTypeOK, Phases
  <1>2. TasksHaveSlots'
    BY DEF ServingInv, HttpTypeOK, TasksHaveSlots, Live
  <1>3. \A d \in Connections : phase'[d] = "handling" =>
          phase[d] = "handling" /\ len'[d] = len[d]
    BY DEF ServingInv, HttpTypeOK
  <1>4. ChargeIsExact'
    BY <1>3 DEF ServingInv, ChargeIsExact
  <1>5. QED
    BY <1>1, <1>2, <1>3, <1>4, SlotsKept, LeasesKept, BlocksKept, TimeKept DEF ServingInv

(* What the writer or the body had returns to the budget. *)
LEMMA DropWriterBlocks ==
  ASSUME ServingInv, NEW c \in Connections, DropWriter(c), UNCHANGED emitted,
         phase'[c] # "handling", \A d \in Connections \ {c} : phase'[d] = phase[d]
  PROVE  /\ output' \subseteq Blocks
         /\ blocks' \in [Connections -> SUBSET Blocks]
         /\ len' \in [Connections -> 0..MaxResponse]
         /\ failed' \in [Connections -> BOOLEAN]
         /\ BlocksBalance' /\ ChargeIsExact'
  <1> USE DEF DropWriter
  <1>1. /\ blocks'[c] = {}
        /\ \A d \in Connections \ {c} : blocks'[d] = blocks[d] /\ len'[d] = len[d]
        /\ \A d \in Connections : ChargedData(d)' = ChargedData(d)
    BY DEF ServingInv, HttpTypeOK, ChargedData
  <1>2. /\ blocks[c] \subseteq Blocks
        /\ Charged(c) = blocks[c] \cup ChargedData(c) /\ Charged(c)' = ChargedData(c)
        /\ \A d \in Connections \ {c} : Charged(d)' = Charged(d)
    BY <1>1 DEF ServingInv, HttpTypeOK, Charged
  <1>3. BlocksBalance'
    <2>1. \A b \in Blocks : b \in output' <=> \A d \in Connections : b \notin Charged(d)'
      BY <1>1, <1>2 DEF ServingInv, BlocksBalance
    <2>2. \A d, e \in Connections : d # e => Charged(d)' \cap Charged(e)' = {}
      BY <1>2 DEF ServingInv, BlocksBalance
    <2>3. \A d \in Connections : blocks'[d] \cap ChargedData(d)' = {}
      BY <1>1 DEF ServingInv, BlocksBalance
    <2>4. QED
      BY <2>1, <2>2, <2>3 DEF ServingInv, BlocksBalance
  <1>4. ChargeIsExact'
    BY <1>1 DEF ServingInv, ChargeIsExact
  <1>5. QED
    BY <1>2, <1>3, <1>4, HttpAssumption DEF ServingInv, HttpTypeOK

LEMMA PageStep ==
  ASSUME ServingInv, NEW c \in Connections, FixedPage(c)
  PROVE  ServingInv'
  <1> USE DEF FixedPage
  <1>1. \A d \in Connections : phase'[d] = "handling" => phase[d] = "handling"
    BY DEF ServingInv, HttpTypeOK
  <1>2. /\ output' \subseteq Blocks
        /\ blocks' \in [Connections -> SUBSET Blocks]
        /\ len' \in [Connections -> 0..MaxResponse]
        /\ failed' \in [Connections -> BOOLEAN]
        /\ BlocksBalance' /\ ChargeIsExact'
    BY DropWriterBlocks DEF ServingInv, HttpTypeOK
  <1>3. HttpTypeOK'
    BY <1>2 DEF ServingInv, HttpTypeOK, Phases
  <1>4. TasksHaveSlots'
    BY DEF DropWriter, ServingInv, HttpTypeOK, TasksHaveSlots, Live
  <1>5. QED
    BY <1>1, <1>2, <1>3, <1>4, SlotsKept, LeasesKept, TimeKept DEF ServingInv

(* The body's hold on the lease goes; data may still have it. *)
LEMMA LetGoLeases ==
  ASSUME ServingInv, NEW c \in Connections, LetGo(c), UNCHANGED emitted,
         phase[c] \in {"handling", "sending"}
  PROVE  /\ active' \subseteq Leases
         /\ lease' \in [Connections -> Leases \cup {NoLease}]
         /\ phase' \in [Connections -> Phases]
         /\ LeasesBalance'
  <1> USE HttpAssumption DEF LetGo
  <1>1. lease[c] \in Leases
    BY DEF ServingInv, HttpTypeOK, TasksHaveSlots
  <1>2. /\ Leased(c) = LeasedData(c) \cup {lease[c]} /\ Leased(c)' = LeasedData(c)
        /\ \A d \in Connections \ {c} : Leased(d)' = Leased(d)
    BY <1>1 DEF ServingInv, HttpTypeOK, Leased, LeasedData
  <1>3. LeasesBalance'
    <2>1. \A r \in Leases : r \in active' <=> \A d \in Connections : r \notin Leased(d)'
      BY <1>1, <1>2 DEF ServingInv, LeasesBalance
    <2>2. \A d, e \in Connections : d # e => Leased(d)' \cap Leased(e)' = {}
      BY <1>2 DEF ServingInv, LeasesBalance
    <2>3. QED
      BY <2>1, <2>2 DEF LeasesBalance
  <1>4. QED
    BY <1>1, <1>3 DEF ServingInv, HttpTypeOK, Phases

LEMMA ReleaseStep ==
  ASSUME ServingInv, NEW c \in Connections, EmptyResponse(c) \/ DropBody(c)
  PROVE  ServingInv'
  <1> USE DEF EmptyResponse, DropBody
  <1>1. \A d \in Connections : phase'[d] = "handling" => phase[d] = "handling" /\ d # c
    BY DEF LetGo, ServingInv, HttpTypeOK
  <1>2. /\ output' \subseteq Blocks
        /\ blocks' \in [Connections -> SUBSET Blocks]
        /\ len' \in [Connections -> 0..MaxResponse]
        /\ failed' \in [Connections -> BOOLEAN]
        /\ BlocksBalance' /\ ChargeIsExact'
    BY DropWriterBlocks DEF LetGo, ServingInv, HttpTypeOK
  <1>3. /\ active' \subseteq Leases
        /\ lease' \in [Connections -> Leases \cup {NoLease}]
        /\ phase' \in [Connections -> Phases]
        /\ LeasesBalance'
    BY LetGoLeases
  <1>4. HttpTypeOK'
    BY <1>2, <1>3 DEF ServingInv, HttpTypeOK
  <1>5. TasksHaveSlots'
    BY DEF DropWriter, LetGo, ServingInv, HttpTypeOK, TasksHaveSlots, Live
  <1>6. QED
    BY <1>1, <1>2, <1>3, <1>4, <1>5, SlotsKept, TimeKept DEF ServingInv

LEMMA SendStep ==
  ASSUME ServingInv, NEW c \in Connections, SendData(c)
  PROVE  ServingInv'
  <1> USE HttpAssumption DEF SendData, pools, writerVars
  <1>1. lease[c] \in Leases /\ blocks[c] \subseteq Blocks /\ emitted[c] \subseteq Data
    BY DEF ServingInv, HttpTypeOK, TasksHaveSlots
  <1>2. PICK b \in IF blocks[c] = {} THEN {NoBlock} ELSE blocks[c] :
          /\ emitted' = [emitted EXCEPT ![c] = @ \cup {[block |-> b, lease |-> lease[c]]}]
          /\ blocks' = [blocks EXCEPT ![c] = @ \ {b}]
          /\ IF blocks[c] \subseteq {b}
             THEN /\ lease' = [lease EXCEPT ![c] = NoLease]
                  /\ phase' = [phase EXCEPT ![c] = "waiting"]
             ELSE UNCHANGED <<lease, phase>>
    OBVIOUS
  <1> DEFINE new == [block |-> b, lease |-> lease[c]]
  <1>3. new \in Data /\ new.block = b /\ new.lease = lease[c]
    BY <1>1 DEF Data
  <1>4. /\ emitted'[c] = emitted[c] \cup {new} /\ blocks'[c] = blocks[c] \ {b}
        /\ \A d \in Connections \ {c} :
             emitted'[d] = emitted[d] /\ blocks'[d] = blocks[d] /\ lease'[d] = lease[d]
        /\ lease'[c] \in {lease[c], NoLease}
    BY <1>2 DEF ServingInv, HttpTypeOK
  <1>5. HttpTypeOK'
    BY <1>1, <1>2, <1>3 DEF ServingInv, HttpTypeOK, Phases
  <1>6. TasksHaveSlots'
    BY <1>1, <1>2, <1>4 DEF ServingInv, HttpTypeOK, TasksHaveSlots, Live
  <1>7. LeasesBalance'
    <2>1. \A d \in Connections : Leased(d)' = Leased(d)
      BY <1>1, <1>3, <1>4 DEF Leased, LeasedData
    <2>2. QED
      BY <2>1 DEF ServingInv, LeasesBalance
  <1>8. BlocksBalance'
    <2>1. ChargedData(c)' = ChargedData(c) \cup ({b} \cap Blocks)
      BY <1>3, <1>4 DEF ChargedData
    <2>2. \A d \in Connections \ {c} : ChargedData(d)' = ChargedData(d)
      BY <1>4 DEF ChargedData
    <2>3. \A d \in Connections : Charged(d)' = Charged(d)
      BY <1>1, <1>2, <1>4, <2>1, <2>2 DEF Charged
    <2>4. \A d \in Connections : blocks'[d] \cap ChargedData(d)' = {}
      BY <1>4, <2>1, <2>2 DEF ServingInv, BlocksBalance
    <2>5. ASSUME NEW e \in emitted'[c], NEW f \in emitted'[c],
                 e.block = f.block, e.block # NoBlock
          PROVE  e = f
      <3>1. \A g \in emitted[c] : g.block # NoBlock => g.block # b
        BY <1>1, <1>2 DEF ServingInv, BlocksBalance, ChargedData, Data
      <3>2. QED
        BY <1>3, <1>4, <2>5, <3>1 DEF ServingInv, BlocksBalance
    <2>6. QED
      BY <1>4, <2>3, <2>4, <2>5 DEF ServingInv, BlocksBalance
  <1>9. \A d \in Connections : phase'[d] = "handling" =>
          phase[d] = "handling" /\ blocks'[d] = blocks[d]
    BY <1>2, <1>4 DEF ServingInv, HttpTypeOK
  <1>10. ChargeIsExact'
    BY <1>9 DEF ServingInv, ChargeIsExact
  <1>11. QED
    BY <1>5, <1>6, <1>7, <1>8, <1>9, <1>10, SlotsKept, TimeKept DEF ServingInv

LEMMA FlushStep ==
  ASSUME ServingInv, NEW c \in Connections, NEW e \in emitted[c], Flush(c, e)
  PROVE  ServingInv'
  <1> USE HttpAssumption DEF Flush, writerVars
  <1>1. e \in Data /\ e.lease \in Leases /\ e.block \in Blocks \cup {NoBlock}
    BY DEF ServingInv, HttpTypeOK, Data
  <1>2. /\ emitted'[c] = emitted[c] \ {e}
        /\ \A d \in Connections \ {c} : emitted'[d] = emitted[d]
    BY DEF ServingInv, HttpTypeOK
  <1>3. HttpTypeOK'
    BY <1>1 DEF ServingInv, HttpTypeOK
  <1>4. TasksHaveSlots'
    BY <1>2 DEF ServingInv, HttpTypeOK, TasksHaveSlots, Live
  <1>5. LeasesBalance'
    <2>1. \A d \in Connections \ {c} : Leased(d)' = Leased(d)
      BY <1>2 DEF Leased, LeasedData
    <2>2. e.lease \in Leased(c)
      BY <1>1 DEF Leased, LeasedData
    <2>3. CASE LastOwner(c, e)
      <3>1. Leased(c)' = Leased(c) \ {e.lease}
        BY <1>1, <1>2, <2>3 DEF Leased, LeasedData, LastOwner
      <3>2. active' = active \cup {e.lease}
        BY <2>3
      <3>3. QED
        BY <1>1, <2>1, <2>2, <3>1, <3>2 DEF ServingInv, LeasesBalance
    <2>4. CASE ~LastOwner(c, e)
      <3>1. Leased(c)' = Leased(c)
        BY <1>1, <1>2, <2>4 DEF Leased, LeasedData, LastOwner
      <3>2. active' = active
        BY <2>4
      <3>3. QED
        BY <2>1, <3>1, <3>2 DEF ServingInv, LeasesBalance
    <2>5. QED
      BY <2>3, <2>4
  <1>6. BlocksBalance'
    <2>1. \A d \in Connections \ {c} :
            ChargedData(d)' = ChargedData(d) /\ Charged(d)' = Charged(d)
      BY <1>2 DEF ChargedData, Charged
    <2>2. ChargedData(c)' = ChargedData(c) \ {e.block}
      BY <1>2 DEF ServingInv, BlocksBalance, ChargedData
    <2>3. /\ {e.block} \cap Blocks \subseteq ChargedData(c)
          /\ blocks[c] \subseteq Blocks /\ ChargedData(c) \subseteq Blocks
      BY DEF ServingInv, HttpTypeOK, ChargedData
    <2>4. Charged(c)' = Charged(c) \ ({e.block} \cap Blocks)
      BY <2>2, <2>3 DEF ServingInv, BlocksBalance, Charged
    <2>5. \A b \in Blocks : b \in output' <=> \A d \in Connections : b \notin Charged(d)'
      BY <2>1, <2>3, <2>4 DEF ServingInv, BlocksBalance, Charged
    <2>6. \A d, f \in Connections : d # f => Charged(d)' \cap Charged(f)' = {}
      BY <2>1, <2>4 DEF ServingInv, BlocksBalance
    <2>7. \A d \in Connections : blocks'[d] \cap ChargedData(d)' = {}
      BY <2>1, <2>2 DEF ServingInv, BlocksBalance
    <2>8. \A d \in Connections : emitted'[d] \subseteq emitted[d]
      BY <1>2
    <2>9. QED
      BY <2>5, <2>6, <2>7, <2>8 DEF ServingInv, BlocksBalance
  <1>7. QED
    BY <1>3, <1>4, <1>5, <1>6, SlotsKept, ChargeKept, TimeKept DEF ServingInv

-----------------------------------------------------------------------------
(* Time, and the theorems. *)

LEMMA TickStep ==
  ASSUME ServingInv, Tick
  PROVE  ServingInv'
  <1> USE HttpAssumption, WindowType DEF Tick, pools, writerVars
  <1>1. \A c \in Connections : age[c] \in Nat /\ spent[c] \in Nat
    BY DEF ServingInv, HttpTypeOK
  <1>2. StartedInTime'
    BY <1>1 DEF ServingInv, HttpTypeOK, StartedInTime, Live
  <1>3. HttpTypeOK'
    BY <1>1 DEF ServingInv, HttpTypeOK, StartedInTime
  <1>4. QED
    BY <1>2, <1>3, TasksKept, SlotsKept, LeasesKept, BlocksKept, ChargeKept DEF ServingInv

LEMMA ServingStep ==
  ASSUME ServingInv, [HttpNext]_vars
  PROVE  ServingInv'
  <1>1. CASE UNCHANGED vars
    <2>1. HttpTypeOK'
      BY <1>1 DEF ServingInv, HttpTypeOK, vars, pools, connectionVars, writerVars
    <2>2. QED
      BY <1>1, <2>1, TasksKept, SlotsKept, LeasesKept, BlocksKept, ChargeKept, TimeKept
      DEF ServingInv, vars, pools, connectionVars, writerVars
  <1>2. ASSUME NEW c \in Connections, Answer(c) PROVE ServingInv'
    BY <1>2, AppendStep, FailStep, FinishStep, PageStep, ReleaseStep, SendStep, FlushStep
    DEF Answer, HandlerTimesOut
  <1>3. QED
    BY <1>1, <1>2, ListenStep, ConnectStep, TickStep DEF HttpNext

LEMMA ServingInit == HttpInit => ServingInv
  <1> SUFFICES ASSUME HttpInit PROVE ServingInv
    OBVIOUS
  <1> USE HttpAssumption DEF HttpInit
  <1>1. HttpTypeOK
    <2>1. 0 \in 0..ConnectionTimeout /\ 0 \in 0..MaxResponse /\ "free" \in Phases
      BY DEF Phases
    <2>2. \A c \in Connections : {} \in SUBSET Blocks /\ {} \in SUBSET Data
      OBVIOUS
    <2>3. /\ blocks \in [Connections -> SUBSET Blocks]
          /\ emitted \in [Connections -> SUBSET Data]
      BY <2>2
    <2>4. QED
      BY <2>1, <2>3 DEF HttpTypeOK
  <1>2. TasksHaveSlots /\ SlotsBalance
    BY DEF TasksHaveSlots, SlotsBalance, Live
  <1>3. \A c \in Connections : Leased(c) = {} /\ Charged(c) = {} /\ ChargedData(c) = {}
    BY DEF Leased, LeasedData, Charged, ChargedData
  <1>4. LeasesBalance /\ BlocksBalance
    BY <1>3 DEF LeasesBalance, BlocksBalance
  <1>5. ChargeIsExact /\ StartedInTime
    BY DEF ChargeIsExact, StartedInTime
  <1>6. QED
    BY <1>1, <1>2, <1>4, <1>5 DEF ServingInv

\* Slots, leases and blocks are free or have one owner, however connections end
\* and responses fail (crates/http/src/transport.rs, output.rs, lib.rs).
THEOREM ServingInvariant == HttpSpec => []ServingInv
  <1>1. HttpInit => ServingInv
    BY ServingInit
  <1>2. ServingInv /\ [HttpNext]_vars => ServingInv'
    BY ServingStep
  <1>3. QED
    BY <1>1, <1>2, PTL DEF HttpSpec

LEMMA TimeIsEnough == ServingInv => RequestsHaveTime
  <1> SUFFICES ASSUME ServingInv, NEW c \in Connections,
                      phase[c] = "handling", age[c] = ConnectionTimeout
               PROVE  spent[c] >= Window
    BY DEF RequestsHaveTime
  <1>1. spent[c] \in Nat /\ ConnectionTimeout \in Nat
    BY HttpAssumption DEF ServingInv, HttpTypeOK
  <1>2. ConnectionTimeout - spent[c] < ConnectionTimeout - Window
    BY DEF ServingInv, StartedInTime, Retirement
  <1>3. QED
    BY <1>1, <1>2, WindowType

\* The deadline of a connection leaves a handler the whole window
\* (crates/http/src/transport.rs:25, 188-193).
THEOREM TimeForRequests == HttpSpec => []RequestsHaveTime
  BY ServingInvariant, TimeIsEnough, PTL
=============================================================================
