---------------------------- MODULE StreamIn_proofs ----------------------------
(***************************************************************************)
(* Theorems about StreamIn, for every heap, block size, bound and set of   *)
(* configurations in which the line is silent during the last stores of    *)
(* request_read where the platform has the receive interrupt enabled by    *)
(* then.                                                                   *)
(*                                                                         *)
(* The second part shows that StreamIn implements ByteChannel.  A function *)
(* st numbers the bytes of the blocks: st[b] is how many bytes were        *)
(* received before the first one of block b; e is how many were received   *)
(* before the first one of the block lent to the port.                     *)
(***************************************************************************)
EXTENDS StreamIn, FiniteSetTheorems, SequenceTheorems, TLAPS

(* Where the main thread can be, and which of its locals are in use.       *)
Control ==
    /\ qHead + qCount <= BlockSize
    /\ pc \in {"idle", "read", "fetch"} => item = NULL
    /\ pc \notin {"idle", "read", "halted"} => ~bIsQueueInitialised
    /\ bIsQueueInitialised => ptUsedByQueue # NULL
    /\ pc \in {"buffer", "size", "index", "enable"} => got # NULL
    /\ hwTimeoutCounter # 0 => cfg.Timeout # 0

(* The main thread has a block for the port and sets the port up for it.   *)
Setting == pc \in {"assign", "reload", "buffer", "size", "index", "enable"}

(* A port without a block stores nothing and runs into no timeout.         *)
PortOff ==
    ptUsedByOutside = NULL =>
        /\ ptBlock = NULL
        /\ rxIrq => pchBuffer = NULL /\ hwIndex = 0 /\ cfg.EnabledAtInit
        /\ hwTimeoutCounter = 0 \/ hwIndex = 0

(* A port that is being set up neither, until the last store.              *)
PortSetting ==
    /\ pc = "exchange" => ptUsedByOutside = NULL
    /\ pc = "assign" => ptBlock = NULL
    /\ Setting => /\ got = ptUsedByOutside
                  /\ rxIrq => hwIndex = 0 /\ cfg.EnabledAtInit
                  /\ hwTimeoutCounter = 0 \/ hwIndex = 0
    /\ pc \in {"assign", "reload", "buffer"} /\ rxIrq => pchBuffer = NULL
    /\ Setting /\ pc # "assign" => ptBlock = got
    /\ pc \in {"size", "index", "enable"} => pchBuffer = got
    /\ pc = "size" /\ rxIrq => hwSize = 0
    /\ pc \in {"index", "enable"} => hwSize = Size[got]
    /\ pc = "enable" => hwIndex = 0
    /\ pchBuffer = NULL => hwSize = 0

(* A port that has been set up stores into its own block.                  *)
PortOn ==
    ptUsedByOutside # NULL =>
        /\ Size[ptUsedByOutside] # 0
        /\ ~Setting => /\ rxIrq /\ ptBlock = ptUsedByOutside /\ pchBuffer = ptBlock
                       /\ hwSize = Size[ptBlock] /\ hwIndex < hwSize

(* It goes without a block only when the heap has none for it.             *)
Served ==
    ptUsedByOutside = NULL /\ pchBuffer # NULL /\ pc \notin {"fetch", "check", "exchange"}
        => Cardinality(pool) <= cfg.chReservedBlock

(* All this until a handler is left without a block while the timeout is   *)
(* in use.                                                                 *)
Port == ~starved => /\ pc # "halted" /\ old = NULL
                    /\ PortOff /\ PortSetting /\ PortOn /\ Served

IInv == TypeOK /\ Control /\ OneOwner /\ Port

--------------------------------------------------------------------------------
(* The operators of the actors keep the types of what they assign.         *)

(* What BLOCK_QUEUE.Dequeue returns and leaves. *)
LEMMA QueueEnds ==
    ASSUME list \in Seq(Blocks)
    PROVE  /\ First(list) \in Ptr /\ Rest(list) \in Seq(Blocks)
           /\ First(list) = NULL => list = <<>> /\ Rest(list) = <<>>
           /\ First(list) # NULL => list # <<>> /\ First(list) = Head(list)
BY BlocksAssumption DEF First, Rest, Ptr

(* A new block has room for a byte. *)
LEMMA NewSizeType ==
    ASSUME TypeOK
    PROVE  NewSize \in 1..BlockSize
<1>1. cfg.chBlockReservedSize \in Nat
    BY ConfigsAssumption DEF TypeOK
<1> QED
    BY <1>1, SizeAssumption DEF NewSize

(* The heap gives a block, or the heap is down to the reserve. *)
LEMMA AvailableType ==
    ASSUME TypeOK, NEW new \in Available
    PROVE  /\ new \in Ptr
           /\ new # NULL => new \in pool /\ new \in Blocks
           /\ new = NULL => Cardinality(pool) <= cfg.chReservedBlock
<1>1. cfg.chReservedBlock \in Nat /\ pool \subseteq Blocks
    BY ConfigsAssumption DEF TypeOK
<1>2. Cardinality(pool) \in Nat
    BY <1>1, BlocksAssumption, FS_Subset, FS_CardinalityType
<1> QED
    BY <1>1, <1>2, BlocksAssumption DEF Available, Ptr

(* Exchange, with the sizes its caller leaves. *)
LEMMA ExchangeType ==
    ASSUME TypeOK, NEW b \in Ptr, NEW new \in Available,
           NEW size \in [Blocks -> 0..BlockSize], Exchange(b, new, size)
    PROVE  /\ list' \in Seq(Blocks)
           /\ IsDataAvailable' \in BOOLEAN /\ IsBlockBufferDrain' \in BOOLEAN
           /\ pool' \subseteq Blocks /\ Size' \in [Blocks -> 0..BlockSize]
           /\ ptUsedByOutside' \in Ptr
<1>1. list' \in Seq(Blocks)
    BY DEF Exchange, TypeOK, Ptr
<1>2. IsDataAvailable' \in BOOLEAN /\ IsBlockBufferDrain' \in BOOLEAN
    BY DEF Exchange, TypeOK
<1>3. pool' \subseteq Blocks /\ ptUsedByOutside' \in Ptr
    BY AvailableType DEF Exchange, TypeOK
<1>4. Size' \in [Blocks -> 0..BlockSize]
    <2>1. NewSize \in 0..BlockSize
        BY NewSizeType, SizeAssumption
    <2> QED
        BY <2>1 DEF Exchange
<1> QED
    BY <1>1, <1>2, <1>3, <1>4

(* request_read. *)
LEMMA RequestReadType ==
    ASSUME TypeOK, NEW size \in [Blocks -> 0..BlockSize], NEW index \in Nat,
           NEW irq \in BOOLEAN, RequestRead(size, index, irq)
    PROVE  /\ list' \in Seq(Blocks)
           /\ IsDataAvailable' \in BOOLEAN /\ IsBlockBufferDrain' \in BOOLEAN
           /\ pool' \subseteq Blocks /\ Size' \in [Blocks -> 0..BlockSize]
           /\ ptUsedByOutside' \in Ptr
           /\ ptBlock' \in Ptr /\ pchBuffer' \in Ptr
           /\ hwSize' \in 0..BlockSize /\ hwIndex' \in Nat
           /\ rxIrq' \in BOOLEAN /\ starved' \in BOOLEAN
<1>1. PICK new \in Available :
        /\ Exchange(ptBlock, new, size)
        /\ ptBlock' = new
        /\ IF new = NULL
           THEN UNCHANGED <<pchBuffer, hwSize>> /\ hwIndex' = index /\ rxIrq' = irq
           ELSE pchBuffer' = new /\ hwSize' = NewSize /\ hwIndex' = 0 /\ rxIrq' = TRUE
        /\ starved' = (starved \/ (new = NULL /\ cfg.Timeout # 0))
    BY DEF RequestRead
<1>2. ptBlock \in Ptr /\ starved \in BOOLEAN /\ pchBuffer \in Ptr /\ hwSize \in 0..BlockSize
    BY DEF TypeOK
<1>3. NewSize \in 0..BlockSize
    BY NewSizeType, SizeAssumption
<1>4. new \in Ptr
    BY AvailableType
<1>5. /\ ptBlock' \in Ptr /\ pchBuffer' \in Ptr
      /\ hwSize' \in 0..BlockSize /\ hwIndex' \in Nat /\ rxIrq' \in BOOLEAN
    <2>1. CASE new = NULL
        BY <1>1, <1>2, <1>4, <2>1
    <2>2. CASE new # NULL
        BY <1>1, <1>3, <1>4, <2>2
    <2> QED
        BY <2>1, <2>2
<1>6. starved' \in BOOLEAN
    BY <1>1, <1>2
<1> QED
    BY <1>1, <1>2, <1>5, <1>6, ExchangeType

--------------------------------------------------------------------------------
(* Every step of the main thread and of the two handlers keeps every       *)
(* variable in its C type.                                                 *)
LEMMA TypeStep ==
    ASSUME TypeOK, Control, Next
    PROVE  TypeOK'
<1> USE DEF Ptr, heap, status, queue, filling, adapter, history
<1>1. CASE CallRead
    BY <1>1 DEF CallRead, TypeOK
<1>2. CASE DequeueBytes
    <2>1. PICK n \in 1..qCount :
             /\ delivered' = delivered \o
                   SubSeq(buffer[ptUsedByQueue], qHead + 1, qHead + n)
             /\ qHead' = qHead + n /\ qCount' = qCount - n
        BY <1>2 DEF DequeueBytes
    <2>2. ptUsedByQueue \in Blocks
        BY <1>2 DEF DequeueBytes, HasBytes, Control, TypeOK
    <2>3. buffer[ptUsedByQueue] \in [1..BlockSize -> Nat]
        BY <2>2 DEF TypeOK
    <2>4. qHead' \in 0..BlockSize /\ qCount' \in 0..BlockSize /\ qHead + n <= BlockSize
        BY <2>1, SizeAssumption DEF Control, TypeOK
    <2>5. SubSeq(buffer[ptUsedByQueue], qHead + 1, qHead + n) \in Seq(Nat)
        <3>1. buffer[ptUsedByQueue] \in Seq(Nat) /\ Len(buffer[ptUsedByQueue]) = BlockSize
            BY <2>3, SizeAssumption
        <3>2. qHead + 1 \in 1..BlockSize + 1 /\ qHead + n \in 0..BlockSize
            BY <2>1, <2>4, SizeAssumption DEF TypeOK
        <3> QED
            BY <3>1, <3>2
    <2>6. delivered' \in Seq(Nat)
        BY <2>1, <2>5 DEF TypeOK
    <2> QED
        BY <1>2, <2>4, <2>6 DEF DequeueBytes, TypeOK
<1>3. CASE ReleaseBlock
    <2>1. [i \in 1..BlockSize |-> 0] \in [1..BlockSize -> Nat]
        OBVIOUS
    <2>2. Size' \in [Blocks -> 0..BlockSize]
        BY <1>3, SizeAssumption DEF ReleaseBlock, TypeOK
    <2>3. buffer' \in [Blocks -> [1..BlockSize -> Nat]]
        BY <1>3, <2>1 DEF ReleaseBlock, TypeOK
    <2>4. pool' \subseteq Blocks
        BY <1>3 DEF ReleaseBlock, TypeOK
    <2>5. /\ bIsQueueInitialised' = FALSE /\ pc' = "fetch"
          /\ UNCHANGED <<cfg, list, status, ptUsedByQueue, qHead, qCount,
                         ptUsedByOutside, adapter, item, old, got, history>>
        BY <1>3 DEF ReleaseBlock
    <2>6. /\ cfg' \in Configs /\ list' \in Seq(Blocks)
          /\ IsDataAvailable' \in BOOLEAN /\ IsBlockBufferDrain' \in BOOLEAN
          /\ received' \in Nat /\ delivered' \in Seq(Nat) /\ starved' \in BOOLEAN
        BY <2>5 DEF TypeOK
    <2>7. /\ ptUsedByQueue' \in Ptr /\ ptUsedByOutside' \in Ptr
          /\ bIsQueueInitialised' \in BOOLEAN
          /\ qHead' \in 0..BlockSize /\ qCount' \in 0..BlockSize
          /\ item' \in Ptr /\ old' \in Ptr /\ got' \in Ptr
        BY <2>5 DEF TypeOK
    <2>8. /\ ptBlock' \in Ptr /\ pchBuffer' \in Ptr
          /\ hwSize' \in 0..BlockSize /\ hwIndex' \in Nat
          /\ hwTimeoutCounter' \in Nat /\ rxIrq' \in BOOLEAN
        BY <2>5 DEF TypeOK
    <2>9. pc' \in {"idle", "read", "fetch", "check"}
        BY <2>5
    <2> QED
        BY <2>2, <2>3, <2>4, <2>6, <2>7, <2>8, <2>9 DEF TypeOK
<1>4. CASE FetchBlock
    <2>1. item' \in Ptr /\ list' \in Seq(Blocks)
        BY <1>4, QueueEnds DEF FetchBlock, TypeOK
    <2>2. IsDataAvailable' \in BOOLEAN /\ IsBlockBufferDrain' \in BOOLEAN
        BY <1>4 DEF FetchBlock, TypeOK
    <2> QED
        BY <1>4, <2>1, <2>2 DEF FetchBlock, TypeOK
<1>5. CASE CheckPort
    <2>1. old' \in Ptr /\ pc' \in {"exchange", "adopt"}
        BY <1>5 DEF CheckPort, TypeOK
    <2> QED
        BY <1>5, <2>1 DEF CheckPort, TypeOK
<1>6. CASE ExchangeBlock
    <2>1. PICK new \in Available : Exchange(old, new, Size) /\ got' = new
        BY <1>6 DEF ExchangeBlock
    <2>2. old \in Ptr /\ Size \in [Blocks -> 0..BlockSize]
        BY DEF TypeOK
    <2>3. /\ list' \in Seq(Blocks)
          /\ IsDataAvailable' \in BOOLEAN /\ IsBlockBufferDrain' \in BOOLEAN
          /\ pool' \subseteq Blocks /\ Size' \in [Blocks -> 0..BlockSize]
          /\ ptUsedByOutside' \in Ptr
        BY <2>1, <2>2, ExchangeType
    <2>4. got' \in Ptr
        BY <2>1, AvailableType
    <2> QED
        BY <1>6, <2>3, <2>4 DEF ExchangeBlock, TypeOK
<1>7. CASE AssignBlock
    BY <1>7 DEF AssignBlock, TypeOK
<1>8. CASE ReloadBlock
    <2>1. pc' \in {"buffer", "adopt"}
        BY <1>8 DEF ReloadBlock
    <2> QED
        BY <1>8, <2>1 DEF ReloadBlock, TypeOK
<1>9. CASE SetBuffer
    BY <1>9 DEF SetBuffer, TypeOK
<1>10. CASE SetSize
    <2>1. got \in Blocks
        BY <1>10 DEF SetSize, Control, TypeOK
    <2>2. hwSize' \in 0..BlockSize
        BY <1>10, <2>1 DEF SetSize, TypeOK
    <2> QED
        BY <1>10, <2>2 DEF SetSize, TypeOK
<1>11. CASE SetIndex
    BY <1>11 DEF SetIndex, TypeOK
<1>12. CASE EnableRx
    BY <1>12 DEF EnableRx, TypeOK
<1>13. CASE Adopt
    <2>1. item \in Blocks
        BY <1>13 DEF Adopt, TypeOK
    <2>2. qHead' \in 0..BlockSize /\ qCount' \in 0..BlockSize
        BY <1>13, <2>1, SizeAssumption DEF Adopt, TypeOK
    <2> QED
        BY <1>13, <2>2 DEF Adopt, TypeOK
<1>14. CASE NothingToRead
    BY <1>14 DEF NothingToRead, TypeOK
<1> DEFINE Stored == /\ received' \in Nat
                     /\ buffer' \in [Blocks -> [1..BlockSize -> Nat]]
                     /\ hwTimeoutCounter' \in Nat
<1>15. StoreByte => Stored
    <2> HAVE StoreByte
    <2>1. received + 1 \in Nat /\ pchBuffer \in Blocks
        BY DEF StoreByte, Cancelled, TypeOK
    <2>2. buffer' = [buffer EXCEPT ![pchBuffer][hwIndex + 1] = received + 1]
        BY DEF StoreByte
    <2>3. buffer' \in [Blocks -> [1..BlockSize -> Nat]]
        BY <2>1, <2>2 DEF TypeOK
    <2>4. cfg.Timeout \in Nat
        BY ConfigsAssumption DEF TypeOK
    <2> QED
        BY <2>1, <2>3, <2>4 DEF StoreByte
<1>16. CASE RxCancelled
    <2>1. cfg.Timeout \in Nat
        BY ConfigsAssumption DEF TypeOK
    <2>2. /\ hwTimeoutCounter' \in Nat /\ rxIrq' \in BOOLEAN
          /\ UNCHANGED <<cfg, heap, list, status, queue, ptUsedByOutside, ptBlock,
                         filling, pc, item, old, got, history>>
        BY <1>16, <2>1 DEF RxCancelled
    <2> QED
        BY <2>2 DEF TypeOK
<1>17. CASE RxByte
    <2>1. Stored
        BY <1>15, <1>17 DEF RxByte
    <2>2. hwIndex' \in Nat
        BY <1>17 DEF RxByte, TypeOK
    <2> QED
        BY <1>17, <2>1, <2>2 DEF RxByte, TypeOK
<1>18. CASE RxBlockFull
    <2>1. Stored
        BY <1>15, <1>18 DEF RxBlockFull
    <2>2. Size \in [Blocks -> 0..BlockSize] /\ hwIndex + 1 \in Nat /\ FALSE \in BOOLEAN
        BY DEF TypeOK
    <2>3. RequestRead(Size, hwIndex + 1, FALSE)
        BY <1>18 DEF RxBlockFull
    <2>4. /\ list' \in Seq(Blocks)
          /\ IsDataAvailable' \in BOOLEAN /\ IsBlockBufferDrain' \in BOOLEAN
          /\ pool' \subseteq Blocks /\ Size' \in [Blocks -> 0..BlockSize]
          /\ ptUsedByOutside' \in Ptr
          /\ ptBlock' \in Ptr /\ pchBuffer' \in Ptr
          /\ hwSize' \in 0..BlockSize /\ hwIndex' \in Nat
          /\ rxIrq' \in BOOLEAN /\ starved' \in BOOLEAN
        BY <2>2, <2>3, RequestReadType
    <2>5. UNCHANGED <<cfg, queue, pc, item, old, got, delivered>>
        BY <1>18 DEF RxBlockFull
    <2> QED
        BY <2>1, <2>4, <2>5 DEF TypeOK
<1>19. CASE TimerTicks
    BY <1>19 DEF TimerTicks, TypeOK
<1>20. CASE TimeoutEmpty
    BY <1>20 DEF TimeoutEmpty, TypeOK
<1>21. CASE TimeoutImports
    <2> DEFINE size == [Size EXCEPT ![ptBlock] = Least(hwIndex, BlockSize)]
    <2>1. Least(hwIndex, BlockSize) \in 0..BlockSize
        BY SizeAssumption DEF Least, TypeOK
    <2>2. size \in [Blocks -> 0..BlockSize] /\ hwIndex \in Nat /\ rxIrq \in BOOLEAN
        BY <2>1 DEF TypeOK
    <2>3. RequestRead(size, hwIndex, rxIrq)
        BY <1>21 DEF TimeoutImports
    <2>4. /\ list' \in Seq(Blocks)
          /\ IsDataAvailable' \in BOOLEAN /\ IsBlockBufferDrain' \in BOOLEAN
          /\ pool' \subseteq Blocks /\ Size' \in [Blocks -> 0..BlockSize]
          /\ ptUsedByOutside' \in Ptr
          /\ ptBlock' \in Ptr /\ pchBuffer' \in Ptr
          /\ hwSize' \in 0..BlockSize /\ hwIndex' \in Nat
          /\ rxIrq' \in BOOLEAN /\ starved' \in BOOLEAN
        <3> HIDE DEF size
        <3> QED
            BY <2>2, <2>3, RequestReadType
    <2>5. /\ hwTimeoutCounter' = 0
          /\ UNCHANGED <<cfg, buffer, queue, pc, item, old, got, received, delivered>>
        BY <1>21 DEF TimeoutImports
    <2> QED
        BY <2>4, <2>5 DEF TypeOK
<1>22. CASE TimeoutAsserts
    BY <1>22 DEF TimeoutAsserts, TypeOK
<1> QED
    BY <1>1, <1>2, <1>3, <1>4, <1>5, <1>6, <1>7, <1>8, <1>9, <1>10, <1>11,
       <1>12, <1>13, <1>14, <1>16, <1>17, <1>18, <1>19, <1>20, <1>21, <1>22
    DEF Next, MainStep, RxIsr, TimerIsr

(* The program counter and the locals, step by step. *)
LEMMA ControlStep ==
    ASSUME TypeOK, Control, Next
    PROVE  Control'
<1> USE DEF heap, status, queue, filling, adapter, history
<1>1. CASE CallRead
    BY <1>1 DEF CallRead, Control
<1>2. CASE DequeueBytes
    <2>1. PICK n \in 1..qCount : qHead' = qHead + n /\ qCount' = qCount - n
        BY <1>2 DEF DequeueBytes
    <2>2. qHead' + qCount' = qHead + qCount
        BY <2>1 DEF TypeOK
    <2> QED
        BY <1>2, <2>2 DEF DequeueBytes, Control
<1>3. CASE ReleaseBlock
    BY <1>3 DEF ReleaseBlock, Control
<1>4. CASE FetchBlock
    BY <1>4 DEF FetchBlock, Control
<1>5. CASE CheckPort
    BY <1>5 DEF CheckPort, Control
<1>6. CASE ExchangeBlock
    BY <1>6 DEF ExchangeBlock, Control
<1>7. CASE AssignBlock
    BY <1>7 DEF AssignBlock, Control
<1>8. CASE ReloadBlock
    BY <1>8 DEF ReloadBlock, Control
<1>9. CASE SetBuffer
    BY <1>9 DEF SetBuffer, Control
<1>10. CASE SetSize
    BY <1>10 DEF SetSize, Control
<1>11. CASE SetIndex
    BY <1>11 DEF SetIndex, Control
<1>12. CASE EnableRx
    BY <1>12 DEF EnableRx, Control
<1>13. CASE Adopt
    <2>1. item \in Blocks
        BY <1>13 DEF Adopt, TypeOK, Ptr
    <2>2. Size[item] <= BlockSize /\ Size[item] \in Nat
        BY <2>1, SizeAssumption DEF TypeOK
    <2>3. qHead' + qCount' <= BlockSize
        BY <1>13, <2>2 DEF Adopt
    <2> QED
        BY <1>13, <2>3 DEF Adopt, Control
<1>14. CASE NothingToRead
    BY <1>14 DEF NothingToRead, Control
<1>15. CASE RxCancelled
    BY <1>15 DEF RxCancelled, Control
<1>16. CASE RxByte
    BY <1>16 DEF RxByte, StoreByte, Control
<1>17. CASE RxBlockFull
    BY <1>17 DEF RxBlockFull, StoreByte, Control
<1>18. CASE TimerTicks
    BY <1>18 DEF TimerTicks, Control, TypeOK
<1>19. CASE TimeoutEmpty
    BY <1>19 DEF TimeoutEmpty, Control
<1>20. CASE TimeoutImports
    BY <1>20 DEF TimeoutImports, Control
<1>21. CASE TimeoutAsserts
    BY <1>21 DEF TimeoutAsserts, Control
<1> QED
    BY <1>1, <1>2, <1>3, <1>4, <1>5, <1>6, <1>7, <1>8, <1>9, <1>10, <1>11,
       <1>12, <1>13, <1>14, <1>15, <1>16, <1>17, <1>18, <1>19, <1>20, <1>21
    DEF Next, MainStep, RxIsr, TimerIsr

--------------------------------------------------------------------------------
(* What the port has when a handler uses it.                               *)

(* A receive interrupt that stores a byte finds the port set up. *)
LEMMA PortStores ==
    ASSUME IInv, ~starved, StoreByte
    PROVE  /\ ~Setting /\ ptBlock \in Blocks /\ ptBlock = ptUsedByOutside
           /\ pchBuffer = ptBlock /\ hwSize = Size[ptBlock] /\ hwIndex < hwSize
<1>1. PortOff /\ PortSetting /\ PortOn /\ pchBuffer # NULL /\ hwSize # 0 /\ rxIrq
    BY DEF IInv, Port, StoreByte, Cancelled
<1>2. ptUsedByOutside # NULL /\ ptUsedByOutside \in Blocks
    BY <1>1 DEF PortOff, IInv, TypeOK, Ptr
<1>3. ~Setting
    <2>1. pc \notin {"assign", "reload", "buffer", "size"}
        BY <1>1 DEF PortSetting
    <2>2. Setting => cfg.EnabledAtInit
        BY <1>1 DEF PortSetting
    <2>3. cfg.EnabledAtInit => pc \notin {"index", "enable"}
        BY QuietAssumption DEF StoreByte, IInv, TypeOK
    <2> QED
        BY <2>1, <2>2, <2>3 DEF Setting
<1> QED
    BY <1>1, <1>2, <1>3 DEF PortOn

(* So does a timeout that takes place with bytes in the block. *)
LEMMA PortTimesOut ==
    ASSUME IInv, ~starved, hwTimeoutCounter = 1, hwIndex # 0
    PROVE  /\ ~Setting /\ ptBlock \in Blocks /\ ptBlock = ptUsedByOutside
           /\ pchBuffer = ptBlock /\ hwSize = Size[ptBlock] /\ hwIndex < hwSize
           /\ rxIrq /\ cfg.Timeout # 0
<1>1. PortOff /\ PortSetting /\ PortOn
    BY DEF IInv, Port
<1>2. ptUsedByOutside # NULL /\ ptUsedByOutside \in Blocks
    BY <1>1 DEF PortOff, IInv, TypeOK, Ptr
<1>3. ~Setting
    BY <1>1 DEF PortSetting
<1>4. cfg.Timeout # 0
    BY DEF IInv, Control
<1> QED
    BY <1>1, <1>2, <1>3, <1>4 DEF PortOn

--------------------------------------------------------------------------------
(* How the block list changes as a set.                                    *)

(* BLOCK_QUEUE.Enqueue of a block that is not in the list. *)
LEMMA ListedAppend ==
    ASSUME list \in Seq(Blocks), ListedOnce,
           NEW b \in Blocks, b \notin Listed, list' = Append(list, b)
    PROVE  Listed' = Listed \cup {b} /\ ListedOnce'
<1>1. /\ Len(list') = Len(list) + 1
      /\ list'[Len(list) + 1] = b
      /\ \A i \in 1..Len(list) : list'[i] = list[i]
      /\ 1..Len(list') = (1..Len(list)) \cup {Len(list) + 1}
    OBVIOUS
<1>2. Listed' = Listed \cup {b}
    BY <1>1 DEF Listed
<1>3. ListedOnce'
    BY <1>1 DEF Listed, ListedOnce
<1> QED
    BY <1>2, <1>3

(* BLOCK_QUEUE.Dequeue takes the first block out, and only that one. *)
LEMMA ListedRest ==
    ASSUME list \in Seq(Blocks), ListedOnce, list' = Rest(list)
    PROVE  /\ Listed' = Listed \ {First(list)} /\ ListedOnce'
           /\ {First(list)} \ {NULL} \subseteq Listed
<1>1. CASE list = <<>>
    BY <1>1 DEF Rest, First, Listed, ListedOnce
<1>2. CASE list # <<>>
    <2>1. /\ Len(list) \in Nat /\ Len(list) > 0
          /\ Len(list') = Len(list) - 1
          /\ First(list) = list[1]
          /\ \A i \in 1..Len(list') : list'[i] = list[i + 1]
        BY <1>2 DEF Rest, First
    <2>2. ASSUME NEW x \in Listed'  PROVE x \in Listed /\ x # First(list)
        BY <2>2, <2>1 DEF Listed, ListedOnce
    <2>3. ASSUME NEW x \in Listed, x # First(list)  PROVE x \in Listed'
        <3>1. PICK i \in 1..Len(list) : x = list[i]
            BY DEF Listed
        <3>2. i - 1 \in 1..Len(list') /\ list'[i - 1] = x
            BY <3>1, <2>3, <2>1
        <3> QED
            BY <3>2 DEF Listed
    <2>4. ListedOnce' /\ First(list) \in Listed
        BY <2>1 DEF ListedOnce, Listed
    <2> QED
        BY <2>2, <2>3, <2>4
<1> QED
    BY <1>1, <1>2

(* Exchange of the block lent to the port, if it has one: that block goes  *)
(* to the list, one of the heap to the port.                               *)
LEMMA ExchangeOwners ==
    ASSUME TypeOK, OneOwner, ~starved, NEW b \in Ptr, ptUsedByOutside = b,
           NEW new \in Available, NEW size, Exchange(b, new, size),
           UNCHANGED <<Queued, item>>
    PROVE  OneOwner'
<1>1. Lent = {b} \ {NULL} /\ Lent' = {new} \ {NULL} /\ pool' = pool \ {new}
    BY DEF Lent, Exchange
<1>2. new = NULL \/ new \in pool
    BY AvailableType
<1>3. InHand' = InHand
    BY DEF InHand
<1>4. Listed \subseteq Blocks /\ pool \subseteq Blocks
    BY DEF TypeOK, Listed
<1>5. Listed' = Listed \cup ({b} \ {NULL}) /\ ListedOnce'
    <2>1. CASE b = NULL
        BY <2>1 DEF Exchange, Listed, ListedOnce, OneOwner
    <2>2. CASE b # NULL
        <3>1. b \in Blocks /\ b \notin Listed /\ ListedOnce
            BY <1>1, <2>2 DEF OneOwner, Ptr
        <3>2. list' = Append(list, b) /\ list \in Seq(Blocks)
            BY <2>2 DEF Exchange, TypeOK
        <3> QED
            BY <3>1, <3>2, <2>2, ListedAppend
    <2> QED
        BY <2>1, <2>2
<1>6. NULL \notin pool
    BY <1>4, BlocksAssumption
<1> QED
    BY <1>1, <1>2, <1>3, <1>5, <1>6 DEF OneOwner

(* request_read of a handler. *)
LEMMA RequestReadOwners ==
    ASSUME TypeOK, OneOwner, ~starved, ptUsedByOutside = ptBlock,
           NEW size, NEW index, NEW irq, RequestRead(size, index, irq),
           UNCHANGED <<queue, pc, item>>
    PROVE  OneOwner'
<1>1. PICK new \in Available : Exchange(ptBlock, new, size)
    BY DEF RequestRead
<1>2. UNCHANGED <<Queued, item>> /\ ptBlock \in Ptr
    BY DEF Queued, Released, queue, TypeOK
<1> QED
    BY <1>1, <1>2, ExchangeOwners

(* A step that moves no block leaves every block with its owner. *)
LEMMA SameOwners ==
    ASSUME OneOwner, starved' = starved,
           UNCHANGED <<pool, list, Queued, ptUsedByOutside, item>>
    PROVE  OneOwner'
BY DEF OneOwner, Listed, ListedOnce, Lent, InHand

(* Nothing makes up for a missing block. *)
LEMMA StarvedStays ==
    ASSUME TypeOK, Next, starved
    PROVE  starved'
<1> USE DEF history
<1>1. CASE MainStep
    BY <1>1 DEF MainStep, CallRead, DequeueBytes, ReleaseBlock, FetchBlock, CheckPort,
                ExchangeBlock, AssignBlock, ReloadBlock, SetBuffer, SetSize, SetIndex,
                EnableRx, Adopt, NothingToRead
<1>2. CASE RxCancelled \/ RxByte \/ TimerTicks \/ TimeoutEmpty \/ TimeoutAsserts
    BY <1>2 DEF RxCancelled, RxByte, TimerTicks, TimeoutEmpty, TimeoutAsserts
<1>3. CASE RxBlockFull \/ TimeoutImports
    BY <1>3 DEF RxBlockFull, TimeoutImports, RequestRead, TypeOK
<1> QED
    BY <1>1, <1>2, <1>3 DEF Next, RxIsr, TimerIsr

(* Every step moves a block from one owner to another, or moves none. *)
LEMMA OwnerStep ==
    ASSUME IInv, Next
    PROVE  OneOwner'
<1> SUFFICES ASSUME ~starved'  PROVE OneOwner'
    BY DEF OneOwner
<1>s. ~starved
    BY StarvedStays DEF IInv
<1>i. TypeOK /\ Control /\ OneOwner /\ PortOff /\ PortSetting /\ PortOn /\ old = NULL
    BY <1>s DEF IInv, Port
<1> USE DEF heap, status, queue, filling, adapter, history
<1>1. CASE CallRead
    <2>1. UNCHANGED Queued
        BY <1>1 DEF CallRead, Queued, Released
    <2> QED
        BY <1>1, <1>i, <2>1, SameOwners, <1>s DEF CallRead
<1>2. CASE DequeueBytes
    <2>1. UNCHANGED Queued
        BY <1>2 DEF DequeueBytes, Queued, Released
    <2> QED
        BY <1>2, <1>i, <2>1, SameOwners, <1>s DEF DequeueBytes
<1>3. CASE ReleaseBlock
    <2>1. Queued = {ptUsedByQueue} \ {NULL} /\ Queued' = {}
        BY <1>3 DEF ReleaseBlock, Queued, Released
    <2>2. pool' = pool \cup Queued
        BY <1>3, <2>1 DEF ReleaseBlock
    <2>3. UNCHANGED <<Listed, ListedOnce, Lent, InHand>>
        BY <1>3 DEF ReleaseBlock, Listed, ListedOnce, Lent, InHand
    <2> QED
        BY <1>i, <1>s, <2>1, <2>2, <2>3 DEF OneOwner
<1>4. CASE FetchBlock
    <2>1. /\ Listed' = Listed \ {First(list)} /\ ListedOnce'
          /\ {First(list)} \ {NULL} \subseteq Listed
        BY <1>4, <1>i, <1>s, ListedRest DEF FetchBlock, OneOwner, TypeOK
    <2>2. InHand = {} /\ InHand' = {First(list)} \ {NULL}
        BY <1>4, <1>i DEF FetchBlock, InHand, Control
    <2>3. UNCHANGED <<pool, Queued, Lent>>
        BY <1>4 DEF FetchBlock, Queued, Released, Lent
    <2>4. NULL \notin Listed
        BY <1>i, BlocksAssumption DEF Listed, TypeOK
    <2> QED
        BY <1>i, <1>s, <2>1, <2>2, <2>3, <2>4 DEF OneOwner
<1>5. CASE CheckPort
    <2>1. UNCHANGED Queued
        BY <1>5 DEF CheckPort, Queued, Released
    <2> QED
        BY <1>5, <1>i, <2>1, SameOwners, <1>s DEF CheckPort
<1>6. CASE ExchangeBlock
    <2>1. PICK new \in Available : Exchange(old, new, Size)
        BY <1>6 DEF ExchangeBlock
    <2>2. ptUsedByOutside = old /\ old \in Ptr
        BY <1>6, <1>i DEF ExchangeBlock, PortSetting, Ptr
    <2>3. UNCHANGED <<Queued, item>>
        BY <1>6 DEF ExchangeBlock, Queued, Released
    <2> QED
        BY <1>i, <2>1, <2>2, <2>3, <1>s, ExchangeOwners
<1>7. CASE AssignBlock
    <2>1. UNCHANGED Queued
        BY <1>7 DEF AssignBlock, Queued, Released
    <2> QED
        BY <1>7, <1>i, <2>1, SameOwners, <1>s DEF AssignBlock
<1>8. CASE ReloadBlock
    <2>1. UNCHANGED Queued
        BY <1>8 DEF ReloadBlock, Queued, Released
    <2> QED
        BY <1>8, <1>i, <2>1, SameOwners, <1>s DEF ReloadBlock
<1>9. CASE SetBuffer \/ SetSize \/ SetIndex \/ EnableRx
    <2>1. UNCHANGED Queued
        BY <1>9 DEF SetBuffer, SetSize, SetIndex, EnableRx, Queued, Released
    <2> QED
        BY <1>9, <1>i, <2>1, SameOwners, <1>s DEF SetBuffer, SetSize, SetIndex, EnableRx
<1>10. CASE Adopt
    <2>1. Queued = {} /\ Queued' = InHand /\ InHand' = {}
        BY <1>10 DEF Adopt, Queued, Released, InHand
    <2>2. UNCHANGED <<pool, Listed, ListedOnce, Lent>>
        BY <1>10 DEF Adopt, Listed, ListedOnce, Lent
    <2> QED
        BY <1>i, <1>s, <2>1, <2>2 DEF OneOwner
<1>11. CASE NothingToRead
    <2>1. UNCHANGED Queued
        BY <1>11 DEF NothingToRead, Queued, Released
    <2> QED
        BY <1>11, <1>i, <2>1, SameOwners, <1>s DEF NothingToRead
<1>12. CASE RxCancelled \/ TimerTicks \/ TimeoutEmpty
    <2>1. UNCHANGED Queued
        BY <1>12 DEF RxCancelled, TimerTicks, TimeoutEmpty, Queued, Released
    <2> QED
        BY <1>12, <1>i, <2>1, SameOwners, <1>s DEF RxCancelled, TimerTicks, TimeoutEmpty
<1>13. CASE RxByte
    <2>1. UNCHANGED Queued
        BY <1>13 DEF RxByte, Queued, Released
    <2> QED
        BY <1>13, <1>i, <2>1, SameOwners, <1>s DEF RxByte
<1>14. CASE RxBlockFull
    BY <1>14, <1>i, <1>s, PortStores, RequestReadOwners DEF RxBlockFull
<1>15. CASE TimeoutImports
    BY <1>15, <1>i, <1>s, PortTimesOut, RequestReadOwners DEF TimeoutImports
<1>16. CASE TimeoutAsserts
    BY <1>16, <1>s, PortTimesOut, BlocksAssumption DEF TimeoutAsserts
<1> QED
    BY <1>1, <1>2, <1>3, <1>4, <1>5, <1>6, <1>7, <1>8, <1>9, <1>10, <1>11,
       <1>12, <1>13, <1>14, <1>15, <1>16
    DEF Next, MainStep, RxIsr, TimerIsr

--------------------------------------------------------------------------------
(* What the port holds, step by step.                                      *)

(* request_read of a handler leaves a port that has a block and is set up, *)
(* or one that is off.                                                     *)
LEMMA RequestReadPort ==
    ASSUME IInv, ~starved, ~starved', ~Setting, pc # "exchange",
           ptBlock \in Blocks, ptBlock = ptUsedByOutside,
           NEW size \in [Blocks -> 0..BlockSize], NEW index \in Nat, NEW irq,
           RequestRead(size, index, irq), hwTimeoutCounter' \in {0, cfg.Timeout},
           irq => cfg.Timeout # 0,
           UNCHANGED <<cfg, pc, got, old>>
    PROVE  Port'
<1>1. PICK new \in Available :
        /\ Exchange(ptBlock, new, size)
        /\ ptBlock' = new
        /\ IF new = NULL
           THEN UNCHANGED <<pchBuffer, hwSize>> /\ hwIndex' = index /\ rxIrq' = irq
           ELSE pchBuffer' = new /\ hwSize' = NewSize /\ hwIndex' = 0 /\ rxIrq' = TRUE
        /\ starved' = (starved \/ (new = NULL /\ cfg.Timeout # 0))
    BY DEF RequestRead
<1>2. pc # "halted" /\ old = NULL /\ PortSetting
    BY DEF IInv, Port
<1>3. ~Setting'
    BY DEF Setting
<1>4. CASE new = NULL
    <2>1. cfg.Timeout = 0 /\ ~irq /\ hwTimeoutCounter' = 0
        BY <1>1, <1>4
    <2>2. ptUsedByOutside' = NULL /\ ptBlock' = NULL /\ ~rxIrq' /\ pool' = pool
          /\ UNCHANGED <<pchBuffer, hwSize>>
        <3>1. pool' = pool \ {NULL} /\ NULL \notin pool
            BY <1>1, <1>4, BlocksAssumption DEF Exchange, IInv, TypeOK
        <3> QED
            BY <1>1, <1>4, <2>1, <3>1 DEF Exchange
    <2>3. Cardinality(pool) <= cfg.chReservedBlock
        BY <1>4, AvailableType DEF IInv
    <2>4. PortOff' /\ PortOn' /\ Served'
        BY <2>1, <2>2, <2>3 DEF PortOff, PortOn, Served
    <2>5. PortSetting'
        BY <1>2, <1>3, <2>2 DEF PortSetting, Setting
    <2> QED
        BY <1>2, <2>4, <2>5 DEF Port
<1>5. CASE new # NULL
    <2>1. new \in Blocks
        BY <1>5, AvailableType DEF IInv
    <2>2. /\ ptUsedByOutside' = new /\ ptBlock' = new /\ pchBuffer' = new
          /\ hwSize' = NewSize /\ hwIndex' = 0 /\ rxIrq' = TRUE
        BY <1>1, <1>5 DEF Exchange
    <2>3. Size'[new] = NewSize
        BY <1>1, <1>5, <2>1 DEF Exchange
    <2>4. NewSize \in 1..BlockSize /\ BlockSize \in Nat
        BY NewSizeType, SizeAssumption DEF IInv
    <2>5. NewSize # 0 /\ 0 < NewSize
        BY <2>4
    <2>6. PortOff' /\ PortOn' /\ Served'
        BY <1>5, <2>2, <2>3, <2>5 DEF PortOff, PortOn, Served
    <2>7. PortSetting'
        BY <1>2, <1>3, <1>5, <2>2 DEF PortSetting, Setting
    <2> QED
        BY <1>2, <2>6, <2>7 DEF Port
<1> QED
    BY <1>4, <1>5

(* Every step leaves the port off, being set up, or on. *)
LEMMA PortStep ==
    ASSUME IInv, Next
    PROVE  Port'
<1> SUFFICES ASSUME ~starved'  PROVE Port'
    BY DEF Port
<1>s. ~starved
    BY StarvedStays DEF IInv
<1>i. /\ TypeOK /\ Control /\ OneOwner /\ PortOff /\ PortSetting /\ PortOn /\ Served
      /\ old = NULL /\ pc # "halted"
    BY <1>s DEF IInv, Port
<1> USE DEF heap, status, queue, filling, adapter, history, Setting
<1>1. CASE CallRead
    BY <1>1, <1>i DEF CallRead, Port, PortOff, PortSetting, PortOn, Served
<1>2. CASE DequeueBytes
    BY <1>2, <1>i DEF DequeueBytes, Port, PortOff, PortSetting, PortOn, Served
<1>3. CASE ReleaseBlock
    <2>1. ptUsedByOutside \in Blocks => Size'[ptUsedByOutside] = Size[ptUsedByOutside]
        <3>1. ptUsedByOutside \in Blocks => ptUsedByOutside # ptUsedByQueue
            BY <1>3, <1>i, <1>s, BlocksAssumption DEF ReleaseBlock, OneOwner, Queued, Released, Lent
        <3> QED
            BY <1>3, <3>1 DEF ReleaseBlock
    <2>2. ptUsedByOutside # NULL => ptUsedByOutside \in Blocks
        BY <1>i DEF TypeOK, Ptr
    <2>3. PortOn'
        BY <1>3, <1>i, <2>1, <2>2 DEF ReleaseBlock, PortOn
    <2>4. PortOff' /\ PortSetting' /\ Served'
        BY <1>3, <1>i DEF ReleaseBlock, PortOff, PortSetting, Served
    <2> QED
        BY <1>3, <1>i, <2>3, <2>4 DEF ReleaseBlock, Port
<1>4. CASE FetchBlock
    BY <1>4, <1>i DEF FetchBlock, Port, PortOff, PortSetting, PortOn, Served
<1>5. CASE CheckPort
    BY <1>5, <1>i DEF CheckPort, PortIdle, Port, PortOff, PortSetting, PortOn, Served
<1>6. CASE ExchangeBlock
    <2>1. PICK new \in Available : Exchange(old, new, Size) /\ got' = new
        BY <1>6 DEF ExchangeBlock
    <2>2. /\ ptUsedByOutside = NULL /\ ptBlock = NULL
          /\ rxIrq => pchBuffer = NULL /\ hwIndex = 0 /\ cfg.EnabledAtInit
          /\ hwTimeoutCounter = 0 \/ hwIndex = 0
        BY <1>6, <1>i DEF ExchangeBlock, PortSetting, PortOff
    <2>3. ptUsedByOutside' = new /\ pc' = "assign" /\ old' = NULL
          /\ UNCHANGED <<cfg, ptBlock, pchBuffer, hwSize, hwIndex, hwTimeoutCounter, rxIrq>>
        BY <1>6, <2>1 DEF ExchangeBlock, Exchange
    <2>4. new # NULL => Size'[new] # 0
        <3>1. new # NULL => new \in Blocks /\ Size'[new] = NewSize
            BY <2>1, <1>i, AvailableType DEF Exchange, TypeOK
        <3>2. NewSize # 0
            BY <1>i, NewSizeType, SizeAssumption
        <3> QED
            BY <3>1, <3>2
    <2>5. PortOff' /\ PortOn'
        BY <2>2, <2>3, <2>4 DEF PortOff, PortOn
    <2>6. PortSetting'
        BY <1>i, <2>1, <2>2, <2>3 DEF PortSetting
    <2>7. Served'
        <3>1. new = NULL => Cardinality(pool) <= cfg.chReservedBlock /\ pool' = pool \ {NULL}
              /\ NULL \notin pool
            BY <1>i, <2>1, AvailableType, BlocksAssumption DEF Exchange, TypeOK
        <3>2. new = NULL => pool' = pool
            BY <3>1
        <3> QED
            BY <2>3, <3>1, <3>2 DEF Served
    <2> QED
        BY <2>3, <2>5, <2>6, <2>7 DEF Port
<1>7. CASE AssignBlock
    BY <1>7, <1>i DEF AssignBlock, Port, PortOff, PortSetting, PortOn, Served
<1>8. CASE ReloadBlock
    <2>1. ptUsedByOutside # NULL => pc' = "buffer"
        BY <1>8, <1>i DEF ReloadBlock, PortSetting, PortOn
    <2>2. ptUsedByOutside = NULL => pc' = "adopt"
        BY <1>8, <1>i DEF ReloadBlock, PortSetting
    <2>3. got' = ptUsedByOutside /\ ptBlock = ptUsedByOutside
        BY <1>8, <1>i DEF ReloadBlock, PortSetting
    <2> QED
        BY <1>8, <1>i, <2>1, <2>2, <2>3 DEF ReloadBlock, Port, PortOff, PortSetting, PortOn, Served
<1>9. CASE SetBuffer
    BY <1>9, <1>i DEF SetBuffer, Control, Port, PortOff, PortSetting, PortOn, Served
<1>10. CASE SetSize
    BY <1>10, <1>i DEF SetSize, Control, Port, PortOff, PortSetting, PortOn, Served
<1>11. CASE SetIndex
    BY <1>11, <1>i DEF SetIndex, Control, Port, PortOff, PortSetting, PortOn, Served
<1>12. CASE EnableRx
    <2>1. got \in Blocks /\ ptBlock = got /\ ptUsedByOutside = got /\ pchBuffer = got
          /\ hwSize = Size[got] /\ hwIndex = 0 /\ Size[got] # 0
        BY <1>12, <1>i DEF EnableRx, Control, PortSetting, PortOn, TypeOK, Ptr
    <2>2. 0 < Size[got]
        BY <1>i, <2>1, SizeAssumption DEF TypeOK
    <2>3. PortOn'
        BY <1>12, <2>1, <2>2 DEF EnableRx, PortOn
    <2>4. PortOff' /\ PortSetting' /\ Served'
        BY <1>12, <1>i, <2>1, BlocksAssumption DEF EnableRx, PortOff, PortSetting, Served
    <2> QED
        BY <1>12, <1>i, <2>3, <2>4 DEF EnableRx, Port
<1>13. CASE Adopt
    BY <1>13, <1>i DEF Adopt, Port, PortOff, PortSetting, PortOn, Served
<1>14. CASE NothingToRead
    BY <1>14, <1>i DEF NothingToRead, Port, PortOff, PortSetting, PortOn, Served
<1>15. CASE RxCancelled
    <2>1. Setting \/ ptUsedByOutside = NULL
        BY <1>15, <1>i DEF RxCancelled, Cancelled, PortOn, TypeOK
    <2> QED
        BY <1>15, <1>i, <2>1 DEF RxCancelled, Port, PortOff, PortSetting, PortOn, Served
<1>16. CASE RxByte
    <2>1. ~Setting /\ ptBlock \in Blocks /\ ptBlock = ptUsedByOutside /\ pchBuffer = ptBlock
        BY <1>16, <1>s, PortStores DEF RxByte
    <2>2. hwIndex' = hwIndex + 1 /\ hwIndex' < hwSize
        BY <1>16 DEF RxByte
    <2> QED
        BY <1>16, <1>i, <2>1, <2>2, BlocksAssumption
        DEF RxByte, StoreByte, Port, PortOff, PortSetting, PortOn, Served
<1>17. CASE RxBlockFull
    <2>1. /\ ~Setting /\ ptBlock \in Blocks /\ ptBlock = ptUsedByOutside
          /\ ptUsedByOutside # NULL /\ pc # "exchange"
        BY <1>17, <1>i, <1>s, PortStores, BlocksAssumption DEF RxBlockFull, PortSetting
    <2>2. Size \in [Blocks -> 0..BlockSize] /\ hwIndex + 1 \in Nat
        BY <1>i DEF TypeOK
    <2>3. /\ RequestRead(Size, hwIndex + 1, FALSE) /\ hwTimeoutCounter' \in {0, cfg.Timeout}
          /\ UNCHANGED <<cfg, pc, got, old>>
        BY <1>17 DEF RxBlockFull, StoreByte
    <2> HIDE DEF Setting
    <2> QED
        BY <1>s, <2>1, <2>2, <2>3, RequestReadPort
<1>18. CASE TimerTicks
    BY <1>18, <1>i DEF TimerTicks, Port, PortOff, PortSetting, PortOn, Served
<1>19. CASE TimeoutEmpty
    BY <1>19, <1>i DEF TimeoutEmpty, Port, PortOff, PortSetting, PortOn, Served
<1>20. CASE TimeoutImports
    <2> DEFINE size == [Size EXCEPT ![ptBlock] = Least(hwIndex, BlockSize)]
    <2>1. /\ ~Setting /\ ptBlock \in Blocks /\ ptBlock = ptUsedByOutside
          /\ ptUsedByOutside # NULL /\ pc # "exchange" /\ cfg.Timeout # 0
        BY <1>20, <1>i, <1>s, PortTimesOut, BlocksAssumption DEF TimeoutImports, PortSetting
    <2>2. Least(hwIndex, BlockSize) \in 0..BlockSize
        BY <1>i, SizeAssumption DEF Least, TypeOK
    <2>3. size \in [Blocks -> 0..BlockSize] /\ hwIndex \in Nat
        BY <1>i, <2>2 DEF TypeOK
    <2>4. /\ RequestRead(size, hwIndex, rxIrq) /\ hwTimeoutCounter' \in {0, cfg.Timeout}
          /\ UNCHANGED <<cfg, pc, got, old>>
        BY <1>20 DEF TimeoutImports
    <2> HIDE DEF Setting, size
    <2> QED
        BY <1>s, <2>1, <2>3, <2>4, RequestReadPort
<1>21. CASE TimeoutAsserts
    BY <1>21, <1>s, PortTimesOut, BlocksAssumption DEF TimeoutAsserts
<1> QED
    BY <1>1, <1>2, <1>3, <1>4, <1>5, <1>6, <1>7, <1>8, <1>9, <1>10, <1>11,
       <1>12, <1>13, <1>14, <1>15, <1>16, <1>17, <1>18, <1>19, <1>20, <1>21
    DEF Next, MainStep, RxIsr, TimerIsr

--------------------------------------------------------------------------------
(* A freshly initialised stream satisfies the invariant. *)
LEMMA InitOK == Init => IInv
<1> SUFFICES ASSUME Init PROVE IInv
    OBVIOUS
<1>1. TypeOK
    <2>1. [i \in 1..BlockSize |-> 0] \in [1..BlockSize -> Nat]
        OBVIOUS
    <2>2. /\ pool \subseteq Blocks /\ buffer \in [Blocks -> [1..BlockSize -> Nat]]
          /\ list \in Seq(Blocks) /\ delivered \in Seq(Nat)
        BY <2>1 DEF Init
    <2>3. /\ Size \in [Blocks -> 0..BlockSize]
          /\ qHead \in 0..BlockSize /\ qCount \in 0..BlockSize
          /\ hwSize \in 0..BlockSize /\ hwIndex \in Nat
          /\ hwTimeoutCounter \in Nat /\ received \in Nat
        BY SizeAssumption DEF Init
    <2>4. /\ IsDataAvailable \in BOOLEAN /\ IsBlockBufferDrain \in BOOLEAN
          /\ bIsQueueInitialised \in BOOLEAN /\ starved \in BOOLEAN
        BY DEF Init
    <2>5. cfg \in Configs /\ cfg.EnabledAtInit \in BOOLEAN
        BY ConfigsAssumption DEF Init
    <2>6. rxIrq \in BOOLEAN
        BY <2>5 DEF Init
    <2>7. /\ pc = "idle" /\ item \in Ptr /\ old \in Ptr /\ got \in Ptr
          /\ ptUsedByQueue \in Ptr /\ ptUsedByOutside \in Ptr
          /\ ptBlock \in Ptr /\ pchBuffer \in Ptr
        BY DEF Init, Ptr
    <2> QED
        BY <2>2, <2>3, <2>4, <2>5, <2>6, <2>7 DEF TypeOK
<1>2. Control
    BY SizeAssumption DEF Init, Control
<1>3. OneOwner
    BY DEF Init, OneOwner, Listed, ListedOnce, Queued, Released, Lent, InHand
<1>4. Port
    BY DEF Init, Port, PortOff, PortSetting, PortOn, Served, Setting
<1> QED
    BY <1>1, <1>2, <1>3, <1>4 DEF IInv

(* So does a stream nobody touches. *)
LEMMA StutterOK == IInv /\ UNCHANGED vars => IInv'
<1> SUFFICES ASSUME IInv, UNCHANGED vars PROVE IInv'
    OBVIOUS
<1> USE DEF vars, heap, status, queue, filling, adapter, history
<1>1. TypeOK'
    BY DEF IInv, TypeOK, Ptr
<1>0. Control'
    BY DEF IInv, Control
<1>2. OneOwner'
    <2>1. UNCHANGED Queued
        BY DEF Queued, Released
    <2> QED
        BY <2>1, SameOwners DEF IInv
<1>3. Port'
    BY DEF IInv, Port, PortOff, PortSetting, PortOn, Served, Setting
<1> QED
    BY <1>0, <1>1, <1>2, <1>3 DEF IInv

(* The inductive invariant holds in every reachable state. *)
THEOREM Inductive == Spec => []IInv
<1>1. Init => IInv
    BY InitOK
<1>2. IInv /\ [Next]_vars => IInv'
    BY TypeStep, ControlStep, OwnerStep, PortStep, StutterOK DEF IInv
<1> QED
    BY <1>1, <1>2, PTL DEF Spec

(* The receive interrupt stores into the block lent to the port. *)
LEMMA WritesOwn == IInv => WritesOwnBlock
<1> SUFFICES ASSUME IInv, rxIrq, ~Cancelled, ~starved
             PROVE  /\ pchBuffer = ptBlock /\ ptBlock = ptUsedByOutside
                    /\ hwIndex < hwSize /\ hwSize <= Size[ptBlock]
    BY DEF WritesOwnBlock
<1>1. /\ PortOff /\ PortSetting /\ PortOn /\ pchBuffer # NULL /\ hwSize # 0
      /\ ptUsedByOutside \in Ptr
    BY DEF Cancelled, IInv, Port, TypeOK
<1>2. ptUsedByOutside \in Blocks /\ ptUsedByOutside # NULL
    BY <1>1 DEF PortOff, Ptr
<1>3. Size[ptUsedByOutside] \in Nat /\ Size[ptUsedByOutside] # 0
    BY <1>1, <1>2, SizeAssumption DEF PortOn, IInv, TypeOK
<1>4. Size[ptUsedByOutside] <= Size[ptUsedByOutside] /\ 0 < Size[ptUsedByOutside]
    BY <1>3
<1>5. CASE ~Setting
    BY <1>1, <1>2, <1>4, <1>5 DEF PortOn
<1>6. CASE Setting
    <2>1. pc \in {"index", "enable"}
        BY <1>1, <1>6 DEF PortSetting, Setting
    <2>2. /\ pchBuffer = ptUsedByOutside /\ ptBlock = ptUsedByOutside
          /\ hwSize = Size[ptUsedByOutside] /\ hwIndex = 0
        BY <1>1, <1>6, <2>1 DEF PortSetting
    <2> QED
        BY <1>4, <2>2
<1> QED
    BY <1>5, <1>6

(* Between two reads the port has a block if the heap has one for it. *)
LEMMA PortHasBlock == IInv => PortServed
BY DEF IInv, Port, Served, PortServed

(* Every block has one owner, the port writes only into its own, and it    *)
(* has one: for any number and size of blocks, any configuration and any   *)
(* interleaving of the reader with the two handlers.                       *)
THEOREM BlocksInPlaceAlways == Spec => []BlocksInPlace
<1>1. IInv => BlocksInPlace
    BY WritesOwn, PortHasBlock DEF BlocksInPlace, IInv
<1> QED
    BY <1>1, Inductive, PTL

--------------------------------------------------------------------------------
(* Every received byte is read once and in order.                          *)

(* The blocks to be read after the byte queue, the one in hand first.      *)
Line == IF item = NULL THEN list ELSE <<item>> \o list
InLine == Listed \cup InHand

(* How many bytes are in the block lent to the port.                       *)
Here == IF Setting \/ ptUsedByOutside = NULL THEN 0 ELSE hwIndex

(* Block b begins with the n bytes after number k.                         *)
Holds(b, n, k) == \A i \in 1..n : buffer[b][i] = k + i

LineFrom(st, e) == IF Len(Line) = 0 THEN e ELSE st[Line[1]]

(* What was read, the byte queue, the blocks in line and the one lent to   *)
(* the port follow each other.                                             *)
QueueJoins(st, e) ==
    IF bIsQueueInitialised
    THEN /\ Len(delivered) + qCount = LineFrom(st, e)
         /\ \A i \in 1..qCount : buffer[ptUsedByQueue][qHead + i] = Len(delivered) + i
    ELSE Len(delivered) = LineFrom(st, e)

LineJoins(st, e) ==
    \A i \in 1..Len(Line) :
        /\ Holds(Line[i], Size[Line[i]], st[Line[i]])
        /\ st[Line[i]] + Size[Line[i]] = IF i = Len(Line) THEN e ELSE st[Line[i + 1]]
        /\ st[Line[i]] + Size[Line[i]] <= e

OutJoins(e) ==
    /\ e + Here = received
    /\ ptUsedByOutside # NULL => Holds(ptUsedByOutside, Here, e)

Joins(st, e) == QueueJoins(st, e) /\ LineJoins(st, e) /\ OutJoins(e)

(* The bytes read are the first ones received.                             *)
InOrder == \A i \in 1..Len(delivered) : delivered[i] = i

DataInv == ~starved => InOrder /\ \E st \in [Blocks -> Nat], e \in Nat : Joins(st, e)

--------------------------------------------------------------------------------
(* The line, and how it changes.                                           *)

(* The line is made of blocks. *)
LEMMA LineType ==
    ASSUME TypeOK
    PROVE  /\ Line \in Seq(Blocks) /\ Len(Line) \in Nat
           /\ \A i \in 1..Len(Line) : Line[i] \in InLine /\ Line[i] \in Blocks
           /\ InLine \subseteq Blocks
<1>1. list \in Seq(Blocks) /\ Len(list) \in Nat /\ \A i \in 1..Len(list) : list[i] \in Listed
    BY DEF TypeOK, Listed
<1>2. item # NULL => item \in Blocks /\ InHand = {item}
    BY DEF TypeOK, Ptr, InHand
<1>3. CASE item = NULL
    BY <1>1, <1>3 DEF Line, InLine, InHand, Listed
<1>4. CASE item # NULL
    <2>1. /\ Line \in Seq(Blocks) /\ Len(Line) = Len(list) + 1
          /\ \A i \in 1..Len(Line) : Line[i] = IF i = 1 THEN item ELSE list[i - 1]
        BY <1>1, <1>2, <1>4 DEF Line
    <2>2. ASSUME NEW i \in 1..Len(Line)  PROVE Line[i] \in InLine
        <3>1. CASE i = 1
            BY <1>2, <1>4, <2>1, <3>1 DEF InLine
        <3>2. CASE i # 1
            <4>1. i - 1 \in 1..Len(list)
                BY <1>1, <2>1, <3>2
            <4> QED
                BY <1>1, <2>1, <3>2, <4>1 DEF InLine
        <3> QED
            BY <3>1, <3>2
    <2>3. InLine \subseteq Blocks
        BY <1>1, <1>2, <1>4 DEF InLine, Listed
    <2> QED
        BY <1>1, <2>1, <2>2, <2>3
<1> QED
    BY <1>3, <1>4

(* The block the reader takes from the list stays the first one in line. *)
LEMMA LineFetch ==
    ASSUME TypeOK, item = NULL, item' = First(list), list' = Rest(list)
    PROVE  Len(Line') = Len(Line) /\ \A i \in 1..Len(Line) : Line'[i] = Line[i]
<1>1. list \in Seq(Blocks) /\ Line = list
    BY DEF TypeOK, Line
<1>2. CASE list = <<>>
    BY <1>1, <1>2 DEF Line, First, Rest
<1>3. CASE list # <<>>
    <2>1. /\ Head(list) \in Blocks /\ Head(list) = list[1] /\ Tail(list) \in Seq(Blocks)
          /\ Len(list) \in Nat /\ Len(Tail(list)) = Len(list) - 1
          /\ \A i \in 1..Len(list) - 1 : Tail(list)[i] = list[i + 1]
        BY <1>1, <1>3
    <2>2. Line' = <<Head(list)>> \o Tail(list)
        BY <1>3, <2>1, BlocksAssumption DEF Line, First, Rest
    <2>3. /\ Len(Line') = Len(list)
          /\ \A i \in 1..Len(list) : Line'[i] = IF i = 1 THEN Head(list) ELSE Tail(list)[i - 1]
        BY <2>1, <2>2
    <2>4. ASSUME NEW i \in 1..Len(list), i # 1  PROVE Tail(list)[i - 1] = list[i]
        BY <2>1, <2>4
    <2> QED
        BY <1>1, <2>1, <2>3, <2>4
<1> QED
    BY <1>2, <1>3

(* BLOCK_QUEUE.Enqueue makes a block the last one in line. *)
LEMMA LineAppend ==
    ASSUME TypeOK, NEW b \in Blocks, item' = item, list' = Append(list, b)
    PROVE  /\ Len(Line') = Len(Line) + 1 /\ Line'[Len(Line) + 1] = b
           /\ \A i \in 1..Len(Line) : Line'[i] = Line[i]
<1>1. /\ list \in Seq(Blocks) /\ Len(list) \in Nat
      /\ list' \in Seq(Blocks) /\ Len(list') = Len(list) + 1 /\ list'[Len(list) + 1] = b
      /\ \A i \in 1..Len(list) : list'[i] = list[i]
    BY DEF TypeOK
<1>2. CASE item = NULL
    BY <1>1, <1>2 DEF Line
<1>3. CASE item # NULL
    <2>0. item \in Blocks
        BY <1>3 DEF TypeOK, Ptr
    <2>1. /\ Len(Line) = Len(list) + 1
          /\ \A i \in 1..Len(list) + 1 : Line[i] = IF i = 1 THEN item ELSE list[i - 1]
        BY <1>1, <1>3, <2>0 DEF Line
    <2>2. Line' = <<item>> \o list'
        BY <1>3 DEF Line
    <2>3. /\ Len(Line') = Len(list) + 2
          /\ \A i \in 1..Len(list) + 2 : Line'[i] = IF i = 1 THEN item ELSE list'[i - 1]
        BY <1>1, <2>0, <2>2
    <2>4. ASSUME NEW i \in 1..Len(list) + 1, i # 1  PROVE list'[i - 1] = list[i - 1]
        BY <1>1, <2>4
    <2>5. Line'[Len(list) + 2] = b
        BY <1>1, <2>3
    <2> QED
        BY <1>1, <2>1, <2>3, <2>4, <2>5
<1> QED
    BY <1>2, <1>3

(* The block in hand becomes the byte queue. *)
LEMMA LineShift ==
    ASSUME TypeOK, item # NULL, item' = NULL, list' = list
    PROVE  /\ Len(Line) = Len(Line') + 1 /\ Line[1] = item
           /\ \A i \in 1..Len(Line') : Line'[i] = Line[i + 1]
<1>1. list \in Seq(Blocks) /\ Len(list) \in Nat /\ item \in Blocks
    BY DEF TypeOK, Ptr
<1>2. Line' = list /\ Line = <<item>> \o list
    BY DEF Line
<1>3. /\ Len(Line) = Len(list) + 1
      /\ \A i \in 1..Len(list) + 1 : Line[i] = IF i = 1 THEN item ELSE list[i - 1]
    BY <1>1, <1>2
<1>4. ASSUME NEW i \in 1..Len(list)  PROVE Line[i + 1] = list[i]
    BY <1>1, <1>3
<1> QED
    BY <1>1, <1>2, <1>3, <1>4

(* Nothing is twice in line. *)
LEMMA Apart ==
    ASSUME IInv, ~starved
    PROVE  /\ NULL \notin Blocks
           /\ ptUsedByOutside # NULL => ptUsedByOutside \in Blocks \ InLine
           /\ bIsQueueInitialised => /\ ptUsedByQueue \in Blocks \ InLine
                                     /\ ptUsedByQueue # ptUsedByOutside
           /\ \A b \in pool : /\ b \in Blocks \ InLine /\ b # ptUsedByOutside
                              /\ bIsQueueInitialised => b # ptUsedByQueue
<1>1. OneOwner /\ TypeOK /\ Control /\ pc # "halted"
    BY DEF IInv, Port
<1>2. bIsQueueInitialised => ptUsedByQueue \in Blocks /\ Queued = {ptUsedByQueue}
    BY <1>1 DEF Control, Queued, Released, TypeOK, Ptr
<1>3. ptUsedByOutside # NULL => ptUsedByOutside \in Blocks /\ Lent = {ptUsedByOutside}
    BY <1>1 DEF Lent, TypeOK, Ptr
<1>4. pool \subseteq Blocks /\ NULL \notin Blocks
    BY <1>1, BlocksAssumption DEF TypeOK
<1> QED
    BY <1>1, <1>2, <1>3, <1>4 DEF OneOwner, InLine

--------------------------------------------------------------------------------
(* The parts of the joint, when a step leaves them alone.                  *)

LineKept == \A c \in InLine : Size'[c] = Size[c] /\ buffer'[c] = buffer[c]

(* The line joins as before if its blocks stay what they are. *)
LEMMA LineStays ==
    ASSUME TypeOK, NEW st, NEW e, LineJoins(st, e), LineKept,
           Len(Line') = Len(Line), \A i \in 1..Len(Line) : Line'[i] = Line[i]
    PROVE  LineJoins(st, e)' /\ LineFrom(st, e)' = LineFrom(st, e)
<1>1. Len(Line) \in Nat /\ \A i \in 1..Len(Line) : Line[i] \in InLine
    BY LineType
<1>2. LineFrom(st, e)' = LineFrom(st, e)
    BY <1>1 DEF LineFrom
<1>3. ASSUME NEW i \in 1..Len(Line)
      PROVE  /\ Holds(Line[i], Size[Line[i]], st[Line[i]])'
             /\ st[Line'[i]] + Size'[Line'[i]] = IF i = Len(Line) THEN e ELSE st[Line'[i + 1]]
             /\ st[Line'[i]] + Size'[Line'[i]] <= e
    <2>1. Line'[i] = Line[i] /\ Size'[Line[i]] = Size[Line[i]] /\ buffer'[Line[i]] = buffer[Line[i]]
        BY <1>1 DEF LineKept
    <2>2. i # Len(Line) => Line'[i + 1] = Line[i + 1]
        BY <1>1
    <2> QED
        BY <2>1, <2>2 DEF LineJoins, Holds
<1> QED
    BY <1>2, <1>3 DEF LineJoins

(* So does the byte queue if the line begins where it began. *)
LEMMA QueueStays ==
    ASSUME NEW st, NEW e, NEW st2, NEW e2, QueueJoins(st, e),
           LineFrom(st2, e2)' = LineFrom(st, e),
           UNCHANGED <<bIsQueueInitialised, qHead, qCount, delivered>>,
           bIsQueueInitialised => /\ ptUsedByQueue' = ptUsedByQueue
                                  /\ buffer'[ptUsedByQueue] = buffer[ptUsedByQueue]
    PROVE  QueueJoins(st2, e2)'
BY DEF QueueJoins

(* So does the block lent to the port. *)
LEMMA OutStays ==
    ASSUME NEW e, OutJoins(e), UNCHANGED <<Here, received, ptUsedByOutside>>,
           ptUsedByOutside # NULL => buffer'[ptUsedByOutside] = buffer[ptUsedByOutside]
    PROVE  OutJoins(e)'
BY DEF OutJoins, Holds

(* Steps that leave the data alone. *)
Quiet ==
    \/ CallRead \/ FetchBlock \/ CheckPort \/ AssignBlock \/ ReloadBlock
    \/ SetBuffer \/ SetSize \/ SetIndex \/ EnableRx \/ NothingToRead
    \/ RxCancelled \/ TimerTicks \/ TimeoutEmpty

(* They change no byte, no block in line and no count. *)
LEMMA QuietSteps ==
    ASSUME IInv, ~starved, Quiet
    PROVE  /\ UNCHANGED <<Size, buffer, bIsQueueInitialised, qHead, qCount, delivered,
                          received, ptUsedByOutside, Here>>
           /\ bIsQueueInitialised => ptUsedByQueue' = ptUsedByQueue
           /\ Len(Line') = Len(Line) /\ \A i \in 1..Len(Line) : Line'[i] = Line[i]
<1>i. TypeOK /\ Control /\ PortOff /\ PortSetting /\ PortOn
    BY DEF IInv, Port
<1> USE DEF heap, queue, filling, adapter, history, Here, Setting
<1>1. CASE CallRead \/ CheckPort
    BY <1>1, <1>i DEF CallRead, CheckPort, PortIdle, Line
<1>2. CASE FetchBlock
    <2>1. item = NULL
        BY <1>2, <1>i DEF FetchBlock, Control
    <2> QED
        BY <1>2, <1>i, <2>1, LineFetch DEF FetchBlock
<1>3. CASE AssignBlock \/ SetBuffer \/ SetSize \/ SetIndex
    BY <1>3 DEF AssignBlock, SetBuffer, SetSize, SetIndex, Line
<1>4. CASE ReloadBlock
    <2>1. ptUsedByOutside # NULL => pc' = "buffer"
        BY <1>4, <1>i DEF ReloadBlock, PortSetting, PortOn
    <2> QED
        BY <1>4, <2>1 DEF ReloadBlock, Line
<1>5. CASE EnableRx
    BY <1>5, <1>i DEF EnableRx, PortSetting, Line
<1>6. CASE NothingToRead
    BY <1>6, <1>i DEF NothingToRead, Control, Line
<1>7. CASE RxCancelled \/ TimerTicks \/ TimeoutEmpty
    BY <1>7 DEF RxCancelled, TimerTicks, TimeoutEmpty, Line
<1> QED
    BY <1>1, <1>2, <1>3, <1>4, <1>5, <1>6, <1>7 DEF Quiet

(* So everything follows as before. *)
LEMMA QuietJoins ==
    ASSUME IInv, ~starved, NEW st, NEW e, Joins(st, e), Quiet
    PROVE  Joins(st, e)'
<1>1. LineKept
    BY QuietSteps DEF LineKept
<1>2. LineJoins(st, e)' /\ LineFrom(st, e)' = LineFrom(st, e)
    BY <1>1, QuietSteps, LineStays DEF Joins, IInv
<1>3. QueueJoins(st, e)'
    BY <1>2, QuietSteps, QueueStays DEF Joins
<1>4. OutJoins(e)'
    BY QuietSteps, OutStays DEF Joins
<1> QED
    BY <1>2, <1>3, <1>4 DEF Joins

--------------------------------------------------------------------------------
(* The steps that move bytes.                                              *)

(* No more was read, or is in the byte queue, than was received. *)
LEMMA LineBehind ==
    ASSUME TypeOK, NEW st \in [Blocks -> Nat], NEW e \in Nat, Joins(st, e)
    PROVE  /\ LineFrom(st, e) \in Nat /\ LineFrom(st, e) <= e
           /\ e <= received /\ Here \in Nat
<1>1. Here \in Nat /\ received \in Nat
    BY DEF Here, TypeOK
<1>2. e <= received
    BY <1>1 DEF Joins, OutJoins
<1>3. CASE Len(Line) = 0
    BY <1>1, <1>2, <1>3 DEF LineFrom
<1>4. CASE Len(Line) # 0
    <2>1. 1 \in 1..Len(Line) /\ Line[1] \in Blocks
        BY <1>4, LineType
    <2>2. st[Line[1]] + Size[Line[1]] <= e /\ LineFrom(st, e) = st[Line[1]]
        BY <1>4, <2>1 DEF Joins, LineJoins, LineFrom
    <2>3. st[Line[1]] \in Nat /\ Size[Line[1]] \in Nat
        BY <2>1, SizeAssumption DEF TypeOK
    <2> QED
        BY <1>1, <1>2, <2>2, <2>3
<1> QED
    BY <1>3, <1>4

(* The bytes read are the next ones of the byte queue. *)
Reads(n) ==
    /\ Len(delivered) + n <= received
    /\ Len(delivered') = Len(delivered) + n
    /\ \A i \in 1..Len(delivered) : delivered'[i] = delivered[i]
    /\ \A i \in 1..n : delivered'[Len(delivered) + i] = Len(delivered) + i

(* Bytes are read from the byte queue. *)
LEMMA DequeueJoins ==
    ASSUME IInv, ~starved, NEW st \in [Blocks -> Nat], NEW e \in Nat, Joins(st, e), DequeueBytes
    PROVE  Joins(st, e)' /\ \E n \in Nat \ {0} : Reads(n)
<1> DEFINE q == buffer[ptUsedByQueue]
           d == Len(delivered)
<1>1. PICK n \in 1..qCount :
         /\ delivered' = delivered \o SubSeq(q, qHead + 1, qHead + n)
         /\ qHead' = qHead + n /\ qCount' = qCount - n
    BY DEF DequeueBytes
<1>2. TypeOK /\ Control
    BY DEF IInv
<1>3. UNCHANGED <<cfg, heap, list, ptUsedByQueue, bIsQueueInitialised, ptUsedByOutside,
                  adapter, item, received>>
      /\ bIsQueueInitialised /\ ~Setting /\ ~Setting'
    BY DEF DequeueBytes, HasBytes, Setting
<1>4. ptUsedByQueue \in Blocks
    BY <1>3, Apart
<1>5. q \in Seq(Nat) /\ Len(q) = BlockSize
    <2>1. q \in [1..BlockSize -> Nat]
        BY <1>2, <1>4 DEF TypeOK
    <2> QED
        BY <2>1, SizeAssumption
<1>6. /\ n \in Nat \ {0} /\ qHead \in Nat /\ qCount \in Nat /\ BlockSize \in Nat
      /\ n <= qCount /\ qHead + qCount <= BlockSize
    BY <1>1, <1>2, SizeAssumption DEF TypeOK, Control
<1>7. delivered \in Seq(Nat) /\ d \in Nat /\ received \in Nat
    BY <1>2 DEF TypeOK
<1>8. /\ SubSeq(q, qHead + 1, qHead + n) \in Seq(Nat)
      /\ Len(SubSeq(q, qHead + 1, qHead + n)) = n
      /\ \A i \in 1..n : SubSeq(q, qHead + 1, qHead + n)[i] = q[qHead + i]
    <2>2. PICK s \in Seq(Nat) : s = q
        BY <1>5
    <2>3. PICK h \in Nat, k \in Nat : h = qHead + 1 /\ k = qHead + n
        BY <1>6
    <2>1. \A i \in h..k : s[i] \in Nat
        BY <1>5, <1>6, <2>2, <2>3
    <2>4. /\ SubSeq(s, h, k) \in Seq(Nat)
          /\ Len(SubSeq(s, h, k)) = IF h <= k THEN k - h + 1 ELSE 0
          /\ \A i \in 1..k - h + 1 : SubSeq(s, h, k)[i] = s[h + i - 1]
        BY <2>1, <2>2, <2>3, SubSeqProperties
    <2>5. h <= k /\ k - h + 1 = n
        BY <1>6, <2>3
    <2>6. \A i \in 1..n : h + i - 1 = qHead + i
        BY <1>6, <2>3
    <2> QED
        BY <2>2, <2>3, <2>4, <2>5, <2>6
<1>9. /\ d + qCount = LineFrom(st, e)
      /\ \A i \in 1..qCount : q[qHead + i] = d + i
    BY <1>3 DEF Joins, QueueJoins
<1>10. /\ Len(delivered') = d + n
       /\ \A i \in 1..d : delivered'[i] = delivered[i]
       /\ \A i \in 1..n : delivered'[d + i] = SubSeq(q, qHead + 1, qHead + n)[i]
    <2>1. PICK s \in Seq(Nat) : s = SubSeq(q, qHead + 1, qHead + n)
        BY <1>8
    <2>2. delivered' = delivered \o s /\ Len(s) = n
        BY <1>1, <1>8, <2>1
    <2>3. /\ Len(delivered \o s) = d + n
          /\ \A i \in 1..d : (delivered \o s)[i] = delivered[i]
          /\ \A i \in 1..n : (delivered \o s)[d + i] = s[i]
        BY <1>6, <1>7, <2>2
    <2> QED
        BY <2>1, <2>2, <2>3
<1>11. d + n <= received
    <2>1. LineFrom(st, e) \in Nat /\ LineFrom(st, e) <= received
        BY <1>2, <1>7, LineBehind
    <2> QED
        BY <1>6, <1>7, <1>9, <2>1
<1>12. Reads(n)
    <2>1. \A i \in 1..n : i \in 1..qCount
        BY <1>6
    <2> QED
        BY <1>8, <1>9, <1>10, <1>11, <2>1 DEF Reads
<1>13. UNCHANGED <<Line, Here>>
    BY <1>3 DEF Line, Here, adapter, filling
<1>14. LineJoins(st, e)' /\ LineFrom(st, e)' = LineFrom(st, e)
    BY <1>2, <1>3, <1>13, LineStays DEF LineKept, Joins, heap
<1>15. QueueJoins(st, e)'
    <2>1. Len(delivered') + qCount' = LineFrom(st, e)'
        BY <1>1, <1>6, <1>7, <1>9, <1>10, <1>14
    <2>2. ASSUME NEW i \in 1..qCount'  PROVE q[qHead' + i] = Len(delivered') + i
        <3>1. n + i \in 1..qCount
            BY <1>1, <1>6
        <3>2. q[qHead + (n + i)] = d + (n + i)
            BY <1>9, <3>1
        <3>3. qHead + (n + i) = qHead' + i /\ d + (n + i) = Len(delivered') + i
            BY <1>1, <1>6, <1>7, <1>10
        <3> QED
            BY <3>2, <3>3
    <2> QED
        BY <1>3, <2>1, <2>2 DEF QueueJoins, heap
<1>16. OutJoins(e)'
    BY <1>3, <1>13, OutStays DEF Joins, heap
<1> QED
    BY <1>6, <1>12, <1>14, <1>15, <1>16 DEF Joins

(* An empty byte queue is given up. *)
LEMMA ReleaseJoins ==
    ASSUME IInv, ~starved, NEW st \in [Blocks -> Nat], NEW e \in Nat, Joins(st, e), ReleaseBlock
    PROVE  Joins(st, e)'
<1>1. TypeOK /\ Control
    BY DEF IInv
<1>2. /\ bIsQueueInitialised' = FALSE
      /\ UNCHANGED <<list, ptUsedByOutside, adapter, item, received, delivered>>
      /\ ~Setting /\ ~Setting' /\ (bIsQueueInitialised => qCount = 0)
    BY <1>1 DEF ReleaseBlock, HasBytes, Setting, history, TypeOK
<1>3. UNCHANGED <<Line, Here>>
    BY <1>2 DEF Line, Here, adapter, filling
<1>4. /\ \A c \in Blocks \ {ptUsedByQueue} : Size'[c] = Size[c] /\ buffer'[c] = buffer[c]
    BY DEF ReleaseBlock
<1>5. ptUsedByQueue \notin InLine /\ (ptUsedByOutside # NULL => ptUsedByQueue # ptUsedByOutside)
    <2>1. OneOwner /\ NULL \notin Blocks
        BY BlocksAssumption DEF IInv
    <2>2. InLine \subseteq Blocks
        BY <1>1, LineType
    <2>3. Queued = {ptUsedByQueue} \ {NULL}
        BY DEF ReleaseBlock, Queued, Released
    <2> QED
        BY <2>1, <2>2, <2>3 DEF OneOwner, InLine, Lent
<1>6. LineKept
    BY <1>1, <1>4, <1>5, LineType DEF LineKept
<1>7. LineJoins(st, e)' /\ LineFrom(st, e)' = LineFrom(st, e)
    BY <1>1, <1>3, <1>6, LineStays DEF Joins
<1>8. OutJoins(e)'
    <2>1. ptUsedByOutside # NULL => ptUsedByOutside \in Blocks \ {ptUsedByQueue}
        BY <1>5, Apart
    <2> QED
        BY <1>2, <1>3, <1>4, <2>1, OutStays DEF Joins
<1>9. QueueJoins(st, e)'
    <2>1. Len(delivered) \in Nat
        BY <1>1 DEF TypeOK
    <2> QED
        BY <1>2, <1>7, <2>1 DEF Joins, QueueJoins
<1> QED
    BY <1>7, <1>8, <1>9 DEF Joins

(* The block in hand becomes the byte queue. *)
LEMMA AdoptJoins ==
    ASSUME IInv, ~starved, NEW st \in [Blocks -> Nat], NEW e \in Nat, Joins(st, e), Adopt
    PROVE  Joins(st, e)'
<1>1. TypeOK /\ Control
    BY DEF IInv
<1>2. /\ item # NULL /\ item' = NULL /\ ~bIsQueueInitialised /\ bIsQueueInitialised' = TRUE
      /\ ptUsedByQueue' = item /\ qHead' = 0 /\ qCount' = Size[item]
      /\ UNCHANGED <<heap, list, ptUsedByOutside, adapter, received, delivered>>
      /\ ~Setting /\ ~Setting'
    BY <1>1 DEF Adopt, Control, Setting, history
<1>3. /\ Len(Line) = Len(Line') + 1 /\ Line[1] = item
      /\ \A i \in 1..Len(Line') : Line'[i] = Line[i + 1]
    BY <1>1, <1>2, LineShift
<1>4. Len(Line) \in Nat /\ Len(Line') \in Nat /\ item \in Blocks
    <2>1. Len(Line) \in Nat
        BY <1>1, LineType
    <2>2. Len(Line') = Len(list)
        BY <1>2 DEF Line
    <2> QED
        BY <1>1, <1>2, <2>1, <2>2 DEF TypeOK, Ptr
<1>5. OutJoins(e)'
    <2>1. UNCHANGED Here
        BY <1>2 DEF Here, adapter, filling
    <2> QED
        BY <1>2, <2>1, OutStays DEF Joins, heap
<1>6. LineJoins(st, e)'
    <2> SUFFICES ASSUME NEW i \in 1..Len(Line')
                 PROVE  /\ Holds(Line'[i], Size[Line'[i]], st[Line'[i]])
                        /\ st[Line'[i]] + Size[Line'[i]] =
                              IF i = Len(Line') THEN e ELSE st[Line'[i + 1]]
                        /\ st[Line'[i]] + Size[Line'[i]] <= e
        BY <1>2 DEF LineJoins, Holds, heap
    <2>1. i + 1 \in 1..Len(Line) /\ (i + 1 = Len(Line) <=> i = Len(Line'))
        BY <1>3, <1>4
    <2>2. i # Len(Line') => Line'[i + 1] = Line[(i + 1) + 1]
        BY <1>3, <1>4
    <2> QED
        BY <1>3, <2>1, <2>2 DEF Joins, LineJoins
<1>7. /\ Holds(item, Size[item], st[item]) /\ Len(delivered) = st[item]
      /\ st[item] + Size[item] = LineFrom(st, e)'
    <2>1. 1 \in 1..Len(Line) /\ Len(Line) # 0
        BY <1>3, <1>4
    <2>2. /\ Holds(item, Size[item], st[item])
          /\ st[item] + Size[item] = IF 1 = Len(Line) THEN e ELSE st[Line[1 + 1]]
        BY <1>3, <2>1 DEF Joins, LineJoins
    <2>3. Len(delivered) = st[item]
        BY <1>2, <1>3, <2>1 DEF Joins, QueueJoins, LineFrom
    <2>4. LineFrom(st, e)' = IF 1 = Len(Line) THEN e ELSE st[Line[1 + 1]]
        BY <1>3, <1>4 DEF LineFrom
    <2> QED
        BY <2>2, <2>3, <2>4
<1>8. QueueJoins(st, e)'
    <2>1. \A i \in 1..Size[item] : 0 + i = i /\ buffer'[item][i] = Len(delivered') + i
        BY <1>2, <1>7 DEF Holds, heap
    <2>2. \A i \in 1..qCount' : buffer'[ptUsedByQueue'][qHead' + i] = Len(delivered') + i
        BY <1>2, <2>1
    <2> QED
        BY <1>2, <1>7, <2>2 DEF QueueJoins
<1> QED
    BY <1>5, <1>6, <1>8 DEF Joins

--------------------------------------------------------------------------------
(* The block lent to the port.                                             *)

(* The reader lends the port a block. *)
LEMMA ExchangeJoins ==
    ASSUME IInv, ~starved, NEW st \in [Blocks -> Nat], NEW e \in Nat, Joins(st, e), ExchangeBlock
    PROVE  Joins(st, e)'
<1>1. TypeOK /\ Control /\ old = NULL /\ ptUsedByOutside = NULL /\ pc = "exchange"
    BY DEF ExchangeBlock, IInv, Port, PortSetting
<1>2. PICK new \in Available : Exchange(old, new, Size)
    BY DEF ExchangeBlock
<1>3. /\ list' = list /\ Here = 0 /\ Here' = 0
      /\ UNCHANGED <<buffer, queue, item, received, delivered>>
      /\ \A c \in Blocks \ {new} : Size'[c] = Size[c]
    BY <1>1, <1>2 DEF ExchangeBlock, Exchange, Here, Setting, history, TypeOK
<1>4. LineKept
    <2>1. new \notin InLine \/ new = NULL
        BY <1>1, <1>2, AvailableType, Apart
    <2>2. InLine \subseteq Blocks /\ NULL \notin Blocks
        BY <1>1, LineType, BlocksAssumption
    <2> QED
        BY <1>3, <2>1, <2>2 DEF LineKept
<1>5. LineJoins(st, e)' /\ LineFrom(st, e)' = LineFrom(st, e)
    <2>1. UNCHANGED Line
        BY <1>3 DEF Line
    <2> QED
        BY <1>1, <1>4, <2>1, LineStays DEF Joins
<1>6. QueueJoins(st, e)'
    BY <1>3, <1>5, QueueStays DEF Joins, queue
<1>7. OutJoins(e)'
    <2>1. e + 0 = received
        BY <1>3 DEF Joins, OutJoins
    <2> QED
        BY <1>3, <2>1 DEF OutJoins, Holds
<1> QED
    BY <1>5, <1>6, <1>7 DEF Joins

(* A byte stored in the block lent to the port touches no other block. *)
LEMMA StoreElsewhere ==
    ASSUME IInv, ~starved, StoreByte
    PROVE  /\ received' = received + 1
           /\ \A c \in Blocks \ {ptUsedByOutside} : buffer'[c] = buffer[c]
           /\ \A i \in 1..hwIndex : buffer'[ptUsedByOutside][i] = buffer[ptUsedByOutside][i]
           /\ buffer'[ptUsedByOutside][hwIndex + 1] = received + 1
           /\ hwIndex \in Nat /\ ptUsedByOutside \in Blocks /\ ptUsedByOutside # NULL
           /\ hwIndex + 1 <= Size[ptUsedByOutside] /\ Here = hwIndex
<1>1. /\ ~Setting /\ ptBlock \in Blocks /\ ptBlock = ptUsedByOutside
      /\ pchBuffer = ptBlock /\ hwSize = Size[ptBlock] /\ hwIndex < hwSize
    BY PortStores
<1>2. /\ hwIndex \in Nat /\ Size[ptBlock] \in 0..BlockSize /\ BlockSize \in Nat
      /\ buffer[ptBlock] \in [1..BlockSize -> Nat] /\ buffer \in [Blocks -> [1..BlockSize -> Nat]]
    BY <1>1, SizeAssumption DEF IInv, TypeOK
<1>3. hwIndex + 1 \in 1..BlockSize /\ hwIndex + 1 <= Size[ptBlock]
    BY <1>1, <1>2
<1>4. received' = received + 1
      /\ buffer' = [buffer EXCEPT ![ptBlock] = [buffer[ptBlock] EXCEPT ![hwIndex + 1] = received + 1]]
    BY <1>1 DEF StoreByte
<1>5. buffer'[ptBlock] = [buffer[ptBlock] EXCEPT ![hwIndex + 1] = received + 1]
    BY <1>1, <1>2, <1>4
<1>6. \A i \in 1..hwIndex : i \in 1..BlockSize /\ i # hwIndex + 1
    BY <1>2, <1>3
<1>7. /\ \A i \in 1..hwIndex : buffer'[ptBlock][i] = buffer[ptBlock][i]
      /\ buffer'[ptBlock][hwIndex + 1] = received + 1
    BY <1>2, <1>3, <1>5, <1>6
<1>8. \A c \in Blocks \ {ptBlock} : buffer'[c] = buffer[c]
    BY <1>2, <1>4
<1>9. ptBlock # NULL
    BY <1>1, BlocksAssumption
<1> QED
    BY <1>1, <1>2, <1>3, <1>4, <1>7, <1>8, <1>9 DEF Here

(* So the block holds one byte more, the last one received. *)
LEMMA StoreHolds ==
    ASSUME IInv, ~starved, StoreByte, NEW e \in Nat, OutJoins(e)
    PROVE  /\ e + (hwIndex + 1) = received'
           /\ \A i \in 1..hwIndex + 1 : buffer'[ptUsedByOutside][i] = e + i
<1>1. received \in Nat /\ hwIndex \in Nat /\ e + hwIndex = received
    BY StoreElsewhere DEF IInv, TypeOK, OutJoins
<1>2. e + (hwIndex + 1) = received + 1
    BY <1>1
<1>3. ASSUME NEW i \in 1..hwIndex + 1  PROVE buffer'[ptUsedByOutside][i] = e + i
    <2>1. CASE i = hwIndex + 1
        BY <1>2, <2>1, StoreElsewhere
    <2>2. CASE i \in 1..hwIndex
        <3>1. buffer[ptUsedByOutside][i] = e + i
            BY <2>2, StoreElsewhere DEF OutJoins, Holds
        <3> QED
            BY <2>2, <3>1, StoreElsewhere
    <2> QED
        BY <1>1, <2>1, <2>2
<1> QED
    BY <1>2, <1>3, StoreElsewhere

(* The receive interrupt, with room left in the block. *)
LEMMA RxByteJoins ==
    ASSUME IInv, ~starved, NEW st \in [Blocks -> Nat], NEW e \in Nat, Joins(st, e), RxByte
    PROVE  Joins(st, e)'
<1>1. StoreByte /\ TypeOK
    BY DEF RxByte, IInv
<1>2. /\ hwIndex' = hwIndex + 1
      /\ UNCHANGED <<Size, list, queue, ptUsedByOutside, pc, item, delivered>>
    BY DEF RxByte
<1>3. ~Setting /\ ~Setting' /\ Here' = hwIndex + 1
    BY <1>1, <1>2, PortStores, StoreElsewhere DEF Setting, Here
<1>4. LineKept /\ (bIsQueueInitialised => buffer'[ptUsedByQueue] = buffer[ptUsedByQueue])
    BY <1>1, <1>2, StoreElsewhere, Apart, LineType DEF LineKept
<1>5. LineJoins(st, e)' /\ LineFrom(st, e)' = LineFrom(st, e)
    <2>1. UNCHANGED Line
        BY <1>2 DEF Line
    <2> QED
        BY <1>1, <1>4, <2>1, LineStays DEF Joins
<1>6. QueueJoins(st, e)'
    BY <1>2, <1>4, <1>5, QueueStays DEF Joins, queue
<1>7. OutJoins(e)'
    BY <1>1, <1>2, <1>3, StoreHolds DEF Joins, OutJoins, Holds
<1> QED
    BY <1>5, <1>6, <1>7 DEF Joins

(* The block lent to the port, with what it has, becomes the last one in   *)
(* line.                                                                   *)
Queues(st, e, st2, e2, b) ==
    /\ b \notin InLine /\ item' = item /\ list' = Append(list, b) /\ LineKept
    /\ st2[b] = e /\ \A c \in Blocks \ {b} : st2[c] = st[c]
    /\ e + Size'[b] = e2 /\ \A i \in 1..Size'[b] : buffer'[b][i] = e + i

(* The line then ends where the next block lent to the port will begin. *)
LEMMA LineGrows ==
    ASSUME TypeOK, NEW st \in [Blocks -> Nat], NEW e \in Nat, LineJoins(st, e),
           NEW st2 \in [Blocks -> Nat], NEW e2 \in Nat, NEW b \in Blocks,
           Size'[b] \in Nat, Queues(st, e, st2, e2, b)
    PROVE  LineJoins(st2, e2)' /\ LineFrom(st2, e2)' = LineFrom(st, e)
<1> DEFINE n == Len(Line)
<1>1. /\ n \in Nat /\ \A i \in 1..n : Line[i] \in InLine /\ Line[i] \in Blocks
    BY LineType
<1>2. Len(Line') = n + 1 /\ Line'[n + 1] = b /\ \A i \in 1..n : Line'[i] = Line[i]
    BY LineAppend DEF Queues
<1>3. \A i \in 1..n : st2[Line[i]] = st[Line[i]]
    BY <1>1 DEF Queues
<1>4. LineFrom(st2, e2)' = LineFrom(st, e)
    <2>1. CASE n = 0
        BY <1>2, <2>1 DEF Queues, LineFrom
    <2>2. CASE n # 0
        <3>1. 1 \in 1..n /\ Len(Line') # 0
            BY <1>1, <1>2, <2>2
        <3> QED
            BY <1>2, <1>3, <2>2, <3>1 DEF LineFrom
    <2> QED
        BY <2>1, <2>2
<1>5. ASSUME NEW i \in 1..n + 1
      PROVE  /\ Holds(Line[i], Size[Line[i]], st2[Line[i]])'
             /\ st2[Line'[i]] + Size'[Line'[i]] = IF i = n + 1 THEN e2 ELSE st2[Line'[i + 1]]
             /\ st2[Line'[i]] + Size'[Line'[i]] <= e2
    <2>1. CASE i = n + 1
        <3>1. e + Size'[b] <= e2
            BY DEF Queues
        <3>2. Holds(Line[i], Size[Line[i]], st2[Line[i]])'
            BY <1>2, <2>1 DEF Queues, Holds
        <3> QED
            BY <1>2, <2>1, <3>1, <3>2 DEF Queues
    <2>2. CASE i \in 1..n
        <3>1. /\ Line'[i] = Line[i] /\ Size'[Line[i]] = Size[Line[i]]
              /\ buffer'[Line[i]] = buffer[Line[i]] /\ st2[Line[i]] = st[Line[i]]
            BY <1>1, <1>2, <1>3, <2>2 DEF Queues, LineKept
        <3>2. Holds(Line[i], Size[Line[i]], st2[Line[i]])'
            BY <2>2, <3>1 DEF LineJoins, Holds
        <3>3. st2[Line'[i]] + Size'[Line'[i]] = st2[Line'[i + 1]] /\ i # n + 1
            <4>1. CASE i = n
                BY <1>1, <1>2, <2>2, <3>1, <4>1 DEF Queues, LineJoins
            <4>2. CASE i # n
                <5>1. i + 1 \in 1..n
                    BY <1>1, <2>2, <4>2
                <5> QED
                    BY <1>1, <1>2, <1>3, <2>2, <3>1, <4>2, <5>1 DEF LineJoins
            <4> QED
                BY <4>1, <4>2
        <3>4. st2[Line'[i]] + Size'[Line'[i]] <= e2
            <4>1. PICK k \in Nat : k = st[Line[i]]
                BY <1>1, <2>2
            <4>0. Line[i] \in Blocks
                BY <1>1, <2>2
            <4>2. PICK z \in Nat : z = Size[Line[i]]
                BY <4>0, SizeAssumption DEF TypeOK
            <4>3. k + z <= e
                BY <2>2, <4>1, <4>2 DEF LineJoins
            <4>4. k + z <= e2
                BY <4>3 DEF Queues
            <4> QED
                BY <3>1, <4>1, <4>2, <4>4
        <3> QED
            BY <3>2, <3>3, <3>4
    <2> QED
        BY <1>1, <2>1, <2>2
<1> QED
    BY <1>2, <1>4, <1>5 DEF LineJoins

(* A handler queues the block lent to the port with its m bytes, and lends *)
(* another or none.                                                        *)
LEMMA HandOver ==
    ASSUME IInv, ~starved, NEW st \in [Blocks -> Nat], NEW e \in Nat, Joins(st, e),
           NEW b \in Blocks, b = ptBlock, b = ptUsedByOutside,
           NEW size, NEW index, NEW irq, RequestRead(size, index, irq),
           NEW m \in Nat, size[b] = m, size \in [Blocks -> 0..BlockSize],
           \A c \in Blocks \ {b} : size[c] = Size[c] /\ buffer'[c] = buffer[c],
           \A i \in 1..m : buffer'[b][i] = e + i,
           e + m = received',
           UNCHANGED <<queue, item, delivered>>
    PROVE  \E st2 \in [Blocks -> Nat], e2 \in Nat : Joins(st2, e2)'
<1>1. PICK new \in Available : /\ Exchange(ptBlock, new, size)
                               /\ new # NULL => hwIndex' = 0
    BY DEF RequestRead
<1>2. TypeOK /\ NULL \notin Blocks /\ b \notin InLine /\ b # NULL
    BY Apart DEF IInv
<1>3. new # NULL => new \in Blocks /\ new \notin InLine /\ new # b
    BY <1>2, AvailableType, Apart
<1>4. list' = Append(list, b) /\ ptUsedByOutside' = new
      /\ \A c \in Blocks \ {new} : Size'[c] = size[c]
    BY <1>1, <1>2 DEF Exchange
<1>5. Size'[b] = m /\ LineKept
    <2>1. InLine \subseteq Blocks
        BY <1>2, LineType
    <2> QED
        BY <1>2, <1>3, <1>4, <2>1 DEF LineKept
<1>6. PICK st2 \in [Blocks -> Nat] : st2[b] = e /\ \A c \in Blocks \ {b} : st2[c] = st[c]
    <2>1. [st EXCEPT ![b] = e] \in [Blocks -> Nat]
        OBVIOUS
    <2> QED
        BY <2>1
<1>7. PICK e2 \in Nat : e2 = e + m
    OBVIOUS
<1>8. LineJoins(st2, e2)' /\ LineFrom(st2, e2)' = LineFrom(st, e)
    <2>1. LineJoins(st, e)
        BY DEF Joins
    <2>2. Queues(st, e, st2, e2, b) /\ Size'[b] \in Nat
        BY <1>2, <1>4, <1>5, <1>6, <1>7 DEF Queues
    <2> QED
        BY <1>2, <2>1, <2>2, LineGrows
<1>9. QueueJoins(st2, e2)'
    <2>1. bIsQueueInitialised => buffer'[ptUsedByQueue] = buffer[ptUsedByQueue]
        BY Apart
    <2> QED
        BY <1>8, <2>1, QueueStays DEF Joins, queue
<1>10. OutJoins(e2)'
    <2>1. Here' = 0
        BY <1>1, <1>4 DEF Here
    <2> QED
        BY <1>7, <2>1 DEF OutJoins, Holds
<1> QED
    BY <1>8, <1>9, <1>10 DEF Joins

(* The receive interrupt, when the block is full: all of it is queued. *)
LEMMA BlockFullJoins ==
    ASSUME IInv, ~starved, NEW st \in [Blocks -> Nat], NEW e \in Nat, Joins(st, e), RxBlockFull
    PROVE  \E st2 \in [Blocks -> Nat], e2 \in Nat : Joins(st2, e2)'
<1>1. /\ StoreByte /\ hwIndex + 1 >= hwSize /\ RequestRead(Size, hwIndex + 1, FALSE)
      /\ UNCHANGED <<queue, item, delivered>>
    BY DEF RxBlockFull
<1>2. ptBlock \in Blocks /\ ptBlock = ptUsedByOutside /\ hwSize = Size[ptBlock]
    BY <1>1, PortStores
<1>3. PICK m \in Nat : m = hwIndex + 1
    BY <1>1, StoreElsewhere
<1>4. Size \in [Blocks -> 0..BlockSize] /\ Size[ptBlock] \in Nat
    BY <1>2, SizeAssumption DEF IInv, TypeOK
<1>5. Size[ptBlock] = m
    BY <1>1, <1>2, <1>3, <1>4, StoreElsewhere
<1>6. e + m = received' /\ \A i \in 1..m : buffer'[ptBlock][i] = e + i
    BY <1>1, <1>2, <1>3, StoreHolds DEF Joins
<1>7. \A c \in Blocks \ {ptBlock} : Size[c] = Size[c] /\ buffer'[c] = buffer[c]
    BY <1>1, <1>2, StoreElsewhere
<1> QED
    <2>1. PICK size : size = Size
        OBVIOUS
    <2>2. PICK irq : irq = FALSE
        OBVIOUS
    <2>3. RequestRead(size, m, irq) /\ UNCHANGED <<queue, item, delivered>>
        BY <1>1, <1>3, <2>1, <2>2
    <2>4. /\ size \in [Blocks -> 0..BlockSize] /\ size[ptBlock] = m
          /\ \A c \in Blocks \ {ptBlock} : size[c] = Size[c] /\ buffer'[c] = buffer[c]
        BY <1>4, <1>5, <1>7, <2>1
    <2> QED
        BY <1>2, <1>6, <2>3, <2>4, HandOver

(* The timeout: the block is queued with the bytes it has. *)
LEMMA TimeoutJoins ==
    ASSUME IInv, ~starved, NEW st \in [Blocks -> Nat], NEW e \in Nat, Joins(st, e), TimeoutImports
    PROVE  \E st2 \in [Blocks -> Nat], e2 \in Nat : Joins(st2, e2)'
<1>1. PICK size : size = [Size EXCEPT ![ptBlock] = Least(hwIndex, BlockSize)]
    OBVIOUS
<1>2. /\ RequestRead(size, hwIndex, rxIrq)
      /\ UNCHANGED <<buffer, queue, item, received, delivered>>
    BY <1>1 DEF TimeoutImports
<1>3. /\ ~Setting /\ ptBlock \in Blocks /\ ptBlock = ptUsedByOutside
      /\ hwSize = Size[ptBlock] /\ hwIndex < hwSize /\ ptUsedByOutside # NULL
    BY PortTimesOut, BlocksAssumption DEF TimeoutImports
<1>4. /\ hwIndex \in Nat /\ Size[ptBlock] \in 0..BlockSize /\ BlockSize \in Nat
      /\ Size \in [Blocks -> 0..BlockSize]
    BY <1>3, SizeAssumption DEF IInv, TypeOK
<1>5. Least(hwIndex, BlockSize) = hwIndex /\ hwIndex \in 0..BlockSize
    BY <1>3, <1>4 DEF Least
<1>6. /\ size \in [Blocks -> 0..BlockSize] /\ size[ptBlock] = hwIndex
      /\ \A c \in Blocks \ {ptBlock} : size[c] = Size[c]
    BY <1>1, <1>3, <1>4, <1>5
<1>7. e + hwIndex = received' /\ \A i \in 1..hwIndex : buffer'[ptBlock][i] = e + i
    BY <1>2, <1>3 DEF Joins, OutJoins, Here, Holds
<1>8. PICK m \in Nat : m = hwIndex
    BY <1>4
<1>9. \A c \in Blocks \ {ptBlock} : size[c] = Size[c] /\ buffer'[c] = buffer[c]
    BY <1>2, <1>6
<1> QED
    BY <1>2, <1>3, <1>6, <1>7, <1>8, <1>9, HandOver

--------------------------------------------------------------------------------
(* The joint holds for ever.                                               *)

(* Before the first byte nothing is in line. *)
LEMMA DataInit == Init => DataInv
<1> SUFFICES ASSUME Init PROVE DataInv
    OBVIOUS
<1>1. delivered = <<>> /\ Line = <<>> /\ Len(delivered) = 0 /\ Len(Line) = 0
    BY DEF Init, Line
<1>2. InOrder
    BY <1>1 DEF InOrder
<1>3. PICK st \in [Blocks -> Nat] : TRUE
    <2>1. [b \in Blocks |-> 0] \in [Blocks -> Nat]
        OBVIOUS
    <2> QED
        BY <2>1
<1>4. Joins(st, 0)
    <2>1. QueueJoins(st, 0)
        BY <1>1 DEF Init, QueueJoins, LineFrom
    <2>2. LineJoins(st, 0)
        BY <1>1 DEF LineJoins
    <2>3. OutJoins(0)
        BY DEF Init, OutJoins, Here
    <2> QED
        BY <2>1, <2>2, <2>3 DEF Joins
<1> QED
    BY <1>2, <1>3, <1>4 DEF DataInv

(* A stream nobody touches keeps the joint. *)
LEMMA DataStutter == DataInv /\ UNCHANGED vars => DataInv'
<1> SUFFICES ASSUME DataInv, UNCHANGED vars, ~starved'  PROVE DataInv'
    BY DEF DataInv
<1> USE DEF vars, heap, status, queue, filling, adapter, history
<1>1. InOrder /\ InOrder'
    BY DEF DataInv, InOrder
<1>2. PICK st \in [Blocks -> Nat], e \in Nat : Joins(st, e)
    BY DEF DataInv
<1>3. UNCHANGED <<Line, Here>>
    BY DEF Line, Here, Setting
<1>4. Joins(st, e)'
    BY <1>2, <1>3 DEF Joins, QueueJoins, LineJoins, OutJoins, Holds, LineFrom
<1> QED
    BY <1>1, <1>2, <1>4 DEF DataInv

(* What a step does to the two histories. *)
Moves == \/ UNCHANGED <<received, delivered>>
         \/ received' = received + 1 /\ delivered' = delivered
         \/ received' = received /\ \E n \in Nat \ {0} : Reads(n)

(* Every step receives a byte, reads the next ones, or does neither. *)
LEMMA JoinsStep ==
    ASSUME IInv, DataInv, Next, ~starved'
    PROVE  Moves /\ \E st2 \in [Blocks -> Nat], e2 \in Nat : Joins(st2, e2)'
<1>s. ~starved
    BY StarvedStays DEF IInv
<1>1. PICK st \in [Blocks -> Nat], e \in Nat : Joins(st, e)
    BY <1>s DEF DataInv
<1>2. CASE Quiet
    BY <1>s, <1>1, <1>2, QuietJoins, QuietSteps DEF Moves
<1>3. CASE DequeueBytes
    <2>1. received' = received
        BY <1>3 DEF DequeueBytes
    <2> QED
        BY <1>s, <1>1, <1>3, <2>1, DequeueJoins DEF Moves
<1>4. CASE ReleaseBlock
    BY <1>s, <1>1, <1>4, ReleaseJoins DEF Moves, ReleaseBlock, history
<1>5. CASE ExchangeBlock
    BY <1>s, <1>1, <1>5, ExchangeJoins DEF Moves, ExchangeBlock, history
<1>6. CASE Adopt
    BY <1>s, <1>1, <1>6, AdoptJoins DEF Moves, Adopt, history
<1>7. CASE RxByte
    BY <1>s, <1>1, <1>7, RxByteJoins DEF Moves, RxByte, StoreByte
<1>8. CASE RxBlockFull
    BY <1>s, <1>1, <1>8, BlockFullJoins DEF Moves, RxBlockFull, StoreByte
<1>9. CASE TimeoutImports
    BY <1>s, <1>1, <1>9, TimeoutJoins DEF Moves, TimeoutImports
<1>10. CASE TimeoutAsserts
    BY <1>s, <1>10, PortTimesOut, BlocksAssumption DEF TimeoutAsserts
<1> QED
    BY <1>2, <1>3, <1>4, <1>5, <1>6, <1>7, <1>8, <1>9, <1>10
    DEF Next, MainStep, RxIsr, TimerIsr, Quiet

(* The bytes read stay in order. *)
LEMMA OrderStep ==
    ASSUME TypeOK, InOrder, Moves
    PROVE  InOrder'
<1>1. CASE delivered' = delivered
    BY <1>1 DEF InOrder
<1>2. CASE \E n \in Nat \ {0} : Reads(n)
    <2>1. PICK n \in Nat \ {0} : Reads(n)
        BY <1>2
    <2>2. PICK d \in Nat : d = Len(delivered)
        BY DEF TypeOK
    <2>3. Len(delivered') = d + n
        BY <2>1, <2>2 DEF Reads
    <2>4. ASSUME NEW i \in 1..d + n  PROVE delivered'[i] = i
        <3>1. CASE i \in 1..d
            BY <2>1, <2>2, <3>1 DEF Reads, InOrder
        <3>2. CASE i \notin 1..d
            <4>1. i - d \in 1..n /\ d + (i - d) = i
                BY <3>2
            <4>2. delivered'[d + (i - d)] = d + (i - d)
                BY <2>1, <2>2, <4>1 DEF Reads
            <4> QED
                BY <4>1, <4>2
        <3> QED
            BY <3>1, <3>2
    <2> QED
        BY <2>3, <2>4 DEF InOrder
<1> QED
    BY <1>1, <1>2 DEF Moves

(* Every step keeps the joint, until a handler is left without a block. *)
LEMMA DataStep ==
    ASSUME IInv, DataInv, Next
    PROVE  DataInv'
<1> SUFFICES ASSUME ~starved'  PROVE DataInv'
    BY DEF DataInv
<1>1. InOrder /\ TypeOK
    BY StarvedStays DEF DataInv, IInv
<1> QED
    BY <1>1, JoinsStep, OrderStep DEF DataInv

(* In every reachable state, what was read, the byte queue, the blocks in  *)
(* line and the one lent to the port follow each other.                    *)
THEOREM DataAlways == Spec => [](IInv /\ DataInv)
<1>1. Init => IInv /\ DataInv
    BY InitOK, DataInit
<1>2. IInv /\ DataInv /\ [Next]_vars => (IInv /\ DataInv)'
    BY TypeStep, ControlStep, OwnerStep, PortStep, StutterOK, DataStep, DataStutter DEF IInv
<1> QED
    BY <1>1, <1>2, PTL DEF Spec

--------------------------------------------------------------------------------
(* The refinement.                                                         *)

(* The first a bytes. *)
Bytes(a) == [i \in 1..a |-> i]

(* The bytes 1 to a, as a sequence. *)
LEMMA BytesSeq ==
    ASSUME NEW a \in Nat
    PROVE  Bytes(a) \in Seq(Nat) /\ Len(Bytes(a)) = a /\ \A i \in 1..a : Bytes(a)[i] = i
BY DEF Bytes

(* Receiving a byte only adds to what was written. *)
LEMMA BytesPrefix ==
    ASSUME NEW a \in Nat
    PROVE  SubSeq(Bytes(a + 1), 1, a) = Bytes(a)
<1>1. /\ Bytes(a + 1) \in Seq(Nat) /\ Len(Bytes(a + 1)) = a + 1
      /\ \A i \in 1..a + 1 : Bytes(a + 1)[i] = i
    BY BytesSeq
<1>2. /\ SubSeq(Bytes(a + 1), 1, a) \in Seq(Nat) /\ Len(SubSeq(Bytes(a + 1), 1, a)) = a
      /\ \A i \in 1..a : SubSeq(Bytes(a + 1), 1, a)[i] = i
    BY <1>1, SubSeqProperties
<1>3. /\ Bytes(a) \in Seq(Nat) /\ Len(Bytes(a)) = a /\ \A i \in 1..a : Bytes(a)[i] = i
    BY BytesSeq
<1> QED
    BY <1>2, <1>3, SeqEqual

(* What is read is what follows in the sequence of bytes received. *)
LEMMA ReadsNext ==
    ASSUME delivered \in Seq(Nat), delivered' \in Seq(Nat), received \in Nat,
           NEW n \in Nat, Reads(n)
    PROVE  delivered' = delivered \o SubSeq(Bytes(received), Len(delivered) + 1, Len(delivered) + n)
<1>1. PICK d \in Nat : d = Len(delivered)
    OBVIOUS
<1>2. d + n <= received
    BY <1>1 DEF Reads
<1>3. PICK t \in Seq(Nat) : /\ t = SubSeq(Bytes(received), d + 1, d + n)
                            /\ Len(t) = n /\ \A i \in 1..n : t[i] = d + i
    <2>1. PICK y \in Seq(Nat) : /\ y = Bytes(received) /\ Len(y) = received
                                /\ \A i \in 1..received : y[i] = i
        BY BytesSeq
    <2>2. PICK h \in Nat, k \in Nat : h = d + 1 /\ k = d + n
        BY <1>1
    <2>3. \A i \in h..k : y[i] \in Nat
        BY <1>2, <2>1, <2>2
    <2>4. /\ SubSeq(y, h, k) \in Seq(Nat)
          /\ Len(SubSeq(y, h, k)) = IF h <= k THEN k - h + 1 ELSE 0
          /\ \A i \in 1..k - h + 1 : SubSeq(y, h, k)[i] = y[h + i - 1]
        BY <2>3, SubSeqProperties
    <2>5. PICK x \in Seq(Nat) : /\ x = SubSeq(y, h, k)
                                /\ Len(x) = IF h <= k THEN k - h + 1 ELSE 0
                                /\ \A i \in 1..k - h + 1 : x[i] = y[h + i - 1]
        BY <2>4
    <2>6. (IF h <= k THEN k - h + 1 ELSE 0) = n /\ k - h + 1 = n
        BY <2>2
    <2>7. \A i \in 1..n : h + i - 1 = d + i /\ d + i \in 1..received
        BY <1>2, <2>2
    <2>8. Len(x) = n /\ \A i \in 1..n : x[i] = d + i
        BY <2>1, <2>5, <2>6, <2>7
    <2> QED
        BY <2>1, <2>2, <2>5, <2>8
<1>4. PICK u \in Seq(Nat) : u = delivered'
    OBVIOUS
<1>5. PICK w \in Seq(Nat) : w = delivered
    OBVIOUS
<1>6. PICK v \in Seq(Nat) : v = w \o t
    <2>1. w \o t \in Seq(Nat)
        BY ConcatProperties
    <2> QED
        BY <2>1
<1>7. Len(v) = d + n /\ \A i \in 1..d + n : v[i] = IF i <= d THEN w[i] ELSE t[i - d]
    BY <1>1, <1>3, <1>5, <1>6
<1>8. Len(u) = d + n /\ \A i \in 1..d + n : u[i] = IF i <= d THEN w[i] ELSE i
    <2>1. ASSUME NEW i \in 1..d + n  PROVE u[i] = IF i <= d THEN w[i] ELSE i
        <3>1. CASE i <= d
            BY <1>1, <1>4, <1>5, <3>1 DEF Reads
        <3>2. CASE ~(i <= d)
            <4>1. i - d \in 1..n /\ d + (i - d) = i
                BY <3>2
            <4>2. delivered'[d + (i - d)] = d + (i - d)
                BY <1>1, <4>1 DEF Reads
            <4> QED
                BY <1>4, <3>2, <4>1, <4>2
        <3> QED
            BY <3>1, <3>2
    <2> QED
        BY <1>1, <1>4, <2>1 DEF Reads
<1>9. ASSUME NEW i \in 1..d + n  PROVE u[i] = v[i]
    <2>1. CASE i <= d
        BY <1>7, <1>8, <2>1
    <2>2. CASE ~(i <= d)
        <3>1. i - d \in 1..n /\ d + (i - d) = i
            BY <2>2
        <3> QED
            BY <1>3, <1>7, <1>8, <2>2, <3>1
    <2> QED
        BY <2>1, <2>2
<1>10. u = v
    BY <1>7, <1>8, <1>9, SeqEqual
<1> QED
    BY <1>1, <1>3, <1>4, <1>5, <1>6, <1>10

(* A step of the stream is a step of the channel, or leaves it alone, or a *)
(* handler is left without a block. *)
LEMMA ChannelStep ==
    ASSUME IInv, DataInv, TypeOK', Next
    PROVE  [starved' \/ Channel!Next]_<<received, delivered>>
<1>1. /\ received \in Nat /\ delivered \in Seq(Nat) /\ delivered' \in Seq(Nat)
      /\ Len(delivered) \in Nat
    BY DEF IInv, TypeOK
<1>2. starved' \/ Moves
    BY JoinsStep
<1>3. CASE received' = received + 1 /\ delivered' = delivered
    <2>1. /\ Len(Bytes(received')) = received + 1
          /\ SubSeq(Bytes(received'), 1, received) = Bytes(received)
        <3>1. received + 1 \in Nat
            BY <1>1
        <3> QED
            BY <1>1, <1>3, <3>1, BytesSeq, BytesPrefix
    <2>2. /\ 1 \in 1..Len(Bytes(received')) /\ Len(Bytes(received')) - 1 = received
        BY <1>1, <2>1
    <2>3. \E m \in 1..Len(Bytes(received')) :
              SubSeq(Bytes(received'), 1, Len(Bytes(received')) - m) = Bytes(received)
        BY <2>1, <2>2
    <2>4. Channel!Accept
        BY <1>3, <2>3 DEF Channel!Accept, Bytes
    <2> QED
        BY <2>4 DEF Channel!Next
<1>4. CASE received' = received /\ \E n \in Nat \ {0} : Reads(n)
    <2>1. PICK n \in Nat \ {0} : Reads(n)
        BY <1>4
    <2>2. delivered' = delivered \o SubSeq(Bytes(received), Len(delivered) + 1, Len(delivered) + n)
        BY <1>1, <2>1, ReadsNext
    <2>3. n \in 1..Len(Bytes(received)) - Len(delivered)
        <3>1. Len(delivered) + n <= received /\ Len(Bytes(received)) = received
            BY <1>1, <2>1, BytesSeq DEF Reads
        <3> QED
            BY <1>1, <3>1
    <2>4. Channel!Deliver
        BY <1>4, <2>2, <2>3 DEF Channel!Deliver, Bytes
    <2> QED
        BY <2>4 DEF Channel!Next
<1> QED
    BY <1>2, <1>3, <1>4 DEF Moves

(* Until a handler is left without a block while the timeout is in use,    *)
(* the bytes received are read once each and in order, for any number of   *)
(* blocks, any configuration and any interleaving with the two handlers.   *)
THEOREM StreamInIsChannel == Spec => ImplementsChannel
<1>1. Init => Channel!Init
    BY DEF Init, Channel!Init
<1>2. IInv /\ DataInv /\ (IInv /\ DataInv)' /\ [Next]_vars
        => [starved' \/ Channel!Next]_<<received, delivered>>
    <2>1. IInv' => TypeOK'
        BY DEF IInv
    <2>2. UNCHANGED vars => UNCHANGED <<received, delivered>>
        BY DEF vars, history
    <2> QED
        BY <2>1, <2>2, ChannelStep
<1> QED
    BY <1>1, <1>2, DataAlways, PTL DEF Spec, ImplementsChannel
================================================================================
