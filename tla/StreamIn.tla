-------------------------------- MODULE StreamIn --------------------------------
(***************************************************************************)
(* The input side of service/memory/stream2block and the serial port       *)
(* adapter that fills it.                                                  *)
(*                                                                         *)
(* Three actors share the stream object.  The receive interrupt stores     *)
(* each byte in the block lent to it, and exchanges a full block for an    *)
(* empty one.  The 1 ms interrupt does so for a block that is only partly  *)
(* filled, once no byte came for a while.  The main thread reads the       *)
(* blocks in the list, one after the other, and lends a block to the port  *)
(* when it has none.  One core: a handler runs to its end before the main  *)
(* thread goes on, the two handlers do not interrupt each other, and each  *)
(* may run between any two steps of the main thread outside an atomic      *)
(* section.                                                                *)
(*                                                                         *)
(* Bytes are numbered 1, 2, 3, ... in the order the adapter takes them     *)
(* from the port; 0 is what a place of a buffer holds that was never       *)
(* written.                                                                *)
(***************************************************************************)
EXTENDS Naturals, Sequences, FiniteSets

CONSTANTS Blocks,    \* the blocks of the stream's heap
          NULL,      \* the null pointer
          BlockSize, \* capacity of a block, in bytes
          Configs,   \* the configurations of the stream to consider
          MaxBytes   \* bound: bytes taken from the port in a behaviour

(* Besides two fields of stream_buffer_cfg_t, a configuration holds        *)
(* STREAM_IN_RCV_TIMEOUT, whether the platform enables the receive         *)
(* interrupt by itself when it initialises the port, and whether the line  *)
(* is silent between the last stores of request_read, where that does harm.*)
ASSUME BlocksAssumption == IsFiniteSet(Blocks) /\ NULL \notin Blocks
ASSUME SizeAssumption == BlockSize \in Nat \ {0} /\ MaxBytes \in Nat
ASSUME ConfigsAssumption ==
    Configs \subseteq [chReservedBlock : Nat, chBlockReservedSize : Nat,
                       Timeout : Nat, EnabledAtInit : BOOLEAN,
                       QuietStart : BOOLEAN]
(* A byte that comes during these stores, with the interrupt enabled by    *)
(* the platform already, is overwritten: no property is stated of that.    *)
ASSUME QuietAssumption == \A c \in Configs : c.EnabledAtInit => c.QuietStart

VARIABLES
    cfg,
    pool, Size, buffer,   \* the heap: free blocks; per block, Size and memory
    list,                 \* the block_queue_t base: blocks waiting to be read
    IsDataAvailable, IsBlockBufferDrain,  \* tStatus bits
    ptUsedByQueue,        \* the block being read
    bIsQueueInitialised,
    qHead, qCount,        \* the byte queue over the buffer of that block
    ptUsedByOutside,      \* the block lent to the port
    ptBlock, pchBuffer, hwSize, hwIndex, hwTimeoutCounter, rxIrq,  \* the adapter
    pc, item, old, got,   \* the main thread and its local block pointers
    received, delivered,  \* history: bytes taken from the port, bytes read
    starved               \* history: a handler found no block, timeout in use

heap == <<pool, Size, buffer>>
status == <<IsDataAvailable, IsBlockBufferDrain>>
queue == <<ptUsedByQueue, bIsQueueInitialised, qHead, qCount>>
filling == <<pchBuffer, hwSize, hwIndex>>
adapter == <<ptBlock, filling, hwTimeoutCounter, rxIrq>>
history == <<received, delivered, starved>>
vars == <<cfg, heap, list, status, queue, ptUsedByOutside, adapter,
          pc, item, old, got, history>>

Least(a, b) == IF a <= b THEN a ELSE b

--------------------------------------------------------------------------------
Init ==
    /\ cfg \in Configs
    /\ pool = Blocks
    /\ Size = [b \in Blocks |-> BlockSize]
    /\ buffer = [b \in Blocks |-> [i \in 1..BlockSize |-> 0]]
    /\ list = <<>> /\ IsDataAvailable = FALSE /\ IsBlockBufferDrain = TRUE
    /\ ptUsedByQueue = NULL /\ bIsQueueInitialised = FALSE
    /\ qHead = 0 /\ qCount = 0
    /\ ptUsedByOutside = NULL
    /\ ptBlock = NULL /\ pchBuffer = NULL /\ hwSize = 0 /\ hwIndex = 0
    /\ hwTimeoutCounter = 0 /\ rxIrq = cfg.EnabledAtInit
    /\ pc = "idle" /\ item = NULL /\ old = NULL /\ got = NULL
    /\ received = 0 /\ delivered = <<>> /\ starved = FALSE

--------------------------------------------------------------------------------
(* Block.Exchange of an input stream, one atomic section: the old block is *)
(* queued for the reader, a new one taken from the heap and lent out.      *)

First(s) == IF s = <<>> THEN NULL ELSE Head(s)
Rest(s) == IF s = <<>> THEN <<>> ELSE Tail(s)

NewSize == IF cfg.chBlockReservedSize < BlockSize
           THEN BlockSize - cfg.chBlockReservedSize ELSE BlockSize

(* What __get_new_block may return. *)
Available == IF Cardinality(pool) > cfg.chReservedBlock THEN pool ELSE {NULL}

Exchange(b, new, size) ==
    /\ list' = IF b = NULL THEN list ELSE Append(list, b)
    /\ IsDataAvailable' = (IsDataAvailable \/ b # NULL)
    /\ IsBlockBufferDrain' = (IsBlockBufferDrain /\ b = NULL)
    /\ pool' = pool \ {new}
    /\ Size' = IF new = NULL THEN size ELSE [size EXCEPT ![new] = NewSize]
    /\ ptUsedByOutside' = new

(* Mutant: the index is not reset for the new block. *)
BugRequestRead(size, index, irq) ==
    \E new \in Available :
        /\ Exchange(ptBlock, new, size)
        /\ ptBlock' = new
        /\ IF new = NULL
           THEN UNCHANGED <<pchBuffer, hwSize>> /\ rxIrq' = irq
           ELSE pchBuffer' = new /\ hwSize' = NewSize /\ rxIrq' = TRUE
        /\ hwIndex' = index
        /\ starved' = (starved \/ (new = NULL /\ cfg.Timeout # 0))

(* The adapter's request_read when a handler calls it, with the index and  *)
(* the interrupt enable the handler leaves: Exchange, and the port is set  *)
(* up for the new block.  Without one, nothing else is changed.            *)
RequestRead(size, index, irq) ==
    \E new \in Available :
        /\ Exchange(ptBlock, new, size)
        /\ ptBlock' = new
        /\ IF new = NULL
           THEN UNCHANGED <<pchBuffer, hwSize>> /\ hwIndex' = index /\ rxIrq' = irq
           ELSE pchBuffer' = new /\ hwSize' = NewSize /\ hwIndex' = 0 /\ rxIrq' = TRUE
        /\ starved' = (starved \/ (new = NULL /\ cfg.Timeout # 0))

--------------------------------------------------------------------------------
(* stream_read_byte and stream_read, on the main thread: dequeue bytes, or *)
(* fetch the next block through queue_init and try again.                  *)

CallRead ==
    /\ pc = "idle"
    /\ pc' = "read"
    /\ UNCHANGED <<cfg, heap, list, status, queue, ptUsedByOutside, adapter,
                   item, old, got, history>>

HasBytes == bIsQueueInitialised /\ qCount > 0

DequeueBytes ==
    /\ pc = "read" /\ HasBytes
    /\ \E n \in 1..qCount :
          /\ delivered' = delivered \o
                SubSeq(buffer[ptUsedByQueue], qHead + 1, qHead + n)
          /\ qHead' = qHead + n /\ qCount' = qCount - n
    /\ pc' = "idle"
    /\ UNCHANGED <<cfg, heap, list, status, ptUsedByQueue, bIsQueueInitialised,
                   ptUsedByOutside, adapter, item, old, got, received, starved>>

(* The block that was read goes back to the heap, its size reset and its   *)
(* bytes left as they are.                                                 *)
ReleaseBlock ==
    /\ pc = "read" /\ ~HasBytes
    /\ bIsQueueInitialised' = FALSE
    /\ pool' = pool \cup ({ptUsedByQueue} \ {NULL})
    /\ Size' = [b \in Blocks |-> IF b = ptUsedByQueue THEN BlockSize ELSE Size[b]]
    /\ pc' = "fetch"
    /\ UNCHANGED <<cfg, buffer, list, status, ptUsedByQueue, qHead, qCount,
                   ptUsedByOutside, adapter, item, old, got, history>>

FetchBlock ==
    /\ pc = "fetch"
    /\ item' = First(list) /\ list' = Rest(list)
    /\ IsDataAvailable' = (IsDataAvailable /\ list # <<>>)
    /\ IsBlockBufferDrain' = (IsBlockBufferDrain \/ Rest(list) = <<>>)
    /\ pc' = "check"
    /\ UNCHANGED <<cfg, heap, queue, ptUsedByOutside, adapter, old, got, history>>

PortIdle == ptUsedByOutside = NULL

(* Outside the atomic section: has the port a block?  If not request_read  *)
(* is called, which first looks up the adapter's block.                    *)
CheckPort ==
    /\ pc = "check"
    /\ old' = IF PortIdle THEN ptBlock ELSE old
    /\ pc' = IF PortIdle THEN "exchange" ELSE "adopt"
    /\ UNCHANGED <<cfg, heap, list, status, queue, ptUsedByOutside, adapter,
                   item, got, history>>

ExchangeBlock ==
    /\ pc = "exchange"
    /\ \E new \in Available : Exchange(old, new, Size) /\ got' = new
    /\ old' = NULL
    /\ pc' = "assign"
    /\ UNCHANGED <<cfg, buffer, queue, adapter, item, history>>

AssignBlock ==
    /\ pc = "assign"
    /\ ptBlock' = got
    /\ pc' = "reload"
    /\ UNCHANGED <<cfg, heap, list, status, queue, ptUsedByOutside, filling,
                   hwTimeoutCounter, rxIrq, item, old, got, history>>

(* ptReadBuffer is loaded from the volatile structure, not from the result. *)
ReloadBlock ==
    /\ pc = "reload"
    /\ got' = ptBlock
    /\ pc' = IF ptBlock # NULL /\ Size[ptBlock] # 0 THEN "buffer" ELSE "adopt"
    /\ UNCHANGED <<cfg, heap, list, status, queue, ptUsedByOutside, adapter,
                   item, old, history>>

(* The port is set up in four stores, the interrupt enabled last. *)
SetBuffer ==
    /\ pc = "buffer"
    /\ pchBuffer' = got /\ pc' = "size"
    /\ UNCHANGED <<cfg, heap, list, status, queue, ptUsedByOutside, ptBlock,
                   hwSize, hwIndex, hwTimeoutCounter, rxIrq, item, old, got, history>>

SetSize ==
    /\ pc = "size"
    /\ hwSize' = Size[got] /\ pc' = "index"
    /\ UNCHANGED <<cfg, heap, list, status, queue, ptUsedByOutside, ptBlock,
                   pchBuffer, hwIndex, hwTimeoutCounter, rxIrq, item, old, got, history>>

SetIndex ==
    /\ pc = "index"
    /\ hwIndex' = 0 /\ pc' = "enable"
    /\ UNCHANGED <<cfg, heap, list, status, queue, ptUsedByOutside, ptBlock,
                   pchBuffer, hwSize, hwTimeoutCounter, rxIrq, item, old, got, history>>

EnableRx ==
    /\ pc = "enable"
    /\ rxIrq' = TRUE /\ pc' = "adopt"
    /\ UNCHANGED <<cfg, heap, list, status, queue, ptUsedByOutside, ptBlock,
                   filling, hwTimeoutCounter, item, old, got, history>>

(* Mutant: a block is taken to be full, whatever its Size. *)
BugAdoptFull ==
    /\ pc = "adopt" /\ item # NULL
    /\ ptUsedByQueue' = item
    /\ bIsQueueInitialised' = TRUE
    /\ qHead' = 0 /\ qCount' = BlockSize
    /\ item' = NULL /\ got' = NULL
    /\ pc' = "read"
    /\ UNCHANGED <<cfg, heap, list, status, ptUsedByOutside, adapter, old, history>>

(* The fetched block becomes a full byte queue (its Size is never 0). *)
Adopt ==
    /\ pc = "adopt" /\ item # NULL
    /\ ptUsedByQueue' = item
    /\ bIsQueueInitialised' = TRUE
    /\ qHead' = 0 /\ qCount' = Size[item]
    /\ item' = NULL /\ got' = NULL
    /\ pc' = "read"
    /\ UNCHANGED <<cfg, heap, list, status, ptUsedByOutside, adapter, old, history>>

NothingToRead ==
    /\ pc = "adopt" /\ item = NULL
    /\ ptUsedByQueue' = NULL
    /\ got' = NULL
    /\ pc' = "idle"
    /\ UNCHANGED <<cfg, heap, list, status, bIsQueueInitialised, qHead, qCount,
                   ptUsedByOutside, adapter, item, old, history>>

--------------------------------------------------------------------------------
(* The receive interrupt.  A byte that comes with the interrupt disabled   *)
(* is lost in the port: nobody is told.                                    *)

Running == pc # "halted"
Cancelled == pchBuffer = NULL \/ hwSize = 0

RxCancelled ==
    /\ Running /\ rxIrq /\ Cancelled
    /\ hwTimeoutCounter' = cfg.Timeout
    /\ rxIrq' = FALSE
    /\ UNCHANGED <<cfg, heap, list, status, queue, ptUsedByOutside, ptBlock,
                   filling, pc, item, old, got, history>>

StoreByte ==
    /\ Running /\ rxIrq /\ ~Cancelled /\ received < MaxBytes
    /\ cfg.QuietStart => pc \notin {"index", "enable"}
    /\ received' = received + 1
    /\ buffer' = [buffer EXCEPT ![pchBuffer][hwIndex + 1] = received + 1]
    /\ hwTimeoutCounter' = cfg.Timeout

RxByte ==
    /\ StoreByte
    /\ hwIndex + 1 < hwSize
    /\ hwIndex' = hwIndex + 1
    /\ UNCHANGED <<cfg, pool, Size, list, status, queue, ptUsedByOutside,
                   ptBlock, pchBuffer, hwSize, rxIrq, pc, item, old, got,
                   delivered, starved>>

RxBlockFull ==
    /\ StoreByte
    /\ hwIndex + 1 >= hwSize
    /\ RequestRead(Size, hwIndex + 1, FALSE)
    /\ UNCHANGED <<cfg, queue, pc, item, old, got, delivered>>

--------------------------------------------------------------------------------
(* The 1 ms interrupt. *)

TimerTicks ==
    /\ Running /\ hwTimeoutCounter > 1
    /\ hwTimeoutCounter' = hwTimeoutCounter - 1
    /\ UNCHANGED <<cfg, heap, list, status, queue, ptUsedByOutside, ptBlock,
                   filling, rxIrq, pc, item, old, got, history>>

TimeoutEmpty ==
    /\ Running /\ hwTimeoutCounter = 1 /\ hwIndex = 0
    /\ hwTimeoutCounter' = 0
    /\ UNCHANGED <<cfg, heap, list, status, queue, ptUsedByOutside, ptBlock,
                   filling, rxIrq, pc, item, old, got, history>>

(* Mutant: the timeout is noted, the block is not exchanged. *)
BugTimeoutImports ==
    /\ Running /\ hwTimeoutCounter = 1 /\ hwIndex # 0 /\ ptBlock # NULL
    /\ hwTimeoutCounter' = 0
    /\ UNCHANGED <<cfg, heap, list, status, queue, ptUsedByOutside, ptBlock,
                   filling, rxIrq, pc, item, old, got, history>>

(* The block is queued with the bytes it has (Size.Set keeps to the        *)
(* capacity).                                                              *)
TimeoutImports ==
    /\ Running /\ hwTimeoutCounter = 1 /\ hwIndex # 0 /\ ptBlock # NULL
    /\ hwTimeoutCounter' = 0
    /\ RequestRead([Size EXCEPT ![ptBlock] = Least(hwIndex, BlockSize)], hwIndex, rxIrq)
    /\ UNCHANGED <<cfg, buffer, queue, pc, item, old, got, received, delivered>>

(* BLOCK.Size.Set(NULL, ...): its assertion stops the program. *)
TimeoutAsserts ==
    /\ Running /\ hwTimeoutCounter = 1 /\ hwIndex # 0 /\ ptBlock = NULL
    /\ pc' = "halted"
    /\ UNCHANGED <<cfg, heap, list, status, queue, ptUsedByOutside, adapter,
                   item, old, got, history>>

--------------------------------------------------------------------------------
MainStep ==
    \/ CallRead \/ DequeueBytes \/ ReleaseBlock \/ FetchBlock \/ CheckPort
    \/ ExchangeBlock \/ AssignBlock \/ ReloadBlock
    \/ SetBuffer \/ SetSize \/ SetIndex \/ EnableRx
    \/ Adopt \/ NothingToRead

RxIsr == RxCancelled \/ RxByte \/ RxBlockFull

TimerIsr == TimerTicks \/ TimeoutEmpty \/ TimeoutImports \/ TimeoutAsserts

Next == MainStep \/ RxIsr \/ TimerIsr

Spec == Init /\ [][Next]_vars

(* stdin_getchar polls ReadByte without end, and SysTick never stops.      *)
(* Nothing is assumed of the other end of the line.                        *)
FairSpec == Spec /\ WF_vars(MainStep) /\ WF_vars(TimerIsr)

--------------------------------------------------------------------------------
Ptr == Blocks \cup {NULL}

(* Every variable holds a value of its C type. *)
TypeOK ==
    /\ cfg \in Configs
    /\ pool \subseteq Blocks
    /\ Size \in [Blocks -> 0..BlockSize]
    /\ buffer \in [Blocks -> [1..BlockSize -> Nat]]
    /\ list \in Seq(Blocks)
    /\ IsDataAvailable \in BOOLEAN /\ IsBlockBufferDrain \in BOOLEAN
    /\ ptUsedByQueue \in Ptr /\ ptUsedByOutside \in Ptr
    /\ bIsQueueInitialised \in BOOLEAN
    /\ qHead \in 0..BlockSize /\ qCount \in 0..BlockSize
    /\ ptBlock \in Ptr /\ pchBuffer \in Ptr
    /\ hwSize \in 0..BlockSize /\ hwIndex \in Nat
    /\ hwTimeoutCounter \in Nat /\ rxIrq \in BOOLEAN
    /\ pc \in {"idle", "read", "fetch", "check", "exchange", "assign", "reload",
               "buffer", "size", "index", "enable", "adopt", "halted"}
    /\ item \in Ptr /\ old \in Ptr /\ got \in Ptr
    /\ received \in Nat /\ delivered \in Seq(Nat) /\ starved \in BOOLEAN

(* From the release of the block that was read to the end of queue_init,   *)
(* ptUsedByQueue is stale.                                                 *)
Released == pc \notin {"idle", "read"}

Listed == {list[i] : i \in 1..Len(list)}
ListedOnce == \A i, j \in 1..Len(list) : list[i] = list[j] => i = j
Queued == IF Released THEN {} ELSE {ptUsedByQueue} \ {NULL}
Lent == {ptUsedByOutside} \ {NULL}
InHand == {item} \ {NULL}

(* No block leaks, is freed twice or has two owners, whatever the          *)
(* interleaving of the reader with the two handlers, as long as no handler *)
(* was left without a block while the timeout is in use.                   *)
OneOwner ==
    ~starved =>
        /\ Blocks = pool \cup Listed \cup Queued \cup Lent \cup InHand
        /\ pool \cap (Listed \cup Queued \cup Lent \cup InHand) = {}
        /\ Listed \cap (Queued \cup Lent \cup InHand) = {}
        /\ Queued \cap (Lent \cup InHand) = {}
        /\ Lent \cap InHand = {}
        /\ ListedOnce

(* The receive interrupt, when it may run, stores into the block lent to   *)
(* the port and inside its buffer: never into a block already handed to    *)
(* the reader, although the adapter keeps its own pointers and they are    *)
(* set up in several steps.                                                *)
WritesOwnBlock ==
    rxIrq /\ ~Cancelled /\ ~starved
        => /\ pchBuffer = ptBlock /\ ptBlock = ptUsedByOutside
           /\ hwIndex < hwSize /\ hwSize <= Size[ptBlock]

(* The port is not forgotten: between two reads it lacks a block only when *)
(* the heap has none for it (or before the very first read).               *)
PortServed ==
    pc = "idle" /\ ~starved /\ pchBuffer # NULL /\ ptUsedByOutside = NULL
        => Cardinality(pool) <= cfg.chReservedBlock

(* Whatever the reader and the two handlers do to each other, every block  *)
(* has one owner, the port writes only into its own, and it has one.       *)
BlocksInPlace == TypeOK /\ OneOwner /\ WritesOwnBlock /\ PortServed

Channel == INSTANCE ByteChannel
    WITH Byte <- 1..MaxBytes,
         written <- [i \in 1..received |-> i],
         delivered <- delivered

(* Until a handler is left without a block while the timeout is in use,    *)
(* the stream implements a byte channel: each byte taken from the port is  *)
(* read once, in order, across block boundaries, timeouts and interrupts.  *)
ImplementsChannel ==
    Channel!Init /\ [][starved' \/ Channel!Next]_<<received, delivered>>

(* With the timeout in use, every byte taken from the port reaches the     *)
(* reader in the end, although it may be the last one for ever.            *)
ReceivedIsRead ==
    \A n \in 1..MaxBytes :
        (received = n /\ cfg.Timeout # 0) ~> (Len(delivered) >= n \/ starved)

================================================================================
