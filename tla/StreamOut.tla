------------------------------- MODULE StreamOut -------------------------------
(***************************************************************************)
(* The output side of service/memory/stream2block and the serial port      *)
(* adapter that empties it.                                                *)
(*                                                                         *)
(* Two actors share the stream object.  The main thread writes bytes into  *)
(* the block it fills (ptUsedByQueue), moves full blocks to the block list *)
(* and takes fresh blocks from the heap.  The transmit interrupt sends the *)
(* block that is lent out (ptUsedByOutside), gives it back to the heap and *)
(* takes the next one from the list.  The target has one core: a handler   *)
(* runs to its end before the main thread goes on, and may run between any *)
(* two steps of the main thread that are not inside one __SB_ATOM_ACCESS.  *)
(* Hence one action per main-thread step, and one per interrupt.           *)
(*                                                                         *)
(* Bytes are numbered 1, 2, 3, ... in the order they are accepted; 0 is    *)
(* what a place of a buffer holds that was never written.                  *)
(***************************************************************************)
EXTENDS Naturals, Sequences, FiniteSets

CONSTANTS Blocks,    \* the blocks of the stream's heap
          NULL,      \* the null pointer
          BlockSize, \* capacity of a block, in bytes
          Configs,   \* the configurations of the stream to consider
          MaxBytes   \* bound: bytes accepted in a behaviour

(* Besides three fields of stream_buffer_cfg_t, a configuration says how   *)
(* the stream is used: how many blocks the user holds at once to send them *)
(* whole, and the least number of bytes such a block may carry.            *)
ASSUME BlocksAssumption == IsFiniteSet(Blocks) /\ NULL \notin Blocks
ASSUME SizeAssumption == BlockSize \in Nat \ {0} /\ MaxBytes \in Nat
ASSUME ConfigsAssumption ==
    Configs \subseteq [chReservedBlock : Nat, chBlockLimit : 0..255,
                       chBlockReservedSize : Nat,
                       MaxHeld : Nat, MinHeldSize : {0, 1}]

VARIABLES
    cfg,                  \* how the stream was initialised and is used
    pool, Size, buffer,   \* the heap: free blocks; per block, Size and memory
    list,                 \* the block_queue_t base: blocks waiting to be sent
    IsBlockBufferDrain,   \* the tStatus bit
    ptUsedByQueue,        \* the block being filled
    bIsQueueInitialised,
    qCount, qSize,        \* the byte queue over the buffer of that block
    ptUsedByOutside,      \* the block lent to the transmitter
    chBlockCount,         \* uint8_t
    ptBlock, hwSize, hwIndex, txIrq, uartBusy,  \* the adapter and its port
    pc, op, arg,          \* the main thread: where it is, in which call
    item, reg,            \* its local block pointer and register
    held,                 \* blocks the user took to send whole
    accepted, wire        \* history: bytes accepted, bytes put on the wire

heap == <<pool, Size, buffer>>
queue == <<ptUsedByQueue, bIsQueueInitialised, qCount, qSize>>
lent == <<ptUsedByOutside, chBlockCount>>
adapter == <<ptBlock, hwSize, hwIndex, txIrq, uartBusy>>
vars == <<cfg, heap, list, IsBlockBufferDrain, queue, lent, adapter,
          pc, op, arg, item, reg, held, accepted, wire>>

Least(a, b) == IF a <= b THEN a ELSE b

--------------------------------------------------------------------------------
Init ==
    /\ cfg \in Configs
    /\ pool = Blocks
    /\ Size = [b \in Blocks |-> BlockSize]
    /\ buffer = [b \in Blocks |-> [i \in 1..BlockSize |-> 0]]
    /\ list = <<>> /\ IsBlockBufferDrain = TRUE
    /\ ptUsedByQueue = NULL /\ bIsQueueInitialised = FALSE
    /\ qCount = 0 /\ qSize = 0
    /\ ptUsedByOutside = NULL /\ chBlockCount = 0
    /\ ptBlock = NULL /\ hwSize = 0 /\ hwIndex = 0
    /\ txIrq = FALSE /\ uartBusy = FALSE
    /\ pc = "idle" /\ op = "none" /\ arg = NULL
    /\ item = NULL /\ reg = 0 /\ held = {}
    /\ accepted = 0 /\ wire = <<>>

--------------------------------------------------------------------------------
(* The user of the stream, on the main thread.                             *)

(* BLOCK.Heap.New by the user: a block to be filled and sent whole. *)
UserNew ==
    /\ pc = "idle" /\ Cardinality(held) < cfg.MaxHeld
    /\ \E b \in pool : /\ pool' = pool \ {b}
                       /\ held' = held \cup {b}
                       /\ Size' = [Size EXCEPT ![b] = BlockSize]
    /\ UNCHANGED <<cfg, buffer, list, IsBlockBufferDrain, queue, lent, adapter,
                   pc, op, arg, item, reg, accepted, wire>>

CallWrite ==
    /\ pc = "idle" /\ accepted < MaxBytes
    /\ pc' = "write" /\ op' = "Write"
    /\ UNCHANGED <<cfg, heap, list, IsBlockBufferDrain, queue, lent, adapter,
                   arg, item, reg, held, accepted, wire>>

(* Mutant: only a full block is worth flushing. *)
BugFlushFullOnly ==
    /\ pc = "idle"
    /\ pc' = IF bIsQueueInitialised /\ qCount = qSize THEN "append" ELSE "flushed"
    /\ op' = "Flush"
    /\ UNCHANGED <<cfg, heap, list, IsBlockBufferDrain, queue, lent, adapter,
                   arg, item, reg, held, accepted, wire>>

(* stream_flush goes straight to its result when nothing is queued. *)
CallFlush ==
    /\ pc = "idle"
    /\ pc' = IF bIsQueueInitialised /\ qCount # 0 THEN "append" ELSE "flushed"
    /\ op' = "Flush"
    /\ UNCHANGED <<cfg, heap, list, IsBlockBufferDrain, queue, lent, adapter,
                   arg, item, reg, held, accepted, wire>>

(* The user fills a block it holds with n bytes and hands it to            *)
(* stream_write_block.  Its other places keep what they held.              *)
CallWriteBlock ==
    /\ pc = "idle"
    /\ \E b \in held,
          n \in cfg.MinHeldSize..Least(BlockSize, MaxBytes - accepted) :
          /\ Size' = [Size EXCEPT ![b] = n]
          /\ buffer' = [buffer EXCEPT ![b] =
                [i \in 1..BlockSize |-> IF i <= n THEN accepted + i ELSE @[i]]]
          /\ arg' = b
          /\ held' = held \ {b}
    /\ pc' = "wb" /\ op' = "WriteBlock"
    /\ UNCHANGED <<cfg, pool, list, IsBlockBufferDrain, queue, lent, adapter,
                   item, reg, accepted, wire>>

--------------------------------------------------------------------------------
(* stream_write_byte and stream_write: enqueue, or retire the full block   *)
(* through queue_init and try again.                                       *)

(* ENQUEUE_BLOCK takes as many of the bytes as the block has room for. *)
EnqueueBytes ==
    /\ pc = "write" /\ bIsQueueInitialised /\ qCount < qSize
    /\ \E n \in 1..Least(qSize - qCount, MaxBytes - accepted) :
          /\ qCount' = qCount + n
          /\ accepted' = accepted + n
          /\ buffer' = [buffer EXCEPT ![ptUsedByQueue] =
                [i \in 1..BlockSize |-> IF i \in qCount+1 .. qCount+n
                                        THEN accepted + i - qCount ELSE @[i]]]
    /\ pc' = "idle" /\ op' = "none"
    /\ UNCHANGED <<cfg, pool, Size, list, IsBlockBufferDrain, ptUsedByQueue,
                   bIsQueueInitialised, qSize, lent, adapter, arg, item, reg,
                   held, wire>>

RetireFullBlock ==
    /\ pc = "write" /\ ~(bIsQueueInitialised /\ qCount < qSize)
    /\ bIsQueueInitialised' = FALSE
    /\ pc' = "append"
    /\ UNCHANGED <<cfg, heap, list, IsBlockBufferDrain, ptUsedByQueue, qCount,
                   qSize, lent, adapter, op, arg, item, reg, held, accepted,
                   wire>>

--------------------------------------------------------------------------------
(* queue_init(false) and __append_block_to_output_list.                    *)

(* After the append stream_write_block returns if the block was the user's *)
(* (arg is NULL by then); queue_init goes on to fetch a fresh block.       *)
AppendIsLast == op = "WriteBlock" /\ arg = NULL

LeaveAppend ==
    /\ pc' = IF AppendIsLast THEN "idle" ELSE "check"
    /\ op' = IF AppendIsLast THEN "none" ELSE op

AppendBlock(b) ==
    /\ list' = Append(list, b)
    /\ IsBlockBufferDrain' = FALSE
    /\ pc' = "trigger"

AppendQueued ==
    /\ pc = "append" /\ ptUsedByQueue # NULL
    /\ Size' = [Size EXCEPT ![ptUsedByQueue] = Least(qCount, BlockSize)]
    /\ AppendBlock(ptUsedByQueue)
    /\ UNCHANGED <<cfg, pool, buffer, queue, lent, adapter, op, arg, item, reg,
                   held, accepted, wire>>

NothingQueued ==
    /\ pc = "append" /\ ptUsedByQueue = NULL
    /\ pc' = "check"
    /\ UNCHANGED <<cfg, heap, list, IsBlockBufferDrain, queue, lent, adapter,
                   op, arg, item, reg, held, accepted, wire>>

(* "this is no transaction, we need to trigger one": ptUsedByOutside is    *)
(* read outside the atomic section that put the block in the list.         *)
TriggerNeeded ==
    /\ pc = "trigger" /\ ptUsedByOutside = NULL
    /\ pc' = "dequeue"
    /\ UNCHANGED <<cfg, heap, list, IsBlockBufferDrain, queue, lent, adapter,
                   op, arg, item, reg, held, accepted, wire>>

TriggerNotNeeded ==
    /\ pc = "trigger" /\ ptUsedByOutside # NULL
    /\ LeaveAppend
    /\ UNCHANGED <<cfg, heap, list, IsBlockBufferDrain, queue, lent, adapter,
                   arg, item, reg, held, accepted, wire>>

--------------------------------------------------------------------------------
(* request_next_buffer_block (Block.Exchange) and the adapter's            *)
(* request_send.  The main thread runs them in steps, the handler at once. *)

First(s) == IF s = <<>> THEN NULL ELSE Head(s)
Rest(s) == IF s = <<>> THEN <<>> ELSE Tail(s)

(* Mutant: the block that was sent is not freed. *)
BugNeverGiveBack(b) ==
    /\ pool' = pool
    /\ Size' = [x \in Blocks |-> IF x = b THEN BlockSize ELSE Size[x]]
    /\ UNCHANGED buffer

(* The block that was lent out goes back to the heap, its size reset and   *)
(* its bytes left as they are.                                             *)
GiveBack(b) ==
    /\ pool' = pool \cup ({b} \ {NULL})
    /\ Size' = [x \in Blocks |-> IF x = b THEN BlockSize ELSE Size[x]]
    /\ UNCHANGED buffer

(* Mutant: ptUsedByOutside is only updated when there is a next block. *)
BugLendKeepsPointer(b, rest) ==
    /\ IsBlockBufferDrain' = (IsBlockBufferDrain \/ rest = <<>>)
    /\ chBlockCount' = IF b = NULL THEN chBlockCount
                                   ELSE (chBlockCount + 255) % 256
    /\ ptUsedByOutside' = IF b = NULL THEN ptUsedByOutside ELSE b

(* Mutant: the counter is not a uint8_t. *)
BugLendNoWrap(b, rest) ==
    /\ IsBlockBufferDrain' = (IsBlockBufferDrain \/ rest = <<>>)
    /\ chBlockCount' = IF b = NULL THEN chBlockCount ELSE chBlockCount + 255
    /\ ptUsedByOutside' = b

(* The __SB_ATOM_ACCESS part of Exchange; rest is what the dequeue left. *)
Lend(b, rest) ==
    /\ IsBlockBufferDrain' = (IsBlockBufferDrain \/ rest = <<>>)
    /\ chBlockCount' = IF b = NULL THEN chBlockCount
                                   ELSE (chBlockCount + 255) % 256
    /\ ptUsedByOutside' = b

(* Mutant: the index is not advanced past the byte already sent. *)
BugStartAtZero(b) ==
    /\ ptBlock' = b
    /\ hwSize' = IF b = NULL THEN hwSize ELSE Size[b]
    /\ hwIndex' = IF b = NULL THEN hwIndex ELSE 0
    /\ uartBusy' = (b # NULL)
    /\ wire' = IF b = NULL THEN wire ELSE Append(wire, buffer[b][1])

(* request_send after Exchange: the first byte of the buffer goes to the   *)
(* port, also when the block is empty, and its interrupt is enabled.       *)
StartSending(b) ==
    /\ ptBlock' = b
    /\ hwSize' = IF b = NULL THEN hwSize ELSE Size[b]
    /\ hwIndex' = IF b = NULL THEN hwIndex ELSE 1
    /\ uartBusy' = (b # NULL)
    /\ wire' = IF b = NULL THEN wire ELSE Append(wire, buffer[b][1])

DequeueForSend ==
    /\ pc = "dequeue"
    /\ GiveBack(ptBlock)
    /\ item' = First(list) /\ list' = Rest(list)
    /\ pc' = "lend"
    /\ UNCHANGED <<cfg, IsBlockBufferDrain, queue, lent, adapter, op, arg, reg,
                   held, accepted, wire>>

LendForSend ==
    /\ pc = "lend"
    /\ Lend(item, list)
    /\ pc' = "start"
    /\ UNCHANGED <<cfg, heap, list, queue, adapter, op, arg, item, reg, held,
                   accepted, wire>>

StartTransmit ==
    /\ pc = "start"
    /\ StartSending(item)
    /\ txIrq' = (txIrq \/ item # NULL)
    /\ item' = NULL
    /\ LeaveAppend
    /\ UNCHANGED <<cfg, heap, list, IsBlockBufferDrain, queue, lent, arg, reg,
                   held, accepted>>

--------------------------------------------------------------------------------
(* __get_new_block: the heap is looked at, and the block taken, outside    *)
(* any atomic section of the stream; chBlockCount++ is a load and a store. *)

(* Mutant: the limit is tested with <= . *)
BugLimitOffByOne ==
    /\ Cardinality(pool) > cfg.chReservedBlock
    /\ cfg.chBlockLimit # 0 => chBlockCount <= cfg.chBlockLimit

(* Both tests in one step: the handler can only make them more true. *)
MayTakeBlock ==
    /\ Cardinality(pool) > cfg.chReservedBlock
    /\ cfg.chBlockLimit # 0 => chBlockCount < cfg.chBlockLimit

CheckHeap ==
    /\ pc = "check"
    /\ pc' = IF MayTakeBlock THEN "new" ELSE "adopt"
    /\ UNCHANGED <<cfg, heap, list, IsBlockBufferDrain, queue, lent, adapter,
                   op, arg, item, reg, held, accepted, wire>>

NewSize == IF cfg.chBlockReservedSize < BlockSize
           THEN BlockSize - cfg.chBlockReservedSize ELSE BlockSize

NewBlock ==
    /\ pc = "new"
    /\ \E b \in pool : /\ pool' = pool \ {b}
                       /\ item' = b
                       /\ Size' = [Size EXCEPT ![b] = NewSize]
    /\ pc' = "load"
    /\ UNCHANGED <<cfg, buffer, list, IsBlockBufferDrain, queue, lent, adapter,
                   op, arg, reg, held, accepted, wire>>

LoadCount ==
    /\ pc = "load"
    /\ reg' = chBlockCount
    /\ pc' = "store"
    /\ UNCHANGED <<cfg, heap, list, IsBlockBufferDrain, queue, lent, adapter,
                   op, arg, item, held, accepted, wire>>

StoreCount ==
    /\ pc = "store"
    /\ chBlockCount' = (reg + 1) % 256
    /\ reg' = 0
    /\ pc' = "adopt"
    /\ UNCHANGED <<cfg, heap, list, IsBlockBufferDrain, queue, ptUsedByOutside,
                   adapter, op, arg, item, held, accepted, wire>>

(* The end of queue_init: the new block, if any, becomes an empty queue.   *)
(* Where the thread goes on depends on which call it is in.                *)
Adopt ==
    /\ pc = "adopt" /\ item # NULL
    /\ ptUsedByQueue' = item
    /\ qCount' = 0 /\ qSize' = Size[item]
    /\ bIsQueueInitialised' = TRUE
    /\ item' = NULL
    /\ pc' = CASE op = "Write" -> "write"
               [] op = "Flush" -> "flushed"
               [] op = "WriteBlock" -> "wb"
    /\ UNCHANGED <<cfg, heap, list, IsBlockBufferDrain, lent, adapter, op, arg,
                   reg, held, accepted, wire>>

(* Mutant: ptUsedByQueue keeps pointing at the block just queued. *)
BugKeepQueueBlock ==
    /\ pc = "adopt" /\ item = NULL
    /\ bIsQueueInitialised' = FALSE
    /\ pc' = CASE op = "Write" -> "idle"
               [] op = "Flush" -> "flushed"
               [] op = "WriteBlock" -> "wb"
    /\ op' = IF op = "Write" THEN "none" ELSE op
    /\ UNCHANGED <<cfg, heap, list, IsBlockBufferDrain, ptUsedByQueue, qCount,
                   qSize, lent, adapter, arg, item, reg, held, accepted, wire>>

(* queue_init fails: the counters of the byte queue stay as they were. *)
NoBlockToAdopt ==
    /\ pc = "adopt" /\ item = NULL
    /\ ptUsedByQueue' = NULL
    /\ bIsQueueInitialised' = FALSE
    /\ pc' = CASE op = "Write" -> "idle"
               [] op = "Flush" -> "flushed"
               [] op = "WriteBlock" -> "wb"
    /\ op' = IF op = "Write" THEN "none" ELSE op
    /\ UNCHANGED <<cfg, heap, list, IsBlockBufferDrain, qCount, qSize, lent,
                   adapter, arg, item, reg, held, accepted, wire>>

--------------------------------------------------------------------------------
(* The ends of stream_flush and stream_write_block.                        *)

(* Mutant: an empty list is taken for an idle port. *)
BugFlushByDrainBit == IsBlockBufferDrain

FlushResult == ptUsedByOutside = NULL

FlushReturn ==
    /\ pc = "flushed"
    /\ pc' = "idle" /\ op' = "none"
    /\ UNCHANGED <<cfg, heap, list, IsBlockBufferDrain, queue, lent, adapter,
                   arg, item, reg, held, accepted, wire>>

(* The loop that first sends what is queued looks at the count of the byte *)
(* queue whether or not that queue still has a block.                      *)
DrainQueueFirst ==
    /\ pc = "wb" /\ qCount # 0
    /\ pc' = "append"
    /\ UNCHANGED <<cfg, heap, list, IsBlockBufferDrain, queue, lent, adapter,
                   op, arg, item, reg, held, accepted, wire>>

AppendUserBlock ==
    /\ pc = "wb" /\ qCount = 0
    /\ AppendBlock(arg)
    /\ accepted' = accepted + Size[arg]
    /\ arg' = NULL
    /\ UNCHANGED <<cfg, heap, queue, lent, adapter, op, item, reg, held, wire>>

--------------------------------------------------------------------------------
(* The transmit-complete interrupt.                                        *)

TxCancelled ==
    /\ txIrq /\ uartBusy /\ hwSize = 0
    /\ txIrq' = FALSE /\ uartBusy' = FALSE
    /\ UNCHANGED <<cfg, heap, list, IsBlockBufferDrain, queue, lent, ptBlock,
                   hwSize, hwIndex, pc, op, arg, item, reg, held, accepted,
                   wire>>

TxNextByte ==
    /\ txIrq /\ uartBusy /\ hwIndex < hwSize
    /\ wire' = Append(wire, buffer[ptBlock][hwIndex + 1])
    /\ hwIndex' = hwIndex + 1
    /\ UNCHANGED <<cfg, heap, list, IsBlockBufferDrain, queue, lent, ptBlock,
                   hwSize, txIrq, uartBusy, pc, op, arg, item, reg, held,
                   accepted>>

(* The block is sent: Exchange it for the next one, or stop. *)
TxBlockDone ==
    /\ txIrq /\ uartBusy /\ hwSize # 0 /\ hwIndex >= hwSize
    /\ GiveBack(ptBlock)
    /\ list' = Rest(list)
    /\ Lend(First(list), Rest(list))
    /\ StartSending(First(list))
    /\ txIrq' = (list # <<>>)
    /\ UNCHANGED <<cfg, queue, pc, op, arg, item, reg, held, accepted>>

--------------------------------------------------------------------------------
Call == UserNew \/ CallWrite \/ CallFlush \/ CallWriteBlock

MainStep ==
    \/ EnqueueBytes \/ RetireFullBlock
    \/ AppendQueued \/ NothingQueued \/ TriggerNeeded \/ TriggerNotNeeded
    \/ DequeueForSend \/ LendForSend \/ StartTransmit
    \/ CheckHeap \/ NewBlock \/ LoadCount \/ StoreCount
    \/ Adopt \/ NoBlockToAdopt
    \/ FlushReturn \/ DrainQueueFirst \/ AppendUserBlock

TxIsr == TxCancelled \/ TxNextByte \/ TxBlockDone

Next == Call \/ MainStep \/ TxIsr

Spec == Init /\ [][Next]_vars

(* The core executes the main thread, and the port raises its interrupt    *)
(* after every byte: neither stops while it has a step to take.            *)
FairSpec == Spec /\ WF_vars(MainStep) /\ WF_vars(TxIsr)

--------------------------------------------------------------------------------
Ptr == Blocks \cup {NULL}

(* Every variable holds a value of its C type. *)
TypeOK ==
    /\ cfg \in Configs
    /\ pool \subseteq Blocks
    /\ Size \in [Blocks -> 0..BlockSize]
    /\ buffer \in [Blocks -> [1..BlockSize -> Nat]]
    /\ list \in Seq(Blocks)
    /\ IsBlockBufferDrain \in BOOLEAN /\ bIsQueueInitialised \in BOOLEAN
    /\ ptUsedByQueue \in Ptr /\ ptUsedByOutside \in Ptr /\ ptBlock \in Ptr
    /\ qCount \in Nat /\ qSize \in 0..BlockSize
    /\ chBlockCount \in 0..255 /\ reg \in 0..255
    /\ hwSize \in 0..BlockSize /\ hwIndex \in Nat
    /\ txIrq \in BOOLEAN /\ uartBusy \in BOOLEAN
    /\ pc \in {"idle", "write", "append", "trigger", "dequeue", "lend", "start",
               "check", "new", "load", "store", "adopt", "flushed", "wb"}
    /\ op \in {"none", "Write", "Flush", "WriteBlock"}
    /\ arg \in Ptr /\ item \in Ptr /\ held \subseteq Blocks
    /\ accepted \in Nat /\ wire \in Seq(Nat)

(* Between the append and the end of queue_init, ptUsedByQueue still       *)
(* points at a block that is no longer the queue's.                        *)
Retired == /\ pc \in {"trigger", "dequeue", "lend", "start",
                      "check", "new", "load", "store", "adopt"}
           /\ ~AppendIsLast

Listed == {list[i] : i \in 1..Len(list)}
ListedOnce == \A i, j \in 1..Len(list) : list[i] = list[j] => i = j
Queued == IF Retired THEN {} ELSE {ptUsedByQueue} \ {NULL}
Lent == {ptBlock} \ {NULL}
InHand == {item} \ {NULL}
OfUser == held \cup ({arg} \ {NULL})

(* No block leaks, is freed twice or has two owners, whatever the          *)
(* interleaving of the writer with the interrupt: each block of the heap   *)
(* is free, waiting in the list (once), being filled, being sent, in the   *)
(* hand of the main thread or with the user, and only one of these.        *)
OneOwner ==
    /\ Blocks = pool \cup Listed \cup Queued \cup Lent \cup InHand \cup OfUser
    /\ pool \cap (Listed \cup Queued \cup Lent \cup InHand \cup OfUser) = {}
    /\ Listed \cap (Queued \cup Lent \cup InHand \cup OfUser) = {}
    /\ Queued \cap (Lent \cup InHand \cup OfUser) = {}
    /\ Lent \cap (InHand \cup OfUser) = {}
    /\ InHand \cap OfUser = {}
    /\ ListedOnce

(* An empty block handed to stream_write_block is taken by the handler for *)
(* a cancelled service: the port stops and keeps the block.                *)
Stalled == ptBlock # NULL /\ hwSize = 0

(* No lost wake-up: the writer's check of ptUsedByOutside, made after its  *)
(* atomic append, never leaves a block in the list with the port asleep,   *)
(* and the drain bit is true exactly when the list is empty.               *)
PortAwake ==
    /\ list # <<>> /\ pc \notin {"trigger", "dequeue", "lend", "start"}
          => ptUsedByOutside # NULL
    /\ ptUsedByOutside # NULL /\ pc # "start"
          => ptBlock = ptUsedByOutside /\ ((txIrq /\ uartBusy) \/ Stalled)
    /\ pc # "lend" => (IsBlockBufferDrain <=> list = <<>>)

(* chBlockLimit bounds the blocks the stream owns, and chReservedBlock     *)
(* stay in the heap, although chBlockCount++ races with the handler's      *)
(* chBlockCount--: a lost update only makes the count too high.  (Not so   *)
(* once stream_write_block is used: the handler then counts down for       *)
(* blocks that were never counted up.)                                     *)
LimitRespected ==
    cfg.MaxHeld = 0 =>
        /\ cfg.chBlockLimit # 0
              => Cardinality(Listed \cup Queued) <= cfg.chBlockLimit
        /\ Cardinality(pool) >= Least(cfg.chReservedBlock, Cardinality(Blocks))

(* When stream_flush reports that nothing is lent out, every byte that was *)
(* accepted has left the port: no block is on its way between the check of *)
(* the queue and the read of ptUsedByOutside.                              *)
FlushTruth ==
    pc = "flushed" /\ FlushResult => Len(wire) = accepted /\ ~uartBusy

(* What the port has sent of the stream.  An empty block puts a byte on    *)
(* the wire that nobody wrote, whatever the buffer held, and stalls the    *)
(* port: there is at most one such byte, and it is the last.               *)
Sent == IF Stalled THEN SubSeq(wire, 1, Len(wire) - 1) ELSE wire

Channel == INSTANCE ByteChannel
    WITH Byte <- 1..MaxBytes,
         written <- [i \in 1..accepted |-> i],
         delivered <- Sent

(* The stream implements a byte channel: the bytes accepted by Write and   *)
(* WriteBlock appear on the wire once each and in order, across block      *)
(* boundaries, failed calls and interrupts, and no other byte does but the *)
(* one with which an empty block of the user stalls the port.              *)
ImplementsChannel == Channel!Spec

(* Every byte accepted before a flush is sent in the end, whatever the     *)
(* writer does next (unless an empty block has stalled the port).          *)
FlushedIsSent ==
    \A n \in 1..MaxBytes :
        (pc = "flushed" /\ accepted = n) ~> (Len(wire) >= n \/ Stalled)

(* stream_write_block comes back: its loop ends once the handler has freed *)
(* a block, with the port running and one block at a time with the user.   *)
WriteBlockReturns == (op = "WriteBlock") ~> (op # "WriteBlock" \/ Stalled)
================================================================================
