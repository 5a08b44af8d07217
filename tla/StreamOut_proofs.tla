---------------------------- MODULE StreamOut_proofs ----------------------------
(***************************************************************************)
(* Theorems about StreamOut, for every heap, block size, set of            *)
(* configurations and bound.  The invariants are not inductive by          *)
(* themselves: they rest on where the main thread can be (Control) and on  *)
(* what the adapter holds meanwhile (Port).                                *)
(*                                                                         *)
(* The second part shows that the limit and the reserve hold for every     *)
(* configuration without user blocks, although chBlockCount++ of the main  *)
(* thread races with chBlockCount-- of the handler.                        *)
(*                                                                         *)
(* The third shows that StreamOut implements ByteChannel.  A function st   *)
(* numbers the bytes of the blocks: st[b] is how many bytes were accepted  *)
(* before the first one of block b.                                        *)
(***************************************************************************)
EXTENDS StreamOut, FiniteSetTheorems, SequenceTheorems, TLAPS

(* Which call the main thread is in, and which of its locals are in use.   *)
Control ==
    /\ pc = "idle" <=> op = "none"
    /\ pc = "write" => op = "Write"
    /\ pc = "flushed" => op = "Flush"
    /\ pc = "wb" => op = "WriteBlock" /\ arg # NULL
    /\ op # "WriteBlock" => arg = NULL
    /\ arg \notin held
    /\ AppendIsLast => pc \in {"trigger", "dequeue", "lend", "start"}
    /\ item # NULL => pc \in {"lend", "start", "load", "store", "adopt"}
    /\ pc \in {"load", "store"} => item # NULL

(* From the check of ptUsedByOutside to the start of the transmission the  *)
(* port is idle, so the handler cannot interfere.                          *)
Port ==
    /\ pc \in {"dequeue", "lend"} => ptUsedByOutside = NULL
    /\ pc = "start" => ptBlock = NULL /\ ptUsedByOutside = item
    /\ pc # "start" /\ ptUsedByOutside = NULL => ptBlock = NULL
    /\ uartBusy => ptBlock # NULL
    /\ pc \in {"lend", "start"} /\ item = NULL => list = <<>>
    /\ pc = "lend" /\ IsBlockBufferDrain => list = <<>>

IInv == TypeOK /\ Control /\ Port /\ PortAwake /\ OneOwner

--------------------------------------------------------------------------------
(* The operators of the two actors keep the types of what they assign.     *)

(* What BLOCK_QUEUE.Dequeue returns and leaves. *)
LEMMA QueueEnds ==
    ASSUME list \in Seq(Blocks)
    PROVE  /\ First(list) \in Ptr /\ Rest(list) \in Seq(Blocks)
           /\ First(list) = NULL => list = <<>> /\ Rest(list) = <<>>
           /\ First(list) # NULL => list # <<>> /\ First(list) = Head(list)
BY BlocksAssumption DEF First, Rest, Ptr

(* Freeing the block that was lent out. *)
LEMMA GiveBackType ==
    ASSUME TypeOK, NEW b \in Ptr, GiveBack(b)
    PROVE  /\ pool' \subseteq Blocks
           /\ Size' \in [Blocks -> 0..BlockSize]
           /\ buffer' \in [Blocks -> [1..BlockSize -> Nat]]
<1>1. pool' \subseteq Blocks
    BY DEF GiveBack, TypeOK, Ptr
<1>2. Size' \in [Blocks -> 0..BlockSize]
    BY SizeAssumption DEF GiveBack, TypeOK
<1>3. buffer' \in [Blocks -> [1..BlockSize -> Nat]]
    BY DEF GiveBack, TypeOK
<1> QED
    BY <1>1, <1>2, <1>3

(* The atomic part of Exchange; chBlockCount stays a uint8_t. *)
LEMMA LendType ==
    ASSUME TypeOK, NEW b \in Ptr, NEW rest, Lend(b, rest)
    PROVE  /\ IsBlockBufferDrain' \in BOOLEAN
           /\ chBlockCount' \in 0..255
           /\ ptUsedByOutside' \in Ptr
<1>1. chBlockCount' \in 0..255
    BY DEF Lend, TypeOK
<1>2. IsBlockBufferDrain' \in BOOLEAN
    BY DEF Lend, TypeOK
<1> QED
    BY <1>1, <1>2 DEF Lend

(* The first byte of a block goes to the port. *)
LEMMA StartSendingType ==
    ASSUME TypeOK, NEW b \in Ptr, StartSending(b)
    PROVE  /\ ptBlock' \in Ptr /\ hwSize' \in 0..BlockSize /\ hwIndex' \in Nat
           /\ uartBusy' \in BOOLEAN /\ wire' \in Seq(Nat)
<1>1. b # NULL => Size[b] \in 0..BlockSize
    BY DEF TypeOK, Ptr
<1>2. b # NULL => buffer[b][1] \in Nat
    BY SizeAssumption DEF TypeOK, Ptr
<1>3. wire' \in Seq(Nat)
    BY <1>2 DEF StartSending, TypeOK
<1>4. hwSize' \in 0..BlockSize /\ hwIndex' \in Nat
    BY <1>1 DEF StartSending, TypeOK
<1> QED
    BY <1>3, <1>4 DEF StartSending


--------------------------------------------------------------------------------
(* Every step of the main thread and of the handler keeps every variable   *)
(* in its C type; the port never reads past the buffer of its block.       *)
LEMMA TypeStep ==
    ASSUME TypeOK, Control, Port, Next
    PROVE  TypeOK'
<1> USE DEF Ptr, heap, queue, lent, adapter
<1>1. CASE UserNew
    <2>1. PICK b \in pool : /\ pool' = pool \ {b}
                           /\ held' = held \cup {b}
                           /\ Size' = [Size EXCEPT ![b] = BlockSize]
        BY <1>1 DEF UserNew
    <2>2. Size' \in [Blocks -> 0..BlockSize]
        BY <2>1, SizeAssumption DEF TypeOK
    <2>3. pool' \subseteq Blocks /\ held' \subseteq Blocks
        BY <2>1 DEF TypeOK
    <2> QED
        BY <1>1, <2>2, <2>3, ZenonT(40) DEF UserNew, TypeOK
<1>2. CASE CallWrite
    BY <1>2 DEF CallWrite, TypeOK
<1>3. CASE CallFlush
    BY <1>3 DEF CallFlush, TypeOK
<1>4. CASE CallWriteBlock
    <2>1. PICK b \in held, n \in cfg.MinHeldSize..Least(BlockSize, MaxBytes - accepted) :
             /\ Size' = [Size EXCEPT ![b] = n]
             /\ buffer' = [buffer EXCEPT ![b] =
                   [i \in 1..BlockSize |-> IF i <= n THEN accepted + i ELSE @[i]]]
             /\ arg' = b
             /\ held' = held \ {b}
        BY <1>4 DEF CallWriteBlock
    <2>2. cfg.MinHeldSize \in Nat
        BY ConfigsAssumption DEF TypeOK
    <2>3. n \in 0..BlockSize
        BY <2>2, SizeAssumption DEF Least, TypeOK
    <2>4. Size' \in [Blocks -> 0..BlockSize]
        BY <2>1, <2>3 DEF TypeOK
    <2>5. [i \in 1..BlockSize |-> IF i <= n THEN accepted + i ELSE buffer[b][i]] \in [1..BlockSize -> Nat]
        <3>1. b \in Blocks /\ buffer[b] \in [1..BlockSize -> Nat] /\ accepted \in Nat
            BY DEF TypeOK
        <3> QED
            BY <3>1, SizeAssumption
    <2>6. buffer' \in [Blocks -> [1..BlockSize -> Nat]]
        <3>1. b \in Blocks /\ buffer \in [Blocks -> [1..BlockSize -> Nat]]
            BY DEF TypeOK
        <3>2. buffer' = [buffer EXCEPT ![b] = [i \in 1..BlockSize |-> IF i <= n THEN accepted + i ELSE buffer[b][i]]]
            BY <2>1, <3>1
        <3> QED
            BY <2>5, <3>1, <3>2
    <2> QED
        BY <1>4, <2>1, <2>4, <2>6 DEF CallWriteBlock, TypeOK
<1>5. CASE EnqueueBytes
    <2>1. PICK n \in 1..Least(qSize - qCount, MaxBytes - accepted) :
             /\ qCount' = qCount + n
             /\ accepted' = accepted + n
             /\ buffer' = [buffer EXCEPT ![ptUsedByQueue] =
                   [i \in 1..BlockSize |-> IF i \in qCount+1 .. qCount+n
                                           THEN accepted + i - qCount ELSE @[i]]]
        BY <1>5 DEF EnqueueBytes
    <2>2. n \in Nat
        BY <1>5, SizeAssumption DEF Least, TypeOK
    <2>3. qCount' \in Nat /\ accepted' \in Nat
        BY <2>1, <2>2 DEF TypeOK
    <2>4. buffer' \in [Blocks -> [1..BlockSize -> Nat]]
        <3>1. CASE ptUsedByQueue \in Blocks
            <4>1. \A i \in 1..BlockSize :
                     (IF i \in qCount+1 .. qCount+n
                      THEN accepted + i - qCount ELSE buffer[ptUsedByQueue][i]) \in Nat
                <5> TAKE i \in 1..BlockSize
                <5>1. CASE i \in qCount+1 .. qCount+n
                    BY <5>1, <2>2 DEF TypeOK
                <5>2. CASE i \notin qCount+1 .. qCount+n
                    <6>1. buffer[ptUsedByQueue][i] \in Nat
                        BY <3>1 DEF TypeOK
                    <6> QED
                        BY <5>2, <6>1
                <5> QED
                    BY <5>1, <5>2
            <4>2. [i \in 1..BlockSize |-> IF i \in qCount+1 .. qCount+n
                      THEN accepted + i - qCount ELSE buffer[ptUsedByQueue][i]]
                     \in [1..BlockSize -> Nat]
                BY <4>1
            <4> QED
                BY <2>1, <3>1, <4>2 DEF TypeOK
        <3>2. CASE ptUsedByQueue \notin Blocks
            BY <2>1, <3>2 DEF TypeOK
        <3> QED
            BY <3>1, <3>2
    <2> QED
        BY <1>5, <2>3, <2>4 DEF EnqueueBytes, TypeOK
<1>6. CASE RetireFullBlock
    BY <1>6, ZenonT(40) DEF RetireFullBlock, TypeOK
<1>7. CASE AppendQueued
    <2>1. ptUsedByQueue \in Blocks
        BY <1>7 DEF AppendQueued, TypeOK
    <2>2. Least(qCount, BlockSize) \in 0..BlockSize
        BY SizeAssumption DEF Least, TypeOK
    <2>3. Size' \in [Blocks -> 0..BlockSize]
        BY <1>7, <2>1, <2>2 DEF AppendQueued, TypeOK
    <2>4. list' \in Seq(Blocks)
        BY <1>7, <2>1 DEF AppendQueued, AppendBlock, TypeOK
    <2> QED
        BY <1>7, <2>3, <2>4 DEF AppendQueued, AppendBlock, TypeOK
<1>8. CASE NothingQueued
    BY <1>8 DEF NothingQueued, TypeOK
<1>9. CASE TriggerNeeded
    BY <1>9 DEF TriggerNeeded, TypeOK
<1>10. CASE TriggerNotNeeded
    BY <1>10 DEF TriggerNotNeeded, LeaveAppend, TypeOK
<1>11. CASE DequeueForSend
    <2>1. list \in Seq(Blocks) /\ ptBlock \in Ptr
        BY DEF TypeOK
    <2>2. item' \in Ptr /\ list' \in Seq(Blocks)
        BY <1>11, <2>1, QueueEnds DEF DequeueForSend
    <2>3. /\ pool' \subseteq Blocks
          /\ Size' \in [Blocks -> 0..BlockSize]
          /\ buffer' \in [Blocks -> [1..BlockSize -> Nat]]
        BY <1>11, <2>1, GiveBackType DEF DequeueForSend
    <2> QED
        BY <1>11, <2>2, <2>3, ZenonT(40) DEF DequeueForSend, TypeOK
<1>12. CASE LendForSend
    <2>1. /\ IsBlockBufferDrain' \in BOOLEAN
          /\ chBlockCount' \in 0..255
          /\ ptUsedByOutside' \in Ptr
        BY <1>12, LendType DEF LendForSend, TypeOK
    <2> QED
        BY <1>12, <2>1 DEF LendForSend, TypeOK
<1>13. CASE StartTransmit
    <2>1. /\ ptBlock' \in Ptr /\ hwSize' \in 0..BlockSize /\ hwIndex' \in Nat
          /\ uartBusy' \in BOOLEAN /\ wire' \in Seq(Nat)
        BY <1>13, StartSendingType DEF StartTransmit, TypeOK
    <2>2. txIrq' \in BOOLEAN
        BY <1>13 DEF StartTransmit, TypeOK
    <2> QED
        BY <1>13, <2>1, <2>2 DEF StartTransmit, LeaveAppend, TypeOK
<1>14. CASE CheckHeap
    BY <1>14 DEF CheckHeap, TypeOK
<1>15. CASE NewBlock
    <2>1. NewSize \in 0..BlockSize
        BY SizeAssumption, ConfigsAssumption DEF NewSize, TypeOK
    <2>2. PICK b \in pool : /\ pool' = pool \ {b}
                           /\ item' = b
                           /\ Size' = [Size EXCEPT ![b] = NewSize]
        BY <1>15 DEF NewBlock
    <2>3. Size' \in [Blocks -> 0..BlockSize]
        BY <2>1, <2>2 DEF TypeOK
    <2>4. pool' \subseteq Blocks /\ item' \in Ptr
        BY <2>2 DEF TypeOK
    <2> QED
        BY <1>15, <2>3, <2>4, ZenonT(40) DEF NewBlock, TypeOK
<1>16. CASE LoadCount
    BY <1>16 DEF LoadCount, TypeOK
<1>17. CASE StoreCount
    BY <1>17 DEF StoreCount, TypeOK
<1>18. CASE Adopt
    <2>1. qCount' \in Nat /\ qSize' \in 0..BlockSize
        BY <1>18 DEF Adopt, TypeOK
    <2>2. pc' \in {"write", "flushed", "wb"}
        BY <1>18 DEF Adopt, TypeOK, Control
    <2> QED
        BY <1>18, <2>1, <2>2, ZenonT(40) DEF Adopt, TypeOK
<1>19. CASE NoBlockToAdopt
    <2>1. pc' \in {"idle", "flushed", "wb"}
        BY <1>19 DEF NoBlockToAdopt, TypeOK, Control
    <2>2. op' \in {"none", "Write", "Flush", "WriteBlock"}
        BY <1>19 DEF NoBlockToAdopt, TypeOK
    <2> QED
        BY <1>19, <2>1, <2>2, ZenonT(40) DEF NoBlockToAdopt, TypeOK
<1>20. CASE FlushReturn
    BY <1>20 DEF FlushReturn, TypeOK
<1>21. CASE DrainQueueFirst
    BY <1>21 DEF DrainQueueFirst, TypeOK
<1>22. CASE AppendUserBlock
    <2>1. arg \in Blocks
        BY <1>22 DEF AppendUserBlock, Control, TypeOK
    <2>2. list' \in Seq(Blocks)
        BY <1>22, <2>1 DEF AppendUserBlock, AppendBlock, TypeOK
    <2>3. accepted' \in Nat
        BY <1>22, <2>1 DEF AppendUserBlock, TypeOK
    <2> QED
        BY <1>22, <2>2, <2>3 DEF AppendUserBlock, AppendBlock, TypeOK
<1>23. CASE TxCancelled
    <2>1. /\ txIrq' \in BOOLEAN /\ uartBusy' \in BOOLEAN
          /\ UNCHANGED <<cfg, heap, list, IsBlockBufferDrain, queue, lent,
                         ptBlock, hwSize, hwIndex, pc, op, arg, item, reg, held,
                         accepted, wire>>
        BY <1>23 DEF TxCancelled
    <2> QED
        BY <2>1 DEF TypeOK
<1>24. CASE TxNextByte
    <2>1. ptBlock \in Blocks
        BY <1>24 DEF TxNextByte, Port, TypeOK
    <2>2. hwIndex + 1 \in 1..BlockSize
        BY <1>24, SizeAssumption DEF TxNextByte, TypeOK
    <2>3. wire' \in Seq(Nat)
        <3>1. buffer[ptBlock][hwIndex + 1] \in Nat
            BY <2>1, <2>2 DEF TypeOK
        <3> QED
            BY <1>24, <3>1 DEF TxNextByte, TypeOK
    <2> QED
        BY <1>24, <2>3 DEF TxNextByte, TypeOK
<1>25. CASE TxBlockDone
    <2>1. /\ ptBlock \in Ptr
          /\ First(list) \in Ptr /\ Rest(list) \in Seq(Blocks)
        BY QueueEnds DEF TypeOK
    <2>2. /\ pool' \subseteq Blocks
          /\ Size' \in [Blocks -> 0..BlockSize]
          /\ buffer' \in [Blocks -> [1..BlockSize -> Nat]]
        BY <1>25, <2>1, GiveBackType DEF TxBlockDone
    <2>3. /\ IsBlockBufferDrain' \in BOOLEAN
          /\ chBlockCount' \in 0..255
          /\ ptUsedByOutside' \in Ptr
        BY <1>25, <2>1, LendType DEF TxBlockDone
    <2>4. /\ ptBlock' \in Ptr /\ hwSize' \in 0..BlockSize /\ hwIndex' \in Nat
          /\ uartBusy' \in BOOLEAN /\ wire' \in Seq(Nat)
        BY <1>25, <2>1, StartSendingType DEF TxBlockDone
    <2> QED
        BY <1>25, <2>1, <2>2, <2>3, <2>4 DEF TxBlockDone, TypeOK
<1> QED
    BY <1>1, <1>2, <1>3, <1>4, <1>5, <1>6, <1>7, <1>8, <1>9, <1>10, <1>11,
       <1>12, <1>13, <1>14, <1>15, <1>16, <1>17, <1>18, <1>19, <1>20, <1>21,
       <1>22, <1>23, <1>24, <1>25
    DEF Next, Call, MainStep, TxIsr


--------------------------------------------------------------------------------
(* The control points of queue_init, Exchange and __get_new_block and the  *)
(* locals in use at each are kept by every step. *)
LEMMA ControlStep ==
    ASSUME TypeOK, Control, Next
    PROVE  Control'
<1> USE DEF Control, AppendIsLast
<1>1. CASE UserNew
    BY <1>1, BlocksAssumption DEF UserNew, TypeOK
<1>2. CASE CallWrite
    BY <1>2 DEF CallWrite
<1>3. CASE CallFlush
    BY <1>3 DEF CallFlush
<1>4. CASE CallWriteBlock
    BY <1>4, BlocksAssumption DEF CallWriteBlock, TypeOK
<1>5. CASE EnqueueBytes
    BY <1>5 DEF EnqueueBytes
<1>6. CASE RetireFullBlock
    BY <1>6 DEF RetireFullBlock
<1>7. CASE AppendQueued
    BY <1>7 DEF AppendQueued, AppendBlock
<1>8. CASE NothingQueued
    BY <1>8 DEF NothingQueued
<1>9. CASE TriggerNeeded
    BY <1>9 DEF TriggerNeeded
<1>10. CASE TriggerNotNeeded
    BY <1>10 DEF TriggerNotNeeded, LeaveAppend
<1>11. CASE DequeueForSend
    BY <1>11 DEF DequeueForSend
<1>12. CASE LendForSend
    BY <1>12 DEF LendForSend
<1>13. CASE StartTransmit
    BY <1>13 DEF StartTransmit, LeaveAppend
<1>14. CASE CheckHeap
    BY <1>14 DEF CheckHeap
<1>15. CASE NewBlock
    BY <1>15, BlocksAssumption DEF NewBlock, TypeOK
<1>16. CASE LoadCount
    BY <1>16 DEF LoadCount
<1>17. CASE StoreCount
    BY <1>17 DEF StoreCount
<1>18. CASE Adopt
    BY <1>18 DEF Adopt, TypeOK
<1>19. CASE NoBlockToAdopt
    BY <1>19 DEF NoBlockToAdopt, TypeOK
<1>20. CASE FlushReturn
    BY <1>20 DEF FlushReturn
<1>21. CASE DrainQueueFirst
    BY <1>21 DEF DrainQueueFirst
<1>22. CASE AppendUserBlock
    BY <1>22, BlocksAssumption DEF AppendUserBlock, AppendBlock, TypeOK
<1>23. CASE TxCancelled
    BY <1>23 DEF TxCancelled
<1>24. CASE TxNextByte
    BY <1>24 DEF TxNextByte
<1>25. CASE TxBlockDone
    BY <1>25 DEF TxBlockDone
<1> QED
    BY <1>1, <1>2, <1>3, <1>4, <1>5, <1>6, <1>7, <1>8, <1>9, <1>10, <1>11,
       <1>12, <1>13, <1>14, <1>15, <1>16, <1>17, <1>18, <1>19, <1>20, <1>21,
       <1>22, <1>23, <1>24, <1>25
    DEF Next, Call, MainStep, TxIsr

(* The handler cannot run, and so cannot dequeue or lend, while the main   *)
(* thread starts a transmission. *)
LEMMA PortStep ==
    ASSUME TypeOK, Control, Port, PortAwake, Next
    PROVE  Port'
<1> USE DEF Port, lent, adapter
<1>1. CASE UserNew
    BY <1>1 DEF UserNew
<1>2. CASE CallWrite
    BY <1>2 DEF CallWrite
<1>3. CASE CallFlush
    BY <1>3 DEF CallFlush
<1>4. CASE CallWriteBlock
    BY <1>4 DEF CallWriteBlock
<1>5. CASE EnqueueBytes
    BY <1>5 DEF EnqueueBytes
<1>6. CASE RetireFullBlock
    BY <1>6 DEF RetireFullBlock
<1>7. CASE AppendQueued
    BY <1>7 DEF AppendQueued, AppendBlock
<1>8. CASE NothingQueued
    BY <1>8 DEF NothingQueued
<1>9. CASE TriggerNeeded
    BY <1>9 DEF TriggerNeeded
<1>10. CASE TriggerNotNeeded
    BY <1>10 DEF TriggerNotNeeded, LeaveAppend
<1>11. CASE DequeueForSend
    BY <1>11, QueueEnds DEF DequeueForSend, PortAwake, TypeOK
<1>12. CASE LendForSend
    BY <1>12 DEF LendForSend, Lend
<1>13. CASE StartTransmit
    BY <1>13 DEF StartTransmit, LeaveAppend, StartSending
<1>14. CASE CheckHeap
    BY <1>14 DEF CheckHeap
<1>15. CASE NewBlock
    BY <1>15 DEF NewBlock
<1>16. CASE LoadCount
    BY <1>16 DEF LoadCount
<1>17. CASE StoreCount
    BY <1>17 DEF StoreCount
<1>18. CASE Adopt
    BY <1>18 DEF Adopt, TypeOK, Control
<1>19. CASE NoBlockToAdopt
    BY <1>19 DEF NoBlockToAdopt, TypeOK, Control
<1>20. CASE FlushReturn
    BY <1>20 DEF FlushReturn
<1>21. CASE DrainQueueFirst
    BY <1>21 DEF DrainQueueFirst
<1>22. CASE AppendUserBlock
    BY <1>22 DEF AppendUserBlock, AppendBlock
<1>23. CASE TxCancelled
    BY <1>23 DEF TxCancelled
<1>24. CASE TxNextByte
    BY <1>24 DEF TxNextByte
<1>25. CASE TxBlockDone
    BY <1>25, QueueEnds DEF TxBlockDone, Lend, StartSending, TypeOK
<1> QED
    BY <1>1, <1>2, <1>3, <1>4, <1>5, <1>6, <1>7, <1>8, <1>9, <1>10, <1>11,
       <1>12, <1>13, <1>14, <1>15, <1>16, <1>17, <1>18, <1>19, <1>20, <1>21,
       <1>22, <1>23, <1>24, <1>25
    DEF Next, Call, MainStep, TxIsr

(* The check of ptUsedByOutside after the append, whatever the handler did *)
(* in between, leaves no block in the list with the port asleep. *)
LEMMA AwakeStep ==
    ASSUME TypeOK, Control, Port, PortAwake, Next
    PROVE  PortAwake'
<1> USE DEF Port, PortAwake, Stalled, lent, adapter
<1>1. CASE UserNew
    BY <1>1 DEF UserNew
<1>2. CASE CallWrite
    BY <1>2 DEF CallWrite
<1>3. CASE CallFlush
    BY <1>3 DEF CallFlush
<1>4. CASE CallWriteBlock
    BY <1>4 DEF CallWriteBlock
<1>5. CASE EnqueueBytes
    BY <1>5 DEF EnqueueBytes
<1>6. CASE RetireFullBlock
    BY <1>6 DEF RetireFullBlock
<1>7. CASE AppendQueued
    BY <1>7 DEF AppendQueued, AppendBlock
<1>8. CASE NothingQueued
    BY <1>8 DEF NothingQueued
<1>9. CASE TriggerNeeded
    BY <1>9 DEF TriggerNeeded
<1>10. CASE TriggerNotNeeded
    BY <1>10 DEF TriggerNotNeeded, LeaveAppend
<1>11. CASE DequeueForSend
    BY <1>11, QueueEnds DEF DequeueForSend, TypeOK
<1>12. CASE LendForSend
    BY <1>12 DEF LendForSend, Lend
<1>13. CASE StartTransmit
    BY <1>13 DEF StartTransmit, LeaveAppend, StartSending
<1>14. CASE CheckHeap
    BY <1>14 DEF CheckHeap
<1>15. CASE NewBlock
    BY <1>15 DEF NewBlock
<1>16. CASE LoadCount
    BY <1>16 DEF LoadCount
<1>17. CASE StoreCount
    BY <1>17 DEF StoreCount
<1>18. CASE Adopt
    BY <1>18 DEF Adopt, TypeOK, Control
<1>19. CASE NoBlockToAdopt
    BY <1>19 DEF NoBlockToAdopt, TypeOK, Control
<1>20. CASE FlushReturn
    BY <1>20 DEF FlushReturn
<1>21. CASE DrainQueueFirst
    BY <1>21 DEF DrainQueueFirst
<1>22. CASE AppendUserBlock
    BY <1>22 DEF AppendUserBlock, AppendBlock
<1>23. CASE TxCancelled
    BY <1>23 DEF TxCancelled
<1>24. CASE TxNextByte
    BY <1>24 DEF TxNextByte
<1>25. CASE TxBlockDone
    BY <1>25, QueueEnds DEF TxBlockDone, Lend, StartSending, TypeOK
<1> QED
    BY <1>1, <1>2, <1>3, <1>4, <1>5, <1>6, <1>7, <1>8, <1>9, <1>10, <1>11,
       <1>12, <1>13, <1>14, <1>15, <1>16, <1>17, <1>18, <1>19, <1>20, <1>21,
       <1>22, <1>23, <1>24, <1>25
    DEF Next, Call, MainStep, TxIsr


--------------------------------------------------------------------------------
(* How the block list changes as a set.                                    *)

(* BLOCK_QUEUE.Enqueue of a block that is not in the list. *)
LEMMA ListedAppend ==
    ASSUME list \in Seq(Blocks), ListedOnce,
           NEW b \in Blocks, b \notin Listed, list' = Append(list, b)
    PROVE  Listed' = Listed \cup {b} /\ ListedOnce'
<1>1. /\ Len(list') = Len(list) + 1
      /\ list'[Len(list) + 1] = b
      /\ \A i \in 1..Len(list) : list'[i] = list[i]
      /\ 1..Len(list') = (1..Len(list)) \cup {Len(list) + 1}
    OBVIOUS
<1>2. Listed' = Listed \cup {b}
    BY <1>1 DEF Listed
<1>3. ListedOnce'
    BY <1>1 DEF Listed, ListedOnce
<1> QED
    BY <1>2, <1>3

(* BLOCK_QUEUE.Dequeue takes the first block out, and only that one. *)
LEMMA ListedRest ==
    ASSUME list \in Seq(Blocks), ListedOnce, list' = Rest(list)
    PROVE  /\ Listed' = Listed \ {First(list)} /\ ListedOnce'
           /\ {First(list)} \ {NULL} \subseteq Listed
<1>1. CASE list = <<>>
    BY <1>1 DEF Rest, First, Listed, ListedOnce
<1>2. CASE list # <<>>
    <2>1. /\ Len(list) \in Nat /\ Len(list) > 0
          /\ Len(list') = Len(list) - 1
          /\ First(list) = list[1]
          /\ \A i \in 1..Len(list') : list'[i] = list[i + 1]
        BY <1>2 DEF Rest, First
    <2>2. Listed' = Listed \ {First(list)}
        <3>1. ASSUME NEW x \in Listed'  PROVE x \in Listed /\ x # First(list)
            BY <3>1, <2>1 DEF Listed, ListedOnce
        <3>2. ASSUME NEW x \in Listed, x # First(list)  PROVE x \in Listed'
            <4>1. PICK i \in 1..Len(list) : x = list[i]
                BY DEF Listed
            <4>2. i - 1 \in 1..Len(list') /\ list'[i - 1] = x
                BY <4>1, <3>2, <2>1
            <4> QED
                BY <4>2 DEF Listed
        <3> QED
            BY <3>1, <3>2
    <2>3. ListedOnce'
        BY <2>1 DEF ListedOnce
    <2>4. First(list) \in Listed
        BY <2>1 DEF Listed
    <2> QED
        BY <2>2, <2>3, <2>4
<1> QED
    BY <1>1, <1>2

(* A step that moves no block leaves every block with its owner. *)
LEMMA SameOwners ==
    ASSUME OneOwner, UNCHANGED <<pool, list, Queued, ptBlock, item, held, arg>>
    PROVE  OneOwner'
BY DEF OneOwner, Listed, ListedOnce, Lent, InHand, OfUser


(* Every step moves a block from one owner to another, or moves none. *)
LEMMA OwnerStep ==
    ASSUME TypeOK, Control, Port, OneOwner, Next
    PROVE  OneOwner'
<1> USE DEF heap, queue, lent, adapter
<1>1. CASE UserNew
    <2>1. PICK b \in pool : pool' = pool \ {b} /\ held' = held \cup {b}
        BY <1>1 DEF UserNew
    <2>2. UNCHANGED <<Listed, ListedOnce, Queued, Lent, InHand>>
        BY <1>1 DEF UserNew, Listed, ListedOnce, Queued, Retired, AppendIsLast, Lent, InHand
    <2>3. OfUser' = OfUser \cup {b}
        BY <1>1, <2>1, BlocksAssumption DEF UserNew, OfUser, TypeOK
    <2> QED
        BY <2>1, <2>2, <2>3, BlocksAssumption DEF OneOwner, TypeOK
<1>2. CASE CallWrite
    <2>1. UNCHANGED Queued
        BY <1>2 DEF CallWrite, Queued, Retired, AppendIsLast, Control
    <2> QED
        BY <1>2, <2>1, SameOwners DEF CallWrite
<1>3. CASE CallFlush
    <2>1. UNCHANGED Queued
        BY <1>3 DEF CallFlush, Queued, Retired, AppendIsLast, Control
    <2> QED
        BY <1>3, <2>1, SameOwners DEF CallFlush
<1>4. CASE CallWriteBlock
    <2>1. OfUser' = OfUser
        BY <1>4, BlocksAssumption DEF CallWriteBlock, OfUser, Control, TypeOK
    <2>2. UNCHANGED <<pool, Listed, ListedOnce, Queued, Lent, InHand>>
        BY <1>4 DEF CallWriteBlock, Listed, ListedOnce, Queued, Retired, Lent, InHand
    <2> QED
        BY <2>1, <2>2 DEF OneOwner
<1>5. CASE EnqueueBytes
    <2>1. UNCHANGED Queued
        BY <1>5 DEF EnqueueBytes, Queued, Retired, AppendIsLast, Control
    <2> QED
        BY <1>5, <2>1, SameOwners DEF EnqueueBytes
<1>6. CASE RetireFullBlock
    <2>1. UNCHANGED Queued
        BY <1>6 DEF RetireFullBlock, Queued, Retired, AppendIsLast, Control
    <2> QED
        BY <1>6, <2>1, SameOwners DEF RetireFullBlock
<1>7. CASE AppendQueued
    <2>1. ptUsedByQueue \in Blocks /\ Queued = {ptUsedByQueue} /\ Queued' = {}
        <3>1. ptUsedByQueue \in Blocks /\ ptUsedByQueue # NULL
            BY <1>7 DEF AppendQueued, TypeOK, Ptr
        <3>2. ~Retired /\ Retired'
            BY <1>7 DEF AppendQueued, AppendBlock, Retired, AppendIsLast, Control
        <3> QED
            BY <3>1, <3>2 DEF Queued
    <2>2. Listed' = Listed \cup {ptUsedByQueue} /\ ListedOnce'
        BY <1>7, <2>1, ListedAppend DEF AppendQueued, AppendBlock, OneOwner, TypeOK
    <2>3. UNCHANGED <<pool, Lent, InHand, OfUser>>
        BY <1>7 DEF AppendQueued, Lent, InHand, OfUser
    <2> QED
        BY <2>1, <2>2, <2>3 DEF OneOwner
<1>8. CASE NothingQueued
    <2>1. UNCHANGED Queued
        BY <1>8 DEF NothingQueued, Queued, Retired, AppendIsLast, Control
    <2> QED
        BY <1>8, <2>1, SameOwners DEF NothingQueued
<1>9. CASE TriggerNeeded
    <2>1. UNCHANGED Queued
        BY <1>9 DEF TriggerNeeded, Queued, Retired, AppendIsLast, Control
    <2> QED
        BY <1>9, <2>1, SameOwners DEF TriggerNeeded
<1>10. CASE TriggerNotNeeded
    <2>1. UNCHANGED Queued
        BY <1>10 DEF TriggerNotNeeded, LeaveAppend, Queued, Retired, AppendIsLast, Control
    <2> QED
        BY <1>10, <2>1, SameOwners DEF TriggerNotNeeded
<1>11. CASE DequeueForSend
    <2>1. pool' = pool /\ ptBlock = NULL
        BY <1>11 DEF DequeueForSend, GiveBack, Port
    <2>2. /\ Listed' = Listed \ {First(list)} /\ ListedOnce'
          /\ {First(list)} \ {NULL} \subseteq Listed
        BY <1>11, ListedRest DEF DequeueForSend, OneOwner, TypeOK
    <2>3. InHand = {} /\ InHand' = {First(list)} \ {NULL}
        BY <1>11 DEF DequeueForSend, InHand, Control
    <2>4. UNCHANGED <<Queued, Lent, OfUser>>
        BY <1>11 DEF DequeueForSend, Queued, Retired, AppendIsLast, Lent, OfUser
    <2>5. NULL \notin Listed
        BY BlocksAssumption DEF Listed, TypeOK
    <2> QED
        BY <2>1, <2>2, <2>3, <2>4, <2>5 DEF OneOwner
<1>12. CASE LendForSend
    <2>1. UNCHANGED Queued
        BY <1>12 DEF LendForSend, Queued, Retired, AppendIsLast, Control
    <2> QED
        BY <1>12, <2>1, SameOwners DEF LendForSend
<1>13. CASE StartTransmit
    <2>1. Lent = {} /\ Lent' = InHand /\ InHand' = {}
        BY <1>13 DEF StartTransmit, StartSending, Lent, InHand, Port
    <2>2. UNCHANGED <<pool, Listed, ListedOnce, Queued, OfUser>>
        BY <1>13 DEF StartTransmit, LeaveAppend, Listed, ListedOnce, Queued, Retired,
                   AppendIsLast, OfUser
    <2> QED
        BY <2>1, <2>2 DEF OneOwner
<1>14. CASE CheckHeap
    <2>1. UNCHANGED Queued
        BY <1>14 DEF CheckHeap, Queued, Retired, AppendIsLast, Control
    <2> QED
        BY <1>14, <2>1, SameOwners DEF CheckHeap
<1>15. CASE NewBlock
    <2>1. PICK b \in pool : pool' = pool \ {b} /\ item' = b
        BY <1>15 DEF NewBlock
    <2>2. InHand = {} /\ InHand' = {b}
        BY <1>15, <2>1, BlocksAssumption DEF NewBlock, InHand, Control, TypeOK
    <2>3. UNCHANGED <<Listed, ListedOnce, Queued, Lent, OfUser>>
        BY <1>15 DEF NewBlock, Listed, ListedOnce, Queued, Retired, AppendIsLast, Lent, OfUser
    <2> QED
        BY <2>1, <2>2, <2>3, BlocksAssumption DEF OneOwner, TypeOK
<1>16. CASE LoadCount
    <2>1. UNCHANGED Queued
        BY <1>16 DEF LoadCount, Queued, Retired, AppendIsLast, Control
    <2> QED
        BY <1>16, <2>1, SameOwners DEF LoadCount
<1>17. CASE StoreCount
    <2>1. UNCHANGED Queued
        BY <1>17 DEF StoreCount, Queued, Retired, AppendIsLast, Control
    <2> QED
        BY <1>17, <2>1, SameOwners DEF StoreCount
<1>18. CASE Adopt
    <2>1. pc' \in {"write", "flushed", "wb"}
        BY <1>18 DEF Adopt, Control, TypeOK
    <2>2. Queued = {} /\ Queued' = InHand /\ InHand' = {}
        BY <1>18, <2>1 DEF Adopt, Queued, Retired, AppendIsLast, InHand, Control
    <2>3. UNCHANGED <<pool, Listed, ListedOnce, Lent, OfUser>>
        BY <1>18 DEF Adopt, Listed, ListedOnce, Lent, OfUser
    <2> QED
        BY <2>2, <2>3 DEF OneOwner
<1>19. CASE NoBlockToAdopt
    <2>1. pc' \in {"idle", "flushed", "wb"}
        BY <1>19 DEF NoBlockToAdopt, Control, TypeOK
    <2>2. UNCHANGED Queued
        BY <1>19, <2>1 DEF NoBlockToAdopt, Queued, Retired, AppendIsLast, Control
    <2> QED
        BY <1>19, <2>2, SameOwners DEF NoBlockToAdopt
<1>20. CASE FlushReturn
    <2>1. UNCHANGED Queued
        BY <1>20 DEF FlushReturn, Queued, Retired, AppendIsLast, Control
    <2> QED
        BY <1>20, <2>1, SameOwners DEF FlushReturn
<1>21. CASE DrainQueueFirst
    <2>1. UNCHANGED Queued
        BY <1>21 DEF DrainQueueFirst, Queued, Retired, AppendIsLast, Control
    <2> QED
        BY <1>21, <2>1, SameOwners DEF DrainQueueFirst
<1>22. CASE AppendUserBlock
    <2>1. arg \in Blocks /\ arg \notin Listed
        BY <1>22 DEF AppendUserBlock, Control, OneOwner, OfUser, TypeOK
    <2>2. Listed' = Listed \cup {arg} /\ ListedOnce'
        BY <1>22, <2>1, ListedAppend DEF AppendUserBlock, AppendBlock, OneOwner, TypeOK
    <2>3. OfUser = held \cup {arg} /\ OfUser' = held /\ arg \notin held
        BY <1>22, <2>1, BlocksAssumption DEF AppendUserBlock, OfUser, Control, TypeOK
    <2>4. UNCHANGED <<pool, Queued, Lent, InHand>>
        BY <1>22 DEF AppendUserBlock, AppendBlock, Queued, Retired, AppendIsLast, Lent,
                   InHand, Control
    <2> QED
        BY <2>1, <2>2, <2>3, <2>4 DEF OneOwner
<1>23. CASE TxCancelled
    <2>1. UNCHANGED Queued
        BY <1>23 DEF TxCancelled, Queued, Retired, AppendIsLast, Control
    <2> QED
        BY <1>23, <2>1, SameOwners DEF TxCancelled
<1>24. CASE TxNextByte
    <2>1. UNCHANGED Queued
        BY <1>24 DEF TxNextByte, Queued, Retired, AppendIsLast, Control
    <2> QED
        BY <1>24, <2>1, SameOwners DEF TxNextByte
<1>25. CASE TxBlockDone
    <2>1. ptBlock \in Blocks /\ Lent = {ptBlock} /\ pool' = pool \cup {ptBlock}
        <3>1. ptBlock \in Blocks
            BY <1>25 DEF TxBlockDone, Port, TypeOK, Ptr
        <3>2. pool' = pool \cup ({ptBlock} \ {NULL})
            BY <1>25 DEF TxBlockDone, GiveBack
        <3> QED
            BY <3>1, <3>2, BlocksAssumption DEF Lent
    <2>2. /\ Listed' = Listed \ {First(list)} /\ ListedOnce'
          /\ {First(list)} \ {NULL} \subseteq Listed
        BY <1>25, ListedRest DEF TxBlockDone, OneOwner, TypeOK
    <2>3. Lent' = {First(list)} \ {NULL}
        BY <1>25 DEF TxBlockDone, StartSending, Lent
    <2>4. UNCHANGED <<Queued, InHand, OfUser>>
        BY <1>25 DEF TxBlockDone, Queued, Retired, AppendIsLast, InHand, OfUser
    <2>5. NULL \notin Listed
        BY BlocksAssumption DEF Listed, TypeOK
    <2> QED
        BY <2>1, <2>2, <2>3, <2>4, <2>5 DEF OneOwner
<1> QED
    BY <1>1, <1>2, <1>3, <1>4, <1>5, <1>6, <1>7, <1>8, <1>9, <1>10, <1>11,
       <1>12, <1>13, <1>14, <1>15, <1>16, <1>17, <1>18, <1>19, <1>20, <1>21,
       <1>22, <1>23, <1>24, <1>25
    DEF Next, Call, MainStep, TxIsr


--------------------------------------------------------------------------------
(* A freshly initialised stream satisfies the invariant. *)
LEMMA InitOK == Init => IInv
<1> SUFFICES ASSUME Init PROVE IInv
    OBVIOUS
<1>1. TypeOK
    <2>1. [i \in 1..BlockSize |-> 0] \in [1..BlockSize -> Nat]
        OBVIOUS
    <2>2. /\ pool \subseteq Blocks /\ buffer \in [Blocks -> [1..BlockSize -> Nat]]
          /\ list \in Seq(Blocks) /\ wire \in Seq(Nat)
        BY <2>1 DEF Init
    <2>3. /\ Size \in [Blocks -> 0..BlockSize]
          /\ hwSize \in 0..BlockSize /\ hwIndex \in Nat
          /\ qCount \in Nat /\ qSize \in 0..BlockSize /\ accepted \in Nat
          /\ chBlockCount \in 0..255 /\ reg \in 0..255
        BY SizeAssumption DEF Init
    <2>4. /\ IsBlockBufferDrain \in BOOLEAN /\ bIsQueueInitialised \in BOOLEAN
          /\ txIrq \in BOOLEAN /\ uartBusy \in BOOLEAN
        BY DEF Init
    <2>5. /\ cfg \in Configs /\ pc = "idle" /\ op = "none" /\ held \subseteq Blocks
          /\ ptUsedByQueue \in Ptr /\ ptUsedByOutside \in Ptr /\ ptBlock \in Ptr
          /\ arg \in Ptr /\ item \in Ptr
        BY DEF Init, Ptr
    <2> QED
        BY <2>2, <2>3, <2>4, <2>5 DEF TypeOK
<1>2. Control
    BY DEF Init, Control, AppendIsLast
<1>3. Port /\ PortAwake
    BY DEF Init, Port, PortAwake
<1>4. OneOwner
    BY DEF Init, OneOwner, Listed, ListedOnce, Queued, Retired, Lent, InHand, OfUser
<1> QED
    BY <1>1, <1>2, <1>3, <1>4 DEF IInv

(* So does a stream nobody touches. *)
LEMMA StutterOK == IInv /\ UNCHANGED vars => IInv'
BY DEF IInv, TypeOK, Ptr, Control, AppendIsLast, Port, PortAwake, Stalled,
       OneOwner, Listed, ListedOnce, Queued, Retired, Lent, InHand, OfUser,
       vars, heap, queue, lent, adapter

(* The inductive invariant holds in every reachable state. *)
THEOREM Inductive == Spec => []IInv
<1>1. Init => IInv
    BY InitOK
<1>2. IInv /\ [Next]_vars => IInv'
    BY TypeStep, ControlStep, PortStep, AwakeStep, OwnerStep, StutterOK DEF IInv
<1> QED
    BY <1>1, <1>2, PTL DEF Spec

(* Types: in particular ptBlock is a block whenever the port is busy.      *)
THEOREM TypeCorrect == Spec => []TypeOK
BY Inductive, PTL DEF IInv

(* No block of the heap leaks, is freed twice or has two owners, for any   *)
(* number of blocks, any configuration and any interleaving. *)
THEOREM OneOwnerAlways == Spec => []OneOwner
BY Inductive, PTL DEF IInv

(* A block appended to the list is always picked up: the port is awake     *)
(* whenever the list is not empty and the writer is past its check. *)
THEOREM NoLostWakeUp == Spec => []PortAwake
BY Inductive, PTL DEF IInv

--------------------------------------------------------------------------------
(* The limit and the reserve.                                              *)

(* Nobody uses stream_write_block. *)
WritesBytesOnly == held = {} /\ op # "WriteBlock"

(* The test of the heap is still true when the block is taken: the handler *)
(* only adds blocks meanwhile.                                             *)
Reserve ==
    /\ Cardinality(pool) >= Least(cfg.chReservedBlock, Cardinality(Blocks))
    /\ pc = "new" => Cardinality(pool) > cfg.chReservedBlock

(* The blocks that chBlockCount should have counted: the stream's, before  *)
(* it lends them, and not the one just taken.                              *)
Counted == Listed \cup Queued \cup (IF pc \in {"lend", "adopt"} THEN InHand ELSE {})

(* The count, and the copy of it that is about to be stored, are never too *)
(* low: the handler may have counted down what the copy has not.           *)
CountHolds ==
    /\ Cardinality(Counted) <= chBlockCount /\ chBlockCount <= cfg.chBlockLimit
    /\ pc \in {"new", "load"} => chBlockCount < cfg.chBlockLimit
    /\ pc = "store" => Cardinality(Counted) <= reg /\ reg < cfg.chBlockLimit

LimitInv ==
    cfg.MaxHeld = 0 =>
        /\ WritesBytesOnly
        /\ Reserve
        /\ cfg.chBlockLimit # 0 => CountHolds

--------------------------------------------------------------------------------
(* Without a block to hold, the user neither takes one nor writes it. *)
LEMMA UsersStep ==
    ASSUME IInv, cfg.MaxHeld = 0, WritesBytesOnly, Next
    PROVE  WritesBytesOnly' /\ ~UserNew /\ ~CallWriteBlock /\ ~AppendUserBlock /\ cfg' = cfg
<1> USE DEF WritesBytesOnly
<1>1. ~UserNew
    BY FS_EmptySet DEF UserNew
<1>2. ~CallWriteBlock
    BY DEF CallWriteBlock
<1>3. ~AppendUserBlock
    BY DEF AppendUserBlock, IInv, Control
<1> USE DEF heap, queue, lent, adapter
<1>4. MainStep => WritesBytesOnly' /\ cfg' = cfg
    <2> SUFFICES ASSUME MainStep PROVE WritesBytesOnly' /\ cfg' = cfg
        OBVIOUS
    <2>1. CASE EnqueueBytes \/ RetireFullBlock \/ AppendQueued \/ NothingQueued
               \/ TriggerNeeded \/ DequeueForSend \/ LendForSend
        BY <2>1 DEF EnqueueBytes, RetireFullBlock, AppendQueued, NothingQueued,
                    TriggerNeeded, DequeueForSend, LendForSend
    <2>2. CASE TriggerNotNeeded \/ StartTransmit
        BY <2>2 DEF TriggerNotNeeded, StartTransmit, LeaveAppend
    <2>3. CASE CheckHeap \/ NewBlock \/ LoadCount \/ StoreCount \/ Adopt
               \/ NoBlockToAdopt \/ FlushReturn \/ DrainQueueFirst
        BY <2>3 DEF CheckHeap, NewBlock, LoadCount, StoreCount, Adopt,
                    NoBlockToAdopt, FlushReturn, DrainQueueFirst
    <2> QED
        BY <1>3, <2>1, <2>2, <2>3 DEF MainStep
<1>5. CallWrite \/ CallFlush \/ TxIsr => WritesBytesOnly' /\ cfg' = cfg
    BY DEF CallWrite, CallFlush, TxIsr, TxCancelled, TxNextByte, TxBlockDone
<1> QED
    BY <1>1, <1>2, <1>3, <1>4, <1>5 DEF Next, Call

(* The heap stays above its reserve. *)
LEMMA ReserveStep ==
    ASSUME IInv, cfg.MaxHeld = 0, WritesBytesOnly, Reserve, Next
    PROVE  Reserve'
<1> DEFINE n == Cardinality(pool)
           r == cfg.chReservedBlock
           least == Least(r, Cardinality(Blocks))
<1>1. cfg' = cfg /\ ~UserNew /\ ~CallWriteBlock /\ ~AppendUserBlock
    BY UsersStep
<1>2. /\ pool \subseteq Blocks /\ IsFiniteSet(pool) /\ n \in Nat
      /\ r \in Nat /\ Cardinality(Blocks) \in Nat
    BY BlocksAssumption, ConfigsAssumption, FS_Subset, FS_CardinalityType DEF IInv, TypeOK
<1>3. n >= least /\ (pc = "new" => n > r)
    BY DEF Reserve
<1>4. CASE NewBlock
    <2>1. PICK b \in pool : pool' = pool \ {b}
        BY <1>4 DEF NewBlock
    <2>2. Cardinality(pool') = n - 1
        BY <1>2, <2>1, FS_RemoveElement
    <2>3. n > r /\ pc' = "load"
        BY <1>3, <1>4 DEF NewBlock
    <2> QED
        BY <1>1, <1>2, <2>2, <2>3 DEF Reserve, Least
<1>5. CASE CheckHeap
    BY <1>1, <1>3, <1>5 DEF CheckHeap, MayTakeBlock, Reserve, heap
<1>6. CASE DequeueForSend \/ TxBlockDone
    <2>1. /\ pool' = pool \cup ({ptBlock} \ {NULL}) /\ ptBlock \in Ptr
          /\ pc' = "new" => pc = "new"
        BY <1>6 DEF DequeueForSend, TxBlockDone, GiveBack, IInv, TypeOK
    <2>2. pool' \subseteq Blocks /\ pool \subseteq pool'
        BY <1>2, <2>1 DEF Ptr
    <2>3. IsFiniteSet(pool') /\ Cardinality(pool') \in Nat /\ Cardinality(pool') >= n
        BY <2>2, BlocksAssumption, FS_Subset, FS_CardinalityType
    <2>4. least \in Nat
        BY <1>2 DEF Least
    <2>5. Cardinality(pool') >= least /\ (pc = "new" => Cardinality(pool') > r)
        BY <1>2, <1>3, <2>3, <2>4
    <2> QED
        BY <1>1, <2>1, <2>5 DEF Reserve
<1>7. CASE pool' = pool /\ (pc' = "new" => pc = "new")
    BY <1>1, <1>7 DEF Reserve
<1>8. \/ NewBlock \/ CheckHeap \/ DequeueForSend \/ TxBlockDone
      \/ pool' = pool /\ (pc' = "new" => pc = "new")
    <2> USE DEF heap
    <2>1. CASE CallWrite \/ CallFlush \/ TxCancelled \/ TxNextByte
        BY <2>1 DEF CallWrite, CallFlush, TxCancelled, TxNextByte
    <2>2. CASE EnqueueBytes \/ RetireFullBlock \/ AppendQueued \/ NothingQueued
               \/ TriggerNeeded \/ TriggerNotNeeded \/ LendForSend \/ StartTransmit
        BY <2>2 DEF EnqueueBytes, RetireFullBlock, AppendQueued, AppendBlock, NothingQueued,
                    TriggerNeeded, TriggerNotNeeded, LendForSend, StartTransmit, LeaveAppend
    <2>3. CASE LoadCount \/ StoreCount \/ FlushReturn \/ DrainQueueFirst
        BY <2>3 DEF LoadCount, StoreCount, FlushReturn, DrainQueueFirst
    <2>4. CASE Adopt \/ NoBlockToAdopt
        BY <2>4 DEF Adopt, NoBlockToAdopt, IInv, Control, TypeOK
    <2> QED
        BY <1>1, <2>1, <2>2, <2>3, <2>4 DEF Next, Call, MainStep, TxIsr
<1> QED
    BY <1>4, <1>5, <1>6, <1>7, <1>8

(* The counted blocks are blocks, and finitely many. *)
LEMMA CountedType ==
    ASSUME IInv
    PROVE  /\ Counted \subseteq Blocks /\ IsFiniteSet(Counted)
           /\ Cardinality(Counted) \in Nat
<1>1. Listed \subseteq Blocks
    BY DEF IInv, TypeOK, Listed
<1>2. Queued \subseteq Blocks /\ InHand \subseteq Blocks
    BY DEF IInv, TypeOK, Ptr, Queued, InHand
<1> QED
    BY <1>1, <1>2, BlocksAssumption, FS_Subset, FS_CardinalityType DEF Counted

(* The three steps that change them: a block becomes the queue's, and the  *)
(* main thread or the handler lends one.                                   *)
LEMMA StoreCounts ==
    ASSUME IInv, WritesBytesOnly, StoreCount
    PROVE  item \in Blocks \ Counted /\ Counted' = Counted \cup {item}
<1> USE DEF StoreCount, queue, adapter
<1>1. item \in Blocks /\ InHand = {item}
    BY DEF IInv, TypeOK, Control, Ptr, InHand
<1>2. Counted = Listed \cup Queued
    BY DEF Counted
<1>3. Listed' = Listed /\ Queued' = Queued /\ InHand' = InHand
    BY DEF Listed, Queued, InHand, Retired, AppendIsLast, IInv, Control
<1>4. Counted' = Listed' \cup Queued' \cup InHand'
    BY DEF Counted
<1> QED
    BY <1>1, <1>2, <1>3, <1>4 DEF IInv, OneOwner

LEMMA LendUncounts ==
    ASSUME IInv, WritesBytesOnly, LendForSend
    PROVE  Counted' = Counted \ {item} /\ (item # NULL => item \in Counted)
<1> USE DEF LendForSend, heap, queue, adapter
<1>1. Counted = Listed \cup Queued \cup InHand
    BY DEF Counted
<1>2. Listed' = Listed /\ Queued' = Queued
    BY DEF Listed, Queued, Retired, AppendIsLast, IInv, Control
<1>3. Counted' = Listed' \cup Queued'
    BY DEF Counted
<1>4. NULL \notin Listed \cup Queued
    BY BlocksAssumption DEF Listed, Queued, IInv, TypeOK
<1> QED
    BY <1>1, <1>2, <1>3, <1>4 DEF InHand, IInv, OneOwner

LEMMA DoneUncounts ==
    ASSUME IInv, WritesBytesOnly, TxBlockDone
    PROVE  Counted' = Counted \ {First(list)} /\ (First(list) # NULL => First(list) \in Counted)
<1>1. Listed' = Listed \ {First(list)} /\ {First(list)} \ {NULL} \subseteq Listed
    BY ListedRest DEF TxBlockDone, IInv, OneOwner, TypeOK
<1>2. Queued' = Queued /\ InHand' = InHand /\ pc' = pc
    BY DEF TxBlockDone, queue, Queued, Retired, AppendIsLast, InHand
<1>3. (Queued \cup InHand) \cap Listed = {} /\ NULL \notin Queued \cup InHand
    BY DEF IInv, OneOwner, Queued, InHand
<1>4. First(list) \notin Queued \cup InHand
    BY <1>1, <1>3
<1> QED
    BY <1>1, <1>2, <1>4 DEF Counted

(* The others do not: they move a block between the queue, the list and    *)
(* the hand of the main thread, or none.                                   *)
LEMMA OthersCountAlike ==
    ASSUME IInv, cfg.MaxHeld = 0, WritesBytesOnly, Next,
           ~StoreCount, ~LendForSend, ~TxBlockDone
    PROVE  Counted' = Counted /\ chBlockCount' = chBlockCount
<1> USE DEF heap, queue, lent, adapter
<1>1. ~AppendIsLast
    BY DEF WritesBytesOnly, AppendIsLast
<1>2. WritesBytesOnly' /\ ~AppendIsLast' /\ ~UserNew /\ ~CallWriteBlock /\ ~AppendUserBlock
    BY UsersStep DEF WritesBytesOnly, AppendIsLast
<1>3. CASE CallWrite \/ CallFlush \/ EnqueueBytes \/ RetireFullBlock
    BY <1>3 DEF CallWrite, CallFlush, EnqueueBytes, RetireFullBlock,
                Counted, Listed, Queued, Retired
<1>4. CASE AppendQueued
    <2>1. ptUsedByQueue \in Blocks \ Listed /\ Queued = {ptUsedByQueue} /\ Queued' = {}
        BY <1>1, <1>2, <1>4 DEF AppendQueued, AppendBlock, Queued, Retired, IInv, TypeOK, Ptr, OneOwner
    <2>2. Listed' = Listed \cup {ptUsedByQueue}
        BY <1>4, <2>1, ListedAppend DEF AppendQueued, AppendBlock, IInv, OneOwner, TypeOK
    <2>3. pc = "append" /\ pc' = "trigger" /\ UNCHANGED chBlockCount
        BY <1>4 DEF AppendQueued, AppendBlock
    <2> QED
        BY <2>1, <2>2, <2>3 DEF Counted
<1>5. CASE NothingQueued \/ TriggerNeeded
    BY <1>1, <1>2, <1>5 DEF NothingQueued, TriggerNeeded, Counted, Listed, Queued, Retired
<1>6. CASE TriggerNotNeeded
    BY <1>1, <1>2, <1>6 DEF TriggerNotNeeded, LeaveAppend, Counted, Listed, Queued, Retired
<1>7. CASE DequeueForSend
    <2>1. Listed' = Listed \ {First(list)} /\ {First(list)} \ {NULL} \subseteq Listed
        BY <1>7, ListedRest DEF DequeueForSend, IInv, OneOwner, TypeOK
    <2>2. NULL \notin Listed /\ InHand' = {First(list)} \ {NULL}
        BY <1>7, BlocksAssumption DEF DequeueForSend, InHand, Listed, IInv, TypeOK
    <2>3. Queued = {} /\ Queued' = {}
        BY <1>1, <1>2, <1>7 DEF DequeueForSend, Queued, Retired
    <2>4. pc = "dequeue" /\ pc' = "lend" /\ UNCHANGED chBlockCount
        BY <1>7 DEF DequeueForSend
    <2> QED
        BY <2>1, <2>2, <2>3, <2>4 DEF Counted
<1>8. CASE StartTransmit
    BY <1>1, <1>2, <1>8 DEF StartTransmit, LeaveAppend, Counted, Listed, Queued, Retired
<1>9. CASE CheckHeap
    <2>1. pc' = "adopt" => InHand' = {}
        BY <1>9 DEF CheckHeap, InHand, IInv, Control
    <2>2. pc = "check" /\ pc' \in {"new", "adopt"} /\ UNCHANGED <<Listed, Queued, chBlockCount>>
        BY <1>1, <1>2, <1>9 DEF CheckHeap, Listed, Queued, Retired
    <2> QED
        BY <2>1, <2>2 DEF Counted
<1>10. CASE NewBlock \/ LoadCount
    BY <1>1, <1>2, <1>10 DEF NewBlock, LoadCount, Counted, Listed, Queued, Retired
<1>11. CASE Adopt
    <2>1. pc' \in {"write", "flushed", "wb"}
        BY <1>11 DEF Adopt, IInv, Control, TypeOK
    <2>2. Queued = {} /\ Queued' = InHand
        BY <1>1, <1>11, <2>1 DEF Adopt, Queued, Retired, InHand
    <2>3. pc = "adopt" /\ UNCHANGED <<Listed, chBlockCount>>
        BY <1>11 DEF Adopt, Listed
    <2> QED
        BY <2>1, <2>2, <2>3 DEF Counted
<1>12. CASE NoBlockToAdopt
    <2>1. pc' \in {"idle", "flushed", "wb"}
        BY <1>12 DEF NoBlockToAdopt, IInv, Control, TypeOK
    <2>2. Queued = {} /\ Queued' = {} /\ InHand = {}
        BY <1>1, <1>12, <2>1 DEF NoBlockToAdopt, Queued, Retired, InHand
    <2>3. pc = "adopt" /\ UNCHANGED <<Listed, chBlockCount>>
        BY <1>12 DEF NoBlockToAdopt, Listed
    <2> QED
        BY <2>1, <2>2, <2>3 DEF Counted
<1>13. CASE FlushReturn \/ DrainQueueFirst
    BY <1>13 DEF FlushReturn, DrainQueueFirst, Counted, Listed, Queued, Retired
<1>14. CASE TxCancelled \/ TxNextByte
    BY <1>14 DEF TxCancelled, TxNextByte, Counted, Listed, Queued, Retired, AppendIsLast, InHand
<1> QED
    BY <1>2, <1>3, <1>4, <1>5, <1>6, <1>7, <1>8, <1>9, <1>10, <1>11, <1>12, <1>13, <1>14
    DEF Next, Call, MainStep, TxIsr

(* Where __get_new_block goes, the other steps do not. *)
LEMMA MovesOn ==
    ASSUME Next, IInv, ~CheckHeap, ~TxBlockDone
    PROVE  /\ pc' = "new" => pc = "new"
           /\ pc' = "load" => pc \in {"new", "load"}
           /\ pc' = "store" => (pc = "store" /\ reg' = reg) \/ (pc = "load" /\ reg' = chBlockCount)
<1>1. CASE Call
    BY <1>1 DEF Call, UserNew, CallWrite, CallFlush, CallWriteBlock
<1>2. CASE EnqueueBytes \/ RetireFullBlock \/ AppendQueued \/ NothingQueued \/ TriggerNeeded
    BY <1>2 DEF EnqueueBytes, RetireFullBlock, AppendQueued, AppendBlock, NothingQueued, TriggerNeeded
<1>3. CASE TriggerNotNeeded \/ DequeueForSend \/ LendForSend \/ StartTransmit
    BY <1>3 DEF TriggerNotNeeded, DequeueForSend, LendForSend, StartTransmit, LeaveAppend
<1>4. CASE NewBlock \/ LoadCount \/ StoreCount
    BY <1>4 DEF NewBlock, LoadCount, StoreCount
<1>5. CASE Adopt \/ NoBlockToAdopt
    BY <1>5 DEF Adopt, NoBlockToAdopt, IInv, Control, TypeOK
<1>6. CASE FlushReturn \/ DrainQueueFirst \/ AppendUserBlock
    BY <1>6 DEF FlushReturn, DrainQueueFirst, AppendUserBlock, AppendBlock
<1>7. CASE TxCancelled \/ TxNextByte
    BY <1>7 DEF TxCancelled, TxNextByte
<1> QED
    BY <1>1, <1>2, <1>3, <1>4, <1>5, <1>6, <1>7 DEF Next, MainStep, TxIsr

(* The configuration is set once. *)
LEMMA CfgStays == Next => cfg' = cfg
BY DEF Next, Call, MainStep, TxIsr, UserNew, CallWrite, CallFlush, CallWriteBlock,
   EnqueueBytes, RetireFullBlock, AppendQueued, NothingQueued, TriggerNeeded,
   TriggerNotNeeded, DequeueForSend, LendForSend, StartTransmit, CheckHeap, NewBlock,
   LoadCount, StoreCount, Adopt, NoBlockToAdopt, FlushReturn, DrainQueueFirst,
   AppendUserBlock, TxCancelled, TxNextByte, TxBlockDone

(* A block that is counted up was allowed for; what the handler counts     *)
(* down between load and store only makes the copy too high.               *)
LEMMA CountStep ==
    ASSUME IInv, cfg.MaxHeld = 0, cfg.chBlockLimit # 0, WritesBytesOnly, CountHolds, Next
    PROVE  CountHolds'
<1> DEFINE n == Cardinality(Counted)
           limit == cfg.chBlockLimit
<1>1. cfg' = cfg
    BY UsersStep
<1>2. /\ IsFiniteSet(Counted) /\ n \in Nat
      /\ chBlockCount \in 0..255 /\ reg \in 0..255 /\ limit \in 0..255
    BY CountedType, ConfigsAssumption DEF IInv, TypeOK
<1>3. /\ n <= chBlockCount /\ chBlockCount <= limit
      /\ pc \in {"new", "load"} => chBlockCount < limit
      /\ pc = "store" => n <= reg /\ reg < limit
    BY DEF CountHolds
<1>4. CASE StoreCount
    <2>1. Cardinality(Counted') = n + 1
        BY <1>2, <1>4, StoreCounts, FS_AddElement
    <2>2. n <= reg /\ reg < limit /\ chBlockCount' = (reg + 1) % 256 /\ pc' = "adopt"
        BY <1>3, <1>4 DEF StoreCount
    <2>3. chBlockCount' = reg + 1
        BY <1>2, <2>2
    <2> QED
        BY <1>1, <1>2, <2>1, <2>2, <2>3 DEF CountHolds
<1>5. ASSUME NEW b, Counted' = Counted \ {b}, b # NULL => b \in Counted,
             b = NULL => Counted' = Counted,
             chBlockCount' = IF b = NULL THEN chBlockCount ELSE (chBlockCount + 255) % 256,
             reg' = reg, pc' \in {"new", "load", "store"} => pc' = pc
      PROVE  CountHolds'
    <2>1. CASE b = NULL
        BY <1>1, <1>3, <1>5, <2>1 DEF CountHolds
    <2>2. CASE b # NULL
        <3>1. Cardinality(Counted') = n - 1 /\ n - 1 \in Nat
            <4>1. b \in Counted /\ Counted' = Counted \ {b}
                BY <1>5, <2>2
            <4>2. IsFiniteSet(Counted') /\ Cardinality(Counted') = n - 1
                BY <1>2, <4>1, FS_RemoveElement
            <4>3. Cardinality(Counted') \in Nat
                BY <4>2, FS_CardinalityType
            <4> QED
                BY <4>2, <4>3
        <3>2. chBlockCount' = chBlockCount - 1
            BY <1>2, <1>3, <1>5, <2>2, <3>1
        <3> QED
            BY <1>1, <1>2, <1>3, <1>5, <3>1, <3>2 DEF CountHolds
    <2> QED
        BY <2>1, <2>2
<1>6. NULL \notin Counted
    BY CountedType, BlocksAssumption
<1>7. CASE LendForSend
    <2>1. /\ Counted' = Counted \ {item} /\ (item # NULL => item \in Counted)
          /\ chBlockCount' = IF item = NULL THEN chBlockCount ELSE (chBlockCount + 255) % 256
          /\ reg' = reg /\ pc' = "start"
        BY <1>7, LendUncounts DEF LendForSend, Lend
    <2> QED
        BY <1>5, <1>6, <2>1
<1>8. CASE TxBlockDone
    <2>1. /\ Counted' = Counted \ {First(list)} /\ (First(list) # NULL => First(list) \in Counted)
          /\ chBlockCount' = IF First(list) = NULL THEN chBlockCount ELSE (chBlockCount + 255) % 256
          /\ reg' = reg /\ pc' = pc
        BY <1>8, DoneUncounts DEF TxBlockDone, Lend
    <2> QED
        BY <1>5, <1>6, <2>1
<1>9. CASE ~StoreCount /\ ~LendForSend /\ ~TxBlockDone
    <2>1. Counted' = Counted /\ chBlockCount' = chBlockCount
        BY <1>9, OthersCountAlike
    <2>2. pc' = "new" => pc = "new" \/ chBlockCount < limit
        <3>1. CASE CheckHeap
            BY <3>1 DEF CheckHeap, MayTakeBlock
        <3>2. CASE ~CheckHeap
            BY <3>2, <1>9, MovesOn
        <3> QED
            BY <3>1, <3>2
    <2>3. /\ pc' = "load" => pc \in {"new", "load"}
          /\ pc' = "store" => (pc = "store" /\ reg' = reg) \/ (pc = "load" /\ reg' = chBlockCount)
        <3>1. CASE CheckHeap
            BY <3>1 DEF CheckHeap
        <3>2. CASE ~CheckHeap
            BY <3>2, <1>9, MovesOn
        <3> QED
            BY <3>1, <3>2
    <2> QED
        BY <1>1, <1>2, <1>3, <2>1, <2>2, <2>3 DEF CountHolds
<1> QED
    BY <1>4, <1>7, <1>8, <1>9

--------------------------------------------------------------------------------
(* A new stream owns no block. *)
LEMMA LimitInit == Init => LimitInv
<1> SUFFICES ASSUME Init, cfg.MaxHeld = 0
             PROVE  WritesBytesOnly /\ Reserve /\ CountHolds
    BY DEF LimitInv
<1>1. WritesBytesOnly
    BY DEF Init, WritesBytesOnly
<1>2. Reserve
    BY BlocksAssumption, ConfigsAssumption, FS_CardinalityType DEF Init, Reserve, Least
<1>3. Counted = {}
    BY DEF Init, Counted, Listed, Queued
<1>4. CountHolds
    <2>1. Cardinality(Counted) = 0
        BY <1>3, FS_EmptySet
    <2>2. cfg.chBlockLimit \in 0..255
        BY ConfigsAssumption DEF Init
    <2>3. pc = "idle" /\ chBlockCount = 0
        BY DEF Init
    <2> QED
        BY <2>1, <2>2, <2>3 DEF CountHolds
<1> QED
    BY <1>1, <1>2, <1>4

LEMMA LimitStep == IInv /\ LimitInv /\ [Next]_vars => LimitInv'
<1>1. CASE UNCHANGED vars
    BY <1>1 DEF vars, heap, queue, lent, LimitInv, WritesBytesOnly, Reserve, CountHolds,
       Counted, Listed, Queued, Retired, AppendIsLast, InHand
<1>2. ASSUME IInv, LimitInv, Next, cfg'.MaxHeld = 0
      PROVE  WritesBytesOnly' /\ Reserve' /\ (cfg'.chBlockLimit # 0 => CountHolds')
    <2>1. cfg' = cfg
        BY <1>2, CfgStays
    <2>2. WritesBytesOnly /\ Reserve /\ (cfg.chBlockLimit # 0 => CountHolds)
        BY <1>2, <2>1 DEF LimitInv
    <2> QED
        BY <1>2, <2>1, <2>2, UsersStep, ReserveStep, CountStep
<1> QED
    BY <1>1, <1>2 DEF LimitInv

(* chBlockLimit bounds the blocks of the stream and chReservedBlock stay   *)
(* in the heap, for every heap and every configuration, although           *)
(* chBlockCount++ is not atomic.                                           *)
THEOREM LimitAlways == Spec => []LimitRespected
<1>1. ASSUME IInv, LimitInv  PROVE LimitRespected
    <2> SUFFICES ASSUME cfg.MaxHeld = 0
                 PROVE  /\ cfg.chBlockLimit # 0 => Cardinality(Listed \cup Queued) <= cfg.chBlockLimit
                        /\ Cardinality(pool) >= Least(cfg.chReservedBlock, Cardinality(Blocks))
        BY DEF LimitRespected
    <2>1. Reserve /\ (cfg.chBlockLimit # 0 => CountHolds)
        BY <1>1 DEF LimitInv
    <2>2. /\ Cardinality(Listed \cup Queued) \in Nat
          /\ Cardinality(Listed \cup Queued) <= Cardinality(Counted)
        <3>1. IsFiniteSet(Counted) /\ Listed \cup Queued \in SUBSET Counted
            BY <1>1, CountedType DEF Counted
        <3>2. IsFiniteSet(Listed \cup Queued)
            BY <3>1, FS_Subset
        <3> QED
            BY <3>1, <3>2, FS_Subset, FS_CardinalityType
    <2>3. cfg.chBlockLimit \in 0..255 /\ chBlockCount \in 0..255 /\ Cardinality(Counted) \in Nat
        BY <1>1, CountedType, ConfigsAssumption DEF IInv, TypeOK
    <2> QED
        BY <2>1, <2>2, <2>3 DEF Reserve, CountHolds
<1> QED
    BY <1>1, Inductive, LimitInit, LimitStep, PTL DEF Spec

-----------------------------------------------------------------------------

(* The byte queue has a block, which is still its own. *)
Live == ptUsedByQueue # NULL /\ ~Retired

(* The block that is being sent, or is about to be. *)
Sending == pc \in {"lend", "start"}
Out == IF Sending THEN item ELSE ptBlock
Gone == IF Sending THEN 0 ELSE Least(hwIndex, hwSize)

(* Block b holds n bytes, the first one the byte after number k. *)
Holds(b, n, k) == \A i \in 1..n : buffer[b][i] = k + i

(* The byte queue is initialised while it has a block, until it retires,   *)
(* and retires no empty block.                                             *)
QueueInUse ==
    /\ bIsQueueInitialised /\ ~Retired => Live
    /\ Live /\ ~bIsQueueInitialised => pc = "append"
    /\ Live => qCount <= qSize /\ 1 <= qSize
    /\ Live /\ pc = "append" => qCount # 0
    /\ Live /\ pc = "flushed" => qCount = 0
    /\ pc \in {"load", "store", "adopt"} /\ item # NULL => Size[item] # 0
    /\ ptBlock # NULL => hwSize = Size[ptBlock] /\ hwIndex # 0

(* A block the user has filled waits for its turn. *)
UserBlock ==
    /\ arg # NULL => Holds(arg, Size[arg], accepted) /\ accepted + Size[arg] <= MaxBytes
    /\ accepted <= MaxBytes

(* Where the bytes of the queue begin, and those of the list. *)
QueueFrom(st) == IF Live THEN st[ptUsedByQueue] ELSE accepted
ListFrom(st) == IF list = <<>> THEN QueueFrom(st) ELSE st[list[1]]

(* Bytes sent, block being sent, list and queue follow each other. *)
QueueJoins(st) ==
    Live => /\ st[ptUsedByQueue] + qCount = accepted
            /\ \A i \in 1..qCount : buffer[ptUsedByQueue][i] = st[ptUsedByQueue] + i

ListJoins(st) ==
    /\ \A i \in 1..Len(list) :
          /\ Holds(list[i], Size[list[i]], st[list[i]])
          /\ st[list[i]] + Size[list[i]] = IF i = Len(list) THEN QueueFrom(st) ELSE st[list[i + 1]]
          /\ st[list[i]] + Size[list[i]] <= accepted

OutJoins(st) ==
    IF Out = NULL THEN Len(Sent) = ListFrom(st)
    ELSE /\ Holds(Out, Size[Out], st[Out])
         /\ st[Out] + Size[Out] = ListFrom(st)
         /\ Len(Sent) = st[Out] + Gone

Joins(st) == QueueJoins(st) /\ ListJoins(st) /\ OutJoins(st)

(* The bytes sent are the first ones accepted. *)
InOrder == \A i \in 1..Len(Sent) : Sent[i] = i

DataInv ==
    /\ QueueInUse
    /\ UserBlock
    /\ InOrder
    /\ \E st \in [Blocks -> Nat] : Joins(st)

--------------------------------------------------------------------------------
(* Which block the queue has, and which one goes out, step by step.        *)

(* What was sent depends on the wire and on the block the adapter has. *)
LEMMA SentStays == UNCHANGED <<wire, ptBlock, hwSize>> => Sent' = Sent
BY DEF Sent, Stalled

(* It is a sequence of numbers, and all of the wire without an empty block. *)
LEMMA SentType ==
    ASSUME TypeOK
    PROVE  Sent \in Seq(Nat) /\ Len(Sent) \in Nat /\ (ptBlock = NULL \/ hwSize # 0 => Sent = wire)
<1>1. wire \in Seq(Nat) /\ Len(wire) \in Nat
    BY DEF TypeOK
<1>2. SubSeq(wire, 1, Len(wire) - 1) \in Seq(Nat)
    BY <1>1
<1>3. Sent \in Seq(Nat)
    BY <1>1, <1>2 DEF Sent
<1> QED
    BY <1>3 DEF Sent, Stalled

(* Steps that leave the data alone. *)
Quiet ==
    \/ CallWrite \/ CallFlush \/ RetireFullBlock \/ NothingQueued
    \/ TriggerNeeded \/ TriggerNotNeeded \/ LendForSend
    \/ CheckHeap \/ LoadCount \/ StoreCount \/ FlushReturn \/ DrainQueueFirst
    \/ TxCancelled

(* They change no byte, no block in line and no count. *)
LEMMA QuietSteps ==
    ASSUME IInv, Quiet
    PROVE  /\ UNCHANGED <<Size, buffer, list, Sent, accepted, qCount, qSize, ptUsedByQueue,
                          arg, hwSize, hwIndex, ptBlock>>
           /\ UNCHANGED <<Live, Out, Gone>>
<1> USE SentStays DEF heap, queue, lent, adapter, Live, Retired, AppendIsLast, Out, Gone, Sending
<1>1. CASE CallWrite \/ CallFlush \/ RetireFullBlock
    BY <1>1 DEF CallWrite, CallFlush, RetireFullBlock, IInv, Control
<1>2. CASE NothingQueued \/ TriggerNeeded
    BY <1>2 DEF NothingQueued, TriggerNeeded, IInv, Control
<1>3. CASE TriggerNotNeeded
    BY <1>3 DEF TriggerNotNeeded, LeaveAppend, IInv, Control
<1>4. CASE LendForSend
    BY <1>4 DEF LendForSend
<1>5. CASE CheckHeap \/ LoadCount \/ StoreCount
    BY <1>5 DEF CheckHeap, LoadCount, StoreCount, IInv, Control
<1>6. CASE FlushReturn \/ DrainQueueFirst \/ TxCancelled
    BY <1>6 DEF FlushReturn, DrainQueueFirst, TxCancelled, IInv, Control
<1> QED
    BY <1>1, <1>2, <1>3, <1>4, <1>5, <1>6 DEF Quiet

(* What the blocks in line hold is not touched. *)
Untouched ==
    /\ \A b \in Listed \cup ({Out} \ {NULL}) : Size'[b] = Size[b] /\ buffer'[b] = buffer[b]
    /\ Live => buffer'[ptUsedByQueue] = buffer[ptUsedByQueue]

(* The numbering of the bytes stays as long as nothing in line moves. *)
LEMMA JoinsStay ==
    ASSUME TypeOK, NEW st, Joins(st), Untouched,
           UNCHANGED <<list, Sent, accepted, qCount, ptUsedByQueue, Live, Out, Gone>>
    PROVE  Joins(st)'
<1>1. UNCHANGED <<QueueFrom(st), ListFrom(st)>>
    BY DEF QueueFrom, ListFrom
<1>2. QueueJoins(st)'
    BY DEF QueueJoins, Joins, Untouched
<1>3. \A i \in 1..Len(list) : list[i] \in Listed
    BY DEF Listed
<1>4. ListJoins(st)'
    BY <1>1, <1>3 DEF ListJoins, Joins, Untouched, Holds
<1>5. OutJoins(st)'
    BY <1>1 DEF OutJoins, Joins, Untouched, Holds
<1> QED
    BY <1>2, <1>4, <1>5 DEF Joins

(* Nothing is twice in line. *)
LEMMA Apart ==
    ASSUME IInv
    PROVE  /\ Listed \subseteq Blocks /\ NULL \notin Blocks
           /\ \A i \in 1..Len(list) : list[i] \in Listed
           /\ Live => ptUsedByQueue \in Blocks \ Listed /\ ptUsedByQueue # Out
           /\ Out # NULL => Out \in Blocks \ Listed
           /\ \A b \in pool \cup OfUser : b \notin Listed /\ b # Out /\ (Live => b # ptUsedByQueue)
           /\ ~Sending /\ item # NULL =>
                 item \in Blocks /\ item \notin Listed /\ item # Out /\ (Live => item # ptUsedByQueue)
<1>1. Listed \subseteq Blocks /\ NULL \notin Blocks /\ \A i \in 1..Len(list) : list[i] \in Listed
    BY BlocksAssumption DEF IInv, TypeOK, Listed
<1>2. Live => ptUsedByQueue \in Blocks /\ Queued = {ptUsedByQueue}
    BY DEF Live, Queued, IInv, TypeOK, Ptr
<1>3. Out # NULL => Out \in Blocks /\ (IF Sending THEN InHand = {Out} ELSE Lent = {Out})
    BY DEF Out, InHand, Lent, IInv, TypeOK, Ptr
<1>4. item # NULL => item \in Blocks /\ InHand = {item}
    BY DEF InHand, IInv, TypeOK, Ptr
<1>5. NULL \notin pool \cup OfUser
    BY BlocksAssumption DEF OfUser, IInv, TypeOK
<1>6. OneOwner
    BY DEF IInv
<1>7. Live => ptUsedByQueue \notin Listed /\ ptUsedByQueue # Out
    BY <1>2, <1>3, <1>6, <1>1 DEF OneOwner
<1>8. Out # NULL => Out \notin Listed
    BY <1>3, <1>6 DEF OneOwner
<1>9. \A b \in pool \cup OfUser : b \notin Listed /\ b # Out /\ (Live => b # ptUsedByQueue)
    BY <1>2, <1>3, <1>5, <1>6 DEF OneOwner
<1>10. ~Sending /\ item # NULL =>
          item \notin Listed /\ item # Out /\ (Live => item # ptUsedByQueue)
    BY <1>2, <1>3, <1>4, <1>6 DEF OneOwner
<1> QED
    BY <1>1, <1>2, <1>3, <1>4, <1>7, <1>8, <1>9, <1>10

(* Blocks of the heap and of the user are not in line. *)
LEMMA OutsideJoins ==
    ASSUME IInv, NEW st, Joins(st), UserNew \/ NewBlock \/ CallWriteBlock
    PROVE  Joins(st)'
<1> USE DEF heap, queue, lent, adapter, Live, Retired, AppendIsLast, Out, Gone, Sending
<1>1. PICK b \in pool \cup OfUser :
          /\ \A c \in Blocks \ {b} : Size'[c] = Size[c] /\ buffer'[c] = buffer[c]
    <2>1. CASE UserNew
        BY <2>1 DEF UserNew, IInv, TypeOK
    <2>2. CASE NewBlock
        BY <2>2 DEF NewBlock, IInv, TypeOK
    <2>3. CASE CallWriteBlock
        BY <2>3 DEF CallWriteBlock, OfUser, IInv, TypeOK
    <2> QED
        BY <2>1, <2>2, <2>3
<1>2. UNCHANGED <<list, Sent, accepted, qCount, ptUsedByQueue, Live, Out, Gone>>
    <2>1. CASE UserNew
        BY <2>1, SentStays DEF UserNew
    <2>2. CASE NewBlock
        BY <2>2, SentStays DEF NewBlock, IInv, Control
    <2>3. CASE CallWriteBlock
        BY <2>3, SentStays DEF CallWriteBlock, IInv, Control
    <2> QED
        BY <2>1, <2>2, <2>3
<1> HIDE DEF Live, Out, Gone, Sending
<1>3. Untouched
    BY <1>1, Apart DEF Untouched
<1> QED
    BY <1>2, <1>3, JoinsStay DEF IInv

(* A fresh block continues where the queue before it ended. *)
LEMMA AdoptJoins ==
    ASSUME IInv, NEW st \in [Blocks -> Nat], Joins(st), Adopt
    PROVE  \E st2 \in [Blocks -> Nat] : Joins(st2)'
<1> USE DEF heap, lent, adapter
<1>0. item \in Blocks /\ accepted \in Nat
    BY DEF Adopt, IInv, TypeOK, Ptr
<1>1. PICK st2 \in [Blocks -> Nat] :
          \A b \in Blocks : st2[b] = IF b = item THEN accepted ELSE st[b]
    <2>1. [st EXCEPT ![item] = accepted] \in [Blocks -> Nat]
        BY <1>0
    <2> QED
        BY <1>0, <2>1
<1>2. pc = "adopt" /\ pc' \in {"write", "flushed", "wb"}
    BY DEF Adopt, IInv, Control, TypeOK
<1>3. /\ ~Live /\ Live' /\ ptUsedByQueue' = item
      /\ UNCHANGED <<Out, Gone>> /\ ~Sending /\ item # NULL
    BY <1>0, <1>2, BlocksAssumption DEF Adopt, Live, Retired, AppendIsLast, Out, Gone, Sending, IInv, Control
<1>4. UNCHANGED <<list, Sent, accepted, buffer, Size>> /\ qCount' = 0
    BY SentStays DEF Adopt
<1>5. item \notin Listed /\ item # Out /\ \A i \in 1..Len(list) : list[i] \in Listed /\ list[i] \in Blocks
    BY <1>3, Apart
<1>6. QueueFrom(st) = accepted /\ QueueFrom(st2)' = accepted
    BY <1>0, <1>1, <1>3, <1>4 DEF QueueFrom
<1>7. ListFrom(st2)' = ListFrom(st)
    <2>1. list # <<>> => 1 \in 1..Len(list)
        BY DEF IInv, TypeOK
    <2> QED
        BY <1>1, <1>4, <1>5, <1>6, <2>1 DEF ListFrom
<1>8. QueueJoins(st2)'
    BY <1>0, <1>1, <1>3, <1>4 DEF QueueJoins
<1>9. ListJoins(st2)'
    <2> SUFFICES ASSUME NEW i \in 1..Len(list)
                 PROVE  /\ Holds(list[i], Size[list[i]], st[list[i]])
                        /\ st2[list[i]] = st[list[i]]
                        /\ st2[list[i]] + Size[list[i]] = IF i = Len(list) THEN accepted ELSE st2[list[i + 1]]
                        /\ st2[list[i]] + Size[list[i]] <= accepted
        BY <1>4, <1>6 DEF ListJoins, Holds
    <2>1. i # Len(list) => i + 1 \in 1..Len(list)
        BY DEF IInv, TypeOK
    <2>2. st2[list[i]] = st[list[i]] /\ (i # Len(list) => st2[list[i + 1]] = st[list[i + 1]])
        BY <1>1, <1>5, <2>1
    <2> QED
        BY <1>6, <2>2 DEF Joins, ListJoins
<1>10. OutJoins(st2)'
    <2>1. Out # NULL => st2[Out] = st[Out]
        BY <1>1, <1>5, Apart
    <2> QED
        BY <1>3, <1>4, <1>7, <2>1 DEF Joins, OutJoins, Holds
<1> QED
    BY <1>1, <1>8, <1>9, <1>10 DEF Joins

(* Without a block the queue stays without one. *)
LEMMA NoBlockJoins ==
    ASSUME IInv, NEW st, Joins(st), NoBlockToAdopt
    PROVE  Joins(st)'
<1>1. pc = "adopt" /\ pc' \in {"idle", "flushed", "wb"}
    BY DEF NoBlockToAdopt, IInv, Control, TypeOK
<1>2. ~Live /\ ~Live'
    BY <1>1 DEF NoBlockToAdopt, Live, Retired, AppendIsLast, IInv, Control
<1>3. UNCHANGED <<Out, Gone>>
    BY <1>1 DEF NoBlockToAdopt, Out, Gone, Sending, adapter
<1>4. UNCHANGED <<list, Sent, accepted, qCount, Size, buffer>>
    BY SentStays DEF NoBlockToAdopt, heap, adapter
<1>5. UNCHANGED <<QueueFrom(st), ListFrom(st)>>
    BY <1>2, <1>4 DEF QueueFrom, ListFrom
<1>6. QueueJoins(st)'
    BY <1>2 DEF QueueJoins
<1>7. ListJoins(st)' /\ OutJoins(st)'
    BY <1>3, <1>4, <1>5 DEF Joins, ListJoins, OutJoins, Holds
<1> QED
    BY <1>6, <1>7 DEF Joins

(* The bytes written become the last ones of the queue. *)
LEMMA EnqueueJoins ==
    ASSUME IInv, QueueInUse, NEW st \in [Blocks -> Nat], Joins(st), EnqueueBytes
    PROVE  Joins(st)'
<1> DEFINE q == ptUsedByQueue
<1>1. PICK n \in 1..Least(qSize - qCount, MaxBytes - accepted) :
          /\ qCount' = qCount + n
          /\ accepted' = accepted + n
          /\ buffer' = [buffer EXCEPT ![q] =
                [i \in 1..BlockSize |-> IF i \in qCount+1 .. qCount+n
                                        THEN accepted + i - qCount ELSE @[i]]]
    BY DEF EnqueueBytes
<1>2. pc = "write" /\ pc' = "idle" /\ UNCHANGED <<list, Size, Sent, ptUsedByQueue>>
    BY SentStays DEF EnqueueBytes, adapter
<1>3. Live /\ Live' /\ UNCHANGED <<Out, Gone>>
    BY <1>2 DEF EnqueueBytes, QueueInUse, Live, Retired, Out, Gone, Sending, adapter
<1>4. q \in Blocks /\ q \notin Listed /\ q # Out /\ (Out # NULL => Out \in Blocks)
      /\ Listed \subseteq Blocks /\ \A i \in 1..Len(list) : list[i] \in Listed
    BY <1>3, Apart
<1>a. qCount' = qCount + n /\ accepted' = accepted + n
    BY <1>1
<1>b. buffer' = [buffer EXCEPT ![q] =
                [i \in 1..BlockSize |-> IF i \in qCount+1 .. qCount+n
                                        THEN accepted + i - qCount ELSE @[i]]]
    BY <1>1
<1>5. qCount \in Nat /\ qSize \in 0..BlockSize /\ accepted \in Nat /\ BlockSize \in Nat
      /\ MaxBytes \in Nat /\ st[q] \in Nat /\ buffer \in [Blocks -> [1..BlockSize -> Nat]]
    BY <1>4, SizeAssumption DEF IInv, TypeOK
<1>c. qCount \in Nat /\ st[q] \in Nat /\ accepted \in Nat
    BY <1>5
<1>6. n \in Nat /\ qCount + n <= qSize
    BY <1>5, <1>1 DEF Least
<1>7. st[q] + qCount = accepted /\ \A i \in 1..qCount : buffer[q][i] = st[q] + i
    BY <1>3 DEF Joins, QueueJoins
<1>8. \A i \in 1..BlockSize : buffer'[q][i] = IF i \in qCount+1 .. qCount+n
                                              THEN accepted + i - qCount ELSE buffer[q][i]
    BY <1>b, <1>4, <1>5
<1>9. \A b \in Blocks \ {q} : buffer'[b] = buffer[b]
    BY <1>b, <1>5
<1>10. QueueJoins(st)'
    <2>1. st[q] + qCount' = accepted'
        BY <1>a, <1>c, <1>6, <1>7
    <2>2. ASSUME NEW i \in 1..qCount'  PROVE buffer'[q][i] = st[q] + i
        <3>1. i \in 1..BlockSize
            BY <1>a, <1>5, <1>6
        <3>2. CASE i \in 1..qCount
            <4>1. i \notin qCount+1 .. qCount+n
                BY <1>c, <3>2
            <4> QED
                BY <1>7, <1>8, <3>1, <3>2, <4>1
        <3>3. CASE i \in qCount+1 .. qCount+n
            <4>1. buffer'[q][i] = accepted + i - qCount
                BY <1>8, <3>1, <3>3
            <4>2. i \in Nat
                BY <1>5, <3>1
            <4>3. \A a, k, c \in Nat : k + c = a => a + i - c = k + i
                BY <4>2
            <4> QED
                BY <4>1, <4>3, <1>c, <1>7
        <3> QED
            BY <1>a, <1>5, <1>6, <3>2, <3>3
    <2> QED
        BY <1>2, <2>1, <2>2 DEF QueueJoins
<1>11. UNCHANGED <<QueueFrom(st), ListFrom(st)>>
    BY <1>2, <1>3 DEF QueueFrom, ListFrom
<1>12. ListJoins(st)'
    <2> SUFFICES ASSUME NEW i \in 1..Len(list)
                 PROVE  /\ Holds(list[i], Size[list[i]], st[list[i]])'
                        /\ st[list[i]] + Size[list[i]] =
                              IF i = Len(list) THEN QueueFrom(st) ELSE st[list[i + 1]]
                        /\ st[list[i]] + Size[list[i]] <= accepted + n
        BY <1>2, <1>11, <1>a DEF ListJoins
    <2>1. buffer'[list[i]] = buffer[list[i]]
        BY <1>4, <1>9
    <2>0. list[i] \in Blocks
        BY <1>4
    <2>2. st[list[i]] \in Nat /\ Size[list[i]] \in Nat
        BY <2>0, SizeAssumption DEF IInv, TypeOK
    <2>3. st[list[i]] + Size[list[i]] <= accepted
        BY DEF Joins, ListJoins
    <2>4. st[list[i]] + Size[list[i]] <= accepted + n
        BY <2>2, <2>3, <1>c, <1>6
    <2> QED
        BY <1>2, <2>1, <2>4 DEF Joins, ListJoins, Holds
<1>13. OutJoins(st)'
    BY <1>2, <1>3, <1>4, <1>9, <1>11 DEF Joins, OutJoins, Holds
<1> QED
    BY <1>10, <1>12, <1>13 DEF Joins

--------------------------------------------------------------------------------
(* How the list joins when it grows and when it loses its first block.     *)

(* BLOCK_QUEUE.Enqueue of a block that begins where the list ends. *)
LEMMA ListGrows ==
    ASSUME IInv, NEW st \in [Blocks -> Nat], NEW st2 \in [Blocks -> Nat], ListJoins(st),
           NEW b \in Blocks, b \notin Listed, list' = Append(list, b),
           \A c \in Listed : Size'[c] = Size[c] /\ buffer'[c] = buffer[c] /\ st2[c] = st[c],
           Holds(b, Size[b], st2[b])',
           st2[b] = QueueFrom(st), QueueFrom(st2)' = st2[b] + Size'[b],
           NEW n2 \in Nat, accepted' = accepted + n2, QueueFrom(st2)' <= accepted'
    PROVE  ListJoins(st2)' /\ ListFrom(st2)' = ListFrom(st)
<1> DEFINE n == Len(list)
<1>1. /\ n \in Nat /\ Len(list') = n + 1 /\ list'[n + 1] = b /\ list' # <<>>
      /\ \A i \in 1..n : list'[i] = list[i] /\ list[i] \in Listed
      /\ n # 0 => list # <<>> /\ list'[1] = list[1] /\ list[1] \in Listed
      /\ n = 0 => list = <<>>
    <2>1. list \in Seq(Blocks) /\ \A i \in 1..n : list[i] \in Listed
        BY Apart DEF IInv, TypeOK
    <2>2. /\ n \in Nat /\ Len(list') = n + 1 /\ list'[n + 1] = b
          /\ \A i \in 1..n : list'[i] = list[i]
        BY <2>1
    <2>3. n # 0 => 1 \in 1..n /\ list # <<>>
        BY <2>1
    <2>4. n = 0 => list = <<>>
        BY <2>1
    <2>5. list' # <<>>
        BY <2>1, <2>2
    <2> QED
        BY <2>1, <2>2, <2>3, <2>4, <2>5
<1>2. ListFrom(st2)' = ListFrom(st)
    <2>1. CASE n = 0
        BY <1>1, <2>1 DEF ListFrom
    <2>2. CASE n # 0
        BY <1>1, <2>2 DEF ListFrom
    <2> QED
        BY <2>1, <2>2
<1>3. ASSUME NEW i \in 1..n + 1
      PROVE  /\ Holds(list[i], Size[list[i]], st2[list[i]])'
             /\ st2[list'[i]] + Size'[list'[i]] = IF i = n + 1 THEN QueueFrom(st2)' ELSE st2[list'[i + 1]]
             /\ st2[list'[i]] + Size'[list'[i]] <= accepted'
    <2>1. CASE i = n + 1
        BY <1>1, <2>1
    <2>2. CASE i \in 1..n
        <3>1. list'[i] = list[i] /\ list[i] \in Listed
            BY <1>1, <2>2
        <3>2. Holds(list[i], Size[list[i]], st2[list[i]])'
            <4>1. Holds(list[i], Size[list[i]], st[list[i]])
                BY <2>2 DEF ListJoins
            <4>2. /\ Size'[list[i]] = Size[list[i]] /\ buffer'[list[i]] = buffer[list[i]]
                  /\ st2[list[i]] = st[list[i]]
                BY <3>1
            <4> QED
                BY <3>1, <4>1, <4>2 DEF Holds
        <3>3. /\ st2[list'[i]] + Size'[list'[i]] = IF i = n THEN QueueFrom(st) ELSE st[list[i + 1]]
              /\ st2[list'[i]] + Size'[list'[i]] <= accepted
            BY <2>2, <3>1 DEF ListJoins
        <3>5. st2[list'[i]] + Size'[list'[i]] <= accepted'
            <4>0. list[i] \in Blocks
                BY <3>1, Apart
            <4>1. accepted \in Nat /\ st[list[i]] \in Nat /\ Size[list[i]] \in Nat
                BY <4>0, SizeAssumption DEF IInv, TypeOK
            <4>2. st2[list'[i]] = st[list[i]] /\ Size'[list'[i]] = Size[list[i]]
                BY <3>1
            <4>3. PICK k \in Nat, m \in Nat : k = st2[list'[i]] /\ m = Size'[list'[i]]
                BY <4>1, <4>2
            <4>4. k + m <= accepted
                BY <3>3, <4>3
            <4>5. k + m <= accepted + n2
                BY <4>1, <4>4
            <4> QED
                BY <4>3, <4>5
        <3>4. st2[list'[i + 1]] = IF i = n THEN QueueFrom(st) ELSE st[list[i + 1]]
            <4>1. CASE i = n
                BY <1>1, <4>1
            <4>2. CASE i # n
                <5>1. i + 1 \in 1..n
                    BY <1>1, <2>2, <4>2
                <5> QED
                    BY <1>1, <4>2, <5>1
            <4> QED
                BY <4>1, <4>2
        <3> QED
            BY <1>1, <2>2, <3>2, <3>3, <3>4, <3>5
    <2> QED
        BY <1>1, <2>1, <2>2
<1> QED
    BY <1>1, <1>2, <1>3 DEF ListJoins

(* BLOCK_QUEUE.Dequeue of the first block. *)
LEMMA ListPops ==
    ASSUME IInv, NEW st \in [Blocks -> Nat], ListJoins(st), list # <<>>, list' = Rest(list),
           \A c \in Listed : Size'[c] = Size[c] /\ buffer'[c] = buffer[c],
           QueueFrom(st)' = QueueFrom(st), accepted' = accepted
    PROVE  /\ ListJoins(st)' /\ First(list) \in Listed
           /\ Holds(First(list), Size[First(list)], st[First(list)])
           /\ ListFrom(st)' = st[First(list)] + Size[First(list)]
           /\ ListFrom(st) = st[First(list)]
<1> DEFINE n == Len(list)
<1>1. /\ n \in Nat \ {0} /\ Len(list') = n - 1 /\ First(list) = list[1]
      /\ \A i \in 1..n - 1 : list'[i] = list[i + 1]
      /\ n = 1 => list' = <<>>
      /\ n # 1 => list' # <<>> /\ list'[1] = list[2]
    <2>1. list \in Seq(Blocks) /\ list' = Tail(list) /\ First(list) = Head(list)
        BY DEF Rest, First, IInv, TypeOK
    <2>2. /\ n \in Nat \ {0} /\ Len(list') = n - 1 /\ First(list) = list[1]
          /\ \A i \in 1..n - 1 : list'[i] = list[i + 1]
        BY <2>1
    <2>3. n = 1 => list' = <<>>
        BY <2>1
    <2>4. ASSUME n # 1  PROVE list' # <<>> /\ list'[1] = list[2]
        <3>1. 1 \in 1..n - 1 /\ 1 + 1 = 2
            BY <2>2, <2>4
        <3>2. list'[1] = list[1 + 1]
            BY <2>2, <3>1
        <3>3. Len(list') # 0
            BY <2>2, <2>4
        <3>4. list' # <<>>
            BY <3>3
        <3> QED
            BY <3>2, <3>4
    <2> QED
        BY <2>1, <2>2, <2>3, <2>4
<1>2. \A i \in 1..n : list[i] \in Listed
    BY DEF Listed
<1>3. /\ Holds(list[1], Size[list[1]], st[list[1]])
      /\ st[list[1]] + Size[list[1]] = IF n = 1 THEN QueueFrom(st) ELSE st[list[2]]
    BY <1>1 DEF ListJoins
<1>4. ListFrom(st)' = st[list[1]] + Size[list[1]] /\ ListFrom(st) = st[list[1]]
    BY <1>1, <1>3 DEF ListFrom
<1>5. ASSUME NEW i \in 1..n - 1
      PROVE  /\ Holds(list[i], Size[list[i]], st[list[i]])'
             /\ st[list'[i]] + Size'[list'[i]] = IF i = n - 1 THEN QueueFrom(st)' ELSE st[list'[i + 1]]
             /\ st[list'[i]] + Size'[list'[i]] <= accepted'
    <2>1. i + 1 \in 1..n /\ list'[i] = list[i + 1] /\ list[i + 1] \in Listed
        BY <1>1, <1>2
    <2>2. Holds(list[i], Size[list[i]], st[list[i]])'
        <3>1. Holds(list[i + 1], Size[list[i + 1]], st[list[i + 1]])
            BY <2>1 DEF ListJoins
        <3>2. Size'[list[i + 1]] = Size[list[i + 1]] /\ buffer'[list[i + 1]] = buffer[list[i + 1]]
            BY <2>1
        <3> QED
            BY <2>1, <3>1, <3>2 DEF Holds
    <2>3. /\ st[list'[i]] + Size'[list'[i]] = IF i + 1 = n THEN QueueFrom(st) ELSE st[list[(i + 1) + 1]]
          /\ st[list'[i]] + Size'[list'[i]] <= accepted
        BY <2>1 DEF ListJoins
    <2>4. i # n - 1 => list'[i + 1] = list[(i + 1) + 1]
        BY <1>1
    <2> QED
        BY <1>1, <2>2, <2>3, <2>4
<1> QED
    BY <1>1, <1>2, <1>3, <1>4, <1>5 DEF ListJoins

(* The full or flushed block of the queue goes to the end of the list. *)
LEMMA AppendQueuedJoins ==
    ASSUME IInv, QueueInUse, NEW st \in [Blocks -> Nat], Joins(st), AppendQueued
    PROVE  Joins(st)'
<1> DEFINE q == ptUsedByQueue
<1>1. /\ pc = "append" /\ pc' = "trigger" /\ list' = Append(list, q)
      /\ Size' = [Size EXCEPT ![q] = Least(qCount, BlockSize)]
      /\ UNCHANGED <<buffer, Sent, accepted, qCount, ptUsedByQueue>>
    BY SentStays DEF AppendQueued, AppendBlock, queue, adapter
<1>2. Live /\ ~Live' /\ UNCHANGED <<Out, Gone>>
    BY <1>1 DEF AppendQueued, AppendBlock, Live, Retired, AppendIsLast, Out, Gone, Sending,
                adapter, IInv, Control
<1>3. q \in Blocks /\ q \notin Listed /\ q # Out /\ (Out # NULL => Out \in Blocks)
      /\ Listed \subseteq Blocks
    BY <1>2, Apart
<1>4. qCount \in Nat /\ qSize \in 0..BlockSize /\ BlockSize \in Nat /\ qCount # 0 /\ qCount <= qSize
    BY <1>1, <1>2, SizeAssumption DEF QueueInUse, IInv, TypeOK
<1>5. Least(qCount, BlockSize) = qCount
    BY <1>4 DEF Least
<1>6. Size'[q] = qCount /\ \A b \in Blocks \ {q} : Size'[b] = Size[b]
    BY <1>1, <1>3, <1>5 DEF IInv, TypeOK
<1>7. st[q] + qCount = accepted /\ \A i \in 1..qCount : buffer[q][i] = st[q] + i
    BY <1>2 DEF Joins, QueueJoins
<1>8. QueueFrom(st) = st[q] /\ QueueFrom(st)' = accepted
    BY <1>1, <1>2 DEF QueueFrom
<1>9. Holds(q, Size[q], st[q])'
    BY <1>1, <1>4, <1>6, <1>7 DEF Holds
<1>10. ListJoins(st)' /\ ListFrom(st)' = ListFrom(st)
    <2>1. \A c \in Listed : Size'[c] = Size[c] /\ buffer'[c] = buffer[c] /\ st[c] = st[c]
        BY <1>1, <1>3, <1>6
    <2>2. QueueFrom(st)' = st[q] + Size'[q]
        BY <1>6, <1>7, <1>8
    <2>3. Holds(q, Size[q], st[q])' <=> Holds(ptUsedByQueue, Size[ptUsedByQueue], st[ptUsedByQueue])'
        OBVIOUS
    <2>4. PICK b \in Blocks : b = q
        BY <1>3
    <2>5. Holds(b, Size[b], st[b])'
        BY <1>1, <1>9, <2>4
    <2> QED
        <3>1. accepted' = accepted + 0 /\ QueueFrom(st)' <= accepted'
            BY <1>1, <1>8 DEF IInv, TypeOK
        <3> QED
            BY <1>1, <1>3, <1>8, <2>1, <2>2, <2>4, <2>5, <3>1, ListGrows DEF Joins
<1>11. QueueJoins(st)'
    BY <1>2 DEF QueueJoins
<1>12. OutJoins(st)'
    <2>1. Out # NULL => Size'[Out] = Size[Out] /\ buffer'[Out] = buffer[Out]
        BY <1>1, <1>3, <1>6
    <2> QED
        BY <1>1, <1>2, <1>10, <2>1 DEF Joins, OutJoins, Holds
<1> QED
    BY <1>10, <1>11, <1>12 DEF Joins

(* So does the block of the user, once the queue holds no byte. *)
LEMMA AppendUserJoins ==
    ASSUME IInv, UserBlock, NEW st \in [Blocks -> Nat], Joins(st), AppendUserBlock
    PROVE  \E st2 \in [Blocks -> Nat] : Joins(st2)'
<1> DEFINE q == ptUsedByQueue
           n == Size[arg]
<1>1. /\ pc = "wb" /\ pc' = "trigger" /\ qCount = 0 /\ list' = Append(list, arg)
      /\ accepted' = accepted + n /\ op = "WriteBlock" /\ op' = op /\ arg' = NULL
      /\ UNCHANGED <<buffer, Size, Sent, qCount, ptUsedByQueue>>
    BY SentStays DEF AppendUserBlock, AppendBlock, queue, heap, adapter, IInv, Control
<1>2. Live' = Live /\ UNCHANGED <<Out, Gone>>
    BY <1>1 DEF AppendUserBlock, Live, Retired, AppendIsLast, Out, Gone, Sending, adapter
<1>3. arg \in Blocks /\ arg \in OfUser /\ accepted \in Nat /\ n \in Nat
    BY SizeAssumption DEF AppendUserBlock, IInv, Control, TypeOK, Ptr, OfUser
<1>4. /\ arg \notin Listed /\ arg # Out /\ (Live => arg # q)
      /\ Live => q \in Blocks \ Listed /\ q # Out
      /\ Out # NULL => Out \in Blocks
      /\ Listed \subseteq Blocks
    BY <1>3, Apart
<1>5. PICK b \in Blocks : b = arg
    BY <1>3
<1>6. PICK st2 \in [Blocks -> Nat] :
          \A c \in Blocks : st2[c] = IF c = arg THEN accepted
                                     ELSE IF Live /\ c = q THEN accepted + n ELSE st[c]
    <2>1. [c \in Blocks |-> IF c = arg THEN accepted ELSE IF Live /\ c = q THEN accepted + n ELSE st[c]]
              \in [Blocks -> Nat]
        BY <1>3
    <2> QED
        BY <2>1
<1>7. st2[arg] = accepted /\ (Live => st2[q] = accepted + n)
      /\ (\A c \in Listed : st2[c] = st[c]) /\ (Out # NULL => st2[Out] = st[Out])
    BY <1>3, <1>4, <1>6
<1>8. Live => st[q] = accepted
    <2>1. Live => st[q] \in Nat /\ st[q] + qCount = accepted
        BY <1>4 DEF Joins, QueueJoins
    <2> QED
        BY <1>1, <2>1
<1>9. QueueFrom(st) = accepted /\ QueueFrom(st2)' = accepted + n
    BY <1>1, <1>2, <1>7, <1>8 DEF QueueFrom
<1>10. ListJoins(st2)' /\ ListFrom(st2)' = ListFrom(st)
    <2>1. Holds(b, Size[b], st2[b])'
        BY <1>1, <1>3, <1>5, <1>7 DEF UserBlock, Holds, IInv, Control
    <2>2. QueueFrom(st2)' = st2[b] + Size'[b] /\ st2[b] = QueueFrom(st) /\ list' = Append(list, b)
        BY <1>1, <1>5, <1>7, <1>9
    <2>3. \A c \in Listed : Size'[c] = Size[c] /\ buffer'[c] = buffer[c] /\ st2[c] = st[c]
        BY <1>1, <1>7
    <2>4. accepted' = accepted + n /\ QueueFrom(st2)' <= accepted'
        BY <1>1, <1>3, <1>9
    <2> QED
        BY <1>3, <1>4, <1>5, <2>1, <2>2, <2>3, <2>4, ListGrows DEF Joins
<1>11. QueueJoins(st2)'
    BY <1>1, <1>2, <1>3, <1>7 DEF QueueJoins
<1>12. OutJoins(st2)'
    BY <1>1, <1>2, <1>7, <1>10 DEF Joins, OutJoins, Holds
<1> QED
    BY <1>10, <1>11, <1>12 DEF Joins

--------------------------------------------------------------------------------
(* The steps that send.                                                    *)

(* Nothing is sent but the next byte. *)
SentGrows == Sent' = Sent \/ Sent' = Append(Sent, Len(Sent) + 1)

(* The order is kept by a step that puts only the next byte. *)
LEMMA PutNext ==
    ASSUME Sent \in Seq(Nat), InOrder, SentGrows
    PROVE  InOrder'
<1>1. CASE Sent' = Sent
    BY <1>1 DEF InOrder
<1>2. CASE Sent' = Append(Sent, Len(Sent) + 1)
    <2>1. /\ Len(Sent) \in Nat /\ Len(Sent') = Len(Sent) + 1
          /\ Sent'[Len(Sent) + 1] = Len(Sent) + 1
          /\ \A i \in 1..Len(Sent) : Sent'[i] = Sent[i]
        BY <1>2
    <2>2. ASSUME NEW i \in 1..Len(Sent')  PROVE Sent'[i] = i
        <3>1. i \in 1..Len(Sent) \/ i = Len(Sent) + 1
            BY <2>1
        <3> QED
            BY <2>1, <3>1 DEF InOrder
    <2> QED
        BY <2>2 DEF InOrder
<1> QED
    BY <1>1, <1>2 DEF SentGrows

(* The first byte of a block is the next one; that of an empty block does  *)
(* not count.                                                              *)
LEMMA PutFirst ==
    ASSUME TypeOK, NEW b \in Blocks, b # NULL, Sent = wire, Holds(b, Size[b], Len(Sent)), StartSending(b)
    PROVE  SentGrows /\ Len(Sent') = Len(Sent) + Least(1, Size[b])
<1>1. Size[b] \in Nat /\ wire \in Seq(Nat) /\ Len(wire) \in Nat /\ buffer[b][1] \in Nat
    <2>1. Size[b] \in 0..BlockSize /\ buffer[b] \in [1..BlockSize -> Nat] /\ 1 \in 1..BlockSize
        BY SizeAssumption DEF TypeOK
    <2>2. wire \in Seq(Nat) /\ Len(wire) \in Nat
        BY DEF TypeOK
    <2> QED
        BY <2>1, <2>2, SizeAssumption
<1>2. wire' = Append(wire, buffer[b][1]) /\ (Stalled' <=> Size[b] = 0)
    BY DEF StartSending, Stalled
<1>3. CASE Size[b] = 0
    <2>1. PICK x \in Nat : x = buffer[b][1]
        BY <1>1
    <2>2. PICK w \in Seq(Nat) : w = wire
        BY <1>1
    <2>3. SubSeq(Append(w, x), 1, Len(Append(w, x)) - 1) = w
        <3>0. Append(w, x) \in Seq(Nat)
            OBVIOUS
        <3>1. PICK u \in Seq(Nat) : u = Append(w, x)
            BY <3>0
        <3>2. Len(u) = Len(w) + 1 /\ Len(w) \in Nat /\ \A i \in 1..Len(w) : u[i] = w[i]
            BY <3>1
        <3>3. Len(u) - 1 = Len(w)
            BY <3>2
        <3>4. /\ SubSeq(u, 1, Len(w)) \in Seq(Nat) /\ Len(SubSeq(u, 1, Len(w))) = Len(w)
              /\ \A i \in 1..Len(w) : SubSeq(u, 1, Len(w))[i] = w[i]
            BY <3>2, SubSeqProperties
        <3>5. SubSeq(u, 1, Len(w)) = w
            BY <3>4, SeqEqual
        <3> QED
            BY <3>1, <3>3, <3>5
    <2>4. Sent' = Sent
        BY <1>2, <1>3, <2>1, <2>2, <2>3 DEF Sent
    <2> QED
        BY <1>1, <1>3, <2>4 DEF SentGrows, Least
<1>4. CASE Size[b] # 0
    <2>1. 1 \in 1..Size[b] /\ Least(1, Size[b]) = 1
        BY <1>1, <1>4 DEF Least
    <2>2. buffer[b][1] = Len(Sent) + 1
        BY <2>1 DEF Holds
    <2>3. Sent' = Append(Sent, Len(Sent) + 1)
        BY <1>2, <1>4, <2>2 DEF Sent
    <2> QED
        BY <1>1, <2>1, <2>3 DEF SentGrows
<1> QED
    BY <1>3, <1>4

(* Queue and list join on as long as nothing moves in them. *)
LEMMA LineStays ==
    ASSUME TypeOK, NEW st, QueueJoins(st), ListJoins(st),
           UNCHANGED <<list, accepted, qCount, ptUsedByQueue, Live>>,
           \A c \in Listed : Size'[c] = Size[c] /\ buffer'[c] = buffer[c],
           Live => buffer'[ptUsedByQueue] = buffer[ptUsedByQueue]
    PROVE  QueueJoins(st)' /\ ListJoins(st)' /\ UNCHANGED <<QueueFrom(st), ListFrom(st)>>
<1>1. UNCHANGED <<QueueFrom(st), ListFrom(st)>>
    BY DEF QueueFrom, ListFrom
<1>2. QueueJoins(st)'
    BY DEF QueueJoins
<1>3. \A i \in 1..Len(list) : list[i] \in Listed
    BY DEF Listed
<1>4. ASSUME NEW i \in 1..Len(list)
      PROVE  /\ Holds(list[i], Size[list[i]], st[list[i]])'
             /\ st[list[i]] + Size'[list[i]] = IF i = Len(list) THEN QueueFrom(st) ELSE st[list[i + 1]]
             /\ st[list[i]] + Size'[list[i]] <= accepted
    BY <1>3 DEF ListJoins, Holds
<1> QED
    BY <1>1, <1>2, <1>4 DEF ListJoins

(* The first block of the list is taken out to be sent. *)
LEMMA DequeueJoins ==
    ASSUME IInv, NEW st \in [Blocks -> Nat], Joins(st), DequeueForSend
    PROVE  Joins(st)' /\ Sent' = Sent
<1>1. /\ pc = "dequeue" /\ pc' = "lend" /\ item' = First(list) /\ list' = Rest(list)
      /\ UNCHANGED <<Sent, accepted, qCount, ptUsedByQueue>>
    BY SentStays DEF DequeueForSend, queue, adapter
<1>2. ptBlock = NULL
    BY <1>1 DEF IInv, Port
<1>3. Size' = Size /\ buffer' = buffer
    BY <1>2, BlocksAssumption DEF DequeueForSend, GiveBack, IInv, TypeOK
<1>4. Live' = Live /\ Out = NULL /\ Out' = First(list) /\ Gone' = 0
    BY <1>1, <1>2 DEF DequeueForSend, Live, Retired, AppendIsLast, Out, Gone, Sending
<1>5. QueueFrom(st)' = QueueFrom(st) /\ QueueJoins(st)'
    BY <1>1, <1>3, <1>4 DEF QueueFrom, QueueJoins, Joins
<1>6. Len(Sent) = ListFrom(st)
    BY <1>4 DEF Joins, OutJoins
<1>7. CASE list = <<>>
    <2>1. list' = list /\ First(list) = NULL
        BY <1>1, <1>7 DEF First, Rest
    <2>2. ListFrom(st)' = ListFrom(st)
        BY <1>5, <1>7, <2>1 DEF ListFrom
    <2>3. ListJoins(st)'
        BY <1>1, <1>3, <1>5, <2>1 DEF Joins, ListJoins, Holds
    <2> QED
        BY <1>1, <1>4, <1>5, <1>6, <2>1, <2>2, <2>3 DEF Joins, OutJoins
<1>8. CASE list # <<>>
    <2>1. /\ ListJoins(st)' /\ First(list) \in Listed
          /\ Holds(First(list), Size[First(list)], st[First(list)])
          /\ ListFrom(st)' = st[First(list)] + Size[First(list)]
          /\ ListFrom(st) = st[First(list)]
        BY <1>1, <1>3, <1>5, <1>8, ListPops DEF Joins
    <2>2. First(list) \in Blocks /\ First(list) # NULL /\ st[First(list)] \in Nat
        BY <2>1, Apart
    <2>3. OutJoins(st)'
        BY <1>1, <1>3, <1>4, <1>6, <2>1, <2>2 DEF OutJoins, Holds
    <2> QED
        BY <1>1, <1>5, <2>1, <2>3 DEF Joins
<1> QED
    BY <1>7, <1>8

(* Its first byte goes out. *)
LEMMA StartJoins ==
    ASSUME IInv, NEW st \in [Blocks -> Nat], Joins(st), StartTransmit
    PROVE  Joins(st)' /\ SentGrows
<1>1. /\ pc = "start" /\ pc' \in {"idle", "check"} /\ StartSending(item)
      /\ UNCHANGED <<Size, buffer, list, accepted, qCount, ptUsedByQueue>>
    BY DEF StartTransmit, LeaveAppend, queue, heap
<1>2. Live' = Live
    BY DEF StartTransmit, LeaveAppend, Live, Retired, AppendIsLast, queue
<1>3. Out = item /\ Gone = 0 /\ Out' = item
    BY <1>1 DEF Out, Gone, Sending, StartSending
<1>4. QueueJoins(st)' /\ ListJoins(st)' /\ UNCHANGED <<QueueFrom(st), ListFrom(st)>>
    BY <1>1, <1>2, LineStays DEF IInv, Joins
<1>0. ptBlock = NULL /\ Sent = wire
    BY <1>1, SentType DEF IInv, Port
<1>5. CASE item = NULL
    <2>1. Sent' = Sent
        BY <1>0, <1>1, <1>5, SentStays DEF StartSending
    <2> QED
        BY <1>1, <1>3, <1>4, <1>5, <2>1 DEF Joins, OutJoins, SentGrows
<1>6. CASE item # NULL
    <2>1. item \in Blocks /\ st[item] \in Nat
        BY <1>6 DEF IInv, TypeOK, Ptr
    <2>2. Holds(item, Size[item], st[item]) /\ st[item] + Size[item] = ListFrom(st) /\ Len(Sent) = st[item]
        BY <1>3, <1>6, <2>1 DEF Joins, OutJoins
    <2>3. SentGrows /\ Len(Sent') = st[item] + Least(1, Size[item])
        BY <1>0, <1>1, <1>6, <2>1, <2>2, PutFirst DEF IInv
    <2>4. Gone' = Least(1, Size[item])
        BY <1>1, <1>6 DEF Gone, Sending, StartSending
    <2>5. OutJoins(st)'
        BY <1>1, <1>3, <1>4, <1>6, <2>2, <2>3, <2>4 DEF OutJoins, Holds
    <2> QED
        BY <1>4, <2>3, <2>5 DEF Joins
<1> QED
    BY <1>5, <1>6

(* While the port is busy the main thread starts no transmission. *)
LEMMA PortBusy ==
    ASSUME IInv, uartBusy
    PROVE  ptBlock \in Blocks /\ ~Sending /\ Out = ptBlock /\ Gone = Least(hwIndex, hwSize)
BY DEF IInv, Port, TypeOK, Ptr, Sending, Out, Gone

(* The handler sends the next byte of the block. *)
LEMMA NextByteJoins ==
    ASSUME IInv, QueueInUse, NEW st \in [Blocks -> Nat], Joins(st), TxNextByte
    PROVE  Joins(st)' /\ SentGrows
<1> DEFINE b == ptBlock
<1>1. ptBlock \in Blocks /\ ~Sending /\ Out = ptBlock /\ Gone = Least(hwIndex, hwSize)
    BY PortBusy DEF TxNextByte
<1>2. /\ hwIndex < hwSize /\ wire' = Append(wire, buffer[b][hwIndex + 1]) /\ hwIndex' = hwIndex + 1
      /\ UNCHANGED <<Size, buffer, list, accepted, qCount, ptUsedByQueue, pc, ptBlock, hwSize>>
    BY DEF TxNextByte, heap, queue
<1>3. Live' = Live /\ Out' = b /\ Gone' = Least(hwIndex + 1, hwSize)
    BY <1>1, <1>2 DEF TxNextByte, Live, Retired, AppendIsLast, Sending, Out, Gone
<1>4. QueueJoins(st)' /\ ListJoins(st)' /\ UNCHANGED <<QueueFrom(st), ListFrom(st)>>
    BY <1>2, <1>3, LineStays DEF IInv, Joins
<1>5. b # NULL /\ hwSize = Size[b]
    BY <1>1, BlocksAssumption DEF QueueInUse
<1>6. hwIndex \in Nat /\ hwSize \in Nat /\ st[b] \in Nat
    BY <1>1, SizeAssumption DEF IInv, TypeOK
<1>7. Least(hwIndex, hwSize) = hwIndex /\ Least(hwIndex + 1, hwSize) = hwIndex + 1
      /\ hwIndex + 1 \in 1..hwSize
    BY <1>2, <1>6 DEF Least
<1>8. /\ Holds(b, hwSize, st[b]) /\ st[b] + hwSize = ListFrom(st) /\ Len(Sent) = st[b] + hwIndex
    BY <1>1, <1>5, <1>7 DEF Joins, OutJoins
<1>9. buffer[b][hwIndex + 1] = st[b] + (hwIndex + 1)
    BY <1>7, <1>8 DEF Holds
<1>10. buffer[b][hwIndex + 1] = Len(Sent) + 1
    BY <1>6, <1>8, <1>9
<1>11. Sent' = Append(Sent, Len(Sent) + 1) /\ Sent \in Seq(Nat)
    <2>1. hwSize # 0 /\ ~Stalled /\ ~Stalled'
        BY <1>2, <1>6 DEF Stalled
    <2> QED
        BY <1>2, <1>10, <2>1, SentType DEF Sent, IInv
<1>12. Len(Sent') = Len(Sent) + 1
    BY <1>11
<1>13. Len(Sent') = st[b] + (hwIndex + 1)
    <2>1. ASSUME NEW p \in Nat, NEW q \in Nat PROVE (p + q) + 1 = p + (q + 1)
        OBVIOUS
    <2>2. Len(Sent) = st[b] + hwIndex
        BY <1>8
    <2> QED
        BY <1>6, <1>12, <2>1, <2>2
<1>14. OutJoins(st)'
    BY <1>2, <1>3, <1>4, <1>5, <1>7, <1>8, <1>13 DEF OutJoins, Holds
<1> QED
    BY <1>4, <1>11, <1>14 DEF Joins, SentGrows

(* The block is sent whole; the next one follows it. *)
LEMMA BlockDoneJoins ==
    ASSUME IInv, QueueInUse, NEW st \in [Blocks -> Nat], Joins(st), TxBlockDone
    PROVE  Joins(st)' /\ SentGrows
<1> DEFINE b == ptBlock
           f == First(list)
<1>1. b \in Blocks /\ ~Sending /\ Out = b /\ Gone = Least(hwIndex, hwSize)
    BY PortBusy DEF TxBlockDone
<1>2. /\ hwIndex >= hwSize /\ GiveBack(b) /\ list' = Rest(list) /\ StartSending(f)
      /\ UNCHANGED <<accepted, qCount, ptUsedByQueue, pc>>
    BY DEF TxBlockDone, queue
<1>3. Live' = Live /\ Out' = f
    BY <1>1, <1>2 DEF TxBlockDone, Live, Retired, AppendIsLast, Sending, Out, StartSending
<1>4. b # NULL /\ hwSize = Size[b]
    BY <1>1, BlocksAssumption DEF QueueInUse
<1>5. hwIndex \in Nat /\ hwSize \in Nat
    BY SizeAssumption DEF IInv, TypeOK
<1>6. Gone = Size[b]
    BY <1>1, <1>2, <1>4, <1>5 DEF Least
<1>7. Len(Sent) = ListFrom(st)
    BY <1>1, <1>4, <1>6 DEF Joins, OutJoins
<1>0. Sent = wire
    BY SentType DEF TxBlockDone, IInv
<1>8. b \notin Listed /\ (Live => ptUsedByQueue \in Blocks /\ ptUsedByQueue # b) /\ Listed \subseteq Blocks
    BY <1>1, <1>4, Apart
<1>9. \A c \in Blocks \ {b} : Size'[c] = Size[c] /\ buffer'[c] = buffer[c]
    BY <1>2 DEF GiveBack
<1>10. QueueFrom(st)' = QueueFrom(st) /\ QueueJoins(st)'
    BY <1>2, <1>3, <1>8, <1>9 DEF QueueFrom, QueueJoins, Joins
<1>11. CASE list = <<>>
    <2>1. list' = list /\ f = NULL /\ Sent' = Sent
        BY <1>0, <1>2, <1>11 DEF First, Rest, StartSending, Sent, Stalled
    <2>2. ListFrom(st)' = ListFrom(st)
        BY <1>10, <1>11, <2>1 DEF ListFrom
    <2>3. ListJoins(st)'
        BY <1>11, <2>1 DEF ListJoins
    <2> QED
        BY <1>3, <1>7, <1>10, <2>1, <2>2, <2>3 DEF Joins, OutJoins, SentGrows
<1>12. CASE list # <<>>
    <2>1. /\ ListJoins(st)' /\ f \in Listed /\ Holds(f, Size[f], st[f])
          /\ ListFrom(st)' = st[f] + Size[f] /\ ListFrom(st) = st[f]
        BY <1>2, <1>8, <1>9, <1>10, <1>12, ListPops DEF Joins
    <2>2. f \in Blocks /\ f # NULL /\ f # b /\ st[f] \in Nat
        BY <1>8, <2>1, Apart
    <2>3. hwIndex' = 1 /\ hwSize' = Size[f]
        BY <1>2, <2>2 DEF StartSending
    <2>4. SentGrows /\ Len(Sent') = st[f] + Least(1, Size[f])
        BY <1>0, <1>2, <1>7, <2>1, <2>2, PutFirst DEF IInv
    <2>5. Gone' = Least(1, Size[f])
        BY <1>1, <1>2, <2>3 DEF Gone, Sending
    <2>6. OutJoins(st)'
        BY <1>3, <1>9, <2>1, <2>2, <2>4, <2>5 DEF OutJoins, Holds
    <2> QED
        BY <1>10, <2>1, <2>4, <2>6 DEF Joins
<1> QED
    BY <1>11, <1>12

--------------------------------------------------------------------------------
(* The parts of the invariant that are about the data alone.               *)

(* Whatever the handler frees, the block in use is another one. *)
LEMMA GiveBackElsewhere ==
    ASSUME IInv, NEW b, GiveBack(b)
    PROVE  \A c \in Blocks \ {b} : Size'[c] = Size[c] /\ buffer'[c] = buffer[c]
BY DEF GiveBack

(* Every step keeps the byte queue and its block together, and the size    *)
(* the adapter copied equal to that of its block. *)
LEMMA QueueInUseStep ==
    ASSUME IInv, QueueInUse, Next
    PROVE  QueueInUse'
<1> USE DEF heap, queue, lent, adapter, Live, Retired, AppendIsLast, QueueInUse
<1>1. CASE UserNew
    <2>1. PICK b \in pool : Size' = [Size EXCEPT ![b] = BlockSize]
        BY <1>1 DEF UserNew
    <2>2. pc = "idle" /\ UNCHANGED <<ptBlock, pc, item, hwSize, hwIndex, queue, op, arg>>
        BY <1>1 DEF UserNew
    <2>3. ptBlock # NULL => ptBlock # b /\ Size'[ptBlock] = Size[ptBlock]
        BY <2>1, <2>2, Apart DEF Out, Sending, IInv, TypeOK, Ptr
    <2> QED
        BY <2>2, <2>3
<1>2. CASE CallWrite
    BY <1>2 DEF CallWrite, IInv, Control
<1>3. CASE CallFlush
    BY <1>3 DEF CallFlush, IInv, Control
<1>4. CASE CallWriteBlock
    <2>1. PICK b \in held, n \in Nat : Size' = [Size EXCEPT ![b] = n]
        <3>1. cfg.MinHeldSize \in Nat
            BY ConfigsAssumption DEF IInv, TypeOK
        <3>2. PICK b \in held, n \in cfg.MinHeldSize..Least(BlockSize, MaxBytes - accepted) :
                  Size' = [Size EXCEPT ![b] = n]
            BY <1>4 DEF CallWriteBlock
        <3>3. n \in Nat
            BY <3>1, SizeAssumption DEF Least, IInv, TypeOK
        <3> QED
            BY <3>2, <3>3
    <2>2. pc = "idle" /\ pc' = "wb" /\ UNCHANGED <<ptBlock, item, hwSize, hwIndex, queue>>
        BY <1>4 DEF CallWriteBlock
    <2>3. ptBlock # NULL => ptBlock # b /\ Size'[ptBlock] = Size[ptBlock]
        BY <2>1, <2>2, Apart DEF Out, Sending, OfUser, IInv, TypeOK, Ptr
    <2> QED
        BY <1>4, <2>2, <2>3 DEF IInv, Control
<1>5. CASE EnqueueBytes
    <2>1. PICK n \in 1..Least(qSize - qCount, MaxBytes - accepted) : qCount' = qCount + n
        BY <1>5 DEF EnqueueBytes
    <2>2. qCount \in Nat /\ qSize \in Nat /\ n \in Nat /\ accepted \in Nat /\ MaxBytes \in Nat
        BY <1>5, SizeAssumption DEF EnqueueBytes, Least, IInv, TypeOK
    <2>3. qCount' <= qSize
        BY <2>1, <2>2 DEF Least
    <2>4. pc = "write" /\ pc' = "idle" /\ UNCHANGED <<ptBlock, item, hwSize, hwIndex, Size, ptUsedByQueue, bIsQueueInitialised, qSize, arg>>
        BY <1>5 DEF EnqueueBytes
    <2> QED
        BY <1>5, <2>3, <2>4 DEF EnqueueBytes
<1>6. CASE RetireFullBlock
    <2>1. Live => qCount # 0
        BY <1>6, SizeAssumption DEF RetireFullBlock, IInv, TypeOK
    <2> QED
        BY <1>6, <2>1 DEF RetireFullBlock, IInv, Control
<1>7. CASE AppendQueued
    <2>1. ptBlock # NULL => ptBlock # ptUsedByQueue
        BY <1>7, Apart DEF AppendQueued, Out, Sending, IInv, TypeOK, Ptr
    <2>2. ptBlock # NULL => Size'[ptBlock] = Size[ptBlock]
        BY <1>7, <2>1 DEF AppendQueued, IInv, TypeOK, Ptr
    <2>3. item = NULL
        BY <1>7 DEF AppendQueued, IInv, Control
    <2> QED
        BY <1>7, <2>2, <2>3 DEF AppendQueued, AppendBlock, IInv, Control
<1>8. CASE NothingQueued
    BY <1>8 DEF NothingQueued, IInv, Control
<1>9. CASE TriggerNeeded
    BY <1>9 DEF TriggerNeeded, IInv, Control
<1>10. CASE TriggerNotNeeded
    BY <1>10 DEF TriggerNotNeeded, LeaveAppend, IInv, Control
<1>11. CASE DequeueForSend
    BY <1>11 DEF DequeueForSend, IInv, Control, Port
<1>12. CASE LendForSend
    BY <1>12 DEF LendForSend, IInv, Control
<1>13. CASE StartTransmit
    BY <1>13 DEF StartTransmit, StartSending, LeaveAppend, IInv, Control
<1>14. CASE CheckHeap
    BY <1>14 DEF CheckHeap, IInv, Control
<1>15. CASE NewBlock
    <2>1. NewSize \in 1..BlockSize
        <3>1. cfg.chBlockReservedSize \in Nat /\ BlockSize \in Nat /\ BlockSize # 0
            BY ConfigsAssumption, SizeAssumption DEF IInv, TypeOK
        <3> QED
            BY <3>1 DEF NewSize
    <2>2. PICK b \in pool : item' = b /\ Size' = [Size EXCEPT ![b] = NewSize]
        BY <1>15 DEF NewBlock
    <2>3. Size'[b] # 0
        BY <2>1, <2>2 DEF IInv, TypeOK
    <2>4. pc = "new" /\ pc' = "load" /\ UNCHANGED <<ptBlock, hwSize, hwIndex, queue, op, arg>>
        BY <1>15 DEF NewBlock
    <2>5. ptBlock # NULL => ptBlock # b /\ Size'[ptBlock] = Size[ptBlock]
        BY <2>2, <2>4, Apart DEF Out, Sending, IInv, TypeOK, Ptr
    <2> QED
        BY <2>2, <2>3, <2>4, <2>5
<1>16. CASE LoadCount
    BY <1>16 DEF LoadCount, IInv, Control
<1>17. CASE StoreCount
    BY <1>17 DEF StoreCount, IInv, Control
<1>18. CASE Adopt
    <2>1. pc = "adopt" /\ pc' \in {"write", "flushed", "wb"} /\ item # NULL
        BY <1>18 DEF Adopt, IInv, Control, TypeOK
    <2>2. Size[item] \in Nat /\ Size[item] # 0
        BY <2>1, SizeAssumption DEF IInv, TypeOK, Ptr
    <2>3. qCount' = 0 /\ 0 <= qSize' /\ 1 <= qSize'
        BY <1>18, <2>2 DEF Adopt
    <2> QED
        BY <1>18, <2>1, <2>3 DEF Adopt
<1>19. CASE NoBlockToAdopt
    <2>1. pc' \in {"idle", "flushed", "wb"}
        BY <1>19 DEF NoBlockToAdopt, IInv, Control, TypeOK
    <2> QED
        BY <1>19, <2>1 DEF NoBlockToAdopt, IInv, Control
<1>20. CASE FlushReturn
    BY <1>20 DEF FlushReturn, IInv, Control
<1>21. CASE DrainQueueFirst
    BY <1>21 DEF DrainQueueFirst, IInv, Control
<1>22. CASE AppendUserBlock
    BY <1>22 DEF AppendUserBlock, AppendBlock, IInv, Control
<1>23. CASE TxCancelled
    BY <1>23 DEF TxCancelled, IInv, Control
<1>24. CASE TxNextByte
    BY <1>24 DEF TxNextByte, IInv, TypeOK
<1>25. CASE TxBlockDone
    <2>1. ptBlock \in Blocks /\ ~Sending /\ Out = ptBlock
        BY <1>25, PortBusy DEF TxBlockDone
    <2>2. \A c \in Blocks \ {ptBlock} : Size'[c] = Size[c]
        BY <1>25, GiveBackElsewhere DEF TxBlockDone
    <2>3. ptBlock' # NULL => hwSize' = Size'[ptBlock'] /\ hwIndex' # 0
        <3>1. ptBlock' = First(list) /\ (First(list) # NULL => hwSize' = Size[First(list)] /\ hwIndex' = 1)
            BY <1>25 DEF TxBlockDone, StartSending
        <3>2. First(list) # NULL => First(list) \in Listed
            BY ListedRest DEF First, Listed, IInv, TypeOK
        <3> QED
            BY <2>1, <2>2, <3>1, <3>2, Apart, BlocksAssumption
    <2>4. item # NULL => item # ptBlock /\ item \in Blocks
        BY <2>1, Apart, BlocksAssumption DEF Sending
    <2>5. UNCHANGED <<queue, pc, op, arg, item>>
        BY <1>25 DEF TxBlockDone
    <2> QED
        BY <2>2, <2>3, <2>4, <2>5
<1> QED
    BY <1>1, <1>2, <1>3, <1>4, <1>5, <1>6, <1>7, <1>8, <1>9, <1>10, <1>11,
       <1>12, <1>13, <1>14, <1>15, <1>16, <1>17, <1>18, <1>19, <1>20, <1>21,
       <1>22, <1>23, <1>24, <1>25
    DEF Next, Call, MainStep, TxIsr

(* The filled block of the user waits while nothing touches it. *)
LEMMA UserBlockStays ==
    ASSUME UserBlock, UNCHANGED <<arg, accepted>>,
           arg # NULL => Size'[arg] = Size[arg] /\ buffer'[arg] = buffer[arg]
    PROVE  UserBlock'
BY DEF UserBlock, Holds

(* Every step leaves the filled block of the user next in turn. *)
LEMMA UserBlockStep ==
    ASSUME IInv, QueueInUse, UserBlock, Next
    PROVE  UserBlock'
<1> USE DEF heap
<1>0. arg # NULL => arg \in Blocks /\ arg \in OfUser
    BY DEF IInv, TypeOK, Ptr, OfUser
<1>1. CASE Quiet
    BY <1>1, QuietSteps, UserBlockStays
<1>2. CASE UserNew
    BY <1>2, UserBlockStays DEF UserNew, IInv, Control
<1>3. CASE CallWriteBlock
    <2>1. PICK b \in held, n \in cfg.MinHeldSize..Least(BlockSize, MaxBytes - accepted) :
              /\ Size' = [Size EXCEPT ![b] = n]
              /\ buffer' = [buffer EXCEPT ![b] =
                    [i \in 1..BlockSize |-> IF i <= n THEN accepted + i ELSE @[i]]]
              /\ arg' = b
        BY <1>3 DEF CallWriteBlock
    <2>a. cfg.MinHeldSize \in Nat
        BY ConfigsAssumption DEF IInv, TypeOK
    <2>2. cfg.MinHeldSize \in Nat /\ BlockSize \in Nat \ {0} /\ MaxBytes \in Nat /\ accepted \in Nat
        BY <2>a, SizeAssumption DEF IInv, TypeOK
    <2>3. n \in 0..BlockSize /\ accepted + n <= MaxBytes
        BY <2>2 DEF Least
    <2>4. b \in Blocks /\ Size'[b] = n
        BY <2>1 DEF IInv, TypeOK
    <2>5. \A i \in 1..BlockSize : buffer'[b][i] = IF i <= n THEN accepted + i ELSE buffer[b][i]
        BY <2>1, <2>4 DEF IInv, TypeOK
    <2>6. \A i \in 1..n : buffer'[b][i] = accepted + i
        BY <2>2, <2>3, <2>5
    <2>7. accepted' = accepted
        BY <1>3 DEF CallWriteBlock
    <2> QED
        BY <2>1, <2>3, <2>4, <2>6, <2>7 DEF UserBlock, Holds
<1>4. CASE EnqueueBytes
    <2>1. PICK n \in 1..Least(qSize - qCount, MaxBytes - accepted) : accepted' = accepted + n
        BY <1>4 DEF EnqueueBytes
    <2>2. qCount \in Nat /\ qSize \in Nat /\ accepted \in Nat /\ MaxBytes \in Nat
        BY SizeAssumption DEF IInv, TypeOK
    <2>3. accepted' <= MaxBytes
        BY <2>1, <2>2 DEF Least
    <2>4. arg' = NULL
        BY <1>4 DEF EnqueueBytes, IInv, Control
    <2> QED
        BY <2>3, <2>4 DEF UserBlock
<1>5. CASE AppendQueued
    <2>1. ptUsedByQueue \in Blocks /\ Queued = {ptUsedByQueue}
        BY <1>5 DEF AppendQueued, Queued, Retired, IInv, TypeOK, Ptr
    <2>2. arg # ptUsedByQueue
        BY <1>0, <2>1, BlocksAssumption DEF IInv, OneOwner
    <2>3. UNCHANGED <<arg, accepted, buffer>>
          /\ \A c \in Blocks \ {ptUsedByQueue} : Size'[c] = Size[c]
        BY <1>5 DEF AppendQueued, IInv, TypeOK
    <2> QED
        BY <1>0, <2>2, <2>3, UserBlockStays
<1>6. CASE DequeueForSend
    <2>1. ptBlock = NULL
        BY <1>6 DEF DequeueForSend, IInv, Port
    <2> QED
        BY <1>0, <1>6, <2>1, BlocksAssumption, GiveBackElsewhere, UserBlockStays DEF DequeueForSend
<1>7. CASE StartTransmit \/ Adopt \/ NoBlockToAdopt
    BY <1>7, UserBlockStays DEF StartTransmit, Adopt, NoBlockToAdopt
<1>8. CASE NewBlock
    <2>1. PICK b \in pool : Size' = [Size EXCEPT ![b] = NewSize]
        BY <1>8 DEF NewBlock
    <2>2. arg # NULL => arg # b
        BY <1>0 DEF IInv, OneOwner
    <2>3. UNCHANGED <<arg, accepted, buffer>>
        BY <1>8 DEF NewBlock
    <2> QED
        BY <1>0, <2>1, <2>2, <2>3, UserBlockStays DEF IInv, TypeOK
<1>9. CASE AppendUserBlock
    BY <1>9 DEF AppendUserBlock, UserBlock, IInv, Control
<1>10. CASE TxNextByte
    BY <1>10, UserBlockStays DEF TxNextByte
<1>11. CASE TxBlockDone
    <2>1. ptBlock \in Blocks /\ Lent = {ptBlock}
        BY <1>11, PortBusy, BlocksAssumption DEF TxBlockDone, Lent
    <2>2. arg # NULL => arg # ptBlock
        BY <1>0, <2>1 DEF IInv, OneOwner
    <2>3. UNCHANGED <<arg, accepted>> /\ GiveBack(ptBlock)
        BY <1>11 DEF TxBlockDone
    <2> QED
        BY <1>0, <2>2, <2>3, GiveBackElsewhere, UserBlockStays
<1> QED
    BY <1>1, <1>2, <1>3, <1>4, <1>5, <1>6, <1>7, <1>8, <1>9, <1>10, <1>11
    DEF Next, Call, MainStep, TxIsr, Quiet

--------------------------------------------------------------------------------
(* The invariant, and what it says of a step.                              *)

(* A freshly initialised stream has nothing in line. *)
LEMMA DataInit == Init => DataInv
<1> SUFFICES ASSUME Init PROVE DataInv
    OBVIOUS
<1> USE DEF Init
<1>1. QueueInUse
    BY DEF QueueInUse, Live, Retired
<1>0. Sent = <<>>
    BY DEF Sent, Stalled
<1>2. UserBlock /\ InOrder
    BY <1>0, SizeAssumption DEF UserBlock, InOrder
<1>3. PICK st \in [Blocks -> Nat] : TRUE
    <2>1. [b \in Blocks |-> 0] \in [Blocks -> Nat]
        OBVIOUS
    <2> QED
        BY <2>1
<1>4. Out = NULL /\ ~Live
    BY DEF Out, Sending, Live
<1>5. QueueFrom(st) = 0 /\ ListFrom(st) = 0 /\ Len(Sent) = 0 /\ Len(list) = 0
    BY <1>0, <1>4 DEF QueueFrom, ListFrom
<1>6. Joins(st)
    BY <1>4, <1>5 DEF Joins, QueueJoins, ListJoins, OutJoins
<1> QED
    BY <1>1, <1>2, <1>3, <1>6 DEF DataInv

(* A stream nobody touches keeps its bytes in line. *)
LEMMA DataStutter == DataInv /\ UNCHANGED vars => DataInv'
<1> SUFFICES ASSUME DataInv, UNCHANGED vars PROVE DataInv'
    OBVIOUS
<1> USE DEF vars, heap, queue, lent, adapter
<1>1. QueueInUse'
    BY DEF DataInv, QueueInUse, Live, Retired, AppendIsLast
<1>0. Sent' = Sent
    BY SentStays
<1>2. UserBlock' /\ InOrder'
    BY <1>0 DEF DataInv, UserBlock, InOrder, Holds
<1>3. PICK st \in [Blocks -> Nat] : Joins(st)
    BY DEF DataInv
<1>4. UNCHANGED <<Live, Out, Gone>>
    BY DEF Live, Retired, AppendIsLast, Out, Gone, Sending
<1>5. UNCHANGED <<QueueFrom(st), ListFrom(st)>>
    BY <1>4 DEF QueueFrom, ListFrom
<1>6. Joins(st)'
    BY <1>0, <1>3, <1>4, <1>5 DEF Joins, QueueJoins, ListJoins, OutJoins, Holds
<1> QED
    BY <1>1, <1>2, <1>3, <1>6 DEF DataInv

(* Every step keeps the bytes in line, and sends at most the next one. *)
LEMMA JoinsStep ==
    ASSUME IInv, DataInv, Next
    PROVE  (\E st2 \in [Blocks -> Nat] : Joins(st2)') /\ SentGrows
<1>1. PICK st \in [Blocks -> Nat] : Joins(st)
    BY DEF DataInv
<1>2. CASE Quiet
    <2>1. Joins(st)'
        BY <1>1, <1>2, QuietSteps, JoinsStay DEF Untouched, IInv
    <2> QED
        BY <1>1, <1>2, <2>1, QuietSteps DEF SentGrows
<1>3. CASE UserNew \/ NewBlock \/ CallWriteBlock
    <2>1. Sent' = Sent
        BY <1>3, SentStays DEF UserNew, NewBlock, CallWriteBlock, adapter
    <2> QED
        BY <1>1, <1>3, <2>1, OutsideJoins DEF SentGrows
<1>4. CASE Adopt \/ NoBlockToAdopt
    <2>1. Sent' = Sent
        BY <1>4, SentStays DEF Adopt, NoBlockToAdopt, adapter
    <2> QED
        BY <1>1, <1>4, <2>1, AdoptJoins, NoBlockJoins DEF SentGrows
<1>5. CASE EnqueueBytes
    <2>1. Sent' = Sent
        BY <1>5, SentStays DEF EnqueueBytes, adapter
    <2> QED
        BY <1>1, <1>5, <2>1, EnqueueJoins DEF SentGrows, DataInv
<1>6. CASE AppendQueued \/ AppendUserBlock
    <2>1. Sent' = Sent
        BY <1>6, SentStays DEF AppendQueued, AppendUserBlock, adapter
    <2> QED
        BY <1>1, <1>6, <2>1, AppendQueuedJoins, AppendUserJoins DEF SentGrows, DataInv
<1>7. CASE DequeueForSend
    BY <1>1, <1>7, DequeueJoins DEF SentGrows
<1>8. CASE StartTransmit
    BY <1>1, <1>8, StartJoins
<1>9. CASE TxNextByte \/ TxBlockDone
    BY <1>1, <1>9, NextByteJoins, BlockDoneJoins DEF DataInv
<1> QED
    BY <1>2, <1>3, <1>4, <1>5, <1>6, <1>7, <1>8, <1>9
    DEF Next, Call, MainStep, TxIsr, Quiet

(* Every step keeps the whole invariant. *)
LEMMA DataStep ==
    ASSUME IInv, DataInv, Next
    PROVE  DataInv'
<1>1. QueueInUse' /\ UserBlock'
    BY QueueInUseStep, UserBlockStep DEF DataInv
<1>2. (\E st2 \in [Blocks -> Nat] : Joins(st2)') /\ InOrder'
    BY JoinsStep, PutNext, SentType DEF DataInv, IInv
<1> QED
    BY <1>1, <1>2 DEF DataInv

(* In every reachable state the bytes sent, and those in the block being   *)
(* sent, in the list and in the queue follow each other.                   *)
THEOREM DataAlways == Spec => [](IInv /\ DataInv)
<1>1. Init => IInv /\ DataInv
    BY InitOK, DataInit
<1>2. IInv /\ DataInv /\ [Next]_vars => (IInv /\ DataInv)'
    BY TypeStep, ControlStep, PortStep, AwakeStep, OwnerStep, StutterOK, DataStep, DataStutter DEF IInv
<1> QED
    BY <1>1, <1>2, PTL DEF Spec

--------------------------------------------------------------------------------
(* What the readers of the invariant need of it.                           *)

(* No more is sent than was accepted; all of it once nothing is in line. *)
LEMMA WireBehind ==
    ASSUME IInv, DataInv
    PROVE  /\ Len(Sent) <= accepted
           /\ Out = NULL /\ list = <<>> /\ (Live => qCount = 0) => Len(Sent) = accepted
<1>1. PICK st \in [Blocks -> Nat] : Joins(st)
    BY DEF DataInv
<1>2. /\ Listed \subseteq Blocks /\ \A i \in 1..Len(list) : list[i] \in Listed
      /\ Live => ptUsedByQueue \in Blocks
      /\ Out # NULL => Out \in Blocks
    BY Apart
<1>3. accepted \in Nat /\ qCount \in Nat /\ hwIndex \in Nat /\ hwSize \in Nat /\ Len(Sent) \in Nat
      /\ Len(list) \in Nat /\ \A b \in Blocks : Size[b] \in Nat /\ st[b] \in Nat
    BY SizeAssumption, SentType DEF IInv, TypeOK
<1>4. QueueFrom(st) \in Nat /\ QueueFrom(st) <= accepted
      /\ ((Live => qCount = 0) => QueueFrom(st) = accepted)
    <2>1. CASE Live
        <3>1. st[ptUsedByQueue] \in Nat /\ st[ptUsedByQueue] + qCount = accepted
            BY <1>1, <1>2, <1>3, <2>1 DEF Joins, QueueJoins
        <3> QED
            BY <1>3, <2>1, <3>1 DEF QueueFrom
    <2>2. CASE ~Live
        BY <1>3, <2>2 DEF QueueFrom
    <2> QED
        BY <2>1, <2>2
<1>5. ListFrom(st) \in Nat /\ ListFrom(st) <= accepted
      /\ (list = <<>> => ListFrom(st) = QueueFrom(st))
    <2>1. CASE list = <<>>
        BY <1>4, <2>1 DEF ListFrom
    <2>2. CASE list # <<>>
        <3>1. 1 \in 1..Len(list)
            BY <2>2 DEF IInv, TypeOK
        <3>2. st[list[1]] + Size[list[1]] <= accepted
            BY <1>1, <3>1 DEF Joins, ListJoins
        <3>3. st[list[1]] \in Nat /\ Size[list[1]] \in Nat
            BY <1>2, <1>3, <3>1
        <3>4. ListFrom(st) = st[list[1]]
            BY <2>2 DEF ListFrom
        <3> QED
            BY <1>3, <2>2, <3>2, <3>3, <3>4
    <2> QED
        BY <2>1, <2>2
<1>6. CASE Out = NULL
    <2>1. Len(Sent) = ListFrom(st)
        BY <1>1, <1>6 DEF Joins, OutJoins
    <2> QED
        BY <1>4, <1>5, <2>1
<1>7. CASE Out # NULL
    <2>1. st[Out] + Size[Out] = ListFrom(st) /\ Len(Sent) = st[Out] + Gone
        BY <1>1, <1>7 DEF Joins, OutJoins
    <2>2. st[Out] \in Nat /\ Size[Out] \in Nat
        BY <1>2, <1>3, <1>7
    <2>3. Gone \in Nat /\ Gone <= Size[Out]
        <3>1. CASE Sending
            BY <2>2, <3>1 DEF Gone
        <3>2. CASE ~Sending
            <4>1. hwSize = Size[Out]
                BY <1>7, <3>2 DEF Out, DataInv, QueueInUse
            <4> QED
                BY <1>3, <3>2, <4>1 DEF Gone, Least
        <3> QED
            BY <3>1, <3>2
    <2> QED
        BY <1>3, <1>5, <1>7, <2>1, <2>2, <2>3
<1> QED
    BY <1>6, <1>7

(* What stream_flush reports is true: with nothing lent out and nothing    *)
(* queued, all bytes accepted are on the wire and the port is idle. *)
THEOREM FlushTruthAlways == Spec => []FlushTruth
<1>1. IInv /\ DataInv => FlushTruth
    <2> SUFFICES ASSUME IInv, DataInv, pc = "flushed", ptUsedByOutside = NULL
                 PROVE  Len(wire) = accepted /\ ~uartBusy
        BY DEF FlushTruth, FlushResult
    <2>1. ptBlock = NULL /\ ~uartBusy /\ list = <<>>
        BY DEF IInv, Port, PortAwake
    <2>2. Out = NULL /\ Sent = wire
        BY <2>1, SentType DEF Out, Sending, IInv
    <2>3. Live => qCount = 0
        BY DEF DataInv, QueueInUse
    <2> QED
        BY <2>1, <2>2, <2>3, WireBehind
<1> QED
    BY <1>1, DataAlways, PTL

--------------------------------------------------------------------------------
(* The refinement.                                                         *)

(* The first a bytes. *)
Bytes(a) == [i \in 1..a |-> i]

(* The bytes 1 to a, as a sequence. *)
LEMMA BytesSeq ==
    ASSUME NEW a \in Nat
    PROVE  Bytes(a) \in Seq(Nat) /\ Len(Bytes(a)) = a /\ \A i \in 1..a : Bytes(a)[i] = i
BY DEF Bytes

(* Accepting n bytes only adds to what was written. *)
LEMMA BytesPrefix ==
    ASSUME NEW a \in Nat, NEW n \in Nat
    PROVE  SubSeq(Bytes(a + n), 1, a) = Bytes(a)
<1>1. /\ Bytes(a + n) \in Seq(Nat) /\ Len(Bytes(a + n)) = a + n
      /\ \A i \in 1..a + n : Bytes(a + n)[i] = i
    BY BytesSeq
<1>2. /\ SubSeq(Bytes(a + n), 1, a) \in Seq(Nat) /\ Len(SubSeq(Bytes(a + n), 1, a)) = a
      /\ \A i \in 1..a : SubSeq(Bytes(a + n), 1, a)[i] = i
    BY <1>1, SubSeqProperties
<1>3. /\ Bytes(a) \in Seq(Nat) /\ Len(Bytes(a)) = a /\ \A i \in 1..a : Bytes(a)[i] = i
    BY BytesSeq
<1> QED
    BY <1>2, <1>3, SeqEqual

(* The next byte is the one after the k bytes that were delivered. *)
LEMMA BytesNext ==
    ASSUME NEW a \in Nat, NEW w \in Seq(Nat), Len(w) + 1 <= a
    PROVE  Append(w, Len(w) + 1) = w \o SubSeq(Bytes(a), Len(w) + 1, Len(w) + 1)
<1> DEFINE k == Len(w)
           d == SubSeq(Bytes(a), k + 1, k + 1)
<1>1. k \in Nat /\ Bytes(a) \in Seq(Nat) /\ Len(Bytes(a)) = a /\ Bytes(a)[k + 1] = k + 1
    BY BytesSeq
<1>2. d \in Seq(Nat) /\ Len(d) = 1 /\ d[1] = k + 1
    BY <1>1, SubSeqProperties
<1>3. PICK t \in Seq(Nat) : t = d
    BY <1>2
<1>4. PICK x \in Nat : x = k + 1
    BY <1>1
<1>5. Append(w, x) = w \o t
    <2>1. /\ Append(w, x) \in Seq(Nat) /\ Len(Append(w, x)) = k + 1
          /\ \A i \in 1..k + 1 : Append(w, x)[i] = IF i = k + 1 THEN x ELSE w[i]
        BY <1>1
    <2>2. /\ w \o t \in Seq(Nat) /\ Len(w \o t) = k + 1
          /\ \A i \in 1..k + 1 : (w \o t)[i] = IF i = k + 1 THEN x ELSE w[i]
        BY <1>1, <1>2, <1>3, <1>4
    <2>3. PICK u \in Seq(Nat) : u = Append(w, x)
        BY <2>1
    <2>4. PICK v \in Seq(Nat) : v = w \o t
        BY <2>2
    <2>5. Len(u) = Len(v) /\ \A i \in 1..Len(u) : u[i] = v[i]
        BY <2>1, <2>2, <2>3, <2>4
    <2>6. u = v
        BY <2>5, SeqEqual
    <2> QED
        BY <2>3, <2>4, <2>6
<1> QED
    BY <1>3, <1>4, <1>5

(* Every step accepts some bytes, or none; only Write and WriteBlock do. *)
LEMMA AcceptStep ==
    ASSUME IInv, Next
    PROVE  \E n \in Nat : accepted' = accepted + n /\ (n # 0 => Sent' = Sent)
<1> USE SentStays DEF adapter
<1>1. accepted \in Nat
    BY DEF IInv, TypeOK
<1>2. CASE EnqueueBytes
    <2>1. PICK n \in 1..Least(qSize - qCount, MaxBytes - accepted) : accepted' = accepted + n
        BY <1>2 DEF EnqueueBytes
    <2>2. n \in Nat
        BY <1>1, SizeAssumption DEF Least, IInv, TypeOK
    <2> QED
        BY <1>2, <2>1, <2>2 DEF EnqueueBytes
<1>3. CASE AppendUserBlock
    <2>1. Size[arg] \in Nat
        BY <1>3, SizeAssumption DEF AppendUserBlock, IInv, Control, TypeOK, Ptr
    <2> QED
        BY <1>3, <2>1 DEF AppendUserBlock
<1>4. CASE accepted' = accepted
    BY <1>1, <1>4
<1>5. CASE UserNew \/ CallWriteBlock \/ NewBlock \/ Adopt \/ NoBlockToAdopt \/ AppendQueued
           \/ DequeueForSend \/ StartTransmit \/ TxNextByte \/ TxBlockDone
    BY <1>4, <1>5 DEF UserNew, CallWriteBlock, NewBlock, Adopt, NoBlockToAdopt, AppendQueued,
                      DequeueForSend, StartTransmit, TxNextByte, TxBlockDone
<1>6. CASE Quiet
    BY <1>4, <1>6, QuietSteps
<1> QED
    BY <1>2, <1>3, <1>5, <1>6 DEF Next, Call, MainStep, TxIsr, Quiet

(* A step of the stream is a step of the channel, or leaves it alone. *)
LEMMA ChannelStep ==
    ASSUME IInv, DataInv, DataInv', IInv', Next
    PROVE  Channel!Next \/ UNCHANGED Channel!vars
<1>1. accepted \in Nat /\ Sent \in Seq(Nat) /\ Len(Sent) \in Nat
    BY SentType DEF IInv, TypeOK
<1>2. PICK n \in Nat : accepted' = accepted + n /\ (n # 0 => Sent' = Sent)
    BY AcceptStep
<1>3. SentGrows
    BY JoinsStep
<1>4. CASE n # 0
    <2>1. Len(Bytes(accepted + n)) = accepted + n /\ SubSeq(Bytes(accepted + n), 1, accepted) = Bytes(accepted)
        <3>1. accepted + n \in Nat
            BY <1>1
        <3> QED
            BY <1>1, <3>1, BytesSeq, BytesPrefix
    <2>2. n \in 1..Len(Bytes(accepted')) /\ Len(Bytes(accepted')) - n = accepted
          /\ SubSeq(Bytes(accepted'), 1, accepted) = Bytes(accepted)
        BY <1>1, <1>2, <1>4, <2>1
    <2>3. \E m \in 1..Len(Bytes(accepted')) :
              SubSeq(Bytes(accepted'), 1, Len(Bytes(accepted')) - m) = Bytes(accepted)
        BY <2>2
    <2>4. Channel!Accept
        BY <1>2, <1>4, <2>3 DEF Channel!Accept, Bytes
    <2> QED
        BY <2>4 DEF Channel!Next
<1>5. CASE n = 0 /\ Sent' = Sent
    <2>1. accepted' = accepted
        BY <1>1, <1>2, <1>5
    <2> QED
        BY <1>5, <2>1 DEF Channel!vars
<1>6. CASE n = 0 /\ Sent' = Append(Sent, Len(Sent) + 1)
    <2>1. accepted' = accepted
        BY <1>1, <1>2, <1>6
    <2>2. Len(Sent') <= accepted'
        <3>1. (IInv /\ DataInv => Len(Sent) <= accepted)'
            BY WireBehind, PTL
        <3> QED
            BY <3>1
    <2>3. Len(Sent) + 1 <= accepted
        BY <1>1, <1>6, <2>1, <2>2
    <2>4. Sent' = Sent \o SubSeq(Bytes(accepted), Len(Sent) + 1, Len(Sent) + 1)
        BY <1>1, <1>6, <2>3, BytesNext
    <2>5. 1 \in 1..Len(Bytes(accepted)) - Len(Sent)
        BY <1>1, <2>3, BytesSeq
    <2>6. Channel!Deliver
        BY <2>1, <2>4, <2>5 DEF Channel!Deliver, Bytes
    <2> QED
        BY <2>6 DEF Channel!Next
<1> QED
    BY <1>3, <1>4, <1>5, <1>6 DEF SentGrows

(* The bytes accepted appear on the wire once each and in order, for any   *)
(* number of blocks, any configuration and any interleaving, and no other  *)
(* byte but the one with which an empty block of the user stalls the port. *)
THEOREM StreamOutIsChannel == Spec => ImplementsChannel
<1>1. Init => Channel!Init
    BY DEF Init, Channel!Init, Sent, Stalled
<1>2. IInv /\ DataInv /\ (IInv /\ DataInv)' /\ [Next]_vars => [Channel!Next]_Channel!vars
    <2>1. UNCHANGED vars => UNCHANGED Channel!vars
        BY SentStays DEF vars, adapter, Channel!vars
    <2> QED
        BY <2>1, ChannelStep
<1> QED
    BY <1>1, <1>2, DataAlways, PTL DEF Spec, ImplementsChannel, Channel!Spec
================================================================================
