# A TLA+ development of the Generic MCU Software Infrastructure

The repository (`src/`) is a C framework for small microcontrollers: one main
thread that runs co-operative state machines, and interrupt handlers that
preempt it.  Nothing is protected but by `__IRQ_SAFE` regions (interrupts off)
and by the order in which fields are written.  This directory holds models of
its components, the TLC runs that check them, and TLAPS proofs about them.

Paths below are relative to `src/sources/gmsi/` unless they begin with `example/`.

## The system

| component | state | operations | what is hard about it |
|---|---|---|---|
| stream buffer (`service/memory/stream2block`) | current block and its byte queue, list of blocks, counter and limit of blocks, the block lent to the port | Write, WriteByte, WriteBlock, Flush; Read, ReadByte; `request_next_buffer_block`, called by the port | the main thread and two interrupts (UART, 1 ms tick) exchange blocks; most fields are touched outside atomic regions |
| serial-port adapters (`stream2block.h`) | block, buffer, size, index, timeout counter | request_send, transmit interrupt; request_read, receive interrupt, 1 ms handler | starting a port that is going idle, running out of blocks, timeout against completion |
| block, block queue, block pool (`service/memory/block*`, `epool`) | size and capacity of a block, FIFO of blocks, free list | Size.Set/Get/Reset, Append/Get, New/Free | called from both sides of the interrupt |
| scheduler (`service/scheduler`) | task pool, ready queue, call stacks, wait lists of events and sections | scheduler, register_task, call, wait_for_single_object, set/reset_event, enter/leave critical section | one link per task for all lists; set_event from interrupts between a task's wait and its blocking |
| multiple delay (`service/time/multiple_delay`) | two sorted delay lists, pending events, a 32-bit counter | RequestDelay, Cancel, tick handler, task | cancel against timeout, counter reset and overflow |
| delegate (`utilities/delegate.c`) | list of handlers, blocked list, iterator | register, unregister, invoke | handlers that register and unregister while the event is raised |
| telegraph engine (`service/communication/telegraph_engine`) | transmitter and listener queues, the pool of telegraphs | init, send, listen, the task, frontend (answers), timeout handler | an answer racing its timeout; removal from the middle of a list |
| simple frame (`service/communication/frame`) | decoder, encoder and wrapper state machines, a buffer, one lock | Init, Task, Encoder, Decoder | finding the next frame after noise and damage, over-long frames, one encoder for replies and for the user |
| xmodem (`service/communication/xmodem`) | four nested receiver machines, packet number, counts of tries | xmodem_task | lost, late and repeated packets and answers, wrap-around of the number |
| crc7/8/16/32 (`service/communication/crc`) | the running value | a byte, a stream | ten algorithms in up to three builds (bits, a nibble's table, a byte's table) that share no code |
| page (`hal/component/memory/page`) | page buffer, lock, two state machines | read, write | read-modify-write across pages, errors with the lock held, a reader and a writer |
| memory adapters (`hal/component/memory/mal`) | RAM buffer; the flash driver's tree of state machines | init, open, close, page write, read, verify, erase, chip erase, identifiers | a machine left in the middle, the chip's latch and busy time, closing during an operation |
| key (`hal/component/key`) | filter, frontend and detector, two bounded queues | key_task, get_key | bounces, a full queue, a release during the long press |
| bootloader (`hal/component/bootloader`) | command map, table of memories, the lock of the system | the parser of frames | each answer depends on all earlier frames |
| software SDIO (`hal/component/sw_sdio`) | two machines, for commands and for data, and one clock | init, command, data write, data read | two machines that share the clock edges in a synchronous receive |
| locks and atomic regions (`utilities/arm/signal`) | a flag, the interrupt mask | ENTER_LOCK, LEAVE_LOCK, SAFE_ATOM_CODE | nesting |
| templates, macros, architecture, gui, random | - | - | initialisation and code generation only |

How they interact: `stream2block` draws its blocks from a `block` pool (`epool`)
and keeps them in a `block_queue`; the port side calls back into the stream by
`request_next_buffer_block`; the tick interrupt calls the 1 ms handlers and the
tick of the delay service; telegraphs are timed by the delay service; frames,
telegraphs and xmodem read and write through a pipe, which streams provide; the
frame calls the bootloader's parser, which calls the user's memory, for example a
page over one of the adapters.
`PROJECT.json` lists every component with what is modelled of it, and the
hazards, each at the line where it bites.

## Modules

| module | models | composes |
|---|---|---|
| `ByteChannel` | what a stream promises: bytes come out in the order they went in, none lost or invented | - |
| `StreamOut` | output stream, its blocks and the transmit adapter | refines `ByteChannel` |
| `StreamOut_proofs` | types, owners, wake-up, limit, reserve and flush of `StreamOut`, and its refinement of `ByteChannel` | extends `StreamOut` |
| `StreamIn` | input stream, its blocks, the receive adapter and the timeout | refines `ByteChannel` |
| `StreamIn_proofs` | types, owners and port of `StreamIn`, and its refinement of `ByteChannel` | extends `StreamIn` |
| `Scheduler` | scheduler, tasks, events, critical sections | - |
| `Scheduler_proofs` | its lists and its section | extends `Scheduler` |
| `MultipleDelay` | requests and cancels of delays, the tick interrupt and the task of the delay service | - |
| `MultipleDelay_proofs` | its items' places and its times | extends `MultipleDelay` |
| `Delegate` | register, unregister and raise, also from within handlers | - |
| `Delegate_proofs` | its lists and its calls | extends `Delegate` |
| `Flash` | the serial flash driver, exchange by exchange on the bus, and the chip | - |
| `Sram` | the memory adapter over RAM | - |
| `Page` | reading and writing at any address through the page buffer; `mal.c` | extends `Flash`, instantiates `Sram` |
| `Memory` | a writer, a reader and a rival over one page and one memory | extends `Page` |
| `Memory_proofs` | the flash driver between two operations, what the memory holds and a read returns | extends `Memory` |
| `Crc` | the checks, in all their builds, and the polynomial division they stand for | - |
| `Sdio` | the software SDIO host and a card | - |
| `Bootloader` | the parser of the bootloader's commands, and a memory cell | - |
| `Frame` | simple frame: decoder, task, encoder, and a user who sends | extends `Bootloader` |
| `Frame_proofs` | what it sends, parses and answers | extends `Frame` |
| `Xmodem` | the receiver, a line and a sender | - |
| `Key` | filter, frontend, detector, their queues and a user | - |
| `Key_proofs` | theorems about `Key` | extends `Key` |
| `Telegraph` | the telegraph engine, its lists, its pool and the timeouts | - |
| `MC*` | instances for TLC | - |

### StreamOut

The actors are the writer (main thread), the port's transmit interrupt, and the
user of the same heap who may take a block and hand it over with WriteBlock.  A
call of the writer runs through the values of `pc`: each is a point where the
code leaves an atomic region or touches a field that the interrupt also
touches.  `CallWrite` and `CallFlush` are the entries of `stream_write_byte`
and `stream_flush`; `AppendBlock`/`AppendQueued` are the atomic appends;
`TriggerNeeded`/`TriggerNotNeeded` the test whether the port is idle, and
`DequeueForSend`, `LendForSend`, `StartTransmit` the start of an idle port in
the main thread, step by step; `CheckHeap`, `NewBlock`, `LoadCount`,
`StoreCount` are `__get_new_block`, with the read-modify-write of
`chBlockCount` in two steps; `Adopt` or `NoBlockToAdopt` give the byte queue
its buffer.  `TxNextByte`, `TxBlockDone` and `TxCancelled` are the transmit
interrupt; a handler runs to its end in one step, since nothing preempts it.
Bytes are the numbers 1..MaxBytes in the order they are written, so that order
and loss can be told; 0 is what a place holds that was never written, and buffers keep
their bytes when a block goes back to the heap.  For an empty block of the user the
code puts a byte on the wire all the same, whatever the buffer holds; the interrupt
after it takes the block for a cancelled service and the port keeps it (`Stalled`).
`ImplementsChannel` takes that one last byte out (`Sent`), and `FlushedIsSent` and
`WriteBlockReturns` end there.

### StreamIn

The reader (main thread) runs through `pc` in the same way: `ReleaseBlock`,
`FetchBlock`, `CheckPort` are the steps of `queue_init` for an input stream and
`ExchangeBlock` ... `EnableRx` those of `request_read`, field by field, because
the receive interrupt may already be enabled.  `RxByte`, `RxBlockFull`,
`RxCancelled` are the receive interrupt, `TimerTicks`, `TimeoutImports`,
`TimeoutEmpty`, `TimeoutAsserts` the 1 ms handler.  A failed assertion halts the
program (the model stops, so the run does not check deadlock).

### Scheduler

One action per outcome of a task's routine (`Call`, `OnGoing`, `Complete`,
`WaitSucceeds`, `WaitFails`, `SetEvent`, `LeaveFree`, ...), and one per step of
`scheduler()` between two atomic regions: `Dequeue`, `Requeue`, `FreeTask`,
`FlagGone`, `FlagThere`, `Block`.  `IsrSetEvent` may come between any two.  The
lists are modelled by their pointers (`pNext`, heads and tails), because all
lists share one link per task.  The value read through a NULL `ptFlag` is either
Boolean (address 0 is the vector table on the target).
Tasks keep the protocol of the macros in `scheduler.h`: wait again for the same
flag after a wait that failed, do not wait inside the section, leave it before
ending.

### MultipleDelay

The main thread is at one place, `pc`: idle (between two calls of the main
loop), in a handler that the task has called, or inside a call of
`request_delay` (`Request`, `NewItem`/`NoItem`, `AddItem`), of `cancel_delay`
(`Cancel`, `CancelHigh`, `CancelNormal`, `Cancelled`: the loop that looks through
the two lists in turn) or of the task (`LoadCounter`, `SaveCounter`, `HeadDue`,
`PopHead`, `NothingDue`, `RaiseNormal`, `NormalDone`, `RaiseLow`, `LowDone`,
`HandlerReturns`).  The tick interrupt may come between any two of these steps,
and the main thread stands still until it is over (`isr`): `TickResets` when both
lists are empty, else `TickBegins`, then for each item due `TickFires`,
`IsrRequest` (what the handler asks for) and `IsrReturns`, and `TickCounts`.
Two history variables are there for the properties only: `remain` counts how many
ticks an item has still to wait, and `stale` remembers that the counter was set
to 0 while the main thread held a copy of it, after which no property about
time is stated (the code really fires early or late then; see the hazards).
The variable `wOldCounter`, which only saves a look at the list, is left out, and
so are cancels made by a handler that runs in the interrupt.

### Delegate

Lists are modelled by their links, `link`: a cell is `ptNext` of a handler or the
head of a list, so that the iterator `pptHandler`, the address of a link, is a
cell.  `invoke_delegate` is cut in two where it calls the handler:
`InvokeNothing`, `InvokeFirst`, `InvokePastEnd`, `InvokeNext` lead to that point,
`OnGoing`, `Unregisters`, `Completes` follow from it, and `Register` and
`Unregister` may come in between (from the handler) or between two calls.  Handlers
end in any way at any time.  `Tear` names the two cases in which the code then writes
over a link that leads elsewhere; `torn` remembers that, and the properties are stated
until then.  The model goes on with the links as the code leaves them, loops included
(a search round a loop takes no step: it never returns).

### Flash, Sram, Page, Memory

The state machines of these sources keep their state in statics and are called
again until they return `fsm_rt_cpl`.  The models keep that shape: a machine is an
operator that takes the statics (a record, `s`) and returns the statics with the
result of the call; a machine that calls another is an operator that uses the
other's.  One call completes one exchange on the bus.  `Flash` has every machine
of `sdf_w25qxxx.c` from the byte exchange up, and the chip behind the wires: it
sees #CS, the protect pin and the bytes, carries a command out when #CS goes
high, is busy for a while, and ignores a program or erase without its latch.  A
byte of an address has `RADIX` values, a cell of memory has contents.
`Page` is `page.c` over the method table of `mal.c`; where the C code calls
`modify_leading_page` on every poll of the erase, so does the model.
`Memory` puts a writer and a reader on one page, over either memory, and a rival
who opens, closes, initialises, verifies, erases and reads identifiers on the same
memory.  An operation that ends in an error is repeated with the same arguments,
as the machines demand: the page's machine stays where it was.  In the flash
driver a page read between two calls of `sdf_page_verify` would continue the
verify's transfer (both use the one static of `sdf_read_random`); the model keeps
the two apart, as a user must.

### Crc

A word is the set of its one-bits, so exclusive or is the symmetric difference.
Every build of every algorithm is an operator; the tables of the source are given
by their entries at powers of two, because each literal table of the source is
linear: entry i is the exclusive or of those at the bits of i.  The macro
conditions `#if CRC8_ROHC == ...` compare names that are not defined anywhere and
choose SPEED, and so do those for MODEM; the other builds are modelled as well, as
a definition of the macros would select them.  `Doc` is what the headers' comments
say of each algorithm: polynomial, initial value, reflection, final exclusive or.

### Sdio

Two machines, commands and data, polled in any order, each an operator on the
statics as in `Flash`, down to the level of the clock.  In a synchronous receive
both sample one clock through the handshake flags (`sync`).  The card answers on
the falling edge: in time, late, not at all, damaged, with all ones, with a block
and its checksum or a stop; it refuses or keeps the line busy after a block.

### Frame and Bootloader

One action per state of the decoder, of the task around it and of the two
wrappers of the encoder; a read or write may take any part of what is asked.  The
buffer is one, for the data that comes in and the reply; what a frame longer than
the buffer writes behind its end is not in the model.  `FrameAssumption` asks for
a buffer that has room for the replies, which the code leaves to its user.  Bytes of a checksum carry
what they cover, so a checksum matches exactly what it was made of; read as a length or
looked at as a head they have the values that `SumValues` gives them, so that one may be
a head (`IsHead`).  The
bootloader's parser is an operator from the buffer to the buffer and the size of
the reply: whatever the size of the frame, it looks at the first bytes of the
buffer.  Four history variables record the frames that were parsed (`handled`), what
was in the buffer then (`seen`), the replies (`answers`), and the frames whose sending
has begun and whose they are (`begun`); no action reads them.

### Xmodem

`rec.at` is the innermost state of the four nested machines, and an action is a
call that does something.  The sender is not in the repository: it starts at the
first C or NAK, repeats at NAK, drops what came before it sent, gives up after its
tries, and begins a packet only when the receiver is not just about to write.
The line damages, loses and delays bytes and packets, `FAULTS` times, fewer than
`C_TRYING_COUNT`, after which the receiver would change from CRC to checksum and
the two sides no longer agree.  A byte on the line says what it was sent as, but the
receiver reads only its value (`Values`): a head, a number and a control byte share the
values of a byte, so that a number may be EOT or CAN, and a byte of data or of a
checksum, or a damaged one, may be read as any.  An answer that the line damages is
none to the sender.  The history variable `misread`, which
no action reads, keeps EOT and CAN when they were read from another byte.

### Key

A call of `key_task` runs one state of the frontend (which calls the filter) and
then one of the detector; the keypad may change between any two.  The ring
buffers are modelled with their indices.  `key_enqueue` reports a full queue and
nobody looks.  The history variable `reads` counts what the keypad was read as;
`user` is what somebody concludes from the events.

### Telegraph

Lists and pool are linked through `ptNext`, by operators that are
the macros of `t_list.h` and `list_find` of `t_list.c` as written.  The user,
the task and the parser take turns in the main loop (`pc` says what is in the
middle), the timeout comes in the tick interrupt, between any two steps; the delay
service is reduced to which telegraph each delay item times.

## Runs

| run | bounds | states | shows |
|---|---|---|---|
| `stream_out` | 3 blocks of 2 bytes, 4 bytes, 6 configurations | 454,830 | see below |
| `stream_in` | 3 blocks of 2 bytes, 5 bytes | 146,309 | see below |
| `scheduler` | 3 tasks, stacks of 1, one event, one section | 102,480 | see below |
| `multiple_delay` | 2 items, a counter of 2 bits, delays of 1 and 2 ticks, two priorities at a time | 133,237 | see below |
| `delegate` | 4 handlers, 7 calls of register and unregister, 4 when a link is torn | 363,305 | see below |
| `memory` | 3 pages of 2 programs of 1 cell, five writes, one read, 3 operations of the rival | 67,762 | see below |
| `crc` | 10 algorithms, their builds, 3 bytes of 4 values, 5 kinds of damage | 5,090 | see below |
| `sdio` | 2 requests out of 31, bytes of 2 bits, blocks of 2 bytes | 7,113 | see below |
| `frame` | 27 streams of up to four pieces, a buffer of 3 bytes, two frames of the user | 24,827 | see below |
| `xmodem` | 6 packets, 6 values of a byte and so of a number, 2 faults | 1,228,898 | see below |
| `key` | 2 keys, 3 changes, queues of 2 | 316,317 | see below |
| `telegraph` | 2 telegraphs, 2 delays | - | finding: the wrong item is removed |

**stream_out.** `OneOwner`: a block is in exactly one place.  `PortAwake`: no
lost wake-up between the append and the interrupt that goes idle.
`LimitRespected`: the block limit and the reserve hold in spite of the racing
counter.  `FlushTruth`: what Flush returns is true.  `ImplementsChannel`: the
stream implements `ByteChannel`.  `FlushedIsSent`, `WriteBlockReturns`: flushed
bytes are sent and WriteBlock returns.  The configurations vary the limit (none, 1
and 2), the reserve, whether user blocks (also empty ones) are written, and how many
blocks the user holds.  Under the limit of 2 the handler gives a block back between
the load and the store of `chBlockCount++`: the count is then one too high for good,
and the stream stops below its limit, which no property forbids.  Three blocks are enough for one in the byte queue, one lent
to the port and one in the list or the heap; with two bytes to a block, full,
partly full and empty blocks occur; four bytes fill two blocks, so the list
holds two.

**stream_in.** `BlocksInPlace` is the types with `OneOwner`, `WritesOwnBlock` (the
port writes only into the block it was lent) and `PortServed` (a port without a
block is noticed by the reader); then `ImplementsChannel` and `ReceivedIsRead`.  Five bytes fill two blocks and begin
the third, so the heap runs out.

**scheduler.** `OnePlace` (no control block lost, twice on a list or on two
lists), `MutualExclusion` (also over the handed-down section and over signals
left from the event), and `TasksProceed`, which is `ReadyRuns`, `EntersSection` and
`WokenProceeds`.  Three tasks
are the least that allow a holder, an heir and a further waiter.  At most one
task waits for the event at a time: with two, the code loses the second one
(below).  Deadlock is not checked, since
all tasks may end or wait.


**multiple_delay.** `OnePlace`: whatever way cancel, timeout and task meet, an
item is free, listed, pending or in one hand, and the lists stay sorted.
`NeverEarly` and `OnTime`: no report before its time, and of high priority none
after it.  `RequestsEnd`: every request ends with its item free again
(`Reported`), and cancel comes back, also when the interrupt takes the item it
is looking for (`CancelReturns`).  A counter of two bits wraps round after four ticks, so that
both the test for overflow and the reset by an empty tick happen; two items are
enough for one to be inserted before, behind or beside the other, and for the
heap to be empty.  HIGH with NORMAL and NORMAL with LOW are the pairs whose
items share a list, a handler or a queue.

**delegate.** `OneList`: the handlers registered are exactly those on the lists,
each on one, and what is called next is on the ready list, whatever was taken out
under the iterator (`IteratorOnList`).  `CompletesOnce`: a handler that has completed is
called again only when all registered have (`CalledOnce`), and no raise ends before all
have (`NonePassedOver`).  `RaiseReturns`: a raise ends.  All three hold until a link is
torn (below).  With four handlers one can be
before, one at and one behind the iterator and one on the blocked list; seven calls
let three of them be registered, taken out and registered again while the event
is raised.  `calls` is there to bound the run: a user who registers handlers for
ever can keep a raise from ending.

**memory.** `StoredAsWritten`: while no write or erase is under way, memory holds
cell for cell what the completed requests put there, also after errors in the
middle of a write that spans pages.  `DriverAtRest`: no sequence of the driver is
left open, the chip deselected, protected and unlatched.  `ReadReturnsContent` and
`RequestsEnd`.  Three pages let a request have a leading part, a whole page and a
final part; two programs to a page make the loop over programs go round.

**crc.** `RegisterIsRemainder`: after any bytes, cut into bytes and streams in any
way, the register of every build is the remainder of the division that the
header's comment prescribes.  `DamageSeen`: a burst no longer than the register
changes it.  The bytes are 0, 1, 90 and 255; since all operations are linear over
the bits, what could go wrong for another byte is a wrong entry of a table, and the
tables were compared with generated ones.

**sdio.** `ResultsTrue`: whatever the order of polling, both machines report what
the card did, and hold bit for bit what it sent.  `NothingLeft`: after a request
all flags and machines are as before it, so that the second request finds a clean
host.  `RequestsEnd`.

**frame.** `OutputWhole`: replies and the user's frames never mix on the wire, which
carries whole frames in the order in which they were begun; those that ended are all
that the user was told it has sent and all replies but the one in hand, each once and
in order.  `ParsedIsSent`: what is parsed are whole frames, in order, whatever is
taken for a head; and none is missed but in the cases that `Harmless` excludes, where the
code does lose an intact frame: a head in noise, a damaged length, and a damaged frame
whose last byte has the value of a head (below).  `AnswersRight`: seen from the requests alone, a
secured device answers nothing but an erase, and reads give what was written.  A request
is what the parser saw, the buffer: the frame is its beginning, and what a frame that is
too short for its command did not bring was left there by earlier frames and replies,
for the parser looks at no size.  `AllSent`: all gets to the wire.  The streams contain
every command, an unknown one, an empty frame, one too short for its command, one that is
too long, damage to each field, noise with and without a head in it, and damage to a frame whose
checksum ends with a head, with an intact one behind it.

**xmodem.** `SavedIsFile`, `FaultsAreSurvived` and `TransferEnds`.  Six packets
over six numbers make the number wrap, and packets 4 and 5 have the numbers EOT and CAN.
That what was saved is the beginning of the file holds whatever the line does.  The
exceptions to the rest are deviations of the
code from what a receiver should do: the number before 0 is -1 as an `int`, so
that a repeat of the packet before the wrap ends the transfer (`xmodem.c:562`); a
sender's cancel in the middle of a packet is data; the line is not emptied
after a damaged head, so that the rest of a 1K packet is read as packets
(`ReadToItsEnd`); and a byte left in front of the line that has the value of EOT or
CAN ends the transfer (`misread`, below).

**key.** `OnlyWhatWasRead`: a bounce makes no key.  `EventsFit`: the events of a
press are complete and in order.  `UserKnows`: in the end the user knows what is
pressed.  Both are stated for as long as the user lets no event be lost; the
frontend's queue is given no such excuse, and needs none, as the detector is
faster than the filter.  The long time is 6, so that a release can come before,
during and after it; with two changes a bounce, with three a change of key under
the filter is possible.
**telegraph, the finding.** The run looks for a violation of `WaitingIsListed`:
what waits is on the list.  TLC finds two listeners of which the second times out
first; `PROJECT.json` quotes the comment and the lines.

### Deviations that the passing runs leave out

Where the code does not do what its comments and assertions say, the model has
the behaviour, and either the configuration or a named exception keeps it away
from the properties:

- `stream2block.h:386`: the 1 ms handler sizes the block lent to it without
  looking whether there is one; after the heap ran out the assertion of
  `set_block_size` fails (`StreamIn`: `TimeoutAsserts`, `starved`, `halted`).
- `stream2block.h:375`: with the receive interrupt enabled before the first read,
  as `example/app_platform/stdout_USART.c` has it, a byte that comes while
  `request_read` stores its fields is overwritten (`StreamIn`: `QuietAssumption`
  leaves out `QuietStart` FALSE with `EnabledAtInit`).
- `scheduler.c:629`: `set_event` follows `pNext` after `_register_task` has set it
  to NULL: with two waiters the second is dropped from the list and never woken
  (`Scheduler`: `WaitersAssumption` leaves out `MaxWaiters` 2).
- `scheduler.c:500`: a handler that sets the event between a task's wait and the
  scheduler's look at it makes what "should not happen" happen, a read through
  NULL (`Scheduler`: `nullRead`).
- `multiple_delay.c:227`: cancelling an item that has timed out and awaits its
  handler never returns; the count of the loop steps over zero (`MultipleDelay`:
  `CancelsPending` TRUE).
- `delegate.c:208` and `:268`: `*pptHandler` is written when a handler ends, whatever it
  has done to the list.  The head of the list that registers another one and completes
  takes the new one off the list again, and the raise returns cpl without calling it; a
  handler that unregisters itself and completes is listed again (`Delegate`: `Tear`).
- `delegate.c:136`: whether a handler is registered is read from `ptNext`, NULL for the
  last of a list too; registering it again ties the list into a loop, or the blocked
  list to the ready one (`Delegate`: `Tear`).
- `es_simple_frame.c:430`: after a wrong first half of the checksum the decoder looks for a
  head at once, and the second half is the next byte it sees.  If that is 0xAA, the head of
  the next frame is read as a length, and an intact frame is lost (`Frame`: `Harmless`).
- `xmodem.c:476-486`: any byte read where a packet begins is compared with EOT and CAN.  When
  packet 4 loses its SOH, its number is EOT: the receiver acknowledges, reports cpl, and
  the file is incomplete; packet 24 without its SOH cancels the transfer, and so may what is
  left of a longer packet (`Xmodem`: `misread`).
- `delegate.c:237`: a handler registered between two raises is the only one that
  the next raise calls, for the blocked list comes back only when the ready list
  is empty (`Delegate`: `CompletesOnce` is stated from one exchange of the lists
  to the next, not from one raise to the next).
- `bootloader.c:263`: the parser is told the size of its block and documented to
  return 0 when it fails, but reads the command from the first byte whatever the size,
  and no handler looks at the size either.  After a write whose checksum was damaged, a
  frame without data carries that write out, for its data is still in the buffer
  (`Frame`: `AnswersRight` takes what was in the buffer, `seen`, for the request; it was
  first stated over the frames alone, and its proof failed at this step).

## Fairness

`StreamOut` and `StreamIn`: weak fairness of every step of a call in progress
(the main thread runs; a call is straight-line code) and of the interrupts (an
enabled and pending interrupt is taken).  The user is never obliged to call
anything, except that a reader who is to receive bytes keeps reading.
`Scheduler`: the shell calls `scheduler()` for ever; every routine returns; a
task inside the section leaves it sooner or later (strong fairness, since the
step is possible only while that task is being run).
`MultipleDelay`: ticks never stop (weak fairness); a call and the task go on
whenever the interrupt is over (strong, because each tick disables them for a
while); the main loop calls the task for ever and every handler returns
(strong, because the main loop may do other calls before).  `TaskKeepsUp` is an
assumption on the environment, not of fairness: when the counter is about to
wrap round, after 2^32 ticks with a delay pending at each of them, the task has
taken what is due.
`Delegate`: who raises the event calls `invoke_delegate` until it returns cpl
(weak fairness of a raise in progress); a handler returns (weak), and is not
on-going for ever (strong, as it is called again and again).
`Memory`, `Sdio`, `Frame`, `Xmodem`, `Key`: the main loop polls every task for
ever (weak fairness of each task's call; the C code has no other scheduling).  In
`Memory` the chip finishes what it began; errors of a memory are not fair: a
memory that stays closed keeps requests open, which `RequestsEnd` says.  In
`Frame` the pipe takes and gives bytes again and again.  In `Xmodem` the sender
goes on; faults are limited, not fair.  In `Key` the user asks for keys, at its own
pace, and the keypad comes to rest after `CHANGES` changes.  `Telegraph` and `Crc`
state no liveness and no fairness.

## Proofs

`StreamOut_proofs` proves, for every finite set of blocks, every block size, number
of bytes and configuration allowed by the assumptions in `StreamOut`:

- `TypeCorrect`: `Spec => []TypeOK`;
- `OneOwnerAlways`: `Spec => []OneOwner`;
- `NoLostWakeUp`: `Spec => []PortAwake`.

The inductive invariant `IInv` is `TypeOK`, `Control` (what is known of the
variables at each value of `pc`), `Port` (how the adapter's fields and the
block lent to it agree), `PortAwake` and `OneOwner`.  `OneOwner` alone is not
inductive: that a block taken in `NewBlock` is nobody else's needs the heap to be
disjoint from what the port holds, and that giving back does not double-free
needs `Port`.  `PortAwake` needs `Control`: between the append and the trigger
the queue may be non-empty and the port idle, but only there.  The proof has one
lemma per conjunct, with one step per action under it.

The second part of `StreamOut_proofs` proves, under the same assumptions,

- `LimitAlways`: `Spec => []LimitRespected`.

The limit is not inductive: when the main thread is between the load and the
store of `chBlockCount++` and the handler counts down, the variable, the copy and
the blocks the stream has are three different numbers.  `CountHolds` says which
way they differ: the variable, and the copy that is about to overwrite it, are
never below the number of blocks that should be counted, and neither passes the
limit.  `Reserve` adds that the test of the heap is still true when the block is
taken, since the handler only gives blocks back.  The lemmas count blocks with
the library's facts about `Cardinality`, one for each way a block moves.

The third part of `StreamOut_proofs` proves, again under the same assumptions,

- `StreamOutIsChannel`: `Spec => ImplementsChannel`, the refinement of `ByteChannel`;
- `FlushTruthAlways`: `Spec => []FlushTruth`.

The argument numbers the bytes.  `Joins(st)` says that, if `st[b]` bytes were
accepted before the first one of block `b`, then the wire ends in the block being
sent, that block ends where the first of the list begins, each block of the list
where the next one begins, the last where the queue begins, and the queue at
`accepted`; and that each block holds the bytes so numbered.  `DataInv` is that such
an `st` exists, that the wire is `1, 2, 3, ...`, that the byte queue and its block
belong together (`QueueInUse`) and that a filled block of the user comes next
(`UserBlock`).  Only `Adopt` and `AppendUserBlock` need a new `st`, for the block that
joins; `ListGrows` and `ListPops` are the two ways the list changes.  A step then
puts at most the next byte on the wire (`WireGrows`) and never more than was accepted
(`WireBehind`), which is what `ByteChannel` allows; and where nothing is lent, listed
or queued, the same line leaves no byte behind, which is `FlushTruth`.

`StreamIn_proofs` proves `Spec => []BlocksInPlace`, for every heap, block size and
bound, and for every set of configurations that `QuietAssumption` allows: where the
receive interrupt is enabled before the first read, the line is silent during the
last stores of `request_read`.  The invariant is `TypeOK`, `OneOwner`, `Control`
(which local of the main thread is in use where) and `Port`: until a handler is left
without a block (`starved`), a port that has none stores nothing and runs into no
timeout (`PortOff`); nor does one that is being set up, and each store of
`request_read` has left what the next ones rely on (`PortSetting`); and one that has
been set up has the lent block's address, its size and an index within it (`PortOn`).
That is why neither handler can meet a half-written port (`PortStores`,
`PortTimesOut`), which is all that the main thread's missing lock could do.

The second part of `StreamIn_proofs` proves `Spec => ImplementsChannel` under the same
assumptions.  `Joins(st, e)` numbers the bytes as for `StreamOut`: what was read, the
byte queue, the blocks in `Line` (the one in hand, then the list) and the block lent to
the port, whose first byte follows the first `e` received, come after each other.
Only a handler that hands a block over needs a new numbering (`HandOver`), cut to
`hwIndex` by the timeout; the reader's own exchange finds nothing lent, so nothing
passes it by (`ExchangeJoins`).  `ReadsNext` then gives the refinement: a step delivers
at most the next byte received.

`Scheduler_proofs` proves, for every size of the pool and of the stacks and for every
set of configurations that `WaitersAssumption` allows (one task at a time waits for the
event; what `set_event` does with two is told above),

- `OnePlaceAlways`: `Spec => []OnePlace`;
- `MutualExclusionAlways`: `Spec => []MutualExclusion`.

`OnePlace` speaks of walks along `pNext`, of which no step says anything directly.  The
invariant says instead that there are four sequences of blocks, without repetition and
disjoint, along which the links lead (`Sound`), and that the heads and tails are their
ends (`Held`).  `Popped`, `Appended`, `Pushed` and `Emptied` are the four ways in which
a sequence and the links change; none mentions the scheduler.  `Placed` ties the lists to
the fields of the blocks: who is free, who waits for which flag, and that a waiter is
blocked unless it is the task being run, between its wait and the scheduler's look at it.
`Runner`, `Wants` and `OneInside` say what is known of that task, of what the tasks wait
for, and of the section.  One lemma per function moves blocks between the lists
(`RegisterLists` to `BlockLists`).  `WalkFinds` leads back: the walk from a head finds
the blocks of its sequence, for the library's least-element principle for numbers
(`Smallest`) makes two walks with the same steps equal without an induction theorem.

`Key_proofs` proves, for every set of keys and every choice of the counts:

- `ResultsAreRead`: `Spec => []OnlyWhatWasRead`;
- `CountsFit`: `Spec => []CountFits`, the filter's count never exceeds `KEY_COUNT`,
  so that the 16-bit counter in the code cannot overflow; both are parts
  of the inductive invariant `FilterInv`: the count is never more than the number of
  times that the value counted was read since the last result, a new value is counted
  only from zero, and what the frontend holds was read `KEY_COUNT` times;
- `EventsAreWhole`: `Spec => []EventsFit`;
- `NoEdgeIsLost`: `key_enqueue` finds room for every edge of the frontend, if its queue
  has two places (with one, the press that replaces another key is lost; the events
  still fit).

`EventsFit` speaks of what the user has taken so far; `EventsInv` of all that is on the
way.  `Pending`: the edges in the frontend's queue and in the detector's hand are at
most a release of the key that the detector holds and a press of the frontend's last
one.  That there are never more rests on `Pace`, which compares how often the
detector still has to be called until it has taken all edges (`Work`) with how often the
frontend will be called before it makes new ones (`Turns`: at least five times, as a
new key is read twice at least); one call of the detector does one unit of the work,
and one of the frontend uses one of the turns.  `AllTold`: the user who takes all events in
the detector's queue, each of which fits what came before it (`Leads`), knows then
what belongs to the detector's state (`Ends`).  `Enqueued` and `Dequeued` are the ring
buffer's contract, `LeadsOn` and `LeadsFirst` what it means for the user.

`MultipleDelay_proofs` proves, for every heap, every longest delay, every set of
configurations and every width of the counter (`2^Width > 2`),

- `Safety`: `Spec => []OnePlace`;
- `NotBefore`: `Spec => []NeverEarly`;
- `NotAfter`: `Spec => OnTime`.

The invariant `Inv` says that there is a function `w` from the items to the eight
places.  `Where(w)` ties it to the variables: a list holds the items whose place it
is, each once and in the order of their times (`Holds`, `InOrder`).  One lemma for each
way an item moves (`Pop`, `Enqueue`, `Insert`, `TakeOut`, and `Keep` for the lists it
does not touch) says what becomes of a list when `w` changes at one item.  `OnePlace` is
`Where` and `TypeOK`, but not inductive: that `cancel_delay` frees an item once needs
`Flow`, what is known of the main thread and its locals at each value of `pc`.  The two
properties of time need `Timed(w)`, as long as nothing is `stale`: an item on a list
has `wTargetTime - Clock` ticks to wait (`Clock` is `wCounter`, or one more while the
interrupt is counting), also before it is listed, while the request works with the
counter it has read; what is pending or being reported has waited long enough;
`wSavedCounter` is not ahead of `wCounter`, and the head that the task has found due
still is the head when it is popped, though the interrupt may have put an item on the
list.  That `wCounter` wraps round only over empty lists needs `TaskKeepsUp`.

`Delegate_proofs` proves, for every finite set of handlers,

- `Safety`: `Spec => []OneList`;
- `EachOnce`: `Spec => CompletesOnce`.

Both until a link is torn.  `OneList` speaks of what `search_list` would find, walking
along the links.  The invariant says instead that, unless a link is torn, there are two
chains, disjoint and without repetition, along which the links lead (`Holds`), that the
handlers on them are those registered, that those on the blocked list are the ones that
have completed, and that neither the iterator nor the handler being called is on that list
(`Known`).  `Cut` and `Pushed` are the two ways the links change; a chain is shown to lose
or gain one cell and the other to stay.  A step that does not tear is one whose iterator
leads to the handler that ends, or that registers a handler on no list; the types hold
past it (`TypeStep`).  The last invariant is what `CompletesOnce` needs: a handler that is
called has not completed, and when the raise ends the ready list has no handler left.

`Frame_proofs` proves, for every set of inputs, all frames of the user, every size of
the buffer and of a byte's range, every command map and table of memories that
`FrameAssumption` and `BootloaderAssumption` allow,

- `Safety`: `Spec => []OutputWhole`;
- `Answers`: `Spec => []AnswersRight`;
- `Parsed`: `Spec => []ParsedIsSent`.

`OutputWhole` is not inductive: nothing in it says who may write.  `Inv` says that the
lock is held by the one who is sending (`Locked`), that the reply in hand is still what
is in the buffer, though the decoder uses the same (`InHand`), that what the user has
still to send is the rest of its frames (`Waiting`), that the frame in the encoder is the
last one begun (`Sending`), that its checksum covers what was sent of it (`Summed`), and
that the wire carries the frames that ended and then what was written of that one
(`OnWire`).  That a frame more makes the wire longer by it is `EncodedMore`: `FlattenSeq`
chooses a recursive function, and the lemmas about it are proved by induction over its
length, for which the least element of a set of numbers does instead of the library's
theorem, whose parameter is an operator (`Least`, `Induction`).

`AnswersInv` follows the input side.  `Decoding` ties the decoder's fields to the bytes
that the checksum covers: as far as it has come, and as far as it has room, the buffer
holds the data of the frame.  `Kept` says what memory holds and whether it is locked, from
the histories alone; `Answered` that these agree in length.  One lemma gives what each
command does (`MemoryDoes`, `ParserDoes`); `OneMore` and `BeforeMore` what a further
request changes in what had been done before: for the earlier ones, nothing.

`InputInv` adds where in the input the decoder is.  `Layout` gives the place at which
each piece ends, for the line is a `FlattenSeq` too.  What has been read of a frame is
what the line carries behind a head, and after the first half of the checksum that half
too (`CoveredIn`); so when the second half is right, the line has a checksum there that
covers exactly those bytes, and the only bytes of a checksum on a line are at the end of
a frame (`FrameAt`).  This half holds whatever the line does and whatever is taken for a
head.  It rests on what
`FrameAssumption` says of the input: noise is bytes, none of them a checksum's, and
damage changes the byte, which is what a perfect checksum means.  That no frame is missed
needs `Harmless`: the decoder that looks for a head is not within an undamaged frame and
meets no head before the next piece (`Calm`), the one in a frame took that frame's head
for the head and its length for the length (`OnFrame`); so it leaves a frame only at the
frame's end, or one byte before it if the first half of the checksum was wrong, and then
that byte is the last one of a damaged frame, which `Harmless` says is no head
(`WrongLWhole`).

`Memory_proofs` proves, for every size of the flash, of its pages, programs and reads,
every request, and whatever the rival does:

- `AtRest`: `Spec => []DriverAtRest`;
- `Stored`: `Spec => []StoredAsWritten`;
- `Returns`: `Spec => ReadReturnsContent`.

The first property speaks of an idle driver only; its invariant must say where every sequence
is while an operation has the driver.  `DriverInv` allows three states: not ready and
`Quiet` (every machine at its start, the chip deselected and protected, but perhaps at
work or unlatched, as a reset of the controller leaves it); idle, `Quiet` and `Clean`
(neither at work nor unlatched); or busy with exactly one operation (`Only`), which is at
a place that `Programming`, `Reading` or `Erasing` describe (`At`).  `Reading` must also
know what the chip received so far (`Begun`): a read ends clean because the command that
#CS carries out is one that changes nothing.  `CheckDeviceDoes` is why the others end clean
too: `check_device_state` completes only when it read neither a busy chip nor a set latch.
`But(s, t, F)` says that a step changes the statics `F` and no others; each sequence has a
lemma with the statics it may change, and `RunGoes` is the two ways in which any call of an
operation ends.  `Goes` is what every call keeps; above it, `Fine` says that a step of the
page service makes at most one such call, and `IInv` adds that `sdf_init` is only called
again while the driver is closed or reads its identifier (`Opening`).  This proof assumes
nothing of the constants; the other two need `FlashAssumption` (sizes that are not zero,
a memory that its addresses reach) and `MemoryAssumption` (addresses and sizes are natural
numbers).

`StoredAsWritten` says nothing while a request is under way, and a request may be under
way for many calls, with the writer waiting in any of eleven states, the reader in two,
the driver at any byte, and cells that are half written.  `CellsInv` says what they are
then, in three layers.

- The chip.  `Work(s, f, p, d, c)`: the cells are `c`, but for what operation `f` of the
  driver has done so far of page `p` with data `d`.  Programming can only clear bits,
  so `WriteOf` has the first units of the page written (`Painted`) and the others still erased
  (`IsWiped`), and says for the unit on the bus what the chip has heard of it (`Stuffed`,
  `HasUnit`): the address of this unit and as many of its bytes as the counter tells.  `ReadOf`
  says the same of a page read.  `Does` is `Work` or, for the RAM, simply that it holds
  `c`.  The four calls of `mal.c` that the page service makes have a lemma each: a call
  that completes has done its operation, one that does not, or fails, keeps `Does`.
- The page service.  `Merged(c, w, n)` is `c` with request `w` carried out up to address `n`;
  `WriterAt` gives for each state what the buffer holds, what is under way and over which
  cells, in terms of `Merged` up to `wAddress`.  `Leading` and `Trailing` say it of the first
  and the last page, where the buffer is the image of the old page until `bModified`
  is set and that of the new page afterwards.  `WriteAdvances` goes through the states, one
  lemma for each: a call ends in a state of the same kind or completes with
  `Merged(c, w, w.a + w.size)`, which is what `content` becomes.  `Getting` and `Gains` are the
  same for the reader, where what was returned so far is a `Copy` of the cells.
- The two of them and the rival.  `Shared`: at most one of the writer and the reader is
  under way, the lock is closed exactly then, and otherwise nothing is under way but the
  rival's verify.  An erase of the whole chip takes effect inside it, before the rival sees
  its end and `content` changes: `BaseOf` counts it from where the chip carries it out.
  That no request is half done then is `Waiting`: who asked for its first page and finds the memory
  held stays at that page (`Held`, `Fresh`, `Unread`), so that the erase comes before all
  of the request or after it.


Only model-checked: all liveness (out of the prover's reach); and everything about
`Sdio` and `Xmodem`, nested machines of many states whose inductive invariants are not
written (of the size of `Memory_proofs`', which has the same kind of machine), and about
`Crc`, whose checks are folds over words of bits: what a fold computes is induction over
data, which needs a lemma of its own for each of them, as `Frame_proofs` has for
`FlattenSeq`.

## Not modelled, and why

- Dispose of a stream (the code has no way to stop the port first), `ReadBlock`, and
  the raw block interface for ports other than the adapters; several task queues in
  the scheduler (a configuration the repository does not use); nested interrupts;
  cancels made by a handler inside the tick.
- `epool`'s adding of items to a heap that is in use: an item is on the free list
  before its init handler has run (`epool.c:87`), so that an interrupt may take it
  uninitialised; the models start with filled heaps.
- `sdio_change_clock`; NULL pointers and transfers of no bytes in the SDIO host
  (the number of blocks then wraps to 65535); an Xmodem transfer after one that
  failed (`s_chPacketNumber` is reset by EOT and CAN alone, `xmodem.c:464`);
  decryption and permutation in the bootloader; the accessors of a telegraph.
- The scheduler's shell, the random generator, the gui shells, architecture and
  start-up code, generated macros: no state of their own that could go wrong, or a
  fixed sequence.

## Plan

1. (done) Streams, their adapters and blocks, the scheduler; type correctness,
   ownership and the wake-up of the output stream proved.
2. (done) The delay service, the delegate, memory, checks, SDIO, frame and
   bootloader, xmodem, key, telegraph; the filter of the keys proved.
3. (done) All invariants of `StreamOut`, `StreamIn`, `Scheduler`, `Delegate` and
   `MultipleDelay`, the streams' refinements of `ByteChannel`, and what `Frame` sends,
   parses and answers, the events of `Key`, and of `Memory` the flash driver at rest, what
   the cells hold and what a read returns, proved.  Proofs still to write: `Sdio` and
   `Xmodem`.
4. `Telegraph` over `MultipleDelay` instead of its reduced delay service, once the
   removal from a list is mended.
