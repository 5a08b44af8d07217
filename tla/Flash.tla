-------------------------------- MODULE Flash --------------------------------
(***************************************************************************)
(* The serial flash driver (mal/sdf_w25qxxx) and the chip behind it.       *)
(*                                                                         *)
(* The driver is a tree of state machines kept in static variables: an     *)
(* operation (page write, read, erase, ...) calls the sequences it is made *)
(* of, each call moves the machine a little and returns, and the caller    *)
(* calls again until it gets "cpl".  A machine is an operator here: it     *)
(* takes the statics s and returns them with the result r of the call.     *)
(* One call completes one exchange on the bus; calls that complete none    *)
(* return "on_going" and change nothing.                                   *)
(*                                                                         *)
(* A byte has the values 0 .. RADIX-1 where it is a digit of an address,   *)
(* and is a cell's content where it is data.                               *)
(***************************************************************************)
EXTENDS Integers, Sequences

CONSTANTS
    PAGES,          \* SPI_FLASH_SIZE / SPI_FLASH_PAGE_SIZE
    PROGRAMS,       \* SPI_FLASH_PAGE_SIZE / PROGRAM_SIZE
    PROGRAM_SIZE,   \* cells programmed by one command
    VERIFY_SIZE,    \* VERIFY_BUFFER_SIZE
    RADIX,          \* values of an address byte
    ERASED,         \* content of an erased cell
    MIXED           \* content of a cell programmed twice

ASSUME FlashAssumption ==
    /\ {PAGES, PROGRAMS, PROGRAM_SIZE, VERIFY_SIZE, RADIX} \subseteq Nat \ {0}
    /\ PAGES * PROGRAMS * PROGRAM_SIZE <= RADIX * RADIX * RADIX
    /\ ERASED # MIXED

PAGE_SIZE == PROGRAMS * PROGRAM_SIZE
FLASH_SIZE == PAGES * PAGE_SIZE
Addresses == 0 .. FLASH_SIZE - 1

States == {"not_ready", "idle", "busy"}       \* em_mem_status_t
Results == {"on_going", "cpl", "err", "busy"} \* "busy" is GSF_ERR_NOT_READY

Return(s, r) == [s |-> s, r |-> r]
IsErr(r) == r \in {"err", "busy"}

-----------------------------------------------------------------------------
(* The chip: what it received since #CS went low, and the command it carries *)
(* out when #CS goes high.                                                   *)

Address(rx) == rx[2] * RADIX * RADIX + rx[3] * RADIX + rx[4]

Program(cells, a, data) ==
    [c \in DOMAIN cells |->
        IF c \in a .. a + Len(data) - 1
        THEN IF cells[c] = ERASED THEN data[c - a + 1] ELSE MIXED
        ELSE cells[c]]

Erase(cells, set) == [c \in DOMAIN cells |-> IF c \in set THEN ERASED ELSE cells[c]]

PageCells(p) == p * PAGE_SIZE .. (p + 1) * PAGE_SIZE - 1

\* A busy chip ignores every command; a change needs the write enable latch
\* and the protection pin released.
Execute(s) ==
    LET rx == s.rx
        cmd == IF rx = <<>> \/ s.chipBusy THEN "none" ELSE rx[1]
        write == s.wel /\ ~s.protected
    IN CASE cmd = "enable_write"  -> [s EXCEPT !.wel = TRUE]
         [] cmd = "disable_write" -> [s EXCEPT !.wel = FALSE]
         [] cmd = "program" /\ write /\ Len(rx) > 4 ->
                [s EXCEPT !.cells = Program(@, Address(rx), SubSeq(rx, 5, Len(rx))),
                          !.chipBusy = TRUE]
         [] cmd = "sector_erase" /\ write /\ Len(rx) = 4 ->
                [s EXCEPT !.cells = Erase(@, PageCells(Address(rx) \div PAGE_SIZE)),
                          !.chipBusy = TRUE]
         [] cmd = "chip_erase" /\ write /\ Len(rx) = 1 ->
                [s EXCEPT !.cells = Erase(@, DOMAIN @), !.chipBusy = TRUE]
         [] OTHER -> s

\* The chip ends a program or an erase, and clears its latch.
ChipDone(s) == [s EXCEPT !.chipBusy = FALSE, !.wel = FALSE]

CLR_CS(s) == [s EXCEPT !.cs = "low", !.rx = <<>>]
SET_CS(s) == [Execute(s) EXCEPT !.cs = "high", !.rx = <<>>]

\* One byte out; the chip answers to READ_STATUS for ever, to READ from the
\* fourth byte on.  A high #CS leaves the chip deaf.
EXCHANGE(s, byte) ==
    IF s.cs = "low" /\ (s.rx = <<>> \/ s.rx[1] # "read_status")
    THEN [s EXCEPT !.rx = Append(@, byte)]
    ELSE s

Answer(s) ==
    LET a == Address(s.rx) + Len(s.rx) - 4
    IN IF s.cs = "low" /\ ~s.chipBusy /\ Len(s.rx) >= 4 /\ s.rx[1] = "read"
          /\ a \in DOMAIN s.cells
       THEN s.cells[a] ELSE MIXED

-----------------------------------------------------------------------------
(* Sequences the operations are made of. *)

\* fsm_sdf_spi_stream_exchange(pchOut, NULL, Len(out)): the call that finds
\* the machine at its start sets the counter and the pointer, and returns.
StreamOut(s, out) ==
    IF s.stream = "start"
    THEN Return([s EXCEPT !.stream = "write_only", !.counter = Len(out), !.out = out], "on_going")
    ELSE LET s1 == [EXCHANGE(s, Head(s.out)) EXCEPT !.counter = @ - 1, !.out = Tail(@)]
         IN IF s1.counter = 0
            THEN Return([s1 EXCEPT !.stream = "start"], "cpl")
            ELSE Return(s1, "on_going")

\* fsm_sdf_spi_stream_exchange(NULL, pchIn, size): in is what the buffer holds.
StreamIn(s, size) ==
    IF s.stream = "start"
    THEN Return([s EXCEPT !.stream = "read_only", !.counter = size, !.in = <<>>], "on_going")
    ELSE LET s1 == [EXCHANGE(s, "dummy") EXCEPT !.counter = @ - 1, !.in = Append(@, Answer(s))]
         IN IF s1.counter = 0
            THEN Return([s1 EXCEPT !.stream = "start"], "cpl")
            ELSE Return(s1, "on_going")

BugCheckDevice(s) ==
    CASE s.check = "start" ->
            Return([EXCHANGE(CLR_CS(s), "read_status") EXCEPT !.check = "read_status"], "on_going")
      [] s.check = "read_status" ->
            IF s.wel
            THEN Return([CLR_CS(SET_CS(s)) EXCEPT !.check = "disable_write"], "on_going")
            ELSE Return([SET_CS(s) EXCEPT !.check = "start"], "cpl")
      [] s.check = "disable_write" ->
            Return([SET_CS(EXCHANGE(s, "disable_write")) EXCEPT !.check = "start"], "on_going")

\* check_device_state(): waits until the chip is not busy; if the latch is
\* still set it sends the command that clears it and starts again.
CheckDevice(s) ==
    CASE s.check = "start" ->
            Return([EXCHANGE(CLR_CS(s), "read_status") EXCEPT !.check = "read_status"], "on_going")
      [] s.check = "read_status" ->
            IF s.chipBusy THEN Return(s, "on_going")
            ELSE IF s.wel
            THEN Return([CLR_CS(SET_CS(s)) EXCEPT !.check = "disable_write"], "on_going")
            ELSE Return([SET_CS(s) EXCEPT !.check = "start"], "cpl")
      [] s.check = "disable_write" ->
            Return([SET_CS(EXCHANGE(s, "disable_write")) EXCEPT !.check = "start"], "on_going")

\* write_command_and_address(): the command, then the address, high byte first.
AddressByte(a, n) == (a \div (IF n = 0 THEN 1 ELSE IF n = 1 THEN RADIX ELSE RADIX * RADIX)) % RADIX

CommandAndAddress(s, cmd, a) ==
    IF s.wca = "start"
    THEN Return([EXCHANGE(s, cmd) EXCEPT !.wca = "address", !.addressCounter = 2], "on_going")
    ELSE LET s1 == EXCHANGE(s, AddressByte(a, s.addressCounter))
         IN IF s.addressCounter = 0
            THEN Return([s1 EXCEPT !.wca = "start"], "cpl")
            ELSE Return([s1 EXCEPT !.addressCounter = @ - 1], "on_going")

\* enable_write(): one command between two edges of #CS.
EnableWrite(s) == Return(SET_CS(EXCHANGE(CLR_CS(s), "enable_write")), "cpl")

\* sdf_page_program(): latch, unprotect, command and address, data, protect,
\* then wait for the chip.
PageProgram(s, unit, data) ==
    CASE s.prog = "start" ->
            Return([CLR_CS([EnableWrite(s).s EXCEPT !.protected = FALSE])
                       EXCEPT !.prog = "command"], "on_going")
      [] s.prog = "command" ->
            LET x == CommandAndAddress(s, "program", unit * PROGRAM_SIZE)
            IN Return(IF x.r = "cpl" THEN [x.s EXCEPT !.prog = "data"] ELSE x.s, "on_going")
      [] s.prog = "data" ->
            LET x == StreamOut(s, data)
            IN Return(IF x.r = "cpl"
                      THEN [SET_CS(x.s) EXCEPT !.protected = TRUE, !.prog = "check"]
                      ELSE x.s, "on_going")
      [] s.prog = "check" ->
            LET x == CheckDevice(s)
            IN IF x.r = "cpl" THEN Return([x.s EXCEPT !.prog = "start"], "cpl") ELSE x

-----------------------------------------------------------------------------
(* Operations.  Every one of them claims the driver: the test of             *)
(* s_CurrentState and the change to "busy" are one atomic region.            *)

Refusal(s) == IF s.state = "not_ready" THEN "err" ELSE "busy"
Claim(s) == [s EXCEPT !.state = "busy"]
Release(s) == [s EXCEPT !.state = "idle"]

\* sdf_page_write(): one program per unit of the page; the page number is
\* read on each call, the buffer's address only on the first.
PageWriteRun(s, p) ==
    LET data == SubSeq(s.page, 1, PROGRAM_SIZE)
        x == PageProgram(s, p * PROGRAMS + s.programIndex, data)
        s1 == [x.s EXCEPT !.programIndex = @ + 1,
                          !.page = SubSeq(@, PROGRAM_SIZE + 1, Len(@))]
    IN IF x.r = "on_going" THEN x
       ELSE IF s1.programIndex >= PROGRAMS
       THEN Return([Release(s1) EXCEPT !.write = "start"], "cpl")
       ELSE Return(s1, "on_going")

sdf_page_write(s, p, data) ==
    IF s.write = "start"
    THEN IF p >= PAGES THEN Return(s, "err")
         ELSE IF s.state # "idle" THEN Return(s, Refusal(s))
         ELSE PageWriteRun([Claim(s) EXCEPT !.write = "write_page",
                                            !.programIndex = 0, !.page = data], p)
    ELSE PageWriteRun(s, p)

\* Read-type operations: wait for the chip, command and address, data.
ReadRun(s, f, cmd, a, size) ==
    CASE s[f] = "check" ->
            LET x == CheckDevice(s)
            IN Return(IF x.r = "cpl" THEN [CLR_CS(x.s) EXCEPT ![f] = "command"] ELSE x.s,
                      "on_going")
      [] s[f] = "command" ->
            LET x == CommandAndAddress(s, cmd, a)
            IN Return(IF x.r = "cpl" THEN [x.s EXCEPT ![f] = "fetch"] ELSE x.s, "on_going")
      [] s[f] = "fetch" ->
            LET x == StreamIn(s, size)
            IN IF x.r = "cpl"
               THEN Return([Release(SET_CS(x.s)) EXCEPT ![f] = "start"], "cpl")
               ELSE x

Read(s, f, cmd, a, size) ==
    IF s[f] # "start" THEN ReadRun(s, f, cmd, a, size)
    ELSE IF s.state # "idle" THEN Return(s, Refusal(s))
    ELSE ReadRun([Claim(s) EXCEPT ![f] = "check"], f, cmd, a, size)

sdf_read_random(s, a, size) ==
    IF s.read = "start" /\ a + size > FLASH_SIZE THEN Return(s, "err")
    ELSE IF s.read = "start" /\ size = 0 THEN Return(s, "cpl")
    ELSE Read(s, "read", "read", a, size)

sdf_page_read(s, p, offset, size) == sdf_read_random(s, p * PAGE_SIZE + offset, size)

\* The identifiers: `in` is what the caller's variable gets when the call completes.
fsm_sdf_read_device_ID(s) == Read(s, "did", "device_id", 0, 2)
fsm_sdf_read_unique_ID(s) == Read(s, "uid", "unique_id", 0, 8)

\* sdf_page_verify(): reads the range in pieces and compares each; an error
\* of the read leaves the machine where it is.
VerifyPiece(s) ==
    LET n == IF s.verifyLeft > VERIFY_SIZE THEN VERIFY_SIZE ELSE s.verifyLeft
    IN [s EXCEPT !.verify = "read", !.verifySize = n, !.verifyLeft = @ - n]

VerifyRun(s) ==
    LET x == sdf_read_random(s, s.verifyAddress, s.verifySize)
        same == x.s.in = SubSeq(s.verifyData, 1, s.verifySize)
        next == [x.s EXCEPT !.verifyData = SubSeq(@, s.verifySize + 1, Len(@)),
                            !.verifyAddress = @ + s.verifySize]
    IN IF x.r # "cpl" THEN x
       ELSE IF ~same THEN Return([x.s EXCEPT !.verify = "start"], "err")
       ELSE Return([next EXCEPT !.verify = "range"], "on_going")

sdf_page_verify(s, p, offset, data) ==
    CASE s.verify = "start" ->
            LET a == p * PAGE_SIZE + offset
            IN IF a + Len(data) > FLASH_SIZE THEN Return(s, "err")
               ELSE IF data = <<>> THEN Return(s, "cpl")
               ELSE VerifyRun(VerifyPiece([s EXCEPT !.verifyAddress = a, !.verifyData = data,
                                                    !.verifyLeft = Len(data)]))
      [] s.verify = "range" ->
            IF s.verifyLeft = 0 THEN Return([s EXCEPT !.verify = "start"], "cpl")
            ELSE VerifyRun(VerifyPiece(s))
      [] s.verify = "read" -> VerifyRun(s)

\* The erases: latch, unprotect, command (with the sector's address, or
\* alone for the chip), protect, wait for the chip.
EraseRun(s, f, Command(_)) ==
    CASE s[f] = "enable" ->
            Return([CLR_CS([EnableWrite(s).s EXCEPT !.protected = FALSE])
                       EXCEPT ![f] = "command"], "on_going")
      [] s[f] = "command" ->
            LET x == Command(s)
            IN Return(IF x.r = "cpl"
                      THEN [SET_CS(x.s) EXCEPT !.protected = TRUE, ![f] = "ready"]
                      ELSE x.s, "on_going")
      [] s[f] = "ready" ->
            LET x == CheckDevice(s)
            IN IF x.r = "cpl" THEN Return([Release(x.s) EXCEPT ![f] = "start"], "cpl") ELSE x

EraseCall(s, f, Command(_)) ==
    IF s[f] # "start" THEN EraseRun(s, f, Command)
    ELSE IF s.state # "idle" THEN Return(s, Refusal(s))
    ELSE EraseRun([Claim(s) EXCEPT ![f] = "enable"], f, Command)

sdf_page_erase(s, p) ==
    LET Command(t) == CommandAndAddress(t, "sector_erase", p * PAGE_SIZE)
    IN IF s.erase = "start" /\ p >= PAGES THEN Return(s, "err")
       ELSE EraseCall(s, "erase", Command)

sdf_chip_erase(s) ==
    LET Command(t) == Return(EXCHANGE(t, "chip_erase"), "cpl")
    IN EraseCall(s, "chip", Command)

-----------------------------------------------------------------------------
(* Life cycle. *)

\* sdf_init(): interrupts are off until the bus is open.  spi and open are
\* what SDF_SPI_INIT and SDF_SPI_OPEN return, and hwID the identifier the chip
\* answers, which must not be zero.  The driver stays idle where it ends in an
\* error after the bus is open.
sdf_init(s, spi, open, hwID) ==
    LET opened == [s EXCEPT !.protected = TRUE, !.state = "idle", !.irq = TRUE,
                            !.init = "read"]
        x == fsm_sdf_read_device_ID(IF s.init = "read" THEN s ELSE opened)
    IN IF s.init = "start" /\ ~spi THEN Return(s, "err")
       ELSE IF s.init # "read" /\ open = "err"
       THEN Return([s EXCEPT !.init = "start", !.irq = TRUE], "err")
       ELSE IF s.init # "read" /\ open = "on_going"
       THEN Return([s EXCEPT !.init = "open", !.irq = FALSE], "on_going")
       ELSE IF x.r = "on_going" THEN x
       ELSE Return([x.s EXCEPT !.init = "start"],
                   IF IsErr(x.r) \/ hwID = 0 THEN "err" ELSE "cpl")

\* sdf_finish(): close is what SDF_SPI_CLOSE returns; an operation that is
\* under way is not looked at.
sdf_finish(s, close) ==
    IF close = "cpl" THEN Return([s EXCEPT !.state = "not_ready"], "cpl")
    ELSE Return(s, "on_going")

\* Power-up: the controller may restart while the chip is at work.
FlashInit(cells, wel, busy) ==
    [state |-> "not_ready", irq |-> TRUE,
     init |-> "start", write |-> "start", read |-> "start", verify |-> "start",
     erase |-> "start", chip |-> "start", did |-> "start", uid |-> "start",
     prog |-> "start", check |-> "start", wca |-> "start", stream |-> "start",
     addressCounter |-> 0, counter |-> 0, programIndex |-> 0,
     out |-> <<>>, in |-> <<>>, page |-> <<>>,
     verifyAddress |-> 0, verifyLeft |-> 0, verifySize |-> 0, verifyData |-> <<>>,
     cs |-> "high", rx |-> <<>>, protected |-> TRUE, wel |-> wel, chipBusy |-> busy,
     cells |-> cells]
=============================================================================
