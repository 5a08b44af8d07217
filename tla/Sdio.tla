--------------------------------- MODULE Sdio ---------------------------------
(***************************************************************************)
(* The SDIO host in software (hal/component/sw_sdio) and a card.           *)
(*                                                                         *)
(* Two state machines, one for commands and one for data, are polled in    *)
(* any order.  Each makes the clock it needs, except in a synchronous      *)
(* receive: then both sample the same clock, which sdio_work_sync makes in *)
(* the calls of the command machine, and s_chSDIOClkSync holds their       *)
(* hands.                                                                  *)
(*                                                                         *)
(* As in Flash a machine is an operator from the statics s to the statics  *)
(* and the result of a call.  A bit is <<0>>, <<1>>, or a token for a bit  *)
(* of a payload or of a checksum; a checksum is taken as perfect (Crc has  *)
(* what it can do).                                                        *)
(***************************************************************************)
EXTENDS Integers, Sequences, SequencesExt

CONSTANTS
    BITS,                   \* bits of a byte
    SHORT_RESPONSE_LENGTH,  \* bytes of a command and of a short response
    LONG_RESPONSE_LENGTH,
    CRC_BITS,               \* bits of a block's checksum
    BLOCK,                  \* tBlockSize
    SDIO_WORK_CLOCK,
    SDIO_RESPONSE_TIME,
    SDIO_READ_TIME,
    SDIO_BUSY_TIME,
    INIT_CLOCKS,
    CLOCK_DIV,              \* s_tSDIOCfg.chClockDiv
    Requests,               \* what may be asked of host and card
    ROUNDS                  \* requests one after the other

ASSUME SdioAssumption ==
    {BITS, SHORT_RESPONSE_LENGTH, LONG_RESPONSE_LENGTH, CRC_BITS, BLOCK, SDIO_WORK_CLOCK,
     SDIO_RESPONSE_TIME, SDIO_READ_TIME, SDIO_BUSY_TIME, INIT_CLOCKS, ROUNDS} \subseteq Nat \ {0}

Return(s, r) == [s |-> s, r |-> r]

Zero == <<0>>
One == <<1>>
Bad == <<2>>
Ones(n) == [k \in 1 .. n |-> One]
Check(bits, n) == [k \in 1 .. n |-> <<"crc", bits, k>>]
Byte(kind, i) == [k \in 1 .. BITS |-> <<kind, i, k>>]
Bytes(kind, from, to) == FlattenSeq([i \in 1 .. to - from + 1 |-> Byte(kind, from + i - 1)])

\* A frame on the CMD line: the start bit, the bytes with their checksum.
Body(kind, bytes) == Tail(Bytes(kind, 1, bytes - 1))
Command == <<Zero>> \o Body("command", SHORT_RESPONSE_LENGTH)
           \o [Check(Body("command", SHORT_RESPONSE_LENGTH), BITS) EXCEPT ![BITS] = One]

-----------------------------------------------------------------------------
(* The card.  It takes a bit at each rising edge and shows one at each       *)
(* falling edge.                                                             *)

Damage(bits) == [bits EXCEPT ![Len(bits)] = Bad]

Response(q) ==
    LET n == IF q.cmd = "EXPAND" THEN LONG_RESPONSE_LENGTH ELSE SHORT_RESPONSE_LENGTH
        body == Body("response", n)
        covered == IF q.cmd = "EXPAND" THEN SubSeq(body, BITS, Len(body)) ELSE body
        crc == Check(covered, BITS)
    IN <<Zero>> \o body \o (CASE q.answer = "good" -> crc
                              [] q.answer = "bad" -> Damage(crc)
                              [] q.answer = "ones" -> Ones(BITS))

\* The blocks of a transfer of size bytes: first and last byte of each.
BlockCount(size) == (size + BLOCK - 1) \div BLOCK
BlockBits(size, b) == Bytes("data", (b - 1) * BLOCK + 1, IF b * BLOCK < size THEN b * BLOCK ELSE size)

ReadBlocks(q) ==
    FlattenSeq([b \in 1 .. BlockCount(q.size) |->
        LET bits == BlockBits(q.size, b)
            last == b = BlockCount(q.size)
            crc == Check(bits, CRC_BITS)
        IN <<Zero>> \o bits \o (IF last /\ q.block = "bad" THEN Damage(crc) ELSE crc)
           \o <<IF last /\ q.block = "stop" THEN Zero ELSE One>>])

\* After a whole command.
Answered(s) ==
    LET q == s.card
    IN [s EXCEPT
          !.cmdQ = IF q.cmd = "NO_RESPONSE" \/ q.answer = "silent" THEN <<>>
                   ELSE Ones(q.delay) \o Response(q),
          !.dataQ = IF q.data = "read" /\ q.block # "silent" THEN Ones(q.wait) \o ReadBlocks(q)
                    ELSE <<>>]

\* After a whole block: two clocks, the status, the busy time.
Stored(s, bits) ==
    LET q == s.card
    IN [s EXCEPT
          !.stored = @ \o bits,
          !.dataQ = Ones(2) \o (IF q.block = "refused" THEN <<Zero, One, Zero, One, One>>
                                ELSE <<Zero, Zero, One, Zero, One>>)
                    \o [k \in 1 .. q.wait |-> Zero]]

Listen(s) ==
    LET got == IF s.gotCmd # <<>> \/ s.cmd = Zero THEN Append(s.gotCmd, s.cmd) ELSE <<>>
    IN IF got = Command THEN Answered([s EXCEPT !.gotCmd = <<>>])
       ELSE [s EXCEPT !.gotCmd = got]

ListenData(s) ==
    LET q == s.card
        got == IF s.gotData # <<>> \/ s.data = Zero THEN Append(s.gotData, s.data) ELSE <<>>
        bits == BlockBits(q.size, (Len(s.stored) \div (BLOCK * BITS)) + 1)
    IN IF q.data = "write" /\ got = <<Zero>> \o bits \o Check(bits, CRC_BITS) \o <<One>>
       THEN Stored([s EXCEPT !.gotData = <<>>], bits)
       ELSE [s EXCEPT !.gotData = got]

NextBit(queue) == IF queue = <<>> THEN One ELSE Head(queue)
Rest(queue) == IF queue = <<>> THEN <<>> ELSE Tail(queue)

SET_SDIO_CLK(s) == IF s.clk = 1 THEN s ELSE ListenData(Listen([s EXCEPT !.clk = 1]))
CLR_SDIO_CLK(s) ==
    IF s.clk = 0 THEN s
    ELSE [s EXCEPT !.clk = 0, !.cmdIn = NextBit(s.cmdQ), !.cmdQ = Rest(@),
                   !.dataIn = NextBit(s.dataQ), !.dataQ = Rest(@)]

-----------------------------------------------------------------------------
(* The clock. *)

\* sdio_work_clk(): n clocks.
sdio_work_clk(s, n) ==
    CASE s.work.at = "start" ->
            Return([CLR_SDIO_CLK(s) EXCEPT !.work = [at |-> "low", time |-> 0, count |-> n]], "on_going")
      [] s.work.at # "start" /\ CLOCK_DIV >= s.work.time ->
            Return([s EXCEPT !.work.time = @ + 1], "on_going")
      [] s.work.at = "low" /\ CLOCK_DIV < s.work.time ->
            Return([SET_SDIO_CLK(s) EXCEPT !.work.at = "high", !.work.time = 1], "on_going")
      [] s.work.at = "high" /\ CLOCK_DIV < s.work.time ->
            IF s.work.count = 1
            THEN Return([s EXCEPT !.work = [at |-> "start", time |-> 0, count |-> 0]], "cpl")
            ELSE Return([CLR_SDIO_CLK(s) EXCEPT !.work = [at |-> "low", time |-> 0,
                                                          count |-> s.work.count - 1]], "on_going")

\* Mutation: the count is not reset.
BugCountKept(s) ==
    LET t == [s EXCEPT !.sync = @ \ {"LOW1", "LOW2", "HIGH1", "HIGH2"}, !.workSync = "start"]
    IN IF ~({"HIGH1", "HIGH2"} \subseteq s.sync) THEN Return(s, "on_going")
       ELSE IF ~({"CLK", "CMD", "DATA"} \subseteq s.sync) THEN Return(t, "on_going")
       ELSE IF s.clockCount + 1 = SDIO_WORK_CLOCK THEN Return([t EXCEPT !.clockCount = @ + 1], "cpl")
       ELSE Return([t EXCEPT !.clockCount = @ + 1], "on_going")

\* sdio_work_sync(): one edge when both have seen the other; after both are
\* done, SDIO_WORK_CLOCK clocks more.
SyncHigh(s) ==
    LET t == [s EXCEPT !.sync = @ \ {"LOW1", "LOW2", "HIGH1", "HIGH2"}, !.workSync = "start"]
    IN IF ~({"HIGH1", "HIGH2"} \subseteq s.sync) THEN Return(s, "on_going")
       ELSE IF ~({"CLK", "CMD", "DATA"} \subseteq s.sync) THEN Return(t, "on_going")
       ELSE IF s.clockCount + 1 = SDIO_WORK_CLOCK THEN Return([t EXCEPT !.clockCount = 0], "cpl")
       ELSE Return([t EXCEPT !.clockCount = @ + 1], "on_going")

SyncLow(s) ==
    IF ~({"LOW1", "LOW2"} \subseteq s.sync) THEN Return(s, "on_going")
    ELSE IF "RESET" \in s.sync
    THEN Return([SET_SDIO_CLK(s) EXCEPT !.workSync = "start"], "on_going")
    ELSE SyncHigh([SET_SDIO_CLK(s) EXCEPT !.workSync = "high"])

sdio_work_sync(s) ==
    CASE s.workSync = "start" ->
            IF "CLK" \notin s.sync THEN Return(s, "on_going")
            ELSE SyncLow([CLR_SDIO_CLK(s) EXCEPT !.workSync = "low"])
      [] s.workSync = "low" -> SyncLow(s)
      [] s.workSync = "high" -> SyncHigh(s)

\* Mutation: a high level is an edge.
BugLevel(s, f, low, high) ==
    IF s.clk = 1 THEN Return([s EXCEPT !.sync = @ \cup {low, high}], "cpl") ELSE Return(s, "on_going")

\* sdio_cmd_sync(), sdio_data_sync(): the other side of that handshake.
Follow(s, f, low, high) ==
    LET t == IF s[f] = "low" /\ s.clk = 0
             THEN [s EXCEPT !.sync = @ \cup {low}, ![f] = "high"] ELSE s
    IN IF t[f] = "high" /\ s.clk = 1
       THEN Return([t EXCEPT !.sync = @ \cup {high}, ![f] = "low"], "cpl")
       ELSE Return(t, "on_going")

sdio_cmd_sync(s) == Follow(s, "cmdSync", "LOW1", "HIGH1")
sdio_data_sync(s) == Follow(s, "dataSync", "LOW2", "HIGH2")

-----------------------------------------------------------------------------
(* Bits and frames. *)

\* n bits of a line, each after a clock; which clock is looked up each time.
ReadBits(s, f, line, n, Sync(_)) ==
    LET t == IF s[f].at = "start" THEN [s EXCEPT ![f] = [at |-> "clock", left |-> n, bits |-> <<>>]] ELSE s
        Take(x) ==
            LET u == [x.s EXCEPT ![f].bits = Append(@, x.s[line]), ![f].left = @ - 1]
            IN IF x.r # "cpl" THEN Return(x.s, "on_going")
               ELSE IF u[f].left = 0 THEN Return([u EXCEPT ![f].at = "start"], "cpl")
               ELSE Return(u, "on_going")
    IN Take(IF "CLK" \in s.sync THEN Sync(t) ELSE sdio_work_clk(t, 1))

sdio_read_cmd_bit(s, n) == ReadBits(s, "cmdBits", "cmdIn", n, sdio_cmd_sync)
sdio_read_data_bit(s, n) == ReadBits(s, "dataBits", "dataIn", n, sdio_data_sync)

\* sdio_write_bit(): bits, the first of them first, each with a clock.
sdio_write_bit(s, bits, line) ==
    LET t == IF s.write = 0 THEN [s EXCEPT !.write = 1, ![line] = bits[1]] ELSE [s EXCEPT ![line] = bits[s.write]]
        Clocked(x) ==
            IF x.r # "cpl" THEN x
            ELSE IF t.write = Len(bits) THEN Return([x.s EXCEPT !.write = 0], "cpl")
            ELSE Return([x.s EXCEPT !.write = @ + 1], "on_going")
    IN Clocked(sdio_work_clk(t, 1))

\* sdio_write_cmd(): byte by byte.
sdio_write_cmd(s) ==
    LET Then(x) ==
            IF x.r # "cpl" THEN x
            ELSE IF x.s.cmdByte + 1 = SHORT_RESPONSE_LENGTH THEN Return([x.s EXCEPT !.cmdByte = 0], "cpl")
            ELSE Return([x.s EXCEPT !.cmdByte = @ + 1], "on_going")
    IN Then(sdio_write_bit(s, SubSeq(Command, s.cmdByte * BITS + 1, (s.cmdByte + 1) * BITS), "cmd"))

\* Mutation: the end is not told to the other.
BugEndsAlone(s, f, flag, status, syncStatus) ==
    IF "CLK" \in s.sync
    THEN Return([s EXCEPT ![f].status = syncStatus, ![f].at = "wait_sync"], "on_going")
    ELSE Return([s EXCEPT ![f].status = status, ![f].at = "start"], "cpl")

\* The end of a receiver: at once, or, in a synchronous receive, once the
\* other has ended too.
Ends(s, f, flag, status, syncStatus) ==
    IF "CLK" \in s.sync
    THEN Return([s EXCEPT ![f].status = syncStatus, ![f].at = "wait_sync", !.sync = @ \cup {flag}], "on_going")
    ELSE Return([s EXCEPT ![f].status = status, ![f].at = "start"], "cpl")

\* sdio_read_cmd()
Received(s, expected) ==
    LET c == s.recv
        covered == IF expected = "EXPAND" THEN SubSeq(c.frame, BITS, Len(c.frame) - BITS)
                   ELSE SubSeq(c.frame, 1, Len(c.frame) - BITS)
        last == SubSeq(c.frame, Len(c.frame) - BITS + 1, Len(c.frame))
        good == (last = Check(covered, BITS)) \/ (expected # "EXPAND" /\ last = Ones(BITS))
    IN IF c.count # (IF expected = "EXPAND" THEN LONG_RESPONSE_LENGTH ELSE SHORT_RESPONSE_LENGTH)
       THEN Return([s EXCEPT !.recv.at = "read"], "on_going")
       ELSE IF good
       THEN Ends([s EXCEPT !.response = c.frame], "recv", "CMD", c.status, c.status)
       ELSE Ends(s, "recv", "CMD", "CMD_CRCFAIL", "DATA_ERROR")

WaitCmd(s) ==
    LET Then(x) ==
            LET t == [x.s EXCEPT !.recv.count = @ + 1]
            IN IF x.r # "cpl" THEN x
               ELSE IF x.s.cmdBits.bits = <<Zero>>
               THEN Return([x.s EXCEPT !.recv.at = "read", !.recv.count = 0, !.recv.bits = BITS - 1], "on_going")
               ELSE IF SDIO_RESPONSE_TIME >= t.recv.count THEN Return(t, "on_going")
               ELSE Ends(t, "recv", "CMD", "CMD_TIMEOUT", "DATA_ERROR")
    IN Then(sdio_read_cmd_bit(s, 1))

sdio_read_cmd(s, expected) ==
    CASE s.recv.at = "start" ->
            WaitCmd([s EXCEPT !.recv = [at |-> "wait", count |-> 0, bits |-> 0, frame |-> <<>>,
                                        status |-> "CMD_RESPONSE"]])
      [] s.recv.at = "wait" -> WaitCmd(s)
      [] s.recv.at = "read" ->
            LET Then(x) ==
                    IF x.r # "cpl" THEN x
                    ELSE Return([x.s EXCEPT !.recv.bits = BITS, !.recv.frame = @ \o x.s.cmdBits.bits,
                                            !.recv.count = @ + 1, !.recv.at = "check"], "on_going")
            IN Then(sdio_read_cmd_bit(s, s.recv.bits))
      [] s.recv.at = "check" -> Received(s, expected)
      [] s.recv.at = "wait_sync" ->
            LET Then(x) ==
                    IF x.r = "cpl" /\ "RESET" \in x.s.sync
                    THEN Return([x.s EXCEPT !.recv.at = "start"], "cpl") ELSE Return(x.s, "on_going")
            IN Then(sdio_read_cmd_bit(s, 1))

-----------------------------------------------------------------------------
(* Data. *)

\* How a transfer is divided: the bytes of the last block, and the blocks.
Divided(at, size) ==
    [at |-> at, count |-> 0, taken |-> <<>>, status |-> "DATA_PASSED",
     rest |-> IF size % BLOCK = 0 THEN BLOCK ELSE size % BLOCK,
     blocks |-> IF size % BLOCK = 0 THEN size \div BLOCK ELSE size \div BLOCK + 1]

BlockFull(d) == d.count = IF d.blocks = 1 THEN d.rest ELSE BLOCK

\* sdio_write_data(); taken holds the bits of this block.
WriteCRC(s) ==
    LET Then(x) ==
            IF x.r # "cpl" THEN x ELSE Return([x.s EXCEPT !.data = One, !.wd.at = "stop"], "on_going")
    IN Then(sdio_write_bit(s, Check(s.wd.taken, CRC_BITS), "data"))

WriteByte(s, bits) ==
    LET Then(x) ==
            LET t == [x.s EXCEPT !.wd.taken = @ \o bits, !.wd.count = @ + 1, !.wd.sent = @ + 1]
            IN IF x.r # "cpl" THEN x
               ELSE IF BlockFull(t.wd) THEN WriteCRC([t EXCEPT !.wd.at = "crc", !.wd.count = 0])
               ELSE Return(t, "on_going")
    IN Then(sdio_write_bit(s, bits, "data"))

WriteStart(s) ==
    LET Then(x) ==
            IF x.r # "cpl" THEN x ELSE WriteByte([x.s EXCEPT !.wd.at = "data"], Byte("data", x.s.wd.sent + 1))
    IN Then(sdio_work_clk(s, 1))

CheckBusy(s) ==
    LET Then(x) ==
            LET next == [x.s EXCEPT !.wd.blocks = @ - 1, !.wd.count = 0, !.wd.taken = <<>>,
                                    !.data = Zero, !.wd.at = "begin"]
            IN IF x.r # "cpl" THEN x
               ELSE IF x.s.dataBits.bits = <<Zero>> THEN Return([x.s EXCEPT !.wd.at = "wait"], "on_going")
               ELSE IF x.s.wd.blocks = 1 THEN Return([x.s EXCEPT !.wd.at = "start"], "cpl")
               ELSE Return(next, "on_going")
    IN Then(sdio_read_data_bit(s, 1))

CheckCRC(s) ==
    LET Then(x) ==
            IF x.r # "cpl" THEN x
            ELSE IF x.s.dataBits.bits # <<Zero, Zero, One, Zero, One>>
            THEN Return([x.s EXCEPT !.wd.at = "start"], "err")
            ELSE CheckBusy([x.s EXCEPT !.wd.at = "busy"])
    IN Then(sdio_read_data_bit(s, 5))

sdio_write_data(s, size) ==
    CASE s.wd.at = "start" ->
            WriteStart([s EXCEPT !.wd = Divided("begin", size) @@ [sent |-> 0], !.data = Zero])
      [] s.wd.at = "begin" -> WriteStart(s)
      [] s.wd.at = "data" -> WriteByte(s, Byte("data", s.wd.sent + 1))
      [] s.wd.at = "crc" -> WriteCRC(s)
      [] s.wd.at = "stop" ->
            LET Then(x) ==
                    IF x.r # "cpl" THEN x ELSE CheckCRC([x.s EXCEPT !.wd.at = "check"])
            IN Then(sdio_work_clk(s, 3))
      [] s.wd.at = "check" -> CheckCRC(s)
      [] s.wd.at = "busy" -> CheckBusy(s)
      [] s.wd.at = "wait" ->
            IF SDIO_BUSY_TIME <= s.wd.count + 1 THEN Return([s EXCEPT !.wd.at = "start"], "err")
            ELSE Return([s EXCEPT !.wd.count = @ + 1, !.wd.at = "busy"], "on_going")

\* sdio_read_data()
ReadStop(s) ==
    LET Then(x) ==
            LET d == x.s.rd
            IN IF x.r # "cpl" THEN x
               ELSE IF x.s.dataBits.bits = <<Zero>> THEN Ends(x.s, "rd", "DATA", "DATA_ERROR", "DATA_ERROR")
               ELSE IF d.blocks = 1
               THEN Return([x.s EXCEPT !.rd.at = "wait_sync", !.sync = @ \cup {"DATA"}], "on_going")
               ELSE Return([x.s EXCEPT !.rd.at = "begin", !.rd.blocks = @ - 1, !.rd.taken = <<>>], "on_going")
    IN Then(sdio_read_data_bit(s, 1))

ReadCRC(s) ==
    LET Then(x) ==
            IF x.r # "cpl" THEN x
            ELSE IF x.s.dataBits.bits # Check(s.rd.taken, CRC_BITS)
            THEN Ends(x.s, "rd", "DATA", "DATA_CRCFALL", "DATA_ERROR")
            ELSE ReadStop([x.s EXCEPT !.rd.at = "stop"])
    IN Then(sdio_read_data_bit(s, CRC_BITS))

ReadByte(s) ==
    LET Then(x) ==
            LET b == x.s.dataBits.bits
                t == [x.s EXCEPT !.rd.taken = @ \o b, !.rd.count = @ + 1, !.buffer = @ \o b]
            IN IF x.r # "cpl" THEN x
               ELSE IF BlockFull(t.rd) THEN ReadCRC([t EXCEPT !.rd.at = "crc", !.rd.count = 0])
               ELSE Return(t, "on_going")
    IN Then(sdio_read_data_bit(s, BITS))

ReadStart(s) ==
    LET Then(x) ==
            LET t == [x.s EXCEPT !.rd.count = @ + 1]
            IN IF x.r # "cpl" THEN x
               ELSE IF x.s.dataBits.bits = <<Zero>>
               THEN Return([x.s EXCEPT !.rd.count = 0, !.rd.at = "data"], "on_going")
               ELSE IF t.rd.count # SDIO_READ_TIME THEN Return(t, "on_going")
               ELSE Ends(t, "rd", "DATA", "DATA_TIMEOUT", "DATA_ERROR")
    IN Then(sdio_read_data_bit(s, 1))

sdio_read_data(s, size) ==
    CASE s.rd.at = "start" -> ReadStart([s EXCEPT !.rd = Divided("begin", size), !.buffer = <<>>])
      [] s.rd.at = "begin" -> ReadStart(s)
      [] s.rd.at = "data" -> ReadByte(s)
      [] s.rd.at = "crc" -> ReadCRC(s)
      [] s.rd.at = "stop" -> ReadStop(s)
      [] s.rd.at = "wait_sync" ->
            LET Then(x) ==
                    IF x.r = "cpl" /\ "RESET" \in x.s.sync
                    THEN Return([x.s EXCEPT !.rd.at = "start", !.sync = {}], "cpl")
                    ELSE Return(x.s, "on_going")
            IN Then(sdio_read_data_bit(s, 1))

-----------------------------------------------------------------------------
(* The interface. *)

\* sdio_init()
sdio_init(s) ==
    LET t == [SET_SDIO_CLK([s EXCEPT !.cmd = One, !.data = One]) EXCEPT !.init = "clock", !.sync = {}]
        Clocked(x) == IF x.r = "cpl" THEN Return([x.s EXCEPT !.init = "start"], "cpl") ELSE x
    IN Clocked(sdio_work_clk(IF s.init = "start" THEN t ELSE s, INIT_CLOCKS))

\* sdio_cmd_transfer(): every call drives the common clock first.
WorkClock(s, expected, status) ==
    LET Then(x) ==
            IF expected = "SYNC" THEN Return([s EXCEPT !.cmdAt = "start"], status)
            ELSE IF x.r # "cpl" THEN x
            ELSE Return([x.s EXCEPT !.cmdAt = "start"], IF expected = "NO_RESPONSE" THEN "CMD_SET" ELSE status)
    IN Then(sdio_work_clk(s, SDIO_WORK_CLOCK))

ReadResponse(s, expected) ==
    LET Then(x) ==
            IF x.r # "cpl" THEN x
            ELSE WorkClock([x.s EXCEPT !.cmdAt = "work"], expected, x.s.recv.status)
    IN Then(sdio_read_cmd(s, expected))

Sent(x, expected) ==
    IF x.r # "cpl" THEN x
    ELSE IF expected = "NO_RESPONSE" THEN Return([x.s EXCEPT !.cmdAt = "work"], "on_going")
    ELSE ReadResponse([x.s EXCEPT !.cmdAt = "read",
                                  !.sync = IF expected = "SYNC" THEN @ \cup {"CLK"} ELSE @], expected)

sdio_cmd_transfer(s, expected) ==
    LET Synced(w) == IF w.r = "cpl" THEN [w.s EXCEPT !.sync = @ \cup {"RESET"}] ELSE w.s
        From(t) == CASE t.cmdAt = "start" -> Sent(sdio_write_cmd(t), expected)
                     [] t.cmdAt = "read" -> ReadResponse(t, expected)
                     [] t.cmdAt = "work" -> WorkClock(t, expected, t.recv.status)
    IN From(Synced(sdio_work_sync(s)))

\* sdio_data_transfer(): a read waits for a synchronous command.
DataWork(s) ==
    LET Then(x) ==
            IF x.r = "cpl" THEN Return([x.s EXCEPT !.dataAt = "start"], s.wd.status) ELSE x
    IN Then(sdio_work_clk(s, SDIO_WORK_CLOCK))

sdio_data_transfer(s, direction, size) ==
    CASE s.dataAt = "start" -> Return([s EXCEPT !.dataAt = direction], "on_going")
      [] s.dataAt = "write" ->
            LET Then(x) ==
                    LET status == IF x.r = "err" THEN "DATA_ERROR" ELSE "DATA_PASSED"
                    IN IF x.r = "on_going" THEN x
                       ELSE DataWork([x.s EXCEPT !.dataAt = "work", !.wd.status = status])
            IN Then(sdio_write_data(s, size))
      [] s.dataAt = "work" -> DataWork(s)
      [] s.dataAt = "read" ->
            LET Then(x) ==
                    IF "CLK" \notin s.sync THEN Return(s, "on_going")
                    ELSE IF x.r # "cpl" THEN x
                    ELSE Return([x.s EXCEPT !.dataAt = "start"], x.s.rd.status)
            IN Then(sdio_read_data(s, size))

-----------------------------------------------------------------------------
(* The user: a request is a command, maybe with a transfer of data.  The     *)
(* next one waits for both; data are written after the command, and read     *)
(* during it.                                                                *)

VARIABLES
    s,      \* statics, pins and card
    cmd,    \* "todo" or the result
    data,   \* "none", "todo" or the result
    ready,  \* sdio_init has completed
    left    \* requests to come

vars == <<s, cmd, data, ready, left>>

NoBits == [at |-> "start", left |-> 0, bits |-> <<>>]
NoFrame == [at |-> "start", count |-> 0, bits |-> 0, frame |-> <<>>, status |-> "none"]
NoBlock == [at |-> "start", count |-> 0, taken |-> <<>>, status |-> "none", rest |-> 0, blocks |-> 0]

PinsAndStatics(q) ==
    [clk |-> 1, cmd |-> One, data |-> One, cmdIn |-> One, dataIn |-> One,
     card |-> q, cmdQ |-> <<>>, dataQ |-> <<>>, gotCmd |-> <<>>, gotData |-> <<>>, stored |-> <<>>,
     sync |-> {}, work |-> [at |-> "start", time |-> 0, count |-> 0], workSync |-> "start",
     clockCount |-> 0, cmdSync |-> "low", dataSync |-> "low",
     cmdBits |-> NoBits, dataBits |-> NoBits,
     write |-> 0, cmdByte |-> 0, response |-> <<>>, buffer |-> <<>>,
     recv |-> NoFrame, wd |-> NoBlock, rd |-> NoBlock,
     init |-> "start", cmdAt |-> "start", dataAt |-> "start"]

Init ==
    /\ \E q \in Requests :
           /\ s = PinsAndStatics(q)
           /\ data = IF q.data = "none" THEN "none" ELSE "todo"
    /\ cmd = "todo"
    /\ ready = FALSE
    /\ left = ROUNDS - 1

InitCall ==
    /\ ~ready
    /\ \E x \in {sdio_init(s)} : s' = x.s /\ ready' = (x.r = "cpl")
    /\ UNCHANGED <<cmd, data, left>>

CmdCall ==
    /\ ready
    /\ cmd = "todo"
    /\ \E x \in {sdio_cmd_transfer(s, s.card.cmd)} :
           s' = x.s /\ cmd' = IF x.r = "on_going" THEN "todo" ELSE x.r
    /\ UNCHANGED <<data, ready, left>>

DataCall ==
    /\ ready
    /\ data = "todo"
    /\ s.card.data = "write" => cmd # "todo"
    /\ \E x \in {sdio_data_transfer(s, s.card.data, s.card.size)} :
           s' = x.s /\ data' = IF x.r = "on_going" THEN "todo" ELSE x.r
    /\ UNCHANGED <<cmd, ready, left>>

AllDone == cmd # "todo" /\ data # "todo"

\* A request brings its own buffers.  What a machine at rest sets itself, when
\* it starts, is forgotten here: fewer states.
Forget(d, empty) == IF d.at = "start" THEN empty ELSE d

NextRequest ==
    /\ AllDone
    /\ left > 0
    /\ \E q \in Requests :
           /\ s' = [s EXCEPT !.card = q, !.cmdQ = <<>>, !.dataQ = <<>>, !.gotData = <<>>, !.stored = <<>>,
                             !.response = <<>>, !.buffer = <<>>,
                             !.recv = Forget(@, NoFrame), !.wd = Forget(@, NoBlock), !.rd = Forget(@, NoBlock),
                             !.cmdBits = Forget(@, NoBits), !.dataBits = Forget(@, NoBits)]
           /\ data' = IF q.data = "none" THEN "none" ELSE "todo"
    /\ cmd' = "todo"
    /\ left' = left - 1
    /\ UNCHANGED ready

Next == InitCall \/ CmdCall \/ DataCall \/ NextRequest

\* Both machines are polled for ever.
Fairness == WF_vars(InitCall) /\ WF_vars(CmdCall) /\ WF_vars(DataCall)

Spec == Init /\ [][Next]_vars /\ Fairness

-----------------------------------------------------------------------------
(* Properties. *)

Sync == s.card.cmd = "SYNC"
InTime == s.card.delay <= SDIO_RESPONSE_TIME
Answers == s.card.answer # "silent" /\ InTime

CmdResult ==
    CASE s.card.cmd = "NO_RESPONSE" -> "CMD_SET"
      [] s.card.cmd # "NO_RESPONSE" /\ ~Answers -> IF Sync THEN "DATA_ERROR" ELSE "CMD_TIMEOUT"
      [] s.card.cmd # "NO_RESPONSE" /\ Answers ->
            IF s.card.answer = "good" \/ (s.card.answer = "ones" /\ s.card.cmd # "EXPAND") THEN "CMD_RESPONSE"
            ELSE IF Sync THEN "DATA_ERROR" ELSE "CMD_CRCFAIL"

ReadResult ==
    IF s.card.block = "good" /\ s.card.wait < SDIO_READ_TIME THEN "DATA_PASSED" ELSE "DATA_ERROR"
WriteResult ==
    IF s.card.block = "good" /\ s.card.wait < SDIO_BUSY_TIME THEN "DATA_PASSED" ELSE "DATA_ERROR"

\* Whatever order the two machines are polled in, each reports what the card
\* did, and holds, bit for bit, what the card sent: no edge of the common
\* clock was missed or taken twice.
ResultsTrue ==
    /\ cmd # "todo" =>
          /\ cmd = CmdResult
          /\ cmd = "CMD_RESPONSE" => <<Zero>> \o s.response = Response(s.card)
    /\ data \notin {"none", "todo"} =>
          /\ data = IF s.card.data = "read" THEN ReadResult ELSE WriteResult
          /\ data = "DATA_PASSED" =>
                (IF s.card.data = "read" THEN s.buffer ELSE s.stored) = Bytes("data", 1, s.card.size)

\* A request leaves nothing behind for the next one: no flag of the handshake
\* is up, and every machine is at its start.
NothingLeft ==
    AllDone =>
        /\ s.sync = {}
        /\ s.work.at = "start" /\ s.workSync = "start" /\ s.clockCount = 0
        /\ s.cmdSync = "low" /\ s.dataSync = "low"
        /\ s.cmdBits.at = "start" /\ s.dataBits.at = "start"
        /\ s.recv.at = "start" /\ s.wd.at = "start" /\ s.rd.at = "start"

\* Every request ends, answered or not.
RequestsEnd == (ready /\ ~AllDone) ~> AllDone
=============================================================================
