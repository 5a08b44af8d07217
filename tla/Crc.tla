--------------------------------- MODULE Crc ---------------------------------
(***************************************************************************)
(* The cyclic redundancy checks (service/communication/crc).  Every        *)
(* algorithm exists in up to three builds, chosen by a macro: SIZE divides *)
(* bit by bit, BALANCE uses a table of 16 entries, SPEED one of 256.       *)
(*                                                                         *)
(* A word is the set of its one-bits, so that exclusive or is the          *)
(* symmetric difference.  A table is given by its entries at the powers of *)
(* two: entry i of every table of the source is the exclusive or of those  *)
(* at the bits of i.                                                       *)
(***************************************************************************)
EXTENDS Integers, Sequences, SequencesExt

CONSTANTS
    Algorithms, \* the algorithms to be run
    Bytes,      \* bytes of the messages, as words
    MaxBytes,   \* length of a message
    Damages     \* what may happen to a message: sets of its bits, as sent

ASSUME CrcAssumption == \A b \in Bytes : b \subseteq 0 .. 7

-----------------------------------------------------------------------------
(* Words. *)

Xor(a, b) == (a \ b) \cup (b \ a)
Ones(w) == 0 .. w - 1
Left(a, n, w) == {i + n : i \in a} \cap Ones(w)
Right(a, n) == {i - n : i \in {j \in a : j >= n}}
Field(a, low, n) == Right(a, low) \cap Ones(n)
data_reversal(a, w) == {w - 1 - i : i \in a}

\* The word of a number, and of two halves of 16 bits.
Word(n) == {i \in 0 .. 15 : (n \div 2^i) % 2 = 1}
Long(high, low) == Word(low) \cup {i + 16 : i \in Word(high)}

Table(entries, i) == FoldLeft(Xor, {}, [k \in 1 .. Len(entries) |-> IF k - 1 \in i THEN entries[k] ELSE {}])
Words(numbers) == [k \in DOMAIN numbers |-> Word(numbers[k])]

-----------------------------------------------------------------------------
(* The polynomials and the tables. *)

CRC7_POLY == Word(\h89)
CRC8_POLY == Word(\h07)
CRC16_POLY == Word(\h8005)
CRC16_CCITT_FALSE_POLY == Word(\h1021)
CRC32_POLY == Long(\h04C1, \h1DB7)

c_chCRC7Table == Words(<<\h09, \h12, \h24, \h48, \h19, \h32, \h64, \h41>>)
c_chCRC8Table == Words(<<\h07, \h0E, \h1C, \h38, \h70, \hE0, \hC7, \h89>>)
c_chCRC8Table16 == Words(<<\h07, \h0E, \h1C, \h38>>)
c_chCRC8_ROHC_Table == Words(<<\h91, \hE3, \h07, \h0E, \h1C, \h38, \h70, \hE0>>)
c_chCRC8_ROHC_Table16 == Words(<<\h1C, \h38, \h70, \hE0>>)
c_hwCRC16Table ==
    Words(<<\hC0C1, \hC181, \hC301, \hC601, \hCC01, \hD801, \hF001, \hA001>>)
c_hwCRC16Tab == Words(<<\hCC01, \hD801, \hF001, \hA001>>)
c_hwCRC16_CCITT_Table ==
    Words(<<\h1021, \h2042, \h4084, \h8108, \h1231, \h2462, \h48C4, \h9188>>)
c_hwCRC16_CCITT_Tab == Words(<<\h1021, \h2042, \h4084, \h8108>>)
c_wCRC32IEEE802_3Table ==
    <<Long(\h04C1, \h1DB7), Long(\h0982, \h3B6E), Long(\h1304, \h76DC), Long(\h2608, \hEDB8),
      Long(\h4C11, \hDB70), Long(\h9823, \hB6E0), Long(\h3486, \h7077), Long(\h690C, \hE0EE)>>
c_wCRC32IEEE802_3Table16 ==
    <<Long(\h04C1, \h1DB7), Long(\h0982, \h3B6E), Long(\h1304, \h76DC), Long(\h2608, \hEDB8)>>
c_wCRC32Table ==
    <<Long(\h7707, \h3096), Long(\hEE0E, \h612C), Long(\h076D, \hC419), Long(\h0EDB, \h8832),
      Long(\h1DB7, \h1064), Long(\h3B6E, \h20C8), Long(\h76DC, \h4190), Long(\hEDB8, \h8320)>>
c_wCRC32Table16 ==
    <<Long(\h1DB7, \h1064), Long(\h3B6E, \h20C8), Long(\h76DC, \h4190), Long(\hEDB8, \h8320)>>

-----------------------------------------------------------------------------
(* One byte b into the register r, in each build, for a register that is     *)
(* shifted left (RefIn false) or right.                                      *)

ShiftOut(r, w, poly) ==
    IF w - 1 \in r THEN Xor(Left(r, 1, w), poly) ELSE Left(r, 1, w)

Shift8(r, w, poly) == FoldLeft(LAMBDA x, k : ShiftOut(x, w, poly), r, [k \in 1 .. 8 |-> k])

SizeLeft(w, poly, r, b) ==
    LET top == Left(Xor(Right(r, w - 8), b), w - 8, w)
    IN Xor(Left(r, 8, w), Shift8(top, w, poly))

SizeRight(w, poly, r, b) ==
    LET top == data_reversal(Xor(r, b) \cap Ones(8), w)
    IN Xor(Right(r, 8), data_reversal(Shift8(top, w, poly), w))

\* High nibble first, or low nibble first.
BalanceLeft(w, table, r, b) ==
    LET Nibble(x, n) == Xor(Left(x, 4, w), Table(table, Xor(Right(x, w - 4), n)))
    IN Nibble(Nibble(r, Field(b, 4, 4)), Field(b, 0, 4))

BugBalanceRight(w, table, r, b) ==
    LET Nibble(x, n) == Xor(Right(x, 4), Table(table, Xor(Field(x, 0, 4), n)))
    IN Nibble(Nibble(r, Field(b, 4, 4)), Field(b, 0, 4))

BalanceRight(w, table, r, b) ==
    LET Nibble(x, n) == Xor(Right(x, 4), Table(table, Xor(Field(x, 0, 4), n)))
    IN Nibble(Nibble(r, Field(b, 0, 4)), Field(b, 4, 4))

SpeedLeft(w, table, r, b) == Xor(Left(r, 8, w), Table(table, Xor(Right(r, w - 8), b)))
BugSpeedRight(w, table, r, b) == Xor(Right(r, 8), Table(table, b))
SpeedRight(w, table, r, b) == Xor(Right(r, 8), Table(table, Xor(r, b) \cap Ones(8)))

-----------------------------------------------------------------------------
(* The functions of each build: the byte's step, which <name>_check and      *)
(* <name>_stream_check repeat.                                               *)

\* Seven bits kept in eight: seven conditional subtractions each followed by
\* a shift, and one without.
Subtract7(x) == IF 7 \in x THEN Xor(x, CRC7_POLY) ELSE x
crc7_size(r, b) ==
    Subtract7(FoldLeft(LAMBDA x, k : Left(Subtract7(x), 1, 8), Xor(Left(r, 1, 8), b),
                       [k \in 1 .. 7 |-> k]))
crc7_speed(r, b) == Table(c_chCRC7Table, Xor(Left(r, 1, 8), b))

crc8_size(r, b) == SizeLeft(8, CRC8_POLY, r, b)
crc8_balance(r, b) == BalanceLeft(8, c_chCRC8Table16, r, b)
crc8_speed(r, b) == SpeedLeft(8, c_chCRC8Table, r, b)

crc8_rohc_size(r, b) == SizeRight(8, CRC8_POLY, r, b)
crc8_rohc_balance(r, b) == BalanceRight(8, c_chCRC8_ROHC_Table16, r, b)
crc8_rohc_speed(r, b) == SpeedRight(8, c_chCRC8_ROHC_Table, r, b)

crc16_usb_size(r, b) == SizeRight(16, CRC16_POLY, r, b)
crc16_usb_balance(r, b) == BalanceRight(16, c_hwCRC16Tab, r, b)
crc16_usb_speed(r, b) == SpeedRight(16, c_hwCRC16Table, r, b)

crc16_modbus_size(r, b) == SizeRight(16, CRC16_POLY, r, b)
crc16_modbus_balance(r, b) == BalanceRight(16, c_hwCRC16Tab, r, b)
crc16_modbus_speed(r, b) == SpeedRight(16, c_hwCRC16Table, r, b)

crc16_ccitt_false_size(r, b) == SizeLeft(16, CRC16_CCITT_FALSE_POLY, r, b)
crc16_ccitt_false_balance(r, b) == BalanceLeft(16, c_hwCRC16_CCITT_Tab, r, b)
crc16_ccitt_false_speed(r, b) == SpeedLeft(16, c_hwCRC16_CCITT_Table, r, b)

crc16_modem_size(r, b) == SizeLeft(16, CRC16_CCITT_FALSE_POLY, r, b)
crc16_modem_balance(r, b) == BalanceLeft(16, c_hwCRC16_CCITT_Tab, r, b)
crc16_modem_speed(r, b) == SpeedLeft(16, c_hwCRC16_CCITT_Table, r, b)

crc32_ieee802_3_size(r, b) == SizeLeft(32, CRC32_POLY, r, b)
crc32_ieee802_3_balance(r, b) == BalanceLeft(32, c_wCRC32IEEE802_3Table16, r, b)
crc32_ieee802_3_speed(r, b) == SpeedLeft(32, c_wCRC32IEEE802_3Table, r, b)

crc32_size(r, b) == SizeRight(32, CRC32_POLY, r, b)
crc32_balance(r, b) == BalanceRight(32, c_wCRC32Table16, r, b)
crc32_speed(r, b) == SpeedRight(32, c_wCRC32Table, r, b)

\* crc16_check(): no table, by shifts of the byte.
crc16_check(r, b) ==
    LET x == Xor(b, Field(r, 0, 8))
        y == Xor(x, Left(x, 4, 8))
    IN Xor(Xor(Left(y, 8, 16) \cup Right(r, 8), Right(y, 4)), Left(y, 3, 16))

\* What CRC.H says of each algorithm.
About(width, poly, init, ref, xorOut) ==
    [width |-> width, poly |-> poly, init |-> IF init THEN Ones(width) ELSE {}, ref |-> ref,
     xorOut |-> IF xorOut THEN Ones(width) ELSE {}]

Doc == [
    crc7 |-> About(7, Word(\h09), FALSE, FALSE, FALSE),
    crc8 |-> About(8, CRC8_POLY, FALSE, FALSE, FALSE),
    crc8_rohc |-> About(8, CRC8_POLY, TRUE, TRUE, FALSE),
    crc16_usb |-> About(16, CRC16_POLY, TRUE, TRUE, TRUE),
    crc16_modbus |-> About(16, CRC16_POLY, TRUE, TRUE, FALSE),
    crc16_ccitt_false |-> About(16, CRC16_CCITT_FALSE_POLY, TRUE, FALSE, FALSE),
    crc16_modem |-> About(16, CRC16_CCITT_FALSE_POLY, FALSE, FALSE, FALSE),
    crc32_ieee802_3 |-> About(32, CRC32_POLY, TRUE, FALSE, FALSE),
    crc32 |-> About(32, CRC32_POLY, TRUE, TRUE, TRUE),
    crc16 |-> About(16, CRC16_CCITT_FALSE_POLY, TRUE, TRUE, FALSE)]

\* The registers of the builds after one byte more.
Builds(size, balance, speed) == [size |-> size, balance |-> balance, speed |-> speed]

Feed(a, r, b) ==
    CASE a = "crc7" -> Builds(crc7_size(r.size, b), crc7_speed(r.balance, b), crc7_speed(r.speed, b))
      [] a = "crc8" -> Builds(crc8_size(r.size, b), crc8_balance(r.balance, b), crc8_speed(r.speed, b))
      [] a = "crc8_rohc" -> Builds(crc8_rohc_size(r.size, b), crc8_rohc_balance(r.balance, b),
                                   crc8_rohc_speed(r.speed, b))
      [] a = "crc16_usb" -> Builds(crc16_usb_size(r.size, b), crc16_usb_balance(r.balance, b),
                                   crc16_usb_speed(r.speed, b))
      [] a = "crc16_modbus" -> Builds(crc16_modbus_size(r.size, b), crc16_modbus_balance(r.balance, b),
                                      crc16_modbus_speed(r.speed, b))
      [] a = "crc16_ccitt_false" ->
            Builds(crc16_ccitt_false_size(r.size, b), crc16_ccitt_false_balance(r.balance, b),
                   crc16_ccitt_false_speed(r.speed, b))
      [] a = "crc16_modem" -> Builds(crc16_modem_size(r.size, b), crc16_modem_balance(r.balance, b),
                                     crc16_modem_speed(r.speed, b))
      [] a = "crc32_ieee802_3" ->
            Builds(crc32_ieee802_3_size(r.size, b), crc32_ieee802_3_balance(r.balance, b),
                   crc32_ieee802_3_speed(r.speed, b))
      [] a = "crc32" -> Builds(crc32_size(r.size, b), crc32_balance(r.balance, b), crc32_speed(r.speed, b))
      [] a = "crc16" -> Builds(crc16_check(r.size, b), crc16_check(r.balance, b), crc16_check(r.speed, b))

\* <name>_stream_check(): its bytes, then XorOut.
Complement(a, r) == [k \in DOMAIN r |-> Xor(r[k], Doc[a].xorOut)]
StreamCheck(a, r, piece) == Complement(a, FoldLeft(LAMBDA x, b : Feed(a, x, b), r, piece))

-----------------------------------------------------------------------------
(* A message is fed in pieces of any size, byte by byte or as streams, to    *)
(* one algorithm; a damaged copy of it to another register.                  *)

VARIABLES alg, msg, regs, damage, bad, done

vars == <<alg, msg, regs, damage, bad, done>>

\* Bit t of a message, in the order the algorithm takes them.
BitOf(a, t) == IF Doc[a].ref THEN t % 8 ELSE 7 - (t % 8)
Damaged(b, k) == Xor(b, {BitOf(alg, t) : t \in {u \in damage : u \div 8 = k}})

Init ==
    /\ alg \in Algorithms
    /\ damage \in Damages
    /\ msg = <<>>
    /\ regs = Builds(Doc[alg].init, Doc[alg].init, Doc[alg].init)
    /\ bad = regs
    /\ done = FALSE

\* <name>_check()
Check(b) ==
    /\ ~done
    /\ Len(msg) < MaxBytes
    /\ msg' = Append(msg, b)
    /\ regs' = Feed(alg, regs, b)
    /\ bad' = Feed(alg, bad, Damaged(b, Len(msg)))
    /\ UNCHANGED <<alg, damage, done>>

\* <name>_stream_check(): where it complements the register nothing more can
\* be fed to it.
Stream(piece) ==
    /\ ~done
    /\ Len(msg) + Len(piece) <= MaxBytes
    /\ msg' = msg \o piece
    /\ regs' = StreamCheck(alg, regs, piece)
    /\ bad' = StreamCheck(alg, bad, [k \in DOMAIN piece |-> Damaged(piece[k], Len(msg) + k - 1)])
    /\ done' = (Doc[alg].xorOut # {})
    /\ UNCHANGED <<alg, damage>>

Next ==
    \/ \E b \in Bytes : Check(b)
    \/ \E n \in 1 .. 2 : \E piece \in [1 .. n -> Bytes] : Stream(piece)

Spec == Init /\ [][Next]_vars

-----------------------------------------------------------------------------
(* Properties. *)

\* Division of polynomials: the remainder of p, whose exponents are below
\* top, by x^w + poly.
Remainder(p, top, w, poly) ==
    FoldLeft(LAMBDA q, e : IF e \in q THEN Xor(q, {e - w + k : k \in poly \cup {w}}) ELSE q,
             p, [i \in 1 .. top - w |-> top - i])

\* The register that the theory prescribes: the message, preceded by init, is
\* divided.
Prescribed ==
    LET w == Doc[alg].width
        n == 8 * Len(msg)
        m == {n - 1 - t + w : t \in {u \in 0 .. n - 1 : BitOf(alg, u) \in msg[u \div 8 + 1]}}
        rest == Remainder(Xor(m, {e + n : e \in Doc[alg].init}), n + w, w, Doc[alg].poly)
    IN IF Doc[alg].ref THEN data_reversal(rest, w) ELSE rest

\* In every build, and however the message was cut, the register holds the
\* remainder the header promises.
RegisterIsRemainder ==
    \A k \in DOMAIN regs : regs[k] = IF done THEN Xor(Prescribed, Doc[alg].xorOut) ELSE Prescribed

\* A burst of errors no longer than the register is always seen.
DamageSeen ==
    (\E t \in damage : t < 8 * Len(msg)) => \A k \in DOMAIN regs : regs[k] # bad[k]
=============================================================================
