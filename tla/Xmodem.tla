-------------------------------- MODULE Xmodem --------------------------------
(***************************************************************************)
(* The receiver of xmodem (service/communication/xmodem) and a sender.     *)
(*                                                                         *)
(* xmodem_task is a state machine of nested state machines; at names the   *)
(* innermost state, and an action is a call that gets something done.  The *)
(* sender, which is not in the repository, does what the protocol says:    *)
(* it begins at the first C or NAK, repeats a packet for each NAK, and     *)
(* drops what it was told before it sent.                                  *)
(*                                                                         *)
(* A byte on the line says what it was sent as.  Heads, packet numbers and *)
(* their complements share the values of a byte, so that a number may be   *)
(* EOT or CAN; a byte of data or of a checksum, or one that was damaged,   *)
(* may have any value where it is read as one of these.  A checksum is     *)
(* perfect (module Crc).                                                   *)
(***************************************************************************)
EXTENDS Integers, Sequences, SequencesExt

CONSTANTS
    NUMBERS,        \* values of a byte, and so packet numbers: 256
    SOH, STX, EOT, CAN,
    SHORT, LONG,    \* bytes of data of a packet with SOH, with STX
    BLOCKS,         \* packets of the file
    MAX_TRY_AGAN,
    C_TRYING_COUNT,
    FAULTS          \* packets and answers damaged or lost, and late packets

\* C_TRYING_COUNT lost handshakes make the two sides disagree on the checksum.
ASSUME XmodemAssumption ==
    /\ {NUMBERS, SHORT, LONG, BLOCKS, MAX_TRY_AGAN, C_TRYING_COUNT} \subseteq Nat \ {0}
    /\ FAULTS \in 0 .. C_TRYING_COUNT - 1
    /\ {SOH, STX, EOT, CAN} \subseteq 0 .. NUMBERS - 1
    /\ SOH \notin {STX, EOT, CAN} /\ STX \notin {EOT, CAN} /\ EOT # CAN

\* The answers, which only the sender reads; a damaged one is none of them.
ACK == NUMBERS + 1
NAK == NUMBERS + 2
CRC_C == NUMBERS + 3
NoAnswer == NUMBERS + 4

Control(c) == <<"control", c>>     \* SOH or STX before a packet, EOT or CAN alone
Number(n) == <<"number", n>>
Garbage == <<"damaged">>

\* The values with which a byte may be read, where it is compared with those in
\* told: of all the others one stands for each.
Values(b, told) ==
    IF b[1] \in {"control", "number"} THEN {b[2]}
    ELSE LET values == 0 .. NUMBERS - 1
             others == values \ told
         IN (values \cap told) \cup (IF others = {} THEN {} ELSE {CHOOSE v \in others : TRUE})

VARIABLES
    rec,        \* the statics of the receiver
    line,       \* bytes on their way to the receiver
    answers,    \* bytes on their way to the sender
    sender,
    saved,      \* history: what was given to xmodem_call_back_receive
    result,     \* of xmodem_task, "on_going" until it has one
    faults,
    misread     \* history: those of EOT and CAN that another byte was taken for

vars == <<rec, line, answers, sender, saved, result, faults, misread>>

-----------------------------------------------------------------------------
(* The file and its packets. *)

Data(b, size) == [k \in 1 .. size |-> <<"data", b, k>>]
Size(head) == IF head = STX THEN LONG ELSE SHORT
File == [b \in 1 .. BLOCKS |-> Data(b, Size(sender.head))]

Check(data, crc) == IF crc THEN <<<<"high", data, 2>>, <<"low", data, 2>>>> ELSE <<<<"sum", data, 1>>>>

Packet(b) ==
    LET n == b % NUMBERS
        data == Data(b, Size(sender.head))
    IN <<Control(sender.head), Number(n), Number(NUMBERS - 1 - n)>>
           \o data \o Check(data, sender.crc)

-----------------------------------------------------------------------------
(* The receiver. *)

Init ==
    /\ \E head \in {SOH, STX}, knowsCRC \in BOOLEAN :
           /\ rec = [at |-> "START", chTryCount |-> 0, chSend |-> CRC_C, bMode |-> TRUE,
                     tRec |-> "ON_GOING", chHandShake |-> "CRC", chPacketNumber |-> 1,
                     chHead |-> head, chFrameHead |-> 0, chBlk |-> 0, chNBlk |-> 0,
                     data |-> <<>>, chCheck |-> <<>>]
           /\ sender = [at |-> "begin", head |-> head, knowsCRC |-> knowsCRC, crc |-> FALSE, block |-> 1]
    /\ line = <<>>
    /\ answers = <<>>
    /\ saved = <<>>
    /\ result = "on_going"
    /\ faults = 0
    /\ misread = {}

\* xmodem_task, XMODEM_REC_START
Start ==
    /\ result = "on_going"
    /\ rec.at = "START"
    /\ rec' = [rec EXCEPT !.at = "MODE_SEND", !.chTryCount = 0, !.chSend = CRC_C, !.bMode = TRUE,
                          !.tRec = "ON_GOING", !.chHandShake = "CRC"]
    /\ UNCHANGED <<line, answers, sender, saved, result, faults, misread>>

\* XMODEM_MODE_SEND; the line may lose or damage the byte.
ModeSend ==
    /\ rec.at = "MODE_SEND"
    /\ \/ answers' = Append(answers, rec.chSend) /\ UNCHANGED faults
       \/ /\ faults < FAULTS
          /\ faults' = faults + 1
          /\ answers' \in {answers, Append(answers, NoAnswer)}
    /\ result' = CASE rec.tRec = "CPL" -> "cpl"
                   [] rec.tRec = "CAN" -> "user_cancel"
                   [] rec.tRec = "FAIL" -> "err"
                   [] OTHER -> "on_going"
    /\ rec' = [rec EXCEPT !.at = IF result' = "on_going" THEN "REC_HEAD" ELSE "START",
                          !.chFrameHead = 0, !.chBlk = 0, !.chNBlk = 0, !.data = <<>>, !.chCheck = <<>>]
    /\ UNCHANGED <<line, sender, saved, misread>>

\* XMODEM_MODE_REC_PACKET: what a result of xmodem_rec_package leads to.
Answer(x, tRec) ==
    LET r == [x EXCEPT !.tRec = tRec]
        again == [r EXCEPT !.chTryCount = @ + 1]
        cksum == again.chTryCount = C_TRYING_COUNT
    IN CASE tRec = "NO_ERROR" ->
                [r EXCEPT !.chTryCount = 0, !.chHandShake = "FINSH", !.chSend = ACK, !.at = "MODE_SEND"]
         [] tRec = "DUPLICATE" -> [r EXCEPT !.chHandShake = "FINSH", !.chSend = ACK, !.at = "MODE_SEND"]
         [] tRec \in {"CAN", "CPL"} -> [r EXCEPT !.chSend = ACK, !.at = "MODE_SEND"]
         [] tRec = "FAIL" -> [r EXCEPT !.chSend = CAN, !.at = "MODE_SEND"]
         [] tRec \in {"TIMEOUT", "INCORRECT"} ->
                [again EXCEPT !.chHandShake = "FINSH",
                              !.chSend = IF again.chTryCount < MAX_TRY_AGAN THEN NAK ELSE @,
                              !.at = IF again.chTryCount < MAX_TRY_AGAN THEN "MODE_SEND" ELSE "START"]
         [] tRec = "NO_CHAR" /\ rec.chHandShake = "CRC" ->
                [again EXCEPT !.chSend = IF cksum THEN NAK ELSE CRC_C,
                              !.bMode = IF cksum THEN FALSE ELSE @,
                              !.chHandShake = IF cksum THEN "CKSUM" ELSE @,
                              !.at = "MODE_SEND"]
         [] tRec = "NO_CHAR" /\ rec.chHandShake # "CRC" ->
                [again EXCEPT !.chSend = NAK, !.chHandShake = IF again.chTryCount = MAX_TRY_AGAN THEN "FINSH" ELSE @,
                              !.at = IF again.chTryCount = MAX_TRY_AGAN THEN "START" ELSE "MODE_SEND"]

\* Mutation: a silence is not counted as a try.
BugEnded(x, tRec) ==
    /\ rec' = [Answer(x, tRec) EXCEPT !.chTryCount = IF tRec = "NO_CHAR" THEN x.chTryCount ELSE @]
    /\ result' = IF rec'.at = "START" THEN "err" ELSE "on_going"

\* The package has ended; out of tries, the task has too.
Ended(x, tRec) ==
    /\ rec' = Answer(x, tRec)
    /\ result' = IF rec'.at = "START" THEN "err" ELSE "on_going"

\* xmodem_read_with_timeout()
Read ==
    /\ line # <<>>
    /\ line' = Tail(line)
    /\ UNCHANGED <<answers, sender, faults>>

\* The byte b is taken for v; misread keeps it if b was not sent as that.
Taken(b, v) ==
    misread' = misread \cup (IF b = Control(v) THEN {} ELSE {v} \cap {EOT, CAN})

\* XMODEM_REC_HEAD: any byte that ends nothing begins a packet.
RecHead ==
    /\ rec.at = "REC_HEAD"
    /\ Read
    /\ \E v \in Values(Head(line), {SOH, STX, EOT, CAN}) :
          /\ Taken(Head(line), v)
          /\ \/ v = EOT /\ Ended([rec EXCEPT !.chPacketNumber = 1], "CPL")
             \/ v = CAN /\ Ended([rec EXCEPT !.chPacketNumber = 1], "CAN")
             \/ v \notin {EOT, CAN} /\ rec' = [rec EXCEPT !.chFrameHead = v, !.at = "REC_BLK"]
                /\ UNCHANGED result
    /\ UNCHANGED saved

RecNumber ==
    /\ Read
    /\ \/ /\ rec.at = "REC_BLK"
          /\ \E v \in Values(Head(line), {rec.chPacketNumber, rec.chPacketNumber - 1}) :
                rec' = [rec EXCEPT !.chBlk = v, !.at = "REC_NBLK"]
       \/ /\ rec.at = "REC_NBLK"
          /\ \E v \in Values(Head(line), {NUMBERS - 1 - rec.chBlk}) :
                rec' = [rec EXCEPT !.chNBlk = v, !.at = "REC_DATA"]
    /\ UNCHANGED <<saved, result, misread>>

\* s_hwBufferSize
BufferSize == IF rec.chHead = STX /\ rec.chFrameHead = STX THEN LONG ELSE SHORT

RecData ==
    /\ rec.at = "REC_DATA"
    /\ Read
    /\ rec' = [rec EXCEPT !.data = Append(@, Head(line)),
                          !.at = IF Len(rec.data) + 1 < BufferSize THEN @ ELSE "REC_CHECKOUT"]
    /\ UNCHANGED <<saved, result, misread>>

RecCheckout ==
    /\ rec.at = "REC_CHECKOUT"
    /\ Read
    /\ rec' = [rec EXCEPT !.chCheck = Append(@, Head(line)),
                          !.at = IF rec.bMode /\ rec.chCheck = <<>> THEN @ ELSE "CHECK_FRAME"]
    /\ UNCHANGED <<saved, result, misread>>

\* The line is silent for as long as the state waits.  When the sender has
\* something to send this is a fault: it is late.
Late == sender.at \in {"send", "send_eot"} \/ (answers # <<>> /\ sender.at \in {"begin", "wait", "wait_eot"})
Timeout ==
    /\ rec.at \in {"REC_HEAD", "REC_BLK", "REC_NBLK", "REC_DATA", "REC_CHECKOUT"}
    /\ line = <<>>
    /\ Late => faults < FAULTS
    /\ faults' = IF Late THEN faults + 1 ELSE faults
    /\ Ended(rec, IF rec.at = "REC_HEAD" THEN "NO_CHAR" ELSE "TIMEOUT")
    /\ UNCHANGED <<line, answers, sender, saved, misread>>

Complement(a, b) == a + b = NUMBERS - 1

\* Mutation: the number is not compared with the one that is due.
BugVerdict ==
    IF /\ rec.chFrameHead \in {STX, SOH}
       /\ Complement(rec.chBlk, rec.chNBlk)
       /\ rec.chCheck = Check(rec.data, rec.bMode)
    THEN "NO_ERROR" ELSE "INCORRECT"

\* Mutation: a packet that came twice is an error.
BugNoDuplicate ==
    CASE rec.chFrameHead \notin {STX, SOH} -> "INCORRECT"
      [] OTHER ->
            IF ~Complement(rec.chBlk, rec.chNBlk) THEN "INCORRECT"
            ELSE IF rec.chBlk # rec.chPacketNumber THEN "FAIL"
            ELSE IF rec.chCheck # Check(rec.data, rec.bMode) THEN "INCORRECT"
            ELSE "NO_ERROR"

\* XMODEM_CHECK_FRAME.  The number before 0 is -1, so that after NUMBERS - 1
\* packets a duplicate is not known for one.
Verdict ==
    CASE rec.chFrameHead \notin {STX, SOH} -> "INCORRECT"
      [] OTHER ->
            IF ~Complement(rec.chBlk, rec.chNBlk) THEN "INCORRECT"
            ELSE IF rec.chBlk = rec.chPacketNumber - 1 THEN "DUPLICATE"
            ELSE IF rec.chBlk # rec.chPacketNumber THEN "FAIL"
            ELSE IF rec.chCheck # Check(rec.data, rec.bMode) THEN "INCORRECT"
            ELSE "NO_ERROR"

CheckFrame ==
    /\ rec.at = "CHECK_FRAME"
    /\ IF Verdict = "NO_ERROR"
       THEN /\ rec' = [rec EXCEPT !.chPacketNumber = (@ + 1) % NUMBERS, !.at = "SAVE"]
            /\ UNCHANGED result
       ELSE Ended(rec, Verdict)
    /\ UNCHANGED <<line, answers, sender, saved, faults, misread>>

\* XMODEM_SAVE: the callback takes the buffer, at last, and gives another.
Save ==
    /\ rec.at = "SAVE"
    /\ saved' = Append(saved, rec.data)
    /\ Ended(rec, "NO_ERROR")
    /\ UNCHANGED <<line, answers, sender, faults, misread>>

-----------------------------------------------------------------------------
(* The sender. *)

\* What may become of bytes on the line.
Damaged(bytes) ==
    {<<>>} \cup {[bytes EXCEPT ![k] = Garbage] : k \in DOMAIN bytes}
           \cup {RemoveAt(bytes, k) : k \in DOMAIN bytes}

Puts(bytes) ==
    /\ \/ line' = line \o bytes /\ UNCHANGED faults
       \/ /\ faults < FAULTS
          /\ faults' = faults + 1
          /\ \E d \in Damaged(bytes) : line' = line \o d
    /\ answers' = <<>>

\* A byte of the receiver is written at once: none is between the two when a
\* packet begins.
SenderSends ==
    /\ rec.at # "MODE_SEND"
    /\ \/ sender.at = "send" /\ Puts(Packet(sender.block)) /\ sender' = [sender EXCEPT !.at = "wait"]
       \/ sender.at = "send_eot" /\ Puts(<<Control(EOT)>>) /\ sender' = [sender EXCEPT !.at = "wait_eot"]
    /\ UNCHANGED <<rec, saved, result, misread>>

Told(c) ==
    CASE sender.at = "begin" /\ c = NAK -> [sender EXCEPT !.at = "send", !.crc = FALSE]
      [] sender.at = "begin" /\ c = CRC_C /\ sender.knowsCRC -> [sender EXCEPT !.at = "send", !.crc = TRUE]
      [] sender.at = "wait" /\ c = ACK ->
            [sender EXCEPT !.block = @ + 1, !.at = IF sender.block = BLOCKS THEN "send_eot" ELSE "send"]
      [] sender.at = "wait" /\ (c = NAK \/ (c = CRC_C /\ sender.block = 1 /\ sender.crc)) ->
            [sender EXCEPT !.at = "send"]
      [] sender.at = "wait_eot" /\ c = ACK -> [sender EXCEPT !.at = "done"]
      [] sender.at = "wait_eot" /\ c = NAK -> [sender EXCEPT !.at = "send_eot"]
      [] sender.at \in {"wait", "wait_eot"} /\ c = CAN -> [sender EXCEPT !.at = "stopped"]
      [] OTHER -> sender

SenderHears ==
    /\ sender.at \in {"begin", "wait", "wait_eot"}
    /\ answers # <<>>
    /\ answers' = Tail(answers)
    /\ sender' = Told(Head(answers))
    /\ UNCHANGED <<rec, line, saved, result, faults, misread>>

\* The user of the sender gives up.
SenderCancels ==
    /\ sender.at = "wait"
    /\ line = <<>>
    /\ line' = <<Control(CAN)>>
    /\ sender' = [sender EXCEPT !.at = "cancelled"]
    /\ UNCHANGED <<rec, answers, saved, result, faults, misread>>

Receive ==
    \/ Start \/ ModeSend \/ RecHead \/ RecNumber \/ RecData \/ RecCheckout
    \/ Timeout \/ CheckFrame \/ Save

Next == Receive \/ SenderSends \/ SenderHears \/ SenderCancels

\* The task is polled for ever, the callback has room in the end, and the
\* sender goes on.
Fairness == WF_vars(Receive) /\ WF_vars(SenderSends) /\ WF_vars(SenderHears)

Spec == Init /\ [][Next]_vars /\ Fairness

-----------------------------------------------------------------------------
(* Properties. *)

\* A packet whose head is damaged is read as a short one, and the line is never
\* emptied: of a long packet the rest is read as packets more, each of which
\* costs a try and makes the sender repeat.
ReadToItsEnd == sender.head = SOH

\* What is saved is the file from its beginning, packet by packet: none twice,
\* none left out, none damaged; and a transfer that completes saved all of it,
\* but for a long packet whose second copy is acknowledged in place of the last,
\* and for a byte that was taken for EOT: the packet with that number, when its
\* head is lost, ends the transfer with success.
SavedIsFile ==
    /\ IsPrefix(saved, File)
    /\ result = "cpl" /\ ReadToItsEnd /\ EOT \notin misread => saved = File

\* With fewer faults than tries no transfer fails, and the receiver agrees with
\* the sender on who ended it.  The exceptions: at the wrap of the numbers a
\* packet whose answer was lost ends the transfer, and so may a sender that
\* gives up in the middle of a packet, and a long packet with a damaged head;
\* and, after a lost or damaged byte, another one that is taken for EOT or CAN.
FaultsAreSurvived ==
    /\ result = "err" => /\ faults > 0
                         /\ \/ rec.chPacketNumber = 0 \/ sender.at = "cancelled"
                            \/ ~ReadToItsEnd
    /\ result = "user_cancel" => sender.at = "cancelled" \/ CAN \in misread
    /\ result = "cpl" => sender.at \in {"wait_eot", "send_eot", "done"} \/ EOT \in misread
    /\ misread # {} => faults > 0

\* A transfer ends, with whatever result.
TransferEnds == <>(result # "on_going")
=============================================================================
