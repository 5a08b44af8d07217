-------------------------------- MODULE Frame --------------------------------
(***************************************************************************)
(* The simple frame (service/communication/frame/es_simple_frame) with the *)
(* bootloader's command parser.                                            *)
(*                                                                         *)
(* ES_SIMPLE_FRAME.Task decodes the frames of a pipe, has each one parsed  *)
(* and sends the reply; ES_SIMPLE_FRAME.Encoder sends the user's frames.   *)
(* Both use one encoder, under tMutex.  The two are tasks that may         *)
(* interleave anywhere: an action is one state of a state machine, since a *)
(* call may end in any state, when the pipe has no byte or no room.        *)
(*                                                                         *)
(* A byte of data is <<n>>, a byte of a checksum <<"L" or "H", the bytes   *)
(* it covers>>: the checksum is perfect (module Crc has what it can do).   *)
(* Read as anything else, a byte of a checksum has a value as any other.   *)
(***************************************************************************)
EXTENDS Bootloader, SequencesExt

CONSTANTS
    BASE,           \* values of a byte of the length
    NSIZE,          \* bytes of the buffer (nSize)
    HEAD,           \* ES_SIMPLE_FRAME_HEAD
    ERROR,          \* ES_SIMPLE_FRAME_ERROR
    SumValues,      \* values of bytes of checksums; of those not in it, 1
    Streams,        \* what may come in: sequences of pieces
    UserFrames      \* what the user sends, one after the other

Sequence(q) == Len(q) \in Nat /\ q = [i \in 1 .. Len(q) |-> q[i]]

Value(byte) ==
    IF Len(byte) = 1 THEN byte[1] ELSE IF byte \in DOMAIN SumValues THEN SumValues[byte] ELSE 1
IsHead(byte) == Value(byte) = HEAD[1]

LengthBytes(n) == <<<<n % BASE>>, <<n \div BASE>>>>
CheckSum(bytes) == <<<<"L", bytes>>, <<"H", bytes>>>>
Encoded(data) ==
    LET body == LengthBytes(Len(data)) \o data
    IN <<HEAD>> \o body \o CheckSum(body)

IsByte(b) == b = <<b[1]>> /\ b[1] \in Nat

\* The buffer has room for what the parser writes to it; noise has no byte of
\* a checksum, and damage changes the byte.
ASSUME FrameAssumption ==
    /\ {BASE, NSIZE} \subseteq Nat \ {0}
    /\ NSIZE >= 2
    /\ Sequence(INFO) /\ Len(INFO) <= NSIZE
    /\ \A pieces \in Streams :
          /\ Sequence(pieces)
          /\ \A i \in 1 .. Len(pieces) :
                 LET p == pieces[i]
                 IN /\ p.kind \in {"frame", "damaged", "noise"}
                    /\ Sequence(p.data) /\ \A k \in 1 .. Len(p.data) : IsByte(p.data[k])
                    /\ p.kind = "damaged" =>
                          p.at \in DOMAIN Encoded(p.data) /\ Encoded(p.data)[p.at] # <<0>>
    /\ IsByte(HEAD)
    /\ \A b \in DOMAIN SumValues : SumValues[b] \in Nat
    /\ Sequence(UserFrames)
    /\ \A i \in 1 .. Len(UserFrames) : Sequence(UserFrames[i])

VARIABLES
    stream,     \* the pieces that come in
    rx,         \* their bytes, as far as they are not yet read
    dec,        \* es_simple_frame_decoder
    task,       \* es_simple_frame_decoder_wrapper: its state
    enc,        \* es_simple_frame_encoder
    user,       \* es_simple_frame_encoder_wrapper: its state
    toSend,     \* frames the user has still to send
    tMutex,
    cell,       \* behind the bootloader
    tx,         \* the bytes sent
    handled,    \* history: the frames that were parsed
    seen,       \* history: what was in the buffer then
    answers,    \* history: the reply of each
    begun       \* history: the frames of which the sending has begun, and whose

histVars == <<handled, seen, answers>>
decVars == <<rx, dec, cell, histVars>>
encVars == <<enc, tx, begun>>
vars == <<stream, decVars, task, encVars, user, toSend, tMutex>>

\* A piece of the input is a frame, a frame with a byte changed, or noise.
PieceBytes(p) ==
    CASE p.kind = "frame" -> Encoded(p.data)
      [] p.kind = "damaged" -> [Encoded(p.data) EXCEPT ![p.at] = <<0>>]
      [] p.kind = "noise" -> p.data

Init ==
    /\ stream \in Streams
    /\ rx = FlattenSeq([i \in DOMAIN stream |-> PieceBytes(stream[i])])
    /\ dec = [at |-> "START", hwLength |-> 0, hwCounter |-> 0, hwCheckSUM |-> <<>>,
              bUnsupportFrame |-> FALSE, buffer |-> [i \in 1 .. NSIZE |-> <<0>>]]
    /\ task = "START"
    /\ enc = [at |-> "START", data |-> <<>>, hwCounter |-> 0, hwCheckSUM |-> <<>>]
    /\ user = IF UserFrames = <<>> THEN "none" ELSE "START"
    /\ toSend = UserFrames
    /\ tMutex = FALSE
    /\ cell = [content |-> EMPTY, secured |-> FALSE]
    /\ tx = <<>>
    /\ handled = <<>>
    /\ seen = <<>>
    /\ answers = <<>>
    /\ begun = <<>>

-----------------------------------------------------------------------------
(* The decoder, in the wrapper's state DECODING. *)

TaskStart ==
    /\ task = "START"
    /\ task' = "DECODING"
    /\ UNCHANGED <<stream, decVars, encVars, user, toSend, tMutex>>

\* on_start
DecoderStart ==
    /\ task = "DECODING"
    /\ dec.at = "START"
    /\ dec' = [dec EXCEPT !.at = "WAIT_FOR_HEAD", !.hwCheckSUM = <<>>, !.bUnsupportFrame = FALSE]
    /\ UNCHANGED <<stream, rx, cell, histVars, task, encVars, user, toSend, tMutex>>

\* ReadByte()
Reads(state, Takes(_)) ==
    /\ task = "DECODING"
    /\ dec.at = state
    /\ rx # <<>>
    /\ rx' = Tail(rx)
    /\ dec' = Takes(Head(rx))
    /\ UNCHANGED <<stream, cell, histVars, task, encVars, user, toSend, tMutex>>

WaitForHead ==
    Reads("WAIT_FOR_HEAD", LAMBDA b : IF IsHead(b) THEN [dec EXCEPT !.at = "WAIT_FOR_LENGTH_L"] ELSE dec)

WaitForLengthL ==
    Reads("WAIT_FOR_LENGTH_L", LAMBDA b :
        [dec EXCEPT !.at = "WAIT_FOR_LENGTH_H", !.hwLength = Value(b), !.hwCheckSUM = Append(@, b)])

\* A frame that is too long is read to its end all the same.
WaitForLengthH ==
    Reads("WAIT_FOR_LENGTH_H", LAMBDA b :
        LET n == dec.hwLength + BASE * Value(b)
        IN [dec EXCEPT !.hwLength = n, !.hwCheckSUM = Append(@, b), !.hwCounter = 0,
                       !.bUnsupportFrame = n > NSIZE,
                       !.at = IF n = 0 THEN "WAIT_FOR_CHECK_SUM_L" ELSE "WAIT_FOR_DATA"])

\* Stream.Read() takes some of the bytes that are there.
WaitForData ==
    /\ task = "DECODING"
    /\ dec.at = "WAIT_FOR_DATA"
    /\ \E n \in 1 .. Min({Len(rx), dec.hwLength - dec.hwCounter}) :
           LET bytes == SubSeq(rx, 1, n)
               counter == dec.hwCounter
           IN /\ rx' = SubSeq(rx, n + 1, Len(rx))
              /\ dec' = [dec EXCEPT
                    !.buffer = [i \in 1 .. NSIZE |->
                        IF i \in counter + 1 .. counter + n THEN bytes[i - counter] ELSE @[i]],
                    !.hwCheckSUM = @ \o bytes,
                    !.hwCounter = counter + n,
                    !.at = IF counter + n >= dec.hwLength THEN "WAIT_FOR_CHECK_SUM_L" ELSE @]
    /\ UNCHANGED <<stream, cell, histVars, task, encVars, user, toSend, tMutex>>

\* Mutation: a mismatch is not noticed.
BugCheckSumL ==
    Reads("WAIT_FOR_CHECK_SUM_L", LAMBDA b : [dec EXCEPT !.at = "WAIT_FOR_CHECK_SUM_H"])

WaitForCheckSumL ==
    Reads("WAIT_FOR_CHECK_SUM_L", LAMBDA b :
        [dec EXCEPT !.at = IF b = <<"L", dec.hwCheckSUM>> THEN "WAIT_FOR_CHECK_SUM_H" ELSE "START"])

Mismatch ==
    /\ Head(rx) # <<"H", dec.hwCheckSUM>>
    /\ dec' = [dec EXCEPT !.at = "START"]
    /\ UNCHANGED <<cell, histVars, task>>

\* The parser, or the report of a frame that is too long; then, back in the
\* wrapper, a reply that fits the buffer is sent.
Parse ==
    /\ Head(rx) = <<"H", dec.hwCheckSUM>>
    /\ LET data == SubSeq(dec.hwCheckSUM, 3, Len(dec.hwCheckSUM))
       IN \E a \in {IF dec.bUnsupportFrame
                    THEN Answer(cell, [dec.buffer EXCEPT ![1] = ERROR], 1)
                    ELSE booloader_command_parser(cell, dec.buffer)} :
              /\ cell' = a.cell
              /\ dec' = [dec EXCEPT !.at = "START", !.buffer = a.buffer, !.hwLength = a.size]
              /\ handled' = Append(handled, data)
              /\ seen' = Append(seen, dec.buffer)
              /\ answers' = Append(answers, SubSeq(a.buffer, 1, a.size))
              /\ task' = IF a.size \in 1 .. NSIZE THEN "TRY_TO_LOCK" ELSE "START"

WaitForCheckSumH ==
    /\ task = "DECODING"
    /\ dec.at = "WAIT_FOR_CHECK_SUM_H"
    /\ rx # <<>>
    /\ rx' = Tail(rx)
    /\ Mismatch \/ Parse
    /\ UNCHANGED <<stream, encVars, user, toSend, tMutex>>

-----------------------------------------------------------------------------
(* The lock and the encoder. *)

TaskLock ==
    /\ task = "TRY_TO_LOCK"
    /\ ~tMutex
    /\ tMutex' = TRUE
    /\ task' = "REPLY"
    /\ UNCHANGED <<stream, decVars, encVars, user, toSend>>

UserStart ==
    /\ user = "START"
    /\ user' = "TRY_TO_LOCK"
    /\ UNCHANGED <<stream, decVars, task, encVars, toSend, tMutex>>

\* Mutation: the user does not look at the lock.
BugUserLock ==
    /\ user = "TRY_TO_LOCK"
    /\ tMutex' = TRUE
    /\ user' = "ENCODING"
    /\ UNCHANGED <<stream, decVars, task, encVars, toSend>>

UserLock ==
    /\ user = "TRY_TO_LOCK"
    /\ ~tMutex
    /\ tMutex' = TRUE
    /\ user' = "ENCODING"
    /\ UNCHANGED <<stream, decVars, task, encVars, toSend>>

\* The encoder's states; who calls it goes on when it is done.
EncoderStart(by, data) ==
    /\ enc.at = "START"
    /\ enc' = [at |-> "SEND_HEAD", data |-> data, hwCounter |-> 0, hwCheckSUM |-> <<>>]
    /\ begun' = Append(begun, [by |-> by, data |-> data])
    /\ UNCHANGED tx

\* WriteByte()
Writes(state, byte, next, sum) ==
    /\ enc.at = state
    /\ tx' = Append(tx, byte)
    /\ enc' = [enc EXCEPT !.at = next, !.hwCheckSUM = sum]
    /\ UNCHANGED begun

SendHeader ==
    LET len == LengthBytes(Len(enc.data))
        sum == enc.hwCheckSUM
    IN \/ Writes("SEND_HEAD", HEAD, "SEND_LENGTH_L", sum)
       \/ Writes("SEND_LENGTH_L", len[1], "SEND_LENGTH_H", Append(sum, len[1]))
       \/ Writes("SEND_LENGTH_H", len[2], "SEND_DATA", Append(sum, len[2]))
       \/ Writes("SEND_CRC_L", <<"L", sum>>, "SEND_CRC_H", sum)

\* Stream.Write() takes some of the bytes.
SendData ==
    /\ enc.at = "SEND_DATA"
    /\ \E n \in 1 .. Len(enc.data) - enc.hwCounter :
           LET bytes == SubSeq(enc.data, enc.hwCounter + 1, enc.hwCounter + n)
           IN /\ tx' = tx \o bytes
              /\ enc' = [enc EXCEPT !.hwCheckSUM = @ \o bytes, !.hwCounter = @ + n,
                                    !.at = IF enc.hwCounter + n >= Len(enc.data) THEN "SEND_CRC_L" ELSE @]
    /\ UNCHANGED begun

SendCRCH == Writes("SEND_CRC_H", <<"H", enc.hwCheckSUM>>, "START", enc.hwCheckSUM)

Sends(by, data) == EncoderStart(by, data) \/ SendHeader \/ SendData

TaskReply ==
    /\ task = "REPLY"
    /\ Sends("task", SubSeq(dec.buffer, 1, dec.hwLength))
    /\ UNCHANGED <<stream, decVars, task, user, toSend, tMutex>>

\* Mutation: the lock is kept.
BugTaskReplied ==
    /\ task = "REPLY"
    /\ SendCRCH
    /\ task' = "START"
    /\ UNCHANGED <<stream, decVars, user, toSend, tMutex>>

TaskReplied ==
    /\ task = "REPLY"
    /\ SendCRCH
    /\ task' = "START"
    /\ tMutex' = FALSE
    /\ UNCHANGED <<stream, decVars, user, toSend>>

UserEncode ==
    /\ user = "ENCODING"
    /\ Sends("user", Head(toSend))
    /\ UNCHANGED <<stream, decVars, task, user, toSend, tMutex>>

UserSent ==
    /\ user = "ENCODING"
    /\ SendCRCH
    /\ toSend' = Tail(toSend)
    /\ user' = IF Len(toSend) = 1 THEN "none" ELSE "START"
    /\ tMutex' = FALSE
    /\ UNCHANGED <<stream, decVars, task>>

Decoder ==
    \/ DecoderStart \/ WaitForHead \/ WaitForLengthL \/ WaitForLengthH
    \/ WaitForData \/ WaitForCheckSumL \/ WaitForCheckSumH

Task == TaskStart \/ Decoder \/ TaskLock \/ TaskReply \/ TaskReplied
Encoder == UserStart \/ UserLock \/ UserEncode \/ UserSent

Next == Task \/ Encoder

\* Both are polled for ever, and the pipe goes on taking bytes.  The lock is
\* polled: weak fairness is enough because what comes in ends.
Fairness == WF_vars(Task) /\ WF_vars(Encoder)

Spec == Init /\ [][Next]_vars /\ Fairness

-----------------------------------------------------------------------------
(* Properties. *)

Ascending(f, part, all) ==
    /\ \A i \in DOMAIN f : part[i] = all[f[i]]
    /\ \A i, j \in DOMAIN f : i < j => f[i] < f[j]

\* Of frames, those of one of the two are those that are at the indices which
\* of part.
AllOf(by, frames, part, which) ==
    LET places == {k \in DOMAIN frames : frames[k].by = by}
    IN \E f \in [which -> places] :
           /\ Ascending(f, part, [k \in DOMAIN frames |-> frames[k].data])
           /\ \A k \in places : \E i \in which : f[i] = k

Ended == IF enc.at = "START" THEN begun ELSE SubSeq(begun, 1, Len(begun) - 1)
Sent == Len(UserFrames) - Len(toSend)
Replies == {i \in DOMAIN answers : answers[i] # <<>>}
Replied == IF task \in {"TRY_TO_LOCK", "REPLY"} THEN Replies \ {Len(answers)} ELSE Replies

\* The replies and the user's frames never mix on the wire and none gets lost
\* to the other: it carries whole frames, in the order in which their sending
\* began, and those that ended are all that the user was told it has sent and
\* all replies but the one in hand, each once and in order.
OutputWhole ==
    LET whole == FlattenSeq([k \in DOMAIN begun |-> Encoded(begun[k].data)])
    IN /\ IsPrefix(tx, whole)
       /\ enc.at = "START" => tx = whole
       /\ AllOf("user", Ended, UserFrames, 1 .. Sent)
       /\ AllOf("task", Ended, answers, Replied)

Intact == {k \in DOMAIN stream : stream[k].kind = "frame"}
StreamData == [k \in DOMAIN stream |-> stream[k].data]

\* Noise without a head, and damage behind the length to a frame whose last
\* byte is no head, leave the decoder in step with the frames: when the first
\* half of the checksum is wrong, the second is looked at as a head.
Harmless ==
    \A i \in DOMAIN stream :
        LET p == stream[i]
        IN \/ p.kind = "frame"
           \/ p.kind = "damaged" /\ p.at > 3 /\ ~IsHead(Last(PieceBytes(p)))
           \/ p.kind = "noise" /\ HEAD \notin {p.data[k] : k \in DOMAIN p.data}

\* Only whole frames are parsed, each once and in the order in which they
\* came, whatever the line did to the others and whatever was taken for a head;
\* and none is missed, unless a length was damaged or noise, or what is left of
\* a damaged frame, has a byte with the value of a head.
ParsedIsSent ==
    \E f \in [DOMAIN handled -> Intact] :
        /\ Ascending(f, handled, StreamData)
        /\ Harmless /\ rx = <<>> => \A k \in Intact : \E i \in DOMAIN handled : f[i] = k

\* What the answers have to be, seen from the requests alone.  A request is
\* what was in the buffer, of which the frame is only the beginning.
Fits(i) == Len(handled[i]) <= NSIZE
Handler(i) == IF Fits(i) /\ seen[i][1] \in DOMAIN c_tCMDMap THEN c_tCMDMap[seen[i][1]] ELSE "none"
Before(i, hs) == {j \in 1 .. i - 1 : Handler(j) \in hs /\ answers[j] = <<IAP_RSP_OK>>}
SecuredBefore(i) == \E j \in Before(i, {"secure"}) : \A k \in Before(i, {"erase"}) : k < j
ContentBefore(i) ==
    LET done == Before(i, {"write", "erase"})
    IN IF done = {} \/ Handler(Max(done)) = "erase" THEN EMPTY ELSE seen[Max(done)][3]

Reply(i) ==
    CASE ~Fits(i) -> {<<ERROR>>}
      [] Fits(i) /\ Handler(i) \in {"none", "resume"} -> {<<>>}
      [] Handler(i) = "ack" -> {INFO}
      [] Handler(i) = "erase" -> {<<IAP_RSP_OK>>, <<IAP_RSP_ERROR>>}
      [] Handler(i) \in {"write", "read", "secure"} ->
            IF SecuredBefore(i) THEN {<<>>}
            ELSE {<<IAP_RSP_ERROR>>,
                  IF Handler(i) = "read" THEN <<IAP_RSP_OK, ContentBefore(i)>> ELSE <<IAP_RSP_OK>>}

\* A secured device does nothing but an erase and tells nothing of its memory;
\* otherwise it reads what was written last and, after an erase, nothing,
\* whatever frames were damaged or rejected between.
AnswersRight ==
    \A i \in DOMAIN handled :
        /\ Fits(i) => \A k \in DOMAIN handled[i] : seen[i][k] = handled[i][k]
        /\ answers[i] \in Reply(i)

\* All that the user sends and all replies get to the wire.
AllSent ==
    <>[](/\ rx = <<>> /\ toSend = <<>>
         /\ Len(begun) = Len(UserFrames) + Cardinality({i \in DOMAIN answers : answers[i] # <<>>})
         /\ enc.at = "START" /\ ~tMutex)
=============================================================================
