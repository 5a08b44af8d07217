--------------------------------- MODULE Key ---------------------------------
(***************************************************************************)
(* The key service (hal/component/key): key_task scans a keypad, filters   *)
(* its bounces, makes edges of what is left (the frontend) and events of   *)
(* the edges (the detector); the user takes the events by get_key.         *)
(*                                                                         *)
(* A call of key_task runs one state of the frontend and one of the        *)
(* detector.  Each of the two writes a queue of its own, a ring buffer     *)
(* (key_queue), and looks not whether there was room.                      *)
(***************************************************************************)
EXTENDS Integers

CONSTANTS
    Keys,            \* key values other than 0, KEY_NULL
    KEY_COUNT, KEY_LONG_TIME, KEY_REPEAT_TIME, KEY_QUEUE_SIZE,
    CHANGES          \* bound: how often the keypad changes

ASSUME KeyAssumption ==
    /\ {KEY_COUNT, KEY_LONG_TIME, KEY_REPEAT_TIME, KEY_QUEUE_SIZE} \subseteq Nat \ {0}
    /\ CHANGES \in Nat
    /\ Keys \subseteq Nat \ {0}

KEY_NULL == 0
Values == Keys \cup {KEY_NULL}

VARIABLES
    pad, changes,   \* what GET_KEY_SCAN_VALUE returns; how often it has changed
    check,          \* check_key: state and statics
    frontend,       \* key_frontend
    decetor,        \* key_decetor
    s_tKeyFrontendQueue, s_tKeyDetectorQueue,
    turn,           \* of key_task: what it calls next
    reads,          \* history: how often each value was read since the last result
    user            \* history: what the user makes of the events it got, and
                    \* whether it let one be lost

vars == <<pad, changes, check, frontend, decetor,
          s_tKeyFrontendQueue, s_tKeyDetectorQueue, turn, reads, user>>

-----------------------------------------------------------------------------
(* key_queue.c *)

NoKey == [tEvent |-> "KEY_UP", chKeyValue |-> KEY_NULL]

key_queue_init ==
    [ptBuffer |-> [k \in 0 .. KEY_QUEUE_SIZE - 1 |-> NoKey], hwHead |-> 0, hwTail |-> 0, hwLength |-> 0]

Full(q) == q.hwLength = KEY_QUEUE_SIZE

After(k) == IF k + 1 = KEY_QUEUE_SIZE THEN 0 ELSE k + 1

key_enqueue(q, key) ==
    IF Full(q) THEN q
    ELSE [q EXCEPT !.ptBuffer[q.hwTail] = key, !.hwTail = After(@), !.hwLength = @ + 1]

key_front(q) == q.ptBuffer[q.hwHead]

\* A place that was read is read no more before it is written.
key_dequeue(q) ==
    [q EXCEPT !.ptBuffer[q.hwHead] = NoKey, !.hwHead = After(@), !.hwLength = @ - 1]

-----------------------------------------------------------------------------
Init ==
    /\ pad = KEY_NULL
    /\ changes = 0
    /\ check = [at |-> "START", hwCount |-> 0, chKeyValue |-> KEY_NULL, chHisKeyValue |-> KEY_NULL]
    /\ frontend = [at |-> "CHECK", chNow |-> KEY_NULL, chLast |-> KEY_NULL]
    /\ decetor = [at |-> "DEQUEUE1", hwLong |-> 0, hwRepeat |-> 0, tKeyDown |-> NoKey, tKeyUp |-> NoKey]
    /\ s_tKeyFrontendQueue = key_queue_init
    /\ s_tKeyDetectorQueue = key_queue_init
    /\ turn = "frontend"
    /\ reads = [v \in Values |-> 0]
    /\ user = [key |-> KEY_NULL, last |-> "KEY_PRESSED", lost |-> FALSE, fits |-> TRUE]

\* A key is pressed or released, or bounces.
Change ==
    /\ changes < CHANGES
    /\ changes' = changes + 1
    /\ pad' \in Values \ {pad}
    /\ UNCHANGED <<check, frontend, decetor, s_tKeyFrontendQueue, s_tKeyDetectorQueue, turn, reads, user>>

-----------------------------------------------------------------------------
(* check_key *)

Enough == KEY_COUNT <= check.hwCount

\* Mutation: the count of the last result goes on.
BugScan ==
    /\ check.at \in {"START", "CHECKING"}
    /\ check' = [check EXCEPT !.chKeyValue = pad,
                              !.hwCount = IF pad = check.chHisKeyValue /\ ~Enough THEN @ + 1 ELSE @,
                              !.at = IF pad = check.chHisKeyValue THEN "FINISH" ELSE "SCAN"]
    /\ LET old == IF check.at = "START" THEN [v \in Values |-> 0] ELSE reads
       IN reads' = [old EXCEPT ![pad] = IF @ = KEY_COUNT THEN @ ELSE @ + 1]

Scan ==
    LET count == IF check.at = "START" THEN 0 ELSE check.hwCount IN
    /\ check.at \in {"START", "CHECKING"}
    /\ check' = [check EXCEPT !.chKeyValue = pad,
                              !.hwCount = IF pad = check.chHisKeyValue THEN count + 1 ELSE count,
                              !.at = IF pad = check.chHisKeyValue THEN "FINISH" ELSE "SCAN"]
    /\ LET old == IF check.at = "START" THEN [v \in Values |-> 0] ELSE reads
       IN reads' = [old EXCEPT ![pad] = IF @ = KEY_COUNT THEN @ ELSE @ + 1]

\* CHECK_KEY_SCAN
Other ==
    /\ check.at = "SCAN"
    /\ check' = [check EXCEPT !.chHisKeyValue = IF check.hwCount = 0 THEN check.chKeyValue ELSE @,
                              !.hwCount = IF @ = 0 THEN 0 ELSE @ - 1,
                              !.at = "CHECKING"]
    /\ UNCHANGED reads

Finish ==
    /\ check.at = "FINISH"
    /\ check' = [check EXCEPT !.at = IF Enough THEN "START" ELSE "CHECKING"]
    /\ UNCHANGED reads

-----------------------------------------------------------------------------
(* key_frontend *)

Checks ==
    /\ frontend.at = "CHECK"
    /\ Scan \/ Other \/ Finish
    /\ frontend' = IF check.at = "FINISH" /\ Enough
                   THEN [frontend EXCEPT !.chNow = check.chKeyValue, !.at = "SAME"]
                   ELSE frontend
    /\ UNCHANGED <<s_tKeyFrontendQueue, user>>

Same ==
    /\ frontend.at = "SAME"
    /\ frontend' = [frontend EXCEPT !.at = IF frontend.chLast = frontend.chNow THEN "CHECK" ELSE "EDGE"]
    /\ UNCHANGED <<check, reads, s_tKeyFrontendQueue, user>>

\* The edges from the last value to this one, put on q.
Up(q) == IF frontend.chLast = KEY_NULL THEN q
         ELSE key_enqueue(q, [tEvent |-> "KEY_UP", chKeyValue |-> frontend.chLast])

\* Mutation: a key is pressed only when none was.
BugDown(q) == IF frontend.chNow = KEY_NULL \/ frontend.chLast # KEY_NULL THEN q
              ELSE key_enqueue(q, [tEvent |-> "KEY_DOWN", chKeyValue |-> frontend.chNow])

Down(q) == IF frontend.chNow = KEY_NULL THEN q
           ELSE key_enqueue(q, [tEvent |-> "KEY_DOWN", chKeyValue |-> frontend.chNow])

\* Mutation: a key that follows another is pressed before that one is released.
BugEdges(q) == Up(Down(q))

Edges(q) == Down(Up(q))

Edge ==
    /\ frontend.at = "EDGE"
    /\ s_tKeyFrontendQueue' = Edges(s_tKeyFrontendQueue)
    /\ frontend' = [frontend EXCEPT !.chLast = frontend.chNow, !.at = "CHECK"]
    /\ UNCHANGED <<check, reads, user>>

key_frontend ==
    /\ turn = "frontend"
    /\ turn' = "decetor"
    /\ Checks \/ Same \/ Edge
    /\ UNCHANGED <<pad, changes, decetor, s_tKeyDetectorQueue>>

-----------------------------------------------------------------------------
(* key_decetor *)

Puts(key) ==
    /\ s_tKeyDetectorQueue' = key_enqueue(s_tKeyDetectorQueue, key)
    /\ user' = [user EXCEPT !.lost = @ \/ Full(s_tKeyDetectorQueue)]

\* Nothing but the state of the machine changes.
Goes(to) ==
    /\ decetor' = to
    /\ UNCHANGED <<s_tKeyFrontendQueue, s_tKeyDetectorQueue, user>>

Take(to) ==
    /\ s_tKeyFrontendQueue.hwLength # 0
    /\ s_tKeyFrontendQueue' = key_dequeue(s_tKeyFrontendQueue)
    /\ decetor' = to
    /\ UNCHANGED <<s_tKeyDetectorQueue, user>>

Nothing == s_tKeyFrontendQueue.hwLength = 0

Dequeue ==
    LET key == key_front(s_tKeyFrontendQueue) IN
    \/ /\ decetor.at = "DEQUEUE1"
       /\ \/ Take([decetor EXCEPT !.tKeyDown = key, !.at = "DOWN"])
          \/ Nothing /\ Goes(decetor)
    \/ /\ decetor.at = "DEQUEUE2"
       /\ \/ Take([decetor EXCEPT !.tKeyUp = key, !.at = "IS_UP_1"])
          \/ Nothing /\ Goes([decetor EXCEPT !.hwLong = @ + 1, !.at = "LONG_TIME"])
    \/ /\ decetor.at = "DEQUEUE3"
       /\ \/ Take([decetor EXCEPT !.tKeyUp = key, !.at = "IS_UP_2"])
          \/ Nothing /\ Goes([decetor EXCEPT !.hwRepeat = @ + 1, !.at = "REPEAT_TIME"])

IsDown ==
    /\ decetor.at = "DOWN"
    /\ IF decetor.tKeyDown.tEvent = "KEY_DOWN"
       THEN /\ Puts(decetor.tKeyDown)
            /\ decetor' = [decetor EXCEPT !.at = "DEQUEUE2"]
            /\ UNCHANGED s_tKeyFrontendQueue
       ELSE Goes([decetor EXCEPT !.at = "DEQUEUE1"])

\* XXX_RESET_FSM, with START, which clears the counts.
Restarted == [decetor EXCEPT !.at = "DEQUEUE1", !.hwLong = 0, !.hwRepeat = 0,
                             !.tKeyDown = NoKey, !.tKeyUp = NoKey]

\* KEY_UP and KEY_PRESSED
IsUp1 ==
    /\ decetor.at = "IS_UP_1"
    /\ IF decetor.tKeyUp.tEvent = "KEY_UP"
       THEN LET q == key_enqueue(s_tKeyDetectorQueue, decetor.tKeyUp) IN
            /\ s_tKeyDetectorQueue' = key_enqueue(q, [decetor.tKeyUp EXCEPT !.tEvent = "KEY_PRESSED"])
            /\ user' = [user EXCEPT !.lost = @ \/ Full(q)]
            /\ decetor' = Restarted
            /\ UNCHANGED s_tKeyFrontendQueue
       ELSE Goes([decetor EXCEPT !.at = "DEQUEUE2"])

IsUp2 ==
    /\ decetor.at = "IS_UP_2"
    /\ IF decetor.tKeyUp.tEvent = "KEY_UP"
       THEN /\ Puts(decetor.tKeyUp)
            /\ decetor' = Restarted
            /\ UNCHANGED s_tKeyFrontendQueue
       ELSE Goes([decetor EXCEPT !.at = "DEQUEUE3"])

LongTime ==
    /\ decetor.at = "LONG_TIME"
    /\ IF decetor.hwLong < KEY_LONG_TIME
       THEN Goes([decetor EXCEPT !.at = "DEQUEUE2"])
       ELSE LET key == [decetor.tKeyDown EXCEPT !.tEvent = "KEY_LONG_PRESSED"] IN
            /\ Puts(key)
            /\ decetor' = [decetor EXCEPT !.tKeyDown = key, !.at = "DEQUEUE3"]
            /\ UNCHANGED s_tKeyFrontendQueue

RepeatTime ==
    \/ /\ decetor.at = "REPEAT_TIME"
       /\ IF decetor.hwRepeat < KEY_REPEAT_TIME
          THEN Goes([decetor EXCEPT !.at = "DEQUEUE3"])
          ELSE Goes([decetor EXCEPT !.hwRepeat = 0, !.at = "REPEAT_ENQUEUE"])
    \/ /\ decetor.at = "REPEAT_ENQUEUE"
       /\ LET key == [decetor.tKeyDown EXCEPT !.tEvent = "KEY_REPEAT"] IN
            /\ Puts(key)
            /\ decetor' = [decetor EXCEPT !.tKeyDown = key, !.at = "DEQUEUE3"]
            /\ UNCHANGED s_tKeyFrontendQueue

key_decetor ==
    /\ turn = "decetor"
    /\ turn' = "frontend"
    /\ Dequeue \/ IsDown \/ IsUp1 \/ IsUp2 \/ LongTime \/ RepeatTime
    /\ UNCHANGED <<pad, changes, check, frontend, reads>>

-----------------------------------------------------------------------------
(* The user. *)

\* What may follow what: all of one key.
Follows(u, key) ==
    /\ key.tEvent = "KEY_DOWN" \/ key.chKeyValue = u.key
    /\ CASE key.tEvent = "KEY_DOWN" -> u.last \in {"KEY_PRESSED", "KEY_UP_LONG"}
         [] key.tEvent = "KEY_UP" -> u.last \in {"KEY_DOWN", "KEY_LONG_PRESSED", "KEY_REPEAT"}
         [] key.tEvent = "KEY_PRESSED" -> u.last = "KEY_UP"
         [] key.tEvent = "KEY_LONG_PRESSED" -> u.last = "KEY_DOWN"
         [] key.tEvent = "KEY_REPEAT" -> u.last \in {"KEY_LONG_PRESSED", "KEY_REPEAT"}

\* The last event that the user knows then.
Latest(u, key) ==
    IF key.tEvent = "KEY_UP" /\ u.last # "KEY_DOWN" THEN "KEY_UP_LONG" ELSE key.tEvent

get_key ==
    LET key == key_front(s_tKeyDetectorQueue) IN
    /\ s_tKeyDetectorQueue.hwLength # 0
    /\ s_tKeyDetectorQueue' = key_dequeue(s_tKeyDetectorQueue)
    /\ user' = [user EXCEPT !.fits = @ /\ Follows(user, key), !.last = Latest(user, key),
                            !.key = key.chKeyValue]
    /\ UNCHANGED <<pad, changes, check, frontend, decetor, s_tKeyFrontendQueue, reads, turn>>

Next == Change \/ key_frontend \/ key_decetor \/ get_key

\* The task is called for ever, and the user asks again and again.
Fairness == WF_vars(key_frontend) /\ WF_vars(key_decetor) /\ WF_vars(get_key)

Spec == Init /\ [][Next]_vars /\ Fairness

-----------------------------------------------------------------------------
(* Properties. *)

\* A value that the filter hands out was read KEY_COUNT times since the last
\* one: bounces never make a key.
OnlyWhatWasRead == frontend.at \in {"SAME", "EDGE"} => reads[frontend.chNow] = KEY_COUNT

\* As long as the detector's queue was not full the user gets, of each press, KEY_DOWN, then
\* KEY_UP and KEY_PRESSED, or KEY_LONG_PRESSED, repeats and KEY_UP, all of one
\* key and nothing of another between them.
EventsFit == user.lost \/ user.fits

\* When the keypad has come to rest the user comes to know what is pressed,
\* unless it let an event be lost.  The frontend's queue never loses one: the
\* detector is faster than the filter.
Pressed == IF user.last \in {"KEY_DOWN", "KEY_LONG_PRESSED", "KEY_REPEAT"} THEN user.key ELSE KEY_NULL
UserKnows == <>[](user.lost \/ Pressed = pad)
=============================================================================
