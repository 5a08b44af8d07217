----------------------------- MODULE Key_proofs -----------------------------
(***************************************************************************)
(* What holds of the key service for all keys and all settings.            *)
(*                                                                         *)
(* What the filter hands out was really read: neither a bounce nor the end *)
(* of a count makes a key (FilterInv; only the filter and the frontend     *)
(* take part).  The detector is faster than the filter, so that every edge *)
(* is taken before there are new ones, and the events that it makes of     *)
(* them lead the user from what it knows to what the detector holds        *)
(* (EventsInv).                                                            *)
(***************************************************************************)
EXTENDS Key, TLAPS

FilterTypes ==
    /\ pad \in Values
    /\ check \in [at : {"START", "CHECKING", "SCAN", "FINISH"}, hwCount : Nat,
                  chKeyValue : Values, chHisKeyValue : Values]
    /\ frontend \in [at : {"CHECK", "SAME", "EDGE"}, chNow : Values, chLast : Values]
    /\ reads \in [Values -> 0 .. KEY_COUNT]

\* The count of the filter, a uint16_t, stays at KEY_COUNT or below.
CountFits == check.hwCount <= KEY_COUNT

\* The count has room for the next reading while more are to come.
RoomToCount == check.at \in {"CHECKING", "SCAN"} => check.hwCount < KEY_COUNT

\* What is counted was read at least as often since the last result.
CountIsRead == check.at # "START" => check.hwCount <= reads[check.chHisKeyValue]

\* At the end of a count the value read is the value counted.
SameAtFinish == check.at = "FINISH" => check.chKeyValue = check.chHisKeyValue

FilterInv ==
    /\ FilterTypes
    /\ CountFits
    /\ RoomToCount
    /\ CountIsRead
    /\ SameAtFinish
    /\ OnlyWhatWasRead

filter == <<pad, check, frontend, reads>>

-----------------------------------------------------------------------------
LEMMA InitFilter == Init => FilterInv
  BY KeyAssumption DEF Init, FilterInv, FilterTypes, CountFits, RoomToCount, CountIsRead,
     SameAtFinish, OnlyWhatWasRead, Values, KEY_NULL

\* The three states of check_key.
LEMMA ScanKeeps == FilterInv /\ frontend.at = "CHECK" /\ Scan /\ UNCHANGED <<pad, frontend>> => FilterInv'
  <1> SUFFICES ASSUME FilterInv, frontend.at = "CHECK", Scan, UNCHANGED <<pad, frontend>>
               PROVE  FilterInv'
    OBVIOUS
  <1> USE KeyAssumption
  <1> DEFINE count == IF check.at = "START" THEN 0 ELSE check.hwCount
             old == IF check.at = "START" THEN [v \in Values |-> 0] ELSE reads
             same == pad = check.chHisKeyValue
  <1>1. /\ check' = [check EXCEPT !.chKeyValue = pad,
                                  !.hwCount = IF same THEN count + 1 ELSE count,
                                  !.at = IF same THEN "FINISH" ELSE "SCAN"]
        /\ reads' = [old EXCEPT ![pad] = IF @ = KEY_COUNT THEN @ ELSE @ + 1]
    BY DEF Scan
  <1>2. count \in Nat /\ count < KEY_COUNT
    BY DEF FilterInv, FilterTypes, RoomToCount, Scan
  <1>3. old \in [Values -> 0 .. KEY_COUNT] /\ count <= old[check.chHisKeyValue]
    BY DEF FilterInv, FilterTypes, CountIsRead
  <1> HIDE DEF count, old
  <1>4. FilterTypes'
    <2>1. pad \in Values /\ pad' \in Values /\ UNCHANGED frontend
      BY DEF FilterInv, FilterTypes
    <2>2. check' \in [at : {"START", "CHECKING", "SCAN", "FINISH"}, hwCount : Nat,
                      chKeyValue : Values, chHisKeyValue : Values]
      <3>1. (IF same THEN count + 1 ELSE count) \in Nat
        BY <1>2
      <3>2. (IF same THEN "FINISH" ELSE "SCAN") \in {"START", "CHECKING", "SCAN", "FINISH"}
        OBVIOUS
      <3> HIDE DEF same
      <3> QED
        BY <1>1, <2>1, <3>1, <3>2 DEF FilterInv, FilterTypes
    <2>3. reads' \in [Values -> 0 .. KEY_COUNT]
      <3>1. (IF old[pad] = KEY_COUNT THEN old[pad] ELSE old[pad] + 1) \in 0 .. KEY_COUNT
        BY <1>3, <2>1
      <3> QED
        BY <1>1, <1>3, <3>1
    <2> QED
      BY <2>1, <2>2, <2>3 DEF FilterInv, FilterTypes
  <1>5. /\ check'.hwCount = IF same THEN count + 1 ELSE count
        /\ check'.chHisKeyValue = check.chHisKeyValue
        /\ check'.chKeyValue = pad
        /\ check'.at = IF same THEN "FINISH" ELSE "SCAN"
    BY <1>1 DEF FilterInv, FilterTypes
  <1>6. check'.hwCount <= reads'[check.chHisKeyValue]
    BY <1>1, <1>2, <1>3, <1>5 DEF FilterInv, FilterTypes
  <1> QED
    BY <1>2, <1>4, <1>5, <1>6
    DEF FilterInv, CountFits, RoomToCount, CountIsRead, SameAtFinish, OnlyWhatWasRead

LEMMA OtherKeeps == FilterInv /\ frontend.at = "CHECK" /\ Other /\ UNCHANGED <<pad, frontend>> => FilterInv'
  <1> SUFFICES ASSUME FilterInv, frontend.at = "CHECK", Other, UNCHANGED <<pad, frontend>>
               PROVE  FilterInv'
    OBVIOUS
  <1> USE KeyAssumption
  <1> DEFINE n == IF check.hwCount = 0 THEN 0 ELSE check.hwCount - 1
             his == IF check.hwCount = 0 THEN check.chKeyValue ELSE check.chHisKeyValue
  <1>1. n \in Nat /\ n < KEY_COUNT /\ his \in Values /\ n <= reads[his]
    BY DEF Other, FilterInv, FilterTypes, RoomToCount, CountIsRead
  <1>2. check' = [check EXCEPT !.chHisKeyValue = his, !.hwCount = n, !.at = "CHECKING"]
    BY DEF Other
  <1> HIDE DEF n, his
  <1>3. /\ check' \in [at : {"START", "CHECKING", "SCAN", "FINISH"}, hwCount : Nat,
                       chKeyValue : Values, chHisKeyValue : Values]
        /\ check'.at = "CHECKING" /\ check'.hwCount = n /\ check'.chHisKeyValue = his
    BY <1>1, <1>2 DEF FilterInv, FilterTypes
  <1> QED
    BY <1>1, <1>3 DEF Other, FilterInv, FilterTypes, CountFits, RoomToCount, CountIsRead,
       SameAtFinish, OnlyWhatWasRead

LEMMA FinishKeeps ==
    ASSUME FilterInv, frontend.at = "CHECK", Finish, UNCHANGED pad,
           frontend' = IF Enough THEN [frontend EXCEPT !.chNow = check.chKeyValue, !.at = "SAME"]
                       ELSE frontend
    PROVE  FilterInv'
  <1> USE KeyAssumption
  <1>1. CASE Enough
    <2>1. reads[check.chKeyValue] = KEY_COUNT
      BY <1>1 DEF Finish, Enough, FilterInv, FilterTypes, CountFits, CountIsRead, SameAtFinish
    <2> QED
      BY <1>1, <2>1 DEF Finish, FilterInv, FilterTypes, CountFits, RoomToCount, CountIsRead,
         SameAtFinish, OnlyWhatWasRead
  <1>2. CASE ~Enough
    BY <1>2 DEF Finish, Enough, FilterInv, FilterTypes, CountFits, RoomToCount, CountIsRead,
       SameAtFinish, OnlyWhatWasRead
  <1> QED
    BY <1>1, <1>2

LEMMA FrontendKeeps == FilterInv /\ key_frontend => FilterInv'
  <1> SUFFICES ASSUME FilterInv, key_frontend PROVE FilterInv'
    OBVIOUS
  <1>1. CASE Checks
    <2>1. CASE Scan
      <3>1. frontend.at = "CHECK" /\ UNCHANGED <<pad, frontend>>
        BY <1>1, <2>1 DEF Checks, Scan, key_frontend
      <3> QED
        BY <2>1, <3>1, ScanKeeps
    <2>2. CASE Other
      <3>1. frontend.at = "CHECK" /\ UNCHANGED <<pad, frontend>>
        BY <1>1, <2>2 DEF Checks, Other, key_frontend
      <3> QED
        BY <2>2, <3>1, OtherKeeps
    <2>3. CASE Finish
      <3>1. /\ frontend.at = "CHECK" /\ UNCHANGED pad
            /\ frontend' = IF Enough THEN [frontend EXCEPT !.chNow = check.chKeyValue, !.at = "SAME"]
                           ELSE frontend
        BY <1>1, <2>3 DEF Checks, Finish, key_frontend
      <3> QED
        BY <2>3, <3>1, FinishKeeps
    <2> QED
      BY <1>1, <2>1, <2>2, <2>3 DEF Checks
  <1>2. CASE Same \/ Edge
    BY <1>2 DEF Same, Edge, key_frontend, FilterInv, FilterTypes, CountFits, RoomToCount,
       CountIsRead, SameAtFinish, OnlyWhatWasRead
  <1> QED
    BY <1>1, <1>2 DEF key_frontend

\* Nobody else touches what the filter works on, but the keypad changes.
LEMMA OthersKeep == FilterInv /\ (pad' \in Values /\ UNCHANGED <<check, frontend, reads>>) => FilterInv'
  BY DEF FilterInv, FilterTypes, CountFits, RoomToCount, CountIsRead, SameAtFinish, OnlyWhatWasRead

LEMMA NextKeeps == FilterInv /\ [Next]_vars => FilterInv'
  <1> SUFFICES ASSUME FilterInv, [Next]_vars PROVE FilterInv'
    OBVIOUS
  <1>0. pad \in Values
    BY DEF FilterInv, FilterTypes
  <1>1. CASE Change
    BY <1>1, OthersKeep DEF Change
  <1>2. CASE key_frontend
    BY <1>2, FrontendKeeps
  <1>3. CASE key_decetor
    BY <1>0, <1>3, OthersKeep DEF key_decetor
  <1>4. CASE get_key
    BY <1>0, <1>4, OthersKeep DEF get_key
  <1>5. CASE UNCHANGED vars
    BY <1>0, <1>5, OthersKeep DEF vars
  <1> QED
    BY <1>1, <1>2, <1>3, <1>4, <1>5 DEF Next

\* The inductive invariant of filter and frontend.
THEOREM FilterInvariant == Spec => []FilterInv
  BY InitFilter, NextKeeps, PTL DEF Spec

\* A key value that check_key hands to the frontend was read KEY_COUNT times
\* since the last one, whatever the keypad did in between.
THEOREM ResultsAreRead == Spec => []OnlyWhatWasRead
  <1>1. FilterInv => OnlyWhatWasRead
    BY DEF FilterInv
  <1> QED
    BY <1>1, FilterInvariant, PTL

\* s_hwCount of check_key never goes beyond KEY_COUNT: it cannot overflow.
THEOREM CountsFit == Spec => []CountFits
  <1>1. FilterInv => CountFits
    BY DEF FilterInv
  <1> QED
    BY <1>1, FilterInvariant, PTL

-----------------------------------------------------------------------------
(* The queues. *)

Events == [tEvent : {"KEY_DOWN", "KEY_UP", "KEY_PRESSED", "KEY_LONG_PRESSED", "KEY_REPEAT"},
           chKeyValue : Values]

\* The i-th event from the head, and where it is.
Place(q, i) == IF q.hwHead + i - 1 < KEY_QUEUE_SIZE THEN q.hwHead + i - 1
               ELSE q.hwHead + i - 1 - KEY_QUEUE_SIZE
Item(q, i) == q.ptBuffer[Place(q, i)]

IsQueue(q) ==
    /\ q \in [ptBuffer : [0 .. KEY_QUEUE_SIZE - 1 -> Events], hwHead : 0 .. KEY_QUEUE_SIZE - 1,
              hwTail : 0 .. KEY_QUEUE_SIZE - 1, hwLength : 0 .. KEY_QUEUE_SIZE]
    /\ q.hwTail = Place(q, q.hwLength + 1)

\* What is put on a queue with room is its last event; the others stay.
LEMMA Enqueued ==
    ASSUME NEW q, IsQueue(q), ~Full(q), NEW e \in Events, NEW r, r = key_enqueue(q, e)
    PROVE  /\ IsQueue(r) /\ r.hwLength = q.hwLength + 1
           /\ \A i \in 1 .. q.hwLength : Item(r, i) = Item(q, i)
           /\ Item(r, q.hwLength + 1) = e
  <1> DEFINE n == q.hwLength
             t == q.hwTail
             h == q.hwHead
             S == KEY_QUEUE_SIZE
  <1>1. /\ n \in Nat /\ n < S /\ h \in 0 .. S - 1 /\ t \in 0 .. S - 1 /\ S \in Nat \ {0}
        /\ q.ptBuffer \in [0 .. S - 1 -> Events]
    BY KeyAssumption DEF IsQueue, Full
  <1>2. t = IF h + n < S THEN h + n ELSE h + n - S
    BY <1>1 DEF IsQueue, Place
  <1>3. /\ r.hwHead = h /\ r.hwTail = After(t) /\ r.hwLength = n + 1
        /\ r.ptBuffer = [q.ptBuffer EXCEPT ![t] = e]
        /\ r = [ptBuffer |-> r.ptBuffer, hwHead |-> r.hwHead, hwTail |-> r.hwTail, hwLength |-> r.hwLength]
    BY DEF key_enqueue, IsQueue
  <1>4. r.ptBuffer \in [0 .. S - 1 -> Events] /\ n + 1 \in 0 .. S /\ After(t) \in 0 .. S - 1
    <2>1. r.ptBuffer \in [0 .. S - 1 -> Events]
      BY <1>1, <1>3
    <2>2. n + 1 \in 0 .. S
      BY <1>1
    <2>3. After(t) \in 0 .. S - 1
      BY <1>1 DEF After
    <2> QED
      BY <2>1, <2>2, <2>3
  <1>5. After(t) = IF h + n + 1 < S THEN h + n + 1 ELSE h + n + 1 - S
    BY <1>1, <1>2 DEF After
  <1>a. /\ \A i : Place(q, i) = IF h + i - 1 < S THEN h + i - 1 ELSE h + i - 1 - S
        /\ \A i : Place(r, i) = Place(q, i)
    BY <1>3 DEF Place
  <1> HIDE DEF n, t, h, S
  <1>6. After(t) = Place(r, n + 1 + 1)
    <2>1. Place(q, n + 1 + 1) = IF h + n + 1 < S THEN h + n + 1 ELSE h + n + 1 - S
      BY <1>1, <1>a
    <2> QED
      BY <1>5, <1>a, <2>1
  <1>7. IsQueue(r)
    BY <1>1, <1>3, <1>4, <1>6 DEF IsQueue, S
  <1>8. ASSUME NEW i \in 1 .. n PROVE Item(r, i) = Item(q, i)
    <2>1. Place(q, i) \in 0 .. S - 1 /\ Place(q, i) # t
      <3>1. PICK p : p = Place(q, i)
        OBVIOUS
      <3>2. p = IF h + i - 1 < S THEN h + i - 1 ELSE h + i - 1 - S
        BY <1>a, <3>1
      <3>3. i \in Nat \ {0} /\ i <= n
        BY <1>1
      <3>4. p \in 0 .. S - 1
        BY <1>1, <3>2, <3>3
      <3>5. p # t
        BY <1>1, <1>2, <3>2, <3>3
      <3> QED
        BY <3>1, <3>4, <3>5
    <2> QED
      BY <1>1, <1>3, <1>a, <2>1 DEF Item
  <1>9. Place(r, n + 1) = t
    BY <1>1, <1>2, <1>a
  <1> QED
    BY <1>1, <1>3, <1>7, <1>8, <1>9 DEF Item, n

\* The first event leaves and the others move up.
LEMMA Dequeued ==
    ASSUME NEW q, IsQueue(q), q.hwLength # 0, NEW r, r = key_dequeue(q)
    PROVE  /\ IsQueue(r) /\ q.hwLength = r.hwLength + 1 /\ r.hwLength \in Nat
           /\ \A i \in 1 .. r.hwLength : Item(r, i) = Item(q, i + 1)
           /\ key_front(q) = Item(q, 1) /\ key_front(q) \in Events
  <1> DEFINE n == q.hwLength
             t == q.hwTail
             h == q.hwHead
             S == KEY_QUEUE_SIZE
  <1>1. /\ n \in Nat \ {0} /\ n <= S /\ h \in 0 .. S - 1 /\ t \in 0 .. S - 1 /\ S \in Nat \ {0}
        /\ q.ptBuffer \in [0 .. S - 1 -> Events]
    BY KeyAssumption DEF IsQueue
  <1>2. t = IF h + n < S THEN h + n ELSE h + n - S
    BY <1>1 DEF IsQueue, Place
  <1>3. /\ r.hwHead = After(h) /\ r.hwTail = t /\ r.hwLength = n - 1
        /\ r.ptBuffer = [q.ptBuffer EXCEPT ![h] = NoKey]
        /\ r = [ptBuffer |-> r.ptBuffer, hwHead |-> r.hwHead, hwTail |-> r.hwTail, hwLength |-> r.hwLength]
    BY DEF key_dequeue, IsQueue
  <1>0. NoKey \in Events
    BY DEF NoKey, Events, Values
  <1>4. r.ptBuffer \in [0 .. S - 1 -> Events] /\ n - 1 \in 0 .. S /\ After(h) \in 0 .. S - 1
    BY <1>0, <1>1, <1>3 DEF After
  <1>5. After(h) = IF h + 1 = S THEN 0 ELSE h + 1
    BY DEF After
  <1>a. /\ \A i : Place(q, i) = IF h + i - 1 < S THEN h + i - 1 ELSE h + i - 1 - S
        /\ \A i : Place(r, i) = IF After(h) + i - 1 < S THEN After(h) + i - 1 ELSE After(h) + i - 1 - S
    BY <1>3 DEF Place
  <1> HIDE DEF n, t, h, S
  <1>6. t = Place(r, n - 1 + 1)
    <2>1. PICK b : b = After(h)
      OBVIOUS
    <2>2. b = IF h + 1 = S THEN 0 ELSE h + 1
      BY <1>5, <2>1
    <2>3. n - 1 + 1 = n
      BY <1>1
    <2>4. Place(r, n) = IF b + n - 1 < S THEN b + n - 1 ELSE b + n - 1 - S
      BY <1>a, <2>1
    <2>5. t = IF b + n - 1 < S THEN b + n - 1 ELSE b + n - 1 - S
      BY <1>1, <1>2, <2>2
    <2> QED
      BY <2>3, <2>4, <2>5
  <1>7. IsQueue(r)
    BY <1>1, <1>3, <1>4, <1>6 DEF IsQueue, S
  <1>8. ASSUME NEW i \in 1 .. n - 1 PROVE Item(r, i) = Item(q, i + 1)
    <2>1. Place(q, i + 1) = IF h + i < S THEN h + i ELSE h + i - S
      BY <1>1, <1>a
    <2>2. PICK b : b = After(h)
      OBVIOUS
    <2>3. Place(r, i) = IF b + i - 1 < S THEN b + i - 1 ELSE b + i - 1 - S
      BY <1>a, <2>2
    <2>4. b = IF h + 1 = S THEN 0 ELSE h + 1
      BY <1>5, <2>2
    <2>5. Place(r, i) = Place(q, i + 1) /\ Place(r, i) \in 0 .. S - 1 /\ Place(r, i) # h
      BY <1>1, <2>1, <2>3, <2>4
    <2> QED
      BY <1>1, <1>3, <2>5 DEF Item
  <1>9. Place(q, 1) = h
    BY <1>1, <1>a
  <1> QED
    BY <1>1, <1>3, <1>7, <1>8, <1>9 DEF Item, key_front, n, h

\* Where nothing is on a queue and something is put, or a queue is full.
LEMMA EmptyHasRoom == ASSUME NEW q, IsQueue(q), q.hwLength = 0 PROVE ~Full(q)
  BY KeyAssumption DEF Full

-----------------------------------------------------------------------------
(* What the events on a queue tell. *)

Heard(u, e) == [key |-> e.chKeyValue, last |-> Latest(u, e)]

\* The user u who takes all of queue q becomes v, and each event follows what
\* came before it; h are the steps in between.
Hears(q, u, v, h) ==
    /\ h[0] = [key |-> u.key, last |-> u.last]
    /\ \A i \in 1 .. q.hwLength : Follows(h[i - 1], Item(q, i)) /\ h[i] = Heard(h[i - 1], Item(q, i))
    /\ v = h[q.hwLength]
Leads(q, u, v) == \E h : Hears(q, u, v, h)

\* One more event is heard after the others.
LEMMA LeadsOn ==
    ASSUME NEW q, NEW u, NEW v, IsQueue(q), ~Full(q), Leads(q, u, v),
           NEW e \in Events, Follows(v, e), NEW r, r = key_enqueue(q, e)
    PROVE  Leads(r, u, Heard(v, e))
  <1>1. PICK h : Hears(q, u, v, h)
    BY DEF Leads
  <1>2. PICK n : n = q.hwLength
    OBVIOUS
  <1>3. /\ n \in Nat /\ r.hwLength = n + 1 /\ Item(r, n + 1) = e
        /\ \A i \in 1 .. n : Item(r, i) = Item(q, i)
    <2>1. /\ r.hwLength = q.hwLength + 1 /\ Item(r, q.hwLength + 1) = e
          /\ \A i \in 1 .. q.hwLength : Item(r, i) = Item(q, i)
      BY Enqueued
    <2>2. n \in Nat
      BY <1>2, KeyAssumption DEF IsQueue
    <2> QED
      BY <1>2, <2>1, <2>2
  <1> DEFINE g == [i \in 0 .. n + 1 |-> IF i = n + 1 THEN Heard(v, e) ELSE h[i]]
  <1>4. g[n + 1] = Heard(v, e) /\ \A i \in 0 .. n : g[i] = h[i]
    BY <1>3
  <1> HIDE DEF g
  <1>5. /\ h[0] = [key |-> u.key, last |-> u.last] /\ v = h[n]
        /\ \A i \in 1 .. n : Follows(h[i - 1], Item(q, i)) /\ h[i] = Heard(h[i - 1], Item(q, i))
    BY <1>1, <1>2 DEF Hears
  <1>6. g[0] = h[0] /\ g[n] = v
    BY <1>3, <1>4, <1>5
  <1>7. ASSUME NEW i \in 1 .. n + 1
        PROVE  Follows(g[i - 1], Item(r, i)) /\ g[i] = Heard(g[i - 1], Item(r, i))
    <2>1. CASE i = n + 1
      <3>1. g[i - 1] = v /\ Item(r, i) = e /\ g[i] = Heard(v, e)
        BY <1>3, <1>4, <1>6, <2>1
      <3> QED
        BY <3>1
    <2>2. CASE i # n + 1
      <3>1. i \in 1 .. n /\ i - 1 \in 0 .. n /\ i \in 0 .. n
        BY <1>3, <2>2
      <3>2. g[i - 1] = h[i - 1] /\ g[i] = h[i] /\ Item(r, i) = Item(q, i)
        BY <1>3, <1>4, <3>1
      <3> QED
        BY <1>5, <3>1, <3>2
    <2> QED
      BY <2>1, <2>2
  <1>8. Hears(r, u, Heard(v, e), g)
    BY <1>3, <1>4, <1>5, <1>6, <1>7 DEF Hears
  <1> QED
    BY <1>8 DEF Leads

\* The first event is heard, and then the others.
LEMMA LeadsFirst ==
    ASSUME NEW q, NEW u, NEW v, IsQueue(q), q.hwLength # 0, Leads(q, u, v),
           NEW r, r = key_dequeue(q), NEW w, w.key = key_front(q).chKeyValue, w.last = Latest(u, key_front(q))
    PROVE  Follows(u, key_front(q)) /\ Leads(r, w, v)
  <1>1. PICK h : Hears(q, u, v, h)
    BY DEF Leads
  <1>2. PICK n : n = r.hwLength
    OBVIOUS
  <1>3. /\ n \in Nat /\ q.hwLength = n + 1 /\ key_front(q) = Item(q, 1)
        /\ \A i \in 1 .. n : Item(r, i) = Item(q, i + 1)
    BY <1>2, Dequeued
  <1>4. /\ h[0] = [key |-> u.key, last |-> u.last] /\ v = h[n + 1]
        /\ \A i \in 1 .. n + 1 : Follows(h[i - 1], Item(q, i)) /\ h[i] = Heard(h[i - 1], Item(q, i))
    BY <1>1, <1>3 DEF Hears
  <1> DEFINE g == [i \in 0 .. n |-> h[i + 1]]
  <1>5. \A i \in 0 .. n : g[i] = h[i + 1]
    OBVIOUS
  <1> HIDE DEF g
  <1>6. Follows(h[0], Item(q, 1)) /\ h[1] = Heard(h[0], Item(q, 1))
    <2>1. 1 \in 1 .. n + 1 /\ 1 - 1 = 0
      BY <1>3
    <2> QED
      BY <1>4, <2>1
  <1>7. Follows(u, key_front(q)) /\ Latest(h[0], Item(q, 1)) = Latest(u, key_front(q))
    <2>1. PICK e : e = Item(q, 1)
      OBVIOUS
    <2>2. PICK b : b = h[0]
      OBVIOUS
    <2>3. b.key = u.key /\ b.last = u.last
      BY <1>4, <2>2
    <2>4. Follows(b, e) /\ key_front(q) = e
      BY <1>3, <1>6, <2>1, <2>2
    <2>5. Follows(u, e) /\ Latest(b, e) = Latest(u, e)
      BY <2>3, <2>4 DEF Follows, Latest
    <2> QED
      BY <2>1, <2>2, <2>4, <2>5
  <1>8. g[0] = [key |-> w.key, last |-> w.last]
    <2>1. g[0] = h[1]
      BY <1>3, <1>5
    <2> QED
      BY <1>3, <1>6, <1>7, <2>1 DEF Heard
  <1>9. ASSUME NEW i \in 1 .. n
        PROVE  Follows(g[i - 1], Item(r, i)) /\ g[i] = Heard(g[i - 1], Item(r, i))
    <2>1. /\ i + 1 \in 1 .. n + 1 /\ (i + 1) - 1 = i /\ (i - 1) + 1 = i
          /\ i \in 0 .. n /\ i - 1 \in 0 .. n
      BY <1>3
    <2>2. Follows(h[i], Item(q, i + 1)) /\ h[i + 1] = Heard(h[i], Item(q, i + 1))
      BY <1>4, <2>1
    <2>3. g[i - 1] = h[i] /\ g[i] = h[i + 1] /\ Item(r, i) = Item(q, i + 1)
      BY <1>3, <1>5, <2>1
    <2> QED
      BY <2>2, <2>3
  <1>a. v = g[n]
    BY <1>3, <1>4, <1>5
  <1>b. Hears(r, w, v, g)
    BY <1>2, <1>8, <1>9, <1>a DEF Hears
  <1> QED
    BY <1>7, <1>b DEF Leads

\* Only the key and the last event of a user count.
LEMMA LeadsSame ==
    ASSUME NEW q, NEW u, NEW v, NEW w, Leads(q, u, v), w.key = u.key, w.last = u.last
    PROVE  Leads(q, w, v)
  BY DEF Leads, Hears

\* A queue stays one, whether there is room or not.
LEMMA EnqueueKeeps == ASSUME NEW q, IsQueue(q), NEW e \in Events PROVE IsQueue(key_enqueue(q, e))
  <1>1. CASE Full(q)
    BY <1>1 DEF key_enqueue
  <1>2. CASE ~Full(q)
    <2>1. PICK r : r = key_enqueue(q, e)
      OBVIOUS
    <2> QED
      BY <1>2, <2>1, Enqueued
  <1> QED
    BY <1>1, <1>2

-----------------------------------------------------------------------------
(* The frontend and the detector. *)

\* The detector's and the user's variables.
UserTypes ==
    /\ user = [key |-> user.key, last |-> user.last, lost |-> user.lost, fits |-> user.fits]
    /\ user.lost \in BOOLEAN /\ user.fits \in BOOLEAN
Detects ==
    /\ decetor \in [at : {"DEQUEUE1", "DOWN", "DEQUEUE2", "IS_UP_1", "LONG_TIME",
                          "DEQUEUE3", "IS_UP_2", "REPEAT_TIME", "REPEAT_ENQUEUE"},
                    hwLong : Nat, hwRepeat : Nat, tKeyDown : Events, tKeyUp : Events]
    /\ UserTypes
    /\ turn \in {"frontend", "decetor"}

Queues == IsQueue(s_tKeyFrontendQueue) /\ IsQueue(s_tKeyDetectorQueue)

\* A result of the filter is handed on before the filter goes on.
Result ==
    /\ frontend.at \in {"SAME", "EDGE"} => check.at = "START" /\ frontend.chNow = check.chHisKeyValue
    /\ frontend.at = "EDGE" => frontend.chNow # frontend.chLast

\* At least so many times the frontend runs before it makes edges: a result
\* other than the last one needs a reading that starts a new count.
Turns ==
    IF frontend.at = "EDGE" THEN 0
    ELSE IF check.at = "SCAN" THEN 4
    ELSE IF check.chHisKeyValue = frontend.chLast THEN 5
    ELSE IF frontend.at = "SAME" THEN 1
    ELSE IF check.at = "FINISH" THEN 2
    ELSE 3

\* The detector has an event in hand.
InHand == decetor.at \in {"DOWN", "IS_UP_1", "IS_UP_2"}

\* At most so many times the detector runs before it has taken all edges.
Work ==
    LET n == s_tKeyFrontendQueue.hwLength
    IN IF InHand THEN 1 + 2 * n
       ELSE IF n = 0 THEN 0
       ELSE IF decetor.at = "REPEAT_TIME" THEN 2 + 2 * n
       ELSE IF decetor.at \in {"LONG_TIME", "REPEAT_ENQUEUE"} THEN 1 + 2 * n
       ELSE 2 * n

\* The detector is done with the edges before there are new ones.
Pace == Work <= IF turn = "decetor" THEN Turns + 1 ELSE Turns

\* The key that the detector holds to be down.
Held == IF decetor.at \in {"DEQUEUE1", "DOWN"} THEN KEY_NULL ELSE decetor.tKeyDown.chKeyValue

\* The last edge that the frontend made was that its last key is down.
IsLast(e) == e.tEvent = "KEY_DOWN" /\ e.chKeyValue = frontend.chLast /\ frontend.chLast # KEY_NULL

\* Behind an edge in hand.
Rest == \/ s_tKeyFrontendQueue.hwLength = 0
        \/ s_tKeyFrontendQueue.hwLength = 1 /\ IsLast(Item(s_tKeyFrontendQueue, 1))

\* The edges on the way lead from the key held to the frontend's last one.
Pending ==
    LET q == s_tKeyFrontendQueue
    IN /\ decetor.at \notin {"DEQUEUE1", "DOWN"} => Held # KEY_NULL
       /\ ~InHand =>
          \/ q.hwLength = 0 /\ Held \in {frontend.chLast, KEY_NULL}
          \/ q.hwLength = 1 /\ Held = KEY_NULL /\ IsLast(Item(q, 1))
          \/ /\ q.hwLength = 1 \/ (q.hwLength = 2 /\ IsLast(Item(q, 2)))
             /\ Item(q, 1).tEvent = "KEY_UP" /\ Held \in {Item(q, 1).chKeyValue, KEY_NULL}
       /\ decetor.at = "DOWN" =>
          \/ IsLast(decetor.tKeyDown) /\ q.hwLength = 0
          \/ decetor.tKeyDown.tEvent = "KEY_UP" /\ Rest
       /\ decetor.at \in {"IS_UP_1", "IS_UP_2"} =>
          decetor.tKeyUp.tEvent = "KEY_UP" /\ decetor.tKeyUp.chKeyValue = Held /\ Rest

\* What a user knows who has heard all that the detector told, in its state at,
\* with k held.
Ends(at, k, u) ==
    /\ at \in {"DEQUEUE1", "DOWN"} => u.last \in {"KEY_PRESSED", "KEY_UP_LONG"}
    /\ at \in {"DEQUEUE2", "IS_UP_1", "LONG_TIME"} => u.last = "KEY_DOWN" /\ u.key = k
    /\ at \in {"DEQUEUE3", "IS_UP_2", "REPEAT_TIME", "REPEAT_ENQUEUE"} =>
          u.last \in {"KEY_LONG_PRESSED", "KEY_REPEAT"} /\ u.key = k

AllTold ==
    \/ user.lost
    \/ user.fits /\ \E v : Leads(s_tKeyDetectorQueue, user, v) /\ Ends(decetor.at, Held, v)

EventsInv == FilterInv /\ Detects /\ Queues /\ Result /\ Pace /\ Pending /\ AllTold

\* In the beginning nothing is on the way.
LEMMA InitEvents == Init => EventsInv
  <1> SUFFICES ASSUME Init PROVE EventsInv
    OBVIOUS
  <1> USE KeyAssumption
  <1>1. FilterInv
    BY InitFilter
  <1>2. NoKey \in Events
    BY DEF NoKey, Events, Values
  <1>3. IsQueue(key_queue_init) /\ key_queue_init.hwLength = 0
    BY <1>2 DEF key_queue_init, IsQueue, Place
  <1>4. Detects /\ Queues
    BY <1>2, <1>3 DEF Init, Detects, UserTypes, Queues
  <1>5. Result /\ Pace
    BY <1>3 DEF Init, Result, Pace, Work, InHand, Turns
  <1>6. Pending
    BY <1>3 DEF Init, Pending, Held, InHand
  <1>7. Leads(s_tKeyDetectorQueue, user, [key |-> KEY_NULL, last |-> "KEY_PRESSED"])
    <2> DEFINE h == [i \in {0} |-> [key |-> KEY_NULL, last |-> "KEY_PRESSED"]]
    <2>1. Hears(s_tKeyDetectorQueue, user, [key |-> KEY_NULL, last |-> "KEY_PRESSED"], h)
      BY <1>3 DEF Init, Hears
    <2> QED
      BY <2>1 DEF Leads
  <1>8. AllTold
    BY <1>7 DEF Init, AllTold, Ends
  <1> QED
    BY <1>1, <1>4, <1>5, <1>6, <1>8 DEF EventsInv

-----------------------------------------------------------------------------
(* The detector's steps. *)

\* What a step of the detector starts from, and what it has to keep.
Ready == FilterTypes /\ Detects /\ Queues /\ Pending /\ AllTold
Keeps ==
    /\ Detects' /\ Queues' /\ Pending' /\ AllTold'
    /\ Work' <= Work - 1 \/ Work' = 0

\* The lengths are numbers.
LEMMA Lengths ==
    Queues => s_tKeyFrontendQueue.hwLength \in Nat /\ s_tKeyDetectorQueue.hwLength \in Nat
  BY KeyAssumption DEF Queues, IsQueue

\* A step that tells nothing leaves what the user comes to know.
LEMMA Silent ==
    ASSUME AllTold, UNCHANGED <<user, s_tKeyDetectorQueue>>,
           \A v : Ends(decetor.at, Held, v) => Ends(decetor.at, Held, v)'
    PROVE  AllTold'
  BY DEF AllTold

\* An event is put: it is lost, or the user comes to know it.
LEMMA PutTold ==
    ASSUME NEW q, IsQueue(q), NEW u, u.lost \in BOOLEAN,
           u = [key |-> u.key, last |-> u.last, lost |-> u.lost, fits |-> u.fits],
           NEW w, w = [u EXCEPT !.lost = @ \/ Full(q)], ~w.lost,
           NEW v, Leads(q, u, v), NEW e \in Events, Follows(v, e)
    PROVE  ~u.lost /\ w.fits = u.fits /\ Leads(key_enqueue(q, e), w, Heard(v, e))
  <1>1. ~u.lost /\ ~Full(q)
    OBVIOUS
  <1>2. w.key = u.key /\ w.last = u.last /\ w.fits = u.fits
    OBVIOUS
  <1>3. PICK r : r = key_enqueue(q, e)
    OBVIOUS
  <1>4. Leads(r, u, Heard(v, e))
    BY <1>1, <1>3, LeadsOn
  <1>5. PICK b : b = Heard(v, e)
    OBVIOUS
  <1>6. Leads(r, w, b)
    BY <1>2, <1>4, <1>5, LeadsSame
  <1> QED
    BY <1>1, <1>2, <1>3, <1>5, <1>6

\* A step that tells one event, which fits what the user knows then.
LEMMA Tells ==
    ASSUME Queues, UserTypes, AllTold, NEW e \in Events, Puts(e),
           \A v : Ends(decetor.at, Held, v) => Follows(v, e),
           \A v : Ends(decetor.at, Held, v) => Ends(decetor.at, Held, Heard(v, e))'
    PROVE  AllTold' /\ UserTypes' /\ IsQueue(s_tKeyDetectorQueue)'
  <1> DEFINE q == s_tKeyDetectorQueue
  <1>1. s_tKeyDetectorQueue' = key_enqueue(q, e) /\ user' = [user EXCEPT !.lost = @ \/ Full(q)]
    BY DEF Puts
  <1>2. IsQueue(q)
    BY DEF Queues
  <1>3. IsQueue(s_tKeyDetectorQueue)'
    <2>1. IsQueue(key_enqueue(q, e))
      BY <1>2, EnqueueKeeps
    <2> QED
      BY <1>1, <2>1 DEF IsQueue
  <1>4. UserTypes'
    <2>1. Full(q) \in BOOLEAN
      BY DEF Full
    <2> QED
      BY <1>1, <2>1 DEF UserTypes
  <1>5. ASSUME ~user'.lost PROVE AllTold'
    <2>1. PICK w : w = user'
      OBVIOUS
    <2>2. PICK v : ~user.lost => user.fits /\ Leads(q, user, v) /\ Ends(decetor.at, Held, v)
      BY DEF AllTold
    <2>3. ~user.lost
      BY <1>1, <1>5 DEF UserTypes
    <2>4. user.fits /\ Leads(q, user, v) /\ Ends(decetor.at, Held, v)
      BY <2>2, <2>3
    <2>5. Follows(v, e)
      BY <2>4
    <2>6. w.fits = user.fits /\ Leads(key_enqueue(q, e), w, Heard(v, e))
      <3>1. PICK u : u = user
        OBVIOUS
      <3>2. /\ u.lost \in BOOLEAN
            /\ u = [key |-> u.key, last |-> u.last, lost |-> u.lost, fits |-> u.fits]
        BY <3>1 DEF UserTypes
      <3>3. w = [u EXCEPT !.lost = @ \/ Full(q)]
        BY <1>1, <2>1, <3>1
      <3>4. ~w.lost
        BY <1>5, <2>1
      <3>5. Leads(q, u, v)
        BY <2>4, <3>1
      <3>6. w.fits = u.fits /\ Leads(key_enqueue(q, e), w, Heard(v, e))
        BY <1>2, <2>5, <3>2, <3>3, <3>4, <3>5, PutTold
      <3> QED
        BY <3>1, <3>6
    <2>7. Leads(s_tKeyDetectorQueue, user, Heard(v, e))'
      BY <1>1, <2>1, <2>6 DEF Leads, Hears, Heard, Latest
    <2>8. Ends(decetor.at, Held, Heard(v, e))'
      BY <2>4
    <2>9. user'.fits
      BY <2>1, <2>4, <2>6
    <2> QED
      <3>1. PICK b : b = Heard(v, e)
        OBVIOUS
      <3>2. b' = b
        OBVIOUS
      <3> QED
        BY <2>7, <2>8, <2>9, <3>1 DEF AllTold
  <1>6. ASSUME user'.lost PROVE AllTold'
    BY <1>6 DEF AllTold
  <1> QED
    BY <1>3, <1>4, <1>5, <1>6

\* A key is asked of the frontend's queue.
LEMMA DequeueKeeps == Ready /\ Dequeue /\ UNCHANGED frontend /\ turn' = "frontend" => Keeps
  <1> SUFFICES ASSUME Ready, Dequeue, UNCHANGED frontend, turn' = "frontend" PROVE Keeps
    OBVIOUS
  <1> DEFINE q == s_tKeyFrontendQueue
             key == key_front(q)
  <1>1. ASSUME Nothing, UNCHANGED <<s_tKeyFrontendQueue, s_tKeyDetectorQueue, user>>,
               \/ decetor.at = "DEQUEUE1" /\ decetor' = decetor
               \/ decetor.at = "DEQUEUE2" /\ decetor' = [decetor EXCEPT !.hwLong = @ + 1, !.at = "LONG_TIME"]
               \/ decetor.at = "DEQUEUE3" /\ decetor' = [decetor EXCEPT !.hwRepeat = @ + 1, !.at = "REPEAT_TIME"]
        PROVE  Keeps
    <2>1. Detects'
      <3>1. /\ decetor.hwLong + 1 \in Nat /\ decetor.hwRepeat + 1 \in Nat
            /\ UNCHANGED user
        BY <1>1 DEF Ready, Detects
      <3>2. /\ decetor' = [decetor EXCEPT !.hwLong = decetor.hwLong + 1, !.at = "LONG_TIME"]
               \/ decetor' = [decetor EXCEPT !.hwRepeat = decetor.hwRepeat + 1, !.at = "REPEAT_TIME"]
               \/ decetor' = decetor
        BY <1>1
      <3> QED
        BY <3>1, <3>2 DEF Ready, Detects, UserTypes
    <2>2. Queues'
      BY <1>1 DEF Ready, Queues, IsQueue, Place
    <2>3. ~InHand /\ ~InHand' /\ UNCHANGED Held
      BY <1>1 DEF Ready, Detects, InHand, Held
    <2>4. decetor'.at \notin {"DEQUEUE1", "DOWN"} => decetor.at \notin {"DEQUEUE1", "DOWN"}
      BY <1>1 DEF Ready, Detects
    <2>5. Pending'
      BY <1>1, <2>3, <2>4 DEF Ready, Pending, InHand, IsLast, Item, Place
    <2>6. Work' = 0
      BY <1>1, <2>3 DEF Work, Nothing
    <2>7. \A v : Ends(decetor.at, Held, v) => Ends(decetor.at, Held, v)'
      BY <1>1, <2>3 DEF Ready, Detects, Ends
    <2>8. AllTold'
      BY <1>1, <2>7, Silent DEF Ready
    <2> QED
      BY <2>1, <2>2, <2>5, <2>6, <2>8 DEF Keeps
  <1>2. ASSUME NEW to, Take(to),
               \/ decetor.at = "DEQUEUE1" /\ to = [decetor EXCEPT !.tKeyDown = key, !.at = "DOWN"]
               \/ decetor.at = "DEQUEUE2" /\ to = [decetor EXCEPT !.tKeyUp = key, !.at = "IS_UP_1"]
               \/ decetor.at = "DEQUEUE3" /\ to = [decetor EXCEPT !.tKeyUp = key, !.at = "IS_UP_2"]
        PROVE  Keeps
    <2> DEFINE n == q.hwLength
               m == s_tKeyFrontendQueue'.hwLength
    <2>1. /\ UNCHANGED <<s_tKeyDetectorQueue, user>> /\ decetor' = to
          /\ n # 0 /\ s_tKeyFrontendQueue' = key_dequeue(q)
      BY <1>2 DEF Take
    <2>2. PICK r : r = s_tKeyFrontendQueue'
      OBVIOUS
    <2>3. /\ IsQueue(r) /\ n = r.hwLength + 1 /\ r.hwLength \in Nat
          /\ \A i \in 1 .. r.hwLength : Item(r, i) = Item(q, i + 1)
          /\ key = Item(q, 1) /\ key \in Events
      <3>1. IsQueue(q) /\ n # 0 /\ r = key_dequeue(q)
        BY <2>1, <2>2 DEF Ready, Queues
      <3> QED
        BY <3>1, Dequeued
    <2>4. n = m + 1 /\ m \in Nat /\ (m = 1 => Item(r, 1) = Item(q, 2))
      BY <2>2, <2>3
    <2>5. Item(s_tKeyFrontendQueue, 1)' = Item(r, 1)
      BY <2>2 DEF Item, Place
    <2> HIDE DEF n, m
    <2>6. Detects'
      BY <1>2, <2>1, <2>3 DEF Ready, Detects, UserTypes
    <2>7. Queues'
      BY <2>1, <2>2, <2>3 DEF Ready, Queues, IsQueue, Place
    <2>8. ~InHand /\ InHand' /\ UNCHANGED Held
      BY <1>2, <2>1 DEF Ready, Detects, InHand, Held
    <2>9. \/ n = 1 /\ Held = KEY_NULL /\ IsLast(key)
          \/ /\ n = 1 \/ (n = 2 /\ IsLast(Item(q, 2)))
             /\ key.tEvent = "KEY_UP" /\ Held \in {key.chKeyValue, KEY_NULL}
      BY <2>1, <2>3, <2>8 DEF Ready, Pending, n
    <2>a. Rest'
      <3>1. m = 0 \/ (m = 1 /\ IsLast(Item(r, 1)))
        BY <2>4, <2>9
      <3> QED
        BY <2>5, <3>1 DEF Rest, IsLast, m
    <2>b. decetor.at # "DEQUEUE1" => Held # KEY_NULL
      BY <1>2 DEF Ready, Pending
    <2>c. ASSUME decetor.at = "DEQUEUE1"
         PROVE  Pending' /\ \A v : Ends(decetor.at, Held, v) => Ends(decetor.at, Held, v)'
      <3>1. decetor'.at = "DOWN" /\ decetor'.tKeyDown = key
        BY <1>2, <2>1, <2>c DEF Ready, Detects
      <3>2. (IsLast(decetor.tKeyDown)' /\ m = 0) \/ decetor'.tKeyDown.tEvent = "KEY_UP"
        BY <2>4, <2>9, <3>1 DEF IsLast
      <3>3. Pending'
        BY <2>8, <2>a, <3>1, <3>2 DEF Pending, m
      <3>4. \A v : Ends(decetor.at, Held, v) => Ends(decetor.at, Held, v)'
        BY <2>8, <2>c, <3>1 DEF Ends
      <3> QED
        BY <3>3, <3>4
    <2>d. ASSUME decetor.at # "DEQUEUE1"
         PROVE  Pending' /\ \A v : Ends(decetor.at, Held, v) => Ends(decetor.at, Held, v)'
      <3>1. /\ decetor'.at \in {"IS_UP_1", "IS_UP_2"} /\ decetor'.tKeyUp = key
            /\ (decetor'.at = "IS_UP_1" <=> decetor.at = "DEQUEUE2")
            /\ decetor.at \in {"DEQUEUE2", "DEQUEUE3"}
        BY <1>2, <2>1, <2>d DEF Ready, Detects
      <3>2. key.tEvent = "KEY_UP" /\ key.chKeyValue = Held
        BY <2>9, <2>b, <2>d
      <3>3. Pending'
        BY <2>8, <2>a, <2>b, <2>d, <3>1, <3>2 DEF Pending
      <3>4. \A v : Ends(decetor.at, Held, v) => Ends(decetor.at, Held, v)'
        BY <2>8, <3>1 DEF Ends
      <3> QED
        BY <3>3, <3>4
    <2>e. AllTold'
      BY <2>1, <2>c, <2>d, Silent DEF Ready
    <2>f. Work' <= Work - 1
      <3>1. Work' = 1 + 2 * m
        BY <2>8 DEF Work, m
      <3>2. Work = 2 * n
        BY <1>2, <2>1, <2>8 DEF Work, n
      <3> QED
        BY <2>4, <3>1, <3>2
    <2> QED
      BY <2>6, <2>7, <2>c, <2>d, <2>e, <2>f DEF Keeps
  <1>3. ASSUME NEW to, Nothing, Goes(to) PROVE UNCHANGED <<s_tKeyFrontendQueue, s_tKeyDetectorQueue, user>> /\ decetor' = to
    BY <1>3 DEF Goes
  <1> QED
    BY <1>1, <1>2, <1>3 DEF Dequeue

\* Whoever gives back the edge in hand holds no key; what is behind it waits.
LEMMA Freed ==
    ASSUME Rest, UNCHANGED <<s_tKeyFrontendQueue, frontend>>, decetor'.at = "DEQUEUE1"
    PROVE  Pending'
  <1>1. Rest' /\ ~InHand' /\ Held' = KEY_NULL
    BY DEF Rest, IsLast, Item, Place, InHand, Held
  <1> QED
    BY <1>1 DEF Rest, Pending, InHand, Held

\* Time goes by, and the key held stays held.
LEMMA Stays ==
    ASSUME Pending, ~InHand, ~InHand', UNCHANGED <<s_tKeyFrontendQueue, frontend>>, UNCHANGED Held,
           decetor.at # "DEQUEUE1"
    PROVE  Pending'
  BY DEF Pending, InHand, IsLast, Item, Place

\* KEY_DOWN is told, or a KEY_UP that nobody waits for is dropped.
LEMMA IsDownKeeps == Ready /\ IsDown /\ UNCHANGED frontend /\ turn' = "frontend" => Keeps
  <1> SUFFICES ASSUME Ready, IsDown, UNCHANGED frontend, turn' = "frontend" PROVE Keeps
    OBVIOUS
  <1> DEFINE n == s_tKeyFrontendQueue.hwLength
  <1>0. PICK e : e = decetor.tKeyDown
    OBVIOUS
  <1>1. decetor.at = "DOWN" /\ InHand /\ Held = KEY_NULL /\ e \in Events /\ n \in Nat
    BY <1>0, Lengths DEF IsDown, InHand, Held, Ready, Detects
  <1>2. Work = 1 + 2 * n
    BY <1>1 DEF Work
  <1>3. (IsLast(e) /\ n = 0) \/ (e.tEvent = "KEY_UP" /\ Rest)
    BY <1>0, <1>1 DEF Ready, Pending
  <1> HIDE DEF n
  <1>4. ASSUME e.tEvent = "KEY_DOWN" PROVE Keeps
    <2>1. Puts(e) /\ decetor' = [decetor EXCEPT !.at = "DEQUEUE2"] /\ UNCHANGED s_tKeyFrontendQueue
      BY <1>0, <1>4 DEF IsDown
    <2>2. IsLast(e) /\ n = 0
      BY <1>3, <1>4
    <2>3. decetor'.at = "DEQUEUE2" /\ decetor'.tKeyDown = e
      BY <1>0, <2>1 DEF Ready, Detects
    <2>4. Held' = frontend.chLast /\ frontend.chLast # KEY_NULL /\ ~InHand' /\ e.chKeyValue = frontend.chLast
      BY <2>2, <2>3 DEF Held, InHand, IsLast
    <2>5. Pending'
      BY <2>1, <2>2, <2>3, <2>4 DEF Pending, n
    <2>6. Work' = 0
      BY <2>1, <2>2, <2>4 DEF Work, n
    <2>7. \A v : Ends(decetor.at, Held, v) => Follows(v, e)
      BY <1>1, <1>4 DEF Ends, Follows
    <2>8. \A v : Ends(decetor.at, Held, v) => Ends(decetor.at, Held, Heard(v, e))'
      BY <1>4, <2>3, <2>4 DEF Ends, Heard, Latest
    <2>9. AllTold' /\ UserTypes' /\ IsQueue(s_tKeyDetectorQueue)'
      BY <1>1, <2>1, <2>7, <2>8, Tells DEF Ready, Detects
    <2>a. Detects'
      BY <2>1, <2>9 DEF Ready, Detects
    <2>b. Queues'
      BY <2>1, <2>9 DEF Ready, Queues, IsQueue, Place
    <2> QED
      BY <2>5, <2>6, <2>9, <2>a, <2>b DEF Keeps
  <1>5. ASSUME e.tEvent # "KEY_DOWN" PROVE Keeps
    <2>1. Goes([decetor EXCEPT !.at = "DEQUEUE1"])
      BY <1>0, <1>5 DEF IsDown
    <2>2. decetor'.at = "DEQUEUE1" /\ ~InHand' /\ Held' = KEY_NULL
      BY <2>1 DEF Goes, Ready, Detects, InHand, Held
    <2>3. Rest
      BY <1>3, <1>5 DEF IsLast
    <2>4. Pending'
      BY <2>1, <2>2, <2>3, Freed DEF Goes
    <2>5. Detects' /\ Queues'
      BY <2>1 DEF Goes, Ready, Detects, UserTypes, Queues, IsQueue, Place
    <2>6. Work' = 0 \/ Work' = 2 * n
      BY <2>1, <2>2 DEF Goes, Work, n
    <2>7. Work' <= Work - 1 \/ Work' = 0
      BY <1>1, <1>2, <2>6 DEF n
    <2>8. \A v : Ends(decetor.at, Held, v) => Ends(decetor.at, Held, v)'
      BY <1>1, <2>2 DEF Ends
    <2>9. AllTold'
      BY <2>1, <2>8, Silent DEF Goes, Ready
    <2> QED
      BY <2>4, <2>5, <2>7, <2>9 DEF Keeps
  <1> QED
    BY <1>4, <1>5

\* KEY_UP and KEY_PRESSED are told, one after the other.
LEMMA IsUp1Keeps == Ready /\ IsUp1 /\ UNCHANGED frontend /\ turn' = "frontend" => Keeps
  <1> SUFFICES ASSUME Ready, IsUp1, UNCHANGED frontend, turn' = "frontend" PROVE Keeps
    OBVIOUS
  <1> DEFINE n == s_tKeyFrontendQueue.hwLength
             p == s_tKeyDetectorQueue
             e == decetor.tKeyUp
             f == [e EXCEPT !.tEvent = "KEY_PRESSED"]
             q == key_enqueue(p, e)
  <1>1. decetor.at = "IS_UP_1" /\ InHand /\ e \in Events /\ n \in Nat /\ IsQueue(p)
    BY Lengths DEF IsUp1, InHand, Ready, Detects, Queues
  <1>2. Work = 1 + 2 * n
    BY <1>1 DEF Work
  <1>3. e.tEvent = "KEY_UP" /\ e.chKeyValue = Held /\ Rest
    BY <1>1 DEF Ready, Pending
  <1>4. /\ s_tKeyDetectorQueue' = key_enqueue(q, f) /\ user' = [user EXCEPT !.lost = @ \/ Full(q)]
        /\ decetor' = Restarted /\ UNCHANGED s_tKeyFrontendQueue
    BY <1>3 DEF IsUp1
  <1>5. f \in Events /\ f.tEvent = "KEY_PRESSED" /\ f.chKeyValue = e.chKeyValue
    BY <1>1 DEF Events
  <1> HIDE DEF n, f
  <1>6. NoKey \in Events
    BY DEF NoKey, Events, Values
  <1>7. decetor'.at = "DEQUEUE1" /\ ~InHand' /\ Held' = KEY_NULL
    BY <1>4 DEF Restarted, Ready, Detects, InHand, Held
  <1>8. Pending'
    BY <1>3, <1>4, <1>7, Freed
  <1>9. Work' <= Work - 1 \/ Work' = 0
    <2>1. Work' = 0 \/ Work' = 2 * n
      BY <1>4, <1>7 DEF Work, n
    <2> QED
      BY <1>1, <1>2, <2>1 DEF n
  <1>a. UserTypes'
    <2>1. Full(q) \in BOOLEAN
      BY DEF Full
    <2> QED
      BY <1>4, <2>1 DEF UserTypes, Ready, Detects
  <1>b. Detects'
    BY <1>4, <1>6, <1>a DEF Restarted, Ready, Detects
  <1>c. Queues'
    <2>1. PICK r : r = q
      OBVIOUS
    <2>2. IsQueue(r)
      BY <1>1, <2>1, EnqueueKeeps
    <2>3. IsQueue(key_enqueue(r, f))
      BY <1>5, <2>2, EnqueueKeeps
    <2> QED
      BY <1>4, <2>1, <2>3 DEF Ready, Queues, IsQueue, Place
  <1>d. ASSUME ~user'.lost PROVE AllTold'
    <2>1. PICK v : ~user.lost => user.fits /\ Leads(p, user, v) /\ Ends(decetor.at, Held, v)
      BY DEF Ready, AllTold
    <2>2. ~user.lost /\ ~Full(q)
      BY <1>4, <1>d DEF Ready, Detects, UserTypes
    <2>3. ~Full(p)
      BY <2>2 DEF key_enqueue
    <2>4. user.fits /\ Leads(p, user, v) /\ v.last = "KEY_DOWN" /\ v.key = Held
      BY <1>1, <2>1, <2>2 DEF Ends
    <2>5. PICK w : w = Heard(v, e)
      OBVIOUS
    <2>6. PICK x : x = Heard(w, f)
      OBVIOUS
    <2>7. Follows(v, e) /\ w.last = "KEY_UP" /\ w.key = Held
      BY <1>3, <2>4, <2>5 DEF Follows, Heard, Latest
    <2>8. Follows(w, f) /\ x.last = "KEY_PRESSED"
      BY <1>3, <1>5, <2>6, <2>7 DEF Follows, Heard, Latest
    <2>9. PICK r : r = q
      OBVIOUS
    <2>a. PICK u : u = user
      OBVIOUS
    <2>b. Leads(r, u, w)
      <3>1. Leads(p, u, v)
        BY <2>4, <2>a
      <3> QED
        BY <1>1, <2>3, <2>5, <2>7, <2>9, <3>1, LeadsOn
    <2>c. IsQueue(r) /\ ~Full(r)
      <3>1. IsQueue(r)
        BY <1>1, <2>9, EnqueueKeeps
      <3> QED
        BY <2>2, <2>9, <3>1
    <2>d. PICK s : s = key_enqueue(r, f)
      OBVIOUS
    <2>e. Leads(s, u, x)
      BY <1>5, <2>6, <2>8, <2>b, <2>c, <2>d, LeadsOn
    <2>f. PICK t : t = user'
      OBVIOUS
    <2>g. t.key = u.key /\ t.last = u.last /\ t.fits
      BY <1>4, <2>4, <2>a, <2>f DEF Ready, Detects, UserTypes
    <2>h. Leads(s, t, x)
      BY <2>e, <2>g, LeadsSame
    <2>i. Leads(s_tKeyDetectorQueue, user, x)'
      <3>1. s_tKeyDetectorQueue' = s /\ user' = t
        BY <1>4, <2>9, <2>d, <2>f
      <3> QED
        BY <2>h, <3>1 DEF Leads, Hears
    <2>j. Ends(decetor.at, Held, x)'
      BY <1>7, <2>8 DEF Ends
    <2> QED
      BY <2>f, <2>g, <2>i, <2>j DEF AllTold
  <1>e. AllTold'
    BY <1>d DEF AllTold
  <1> QED
    BY <1>8, <1>9, <1>b, <1>c, <1>e DEF Keeps

\* KEY_UP is told after a long press.
LEMMA IsUp2Keeps == Ready /\ IsUp2 /\ UNCHANGED frontend /\ turn' = "frontend" => Keeps
  <1> SUFFICES ASSUME Ready, IsUp2, UNCHANGED frontend, turn' = "frontend" PROVE Keeps
    OBVIOUS
  <1> DEFINE n == s_tKeyFrontendQueue.hwLength
  <1>0. PICK e : e = decetor.tKeyUp
    OBVIOUS
  <1>1. decetor.at = "IS_UP_2" /\ InHand /\ e \in Events /\ n \in Nat
    BY <1>0, Lengths DEF IsUp2, InHand, Ready, Detects
  <1>2. Work = 1 + 2 * n
    BY <1>1 DEF Work
  <1>3. e.tEvent = "KEY_UP" /\ e.chKeyValue = Held /\ Rest
    BY <1>0, <1>1 DEF Ready, Pending
  <1>4. Puts(e) /\ decetor' = Restarted /\ UNCHANGED s_tKeyFrontendQueue
    BY <1>0, <1>3 DEF IsUp2
  <1> HIDE DEF n
  <1>5. NoKey \in Events
    BY DEF NoKey, Events, Values
  <1>6. decetor'.at = "DEQUEUE1" /\ ~InHand' /\ Held' = KEY_NULL
    BY <1>4 DEF Restarted, Ready, Detects, InHand, Held
  <1>7. Pending'
    BY <1>3, <1>4, <1>6, Freed
  <1>8. Work' <= Work - 1 \/ Work' = 0
    <2>1. Work' = 0 \/ Work' = 2 * n
      BY <1>4, <1>6 DEF Work, n
    <2> QED
      BY <1>1, <1>2, <2>1 DEF n
  <1>9. \A v : Ends(decetor.at, Held, v) => Follows(v, e)
    <2>1. \A v : Ends(decetor.at, Held, v) => v.last \in {"KEY_LONG_PRESSED", "KEY_REPEAT"} /\ v.key = Held
      BY <1>1 DEF Ends
    <2>2. ASSUME NEW v, v.last \in {"KEY_LONG_PRESSED", "KEY_REPEAT"}, v.key = Held PROVE Follows(v, e)
      BY <1>3, <2>2 DEF Follows
    <2> QED
      BY <2>1, <2>2
  <1>a. \A v : Ends(decetor.at, Held, v) => Ends(decetor.at, Held, Heard(v, e))'
    <2>1. \A v : Ends(decetor.at, Held, v) => v.last \in {"KEY_LONG_PRESSED", "KEY_REPEAT"}
      BY <1>1 DEF Ends
    <2>2. ASSUME NEW v, v.last \in {"KEY_LONG_PRESSED", "KEY_REPEAT"}
          PROVE  Heard(v, e).last = "KEY_UP_LONG"
      BY <1>3, <2>2 DEF Heard, Latest
    <2> QED
      <3>1. \A v : Ends(decetor.at, Held, v) => Heard(v, e).last = "KEY_UP_LONG"
        BY <2>1, <2>2
      <3>2. ASSUME NEW w, w.last = "KEY_UP_LONG" PROVE Ends(decetor.at, Held, w)'
        BY <1>6, <3>2 DEF Ends
      <3> QED
        BY <3>1, <3>2 DEF Heard, Latest
  <1>b. AllTold' /\ UserTypes' /\ IsQueue(s_tKeyDetectorQueue)'
    BY <1>1, <1>4, <1>9, <1>a, Tells DEF Ready, Detects
  <1>c. Detects'
    BY <1>4, <1>5, <1>b DEF Restarted, Ready, Detects
  <1>d. Queues'
    BY <1>4, <1>b DEF Ready, Queues, IsQueue, Place
  <1> QED
    BY <1>7, <1>8, <1>b, <1>c, <1>d DEF Keeps

\* A key that is still down is told to be, by its event e.
LEMMA HoldsTells ==
    ASSUME Ready, UNCHANGED frontend, turn' = "frontend",
           decetor.at \in {"LONG_TIME", "REPEAT_ENQUEUE"},
           NEW e, e = [decetor.tKeyDown EXCEPT
                          !.tEvent = IF decetor.at = "LONG_TIME" THEN "KEY_LONG_PRESSED" ELSE "KEY_REPEAT"],
           Puts(e), decetor' = [decetor EXCEPT !.tKeyDown = e, !.at = "DEQUEUE3"],
           UNCHANGED s_tKeyFrontendQueue
    PROVE  Keeps
  <1> DEFINE n == s_tKeyFrontendQueue.hwLength
  <1>1. n \in Nat /\ decetor.tKeyDown \in Events
    BY Lengths DEF Ready, Detects
  <1>2. /\ e \in Events /\ e.chKeyValue = decetor.tKeyDown.chKeyValue
        /\ e.tEvent = IF decetor.at = "LONG_TIME" THEN "KEY_LONG_PRESSED" ELSE "KEY_REPEAT"
    BY <1>1 DEF Events
  <1> HIDE DEF n
  <1>3. /\ decetor'.at = "DEQUEUE3" /\ decetor'.tKeyDown = e
        /\ ~InHand /\ ~InHand' /\ UNCHANGED Held /\ e.chKeyValue = Held
    BY <1>2 DEF Ready, Detects, InHand, Held
  <1>4. Pending'
    BY <1>3, Stays DEF Ready
  <1>5. Work' <= Work - 1 \/ Work' = 0
    <2>1. Work = IF n = 0 THEN 0 ELSE 1 + 2 * n
      BY <1>3 DEF Work, n
    <2>2. Work' = IF n = 0 THEN 0 ELSE 2 * n
      BY <1>3 DEF Work, n
    <2> QED
      BY <1>1, <2>1, <2>2 DEF n
  <1>6. \A v : Ends(decetor.at, Held, v) => Follows(v, e)
    <2>1. CASE decetor.at = "LONG_TIME"
      <3>1. e.tEvent = "KEY_LONG_PRESSED" /\ e.chKeyValue = Held
        BY <1>2, <1>3, <2>1
      <3> QED
        BY <2>1, <3>1 DEF Ends, Follows
    <2>2. CASE decetor.at = "REPEAT_ENQUEUE"
      <3>1. e.tEvent = "KEY_REPEAT" /\ e.chKeyValue = Held
        BY <1>2, <1>3, <2>2
      <3>2. \A v : Ends(decetor.at, Held, v) => v.last \in {"KEY_LONG_PRESSED", "KEY_REPEAT"} /\ v.key = Held
        BY <2>2 DEF Ends
      <3>3. ASSUME NEW v, v.last \in {"KEY_LONG_PRESSED", "KEY_REPEAT"}, v.key = Held PROVE Follows(v, e)
        BY <3>1, <3>3 DEF Follows
      <3> QED
        BY <3>2, <3>3
    <2> QED
      BY <2>1, <2>2
  <1>7. \A v : Ends(decetor.at, Held, v) => Ends(decetor.at, Held, Heard(v, e))'
    BY <1>2, <1>3 DEF Ends, Heard, Latest
  <1>8. AllTold' /\ UserTypes' /\ IsQueue(s_tKeyDetectorQueue)'
    BY <1>2, <1>6, <1>7, Tells DEF Ready, Detects
  <1>9. Detects'
    BY <1>2, <1>8 DEF Ready, Detects
  <1>a. Queues'
    BY <1>8 DEF Ready, Queues, IsQueue, Place
  <1> QED
    BY <1>4, <1>5, <1>8, <1>9, <1>a DEF Keeps

\* Time goes by.
LEMMA TimeKeeps ==
    ASSUME Ready, UNCHANGED frontend, turn' = "frontend", NEW to, Goes(to),
           \/ decetor.at = "LONG_TIME" /\ to = [decetor EXCEPT !.at = "DEQUEUE2"]
           \/ decetor.at = "REPEAT_TIME" /\ to = [decetor EXCEPT !.at = "DEQUEUE3"]
           \/ decetor.at = "REPEAT_TIME" /\ to = [decetor EXCEPT !.hwRepeat = 0, !.at = "REPEAT_ENQUEUE"]
    PROVE  Keeps
  <1> DEFINE n == s_tKeyFrontendQueue.hwLength
  <1>1. n \in Nat
    BY Lengths DEF Ready
  <1>2. decetor' = to /\ UNCHANGED <<s_tKeyFrontendQueue, s_tKeyDetectorQueue, user>>
    BY DEF Goes
  <1> HIDE DEF n
  <1>3. /\ decetor'.tKeyDown = decetor.tKeyDown /\ decetor.at \in {"LONG_TIME", "REPEAT_TIME"}
        /\ decetor.at = "LONG_TIME" => decetor'.at = "DEQUEUE2"
        /\ decetor.at = "REPEAT_TIME" => decetor'.at \in {"DEQUEUE3", "REPEAT_ENQUEUE"}
    BY <1>2 DEF Ready, Detects
  <1>4. ~InHand /\ ~InHand' /\ UNCHANGED Held
    BY <1>3 DEF InHand, Held
  <1>5. Pending'
    BY <1>2, <1>3, <1>4, Stays DEF Ready
  <1>6. Work' <= Work - 1 \/ Work' = 0
    <2>1. Work = IF n = 0 THEN 0 ELSE IF decetor.at = "REPEAT_TIME" THEN 2 + 2 * n ELSE 1 + 2 * n
      BY <1>3, <1>4 DEF Work, n
    <2>2. Work' = IF n = 0 THEN 0 ELSE IF decetor'.at = "REPEAT_ENQUEUE" THEN 1 + 2 * n ELSE 2 * n
      BY <1>2, <1>3, <1>4 DEF Work, n
    <2> QED
      BY <1>1, <1>3, <2>1, <2>2 DEF n
  <1>7. \A v : Ends(decetor.at, Held, v) => Ends(decetor.at, Held, v)'
    <2>1. CASE decetor.at = "LONG_TIME"
      BY <1>3, <1>4, <2>1 DEF Ends
    <2>2. CASE decetor.at = "REPEAT_TIME"
      <3>1. decetor'.at \in {"DEQUEUE3", "REPEAT_ENQUEUE"}
        BY <1>3, <2>2
      <3> QED
        BY <1>4, <2>2, <3>1 DEF Ends
    <2> QED
      BY <1>3, <2>1, <2>2
  <1>8. AllTold'
    BY <1>2, <1>7, Silent DEF Ready
  <1>9. Detects'
    <2>1. CASE to = [decetor EXCEPT !.at = "DEQUEUE2"]
      BY <1>2, <2>1 DEF Ready, Detects, UserTypes
    <2>2. CASE to = [decetor EXCEPT !.at = "DEQUEUE3"]
      BY <1>2, <2>2 DEF Ready, Detects, UserTypes
    <2>3. CASE to = [decetor EXCEPT !.hwRepeat = 0, !.at = "REPEAT_ENQUEUE"]
      BY <1>2, <2>3 DEF Ready, Detects, UserTypes
    <2> QED
      BY <2>1, <2>2, <2>3
  <1>a. Queues'
    BY <1>2 DEF Ready, Queues, IsQueue, Place
  <1> QED
    BY <1>5, <1>6, <1>8, <1>9, <1>a DEF Keeps

\* LONG_TIME, REPEAT_TIME and REPEAT_ENQUEUE.
LEMMA TimesKeep ==
    Ready /\ (LongTime \/ RepeatTime) /\ UNCHANGED frontend /\ turn' = "frontend" => Keeps
  <1> SUFFICES ASSUME Ready, LongTime \/ RepeatTime, UNCHANGED frontend, turn' = "frontend" PROVE Keeps
    OBVIOUS
  <1>1. CASE LongTime
    <2>1. CASE decetor.hwLong < KEY_LONG_TIME
      BY <1>1, <2>1, TimeKeeps DEF LongTime
    <2>2. CASE ~(decetor.hwLong < KEY_LONG_TIME)
      <3>1. PICK e : e = [decetor.tKeyDown EXCEPT !.tEvent = "KEY_LONG_PRESSED"]
        OBVIOUS
      <3>2. /\ decetor.at = "LONG_TIME" /\ Puts(e) /\ UNCHANGED s_tKeyFrontendQueue
            /\ decetor' = [decetor EXCEPT !.tKeyDown = e, !.at = "DEQUEUE3"]
        BY <1>1, <2>2, <3>1 DEF LongTime
      <3> QED
        BY <3>1, <3>2, HoldsTells
    <2> QED
      BY <2>1, <2>2
  <1>2. CASE RepeatTime
    <2>1. CASE decetor.at = "REPEAT_TIME"
      BY <1>2, <2>1, TimeKeeps DEF RepeatTime
    <2>2. CASE decetor.at # "REPEAT_TIME"
      <3>1. PICK e : e = [decetor.tKeyDown EXCEPT !.tEvent = "KEY_REPEAT"]
        OBVIOUS
      <3>2. /\ decetor.at = "REPEAT_ENQUEUE" /\ Puts(e) /\ UNCHANGED s_tKeyFrontendQueue
            /\ decetor' = [decetor EXCEPT !.tKeyDown = e, !.at = "DEQUEUE3"]
        BY <1>2, <2>2, <3>1 DEF RepeatTime
      <3> QED
        BY <3>1, <3>2, HoldsTells
    <2> QED
      BY <2>1, <2>2
  <1> QED
    BY <1>1, <1>2

\* One call of key_decetor.
LEMMA DetectorKeeps == Ready /\ key_decetor => Keeps
  BY DequeueKeeps, IsDownKeeps, IsUp1Keeps, IsUp2Keeps, TimesKeep DEF key_decetor

-----------------------------------------------------------------------------
(* The frontend's steps. *)

\* Before an edge the frontend runs at most one state, and its queue stays.
LEMMA ChecksKeep ==
    ASSUME FilterInv, Result, Checks \/ Same
    PROVE  Result' /\ Turns <= Turns' + 1 /\ UNCHANGED <<frontend.chLast, s_tKeyFrontendQueue, user>>
  <1>1. CASE Checks /\ Scan
    <2>1. /\ frontend.at = "CHECK" /\ UNCHANGED <<frontend, s_tKeyFrontendQueue, user>>
          /\ check.at \in {"START", "CHECKING"}
      BY <1>1 DEF Checks, Scan
    <2>2. /\ check'.chHisKeyValue = check.chHisKeyValue
          /\ check'.at = IF pad = check.chHisKeyValue THEN "FINISH" ELSE "SCAN"
      BY <1>1 DEF Scan, FilterInv, FilterTypes
    <2> QED
      BY <2>1, <2>2 DEF Result, Turns
  <1>2. CASE Checks /\ Other
    <2>1. /\ frontend.at = "CHECK" /\ UNCHANGED <<frontend, s_tKeyFrontendQueue, user>>
          /\ check.at = "SCAN"
      BY <1>2 DEF Checks, Other
    <2>2. check'.at = "CHECKING"
      BY <1>2 DEF Other, FilterInv, FilterTypes
    <2> QED
      BY <2>1, <2>2 DEF Result, Turns
  <1>3. CASE Checks /\ Finish
    <2>1. /\ frontend.at = "CHECK" /\ UNCHANGED <<s_tKeyFrontendQueue, user>> /\ check.at = "FINISH"
          /\ check.chKeyValue = check.chHisKeyValue
      BY <1>3 DEF Checks, Finish, FilterInv, SameAtFinish
    <2>2. check'.chHisKeyValue = check.chHisKeyValue /\ check'.at = IF Enough THEN "START" ELSE "CHECKING"
      BY <1>3 DEF Finish, FilterInv, FilterTypes
    <2>3. /\ frontend'.chLast = frontend.chLast
          /\ Enough => frontend'.at = "SAME" /\ frontend'.chNow = check.chHisKeyValue
          /\ ~Enough => frontend'.at = "CHECK"
      BY <1>3, <2>1 DEF Checks, FilterInv, FilterTypes
    <2> QED
      BY <2>1, <2>2, <2>3 DEF Result, Turns
  <1>4. CASE Same
    <2>1. /\ frontend.at = "SAME" /\ UNCHANGED <<check, s_tKeyFrontendQueue, user>>
          /\ check.at = "START" /\ frontend.chNow = check.chHisKeyValue
      BY <1>4 DEF Same, Result
    <2>2. /\ frontend'.chLast = frontend.chLast /\ frontend'.chNow = frontend.chNow
          /\ frontend'.at = IF frontend.chLast = frontend.chNow THEN "CHECK" ELSE "EDGE"
      BY <1>4 DEF Same, FilterInv, FilterTypes
    <2> QED
      BY <2>1, <2>2 DEF Result, Turns
  <1> QED
    BY <1>1, <1>2, <1>3, <1>4 DEF Checks

\* At an edge there is nothing left of the last one: the detector is done.
LEMMA DoneBeforeEdge ==
    Queues /\ Pace /\ Pending /\ turn = "frontend" /\ frontend.at = "EDGE" =>
    s_tKeyFrontendQueue.hwLength = 0 /\ ~InHand /\ Held \in {frontend.chLast, KEY_NULL}
  <1> SUFFICES ASSUME Queues, Pace, Pending, turn = "frontend", frontend.at = "EDGE"
               PROVE  s_tKeyFrontendQueue.hwLength = 0 /\ ~InHand /\ Held \in {frontend.chLast, KEY_NULL}
    OBVIOUS
  <1>1. Turns = 0 /\ Work <= 0
    BY DEF Turns, Pace
  <1>2. PICK n : n = s_tKeyFrontendQueue.hwLength
    OBVIOUS
  <1>3. n \in Nat
    BY <1>2, Lengths
  <1>4. ~InHand /\ n = 0
    BY <1>1, <1>2, <1>3 DEF Work
  <1> QED
    BY <1>2, <1>4 DEF Pending

\* The edges from the last key to the new one.
LEMMA EdgeKeeps ==
    ASSUME FilterTypes, Detects, Queues, Result, Pace, Pending, turn = "frontend", turn' = "decetor",
           Edge, UNCHANGED <<decetor, s_tKeyDetectorQueue>>
    PROVE  IsQueue(s_tKeyFrontendQueue)' /\ Result' /\ Pace' /\ Pending'
  <1> DEFINE p == s_tKeyFrontendQueue
             old == frontend.chLast
             new == frontend.chNow
             up == [tEvent |-> "KEY_UP", chKeyValue |-> old]
             down == [tEvent |-> "KEY_DOWN", chKeyValue |-> new]
  <1>1. /\ frontend.at = "EDGE" /\ check' = check /\ check.at = "START" /\ new = check.chHisKeyValue
        /\ new # old /\ frontend'.at = "CHECK" /\ frontend'.chLast = new
    BY DEF Edge, Result, FilterTypes
  <1>2. p.hwLength = 0 /\ ~InHand /\ Held \in {old, KEY_NULL} /\ IsQueue(p) /\ ~Full(p)
    BY <1>1, DoneBeforeEdge, EmptyHasRoom DEF Queues
  <1>3. up \in Events /\ down \in Events /\ up.tEvent = "KEY_UP" /\ up.chKeyValue = old
        /\ down.tEvent = "KEY_DOWN" /\ down.chKeyValue = new
    BY DEF FilterTypes, Events
  <1>4. p' = Edges(p)
    BY DEF Edge
  <1> HIDE DEF up, down
  <1>5. PICK r : r = p'
    OBVIOUS
  <1>6. /\ IsQueue(r)
        /\ \/ /\ old = KEY_NULL /\ new # KEY_NULL
              /\ r.hwLength = 1 /\ Item(r, 1) = down
           \/ /\ Item(r, 1) = up
              /\ r.hwLength = 1 \/ (r.hwLength = 2 /\ Item(r, 2) = down /\ new # KEY_NULL)
    <2>1. CASE old = KEY_NULL
      <3>1. r = key_enqueue(p, down) /\ new # KEY_NULL
        BY <1>1, <1>4, <1>5, <2>1 DEF Edges, Up, Down, down
      <3>2. IsQueue(r) /\ r.hwLength = p.hwLength + 1 /\ Item(r, p.hwLength + 1) = down
        BY <1>2, <1>3, <3>1, Enqueued
      <3>3. 0 + 1 = 1
        OBVIOUS
      <3> QED
        BY <1>2, <2>1, <3>1, <3>2, <3>3
    <2>2. CASE old # KEY_NULL
      <3>1. PICK q : q = key_enqueue(p, up)
        OBVIOUS
      <3>2. IsQueue(q) /\ q.hwLength = p.hwLength + 1 /\ Item(q, p.hwLength + 1) = up
        BY <1>2, <1>3, <3>1, Enqueued
      <3>3. 0 + 1 = 1 /\ 1 + 1 = 2 /\ 1 \in 1 .. 1
        OBVIOUS
      <3>4. IsQueue(q) /\ q.hwLength = 1 /\ Item(q, 1) = up
        BY <1>2, <3>2, <3>3
      <3>5. r = IF new = KEY_NULL THEN q ELSE key_enqueue(q, down)
        BY <1>4, <1>5, <2>2, <3>1 DEF Edges, Up, Down, up, down
      <3>6. CASE new = KEY_NULL \/ Full(q)
        <4>1. r = q
          BY <3>5, <3>6 DEF key_enqueue
        <4> QED
          BY <3>4, <4>1
      <3>7. CASE new # KEY_NULL /\ ~Full(q)
        <4>1. r = key_enqueue(q, down)
          BY <3>5, <3>7
        <4>2. /\ IsQueue(r) /\ r.hwLength = q.hwLength + 1
              /\ \A i \in 1 .. q.hwLength : Item(r, i) = Item(q, i)
              /\ Item(r, q.hwLength + 1) = down
          BY <1>3, <3>4, <3>7, <4>1, Enqueued
        <4>3. r.hwLength = 2 /\ Item(r, 2) = down /\ Item(r, 1) = up
          BY <3>3, <3>4, <4>2
        <4> QED
          BY <3>7, <4>2, <4>3
      <3> QED
        BY <3>6, <3>7
    <2> QED
      BY <2>1, <2>2
  <1>7. IsQueue(s_tKeyFrontendQueue)'
    BY <1>5, <1>6 DEF IsQueue, Place
  <1>8. Result'
    BY <1>1 DEF Result
  <1>9. UNCHANGED decetor /\ ~InHand' /\ UNCHANGED Held
    BY <1>2 DEF InHand, Held
  <1>a. Pace'
    <2>1. Turns' = 5
      BY <1>1 DEF Turns
    <2>2. p'.hwLength = 1 \/ p'.hwLength = 2
      BY <1>5, <1>6
    <2>3. Work' <= 6
      BY <1>9, <2>2 DEF Work
    <2> QED
      BY <2>1, <2>3 DEF Pace
  <1>b. Pending'
    <2>1. /\ Item(s_tKeyFrontendQueue, 1)' = Item(r, 1) /\ Item(s_tKeyFrontendQueue, 2)' = Item(r, 2)
          /\ s_tKeyFrontendQueue'.hwLength = r.hwLength
      BY <1>5 DEF Item, Place
    <2>2. Item(r, 1) = down /\ new # KEY_NULL => IsLast(Item(s_tKeyFrontendQueue, 1))'
      BY <1>1, <1>3, <2>1 DEF IsLast
    <2>3. Item(r, 2) = down /\ new # KEY_NULL => IsLast(Item(s_tKeyFrontendQueue, 2))'
      BY <1>1, <1>3, <2>1 DEF IsLast
    <2>4. decetor'.at \notin {"DEQUEUE1", "DOWN", "IS_UP_1", "IS_UP_2"} => Held' # KEY_NULL
      BY <1>9 DEF Pending, Held
    <2>5. decetor'.at \notin {"DOWN", "IS_UP_1", "IS_UP_2"}
      BY <1>9 DEF InHand
    <2>6. \/ r.hwLength = 1 /\ Held' = KEY_NULL /\ IsLast(Item(s_tKeyFrontendQueue, 1))'
          \/ /\ r.hwLength = 1 \/ (r.hwLength = 2 /\ IsLast(Item(s_tKeyFrontendQueue, 2))')
             /\ Item(r, 1).tEvent = "KEY_UP" /\ Held' \in {Item(r, 1).chKeyValue, KEY_NULL}
      BY <1>2, <1>3, <1>6, <1>9, <2>2, <2>3
    <2> QED
      BY <1>9, <2>1, <2>4, <2>5, <2>6 DEF Pending
  <1> QED
    BY <1>7, <1>8, <1>a, <1>b

\* One call of key_frontend.
LEMMA FrontendKeepsEvents == EventsInv /\ key_frontend => EventsInv'
  <1> SUFFICES ASSUME EventsInv, key_frontend PROVE EventsInv'
    OBVIOUS
  <1>1. FilterInv'
    BY FrontendKeeps DEF EventsInv
  <1>2. FilterInv /\ FilterTypes /\ Detects /\ Queues /\ Result /\ Pace /\ Pending /\ AllTold
    BY DEF EventsInv, FilterInv
  <1>3. turn = "frontend" /\ turn' = "decetor" /\ UNCHANGED <<decetor, s_tKeyDetectorQueue>>
    BY DEF key_frontend
  <1>4. UNCHANGED user
    BY DEF key_frontend, Checks, Same, Edge
  <1>5. Detects' /\ AllTold'
    BY <1>2, <1>3, <1>4 DEF Detects, UserTypes, AllTold, Ends, Held, Leads, Hears, Item, Place
  <1>6. IsQueue(s_tKeyDetectorQueue)'
    BY <1>2, <1>3 DEF Queues, IsQueue, Place
  <1>7. ASSUME Checks \/ Same
        PROVE  IsQueue(s_tKeyFrontendQueue)' /\ Result' /\ Pace' /\ Pending'
    <2>1. Result' /\ Turns <= Turns' + 1 /\ UNCHANGED <<frontend.chLast, s_tKeyFrontendQueue>>
      BY <1>2, <1>7, ChecksKeep
    <2>2. IsQueue(s_tKeyFrontendQueue)'
      BY <1>2, <2>1 DEF Queues, IsQueue, Place
    <2>3. Pending'
      BY <1>2, <1>3, <2>1 DEF Pending, Held, InHand, Rest, IsLast, Item, Place
    <2>4. Pace'
      <3>1. UNCHANGED Work
        BY <1>3, <2>1 DEF Work, InHand
      <3>2. Work <= Turns
        BY <1>2, <1>3 DEF Pace
      <3>3. Turns \in Nat /\ Turns' \in Nat
        BY DEF Turns
      <3>4. Work \in Nat
        BY <1>2, Lengths DEF Work
      <3>5. Work' <= Turns' + 1
        <4>1. PICK w, t, s : w = Work /\ t = Turns /\ s = Turns'
          OBVIOUS
        <4>2. w \in Nat /\ t \in Nat /\ s \in Nat /\ w <= t /\ t <= s + 1
          BY <2>1, <3>2, <3>3, <3>4, <4>1
        <4>3. w <= s + 1
          BY <4>2
        <4> QED
          BY <3>1, <4>1, <4>3
      <3> QED
        BY <1>3, <3>5 DEF Pace
    <2> QED
      BY <2>1, <2>2, <2>3, <2>4
  <1>8. ASSUME Edge
        PROVE  IsQueue(s_tKeyFrontendQueue)' /\ Result' /\ Pace' /\ Pending'
    BY <1>2, <1>3, <1>8, EdgeKeeps
  <1>9. IsQueue(s_tKeyFrontendQueue)' /\ Result' /\ Pace' /\ Pending'
    BY <1>7, <1>8 DEF key_frontend
  <1> QED
    BY <1>1, <1>5, <1>6, <1>9 DEF EventsInv, Queues

\* One call of key_decetor.
LEMMA DetectorKeepsEvents == EventsInv /\ key_decetor => EventsInv'
  <1> SUFFICES ASSUME EventsInv, key_decetor PROVE EventsInv'
    OBVIOUS
  <1>1. FilterInv'
    <2>1. pad \in Values
      BY DEF EventsInv, FilterInv, FilterTypes
    <2> QED
      BY <2>1, OthersKeep DEF EventsInv, key_decetor
  <1>2. Ready /\ Queues /\ Result /\ Pace
    BY DEF EventsInv, FilterInv, Ready
  <1>3. Keeps
    BY <1>2, DetectorKeeps
  <1>4. turn = "decetor" /\ turn' = "frontend" /\ UNCHANGED <<check, frontend>>
    BY DEF key_decetor
  <1>5. Result' /\ UNCHANGED Turns
    BY <1>2, <1>4 DEF Result, Turns
  <1>6. Pace'
    <2>1. PICK w, x, t : w = Work /\ x = Work' /\ t = Turns
      OBVIOUS
    <2>2. t \in Nat
      BY <2>1 DEF Turns
    <2>3. w \in Nat
      BY <1>2, <2>1, Lengths DEF Work
    <2>4. w <= t + 1
      BY <1>2, <1>4, <2>1 DEF Pace
    <2>5. x <= w - 1 \/ x = 0
      BY <1>3, <2>1 DEF Keeps
    <2>6. x \in Nat
      <3>1. Queues'
        BY <1>3 DEF Keeps
      <3>2. s_tKeyFrontendQueue'.hwLength \in Nat
        BY <3>1, KeyAssumption DEF Queues, IsQueue
      <3> QED
        BY <2>1, <3>2 DEF Work
    <2>7. x <= t
      BY <2>2, <2>3, <2>4, <2>5, <2>6
    <2> QED
      BY <1>4, <1>5, <2>1, <2>7 DEF Pace
  <1> QED
    BY <1>1, <1>3, <1>5, <1>6 DEF EventsInv, Keeps

\* The user takes the first event that it was told.
LEMMA UserKeepsEvents == EventsInv /\ get_key => EventsInv'
  <1> SUFFICES ASSUME EventsInv, get_key PROVE EventsInv'
    OBVIOUS
  <1> DEFINE q == s_tKeyDetectorQueue
             key == key_front(q)
  <1>1. /\ q.hwLength # 0 /\ q' = key_dequeue(q)
        /\ user' = [user EXCEPT !.fits = @ /\ Follows(user, key), !.last = Latest(user, key),
                                !.key = key.chKeyValue]
        /\ UNCHANGED <<pad, check, frontend, decetor, s_tKeyFrontendQueue, reads, turn>>
    BY DEF get_key
  <1>2. FilterInv'
    <2>1. pad \in Values
      BY DEF EventsInv, FilterInv, FilterTypes
    <2> QED
      BY <1>1, <2>1, OthersKeep DEF EventsInv
  <1>3. Result' /\ Pace' /\ Pending'
    <2>1. Result /\ Pace /\ Pending
      BY DEF EventsInv
    <2>2. Result' /\ UNCHANGED Turns
      BY <1>1, <2>1 DEF Result, Turns
    <2>3. UNCHANGED Work
      BY <1>1 DEF Work, InHand
    <2>4. Pace'
      BY <1>1, <2>1, <2>2, <2>3 DEF Pace
    <2>5. Pending'
      BY <1>1, <2>1 DEF InHand, Pending, Held, Rest, IsLast, Item, Place
    <2> QED
      BY <2>2, <2>4, <2>5
  <1>4. PICK r : r = q'
    OBVIOUS
  <1>5. IsQueue(q)
    BY DEF EventsInv, Queues
  <1>6. IsQueue(r)
    BY <1>1, <1>4, <1>5, Dequeued
  <1>7. Queues'
    BY <1>1, <1>4, <1>6 DEF EventsInv, Queues, IsQueue, Place
  <1>8. UserTypes /\ decetor \in [at : {"DEQUEUE1", "DOWN", "DEQUEUE2", "IS_UP_1", "LONG_TIME",
                          "DEQUEUE3", "IS_UP_2", "REPEAT_TIME", "REPEAT_ENQUEUE"},
                    hwLong : Nat, hwRepeat : Nat, tKeyDown : Events, tKeyUp : Events]
    BY DEF EventsInv, Detects
  <1>9. PICK w : w = user'
    OBVIOUS
  <1>a. /\ w.key = key.chKeyValue /\ w.last = Latest(user, key) /\ w.lost = user.lost
        /\ w.fits = (user.fits /\ Follows(user, key))
        /\ w = [key |-> w.key, last |-> w.last, lost |-> w.lost, fits |-> w.fits]
    BY <1>1, <1>8, <1>9 DEF UserTypes
  <1>b. UserTypes'
    <2>1. Follows(user, key) \in BOOLEAN
      BY DEF Follows
    <2> QED
      BY <1>8, <1>9, <1>a, <2>1 DEF UserTypes
  <1>c. Detects'
    BY <1>1, <1>b DEF EventsInv, Detects
  <1>d. ASSUME ~user.lost PROVE AllTold'
    <2>1. PICK v : user.fits /\ Leads(q, user, v) /\ Ends(decetor.at, Held, v)
      BY <1>d DEF EventsInv, AllTold
    <2>2. PICK u : u = user
      OBVIOUS
    <2>3. w.key = key.chKeyValue /\ w.last = Latest(u, key)
      BY <1>a, <2>2
    <2>4. Leads(q, u, v)
      BY <2>1, <2>2
    <2>5. Follows(u, key) /\ Leads(r, w, v)
      BY <1>1, <1>4, <1>5, <2>3, <2>4, LeadsFirst
    <2>6. user'.fits
      BY <1>9, <1>a, <2>1, <2>2, <2>5
    <2>7. Leads(s_tKeyDetectorQueue, user, v)'
      BY <1>4, <1>9, <2>5 DEF Leads, Hears
    <2>8. Ends(decetor.at, Held, v)'
      BY <1>1, <2>1 DEF Ends, Held
    <2> QED
      BY <2>6, <2>7, <2>8 DEF AllTold
  <1>e. AllTold'
    BY <1>9, <1>a, <1>d DEF AllTold
  <1> QED
    BY <1>2, <1>3, <1>7, <1>c, <1>e DEF EventsInv

\* The keypad and the clock do nothing to what is on the way.
LEMMA NextKeepsEvents == EventsInv /\ [Next]_vars => EventsInv'
  <1> SUFFICES ASSUME EventsInv, [Next]_vars PROVE EventsInv'
    OBVIOUS
  <1>1. CASE Change \/ UNCHANGED vars
    <2>1. UNCHANGED <<check, frontend, decetor, s_tKeyFrontendQueue, s_tKeyDetectorQueue, turn, reads, user>>
      BY <1>1 DEF Change, vars
    <2>2. FilterInv'
      BY NextKeeps DEF EventsInv
    <2>3. Detects /\ Queues /\ Result /\ Pace /\ Pending /\ AllTold
      BY DEF EventsInv
    <2>4. Detects' /\ Queues' /\ Result'
      BY <2>1, <2>3 DEF Detects, UserTypes, Queues, IsQueue, Place, Result
    <2>5. UNCHANGED Turns /\ UNCHANGED Work
      BY <2>1 DEF Turns, Work, InHand
    <2>6. Pace'
      BY <2>1, <2>3, <2>5 DEF Pace
    <2>7. Pending'
      BY <2>1, <2>3 DEF InHand, Pending, Held, Rest, IsLast, Item, Place
    <2>8. AllTold'
      <3>1. \A v : Ends(decetor.at, Held, v) => Ends(decetor.at, Held, v)'
        BY <2>1 DEF Ends, Held
      <3> QED
        BY <2>1, <2>3, <3>1, Silent
    <2> QED
      BY <2>2, <2>4, <2>6, <2>7, <2>8 DEF EventsInv
  <1> QED
    BY <1>1, FrontendKeepsEvents, DetectorKeepsEvents, UserKeepsEvents DEF Next

\* The inductive invariant of the whole service.
THEOREM EventsInvariant == Spec => []EventsInv
  BY InitEvents, NextKeepsEvents, PTL DEF Spec

\* Whoever loses no event gets, of each press, KEY_DOWN, then KEY_UP and
\* KEY_PRESSED, or KEY_LONG_PRESSED, repeats and KEY_UP, and nothing else
\* between them.
THEOREM EventsAreWhole == Spec => []EventsFit
  <1>1. EventsInv => EventsFit
    BY DEF EventsInv, AllTold, EventsFit
  <1> QED
    BY <1>1, EventsInvariant, PTL

\* There is room for all edges of a change where the queue has two places, as
\* many as there are edges.
EdgesFindRoom ==
    turn = "frontend" /\ frontend.at = "EDGE" /\ KEY_QUEUE_SIZE >= 2 =>
    ~Full(s_tKeyFrontendQueue) /\ ~Full(Up(s_tKeyFrontendQueue))

\* The detector has given back every edge before the frontend makes the next
\* ones: no call of key_enqueue in key_frontend finds the queue full.
THEOREM NoEdgeIsLost == Spec => []EdgesFindRoom
  <1>1. EventsInv => EdgesFindRoom
    <2> SUFFICES ASSUME EventsInv, turn = "frontend", frontend.at = "EDGE", KEY_QUEUE_SIZE >= 2
                 PROVE  ~Full(s_tKeyFrontendQueue) /\ ~Full(Up(s_tKeyFrontendQueue))
      BY DEF EdgesFindRoom
    <2>1. s_tKeyFrontendQueue.hwLength = 0 /\ IsQueue(s_tKeyFrontendQueue)
      BY DoneBeforeEdge DEF EventsInv, Queues
    <2>2. ~Full(s_tKeyFrontendQueue)
      BY <2>1, EmptyHasRoom
    <2>3. Up(s_tKeyFrontendQueue).hwLength \in {0, 1}
      BY <2>1, <2>2 DEF Up, key_enqueue, IsQueue
    <2> QED
      BY <2>2, <2>3, KeyAssumption DEF Full
  <1> QED
    BY <1>1, EventsInvariant, PTL
=============================================================================
