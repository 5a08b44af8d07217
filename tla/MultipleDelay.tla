----------------------------- MODULE MultipleDelay -----------------------------
(***************************************************************************)
(* The delay service of service/time/multiple_delay: items drawn from a    *)
(* heap wait in one of two sorted lists for a tick counter to reach their  *)
(* target time.  The tick interrupt reports the items of high priority,    *)
(* the task, a state machine called by the main loop, the others, after it *)
(* has moved them to the queue of their priority.  A request may be        *)
(* cancelled.                                                              *)
(*                                                                         *)
(* Every __MD_ATOM_ACCESS region is one step.  The handlers of the user    *)
(* may request further delays, as in example/system.c, those run by the    *)
(* tick interrupt too.  Requests and cancels come from the main thread     *)
(* (between two calls of the task, or from a handler that the task runs),  *)
(* so that the tick may come between any two of their steps; a handler     *)
(* run by the tick interrupt does not cancel.                              *)
(***************************************************************************)
EXTENDS Integers, SequencesExt

CONSTANTS Items,    \* the heap: multiple_delay_item_t's
          NULL,
          Width,    \* bits of wCounter and the other unsigned integers
          MaxDelay, \* bound: the longest delay requested
          Configs   \* the priorities in use, and whether the user may cancel
                    \* an item that has timed out but was not reported yet

ASSUME ItemsAssumption == IsFiniteSet(Items) /\ NULL \notin Items
ASSUME WidthAssumption ==
    Width \in Nat /\ 2^Width > 2 /\ MaxDelay \in 1..(2^Width - 1)

Limit == 2^Width
Delays == 1..MaxDelay
Priorities == {"LOW", "NORMAL", "HIGH"}

ASSUME ConfigsAssumption ==
    Configs \subseteq [Uses : SUBSET Priorities, CancelsPending : BOOLEAN]

VARIABLES
    cfg,
    pool,                     \* the free items
    tPriority, wTargetTime,   \* of each item
    ptHighPriorityDelayList, ptDelayList,
    events,                   \* LowPriorityEvent and NormalPriorityEvent
    wCounter, wSavedCounter,
    chState,                  \* the state machine of the task
    pc, caller,               \* the main thread; where its call returns to
    arg, mine,                \* the item of that call; the one being reported
    base, ask, tCount,        \* its locals
    isr, isrItem,             \* the tick interrupt; the item it reports
    remain,                   \* history: ticks an item has still to wait
    stale                     \* history: the counter was reset under a copy of it

lists == <<ptHighPriorityDelayList, ptDelayList>>
fields == <<tPriority, wTargetTime>>
counters == <<wCounter, wSavedCounter>>
locals == <<arg, base, ask, tCount>>
tick == <<isr, isrItem>>
vars == <<cfg, pool, fields, lists, events, counters, chState, pc, caller, mine,
          locals, tick, remain, stale>>

Init ==
    /\ cfg \in Configs
    /\ pool = Items
    /\ tPriority = [s \in Items |-> "LOW"] /\ wTargetTime = [s \in Items |-> 0]
    /\ ptHighPriorityDelayList = <<>> /\ ptDelayList = <<>>
    /\ events = [p \in {"LOW", "NORMAL"} |-> <<>>]
    /\ wCounter = 0 /\ wSavedCounter = 0
    /\ chState = "START" /\ pc = "idle" /\ caller = "idle"
    /\ arg = NULL /\ mine = NULL
    /\ base = 0 /\ ask = <<"LOW", 0>> /\ tCount = 0
    /\ isr = "off" /\ isrItem = NULL
    /\ remain = [s \in Items \cup {NULL} |-> -2] /\ stale = FALSE

--------------------------------------------------------------------------------
(* Mutant: an item is put at the end of the list. *)
BugSorted(list, s, time) == Append(list, s)

(* add_to_delay_list: before the first item that is not due earlier. *)
Sorted(list, s, time) ==
    LET notEarlier == {i \in 1..Len(list) : time <= wTargetTime[list[i]]}
    IN  InsertAt(list, Min(notEarlier \cup {Len(list) + 1}), s)

Enlist(s, p, time) ==
    IF p = "HIGH"
    THEN /\ ptHighPriorityDelayList' = Sorted(ptHighPriorityDelayList, s, time)
         /\ UNCHANGED ptDelayList
    ELSE /\ ptDelayList' = Sorted(ptDelayList, s, time)
         /\ UNCHANGED ptHighPriorityDelayList

(* Mutant: no test for overflow; the sum wraps round. *)
BugFits(d) == TRUE

(* wCounter + wDelay must not overflow. *)
Fits(d) == wCounter + d < Limit

(* The history of waiting times ends when it says nothing any more.        *)
Forgotten == [s \in DOMAIN remain |-> -2]
Remain(ages) == remain' = IF stale THEN Forgotten ELSE ages

(* The fields of an item are not read again once it is free. *)
Free(s) ==
    /\ pool' = pool \cup {s}
    /\ tPriority' = [tPriority EXCEPT ![s] = "LOW"]
    /\ wTargetTime' = [wTargetTime EXCEPT ![s] = 0]
    /\ Remain([remain EXCEPT ![s] = -2])

--------------------------------------------------------------------------------
(* request_delay, in the main thread.  The counter is read outside of the  *)
(* atomic region that inserts the item.                                    *)

Main(p) == isr = "off" /\ pc = p
Return == pc' = caller /\ caller' = "idle"
MayCall == isr = "off" /\ pc \in {"idle", "handler"}

Request(p, d) ==
    /\ MayCall /\ Fits(d)
    /\ base' = wCounter /\ ask' = <<p, d>>
    /\ Remain([remain EXCEPT ![NULL] = d])
    /\ caller' = pc /\ pc' = "new"
    /\ UNCHANGED <<cfg, pool, fields, lists, events, counters, chState, mine,
                   arg, tCount, tick, stale>>

NewItem ==
    /\ Main("new")
    /\ \E s \in pool :
          /\ pool' = pool \ {s}
          /\ arg' = s
          /\ tPriority' = [tPriority EXCEPT ![s] = ask[1]]
          /\ wTargetTime' = [wTargetTime EXCEPT ![s] = (base + ask[2]) % Limit]
          /\ Remain([remain EXCEPT ![s] = remain[NULL], ![NULL] = -2])
    /\ pc' = "add" /\ base' = 0 /\ ask' = <<"LOW", 0>>
    /\ UNCHANGED <<cfg, lists, events, counters, chState, caller, mine, tCount,
                   tick, stale>>

NoItem ==
    /\ Main("new") /\ pool = {}
    /\ Return /\ base' = 0 /\ ask' = <<"LOW", 0>>
    /\ Remain([remain EXCEPT ![NULL] = -2])
    /\ UNCHANGED <<cfg, pool, fields, lists, events, counters, chState, mine,
                   arg, tCount, tick, stale>>

AddItem ==
    /\ Main("add")
    /\ Enlist(arg, tPriority[arg], wTargetTime[arg])
    /\ arg' = NULL /\ Return
    /\ UNCHANGED <<cfg, pool, fields, events, counters, chState, mine, base,
                   ask, tCount, tick, remain, stale>>

--------------------------------------------------------------------------------
(* cancel_delay, for an item whose handler was not called when it began.   *)
(* The switch enters the loop in the middle for an item that is not of     *)
(* high priority, and tCount is tested after every second list only.       *)

Pending(s) == \E p \in DOMAIN events : Contains(events[p], s)
Listed(s) == Contains(ptHighPriorityDelayList, s) \/ Contains(ptDelayList, s)

Cancel(s) ==
    /\ MayCall
    /\ Listed(s) \/ (cfg.CancelsPending /\ Pending(s))
    /\ arg' = s /\ tCount' = 2
    /\ caller' = pc
    /\ pc' = IF tPriority[s] = "HIGH" THEN "cancelHigh" ELSE "cancelNormal"
    /\ UNCHANGED <<cfg, pool, fields, lists, events, counters, chState, mine,
                   base, ask, tick, remain, stale>>

CancelHigh ==
    /\ Main("cancelHigh")
    /\ ptHighPriorityDelayList' = RemoveFirst(ptHighPriorityDelayList, arg)
    /\ IF Contains(ptHighPriorityDelayList, arg)
       THEN pc' = "cancelled" /\ UNCHANGED tCount
       ELSE pc' = "cancelNormal" /\ tCount' = (tCount - 1) % Limit
    /\ UNCHANGED <<cfg, pool, fields, ptDelayList, events, counters, chState,
                   caller, mine, arg, base, ask, tick, remain, stale>>

NotFound ==
    /\ ~Contains(ptDelayList, arg)
    /\ tCount' = (tCount - 1) % Limit
    /\ IF tCount' = 0 THEN Return /\ arg' = NULL
       ELSE pc' = "cancelHigh" /\ UNCHANGED <<caller, arg>>

CancelNormal ==
    /\ Main("cancelNormal")
    /\ ptDelayList' = RemoveFirst(ptDelayList, arg)
    /\ \/ NotFound
       \/ /\ Contains(ptDelayList, arg)
          /\ pc' = "cancelled" /\ UNCHANGED <<tCount, arg, caller>>
    /\ UNCHANGED <<cfg, pool, fields, ptHighPriorityDelayList, events, counters,
                   chState, mine, base, ask, tick, remain, stale>>

(* The handler is told MULTIPLE_DELAY_CANCELLED, and the item freed. *)
Cancelled ==
    /\ Main("cancelled")
    /\ Free(arg)
    /\ arg' = NULL /\ tCount' = 0 /\ Return
    /\ UNCHANGED <<cfg, lists, events, counters, chState, mine, base, ask, tick,
                   stale>>

--------------------------------------------------------------------------------
(* multiple_delay_task, one call after the other.  (wOldCounter is left    *)
(* out: whether the counter has changed or not, the next call checks the   *)
(* list.)                                                                  *)

Called(state) == Main("idle") /\ chState = state

(* wSavedCounter = wCounter: a load and a store. *)
LoadCounter ==
    /\ Called("START")
    /\ base' = wCounter /\ pc' = "save"
    /\ UNCHANGED <<cfg, pool, fields, lists, events, counters, chState, caller,
                   mine, arg, ask, tCount, tick, remain, stale>>

SaveCounter ==
    /\ Main("save")
    /\ wSavedCounter' = base /\ base' = 0
    /\ chState' = "CHECK_LIST" /\ pc' = "idle"
    /\ UNCHANGED <<cfg, pool, fields, lists, events, wCounter, caller, mine,
                   arg, ask, tCount, tick, remain, stale>>

(* Mutant: an item is due at its very time only. *)
BugDue(list, now) == list # <<>> /\ wTargetTime[Head(list)] = now

Due(list, now) == list # <<>> /\ wTargetTime[Head(list)] <= now

Checking == Main("check") \/ Called("CHECK_LIST")

HeadDue ==
    /\ Checking /\ Due(ptDelayList, wSavedCounter)
    /\ pc' = "pop"
    /\ UNCHANGED <<cfg, pool, fields, lists, events, counters, chState, caller,
                   mine, locals, tick, remain, stale>>

PopHead ==
    /\ Main("pop")
    /\ LET s == Head(ptDelayList)
           p == IF tPriority[s] = "LOW" THEN "LOW" ELSE "NORMAL"
       IN  events' = [events EXCEPT ![p] = Append(@, s)]
    /\ ptDelayList' = Tail(ptDelayList)
    /\ pc' = "check"
    /\ UNCHANGED <<cfg, pool, fields, ptHighPriorityDelayList, counters, chState,
                   caller, mine, locals, tick, remain, stale>>

(* (wSavedCounter is stored again before it is read again.)                *)
NothingDue ==
    /\ Checking /\ ~Due(ptDelayList, wSavedCounter)
    /\ chState' = "RAISE_NORMAL" /\ pc' = "raise" /\ wSavedCounter' = 0
    /\ UNCHANGED <<cfg, pool, fields, lists, events, wCounter, caller, mine,
                   locals, tick, remain, stale>>

RaiseFrom(p) ==
    /\ events[p] # <<>>
    /\ mine' = Head(events[p])
    /\ events' = [events EXCEPT ![p] = Tail(@)]
    /\ pc' = "handler"
    /\ UNCHANGED <<cfg, pool, fields, lists, counters, chState, caller, locals,
                   tick, remain, stale>>

(* All of the normal events in one call; of the low ones, one in a call.   *)
RaiseNormal == Main("raise") /\ RaiseFrom("NORMAL")
RaiseLow == Called("RAISE_LOW") /\ RaiseFrom("LOW")

NormalDone ==
    /\ Main("raise") /\ events["NORMAL"] = <<>>
    /\ chState' = "RAISE_LOW" /\ pc' = "idle"
    /\ UNCHANGED <<cfg, pool, fields, lists, events, counters, caller, mine,
                   locals, tick, remain, stale>>

LowDone ==
    /\ Called("RAISE_LOW") /\ events["LOW"] = <<>>
    /\ chState' = "START"
    /\ UNCHANGED <<cfg, pool, fields, lists, events, counters, pc, caller, mine,
                   locals, tick, remain, stale>>

HandlerReturns ==
    /\ Main("handler")
    /\ Free(mine) /\ mine' = NULL
    /\ pc' = IF chState = "RAISE_NORMAL" THEN "raise" ELSE "idle"
    /\ UNCHANGED <<cfg, lists, events, counters, chState, caller, locals, tick, stale>>

--------------------------------------------------------------------------------
(* insert_timer_tick_event_handler.  It is not preempted by the main       *)
(* thread, whose steps all need isr = "off".                               *)

(* Time passes for all that wait; how late an item is does not matter.     *)
Later == [s \in DOMAIN remain |-> IF remain[s] > -2 THEN remain[s] - 1 ELSE -2]

(* The main thread works with a value of the counter that it has loaded.   *)
HoldsCounter == pc \in {"new", "add"} \/ (pc = "save" /\ base # 0)

(* Environment: when the counter is about to wrap round, after 2^32 ticks  *)
(* with a delay pending at each, the task has taken what is due.           *)
TaskKeepsUp == wCounter = Limit - 1 => ~Due(ptDelayList, wCounter)

TickResets ==
    /\ isr = "off"
    /\ ptHighPriorityDelayList = <<>> /\ ptDelayList = <<>>
    /\ wCounter' = 0 /\ wSavedCounter' = 0
    /\ stale' = (stale \/ HoldsCounter)
    /\ remain' = IF stale' THEN Forgotten ELSE Later
    /\ UNCHANGED <<cfg, pool, fields, lists, events, chState, pc, caller, mine,
                   locals, tick>>

TickBegins ==
    /\ isr = "off" /\ TaskKeepsUp
    /\ ptHighPriorityDelayList # <<>> \/ ptDelayList # <<>>
    /\ isr' = "check"
    /\ Remain(Later)
    /\ UNCHANGED <<cfg, pool, fields, lists, events, counters, chState, pc,
                   caller, mine, locals, isrItem, stale>>

(* Mutant: the item is left on the list. *)
BugTickFires ==
    /\ isr = "check" /\ Due(ptHighPriorityDelayList, wCounter)
    /\ isrItem' = Head(ptHighPriorityDelayList)
    /\ isr' = "handler"
    /\ UNCHANGED <<cfg, pool, fields, lists, events, counters, chState, pc,
                   caller, mine, locals, remain, stale>>

TickFires ==
    /\ isr = "check" /\ Due(ptHighPriorityDelayList, wCounter)
    /\ isrItem' = Head(ptHighPriorityDelayList)
    /\ ptHighPriorityDelayList' = Tail(ptHighPriorityDelayList)
    /\ isr' = "handler"
    /\ UNCHANGED <<cfg, pool, fields, ptDelayList, events, counters, chState, pc,
                   caller, mine, locals, remain, stale>>

(* request_delay, called by the handler: nothing comes between its steps.  *)
(* (The tick being handled counts: the counter goes up at its end.)        *)
IsrRequest(p, d) ==
    /\ isr = "handler" /\ Fits(d)
    /\ \E s \in pool :
          /\ pool' = pool \ {s}
          /\ tPriority' = [tPriority EXCEPT ![s] = p]
          /\ wTargetTime' = [wTargetTime EXCEPT ![s] = (wCounter + d) % Limit]
          /\ Enlist(s, p, (wCounter + d) % Limit)
          /\ Remain([remain EXCEPT ![s] = d - 1])
    /\ UNCHANGED <<cfg, events, counters, chState, pc, caller, mine, locals,
                   tick, stale>>

IsrReturns ==
    /\ isr = "handler"
    /\ Free(isrItem) /\ isrItem' = NULL
    /\ isr' = "check"
    /\ UNCHANGED <<cfg, lists, events, counters, chState, pc, caller, mine,
                   locals, stale>>

TickCounts ==
    /\ isr = "check" /\ ~Due(ptHighPriorityDelayList, wCounter)
    /\ wCounter' = (wCounter + 1) % Limit
    /\ isr' = "off"
    /\ stale' = (stale \/ (wCounter' = 0 /\ (HoldsCounter \/ chState = "CHECK_LIST")))
    /\ remain' = IF stale' THEN Forgotten ELSE remain
    /\ UNCHANGED <<cfg, pool, fields, lists, events, wSavedCounter, chState, pc,
                   caller, mine, locals, isrItem>>

--------------------------------------------------------------------------------
CallStep == NewItem \/ NoItem \/ AddItem \/ CancelHigh \/ CancelNormal \/ Cancelled

TaskCalled == LoadCounter \/ RaiseLow \/ LowDone
                  \/ (Called("CHECK_LIST") /\ (HeadDue \/ NothingDue))
TaskGoesOn == SaveCounter \/ PopHead \/ RaiseNormal \/ NormalDone
                  \/ (Main("check") /\ (HeadDue \/ NothingDue))

Tick == TickResets \/ TickBegins \/ TickFires \/ IsrReturns \/ TickCounts

Next ==
    \/ \E p \in cfg.Uses, d \in Delays : Request(p, d) \/ IsrRequest(p, d)
    \/ \E s \in Items : Cancel(s)
    \/ CallStep \/ TaskCalled \/ TaskGoesOn \/ HandlerReturns \/ Tick

Spec == Init /\ [][Next]_vars

(* Ticks never stop, a call goes on, the main loop calls the task for ever *)
(* whatever else it calls, and every handler returns.                      *)
FairSpec ==
    /\ Spec
    /\ WF_vars(Tick)
    /\ SF_vars(CallStep \/ TaskGoesOn)
    /\ SF_vars(TaskCalled \/ HandlerReturns)
--------------------------------------------------------------------------------
(* Every variable holds a value of its C type; a NULL item is never listed *)
(* and never reported.                                                     *)
TypeOK ==
    /\ cfg \in Configs /\ pool \subseteq Items
    /\ tPriority \in [Items -> Priorities] /\ wTargetTime \in [Items -> 0..Limit-1]
    /\ ptHighPriorityDelayList \in Seq(Items) /\ ptDelayList \in Seq(Items)
    /\ events \in [{"LOW", "NORMAL"} -> Seq(Items)]
    /\ {wCounter, wSavedCounter, base, tCount} \subseteq 0..Limit-1
    /\ chState \in {"START", "CHECK_LIST", "RAISE_NORMAL", "RAISE_LOW"}
    /\ pc \in {"idle", "handler", "new", "add", "cancelHigh", "cancelNormal",
               "cancelled", "save", "check", "pop", "raise"}
    /\ caller \in {"idle", "handler"} /\ isr \in {"off", "check", "handler"}
    /\ {arg, mine, isrItem} \subseteq Items \cup {NULL}
    /\ arg # NULL <=> pc \in {"add", "cancelHigh", "cancelNormal", "cancelled"}
    /\ pc = "handler" => mine # NULL
    /\ isrItem # NULL <=> isr = "handler"
    /\ remain \in [Items \cup {NULL} -> -2..MaxDelay] /\ stale \in BOOLEAN

(* The lists and queues, and the places an item can be in. *)
Queues == {ptHighPriorityDelayList, ptDelayList, events["LOW"], events["NORMAL"]}

Places ==
    <<pool, ToSet(ptHighPriorityDelayList), ToSet(ptDelayList),
      ToSet(events["LOW"]), ToSet(events["NORMAL"]), {mine}, {isrItem},
      IF pc \in {"add", "cancelled"} THEN {arg} ELSE {}>>

(* However a cancel, a timeout in the interrupt and the task meet, no item *)
(* is lost, listed twice or freed twice, so that each request is reported  *)
(* once: every item is free, listed, pending, or in the hands of one of    *)
(* the main thread and the interrupt, and in one place only.  The delay    *)
(* lists stay sorted.                                                      *)
OnePlace ==
    /\ TypeOK
    /\ \A s \in Items : \E p \in DOMAIN Places :
          \A q \in DOMAIN Places : s \in Places[q] <=> q = p
    /\ \A list \in Queues : IsInjective(list)
    /\ \A list \in {ptHighPriorityDelayList, ptDelayList} :
          \A i \in 1..Len(list) - 1 : wTargetTime[list[i]] <= wTargetTime[list[i+1]]

(* No delay is reported as timed out before its time (unless the counter   *)
(* was reset, or wrapped round, under a copy of it).                      *)
NeverEarly ==
    ~stale => /\ mine # NULL => remain[mine] <= 0
              /\ isrItem # NULL => remain[isrItem] <= 0

(* A delay of high priority is reported by the tick of its time: a tick    *)
(* leaves none on the list that is overdue (with the same exception).      *)
OnTime ==
    [][isr # "off" /\ isr' = "off" /\ ~stale' =>
          \A s \in ToSet(ptHighPriorityDelayList') : remain'[s] >= 0]_vars

(* Every request is reported and its item freed in the end, although the   *)
(* counter is reset, wraps, or moves on while the task looks at the list.  *)
Reported == \A s \in Items : (s \notin pool) ~> (s \in pool)

(* Cancel comes back, also when the interrupt reports the item first. *)
CancelReturns ==
    (pc \in {"cancelHigh", "cancelNormal"}) ~> (pc \notin {"cancelHigh", "cancelNormal"})

(* Nothing that was begun with an item is left undone. *)
RequestsEnd == Reported /\ CancelReturns
================================================================================
