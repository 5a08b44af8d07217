------------------------------ MODULE Telegraph ------------------------------
(***************************************************************************)
(* The telegraph engine (service/communication/telegraph_engine): a task   *)
(* transmits telegraphs and puts those that expect an answer on the list   *)
(* of listeners; the parser offers each received frame to the listeners;   *)
(* an answer, or the delay service, ends the waiting.                      *)
(*                                                                         *)
(* Lists are linked through ptNext, as utilities/template/t_list.h does    *)
(* it, and so is the pool.  The task, the parser and the user take turns   *)
(* in the main loop; the delay service reports a timeout in the tick       *)
(* interrupt, between any two of their steps (module MultipleDelay).       *)
(***************************************************************************)
EXTENDS Integers, FiniteSets

CONSTANTS
    Telegraphs, \* items of the telegraph pool
    Delays,     \* items of the delay service
    NULL

VARIABLES
    ptNext,                 \* of each telegraph
    field,                  \* fnHandler, wTimeout, ptOUTData: whether they are there
    ptDelayItem,
    ptFreeList,             \* the pool
    Listener, Transmitter,  \* [ptHead, ptTail]
    delays,                 \* of each delay item, the telegraph it times
    task, ptCurrent,        \* the state machine of the task
    pc, ptItem,             \* what the main loop is in the middle of
    mine                    \* telegraphs in the hands of the user

lists == <<ptNext, Listener, Transmitter, ptFreeList>>
items == <<field, ptDelayItem>>
vars == <<lists, items, delays, task, ptCurrent, pc, ptItem, mine>>

Empty == [ptHead |-> NULL, ptTail |-> NULL]

-----------------------------------------------------------------------------
(* t_list.h and t_list.c. *)

\* The nodes from head on.
Nodes(head) ==
    LET f[n \in 0 .. Cardinality(Telegraphs)] ==
            IF n = 0 THEN {head} ELSE f[n - 1] \cup {ptNext[t] : t \in f[n - 1] \ {NULL}}
    IN f[Cardinality(Telegraphs)] \ {NULL}

\* LIST_QUEUE_ENQUEUE: the queue, and the links.
Enqueued(q, t) == [ptHead |-> IF q.ptTail = NULL THEN t ELSE q.ptHead, ptTail |-> t]
Linked(q, t) == [x \in Telegraphs |-> IF x = t THEN NULL ELSE IF x = q.ptTail THEN t ELSE ptNext[x]]

\* LIST_QUEUE_DEQUEUE
Dequeued(q) ==
    IF q.ptHead = NULL THEN q
    ELSE [q EXCEPT !.ptHead = ptNext[q.ptHead], !.ptTail = IF ptNext[q.ptHead] = NULL THEN NULL ELSE @]

\* LIST_QUEUE_REMOVE: list_find gets a copy of the pointer into the list, so
\* that what it found is not where the macro dequeues: that is the head, and
\* the variable that named the item names the head.
Removed(q, t) == IF t \in Nodes(q.ptHead) THEN Dequeued(q) ELSE q
Named(q, t) == IF t \in Nodes(q.ptHead) THEN q.ptHead ELSE t

-----------------------------------------------------------------------------
Init ==
    \E order \in [Telegraphs -> Telegraphs \cup {NULL}], first \in Telegraphs :
        /\ ptNext = order
        /\ Nodes(first) = Telegraphs /\ \E t \in Telegraphs : ptNext[t] = NULL
        /\ ptFreeList = first
        /\ field = [t \in Telegraphs |-> [fnHandler |-> FALSE, wTimeout |-> FALSE, ptOUTData |-> FALSE]]
        /\ ptDelayItem = [t \in Telegraphs |-> NULL]
        /\ Listener = Empty
        /\ Transmitter = Empty
        /\ delays = [d \in Delays |-> NULL]
        /\ task = "FETCH_TELEGRAPH"
        /\ ptCurrent = NULL
        /\ pc = "idle"
        /\ ptItem = NULL
        /\ mine = {}

\* pool_free
Free(t) ==
    /\ ptFreeList' = t
    /\ ptNext' = [ptNext EXCEPT ![t] = ptFreeList]
    /\ mine' = mine \ {t}

\* A report: the handler may keep the telegraph; without one it is freed.
Report(t) ==
    \/ Free(t)
    \/ field[t].fnHandler /\ mine' = mine \cup {t} /\ UNCHANGED <<ptFreeList, ptNext>>

\* telegraph_init, by the user.
New(f) ==
    /\ pc = "idle"
    /\ ptFreeList # NULL
    /\ ptFreeList' = ptNext[ptFreeList]
    /\ ptNext' = [ptNext EXCEPT ![ptFreeList] = NULL]
    /\ field' = [field EXCEPT ![ptFreeList] = f]
    /\ ptDelayItem' = [ptDelayItem EXCEPT ![ptFreeList] = NULL]
    /\ mine' = mine \cup {ptFreeList}
    /\ UNCHANGED <<Listener, Transmitter, delays, task, ptCurrent, pc, ptItem>>

\* try_to_send_telegraph, a normal telegraph.
TryToSend(t) ==
    /\ pc = "idle"
    /\ t \in mine
    /\ IF field[t].ptOUTData
       THEN /\ Transmitter' = Enqueued(Transmitter, t)
            /\ ptNext' = Linked(Transmitter, t)
            /\ mine' = mine \ {t}
            /\ UNCHANGED ptFreeList
       ELSE Report(t) /\ UNCHANGED Transmitter
    /\ UNCHANGED <<Listener, items, delays, task, ptCurrent, pc, ptItem>>

\* try_to_send_telegraph, for listening: the delay is requested, and runs,
\* before the telegraph is on the list.
TryToListen(t, next) ==
    /\ \/ /\ ~field[t].fnHandler \/ (field[t].wTimeout /\ \A d \in Delays : delays[d] # NULL)
          /\ Report(t)
          /\ UNCHANGED <<delays, ptDelayItem, pc, ptItem>>
       \/ /\ field[t].fnHandler
          /\ IF field[t].wTimeout
             THEN \E d \in Delays :
                   /\ delays[d] = NULL
                   /\ delays' = [delays EXCEPT ![d] = t]
                   /\ ptDelayItem' = [ptDelayItem EXCEPT ![t] = d]
             ELSE ptDelayItem' = [ptDelayItem EXCEPT ![t] = NULL] /\ UNCHANGED delays
          /\ pc' = next
          /\ ptItem' = t
          /\ mine' = mine \ {t}
          /\ UNCHANGED <<ptFreeList, ptNext>>
    /\ UNCHANGED <<Listener, Transmitter, field, task, ptCurrent>>

Listen(t) ==
    /\ pc = "idle"
    /\ t \in mine
    /\ TryToListen(t, "user_enqueue")

EnqueueListener ==
    /\ pc \in {"user_enqueue", "task_enqueue"}
    /\ Listener' = Enqueued(Listener, ptItem)
    /\ ptNext' = Linked(Listener, ptItem)
    /\ pc' = "idle"
    /\ ptItem' = NULL
    /\ task' = IF pc = "task_enqueue" THEN "FETCH_TELEGRAPH" ELSE task
    /\ UNCHANGED <<Transmitter, ptFreeList, items, delays, ptCurrent, mine>>

-----------------------------------------------------------------------------
(* The task. *)

Fetch ==
    /\ pc = "idle"
    /\ task = "FETCH_TELEGRAPH"
    /\ Transmitter.ptHead # NULL
    /\ ptCurrent' = Transmitter.ptHead
    /\ Transmitter' = Dequeued(Transmitter)
    /\ task' = "SEND_TELGRAPH"
    /\ UNCHANGED <<ptNext, Listener, ptFreeList, items, delays, pc, ptItem, mine>>

\* fnWriteIO has sent it.  After an error, which starts the task again, it is
\* in no list.
Send ==
    /\ pc = "idle"
    /\ task = "SEND_TELGRAPH"
    /\ \/ /\ ~field[ptCurrent].fnHandler
          /\ Free(ptCurrent)
          /\ task' = "FETCH_TELEGRAPH"
       \/ /\ field[ptCurrent].fnHandler
          /\ task' = "REGISTER_LISTENER"
          /\ UNCHANGED <<ptFreeList, ptNext, mine>>
       \/ task' = "FETCH_TELEGRAPH" /\ UNCHANGED <<ptFreeList, ptNext, mine>>
    /\ UNCHANGED <<Listener, Transmitter, items, delays, ptCurrent, pc, ptItem>>

\* When this fails the telegraph has been reported and maybe freed, and the
\* task tries it again.
Register ==
    /\ pc = "idle"
    /\ task = "REGISTER_LISTENER"
    /\ TryToListen(ptCurrent, "task_enqueue")

-----------------------------------------------------------------------------
(* The parser. *)

Parse ==
    /\ pc = "idle"
    /\ Listener.ptHead # NULL
    /\ pc' = "decode"
    /\ ptItem' = Listener.ptHead
    /\ UNCHANGED <<lists, items, delays, task, ptCurrent, mine>>

ParseEnds == pc' = "idle" /\ ptItem' = NULL

\* fnDecoder: FRAME_UNMATCH, FRAME_UNKNOWN or FRAME_RECEIVED.  A listener that
\* has no delay is not told.
Decode ==
    /\ pc = "decode"
    /\ \/ ptNext[ptItem] # NULL /\ ptItem' = ptNext[ptItem] /\ UNCHANGED pc
       \/ ParseEnds
       \/ ptDelayItem[ptItem] # NULL /\ pc' = "cancel" /\ UNCHANGED ptItem
    /\ UNCHANGED <<lists, items, delays, task, ptCurrent, mine>>

\* MULTIPLE_DELAY.Cancel, which calls telegraph_timeout_event_handler for the
\* telegraph that the delay item times now.
Cancel ==
    /\ pc = "cancel"
    /\ LET d == ptDelayItem[ptItem] IN
          IF delays[d] = NULL THEN UNCHANGED <<Listener, delays>>
          ELSE /\ Listener' = Removed(Listener, delays[d])
               /\ delays' = [delays EXCEPT ![d] = NULL]
    /\ pc' = "report"
    /\ UNCHANGED <<ptNext, Transmitter, ptFreeList, items, task, ptCurrent, ptItem, mine>>

\* TELEGRAPH_RECEIVED; what the handler does not keep is removed and freed.
Received ==
    /\ pc = "report"
    /\ \/ /\ field[ptItem].fnHandler
          /\ mine' = mine \cup {ptItem}
          /\ ParseEnds
          /\ UNCHANGED Listener
       \/ /\ Listener' = Removed(Listener, ptItem)
          /\ ptItem' = Named(Listener, ptItem)
          /\ pc' = "free"
          /\ UNCHANGED mine
    /\ UNCHANGED <<ptNext, Transmitter, ptFreeList, items, delays, task, ptCurrent>>

FreeReceived ==
    /\ pc = "free"
    /\ Free(ptItem)
    /\ ParseEnds
    /\ UNCHANGED <<Listener, Transmitter, items, delays, task, ptCurrent>>

-----------------------------------------------------------------------------
(* The tick interrupt: the delay service reports the time out of d. *)

TelegraphTimeout(d) ==
    LET t == Named(Listener, delays[d]) IN
    /\ delays[d] # NULL
    /\ Listener' = Removed(Listener, delays[d])
    /\ delays' = [delays EXCEPT ![d] = NULL]
    /\ Report(t)
    /\ UNCHANGED <<Transmitter, items, task, ptCurrent, pc, ptItem>>

Fields == [fnHandler : BOOLEAN, wTimeout : BOOLEAN, ptOUTData : BOOLEAN]

Next ==
    \/ \E f \in Fields : New(f)
    \/ \E t \in Telegraphs : TryToSend(t) \/ Listen(t)
    \/ EnqueueListener
    \/ Fetch \/ Send \/ Register
    \/ Parse \/ Decode \/ Cancel \/ Received \/ FreeReceived
    \/ \E d \in Delays : TelegraphTimeout(d)

Spec == Init /\ [][Next]_vars

-----------------------------------------------------------------------------
\* A telegraph whose delay runs waits on the list of listeners, or is about to
\* be put there: a timeout or an answer takes nothing but its own telegraph
\* off the list, as the comment "remove it from the listener queue" says.
WaitingIsListed ==
    \A d \in Delays :
        delays[d] # NULL => \/ delays[d] \in Nodes(Listener.ptHead)
                            \/ pc \in {"user_enqueue", "task_enqueue"} /\ ptItem = delays[d]
=============================================================================
