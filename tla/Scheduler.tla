------------------------------- MODULE Scheduler -------------------------------
(***************************************************************************)
(* The co-operative scheduler of service/scheduler (scheduler.c, task.c)   *)
(* in its default configuration: one task queue, call stacks, events and   *)
(* critical sections.                                                      *)
(*                                                                         *)
(* A task control block has a single link, pNext, and is at any time on    *)
(* the free list, on the ready queue, on the wait list of a flag, or being *)
(* run.  The lists are modelled by their pointers, since most of what can  *)
(* go wrong is one list cutting the links of another.                      *)
(*                                                                         *)
(* The main thread runs one task at a time, each until it returns.  An     *)
(* interrupt handler may set an event between any two steps of the main    *)
(* thread; every __IRQ_SAFE region is one step.                            *)
(***************************************************************************)
EXTENDS Integers, FiniteSets

CONSTANTS NumTasks,  \* size of the task pool
          StackSize, \* chStackSize of every task
          Event,     \* an event
          Section,   \* a critical section
          Configs    \* what the program does with them

(* A configuration says whether the event is reset by hand, how many tasks *)
(* wait for it at a time, and whether interrupt handlers set it.           *)
ASSUME PoolAssumption == NumTasks \in Nat \ {0}
ASSUME StackAssumption == StackSize \in 1..255
ASSUME FlagsAssumption == Event # Section /\ {Event, Section} \cap Int = {}
ASSUME ConfigsAssumption ==
    Configs \subseteq [bManualReset : BOOLEAN, MaxWaiters : Nat, IsrSets : BOOLEAN]

(* set_event loses every waiter but the first, so the properties are       *)
(* stated where one task at a time waits for the event.                    *)
ASSUME WaitersAssumption == \A c \in Configs : c.MaxWaiters <= 1

Tasks == 1..NumTasks  \* the control blocks, by address
NULL == 0
Flags == {Event, Section}

VARIABLES
    cfg,
    freeHead,             \* s_pFreeList
    qHead, qTail,         \* s_TaskQueuePool[0]
    pNext,                \* the link of each control block
    keyed,                \* the blocks whose pchKey is set
    chSP,
    bSignalRaised, bThreadBlocked, ptFlag,
    bSignal, ptHead, ptTail,  \* of each flag
    running, pc,          \* the task being run; where the scheduler is
    want,                 \* what the state function of each task waits for
    inside,               \* history: tasks that entered the section
    nullRead              \* history: bSignal was read through a NULL ptFlag

ready == <<qHead, qTail>>
signals == <<bSignalRaised, bThreadBlocked, ptFlag>>
flags == <<bSignal, ptHead, ptTail>>
vars == <<cfg, freeHead, ready, pNext, keyed, chSP, signals, flags, running,
          pc, want, inside, nullRead>>

bManualReset == [f \in Flags |-> f = Event /\ cfg.bManualReset]

--------------------------------------------------------------------------------
(* scheduler_init and task_pool_init: the pool is pushed block by block on *)
(* the free list.  The event is created reset, the section free.           *)
Init ==
    /\ cfg \in Configs
    /\ freeHead = NumTasks
    /\ pNext = [t \in Tasks |-> t - 1]
    /\ keyed = {}
    /\ qHead = NULL /\ qTail = NULL
    /\ chSP = [t \in Tasks |-> 0]
    /\ bSignalRaised = [t \in Tasks |-> FALSE]
    /\ bThreadBlocked = [t \in Tasks |-> FALSE]
    /\ ptFlag = [t \in Tasks |-> NULL]
    /\ bSignal = [f \in Flags |-> f = Section]
    /\ ptHead = [f \in Flags |-> NULL] /\ ptTail = [f \in Flags |-> NULL]
    /\ running = NULL /\ pc = "poll"
    /\ want = [t \in Tasks |-> NULL]
    /\ inside = {} /\ nullRead = FALSE

--------------------------------------------------------------------------------
(* The queue of ready tasks. *)

(* _register_task, where next is pNext as its caller leaves it. *)
AddTask(t, next) ==
    LET cut == [next EXCEPT ![t] = NULL]
    IN  /\ pNext' = IF qTail = NULL THEN cut ELSE [cut EXCEPT ![qTail] = t]
        /\ qHead' = IF qTail = NULL THEN t ELSE qHead
        /\ qTail' = t

(* Mutant: the tail is not updated when the queue becomes empty. *)
BugGetTask ==
    /\ qHead' = pNext[qHead]
    /\ UNCHANGED qTail

(* get_task_from_queue *)
GetTask ==
    /\ qHead' = pNext[qHead]
    /\ qTail' = IF pNext[qHead] = NULL THEN NULL ELSE qTail

--------------------------------------------------------------------------------
(* What a task may do while it is run.                                     *)
(*                                                                         *)
(* Of its own code a task keeps three rules, which the macros of           *)
(* scheduler.h suggest: after a wait that fails it returns WAIT_FOR_OBJ,   *)
(* and waits for the same flag when it is run again; inside the section it *)
(* does not wait; it leaves the section before it ends.                    *)

Runs(t) == pc = "run" /\ running = t
Free(t) == Runs(t) /\ want[t] = NULL

(* new_task: a control block is taken from the free list. *)
NewTask(t) ==
    /\ freeHead' = pNext[t]
    /\ keyed' = keyed \cup {t}
    /\ chSP' = [chSP EXCEPT ![t] = 0]
    /\ ptFlag' = [ptFlag EXCEPT ![t] = NULL]
    /\ bSignalRaised' = [bSignalRaised EXCEPT ![t] = FALSE]
    /\ bThreadBlocked' = [bThreadBlocked EXCEPT ![t] = FALSE]

(* register_task, from any task or, at the beginning, from main. *)
RegisterTask ==
    /\ pc \in {"poll", "run"} /\ freeHead # NULL
    /\ NewTask(freeHead)
    /\ AddTask(freeHead, pNext)
    /\ UNCHANGED <<cfg, flags, running, pc, want, inside, nullRead>>

(* call_task with bSubcall: the routine calls another one, and returns. *)
Call(t) ==
    /\ Free(t) /\ t \in keyed /\ chSP[t] < StackSize
    /\ chSP' = [chSP EXCEPT ![t] = @ + 1]
    /\ pc' = "requeue"
    /\ UNCHANGED <<cfg, freeHead, ready, pNext, keyed, signals, flags, running,
                   want, inside, nullRead>>

(* The routine returns fsm_rt_on_going, or goes to another state. *)
OnGoing(t) ==
    /\ Free(t)
    /\ pc' = "requeue"
    /\ UNCHANGED <<cfg, freeHead, ready, pNext, keyed, chSP, signals, flags,
                   running, want, inside, nullRead>>

(* The routine returns fsm_rt_cpl: to its caller, or the task ends. *)
Complete(t) ==
    /\ Free(t) /\ (chSP[t] = 0 => t \notin inside)
    /\ chSP' = [chSP EXCEPT ![t] = IF @ = 0 THEN 0 ELSE @ - 1]
    /\ pc' = IF t \in keyed /\ chSP[t] # 0 THEN "requeue" ELSE "free"
    /\ UNCHANGED <<cfg, freeHead, ready, pNext, keyed, signals, flags, running,
                   want, inside, nullRead>>

MayWait(t, f) ==
    \/ want[t] = f
    \/ /\ want[t] = NULL /\ t \notin inside
       /\ f = Event => Cardinality({u \in Tasks : want[u] = Event}) < cfg.MaxWaiters

(* Mutant: the signal raised for the task is not looked at. *)
BugSignalled(t, f) == bSignal[f]

(* The flag is signalled, or was signalled for this task. *)
Signalled(t, f) == bSignal[f] \/ bSignalRaised[t]

(* Mutant: the raised signal of the task survives the wait. *)
BugWaitSucceeds(t, f) ==
    /\ Runs(t) /\ MayWait(t, f)
    /\ Signalled(t, f)
    /\ bSignal' = [bSignal EXCEPT ![f] = @ /\ bManualReset[f]]
    /\ bSignalRaised' = [bSignalRaised EXCEPT ![t] = @ /\ bSignal[f]]
    /\ want' = [want EXCEPT ![t] = NULL]
    /\ inside' = IF f = Section THEN inside \cup {t} ELSE inside
    /\ UNCHANGED <<cfg, freeHead, ready, pNext, keyed, chSP, bThreadBlocked,
                   ptFlag, ptHead, ptTail, running, pc, nullRead>>

(* wait_for_single_object, when the task need not wait.                    *)
WaitSucceeds(t, f) ==
    /\ Runs(t) /\ MayWait(t, f)
    /\ Signalled(t, f)
    /\ bSignal' = [bSignal EXCEPT ![f] = @ /\ bManualReset[f]]
    /\ bSignalRaised' = [bSignalRaised EXCEPT ![t] = FALSE]
    /\ want' = [want EXCEPT ![t] = NULL]
    /\ inside' = IF f = Section THEN inside \cup {t} ELSE inside
    /\ UNCHANGED <<cfg, freeHead, ready, pNext, keyed, chSP, bThreadBlocked,
                   ptFlag, ptHead, ptTail, running, pc, nullRead>>

(* Otherwise it appends the task to the wait list. *)
WaitFails(t, f) ==
    /\ Runs(t) /\ MayWait(t, f)
    /\ ~Signalled(t, f)
    /\ LET cut == [pNext EXCEPT ![t] = NULL]
       IN  pNext' = IF ptTail[f] = NULL THEN cut
                                        ELSE [cut EXCEPT ![ptTail[f]] = t]
    /\ ptHead' = IF ptTail[f] = NULL THEN [ptHead EXCEPT ![f] = t] ELSE ptHead
    /\ ptTail' = [ptTail EXCEPT ![f] = t]
    /\ ptFlag' = [ptFlag EXCEPT ![t] = f]
    /\ bThreadBlocked' = [bThreadBlocked EXCEPT ![t] = FALSE]
    /\ want' = [want EXCEPT ![t] = f]
    /\ pc' = "waits"
    /\ UNCHANGED <<cfg, freeHead, ready, keyed, chSP, bSignalRaised, bSignal,
                   running, inside, nullRead>>

ResetEvent(t) ==
    /\ Free(t)
    /\ bSignal' = [bSignal EXCEPT ![Event] = FALSE]
    /\ UNCHANGED <<cfg, freeHead, ready, pNext, keyed, chSP, signals, ptHead,
                   ptTail, running, pc, want, inside, nullRead>>

--------------------------------------------------------------------------------
(* set_event, by a task or by an interrupt handler.                        *)

(* Where the loop over the wait list of f gets.  It loads pNext of a       *)
(* waiter after _register_task has set it to NULL, so it ends with the     *)
(* first waiter that was blocked.                                          *)
Visited(f) ==
    LET at[k \in 0..NumTasks] ==
          IF k = 0 THEN ptHead[f]
          ELSE IF at[k-1] = NULL \/ bThreadBlocked[at[k-1]] THEN NULL
          ELSE pNext[at[k-1]]
    IN  {at[k] : k \in 0..NumTasks} \ {NULL}

Awaken(f, seen) ==
    /\ IF \E t \in seen : bThreadBlocked[t]
       THEN AddTask(CHOOSE t \in seen : bThreadBlocked[t], pNext)
       ELSE UNCHANGED <<ready, pNext>>
    /\ bThreadBlocked' = [t \in Tasks |-> bThreadBlocked[t] /\ t \notin seen]
    /\ bSignalRaised' = [t \in Tasks |-> bSignalRaised[t] \/ t \in seen]
    /\ ptFlag' = [t \in Tasks |-> IF t \in seen THEN NULL ELSE ptFlag[t]]
    /\ ptHead' = [ptHead EXCEPT ![f] = NULL]
    /\ ptTail' = [ptTail EXCEPT ![f] = NULL]
    /\ bSignal' = [bSignal EXCEPT ![f] = TRUE]

SetEvent(t) ==
    /\ Free(t)
    /\ Awaken(Event, Visited(Event))
    /\ UNCHANGED <<cfg, freeHead, keyed, chSP, running, pc, want, inside, nullRead>>

IsrSetEvent ==
    /\ cfg.IsrSets
    /\ Awaken(Event, Visited(Event))
    /\ UNCHANGED <<cfg, freeHead, keyed, chSP, running, pc, want, inside, nullRead>>

--------------------------------------------------------------------------------
(* leave_critical_section: the section is free, or it is handed to the     *)
(* first task that waits for it.                                           *)

(* (A section whose signal is set was left already; nothing is done then.) *)
LeaveFree(t) ==
    /\ Free(t) /\ t \in inside
    /\ ~bSignal[Section] /\ ptHead[Section] = NULL
    /\ bSignal' = [bSignal EXCEPT ![Section] = TRUE]
    /\ inside' = inside \ {t}
    /\ UNCHANGED <<cfg, freeHead, ready, pNext, keyed, chSP, signals, ptHead,
                   ptTail, running, pc, want, nullRead>>

LeaveToWaiter(t) ==
    /\ Free(t) /\ t \in inside
    /\ ~bSignal[Section] /\ ptHead[Section] # NULL
    /\ LET u == ptHead[Section]
       IN  /\ ptHead' = [ptHead EXCEPT ![Section] = pNext[u]]
           /\ ptTail' = IF pNext[u] = NULL THEN [ptTail EXCEPT ![Section] = NULL]
                                           ELSE ptTail
           /\ IF bThreadBlocked[u] THEN AddTask(u, [pNext EXCEPT ![u] = NULL])
              ELSE pNext' = [pNext EXCEPT ![u] = NULL] /\ UNCHANGED ready
           /\ bThreadBlocked' = [bThreadBlocked EXCEPT ![u] = FALSE]
           /\ ptFlag' = [ptFlag EXCEPT ![u] = NULL]
           /\ bSignalRaised' = [bSignalRaised EXCEPT ![u] = TRUE]
    /\ inside' = inside \ {t}
    /\ UNCHANGED <<cfg, freeHead, keyed, chSP, bSignal, running, pc, want, nullRead>>

--------------------------------------------------------------------------------
(* scheduler(): takes a task from the queue, runs it, and puts it where    *)
(* its result says.                                                        *)

Dequeue ==
    /\ pc = "poll" /\ qHead # NULL
    /\ running' = qHead
    /\ GetTask
    /\ pc' = "run"
    /\ UNCHANGED <<cfg, freeHead, pNext, keyed, chSP, signals, flags, want,
                   inside, nullRead>>

Requeue ==
    /\ pc = "requeue"
    /\ AddTask(running, pNext)
    /\ running' = NULL /\ pc' = "poll"
    /\ UNCHANGED <<cfg, freeHead, keyed, chSP, signals, flags, want, inside,
                   nullRead>>

(* free_task *)
FreeTask ==
    /\ pc = "free"
    /\ keyed' = keyed \ {running}
    /\ IF running \in keyed
       THEN freeHead' = running /\ pNext' = [pNext EXCEPT ![running] = freeHead]
       ELSE UNCHANGED <<freeHead, pNext>>
    /\ running' = NULL /\ pc' = "poll"
    /\ UNCHANGED <<cfg, ready, chSP, signals, flags, want, inside, nullRead>>

(* "wait...this should not happen!": the flag was signalled meanwhile.     *)
FlagGone ==
    /\ pc = "waits" /\ ptFlag[running] = NULL
    /\ bSignalRaised' = [bSignalRaised EXCEPT ![running] = FALSE]
    /\ pc' = "requeue"
    /\ UNCHANGED <<cfg, freeHead, ready, pNext, keyed, chSP, bThreadBlocked,
                   ptFlag, flags, running, want, inside, nullRead>>

FlagThere ==
    /\ pc = "waits" /\ ptFlag[running] # NULL
    /\ pc' = "block"
    /\ UNCHANGED <<cfg, freeHead, ready, pNext, keyed, chSP, signals, flags,
                   running, want, inside, nullRead>>

Blocks(signalled) ==
    /\ bThreadBlocked' = [bThreadBlocked EXCEPT ![running] = ~signalled]
    /\ IF signalled
       THEN /\ AddTask(running, pNext)
            /\ bSignalRaised' = [bSignalRaised EXCEPT ![running] = TRUE]
            /\ ptFlag' = [ptFlag EXCEPT ![running] = NULL]
       ELSE UNCHANGED <<ready, pNext, bSignalRaised, ptFlag>>

(* The flag is read again, through ptFlag, in the atomic region.  If a     *)
(* handler cleared ptFlag since the test, address 0 is read, where the     *)
(* target has its vector table: either value may be found.                 *)
Block ==
    /\ pc = "block"
    /\ \E signalled \in BOOLEAN :
          /\ ptFlag[running] # NULL => signalled = bSignal[ptFlag[running]]
          /\ Blocks(signalled)
    /\ nullRead' = (nullRead \/ ptFlag[running] = NULL)
    /\ running' = NULL /\ pc' = "poll"
    /\ UNCHANGED <<cfg, freeHead, keyed, chSP, flags, want, inside>>

--------------------------------------------------------------------------------
TaskReturns(t) == Call(t) \/ OnGoing(t) \/ Complete(t)
TaskWaits(t) == \E f \in Flags : WaitSucceeds(t, f) \/ WaitFails(t, f)
TaskLeaves(t) == LeaveFree(t) \/ LeaveToWaiter(t)

TaskStep(t) == TaskReturns(t) \/ TaskWaits(t) \/ TaskLeaves(t)
                  \/ SetEvent(t) \/ ResetEvent(t)

SchedulerStep == Dequeue \/ Requeue \/ FreeTask \/ FlagGone \/ FlagThere \/ Block

Next == RegisterTask \/ (\E t \in Tasks : TaskStep(t)) \/ SchedulerStep \/ IsrSetEvent

Spec == Init /\ [][Next]_vars

(* The main loop calls scheduler() for ever, and every routine of a task   *)
(* returns, waiting again first if it has to.  A task that is inside the   *)
(* section leaves it sooner or later.                                      *)
FairSpec ==
    /\ Spec
    /\ WF_vars(SchedulerStep)
    /\ WF_vars(\E t \in Tasks : TaskReturns(t))
    /\ WF_vars(\E t \in Tasks : want[t] # NULL /\ TaskWaits(t))
    /\ SF_vars(\E t \in Tasks : TaskLeaves(t))

--------------------------------------------------------------------------------
Ptr == Tasks \cup {NULL}

(* Every variable holds a value of its C type, and the stack pointer does  *)
(* not pass the size of the stack.                                         *)
TypeOK ==
    /\ cfg \in Configs
    /\ freeHead \in Ptr /\ qHead \in Ptr /\ qTail \in Ptr
    /\ pNext \in [Tasks -> Ptr]
    /\ keyed \subseteq Tasks
    /\ chSP \in [Tasks -> 0..StackSize]
    /\ bSignalRaised \in [Tasks -> BOOLEAN] /\ bThreadBlocked \in [Tasks -> BOOLEAN]
    /\ ptFlag \in [Tasks -> Flags \cup {NULL}]
    /\ bSignal \in [Flags -> BOOLEAN]
    /\ ptHead \in [Flags -> Ptr] /\ ptTail \in [Flags -> Ptr]
    /\ running \in Ptr /\ pc \in {"poll", "run", "requeue", "free", "waits", "block"}
    /\ want \in [Tasks -> Flags \cup {NULL}]
    /\ inside \subseteq Tasks /\ nullRead \in BOOLEAN

(* The blocks reached from a head along pNext, and whether the list is     *)
(* sound: it ends, and with the block its tail points at.                  *)
Step(head) ==
    LET at[k \in 0..NumTasks] == IF k = 0 THEN head
                                 ELSE IF at[k-1] = NULL THEN NULL
                                 ELSE pNext[at[k-1]]
    IN  at
Members(head) == {Step(head)[k] : k \in 0..NumTasks} \ {NULL}
Ends(head) == Step(head)[NumTasks] = NULL
SoundList(head, tail) ==
    /\ Ends(head)
    /\ head = NULL <=> tail = NULL
    /\ tail # NULL => tail \in Members(head) /\ pNext[tail] = NULL

Ready == Members(qHead)
Waiting(f) == Members(ptHead[f])

(* No task is lost, listed twice or on two lists, although all lists share *)
(* one link per task and handlers move tasks between them: each control    *)
(* block is free, ready, waiting for a flag or being run, and only one of  *)
(* these, except that it is run and waiting while it is about to block.    *)
(* (After a read through a NULL ptFlag, a task may be blocked on no list.) *)
OnePlace ==
    LET waiting == Waiting(Event) \cup Waiting(Section)
        free == Members(freeHead)
    IN  /\ TypeOK
        /\ Ends(freeHead) /\ SoundList(qHead, qTail)
        /\ \A f \in Flags : SoundList(ptHead[f], ptTail[f])
        /\ ~nullRead => Tasks \subseteq free \cup Ready \cup waiting \cup {running}
        /\ free = Tasks \ keyed
        /\ free \cap (Ready \cup waiting \cup {running}) = {}
        /\ Ready \cap (waiting \cup {running}) = {}
        /\ Waiting(Event) \cap Waiting(Section) = {}
        /\ \A f \in Flags : \A t \in Waiting(f) :
              ptFlag[t] = f /\ (bThreadBlocked[t] <=> t # running)

(* At most one task is inside the critical section, and while one is, or   *)
(* the section has been handed to a waiter, its signal is not set: no      *)
(* signal left over from an event lets a second task in.                   *)
MutualExclusion ==
    LET heirs == {t \in Tasks : want[t] = Section /\ bSignalRaised[t]}
    IN  /\ Cardinality(inside \cup heirs) <= 1
        /\ bSignal[Section] <=> inside \cup heirs = {}

(* Round robin: a task in the queue is run in the end. *)
ReadyRuns == \A t \in Tasks : (t \in Ready) ~> (running = t)

(* A task that wants the section enters it in the end: the hand-over never *)
(* misses a waiter and is never taken by another task.                     *)
EntersSection == \A t \in Tasks : (want[t] = Section) ~> (t \in inside)

(* A task that was put back in the queue with its signal raised passes its *)
(* wait, even if another task took the signal of the flag before it ran.   *)
WokenProceeds ==
    \A t \in Tasks : (t \in Ready /\ bSignalRaised[t]) ~> (want[t] = NULL)

(* No task is forgotten: each runs, and gets what it was given or wants.   *)
TasksProceed == ReadyRuns /\ EntersSection /\ WokenProceeds

================================================================================
