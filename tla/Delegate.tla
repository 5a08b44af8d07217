------------------------------- MODULE Delegate -------------------------------
(***************************************************************************)
(* The delegate of utilities/delegate.c: an event with two lists of        *)
(* handlers, those ready to be called and those that have completed        *)
(* (blocked).  invoke_delegate calls one handler at a time and is called   *)
(* again until it returns fsm_rt_cpl.  Handlers are registered and         *)
(* unregistered in between, and by the handlers themselves, while the      *)
(* iterator pptHandler, the address of a link, points into a list.         *)
(*                                                                         *)
(* A cell is a link: ptNext of a handler, or the head of a list.           *)
(***************************************************************************)
EXTENDS Naturals, FiniteSets, Functions

CONSTANTS Handlers, NULL,
          MaxCalls,  \* bound: calls of register and unregister
          TornCalls  \* bound: no such call after so many once a link is torn

ASSUME HandlersAssumption ==
    /\ IsFiniteSet(Handlers) /\ Handlers \cap {"ptEvent", "ptBlockedList"} = {}
    /\ NULL \notin Handlers \cup {"ptEvent", "ptBlockedList"}
ASSUME MaxCallsAssumption == MaxCalls \in Nat /\ TornCalls \in Nat

Cells == Handlers \cup {"ptEvent", "ptBlockedList"}

VARIABLES
    link,         \* the content of each cell
    pptHandler,   \* the cell whose handler is the next to be called
    running,      \* the handler that invoke_delegate is calling
    raising,      \* invoke_delegate was called and has not returned cpl yet
    registered,   \* history: registered and not unregistered
    done,         \* history: completed since the ready list was filled
    torn,         \* history: a link was overwritten that led elsewhere, see Tear
    calls         \* calls of register and unregister so far

histories == <<registered, done, torn>>
vars == <<link, pptHandler, running, raising, histories, calls>>

Init ==
    /\ link = [c \in Cells |-> NULL]
    /\ pptHandler = "ptEvent"
    /\ running = NULL /\ raising = FALSE
    /\ registered = {} /\ done = {} /\ torn = FALSE
    /\ calls = 0

--------------------------------------------------------------------------------
(* From the cell c along the links: as far as it takes to meet every cell, *)
(* also when the links run into a loop.                                    *)
Walk(c) ==
    LET at[i \in 0..Cardinality(Handlers)] ==
            IF i = 0 THEN c
            ELSE IF at[i-1] = NULL THEN NULL ELSE link[at[i-1]]
    IN  at

List(c) == Range(Walk(c)) \cap Cells

On(c) == List(c) \ {c}

(* search_list from c returns x: the first link that leads to h is there.  *)
Finds(c, x, h) ==
    \E i \in 1..Cardinality(Handlers) :
        /\ Walk(c)[i-1] = x /\ Walk(c)[i] = h
        /\ \A j \in 1..(i-1) : Walk(c)[j] # h

(* It returns NULL; in a loop it would go round and never return. *)
FindsNot(c, h) == h \notin On(c) /\ \E x \in List(c) : link[x] = NULL

(* Mutant: the link of the item that is taken out is left as it is. *)
BugTakenOut(x, h) == [link EXCEPT ![x] = link[h]]

TakenOut(x, h) == [link EXCEPT ![x] = link[h], ![h] = NULL]

(* h at the head of the ready list, the links being free. *)
Added(free, h) == [free EXCEPT ![h] = free["ptEvent"], !["ptEvent"] = h]

(* Two cases in which the code writes over a link that leads elsewhere, so *)
(* that the handlers behind it are lost or a list runs into a loop:        *)
(*   - the last handler of a list, whose ptNext is NULL as if it were on   *)
(*     none, is registered again;                                          *)
(*   - a handler ends that the iterator no longer leads to, because it has *)
(*     unregistered itself or, as the head of the list, registered another *)
(*     one; *pptHandler is written all the same.                           *)
Tear(case) == torn' = (torn \/ case)

MayCall == calls < MaxCalls /\ (torn => calls < TornCalls)

Register(h) ==
    /\ MayCall /\ calls' = calls + 1
    /\ \/ /\ link[h] # NULL /\ FindsNot("ptBlockedList", h)  \* already registered
          /\ UNCHANGED <<link, histories>>
       \/ /\ \/ link[h] = NULL /\ link' = Added(link, h)
             \/ /\ link[h] # NULL
                /\ \E x \in List("ptBlockedList") :
                      Finds("ptBlockedList", x, h) /\ link' = Added(TakenOut(x, h), h)
          /\ registered' = registered \cup {h}
          /\ done' = done \ {h}
          /\ Tear(link[h] = NULL /\ h \in registered)
    /\ UNCHANGED <<pptHandler, running, raising>>

(* The iterator, when h is taken out at cell x. *)
Moved(x, h) == IF pptHandler = h THEN x ELSE pptHandler

Unregister(h) ==
    /\ MayCall /\ calls' = calls + 1
    /\ \/ \E c \in {"ptEvent", "ptBlockedList"} : \E x \in List(c) :
             /\ c = "ptBlockedList" => FindsNot("ptEvent", h)
             /\ Finds(c, x, h)
             /\ link' = TakenOut(x, h) /\ pptHandler' = Moved(x, h)
       \/ /\ FindsNot("ptEvent", h) /\ FindsNot("ptBlockedList", h)
          /\ UNCHANGED <<link, pptHandler>>
    /\ registered' = registered \ {h} /\ done' = done \ {h}
    /\ UNCHANGED <<running, raising, torn>>

--------------------------------------------------------------------------------
(* invoke_delegate, up to the call of a handler.                           *)

Begin == raising' = TRUE

InvokeNothing ==
    /\ running = NULL
    /\ link["ptEvent"] = NULL /\ link["ptBlockedList"] = NULL
    /\ raising' = FALSE
    /\ UNCHANGED <<link, pptHandler, running, histories, calls>>

InvokeFirst ==
    /\ running = NULL
    /\ link["ptEvent"] = NULL /\ link["ptBlockedList"] # NULL
    /\ link' = [link EXCEPT !["ptEvent"] = link["ptBlockedList"],
                            !["ptBlockedList"] = NULL]
    /\ pptHandler' = "ptEvent" /\ running' = link'["ptEvent"]
    /\ done' = {} /\ Begin
    /\ UNCHANGED <<registered, torn, calls>>

(* Mutant: the iterator stays at the end of the list. *)
BugInvokePastEnd ==
    /\ running = NULL
    /\ link["ptEvent"] # NULL /\ link[pptHandler] = NULL
    /\ Begin
    /\ UNCHANGED <<link, pptHandler, running, histories, calls>>

(* The end of the list: the next call begins at its head. *)
InvokePastEnd ==
    /\ running = NULL
    /\ link["ptEvent"] # NULL /\ link[pptHandler] = NULL
    /\ pptHandler' = "ptEvent" /\ Begin
    /\ UNCHANGED <<link, running, histories, calls>>

InvokeNext ==
    /\ running = NULL
    /\ link["ptEvent"] # NULL /\ link[pptHandler] # NULL
    /\ running' = link[pptHandler] /\ Begin
    /\ UNCHANGED <<link, pptHandler, histories, calls>>

--------------------------------------------------------------------------------
(* What the handler returns.  The iterator points to it, unless the lists  *)
(* were changed before it in the call; the code does not look.             *)

Undisturbed == link[pptHandler] = running

OnGoing ==
    /\ running # NULL
    /\ pptHandler' = running /\ running' = NULL
    /\ UNCHANGED <<link, raising, histories, calls>>

(* EVENT_RT_UNREGISTER *)
Unregisters ==
    /\ running # NULL
    /\ link' = TakenOut(pptHandler, running)
    /\ running' = NULL
    /\ registered' = registered \ {running} /\ Tear(~Undisturbed)
    /\ UNCHANGED <<pptHandler, raising, done, calls>>

(* __move_to_block_list: what it finds as ptBlockedList it reads after it  *)
(* has written *pptHandler.                                                *)
Block(h) ==
    LET out == [link EXCEPT ![pptHandler] = link[h]]
    IN  [out EXCEPT ![h] = out["ptBlockedList"], !["ptBlockedList"] = h]

(* Mutant: cpl is returned at the end of the list. *)
BugFinished == link'[pptHandler] = NULL

Finished == link'["ptEvent"] = NULL

Completes ==
    /\ running # NULL
    /\ link' = Block(running)
    /\ done' = done \cup {running} /\ Tear(~Undisturbed)
    /\ raising' = ~Finished
    /\ running' = NULL
    /\ UNCHANGED <<pptHandler, registered, calls>>

--------------------------------------------------------------------------------
Invoke == InvokeNothing \/ InvokeFirst \/ InvokePastEnd \/ InvokeNext
Ends == Unregisters \/ Completes

Next ==
    \/ \E h \in Handlers : Register(h) \/ Unregister(h)
    \/ Invoke \/ OnGoing \/ Ends

Spec == Init /\ [][Next]_vars

(* Who raises the event calls invoke_delegate until it returns cpl; each   *)
(* call of a handler returns, and each handler ends sooner or later.       *)
FairSpec ==
    /\ Spec
    /\ WF_vars(raising /\ Invoke)
    /\ WF_vars(OnGoing \/ Ends)
    /\ \A h \in Handlers : SF_vars(running = h /\ Ends)
--------------------------------------------------------------------------------
(* Every variable holds a value of its C type. *)
TypeOK ==
    /\ link \in [Cells -> Handlers \cup {NULL}]
    /\ pptHandler \in Cells
    /\ running \in Handlers \cup {NULL}
    /\ raising \in BOOLEAN
    /\ registered \subseteq Handlers /\ done \subseteq Handlers /\ torn \in BOOLEAN
    /\ calls \in 0..MaxCalls

(* The iterator survives every registration and unregistration: if it      *)
(* stands at an item that was taken out, that is the end of the list for   *)
(* it, and what is called next is on the ready list.                       *)
IteratorOnList == link[pptHandler] \in On("ptEvent") \cup {NULL}

(* Handlers are registered and unregistered in the middle of a call, and   *)
(* by the handlers themselves: as long as no link that leads elsewhere is  *)
(* overwritten (torn, the two cases named at Tear), no handler is lost and *)
(* none is listed twice: exactly those registered are on one of the lists, *)
(* and on one only; no two links lead to the same.                         *)
OneList ==
    /\ TypeOK
    /\ torn \/ /\ IteratorOnList
               /\ On("ptEvent") \cup On("ptBlockedList") = registered
               /\ On("ptEvent") \cap On("ptBlockedList") = {}
               /\ \A x, y \in Cells : link[x] = link[y] /\ link[x] # NULL => x = y

(* As long as no link is torn, a handler that has completed is called      *)
(* again only when all that are registered have completed.                 *)
CalledOnce ==
    [][running' \notin {running, NULL}
        => running' \notin done \/ registered \subseteq done \/ torn']_vars

(* As long as no link is torn, every handler has completed since the lists *)
(* were exchanged when the raise is over: none was passed over.            *)
NonePassedOver == [][raising /\ ~raising' => registered' \subseteq done' \/ torn']_vars

(* In every round each handler that stays registered completes once, as    *)
(* long as no link is torn.                                                *)
CompletesOnce == CalledOnce /\ NonePassedOver

(* A raise comes to its end, however the lists change meanwhile, unless a  *)
(* link is torn: in a loop it may go on for ever.                          *)
RaiseReturns == raising ~> (~raising \/ torn)

================================================================================
