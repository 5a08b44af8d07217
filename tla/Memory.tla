-------------------------------- MODULE Memory --------------------------------
(***************************************************************************)
(* The memory component: a writer and a reader use one page_t object over  *)
(* a memory, which is the RAM adapter or the flash driver, while a third   *)
(* task, the rival, uses the memory directly (its life cycle, its          *)
(* identifiers, verifying, erasing).  Each action is one call.             *)
(*                                                                         *)
(* The tasks follow the convention of the infrastructure: a call that did  *)
(* not complete, also one that ended in an error, is made again with the   *)
(* same arguments.                                                         *)
(***************************************************************************)
EXTENDS Page

CONSTANTS
    Writes,     \* requests <<address, size, null>> the writer may make
    Reads,      \* requests <<address, size>> the reader may make
    RIVALS      \* operations the rival may start

ASSUME MemoryAssumption ==
    /\ Writes \subseteq Nat \X Nat \X BOOLEAN
    /\ Reads \subseteq Nat \X Nat

VARIABLES
    page,       \* the page_t object
    dev,        \* the memory: whose method table, and its statics
    writer,     \* the writer's request, and whether it is still to be done
    reader,
    rival,      \* the rival's operation, whether it is inside it, how many are left
    content     \* history: what the memory should hold

vars == <<page, dev, writer, reader, rival, content>>

Sdf == dev.ptMethod = "SDF"
Idle == "none"

Old(a) == <<"old", a>>
New(i) == <<"new", i>>
Data(size) == [i \in 1 .. size |-> New(i)]
Window(a, size) == [i \in 1 .. size |-> content[a + i - 1]]
Blank == [a \in Addresses |-> ERASED]

Put(a, size, null) ==
    [c \in Addresses |-> IF c \in a .. a + size - 1
                         THEN IF null THEN ERASED ELSE New(c - a + 1)
                         ELSE content[c]]

Init ==
    /\ content = [a \in Addresses |-> Old(a)]
    /\ \/ dev = [ptMethod |-> "SRAM", s |-> Ram!SramInit(content)]
       \/ \E wel, busy \in BOOLEAN :
              dev = [ptMethod |-> "SDF", s |-> FlashInit(content, wel, busy)]
    /\ page = page_init
    /\ writer \in {[a |-> w[1], size |-> w[2], null |-> w[3], todo |-> TRUE] : w \in Writes}
    /\ reader \in {[a |-> r[1], size |-> r[2], todo |-> TRUE] : r \in Reads}
    /\ rival = [op |-> Idle, inside |-> FALSE, left |-> RIVALS]

PageIdle == page.chFSMWrite = "start" /\ page.chFSMRead = "start"

\* sdf_page_verify shares the statics of sdf_read_random with the reads of
\* the page service: the tasks keep the two apart.
Apart == ~(Sdf /\ rival.op = "verify")

\* mal_mem_write()
Write ==
    /\ writer.todo
    /\ Apart
    /\ \E x \in {write_memory_disregard_page(page, dev, writer.a,
                    IF writer.null THEN <<>> ELSE Data(writer.size), writer.null, writer.size)} :
          /\ page' = x.p
          /\ dev' = x.dev
          /\ writer' = [writer EXCEPT !.todo = x.r # "cpl"]
          /\ content' = IF x.r = "cpl" THEN Put(writer.a, writer.size, writer.null) ELSE content
    /\ UNCHANGED <<reader, rival>>

\* mal_mem_read()
ReadMemory ==
    /\ reader.todo
    /\ Apart
    /\ \E x \in {read_memory_disregard_page(page, dev, reader.a, reader.size)} :
          /\ page' = x.p
          /\ dev' = x.dev
          /\ reader' = [reader EXCEPT !.todo = x.r # "cpl"]
    /\ UNCHANGED <<writer, rival, content>>

-----------------------------------------------------------------------------
(* The rival. *)

\* What may be started: a memory is initialised when it is not ready and
\* finished when it is idle; the whole memory is not erased, nor verified,
\* under a request of the page service.
Startable ==
    IF dev.s.state = "not_ready" THEN {"init"}
    ELSE (IF dev.s.state = "idle" THEN {"finish"} ELSE {})
         \cup (IF PageIdle THEN {"erase"} ELSE {})
         \cup (IF PageIdle \/ ~Sdf THEN {"verify"} ELSE {})
         \cup (IF Sdf THEN {"device_ID", "unique_ID"} ELSE {"close"})

Calls(op) ==
    \/ rival.op = op
    \/ rival.op = Idle /\ rival.left > 0 /\ op \in Startable

\* A call that found the memory busy is made again.
Called(op, result) ==
    \E x \in {result}, again \in {result.r \in {"on_going", "busy"}} :
       /\ dev' = [dev EXCEPT !.s = x.s]
       /\ rival' = [op |-> IF again THEN op ELSE Idle, inside |-> FALSE,
                    left |-> IF rival.op = Idle THEN rival.left - 1 ELSE rival.left]
       /\ content' = IF op = "erase" /\ x.r = "cpl" THEN Blank ELSE content
       /\ UNCHANGED <<page, writer, reader>>

\* The rival verifies the first page against what it holds.
RivalFlash ==
    /\ Sdf
    /\ \/ /\ Calls("init")
          /\ \E spi \in BOOLEAN, open \in {"cpl", "on_going", "err"}, hwID \in {0, 1} :
                 Called("init", sdf_init(dev.s, spi, open, hwID))
       \/ /\ Calls("finish")
          /\ dev.s.state = "idle"
          /\ \E close \in {"cpl", "on_going"} : Called("finish", sdf_finish(dev.s, close))
       \/ Calls("device_ID") /\ Called("device_ID", fsm_sdf_read_device_ID(dev.s))
       \/ Calls("unique_ID") /\ Called("unique_ID", fsm_sdf_read_unique_ID(dev.s))
       \/ Calls("verify") /\ Called("verify", sdf_page_verify(dev.s, 0, 0, Window(0, PAGE_SIZE)))
       \/ Calls("erase") /\ Called("erase", sdf_chip_erase(dev.s))

\* In the RAM adapter the two others may preempt the rival between its claim
\* and the end of its operation.
RivalClaims(op) ==
    /\ Calls(op)
    /\ Ram!Enter(dev.s).r = "cpl"
    /\ dev' = [dev EXCEPT !.s = Ram!Enter(@).s]
    /\ rival' = [op |-> op, inside |-> TRUE,
                 left |-> IF rival.op = Idle THEN rival.left - 1 ELSE rival.left]
    /\ UNCHANGED <<page, writer, reader, content>>

RivalEnds(op, x) ==
    /\ rival.op = op
    /\ rival.inside
    /\ Called(op, [x EXCEPT !.s = Ram!Leave(@)])

RivalRam ==
    /\ ~Sdf
    /\ \/ Calls("init") /\ Called("init", Ram!sram_open(dev.s))
       \/ Calls("finish") /\ Called("finish", Ram!sram_finish(dev.s))
       \/ Calls("close") /\ Called("close", Ram!sram_close(dev.s))
       \/ \E op \in {"verify", "erase"} : RivalClaims(op)
       \/ RivalEnds("verify", Ram!VerifyWork(dev.s, 0, 0, Window(0, PAGE_SIZE)))
       \/ RivalEnds("erase", Ram!ChipEraseWork(dev.s))

\* The chip ends what it was doing.
Chip ==
    /\ Sdf
    /\ dev.s.chipBusy
    /\ dev' = [dev EXCEPT !.s = ChipDone(@)]
    /\ UNCHANGED <<page, writer, reader, rival, content>>

Next == Write \/ ReadMemory \/ RivalFlash \/ RivalRam \/ Chip

\* The memory starts not ready and, if the rival finished it, stays so until
\* it is initialised again.
Usable == dev.s.state # "not_ready"

\* Every task is polled for ever, the bus opens in the end, and the chip ends
\* what it does.
Fairness ==
    /\ WF_vars(Write)
    /\ WF_vars(ReadMemory)
    /\ WF_vars(RivalRam)
    /\ WF_vars(rival.op # Idle /\ RivalFlash /\ dev' # dev)
    /\ WF_vars(Chip)

Spec == Init /\ [][Next]_vars /\ Fairness

-----------------------------------------------------------------------------
(* Properties. *)

Changing == page.chFSMWrite # "start" \/ rival.op = "erase"

\* While no write or erase is under way the memory holds, cell by cell, what
\* the completed requests put there: a write that spans pages changes its
\* range and nothing else, whatever errors it met on its way.
StoredAsWritten == Changing \/ dev.s.cells = content

\* A read that completes returns what the memory held (of no byte it returns
\* before it looks at the buffer).
ReadReturnsContent ==
    [][reader.todo /\ ~reader'.todo /\ reader.size > 0 =>
          page'.stream = Window(reader.a, reader.size)]_vars

\* Between two operations of the driver no sequence is left open: every
\* machine is at its start, the chip is deselected, protected and unlatched.
DriverAtRest ==
    Sdf /\ dev.s.state = "idle" =>
        /\ dev.s.cs = "high"
        /\ dev.s.protected
        /\ {dev.s.prog, dev.s.check, dev.s.wca, dev.s.stream} = {"start"}
        /\ ~dev.s.chipBusy
        /\ ~dev.s.wel

\* A request ends, unless the memory is not ready.
RequestsEnd ==
    /\ writer.todo ~> (~writer.todo \/ ~Usable)
    /\ reader.todo ~> (~reader.todo \/ ~Usable)
=============================================================================
