--------------------------------- MODULE Sram ---------------------------------
(***************************************************************************)
(* The memory adapter over a buffer in RAM (mal/sram): the interface of    *)
(* the flash driver, every operation done in one call.  s is the module's  *)
(* statics; in is what the caller's buffer holds after a read.             *)
(*                                                                         *)
(* An operation is Enter, which tests s_CurrentState and claims the        *)
(* adapter in one atomic region, the copying, and Leave.  A task of a      *)
(* higher priority may run between Enter and Leave.                        *)
(***************************************************************************)
EXTENDS Integers, Sequences

CONSTANTS
    SRAM_PAGES,     \* SRAM_SIZE / SRAM_PAGE_SIZE
    SRAM_PAGE_SIZE,
    SRAM_ERASED     \* what an erase leaves in a cell

SRAM_SIZE == SRAM_PAGES * SRAM_PAGE_SIZE

Answer(s, r) == [s |-> s, r |-> r]

SramInit(cells) == [state |-> "not_ready", cells |-> cells, in |-> <<>>]

\* sram_init and sram_open: an adapter that is ready stays as it is.
sram_open(s) ==
    Answer([s EXCEPT !.state = IF @ = "not_ready" THEN "idle" ELSE @], "cpl")

\* sram_close waits for the operation under way; sram_finish does not.
sram_close(s) ==
    IF s.state = "busy" THEN Answer(s, "on_going")
    ELSE Answer([s EXCEPT !.state = "not_ready"], "cpl")

sram_finish(s) == Answer([s EXCEPT !.state = "not_ready"], "cpl")

Enter(s) ==
    CASE s.state = "not_ready" -> Answer(s, "err")
      [] s.state = "busy"      -> Answer(s, "busy")
      [] s.state = "idle"      -> Answer([s EXCEPT !.state = "busy"], "cpl")

Leave(s) == [s EXCEPT !.state = "idle"]

\* A whole operation: its bounds, the claim, the work, the release.
Operation(s, legal, empty, Work(_)) ==
    IF ~legal THEN Answer(s, "err")
    ELSE IF empty THEN Answer(s, "cpl")
    ELSE IF Enter(s).r # "cpl" THEN Enter(s)
    ELSE LET x == Work(Enter(s).s) IN Answer(Leave(x.s), x.r)

InRange(p, offset, size) == p * SRAM_PAGE_SIZE + offset + size <= SRAM_SIZE

Slice(s, p, offset, size) ==
    [i \in 1 .. size |-> s.cells[p * SRAM_PAGE_SIZE + offset + i - 1]]

Fill(s, p, data) ==
    [s EXCEPT !.cells = [c \in DOMAIN @ |->
        IF c \div SRAM_PAGE_SIZE = p THEN data[(c % SRAM_PAGE_SIZE) + 1] ELSE @[c]]]

ErasedPage == [i \in 1 .. SRAM_PAGE_SIZE |-> SRAM_ERASED]

sram_page_write(s, p, data) ==
    LET Work(t) == Answer(Fill(t, p, data), "cpl")
    IN Operation(s, p < SRAM_PAGES, FALSE, Work)

ReadWork(s, p, offset, size) == Answer([s EXCEPT !.in = Slice(s, p, offset, size)], "cpl")

sram_page_read(s, p, offset, size) ==
    LET Work(t) == ReadWork(t, p, offset, size)
    IN Operation(s, InRange(p, offset, size), size = 0, Work)

\* sram_page_verify after its claim: nothing but the result.
VerifyWork(s, p, offset, data) ==
    Answer(s, IF Slice(s, p, offset, Len(data)) = data THEN "cpl" ELSE "err")

sram_page_erase(s, p) ==
    LET Work(t) == Answer(Fill(t, p, ErasedPage), "cpl")
    IN Operation(s, p < SRAM_PAGES, FALSE, Work)

\* sram_chip_erase after its claim.
ChipEraseWork(s) == Answer([s EXCEPT !.cells = [c \in DOMAIN @ |-> SRAM_ERASED]], "cpl")
=============================================================================
