--------------------------------- MODULE Page ---------------------------------
(***************************************************************************)
(* Access to a paged memory at any address (page/page.c) through the       *)
(* method table of the memory (mal/mal.c).                                 *)
(*                                                                         *)
(* dev is the memory: ptMethod says whose table it has, s holds the        *)
(* statics of that adapter.  p is the page_t object.  A call returns       *)
(* [p, dev, r].  Where the code returns to be called again, so does the    *)
(* operator.                                                               *)
(***************************************************************************)
EXTENDS Flash

\* What an erase leaves in a cell is 0xFF in both memories.
Ram == INSTANCE Sram WITH SRAM_PAGES <- PAGES, SRAM_PAGE_SIZE <- PAGE_SIZE, SRAM_ERASED <- ERASED

-----------------------------------------------------------------------------
(* mal.c: the page's address is shifted to a page number and an offset.      *)

mal_page_write(dev, a, data) ==
    LET p == a \div PAGE_SIZE
    IN IF dev.ptMethod = "SRAM" THEN Ram!sram_page_write(dev.s, p, data)
       ELSE sdf_page_write(dev.s, p, data)

mal_page_read(dev, a) ==
    LET p == a \div PAGE_SIZE
        offset == a % PAGE_SIZE
    IN IF dev.ptMethod = "SRAM" THEN Ram!sram_page_read(dev.s, p, offset, PAGE_SIZE)
       ELSE sdf_page_read(dev.s, p, offset, PAGE_SIZE)

mal_page_erase(dev, a) ==
    LET p == a \div PAGE_SIZE
    IN IF dev.ptMethod = "SRAM" THEN Ram!sram_page_erase(dev.s, p)
       ELSE sdf_page_erase(dev.s, p)

-----------------------------------------------------------------------------
(* page.c.  stream is what pchStream points at: the data still to write, or  *)
(* what was read so far; null stands for a NULL pointer, which writes 0xFF.  *)

page_init ==
    [locked |-> FALSE, modified |-> FALSE, chFSMWrite |-> "start", chFSMRead |-> "start",
     buffer |-> <<>>, stream |-> <<>>, null |-> FALSE,
     hwCount |-> 0, wAddress |-> 0, wPageAddress |-> 0]

Result(p, dev, x, r) == [p |-> p, dev |-> [dev EXCEPT !.s = x.s], r |-> r]
Stay(p, dev, r) == [p |-> p, dev |-> dev, r |-> r]

\* A step that waits for the memory: an error is returned to the caller with
\* the machine and the lock as they are; Go is the page_t when it completes.
Wait(p, dev, x, waiting, go) ==
    IF IsErr(x.r) THEN Result(p, dev, x, x.r)
    ELSE Result(IF x.r = "cpl" THEN go ELSE waiting, dev, x, "on_going")

Least(a, b) == IF a < b THEN a ELSE b

\* n bytes of the stream (or 0xFF) over the buffer from offset on.
Overlay(p, offset, n) ==
    [i \in 1 .. Len(p.buffer) |->
        IF i \in offset + 1 .. offset + n
        THEN IF p.null THEN ERASED ELSE p.stream[i - offset]
        ELSE p.buffer[i]]

Drop(p, n) == IF p.null THEN p.stream ELSE SubSeq(p.stream, n + 1, Len(p.stream))

\* Both are called on every call that waits for the erase and once after it;
\* bModified lets the first one through.
BugModifyLeading(p) ==
    LET offset == p.wAddress % PAGE_SIZE
        n == Least(PAGE_SIZE - offset, p.hwCount)
    IN [p EXCEPT !.modified = TRUE, !.buffer = Overlay(p, offset, n),
                 !.hwCount = @ - n, !.wAddress = @ + n, !.stream = Drop(p, n)]

modify_leading_page(p) ==
    LET offset == p.wAddress % PAGE_SIZE
        n == Least(PAGE_SIZE - offset, p.hwCount)
    IN IF p.modified THEN p
       ELSE [p EXCEPT !.modified = TRUE, !.buffer = Overlay(p, offset, n),
                      !.hwCount = @ - n, !.wAddress = @ + n, !.stream = Drop(p, n)]

modify_final_page(p) ==
    IF p.modified THEN p
    ELSE [p EXCEPT !.modified = TRUE, !.buffer = Overlay(p, 0, p.hwCount)]

PageOf(a) == (a \div PAGE_SIZE) * PAGE_SIZE

\* WRITE_PAGES: a whole page, the rest of one, or the end.
BugWritePages(p, dev) ==
    LET q == [p EXCEPT !.wPageAddress = PageOf(p.wAddress)]
    IN IF q.hwCount >= PAGE_SIZE THEN Stay([q EXCEPT !.chFSMWrite = "erase_page"], dev, "on_going")
       ELSE IF q.hwCount > 0 THEN Stay([q EXCEPT !.chFSMWrite = "read_final"], dev, "on_going")
       ELSE Stay([q EXCEPT !.chFSMWrite = "start"], dev, "cpl")

WritePages(p, dev) ==
    LET q == [p EXCEPT !.wPageAddress = PageOf(p.wAddress)]
    IN IF q.hwCount >= PAGE_SIZE THEN Stay([q EXCEPT !.chFSMWrite = "erase_page"], dev, "on_going")
       ELSE IF q.hwCount > 0 THEN Stay([q EXCEPT !.chFSMWrite = "read_final"], dev, "on_going")
       ELSE Stay([q EXCEPT !.chFSMWrite = "start", !.locked = FALSE], dev, "cpl")

ReadBeforeModify(p, dev, next) ==
    LET x == mal_page_read(dev, p.wPageAddress)
    IN Wait(p, dev, x, p, [p EXCEPT !.buffer = x.s.in, !.modified = FALSE, !.chFSMWrite = next])

NextPage(p) ==
    [p EXCEPT !.stream = Drop(p, PAGE_SIZE), !.wAddress = @ + PAGE_SIZE,
              !.hwCount = @ - PAGE_SIZE, !.chFSMWrite = "pages"]

WriteStart(p, dev, a, data, null, size) ==
    LET q == [p EXCEPT !.locked = TRUE, !.hwCount = size, !.stream = data, !.null = null,
                       !.wAddress = a]
        front == [q EXCEPT !.wPageAddress = PageOf(a), !.chFSMWrite = "read_front"]
    IN IF size = 0 THEN Stay(p, dev, "cpl")
       ELSE IF p.locked THEN Stay(p, dev, "on_going")
       ELSE IF a % PAGE_SIZE = 0 THEN Stay([q EXCEPT !.chFSMWrite = "pages"], dev, "on_going")
       ELSE ReadBeforeModify(front, dev, "erase_leading")

\* write_memory_disregard_page(): the arguments count only in the first state.
write_memory_disregard_page(p, dev, a, data, null, size) ==
    LET At(state) == [p EXCEPT !.chFSMWrite = state]
        erase == mal_page_erase(dev, p.wPageAddress)
        program == mal_page_write(dev, p.wPageAddress, p.buffer)
        whole == mal_page_write(dev, p.wPageAddress, SubSeq(p.stream, 1, PAGE_SIZE))
    IN CASE p.chFSMWrite = "start" -> WriteStart(p, dev, a, data, null, size)
         [] p.chFSMWrite = "read_front" -> ReadBeforeModify(p, dev, "erase_leading")
         [] p.chFSMWrite = "erase_leading" ->
                Wait(p, dev, erase, modify_leading_page(p), At("modify_leading"))
         [] p.chFSMWrite = "modify_leading" ->
                Stay([modify_leading_page(p) EXCEPT !.chFSMWrite = "prog_leading"], dev, "on_going")
         [] p.chFSMWrite = "prog_leading" ->
                LET x == Wait(p, dev, program, p, At("pages"))
                IN IF x.p.chFSMWrite = "pages" THEN WritePages(x.p, x.dev) ELSE x
         [] p.chFSMWrite = "pages" -> WritePages(p, dev)
         [] p.chFSMWrite = "erase_page" -> Wait(p, dev, erase, p, At("prog_page"))
         [] p.chFSMWrite = "prog_page" ->
                IF p.null THEN Stay(NextPage(p), dev, "on_going")
                ELSE Wait(p, dev, whole, p, NextPage(p))
         [] p.chFSMWrite = "read_final" -> ReadBeforeModify(p, dev, "erase_final")
         [] p.chFSMWrite = "erase_final" ->
                Wait(p, dev, erase, modify_final_page(p), At("modify_final"))
         [] p.chFSMWrite = "modify_final" ->
                Stay([modify_final_page(p) EXCEPT !.chFSMWrite = "prog_final"], dev, "on_going")
         [] p.chFSMWrite = "prog_final" ->
                LET x == Wait(p, dev, program, p, [At("start") EXCEPT !.locked = FALSE])
                IN IF x.p.chFSMWrite = "start" THEN [x EXCEPT !.r = "cpl"] ELSE x

BugSetBuffer(p, dev) ==
    LET offset == p.wAddress % PAGE_SIZE
        n == Least(PAGE_SIZE - offset, p.hwCount)
        q == [p EXCEPT !.stream = @ \o SubSeq(p.buffer, offset + 1, offset + n),
                       !.wAddress = @ + n, !.hwCount = @ - n]
    IN IF q.hwCount > 0 THEN Stay([q EXCEPT !.chFSMRead = "page"], dev, "on_going")
       ELSE Stay([q EXCEPT !.chFSMRead = "start", !.locked = FALSE], dev, "cpl")

\* READ_SET_BUFFER: the part of the page that was asked for.
SetBuffer(p, dev) ==
    LET offset == p.wAddress % PAGE_SIZE
        n == Least(PAGE_SIZE - offset, p.hwCount)
        q == [p EXCEPT !.stream = @ \o SubSeq(p.buffer, offset + 1, offset + n),
                       !.wAddress = @ + n, !.hwCount = @ - n]
    IN IF q.hwCount > 0
       THEN Stay([q EXCEPT !.wPageAddress = PageOf(q.wAddress), !.chFSMRead = "page"],
                 dev, "on_going")
       ELSE Stay([q EXCEPT !.chFSMRead = "start", !.locked = FALSE], dev, "cpl")

ReadPage(p, dev) ==
    LET x == mal_page_read(dev, p.wPageAddress)
    IN Wait(p, dev, x, p, [p EXCEPT !.buffer = x.s.in, !.chFSMRead = "set_buffer"])

ReadStart(p, dev, a, size) ==
    IF size = 0 THEN Stay(p, dev, "cpl")
    ELSE IF p.locked THEN Stay(p, dev, "on_going")
    ELSE ReadPage([p EXCEPT !.locked = TRUE, !.hwCount = size, !.stream = <<>>, !.wAddress = a,
                            !.wPageAddress = PageOf(a), !.chFSMRead = "page"], dev)

\* read_memory_disregard_page()
read_memory_disregard_page(p, dev, a, size) ==
    CASE p.chFSMRead = "start" -> ReadStart(p, dev, a, size)
      [] p.chFSMRead = "page" -> ReadPage(p, dev)
      [] p.chFSMRead = "set_buffer" -> SetBuffer(p, dev)
=============================================================================
