----------------------------- MODULE Memory_proofs -----------------------------
(***************************************************************************)
(* Proofs about the memory component (Memory, Page, Flash and Sram): the   *)
(* flash driver is at rest between two operations; the memory holds what   *)
(* the completed requests put there; a read that completes returns what    *)
(* it holds.  All of it for every size of the memory, of its pages,        *)
(* programs and reads, every request and whatever a rival does to the      *)
(* memory, the page service and itself.                                    *)
(***************************************************************************)
EXTENDS Memory, SequenceTheorems, TLAPS

-----------------------------------------------------------------------------
(* The statics of the driver and what a part of it may change.             *)

Operations == {"write", "read", "erase", "chip", "did", "uid"}
Machines == {"prog", "check", "wca", "stream"}
Bus == {"cs", "rx", "wel", "chipBusy", "cells"}
Fields == Operations \cup Machines \cup Bus \cup
    {"state", "irq", "init", "verify", "addressCounter", "counter", "programIndex", "out", "in", "page",
     "verifyAddress", "verifyLeft", "verifySize", "verifyData", "protected"}

\* t is s but for the fields F.
But(s, t, F) == DOMAIN t = Fields /\ \A g \in Fields \ F : t[g] = s[g]

LEMMA OneField == ASSUME NEW s, DOMAIN s = Fields, NEW f \in Fields, NEW e
                  PROVE  But(s, [s EXCEPT ![f] = e], {f}) /\ [s EXCEPT ![f] = e][f] = e
  BY DEF But

LEMMA ButTwice == ASSUME NEW s, NEW t, NEW u, NEW F, NEW G, But(s, t, F), But(t, u, G)
                  PROVE  But(s, u, F \cup G)
  BY DEF But

LEMMA ButMore == ASSUME NEW s, NEW t, NEW F, NEW G, But(s, t, F), F \subseteq G PROVE But(s, t, G)
  BY DEF But

\* A byte behind another.
LEMMA FirstStays == ASSUME NEW S, NEW q \in Seq(S), q # <<>>, NEW b
                    PROVE  /\ Append(q, b) \in Seq(S \cup {b}) /\ Append(q, b) # <<>>
                           /\ Append(q, b)[1] = q[1]
<1>. DEFINE T == S \cup {b}
<1>1. q \in [1 .. Len(q) -> S] /\ Len(q) \in Nat
  BY LenProperties
<1>2. q \in [1 .. Len(q) -> T] /\ b \in T
  BY <1>1
<1>3. q \in Seq(T)
  BY <1>1, <1>2, SeqDef
<1>. HIDE DEF T
<1>4. 1 \in 1 .. Len(q)
  BY <1>1, EmptySeq
<1>5. Append(q, b) \in Seq(T) /\ Append(q, b) # <<>> /\ \A i \in 1 .. Len(q) : Append(q, b)[i] = q[i]
  BY <1>2, <1>3, AppendProperties
<1>. QED
  BY <1>4, <1>5 DEF T

-----------------------------------------------------------------------------
(* The chip and the bus. *)

ReadCommands == {"read", "device_id", "unique_id"}

\* What the chip received begins with a command that changes nothing.
Begun(s, commands) == /\ \E S : s.rx \in Seq(S)
                      /\ s.rx # <<>> /\ s.rx[1] \in commands

Clean(s) == ~s.chipBusy /\ ~s.wel

LEMMA ExecuteIs == ASSUME NEW s, DOMAIN s = Fields, NEW t, t = Execute(s)
                   PROVE  /\ But(s, t, {"wel", "cells", "chipBusy"})
                          /\ s.rx = <<>> \/ Begun(s, ReadCommands \cup {"read_status"}) => t = s
<1>1. But(s, t, {"wel", "cells", "chipBusy"})
  BY DEF Execute, But, Fields, Operations, Machines, Bus
<1>2. s.rx = <<>> \/ Begun(s, ReadCommands \cup {"read_status"}) => t = s
  BY DEF Execute, Begun, ReadCommands
<1>. QED
  BY <1>1, <1>2

LEMMA SelectIs == ASSUME NEW s, DOMAIN s = Fields, NEW t, t = CLR_CS(s)
                  PROVE  But(s, t, {"cs", "rx"}) /\ t.cs = "low" /\ t.rx = <<>>
  BY DEF CLR_CS, But, Fields, Operations, Machines, Bus

LEMMA DeselectIs == ASSUME NEW s, DOMAIN s = Fields, NEW t, t = SET_CS(s)
                    PROVE  /\ But(s, t, Bus) /\ t.cs = "high"
                           /\ s.rx = <<>> \/ Begun(s, ReadCommands \cup {"read_status"}) =>
                                 t.wel = s.wel /\ t.chipBusy = s.chipBusy
<1>1. PICK u : u = Execute(s)
  OBVIOUS
<1>2. But(s, u, {"wel", "cells", "chipBusy"}) /\ (s.rx = <<>> \/ Begun(s, ReadCommands \cup {"read_status"}) => u = s)
  BY <1>1, ExecuteIs
<1>3. t = [u EXCEPT !.cs = "high", !.rx = <<>>]
  BY <1>1 DEF SET_CS
<1>4. But(u, t, {"cs", "rx"}) /\ t.cs = "high" /\ t.wel = u.wel /\ t.chipBusy = u.chipBusy
  BY <1>2, <1>3 DEF But, Fields, Operations, Machines, Bus
<1>5. But(s, t, {"wel", "cells", "chipBusy"} \cup {"cs", "rx"})
  BY <1>2, <1>4, ButTwice
<1>. QED
  BY <1>2, <1>4, <1>5, ButMore DEF Bus

LEMMA ExchangeIs == ASSUME NEW s, DOMAIN s = Fields, NEW b, NEW t, t = EXCHANGE(s, b)
                    PROVE  /\ But(s, t, {"rx"})
                           /\ \A c : Begun(s, c) => Begun(t, c)
                           /\ s.cs = "low" /\ s.rx = <<>> => \A c : b \in c => Begun(t, c)
<1>1. t = s \/ t = [s EXCEPT !.rx = Append(@, b)]
  BY DEF EXCHANGE
<1>2. But(s, t, {"rx"})
  BY <1>1 DEF But, Fields, Operations, Machines, Bus
<1>3. ASSUME NEW c, Begun(s, c) PROVE Begun(t, c)
  <2>1. CASE t = s
    BY <1>3, <2>1
  <2>2. CASE t = [s EXCEPT !.rx = Append(@, b)]
    <3>1. t.rx = Append(s.rx, b)
      BY <2>2 DEF Fields, Bus
    <3>2. PICK S : s.rx \in Seq(S)
      BY <1>3 DEF Begun
    <3>3. Append(s.rx, b) \in Seq(S \cup {b}) /\ Append(s.rx, b) # <<>> /\ Append(s.rx, b)[1] = s.rx[1]
      BY <1>3, <3>2, FirstStays DEF Begun
    <3>. QED
      BY <1>3, <3>1, <3>3 DEF Begun
  <2>. QED
    BY <1>1, <2>1, <2>2
<1>4. ASSUME s.cs = "low", s.rx = <<>>, NEW c, b \in c PROVE Begun(t, c)
  <2>1. t.rx = Append(<<>>, b)
    BY <1>4 DEF EXCHANGE, Fields, Bus
  <2>2. t.rx = <<b>> /\ <<b>> \in Seq({b}) /\ <<b>> # <<>> /\ <<b>>[1] = b
    BY <2>1
  <2>. QED
    BY <1>4, <2>2 DEF Begun
<1>. QED
  BY <1>2, <1>3, <1>4

-----------------------------------------------------------------------------
(* The sequences. *)

\* check_device_state() under way, or about to begin.
Checks(s) ==
    /\ s.wca = "start" /\ s.stream = "start" /\ s.protected
    /\ s.check \in {"start", "read_status", "disable_write"}
    /\ s.check = "read_status" => Begun(s, {"read_status"})

\* It ends with a chip that is not at work and whose latch is not set.
LEMMA CheckDeviceDoes ==
  ASSUME NEW s, DOMAIN s = Fields, Checks(s), NEW x, x = CheckDevice(s)
  PROVE  /\ But(s, x.s, Bus \cup {"check"})
         /\ \/ x.r = "on_going" /\ Checks(x.s)
            \/ x.r = "cpl" /\ x.s.check = "start" /\ Clean(x.s) /\ x.s.cs = "high"
<1>1. s.wca = "start" /\ s.stream = "start" /\ s.protected
  BY DEF Checks
<1>s. ASSUME NEW t, But(s, t, Bus \cup {"check"})
      PROVE  t.wca = "start" /\ t.stream = "start" /\ t.protected
  BY <1>1, <1>s DEF But, Fields, Operations, Machines, Bus
<1>2. CASE s.check = "start"
  <2>1. PICK t, u : t = CLR_CS(s) /\ u = EXCHANGE(t, "read_status")
    OBVIOUS
  <2>2. But(s, t, {"cs", "rx"}) /\ t.cs = "low" /\ t.rx = <<>>
    BY <2>1, SelectIs
  <2>3. But(t, u, {"rx"}) /\ Begun(u, {"read_status"})
    BY <2>1, <2>2, ExchangeIs DEF But
  <2>4. x = [s |-> [u EXCEPT !.check = "read_status"], r |-> "on_going"]
    BY <1>2, <2>1 DEF CheckDevice, Return
  <2>5. PICK w : w = [u EXCEPT !.check = "read_status"]
    OBVIOUS
  <2>6. But(u, w, {"check"}) /\ w.check = "read_status" /\ w.rx = u.rx
    BY <2>3, <2>5 DEF But, Fields, Operations, Machines, Bus
  <2>7. But(s, w, Bus \cup {"check"})
    <3>1. But(s, u, {"cs", "rx"} \cup {"rx"})
      BY <2>2, <2>3, ButTwice
    <3>2. But(s, w, ({"cs", "rx"} \cup {"rx"}) \cup {"check"})
      BY <2>6, <3>1, ButTwice
    <3>. QED
      BY <3>2, ButMore DEF Bus
  <2>8. Checks(w)
    BY <1>s, <2>3, <2>6, <2>7 DEF Checks, Begun
  <2>. QED
    BY <2>4, <2>5, <2>7, <2>8
<1>3. CASE s.check = "read_status"
  <2>1. CASE s.chipBusy
    <3>1. x = [s |-> s, r |-> "on_going"]
      BY <1>3, <2>1 DEF CheckDevice, Return
    <3>2. But(s, s, Bus \cup {"check"})
      BY DEF But
    <3>. QED
      BY <3>1, <3>2
  <2>2. PICK t : t = SET_CS(s)
    OBVIOUS
  <2>3. But(s, t, Bus) /\ t.cs = "high" /\ t.wel = s.wel /\ t.chipBusy = s.chipBusy
    <3>1. Begun(s, ReadCommands \cup {"read_status"})
      BY <1>3 DEF Checks, Begun
    <3>. QED
      BY <2>2, <3>1, DeselectIs
  <2>4. CASE ~s.chipBusy /\ s.wel
    <3>1. PICK u, w : u = CLR_CS(t) /\ w = [u EXCEPT !.check = "disable_write"]
      OBVIOUS
    <3>2. x = [s |-> w, r |-> "on_going"]
      BY <1>3, <2>2, <2>4, <3>1 DEF CheckDevice, Return
    <3>3. But(t, u, {"cs", "rx"})
      BY <2>3, <3>1, SelectIs DEF But
    <3>4. But(u, w, {"check"}) /\ w.check = "disable_write"
      BY <3>1, <3>3 DEF But, Fields, Operations, Machines, Bus
    <3>5. But(s, w, Bus \cup {"check"})
      <4>1. But(s, u, Bus \cup {"cs", "rx"})
        BY <2>3, <3>3, ButTwice
      <4>2. But(s, w, (Bus \cup {"cs", "rx"}) \cup {"check"})
        BY <3>4, <4>1, ButTwice
      <4>. QED
        BY <4>2, ButMore DEF Bus
    <3>6. Checks(w)
      BY <1>s, <3>4, <3>5 DEF Checks
    <3>. QED
      BY <3>2, <3>5, <3>6
  <2>5. CASE ~s.chipBusy /\ ~s.wel
    <3>1. PICK w : w = [t EXCEPT !.check = "start"]
      OBVIOUS
    <3>2. x = [s |-> w, r |-> "cpl"]
      BY <1>3, <2>2, <2>5, <3>1 DEF CheckDevice, Return
    <3>3. But(t, w, {"check"}) /\ w.check = "start" /\ w.cs = t.cs /\ w.wel = t.wel /\ w.chipBusy = t.chipBusy
      BY <2>3, <3>1 DEF But, Fields, Operations, Machines, Bus
    <3>4. But(s, w, Bus \cup {"check"})
      BY <2>3, <3>3, ButTwice
    <3>5. Clean(w)
      BY <2>3, <2>5, <3>3 DEF Clean
    <3>. QED
      BY <2>3, <3>2, <3>3, <3>4, <3>5
  <2>. QED
    BY <2>1, <2>4, <2>5
<1>4. CASE s.check = "disable_write"
  <2>1. PICK t, u, w : t = EXCHANGE(s, "disable_write") /\ u = SET_CS(t) /\ w = [u EXCEPT !.check = "start"]
    OBVIOUS
  <2>2. x = [s |-> w, r |-> "on_going"]
    BY <1>4, <2>1 DEF CheckDevice, Return
  <2>3. But(s, t, {"rx"})
    BY <2>1, ExchangeIs
  <2>4. But(t, u, Bus)
    BY <2>1, <2>3, DeselectIs DEF But
  <2>5. But(u, w, {"check"}) /\ w.check = "start"
    BY <2>1, <2>4 DEF But, Fields, Operations, Machines, Bus
  <2>6. But(s, w, Bus \cup {"check"})
    <3>1. But(s, u, {"rx"} \cup Bus)
      BY <2>3, <2>4, ButTwice
    <3>2. But(s, w, ({"rx"} \cup Bus) \cup {"check"})
      BY <2>5, <3>1, ButTwice
    <3>. QED
      BY <3>2, ButMore DEF Bus
  <2>7. Checks(w)
    BY <1>s, <2>5, <2>6 DEF Checks
  <2>. QED
    BY <2>2, <2>6, <2>7
<1>. QED
  BY <1>2, <1>3, <1>4 DEF Checks

\* write_command_and_address(): what is sent begins with the command.
Commands(s, commands) ==
    IF s.wca = "start" THEN s.cs = "low" /\ s.rx = <<>> ELSE Begun(s, commands)

LEMMA CommandDoes ==
  ASSUME NEW s, DOMAIN s = Fields, NEW cmd, NEW a, NEW x, x = CommandAndAddress(s, cmd, a)
  PROVE  /\ But(s, x.s, {"rx", "wca", "addressCounter"})
         /\ \/ x.r = "cpl" /\ x.s.wca = "start"
            \/ x.r = "on_going" /\ x.s.wca # "start"
         /\ \A c : Commands(s, c) /\ cmd \in c => Begun(x.s, c)
<1>1. CASE s.wca = "start"
  <2>1. PICK t, w : t = EXCHANGE(s, cmd) /\ w = [t EXCEPT !.wca = "address", !.addressCounter = 2]
    OBVIOUS
  <2>2. x = [s |-> w, r |-> "on_going"]
    BY <1>1, <2>1 DEF CommandAndAddress, Return
  <2>3. But(s, t, {"rx"}) /\ \A c : Commands(s, c) /\ cmd \in c => Begun(t, c)
    BY <1>1, <2>1, ExchangeIs DEF Commands
  <2>4. But(t, w, {"wca", "addressCounter"}) /\ w.wca = "address" /\ w.rx = t.rx
    BY <2>1, <2>3 DEF But, Fields, Operations, Machines, Bus
  <2>5. But(s, w, {"rx", "wca", "addressCounter"})
    <3>1. But(s, w, {"rx"} \cup {"wca", "addressCounter"})
      BY <2>3, <2>4, ButTwice
    <3>. QED
      BY <3>1, ButMore
  <2>. QED
    BY <2>2, <2>3, <2>4, <2>5 DEF Begun
<1>2. CASE s.wca # "start"
  <2>1. PICK t, v, w : /\ t = EXCHANGE(s, AddressByte(a, s.addressCounter))
                       /\ v = [t EXCEPT !.wca = "start"]
                       /\ w = [t EXCEPT !.addressCounter = @ - 1]
    OBVIOUS
  <2>2. x = [s |-> v, r |-> "cpl"] \/ x = [s |-> w, r |-> "on_going"]
    BY <1>2, <2>1 DEF CommandAndAddress, Return
  <2>3. But(s, t, {"rx"}) /\ \A c : Commands(s, c) => Begun(t, c)
    BY <1>2, <2>1, ExchangeIs DEF Commands
  <2>4. But(t, v, {"wca", "addressCounter"}) /\ v.wca = "start" /\ v.rx = t.rx
    BY <2>1, <2>3 DEF But, Fields, Operations, Machines, Bus
  <2>5. But(t, w, {"wca", "addressCounter"}) /\ w.wca # "start" /\ w.rx = t.rx
    BY <1>2, <2>1, <2>3 DEF But, Fields, Operations, Machines, Bus
  <2>6. But(s, v, {"rx", "wca", "addressCounter"}) /\ But(s, w, {"rx", "wca", "addressCounter"})
    <3>1. But(s, v, {"rx"} \cup {"wca", "addressCounter"}) /\ But(s, w, {"rx"} \cup {"wca", "addressCounter"})
      BY <2>3, <2>4, <2>5, ButTwice
    <3>. QED
      BY <3>1, ButMore
  <2>. QED
    BY <2>2, <2>3, <2>4, <2>5, <2>6 DEF Begun
<1>. QED
  BY <1>1, <1>2

LEMMA StreamOutDoes ==
  ASSUME NEW s, DOMAIN s = Fields, NEW out, NEW x, x = StreamOut(s, out)
  PROVE  /\ But(s, x.s, {"rx", "stream", "counter", "out"})
         /\ (x.r = "cpl" /\ x.s.stream = "start") \/ x.r = "on_going"
<1>1. CASE s.stream = "start"
  BY <1>1 DEF StreamOut, Return, But, Fields, Operations, Machines, Bus
<1>2. CASE s.stream # "start"
  <2>1. PICK t, v, w : /\ t = EXCHANGE(s, Head(s.out))
                       /\ v = [t EXCEPT !.counter = @ - 1, !.out = Tail(@)]
                       /\ w = [v EXCEPT !.stream = "start"]
    OBVIOUS
  <2>2. x = [s |-> w, r |-> "cpl"] \/ x = [s |-> v, r |-> "on_going"]
    BY <1>2, <2>1 DEF StreamOut, Return
  <2>3. But(s, t, {"rx"})
    BY <2>1, ExchangeIs
  <2>4. But(t, v, {"stream", "counter", "out"}) /\ But(t, w, {"stream", "counter", "out"}) /\ w.stream = "start"
    BY <2>1, <2>3 DEF But, Fields, Operations, Machines, Bus
  <2>5. But(s, v, {"rx", "stream", "counter", "out"}) /\ But(s, w, {"rx", "stream", "counter", "out"})
    <3>1. But(s, v, {"rx"} \cup {"stream", "counter", "out"}) /\ But(s, w, {"rx"} \cup {"stream", "counter", "out"})
      BY <2>3, <2>4, ButTwice
    <3>. QED
      BY <3>1, ButMore
  <2>. QED
    BY <2>2, <2>4, <2>5
<1>. QED
  BY <1>1, <1>2

LEMMA StreamInDoes ==
  ASSUME NEW s, DOMAIN s = Fields, NEW size, NEW x, x = StreamIn(s, size)
  PROVE  /\ But(s, x.s, {"rx", "stream", "counter", "in"})
         /\ (x.r = "cpl" /\ x.s.stream = "start") \/ x.r = "on_going"
         /\ \A c : Begun(s, c) => Begun(x.s, c)
<1>1. CASE s.stream = "start"
  BY <1>1 DEF StreamIn, Return, But, Fields, Operations, Machines, Bus, Begun
<1>2. CASE s.stream # "start"
  <2>1. PICK t, v, w : /\ t = EXCHANGE(s, "dummy")
                       /\ v = [t EXCEPT !.counter = @ - 1, !.in = Append(@, Answer(s))]
                       /\ w = [v EXCEPT !.stream = "start"]
    OBVIOUS
  <2>2. x = [s |-> w, r |-> "cpl"] \/ x = [s |-> v, r |-> "on_going"]
    BY <1>2, <2>1 DEF StreamIn, Return
  <2>3. But(s, t, {"rx"}) /\ \A c : Begun(s, c) => Begun(t, c)
    BY <2>1, ExchangeIs
  <2>4. /\ But(t, v, {"stream", "counter", "in"}) /\ But(t, w, {"stream", "counter", "in"})
        /\ w.stream = "start" /\ v.rx = t.rx /\ w.rx = t.rx
    BY <2>1, <2>3 DEF But, Fields, Operations, Machines, Bus
  <2>5. But(s, v, {"rx", "stream", "counter", "in"}) /\ But(s, w, {"rx", "stream", "counter", "in"})
    <3>1. But(s, v, {"rx"} \cup {"stream", "counter", "in"}) /\ But(s, w, {"rx"} \cup {"stream", "counter", "in"})
      BY <2>3, <2>4, ButTwice
    <3>. QED
      BY <3>1, ButMore
  <2>. QED
    BY <2>2, <2>3, <2>4, <2>5 DEF Begun
<1>. QED
  BY <1>1, <1>2

LEMMA EnableDoes == ASSUME NEW s, DOMAIN s = Fields, NEW t, t = EnableWrite(s).s PROVE But(s, t, Bus)
<1>1. PICK u, v : u = CLR_CS(s) /\ v = EXCHANGE(u, "enable_write")
  OBVIOUS
<1>2. t = SET_CS(v)
  BY <1>1 DEF EnableWrite, Return
<1>3. But(s, u, {"cs", "rx"})
  BY <1>1, SelectIs
<1>4. But(u, v, {"rx"})
  BY <1>1, <1>3, ExchangeIs DEF But
<1>5. But(v, t, Bus)
  BY <1>2, <1>4, DeselectIs DEF But
<1>6. But(s, v, {"cs", "rx"} \cup {"rx"})
  BY <1>3, <1>4, ButTwice
<1>7. But(s, t, ({"cs", "rx"} \cup {"rx"}) \cup Bus)
  BY <1>5, <1>6, ButTwice
<1>. QED
  BY <1>7, ButMore DEF Bus

-----------------------------------------------------------------------------
(* The operations. *)

ReadOps == {"read", "did", "uid"}
EraseOps == {"erase", "chip"}

\* No operation is under way; none but f is.
Quiet(s) ==
    /\ \A g \in Operations \cup Machines : s[g] = "start"
    /\ s.cs = "high" /\ s.protected
Only(s, f) == \A g \in Operations : g # f => s[g] = "start"

\* sdf_page_program()
Programming(s) ==
    \/ s.prog = "start" /\ s.check = "start" /\ s.wca = "start" /\ s.stream = "start"
    \/ s.prog = "command" /\ s.check = "start" /\ s.stream = "start"
    \/ s.prog = "data" /\ s.check = "start" /\ s.wca = "start"
    \/ s.prog = "check" /\ Checks(s)

\* The chip stays clean while it is read, for no command that it gets changes
\* anything.
Reading(s, f) ==
    /\ s.prog = "start" /\ s.protected
    /\ \/ s[f] = "check" /\ Checks(s)
       \/ /\ s[f] = "command" /\ s.check = "start" /\ s.stream = "start" /\ Clean(s)
          /\ Commands(s, ReadCommands)
       \/ /\ s[f] = "fetch" /\ s.check = "start" /\ s.wca = "start" /\ Clean(s)
          /\ Begun(s, ReadCommands)

Erasing(s, f) ==
    /\ s.prog = "start" /\ s.stream = "start"
    /\ \/ s[f] = "command" /\ s.check = "start" /\ (f = "chip" => s.wca = "start")
       \/ s[f] = "ready" /\ Checks(s)

At(s, f) ==
    \/ f = "write" /\ s.write = "write_page" /\ Programming(s)
    \/ f \in ReadOps /\ Reading(s, f)
    \/ f \in EraseOps /\ Erasing(s, f)

IsDriver(s) == DOMAIN s = Fields /\ s.verify \in {"start", "range", "read"}

DriverInv(s) ==
    /\ IsDriver(s)
    /\ \/ s.state = "not_ready" /\ Quiet(s)
       \/ s.state = "idle" /\ Quiet(s) /\ Clean(s)
       \/ s.state = "busy" /\ \E f \in Operations : Only(s, f) /\ At(s, f)

\* A call takes the driver from one such state to another, and gets nothing
\* from a driver that is not ready.
Goes(s, t) == DriverInv(t) /\ t.init = s.init /\ (s.state = "not_ready" => t.state = "not_ready")

LEMMA GoesSame == ASSUME NEW s, DriverInv(s) PROVE Goes(s, s)
  BY DEF Goes

\* Where the driver is free.
LEMMA ProgramDoes ==
  ASSUME NEW s, DOMAIN s = Fields, Programming(s), NEW unit, NEW data, NEW x, x = PageProgram(s, unit, data)
  PROVE  /\ But(s, x.s, Bus \cup Machines \cup {"protected", "addressCounter", "counter", "out"})
         /\ \/ x.r = "on_going" /\ Programming(x.s)
            \/ /\ x.r = "cpl" /\ Clean(x.s) /\ x.s.cs = "high" /\ x.s.protected
               /\ \A m \in Machines : x.s[m] = "start"
<1>. DEFINE All == Bus \cup Machines \cup {"protected", "addressCounter", "counter", "out"}
<1>1. CASE s.prog = "start"
  <2>1. PICK t, u, v, w : /\ t = EnableWrite(s).s /\ u = [t EXCEPT !.protected = FALSE] /\ v = CLR_CS(u)
                          /\ w = [v EXCEPT !.prog = "command"]
    OBVIOUS
  <2>2. x = [s |-> w, r |-> "on_going"]
    BY <1>1, <2>1 DEF PageProgram, Return
  <2>3. But(s, t, Bus)
    BY <2>1, EnableDoes
  <2>4. But(t, u, {"protected"})
    BY <2>1, <2>3, OneField DEF But, Fields
  <2>5. But(u, v, {"cs", "rx"})
    BY <2>1, <2>4, SelectIs DEF But
  <2>6. But(v, w, {"prog"}) /\ w.prog = "command"
    BY <2>1, <2>5, OneField DEF But, Fields, Machines
  <2>7. But(s, w, ((Bus \cup {"protected"}) \cup {"cs", "rx"}) \cup {"prog"})
    BY <2>3, <2>4, <2>5, <2>6, ButTwice
  <2>8. s.check = "start" /\ s.stream = "start"
    BY <1>1 DEF Programming
  <2>9. w.check = "start" /\ w.stream = "start"
    BY <2>7, <2>8 DEF But, Fields, Operations, Machines, Bus
  <2>a. But(s, w, All)
    BY <2>7, ButMore DEF Bus, Machines
  <2>. QED
    BY <2>2, <2>6, <2>9, <2>a DEF Programming
<1>2. CASE s.prog = "command"
  <2>1. PICK y, w : y = CommandAndAddress(s, "program", unit * PROGRAM_SIZE) /\ w = [y.s EXCEPT !.prog = "data"]
    OBVIOUS
  <2>2. x = IF y.r = "cpl" THEN [s |-> w, r |-> "on_going"] ELSE [s |-> y.s, r |-> "on_going"]
    BY <1>2, <2>1 DEF PageProgram, Return
  <2>3. But(s, y.s, {"rx", "wca", "addressCounter"}) /\ (y.r = "cpl" => y.s.wca = "start")
    BY <2>1, CommandDoes
  <2>4. But(y.s, w, {"prog"}) /\ w.prog = "data"
    BY <2>1, <2>3, OneField DEF But, Fields, Machines
  <2>5. s.check = "start" /\ s.stream = "start"
    BY <1>2 DEF Programming
  <2>6. y.s.check = "start" /\ y.s.stream = "start" /\ y.s.prog = "command"
    BY <1>2, <2>3, <2>5 DEF But, Fields, Operations, Machines, Bus
  <2>7. w.check = "start" /\ w.wca = y.s.wca
    BY <2>4, <2>6 DEF But, Fields, Operations, Machines, Bus
  <2>8. But(s, y.s, All)
    BY <2>3, ButMore DEF Bus, Machines
  <2>9. But(s, w, All)
    <3>1. But(s, w, All \cup {"prog"})
      BY <2>4, <2>8, ButTwice
    <3>. QED
      BY <3>1, ButMore DEF Machines
  <2>. QED
    BY <2>2, <2>3, <2>4, <2>6, <2>7, <2>8, <2>9 DEF Programming
<1>3. CASE s.prog = "data"
  <2>1. PICK y, u, w : /\ y = StreamOut(s, data) /\ u = SET_CS(y.s)
                       /\ w = [u EXCEPT !.protected = TRUE, !.prog = "check"]
    OBVIOUS
  <2>2. x = IF y.r = "cpl" THEN [s |-> w, r |-> "on_going"] ELSE [s |-> y.s, r |-> "on_going"]
    BY <1>3, <2>1 DEF PageProgram, Return
  <2>3. But(s, y.s, {"rx", "stream", "counter", "out"}) /\ (y.r = "cpl" => y.s.stream = "start")
    BY <2>1, StreamOutDoes
  <2>4. But(y.s, u, Bus)
    BY <2>1, <2>3, DeselectIs DEF But
  <2>5. But(u, w, {"protected", "prog"}) /\ w.protected /\ w.prog = "check"
    BY <2>1, <2>4 DEF But, Fields, Operations, Machines, Bus
  <2>6. s.check = "start" /\ s.wca = "start"
    BY <1>3 DEF Programming
  <2>7. y.s.check = "start" /\ y.s.wca = "start" /\ y.s.prog = "data"
    BY <1>3, <2>3, <2>6 DEF But, Fields, Operations, Machines, Bus
  <2>8. But(y.s, w, Bus \cup {"protected", "prog"})
    BY <2>4, <2>5, ButTwice
  <2>9. w.check = "start" /\ w.wca = "start" /\ w.stream = y.s.stream
    BY <2>7, <2>8 DEF But, Fields, Operations, Machines, Bus
  <2>a. But(s, y.s, All)
    BY <2>3, ButMore DEF Bus, Machines
  <2>b. But(s, w, All)
    <3>1. But(s, w, All \cup (Bus \cup {"protected", "prog"}))
      BY <2>8, <2>a, ButTwice
    <3>. QED
      BY <3>1, ButMore DEF Machines
  <2>c. y.r = "cpl" => Checks(w)
    BY <2>3, <2>5, <2>9 DEF Checks
  <2>. QED
    BY <2>2, <2>5, <2>7, <2>a, <2>b, <2>c DEF Programming
<1>4. CASE s.prog = "check"
  <2>0. Checks(s)
    BY <1>4 DEF Programming
  <2>1. PICK y, w : y = CheckDevice(s) /\ w = [y.s EXCEPT !.prog = "start"]
    OBVIOUS
  <2>2. x = IF y.r = "cpl" THEN [s |-> w, r |-> "cpl"] ELSE y
    BY <1>4, <2>1 DEF PageProgram, Return
  <2>3. /\ But(s, y.s, Bus \cup {"check"})
        /\ \/ y.r = "on_going" /\ Checks(y.s)
           \/ y.r = "cpl" /\ y.s.check = "start" /\ Clean(y.s) /\ y.s.cs = "high"
    BY <2>0, <2>1, CheckDeviceDoes
  <2>4. But(y.s, w, {"prog"}) /\ w.prog = "start"
    BY <2>1, <2>3, OneField DEF But, Fields, Machines
  <2>5. y.s.wca = "start" /\ y.s.stream = "start" /\ y.s.protected /\ y.s.prog = "check"
    BY <1>4, <2>0, <2>3 DEF Checks, But, Fields, Operations, Machines, Bus
  <2>6. w.wca = "start" /\ w.stream = "start" /\ w.protected /\ w.check = y.s.check /\ w.cs = y.s.cs
        /\ w.wel = y.s.wel /\ w.chipBusy = y.s.chipBusy
    BY <2>4, <2>5 DEF But, Fields, Operations, Machines, Bus
  <2>7. But(s, y.s, All)
    BY <2>3, ButMore DEF Bus, Machines
  <2>8. But(s, w, All)
    <3>1. But(s, w, All \cup {"prog"})
      BY <2>4, <2>7, ButTwice
    <3>. QED
      BY <3>1, ButMore DEF Machines
  <2>9. CASE y.r = "on_going"
    BY <2>2, <2>3, <2>5, <2>7, <2>9 DEF Programming
  <2>a. CASE y.r = "cpl"
    <3>1. Clean(w) /\ w.cs = "high" /\ \A m \in Machines : w[m] = "start"
      BY <2>3, <2>4, <2>6, <2>a DEF Clean, Machines
    <3>. QED
      BY <2>2, <2>6, <2>8, <2>a, <3>1
  <2>. QED
    BY <2>3, <2>9, <2>a
<1>. QED
  BY <1>1, <1>2, <1>3, <1>4 DEF Programming

\* What a call changes while f has the driver.
RunFields(f) == (Bus \cup Machines \cup {"protected", "addressCounter", "counter", "out", "in",
                                         "programIndex", "page", "state"}) \cup {f}

\* The two ways a run of f ends.
LEMMA RunGoes ==
  ASSUME NEW s, IsDriver(s), NEW f \in Operations, Only(s, f), s.state = "busy", NEW t, But(s, t, RunFields(f)),
         \/ t.state = "busy" /\ At(t, f)
         \/ /\ t.state = "idle" /\ t[f] = "start" /\ Clean(t) /\ t.cs = "high" /\ t.protected
            /\ \A m \in Machines : t[m] = "start"
  PROVE  Goes(s, t)
<1>1. IsDriver(t) /\ t.init = s.init
  BY DEF IsDriver, But, Fields, Operations, Machines, Bus, RunFields
<1>2. ASSUME NEW g \in Operations, g # f PROVE t[g] = "start"
  <2>1. s[g] = "start"
    BY <1>2 DEF Only
  <2>2. g \in Fields \ RunFields(f)
    BY <1>2 DEF Fields, Operations, Machines, Bus, RunFields
  <2>. QED
    BY <2>1, <2>2 DEF But
<1>3. CASE t.state = "busy" /\ At(t, f)
  BY <1>1, <1>2, <1>3 DEF Goes, DriverInv, Only
<1>4. CASE /\ t.state = "idle" /\ t[f] = "start" /\ Clean(t) /\ t.cs = "high" /\ t.protected
           /\ \A m \in Machines : t[m] = "start"
  <2>1. Quiet(t)
    BY <1>2, <1>4 DEF Quiet
  <2>. QED
    BY <1>1, <1>4, <2>1 DEF Goes, DriverInv
<1>. QED
  BY <1>3, <1>4

\* Read-type operations.
LEMMA ReadRunGoes ==
  ASSUME NEW s, IsDriver(s), NEW f \in ReadOps, Only(s, f), s.state = "busy", Reading(s, f),
         NEW cmd \in ReadCommands, NEW a, NEW size, NEW x, x = ReadRun(s, f, cmd, a, size)
  PROVE  Goes(s, x.s)
<1>0. DOMAIN s = Fields /\ f \in Operations /\ f \in Fields /\ f \notin Bus \cup Machines /\ f # "protected" /\ f # "state"
  BY DEF IsDriver, ReadOps, Operations, Fields, Bus, Machines
<1>r. s.prog = "start" /\ s.protected
  BY DEF Reading
<1>1. CASE s[f] = "check"
  <2>0. Checks(s)
    BY <1>1 DEF Reading
  <2>1. PICK y, t, w : y = CheckDevice(s) /\ t = CLR_CS(y.s) /\ w = [t EXCEPT ![f] = "command"]
    OBVIOUS
  <2>2. x = [s |-> IF y.r = "cpl" THEN w ELSE y.s, r |-> "on_going"]
    BY <1>1, <2>1 DEF ReadRun, Return
  <2>3. /\ But(s, y.s, Bus \cup {"check"})
        /\ \/ y.r = "on_going" /\ Checks(y.s)
           \/ y.r = "cpl" /\ y.s.check = "start" /\ Clean(y.s) /\ y.s.cs = "high"
    BY <1>0, <2>0, <2>1, CheckDeviceDoes
  <2>4. But(y.s, t, {"cs", "rx"}) /\ t.cs = "low" /\ t.rx = <<>>
    BY <2>1, <2>3, SelectIs DEF But
  <2>5. But(t, w, {f}) /\ w[f] = "command"
    BY <1>0, <2>1, <2>4, OneField DEF But
  <2>6. CASE y.r = "cpl"
    <3>1. But(s, w, ((Bus \cup {"check"}) \cup {"cs", "rx"}) \cup {f})
      BY <2>3, <2>4, <2>5, ButTwice
    <3>2. But(s, w, RunFields(f))
      BY <3>1, ButMore DEF RunFields, Bus, Machines
    <3>3. w.prog = "start" /\ w.protected /\ w.wca = "start" /\ w.stream = "start" /\ w.state = "busy"
      BY <1>0, <1>r, <2>0, <3>1 DEF Checks, But, Fields, Operations, Machines, Bus, ReadOps
    <3>4. w.check = "start" /\ Clean(w) /\ w.cs = "low" /\ w.rx = <<>>
      BY <1>0, <2>3, <2>4, <2>5, <2>6 DEF Clean, But, Fields, Operations, Machines, Bus, ReadOps
    <3>5. At(w, f)
      BY <2>5, <3>3, <3>4 DEF At, Reading, Commands
    <3>. QED
      BY <1>0, <2>2, <2>6, <3>2, <3>3, <3>5, RunGoes
  <2>7. CASE y.r = "on_going"
    <3>1. But(s, y.s, RunFields(f))
      BY <2>3, ButMore DEF RunFields, Bus, Machines
    <3>2. y.s.prog = "start" /\ y.s.protected /\ y.s[f] = "check" /\ y.s.state = "busy"
      BY <1>0, <1>1, <1>r, <2>3 DEF But, Fields, Operations, Machines, Bus, ReadOps
    <3>3. At(y.s, f)
      BY <2>3, <2>7, <3>2 DEF At, Reading
    <3>. QED
      BY <1>0, <2>2, <2>7, <3>1, <3>2, <3>3, RunGoes
  <2>. QED
    BY <2>3, <2>6, <2>7
<1>2. CASE s[f] = "command"
  <2>0. s.check = "start" /\ s.stream = "start" /\ Clean(s) /\ Commands(s, ReadCommands)
    BY <1>2 DEF Reading
  <2>1. PICK y, w : y = CommandAndAddress(s, cmd, a) /\ w = [y.s EXCEPT ![f] = "fetch"]
    OBVIOUS
  <2>2. x = [s |-> IF y.r = "cpl" THEN w ELSE y.s, r |-> "on_going"]
    BY <1>2, <2>1 DEF ReadRun, Return
  <2>3. /\ But(s, y.s, {"rx", "wca", "addressCounter"}) /\ Begun(y.s, ReadCommands)
        /\ \/ y.r = "cpl" /\ y.s.wca = "start"
           \/ y.r = "on_going" /\ y.s.wca # "start"
    BY <1>0, <2>0, <2>1, CommandDoes
  <2>4. But(y.s, w, {f}) /\ w[f] = "fetch"
    BY <1>0, <2>1, <2>3, OneField DEF But
  <2>5. /\ y.s.prog = "start" /\ y.s.protected /\ y.s[f] = "command" /\ y.s.state = "busy"
        /\ y.s.check = "start" /\ y.s.stream = "start" /\ Clean(y.s)
    BY <1>0, <1>2, <1>r, <2>0, <2>3 DEF Clean, But, Fields, Operations, Machines, Bus, ReadOps
  <2>6. CASE y.r = "cpl"
    <3>1. But(s, w, {"rx", "wca", "addressCounter"} \cup {f})
      BY <2>3, <2>4, ButTwice
    <3>2. But(s, w, RunFields(f))
      BY <3>1, ButMore DEF RunFields, Bus, Machines
    <3>3. /\ w.prog = "start" /\ w.protected /\ w.state = "busy" /\ w.check = "start" /\ Clean(w)
          /\ w.wca = "start" /\ w.rx = y.s.rx
      BY <1>0, <2>3, <2>4, <2>5, <2>6 DEF Clean, But, Fields, Operations, Machines, Bus, ReadOps
    <3>4. At(w, f)
      BY <2>3, <2>4, <3>3 DEF At, Reading, Begun
    <3>. QED
      BY <1>0, <2>2, <2>6, <3>2, <3>3, <3>4, RunGoes
  <2>7. CASE y.r = "on_going"
    <3>1. But(s, y.s, RunFields(f))
      BY <2>3, ButMore DEF RunFields, Bus, Machines
    <3>2. At(y.s, f)
      BY <2>3, <2>5, <2>7 DEF At, Reading, Commands
    <3>. QED
      BY <1>0, <2>2, <2>5, <2>7, <3>1, <3>2, RunGoes
  <2>. QED
    BY <2>3, <2>6, <2>7
<1>3. CASE s[f] = "fetch"
  <2>0. s.check = "start" /\ s.wca = "start" /\ Clean(s) /\ Begun(s, ReadCommands)
    BY <1>3 DEF Reading
  <2>1. PICK y, t, u, w : /\ y = StreamIn(s, size) /\ t = SET_CS(y.s) /\ u = [t EXCEPT !.state = "idle"]
                          /\ w = [u EXCEPT ![f] = "start"]
    OBVIOUS
  <2>2. x = IF y.r = "cpl" THEN [s |-> w, r |-> "cpl"] ELSE y
    BY <1>3, <2>1 DEF ReadRun, Return, Release
  <2>3. /\ But(s, y.s, {"rx", "stream", "counter", "in"}) /\ Begun(y.s, ReadCommands)
        /\ (y.r = "cpl" /\ y.s.stream = "start") \/ y.r = "on_going"
    BY <1>0, <2>0, <2>1, StreamInDoes
  <2>4. /\ y.s.prog = "start" /\ y.s.protected /\ y.s[f] = "fetch" /\ y.s.state = "busy"
        /\ y.s.check = "start" /\ y.s.wca = "start" /\ Clean(y.s)
    BY <1>0, <1>3, <1>r, <2>0, <2>3 DEF Clean, But, Fields, Operations, Machines, Bus, ReadOps
  <2>5. CASE y.r = "cpl"
    <3>1. But(y.s, t, Bus) /\ t.cs = "high" /\ t.wel = y.s.wel /\ t.chipBusy = y.s.chipBusy
      <4>1. Begun(y.s, ReadCommands \cup {"read_status"})
        BY <2>3 DEF Begun
      <4>2. DOMAIN y.s = Fields /\ t = SET_CS(y.s)
        BY <2>1, <2>3 DEF But
      <4>. QED
        BY <4>1, <4>2, DeselectIs
    <3>2. But(t, u, {"state"}) /\ u.state = "idle"
      BY <2>1, <3>1, OneField DEF But, Fields
    <3>3. But(u, w, {f}) /\ w[f] = "start"
      BY <1>0, <2>1, <3>2, OneField DEF But
    <3>4. But(y.s, w, (Bus \cup {"state"}) \cup {f})
      BY <3>1, <3>2, <3>3, ButTwice
    <3>5. But(s, w, {"rx", "stream", "counter", "in"} \cup ((Bus \cup {"state"}) \cup {f}))
      BY <2>3, <3>4, ButTwice
    <3>6. But(s, w, RunFields(f))
      BY <3>5, ButMore DEF RunFields, Bus, Machines
    <3>7. w.protected /\ \A m \in Machines : w[m] = "start"
      BY <1>0, <2>3, <2>4, <2>5, <3>4 DEF But, Fields, Operations, Machines, Bus, ReadOps
    <3>8. w.state = "idle" /\ w.cs = "high" /\ Clean(w)
      BY <1>0, <2>4, <3>1, <3>2, <3>3 DEF Clean, But, Fields, Operations, Machines, Bus, ReadOps
    <3>. QED
      BY <1>0, <2>2, <2>5, <3>3, <3>6, <3>7, <3>8, RunGoes
  <2>6. CASE y.r = "on_going"
    <3>1. But(s, y.s, RunFields(f))
      BY <2>3, ButMore DEF RunFields, Bus, Machines
    <3>2. At(y.s, f)
      BY <2>3, <2>4 DEF At, Reading
    <3>. QED
      BY <1>0, <2>2, <2>4, <2>6, <3>1, <3>2, RunGoes
  <2>. QED
    BY <2>3, <2>5, <2>6
<1>. QED
  BY <1>1, <1>2, <1>3 DEF Reading

\* Whose machine is not at its start has the driver.
LEMMA Owner == ASSUME NEW s, DriverInv(s), NEW f \in Operations, s[f] # "start"
               PROVE  s.state = "busy" /\ Only(s, f) /\ At(s, f)
  BY DEF DriverInv, Quiet, Only

LEMMA IdleIsQuiet == ASSUME NEW s, DriverInv(s), s.state = "idle" PROVE Quiet(s) /\ Clean(s)
  BY DEF DriverInv

\* What f finds that just claimed the driver.
ClaimedFor(s, f, e) == [Claim(s) EXCEPT ![f] = e]

LEMMA Claimed ==
  ASSUME NEW s, IsDriver(s), Quiet(s), NEW f \in Operations, NEW e, NEW t, t = ClaimedFor(s, f, e)
  PROVE  /\ IsDriver(t) /\ t.state = "busy" /\ t[f] = e /\ Only(t, f) /\ t.init = s.init
         /\ t.cs = "high" /\ t.protected /\ \A m \in Machines : t[m] = "start"
<1>1. DOMAIN s = Fields /\ f \in Fields /\ f # "state"
  BY DEF IsDriver, Fields, Operations
<1>2. PICK u : u = [s EXCEPT !.state = "busy"]
  OBVIOUS
<1>3. But(s, u, {"state"}) /\ u.state = "busy"
  BY <1>1, <1>2, OneField DEF Fields
<1>4. But(u, t, {f}) /\ t[f] = e
  BY <1>1, <1>2, <1>3, OneField DEF But, Claim, ClaimedFor
<1>5. But(s, t, {"state"} \cup {f})
  BY <1>3, <1>4, ButTwice
<1>6. t.state = "busy"
  BY <1>1, <1>3, <1>4 DEF But, Fields
<1>7. IsDriver(t) /\ t.init = s.init /\ t.cs = "high" /\ t.protected
  BY <1>5 DEF IsDriver, Quiet, But, Fields, Operations, Machines, Bus
<1>8. Only(t, f) /\ \A m \in Machines : t[m] = "start"
  BY <1>5 DEF Only, Quiet, But, Fields, Operations, Machines, Bus
<1>. QED
  BY <1>4, <1>6, <1>7, <1>8

LEMMA ReadClaims ==
  ASSUME NEW s, IsDriver(s), Quiet(s), s.state = "idle", NEW f \in ReadOps, NEW cmd \in ReadCommands,
         NEW a, NEW size, NEW x, x = Read(s, f, cmd, a, size)
  PROVE  DriverInv(x.s) /\ x.s.init = s.init /\ x.r = "on_going"
<1>1. f \in Operations /\ s[f] = "start"
  BY DEF ReadOps, Operations, Quiet
<1>2. PICK t : t = ClaimedFor(s, f, "check")
  OBVIOUS
<1>3. x = ReadRun(t, f, cmd, a, size)
  BY <1>1, <1>2 DEF Read, ClaimedFor
<1>4. /\ IsDriver(t) /\ t.state = "busy" /\ t[f] = "check" /\ Only(t, f) /\ t.init = s.init
      /\ t.cs = "high" /\ t.protected /\ \A m \in Machines : t[m] = "start"
  BY <1>1, <1>2, Claimed
<1>5. Checks(t) /\ t.prog = "start"
  BY <1>4 DEF Checks, Machines
<1>6. Reading(t, f)
  BY <1>4, <1>5 DEF Reading
<1>7. Goes(t, x.s)
  BY <1>3, <1>4, <1>6, ReadRunGoes
<1>8. x.r = "on_going"
  BY <1>3, <1>4 DEF ReadRun, Return
<1>. QED
  BY <1>4, <1>7, <1>8 DEF Goes

LEMMA ReadGoes ==
  ASSUME NEW s, DriverInv(s), NEW f \in ReadOps, NEW cmd \in ReadCommands,
         NEW a, NEW size, NEW x, x = Read(s, f, cmd, a, size)
  PROVE  Goes(s, x.s)
<1>1. f \in Operations /\ f \notin EraseOps /\ f # "write" /\ IsDriver(s)
  BY DEF ReadOps, EraseOps, Operations, DriverInv
<1>2. CASE s[f] # "start"
  <2>1. s.state = "busy" /\ Only(s, f) /\ At(s, f)
    BY <1>1, <1>2, Owner
  <2>2. Reading(s, f)
    BY <1>1, <2>1 DEF At
  <2>3. x = ReadRun(s, f, cmd, a, size)
    BY <1>2 DEF Read
  <2>. QED
    BY <1>1, <2>1, <2>2, <2>3, ReadRunGoes
<1>3. CASE s[f] = "start" /\ s.state # "idle"
  <2>1. x.s = s
    BY <1>3 DEF Read, Return
  <2>. QED
    BY <2>1, GoesSame
<1>4. CASE s[f] = "start" /\ s.state = "idle"
  <2>1. Quiet(s)
    BY <1>4, IdleIsQuiet
  <2>2. DriverInv(x.s) /\ x.s.init = s.init
    BY <1>1, <1>4, <2>1, ReadClaims
  <2>. QED
    BY <1>4, <2>2 DEF Goes
<1>. QED
  BY <1>2, <1>3, <1>4

LEMMA RandomGoes == ASSUME NEW s, DriverInv(s), NEW a, NEW size, NEW x, x = sdf_read_random(s, a, size)
                    PROVE  Goes(s, x.s)
<1>1. CASE x = Return(s, "err") \/ x = Return(s, "cpl")
  <2>1. x.s = s
    BY <1>1 DEF Return
  <2>. QED
    BY <2>1, GoesSame
<1>2. CASE x = Read(s, "read", "read", a, size)
  <2>1. "read" \in ReadOps /\ "read" \in ReadCommands
    BY DEF ReadOps, ReadCommands
  <2>. QED
    BY <1>2, <2>1, ReadGoes
<1>. QED
  BY <1>1, <1>2 DEF sdf_read_random

LEMMA PageReadGoes == ASSUME NEW s, DriverInv(s), NEW p, NEW offset, NEW size, NEW x,
                             x = sdf_page_read(s, p, offset, size)
                      PROVE  Goes(s, x.s)
  BY RandomGoes DEF sdf_page_read

LEMMA DeviceGoes == ASSUME NEW s, DriverInv(s), NEW x, x = fsm_sdf_read_device_ID(s) PROVE Goes(s, x.s)
<1>1. "did" \in ReadOps /\ "device_id" \in ReadCommands
  BY DEF ReadOps, ReadCommands
<1>. QED
  BY <1>1, ReadGoes DEF fsm_sdf_read_device_ID

LEMMA UniqueGoes == ASSUME NEW s, DriverInv(s), NEW x, x = fsm_sdf_read_unique_ID(s) PROVE Goes(s, x.s)
<1>1. "uid" \in ReadOps /\ "unique_id" \in ReadCommands
  BY DEF ReadOps, ReadCommands
<1>. QED
  BY <1>1, ReadGoes DEF fsm_sdf_read_unique_ID

\* Statics that are none of the driver's business.
Aside == {"irq", "init", "verify", "verifyAddress", "verifyLeft", "verifySize", "verifyData",
          "in", "out", "page", "counter", "programIndex", "addressCounter", "cells"}

LEMMA AsideGoes ==
  ASSUME NEW s, DriverInv(s), NEW t, But(s, t, Aside), t.verify \in {"start", "range", "read"}
  PROVE  DriverInv(t) /\ t.state = s.state
<1>0. DOMAIN s = Fields
  BY DEF DriverInv, IsDriver
<1>1. IsDriver(t)
  BY DEF IsDriver, But
<1>2. \A g \in Operations \cup Machines : t[g] = s[g]
  BY DEF But, Fields, Aside, Operations, Machines
<1>3. /\ t.cs = s.cs /\ t.rx = s.rx /\ t.wel = s.wel /\ t.chipBusy = s.chipBusy /\ t.protected = s.protected
      /\ t.state = s.state
  BY DEF But, Fields, Aside, Operations, Machines, Bus
<1>4. t.prog = s.prog /\ t.check = s.check /\ t.wca = s.wca /\ t.stream = s.stream /\ t.write = s.write
  BY <1>0, <1>2 DEF But, Fields, Operations, Machines
<1>5. Quiet(s) => Quiet(t)
  BY <1>2, <1>3 DEF Quiet
<1>6. Clean(s) => Clean(t)
  BY <1>3 DEF Clean
<1>7. ASSUME NEW f \in Operations, Only(s, f), At(s, f) PROVE Only(t, f) /\ At(t, f)
  <2>1. Only(t, f) /\ t[f] = s[f]
    BY <1>2, <1>7 DEF Only
  <2>2. Checks(s) => Checks(t)
    BY <1>3, <1>4 DEF Checks, Begun
  <2>3. Programming(s) => Programming(t)
    BY <1>4, <2>2 DEF Programming
  <2>4. Reading(s, f) => Reading(t, f)
    <3>1. \A c : Begun(s, c) => Begun(t, c)
      BY <1>3 DEF Begun
    <3>2. \A c : Commands(s, c) => Commands(t, c)
      BY <1>3, <1>4, <3>1 DEF Commands
    <3>. QED
      BY <1>3, <1>4, <1>6, <2>1, <2>2, <3>1, <3>2 DEF Reading
  <2>5. Erasing(s, f) => Erasing(t, f)
    BY <1>4, <2>1, <2>2 DEF Erasing
  <2>. QED
    BY <1>4, <1>7, <2>1, <2>3, <2>4, <2>5 DEF At
<1>. QED
  BY <1>1, <1>3, <1>5, <1>6, <1>7 DEF DriverInv

LEMMA GoesTwice == ASSUME NEW s, NEW t, NEW u, Goes(s, t), Goes(t, u) PROVE Goes(s, u)
  BY DEF Goes

LEMMA AsideStays ==
  ASSUME NEW s, DriverInv(s), NEW t, But(s, t, Aside \ {"init"}), t.verify \in {"start", "range", "read"}
  PROVE  Goes(s, t)
<1>1. But(s, t, Aside)
  BY ButMore
<1>2. DriverInv(t) /\ t.state = s.state
  BY <1>1, AsideGoes
<1>3. t.init = s.init
  BY DEF But, Fields
<1>. QED
  BY <1>2, <1>3 DEF Goes

-----------------------------------------------------------------------------
(* Verifying reads, and compares what it read. *)

LEMMA PieceGoes == ASSUME NEW s, DriverInv(s), NEW t, t = VerifyPiece(s) PROVE Goes(s, t)
<1>1. DOMAIN s = Fields
  BY DEF DriverInv, IsDriver
<1>2. But(s, t, Aside \ {"init"}) /\ t.verify = "read"
  BY <1>1 DEF VerifyPiece, But, Fields, Aside
<1>. QED
  BY <1>2, AsideStays

LEMMA VerifyRunGoes == ASSUME NEW s, DriverInv(s), NEW x, x = VerifyRun(s) PROVE Goes(s, x.s)
<1>1. PICK y, u, w : /\ y = sdf_read_random(s, s.verifyAddress, s.verifySize)
                     /\ u = [y.s EXCEPT !.verify = "start"]
                     /\ w = [[y.s EXCEPT !.verifyData = SubSeq(@, s.verifySize + 1, Len(@)),
                                         !.verifyAddress = @ + s.verifySize] EXCEPT !.verify = "range"]
  OBVIOUS
<1>2. x = y \/ x = [s |-> u, r |-> "err"] \/ x = [s |-> w, r |-> "on_going"]
  BY <1>1 DEF VerifyRun, Return
<1>3. Goes(s, y.s) /\ DriverInv(y.s) /\ DOMAIN y.s = Fields
  BY <1>1, RandomGoes DEF Goes, DriverInv, IsDriver
<1>4. Goes(y.s, u)
  <2>1. But(y.s, u, Aside \ {"init"}) /\ u.verify = "start"
    BY <1>1, <1>3 DEF But, Fields, Aside
  <2>. QED
    BY <1>3, <2>1, AsideStays
<1>5. Goes(y.s, w)
  <2>1. But(y.s, w, Aside \ {"init"}) /\ w.verify = "range"
    BY <1>1, <1>3 DEF But, Fields, Aside
  <2>. QED
    BY <1>3, <2>1, AsideStays
<1>6. Goes(s, u) /\ Goes(s, w)
  BY <1>3, <1>4, <1>5, GoesTwice
<1>. QED
  BY <1>2, <1>3, <1>6

LEMMA VerifyGoes == ASSUME NEW s, DriverInv(s), NEW p, NEW offset, NEW data, NEW x,
                           x = sdf_page_verify(s, p, offset, data)
                    PROVE  Goes(s, x.s)
<1>1. DOMAIN s = Fields /\ s.verify \in {"start", "range", "read"}
  BY DEF DriverInv, IsDriver
<1>2. ASSUME NEW t, Goes(s, t), NEW y, y = VerifyRun(VerifyPiece(t)) PROVE Goes(s, y.s)
  <2>1. PICK u : u = VerifyPiece(t)
    OBVIOUS
  <2>2. Goes(t, u) /\ DriverInv(u)
    BY <1>2, <2>1, PieceGoes DEF Goes
  <2>3. Goes(u, y.s)
    BY <1>2, <2>1, <2>2, VerifyRunGoes
  <2>. QED
    BY <1>2, <2>2, <2>3, GoesTwice
<1>3. CASE s.verify = "start"
  <2>1. CASE x = Return(s, "err") \/ x = Return(s, "cpl")
    BY <2>1, GoesSame DEF Return
  <2>2. PICK t : t = [s EXCEPT !.verifyAddress = p * PAGE_SIZE + offset, !.verifyData = data,
                               !.verifyLeft = Len(data)]
    OBVIOUS
  <2>3. But(s, t, Aside \ {"init"}) /\ t.verify = s.verify
    BY <1>1, <2>2 DEF But, Fields, Aside
  <2>4. Goes(s, t)
    BY <1>1, <2>3, AsideStays
  <2>5. CASE x = VerifyRun(VerifyPiece(t))
    BY <1>2, <2>4, <2>5
  <2>. QED
    BY <1>3, <2>1, <2>2, <2>5 DEF sdf_page_verify
<1>4. CASE s.verify = "range"
  <2>1. CASE x = VerifyRun(VerifyPiece(s))
    BY <1>2, <2>1, GoesSame
  <2>2. PICK t : t = [s EXCEPT !.verify = "start"]
    OBVIOUS
  <2>3. CASE x = Return(t, "cpl")
    <3>1. But(s, t, Aside \ {"init"}) /\ t.verify = "start"
      BY <1>1, <2>2 DEF But, Fields, Aside
    <3>2. Goes(s, t)
      BY <3>1, AsideStays
    <3>. QED
      BY <2>3, <3>2 DEF Return
  <2>. QED
    BY <1>4, <2>1, <2>2, <2>3 DEF sdf_page_verify
<1>5. CASE s.verify = "read"
  <2>1. x = VerifyRun(s)
    BY <1>5 DEF sdf_page_verify
  <2>. QED
    BY <2>1, VerifyRunGoes
<1>. QED
  BY <1>1, <1>3, <1>4, <1>5

-----------------------------------------------------------------------------
(* Writing a page. *)

LEMMA WriteRunGoes ==
  ASSUME NEW s, IsDriver(s), Only(s, "write"), s.state = "busy", s.write = "write_page", Programming(s),
         NEW p, NEW x, x = PageWriteRun(s, p)
  PROVE  Goes(s, x.s)
<1>0. DOMAIN s = Fields /\ "write" \in Operations
  BY DEF IsDriver, Operations
<1>1. PICK unit, data, y, t, u, w :
         /\ unit = p * PROGRAMS + s.programIndex /\ data = SubSeq(s.page, 1, PROGRAM_SIZE)
         /\ y = PageProgram(s, unit, data)
         /\ t = [y.s EXCEPT !.programIndex = @ + 1, !.page = SubSeq(@, PROGRAM_SIZE + 1, Len(@))]
         /\ u = [t EXCEPT !.state = "idle"]
         /\ w = [u EXCEPT !.write = "start"]
  OBVIOUS
<1>2. \/ x = y /\ y.r = "on_going"
      \/ x \in {[s |-> w, r |-> "cpl"], [s |-> t, r |-> "on_going"]} /\ y.r # "on_going"
  <2>1. x = IF y.r = "on_going" THEN y
            ELSE IF t.programIndex >= PROGRAMS THEN [s |-> w, r |-> "cpl"] ELSE [s |-> t, r |-> "on_going"]
    BY <1>1, Zenon DEF PageWriteRun, Return, Release
  <2>. QED
    BY <2>1
<1>i. y = PageProgram(s, unit, data)
  BY <1>1
<1>3. /\ But(s, y.s, Bus \cup Machines \cup {"protected", "addressCounter", "counter", "out"})
      /\ \/ y.r = "on_going" /\ Programming(y.s)
         \/ /\ y.r = "cpl" /\ Clean(y.s) /\ y.s.cs = "high" /\ y.s.protected
            /\ \A m \in Machines : y.s[m] = "start"
  BY <1>0, <1>i, ProgramDoes
<1>4. But(s, y.s, RunFields("write"))
  BY <1>3, ButMore DEF RunFields
<1>5. y.s.write = "write_page" /\ y.s.state = "busy"
  BY <1>0, <1>3 DEF But, Fields, Operations, Machines, Bus
<1>6. But(y.s, t, {"programIndex", "page"})
  BY <1>1, <1>3 DEF But, Fields
<1>7. But(t, u, {"state"}) /\ u.state = "idle"
  BY <1>1, <1>6, OneField DEF But, Fields
<1>8. But(u, w, {"write"}) /\ w.write = "start"
  BY <1>1, <1>7, OneField DEF But, Fields, Operations
<1>9. But(y.s, w, ({"programIndex", "page"} \cup {"state"}) \cup {"write"}) /\ w.state = "idle"
  <2>1. But(y.s, u, {"programIndex", "page"} \cup {"state"})
    BY <1>6, <1>7, ButTwice
  <2>2. w.state = "idle"
    BY <1>7, <1>8 DEF But, Fields
  <2>. QED
    BY <1>8, <2>1, <2>2, ButTwice
<1>a. But(s, t, RunFields("write")) /\ But(s, w, RunFields("write"))
  <2>1. But(s, t, RunFields("write") \cup {"programIndex", "page"})
    BY <1>4, <1>6, ButTwice
  <2>2. But(s, w, RunFields("write") \cup (({"programIndex", "page"} \cup {"state"}) \cup {"write"}))
    BY <1>4, <1>9, ButTwice
  <2>. QED
    BY <2>1, <2>2, ButMore DEF RunFields
<1>b. CASE y.r = "on_going"
  <2>1. At(y.s, "write")
    BY <1>3, <1>5, <1>b DEF At
  <2>. QED
    BY <1>0, <1>2, <1>4, <1>5, <1>b, <2>1, RunGoes
<1>c. CASE y.r = "cpl" /\ x = [s |-> t, r |-> "on_going"]
  <2>1. t.write = "write_page" /\ t.state = "busy"
    BY <1>3, <1>5, <1>6 DEF But, Fields, Operations
  <2>2. \A m \in Machines : t[m] = "start"
    BY <1>3, <1>6, <1>c DEF But, Fields, Machines
  <2>3. Programming(t)
    BY <1>6, <2>2 DEF Programming, But, Fields, Machines
  <2>4. At(t, "write")
    BY <2>1, <2>3 DEF At
  <2>. QED
    BY <1>0, <1>a, <1>c, <2>1, <2>4, RunGoes
<1>d. CASE y.r = "cpl" /\ x = [s |-> w, r |-> "cpl"]
  <2>1. \A m \in Machines : w[m] = "start"
    BY <1>3, <1>9, <1>d DEF But, Fields, Machines
  <2>2. Clean(w) /\ w.cs = "high" /\ w.protected
    BY <1>3, <1>9, <1>d DEF But, Fields, Bus, Clean
  <2>. QED
    BY <1>0, <1>8, <1>9, <1>a, <1>d, <2>1, <2>2, RunGoes
<1>. QED
  BY <1>2, <1>3, <1>b, <1>c, <1>d

LEMMA WriteGoes == ASSUME NEW s, DriverInv(s), NEW p, NEW data, NEW x, x = sdf_page_write(s, p, data)
                   PROVE  Goes(s, x.s)
<1>0. "write" \in Operations /\ IsDriver(s)
  BY DEF Operations, DriverInv
<1>1. CASE s.write # "start"
  <2>1. s["write"] # "start"
    BY <1>1
  <2>2. s.state = "busy" /\ Only(s, "write") /\ At(s, "write")
    BY <1>0, <2>1, Owner
  <2>3. s.write = "write_page" /\ Programming(s)
    BY <2>2 DEF At, ReadOps, EraseOps
  <2>4. x = PageWriteRun(s, p)
    BY <1>1 DEF sdf_page_write
  <2>. QED
    BY <1>0, <2>2, <2>3, <2>4, WriteRunGoes
<1>2. CASE s.write = "start" /\ ~(p < PAGES /\ s.state = "idle") /\ (x = Return(s, "err") \/ x = Return(s, Refusal(s)))
  BY <1>2, GoesSame DEF Return
<1>3. CASE s.write = "start" /\ s.state = "idle"
  <2>1. PICK t, u : /\ t = ClaimedFor(s, "write", "write_page")
                    /\ u = [t EXCEPT !.programIndex = 0, !.page = data]
    OBVIOUS
  <2>2. Quiet(s)
    BY <1>3, IdleIsQuiet
  <2>3. /\ IsDriver(t) /\ t.state = "busy" /\ t["write"] = "write_page" /\ Only(t, "write") /\ t.init = s.init
        /\ t.cs = "high" /\ t.protected /\ \A m \in Machines : t[m] = "start"
    BY <1>0, <2>1, <2>2, Claimed
  <2>4. But(t, u, {"programIndex", "page"})
    BY <2>1, <2>3 DEF But, Fields, IsDriver
  <2>5. IsDriver(u) /\ u.init = t.init /\ u.state = "busy" /\ u.write = "write_page"
    BY <2>3, <2>4 DEF But, IsDriver, Fields, Operations
  <2>6. Only(u, "write")
    BY <2>3, <2>4 DEF But, Only, Fields, Operations
  <2>7. Programming(u)
    <3>1. \A m \in Machines : u[m] = "start"
      BY <2>3, <2>4 DEF But, Fields, Machines
    <3>. QED
      BY <2>4, <3>1 DEF Programming, Machines, But, Fields
  <2>8. CASE x = PageWriteRun(u, p)
    <3>1. Goes(u, x.s)
      BY <2>5, <2>6, <2>7, <2>8, WriteRunGoes
    <3>. QED
      BY <1>3, <2>3, <2>5, <3>1 DEF Goes
  <2>9. CASE x = Return(s, "err")
    BY <2>9, GoesSame DEF Return
  <2>a. u = [Claim(s) EXCEPT !.write = "write_page", !.programIndex = 0, !.page = data]
    BY <2>1 DEF ClaimedFor
  <2>. QED
    BY <1>3, <2>8, <2>9, <2>a DEF sdf_page_write
<1>. QED
  BY <1>1, <1>2, <1>3 DEF sdf_page_write

-----------------------------------------------------------------------------
(* Erasing: what the states of the two machines do, whatever the command is. *)

LEMMA EraseBegins ==
  ASSUME NEW s, DriverInv(s), s.state = "idle", NEW f \in EraseOps, NEW t, t = ClaimedFor(s, f, "enable"),
         NEW u, u = [CLR_CS([EnableWrite(t).s EXCEPT !.protected = FALSE]) EXCEPT ![f] = "command"]
  PROVE  Goes(s, u)
<1>0. f \in Operations /\ f \in Fields /\ f \notin Bus /\ f \notin Machines /\ f # "protected" /\ f # "state" /\ f # "init"
      /\ f # "verify" /\ f # "write"
  BY DEF EraseOps, Operations, Fields, Bus, Machines
<1>1. Quiet(s) /\ IsDriver(s)
  BY IdleIsQuiet DEF DriverInv
<1>2. /\ IsDriver(t) /\ t.state = "busy" /\ t[f] = "enable" /\ Only(t, f) /\ t.init = s.init
      /\ t.cs = "high" /\ t.protected /\ \A m \in Machines : t[m] = "start"
  BY <1>0, <1>1, Claimed
<1>3. PICK v, w, y : v = EnableWrite(t).s /\ w = [v EXCEPT !.protected = FALSE] /\ y = CLR_CS(w)
  OBVIOUS
<1>4. But(t, v, Bus)
  BY <1>2, <1>3, EnableDoes DEF IsDriver
<1>5. But(v, w, {"protected"})
  BY <1>3, <1>4, OneField DEF But, Fields
<1>6. But(w, y, {"cs", "rx"})
  BY <1>3, <1>5, SelectIs DEF But
<1>7. But(y, u, {f}) /\ u[f] = "command"
  BY <1>0, <1>3, <1>6, OneField DEF But
<1>8. But(t, u, ((Bus \cup {"protected"}) \cup {"cs", "rx"}) \cup {f})
  BY <1>4, <1>5, <1>6, <1>7, ButTwice
<1>9. But(t, u, RunFields(f))
  BY <1>8, ButMore DEF RunFields, Bus
<1>m. ASSUME NEW m \in Machines PROVE u[m] = "start"
  <2>1. m \in Fields /\ m # f /\ m \notin Bus \cup {"protected", "cs", "rx"}
    BY <1>0 DEF Fields, Machines, Bus
  <2>2. u[m] = t[m]
    BY <1>8, <2>1 DEF But
  <2>. QED
    BY <1>2, <2>2
<1>n. u.state = "busy"
  BY <1>0, <1>2, <1>8 DEF But, Fields, Bus
<1>a. u.state = "busy" /\ u.prog = "start" /\ u.stream = "start" /\ u.check = "start" /\ u.wca = "start"
  BY <1>m, <1>n DEF Machines
<1>b. At(u, f)
  BY <1>7, <1>a DEF At, Erasing
<1>c. Goes(t, u)
  BY <1>0, <1>2, <1>9, <1>a, <1>b, RunGoes
<1>. QED
  BY <1>2, <1>c DEF Goes

\* y is what the command returned.
LEMMA EraseCommands ==
  ASSUME NEW s, DriverInv(s), NEW f \in EraseOps, s[f] = "command",
         NEW y, But(s, y.s, {"rx", "wca", "addressCounter"}), y.r = "cpl" \/ f = "chip" => y.s.wca = "start",
         NEW u, u = [SET_CS(y.s) EXCEPT !.protected = TRUE, ![f] = "ready"]
  PROVE  Goes(s, y.s) /\ (y.r = "cpl" => Goes(s, u))
<1>0. f \in Operations /\ f \in Fields /\ f \notin Bus /\ f \notin Machines /\ f # "protected" /\ f # "state" /\ f # "init"
      /\ f # "addressCounter" /\ f # "write" /\ f \notin ReadOps
  BY DEF EraseOps, ReadOps, Operations, Fields, Bus, Machines
<1>1. s.state = "busy" /\ Only(s, f) /\ At(s, f) /\ IsDriver(s)
  BY <1>0, Owner DEF DriverInv
<1>2. s.prog = "start" /\ s.stream = "start" /\ s.check = "start"
  BY <1>0, <1>1 DEF At, Erasing
<1>3. /\ y.s.prog = "start" /\ y.s.stream = "start" /\ y.s.check = "start" /\ y.s.state = "busy" /\ y.s[f] = "command"
      /\ DOMAIN y.s = Fields
  BY <1>0, <1>1, <1>2 DEF But, Fields, Operations, Machines, Bus
<1>4. Goes(s, y.s)
  <2>1. But(s, y.s, RunFields(f))
    BY ButMore DEF RunFields, Bus, Machines
  <2>2. At(y.s, f)
    BY <1>3 DEF At, Erasing
  <2>. QED
    BY <1>0, <1>1, <1>3, <2>1, <2>2, RunGoes
<1>5. ASSUME y.r = "cpl" PROVE Goes(s, u)
  <2>1. PICK v : v = SET_CS(y.s)
    OBVIOUS
  <2>2. But(y.s, v, Bus)
    BY <1>3, <2>1, DeselectIs
  <2>3. But(v, u, {"protected", f})
    BY <1>0, <2>1, <2>2 DEF But
  <2>4. u[f] = "ready" /\ u["protected"] = TRUE
    BY <1>0, <2>1, <2>2 DEF But, Fields
  <2>5. But(y.s, u, Bus \cup {"protected", f})
    BY <2>2, <2>3, ButTwice
  <2>6. But(s, u, {"rx", "wca", "addressCounter"} \cup (Bus \cup {"protected", f}))
    BY <2>5, ButTwice
  <2>7. But(s, u, RunFields(f))
    BY <2>6, ButMore DEF RunFields, Bus, Machines
  <2>8. /\ u.prog = "start" /\ u.stream = "start" /\ u.check = "start" /\ u.wca = "start" /\ u.state = "busy"
    BY <1>0, <1>3, <1>5, <2>5 DEF But, Fields, Operations, Machines, Bus
  <2>9. u.protected
    BY <2>4
  <2>a. At(u, f)
    BY <2>4, <2>8, <2>9 DEF At, Erasing, Checks
  <2>. QED
    BY <1>0, <1>1, <2>7, <2>8, <2>a, RunGoes
<1>. QED
  BY <1>4, <1>5

LEMMA EraseWaits ==
  ASSUME NEW s, DriverInv(s), NEW f \in EraseOps, s[f] = "ready", NEW y, y = CheckDevice(s),
         NEW u, u = [Release(y.s) EXCEPT ![f] = "start"]
  PROVE  IF y.r = "cpl" THEN Goes(s, u) ELSE Goes(s, y.s)
<1>0. f \in Operations /\ f \in Fields /\ f \notin Bus /\ f \notin Machines /\ f # "protected" /\ f # "state" /\ f # "init"
      /\ f # "addressCounter" /\ f # "write" /\ f \notin ReadOps
  BY DEF EraseOps, ReadOps, Operations, Fields, Bus, Machines
<1>1. s.state = "busy" /\ Only(s, f) /\ At(s, f) /\ IsDriver(s)
  BY <1>0, Owner DEF DriverInv
<1>2. s.prog = "start" /\ s.stream = "start" /\ Checks(s)
  BY <1>0, <1>1 DEF At, Erasing
<1>3. /\ But(s, y.s, Bus \cup {"check"})
      /\ \/ y.r = "on_going" /\ Checks(y.s)
         \/ y.r = "cpl" /\ y.s.check = "start" /\ Clean(y.s) /\ y.s.cs = "high"
  BY <1>1, <1>2, CheckDeviceDoes DEF IsDriver
<1>4. /\ y.s.prog = "start" /\ y.s.stream = "start" /\ y.s.wca = "start" /\ y.s.state = "busy" /\ y.s[f] = "ready"
      /\ y.s.protected
  BY <1>0, <1>1, <1>2, <1>3 DEF But, Fields, Operations, Machines, Bus, Checks
<1>5. But(s, y.s, RunFields(f))
  BY <1>3, ButMore DEF RunFields, Machines
<1>6. CASE y.r = "on_going"
  <2>1. At(y.s, f)
    BY <1>3, <1>4, <1>6 DEF At, Erasing
  <2>. QED
    BY <1>0, <1>1, <1>4, <1>5, <1>6, <2>1, RunGoes
<1>7. CASE y.r = "cpl"
  <2>1. PICK v : v = [y.s EXCEPT !.state = "idle"]
    OBVIOUS
  <2>2. But(y.s, v, {"state"}) /\ v.state = "idle"
    BY <1>3, <2>1, OneField DEF But, Fields
  <2>3. But(v, u, {f}) /\ u[f] = "start"
    BY <1>0, <2>1, <2>2, OneField DEF But, Release
  <2>4. But(y.s, u, {"state"} \cup {f})
    BY <2>2, <2>3, ButTwice
  <2>5. But(s, u, RunFields(f))
    <3>1. But(s, u, RunFields(f) \cup ({"state"} \cup {f}))
      BY <1>5, <2>4, ButTwice
    <3>. QED
      BY <3>1, ButMore DEF RunFields
  <2>6. u.state = "idle"
    BY <1>0, <2>2, <2>3 DEF But, Fields
  <2>7. \A m \in Machines : u[m] = "start"
    BY <1>0, <1>3, <1>4, <1>7, <2>4 DEF But, Fields, Machines
  <2>8. Clean(u) /\ u.cs = "high" /\ u.protected
    BY <1>0, <1>3, <1>4, <1>7, <2>4 DEF But, Fields, Bus, Clean
  <2>. QED
    BY <1>0, <1>1, <1>7, <2>3, <2>5, <2>6, <2>7, <2>8, RunGoes
<1>. QED
  BY <1>3, <1>6, <1>7

\* Where a machine of an erase may be.
LEMMA EraseAt == ASSUME NEW s, DriverInv(s), NEW f \in EraseOps
                 PROVE  /\ s[f] \in {"start", "command", "ready"}
                        /\ f = "chip" /\ s[f] = "command" => s.wca = "start"
<1>1. f \in Operations /\ f # "write" /\ f \notin ReadOps
  BY DEF EraseOps, Operations, ReadOps
<1>2. CASE s[f] # "start"
  BY <1>1, <1>2, Owner DEF At, Erasing
<1>. QED
  BY <1>2

LEMMA PageEraseGoes == ASSUME NEW s, DriverInv(s), NEW p, NEW x, x = sdf_page_erase(s, p) PROVE Goes(s, x.s)
<1>0. "erase" \in EraseOps /\ DOMAIN s = Fields /\ s["erase"] = s.erase /\ s.erase \in {"start", "command", "ready"}
  <2>1. "erase" \in EraseOps
    BY DEF EraseOps
  <2>2. s["erase"] \in {"start", "command", "ready"}
    BY <2>1, EraseAt
  <2>. QED
    BY <2>1, <2>2 DEF DriverInv, IsDriver
<1>1. PICK t, y, u, v, w, z :
         /\ t = ClaimedFor(s, "erase", "enable")
         /\ y = CommandAndAddress(s, "sector_erase", p * PAGE_SIZE)
         /\ u = [CLR_CS([EnableWrite(t).s EXCEPT !.protected = FALSE]) EXCEPT !.erase = "command"]
         /\ v = [SET_CS(y.s) EXCEPT !.protected = TRUE, !.erase = "ready"]
         /\ z = CheckDevice(s)
         /\ w = [Release(z.s) EXCEPT !.erase = "start"]
  OBVIOUS
<1>2. CASE s.erase = "start"
  <2>1. CASE x = Return(s, "err") \/ x = Return(s, Refusal(s))
    BY <2>1, GoesSame DEF Return
  <2>2. CASE s.state = "idle" /\ x = EraseRun(t, "erase", LAMBDA r : CommandAndAddress(r, "sector_erase", p * PAGE_SIZE))
    <3>1. t["erase"] = "enable"
      BY <1>0, <1>1 DEF ClaimedFor, Claim, Fields, Operations
    <3>2. x = [s |-> u, r |-> "on_going"]
      BY <1>1, <2>2, <3>1 DEF EraseRun, Return
    <3>3. Goes(s, u)
      BY <1>0, <1>1, <2>2, EraseBegins
    <3>. QED
      BY <3>2, <3>3
  <2>. QED
    BY <1>0, <1>1, <1>2, <2>1, <2>2 DEF sdf_page_erase, EraseCall, ClaimedFor
<1>3. CASE s.erase = "command"
  <2>1. x = [s |-> IF y.r = "cpl" THEN v ELSE y.s, r |-> "on_going"]
    BY <1>0, <1>1, <1>3 DEF sdf_page_erase, EraseCall, EraseRun, Return
  <2>2. But(s, y.s, {"rx", "wca", "addressCounter"}) /\ (y.r = "cpl" => y.s.wca = "start")
    BY <1>0, <1>1, CommandDoes
  <2>3. Goes(s, y.s) /\ (y.r = "cpl" => Goes(s, v))
    BY <1>0, <1>1, <1>3, <2>2, EraseCommands
  <2>. QED
    BY <2>1, <2>3
<1>4. CASE s.erase = "ready"
  <2>1. x = IF z.r = "cpl" THEN [s |-> w, r |-> "cpl"] ELSE z
    BY <1>0, <1>1, <1>4 DEF sdf_page_erase, EraseCall, EraseRun, Return
  <2>2. IF z.r = "cpl" THEN Goes(s, w) ELSE Goes(s, z.s)
    BY <1>0, <1>1, <1>4, EraseWaits
  <2>. QED
    BY <2>1, <2>2
<1>. QED
  BY <1>0, <1>2, <1>3, <1>4

LEMMA ChipEraseGoes == ASSUME NEW s, DriverInv(s), NEW x, x = sdf_chip_erase(s) PROVE Goes(s, x.s)
<1>0. /\ "chip" \in EraseOps /\ DOMAIN s = Fields /\ s["chip"] = s.chip /\ s.chip \in {"start", "command", "ready"}
      /\ s.chip = "command" => s.wca = "start"
  <2>1. "chip" \in EraseOps
    BY DEF EraseOps
  <2>2. /\ s["chip"] \in {"start", "command", "ready"}
        /\ s["chip"] = "command" => s.wca = "start"
    BY <2>1, EraseAt
  <2>. QED
    BY <2>1, <2>2 DEF DriverInv, IsDriver
<1>e. PICK e, y : e = EXCHANGE(s, "chip_erase") /\ y = [s |-> e, r |-> "cpl"]
  OBVIOUS
<1>1. PICK t, u, v, w, z :
         /\ t = ClaimedFor(s, "chip", "enable")
         /\ u = [CLR_CS([EnableWrite(t).s EXCEPT !.protected = FALSE]) EXCEPT !.chip = "command"]
         /\ v = [SET_CS(y.s) EXCEPT !.protected = TRUE, !.chip = "ready"]
         /\ z = CheckDevice(s)
         /\ w = [Release(z.s) EXCEPT !.chip = "start"]
  OBVIOUS
<1>2. CASE s.chip = "start"
  <2>1. CASE x = Return(s, Refusal(s))
    BY <2>1, GoesSame DEF Return
  <2>2. CASE s.state = "idle" /\ x = EraseRun(t, "chip", LAMBDA r : Return(EXCHANGE(r, "chip_erase"), "cpl"))
    <3>1. t["chip"] = "enable"
      BY <1>0, <1>1 DEF ClaimedFor, Claim, Fields, Operations
    <3>2. x = [s |-> u, r |-> "on_going"]
      BY <1>1, <2>2, <3>1 DEF EraseRun, Return
    <3>3. Goes(s, u)
      BY <1>0, <1>1, <2>2, EraseBegins
    <3>. QED
      BY <3>2, <3>3
  <2>. QED
    BY <1>0, <1>1, <1>2, <2>1, <2>2 DEF sdf_chip_erase, EraseCall, ClaimedFor
<1>3. CASE s.chip = "command"
  <2>1. x = [s |-> v, r |-> "on_going"]
    BY <1>0, <1>e, <1>1, <1>3 DEF sdf_chip_erase, EraseCall, EraseRun, Return
  <2>2. But(s, e, {"rx"})
    BY <1>0, <1>e, ExchangeIs
  <2>3. But(s, y.s, {"rx", "wca", "addressCounter"}) /\ y.s.wca = "start" /\ y.r = "cpl"
    <3>1. e.wca = "start"
      BY <1>0, <1>3, <2>2 DEF But, Fields, Machines
    <3>. QED
      BY <1>e, <2>2, <3>1, ButMore
  <2>4. Goes(s, v)
    BY <1>0, <1>1, <1>3, <2>3, EraseCommands
  <2>. QED
    BY <2>1, <2>4
<1>4. CASE s.chip = "ready"
  <2>1. x = IF z.r = "cpl" THEN [s |-> w, r |-> "cpl"] ELSE z
    BY <1>0, <1>1, <1>4 DEF sdf_chip_erase, EraseCall, EraseRun, Return
  <2>2. IF z.r = "cpl" THEN Goes(s, w) ELSE Goes(s, z.s)
    BY <1>0, <1>1, <1>4, EraseWaits
  <2>. QED
    BY <2>1, <2>2
<1>. QED
  BY <1>0, <1>2, <1>3, <1>4

-----------------------------------------------------------------------------
(* The life cycle, and the chip by itself. *)

LEMMA FinishGoes == ASSUME NEW s, DriverInv(s), s.state = "idle", NEW close, NEW x, x = sdf_finish(s, close)
                    PROVE  DriverInv(x.s)
<1>1. CASE x.s = s
  BY <1>1
<1>2. CASE x.s = [s EXCEPT !.state = "not_ready"]
  <2>1. DOMAIN s = Fields /\ IsDriver(s) /\ Quiet(s)
    BY IdleIsQuiet DEF DriverInv, IsDriver
  <2>t. PICK t : t = x.s
    OBVIOUS
  <2>2. But(s, t, {"state"}) /\ t.state = "not_ready"
    BY <1>2, <2>1, <2>t DEF But, Fields
  <2>3. Quiet(t) /\ IsDriver(t)
    BY <2>1, <2>2 DEF But, Quiet, IsDriver, Fields, Operations, Machines, Bus
  <2>. QED
    BY <2>t, <2>2, <2>3 DEF DriverInv
<1>. QED
  BY <1>1, <1>2 DEF sdf_finish, Return

LEMMA DeviceClaims ==
  ASSUME NEW s, IsDriver(s), Quiet(s), s.state = "idle", NEW x, x = fsm_sdf_read_device_ID(s)
  PROVE  DriverInv(x.s) /\ x.s.init = s.init /\ x.r = "on_going"
<1>1. "did" \in ReadOps /\ "device_id" \in ReadCommands
  BY DEF ReadOps, ReadCommands
<1>. QED
  BY <1>1, ReadClaims DEF fsm_sdf_read_device_ID

\* A driver that is not ready is opened and reads the identifier at once.
LEMMA OpenedGoes ==
  ASSUME NEW s, DriverInv(s), s.state = "not_ready",
         NEW t, t = [s EXCEPT !.protected = TRUE, !.state = "idle", !.irq = TRUE, !.init = "read"],
         NEW x, x = fsm_sdf_read_device_ID(t)
  PROVE  DriverInv(x.s) /\ x.s.init = "read" /\ x.r = "on_going"
<1>1. IsDriver(s) /\ Quiet(s) /\ DOMAIN s = Fields
  BY DEF DriverInv, IsDriver
<1>2. But(s, t, {"protected", "state", "irq", "init"}) /\ t.protected /\ t.state = "idle" /\ t.init = "read"
  BY <1>1 DEF But, Fields
<1>3. IsDriver(t)
  BY <1>1, <1>2 DEF IsDriver, But, Fields
<1>4. Quiet(t)
  BY <1>1, <1>2 DEF Quiet, But, Fields, Operations, Machines, Bus
<1>. QED
  BY <1>2, <1>3, <1>4, DeviceClaims

LEMMA InitGoes ==
  ASSUME NEW s, DriverInv(s), s.init = "read" \/ s.state = "not_ready", NEW spi,
         NEW open \in {"cpl", "on_going", "err"}, NEW hwID, NEW x, x = sdf_init(s, spi, open, hwID)
  PROVE  DriverInv(x.s) /\ (x.r \in {"on_going", "busy"} => x.s.init = "read" \/ x.s.state = "not_ready")
<1>0. DOMAIN s = Fields /\ s.verify \in {"start", "range", "read"}
  BY DEF DriverInv, IsDriver
<1>1. PICK t : t = [s EXCEPT !.protected = TRUE, !.state = "idle", !.irq = TRUE, !.init = "read"]
  OBVIOUS
<1>2. PICK u, v : u = [s EXCEPT !.init = "start", !.irq = TRUE] /\ v = [s EXCEPT !.init = "open", !.irq = FALSE]
  OBVIOUS
<1>3. PICK y, z : y = fsm_sdf_read_device_ID(t) /\ z = fsm_sdf_read_device_ID(s)
  OBVIOUS
<1>4. CASE s.init = "read"
  <2>w. PICK w : w = [z.s EXCEPT !.init = "start"]
    OBVIOUS
  <2>q. PICK q : q = IF IsErr(z.r) \/ hwID = 0 THEN "err" ELSE "cpl"
    OBVIOUS
  <2>1. x = IF z.r = "on_going" THEN z ELSE [s |-> w, r |-> q]
    BY <1>3, <1>4, <2>w, <2>q DEF sdf_init, Return
  <2>2. Goes(s, z.s) /\ DriverInv(z.s) /\ z.s.init = "read"
    BY <1>3, <1>4, DeviceGoes DEF Goes
  <2>3. DriverInv(w)
    <3>1. z.s.verify \in {"start", "range", "read"} /\ DOMAIN z.s = Fields
      BY <2>2 DEF DriverInv, IsDriver
    <3>2. But(z.s, w, Aside) /\ w.verify = z.s.verify
      BY <2>w, <3>1 DEF But, Fields, Aside
    <3>. QED
      BY <2>2, <3>1, <3>2, AsideGoes
  <2>. QED
    BY <2>q, <2>1, <2>2, <2>3
<1>5. CASE s.init # "read"
  <2>1. DriverInv(u) /\ DriverInv(v) /\ v.state = "not_ready"
    <3>1. But(s, u, Aside) /\ u.verify = s.verify
      BY <1>0, <1>2 DEF But, Fields, Aside
    <3>2. But(s, v, Aside) /\ v.verify = s.verify
      BY <1>0, <1>2 DEF But, Fields, Aside
    <3>. QED
      BY <1>0, <1>5, <3>1, <3>2, AsideGoes
  <2>2. DriverInv(y.s) /\ y.s.init = "read" /\ y.r = "on_going"
    BY <1>1, <1>3, <1>5, OpenedGoes
  <2>3. x \in {[s |-> s, r |-> "err"], [s |-> u, r |-> "err"], [s |-> v, r |-> "on_going"], y}
    <3>1. CASE s.init = "start" /\ ~spi
      BY <3>1 DEF sdf_init, Return
    <3>2. CASE ~(s.init = "start" /\ ~spi) /\ open = "err"
      BY <1>2, <1>5, <3>2 DEF sdf_init, Return
    <3>3. CASE ~(s.init = "start" /\ ~spi) /\ open = "on_going"
      BY <1>2, <1>5, <3>3 DEF sdf_init, Return
    <3>4. CASE ~(s.init = "start" /\ ~spi) /\ open = "cpl"
      BY <1>1, <1>3, <1>5, <2>2, <3>4 DEF sdf_init
    <3>. QED
      BY <3>1, <3>2, <3>3, <3>4
  <2>. QED
    BY <2>1, <2>2, <2>3
<1>. QED
  BY <1>4, <1>5

\* The end of the chip's work may come at any time.
LEMMA ChipGoes == ASSUME NEW s, DriverInv(s), NEW t, t = ChipDone(s) PROVE Goes(s, t)
<1>0. DOMAIN s = Fields
  BY DEF DriverInv, IsDriver
<1>1. But(s, t, {"chipBusy", "wel"}) /\ Clean(t)
  BY <1>0 DEF ChipDone, Clean, But, Fields, Bus
<1>2. IsDriver(t) /\ t.init = s.init /\ t.state = s.state /\ \A g \in Operations \cup Machines : t[g] = s[g]
  BY <1>1 DEF DriverInv, IsDriver, But, Fields, Operations, Machines, Bus
<1>3. t.cs = s.cs /\ t.rx = s.rx /\ t.protected = s.protected
  BY <1>1 DEF But, Fields, Bus
<1>4. t.prog = s.prog /\ t.check = s.check /\ t.wca = s.wca /\ t.stream = s.stream /\ t.write = s.write
  BY <1>0, <1>1 DEF But, Fields, Operations, Machines
<1>5. Quiet(s) => Quiet(t)
  BY <1>2, <1>3 DEF Quiet
<1>6. ASSUME NEW f \in Operations, Only(s, f), At(s, f) PROVE Only(t, f) /\ At(t, f)
  <2>1. Only(t, f) /\ t[f] = s[f]
    BY <1>2, <1>6 DEF Only
  <2>2. Checks(s) => Checks(t)
    BY <1>3, <1>4 DEF Checks, Begun
  <2>3. Programming(s) => Programming(t)
    BY <1>4, <2>2 DEF Programming
  <2>4. Reading(s, f) => Reading(t, f)
    <3>1. \A c : Begun(s, c) => Begun(t, c)
      BY <1>3 DEF Begun
    <3>2. \A c : Commands(s, c) => Commands(t, c)
      BY <1>3, <1>4, <3>1 DEF Commands
    <3>. QED
      BY <1>1, <1>3, <1>4, <2>1, <2>2, <3>1, <3>2 DEF Reading
  <2>5. Erasing(s, f) => Erasing(t, f)
    BY <1>4, <2>1, <2>2 DEF Erasing
  <2>. QED
    BY <1>4, <1>6, <2>1, <2>3, <2>4, <2>5 DEF At
<1>7. DriverInv(t)
  BY <1>1, <1>2, <1>5, <1>6 DEF DriverInv
<1>. QED
  BY <1>2, <1>7 DEF Goes

-----------------------------------------------------------------------------
(* The page service: it moves its own machine and calls the memory. *)

PageFields == {"locked", "modified", "chFSMWrite", "chFSMRead", "buffer", "stream", "null",
               "hwCount", "wAddress", "wPageAddress"}
WriteStates == {"start", "read_front", "erase_leading", "modify_leading", "prog_leading", "pages", "erase_page",
                "prog_page", "read_final", "erase_final", "modify_final", "prog_final"}
ReadStates == {"start", "page", "set_buffer"}

IsPage(p) == DOMAIN p = PageFields /\ p.chFSMWrite \in WriteStates /\ p.chFSMRead \in ReadStates

IsDev(d) == DOMAIN d = {"ptMethod", "s"} /\ d.ptMethod \in {"SRAM", "SDF"}
Sound(d) == IsDev(d) /\ (d.ptMethod = "SDF" => DriverInv(d.s))
Keeps(d, e) == IsDev(e) /\ e.ptMethod = d.ptMethod /\ (d.ptMethod = "SDF" => Goes(d.s, e.s))

LEMMA KeepsSame == ASSUME NEW d, Sound(d) PROVE Keeps(d, d)
  BY GoesSame DEF Keeps, Sound

LEMMA KeepsNew == ASSUME NEW d, Sound(d), NEW s, d.ptMethod = "SDF" => Goes(d.s, s)
                  PROVE  Keeps(d, [d EXCEPT !.s = s])
  BY DEF Keeps, Sound, IsDev

\* What the adapter's method returned.
Served(d, x) == Sound(d) /\ (d.ptMethod = "SDF" => Goes(d.s, x.s))

LEMMA MalWrite == ASSUME NEW d, Sound(d), NEW a, NEW data, NEW x, x = mal_page_write(d, a, data) PROVE Served(d, x)
<1>1. CASE d.ptMethod = "SRAM"
  BY <1>1 DEF Served
<1>2. CASE d.ptMethod = "SDF"
  <2>1. x = sdf_page_write(d.s, a \div PAGE_SIZE, data) /\ DriverInv(d.s)
    BY <1>2 DEF mal_page_write, Sound
  <2>2. Goes(d.s, x.s)
    BY <2>1, WriteGoes
  <2>. QED
    BY <2>2 DEF Served
<1>. QED
  BY <1>1, <1>2 DEF Sound, IsDev

LEMMA MalRead == ASSUME NEW d, Sound(d), NEW a, NEW x, x = mal_page_read(d, a) PROVE Served(d, x)
<1>1. CASE d.ptMethod = "SRAM"
  BY <1>1 DEF Served
<1>2. CASE d.ptMethod = "SDF"
  <2>1. x = sdf_page_read(d.s, a \div PAGE_SIZE, a % PAGE_SIZE, PAGE_SIZE) /\ DriverInv(d.s)
    BY <1>2 DEF mal_page_read, Sound
  <2>2. Goes(d.s, x.s)
    BY <2>1, PageReadGoes
  <2>. QED
    BY <2>2 DEF Served
<1>. QED
  BY <1>1, <1>2 DEF Sound, IsDev

LEMMA MalErase == ASSUME NEW d, Sound(d), NEW a, NEW x, x = mal_page_erase(d, a) PROVE Served(d, x)
<1>1. CASE d.ptMethod = "SRAM"
  BY <1>1 DEF Served
<1>2. CASE d.ptMethod = "SDF"
  <2>1. x = sdf_page_erase(d.s, a \div PAGE_SIZE) /\ DriverInv(d.s)
    BY <1>2 DEF mal_page_erase, Sound
  <2>2. Goes(d.s, x.s)
    BY <2>1, PageEraseGoes
  <2>. QED
    BY <2>2 DEF Served
<1>. QED
  BY <1>1, <1>2 DEF Sound, IsDev

\* A step of the page service leaves a page and a memory.
Fine(d, y) == IsPage(y.p) /\ Keeps(d, y.dev)

LEMMA StayFine == ASSUME NEW d, Sound(d), NEW p, IsPage(p), NEW r, NEW y, y = Stay(p, d, r) PROVE Fine(d, y)
  BY KeepsSame DEF Stay, Fine

LEMMA WaitFine ==
  ASSUME NEW d, NEW x, Served(d, x), NEW p, IsPage(p), NEW waiting, IsPage(waiting), NEW go, IsPage(go),
         NEW y, y = Wait(p, d, x, waiting, go)
  PROVE  Fine(d, y) /\ y = [p |-> y.p, dev |-> y.dev, r |-> y.r]
<1>1. PICK e : e = [d EXCEPT !.s = x.s]
  OBVIOUS
<1>2. Keeps(d, e)
  BY <1>1, KeepsNew DEF Served
<1>3. \/ y = [p |-> p, dev |-> e, r |-> x.r]
      \/ y = [p |-> waiting, dev |-> e, r |-> "on_going"]
      \/ y = [p |-> go, dev |-> e, r |-> "on_going"]
  BY <1>1 DEF Wait, Result
<1>. QED
  BY <1>2, <1>3 DEF Fine

LEMMA AtState == ASSUME NEW p, IsPage(p), NEW state \in WriteStates PROVE IsPage([p EXCEPT !.chFSMWrite = state])
  BY DEF IsPage, PageFields

LEMMA Modifies == ASSUME NEW p, IsPage(p) PROVE IsPage(modify_leading_page(p)) /\ IsPage(modify_final_page(p))
  BY DEF IsPage, PageFields, modify_leading_page, modify_final_page

LEMMA NextPageFine == ASSUME NEW p, IsPage(p) PROVE IsPage(NextPage(p))
  BY DEF IsPage, PageFields, WriteStates, NextPage

LEMMA PagesFine == ASSUME NEW d, Sound(d), NEW p, IsPage(p), NEW y, y = WritePages(p, d) PROVE Fine(d, y)
<1>1. PICK q, t, u, v : /\ q = [p EXCEPT !.wPageAddress = PageOf(p.wAddress)]
                        /\ t = [q EXCEPT !.chFSMWrite = "erase_page"]
                        /\ u = [q EXCEPT !.chFSMWrite = "read_final"]
                        /\ v = [q EXCEPT !.chFSMWrite = "start", !.locked = FALSE]
  OBVIOUS
<1>2. IsPage(t) /\ IsPage(u) /\ IsPage(v)
  BY <1>1 DEF IsPage, PageFields, WriteStates
<1>3. y \in {Stay(t, d, "on_going"), Stay(u, d, "on_going"), Stay(v, d, "cpl")}
  BY <1>1 DEF WritePages
<1>. QED
  BY <1>2, <1>3, StayFine

LEMMA BeforeFine == ASSUME NEW d, Sound(d), NEW p, IsPage(p), NEW next \in WriteStates, NEW y,
                           y = ReadBeforeModify(p, d, next)
                    PROVE  Fine(d, y)
<1>1. PICK x : x = mal_page_read(d, p.wPageAddress)
  OBVIOUS
<1>2. PICK go : go = [p EXCEPT !.buffer = x.s.in, !.modified = FALSE, !.chFSMWrite = next]
  OBVIOUS
<1>3. y = Wait(p, d, x, p, go)
  BY <1>1, <1>2 DEF ReadBeforeModify
<1>4. IsPage(go)
  BY <1>2 DEF IsPage, PageFields
<1>5. Served(d, x)
  BY <1>1, MalRead
<1>. QED
  BY <1>3, <1>4, <1>5, WaitFine

LEMMA WriteStartFine ==
  ASSUME NEW d, Sound(d), NEW p, IsPage(p), NEW a, NEW data, NEW null, NEW size, NEW y,
         y = WriteStart(p, d, a, data, null, size)
  PROVE  Fine(d, y)
<1>1. PICK q : q = [p EXCEPT !.locked = TRUE, !.hwCount = size, !.stream = data, !.null = null, !.wAddress = a]
  OBVIOUS
<1>2. PICK front, pages : /\ front = [q EXCEPT !.wPageAddress = PageOf(a), !.chFSMWrite = "read_front"]
                          /\ pages = [q EXCEPT !.chFSMWrite = "pages"]
  OBVIOUS
<1>3. IsPage(q)
  BY <1>1 DEF IsPage, PageFields
<1>4. IsPage(front) /\ IsPage(pages)
  BY <1>2, <1>3 DEF IsPage, PageFields, WriteStates
<1>5. PICK z : z = ReadBeforeModify(front, d, "erase_leading")
  OBVIOUS
<1>6. Fine(d, z)
  <2>1. "erase_leading" \in WriteStates
    BY DEF WriteStates
  <2>. QED
    BY <1>4, <1>5, <2>1, BeforeFine
<1>7. y = z \/ y = Stay(p, d, "cpl") \/ y = Stay(p, d, "on_going") \/ y = Stay(pages, d, "on_going")
  BY <1>1, <1>2, <1>5 DEF WriteStart
<1>8. Fine(d, Stay(p, d, "cpl")) /\ Fine(d, Stay(p, d, "on_going")) /\ Fine(d, Stay(pages, d, "on_going"))
  BY <1>4, StayFine
<1>. QED
  BY <1>6, <1>7, <1>8

LEMMA WriteFine ==
  ASSUME NEW d, Sound(d), NEW p, IsPage(p), NEW a, NEW data, NEW null, NEW size, NEW y,
         y = write_memory_disregard_page(p, d, a, data, null, size)
  PROVE  Fine(d, y)
<1>0. \A state \in WriteStates : IsPage([p EXCEPT !.chFSMWrite = state])
  BY AtState
<1>1. PICK erase, program, whole : /\ erase = mal_page_erase(d, p.wPageAddress)
                                   /\ program = mal_page_write(d, p.wPageAddress, p.buffer)
                                   /\ whole = mal_page_write(d, p.wPageAddress, SubSeq(p.stream, 1, PAGE_SIZE))
  OBVIOUS
<1>2. Served(d, erase) /\ Served(d, program) /\ Served(d, whole)
  BY <1>1, MalErase, MalWrite
<1>3. CASE p.chFSMWrite = "start"
  <2>1. y = WriteStart(p, d, a, data, null, size)
    BY <1>3 DEF write_memory_disregard_page
  <2>. QED
    BY <2>1, WriteStartFine
<1>4. CASE p.chFSMWrite = "read_front"
  <2>1. y = ReadBeforeModify(p, d, "erase_leading") /\ "erase_leading" \in WriteStates
    BY <1>4 DEF write_memory_disregard_page, WriteStates
  <2>. QED
    BY <2>1, BeforeFine
<1>5. CASE p.chFSMWrite = "erase_leading"
  <2>1. PICK m, go : m = modify_leading_page(p) /\ go = [p EXCEPT !.chFSMWrite = "modify_leading"]
    OBVIOUS
  <2>2. y = Wait(p, d, erase, m, go)
    BY <1>1, <1>5, <2>1 DEF write_memory_disregard_page
  <2>3. IsPage(m) /\ IsPage(go)
    BY <1>0, <2>1, Modifies DEF WriteStates
  <2>. QED
    BY <1>2, <2>2, <2>3, WaitFine
<1>6. CASE p.chFSMWrite = "modify_leading"
  <2>1. PICK m, go : m = modify_leading_page(p) /\ go = [m EXCEPT !.chFSMWrite = "prog_leading"]
    OBVIOUS
  <2>2. y = Stay(go, d, "on_going")
    BY <1>6, <2>1 DEF write_memory_disregard_page
  <2>3. IsPage(go)
    BY <2>1, Modifies DEF IsPage, PageFields, WriteStates
  <2>. QED
    BY <2>2, <2>3, StayFine
<1>7. CASE p.chFSMWrite = "prog_leading"
  <2>1. PICK go : go = [p EXCEPT !.chFSMWrite = "pages"]
    OBVIOUS
  <2>2. PICK x : x = Wait(p, d, program, p, go)
    OBVIOUS
  <2>3. y = IF x.p.chFSMWrite = "pages" THEN WritePages(x.p, x.dev) ELSE x
    BY <1>1, <1>7, <2>1, <2>2 DEF write_memory_disregard_page
  <2>4. IsPage(go)
    BY <1>0, <2>1 DEF WriteStates
  <2>5. Fine(d, x)
    BY <1>2, <2>2, <2>4, WaitFine
  <2>6. IsPage(x.p) /\ Sound(x.dev) /\ Keeps(d, x.dev)
    BY <2>5 DEF Fine, Keeps, Sound, Goes
  <2>7. ASSUME y = WritePages(x.p, x.dev) PROVE Fine(d, y)
    <3>1. Fine(x.dev, y)
      BY <2>6, <2>7, PagesFine
    <3>2. Keeps(d, y.dev)
      <4>1. Keeps(x.dev, y.dev)
        BY <3>1 DEF Fine
      <4>2. ASSUME d.ptMethod = "SDF" PROVE Goes(d.s, y.dev.s)
        <5>1. Goes(d.s, x.dev.s) /\ Goes(x.dev.s, y.dev.s)
          BY <2>6, <4>1, <4>2 DEF Keeps
        <5>. QED
          BY <5>1, GoesTwice
      <4>. QED
        BY <2>6, <4>1, <4>2 DEF Keeps
    <3>. QED
      BY <3>1, <3>2 DEF Fine
  <2>. QED
    BY <2>3, <2>5, <2>7
<1>8. CASE p.chFSMWrite = "pages"
  <2>1. y = WritePages(p, d)
    BY <1>8 DEF write_memory_disregard_page
  <2>. QED
    BY <2>1, PagesFine
<1>9. CASE p.chFSMWrite = "erase_page"
  <2>1. PICK go : go = [p EXCEPT !.chFSMWrite = "prog_page"]
    OBVIOUS
  <2>2. y = Wait(p, d, erase, p, go)
    BY <1>1, <1>9, <2>1 DEF write_memory_disregard_page
  <2>3. IsPage(go)
    BY <1>0, <2>1 DEF WriteStates
  <2>. QED
    BY <1>2, <2>2, <2>3, WaitFine
<1>a. CASE p.chFSMWrite = "prog_page"
  <2>1. PICK go : go = NextPage(p)
    OBVIOUS
  <2>2. IsPage(go)
    BY <2>1, NextPageFine
  <2>3. y = Stay(go, d, "on_going") \/ y = Wait(p, d, whole, p, go)
    BY <1>1, <1>a, <2>1 DEF write_memory_disregard_page
  <2>4. CASE y = Stay(go, d, "on_going")
    BY <2>2, <2>4, StayFine
  <2>5. CASE y = Wait(p, d, whole, p, go)
    BY <1>2, <2>2, <2>5, WaitFine
  <2>. QED
    BY <2>3, <2>4, <2>5
<1>b. CASE p.chFSMWrite = "read_final"
  <2>1. y = ReadBeforeModify(p, d, "erase_final") /\ "erase_final" \in WriteStates
    BY <1>b DEF write_memory_disregard_page, WriteStates
  <2>. QED
    BY <2>1, BeforeFine
<1>c. CASE p.chFSMWrite = "erase_final"
  <2>1. PICK m, go : m = modify_final_page(p) /\ go = [p EXCEPT !.chFSMWrite = "modify_final"]
    OBVIOUS
  <2>2. y = Wait(p, d, erase, m, go)
    BY <1>1, <1>c, <2>1 DEF write_memory_disregard_page
  <2>3. IsPage(m) /\ IsPage(go)
    BY <1>0, <2>1, Modifies DEF WriteStates
  <2>. QED
    BY <1>2, <2>2, <2>3, WaitFine
<1>d. CASE p.chFSMWrite = "modify_final"
  <2>1. PICK m, go : m = modify_final_page(p) /\ go = [m EXCEPT !.chFSMWrite = "prog_final"]
    OBVIOUS
  <2>2. y = Stay(go, d, "on_going")
    BY <1>d, <2>1 DEF write_memory_disregard_page
  <2>3. IsPage(go)
    BY <2>1, Modifies DEF IsPage, PageFields, WriteStates
  <2>. QED
    BY <2>2, <2>3, StayFine
<1>e. CASE p.chFSMWrite = "prog_final"
  <2>1. PICK go : go = [[p EXCEPT !.chFSMWrite = "start"] EXCEPT !.locked = FALSE]
    OBVIOUS
  <2>2. PICK x : x = Wait(p, d, program, p, go)
    OBVIOUS
  <2>3. y = IF x.p.chFSMWrite = "start" THEN [x EXCEPT !.r = "cpl"] ELSE x
    BY <1>1, <1>e, <2>1, <2>2 DEF write_memory_disregard_page
  <2>4. IsPage(go)
    BY <2>1 DEF IsPage, PageFields, WriteStates
  <2>5. Fine(d, x) /\ x = [p |-> x.p, dev |-> x.dev, r |-> x.r]
    BY <1>2, <2>2, <2>4, WaitFine
  <2>6. y.p = x.p /\ y.dev = x.dev
    BY <2>3, <2>5
  <2>. QED
    BY <2>5, <2>6 DEF Fine
<1>. QED
  BY <1>3, <1>4, <1>5, <1>6, <1>7, <1>8, <1>9, <1>a, <1>b, <1>c, <1>d, <1>e DEF IsPage, WriteStates

LEMMA ReadPageFine == ASSUME NEW d, Sound(d), NEW p, IsPage(p), NEW y, y = ReadPage(p, d) PROVE Fine(d, y)
<1>1. PICK x : x = mal_page_read(d, p.wPageAddress)
  OBVIOUS
<1>2. PICK go : go = [p EXCEPT !.buffer = x.s.in, !.chFSMRead = "set_buffer"]
  OBVIOUS
<1>3. y = Wait(p, d, x, p, go)
  BY <1>1, <1>2 DEF ReadPage
<1>4. IsPage(go)
  BY <1>2 DEF IsPage, PageFields, ReadStates
<1>5. Served(d, x)
  BY <1>1, MalRead
<1>. QED
  BY <1>3, <1>4, <1>5, WaitFine

LEMMA SetBufferFine == ASSUME NEW d, Sound(d), NEW p, IsPage(p), NEW y, y = SetBuffer(p, d) PROVE Fine(d, y)
<1>. DEFINE offset == p.wAddress % PAGE_SIZE
            n == Least(PAGE_SIZE - offset, p.hwCount)
            q == [p EXCEPT !.stream = @ \o SubSeq(p.buffer, offset + 1, offset + n),
                           !.wAddress = @ + n, !.hwCount = @ - n]
            u == [q EXCEPT !.wPageAddress = PageOf(q.wAddress), !.chFSMRead = "page"]
            v == [q EXCEPT !.chFSMRead = "start", !.locked = FALSE]
<1>1. y = Stay(u, d, "on_going") \/ y = Stay(v, d, "cpl")
  BY DEF SetBuffer
<1>2. IsPage(q)
  BY DEF IsPage, PageFields
<1>3. IsPage(u) /\ IsPage(v)
  <2>. HIDE DEF q
  <2>. QED
    BY <1>2 DEF IsPage, PageFields, ReadStates
<1>. HIDE DEF u, v
<1>4. Fine(d, Stay(u, d, "on_going")) /\ Fine(d, Stay(v, d, "cpl"))
  BY <1>3, StayFine
<1>. QED
  BY <1>1, <1>4

LEMMA ReadFine == ASSUME NEW d, Sound(d), NEW p, IsPage(p), NEW a, NEW size, NEW y,
                         y = read_memory_disregard_page(p, d, a, size)
                  PROVE  Fine(d, y)
<1>1. CASE p.chFSMRead = "start"
  <2>1. PICK q : q = [p EXCEPT !.locked = TRUE, !.hwCount = size, !.stream = <<>>, !.wAddress = a,
                               !.wPageAddress = PageOf(a), !.chFSMRead = "page"]
    OBVIOUS
  <2>2. IsPage(q)
    BY <2>1 DEF IsPage, PageFields, ReadStates
  <2>3. y \in {Stay(p, d, "cpl"), Stay(p, d, "on_going"), ReadPage(q, d)}
    BY <1>1, <2>1 DEF read_memory_disregard_page, ReadStart
  <2>4. Fine(d, Stay(p, d, "cpl")) /\ Fine(d, Stay(p, d, "on_going"))
    BY StayFine
  <2>5. Fine(d, ReadPage(q, d))
    BY <2>2, ReadPageFine
  <2>. QED
    BY <2>3, <2>4, <2>5
<1>2. CASE p.chFSMRead = "page"
  <2>1. y = ReadPage(p, d)
    BY <1>2 DEF read_memory_disregard_page
  <2>. QED
    BY <2>1, ReadPageFine
<1>3. CASE p.chFSMRead = "set_buffer"
  <2>1. y = SetBuffer(p, d)
    BY <1>3 DEF read_memory_disregard_page
  <2>. QED
    BY <2>1, SetBufferFine
<1>. QED
  BY <1>1, <1>2, <1>3 DEF IsPage, ReadStates

-----------------------------------------------------------------------------
(* The whole component. *)

\* The rival calls sdf_init() again only until the driver is open.
Opening == rival.op = "init" /\ dev.s.init # "read" => dev.s.state = "not_ready"

IInv == IsPage(page) /\ Sound(dev) /\ (Sdf => Opening)

LEMMA InitInv == Init => IInv
<1>. SUFFICES ASSUME Init PROVE IInv
  OBVIOUS
<1>1. IsPage(page)
  BY DEF Init, page_init, IsPage, PageFields, WriteStates, ReadStates
<1>2. ~(rival.op = "init")
  BY DEF Init, Idle
<1>3. CASE dev = [ptMethod |-> "SRAM", s |-> Ram!SramInit(content)]
  BY <1>1, <1>2, <1>3 DEF IInv, Sound, IsDev, Opening
<1>4. ASSUME NEW wel \in BOOLEAN, NEW busy \in BOOLEAN,
             dev = [ptMethod |-> "SDF", s |-> FlashInit(content, wel, busy)]
      PROVE  IInv
  <2>1. PICK s : s = FlashInit(content, wel, busy)
    OBVIOUS
  <2>2. DOMAIN s = Fields
    BY <2>1 DEF FlashInit, Fields, Operations, Machines, Bus
  <2>3. IsDriver(s)
    BY <2>1, <2>2 DEF IsDriver, FlashInit
  <2>4. s.state = "not_ready" /\ s.cs = "high" /\ s.protected
    BY <2>1 DEF FlashInit
  <2>5. \A g \in Operations \cup Machines : s[g] = "start"
    BY <2>1 DEF FlashInit, Operations, Machines
  <2>6. DriverInv(s)
    BY <2>3, <2>4, <2>5 DEF DriverInv, Quiet
  <2>7. Sound(dev)
    BY <1>4, <2>1, <2>6 DEF Sound, IsDev
  <2>. QED
    BY <1>1, <1>2, <2>7 DEF IInv, Opening
<1>. QED
  BY <1>3, <1>4 DEF Init

\* A call of the page service.
LEMMA PageCalls ==
  ASSUME IInv, NEW y, Fine(dev, y), page' = y.p, dev' = y.dev, rival' = rival
  PROVE  IInv'
<1>1. IsPage(page')
  BY DEF Fine
<1>2. Sound(dev') /\ dev'.ptMethod = dev.ptMethod
  BY DEF Fine, Keeps, Sound, Goes
<1>3. ASSUME Sdf' PROVE Opening'
  <2>1. Sdf /\ Goes(dev.s, dev'.s)
    BY <1>2, <1>3 DEF Sdf, Fine, Keeps
  <2>2. Opening
    BY <2>1 DEF IInv
  <2>. QED
    BY <2>1, <2>2 DEF Opening, Goes
<1>. QED
  BY <1>1, <1>2, <1>3 DEF IInv

\* A call of the rival's on the flash.
LEMMA RivalCalls ==
  ASSUME IInv, Sdf, NEW op, NEW x, Called(op, x), DriverInv(x.s),
         op = "init" /\ x.r \in {"on_going", "busy"} => x.s.init = "read" \/ x.s.state = "not_ready"
  PROVE  IInv'
<1>1. /\ page' = page /\ dev' = [dev EXCEPT !.s = x.s]
      /\ rival'.op = op => op = Idle \/ x.r \in {"on_going", "busy"}
      /\ rival'.op \in {op, Idle}
  <2>1. PICK again \in {x.r \in {"on_going", "busy"}} :
           /\ page' = page /\ dev' = [dev EXCEPT !.s = x.s]
           /\ rival' = [op |-> IF again THEN op ELSE Idle, inside |-> FALSE,
                        left |-> IF rival.op = Idle THEN rival.left - 1 ELSE rival.left]
    BY Zenon DEF Called
  <2>2. rival'.op = IF again THEN op ELSE Idle
    BY <2>1
  <2>3. again <=> x.r \in {"on_going", "busy"}
    BY Zenon
  <2>. QED
    BY <2>1, <2>2, <2>3
<1>2. IsDev(dev) /\ dev.ptMethod = "SDF" /\ IsPage(page)
  BY DEF IInv, Sound, Sdf
<1>3. IsDev(dev') /\ dev'.s = x.s /\ dev'.ptMethod = "SDF"
  BY <1>1, <1>2 DEF IsDev
<1>4. Sound(dev') /\ IsPage(page')
  BY <1>1, <1>2, <1>3 DEF Sound
<1>5. Opening'
  BY <1>1, <1>3 DEF Opening, Idle
<1>. QED
  BY <1>4, <1>5 DEF IInv

LEMMA RamStays == ASSUME IInv, ~Sdf, page' = page, NEW e, dev' = [dev EXCEPT !.s = e] PROVE IInv'
<1>1. IsDev(dev) /\ dev.ptMethod # "SDF" /\ IsPage(page)
  BY DEF IInv, Sound, Sdf
<1>2. IsDev(dev') /\ dev'.ptMethod # "SDF"
  BY <1>1 DEF IsDev
<1>. QED
  BY <1>1, <1>2 DEF IInv, Sound, Sdf

LEMMA NextInv == IInv /\ [Next]_vars => IInv'
<1>. SUFFICES ASSUME IInv, [Next]_vars PROVE IInv'
  OBVIOUS
<1>0. Sound(dev) /\ IsPage(page)
  BY DEF IInv
<1>1. CASE Write
  <2>1. PICK data, y : /\ y = write_memory_disregard_page(page, dev, writer.a, data, writer.null, writer.size)
                       /\ page' = y.p /\ dev' = y.dev
    BY <1>1 DEF Write
  <2>2. y = write_memory_disregard_page(page, dev, writer.a, data, writer.null, writer.size)
    BY <2>1
  <2>3. Fine(dev, y)
    BY <1>0, <2>2, WriteFine
  <2>. QED
    BY <1>1, <2>1, <2>3, PageCalls DEF Write
<1>2. CASE ReadMemory
  <2>1. PICK y : y = read_memory_disregard_page(page, dev, reader.a, reader.size) /\ page' = y.p /\ dev' = y.dev
    BY <1>2 DEF ReadMemory
  <2>2. Fine(dev, y)
    BY <1>0, <2>1, ReadFine
  <2>. QED
    BY <1>2, <2>1, <2>2, PageCalls DEF ReadMemory
<1>3. CASE RivalFlash
  <2>0. Sdf /\ DriverInv(dev.s)
    BY <1>0, <1>3 DEF RivalFlash, Sound, Sdf
  <2>1. ASSUME Calls("init"), NEW spi \in BOOLEAN, NEW open \in {"cpl", "on_going", "err"},
               NEW hwID \in {0, 1},
               Called("init", sdf_init(dev.s, spi, open, hwID))
        PROVE  IInv'
    <3>1. dev.s.init = "read" \/ dev.s.state = "not_ready"
      <4>1. CASE rival.op = "init"
        BY <2>0, <4>1 DEF IInv, Opening
      <4>2. CASE "init" \in Startable
        BY <4>2 DEF Startable
      <4>. QED
        BY <2>1, <4>1, <4>2 DEF Calls
    <3>2. PICK x : x = sdf_init(dev.s, spi, open, hwID)
      OBVIOUS
    <3>3. DriverInv(x.s) /\ (x.r \in {"on_going", "busy"} => x.s.init = "read" \/ x.s.state = "not_ready")
      BY <2>0, <2>1, <3>1, <3>2, InitGoes
    <3>. QED
      BY <2>0, <2>1, <3>2, <3>3, RivalCalls
  <2>2. ASSUME dev.s.state = "idle", NEW close, Called("finish", sdf_finish(dev.s, close)) PROVE IInv'
    <3>1. PICK x : x = sdf_finish(dev.s, close)
      OBVIOUS
    <3>2. DriverInv(x.s)
      BY <2>0, <2>2, <3>1, FinishGoes
    <3>. QED
      BY <2>0, <2>2, <3>1, <3>2, RivalCalls
  <2>3. ASSUME Called("device_ID", fsm_sdf_read_device_ID(dev.s)) PROVE IInv'
    <3>1. PICK x : x = fsm_sdf_read_device_ID(dev.s)
      OBVIOUS
    <3>2. DriverInv(x.s)
      BY <2>0, <3>1, DeviceGoes DEF Goes
    <3>. QED
      BY <2>0, <2>3, <3>1, <3>2, RivalCalls
  <2>4. ASSUME Called("unique_ID", fsm_sdf_read_unique_ID(dev.s)) PROVE IInv'
    <3>1. PICK x : x = fsm_sdf_read_unique_ID(dev.s)
      OBVIOUS
    <3>2. DriverInv(x.s)
      BY <2>0, <3>1, UniqueGoes DEF Goes
    <3>. QED
      BY <2>0, <2>4, <3>1, <3>2, RivalCalls
  <2>5. ASSUME NEW data, Called("verify", sdf_page_verify(dev.s, 0, 0, data)) PROVE IInv'
    <3>1. PICK x : x = sdf_page_verify(dev.s, 0, 0, data)
      OBVIOUS
    <3>2. DriverInv(x.s)
      BY <2>0, <3>1, VerifyGoes DEF Goes
    <3>. QED
      BY <2>0, <2>5, <3>1, <3>2, RivalCalls
  <2>6. ASSUME Called("erase", sdf_chip_erase(dev.s)) PROVE IInv'
    <3>1. PICK x : x = sdf_chip_erase(dev.s)
      OBVIOUS
    <3>2. DriverInv(x.s)
      BY <2>0, <3>1, ChipEraseGoes DEF Goes
    <3>. QED
      BY <2>0, <2>6, <3>1, <3>2, RivalCalls
  <2>. QED
    BY <1>3, <2>1, <2>2, <2>3, <2>4, <2>5, <2>6 DEF RivalFlash
<1>4. CASE RivalRam
  <2>1. ~Sdf
    BY <1>4 DEF RivalRam
  <2>2. ASSUME NEW op, NEW x, Called(op, x) PROVE IInv'
    BY <2>1, <2>2, RamStays DEF Called
  <2>3. ASSUME NEW op, RivalClaims(op) PROVE IInv'
    BY <2>1, <2>3, RamStays DEF RivalClaims
  <2>4. ASSUME NEW op, NEW x, RivalEnds(op, x) PROVE IInv'
    BY <2>2, <2>4 DEF RivalEnds
  <2>. QED
    BY <1>4, <2>2, <2>3, <2>4 DEF RivalRam
<1>5. CASE Chip
  <2>1. PICK s : s = ChipDone(dev.s)
    OBVIOUS
  <2>2. dev' = [dev EXCEPT !.s = s] /\ page' = page /\ rival' = rival /\ Sdf
    BY <1>5, <2>1 DEF Chip
  <2>3. Goes(dev.s, s)
    BY <1>0, <2>1, <2>2, ChipGoes DEF Sound, Sdf
  <2>4. Keeps(dev, dev')
    BY <1>0, <2>2, <2>3, KeepsNew
  <2>5. PICK y : y = [p |-> page, dev |-> dev', r |-> "cpl"]
    OBVIOUS
  <2>6. Fine(dev, y)
    BY <1>0, <2>4, <2>5 DEF Fine
  <2>. QED
    BY <2>2, <2>5, <2>6, PageCalls
<1>6. CASE UNCHANGED vars
  BY <1>6 DEF vars, IInv, Sdf, Opening
<1>. QED
  BY <1>1, <1>2, <1>3, <1>4, <1>5, <1>6 DEF Next

LEMMA InvAtRest == IInv => DriverAtRest
<1>. SUFFICES ASSUME IInv, Sdf, dev.s.state = "idle" PROVE DriverAtRest
  BY DEF DriverAtRest
<1>1. Quiet(dev.s) /\ Clean(dev.s)
  BY IdleIsQuiet DEF IInv, Sound, Sdf
<1>2. dev.s["prog"] = "start" /\ dev.s["check"] = "start" /\ dev.s["wca"] = "start" /\ dev.s["stream"] = "start"
  BY <1>1 DEF Quiet, Machines
<1>. QED
  BY <1>1, <1>2 DEF DriverAtRest, Quiet, Clean

\* Between two operations no sequence of the flash driver is left open (sdf_w25qxxx.c): whatever the page
\* service and a rival ask of it, in whatever order their calls come and whenever the chip ends its work, a
\* driver that is idle has every machine at its start and a chip that is deselected, protected, at rest and
\* unlatched.
THEOREM AtRest == Spec => []DriverAtRest
<1>1. Init => IInv
  BY InitInv
<1>2. IInv /\ [Next]_vars => IInv'
  BY NextInv
<1>3. IInv => DriverAtRest
  BY InvAtRest
<1>. QED
  BY <1>1, <1>2, <1>3, PTL DEF Spec

-----------------------------------------------------------------------------
(* Sequences of anything. *)

IsSeq(q) == \E S : q \in Seq(S)

LEMMA LenIs == ASSUME NEW q, IsSeq(q) PROVE Len(q) \in Nat /\ (Len(q) = 0 <=> q = <<>>)
<1>1. PICK S : q \in Seq(S)
  BY DEF IsSeq
<1>. QED
  BY <1>1, EmptySeq, LenProperties

LEMMA EmptyIs == IsSeq(<<>>) /\ Len(<<>>) = 0
  BY EmptySeq DEF IsSeq

LEMMA AppendIs == ASSUME NEW q, IsSeq(q), NEW b
                  PROVE  /\ IsSeq(Append(q, b)) /\ Len(Append(q, b)) = Len(q) + 1
                         /\ \A i \in 1 .. Len(q) : Append(q, b)[i] = q[i]
                         /\ Append(q, b)[Len(q) + 1] = b
<1>1. PICK S : q \in Seq(S)
  BY DEF IsSeq
<1>. DEFINE T == S \cup {b}
<1>2. q \in Seq(T) /\ b \in T
  BY <1>1, SeqMonotonic
<1>. HIDE DEF T
<1>. QED
  BY <1>2, AppendProperties DEF IsSeq

LEMMA TailIs == ASSUME NEW q, IsSeq(q), Len(q) > 0
                PROVE  /\ IsSeq(Tail(q)) /\ Len(Tail(q)) = Len(q) - 1 /\ Head(q) = q[1]
                       /\ \A i \in 1 .. Len(q) - 1 : Tail(q)[i] = q[i + 1]
<1>1. PICK S : q \in Seq(S)
  BY DEF IsSeq
<1>2. q # <<>>
  BY EmptyIs
<1>3. Tail(q) \in Seq(S) /\ Len(Tail(q)) = Len(q) - 1 /\ \A i \in 1 .. Len(Tail(q)) : Tail(q)[i] = q[i + 1]
  BY <1>1, <1>2, HeadTailProperties
<1>. QED
  BY <1>1, <1>3 DEF IsSeq

LEMMA PartIs == ASSUME NEW q, IsSeq(q), NEW m \in Nat \ {0}, NEW n \in Nat, n <= Len(q)
                PROVE  /\ IsSeq(SubSeq(q, m, n)) /\ Len(SubSeq(q, m, n)) = IF m <= n THEN n - m + 1 ELSE 0
                       /\ \A i \in 1 .. n - m + 1 : SubSeq(q, m, n)[i] = q[m + i - 1]
<1>1. PICK S : q \in Seq(S)
  BY DEF IsSeq
<1>2. Len(q) \in Nat
  BY <1>1, LenProperties
<1>3. \A i \in m .. n : q[i] \in S
  BY <1>1, <1>2, ElementOfSeq
<1>. QED
  BY <1>3, SubSeqProperties DEF IsSeq

LEMMA JoinIs == ASSUME NEW q, IsSeq(q), NEW r, IsSeq(r)
                PROVE  /\ IsSeq(q \o r) /\ Len(q \o r) = Len(q) + Len(r)
                       /\ \A i \in 1 .. Len(q) : (q \o r)[i] = q[i]
                       /\ \A i \in 1 .. Len(r) : (q \o r)[Len(q) + i] = r[i]
<1>1. PICK S, T : q \in Seq(S) /\ r \in Seq(T)
  BY DEF IsSeq
<1>2. Len(q) \in Nat /\ Len(r) \in Nat
  BY <1>1, LenProperties
<1>. DEFINE U == S \cup T
<1>3. q \in Seq(U) /\ r \in Seq(U)
  BY <1>1, SeqMonotonic
<1>. HIDE DEF U
<1>4. /\ q \o r \in Seq(U) /\ Len(q \o r) = Len(q) + Len(r)
      /\ \A i \in 1 .. Len(q) + Len(r) : (q \o r)[i] = IF i <= Len(q) THEN q[i] ELSE r[i - Len(q)]
  BY <1>3, ConcatProperties
<1>5. \A i \in 1 .. Len(q) : (q \o r)[i] = q[i]
  BY <1>2, <1>4
<1>6. ASSUME NEW i \in 1 .. Len(r) PROVE (q \o r)[Len(q) + i] = r[i]
  <2>1. Len(q) + i \in 1 .. Len(q) + Len(r) /\ ~(Len(q) + i <= Len(q)) /\ Len(q) + i - Len(q) = i
    BY <1>2
  <2>. QED
    BY <1>4, <2>1
<1>. QED
  BY <1>4, <1>5, <1>6 DEF IsSeq

LEMMA SameSeq == ASSUME NEW q, IsSeq(q), NEW r, IsSeq(r), Len(q) = Len(r), \A i \in 1 .. Len(q) : q[i] = r[i]
                 PROVE  q = r
<1>1. PICK S, T : q \in Seq(S) /\ r \in Seq(T)
  BY DEF IsSeq
<1>. DEFINE U == S \cup T
<1>2. q \in Seq(U) /\ r \in Seq(U)
  BY <1>1, SeqMonotonic
<1>. HIDE DEF U
<1>. QED
  BY <1>2, SeqEqual

\* A function of the first n numbers is one.
LEMMA RowIs == ASSUME NEW n \in Nat, NEW q, q = [i \in 1 .. n |-> q[i]] PROVE IsSeq(q) /\ Len(q) = n
<1>. DEFINE S == {q[i] : i \in 1 .. n}
<1>1. \A i \in 1 .. n : q[i] \in S
  OBVIOUS
<1>. HIDE DEF S
<1>2. q \in [1 .. n -> S]
  BY <1>1
<1>3. q \in Seq(S) /\ DOMAIN q = 1 .. n
  BY <1>2, SeqDef
<1>4. Len(q) \in Nat /\ DOMAIN q = 1 .. Len(q)
  BY <1>3, LenProperties
<1>5. Len(q) = n
  BY <1>3, <1>4
<1>. QED
  BY <1>3, <1>5 DEF IsSeq

-----------------------------------------------------------------------------
(* Pages, their cells, and the bytes of an address. *)

LEMMA Quotient == ASSUME NEW a \in Nat, NEW b \in Nat \ {0}
                  PROVE  a \div b \in Nat /\ a % b \in 0 .. b - 1 /\ a = (a \div b) * b + (a % b)
  OBVIOUS

LEMMA QuotientIs == ASSUME NEW b \in Nat \ {0}, NEW q \in Nat, NEW r \in 0 .. b - 1
                    PROVE  (q * b + r) \div b = q /\ (q * b + r) % b = r
<1>. DEFINE a == q * b + r
<1>1. a \in Nat /\ a \div b \in Nat /\ a % b \in 0 .. b - 1 /\ a = (a \div b) * b + (a % b)
  OBVIOUS
<1>. DEFINE d == a \div b
            e == a % b
<1>. HIDE DEF a, d, e
<1>2. a = q * b + r /\ a = d * b + e /\ d \in Nat /\ e \in 0 .. b - 1
  BY <1>1 DEF a, d, e
<1>3. CASE d < q
  <2>1. d * b + b <= q * b
    <3>1. PICK k \in Nat : q = d + 1 + k
      <4>1. q - d - 1 \in Nat /\ q = d + 1 + (q - d - 1)
        BY <1>2, <1>3
      <4>. QED
        BY <4>1
    <3>2. q * b = d * b + b + k * b /\ k * b >= 0
      BY <1>2, <3>1
    <3>. QED
      BY <1>2, <3>2
  <2>. QED
    BY <1>2, <2>1
<1>4. CASE q < d
  <2>1. q * b + b <= d * b
    <3>1. PICK k \in Nat : d = q + 1 + k
      <4>1. d - q - 1 \in Nat /\ d = q + 1 + (d - q - 1)
        BY <1>2, <1>4
      <4>. QED
        BY <4>1
    <3>2. d * b = q * b + b + k * b /\ k * b >= 0
      BY <1>2, <3>1
    <3>. QED
      BY <1>2, <3>2
  <2>. QED
    BY <1>2, <2>1
<1>5. CASE d = q
  BY <1>2, <1>5 DEF a, d, e
<1>. QED
  BY <1>2, <1>3, <1>4, <1>5

\* A number below b has one digit.
LEMMA QuotientBelow == ASSUME NEW a \in Nat, NEW b \in Nat \ {0}, NEW c \in Nat, a < c * b
                       PROVE  a \div b < c
<1>1. a \div b \in Nat /\ a % b \in 0 .. b - 1 /\ a = (a \div b) * b + (a % b)
  BY Quotient
<1>2. PICK d : d = a \div b
  OBVIOUS
<1>3. ASSUME d >= c PROVE FALSE
  <2>1. PICK k \in Nat : d = c + k
    <3>1. d - c \in Nat /\ d = c + (d - c)
      BY <1>1, <1>2, <1>3
    <3>. QED
      BY <3>1
  <2>2. d * b = c * b + k * b /\ k * b >= 0
    BY <2>1
  <2>. QED
    BY <1>1, <1>2, <2>2
<1>. QED
  BY <1>1, <1>2, <1>3

LEMMA Sizes == /\ PAGES \in Nat \ {0} /\ PROGRAMS \in Nat \ {0} /\ PROGRAM_SIZE \in Nat \ {0} /\ RADIX \in Nat \ {0}
               /\ PAGE_SIZE \in Nat \ {0} /\ PAGE_SIZE = PROGRAMS * PROGRAM_SIZE
               /\ FLASH_SIZE \in Nat \ {0} /\ FLASH_SIZE = PAGES * PAGE_SIZE
               /\ FLASH_SIZE <= RADIX * RADIX * RADIX
<1>1. PAGES \in Nat \ {0} /\ PROGRAMS \in Nat \ {0} /\ PROGRAM_SIZE \in Nat \ {0} /\ RADIX \in Nat \ {0}
      /\ PAGES * PROGRAMS * PROGRAM_SIZE <= RADIX * RADIX * RADIX
  BY FlashAssumption
<1>2. ASSUME NEW a \in Nat \ {0}, NEW b \in Nat \ {0} PROVE a * b \in Nat \ {0}
  OBVIOUS
<1>3. PAGE_SIZE \in Nat \ {0} /\ PAGE_SIZE = PROGRAMS * PROGRAM_SIZE
  BY <1>1, <1>2 DEF PAGE_SIZE
<1>4. FLASH_SIZE \in Nat \ {0} /\ FLASH_SIZE = PAGES * PAGE_SIZE
  BY <1>1, <1>2, <1>3 DEF FLASH_SIZE
<1>5. PAGES * (PROGRAMS * PROGRAM_SIZE) = PAGES * PROGRAMS * PROGRAM_SIZE
  BY <1>1
<1>. QED
  BY <1>1, <1>3, <1>4, <1>5

\* The three bytes of an address make the address.
LEMMA AddressIs == ASSUME NEW a \in Nat, a < RADIX * RADIX * RADIX
                   PROVE  AddressByte(a, 2) * RADIX * RADIX + AddressByte(a, 1) * RADIX + AddressByte(a, 0) = a
<1>0. RADIX \in Nat \ {0} /\ RADIX * RADIX \in Nat \ {0}
  <2>1. ASSUME NEW r \in Nat \ {0} PROVE r * r \in Nat \ {0}
    OBVIOUS
  <2>. QED
    BY <2>1, Sizes
<1>1. PICK q, r : q = a \div RADIX /\ r = a % RADIX
  OBVIOUS
<1>2. q \in Nat /\ r \in 0 .. RADIX - 1 /\ a = q * RADIX + r
  BY <1>0, <1>1, Quotient
<1>3. PICK u, v : u = q \div RADIX /\ v = q % RADIX
  OBVIOUS
<1>4. u \in Nat /\ v \in 0 .. RADIX - 1 /\ q = u * RADIX + v
  BY <1>0, <1>2, <1>3, Quotient
<1>5. a \div (RADIX * RADIX) = u
  <2>1. PICK b : b = RADIX * RADIX
    OBVIOUS
  <2>2. PICK e : e = v * RADIX + r
    OBVIOUS
  <2>3. e \in 0 .. b - 1
    <3>1. ASSUME NEW x \in Nat \ {0}, NEW y \in 0 .. x - 1, NEW z \in 0 .. x - 1 PROVE y * x + z \in 0 .. x * x - 1
      <4>1. PICK k \in Nat : x = y + 1 + k
        <5>1. x - y - 1 \in Nat /\ x = y + 1 + (x - y - 1)
          OBVIOUS
        <5>. QED
          BY <5>1
      <4>2. x * x = y * x + x + k * x /\ k * x >= 0 /\ y * x >= 0
        BY <4>1
      <4>. QED
        BY <4>2
    <3>. QED
      BY <1>0, <1>2, <1>4, <2>1, <2>2, <3>1
  <2>4. a = u * b + e
    <3>1. ASSUME NEW x \in Nat, NEW y \in Nat, NEW z \in Nat, NEW w \in Nat
          PROVE  (x * y + z) * y + w = x * (y * y) + (z * y + w)
      OBVIOUS
    <3>. QED
      BY <1>0, <1>2, <1>4, <2>1, <2>2, <3>1
  <2>5. (u * b + e) \div b = u
    BY <1>0, <1>4, <2>1, <2>3, QuotientIs
  <2>. QED
    BY <2>1, <2>4, <2>5
<1>6. u < RADIX
  <2>1. a < RADIX * (RADIX * RADIX)
    <3>1. ASSUME NEW x \in Nat PROVE x * x * x = x * (x * x)
      OBVIOUS
    <3>. QED
      BY <1>0, <3>1
  <2>. QED
    BY <1>0, <1>5, <2>1, QuotientBelow
<1>7. u % RADIX = u
  BY <1>0, <1>4, <1>6
<1>8. AddressByte(a, 2) = u
  <2>1. AddressByte(a, 2) = (a \div (RADIX * RADIX)) % RADIX
    BY DEF AddressByte
  <2>. QED
    BY <1>5, <1>7, <2>1
<1>9. AddressByte(a, 1) = v
  <2>1. AddressByte(a, 1) = (a \div RADIX) % RADIX
    BY DEF AddressByte
  <2>. QED
    BY <1>1, <1>3, <2>1
<1>a. AddressByte(a, 0) = r
  <2>1. AddressByte(a, 0) = (a \div 1) % RADIX
    BY DEF AddressByte
  <2>. QED
    BY <1>1, <2>1
<1>b. ASSUME NEW x \in Nat, NEW y \in Nat, NEW z \in Nat, NEW w \in Nat PROVE (x * y + z) * y + w = x * y * y + z * y + w
  OBVIOUS
<1>. QED
  BY <1>0, <1>2, <1>4, <1>8, <1>9, <1>a, <1>b

\* The cells of a page.
LEMMA PageIs == ASSUME NEW p \in Nat
                PROVE  /\ p * PAGE_SIZE \in Nat /\ (p * PAGE_SIZE) \div PAGE_SIZE = p /\ (p * PAGE_SIZE) % PAGE_SIZE = 0
                       /\ PageCells(p) = p * PAGE_SIZE .. p * PAGE_SIZE + PAGE_SIZE - 1
                       /\ p < PAGES <=> p * PAGE_SIZE + PAGE_SIZE <= FLASH_SIZE
                       /\ p < PAGES => PageCells(p) \subseteq Addresses
<1>0. PAGES \in Nat \ {0} /\ PAGE_SIZE \in Nat \ {0} /\ FLASH_SIZE \in Nat /\ FLASH_SIZE = PAGES * PAGE_SIZE
  BY Sizes
<1>1. ASSUME NEW x \in Nat, NEW y \in Nat PROVE x * y \in Nat /\ x * y + 0 = x * y /\ (x + 1) * y = x * y + y
  OBVIOUS
<1>2. p * PAGE_SIZE \in Nat /\ p * PAGE_SIZE + 0 = p * PAGE_SIZE /\ (p + 1) * PAGE_SIZE = p * PAGE_SIZE + PAGE_SIZE
  BY <1>0, <1>1
<1>3. (p * PAGE_SIZE + 0) \div PAGE_SIZE = p /\ (p * PAGE_SIZE + 0) % PAGE_SIZE = 0
  <2>1. 0 \in 0 .. PAGE_SIZE - 1
    BY <1>0
  <2>. QED
    BY <1>0, <2>1, QuotientIs
<1>4. PageCells(p) = p * PAGE_SIZE .. p * PAGE_SIZE + PAGE_SIZE - 1
  <2>1. PageCells(p) = p * PAGE_SIZE .. (p + 1) * PAGE_SIZE - 1
    BY DEF PageCells
  <2>2. PICK z : z = (p + 1) * PAGE_SIZE
    OBVIOUS
  <2>3. PageCells(p) = p * PAGE_SIZE .. z - 1
    BY <2>1, <2>2
  <2>4. z = p * PAGE_SIZE + PAGE_SIZE
    BY <1>2, <2>2
  <2>5. z - 1 = p * PAGE_SIZE + PAGE_SIZE - 1
    BY <1>0, <1>2, <2>4
  <2>. QED
    BY <2>3, <2>5, Zenon
<1>5. p < PAGES => p * PAGE_SIZE + PAGE_SIZE <= FLASH_SIZE
  <2>. SUFFICES ASSUME p < PAGES PROVE p * PAGE_SIZE + PAGE_SIZE <= FLASH_SIZE
    OBVIOUS
  <2>1. PICK k \in Nat : PAGES = p + 1 + k
    <3>1. PAGES - p - 1 \in Nat /\ PAGES = p + 1 + (PAGES - p - 1)
      BY <1>0
    <3>. QED
      BY <3>1
  <2>2. ASSUME NEW x \in Nat, NEW y \in Nat, NEW z \in Nat PROVE x * z + z <= (x + 1 + y) * z
    <3>1. (x + 1 + y) * z = x * z + z + y * z /\ y * z >= 0
      OBVIOUS
    <3>. QED
      BY <3>1
  <2>. QED
    BY <1>0, <2>1, <2>2
<1>6. p * PAGE_SIZE + PAGE_SIZE <= FLASH_SIZE => p < PAGES
  <2>. SUFFICES ASSUME p >= PAGES PROVE p * PAGE_SIZE + PAGE_SIZE > FLASH_SIZE
    BY <1>0, <1>2
  <2>1. PICK k \in Nat : p = PAGES + k
    <3>1. p - PAGES \in Nat /\ p = PAGES + (p - PAGES)
      BY <1>0
    <3>. QED
      BY <3>1
  <2>2. ASSUME NEW x \in Nat, NEW y \in Nat, NEW z \in Nat \ {0} PROVE (x + y) * z + z > x * z
    <3>1. (x + y) * z = x * z + y * z /\ y * z >= 0
      OBVIOUS
    <3>. QED
      BY <3>1
  <2>. QED
    BY <1>0, <2>1, <2>2
<1>7. p < PAGES => PageCells(p) \subseteq Addresses
  BY <1>0, <1>2, <1>4, <1>5 DEF Addresses
<1>. QED
  BY <1>2, <1>3, <1>4, <1>5, <1>6, <1>7

\* The page of an address.
LEMMA PageOfIs == ASSUME NEW a \in Nat
                  PROVE  /\ a \div PAGE_SIZE \in Nat /\ PageOf(a) = (a \div PAGE_SIZE) * PAGE_SIZE /\ PageOf(a) \in Nat
                         /\ a % PAGE_SIZE \in 0 .. PAGE_SIZE - 1 /\ a = PageOf(a) + (a % PAGE_SIZE)
                         /\ PageOf(a) \div PAGE_SIZE = a \div PAGE_SIZE
<1>1. PAGE_SIZE \in Nat \ {0}
  BY Sizes
<1>2. a \div PAGE_SIZE \in Nat /\ a % PAGE_SIZE \in 0 .. PAGE_SIZE - 1 /\ a = (a \div PAGE_SIZE) * PAGE_SIZE + (a % PAGE_SIZE)
  BY <1>1, Quotient
<1>3. (a \div PAGE_SIZE) * PAGE_SIZE \in Nat /\ ((a \div PAGE_SIZE) * PAGE_SIZE) \div PAGE_SIZE = a \div PAGE_SIZE
  BY <1>2, PageIs
<1>. QED
  BY <1>2, <1>3 DEF PageOf

-----------------------------------------------------------------------------
(* What the driver's operations have done to the cells so far.             *)

\* The chip received the command and n bytes of the address.
Heard(q, cmd, a, n) ==
    /\ IsSeq(q) /\ Len(q) >= n + 1
    /\ q[1] = cmd
    /\ \A i \in 1 .. n : q[i + 1] = AddressByte(a, 3 - i)

Sent(s, cmd, a) ==
    /\ s.cs = "low"
    /\ s.wca = "start" => s.rx = <<>>
    /\ s.wca # "start" => /\ s.addressCounter \in 0 .. 2
                          /\ Heard(s.rx, cmd, a, 2 - s.addressCounter)
                          /\ Len(s.rx) = 3 - s.addressCounter

\* It would carry out a command that changes cells.
Armed(s) == s.cs = "low" /\ s.wel /\ ~s.chipBusy /\ ~s.protected

\* A byte more on the bus.
LEMMA HearsMore ==
  ASSUME NEW s, DOMAIN s = Fields, s.cs = "low", IsSeq(s.rx), s.rx = <<>> \/ s.rx[1] # "read_status",
         NEW b, NEW t, t = EXCHANGE(s, b)
  PROVE  /\ IsSeq(t.rx) /\ Len(t.rx) = Len(s.rx) + 1 /\ t.rx[Len(s.rx) + 1] = b
         /\ \A i \in 1 .. Len(s.rx) : t.rx[i] = s.rx[i]
<1>1. t.rx = Append(s.rx, b)
  BY DEF EXCHANGE, Fields, Bus
<1>. QED
  BY <1>1, AppendIs

LEMMA HeardStays ==
  ASSUME NEW q, NEW r, IsSeq(q), IsSeq(r), Len(r) >= Len(q), \A i \in 1 .. Len(q) : r[i] = q[i],
         NEW cmd, NEW a, NEW n \in Nat, Heard(q, cmd, a, n)
  PROVE  Heard(r, cmd, a, n)
<1>1. Len(q) \in Nat /\ Len(r) \in Nat
  BY LenIs
<1>2. \A i \in 1 .. n + 1 : r[i] = q[i]
  BY <1>1 DEF Heard
<1>3. 1 \in 1 .. n + 1 /\ \A i \in 1 .. n : i + 1 \in 1 .. n + 1
  OBVIOUS
<1>. QED
  BY <1>1, <1>2, <1>3 DEF Heard

\* write_command_and_address() sends the command and then the address.
LEMMA CommandSends ==
  ASSUME NEW s, DOMAIN s = Fields, NEW cmd, cmd # "read_status", NEW a, Sent(s, cmd, a),
         NEW x, x = CommandAndAddress(s, cmd, a)
  PROVE  /\ x.s.cs = "low"
         /\ IF x.r = "cpl" THEN Heard(x.s.rx, cmd, a, 3) /\ Len(x.s.rx) = 4 ELSE Sent(x.s, cmd, a)
<1>1. CASE s.wca = "start"
  <2>1. PICK t, w : t = EXCHANGE(s, cmd) /\ w = [t EXCEPT !.wca = "address", !.addressCounter = 2]
    OBVIOUS
  <2>2. x = [s |-> w, r |-> "on_going"]
    BY <1>1, <2>1 DEF CommandAndAddress, Return
  <2>3. s.rx = <<>> /\ s.cs = "low" /\ IsSeq(s.rx) /\ Len(s.rx) = 0
    BY <1>1, EmptyIs DEF Sent
  <2>4. But(s, t, {"rx"})
    BY <2>1, ExchangeIs
  <2>5. IsSeq(t.rx) /\ Len(t.rx) = 1 /\ t.rx[1] = cmd
    <3>1. t = EXCHANGE(s, cmd)
      BY <2>1
    <3>2. IsSeq(t.rx) /\ Len(t.rx) = Len(s.rx) + 1 /\ t.rx[Len(s.rx) + 1] = cmd
      <4>1. IsSeq(s.rx) /\ (s.rx = <<>> \/ s.rx[1] # "read_status") /\ s.cs = "low"
        BY <2>3
      <4>. QED
        BY <3>1, <4>1, HearsMore
    <3>. QED
      BY <2>3, <3>2
  <2>6. w.wca = "address" /\ w.addressCounter = 2 /\ w.rx = t.rx /\ w.cs = "low"
    BY <2>1, <2>3, <2>4 DEF But, Fields, Operations, Machines, Bus
  <2>7. Sent(w, cmd, a)
    BY <2>5, <2>6 DEF Sent, Heard
  <2>. QED
    BY <2>2, <2>6, <2>7
<1>2. CASE s.wca # "start"
  <2>1. PICK t, v, w : /\ t = EXCHANGE(s, AddressByte(a, s.addressCounter))
                       /\ v = [t EXCEPT !.wca = "start"]
                       /\ w = [t EXCEPT !.addressCounter = @ - 1]
    OBVIOUS
  <2>2. x = IF s.addressCounter = 0 THEN [s |-> v, r |-> "cpl"] ELSE [s |-> w, r |-> "on_going"]
    BY <1>2, <2>1 DEF CommandAndAddress, Return
  <2>3. PICK n : n = s.addressCounter
    OBVIOUS
  <2>4. s.cs = "low" /\ n \in 0 .. 2 /\ Heard(s.rx, cmd, a, 2 - n) /\ Len(s.rx) = 3 - n /\ IsSeq(s.rx)
    BY <1>2, <2>3 DEF Sent, Heard
  <2>5. But(s, t, {"rx"})
    BY <2>1, ExchangeIs
  <2>6. /\ IsSeq(t.rx) /\ Len(t.rx) = Len(s.rx) + 1 /\ t.rx[Len(s.rx) + 1] = AddressByte(a, n)
        /\ \A i \in 1 .. Len(s.rx) : t.rx[i] = s.rx[i]
    <3>1. s.rx[1] # "read_status"
      BY <2>4 DEF Heard
    <3>. QED
      BY <2>1, <2>3, <2>4, <3>1, HearsMore
  <2>7. Heard(t.rx, cmd, a, 3 - n) /\ Len(t.rx) = 4 - n
    <3>1. Heard(t.rx, cmd, a, 2 - n)
      <4>1. 2 - n \in Nat /\ Len(t.rx) >= Len(s.rx)
        BY <2>4, <2>6
      <4>. QED
        BY <2>4, <2>6, <4>1, HeardStays
    <3>2. t.rx[(3 - n) + 1] = AddressByte(a, 3 - (3 - n))
      BY <2>4, <2>6
    <3>. QED
      BY <2>4, <2>6, <3>1, <3>2 DEF Heard
  <2>8. /\ v.rx = t.rx /\ v.cs = "low" /\ w.rx = t.rx /\ w.cs = "low" /\ w.wca # "start" /\ w.addressCounter = n - 1
    BY <1>2, <2>1, <2>3, <2>4, <2>5 DEF But, Fields, Operations, Machines, Bus
  <2>9. CASE n = 0
    BY <2>2, <2>3, <2>7, <2>8, <2>9
  <2>a. CASE n # 0
    <3>1. Sent(w, cmd, a)
      <4>1. n - 1 \in 0 .. 2 /\ 2 - (n - 1) = 3 - n /\ 3 - (n - 1) = 4 - n
        BY <2>4, <2>a
      <4>2. Heard(w.rx, cmd, a, 2 - (n - 1)) /\ Len(w.rx) = 3 - (n - 1)
        BY <2>7, <2>8, <4>1
      <4>. QED
        BY <2>8, <4>1, <4>2 DEF Sent
    <3>. QED
      BY <2>2, <2>3, <2>8, <2>a, <3>1
  <2>. QED
    BY <2>9, <2>a
<1>. QED
  BY <1>1, <1>2

-----------------------------------------------------------------------------
(* What a command does to the cells when the chip is deselected. *)

IsCells(c) == c = [x \in Addresses |-> c[x]]

LEMMA AddressHeard == ASSUME NEW q, NEW cmd, NEW a \in Nat, a < FLASH_SIZE, Heard(q, cmd, a, 3)
                      PROVE  Address(q) = a
<1>1. q[1 + 1] = AddressByte(a, 3 - 1) /\ q[2 + 1] = AddressByte(a, 3 - 2) /\ q[3 + 1] = AddressByte(a, 3 - 3)
  BY DEF Heard
<1>2. q[2] = AddressByte(a, 2) /\ q[3] = AddressByte(a, 1) /\ q[4] = AddressByte(a, 0)
  BY <1>1
<1>3. RADIX * RADIX * RADIX \in Nat
  <2>1. ASSUME NEW r \in Nat PROVE r * r * r \in Nat
    OBVIOUS
  <2>. QED
    BY <2>1, Sizes
<1>4. a < RADIX * RADIX * RADIX
  BY <1>3, Sizes
<1>. QED
  BY <1>2, <1>4, AddressIs, Zenon DEF Address

\* Commands that change cells need the latch and a released protection pin.
LEMMA ProtectedKeeps ==
  ASSUME NEW s, DOMAIN s = Fields,
         \/ s.protected
         \/ s.rx = <<>>
         \/ s.rx[1] \notin {"program", "sector_erase", "chip_erase"}
  PROVE  SET_CS(s).cells = s.cells
<1>1. PICK u : u = Execute(s)
  OBVIOUS
<1>2. u.cells = s.cells /\ DOMAIN u = Fields
  BY <1>1 DEF Execute, Fields, Bus
<1>. QED
  BY <1>1, <1>2 DEF SET_CS, Fields, Bus

LEMMA EnableKeeps ==
  ASSUME NEW s, DOMAIN s = Fields, NEW t, t = EnableWrite(s).s
  PROVE  t.cells = s.cells /\ t.chipBusy = s.chipBusy /\ (~s.chipBusy => t.wel)
<1>1. PICK u, v : u = CLR_CS(s) /\ v = EXCHANGE(u, "enable_write")
  OBVIOUS
<1>2. t = SET_CS(v)
  BY <1>1 DEF EnableWrite, Return
<1>3. But(s, u, {"cs", "rx"}) /\ u.cs = "low" /\ u.rx = <<>>
  BY <1>1, SelectIs
<1>4. DOMAIN u = Fields /\ u.cells = s.cells /\ u.chipBusy = s.chipBusy
  BY <1>3 DEF But, Fields, Bus, Operations, Machines
<1>5. DOMAIN v = Fields /\ v.rx = <<"enable_write">> /\ v.cells = s.cells /\ v.chipBusy = s.chipBusy
  <2>1. v = [u EXCEPT !.rx = Append(@, "enable_write")]
    BY <1>1, <1>3 DEF EXCHANGE
  <2>. QED
    BY <1>3, <1>4, <2>1 DEF Fields, Bus, Operations, Machines
<1>6. v.rx # <<>> /\ v.rx[1] = "enable_write"
  BY <1>5
<1>7. PICK w : w = Execute(v)
  OBVIOUS
<1>8. w = IF s.chipBusy THEN v ELSE [v EXCEPT !.wel = TRUE]
  BY <1>5, <1>6, <1>7 DEF Execute
<1>9. DOMAIN w = Fields /\ w.cells = s.cells /\ w.chipBusy = s.chipBusy /\ (~s.chipBusy => w.wel)
  BY <1>5, <1>8 DEF Fields, Bus, Operations, Machines
<1>. QED
  BY <1>2, <1>7, <1>9 DEF SET_CS, Fields, Bus, Operations, Machines

LEMMA CheckKeeps ==
  ASSUME NEW s, DOMAIN s = Fields, Checks(s), NEW x, x = CheckDevice(s) PROVE x.s.cells = s.cells
<1>0. s.protected
  BY DEF Checks
<1>1. ASSUME NEW t, DOMAIN t = Fields, t.protected, NEW u, u = SET_CS(t)
      PROVE  DOMAIN u = Fields /\ u.cells = t.cells
  BY <1>1, ProtectedKeeps, DeselectIs DEF But
<1>2. CASE s.check = "start"
  <2>1. x.s = [EXCHANGE(CLR_CS(s), "read_status") EXCEPT !.check = "read_status"]
    BY <1>2 DEF CheckDevice, Return
  <2>. QED
    BY <2>1 DEF EXCHANGE, CLR_CS, Fields, Bus, Machines
<1>3. CASE s.check = "read_status"
  <2>1. PICK u : u = SET_CS(s)
    OBVIOUS
  <2>2. DOMAIN u = Fields /\ u.cells = s.cells
    BY <1>0, <1>1, <2>1
  <2>3. x.s = s \/ x.s = [CLR_CS(u) EXCEPT !.check = "disable_write"] \/ x.s = [u EXCEPT !.check = "start"]
    BY <1>3, <2>1 DEF CheckDevice, Return
  <2>4. [u EXCEPT !.check = "start"].cells = u.cells
    BY <2>2 DEF Fields, Bus, Machines
  <2>5. [CLR_CS(u) EXCEPT !.check = "disable_write"].cells = u.cells
    BY <2>2 DEF CLR_CS, Fields, Bus, Machines
  <2>. QED
    BY <2>2, <2>3, <2>4, <2>5
<1>4. CASE s.check = "disable_write"
  <2>1. PICK t, u : t = EXCHANGE(s, "disable_write") /\ u = SET_CS(t)
    OBVIOUS
  <2>2. DOMAIN t = Fields /\ t.protected /\ t.cells = s.cells
    BY <1>0, <2>1 DEF EXCHANGE, Fields, Bus, Machines
  <2>3. DOMAIN u = Fields /\ u.cells = s.cells
    BY <1>1, <2>1, <2>2
  <2>4. x.s = [u EXCEPT !.check = "start"]
    BY <1>4, <2>1 DEF CheckDevice, Return
  <2>. QED
    BY <2>3, <2>4 DEF Fields, Bus, Machines
<1>. QED
  BY <1>2, <1>3, <1>4 DEF Checks

LEMMA EraseEnds ==
  ASSUME NEW s, DOMAIN s = Fields, Armed(s), NEW p \in Nat, p < PAGES,
         Heard(s.rx, "sector_erase", p * PAGE_SIZE, 3), Len(s.rx) = 4
  PROVE  SET_CS(s).cells = Erase(s.cells, PageCells(p))
<1>0. PAGE_SIZE \in Nat \ {0} /\ FLASH_SIZE \in Nat
  BY Sizes
<1>1. p * PAGE_SIZE \in Nat /\ p * PAGE_SIZE < FLASH_SIZE /\ (p * PAGE_SIZE) \div PAGE_SIZE = p
  BY <1>0, PageIs
<1>2. Address(s.rx) = p * PAGE_SIZE
  BY <1>1, AddressHeard
<1>3. s.rx[1] = "sector_erase" /\ s.rx # <<>>
  BY EmptyIs DEF Heard
<1>4. PICK u : u = Execute(s)
  OBVIOUS
<1>5. u = [s EXCEPT !.cells = Erase(@, PageCells(Address(s.rx) \div PAGE_SIZE)), !.chipBusy = TRUE]
  BY <1>3, <1>4 DEF Execute, Armed
<1>6. PageCells(Address(s.rx) \div PAGE_SIZE) = PageCells(p)
  BY <1>1, <1>2
<1>7. DOMAIN u = Fields /\ u.cells = Erase(s.cells, PageCells(p))
  BY <1>5, <1>6 DEF Fields, Bus
<1>. QED
  BY <1>4, <1>7 DEF SET_CS, Fields, Bus

LEMMA ChipEraseEnds ==
  ASSUME NEW s, DOMAIN s = Fields, Armed(s), s.rx = <<"chip_erase">>
  PROVE  SET_CS(s).cells = Erase(s.cells, DOMAIN s.cells)
<1>1. s.rx # <<>> /\ s.rx[1] = "chip_erase" /\ Len(s.rx) = 1
  OBVIOUS
<1>2. PICK u : u = Execute(s)
  OBVIOUS
<1>3. u = [s EXCEPT !.cells = Erase(@, DOMAIN @), !.chipBusy = TRUE]
  BY <1>1, <1>2 DEF Execute, Armed
<1>4. DOMAIN u = Fields /\ u.cells = Erase(s.cells, DOMAIN s.cells)
  BY <1>3 DEF Fields, Bus
<1>. QED
  BY <1>2, <1>4 DEF SET_CS, Fields, Bus

LEMMA ProgramEnds ==
  ASSUME NEW s, DOMAIN s = Fields, Armed(s), NEW a \in Nat, a < FLASH_SIZE,
         Heard(s.rx, "program", a, 3), Len(s.rx) > 4
  PROVE  SET_CS(s).cells = Program(s.cells, a, SubSeq(s.rx, 5, Len(s.rx)))
<1>1. Address(s.rx) = a
  BY AddressHeard
<1>2. s.rx[1] = "program" /\ s.rx # <<>>
  BY EmptyIs DEF Heard
<1>3. PICK u : u = Execute(s)
  OBVIOUS
<1>4. u = [s EXCEPT !.cells = Program(@, Address(s.rx), SubSeq(s.rx, 5, Len(s.rx))), !.chipBusy = TRUE]
  BY <1>2, <1>3 DEF Execute, Armed
<1>5. DOMAIN u = Fields /\ u.cells = Program(s.cells, a, SubSeq(s.rx, 5, Len(s.rx)))
  BY <1>1, <1>4 DEF Fields, Bus
<1>. QED
  BY <1>3, <1>5 DEF SET_CS, Fields, Bus

-----------------------------------------------------------------------------
(* A page that is written unit by unit. *)

\* Units 0 .. m-1 of page p hold what d has for them, all other cells what c has.
Painted(cells, c, p, d, m) ==
    cells = [x \in Addresses |->
                IF x \in p * PAGE_SIZE .. p * PAGE_SIZE + m * PROGRAM_SIZE - 1
                THEN d[x - p * PAGE_SIZE + 1] ELSE c[x]]

\* Page p holds d.
Filled(c, p, d) == [x \in Addresses |-> IF x \in PageCells(p) THEN d[x - p * PAGE_SIZE + 1] ELSE c[x]]

Wiped(c, p) == Erase(c, PageCells(p))
IsWiped(c, p) == \A x \in PageCells(p) : c[x] = ERASED

LEMMA WipedIs == ASSUME NEW c, IsCells(c), NEW p \in Nat, p < PAGES
                 PROVE  IsCells(Wiped(c, p)) /\ IsWiped(Wiped(c, p), p)
<1>1. PageCells(p) \subseteq Addresses
  BY PageIs
<1>2. DOMAIN c = Addresses
  BY Zenon DEF IsCells
<1>3. Wiped(c, p) = [x \in Addresses |-> IF x \in PageCells(p) THEN ERASED ELSE c[x]]
  BY <1>2 DEF Wiped, Erase
<1>. QED
  BY <1>1, <1>3 DEF IsCells, IsWiped

LEMMA PaintedNone == ASSUME NEW c, IsCells(c), NEW p \in Nat, NEW d PROVE Painted(c, c, p, d, 0)
<1>1. p * PAGE_SIZE \in Nat /\ 0 * PROGRAM_SIZE = 0
  BY PageIs, Sizes
<1>2. p * PAGE_SIZE .. p * PAGE_SIZE + 0 * PROGRAM_SIZE - 1 = {}
  BY <1>1
<1>. QED
  BY <1>2 DEF Painted, IsCells

LEMMA PaintedAll == ASSUME NEW e, NEW c, NEW p \in Nat, NEW d, Painted(e, c, p, d, PROGRAMS) PROVE e = Filled(c, p, d)
<1>1. PageCells(p) = p * PAGE_SIZE .. p * PAGE_SIZE + PROGRAMS * PROGRAM_SIZE - 1
  BY PageIs, Sizes, Zenon
<1>. QED
  BY <1>1, Zenon DEF Painted, Filled

\* Unit k of n has its place in the page.
LEMMA UnitIs == ASSUME NEW k \in Nat, k < PROGRAMS
                PROVE  /\ k * PROGRAM_SIZE \in Nat /\ (k + 1) * PROGRAM_SIZE = k * PROGRAM_SIZE + PROGRAM_SIZE
                       /\ k * PROGRAM_SIZE + PROGRAM_SIZE <= PAGE_SIZE
                       /\ k + 1 < PROGRAMS => (k + 1) * PROGRAM_SIZE + PROGRAM_SIZE <= PAGE_SIZE
                       /\ \A p \in Nat : (p * PROGRAMS + k) * PROGRAM_SIZE = p * PAGE_SIZE + k * PROGRAM_SIZE
<1>0. PROGRAMS \in Nat \ {0} /\ PROGRAM_SIZE \in Nat \ {0} /\ PAGE_SIZE = PROGRAMS * PROGRAM_SIZE
  BY Sizes
<1>1. ASSUME NEW x \in Nat, NEW y \in Nat PROVE x * y \in Nat /\ (x + 1) * y = x * y + y
  OBVIOUS
<1>2. ASSUME NEW x \in Nat, NEW y \in Nat, NEW z \in Nat, x < y PROVE x * z + z <= y * z
  <2>1. PICK m \in Nat : y = x + 1 + m
    <3>1. y - x - 1 \in Nat /\ y = x + 1 + (y - x - 1)
      BY <1>2
    <3>. QED
      BY <3>1
  <2>2. y * z = x * z + z + m * z /\ m * z >= 0
    BY <2>1
  <2>. QED
    BY <2>2
<1>3. ASSUME NEW x \in Nat, NEW y \in Nat, NEW z \in Nat, NEW w \in Nat PROVE (x * y + w) * z = x * (y * z) + w * z
  OBVIOUS
<1>4. k * PROGRAM_SIZE \in Nat /\ (k + 1) * PROGRAM_SIZE = k * PROGRAM_SIZE + PROGRAM_SIZE
  BY <1>0, <1>1
<1>5. k * PROGRAM_SIZE + PROGRAM_SIZE <= PAGE_SIZE
  BY <1>0, <1>2
<1>6. k + 1 < PROGRAMS => (k + 1) * PROGRAM_SIZE + PROGRAM_SIZE <= PAGE_SIZE
  BY <1>0, <1>2
<1>7. \A p \in Nat : (p * PROGRAMS + k) * PROGRAM_SIZE = p * PAGE_SIZE + k * PROGRAM_SIZE
  BY <1>0, <1>3
<1>. QED
  BY <1>4, <1>5, <1>6, <1>7

\* Programming unit k paints it.
LEMMA ProgramPaints ==
  ASSUME NEW c, NEW p \in Nat, p < PAGES, IsWiped(c, p), NEW d, NEW k \in Nat, k < PROGRAMS,
         NEW e, Painted(e, c, p, d, k),
         NEW u, IsSeq(u), Len(u) = PROGRAM_SIZE, \A i \in 1 .. PROGRAM_SIZE : u[i] = d[k * PROGRAM_SIZE + i]
  PROVE  Painted(Program(e, p * PAGE_SIZE + k * PROGRAM_SIZE, u), c, p, d, k + 1)
<1>1. PICK b, m, n : b = p * PAGE_SIZE /\ m = k * PROGRAM_SIZE /\ n = PROGRAM_SIZE
  OBVIOUS
<1>2. /\ b \in Nat /\ m \in Nat /\ n \in Nat \ {0} /\ m + n <= PAGE_SIZE /\ PAGE_SIZE \in Nat
      /\ (k + 1) * PROGRAM_SIZE = m + n /\ PageCells(p) = b .. b + PAGE_SIZE - 1
  BY <1>1, PageIs, UnitIs, Sizes
<1>3. e = [x \in Addresses |-> IF x \in b .. b + m - 1 THEN d[x - b + 1] ELSE c[x]]
  BY <1>1 DEF Painted
<1>4. DOMAIN e = Addresses
  BY <1>3
<1>5. PICK f : f = Program(e, b + m, u)
  OBVIOUS
<1>6. f = [x \in Addresses |-> IF x \in b + m .. b + m + n - 1
                               THEN IF e[x] = ERASED THEN u[x - (b + m) + 1] ELSE MIXED
                               ELSE e[x]]
  BY <1>1, <1>4, <1>5 DEF Program
<1>7. ASSUME NEW x \in Addresses PROVE f[x] = IF x \in b .. b + (m + n) - 1 THEN d[x - b + 1] ELSE c[x]
  <2>0. x \in Int
    BY Sizes DEF Addresses
  <2>1. CASE x \in b + m .. b + m + n - 1
    <3>1. e[x] = c[x] /\ x \in PageCells(p) /\ x \in b .. b + (m + n) - 1
      <4>1. x \notin b .. b + m - 1 /\ x \in b .. b + PAGE_SIZE - 1 /\ x \in b .. b + (m + n) - 1
        BY <1>2, <2>0, <2>1
      <4>2. e[x] = c[x]
        BY <1>3, <4>1
      <4>. QED
        BY <1>2, <4>1, <4>2
    <3>2. c[x] = ERASED
      BY <3>1 DEF IsWiped
    <3>3. b \in Int /\ m \in Int /\ n \in Int /\ b + m <= x /\ x <= b + m + n - 1
      BY <1>2, <2>0, <2>1
    <3>4. PICK i \in Int : i = x - (b + m) + 1
      BY <2>0, <3>3
    <3>5. 1 <= i /\ i <= n
      BY <2>0, <3>3, <3>4
    <3>6. i \in 1 .. n
      BY <3>3, <3>4, <3>5
    <3>7. m + i = x - b + 1
      BY <2>0, <3>3, <3>4
    <3>8. u[i] = d[m + i]
      BY <1>1, <3>6
    <3>9. u[x - (b + m) + 1] = d[x - b + 1]
      BY <3>4, <3>7, <3>8
    <3>. QED
      BY <1>6, <2>1, <3>1, <3>2, <3>9
  <2>2. CASE x \notin b + m .. b + m + n - 1
    <3>1. f[x] = e[x]
      BY <1>6, <2>2
    <3>2. x \in b .. b + (m + n) - 1 <=> x \in b .. b + m - 1
      BY <1>2, <2>0, <2>2
    <3>. QED
      BY <1>3, <3>1, <3>2
  <2>. QED
    BY <2>1, <2>2
<1>8. f = [x \in Addresses |-> IF x \in b .. b + (m + n) - 1 THEN d[x - b + 1] ELSE c[x]]
  BY <1>6, <1>7
<1>. QED
  BY <1>1, <1>2, <1>5, <1>8 DEF Painted

-----------------------------------------------------------------------------
(* Data on the bus. *)

\* A unit of d, from its byte b + 1 on, is on its way to address a.
Stuffed(s, a, d, b) ==
    /\ s.cs = "low" /\ Heard(s.rx, "program", a, 3)
    /\ s.stream = "start" => Len(s.rx) = 4
    /\ s.stream # "start" =>
          /\ s.counter \in 1 .. PROGRAM_SIZE
          /\ Len(s.rx) = 4 + (PROGRAM_SIZE - s.counter)
          /\ \A i \in 1 .. PROGRAM_SIZE - s.counter : s.rx[4 + i] = d[b + i]
          /\ IsSeq(s.out) /\ Len(s.out) = s.counter
          /\ \A i \in 1 .. s.counter : s.out[i] = d[b + (PROGRAM_SIZE - s.counter) + i]

\* The unit is all there.
HasUnit(s, a, d, b) ==
    /\ s.cs = "low" /\ Heard(s.rx, "program", a, 3) /\ Len(s.rx) = 4 + PROGRAM_SIZE
    /\ \A i \in 1 .. PROGRAM_SIZE : s.rx[4 + i] = d[b + i]

LEMMA StreamOutSends ==
  ASSUME NEW s, DOMAIN s = Fields, NEW a, NEW d, NEW b \in Nat, Stuffed(s, a, d, b),
         NEW u, IsSeq(u), Len(u) = PROGRAM_SIZE, \A i \in 1 .. PROGRAM_SIZE : u[i] = d[b + i],
         NEW x, x = StreamOut(s, u)
  PROVE  IF x.r = "cpl" THEN HasUnit(x.s, a, d, b) ELSE Stuffed(x.s, a, d, b)
<1>0. PROGRAM_SIZE \in Nat \ {0}
  BY Sizes
<1>1. CASE s.stream = "start"
  <2>1. PICK w : w = [s EXCEPT !.stream = "write_only", !.counter = Len(u), !.out = u]
    OBVIOUS
  <2>2. x = [s |-> w, r |-> "on_going"]
    BY <1>1, <2>1 DEF StreamOut, Return
  <2>3. w.stream = "write_only" /\ w.counter = PROGRAM_SIZE /\ w.out = u /\ w.cs = s.cs /\ w.rx = s.rx
    BY <2>1 DEF Fields, Operations, Machines, Bus
  <2>4. s.cs = "low" /\ Heard(s.rx, "program", a, 3) /\ Len(s.rx) = 4
    BY <1>1 DEF Stuffed
  <2>5. \A i \in 1 .. PROGRAM_SIZE : u[i] = d[b + (PROGRAM_SIZE - PROGRAM_SIZE) + i]
    BY <1>0
  <2>6. PROGRAM_SIZE - PROGRAM_SIZE = 0 /\ PROGRAM_SIZE \in 1 .. PROGRAM_SIZE
    BY <1>0
  <2>7. Stuffed(w, a, d, b)
    BY <2>3, <2>4, <2>5, <2>6 DEF Stuffed
  <2>. QED
    BY <2>2, <2>7
<1>2. CASE s.stream # "start"
  <2>1. PICK t, v, w : /\ t = EXCHANGE(s, Head(s.out))
                       /\ v = [t EXCEPT !.counter = @ - 1, !.out = Tail(@)]
                       /\ w = [v EXCEPT !.stream = "start"]
    OBVIOUS
  <2>2. x = IF v.counter = 0 THEN [s |-> w, r |-> "cpl"] ELSE [s |-> v, r |-> "on_going"]
    BY <1>2, <2>1 DEF StreamOut, Return
  <2>3. PICK n, m : n = s.counter /\ m = PROGRAM_SIZE - n
    OBVIOUS
  <2>4. /\ s.cs = "low" /\ Heard(s.rx, "program", a, 3) /\ n \in 1 .. PROGRAM_SIZE /\ Len(s.rx) = 4 + m
        /\ \A i \in 1 .. m : s.rx[4 + i] = d[b + i]
        /\ IsSeq(s.out) /\ Len(s.out) = n /\ \A i \in 1 .. n : s.out[i] = d[b + m + i]
    BY <1>2, <2>3 DEF Stuffed
  <2>n. n \in 1 .. PROGRAM_SIZE /\ m = PROGRAM_SIZE - n /\ Len(s.rx) = 4 + m
    BY <2>3, <2>4
  <2>i. m \in Nat /\ n \in Nat \ {0}
    BY <1>0, <2>n
  <2>h. IsSeq(s.rx) /\ s.rx[1] # "read_status"
    BY <2>4 DEF Heard
  <2>5. m \in Nat /\ n \in Nat \ {0} /\ IsSeq(s.rx) /\ s.rx[1] # "read_status"
    BY <2>i, <2>h
  <2>6. But(s, t, {"rx"})
    BY <2>1, ExchangeIs
  <2>7. /\ IsSeq(t.rx) /\ Len(t.rx) = Len(s.rx) + 1 /\ t.rx[Len(s.rx) + 1] = Head(s.out)
        /\ \A i \in 1 .. Len(s.rx) : t.rx[i] = s.rx[i]
    <3>1. PICK h : h = Head(s.out)
      OBVIOUS
    <3>2. DOMAIN s = Fields /\ s.cs = "low" /\ IsSeq(s.rx) /\ (s.rx = <<>> \/ s.rx[1] # "read_status")
      BY <2>4, <2>h
    <3>3. t = EXCHANGE(s, h)
      BY <2>1, <3>1
    <3>4. /\ IsSeq(t.rx) /\ Len(t.rx) = Len(s.rx) + 1 /\ t.rx[Len(s.rx) + 1] = h
          /\ \A i \in 1 .. Len(s.rx) : t.rx[i] = s.rx[i]
      BY <3>2, <3>3, HearsMore
    <3>. QED
      BY <3>1, <3>4
  <2>8. /\ IsSeq(Tail(s.out)) /\ Len(Tail(s.out)) = n - 1 /\ Head(s.out) = s.out[1]
        /\ \A i \in 1 .. n - 1 : Tail(s.out)[i] = s.out[i + 1]
    <3>1. IsSeq(s.out) /\ Len(s.out) > 0
      BY <2>4, <2>5
    <3>. QED
      BY <2>4, <3>1, TailIs
  <2>9. Heard(t.rx, "program", a, 3)
    <3>1. Len(s.rx) \in Nat
      BY <2>h, LenIs
    <3>2. Len(t.rx) >= Len(s.rx)
      BY <2>7, <3>1
    <3>3. PICK q, r, cmd, h : q = s.rx /\ r = t.rx /\ cmd = "program" /\ h = 3
      OBVIOUS
    <3>4. IsSeq(q) /\ IsSeq(r) /\ Len(r) >= Len(q) /\ \A i \in 1 .. Len(q) : r[i] = q[i]
      BY <2>7, <2>h, <3>2, <3>3
    <3>5. h \in Nat /\ Heard(q, cmd, a, h)
      BY <2>4, <3>3
    <3>6. Heard(r, cmd, a, h)
      BY <3>4, <3>5, HeardStays
    <3>. QED
      BY <3>3, <3>6
  <2>a. \A i \in 1 .. m + 1 : t.rx[4 + i] = d[b + i]
    <3>1. t.rx[4 + (m + 1)] = d[b + (m + 1)]
      <4>1. Len(s.rx) + 1 = 4 + (m + 1) /\ b + m + 1 = b + (m + 1) /\ 1 \in 1 .. n
        BY <2>4, <2>5
      <4>2. s.out[1] = d[b + m + 1]
        BY <2>4, <4>1
      <4>. QED
        BY <2>7, <2>8, <4>1, <4>2
    <3>2. ASSUME NEW i \in 1 .. m PROVE t.rx[4 + i] = d[b + i]
      <4>1. 4 + i \in 1 .. Len(s.rx)
        BY <2>4, <2>5
      <4>. QED
        BY <2>4, <2>7, <4>1
    <3>3. \A i \in 1 .. m + 1 : i \in 1 .. m \/ i = m + 1
      BY <2>i
    <3>. QED
      BY <3>1, <3>2, <3>3
  <2>b. \A i \in 1 .. n - 1 : Tail(s.out)[i] = d[b + (m + 1) + i]
    <3>1. ASSUME NEW i \in 1 .. n - 1 PROVE Tail(s.out)[i] = d[b + (m + 1) + i]
      <4>1. i + 1 \in 1 .. n /\ b + m + (i + 1) = b + (m + 1) + i
        BY <2>5
      <4>. QED
        BY <2>4, <2>8, <4>1
    <3>. QED
      BY <3>1
  <2>c. /\ v.counter = n - 1 /\ v.out = Tail(s.out) /\ v.rx = t.rx /\ v.cs = "low" /\ v.stream = s.stream
        /\ DOMAIN v = Fields
    BY <2>1, <2>3, <2>4, <2>6 DEF But, Fields, Operations, Machines, Bus
  <2>d. w.rx = t.rx /\ w.cs = "low"
    BY <2>1, <2>c DEF Fields, Operations, Machines, Bus
  <2>e. CASE n = 1
    <3>1. m + 1 = PROGRAM_SIZE /\ v.counter = 0
      BY <1>0, <2>3, <2>c, <2>e
    <3>3. Len(t.rx) = 4 + PROGRAM_SIZE
      BY <2>i, <2>n, <2>7, <3>1
    <3>4. \A i \in 1 .. PROGRAM_SIZE : t.rx[4 + i] = d[b + i]
      BY <2>a, <3>1
    <3>2. HasUnit(w, a, d, b)
      BY <2>9, <2>d, <3>3, <3>4 DEF HasUnit
    <3>. QED
      BY <2>2, <3>1, <3>2
  <2>f. CASE n # 1
    <3>1. n - 1 \in 1 .. PROGRAM_SIZE /\ n - 1 # 0 /\ PROGRAM_SIZE - (n - 1) = m + 1
      BY <1>0, <2>n, <2>f
    <3>2. Len(t.rx) = 4 + (m + 1)
      BY <2>i, <2>n, <2>7
    <3>4. v.rx = t.rx /\ v.out = Tail(s.out) /\ v.counter = n - 1 /\ v.cs = "low" /\ v.stream # "start"
      BY <1>2, <2>c
    <3>5. PICK h, l, q : h = n - 1 /\ l = PROGRAM_SIZE - h /\ q = Tail(s.out)
      OBVIOUS
    <3>6. h \in 1 .. PROGRAM_SIZE /\ h # 0 /\ l = m + 1
      BY <3>1, <3>5
    <3>7. Len(t.rx) = 4 + l /\ \A i \in 1 .. l : t.rx[4 + i] = d[b + i]
      BY <2>a, <3>2, <3>6
    <3>8. IsSeq(q) /\ Len(q) = h /\ \A i \in 1 .. h : q[i] = d[b + l + i]
      BY <2>8, <2>b, <3>5, <3>6
    <3>9. v.rx = t.rx /\ v.out = q /\ v.counter = h
      BY <3>4, <3>5
    <3>3. Stuffed(v, a, d, b)
      <4>1. v.stream # "start" /\ v.cs = "low" /\ Heard(v.rx, "program", a, 3)
        BY <2>9, <3>4
      <4>2. v.counter \in 1 .. PROGRAM_SIZE /\ PROGRAM_SIZE - v.counter = l
        BY <3>5, <3>6, <3>9
      <4>3. Len(v.rx) = 4 + (PROGRAM_SIZE - v.counter) /\ \A i \in 1 .. PROGRAM_SIZE - v.counter : v.rx[4 + i] = d[b + i]
        BY <3>7, <3>9, <4>2
      <4>4. /\ IsSeq(v.out) /\ Len(v.out) = v.counter
            /\ \A i \in 1 .. v.counter : v.out[i] = d[b + (PROGRAM_SIZE - v.counter) + i]
        BY <3>8, <3>9, <4>2
      <4>. QED
        BY <4>1, <4>2, <4>3, <4>4 DEF Stuffed
    <3>. QED
      BY <2>2, <2>c, <3>1, <3>3
  <2>. QED
    BY <2>e, <2>f
<1>. QED
  BY <1>1, <1>2

Stretch(c, a, n) == [i \in 1 .. n |-> c[a + i - 1]]

\* n cells of c, from address a on, are on their way to the buffer.
Fetched(s, a, n, c) ==
    /\ s.cs = "low" /\ Heard(s.rx, "read", a, 3)
    /\ s.stream = "start" => Len(s.rx) = 4
    /\ s.stream # "start" =>
          /\ s.counter \in 1 .. n
          /\ Len(s.rx) = 4 + (n - s.counter)
          /\ IsSeq(s.in) /\ Len(s.in) = n - s.counter
          /\ \A i \in 1 .. n - s.counter : s.in[i] = c[a + i - 1]

LEMMA StreamInFetches ==
  ASSUME NEW s, DOMAIN s = Fields, IsCells(s.cells), ~s.chipBusy,
         NEW a \in Nat, NEW n \in Nat \ {0}, a + n <= FLASH_SIZE, Fetched(s, a, n, s.cells),
         NEW x, x = StreamIn(s, n)
  PROVE  IF x.r = "cpl" THEN x.s.in = Stretch(s.cells, a, n) ELSE Fetched(x.s, a, n, s.cells)
<1>0. FLASH_SIZE \in Nat
  BY Sizes
<1>1. CASE s.stream = "start"
  <2>1. PICK w : w = [s EXCEPT !.stream = "read_only", !.counter = n, !.in = <<>>]
    OBVIOUS
  <2>2. x = [s |-> w, r |-> "on_going"]
    BY <1>1, <2>1 DEF StreamIn, Return
  <2>3. w.stream = "read_only" /\ w.counter = n /\ w.in = <<>> /\ w.cs = s.cs /\ w.rx = s.rx
    BY <2>1 DEF Fields, Operations, Machines, Bus
  <2>4. s.cs = "low" /\ Heard(s.rx, "read", a, 3) /\ Len(s.rx) = 4
    BY <1>1 DEF Fetched
  <2>5. n - n = 0 /\ n \in 1 .. n /\ 1 .. 0 = {}
    OBVIOUS
  <2>6. Fetched(w, a, n, s.cells)
    BY <2>3, <2>4, <2>5, EmptyIs DEF Fetched
  <2>. QED
    BY <2>2, <2>6
<1>2. CASE s.stream # "start"
  <2>1. PICK t, v, w : /\ t = EXCHANGE(s, "dummy")
                       /\ v = [t EXCEPT !.counter = @ - 1, !.in = Append(@, Answer(s))]
                       /\ w = [v EXCEPT !.stream = "start"]
    OBVIOUS
  <2>2. x = IF v.counter = 0 THEN [s |-> w, r |-> "cpl"] ELSE [s |-> v, r |-> "on_going"]
    BY <1>2, <2>1 DEF StreamIn, Return
  <2>3. PICK k, m : k = s.counter /\ m = n - k
    OBVIOUS
  <2>4. /\ s.cs = "low" /\ Heard(s.rx, "read", a, 3) /\ k \in 1 .. n /\ Len(s.rx) = 4 + m
        /\ IsSeq(s.in) /\ Len(s.in) = m /\ \A i \in 1 .. m : s.in[i] = s.cells[a + i - 1]
    BY <1>2, <2>3 DEF Fetched
  <2>n. k \in 1 .. n /\ m = n - k /\ Len(s.rx) = 4 + m
    BY <2>3, <2>4
  <2>i. m \in Nat /\ k \in Nat \ {0} /\ m < n
    BY <2>n
  <2>h. IsSeq(s.rx) /\ s.rx[1] = "read" /\ s.rx[1] # "read_status"
    BY <2>4 DEF Heard
  <2>5. m \in Nat /\ k \in Nat \ {0} /\ m < n /\ IsSeq(s.rx) /\ s.rx[1] = "read"
    BY <2>i, <2>h
  <2>6. But(s, t, {"rx"})
    BY <2>1, ExchangeIs
  <2>7. /\ IsSeq(t.rx) /\ Len(t.rx) = Len(s.rx) + 1 /\ \A i \in 1 .. Len(s.rx) : t.rx[i] = s.rx[i]
    <3>1. s.cs = "low" /\ t = EXCHANGE(s, "dummy")
      BY <2>1, <2>4
    <3>. QED
      BY <2>h, <3>1, HearsMore
  <2>8. Heard(t.rx, "read", a, 3)
    <3>1. 3 \in Nat /\ Len(t.rx) >= Len(s.rx)
      BY <2>7, <2>i, <2>n
    <3>. QED
      BY <2>4, <2>5, <2>7, <3>1, HeardStays
  <2>9. Answer(s) = s.cells[a + (m + 1) - 1]
    <3>1. a < FLASH_SIZE
      BY <1>0
    <3>2. Address(s.rx) = a
      BY <2>4, <3>1, AddressHeard
    <3>3. a + Len(s.rx) - 4 = a + (m + 1) - 1 /\ Len(s.rx) >= 4 /\ a + (m + 1) - 1 \in 0 .. FLASH_SIZE - 1
      BY <1>0, <2>4, <2>5
    <3>4. DOMAIN s.cells = 0 .. FLASH_SIZE - 1
      BY Zenon DEF IsCells, Addresses
    <3>. QED
      BY <2>4, <2>5, <3>2, <3>3, <3>4 DEF Answer
  <2>a. PICK q : q = Append(s.in, Answer(s))
    OBVIOUS
  <2>b. IsSeq(q) /\ Len(q) = m + 1 /\ \A i \in 1 .. m + 1 : q[i] = s.cells[a + i - 1]
    <3>1. IsSeq(q) /\ Len(q) = m + 1 /\ q[m + 1] = Answer(s) /\ \A i \in 1 .. m : q[i] = s.in[i]
      BY <2>4, <2>a, AppendIs
    <3>2. \A i \in 1 .. m : q[i] = s.cells[a + i - 1]
      BY <2>4, <3>1
    <3>3. \A i \in 1 .. m + 1 : i \in 1 .. m \/ i = m + 1
      BY <2>i
    <3>. QED
      BY <2>9, <3>1, <3>2, <3>3
  <2>c. /\ v.counter = k - 1 /\ v.in = q /\ v.rx = t.rx /\ v.cs = "low" /\ v.stream = s.stream
        /\ DOMAIN v = Fields
    BY <2>1, <2>3, <2>4, <2>6, <2>a DEF But, Fields, Operations, Machines, Bus
  <2>d. w.in = q
    BY <2>1, <2>c DEF Fields, Operations, Machines, Bus
  <2>e. CASE k = 1
    <3>1. m + 1 = n /\ v.counter = 0
      BY <2>3, <2>c, <2>e
    <3>2. q = Stretch(s.cells, a, n)
      <4>1. PICK S : q \in Seq(S)
        BY <2>b DEF IsSeq
      <4>2. q = [i \in 1 .. n |-> q[i]]
        BY <2>b, <3>1, <4>1, LenProperties
      <4>. QED
        BY <2>b, <3>1, <4>2 DEF Stretch
    <3>. QED
      BY <2>2, <2>d, <3>1, <3>2
  <2>f. CASE k # 1
    <3>1. k - 1 \in 1 .. n /\ k - 1 # 0 /\ n - (k - 1) = m + 1
      BY <2>n, <2>f
    <3>2. Len(t.rx) = 4 + (m + 1)
      BY <2>i, <2>n, <2>7
    <3>3. Fetched(v, a, n, s.cells)
      BY <1>2, <2>8, <2>b, <2>c, <3>1, <3>2 DEF Fetched
    <3>. QED
      BY <2>2, <2>c, <3>1, <3>3
  <2>. QED
    BY <2>e, <2>f
<1>. QED
  BY <1>1, <1>2

-----------------------------------------------------------------------------
(* The read operations leave the cells alone. *)

Image(c, p) == Stretch(c, p * PAGE_SIZE, PAGE_SIZE)

\* sdf_page_read() of page p.
ReadOf(s, p, c) ==
    /\ p < PAGES
    /\ s.read = "command" => Sent(s, "read", p * PAGE_SIZE)
    /\ s.read = "fetch" => Fetched(s, p * PAGE_SIZE, PAGE_SIZE, c)

LEMMA ReadRunKeeps ==
  ASSUME NEW s, DOMAIN s = Fields, NEW f \in ReadOps, Reading(s, f),
         NEW cmd, NEW a, NEW size, NEW x, x = ReadRun(s, f, cmd, a, size)
  PROVE  But(s, x.s, RunFields(f)) /\ x.s.cells = s.cells /\ (x.r # "on_going" => x.s[f] = "start")
<1>0. f \in Fields /\ f \in Operations /\ f \notin Bus \cup Machines /\ s.protected
  BY DEF ReadOps, Operations, Fields, Bus, Machines, Reading
<1>1. CASE s[f] = "check"
  <2>0. Checks(s)
    BY <1>1 DEF Reading
  <2>1. PICK y, t, w : y = CheckDevice(s) /\ t = CLR_CS(y.s) /\ w = [t EXCEPT ![f] = "command"]
    OBVIOUS
  <2>2. x = [s |-> IF y.r = "cpl" THEN w ELSE y.s, r |-> "on_going"]
    BY <1>1, <2>1 DEF ReadRun, Return
  <2>3. But(s, y.s, Bus \cup {"check"}) /\ y.s.cells = s.cells
    BY <2>0, <2>1, CheckDeviceDoes, CheckKeeps
  <2>4. But(y.s, t, {"cs", "rx"})
    BY <2>1, <2>3, SelectIs DEF But
  <2>5. But(t, w, {f})
    BY <1>0, <2>1, <2>4, OneField DEF But
  <2>6. But(s, w, ((Bus \cup {"check"}) \cup {"cs", "rx"}) \cup {f}) /\ But(y.s, w, {"cs", "rx"} \cup {f})
    BY <2>3, <2>4, <2>5, ButTwice
  <2>7. But(s, w, RunFields(f)) /\ But(s, y.s, RunFields(f))
    BY <2>3, <2>6, ButMore DEF RunFields, Bus, Machines
  <2>8. w.cells = y.s.cells
    BY <1>0, <2>6 DEF But, Fields, Bus
  <2>. QED
    BY <2>2, <2>3, <2>7, <2>8
<1>2. CASE s[f] = "command"
  <2>1. PICK y, w : y = CommandAndAddress(s, cmd, a) /\ w = [y.s EXCEPT ![f] = "fetch"]
    OBVIOUS
  <2>2. x = [s |-> IF y.r = "cpl" THEN w ELSE y.s, r |-> "on_going"]
    BY <1>2, <2>1 DEF ReadRun, Return
  <2>3. But(s, y.s, {"rx", "wca", "addressCounter"})
    BY <2>1, CommandDoes
  <2>4. But(y.s, w, {f})
    BY <1>0, <2>1, <2>3, OneField DEF But
  <2>5. But(s, w, {"rx", "wca", "addressCounter"} \cup {f})
    BY <2>3, <2>4, ButTwice
  <2>6. But(s, w, RunFields(f)) /\ But(s, y.s, RunFields(f))
    BY <2>3, <2>5, ButMore DEF RunFields, Bus, Machines
  <2>7. w.cells = s.cells /\ y.s.cells = s.cells
    BY <1>0, <2>3, <2>5 DEF But, Fields, Bus
  <2>. QED
    BY <2>2, <2>6, <2>7
<1>3. CASE s[f] = "fetch"
  <2>1. PICK y, t, u, w : /\ y = StreamIn(s, size) /\ t = SET_CS(y.s) /\ u = [t EXCEPT !.state = "idle"]
                          /\ w = [u EXCEPT ![f] = "start"]
    OBVIOUS
  <2>2. x = IF y.r = "cpl" THEN [s |-> w, r |-> "cpl"] ELSE y
    BY <1>3, <2>1 DEF ReadRun, Return, Release
  <2>3. But(s, y.s, {"rx", "stream", "counter", "in"}) /\ (y.r = "cpl" \/ y.r = "on_going")
    BY <2>1, StreamInDoes
  <2>4. DOMAIN y.s = Fields /\ y.s.protected /\ y.s.cells = s.cells
    BY <1>0, <2>3 DEF But, Fields, Bus
  <2>5. But(y.s, t, Bus) /\ t.cells = y.s.cells
    BY <2>1, <2>4, DeselectIs, ProtectedKeeps
  <2>6. But(t, u, {"state"})
    BY <2>1, <2>5, OneField DEF But, Fields
  <2>7. But(u, w, {f}) /\ w[f] = "start"
    BY <1>0, <2>1, <2>6, OneField DEF But
  <2>8. But(t, w, {"state"} \cup {f})
    BY <2>6, <2>7, ButTwice
  <2>9. But(s, w, ({"rx", "stream", "counter", "in"} \cup Bus) \cup ({"state"} \cup {f}))
    BY <2>3, <2>5, <2>8, ButTwice
  <2>a. But(s, w, RunFields(f)) /\ But(s, y.s, RunFields(f))
    BY <2>3, <2>9, ButMore DEF RunFields, Bus, Machines
  <2>b. w.cells = t.cells
    BY <1>0, <2>8 DEF But, Fields, Bus
  <2>. QED
    BY <2>2, <2>3, <2>4, <2>5, <2>7, <2>a, <2>b
<1>. QED
  BY <1>1, <1>2, <1>3 DEF Reading

\* What a whole read brings.
LEMMA ReadRunFetches ==
  ASSUME NEW s, DOMAIN s = Fields, Reading(s, "read"), IsCells(s.cells), NEW p \in Nat, ReadOf(s, p, s.cells),
         NEW x, x = ReadRun(s, "read", "read", p * PAGE_SIZE, PAGE_SIZE)
  PROVE  /\ ReadOf(x.s, p, s.cells)
         /\ x.r = "cpl" => x.s.in = Image(s.cells, p) /\ x.s.read = "start"
         /\ x.r # "cpl" => x.s.read # "start"
<1>0. p < PAGES /\ p * PAGE_SIZE \in Nat /\ PAGE_SIZE \in Nat \ {0} /\ p * PAGE_SIZE + PAGE_SIZE <= FLASH_SIZE
  BY Sizes, PageIs DEF ReadOf
<1>1. CASE s.read = "check"
  <2>0. Checks(s)
    BY <1>1 DEF Reading
  <2>1. PICK y, t, w : y = CheckDevice(s) /\ t = CLR_CS(y.s) /\ w = [t EXCEPT !.read = "command"]
    OBVIOUS
  <2>2. x = [s |-> IF y.r = "cpl" THEN w ELSE y.s, r |-> "on_going"]
    BY <1>1, <2>1 DEF ReadRun, Return
  <2>3. But(s, y.s, Bus \cup {"check"})
    BY <2>0, <2>1, CheckDeviceDoes
  <2>4. y.s.read = "check" /\ y.s.wca = "start" /\ DOMAIN y.s = Fields
    BY <1>1, <2>0, <2>3 DEF But, Fields, Bus, Operations, Machines, Checks
  <2>5. w.read = "command" /\ w.cs = "low" /\ w.rx = <<>> /\ w.wca = "start"
    BY <2>1, <2>4 DEF CLR_CS, Fields, Bus, Operations, Machines
  <2>6. ReadOf(y.s, p, s.cells) /\ ReadOf(w, p, s.cells)
    BY <1>0, <2>4, <2>5 DEF ReadOf, Sent
  <2>. QED
    BY <2>2, <2>4, <2>5, <2>6
<1>2. CASE s.read = "command"
  <2>1. PICK y, w : y = CommandAndAddress(s, "read", p * PAGE_SIZE) /\ w = [y.s EXCEPT !.read = "fetch"]
    OBVIOUS
  <2>2. x = [s |-> IF y.r = "cpl" THEN w ELSE y.s, r |-> "on_going"]
    BY <1>2, <2>1 DEF ReadRun, Return
  <2>3. But(s, y.s, {"rx", "wca", "addressCounter"})
    BY <2>1, CommandDoes
  <2>4. s.stream = "start" /\ s.check = "start"
    BY <1>2 DEF Reading
  <2>5. y.s.read = "command" /\ y.s.stream = "start" /\ DOMAIN y.s = Fields
    BY <1>2, <2>3, <2>4 DEF But, Fields, Bus, Operations, Machines
  <2>6. w.read = "fetch" /\ w.cs = y.s.cs /\ w.rx = y.s.rx /\ w.stream = "start"
    BY <2>1, <2>5 DEF Fields, Bus, Operations, Machines
  <2>7. /\ y.s.cs = "low"
        /\ IF y.r = "cpl" THEN Heard(y.s.rx, "read", p * PAGE_SIZE, 3) /\ Len(y.s.rx) = 4
           ELSE Sent(y.s, "read", p * PAGE_SIZE)
    <3>1. Sent(s, "read", p * PAGE_SIZE)
      BY <1>2 DEF ReadOf
    <3>. QED
      BY <2>1, <3>1, CommandSends
  <2>8. y.r = "cpl" => ReadOf(w, p, s.cells)
    BY <1>0, <2>6, <2>7 DEF ReadOf, Fetched
  <2>9. y.r # "cpl" => ReadOf(y.s, p, s.cells)
    BY <1>0, <2>5, <2>7 DEF ReadOf
  <2>. QED
    BY <2>2, <2>5, <2>6, <2>8, <2>9
<1>3. CASE s.read = "fetch"
  <2>1. PICK y, t, w : /\ y = StreamIn(s, PAGE_SIZE) /\ t = SET_CS(y.s)
                       /\ w = [[t EXCEPT !.state = "idle"] EXCEPT !.read = "start"]
    OBVIOUS
  <2>2. x = IF y.r = "cpl" THEN [s |-> w, r |-> "cpl"] ELSE y
    BY <1>3, <2>1 DEF ReadRun, Return, Release
  <2>3. But(s, y.s, {"rx", "stream", "counter", "in"})
    BY <2>1, StreamInDoes
  <2>4. y.s.read = "fetch" /\ DOMAIN y.s = Fields
    BY <1>3, <2>3 DEF But, Fields, Bus, Operations, Machines
  <2>5. But(y.s, t, Bus)
    BY <2>1, <2>4, DeselectIs
  <2>6. w.read = "start" /\ w.in = y.s.in
    BY <2>1, <2>5 DEF But, Fields, Bus, Operations, Machines
  <2>7. IF y.r = "cpl" THEN y.s.in = Image(s.cells, p) ELSE Fetched(y.s, p * PAGE_SIZE, PAGE_SIZE, s.cells)
    <3>1. ~s.chipBusy /\ Fetched(s, p * PAGE_SIZE, PAGE_SIZE, s.cells)
      BY <1>3 DEF Reading, Clean, ReadOf
    <3>. QED
      BY <1>0, <2>1, <3>1, StreamInFetches DEF Image
  <2>8. y.r = "cpl" => ReadOf(w, p, s.cells)
    BY <1>0, <2>6 DEF ReadOf
  <2>9. y.r # "cpl" => ReadOf(y.s, p, s.cells)
    BY <1>0, <2>4, <2>7 DEF ReadOf
  <2>. QED
    BY <2>2, <2>4, <2>6, <2>7, <2>8, <2>9
<1>. QED
  BY <1>1, <1>2, <1>3 DEF Reading

-----------------------------------------------------------------------------
(* What an operation on page p has done to the cells, which were c. *)

\* sdf_page_erase()
EraseOf(s, p, c) ==
    /\ p < PAGES
    /\ s.erase = "command" => Armed(s) /\ Sent(s, "sector_erase", p * PAGE_SIZE) /\ s.cells = c
    /\ s.erase = "ready" => s.cells = Wiped(c, p)

\* sdf_page_write() of d, at unit k.
Unit(s, p, d, c, k) ==
    LET b == k * PROGRAM_SIZE
    IN /\ p < PAGES /\ k \in Nat /\ k < PROGRAMS
       /\ IsSeq(s.page) /\ Len(s.page) = PAGE_SIZE - b
       /\ \A i \in 1 .. PAGE_SIZE - b : s.page[i] = d[b + i]
       /\ Painted(s.cells, c, p, d, IF s.prog = "check" THEN k + 1 ELSE k)
       /\ s.prog = "start" => ~s.chipBusy
       /\ s.prog = "command" => Armed(s) /\ Sent(s, "program", p * PAGE_SIZE + b)
       /\ s.prog = "data" => Armed(s) /\ Stuffed(s, p * PAGE_SIZE + b, d, b)

WriteOf(s, p, d, c) == Unit(s, p, d, c, s.programIndex)

\* The cells are c, but for what f has done of page p, if it is under way.
Work(s, f, p, d, c) ==
    /\ DriverInv(s)
    /\ f \notin {"read", "verify"} => s.read = "start"
    /\ f # "erase" => s.erase = "start"
    /\ f # "write" => s.write = "start"
    /\ s.chip = "command" => Armed(s) /\ s.rx = <<>>
    /\ s.write = "start" /\ s.erase = "start" => s.cells = c
    /\ s.write # "start" => WriteOf(s, p, d, c)
    /\ s.erase # "start" => EraseOf(s, p, c)
    /\ f = "read" /\ s.read # "start" => ReadOf(s, p, c)
    /\ f = "verify" /\ s.read # "start" => s.verify = "read"

\* What a rival has begun stays as it is.
Others(s, t) == t.did = s.did /\ t.uid = s.uid /\ t.chip = s.chip

\* An operation that did not begin yet may be any.
LEMMA WorkBegins == ASSUME NEW s, NEW q, NEW e, NEW c, Work(s, "none", q, e, c), NEW f, NEW p, NEW d
                    PROVE  Work(s, f, p, d, c)
  BY DEF Work

\* One that has not touched the cells may be given up.
LEMMA WorkEnds == ASSUME NEW s, NEW f, NEW p, NEW d, NEW c, Work(s, f, p, d, c),
                         s.read = "start", s.erase = "start", s.write = "start", NEW q, NEW e
                  PROVE  Work(s, "none", q, e, c)
  BY DEF Work

\* While nothing but f is under way, and f is no operation of the page service, the cells are c.
LEMMA OnlyWorks ==
  ASSUME NEW t, DriverInv(t), NEW h \in Operations \ {"write", "erase", "chip"}, Only(t, h),
         NEW f, h = "read" => f = "verify" /\ t.verify = "read", NEW p, NEW d, NEW c, t.cells = c
  PROVE  Work(t, f, p, d, c)
<1>1. t["write"] = "start" /\ t["erase"] = "start" /\ t["chip"] = "start" /\ (h # "read" => t["read"] = "start")
  BY DEF Only, Operations
<1>2. t.write = "start" /\ t.erase = "start" /\ t.chip = "start" /\ (h # "read" => t.read = "start")
  BY <1>1
<1>. QED
  BY <1>2 DEF Work

\* Read() for who is not the page service.
LEMMA ReadKeeps ==
  ASSUME NEW s, DriverInv(s), NEW f \in ReadOps, NEW cmd \in ReadCommands, NEW a, NEW size,
         NEW x, x = Read(s, f, cmd, a, size)
  PROVE  /\ \/ x.s = s /\ x.r = Refusal(s)
            \/ Only(s, f) /\ Only(x.s, f) /\ x.s.cells = s.cells /\ s.state # "not_ready"
         /\ x.s.verify = s.verify
         /\ x.r # "on_going" => x.s[f] = "start"
<1>1. f \in Operations /\ f \notin EraseOps /\ f # "write" /\ IsDriver(s) /\ DOMAIN s = Fields /\ f # "state"
  BY DEF ReadOps, EraseOps, Operations, DriverInv, IsDriver
<1>o. ASSUME NEW t, NEW u, Only(t, f), But(t, u, RunFields(f)) PROVE Only(u, f)
  <2>1. ASSUME NEW g \in Operations, g # f PROVE u[g] = "start"
    <3>1. g \in Fields \ RunFields(f)
      BY <2>1 DEF Fields, Operations, Machines, Bus, RunFields
    <3>. QED
      BY <1>o, <2>1, <3>1 DEF But, Only
  <2>. QED
    BY <2>1 DEF Only
<1>v. ASSUME NEW t, NEW u, But(t, u, RunFields(f)) PROVE u.verify = t.verify
  BY <1>1, <1>v DEF But, Fields, Operations, Machines, Bus, RunFields
<1>2. CASE s[f] # "start"
  <2>1. s.state = "busy" /\ Only(s, f) /\ At(s, f)
    BY <1>1, <1>2, Owner
  <2>2. Reading(s, f)
    BY <1>1, <2>1 DEF At
  <2>3. x = ReadRun(s, f, cmd, a, size)
    BY <1>2 DEF Read
  <2>4. But(s, x.s, RunFields(f)) /\ x.s.cells = s.cells /\ (x.r # "on_going" => x.s[f] = "start")
    BY <1>1, <2>2, <2>3, ReadRunKeeps
  <2>5. Only(x.s, f)
    BY <1>o, <2>1, <2>4
  <2>6. x.s.verify = s.verify
    BY <1>1, <1>v, <2>4
  <2>. QED
    BY <2>1, <2>4, <2>5, <2>6
<1>3. CASE s[f] = "start" /\ s.state # "idle"
  BY <1>3 DEF Read, Return
<1>4. CASE s[f] = "start" /\ s.state = "idle"
  <2>1. Quiet(s)
    BY <1>4, IdleIsQuiet
  <2>2. PICK t : t = ClaimedFor(s, f, "check")
    OBVIOUS
  <2>3. x = ReadRun(t, f, cmd, a, size)
    BY <1>4, <2>2 DEF Read, ClaimedFor
  <2>4. /\ IsDriver(t) /\ t.state = "busy" /\ t[f] = "check" /\ Only(t, f)
        /\ t.cs = "high" /\ t.protected /\ \A m \in Machines : t[m] = "start"
    BY <1>1, <2>1, <2>2, Claimed
  <2>5. Reading(t, f) /\ DOMAIN t = Fields
    BY <2>4 DEF Reading, Checks, Machines, IsDriver
  <2>6. But(t, x.s, RunFields(f)) /\ x.s.cells = t.cells /\ (x.r # "on_going" => x.s[f] = "start")
    BY <2>3, <2>5, ReadRunKeeps
  <2>7. Only(x.s, f)
    BY <1>o, <2>4, <2>6
  <2>8. t.cells = s.cells /\ t.verify = s.verify
    BY <1>1, <2>2 DEF ClaimedFor, Claim, ReadOps, Fields, Bus
  <2>a. x.s.verify = s.verify
    BY <1>v, <2>6, <2>8
  <2>9. Only(s, f)
    BY <2>1 DEF Only, Quiet
  <2>. QED
    BY <1>4, <2>6, <2>7, <2>8, <2>9, <2>a
<1>. QED
  BY <1>2, <1>3, <1>4

\* The two identifiers are none of the page service's business.
LEMMA IdWorks ==
  ASSUME NEW s, NEW g, NEW p, NEW d, NEW c, Work(s, g, p, d, c), NEW f \in {"did", "uid"},
         NEW cmd \in ReadCommands, NEW a, NEW size, NEW x, x = Read(s, f, cmd, a, size)
  PROVE  /\ Work(x.s, g, p, d, c)
         /\ x.s.chip = s.chip
         /\ f = "did" => x.s.uid = s.uid
         /\ f = "uid" => x.s.did = s.did
<1>1. DriverInv(s) /\ f \in ReadOps /\ f \in Operations \ {"write", "erase", "chip", "read"}
  BY DEF Work, ReadOps, Operations
<1>2. DriverInv(x.s)
  BY <1>1, ReadGoes DEF Goes
<1>3. CASE x.s = s
  BY <1>3
<1>4. CASE Only(s, f) /\ Only(x.s, f) /\ x.s.cells = s.cells
  <2>1. s["write"] = "start" /\ s["erase"] = "start" /\ s["chip"] = "start" /\ x.s["chip"] = "start"
        /\ (f = "did" => s["uid"] = "start" /\ x.s["uid"] = "start")
        /\ (f = "uid" => s["did"] = "start" /\ x.s["did"] = "start")
    BY <1>1, <1>4 DEF Only, Operations
  <2>2. s.write = "start" /\ s.erase = "start" /\ s.chip = "start" /\ x.s.chip = "start"
        /\ (f = "did" => s.uid = "start" /\ x.s.uid = "start")
        /\ (f = "uid" => s.did = "start" /\ x.s.did = "start")
    BY <2>1
  <2>3. x.s.cells = c
    BY <1>4, <2>2 DEF Work
  <2>4. Work(x.s, g, p, d, c)
    BY <1>1, <1>2, <1>4, <2>3, OnlyWorks
  <2>. QED
    BY <2>2, <2>4
<1>. QED
  BY <1>1, <1>3, <1>4, ReadKeeps

\* A page is read for the page service.
LEMMA PageReadWorks ==
  ASSUME NEW s, NEW p \in Nat, NEW d, NEW c, IsCells(c), Work(s, "read", p, d, c),
         NEW x, x = sdf_page_read(s, p, 0, PAGE_SIZE)
  PROVE  /\ Work(x.s, "read", p, d, c) /\ Others(s, x.s)
         /\ x.r = "cpl" => Work(x.s, "none", 0, <<>>, c) /\ x.s.in = Image(c, p) /\ p < PAGES
         /\ s.state # "idle" /\ s.read = "start" => x.s = s /\ IsErr(x.r)
<1>0. /\ PAGE_SIZE \in Nat \ {0} /\ p * PAGE_SIZE \in Nat /\ p * PAGE_SIZE + 0 = p * PAGE_SIZE
      /\ p < PAGES <=> p * PAGE_SIZE + PAGE_SIZE <= FLASH_SIZE
  <2>1. p * PAGE_SIZE \in Nat /\ (p < PAGES <=> p * PAGE_SIZE + PAGE_SIZE <= FLASH_SIZE)
    BY PageIs
  <2>2. p * PAGE_SIZE + 0 = p * PAGE_SIZE
    BY <2>1
  <2>. QED
    BY <2>1, <2>2, Sizes
<1>1. DriverInv(s) /\ s.write = "start" /\ s.erase = "start" /\ s.cells = c
  BY DEF Work
<1>2. x = sdf_read_random(s, p * PAGE_SIZE, PAGE_SIZE)
  BY <1>0 DEF sdf_page_read
<1>3. x = IF s.read = "start" /\ ~(p < PAGES) THEN Return(s, "err")
          ELSE Read(s, "read", "read", p * PAGE_SIZE, PAGE_SIZE)
  <2>1. FLASH_SIZE \in Nat
    BY Sizes
  <2>. QED
    BY <1>0, <1>2, <2>1 DEF sdf_read_random
<1>o. "read" \in ReadOps /\ "read" \in ReadCommands /\ "read" \in Operations /\ s["read"] = s.read
  BY DEF ReadOps, ReadCommands, Operations
<1>4. DriverInv(x.s)
  <2>1. CASE x = Return(s, "err")
    BY <1>1, <2>1 DEF Return
  <2>2. CASE x = Read(s, "read", "read", p * PAGE_SIZE, PAGE_SIZE)
    BY <1>1, <1>o, <2>2, ReadGoes DEF Goes
  <2>. QED
    BY <1>3, <2>1, <2>2
<1>5. CASE s.read = "start" /\ (~(p < PAGES) \/ s.state # "idle")
  <2>1. x.s = s /\ IsErr(x.r)
    BY <1>3, <1>5 DEF Read, Return, Refusal, IsErr
  <2>. QED
    BY <2>1 DEF Others, IsErr
<1>6. ASSUME NEW t, DOMAIN t = Fields, t["read"] # "start", Only(t, "read"), Reading(t, "read"), t.cells = c,
             ReadOf(t, p, c), Others(s, t), x = ReadRun(t, "read", "read", p * PAGE_SIZE, PAGE_SIZE)
      PROVE  /\ Work(x.s, "read", p, d, c) /\ Others(s, x.s)
             /\ x.r = "cpl" => Work(x.s, "none", 0, <<>>, c) /\ x.s.in = Image(c, p) /\ p < PAGES
  <2>1. But(t, x.s, RunFields("read")) /\ x.s.cells = c
    BY <1>6, <1>o, ReadRunKeeps
  <2>2. /\ ReadOf(x.s, p, c)
        /\ x.r = "cpl" => x.s.in = Image(c, p) /\ x.s.read = "start"
        /\ x.r # "cpl" => x.s.read # "start"
    BY <1>6, ReadRunFetches
  <2>3. Others(t, x.s) /\ x.s.write = t.write /\ x.s.erase = t.erase
    BY <2>1 DEF But, Others, Fields, Operations, Machines, Bus, RunFields
  <2>4. t["write"] = "start" /\ t["erase"] = "start" /\ t["chip"] = "start"
    BY <1>6 DEF Only, Operations
  <2>5. x.s.write = "start" /\ x.s.erase = "start" /\ x.s.chip = "start"
    BY <2>3, <2>4 DEF Others
  <2>6. Others(s, x.s)
    BY <1>6, <2>3 DEF Others
  <2>7. Work(x.s, "read", p, d, c)
    BY <1>4, <2>1, <2>2, <2>5 DEF Work
  <2>8. x.r = "cpl" => Work(x.s, "none", 0, <<>>, c)
    BY <2>2, <2>5, <2>7, WorkEnds
  <2>. QED
    BY <2>2, <2>6, <2>7, <2>8 DEF ReadOf
<1>7. CASE s.read # "start"
  <2>1. s.state = "busy" /\ Only(s, "read") /\ At(s, "read") /\ DOMAIN s = Fields
    BY <1>1, <1>7, <1>o, Owner DEF DriverInv, IsDriver
  <2>2. Reading(s, "read")
    BY <2>1 DEF At, EraseOps
  <2>3. x = ReadRun(s, "read", "read", p * PAGE_SIZE, PAGE_SIZE)
    BY <1>3, <1>7 DEF Read
  <2>4. ReadOf(s, p, c) /\ Others(s, s)
    BY <1>7 DEF Work, Others
  <2>. QED
    BY <1>1, <1>6, <1>7, <1>o, <2>1, <2>2, <2>3, <2>4
<1>8. CASE s.read = "start" /\ p < PAGES /\ s.state = "idle"
  <2>1. Quiet(s) /\ IsDriver(s)
    BY <1>1, <1>8, IdleIsQuiet DEF DriverInv
  <2>2. PICK t : t = ClaimedFor(s, "read", "check")
    OBVIOUS
  <2>3. x = ReadRun(t, "read", "read", p * PAGE_SIZE, PAGE_SIZE)
    BY <1>3, <1>8, <2>2 DEF Read, ClaimedFor
  <2>4. /\ IsDriver(t) /\ t.state = "busy" /\ t["read"] = "check" /\ Only(t, "read")
        /\ t.cs = "high" /\ t.protected /\ \A m \in Machines : t[m] = "start"
    BY <1>o, <2>1, <2>2, Claimed
  <2>5. Reading(t, "read") /\ DOMAIN t = Fields
    BY <2>4 DEF Reading, Checks, Machines, IsDriver
  <2>6. t.cells = s.cells /\ Others(s, t) /\ t.read = "check"
    BY <2>1, <2>2 DEF ClaimedFor, Claim, IsDriver, Fields, Operations, Bus, Machines, Others
  <2>7. ReadOf(t, p, c)
    BY <1>8, <2>6 DEF ReadOf
  <2>. QED
    BY <1>1, <1>6, <1>8, <2>3, <2>4, <2>5, <2>6, <2>7
<1>. QED
  BY <1>5, <1>7, <1>8

\* Neither verifying nor the driver's life cycle touches the cells.
Settings == {"irq", "init", "verify", "verifyAddress", "verifyLeft", "verifySize", "verifyData"}

LEMMA AsideWorks ==
  ASSUME NEW s, NEW p, NEW d, NEW c, Work(s, "verify", p, d, c),
         NEW t, But(s, t, Settings), t.verify \in {"start", "range", "read"}, s.read = "start" \/ t.verify = "read"
  PROVE  Work(t, "verify", p, d, c) /\ Others(s, t)
<1>1. DriverInv(t)
  <2>1. But(s, t, Aside)
    BY ButMore DEF Settings, Aside
  <2>. QED
    BY <2>1, AsideGoes DEF Work
<1>2. /\ t.read = s.read /\ t.write = s.write /\ t.erase = s.erase /\ t.chip = s.chip /\ t.cells = s.cells
      /\ t.did = s.did /\ t.uid = s.uid /\ t.cs = s.cs /\ t.wel = s.wel /\ t.chipBusy = s.chipBusy
      /\ t.protected = s.protected /\ t.rx = s.rx
  BY DEF But, Settings, Fields, Operations, Machines, Bus
<1>. QED
  BY <1>1, <1>2 DEF Work, Others, Armed

LEMMA RandomWorks ==
  ASSUME NEW s, NEW p, NEW d, NEW c, Work(s, "verify", p, d, c), s.verify = "read", NEW a, NEW size,
         NEW x, x = sdf_read_random(s, a, size)
  PROVE  /\ Work(x.s, "verify", p, d, c) /\ Others(s, x.s) /\ x.s.verify = "read"
         /\ x.r # "on_going" => x.s.read = "start"
<1>1. CASE x.s = s /\ s.read = "start"
  BY <1>1 DEF Others
<1>2. CASE x = Read(s, "read", "read", a, size)
  <2>0. "read" \in ReadOps /\ "read" \in ReadCommands /\ "read" \in Operations \ {"write", "erase", "chip"} /\ DriverInv(s)
    BY DEF ReadOps, ReadCommands, Operations, Work
  <2>1. DriverInv(x.s)
    BY <1>2, <2>0, ReadGoes DEF Goes
  <2>k. /\ \/ x.s = s /\ x.r = Refusal(s)
           \/ Only(s, "read") /\ Only(x.s, "read") /\ x.s.cells = s.cells
        /\ x.s.verify = s.verify
        /\ x.r # "on_going" => x.s["read"] = "start"
    BY <1>2, <2>0, ReadKeeps
  <2>3. CASE x.s = s
    BY <2>3, <2>k DEF Others
  <2>2. CASE Only(s, "read") /\ Only(x.s, "read") /\ x.s.cells = s.cells
    <3>1. s.write = "start" /\ s.erase = "start"
      BY DEF Work
    <3>2. s["did"] = "start" /\ s["uid"] = "start" /\ s["chip"] = "start"
          /\ x.s["did"] = "start" /\ x.s["uid"] = "start" /\ x.s["chip"] = "start"
      BY <2>2 DEF Only, Operations
    <3>3. x.s.cells = c
      BY <2>2, <3>1 DEF Work
    <3>4. Work(x.s, "verify", p, d, c)
      BY <2>0, <2>1, <2>2, <2>k, <3>3, OnlyWorks
    <3>. QED
      BY <2>k, <3>2, <3>4 DEF Others
  <2>. QED
    BY <2>2, <2>3, <2>k
<1>. QED
  BY <1>1, <1>2 DEF sdf_read_random, Return

LEMMA VerifyRunWorks ==
  ASSUME NEW s, NEW p, NEW d, NEW c, Work(s, "verify", p, d, c), s.verify = "read", NEW x, x = VerifyRun(s)
  PROVE  /\ Work(x.s, "verify", p, d, c) /\ Others(s, x.s)
         /\ x.r \notin {"on_going", "busy"} => x.s.read = "start"
<1>1. PICK y, u, w : /\ y = sdf_read_random(s, s.verifyAddress, s.verifySize)
                     /\ u = [y.s EXCEPT !.verify = "start"]
                     /\ w = [[y.s EXCEPT !.verifyData = SubSeq(@, s.verifySize + 1, Len(@)),
                                         !.verifyAddress = @ + s.verifySize] EXCEPT !.verify = "range"]
  OBVIOUS
<1>2. \/ x = y
      \/ y.r = "cpl" /\ (x = [s |-> u, r |-> "err"] \/ x = [s |-> w, r |-> "on_going"])
  BY <1>1 DEF VerifyRun, Return
<1>3. Work(y.s, "verify", p, d, c) /\ Others(s, y.s) /\ (y.r # "on_going" => y.s.read = "start")
  BY <1>1, RandomWorks
<1>4. DOMAIN y.s = Fields
  BY <1>3 DEF Work, DriverInv, IsDriver
<1>5. /\ But(y.s, u, Settings) /\ u.verify = "start" /\ But(y.s, w, Settings) /\ w.verify = "range"
      /\ u.read = y.s.read /\ w.read = y.s.read
  BY <1>1, <1>4 DEF But, Fields, Settings, Operations
<1>6. ASSUME y.r = "cpl"
      PROVE  Work(u, "verify", p, d, c) /\ Others(y.s, u) /\ Work(w, "verify", p, d, c) /\ Others(y.s, w)
  <2>1. y.s.read = "start"
    BY <1>3, <1>6
  <2>2. Work(u, "verify", p, d, c) /\ Others(y.s, u)
    BY <1>3, <1>5, <2>1, AsideWorks
  <2>3. Work(w, "verify", p, d, c) /\ Others(y.s, w)
    BY <1>3, <1>5, <2>1, AsideWorks
  <2>. QED
    BY <2>2, <2>3
<1>7. CASE x = y
  BY <1>3, <1>7
<1>8. CASE y.r = "cpl" /\ x = [s |-> u, r |-> "err"]
  BY <1>3, <1>5, <1>6, <1>8 DEF Others
<1>9. CASE y.r = "cpl" /\ x = [s |-> w, r |-> "on_going"]
  BY <1>3, <1>5, <1>6, <1>9 DEF Others
<1>. QED
  BY <1>2, <1>7, <1>8, <1>9

LEMMA VerifyWorks ==
  ASSUME NEW s, NEW p, NEW d, NEW c, Work(s, "verify", p, d, c), NEW q, NEW offset, NEW data,
         NEW x, x = sdf_page_verify(s, q, offset, data)
  PROVE  /\ Work(x.s, "verify", p, d, c) /\ Others(s, x.s)
         /\ x.r \notin {"on_going", "busy"} => x.s.read = "start"
<1>1. DOMAIN s = Fields /\ s.verify \in {"start", "range", "read"}
  BY DEF Work, DriverInv, IsDriver
<1>2. ASSUME NEW t, Work(t, "verify", p, d, c), Others(s, t), NEW y, y = VerifyRun(VerifyPiece(t))
      PROVE  /\ Work(y.s, "verify", p, d, c) /\ Others(s, y.s)
             /\ y.r \notin {"on_going", "busy"} => y.s.read = "start"
  <2>1. PICK u : u = VerifyPiece(t)
    OBVIOUS
  <2>2. But(t, u, Settings) /\ u.verify = "read"
    <3>1. DOMAIN t = Fields
      BY <1>2 DEF Work, DriverInv, IsDriver
    <3>2. PICK n : u = [t EXCEPT !.verify = "read", !.verifySize = n, !.verifyLeft = @ - n]
      BY <2>1 DEF VerifyPiece
    <3>. QED
      BY <3>1, <3>2 DEF But, Fields, Settings
  <2>3. Work(u, "verify", p, d, c) /\ Others(t, u)
    BY <1>2, <2>2, AsideWorks
  <2>4. /\ Work(y.s, "verify", p, d, c) /\ Others(u, y.s)
        /\ y.r \notin {"on_going", "busy"} => y.s.read = "start"
    BY <1>2, <2>1, <2>2, <2>3, VerifyRunWorks
  <2>. QED
    BY <1>2, <2>3, <2>4 DEF Others
<1>0. Work(s, "verify", p, d, c) /\ Others(s, s)
  BY DEF Others
<1>r. s.verify # "read" => s.read = "start"
  BY DEF Work
<1>3. CASE s.verify = "start"
  <2>1. CASE x = Return(s, "err") \/ x = Return(s, "cpl")
    BY <1>0, <1>3, <1>r, <2>1 DEF Return
  <2>2. PICK t : t = [s EXCEPT !.verifyAddress = q * PAGE_SIZE + offset, !.verifyData = data,
                               !.verifyLeft = Len(data)]
    OBVIOUS
  <2>3. But(s, t, Settings) /\ t.verify = s.verify
    BY <1>1, <2>2 DEF But, Fields, Settings
  <2>4. Work(t, "verify", p, d, c) /\ Others(s, t)
    BY <1>1, <1>3, <1>r, <2>3, AsideWorks
  <2>5. CASE x = VerifyRun(VerifyPiece(t))
    BY <1>2, <2>4, <2>5
  <2>. QED
    BY <1>3, <2>1, <2>2, <2>5 DEF sdf_page_verify
<1>4. CASE s.verify = "range"
  <2>1. CASE x = VerifyRun(VerifyPiece(s))
    BY <1>0, <1>2, <2>1
  <2>2. PICK t : t = [s EXCEPT !.verify = "start"]
    OBVIOUS
  <2>3. CASE x = Return(t, "cpl")
    <3>1. But(s, t, Settings) /\ t.verify = "start" /\ t.read = s.read
      BY <1>1, <2>2 DEF But, Fields, Settings, Operations
    <3>2. Work(t, "verify", p, d, c) /\ Others(s, t)
      BY <1>4, <1>r, <3>1, AsideWorks
    <3>. QED
      BY <1>4, <1>r, <2>3, <3>1, <3>2 DEF Return
  <2>. QED
    BY <1>4, <2>1, <2>2, <2>3 DEF sdf_page_verify
<1>5. CASE s.verify = "read"
  <2>1. x = VerifyRun(s)
    BY <1>5 DEF sdf_page_verify
  <2>. QED
    BY <1>5, <2>1, VerifyRunWorks
<1>. QED
  BY <1>1, <1>3, <1>4, <1>5

\* What an erase leaves alone.
LEMMA EraseAside == ASSUME NEW s, NEW t, But(s, t, RunFields("erase"))
                    PROVE  Others(s, t) /\ t.read = s.read /\ t.write = s.write /\ t.verify = s.verify
  BY DEF But, Others, Fields, Operations, Machines, Bus, RunFields

\* A page is erased: its first call, those that send the command, and those that wait.
LEMMA EraseStarts ==
  ASSUME NEW s, NEW p \in Nat, p < PAGES, NEW d, NEW c, Work(s, "erase", p, d, c), s.erase = "start", s.state = "idle",
         NEW t, t = ClaimedFor(s, "erase", "enable"),
         NEW u, u = [CLR_CS([EnableWrite(t).s EXCEPT !.protected = FALSE]) EXCEPT !.erase = "command"]
  PROVE  Work(u, "erase", p, d, c) /\ Others(s, u)
<1>0. DriverInv(s) /\ s.read = "start" /\ s.write = "start" /\ s.cells = c
  BY DEF Work
<1>1. Quiet(s) /\ Clean(s) /\ IsDriver(s) /\ DOMAIN s = Fields
  BY <1>0, IdleIsQuiet DEF DriverInv, IsDriver
<1>2. Goes(s, u)
  <2>1. "erase" \in EraseOps
    BY DEF EraseOps
  <2>. QED
    BY <1>0, <2>1, EraseBegins
<1>3. t = [[s EXCEPT !.state = "busy"] EXCEPT !.erase = "enable"]
  BY DEF ClaimedFor, Claim
<1>4. But(s, t, {"state", "erase"})
  BY <1>1, <1>3 DEF But, Fields, Operations
<1>5. PICK v, w, y : v = EnableWrite(t).s /\ w = [v EXCEPT !.protected = FALSE] /\ y = CLR_CS(w)
  OBVIOUS
<1>6. But(t, v, Bus) /\ v.cells = t.cells /\ v.chipBusy = t.chipBusy /\ (~t.chipBusy => v.wel)
  <2>1. DOMAIN t = Fields /\ v = EnableWrite(t).s
    BY <1>4, <1>5 DEF But
  <2>2. But(t, v, Bus)
    BY <2>1, EnableDoes
  <2>3. v.cells = t.cells /\ v.chipBusy = t.chipBusy /\ (~t.chipBusy => v.wel)
    BY <2>1, EnableKeeps
  <2>. QED
    BY <2>2, <2>3
<1>7. t.cells = c /\ ~t.chipBusy
  BY <1>0, <1>1, <1>4 DEF But, Fields, Bus, Clean
<1>8. But(v, w, {"protected"}) /\ ~w.protected
  BY <1>5, <1>6 DEF But, Fields
<1>9. But(w, y, {"cs", "rx"}) /\ y.cs = "low" /\ y.rx = <<>>
  BY <1>5, <1>8, SelectIs DEF But
<1>a. But(y, u, {"erase"}) /\ u.erase = "command"
  BY <1>5, <1>9 DEF But, Fields, Operations
<1>b. But(s, u, ((({"state", "erase"} \cup Bus) \cup {"protected"}) \cup {"cs", "rx"}) \cup {"erase"})
  BY <1>4, <1>6, <1>8, <1>9, <1>a, ButTwice
<1>c. But(s, u, RunFields("erase"))
  BY <1>b, ButMore DEF RunFields, Bus
<1>d. Others(s, u) /\ u.read = "start" /\ u.write = "start"
  BY <1>0, <1>c, EraseAside
<1>e. s["chip"] = "start" /\ s["wca"] = "start"
  BY <1>1 DEF Quiet, Operations, Machines
<1>f. u.chip = "start" /\ u.wca = "start"
  BY <1>b, <1>e DEF But, Fields, Operations, Machines, Bus
<1>g. u.wel /\ ~u.chipBusy /\ ~u.protected /\ u.cs = "low" /\ u.rx = <<>> /\ u.cells = c
  <2>1. v.wel /\ ~v.chipBusy /\ v.cells = c
    BY <1>6, <1>7
  <2>2. w.wel = v.wel /\ w.chipBusy = v.chipBusy /\ w.cells = v.cells
    BY <1>8 DEF But, Fields, Bus
  <2>3. y.wel = w.wel /\ y.chipBusy = w.chipBusy /\ y.cells = w.cells /\ y.protected = w.protected
    BY <1>9 DEF But, Fields, Bus
  <2>4. u.wel = y.wel /\ u.chipBusy = y.chipBusy /\ u.cells = y.cells /\ u.protected = y.protected /\ u.cs = y.cs /\ u.rx = y.rx
    BY <1>a DEF But, Fields, Bus
  <2>. QED
    BY <1>8, <1>9, <2>1, <2>2, <2>3, <2>4
<1>h. EraseOf(u, p, c)
  BY <1>a, <1>f, <1>g DEF EraseOf, Armed, Sent
<1>. QED
  BY <1>2, <1>a, <1>d, <1>f, <1>h DEF Work, Goes

LEMMA EraseSends ==
  ASSUME NEW s, NEW p \in Nat, NEW d, NEW c, IsCells(c), Work(s, "erase", p, d, c), s.erase = "command",
         NEW y, y = CommandAndAddress(s, "sector_erase", p * PAGE_SIZE),
         NEW v, v = [SET_CS(y.s) EXCEPT !.protected = TRUE, !.erase = "ready"]
  PROVE  /\ Others(s, v) /\ Others(s, y.s)
         /\ IF y.r = "cpl" THEN Work(v, "erase", p, d, c) ELSE Work(y.s, "erase", p, d, c)
<1>0. DriverInv(s) /\ s.read = "start" /\ s.write = "start" /\ EraseOf(s, p, c) /\ DOMAIN s = Fields
  BY DEF Work, DriverInv, IsDriver
<1>1. p < PAGES /\ Armed(s) /\ Sent(s, "sector_erase", p * PAGE_SIZE) /\ s.cells = c
  BY <1>0 DEF EraseOf
<1>2. But(s, y.s, {"rx", "wca", "addressCounter"}) /\ (y.r = "cpl" => y.s.wca = "start")
  BY <1>0, CommandDoes
<1>3. Goes(s, y.s) /\ (y.r = "cpl" => Goes(s, v))
  <2>1. "erase" \in EraseOps /\ s["erase"] = "command" /\ ("erase" = "chip" => FALSE)
    BY DEF EraseOps
  <2>. QED
    BY <1>0, <1>2, <2>1, EraseCommands
<1>4. s.chip = "start"
  <2>1. "erase" \in Operations /\ s["erase"] # "start" /\ "chip" \in Operations
    BY DEF Operations
  <2>2. s["chip"] = "start"
    BY <1>0, <2>1, Owner DEF Only
  <2>. QED
    BY <2>2
<1>5. /\ IF y.r = "cpl" THEN Heard(y.s.rx, "sector_erase", p * PAGE_SIZE, 3) /\ Len(y.s.rx) = 4
         ELSE Sent(y.s, "sector_erase", p * PAGE_SIZE)
  BY <1>0, <1>1, CommandSends
<1>6. Armed(y.s) /\ y.s.cells = c /\ y.s.erase = "command" /\ DOMAIN y.s = Fields
  BY <1>1, <1>2 DEF Armed, But, Fields, Operations, Machines, Bus
<1>7. PICK u : u = SET_CS(y.s)
  OBVIOUS
<1>8. But(y.s, u, Bus)
  BY <1>6, <1>7, DeselectIs
<1>9. But(u, v, {"protected", "erase"}) /\ v.erase = "ready" /\ v.cells = u.cells
  <2>1. DOMAIN u = Fields
    BY <1>8 DEF But
  <2>2. v = [u EXCEPT !.protected = TRUE, !.erase = "ready"]
    BY <1>7
  <2>3. "erase" \in Fields /\ "cells" \in Fields
    BY DEF Fields, Operations, Bus
  <2>4. v.erase = "ready" /\ v.cells = u.cells
    BY <2>1, <2>2, <2>3
  <2>5. DOMAIN v = Fields /\ \A g \in Fields \ {"protected", "erase"} : v[g] = u[g]
    BY <2>1, <2>2
  <2>. QED
    BY <2>4, <2>5 DEF But
<1>a. But(s, v, ({"rx", "wca", "addressCounter"} \cup Bus) \cup {"protected", "erase"})
  <2>1. But(s, u, {"rx", "wca", "addressCounter"} \cup Bus)
    BY <1>2, <1>8, ButTwice
  <2>2. But(u, v, {"protected", "erase"})
    BY <1>9
  <2>. QED
    BY <2>1, <2>2, ButTwice
<1>b. But(s, v, RunFields("erase")) /\ But(s, y.s, RunFields("erase"))
  BY <1>2, <1>a, ButMore DEF RunFields, Bus, Machines
<1>c. Others(s, v) /\ Others(s, y.s) /\ v.read = "start" /\ v.write = "start" /\ y.s.read = "start" /\ y.s.write = "start"
  BY <1>0, <1>b, EraseAside
<1>d. ASSUME y.r = "cpl" PROVE Work(v, "erase", p, d, c)
  <2>1. u.cells = Wiped(c, p)
    BY <1>1, <1>5, <1>6, <1>7, <1>d, EraseEnds DEF Wiped
  <2>2. EraseOf(v, p, c)
    BY <1>1, <1>9, <2>1 DEF EraseOf
  <2>. QED
    BY <1>3, <1>4, <1>9, <1>c, <1>d, <2>2 DEF Work, Others, Goes
<1>e. ASSUME y.r # "cpl" PROVE Work(y.s, "erase", p, d, c)
  <2>1. EraseOf(y.s, p, c)
    BY <1>1, <1>5, <1>6, <1>e DEF EraseOf
  <2>. QED
    BY <1>3, <1>4, <1>6, <1>c, <2>1 DEF Work, Others, Goes
<1>. QED
  BY <1>c, <1>d, <1>e

LEMMA EraseChecks ==
  ASSUME NEW s, NEW p \in Nat, NEW d, NEW c, IsCells(c), Work(s, "erase", p, d, c), s.erase = "ready",
         NEW z, z = CheckDevice(s), NEW w, w = [Release(z.s) EXCEPT !.erase = "start"]
  PROVE  /\ Others(s, w) /\ Others(s, z.s)
         /\ IF z.r = "cpl" THEN p < PAGES /\ Work(w, "none", 0, <<>>, Wiped(c, p)) ELSE Work(z.s, "erase", p, d, c)
<1>0. DriverInv(s) /\ s.read = "start" /\ s.write = "start" /\ EraseOf(s, p, c) /\ DOMAIN s = Fields
  BY DEF Work, DriverInv, IsDriver
<1>1. p < PAGES /\ s.cells = Wiped(c, p)
  BY <1>0 DEF EraseOf
<1>o. "erase" \in Operations /\ "erase" \in EraseOps /\ "erase" \notin ReadOps /\ s["erase"] = "ready" /\ "chip" \in Operations
  BY DEF Operations, EraseOps, ReadOps
<1>2. Only(s, "erase") /\ At(s, "erase")
  BY <1>0, <1>o, Owner
<1>3. s.chip = "start"
  <2>1. s["chip"] = "start"
    BY <1>2, <1>o DEF Only
  <2>. QED
    BY <2>1
<1>4. Checks(s)
  BY <1>2, <1>o DEF At, Erasing
<1>5. But(s, z.s, Bus \cup {"check"}) /\ z.s.cells = s.cells
  BY <1>0, <1>4, CheckDeviceDoes, CheckKeeps
<1>6. IF z.r = "cpl" THEN Goes(s, w) ELSE Goes(s, z.s)
  BY <1>0, <1>o, EraseWaits
<1>7. z.s.erase = "ready" /\ DOMAIN z.s = Fields
  BY <1>5 DEF But, Fields, Operations, Machines, Bus
<1>8. But(z.s, w, {"state", "erase"}) /\ w.erase = "start" /\ w.cells = z.s.cells
  BY <1>7 DEF Release, But, Fields, Operations, Bus
<1>9. But(s, w, (Bus \cup {"check"}) \cup {"state", "erase"})
  BY <1>5, <1>8, ButTwice
<1>a. But(s, w, RunFields("erase")) /\ But(s, z.s, RunFields("erase"))
  BY <1>5, <1>9, ButMore DEF RunFields, Bus, Machines
<1>b. Others(s, w) /\ Others(s, z.s) /\ w.read = "start" /\ w.write = "start" /\ z.s.read = "start" /\ z.s.write = "start"
  BY <1>0, <1>a, EraseAside
<1>c. ASSUME z.r = "cpl" PROVE Work(w, "none", 0, <<>>, Wiped(c, p))
  BY <1>1, <1>3, <1>5, <1>6, <1>8, <1>b, <1>c DEF Work, Others, Goes
<1>d. ASSUME z.r # "cpl" PROVE Work(z.s, "erase", p, d, c)
  <2>1. EraseOf(z.s, p, c)
    BY <1>1, <1>5, <1>7 DEF EraseOf
  <2>. QED
    BY <1>3, <1>6, <1>7, <1>b, <1>d, <2>1 DEF Work, Others, Goes
<1>. QED
  BY <1>1, <1>b, <1>c, <1>d

LEMMA EraseWorks ==
  ASSUME NEW s, NEW p \in Nat, NEW d, NEW c, IsCells(c), Work(s, "erase", p, d, c), NEW x, x = sdf_page_erase(s, p)
  PROVE  /\ Others(s, x.s)
         /\ IF x.r = "cpl" THEN p < PAGES /\ Work(x.s, "none", 0, <<>>, Wiped(c, p)) ELSE Work(x.s, "erase", p, d, c)
         /\ s.state # "idle" /\ s.erase = "start" => x.s = s /\ IsErr(x.r)
<1>0. DriverInv(s) /\ DOMAIN s = Fields /\ s["erase"] = s.erase /\ s.erase \in {"start", "command", "ready"}
  <2>1. "erase" \in EraseOps
    BY DEF EraseOps
  <2>2. DriverInv(s)
    BY DEF Work
  <2>3. s["erase"] \in {"start", "command", "ready"}
    BY <2>1, <2>2, EraseAt
  <2>. QED
    BY <2>2, <2>3 DEF DriverInv, IsDriver
<1>1. PICK t, y, u, v, w, z :
         /\ t = ClaimedFor(s, "erase", "enable")
         /\ y = CommandAndAddress(s, "sector_erase", p * PAGE_SIZE)
         /\ u = [CLR_CS([EnableWrite(t).s EXCEPT !.protected = FALSE]) EXCEPT !.erase = "command"]
         /\ v = [SET_CS(y.s) EXCEPT !.protected = TRUE, !.erase = "ready"]
         /\ z = CheckDevice(s)
         /\ w = [Release(z.s) EXCEPT !.erase = "start"]
  OBVIOUS
<1>2. CASE s.erase = "start"
  <2>1. CASE (~(p < PAGES) \/ s.state # "idle") /\ (x = Return(s, "err") \/ x = Return(s, Refusal(s)))
    <3>1. x.s = s /\ IsErr(x.r) /\ x.r # "cpl"
      BY <2>1 DEF Return, Refusal, IsErr
    <3>. QED
      BY <3>1 DEF Others
  <2>2. CASE p < PAGES /\ s.state = "idle" /\ x = EraseRun(t, "erase", LAMBDA r : CommandAndAddress(r, "sector_erase", p * PAGE_SIZE))
    <3>1. t["erase"] = "enable"
      BY <1>0, <1>1 DEF ClaimedFor, Claim, Fields, Operations
    <3>2. x = [s |-> u, r |-> "on_going"]
      BY <1>1, <2>2, <3>1 DEF EraseRun, Return
    <3>3. Work(u, "erase", p, d, c) /\ Others(s, u)
      BY <1>1, <1>2, <2>2, EraseStarts
    <3>. QED
      BY <2>2, <3>2, <3>3
  <2>3. PAGES \in Nat
    BY Sizes
  <2>. QED
    BY <1>0, <1>1, <1>2, <2>1, <2>2, <2>3 DEF sdf_page_erase, EraseCall, ClaimedFor
<1>3. CASE s.erase = "command"
  <2>1. x = [s |-> IF y.r = "cpl" THEN v ELSE y.s, r |-> "on_going"]
    BY <1>0, <1>1, <1>3 DEF sdf_page_erase, EraseCall, EraseRun, Return
  <2>2. /\ Others(s, v) /\ Others(s, y.s)
        /\ IF y.r = "cpl" THEN Work(v, "erase", p, d, c) ELSE Work(y.s, "erase", p, d, c)
    BY <1>1, <1>3, EraseSends
  <2>. QED
    BY <1>3, <2>1, <2>2
<1>4. CASE s.erase = "ready"
  <2>1. x = IF z.r = "cpl" THEN [s |-> w, r |-> "cpl"] ELSE z
    BY <1>0, <1>1, <1>4 DEF sdf_page_erase, EraseCall, EraseRun, Return
  <2>2. /\ Others(s, w) /\ Others(s, z.s)
        /\ IF z.r = "cpl" THEN p < PAGES /\ Work(w, "none", 0, <<>>, Wiped(c, p)) ELSE Work(z.s, "erase", p, d, c)
    BY <1>1, <1>4, EraseChecks
  <2>. QED
    BY <1>4, <2>1, <2>2
<1>. QED
  BY <1>0, <1>2, <1>3, <1>4

-----------------------------------------------------------------------------
(* A page is written. *)

\* The same, with the address of the unit at hand.
LEMMA UnitAt ==
  ASSUME NEW s, NEW p \in Nat, NEW d, NEW c, NEW k, Unit(s, p, d, c, k)
  PROVE  LET a == p * PAGE_SIZE + k * PROGRAM_SIZE
         IN /\ p < PAGES /\ k \in Nat /\ k < PROGRAMS /\ a \in Nat /\ a < FLASH_SIZE
            /\ (p * PROGRAMS + k) * PROGRAM_SIZE = a
            /\ k * PROGRAM_SIZE \in Nat /\ PAGE_SIZE - k * PROGRAM_SIZE >= PROGRAM_SIZE
<1>1. p < PAGES /\ k \in Nat /\ k < PROGRAMS
  BY DEF Unit
<1>2. PICK b, m : b = p * PAGE_SIZE /\ m = k * PROGRAM_SIZE
  OBVIOUS
<1>3. b \in Nat /\ b + PAGE_SIZE <= FLASH_SIZE
  BY <1>1, <1>2, PageIs
<1>4. m \in Nat /\ m + PROGRAM_SIZE <= PAGE_SIZE
  BY <1>1, <1>2, UnitIs
<1>5. (p * PROGRAMS + k) * PROGRAM_SIZE = b + m
  BY <1>1, <1>2, UnitIs
<1>6. PAGE_SIZE \in Nat /\ FLASH_SIZE \in Nat /\ PROGRAM_SIZE \in Nat \ {0}
  BY Sizes
<1>7. b + m \in Nat /\ b + m < FLASH_SIZE /\ PAGE_SIZE - m >= PROGRAM_SIZE
  BY <1>3, <1>4, <1>6
<1>. QED
  BY <1>1, <1>2, <1>4, <1>5, <1>7

\* u is what d has behind its first b bytes.
IsPart(u, d, b) == IsSeq(u) /\ Len(u) = PROGRAM_SIZE /\ \A i \in 1 .. PROGRAM_SIZE : u[i] = d[b + i]

\* The unit to be programmed is the head of what is left.
LEMMA HeadUnit ==
  ASSUME NEW s, NEW p \in Nat, NEW d, NEW c, NEW k \in Nat, Unit(s, p, d, c, k), NEW u, u = SubSeq(s.page, 1, PROGRAM_SIZE),
         NEW b, b = k * PROGRAM_SIZE
  PROVE  IsPart(u, d, b)
<1>1. PICK n, z : n = PROGRAM_SIZE /\ z = PAGE_SIZE
  OBVIOUS
<1>2. IsSeq(s.page) /\ Len(s.page) = z - b /\ \A i \in 1 .. z - b : s.page[i] = d[b + i]
  BY <1>1 DEF Unit
<1>3. b \in Nat /\ n \in Nat \ {0} /\ z \in Nat /\ z - b >= n
  BY <1>1, Sizes, UnitAt
<1>4. 1 \in Nat \ {0} /\ n \in Nat /\ n <= Len(s.page)
  BY <1>2, <1>3
<1>5. u = SubSeq(s.page, 1, n)
  BY <1>1
<1>6. /\ IsSeq(u) /\ Len(u) = IF 1 <= n THEN n - 1 + 1 ELSE 0
      /\ \A i \in 1 .. n - 1 + 1 : u[i] = s.page[1 + i - 1]
  <2>1. PICK q : q = s.page
    OBVIOUS
  <2>2. IsSeq(q) /\ n <= Len(q) /\ u = SubSeq(q, 1, n)
    BY <1>2, <1>4, <1>5, <2>1
  <2>3. 1 \in Nat \ {0} /\ n \in Nat
    BY <1>3
  <2>4. /\ IsSeq(SubSeq(q, 1, n)) /\ Len(SubSeq(q, 1, n)) = IF 1 <= n THEN n - 1 + 1 ELSE 0
        /\ \A i \in 1 .. n - 1 + 1 : SubSeq(q, 1, n)[i] = q[1 + i - 1]
    BY <2>2, <2>3, PartIs
  <2>. QED
    BY <2>1, <2>2, <2>4
<1>7. n - 1 + 1 = n /\ 1 <= n /\ \A i \in 1 .. n : 1 + i - 1 = i /\ i \in 1 .. z - b
  BY <1>3
<1>8. IsSeq(u) /\ Len(u) = n /\ \A i \in 1 .. n : u[i] = s.page[1 + i - 1]
  BY <1>6, <1>7
<1>9. \A i \in 1 .. n : u[i] = d[b + i]
  <2>1. ASSUME NEW i \in 1 .. n PROVE u[i] = d[b + i]
    <3>1. 1 + i - 1 = i /\ i \in 1 .. z - b
      BY <1>7
    <3>2. s.page[i] = d[b + i]
      BY <1>2, <3>1
    <3>3. u[i] = s.page[1 + i - 1]
      BY <1>8
    <3>. QED
      BY <3>1, <3>2, <3>3
  <2>. QED
    BY <2>1
<1>. QED
  BY <1>1, <1>8, <1>9 DEF IsPart

\* Programming a unit.
UnitCall(s, p, k) == PageProgram(s, p * PROGRAMS + k, SubSeq(s.page, 1, PROGRAM_SIZE))

LEMMA UnitWorks ==
  ASSUME NEW s, DOMAIN s = Fields, Programming(s), NEW p \in Nat, NEW d, NEW c, IsWiped(c, p), NEW k, Unit(s, p, d, c, k),
         NEW x, x = UnitCall(s, p, k)
  PROVE  /\ x.s.page = s.page
         /\ IF x.r = "cpl" THEN Painted(x.s.cells, c, p, d, k + 1) ELSE Unit(x.s, p, d, c, k)
<1>0. PICK a, b : a = p * PAGE_SIZE + k * PROGRAM_SIZE /\ b = k * PROGRAM_SIZE
  OBVIOUS
<1>m. PICK u, m : u = SubSeq(s.page, 1, PROGRAM_SIZE) /\ m = p * PROGRAMS + k
  OBVIOUS
<1>x. x = PageProgram(s, m, u)
  BY <1>m DEF UnitCall
<1>h. IsSeq(u) /\ Len(u) = PROGRAM_SIZE /\ \A i \in 1 .. PROGRAM_SIZE : u[i] = d[b + i]
  <2>0. b = k * PROGRAM_SIZE
    BY <1>0
  <2>1. Unit(s, p, d, c, k) /\ u = SubSeq(s.page, 1, PROGRAM_SIZE) /\ p \in Nat /\ k \in Nat
    BY <1>m DEF Unit
  <2>2. IsPart(u, d, b)
    BY <2>0, <2>1, HeadUnit
  <2>. QED
    BY <2>2 DEF IsPart
<1>1. /\ p < PAGES /\ k \in Nat /\ k < PROGRAMS /\ a \in Nat /\ a < FLASH_SIZE /\ b \in Nat
      /\ m * PROGRAM_SIZE = a
  BY <1>0, <1>m, UnitAt
<1>2. /\ IsSeq(s.page) /\ Len(s.page) = PAGE_SIZE - k * PROGRAM_SIZE
      /\ \A i \in 1 .. PAGE_SIZE - k * PROGRAM_SIZE : s.page[i] = d[k * PROGRAM_SIZE + i]
      /\ Painted(s.cells, c, p, d, IF s.prog = "check" THEN k + 1 ELSE k)
      /\ s.prog = "start" => ~s.chipBusy
      /\ s.prog = "command" => Armed(s) /\ Sent(s, "program", a)
      /\ s.prog = "data" => Armed(s) /\ Stuffed(s, a, d, b)
  BY <1>0 DEF Unit
<1>u. ASSUME NEW t, t.page = s.page, Painted(t.cells, c, p, d, IF t.prog = "check" THEN k + 1 ELSE k),
             t.prog = "start" => ~t.chipBusy,
             t.prog = "command" => Armed(t) /\ Sent(t, "program", a),
             t.prog = "data" => Armed(t) /\ Stuffed(t, a, d, b)
      PROVE  Unit(t, p, d, c, k)
  BY <1>0, <1>1, <1>2, <1>u DEF Unit
<1>3. CASE s.prog = "start"
  <2>1. PICK t, v, w, y : /\ t = EnableWrite(s).s /\ v = [t EXCEPT !.protected = FALSE] /\ w = CLR_CS(v)
                          /\ y = [w EXCEPT !.prog = "command"]
    OBVIOUS
  <2>2. x = [s |-> y, r |-> "on_going"]
    BY <1>3, <1>x, <2>1 DEF PageProgram, Return
  <2>3. But(s, t, Bus) /\ t.cells = s.cells /\ t.chipBusy = s.chipBusy /\ (~s.chipBusy => t.wel)
    <3>1. But(s, t, Bus)
      BY <2>1, EnableDoes
    <3>2. t.cells = s.cells /\ t.chipBusy = s.chipBusy /\ (~s.chipBusy => t.wel)
      BY <2>1, EnableKeeps
    <3>. QED
      BY <3>1, <3>2
  <2>4. But(t, v, {"protected"}) /\ ~v.protected
    BY <2>1, <2>3 DEF But, Fields
  <2>5. But(v, w, {"cs", "rx"}) /\ w.cs = "low" /\ w.rx = <<>>
    BY <2>1, <2>4, SelectIs DEF But
  <2>6. But(w, y, {"prog"}) /\ y.prog = "command"
    BY <2>1, <2>5 DEF But, Fields, Machines
  <2>7. But(s, y, ((Bus \cup {"protected"}) \cup {"cs", "rx"}) \cup {"prog"})
    BY <2>3, <2>4, <2>5, <2>6, ButTwice
  <2>8. y.page = s.page /\ y.wca = s.wca
    BY <2>7 DEF But, Fields, Machines, Bus
  <2>9. y.wel /\ ~y.chipBusy /\ ~y.protected /\ y.cs = "low" /\ y.rx = <<>> /\ y.cells = s.cells
    <3>1. t.wel /\ ~t.chipBusy
      BY <1>2, <1>3, <2>3
    <3>2. v.wel = t.wel /\ v.chipBusy = t.chipBusy /\ v.cells = t.cells
      BY <2>4 DEF But, Fields, Bus
    <3>3. w.wel = v.wel /\ w.chipBusy = v.chipBusy /\ w.cells = v.cells /\ w.protected = v.protected
      BY <2>5 DEF But, Fields, Bus
    <3>4. y.wel = w.wel /\ y.chipBusy = w.chipBusy /\ y.cells = w.cells /\ y.protected = w.protected /\ y.cs = w.cs /\ y.rx = w.rx
      BY <2>6 DEF But, Fields, Bus
    <3>. QED
      BY <2>3, <2>4, <2>5, <3>1, <3>2, <3>3, <3>4
  <2>a. s.wca = "start"
    BY <1>3 DEF Programming
  <2>b. Armed(y) /\ Sent(y, "program", a)
    BY <2>8, <2>9, <2>a DEF Armed, Sent
  <2>c. Painted(y.cells, c, p, d, IF y.prog = "check" THEN k + 1 ELSE k)
    BY <1>2, <1>3, <2>6, <2>9
  <2>d. Unit(y, p, d, c, k)
    BY <1>u, <2>6, <2>8, <2>b, <2>c
  <2>. QED
    BY <2>2, <2>8, <2>d
<1>4. CASE s.prog = "command"
  <2>1. PICK y, w : y = CommandAndAddress(s, "program", a) /\ w = [y.s EXCEPT !.prog = "data"]
    OBVIOUS
  <2>2. x = IF y.r = "cpl" THEN [s |-> w, r |-> "on_going"] ELSE [s |-> y.s, r |-> "on_going"]
    BY <1>1, <1>4, <1>x, <2>1 DEF PageProgram, Return
  <2>3. But(s, y.s, {"rx", "wca", "addressCounter"})
    BY <2>1, CommandDoes
  <2>4. /\ y.s.cs = "low"
        /\ IF y.r = "cpl" THEN Heard(y.s.rx, "program", a, 3) /\ Len(y.s.rx) = 4 ELSE Sent(y.s, "program", a)
    BY <1>2, <1>4, <2>1, CommandSends
  <2>5. But(y.s, w, {"prog"}) /\ w.prog = "data"
    BY <2>1, <2>3 DEF But, Fields, Machines
  <2>6. s.stream = "start"
    BY <1>4 DEF Programming
  <2>7. y.s.prog = "command" /\ y.s.page = s.page /\ y.s.cells = s.cells /\ y.s.stream = "start" /\ Armed(y.s)
    BY <1>2, <1>4, <2>3, <2>6 DEF Armed, But, Fields, Machines, Bus
  <2>8. w.page = s.page /\ w.cells = s.cells /\ w.stream = "start" /\ Armed(w) /\ w.cs = y.s.cs /\ w.rx = y.s.rx
    BY <2>5, <2>7 DEF Armed, But, Fields, Machines, Bus
  <2>9. ASSUME y.r = "cpl" PROVE Unit(w, p, d, c, k)
    <3>1. Stuffed(w, a, d, b)
      BY <2>4, <2>8, <2>9 DEF Stuffed
    <3>2. Painted(w.cells, c, p, d, IF w.prog = "check" THEN k + 1 ELSE k)
      BY <1>2, <1>4, <2>5, <2>8
    <3>. QED
      BY <1>u, <2>5, <2>8, <3>1, <3>2
  <2>a. ASSUME y.r # "cpl" PROVE Unit(y.s, p, d, c, k)
    <3>2. Painted(y.s.cells, c, p, d, IF y.s.prog = "check" THEN k + 1 ELSE k)
      BY <1>2, <1>4, <2>7
    <3>. QED
      BY <1>u, <2>4, <2>7, <2>a, <3>2
  <2>. QED
    BY <2>2, <2>7, <2>8, <2>9, <2>a
<1>5. CASE s.prog = "data"
  <2>1. PICK y, t, w : /\ y = StreamOut(s, u) /\ t = SET_CS(y.s)
                       /\ w = [t EXCEPT !.protected = TRUE, !.prog = "check"]
    OBVIOUS
  <2>2. x = IF y.r = "cpl" THEN [s |-> w, r |-> "on_going"] ELSE [s |-> y.s, r |-> "on_going"]
    BY <1>5, <1>x, <2>1 DEF PageProgram, Return
  <2>3. But(s, y.s, {"rx", "stream", "counter", "out"})
    BY <2>1, StreamOutDoes
  <2>4. IsSeq(u) /\ Len(u) = PROGRAM_SIZE /\ \A i \in 1 .. PROGRAM_SIZE : u[i] = d[b + i]
    BY <1>0, <1>h
  <2>5. IF y.r = "cpl" THEN HasUnit(y.s, a, d, b) ELSE Stuffed(y.s, a, d, b)
    <3>1. Stuffed(s, a, d, b)
      BY <1>2, <1>5
    <3>. QED
      BY <1>1, <2>1, <2>4, <3>1, StreamOutSends
  <2>6. y.s.prog = "data" /\ y.s.page = s.page /\ y.s.cells = s.cells /\ Armed(y.s) /\ DOMAIN y.s = Fields
    BY <1>2, <1>5, <2>3 DEF Armed, But, Fields, Machines, Bus
  <2>7. But(y.s, t, Bus)
    BY <2>1, <2>6, DeselectIs
  <2>8. But(t, w, {"protected", "prog"}) /\ w.prog = "check"
    <3>1. DOMAIN t = Fields
      BY <2>7 DEF But
    <3>. QED
      BY <2>1, <3>1 DEF But, Fields, Machines
  <2>9. w.page = s.page /\ w.cells = t.cells
    BY <2>6, <2>7, <2>8 DEF But, Fields, Machines, Bus
  <2>a. ASSUME y.r = "cpl" PROVE Unit(w, p, d, c, k)
    <3>1. PICK q, v : q = y.s.rx /\ v = SubSeq(q, 5, Len(q))
      OBVIOUS
    <3>2. /\ Heard(q, "program", a, 3) /\ Len(q) = 4 + PROGRAM_SIZE /\ IsSeq(q)
          /\ \A i \in 1 .. PROGRAM_SIZE : q[4 + i] = d[b + i]
      BY <2>5, <2>a, <3>1 DEF HasUnit, Heard
    <3>n. PROGRAM_SIZE \in Nat \ {0}
      BY Sizes
    <3>3. Len(q) > 4 /\ Len(q) \in Nat
      BY <3>2, <3>n
    <3>4. t.cells = Program(y.s.cells, a, v)
      BY <1>1, <2>1, <2>6, <3>1, <3>2, <3>3, ProgramEnds
    <3>5. IsSeq(v) /\ Len(v) = PROGRAM_SIZE /\ \A i \in 1 .. PROGRAM_SIZE : v[i] = d[b + i]
      <4>1. 5 \in Nat \ {0} /\ Len(q) <= Len(q)
        BY <3>3
      <4>2. /\ IsSeq(v) /\ Len(v) = IF 5 <= Len(q) THEN Len(q) - 5 + 1 ELSE 0
            /\ \A i \in 1 .. Len(q) - 5 + 1 : v[i] = q[5 + i - 1]
        BY <3>1, <3>2, <3>3, <4>1, PartIs
      <4>3. Len(q) - 5 + 1 = PROGRAM_SIZE /\ 5 <= Len(q) /\ \A i \in 1 .. PROGRAM_SIZE : 5 + i - 1 = 4 + i
        BY <3>2, <3>n
      <4>. QED
        BY <3>2, <4>2, <4>3
    <3>6. Painted(s.cells, c, p, d, k)
      BY <1>2, <1>5
    <3>7. Painted(Program(s.cells, a, v), c, p, d, k + 1)
      BY <1>0, <1>1, <3>5, <3>6, ProgramPaints
    <3>8. Painted(w.cells, c, p, d, IF w.prog = "check" THEN k + 1 ELSE k)
      BY <2>6, <2>8, <2>9, <3>4, <3>7
    <3>. QED
      BY <1>u, <2>8, <2>9, <3>8
  <2>b. ASSUME y.r # "cpl" PROVE Unit(y.s, p, d, c, k)
    <3>1. Painted(y.s.cells, c, p, d, IF y.s.prog = "check" THEN k + 1 ELSE k)
      BY <1>2, <1>5, <2>6
    <3>. QED
      BY <1>u, <2>5, <2>6, <2>b, <3>1
  <2>. QED
    BY <2>2, <2>6, <2>9, <2>a, <2>b
<1>6. CASE s.prog = "check"
  <2>1. PICK y, w : y = CheckDevice(s) /\ w = [y.s EXCEPT !.prog = "start"]
    OBVIOUS
  <2>2. x = IF y.r = "cpl" THEN [s |-> w, r |-> "cpl"] ELSE y
    BY <1>6, <1>x, <2>1 DEF PageProgram, Return
  <2>3. Checks(s)
    BY <1>6 DEF Programming
  <2>4. But(s, y.s, Bus \cup {"check"}) /\ y.s.cells = s.cells
    BY <2>1, <2>3, CheckDeviceDoes, CheckKeeps
  <2>5. y.s.prog = "check" /\ y.s.page = s.page /\ DOMAIN y.s = Fields
    BY <1>6, <2>4 DEF But, Fields, Machines, Bus
  <2>6. w.page = s.page /\ w.cells = s.cells
    BY <2>1, <2>4, <2>5 DEF Fields, Machines, Bus
  <2>7. Painted(s.cells, c, p, d, k + 1)
    BY <1>2, <1>6
  <2>8. Unit(y.s, p, d, c, k)
    <3>1. Painted(y.s.cells, c, p, d, IF y.s.prog = "check" THEN k + 1 ELSE k)
      BY <2>4, <2>5, <2>7
    <3>. QED
      BY <1>u, <2>5, <3>1
  <2>. QED
    BY <2>2, <2>5, <2>6, <2>7, <2>8
<1>. QED
  BY <1>3, <1>4, <1>5, <1>6 DEF Programming

\* What a write leaves alone.
LEMMA WriteAside == ASSUME NEW s, NEW t, But(s, t, RunFields("write"))
                    PROVE  Others(s, t) /\ t.read = s.read /\ t.erase = s.erase /\ t.verify = s.verify
  BY DEF But, Others, Fields, Operations, Machines, Bus, RunFields

\* The unit behind this one.
LEMMA NextUnit ==
  ASSUME NEW s, NEW p \in Nat, NEW d, NEW c, NEW k \in Nat, Unit(s, p, d, c, k), k + 1 < PROGRAMS,
         NEW t, t.page = SubSeq(s.page, PROGRAM_SIZE + 1, Len(s.page)), t.prog = "start", ~t.chipBusy,
         Painted(t.cells, c, p, d, k + 1)
  PROVE  Unit(t, p, d, c, k + 1)
<1>1. PICK b, n, z, q, r, e : /\ b = k * PROGRAM_SIZE /\ n = PROGRAM_SIZE /\ z = PAGE_SIZE /\ q = s.page /\ r = t.page
                              /\ e = (k + 1) * PROGRAM_SIZE
  OBVIOUS
<1>2. p < PAGES /\ IsSeq(q) /\ Len(q) = z - b /\ \A i \in 1 .. z - b : q[i] = d[b + i]
  BY <1>1 DEF Unit
<1>3. b \in Nat /\ n \in Nat \ {0} /\ z \in Nat /\ z - b >= n
  BY <1>1, Sizes, UnitAt
<1>4. e = b + n
  <2>1. k < PROGRAMS
    BY DEF Unit
  <2>2. (k + 1) * PROGRAM_SIZE = k * PROGRAM_SIZE + PROGRAM_SIZE
    BY <2>1, UnitIs
  <2>. QED
    BY <1>1, <2>2
<1>5. r = SubSeq(q, n + 1, Len(q))
  BY <1>1
<1>6. n + 1 \in Nat \ {0} /\ Len(q) \in Nat /\ Len(q) <= Len(q)
  BY <1>2, <1>3
<1>7. /\ IsSeq(r) /\ Len(r) = IF n + 1 <= Len(q) THEN Len(q) - (n + 1) + 1 ELSE 0
      /\ \A i \in 1 .. Len(q) - (n + 1) + 1 : r[i] = q[n + 1 + i - 1]
  BY <1>2, <1>5, <1>6, PartIs
<1>n. Len(q) = z - b
  BY <1>2
<1>8. Len(q) - (n + 1) + 1 = z - e /\ Len(r) = z - e
  BY <1>3, <1>4, <1>7, <1>n
<1>9. ASSUME NEW i \in 1 .. z - e PROVE r[i] = d[e + i]
  <2>1. n + 1 + i - 1 = n + i /\ n + i \in 1 .. z - b /\ b + (n + i) = e + i
    BY <1>3, <1>4
  <2>2. r[i] = q[n + i]
    BY <1>7, <1>8, <2>1
  <2>3. q[n + i] = d[b + (n + i)]
    BY <1>2, <2>1
  <2>. QED
    BY <2>1, <2>2, <2>3
<1>a. /\ IsSeq(t.page) /\ Len(t.page) = PAGE_SIZE - (k + 1) * PROGRAM_SIZE
      /\ \A i \in 1 .. PAGE_SIZE - (k + 1) * PROGRAM_SIZE : t.page[i] = d[(k + 1) * PROGRAM_SIZE + i]
  BY <1>1, <1>7, <1>8, <1>9
<1>b. k + 1 \in Nat /\ t.prog # "check" /\ t.prog # "command" /\ t.prog # "data"
  OBVIOUS
<1>c. Painted(t.cells, c, p, d, IF t.prog = "check" THEN k + 1 + 1 ELSE k + 1)
  BY <1>b
<1>. QED
  BY <1>2, <1>a, <1>b, <1>c, Zenon DEF Unit

LEMMA WriteRunWorks ==
  ASSUME NEW s, IsDriver(s), Only(s, "write"), s.state = "busy", s.write = "write_page", Programming(s),
         NEW p \in Nat, NEW d, NEW c, IsWiped(c, p), WriteOf(s, p, d, c), NEW x, x = PageWriteRun(s, p)
  PROVE  /\ Others(s, x.s)
         /\ IF x.r = "cpl" THEN Work(x.s, "none", 0, <<>>, Filled(c, p, d)) ELSE Work(x.s, "write", p, d, c)
<1>0. DOMAIN s = Fields /\ "write" \in Operations
  BY DEF IsDriver, Operations
<1>k. PICK k : k = s.programIndex
  OBVIOUS
<1>1. PICK data, y, t, w :
         /\ data = SubSeq(s.page, 1, PROGRAM_SIZE)
         /\ y = PageProgram(s, p * PROGRAMS + k, data)
         /\ t = [y.s EXCEPT !.programIndex = @ + 1, !.page = SubSeq(@, PROGRAM_SIZE + 1, Len(@))]
         /\ w = [[t EXCEPT !.state = "idle"] EXCEPT !.write = "start"]
  OBVIOUS
<1>2. x = IF y.r = "on_going" THEN y
          ELSE IF t.programIndex >= PROGRAMS THEN [s |-> w, r |-> "cpl"] ELSE [s |-> t, r |-> "on_going"]
  BY <1>1, <1>k, Zenon DEF PageWriteRun, Return, Release
<1>3. Unit(s, p, d, c, k) /\ k \in Nat /\ k < PROGRAMS
  BY <1>k DEF WriteOf, Unit
<1>4. /\ y.s.page = s.page
      /\ IF y.r = "cpl" THEN Painted(y.s.cells, c, p, d, k + 1) ELSE Unit(y.s, p, d, c, k)
  <2>1. y = UnitCall(s, p, k)
    BY <1>1 DEF UnitCall
  <2>2. DOMAIN s = Fields /\ Unit(s, p, d, c, k)
    BY <1>0, <1>3
  <2>. QED
    BY <2>1, <2>2, UnitWorks
<1>5. /\ But(s, y.s, Bus \cup Machines \cup {"protected", "addressCounter", "counter", "out"})
      /\ \/ y.r = "on_going" /\ Programming(y.s)
         \/ y.r = "cpl" /\ Clean(y.s) /\ \A m \in Machines : y.s[m] = "start"
  <2>1. PICK unit : unit = p * PROGRAMS + k
    OBVIOUS
  <2>2. y = PageProgram(s, unit, data)
    BY <1>1, <2>1
  <2>3. /\ But(s, y.s, Bus \cup Machines \cup {"protected", "addressCounter", "counter", "out"})
        /\ \/ y.r = "on_going" /\ Programming(y.s)
           \/ /\ y.r = "cpl" /\ Clean(y.s) /\ y.s.cs = "high" /\ y.s.protected
              /\ \A m \in Machines : y.s[m] = "start"
    BY <1>0, <2>2, ProgramDoes
  <2>. QED
    BY <2>3
<1>6. DOMAIN y.s = Fields /\ y.s.programIndex = k /\ y.s.write = "write_page"
  BY <1>5, <1>k DEF But, Fields, Operations, Machines, Bus
<1>7. /\ But(y.s, t, {"programIndex", "page"}) /\ t.programIndex = k + 1
      /\ t.page = SubSeq(y.s.page, PROGRAM_SIZE + 1, Len(y.s.page))
  BY <1>1, <1>6 DEF But, Fields
<1>8. But(t, w, {"state", "write"}) /\ w.write = "start"
  BY <1>1, <1>7 DEF But, Fields, Operations
<1>9. But(s, y.s, RunFields("write")) /\ But(s, t, RunFields("write")) /\ But(s, w, RunFields("write"))
  <2>1. But(s, y.s, RunFields("write"))
    BY <1>5, ButMore DEF RunFields
  <2>2. But(s, t, RunFields("write") \cup {"programIndex", "page"})
    BY <1>7, <2>1, ButTwice
  <2>3. But(s, w, (RunFields("write") \cup {"programIndex", "page"}) \cup {"state", "write"})
    BY <1>8, <2>2, ButTwice
  <2>4. But(s, t, RunFields("write"))
    BY <2>2, ButMore DEF RunFields
  <2>5. But(s, w, RunFields("write"))
    BY <2>3, ButMore DEF RunFields
  <2>. QED
    BY <2>1, <2>4, <2>5
<1>a. /\ s.chip = "start" /\ s.read = "start" /\ s.erase = "start"
  <2>1. s["chip"] = "start" /\ s["read"] = "start" /\ s["erase"] = "start"
    BY DEF Only, Operations
  <2>. QED
    BY <2>1
<1>b. /\ Others(s, y.s) /\ y.s.chip = "start" /\ y.s.read = "start" /\ y.s.erase = "start"
  BY <1>9, <1>a, WriteAside DEF Others
<1>c. Others(s, t) /\ t.chip = "start" /\ t.read = "start" /\ t.erase = "start"
  BY <1>9, <1>a, WriteAside DEF Others
<1>d. Others(s, w) /\ w.chip = "start" /\ w.read = "start" /\ w.erase = "start"
  BY <1>9, <1>a, WriteAside DEF Others
<1>e. DriverInv(x.s)
  BY WriteRunGoes DEF Goes
<1>f. CASE y.r = "on_going"
  <2>1. x = y /\ Unit(y.s, p, d, c, k) /\ x.r # "cpl"
    BY <1>2, <1>4, <1>f
  <2>2. WriteOf(y.s, p, d, c)
    BY <1>6, <2>1 DEF WriteOf
  <2>. QED
    BY <1>6, <1>b, <1>e, <2>1, <2>2 DEF Work
<1>g. CASE y.r = "cpl" /\ k + 1 >= PROGRAMS
  <2>1. x = [s |-> w, r |-> "cpl"]
    BY <1>2, <1>7, <1>g
  <2>2. k + 1 = PROGRAMS
    BY <1>3, <1>g, Sizes
  <2>3. y.s.cells = Filled(c, p, d)
    BY <1>4, <1>g, <2>2, PaintedAll
  <2>4. w.cells = y.s.cells
    BY <1>7, <1>8 DEF But, Fields, Bus
  <2>. QED
    BY <1>8, <1>d, <1>e, <2>1, <2>3, <2>4 DEF Work
<1>h. CASE y.r = "cpl" /\ ~(k + 1 >= PROGRAMS)
  <2>1. x = [s |-> t, r |-> "on_going"]
    BY <1>2, <1>7, <1>h
  <2>2. t.cells = y.s.cells /\ t.prog = "start" /\ ~t.chipBusy /\ t.write = "write_page"
    <3>1. y.s["prog"] = "start" /\ ~y.s.chipBusy
      BY <1>5, <1>h DEF Clean, Machines
    <3>. QED
      BY <1>6, <1>7, <3>1 DEF But, Fields, Bus, Machines, Operations
  <2>3. k + 1 < PROGRAMS
    BY <1>3, <1>h, Sizes
  <2>4. Painted(t.cells, c, p, d, k + 1) /\ t.page = SubSeq(s.page, PROGRAM_SIZE + 1, Len(s.page))
    BY <1>4, <1>7, <1>h, <2>2
  <2>5. Unit(t, p, d, c, k + 1)
    BY <1>3, <2>2, <2>3, <2>4, NextUnit
  <2>6. WriteOf(t, p, d, c)
    BY <1>7, <2>5 DEF WriteOf
  <2>. QED
    BY <1>c, <1>e, <2>1, <2>2, <2>6 DEF Work
<1>. QED
  BY <1>5, <1>f, <1>g, <1>h

LEMMA WriteWorks ==
  ASSUME NEW s, NEW p \in Nat, NEW d, IsSeq(d), Len(d) = PAGE_SIZE, NEW c, IsCells(c), IsWiped(c, p),
         Work(s, "write", p, d, c), NEW x, x = sdf_page_write(s, p, d)
  PROVE  /\ Others(s, x.s)
         /\ IF x.r = "cpl" THEN Work(x.s, "none", 0, <<>>, Filled(c, p, d)) ELSE Work(x.s, "write", p, d, c)
         /\ s.state # "idle" /\ s.write = "start" => x.s = s /\ IsErr(x.r)
<1>0. DriverInv(s) /\ "write" \in Operations /\ IsDriver(s) /\ DOMAIN s = Fields
  BY DEF Work, DriverInv, IsDriver, Operations
<1>1. CASE s.write # "start"
  <2>1. s["write"] # "start"
    BY <1>1
  <2>2. s.state = "busy" /\ Only(s, "write") /\ At(s, "write")
    BY <1>0, <2>1, Owner
  <2>3. s.write = "write_page" /\ Programming(s)
    BY <2>2 DEF At, ReadOps, EraseOps
  <2>4. x = PageWriteRun(s, p) /\ WriteOf(s, p, d, c)
    BY <1>1 DEF sdf_page_write, Work
  <2>. QED
    BY <1>0, <1>1, <2>2, <2>3, <2>4, WriteRunWorks
<1>2. CASE s.write = "start" /\ ~(p < PAGES /\ s.state = "idle")
  <2>0. PAGES \in Nat
    BY Sizes
  <2>1. x = Return(s, "err") \/ x = Return(s, Refusal(s))
    BY <1>2, <2>0 DEF sdf_page_write
  <2>2. x.s = s /\ IsErr(x.r) /\ x.r # "cpl"
    BY <2>1 DEF Return, Refusal, IsErr
  <2>. QED
    BY <2>2 DEF Others
<1>3. CASE s.write = "start" /\ p < PAGES /\ s.state = "idle"
  <2>1. PICK t, u : /\ t = ClaimedFor(s, "write", "write_page")
                    /\ u = [t EXCEPT !.programIndex = 0, !.page = d]
    OBVIOUS
  <2>2. Quiet(s) /\ Clean(s)
    BY <1>0, <1>3, IdleIsQuiet
  <2>3. /\ IsDriver(t) /\ t.state = "busy" /\ t["write"] = "write_page" /\ Only(t, "write")
        /\ \A m \in Machines : t[m] = "start"
    BY <1>0, <2>1, <2>2, Claimed
  <2>4. But(t, u, {"programIndex", "page"}) /\ u.programIndex = 0 /\ u.page = d
    BY <2>1, <2>3 DEF But, Fields, IsDriver
  <2>5. IsDriver(u) /\ u.state = "busy" /\ u.write = "write_page"
    BY <2>3, <2>4 DEF But, IsDriver, Fields, Operations
  <2>6. Only(u, "write")
    BY <2>3, <2>4 DEF But, Only, Fields, Operations
  <2>m. \A m \in Machines : u[m] = "start"
    BY <2>3, <2>4 DEF But, Fields, Machines
  <2>7. Programming(u) /\ u.prog = "start"
    BY <2>4, <2>m DEF Programming, Machines, But, Fields
  <2>a. u = [Claim(s) EXCEPT !.write = "write_page", !.programIndex = 0, !.page = d]
    BY <2>1 DEF ClaimedFor
  <2>8. x = PageWriteRun(u, p)
    <3>1. PAGES \in Nat
      BY Sizes
    <3>. QED
      BY <1>3, <2>a, <3>1 DEF sdf_page_write
  <2>b. But(s, t, {"state", "write"})
    BY <1>0, <2>1 DEF But, ClaimedFor, Claim, Fields, Operations
  <2>c. But(s, u, {"state", "write"} \cup {"programIndex", "page"})
    BY <2>4, <2>b, ButTwice
  <2>d. u.cells = s.cells /\ u.chipBusy = s.chipBusy /\ Others(s, u)
    BY <2>c DEF But, Others, Fields, Operations, Bus
  <2>9. WriteOf(u, p, d, c)
    <3>1. s.cells = c /\ ~s.chipBusy
      BY <1>3, <2>2 DEF Work, Clean
    <3>2. Painted(u.cells, c, p, d, 0)
      BY <2>d, <3>1, PaintedNone
    <3>3. 0 * PROGRAM_SIZE = 0 /\ PAGE_SIZE - 0 = PAGE_SIZE /\ 0 < PROGRAMS /\ 0 \in Nat
      BY Sizes
    <3>4. \A i \in 1 .. PAGE_SIZE : d[i] = d[0 + i]
      BY Sizes
    <3>5. Unit(u, p, d, c, 0)
      BY <1>3, <2>4, <2>7, <2>d, <3>1, <3>2, <3>3, <3>4 DEF Unit
    <3>. QED
      BY <2>4, <3>5 DEF WriteOf
  <2>e. /\ Others(u, x.s)
        /\ IF x.r = "cpl" THEN Work(x.s, "none", 0, <<>>, Filled(c, p, d)) ELSE Work(x.s, "write", p, d, c)
    BY <2>5, <2>6, <2>7, <2>8, <2>9, WriteRunWorks
  <2>. QED
    BY <1>3, <2>d, <2>e DEF Others
<1>. QED
  BY <1>1, <1>2, <1>3

-----------------------------------------------------------------------------
(* The whole chip is erased, and the driver's life cycle. *)

\* No operation of the page service is under way.
Rests(s, c) ==
    /\ DriverInv(s) /\ s.read = "start" /\ s.erase = "start" /\ s.write = "start" /\ s.cells = c
    /\ s.chip = "command" => Armed(s) /\ s.rx = <<>>

LEMMA RestsWorks == ASSUME NEW s, NEW c, Rests(s, c), NEW f, NEW p, NEW d PROVE Work(s, f, p, d, c)
  BY DEF Rests, Work

LEMMA WorkRests == ASSUME NEW s, NEW f, NEW p, NEW d, NEW c, Work(s, f, p, d, c),
                          s.read = "start", s.erase = "start", s.write = "start"
                   PROVE  Rests(s, c)
  BY DEF Rests, Work

\* What the chip's erase leaves alone.
LEMMA ChipAside == ASSUME NEW s, NEW t, But(s, t, RunFields("chip"))
                   PROVE  t.did = s.did /\ t.uid = s.uid /\ t.read = s.read /\ t.write = s.write /\ t.erase = s.erase
                          /\ t.verify = s.verify
  BY DEF But, Fields, Operations, Machines, Bus, RunFields

\* The three steps of the command: it is armed, sent, and found done.
ChipArmed(s) ==
    [CLR_CS([EnableWrite(ClaimedFor(s, "chip", "enable")).s EXCEPT !.protected = FALSE]) EXCEPT !.chip = "command"]

ChipSent(s) == [SET_CS(EXCHANGE(s, "chip_erase")) EXCEPT !.protected = TRUE, !.chip = "ready"]

ChipFinished(s) == [Release(CheckDevice(s).s) EXCEPT !.chip = "start"]

LEMMA ChipStarts ==
  ASSUME NEW s, NEW c, Rests(s, c), s.state = "idle", NEW u, u = ChipArmed(s)
  PROVE  Rests(u, c) /\ u.chip = "command" /\ u.did = s.did /\ u.uid = s.uid /\ u.verify = s.verify
<1>t. PICK t : t = ClaimedFor(s, "chip", "enable")
  OBVIOUS
<1>u. u = [CLR_CS([EnableWrite(t).s EXCEPT !.protected = FALSE]) EXCEPT !.chip = "command"]
  BY <1>t DEF ChipArmed
<1>0. DriverInv(s) /\ s.read = "start" /\ s.write = "start" /\ s.erase = "start" /\ s.cells = c
  BY DEF Rests
<1>1. Quiet(s) /\ Clean(s) /\ IsDriver(s) /\ DOMAIN s = Fields
  BY <1>0, IdleIsQuiet DEF DriverInv, IsDriver
<1>2. Goes(s, u)
  <2>1. "chip" \in EraseOps
    BY DEF EraseOps
  <2>. QED
    BY <1>0, <1>t, <1>u, <2>1, EraseBegins
<1>3. t = [[s EXCEPT !.state = "busy"] EXCEPT !.chip = "enable"]
  BY <1>t DEF ClaimedFor, Claim
<1>4. But(s, t, {"state", "chip"})
  BY <1>1, <1>3 DEF But, Fields, Operations
<1>5. PICK v, w, y : v = EnableWrite(t).s /\ w = [v EXCEPT !.protected = FALSE] /\ y = CLR_CS(w)
  OBVIOUS
<1>y. u = [y EXCEPT !.chip = "command"]
  BY <1>5, <1>u
<1>6. But(t, v, Bus) /\ v.cells = t.cells /\ v.chipBusy = t.chipBusy /\ (~t.chipBusy => v.wel)
  <2>1. DOMAIN t = Fields /\ v = EnableWrite(t).s
    BY <1>4, <1>5 DEF But
  <2>2. But(t, v, Bus)
    BY <2>1, EnableDoes
  <2>3. v.cells = t.cells /\ v.chipBusy = t.chipBusy /\ (~t.chipBusy => v.wel)
    BY <2>1, EnableKeeps
  <2>. QED
    BY <2>2, <2>3
<1>7. t.cells = c /\ ~t.chipBusy
  BY <1>0, <1>1, <1>4 DEF But, Fields, Bus, Clean
<1>8. But(v, w, {"protected"}) /\ ~w.protected
  BY <1>5, <1>6 DEF But, Fields
<1>9. But(w, y, {"cs", "rx"}) /\ y.cs = "low" /\ y.rx = <<>>
  BY <1>5, <1>8, SelectIs DEF But
<1>a. But(y, u, {"chip"}) /\ u.chip = "command"
  BY <1>y, <1>9 DEF But, Fields, Operations
<1>b. But(s, u, ((({"state", "chip"} \cup Bus) \cup {"protected"}) \cup {"cs", "rx"}) \cup {"chip"})
  BY <1>4, <1>6, <1>8, <1>9, <1>a, ButTwice
<1>c. But(s, u, RunFields("chip"))
  BY <1>b, ButMore DEF RunFields, Bus
<1>d. u.did = s.did /\ u.uid = s.uid /\ u.verify = s.verify /\ u.read = "start" /\ u.write = "start" /\ u.erase = "start"
  BY <1>0, <1>c, ChipAside
<1>g. u.wel /\ ~u.chipBusy /\ ~u.protected /\ u.cs = "low" /\ u.rx = <<>> /\ u.cells = c
  <2>1. v.wel /\ ~v.chipBusy /\ v.cells = c
    BY <1>6, <1>7
  <2>2. w.wel = v.wel /\ w.chipBusy = v.chipBusy /\ w.cells = v.cells
    BY <1>8 DEF But, Fields, Bus
  <2>3. y.wel = w.wel /\ y.chipBusy = w.chipBusy /\ y.cells = w.cells /\ y.protected = w.protected
    BY <1>9 DEF But, Fields, Bus
  <2>4. u.wel = y.wel /\ u.chipBusy = y.chipBusy /\ u.cells = y.cells /\ u.protected = y.protected /\ u.cs = y.cs /\ u.rx = y.rx
    BY <1>a DEF But, Fields, Bus
  <2>. QED
    BY <1>8, <1>9, <2>1, <2>2, <2>3, <2>4
<1>. QED
  BY <1>2, <1>a, <1>d, <1>g DEF Rests, Armed, Goes

LEMMA ChipSends ==
  ASSUME NEW s, NEW c, IsCells(c), Rests(s, c), s.chip = "command",
         NEW v, v = ChipSent(s)
  PROVE  Rests(v, Blank) /\ v.chip = "ready" /\ v.did = s.did /\ v.uid = s.uid /\ v.verify = s.verify
<1>e. PICK e : e = EXCHANGE(s, "chip_erase")
  OBVIOUS
<1>v. v = [SET_CS(e) EXCEPT !.protected = TRUE, !.chip = "ready"]
  BY <1>e DEF ChipSent
<1>0. /\ DriverInv(s) /\ s.read = "start" /\ s.write = "start" /\ s.erase = "start" /\ s.cells = c
      /\ Armed(s) /\ s.rx = <<>> /\ DOMAIN s = Fields
  BY DEF Rests, DriverInv, IsDriver
<1>o. "chip" \in EraseOps /\ s["chip"] = "command"
  BY DEF EraseOps
<1>1. s.wca = "start"
  BY <1>0, <1>o, EraseAt
<1>2. But(s, e, {"rx"})
  BY <1>0, <1>e, ExchangeIs
<1>3. e.rx = <<"chip_erase">>
  <2>1. e = [s EXCEPT !.rx = Append(@, "chip_erase")]
    BY <1>0, <1>e DEF EXCHANGE, Armed
  <2>2. e.rx = Append(s.rx, "chip_erase")
    BY <1>0, <2>1 DEF Fields, Bus
  <2>. QED
    BY <1>0, <2>2
<1>4. DOMAIN e = Fields /\ Armed(e) /\ e.cells = c /\ e.wca = "start"
  BY <1>0, <1>1, <1>2 DEF Armed, But, Fields, Machines, Bus
<1>5. Goes(s, v)
  <2>1. PICK y : y = [s |-> e, r |-> "cpl"]
    OBVIOUS
  <2>2. But(s, y.s, {"rx", "wca", "addressCounter"}) /\ y.s.wca = "start" /\ y.r = "cpl"
    BY <1>2, <1>4, <2>1, ButMore
  <2>3. v = [SET_CS(y.s) EXCEPT !.protected = TRUE, !.chip = "ready"]
    BY <1>v, <2>1
  <2>. QED
    BY <1>0, <1>o, <2>2, <2>3, EraseCommands
<1>6. PICK u : u = SET_CS(e)
  OBVIOUS
<1>7. But(e, u, Bus)
  BY <1>4, <1>6, DeselectIs
<1>8. But(u, v, {"protected", "chip"}) /\ v.chip = "ready" /\ v.cells = u.cells
  <2>1. DOMAIN u = Fields
    BY <1>7 DEF But
  <2>2. v = [u EXCEPT !.protected = TRUE, !.chip = "ready"]
    BY <1>v, <1>6
  <2>. QED
    BY <2>1, <2>2 DEF But, Fields, Operations, Bus
<1>9. u.cells = Blank
  <2>1. u.cells = Erase(c, DOMAIN c)
    BY <1>3, <1>4, <1>6, ChipEraseEnds
  <2>2. DOMAIN c = Addresses
    BY Zenon DEF IsCells
  <2>. QED
    BY <2>1, <2>2 DEF Erase, Blank
<1>a. But(s, v, ({"rx"} \cup Bus) \cup {"protected", "chip"})
  <2>1. But(s, u, {"rx"} \cup Bus)
    BY <1>2, <1>7, ButTwice
  <2>2. But(u, v, {"protected", "chip"})
    BY <1>8
  <2>. QED
    BY <2>1, <2>2, ButTwice
<1>b. But(s, v, RunFields("chip"))
  BY <1>a, ButMore DEF RunFields, Bus
<1>c. v.did = s.did /\ v.uid = s.uid /\ v.verify = s.verify /\ v.read = "start" /\ v.write = "start" /\ v.erase = "start"
  BY <1>0, <1>b, ChipAside
<1>. QED
  BY <1>5, <1>8, <1>9, <1>c DEF Rests, Goes

LEMMA ChipChecks ==
  ASSUME NEW s, NEW c, Rests(s, c), s.chip = "ready", NEW z, z = CheckDevice(s)
  PROVE  /\ z.r \in {"cpl", "on_going"}
         /\ z.r = "cpl" => /\ Rests(ChipFinished(s), c) /\ ChipFinished(s).chip = "start"
                           /\ ChipFinished(s).did = s.did /\ ChipFinished(s).uid = s.uid
                           /\ ChipFinished(s).verify = s.verify
         /\ z.r # "cpl" => Rests(z.s, c) /\ z.s.chip = "ready" /\ z.s.did = s.did /\ z.s.uid = s.uid /\ z.s.verify = s.verify
<1>w. PICK w : w = [Release(z.s) EXCEPT !.chip = "start"]
  OBVIOUS
<1>f. ChipFinished(s) = w
  BY <1>w DEF ChipFinished
<1>0. DriverInv(s) /\ s.read = "start" /\ s.write = "start" /\ s.erase = "start" /\ s.cells = c /\ DOMAIN s = Fields
  BY DEF Rests, DriverInv, IsDriver
<1>o. "chip" \in Operations /\ "chip" \in EraseOps /\ "chip" \notin ReadOps /\ s["chip"] = "ready"
  BY DEF Operations, EraseOps, ReadOps
<1>2. At(s, "chip")
  BY <1>0, <1>o, Owner
<1>4. Checks(s)
  BY <1>2, <1>o DEF At, Erasing
<1>5. But(s, z.s, Bus \cup {"check"}) /\ z.s.cells = s.cells /\ z.r \in {"cpl", "on_going"}
  BY <1>0, <1>4, CheckDeviceDoes, CheckKeeps
<1>6. IF z.r = "cpl" THEN Goes(s, w) ELSE Goes(s, z.s)
  BY <1>0, <1>o, <1>w, EraseWaits
<1>7. z.s.chip = "ready" /\ DOMAIN z.s = Fields
  BY <1>5 DEF But, Fields, Operations, Machines, Bus
<1>8. But(z.s, w, {"state", "chip"}) /\ w.chip = "start" /\ w.cells = z.s.cells
  BY <1>7, <1>w DEF Release, But, Fields, Operations, Bus
<1>9. But(s, w, (Bus \cup {"check"}) \cup {"state", "chip"})
  BY <1>5, <1>8, ButTwice
<1>a. But(s, w, RunFields("chip")) /\ But(s, z.s, RunFields("chip"))
  BY <1>5, <1>9, ButMore DEF RunFields, Bus, Machines
<1>b. /\ w.did = s.did /\ w.uid = s.uid /\ w.verify = s.verify /\ w.read = "start" /\ w.write = "start" /\ w.erase = "start"
      /\ z.s.did = s.did /\ z.s.uid = s.uid /\ z.s.verify = s.verify
      /\ z.s.read = "start" /\ z.s.write = "start" /\ z.s.erase = "start"
  BY <1>0, <1>a, ChipAside
<1>c. CASE z.r = "cpl"
  BY <1>0, <1>5, <1>6, <1>8, <1>b, <1>c, <1>f DEF Rests, Goes
<1>d. CASE z.r # "cpl"
  BY <1>0, <1>5, <1>6, <1>7, <1>b, <1>d DEF Rests, Goes
<1>. QED
  BY <1>c, <1>d

LEMMA ChipEraseWorks ==
  ASSUME NEW s, NEW c, IsCells(c), Rests(s, c), NEW x, x = sdf_chip_erase(s)
  PROVE  /\ x.s.did = s.did /\ x.s.uid = s.uid /\ x.s.verify = s.verify
         /\ \/ s.chip = "start" /\ s.state # "idle" /\ x = Return(s, Refusal(s))
            \/ s.chip = "start" /\ s.state = "idle" /\ x.s.chip = "command" /\ x.r = "on_going" /\ Rests(x.s, c)
            \/ s.chip = "command" /\ x.s.chip = "ready" /\ x.r = "on_going" /\ Rests(x.s, Blank)
            \/ s.chip = "ready" /\ x.s.chip = "start" /\ x.r = "cpl" /\ Rests(x.s, c)
            \/ s.chip = "ready" /\ x.s.chip = "ready" /\ x.r = "on_going" /\ Rests(x.s, c)
<1>0. /\ "chip" \in EraseOps /\ DOMAIN s = Fields /\ s["chip"] = s.chip /\ s.chip \in {"start", "command", "ready"}
  <2>1. "chip" \in EraseOps /\ DriverInv(s)
    BY DEF EraseOps, Rests
  <2>2. s["chip"] \in {"start", "command", "ready"}
    BY <2>1, EraseAt
  <2>. QED
    BY <2>1, <2>2 DEF DriverInv, IsDriver
<1>2. CASE s.chip = "start" /\ s.state # "idle"
  <2>1. x = Return(s, Refusal(s))
    BY <1>0, <1>2 DEF sdf_chip_erase, EraseCall
  <2>2. x.s = s
    BY <2>1 DEF Return
  <2>. QED
    BY <1>2, <2>1, <2>2
<1>5. CASE s.chip = "start" /\ s.state = "idle"
  <2>t. PICK t : t = ClaimedFor(s, "chip", "enable")
    OBVIOUS
  <2>0. x = EraseRun(t, "chip", LAMBDA r : Return(EXCHANGE(r, "chip_erase"), "cpl"))
    BY <1>0, <1>5, <2>t DEF sdf_chip_erase, EraseCall, ClaimedFor
  <2>1. t["chip"] = "enable"
    BY <1>0, <2>t DEF ClaimedFor, Claim, Fields, Operations
  <2>2. x = [s |-> ChipArmed(s), r |-> "on_going"]
    BY <2>t, <2>0, <2>1 DEF EraseRun, Return, ChipArmed
  <2>3. PICK u : u = ChipArmed(s)
    OBVIOUS
  <2>4. Rests(u, c) /\ u.chip = "command" /\ u.did = s.did /\ u.uid = s.uid /\ u.verify = s.verify
    <3>1. s.state = "idle"
      BY <1>5
    <3>. QED
      BY <2>3, <3>1, ChipStarts
  <2>. QED
    BY <1>5, <2>2, <2>3, <2>4
<1>3. CASE s.chip = "command"
  <2>1. x = [s |-> ChipSent(s), r |-> "on_going"]
    BY <1>0, <1>3 DEF sdf_chip_erase, EraseCall, EraseRun, Return, ChipSent
  <2>3. PICK v : v = ChipSent(s)
    OBVIOUS
  <2>2. Rests(v, Blank) /\ v.chip = "ready" /\ v.did = s.did /\ v.uid = s.uid /\ v.verify = s.verify
    BY <1>3, <2>3, ChipSends
  <2>. QED
    BY <1>3, <2>1, <2>2, <2>3
<1>4. CASE s.chip = "ready"
  <2>0. PICK z : z = CheckDevice(s)
    OBVIOUS
  <2>1. x = IF z.r = "cpl" THEN [s |-> ChipFinished(s), r |-> "cpl"] ELSE z
    BY <1>0, <1>4, <2>0 DEF sdf_chip_erase, EraseCall, EraseRun, Return, ChipFinished
  <2>2. /\ z.r \in {"cpl", "on_going"}
        /\ z.r = "cpl" => /\ Rests(ChipFinished(s), c) /\ ChipFinished(s).chip = "start"
                          /\ ChipFinished(s).did = s.did /\ ChipFinished(s).uid = s.uid
                          /\ ChipFinished(s).verify = s.verify
        /\ z.r # "cpl" => Rests(z.s, c) /\ z.s.chip = "ready" /\ z.s.did = s.did /\ z.s.uid = s.uid /\ z.s.verify = s.verify
    BY <1>4, <2>0, ChipChecks
  <2>3. CASE z.r = "cpl"
    BY <1>4, <2>1, <2>2, <2>3
  <2>4. CASE z.r # "cpl"
    BY <1>4, <2>1, <2>2, <2>4
  <2>. QED
    BY <2>3, <2>4
<1>. QED
  BY <1>0, <1>2, <1>3, <1>4, <1>5

\* The chip's own step: it was at work, so nothing has been armed.
LEMMA DoneWorks ==
  ASSUME NEW s, NEW f, NEW p, NEW d, NEW c, Work(s, f, p, d, c), s.chipBusy, NEW t, t = ChipDone(s)
  PROVE  Work(t, f, p, d, c) /\ Others(s, t) /\ t.read = s.read /\ t.verify = s.verify /\ t.write = s.write
<1>0. DOMAIN s = Fields /\ DriverInv(s)
  BY DEF Work, DriverInv, IsDriver
<1>1. DriverInv(t)
  BY <1>0, ChipGoes DEF Goes
<1>2. But(s, t, {"chipBusy", "wel"}) /\ ~t.chipBusy
  BY <1>0 DEF ChipDone, But, Fields, Bus
<1>3. /\ t.read = s.read /\ t.write = s.write /\ t.erase = s.erase /\ t.chip = s.chip /\ t.verify = s.verify
      /\ t.did = s.did /\ t.uid = s.uid
  BY <1>2 DEF But, Fields, Operations, Machines, Bus
<1>4. /\ t.cells = s.cells /\ t.page = s.page /\ t.programIndex = s.programIndex /\ t.prog = s.prog
      /\ t.cs = s.cs /\ t.rx = s.rx /\ t.wca = s.wca /\ t.addressCounter = s.addressCounter
  BY <1>2 DEF But, Fields, Operations, Machines, Bus
<1>5. t.stream = s.stream /\ t.counter = s.counter /\ t.in = s.in
  BY <1>2 DEF But, Fields, Operations, Machines, Bus
<1>6. WriteOf(s, p, d, c) => WriteOf(t, p, d, c)
  BY <1>2, <1>4 DEF WriteOf, Unit, Armed
<1>7. EraseOf(s, p, c) => EraseOf(t, p, c)
  BY <1>2, <1>3, <1>4 DEF EraseOf, Armed
<1>8. ReadOf(s, p, c) => ReadOf(t, p, c)
  BY <1>3, <1>4, <1>5 DEF ReadOf, Sent, Fetched
<1>9. s.chip # "command"
  BY DEF Work, Armed
<1>. QED
  BY <1>1, <1>3, <1>4, <1>6, <1>7, <1>8, <1>9 DEF Work, Others

\* Before a driver is ready, and when it is idle, nothing is under way.
LEMMA QuietRests == ASSUME NEW s, DriverInv(s), s.state # "busy", NEW c, s.cells = c PROVE Rests(s, c) /\ s.chip = "start"
<1>1. Quiet(s)
  BY DEF DriverInv
<1>2. s["read"] = "start" /\ s["erase"] = "start" /\ s["write"] = "start" /\ s["chip"] = "start"
  BY <1>1 DEF Quiet, Operations
<1>. QED
  BY <1>2 DEF Rests

LEMMA FinishWorks ==
  ASSUME NEW s, NEW f, NEW p, NEW d, NEW c, Work(s, f, p, d, c), s.state = "idle", NEW close, NEW x, x = sdf_finish(s, close)
  PROVE  Rests(x.s, c) /\ Others(s, x.s)
<1>0. DriverInv(s) /\ DOMAIN s = Fields /\ DriverInv(x.s)
  <2>1. DriverInv(s)
    BY DEF Work
  <2>2. DriverInv(x.s)
    BY <2>1, FinishGoes
  <2>. QED
    BY <2>1, <2>2 DEF DriverInv, IsDriver
<1>1. s.cells = c
  <2>1. Rests(s, s.cells)
    BY <1>0, QuietRests
  <2>. QED
    BY <2>1 DEF Rests, Work
<1>2. x.s = s \/ x.s = [s EXCEPT !.state = "not_ready"]
  BY DEF sdf_finish, Return
<1>3. x.s.state # "busy" /\ x.s.cells = c /\ x.s.did = s.did /\ x.s.uid = s.uid /\ x.s.chip = s.chip
  BY <1>0, <1>1, <1>2 DEF Fields, Operations, Bus
<1>4. Rests(x.s, c)
  BY <1>0, <1>3, QuietRests
<1>. QED
  BY <1>3, <1>4 DEF Others

\* Whether interrupts are on, and how far sdf_init() has come, matters to no operation.
LEMMA SettingWorks ==
  ASSUME NEW s, NEW f, NEW p, NEW d, NEW c, Work(s, f, p, d, c), NEW t, But(s, t, {"init", "irq"})
  PROVE  Work(t, f, p, d, c) /\ t.did = s.did /\ t.uid = s.uid /\ t.chip = s.chip
<1>0. DOMAIN s = Fields /\ DriverInv(s) /\ s.verify \in {"start", "range", "read"}
  BY DEF Work, DriverInv, IsDriver
<1>1. DriverInv(t)
  <2>1. But(s, t, Aside)
    BY ButMore DEF Aside
  <2>2. t.verify = s.verify
    BY DEF But, Fields
  <2>. QED
    BY <1>0, <2>1, <2>2, AsideGoes
<1>3. /\ t.read = s.read /\ t.write = s.write /\ t.erase = s.erase /\ t.chip = s.chip /\ t.verify = s.verify
      /\ t.did = s.did /\ t.uid = s.uid
  BY DEF But, Fields, Operations, Machines, Bus
<1>4. /\ t.cells = s.cells /\ t.page = s.page /\ t.programIndex = s.programIndex /\ t.prog = s.prog
      /\ t.cs = s.cs /\ t.rx = s.rx /\ t.wca = s.wca /\ t.addressCounter = s.addressCounter
  BY DEF But, Fields, Operations, Machines, Bus
<1>5. /\ t.stream = s.stream /\ t.counter = s.counter /\ t.in = s.in /\ t.out = s.out
      /\ t.wel = s.wel /\ t.chipBusy = s.chipBusy /\ t.protected = s.protected
  BY DEF But, Fields, Operations, Machines, Bus
<1>6. WriteOf(s, p, d, c) => WriteOf(t, p, d, c)
  BY <1>4, <1>5 DEF WriteOf, Unit, Armed, Sent, Stuffed
<1>7. EraseOf(s, p, c) => EraseOf(t, p, c)
  BY <1>3, <1>4, <1>5 DEF EraseOf, Armed, Sent
<1>8. ReadOf(s, p, c) => ReadOf(t, p, c)
  BY <1>3, <1>4, <1>5 DEF ReadOf, Sent, Fetched
<1>9. Armed(s) => Armed(t)
  BY <1>4, <1>5 DEF Armed
<1>. QED
  BY <1>1, <1>3, <1>4, <1>6, <1>7, <1>8, <1>9 DEF Work

\* The device identifier: read by its own call, and by sdf_init().
LEMMA DeviceWorks ==
  ASSUME NEW s, NEW f, NEW p, NEW d, NEW c, Work(s, f, p, d, c), NEW x, x = fsm_sdf_read_device_ID(s)
  PROVE  Work(x.s, f, p, d, c) /\ x.s.chip = s.chip /\ x.s.uid = s.uid /\ (x.r # "on_going" => x.s.did = "start")
<1>1. "did" \in {"did", "uid"} /\ "did" \in ReadOps /\ "device_id" \in ReadCommands /\ x = Read(s, "did", "device_id", 0, 2)
  BY DEF fsm_sdf_read_device_ID, ReadCommands, ReadOps
<1>2. Work(x.s, f, p, d, c) /\ x.s.chip = s.chip /\ x.s.uid = s.uid
  BY <1>1, IdWorks
<1>3. x.r # "on_going" => x.s["did"] = "start"
  <2>1. DriverInv(s)
    BY DEF Work
  <2>. QED
    BY <1>1, <2>1, ReadKeeps
<1>. QED
  BY <1>2, <1>3

LEMMA UniqueWorks ==
  ASSUME NEW s, NEW f, NEW p, NEW d, NEW c, Work(s, f, p, d, c), NEW x, x = fsm_sdf_read_unique_ID(s)
  PROVE  Work(x.s, f, p, d, c) /\ x.s.chip = s.chip /\ x.s.did = s.did /\ (x.r # "on_going" => x.s.uid = "start")
<1>1. "uid" \in {"did", "uid"} /\ "uid" \in ReadOps /\ "unique_id" \in ReadCommands /\ x = Read(s, "uid", "unique_id", 0, 8)
  BY DEF fsm_sdf_read_unique_ID, ReadCommands, ReadOps
<1>2. Work(x.s, f, p, d, c) /\ x.s.chip = s.chip /\ x.s.did = s.did
  BY <1>1, IdWorks
<1>3. x.r # "on_going" => x.s["uid"] = "start"
  <2>1. DriverInv(s)
    BY DEF Work
  <2>. QED
    BY <1>1, <2>1, ReadKeeps
<1>. QED
  BY <1>2, <1>3

\* Opening a driver that is not ready.
Opened(s) == [s EXCEPT !.protected = TRUE, !.state = "idle", !.irq = TRUE, !.init = "read"]

LEMMA OpenedWorks ==
  ASSUME NEW s, NEW f, NEW p, NEW d, NEW c, Work(s, f, p, d, c), s.state = "not_ready",
         NEW x, x = fsm_sdf_read_device_ID(Opened(s))
  PROVE  Work(x.s, f, p, d, c) /\ x.s.chip = s.chip /\ x.s.uid = s.uid /\ x.r = "on_going"
<1>t. PICK t : t = Opened(s)
  OBVIOUS
<1>x. x = fsm_sdf_read_device_ID(t)
  BY <1>t
<1>0. DriverInv(s) /\ DOMAIN s = Fields /\ Quiet(s) /\ IsDriver(s)
  <2>1. DriverInv(s)
    BY DEF Work
  <2>. QED
    BY <2>1 DEF DriverInv, IsDriver
<1>1. s.cells = c /\ s.chip = "start" /\ s.uid = "start" /\ s.read = "start"
  <2>1. s["chip"] = "start" /\ s["uid"] = "start" /\ s["write"] = "start" /\ s["erase"] = "start" /\ s["read"] = "start"
    BY <1>0 DEF Quiet, Operations
  <2>. QED
    BY <2>1 DEF Work
<1>2. But(s, t, {"protected", "state", "irq", "init"}) /\ t.protected /\ t.state = "idle"
  BY <1>0, <1>t DEF But, Fields, Opened
<1>3. IsDriver(t) /\ Quiet(t) /\ t.cells = c
  <2>1. IsDriver(t)
    BY <1>0, <1>2 DEF IsDriver, But, Fields
  <2>2. Quiet(t)
    BY <1>0, <1>2 DEF Quiet, But, Fields, Operations, Machines, Bus
  <2>3. t.cells = c
    BY <1>1, <1>2 DEF But, Fields, Bus
  <2>. QED
    BY <2>1, <2>2, <2>3
<1>4. DriverInv(x.s) /\ x.r = "on_going"
  BY <1>3, <1>2, <1>x, DeviceClaims
<1>5. PICK u : u = ClaimedFor(t, "did", "check")
  OBVIOUS
<1>6. x = ReadRun(u, "did", "device_id", 0, 2)
  <2>1. t["did"] = "start"
    BY <1>3 DEF Quiet, Operations
  <2>. QED
    BY <1>2, <1>5, <1>x, <2>1 DEF fsm_sdf_read_device_ID, Read, ClaimedFor
<1>o. "did" \in ReadOps /\ "did" \in Operations /\ "device_id" \in ReadCommands
  BY DEF ReadOps, ReadCommands, Operations
<1>7. /\ IsDriver(u) /\ u.state = "busy" /\ u["did"] = "check" /\ Only(u, "did")
      /\ u.cs = "high" /\ u.protected /\ \A m \in Machines : u[m] = "start"
  BY <1>3, <1>5, <1>o, Claimed
<1>8. Reading(u, "did") /\ DOMAIN u = Fields
  BY <1>7 DEF Reading, Checks, Machines, IsDriver
<1>9. But(u, x.s, RunFields("did")) /\ x.s.cells = u.cells
  BY <1>6, <1>8, <1>o, ReadRunKeeps
<1>a. u.cells = c
  BY <1>3, <1>5 DEF ClaimedFor, Claim, IsDriver, Fields, Bus, Operations
<1>b. Only(x.s, "did")
  <2>1. ASSUME NEW g \in Operations, g # "did" PROVE x.s[g] = "start"
    <3>1. g \in Fields \ RunFields("did")
      BY <2>1 DEF Fields, Operations, Machines, Bus, RunFields
    <3>. QED
      BY <1>7, <1>9, <2>1, <3>1 DEF But, Only
  <2>. QED
    BY <2>1 DEF Only
<1>c. Work(x.s, f, p, d, c)
  <2>1. "did" \in Operations \ {"write", "erase", "chip"} /\ x.s.cells = c
    BY <1>9, <1>a DEF Operations
  <2>. QED
    BY <1>4, <1>b, <2>1, OnlyWorks
<1>d. x.s["chip"] = "start" /\ x.s["uid"] = "start"
  BY <1>b DEF Only, Operations
<1>. QED
  BY <1>1, <1>4, <1>c, <1>d

LEMMA InitWorks ==
  ASSUME NEW s, NEW f, NEW p, NEW d, NEW c, Work(s, f, p, d, c), s.init = "read" \/ s.state = "not_ready", NEW spi,
         NEW open \in {"cpl", "on_going", "err"}, NEW hwID, NEW x, x = sdf_init(s, spi, open, hwID)
  PROVE  Work(x.s, f, p, d, c) /\ x.s.chip = s.chip /\ x.s.uid = s.uid
         /\ (x.r \notin {"on_going", "busy"} => x.s.did = "start")
<1>0. DOMAIN s = Fields
  BY DEF Work, DriverInv, IsDriver
<1>2. PICK u, v : u = [s EXCEPT !.init = "start", !.irq = TRUE] /\ v = [s EXCEPT !.init = "open", !.irq = FALSE]
  OBVIOUS
<1>4. CASE s.init = "read"
  <2>z. PICK z : z = fsm_sdf_read_device_ID(s)
    OBVIOUS
  <2>w. PICK w : w = [z.s EXCEPT !.init = "start"]
    OBVIOUS
  <2>q. PICK q : q = IF IsErr(z.r) \/ hwID = 0 THEN "err" ELSE "cpl"
    OBVIOUS
  <2>1. x = IF z.r = "on_going" THEN z ELSE [s |-> w, r |-> q]
    BY <1>4, <2>w, <2>z, <2>q DEF sdf_init, Return
  <2>2. Work(z.s, f, p, d, c) /\ z.s.chip = s.chip /\ z.s.uid = s.uid /\ (z.r # "on_going" => z.s.did = "start")
    BY <2>z, DeviceWorks
  <2>3. Work(w, f, p, d, c) /\ w.did = z.s.did /\ w.uid = z.s.uid /\ w.chip = z.s.chip
    <3>1. DOMAIN z.s = Fields
      BY <2>2 DEF Work, DriverInv, IsDriver
    <3>2. But(z.s, w, {"init", "irq"})
      BY <2>w, <3>1 DEF But, Fields
    <3>. QED
      BY <2>2, <3>2, SettingWorks
  <2>4. CASE z.r = "on_going"
    BY <2>1, <2>2, <2>4
  <2>5. CASE z.r # "on_going"
    BY <2>q, <2>1, <2>2, <2>3, <2>5
  <2>. QED
    BY <2>4, <2>5
<1>5. CASE s.init # "read"
  <2>y. PICK y : y = fsm_sdf_read_device_ID(Opened(s))
    OBVIOUS
  <2>0. s.did = "start"
    <3>1. Quiet(s)
      BY <1>5 DEF Work, DriverInv
    <3>2. s["did"] = "start"
      BY <3>1 DEF Quiet, Operations
    <3>. QED
      BY <3>2
  <2>1. Work(u, f, p, d, c) /\ u.did = s.did /\ u.uid = s.uid /\ u.chip = s.chip
    <3>1. But(s, u, {"init", "irq"})
      BY <1>0, <1>2 DEF But, Fields
    <3>. QED
      BY <3>1, SettingWorks
  <2>2. Work(v, f, p, d, c) /\ v.did = s.did /\ v.uid = s.uid /\ v.chip = s.chip
    <3>1. But(s, v, {"init", "irq"})
      BY <1>0, <1>2 DEF But, Fields
    <3>. QED
      BY <3>1, SettingWorks
  <2>3. Work(y.s, f, p, d, c) /\ y.s.chip = s.chip /\ y.s.uid = s.uid /\ y.r = "on_going"
    <3>1. s.state = "not_ready"
      BY <1>5
    <3>. QED
      BY <2>y, <3>1, OpenedWorks
  <2>4. x \in {[s |-> s, r |-> "err"], [s |-> u, r |-> "err"], [s |-> v, r |-> "on_going"], y}
    <3>1. CASE s.init = "start" /\ ~spi
      BY <3>1 DEF sdf_init, Return
    <3>2. CASE ~(s.init = "start" /\ ~spi) /\ open = "err"
      BY <1>2, <1>5, <3>2 DEF sdf_init, Return
    <3>3. CASE ~(s.init = "start" /\ ~spi) /\ open = "on_going"
      BY <1>2, <1>5, <3>3 DEF sdf_init, Return
    <3>4. CASE ~(s.init = "start" /\ ~spi) /\ open = "cpl"
      BY <1>5, <2>y, <2>3, <3>4 DEF sdf_init, Opened
    <3>. QED
      BY <3>1, <3>2, <3>3, <3>4
  <2>. QED
    BY <2>0, <2>1, <2>2, <2>3, <2>4
<1>. QED
  BY <1>4, <1>5

-----------------------------------------------------------------------------
(* The RAM adapter does in one call what the driver does in many. *)

SramHas(s, c) == DOMAIN s = {"state", "cells", "in"} /\ s.state \in States /\ s.cells = c

\* A cell belongs to one page, at one place of it.
LEMMA CellIs == ASSUME NEW x \in Addresses, NEW p \in Nat
                PROVE  /\ x \in PageCells(p) <=> x \div PAGE_SIZE = p
                       /\ x \in PageCells(p) => x % PAGE_SIZE = x - p * PAGE_SIZE
<1>0. PAGE_SIZE \in Nat \ {0} /\ x \in Nat /\ p * PAGE_SIZE \in Nat
      /\ PageCells(p) = p * PAGE_SIZE .. p * PAGE_SIZE + PAGE_SIZE - 1
  <2>1. PAGE_SIZE \in Nat \ {0} /\ x \in Nat
    BY Sizes DEF Addresses
  <2>. QED
    BY <2>1, PageIs
<1>1. ASSUME x \in PageCells(p) PROVE x \div PAGE_SIZE = p /\ x % PAGE_SIZE = x - p * PAGE_SIZE
  <2>1. PICK r : r = x - p * PAGE_SIZE
    OBVIOUS
  <2>2. r \in 0 .. PAGE_SIZE - 1 /\ x = p * PAGE_SIZE + r
    BY <1>0, <1>1, <2>1
  <2>3. (p * PAGE_SIZE + r) \div PAGE_SIZE = p /\ (p * PAGE_SIZE + r) % PAGE_SIZE = r
    BY <1>0, <2>2, QuotientIs
  <2>. QED
    BY <2>1, <2>2, <2>3
<1>2. ASSUME x \div PAGE_SIZE = p PROVE x \in PageCells(p)
  <2>1. x % PAGE_SIZE \in 0 .. PAGE_SIZE - 1 /\ x = (x \div PAGE_SIZE) * PAGE_SIZE + (x % PAGE_SIZE)
    BY <1>0, Quotient
  <2>2. PICK r : r = x % PAGE_SIZE
    OBVIOUS
  <2>3. r \in 0 .. PAGE_SIZE - 1 /\ x = p * PAGE_SIZE + r
    BY <1>2, <2>1, <2>2
  <2>. QED
    BY <1>0, <2>3
<1>. QED
  BY <1>1, <1>2

LEMMA FillIs == ASSUME NEW s, NEW c, IsCells(c), SramHas(s, c), NEW p \in Nat, NEW d, NEW t, t = Ram!Fill(s, p, d)
                PROVE  SramHas(t, Filled(c, p, d)) /\ t.state = s.state
<1>1. DOMAIN c = Addresses
  BY Zenon DEF IsCells
<1>2. t.cells = [x \in Addresses |-> IF x \div PAGE_SIZE = p THEN d[(x % PAGE_SIZE) + 1] ELSE c[x]]
  BY <1>1 DEF Ram!Fill, SramHas
<1>3. ASSUME NEW x \in Addresses
      PROVE  (IF x \div PAGE_SIZE = p THEN d[(x % PAGE_SIZE) + 1] ELSE c[x])
             = (IF x \in PageCells(p) THEN d[x - p * PAGE_SIZE + 1] ELSE c[x])
  <2>1. CASE x \in PageCells(p)
    <3>1. x \div PAGE_SIZE = p /\ x % PAGE_SIZE = x - p * PAGE_SIZE
      BY <2>1, CellIs
    <3>. QED
      BY <2>1, <3>1
  <2>2. CASE x \notin PageCells(p)
    <3>1. x \div PAGE_SIZE # p
      BY <2>2, CellIs
    <3>. QED
      BY <2>2, <3>1
  <2>. QED
    BY <2>1, <2>2
<1>4. t.cells = Filled(c, p, d)
  BY <1>2, <1>3 DEF Filled
<1>5. DOMAIN t = {"state", "cells", "in"} /\ t.state = s.state
  BY DEF Ram!Fill, SramHas
<1>. QED
  BY <1>4, <1>5 DEF SramHas

LEMMA WipedFilled == ASSUME NEW c, IsCells(c), NEW p \in Nat, p < PAGES PROVE Filled(c, p, Ram!ErasedPage) = Wiped(c, p)
<1>1. DOMAIN c = Addresses
  BY Zenon DEF IsCells
<1>2. Wiped(c, p) = [x \in Addresses |-> IF x \in PageCells(p) THEN ERASED ELSE c[x]]
  BY <1>1 DEF Wiped, Erase
<1>3. ASSUME NEW x \in PageCells(p) PROVE Ram!ErasedPage[x - p * PAGE_SIZE + 1] = ERASED
  <2>1. x - p * PAGE_SIZE + 1 \in 1 .. PAGE_SIZE
    <3>1. p * PAGE_SIZE \in Nat /\ PageCells(p) = p * PAGE_SIZE .. p * PAGE_SIZE + PAGE_SIZE - 1 /\ PAGE_SIZE \in Nat \ {0}
      BY PageIs, Sizes
    <3>. QED
      BY <3>1
  <2>. QED
    BY <2>1 DEF Ram!ErasedPage
<1>. QED
  BY <1>2, <1>3 DEF Filled

\* The adapter lets one operation in at a time.
LEMMA EnterIs == ASSUME NEW s, NEW c, SramHas(s, c)
                 PROVE  /\ s.state # "idle" => Ram!Enter(s).s = s /\ IsErr(Ram!Enter(s).r)
                        /\ s.state = "idle" => /\ Ram!Enter(s).r = "cpl" /\ Ram!Enter(s).s.state = "busy"
                                               /\ SramHas(Ram!Enter(s).s, c) /\ Ram!Enter(s).s.in = s.in
  BY DEF SramHas, States, Ram!Enter, Ram!Answer, IsErr

LEMMA LeaveIs == ASSUME NEW s, NEW c, SramHas(s, c)
                 PROVE  SramHas(Ram!Leave(s), c) /\ Ram!Leave(s).state = "idle" /\ Ram!Leave(s).in = s.in
  BY DEF SramHas, States, Ram!Leave

\* It fills page p with d.
FillRun(s, p, d) ==
    LET FillPage(t) == Ram!Answer(Ram!Fill(t, p, d), "cpl")
    IN Ram!Operation(s, p < PAGES, FALSE, FillPage)

LEMMA FillWorks ==
  ASSUME NEW s, NEW p \in Nat, NEW d, NEW c, IsCells(c), SramHas(s, c), NEW x, x = FillRun(s, p, d)
  PROVE  /\ x.s.state = s.state
         /\ IF x.r = "cpl" THEN p < PAGES /\ SramHas(x.s, Filled(c, p, d)) ELSE SramHas(x.s, c)
         /\ s.state # "idle" => x.s = s /\ IsErr(x.r)
<1>1. CASE p >= PAGES
  <2>1. x = [s |-> s, r |-> "err"]
    <3>1. ~(p < PAGES)
      BY <1>1, Sizes
    <3>. QED
      BY <3>1 DEF FillRun, Ram!Operation, Ram!Answer
  <2>. QED
    BY <2>1 DEF IsErr
<1>2. CASE p < PAGES /\ s.state # "idle"
  <2>1. Ram!Enter(s).s = s /\ IsErr(Ram!Enter(s).r)
    BY <1>2, EnterIs
  <2>2. x = Ram!Enter(s)
    BY <1>2, <2>1 DEF FillRun, Ram!Operation, IsErr
  <2>. QED
    BY <2>1, <2>2 DEF IsErr
<1>3. CASE p < PAGES /\ s.state = "idle"
  <2>1. PICK t : t = Ram!Enter(s).s
    OBVIOUS
  <2>2. Ram!Enter(s).r = "cpl" /\ SramHas(t, c)
    BY <1>3, <2>1, EnterIs
  <2>3. PICK u : u = Ram!Fill(t, p, d)
    OBVIOUS
  <2>4. SramHas(u, Filled(c, p, d))
    BY <2>2, <2>3, FillIs
  <2>5. x = [s |-> Ram!Leave(u), r |-> "cpl"]
    BY <1>3, <2>1, <2>2, <2>3 DEF FillRun, Ram!Operation, Ram!Answer
  <2>6. SramHas(Ram!Leave(u), Filled(c, p, d)) /\ Ram!Leave(u).state = "idle"
    BY <2>4, LeaveIs
  <2>. QED
    BY <1>3, <2>5, <2>6
<1>. QED
  BY <1>1, <1>2, <1>3, Sizes

\* It completed with e in the cells, or left them as they were.
Gave(s, p, c, e, x) ==
    /\ x.s.state = s.state
    /\ IF x.r = "cpl" THEN p < PAGES /\ SramHas(x.s, e) ELSE SramHas(x.s, c)
    /\ s.state # "idle" => x.s = s /\ IsErr(x.r)

LEMMA SramWriteWorks ==
  ASSUME NEW s, NEW p \in Nat, NEW d, NEW c, IsCells(c), SramHas(s, c)
  PROVE  Gave(s, p, c, Filled(c, p, d), Ram!sram_page_write(s, p, d))
<1>1. PICK x : x = FillRun(s, p, d)
  OBVIOUS
<1>2. Ram!sram_page_write(s, p, d) = x
  BY <1>1 DEF Ram!sram_page_write, FillRun
<1>3. /\ x.s.state = s.state
      /\ IF x.r = "cpl" THEN p < PAGES /\ SramHas(x.s, Filled(c, p, d)) ELSE SramHas(x.s, c)
      /\ s.state # "idle" => x.s = s /\ IsErr(x.r)
  BY <1>1, FillWorks
<1>4. Gave(s, p, c, Filled(c, p, d), x)
  BY <1>3 DEF Gave
<1>. QED
  BY <1>2, <1>4

LEMMA SramEraseWorks ==
  ASSUME NEW s, NEW p \in Nat, NEW c, IsCells(c), SramHas(s, c), NEW x, x = Ram!sram_page_erase(s, p)
  PROVE  /\ x.s.state = s.state
         /\ IF x.r = "cpl" THEN p < PAGES /\ SramHas(x.s, Wiped(c, p)) ELSE SramHas(x.s, c)
         /\ s.state # "idle" => x.s = s /\ IsErr(x.r)
<1>0. PICK d : d = Ram!ErasedPage
  OBVIOUS
<1>1. x = FillRun(s, p, d)
  BY <1>0 DEF Ram!sram_page_erase, FillRun
<1>2. /\ x.s.state = s.state
      /\ IF x.r = "cpl" THEN p < PAGES /\ SramHas(x.s, Filled(c, p, d)) ELSE SramHas(x.s, c)
      /\ s.state # "idle" => x.s = s /\ IsErr(x.r)
  BY <1>1, FillWorks
<1>3. p < PAGES => Filled(c, p, d) = Wiped(c, p)
  BY <1>0, WipedFilled
<1>. QED
  BY <1>2, <1>3

LEMMA SramReadWorks ==
  ASSUME NEW s, NEW p \in Nat, NEW c, IsCells(c), SramHas(s, c), NEW x, x = Ram!sram_page_read(s, p, 0, PAGE_SIZE)
  PROVE  /\ x.s.state = s.state
         /\ SramHas(x.s, c)
         /\ x.r = "cpl" => x.s.in = Image(c, p) /\ p < PAGES
         /\ s.state # "idle" => x.s = s /\ IsErr(x.r)
<1>0. /\ PAGE_SIZE \in Nat \ {0} /\ p * PAGE_SIZE \in Nat
      /\ p < PAGES <=> p * PAGE_SIZE + PAGE_SIZE <= FLASH_SIZE
  BY PageIs, Sizes
<1>1. x = Ram!Operation(s, p * PAGE_SIZE + 0 + PAGE_SIZE <= Ram!SRAM_SIZE, PAGE_SIZE = 0, LAMBDA t : Ram!ReadWork(t, p, 0, PAGE_SIZE))
  BY DEF Ram!sram_page_read, Ram!InRange
<1>2. Ram!SRAM_SIZE = FLASH_SIZE
  BY DEF Ram!SRAM_SIZE, FLASH_SIZE
<1>3. (p * PAGE_SIZE + 0 + PAGE_SIZE <= Ram!SRAM_SIZE) <=> p < PAGES
  BY <1>0, <1>2
<1>4. CASE ~(p < PAGES)
  <2>1. x = [s |-> s, r |-> "err"]
    BY <1>1, <1>3, <1>4 DEF Ram!Operation, Ram!Answer
  <2>. QED
    BY <2>1 DEF IsErr
<1>5. CASE p < PAGES /\ s.state # "idle"
  <2>1. Ram!Enter(s).s = s /\ IsErr(Ram!Enter(s).r)
    BY <1>5, EnterIs
  <2>2. x = Ram!Enter(s)
    BY <1>0, <1>1, <1>3, <1>5, <2>1 DEF Ram!Operation, IsErr
  <2>. QED
    BY <2>1, <2>2 DEF IsErr
<1>6. CASE p < PAGES /\ s.state = "idle"
  <2>1. PICK t : t = Ram!Enter(s).s
    OBVIOUS
  <2>2. Ram!Enter(s).r = "cpl" /\ SramHas(t, c)
    BY <1>6, <2>1, EnterIs
  <2>3. PICK u : u = [t EXCEPT !.in = Ram!Slice(t, p, 0, PAGE_SIZE)]
    OBVIOUS
  <2>4. SramHas(u, c) /\ u.in = Ram!Slice(t, p, 0, PAGE_SIZE)
    BY <2>2, <2>3 DEF SramHas
  <2>5. x = [s |-> Ram!Leave(u), r |-> "cpl"]
    BY <1>0, <1>1, <1>3, <1>6, <2>1, <2>2, <2>3 DEF Ram!Operation, Ram!Answer, Ram!ReadWork
  <2>6. SramHas(Ram!Leave(u), c) /\ Ram!Leave(u).state = "idle" /\ Ram!Leave(u).in = u.in
    BY <2>4, LeaveIs
  <2>7. Ram!Slice(t, p, 0, PAGE_SIZE) = Image(c, p)
    <3>1. Ram!Slice(t, p, 0, PAGE_SIZE) = [i \in 1 .. PAGE_SIZE |-> c[p * PAGE_SIZE + 0 + i - 1]]
      BY <2>2 DEF Ram!Slice, SramHas
    <3>2. \A i \in 1 .. PAGE_SIZE : p * PAGE_SIZE + 0 + i - 1 = p * PAGE_SIZE + i - 1
      BY <1>0
    <3>. QED
      BY <3>1, <3>2 DEF Image, Stretch
  <2>. QED
    BY <1>6, <2>4, <2>5, <2>6, <2>7
<1>. QED
  BY <1>4, <1>5, <1>6

-----------------------------------------------------------------------------
(* The memory, whichever it is. *)

\* The cells are c, but for what f has done of page p.
Does(e, f, p, d, c) == IF e.ptMethod = "SDF" THEN Work(e.s, f, p, d, c) ELSE SramHas(e.s, c)

\* Its erase as a whole, or the rival in the RAM adapter, has it.
Held(e) == IF e.ptMethod = "SDF" THEN e.s.chip # "start" ELSE e.s.state = "busy"

\* What a call x leaves of it, and what it leaves alone.
Moved(e, x) == [e EXCEPT !.s = x.s]
Beside(e, g) == IF e.ptMethod = "SDF" THEN Others(e.s, g.s) ELSE g.s.state = e.s.state

LEMMA MovedIs == ASSUME NEW e, IsDev(e), NEW x
                 PROVE  IsDev(Moved(e, x)) /\ Moved(e, x).s = x.s /\ Moved(e, x).ptMethod = e.ptMethod
  BY DEF IsDev, Moved

LEMMA DoesBegin == ASSUME NEW e, NEW q, NEW b, NEW c, Does(e, "none", q, b, c), NEW f, NEW p, NEW d
                   PROVE  Does(e, f, p, d, c)
  BY WorkBegins DEF Does

LEMMA HeldIs == ASSUME NEW s, DriverInv(s), s.chip # "start"
                PROVE  s.state = "busy" /\ s.read = "start" /\ s.write = "start" /\ s.erase = "start" /\ s.did = "start"
                       /\ s.uid = "start"
<1>1. "chip" \in Operations /\ s["chip"] # "start"
  BY DEF Operations
<1>2. s.state = "busy" /\ Only(s, "chip")
  BY <1>1, Owner
<1>3. s["read"] = "start" /\ s["write"] = "start" /\ s["erase"] = "start" /\ s["did"] = "start" /\ s["uid"] = "start"
  BY <1>2 DEF Only, Operations
<1>. QED
  BY <1>2, <1>3

LEMMA ReadDoes ==
  ASSUME NEW e, IsDev(e), NEW p \in Nat, NEW d, NEW c, IsCells(c), Does(e, "read", p, d, c),
         NEW x, x = mal_page_read(e, p * PAGE_SIZE)
  PROVE  /\ Does(Moved(e, x), "read", p, d, c) /\ Beside(e, Moved(e, x))
         /\ x.r = "cpl" => Does(Moved(e, x), "none", 0, <<>>, c) /\ x.s.in = Image(c, p) /\ p < PAGES
         /\ Held(e) => x.s = e.s /\ IsErr(x.r)
<1>0. (p * PAGE_SIZE) \div PAGE_SIZE = p /\ (p * PAGE_SIZE) % PAGE_SIZE = 0
  BY PageIs
<1>1. Moved(e, x).s = x.s /\ Moved(e, x).ptMethod = e.ptMethod
  BY MovedIs
<1>2. CASE e.ptMethod = "SDF"
  <2>1. x = sdf_page_read(e.s, p, 0, PAGE_SIZE)
    BY <1>0, <1>2 DEF mal_page_read
  <2>2. Work(e.s, "read", p, d, c)
    BY <1>2 DEF Does
  <2>3. /\ Work(x.s, "read", p, d, c) /\ Others(e.s, x.s)
        /\ x.r = "cpl" => Work(x.s, "none", 0, <<>>, c) /\ x.s.in = Image(c, p) /\ p < PAGES
        /\ e.s.state # "idle" /\ e.s.read = "start" => x.s = e.s /\ IsErr(x.r)
    BY <2>1, <2>2, PageReadWorks
  <2>4. Held(e) => e.s.state # "idle" /\ e.s.read = "start"
    <3>1. DriverInv(e.s)
      BY <2>2 DEF Work
    <3>. QED
      BY <1>2, <3>1, HeldIs DEF Held
  <2>. QED
    BY <1>1, <1>2, <2>3, <2>4 DEF Does, Beside
<1>3. CASE e.ptMethod # "SDF"
  <2>0. e.ptMethod = "SRAM"
    BY <1>3 DEF IsDev
  <2>1. x = Ram!sram_page_read(e.s, p, 0, PAGE_SIZE)
    BY <1>0, <2>0 DEF mal_page_read
  <2>2. SramHas(e.s, c)
    BY <1>3 DEF Does
  <2>3. /\ x.s.state = e.s.state /\ SramHas(x.s, c)
        /\ x.r = "cpl" => x.s.in = Image(c, p) /\ p < PAGES
        /\ e.s.state # "idle" => x.s = e.s /\ IsErr(x.r)
    BY <2>1, <2>2, SramReadWorks
  <2>. QED
    BY <1>1, <1>3, <2>3 DEF Does, Beside, Held
<1>. QED
  BY <1>2, <1>3

LEMMA EraseDoes ==
  ASSUME NEW e, IsDev(e), NEW p \in Nat, NEW d, NEW c, IsCells(c), Does(e, "erase", p, d, c),
         NEW x, x = mal_page_erase(e, p * PAGE_SIZE)
  PROVE  /\ Beside(e, Moved(e, x))
         /\ IF x.r = "cpl" THEN p < PAGES /\ Does(Moved(e, x), "none", 0, <<>>, Wiped(c, p))
            ELSE Does(Moved(e, x), "erase", p, d, c)
         /\ Held(e) => x.s = e.s /\ IsErr(x.r)
<1>0. (p * PAGE_SIZE) \div PAGE_SIZE = p
  BY PageIs
<1>1. Moved(e, x).s = x.s /\ Moved(e, x).ptMethod = e.ptMethod
  BY MovedIs
<1>2. CASE e.ptMethod = "SDF"
  <2>1. x = sdf_page_erase(e.s, p)
    BY <1>0, <1>2 DEF mal_page_erase
  <2>2. Work(e.s, "erase", p, d, c)
    BY <1>2 DEF Does
  <2>3. /\ Others(e.s, x.s)
        /\ IF x.r = "cpl" THEN p < PAGES /\ Work(x.s, "none", 0, <<>>, Wiped(c, p)) ELSE Work(x.s, "erase", p, d, c)
        /\ e.s.state # "idle" /\ e.s.erase = "start" => x.s = e.s /\ IsErr(x.r)
    BY <2>1, <2>2, EraseWorks
  <2>4. Held(e) => e.s.state # "idle" /\ e.s.erase = "start"
    <3>1. DriverInv(e.s)
      BY <2>2 DEF Work
    <3>. QED
      BY <1>2, <3>1, HeldIs DEF Held
  <2>. QED
    BY <1>1, <1>2, <2>3, <2>4 DEF Does, Beside
<1>3. CASE e.ptMethod # "SDF"
  <2>0. e.ptMethod = "SRAM"
    BY <1>3 DEF IsDev
  <2>1. x = Ram!sram_page_erase(e.s, p)
    BY <1>0, <2>0 DEF mal_page_erase
  <2>2. SramHas(e.s, c)
    BY <1>3 DEF Does
  <2>3. /\ x.s.state = e.s.state
        /\ IF x.r = "cpl" THEN p < PAGES /\ SramHas(x.s, Wiped(c, p)) ELSE SramHas(x.s, c)
        /\ e.s.state # "idle" => x.s = e.s /\ IsErr(x.r)
    BY <2>1, <2>2, SramEraseWorks
  <2>. QED
    BY <1>1, <1>3, <2>3 DEF Does, Beside, Held
<1>. QED
  BY <1>2, <1>3

LEMMA WriteDoes ==
  ASSUME NEW e, IsDev(e), NEW p \in Nat, NEW d, IsSeq(d), Len(d) = PAGE_SIZE, NEW c, IsCells(c), IsWiped(c, p),
         Does(e, "write", p, d, c), NEW x, x = mal_page_write(e, p * PAGE_SIZE, d)
  PROVE  /\ Beside(e, Moved(e, x))
         /\ IF x.r = "cpl" THEN Does(Moved(e, x), "none", 0, <<>>, Filled(c, p, d))
            ELSE Does(Moved(e, x), "write", p, d, c)
         /\ Held(e) => x.s = e.s /\ IsErr(x.r)
<1>0. (p * PAGE_SIZE) \div PAGE_SIZE = p
  BY PageIs
<1>1. Moved(e, x).s = x.s /\ Moved(e, x).ptMethod = e.ptMethod
  BY MovedIs
<1>2. CASE e.ptMethod = "SDF"
  <2>1. x = sdf_page_write(e.s, p, d)
    BY <1>0, <1>2 DEF mal_page_write
  <2>2. Work(e.s, "write", p, d, c)
    BY <1>2 DEF Does
  <2>3. /\ Others(e.s, x.s)
        /\ IF x.r = "cpl" THEN Work(x.s, "none", 0, <<>>, Filled(c, p, d)) ELSE Work(x.s, "write", p, d, c)
        /\ e.s.state # "idle" /\ e.s.write = "start" => x.s = e.s /\ IsErr(x.r)
    BY <2>1, <2>2, WriteWorks
  <2>4. Held(e) => e.s.state # "idle" /\ e.s.write = "start"
    <3>1. DriverInv(e.s)
      BY <2>2 DEF Work
    <3>. QED
      BY <1>2, <3>1, HeldIs DEF Held
  <2>. QED
    BY <1>1, <1>2, <2>3, <2>4 DEF Does, Beside
<1>3. CASE e.ptMethod # "SDF"
  <2>0. e.ptMethod = "SRAM"
    BY <1>3 DEF IsDev
  <2>2. SramHas(e.s, c)
    BY <1>3 DEF Does
  <2>3. /\ x.s.state = e.s.state
        /\ IF x.r = "cpl" THEN p < PAGES /\ SramHas(x.s, Filled(c, p, d)) ELSE SramHas(x.s, c)
        /\ e.s.state # "idle" => x.s = e.s /\ IsErr(x.r)
    <3>1. x = Ram!sram_page_write(e.s, p, d)
      BY <1>0, <2>0 DEF mal_page_write
    <3>2. Gave(e.s, p, c, Filled(c, p, d), Ram!sram_page_write(e.s, p, d))
      BY <2>2, SramWriteWorks
    <3>3. Gave(e.s, p, c, Filled(c, p, d), x)
      BY <3>1, <3>2
    <3>. QED
      BY <3>3 DEF Gave
  <2>. QED
    BY <1>1, <1>3, <2>3 DEF Does, Beside, Held
<1>. QED
  BY <1>2, <1>3

-----------------------------------------------------------------------------
(* A request of the writer's, and how far it is. *)

IsRequest(w) == w.a \in Nat /\ w.size \in Nat

\* Cells c, with the request carried out up to address n.
Merged(c, w, n) ==
    [x \in Addresses |-> IF x \in w.a .. n - 1 THEN IF w.null THEN ERASED ELSE New(x - w.a + 1) ELSE c[x]]

\* The last n bytes of the data, of which b are gone.
Rest(q, n, b) == IsSeq(q) /\ Len(q) = n /\ \A i \in 1 .. n : q[i] = New(b + i)

\* What is left of it.
Left(p, w) ==
    /\ p.null = w.null /\ w.size > 0
    /\ p.wAddress \in w.a .. w.a + w.size
    /\ p.hwCount = w.a + w.size - p.wAddress
    /\ ~w.null => Rest(p.stream, p.hwCount, p.wAddress - w.a)

LEMMA MergedIs == ASSUME NEW c, NEW w, NEW n PROVE IsCells(Merged(c, w, n))
  BY DEF IsCells, Merged

LEMMA MergedAt == ASSUME NEW c, NEW w, NEW n, NEW x \in Addresses
                  PROVE  /\ x \in w.a .. n - 1 => Merged(c, w, n)[x] = IF w.null THEN ERASED ELSE New(x - w.a + 1)
                         /\ x \notin w.a .. n - 1 => Merged(c, w, n)[x] = c[x]
  BY DEF Merged

LEMMA MergedNone == ASSUME NEW c, IsCells(c), NEW w, IsRequest(w) PROVE Merged(c, w, w.a) = c
<1>1. w.a .. w.a - 1 = {}
  BY DEF IsRequest
<1>. QED
  BY <1>1 DEF Merged, IsCells

\* What is done between m and n concerns page k alone.
LEMMA MergedPage ==
  ASSUME NEW c, NEW w, IsRequest(w), NEW k \in Nat, NEW m \in Nat, NEW n \in Nat, k * PAGE_SIZE <= m, m <= n,
         n <= k * PAGE_SIZE + PAGE_SIZE
  PROVE  \A x \in Addresses \ PageCells(k) : Merged(c, w, m)[x] = Merged(c, w, n)[x]
<1>0. k * PAGE_SIZE \in Nat /\ PAGE_SIZE \in Nat \ {0} /\ PageCells(k) = k * PAGE_SIZE .. k * PAGE_SIZE + PAGE_SIZE - 1
  BY PageIs, Sizes
<1>1. ASSUME NEW x \in Addresses, x \notin PageCells(k) PROVE Merged(c, w, m)[x] = Merged(c, w, n)[x]
  <2>1. x \in Nat
    BY Sizes DEF Addresses
  <2>2. x \in w.a .. m - 1 <=> x \in w.a .. n - 1
    BY <1>0, <1>1, <2>1 DEF IsRequest
  <2>. QED
    BY <1>1, <2>2 DEF Merged
<1>. QED
  BY <1>1

\* A page that is erased and then filled holds what it was filled with.
LEMMA FilledIs ==
  ASSUME NEW b, IsCells(b), NEW g, IsCells(g), NEW k \in Nat, k < PAGES, \A x \in Addresses \ PageCells(k) : b[x] = g[x],
         NEW d, \A i \in 1 .. PAGE_SIZE : d[i] = g[k * PAGE_SIZE + i - 1]
  PROVE  Filled(Wiped(b, k), k, d) = g
<1>0. k * PAGE_SIZE \in Nat /\ PAGE_SIZE \in Nat \ {0} /\ PageCells(k) = k * PAGE_SIZE .. k * PAGE_SIZE + PAGE_SIZE - 1
  BY PageIs, Sizes
<1>1. DOMAIN b = Addresses
  BY Zenon DEF IsCells
<1>2. Wiped(b, k) = [x \in Addresses |-> IF x \in PageCells(k) THEN ERASED ELSE b[x]]
  BY <1>1 DEF Wiped, Erase
<1>3. ASSUME NEW x \in Addresses
      PROVE  (IF x \in PageCells(k) THEN d[x - k * PAGE_SIZE + 1] ELSE Wiped(b, k)[x]) = g[x]
  <2>1. CASE x \in PageCells(k)
    <3>1. x - k * PAGE_SIZE + 1 \in 1 .. PAGE_SIZE /\ k * PAGE_SIZE + (x - k * PAGE_SIZE + 1) - 1 = x
      BY <1>0, <2>1
    <3>2. d[x - k * PAGE_SIZE + 1] = g[k * PAGE_SIZE + (x - k * PAGE_SIZE + 1) - 1]
      BY <3>1
    <3>. QED
      BY <2>1, <3>1, <3>2
  <2>2. CASE x \notin PageCells(k)
    <3>1. Wiped(b, k)[x] = b[x]
      BY <1>2, <2>2
    <3>. QED
      BY <2>2, <3>1
  <2>. QED
    BY <2>1, <2>2
<1>4. g = [x \in Addresses |-> g[x]]
  BY DEF IsCells
<1>. QED
  BY <1>3, <1>4 DEF Filled

LEMMA ImageIs == ASSUME NEW c, NEW k, NEW d, d = Image(c, k)
                 PROVE  IsSeq(d) /\ Len(d) = PAGE_SIZE /\ \A i \in 1 .. PAGE_SIZE : d[i] = c[k * PAGE_SIZE + i - 1]
<1>1. d = [i \in 1 .. PAGE_SIZE |-> c[k * PAGE_SIZE + i - 1]]
  BY DEF Image, Stretch
<1>2. d = [i \in 1 .. PAGE_SIZE |-> d[i]] /\ PAGE_SIZE \in Nat
  BY <1>1, Sizes
<1>3. IsSeq(d) /\ Len(d) = PAGE_SIZE
  BY <1>2, RowIs
<1>. QED
  BY <1>1, <1>3

\* The same, for a page that is erased and then holds the data of the request.
LEMMA FilledMerged ==
  ASSUME NEW c, NEW w, IsRequest(w), NEW k \in Nat, k < PAGES, NEW m \in Nat, NEW n \in Nat, k * PAGE_SIZE <= m, m <= n,
         n <= k * PAGE_SIZE + PAGE_SIZE, NEW d, \A i \in 1 .. PAGE_SIZE : d[i] = Merged(c, w, n)[k * PAGE_SIZE + i - 1]
  PROVE  Filled(Wiped(Merged(c, w, m), k), k, d) = Merged(c, w, n)
<1>1. \A x \in Addresses \ PageCells(k) : Merged(c, w, m)[x] = Merged(c, w, n)[x]
  BY MergedPage
<1>2. PICK b, g : b = Merged(c, w, m) /\ g = Merged(c, w, n)
  OBVIOUS
<1>3. IsCells(b) /\ IsCells(g) /\ \A x \in Addresses \ PageCells(k) : b[x] = g[x]
  BY <1>1, <1>2, MergedIs
<1>4. \A i \in 1 .. PAGE_SIZE : d[i] = g[k * PAGE_SIZE + i - 1]
  BY <1>2
<1>5. Filled(Wiped(b, k), k, d) = g
  BY <1>3, <1>4, FilledIs
<1>. QED
  BY <1>2, <1>5

\* The next n bytes belong to page k, from offset on.
Within(p, k, offset, n) ==
    /\ k \in Nat /\ k < PAGES /\ offset \in Nat /\ n \in Nat
    /\ p.wAddress = k * PAGE_SIZE + offset /\ offset + n <= PAGE_SIZE /\ n <= p.hwCount

\* n bytes of the stream are put over the buffer.
LEMMA OverlayIs ==
  ASSUME NEW c, NEW w, IsRequest(w), NEW p, Left(p, w), NEW k, NEW offset, NEW n, Within(p, k, offset, n),
         p.buffer = Image(Merged(c, w, p.wAddress), k)
  PROVE  Overlay(p, offset, n) = Image(Merged(c, w, p.wAddress + n), k)
<1>w. /\ k \in Nat /\ k < PAGES /\ offset \in Nat /\ n \in Nat
      /\ p.wAddress = k * PAGE_SIZE + offset /\ offset + n <= PAGE_SIZE /\ n <= p.hwCount
  BY DEF Within
<1>0. k * PAGE_SIZE \in Nat /\ PAGE_SIZE \in Nat \ {0} /\ PageCells(k) = k * PAGE_SIZE .. k * PAGE_SIZE + PAGE_SIZE - 1
      /\ PageCells(k) \subseteq Addresses
  BY <1>w, PageIs, Sizes
<1>1. PICK m, b, e : m = p.wAddress /\ b = k * PAGE_SIZE /\ e = p.wAddress + n
  OBVIOUS
<1>2. m \in Nat /\ w.a \in Nat /\ w.a <= m /\ p.hwCount = w.a + w.size - m /\ m = b + offset /\ b \in Nat
  BY <1>0, <1>1, <1>w DEF Left, IsRequest
<1>3. Len(p.buffer) = PAGE_SIZE /\ \A i \in 1 .. PAGE_SIZE : p.buffer[i] = Merged(c, w, m)[b + i - 1]
  BY <1>1, ImageIs
<1>4. ASSUME NEW i \in 1 .. PAGE_SIZE
      PROVE  (IF i \in offset + 1 .. offset + n THEN IF p.null THEN ERASED ELSE p.stream[i - offset] ELSE p.buffer[i])
             = Merged(c, w, e)[b + i - 1]
  <2>0. PICK z, a, h : z = b + i - 1 /\ a = w.a /\ h = p.hwCount
    OBVIOUS
  <2>n. /\ i \in Nat /\ 1 <= i /\ i <= PAGE_SIZE /\ PAGE_SIZE \in Nat /\ b \in Nat /\ m \in Nat /\ a \in Nat
        /\ z = b + i - 1 /\ m = b + offset /\ e = m + n /\ a <= m /\ n <= h /\ h \in Nat
    BY <1>0, <1>1, <1>2, <1>w, <2>0 DEF Left, IsRequest
  <2>1. z \in Addresses
    <3>1. z \in b .. b + PAGE_SIZE - 1
      BY <2>n
    <3>. QED
      BY <1>0, <1>1, <3>1
  <2>2. CASE i \in offset + 1 .. offset + n
    <3>1. z \in a .. e - 1 /\ z - a + 1 = m - a + (i - offset) /\ i - offset \in 1 .. h
      BY <1>w, <2>n, <2>2
    <3>2. Merged(c, w, e)[z] = IF w.null THEN ERASED ELSE New(m - a + (i - offset))
      <4>1. z \in w.a .. e - 1 /\ z - w.a + 1 = m - a + (i - offset)
        BY <2>0, <3>1
      <4>2. Merged(c, w, e)[z] = IF w.null THEN ERASED ELSE New(z - w.a + 1)
        BY <2>1, <4>1, MergedAt
      <4>. QED
        BY <4>1, <4>2
    <3>3. ~w.null => p.stream[i - offset] = New(m - a + (i - offset))
      BY <1>1, <2>0, <3>1 DEF Left, Rest
    <3>4. p.null = w.null
      BY DEF Left
    <3>. QED
      BY <2>0, <2>2, <3>2, <3>3, <3>4
  <2>3. CASE i \notin offset + 1 .. offset + n
    <3>1. z \in a .. e - 1 <=> z \in a .. m - 1
      BY <1>w, <2>n, <2>3
    <3>2. Merged(c, w, e)[z] = Merged(c, w, m)[z]
      <4>1. CASE z \in w.a .. m - 1
        <5>1. z \in w.a .. e - 1
          BY <2>0, <3>1, <4>1
        <5>2. Merged(c, w, e)[z] = IF w.null THEN ERASED ELSE New(z - w.a + 1)
          BY <2>1, <5>1, MergedAt
        <5>3. Merged(c, w, m)[z] = IF w.null THEN ERASED ELSE New(z - w.a + 1)
          BY <2>1, <4>1, MergedAt
        <5>. QED
          BY <5>2, <5>3
      <4>2. CASE z \notin w.a .. m - 1
        <5>1. z \notin w.a .. e - 1
          BY <2>0, <3>1, <4>2
        <5>2. Merged(c, w, e)[z] = c[z] /\ Merged(c, w, m)[z] = c[z]
          BY <2>1, <4>2, <5>1, MergedAt
        <5>. QED
          BY <5>2
      <4>. QED
        BY <4>1, <4>2
    <3>. QED
      BY <1>3, <2>0, <2>3, <3>2
  <2>. QED
    BY <2>2, <2>3
<1>5. Overlay(p, offset, n) =
      [i \in 1 .. PAGE_SIZE |->
          IF i \in offset + 1 .. offset + n THEN IF p.null THEN ERASED ELSE p.stream[i - offset] ELSE p.buffer[i]]
  BY <1>3 DEF Overlay
<1>6. Image(Merged(c, w, e), k) = [i \in 1 .. PAGE_SIZE |-> Merged(c, w, e)[b + i - 1]]
  BY <1>1 DEF Image, Stretch
<1>7. Overlay(p, offset, n) = Image(Merged(c, w, e), k)
  BY <1>4, <1>5, <1>6
<1>. QED
  BY <1>1, <1>7

\* n bytes are done with.
LEMMA LeftAfter ==
  ASSUME NEW w, IsRequest(w), NEW p, Left(p, w), NEW n \in Nat, n <= p.hwCount,
         NEW q, q.null = p.null, q.wAddress = p.wAddress + n, q.hwCount = p.hwCount - n, q.stream = Drop(p, n)
  PROVE  Left(q, w)
<1>0. p.wAddress \in Nat /\ w.a <= p.wAddress /\ p.hwCount \in Nat /\ p.hwCount = w.a + w.size - p.wAddress
  BY DEF Left, IsRequest
<1>1. q.null = w.null /\ w.size > 0 /\ q.wAddress \in w.a .. w.a + w.size /\ q.hwCount = w.a + w.size - q.wAddress
  BY <1>0 DEF Left, IsRequest
<1>2. ASSUME ~w.null PROVE Rest(q.stream, q.hwCount, q.wAddress - w.a)
  <2>1. PICK s, m, b : s = p.stream /\ m = p.hwCount /\ b = p.wAddress - w.a
    OBVIOUS
  <2>2. IsSeq(s) /\ Len(s) = m /\ m \in Nat /\ \A i \in 1 .. m : s[i] = New(b + i)
    BY <1>0, <1>2, <2>1 DEF Left, Rest
  <2>3. q.stream = SubSeq(s, n + 1, m)
    BY <1>2, <2>1, <2>2 DEF Drop, Left
  <2>4. PICK t : t = SubSeq(s, n + 1, m)
    OBVIOUS
  <2>5. IsSeq(t) /\ Len(t) = (IF n + 1 <= m THEN m - (n + 1) + 1 ELSE 0) /\ \A i \in 1 .. m - (n + 1) + 1 : t[i] = s[n + 1 + i - 1]
    <3>1. n + 1 \in Nat \ {0} /\ m <= Len(s)
      BY <2>2
    <3>. QED
      BY <2>2, <2>4, <3>1, PartIs
  <2>6. Len(t) = m - n
    BY <2>1, <2>2, <2>5
  <2>7. ASSUME NEW i \in 1 .. m - n PROVE t[i] = New(b + n + i)
    <3>1. i \in 1 .. m - (n + 1) + 1 /\ n + 1 + i - 1 = n + i /\ n + i \in 1 .. m
      BY <2>2
    <3>2. t[i] = s[n + i]
      BY <2>5, <3>1
    <3>3. s[n + i] = New(b + (n + i))
      BY <2>2, <3>1
    <3>4. b + (n + i) = b + n + i
      BY <1>0, <2>1 DEF IsRequest
    <3>. QED
      BY <3>2, <3>3, <3>4
  <2>8. q.hwCount = m - n /\ q.wAddress - w.a = b + n
    BY <1>0, <2>1 DEF IsRequest
  <2>. QED
    BY <2>3, <2>4, <2>5, <2>6, <2>7, <2>8 DEF Rest
<1>. QED
  BY <1>1, <1>2 DEF Left

-----------------------------------------------------------------------------
(* The writer's machine. *)

ThePage(p) == p.wPageAddress \div PAGE_SIZE
OnPage(p, a) == p.wPageAddress = PageOf(a)

\* The first page, of which a part is to be written, is in the buffer, and perhaps that part is written there.
Leading(p, w, c) ==
    /\ OnPage(p, w.a) /\ ThePage(p) < PAGES
    /\ ~p.modified => p.wAddress = w.a
    /\ p.modified => /\ p.wAddress > w.a /\ p.wAddress <= p.wPageAddress + PAGE_SIZE
                     /\ p.hwCount = 0 \/ p.wAddress = p.wPageAddress + PAGE_SIZE
    /\ p.buffer = Image(Merged(c, w, p.wAddress), ThePage(p))

AtPage(p) == p.wAddress % PAGE_SIZE = 0 /\ p.wPageAddress = p.wAddress
AtLast(p) == AtPage(p) /\ 0 < p.hwCount /\ p.hwCount < PAGE_SIZE

\* The same for the last page.
Trailing(p, w, c) ==
    /\ AtLast(p) /\ ThePage(p) < PAGES
    /\ ~p.modified => p.buffer = Image(Merged(c, w, p.wAddress), ThePage(p))
    /\ p.modified => p.buffer = Image(Merged(c, w, w.a + w.size), ThePage(p))

\* The whole page at the head of the data.
Whole(p) == SubSeq(p.stream, 1, PAGE_SIZE)

WriterAt(p, e, w, c) ==
    LET k == ThePage(p)
        now == Merged(c, w, p.wAddress)
    IN /\ p.chFSMWrite = "read_front" => OnPage(p, w.a) /\ p.wAddress = w.a /\ Does(e, "read", k, <<>>, c)
       /\ p.chFSMWrite = "erase_leading" => Leading(p, w, c) /\ Does(e, "erase", k, <<>>, c)
       /\ p.chFSMWrite = "modify_leading" => Leading(p, w, c) /\ Does(e, "none", 0, <<>>, Wiped(c, k))
       /\ p.chFSMWrite = "prog_leading" => Leading(p, w, c) /\ p.modified /\ Does(e, "write", k, p.buffer, Wiped(c, k))
       /\ p.chFSMWrite = "pages" => (p.hwCount = 0 \/ p.wAddress % PAGE_SIZE = 0) /\ Does(e, "none", 0, <<>>, now)
       /\ p.chFSMWrite = "erase_page" => AtPage(p) /\ p.hwCount >= PAGE_SIZE /\ Does(e, "erase", k, <<>>, now)
       /\ p.chFSMWrite = "prog_page" =>
             /\ AtPage(p) /\ p.hwCount >= PAGE_SIZE /\ k < PAGES
             /\ w.null => Does(e, "none", 0, <<>>, Wiped(now, k))
             /\ ~w.null => Does(e, "write", k, Whole(p), Wiped(now, k))
       /\ p.chFSMWrite = "read_final" => AtLast(p) /\ Does(e, "read", k, <<>>, now)
       /\ p.chFSMWrite = "erase_final" => Trailing(p, w, c) /\ Does(e, "erase", k, <<>>, now)
       /\ p.chFSMWrite = "modify_final" => Trailing(p, w, c) /\ Does(e, "none", 0, <<>>, Wiped(now, k))
       /\ p.chFSMWrite = "prog_final" => Trailing(p, w, c) /\ p.modified /\ Does(e, "write", k, p.buffer, Wiped(now, k))

Writing(p, e, w, c) == p.chFSMWrite # "start" /\ Left(p, w) /\ WriterAt(p, e, w, c)

\* Nothing of the request has been done.
Fresh(p, w) == p.chFSMWrite \in {"read_front", "pages", "erase_page", "read_final"} /\ p.wAddress = w.a

\* Where a call leaves the writer.
Done(y, w, c) == y.p.chFSMWrite = "start" /\ y.r = "cpl" /\ ~y.p.locked /\ Does(y.dev, "none", 0, <<>>, Merged(c, w, w.a + w.size))
Stays(y, w, c) == y.r # "cpl" /\ y.p.locked /\ Writing(y.p, y.dev, w, c)
Aided(e, g) == IsDev(g) /\ g.ptMethod = e.ptMethod /\ Beside(e, g)

Advances(p, e, w, c, y) ==
    /\ y.p.chFSMRead = p.chFSMRead
    /\ Aided(e, y.dev)
    /\ Done(y, w, c) \/ Stays(y, w, c)
    /\ Held(e) /\ Fresh(p, w) => Fresh(y.p, w)

LEMMA AidedSame == ASSUME NEW e, IsDev(e) PROVE Aided(e, e)
  BY DEF Aided, Beside, Others

LEMMA WaitIs == ASSUME NEW p, NEW e, NEW x, NEW waiting, NEW go, NEW y, y = Wait(p, e, x, waiting, go)
                PROVE  /\ y.dev = Moved(e, x) /\ y.r # "cpl"
                       /\ IsErr(x.r) => y.p = p
                       /\ x.r = "cpl" => y.p = go
                       /\ ~IsErr(x.r) /\ x.r # "cpl" => y.p = waiting
  BY DEF Wait, Result, Moved, IsErr

LEMMA ThePageIs == ASSUME NEW p, NEW a \in Nat, p.wPageAddress = PageOf(a)
                   PROVE  /\ ThePage(p) \in Nat /\ p.wPageAddress = ThePage(p) * PAGE_SIZE
                          /\ p.wPageAddress \in Nat /\ p.wPageAddress <= a /\ a < p.wPageAddress + PAGE_SIZE
                          /\ a = p.wPageAddress + (a % PAGE_SIZE) /\ a % PAGE_SIZE \in 0 .. PAGE_SIZE - 1
<1>0. PAGE_SIZE \in Nat \ {0}
  BY Sizes
<1>1. a \div PAGE_SIZE \in Nat /\ a % PAGE_SIZE \in 0 .. PAGE_SIZE - 1 /\ a = (a \div PAGE_SIZE) * PAGE_SIZE + (a % PAGE_SIZE)
  BY <1>0, Quotient
<1>2. PICK k, r : k = a \div PAGE_SIZE /\ r = a % PAGE_SIZE
  OBVIOUS
<1>3. k * PAGE_SIZE \in Nat /\ (k * PAGE_SIZE) \div PAGE_SIZE = k
  BY <1>1, <1>2, PageIs
<1>4. p.wPageAddress = k * PAGE_SIZE
  BY <1>2 DEF PageOf
<1>5. ThePage(p) = k
  BY <1>3, <1>4 DEF ThePage
<1>6. PICK m : m = k * PAGE_SIZE
  OBVIOUS
<1>7. m \in Nat /\ r \in 0 .. PAGE_SIZE - 1 /\ a = m + r /\ k \in Nat
  BY <1>1, <1>2, <1>3, <1>6
<1>8. m <= a /\ a < m + PAGE_SIZE
  BY <1>0, <1>7
<1>. QED
  BY <1>2, <1>4, <1>5, <1>6, <1>7, <1>8

LEMMA AtPageIs == ASSUME NEW p, AtPage(p), p.wAddress \in Nat PROVE OnPage(p, p.wAddress)
<1>0. PAGE_SIZE \in Nat \ {0}
  BY Sizes
<1>1. PICK a : a = p.wAddress
  OBVIOUS
<1>2. a \in Nat /\ a % PAGE_SIZE = 0 /\ a = (a \div PAGE_SIZE) * PAGE_SIZE + (a % PAGE_SIZE) /\ a \div PAGE_SIZE \in Nat
  BY <1>0, <1>1, Quotient DEF AtPage
<1>3. PICK m : m = (a \div PAGE_SIZE) * PAGE_SIZE
  OBVIOUS
<1>4. a = m + 0 /\ m \in Nat
  <2>1. m \in Nat
    BY <1>2, <1>3, PageIs
  <2>. QED
    BY <1>2, <1>3, <2>1
<1>5. a = m
  BY <1>4
<1>. QED
  BY <1>1, <1>3, <1>5 DEF AtPage, OnPage, PageOf

\* The state of the machine and the lock apart.
Same(p, q) ==
    /\ q.wAddress = p.wAddress /\ q.hwCount = p.hwCount /\ q.wPageAddress = p.wPageAddress
    /\ q.stream = p.stream /\ q.null = p.null /\ q.buffer = p.buffer /\ q.modified = p.modified

LEMMA SameLeft == ASSUME NEW p, NEW q, Same(p, q), NEW w, Left(p, w) PROVE Left(q, w)
  BY DEF Same, Left

LEMMA SamePage == ASSUME NEW p, NEW q, Same(p, q)
                  PROVE  /\ ThePage(q) = ThePage(p) /\ (AtPage(p) => AtPage(q)) /\ (AtLast(p) => AtLast(q))
                         /\ \A a : OnPage(p, a) => OnPage(q, a)
  BY DEF Same, ThePage, AtPage, AtLast, OnPage

LEMMA SameLeading == ASSUME NEW p, NEW q, Same(p, q), NEW w, NEW c, Leading(p, w, c) PROVE Leading(q, w, c)
<1>1. ThePage(q) = ThePage(p) /\ OnPage(q, w.a)
  BY SamePage DEF Leading
<1>. QED
  BY <1>1 DEF Same, Leading

LEMMA SameTrailing == ASSUME NEW p, NEW q, Same(p, q), NEW w, NEW c, Trailing(p, w, c) PROVE Trailing(q, w, c)
<1>1. ThePage(q) = ThePage(p) /\ AtLast(q)
  BY SamePage DEF Trailing
<1>. QED
  BY <1>1 DEF Same, Trailing

\* The machine in a state.
InState(p, state) == [p EXCEPT !.chFSMWrite = state]

LEMMA StateIs == ASSUME NEW p, IsPage(p), NEW state, NEW q, q = InState(p, state)
                 PROVE  Same(p, q) /\ q.chFSMWrite = state /\ q.chFSMRead = p.chFSMRead /\ q.locked = p.locked /\ DOMAIN q = PageFields
  BY DEF IsPage, PageFields, Same, InState

LEMMA ModifyLeading ==
  ASSUME NEW p, IsPage(p), NEW w, IsRequest(w), Left(p, w), NEW c, Leading(p, w, c), NEW q, q = modify_leading_page(p)
  PROVE  /\ Left(q, w) /\ Leading(q, w, c) /\ q.modified /\ ThePage(q) = ThePage(p)
         /\ q.chFSMWrite = p.chFSMWrite /\ q.chFSMRead = p.chFSMRead /\ q.locked = p.locked
<1>1. CASE p.modified
  BY <1>1 DEF modify_leading_page
<1>2. CASE ~p.modified
  <2>1. PICK offset : offset = p.wAddress % PAGE_SIZE
    OBVIOUS
  <2>2. PICK n : n = Least(PAGE_SIZE - offset, p.hwCount)
    OBVIOUS
  <2>3. q = [p EXCEPT !.modified = TRUE, !.buffer = Overlay(p, offset, n), !.hwCount = @ - n, !.wAddress = @ + n,
                      !.stream = Drop(p, n)]
    BY <1>2, <2>1, <2>2 DEF modify_leading_page
  <2>4. /\ q.modified /\ q.buffer = Overlay(p, offset, n) /\ q.hwCount = p.hwCount - n /\ q.wAddress = p.wAddress + n
        /\ q.stream = Drop(p, n) /\ q.null = p.null /\ q.wPageAddress = p.wPageAddress
        /\ q.chFSMWrite = p.chFSMWrite /\ q.chFSMRead = p.chFSMRead /\ q.locked = p.locked
    BY <2>3 DEF IsPage, PageFields
  <2>5. PICK k, b, m, h : k = ThePage(p) /\ b = p.wPageAddress /\ m = p.wAddress /\ h = p.hwCount
    OBVIOUS
  <2>6. m = w.a /\ m \in Nat /\ h \in Nat /\ h > 0 /\ w.a \in Nat
    BY <1>2, <2>5 DEF Leading, Left, IsRequest
  <2>7. k \in Nat /\ b = k * PAGE_SIZE /\ b \in Nat /\ m = b + offset /\ offset \in 0 .. PAGE_SIZE - 1 /\ k < PAGES
    <3>1. p.wPageAddress = PageOf(m) /\ k < PAGES
      BY <2>5, <2>6 DEF Leading, OnPage
    <3>. QED
      BY <2>1, <2>5, <2>6, <3>1, ThePageIs
  <2>8. n \in Nat /\ n > 0 /\ n <= h /\ offset + n <= PAGE_SIZE /\ (n = h \/ offset + n = PAGE_SIZE) /\ offset \in Nat
    <3>1. n = IF PAGE_SIZE - offset < h THEN PAGE_SIZE - offset ELSE h
      BY <2>2, <2>5 DEF Least
    <3>. QED
      BY <2>6, <2>7, <3>1, Sizes
  <2>9. Left(q, w)
    <3>1. n \in Nat /\ n <= p.hwCount
      BY <2>5, <2>8
    <3>. QED
      BY <2>4, <3>1, LeftAfter
  <2>a. Overlay(p, offset, n) = Image(Merged(c, w, p.wAddress + n), k)
    <3>1. p.buffer = Image(Merged(c, w, p.wAddress), k)
      BY <2>5 DEF Leading
    <3>2. Within(p, k, offset, n)
      BY <2>5, <2>7, <2>8 DEF Within
    <3>. QED
      BY <3>1, <3>2, OverlayIs
  <2>b. ThePage(q) = k
    BY <2>4, <2>5 DEF ThePage
  <2>c. q.buffer = Image(Merged(c, w, q.wAddress), k)
    BY <2>4, <2>a
  <2>d. q.wAddress > w.a /\ q.wAddress <= q.wPageAddress + PAGE_SIZE /\ (q.hwCount = 0 \/ q.wAddress = q.wPageAddress + PAGE_SIZE)
    <3>1. PICK u, v : u = q.wAddress /\ v = q.hwCount
      OBVIOUS
    <3>2. u = m + n /\ v = h - n /\ q.wPageAddress = b
      BY <2>4, <2>5, <3>1
    <3>3. u > m /\ u <= b + PAGE_SIZE /\ (v = 0 \/ u = b + PAGE_SIZE)
      BY <2>6, <2>7, <2>8, <3>2, Sizes
    <3>. QED
      BY <2>6, <3>1, <3>2, <3>3
  <2>e. OnPage(q, w.a)
    BY <2>4 DEF Leading, OnPage
  <2>f. Leading(q, w, c)
    BY <2>4, <2>7, <2>b, <2>c, <2>d, <2>e DEF Leading
  <2>. QED
    BY <2>4, <2>5, <2>9, <2>b, <2>f
<1>. QED
  BY <1>1, <1>2

LEMMA ModifyFinal ==
  ASSUME NEW p, IsPage(p), NEW w, IsRequest(w), Left(p, w), NEW c, Trailing(p, w, c), NEW q, q = modify_final_page(p)
  PROVE  /\ Left(q, w) /\ Trailing(q, w, c) /\ q.modified /\ ThePage(q) = ThePage(p) /\ q.wAddress = p.wAddress
         /\ q.chFSMWrite = p.chFSMWrite /\ q.chFSMRead = p.chFSMRead /\ q.locked = p.locked
<1>1. CASE p.modified
  BY <1>1 DEF modify_final_page
<1>2. CASE ~p.modified
  <2>1. q = [p EXCEPT !.modified = TRUE, !.buffer = Overlay(p, 0, p.hwCount)]
    BY <1>2 DEF modify_final_page
  <2>2. /\ q.modified /\ q.buffer = Overlay(p, 0, p.hwCount) /\ q.hwCount = p.hwCount /\ q.wAddress = p.wAddress
        /\ q.stream = p.stream /\ q.null = p.null /\ q.wPageAddress = p.wPageAddress
        /\ q.chFSMWrite = p.chFSMWrite /\ q.chFSMRead = p.chFSMRead /\ q.locked = p.locked
    BY <2>1 DEF IsPage, PageFields
  <2>3. PICK k, m, h : k = ThePage(p) /\ m = p.wAddress /\ h = p.hwCount
    OBVIOUS
  <2>4. m \in Nat /\ h \in Nat /\ m + h = w.a + w.size
    BY <2>3 DEF Left, IsRequest
  <2>5. k \in Nat /\ p.wPageAddress = k * PAGE_SIZE /\ k < PAGES
    <3>1. p.wPageAddress = PageOf(m) /\ k < PAGES
      BY <2>3, <2>4, AtPageIs DEF Trailing, AtLast, OnPage
    <3>. QED
      BY <2>3, <2>4, <3>1, ThePageIs
  <2>6. p.wAddress = k * PAGE_SIZE + 0 /\ 0 + h <= PAGE_SIZE
    <3>1. k * PAGE_SIZE \in Nat /\ p.wAddress = k * PAGE_SIZE
      BY <2>5, PageIs DEF Trailing, AtLast, AtPage
    <3>2. h < PAGE_SIZE /\ PAGE_SIZE \in Nat
      BY <2>3, Sizes DEF Trailing, AtLast
    <3>. QED
      BY <2>4, <3>1, <3>2
  <2>7. Overlay(p, 0, h) = Image(Merged(c, w, p.wAddress + h), k)
    <3>1. p.buffer = Image(Merged(c, w, p.wAddress), k)
      BY <1>2, <2>3 DEF Trailing
    <3>2. Within(p, k, 0, h)
      BY <2>3, <2>4, <2>5, <2>6 DEF Within
    <3>. QED
      BY <3>1, <3>2, OverlayIs
  <2>8. q.buffer = Image(Merged(c, w, w.a + w.size), k)
    BY <2>2, <2>3, <2>4, <2>7
  <2>9. ThePage(q) = k /\ AtLast(q)
    BY <2>2, <2>3 DEF ThePage, Trailing, AtLast, AtPage
  <2>a. Left(q, w)
    BY <2>2 DEF Left
  <2>b. Trailing(q, w, c)
    BY <2>2, <2>5, <2>8, <2>9 DEF Trailing
  <2>. QED
    BY <2>2, <2>3, <2>9, <2>a, <2>b
<1>. QED
  BY <1>1, <1>2

\* The whole page at the head of the request is done.
LEMMA NextPageIs ==
  ASSUME NEW p, IsPage(p), NEW w, IsRequest(w), Left(p, w), AtPage(p), p.hwCount >= PAGE_SIZE, NEW q, q = NextPage(p)
  PROVE  /\ Left(q, w) /\ q.wAddress = p.wAddress + PAGE_SIZE /\ q.wAddress % PAGE_SIZE = 0
         /\ q.chFSMWrite = "pages" /\ q.chFSMRead = p.chFSMRead /\ q.locked = p.locked
<1>0. PAGE_SIZE \in Nat \ {0}
  BY Sizes
<1>1. /\ q.wAddress = p.wAddress + PAGE_SIZE /\ q.hwCount = p.hwCount - PAGE_SIZE /\ q.stream = Drop(p, PAGE_SIZE)
      /\ q.null = p.null /\ q.chFSMWrite = "pages" /\ q.chFSMRead = p.chFSMRead /\ q.locked = p.locked
  BY DEF NextPage, IsPage, PageFields
<1>2. Left(q, w)
  <2>1. PAGE_SIZE \in Nat /\ PAGE_SIZE <= p.hwCount
    BY <1>0 DEF Left, IsRequest
  <2>. QED
    BY <1>1, <2>1, LeftAfter
<1>3. q.wAddress % PAGE_SIZE = 0
  <2>1. PICK m : m = p.wAddress
    OBVIOUS
  <2>2. m \in Nat
    BY <2>1 DEF Left, IsRequest
  <2>3. p.wPageAddress = PageOf(m)
    BY <2>1, <2>2, AtPageIs DEF OnPage
  <2>4. PICK k : k = ThePage(p)
    OBVIOUS
  <2>5. k \in Nat /\ m = k * PAGE_SIZE
    <3>1. ThePage(p) \in Nat /\ p.wPageAddress = ThePage(p) * PAGE_SIZE
      BY <2>2, <2>3, ThePageIs
    <3>. QED
      BY <2>1, <2>4, <3>1 DEF AtPage
  <2>6. (k + 1) * PAGE_SIZE = k * PAGE_SIZE + PAGE_SIZE
    <3>1. ASSUME NEW y \in Nat PROVE (k + 1) * y = k * y + y
      BY <2>5
    <3>. QED
      BY <1>0, <3>1
  <2>7. ((k + 1) * PAGE_SIZE) % PAGE_SIZE = 0
    <3>1. k + 1 \in Nat
      BY <2>5
    <3>. QED
      BY <3>1, PageIs
  <2>. QED
    BY <1>1, <2>1, <2>5, <2>6, <2>7
<1>. QED
  BY <1>1, <1>2, <1>3

-----------------------------------------------------------------------------
(* Its calls of the memory. *)

LEMMA ErrIs == ~IsErr("cpl") /\ ~IsErr("on_going")
  BY DEF IsErr

\* The page is in the buffer.
Loaded(p, next, d) == [p EXCEPT !.buffer = d, !.modified = FALSE, !.chFSMWrite = next]

LEMMA LoadedIs ==
  ASSUME NEW p, IsPage(p), NEW next, NEW d, NEW q, q = Loaded(p, next, d)
  PROVE  /\ q.buffer = d /\ ~q.modified /\ q.chFSMWrite = next /\ q.wAddress = p.wAddress
         /\ q.hwCount = p.hwCount /\ q.wPageAddress = p.wPageAddress /\ q.stream = p.stream /\ q.null = p.null
         /\ q.chFSMRead = p.chFSMRead /\ q.locked = p.locked
  BY DEF IsPage, PageFields, Loaded

LEMMA BeforeIs ==
  ASSUME NEW p, IsPage(p), NEW e, IsDev(e), NEW k \in Nat, p.wPageAddress = k * PAGE_SIZE, NEW c, IsCells(c),
         Does(e, "read", k, <<>>, c), NEW next, NEW y, y = ReadBeforeModify(p, e, next)
  PROVE  /\ y.r # "cpl" /\ Aided(e, y.dev) /\ (Held(e) => y.p = p)
         /\ \/ y.p = p /\ Does(y.dev, "read", k, <<>>, c)
            \/ /\ k < PAGES /\ Does(y.dev, "none", 0, <<>>, c)
               /\ y.p = Loaded(p, next, Image(c, k))
<1>1. PICK x : x = mal_page_read(e, k * PAGE_SIZE)
  OBVIOUS
<1>2. PICK go : go = Loaded(p, next, x.s.in)
  OBVIOUS
<1>3. y = Wait(p, e, x, p, go)
  BY <1>1, <1>2 DEF ReadBeforeModify, Loaded
<1>4. /\ Does(Moved(e, x), "read", k, <<>>, c) /\ Beside(e, Moved(e, x))
      /\ x.r = "cpl" => Does(Moved(e, x), "none", 0, <<>>, c) /\ x.s.in = Image(c, k) /\ k < PAGES
      /\ Held(e) => x.s = e.s /\ IsErr(x.r)
  BY <1>1, ReadDoes
<1>5. /\ y.dev = Moved(e, x) /\ y.r # "cpl"
      /\ IsErr(x.r) => y.p = p
      /\ x.r = "cpl" => y.p = go
      /\ ~IsErr(x.r) /\ x.r # "cpl" => y.p = p
  BY <1>3, WaitIs
<1>6. Aided(e, y.dev)
  BY <1>4, <1>5, MovedIs DEF Aided
<1>7. CASE x.r = "cpl"
  BY <1>2, <1>4, <1>5, <1>6, <1>7, ErrIs
<1>8. CASE x.r # "cpl"
  BY <1>4, <1>5, <1>6, <1>8
<1>. QED
  BY <1>7, <1>8

LEMMA EraseWaitIs ==
  ASSUME NEW e, IsDev(e), NEW k \in Nat, NEW c, IsCells(c), Does(e, "erase", k, <<>>, c),
         NEW x, x = mal_page_erase(e, k * PAGE_SIZE), NEW p, NEW waiting, NEW go, NEW y, y = Wait(p, e, x, waiting, go)
  PROVE  /\ y.r # "cpl" /\ Aided(e, y.dev) /\ (Held(e) => y.p = p)
         /\ \/ y.p \in {p, waiting} /\ Does(y.dev, "erase", k, <<>>, c)
            \/ k < PAGES /\ y.p = go /\ Does(y.dev, "none", 0, <<>>, Wiped(c, k))
<1>4. /\ Beside(e, Moved(e, x))
      /\ IF x.r = "cpl" THEN k < PAGES /\ Does(Moved(e, x), "none", 0, <<>>, Wiped(c, k))
         ELSE Does(Moved(e, x), "erase", k, <<>>, c)
      /\ Held(e) => x.s = e.s /\ IsErr(x.r)
  BY EraseDoes
<1>5. /\ y.dev = Moved(e, x) /\ y.r # "cpl"
      /\ IsErr(x.r) => y.p = p
      /\ x.r = "cpl" => y.p = go
      /\ ~IsErr(x.r) /\ x.r # "cpl" => y.p = waiting
  BY WaitIs
<1>6. Aided(e, y.dev)
  BY <1>4, <1>5, MovedIs DEF Aided
<1>7. CASE x.r = "cpl"
  BY <1>4, <1>5, <1>6, <1>7, ErrIs
<1>8. CASE x.r # "cpl"
  BY <1>4, <1>5, <1>6, <1>8
<1>. QED
  BY <1>7, <1>8

LEMMA ProgramWaitIs ==
  ASSUME NEW e, IsDev(e), NEW k \in Nat, NEW d, IsSeq(d), Len(d) = PAGE_SIZE, NEW c, IsCells(c), IsWiped(c, k),
         Does(e, "write", k, d, c),
         NEW x, x = mal_page_write(e, k * PAGE_SIZE, d), NEW p, NEW go, NEW y, y = Wait(p, e, x, p, go)
  PROVE  /\ y.r # "cpl" /\ Aided(e, y.dev) /\ (Held(e) => y.p = p)
         /\ \/ y.p = p /\ Does(y.dev, "write", k, d, c)
            \/ y.p = go /\ Does(y.dev, "none", 0, <<>>, Filled(c, k, d))
<1>4. /\ Beside(e, Moved(e, x))
      /\ IF x.r = "cpl" THEN Does(Moved(e, x), "none", 0, <<>>, Filled(c, k, d))
         ELSE Does(Moved(e, x), "write", k, d, c)
      /\ Held(e) => x.s = e.s /\ IsErr(x.r)
  BY WriteDoes
<1>5. /\ y.dev = Moved(e, x) /\ y.r # "cpl"
      /\ IsErr(x.r) => y.p = p
      /\ x.r = "cpl" => y.p = go
      /\ ~IsErr(x.r) /\ x.r # "cpl" => y.p = p
  BY WaitIs
<1>6. Aided(e, y.dev)
  BY <1>4, <1>5, MovedIs DEF Aided
<1>7. CASE x.r = "cpl"
  BY <1>4, <1>5, <1>6, <1>7, ErrIs
<1>8. CASE x.r # "cpl"
  BY <1>4, <1>5, <1>6, <1>8
<1>. QED
  BY <1>7, <1>8

\* An address at the start of a page is that page's.
LEMMA StartOfPage == ASSUME NEW a \in Nat, a % PAGE_SIZE = 0 PROVE PageOf(a) = a
<1>0. PAGE_SIZE \in Nat \ {0}
  BY Sizes
<1>1. a \div PAGE_SIZE \in Nat /\ a = (a \div PAGE_SIZE) * PAGE_SIZE + (a % PAGE_SIZE)
  BY <1>0, Quotient
<1>2. PICK m : m = (a \div PAGE_SIZE) * PAGE_SIZE
  OBVIOUS
<1>3. m \in Nat
  BY <1>1, <1>2, PageIs
<1>4. a = m + 0
  BY <1>1, <1>2
<1>. QED
  BY <1>2, <1>3, <1>4 DEF PageOf

\* WRITE_PAGES.
LEMMA PagesWorks ==
  ASSUME NEW p, IsPage(p), p.locked, NEW e, IsDev(e), NEW w, IsRequest(w), Left(p, w), NEW c,
         p.hwCount = 0 \/ p.wAddress % PAGE_SIZE = 0, Does(e, "none", 0, <<>>, Merged(c, w, p.wAddress)),
         NEW y, y = WritePages(p, e)
  PROVE  /\ y.dev = e /\ y.p.chFSMRead = p.chFSMRead
         /\ Done(y, w, c) \/ Stays(y, w, c)
         /\ p.wAddress = w.a => Fresh(y.p, w)
<1>1. PICK q : q = [p EXCEPT !.wPageAddress = PageOf(p.wAddress)]
  OBVIOUS
<1>2. /\ q.wPageAddress = PageOf(p.wAddress) /\ q.hwCount = p.hwCount /\ q.wAddress = p.wAddress /\ q.stream = p.stream
      /\ q.null = p.null /\ q.locked = p.locked /\ q.chFSMRead = p.chFSMRead /\ DOMAIN q = PageFields
  BY <1>1 DEF IsPage, PageFields
<1>3. p.wAddress \in Nat /\ p.hwCount \in Nat /\ p.wAddress + p.hwCount = w.a + w.size /\ w.size > 0 /\ w.a \in Nat /\ w.size \in Nat
  BY DEF Left, IsRequest
<1>4. Left(q, w)
  BY <1>2 DEF Left
<1>5. PICK k, now : k = ThePage(q) /\ now = Merged(c, w, q.wAddress)
  OBVIOUS
<1>6. Does(e, "none", 0, <<>>, now)
  BY <1>2, <1>5
<1>7. Does(e, "erase", k, <<>>, now) /\ Does(e, "read", k, <<>>, now)
  BY <1>6, DoesBegin
<1>8. p.hwCount > 0 => q.wAddress % PAGE_SIZE = 0 /\ q.wPageAddress = q.wAddress
  BY <1>2, <1>3, StartOfPage
<1>9. CASE p.hwCount >= PAGE_SIZE
  <2>0. PAGE_SIZE \in Nat \ {0}
    BY Sizes
  <2>1. PICK t : t = [q EXCEPT !.chFSMWrite = "erase_page"]
    OBVIOUS
  <2>2. y.p = t /\ y.dev = e /\ y.r = "on_going"
    BY <1>1, <1>2, <1>9, <2>1 DEF WritePages, Stay
  <2>3. /\ t.wPageAddress = q.wPageAddress /\ t.hwCount = p.hwCount /\ t.wAddress = q.wAddress /\ t.stream = q.stream
        /\ t.null = q.null /\ t.locked = p.locked /\ t.chFSMRead = p.chFSMRead /\ t.chFSMWrite = "erase_page"
    BY <1>2, <2>1 DEF PageFields
  <2>4. AtPage(t) /\ t.hwCount >= PAGE_SIZE
    BY <1>3, <1>8, <1>9, <2>0, <2>3 DEF AtPage
  <2>5. ThePage(t) = k
    BY <1>5, <2>3 DEF ThePage
  <2>6. WriterAt(t, e, w, c)
    BY <1>5, <1>7, <2>3, <2>4, <2>5 DEF WriterAt
  <2>7. Left(t, w)
    BY <1>2, <1>4, <2>3 DEF Left
  <2>8. Stays(y, w, c)
    BY <2>2, <2>3, <2>6, <2>7 DEF Stays, Writing
  <2>9. p.wAddress = w.a => Fresh(t, w)
    BY <1>2, <2>3 DEF Fresh
  <2>. QED
    BY <2>2, <2>3, <2>8, <2>9
<1>a. CASE ~(p.hwCount >= PAGE_SIZE) /\ p.hwCount > 0
  <2>0. PAGE_SIZE \in Nat \ {0}
    BY Sizes
  <2>1. PICK t : t = [q EXCEPT !.chFSMWrite = "read_final"]
    OBVIOUS
  <2>2. y.p = t /\ y.dev = e /\ y.r = "on_going"
    BY <1>1, <1>2, <1>a, <2>1 DEF WritePages, Stay
  <2>3. /\ t.wPageAddress = q.wPageAddress /\ t.hwCount = p.hwCount /\ t.wAddress = q.wAddress /\ t.stream = q.stream
        /\ t.null = q.null /\ t.locked = p.locked /\ t.chFSMRead = p.chFSMRead /\ t.chFSMWrite = "read_final"
    BY <1>2, <2>1 DEF PageFields
  <2>4. AtLast(t)
    BY <1>3, <1>8, <1>a, <2>0, <2>3 DEF AtPage, AtLast
  <2>5. ThePage(t) = k
    BY <1>5, <2>3 DEF ThePage
  <2>6. WriterAt(t, e, w, c)
    BY <1>5, <1>7, <2>3, <2>4, <2>5 DEF WriterAt
  <2>7. Left(t, w)
    BY <1>2, <1>4, <2>3 DEF Left
  <2>8. Stays(y, w, c)
    BY <2>2, <2>3, <2>6, <2>7 DEF Stays, Writing
  <2>9. p.wAddress = w.a => Fresh(t, w)
    BY <1>2, <2>3 DEF Fresh
  <2>. QED
    BY <2>2, <2>3, <2>8, <2>9
<1>b. CASE ~(p.hwCount >= PAGE_SIZE) /\ ~(p.hwCount > 0)
  <2>1. PICK t : t = [q EXCEPT !.chFSMWrite = "start", !.locked = FALSE]
    OBVIOUS
  <2>2. y.p = t /\ y.dev = e /\ y.r = "cpl"
    BY <1>1, <1>2, <1>b, <2>1 DEF WritePages, Stay
  <2>3. t.chFSMWrite = "start" /\ ~t.locked /\ t.chFSMRead = p.chFSMRead
    BY <1>2, <2>1 DEF PageFields
  <2>4. q.wAddress = w.a + w.size /\ p.wAddress # w.a
    BY <1>2, <1>3, <1>b
  <2>5. Done(y, w, c)
    BY <1>5, <1>6, <2>2, <2>3, <2>4 DEF Done
  <2>. QED
    BY <2>2, <2>3, <2>4, <2>5
<1>. QED
  BY <1>9, <1>a, <1>b

-----------------------------------------------------------------------------
(* A page that is left erased, and one that is programmed whole. *)

LEMMA WipedMerged ==
  ASSUME NEW c, IsCells(c), NEW w, IsRequest(w), w.null, NEW k \in Nat, k < PAGES, NEW m \in Nat, m = k * PAGE_SIZE, w.a <= m
  PROVE  Wiped(Merged(c, w, m), k) = Merged(c, w, m + PAGE_SIZE)
<1>0. PAGE_SIZE \in Nat \ {0} /\ PageCells(k) = m .. m + PAGE_SIZE - 1
  BY PageIs, Sizes
<1>1. PICK n, f, g : n = m + PAGE_SIZE /\ f = Merged(c, w, m) /\ g = Merged(c, w, n)
  OBVIOUS
<1>2. DOMAIN f = Addresses
  BY <1>1 DEF Merged
<1>3. Wiped(f, k) = [x \in Addresses |-> IF x \in PageCells(k) THEN ERASED ELSE f[x]]
  BY <1>2 DEF Wiped, Erase
<1>4. ASSUME NEW x \in Addresses
      PROVE (IF x \in PageCells(k) THEN ERASED ELSE f[x]) = IF x \in w.a .. n - 1 THEN IF w.null THEN ERASED ELSE New(x - w.a + 1) ELSE c[x]
  <2>1. x \in Nat /\ w.a \in Nat
    BY Sizes DEF Addresses, IsRequest
  <2>2. f[x] = IF x \in w.a .. m - 1 THEN IF w.null THEN ERASED ELSE New(x - w.a + 1) ELSE c[x]
    BY <1>1 DEF Merged
  <2>3. x \in w.a .. n - 1 <=> x \in PageCells(k) \/ x \in w.a .. m - 1
    <3>1. PICK a : a = w.a
      OBVIOUS
    <3>2. x \in a .. n - 1 <=> x \in m .. m + PAGE_SIZE - 1 \/ x \in a .. m - 1
      BY <1>0, <1>1, <2>1, <3>1
    <3>. QED
      BY <1>0, <3>1, <3>2
  <2>. QED
    BY <2>2, <2>3
<1>5. g = [x \in Addresses |-> IF x \in w.a .. n - 1 THEN IF w.null THEN ERASED ELSE New(x - w.a + 1) ELSE c[x]]
  BY <1>1 DEF Merged
<1>6. Wiped(f, k) = g
  BY <1>3, <1>4, <1>5
<1>. QED
  BY <1>1, <1>6

\* d is what the page is to hold.
Suits(d, c, w, k, p) ==
    /\ IsSeq(d) /\ Len(d) = PAGE_SIZE
    /\ \A i \in 1 .. PAGE_SIZE : d[i] = Merged(c, w, p.wAddress + PAGE_SIZE)[k * PAGE_SIZE + i - 1]

LEMMA WholeIs ==
  ASSUME NEW p, NEW w, IsRequest(w), Left(p, w), ~w.null, NEW k \in Nat, k < PAGES, p.wAddress = k * PAGE_SIZE,
         p.hwCount >= PAGE_SIZE, NEW c, NEW d, d = Whole(p)
  PROVE  Suits(d, c, w, k, p)
<1>0. PAGE_SIZE \in Nat \ {0} /\ k * PAGE_SIZE \in Nat /\ PageCells(k) = k * PAGE_SIZE .. k * PAGE_SIZE + PAGE_SIZE - 1
      /\ PageCells(k) \subseteq Addresses
  BY PageIs, Sizes
<1>1. PICK m, h, a, n, b : m = p.wAddress /\ h = p.hwCount /\ a = w.a /\ n = p.wAddress + PAGE_SIZE /\ b = p.wAddress - w.a
  OBVIOUS
<1>2. m \in Nat /\ h \in Nat /\ a \in Nat /\ a <= m /\ h >= PAGE_SIZE /\ n = m + PAGE_SIZE /\ b = m - a
  BY <1>1 DEF Left, IsRequest
<1>3. IsSeq(p.stream) /\ Len(p.stream) = h /\ \A i \in 1 .. h : p.stream[i] = New(b + i)
  BY <1>1 DEF Left, Rest
<1>4. /\ IsSeq(d) /\ Len(d) = (IF 1 <= PAGE_SIZE THEN PAGE_SIZE - 1 + 1 ELSE 0)
      /\ \A i \in 1 .. PAGE_SIZE - 1 + 1 : d[i] = p.stream[1 + i - 1]
  <2>1. 1 \in Nat \ {0} /\ PAGE_SIZE \in Nat /\ PAGE_SIZE <= Len(p.stream)
    BY <1>0, <1>2, <1>3
  <2>. QED
    BY <1>3, <2>1, PartIs DEF Whole
<1>5. Len(d) = PAGE_SIZE
  BY <1>0, <1>4
<1>6. ASSUME NEW i \in 1 .. PAGE_SIZE PROVE d[i] = Merged(c, w, n)[m + i - 1]
  <2>1. i \in 1 .. PAGE_SIZE - 1 + 1 /\ 1 + i - 1 = i /\ i \in 1 .. h
    BY <1>0, <1>2
  <2>2. d[i] = New(b + i)
    BY <1>3, <1>4, <2>1
  <2>3. PICK x : x = m + i - 1
    OBVIOUS
  <2>4. x \in a .. n - 1 /\ x - a + 1 = b + i /\ x \in m .. m + PAGE_SIZE - 1
    BY <1>0, <1>2, <2>3
  <2>5. x \in Addresses
    BY <1>0, <1>1, <2>4
  <2>6. Merged(c, w, n)[x] = New(x - w.a + 1)
    <3>1. x \in w.a .. n - 1
      BY <1>1, <2>4
    <3>. QED
      BY <2>5, <3>1, MergedAt
  <2>. QED
    BY <1>1, <2>2, <2>3, <2>4, <2>6
<1>. QED
  BY <1>1, <1>4, <1>5, <1>6 DEF Suits

-----------------------------------------------------------------------------
(* The states of the writer's machine, one by one. *)

Engaged(p, e, w, c) == IsPage(p) /\ IsDev(e) /\ IsRequest(w) /\ IsCells(c) /\ p.locked /\ Writing(p, e, w, c)

LEMMA FrontBase == ASSUME NEW p, NEW w, IsRequest(w), OnPage(p, w.a), NEW k, k = ThePage(p)
                   PROVE  k \in Nat /\ p.wPageAddress = k * PAGE_SIZE /\ p.wPageAddress \in Nat /\ p.wPageAddress <= w.a
<1>1. w.a \in Nat /\ p.wPageAddress = PageOf(w.a)
  BY DEF IsRequest, OnPage
<1>. QED
  BY <1>1, ThePageIs

LEMMA HeadBase == ASSUME NEW p, NEW w, IsRequest(w), Left(p, w), AtPage(p), NEW k, k = ThePage(p)
                  PROVE  k \in Nat /\ p.wPageAddress = k * PAGE_SIZE /\ p.wAddress = k * PAGE_SIZE
                         /\ p.wAddress \in Nat /\ p.hwCount \in Nat /\ w.a <= p.wAddress /\ w.a \in Nat
                         /\ p.wAddress + p.hwCount = w.a + w.size
<1>1. p.wAddress \in Nat /\ p.hwCount \in Nat /\ w.a <= p.wAddress /\ p.wAddress + p.hwCount = w.a + w.size /\ w.a \in Nat
  BY DEF Left, IsRequest
<1>2. p.wPageAddress = PageOf(p.wAddress)
  BY <1>1, AtPageIs DEF OnPage
<1>3. k \in Nat /\ p.wPageAddress = k * PAGE_SIZE
  BY <1>1, <1>2, ThePageIs
<1>. QED
  BY <1>1, <1>3 DEF AtPage

\* A call after which the writer is still at work.
LEMMA KeepsAt ==
  ASSUME NEW p, NEW e, NEW w, NEW c, NEW y, y.p.chFSMRead = p.chFSMRead, Aided(e, y.dev), y.r # "cpl", y.p.locked,
         y.p.chFSMWrite # "start", Left(y.p, w), WriterAt(y.p, y.dev, w, c), Held(e) /\ Fresh(p, w) => Fresh(y.p, w)
  PROVE  Advances(p, e, w, c, y)
  BY DEF Advances, Stays, Writing

LEMMA ReadFrontAdvances ==
  ASSUME NEW p, NEW e, NEW w, NEW c, Engaged(p, e, w, c), p.chFSMWrite = "read_front",
         NEW y, y = ReadBeforeModify(p, e, "erase_leading")
  PROVE  Advances(p, e, w, c, y)
<1>0. IsPage(p) /\ IsDev(e) /\ IsRequest(w) /\ IsCells(c) /\ p.locked /\ Left(p, w)
  BY DEF Engaged, Writing
<1>1. PICK k : k = ThePage(p)
  OBVIOUS
<1>2. OnPage(p, w.a) /\ p.wAddress = w.a /\ Does(e, "read", k, <<>>, c)
  BY <1>1 DEF Engaged, Writing, WriterAt
<1>3. k \in Nat /\ p.wPageAddress = k * PAGE_SIZE
  BY <1>0, <1>1, <1>2, FrontBase
<1>4. /\ y.r # "cpl" /\ Aided(e, y.dev) /\ (Held(e) => y.p = p)
      /\ \/ y.p = p /\ Does(y.dev, "read", k, <<>>, c)
         \/ /\ k < PAGES /\ Does(y.dev, "none", 0, <<>>, c)
            /\ y.p = Loaded(p, "erase_leading", Image(c, k))
  BY <1>0, <1>2, <1>3, BeforeIs
<1>5. CASE y.p = p /\ Does(y.dev, "read", k, <<>>, c)
  <2>1. WriterAt(y.p, y.dev, w, c)
    BY <1>1, <1>2, <1>5 DEF WriterAt
  <2>. QED
    BY <1>0, <1>4, <1>5, <2>1, KeepsAt
<1>6. CASE /\ k < PAGES /\ Does(y.dev, "none", 0, <<>>, c)
           /\ y.p = Loaded(p, "erase_leading", Image(c, k))
  <2>1. PICK q : q = y.p
    OBVIOUS
  <2>2. /\ q.buffer = Image(c, k) /\ ~q.modified /\ q.chFSMWrite = "erase_leading" /\ q.wAddress = p.wAddress
        /\ q.hwCount = p.hwCount /\ q.wPageAddress = p.wPageAddress /\ q.stream = p.stream /\ q.null = p.null
        /\ q.chFSMRead = p.chFSMRead /\ q.locked = p.locked
    <3>1. IsPage(p) /\ q = Loaded(p, "erase_leading", Image(c, k))
      BY <1>0, <1>6, <2>1
    <3>. QED
      BY <3>1, LoadedIs
  <2>3. Left(q, w)
    BY <1>0, <2>2 DEF Left
  <2>4. Merged(c, w, w.a) = c
    BY <1>0, MergedNone
  <2>5. Leading(q, w, c) /\ ThePage(q) = k
    BY <1>1, <1>2, <1>6, <2>2, <2>4 DEF Leading, OnPage, ThePage
  <2>6. Does(y.dev, "erase", k, <<>>, c)
    BY <1>6, DoesBegin
  <2>7. WriterAt(q, y.dev, w, c)
    BY <2>2, <2>5, <2>6 DEF WriterAt
  <2>. QED
    BY <1>0, <1>4, <2>1, <2>2, <2>3, <2>7, KeepsAt
<1>. QED
  BY <1>4, <1>5, <1>6

LEMMA EraseLeadingAdvances ==
  ASSUME NEW p, NEW e, NEW w, NEW c, Engaged(p, e, w, c), p.chFSMWrite = "erase_leading",
         NEW x, x = mal_page_erase(e, p.wPageAddress), NEW m, m = modify_leading_page(p),
         NEW go, go = InState(p, "modify_leading"), NEW y, y = Wait(p, e, x, m, go)
  PROVE  Advances(p, e, w, c, y)
<1>0. IsPage(p) /\ IsDev(e) /\ IsRequest(w) /\ IsCells(c) /\ p.locked /\ Left(p, w)
  BY DEF Engaged, Writing
<1>1. PICK k : k = ThePage(p)
  OBVIOUS
<1>2. Leading(p, w, c) /\ Does(e, "erase", k, <<>>, c)
  BY <1>1 DEF Engaged, Writing, WriterAt
<1>3. k \in Nat /\ p.wPageAddress = k * PAGE_SIZE
  BY <1>0, <1>1, <1>2, FrontBase DEF Leading
<1>4. /\ y.r # "cpl" /\ Aided(e, y.dev) /\ (Held(e) => y.p = p)
      /\ \/ y.p \in {p, m} /\ Does(y.dev, "erase", k, <<>>, c)
         \/ k < PAGES /\ y.p = go /\ Does(y.dev, "none", 0, <<>>, Wiped(c, k))
  <2>1. x = mal_page_erase(e, k * PAGE_SIZE)
    BY <1>3
  <2>. QED
    BY <1>0, <1>2, <1>3, <2>1, EraseWaitIs
<1>n. ~Fresh(p, w)
  BY DEF Fresh
<1>5. CASE y.p \in {p, m} /\ Does(y.dev, "erase", k, <<>>, c)
  <2>1. /\ Left(m, w) /\ Leading(m, w, c) /\ ThePage(m) = k /\ m.chFSMWrite = p.chFSMWrite
        /\ m.chFSMRead = p.chFSMRead /\ m.locked = p.locked
    BY <1>0, <1>1, <1>2, ModifyLeading
  <2>2. /\ Left(y.p, w) /\ Leading(y.p, w, c) /\ ThePage(y.p) = k /\ y.p.chFSMWrite = "erase_leading"
        /\ y.p.chFSMRead = p.chFSMRead /\ y.p.locked
    BY <1>0, <1>1, <1>2, <1>5, <2>1
  <2>3. WriterAt(y.p, y.dev, w, c)
    BY <1>5, <2>2 DEF WriterAt
  <2>. QED
    BY <1>4, <1>n, <2>2, <2>3, KeepsAt
<1>6. CASE k < PAGES /\ y.p = go /\ Does(y.dev, "none", 0, <<>>, Wiped(c, k))
  <2>1. Same(p, go) /\ go.chFSMWrite = "modify_leading" /\ go.chFSMRead = p.chFSMRead /\ go.locked = p.locked
    <3>1. IsPage(p)
      BY <1>0
    <3>. QED
      BY <3>1, StateIs
  <2>2. Left(go, w) /\ Leading(go, w, c) /\ ThePage(go) = k
    BY <1>0, <1>1, <1>2, <2>1, SameLeft, SameLeading, SamePage
  <2>3. WriterAt(go, y.dev, w, c)
    BY <1>6, <2>1, <2>2 DEF WriterAt
  <2>. QED
    BY <1>0, <1>4, <1>6, <1>n, <2>1, <2>2, <2>3, KeepsAt
<1>. QED
  BY <1>4, <1>5, <1>6

LEMMA ModifyLeadingAdvances ==
  ASSUME NEW p, NEW e, NEW w, NEW c, Engaged(p, e, w, c), p.chFSMWrite = "modify_leading",
         NEW m, m = modify_leading_page(p), NEW go, go = InState(m, "prog_leading"),
         NEW y, y = Stay(go, e, "on_going")
  PROVE  Advances(p, e, w, c, y)
<1>0. IsPage(p) /\ IsDev(e) /\ IsRequest(w) /\ IsCells(c) /\ p.locked /\ Left(p, w)
  BY DEF Engaged, Writing
<1>1. PICK k : k = ThePage(p)
  OBVIOUS
<1>2. Leading(p, w, c) /\ Does(e, "none", 0, <<>>, Wiped(c, k))
  BY <1>1 DEF Engaged, Writing, WriterAt
<1>3. /\ Left(m, w) /\ Leading(m, w, c) /\ m.modified /\ ThePage(m) = k
      /\ m.chFSMRead = p.chFSMRead /\ m.locked = p.locked
  BY <1>0, <1>1, <1>2, ModifyLeading
<1>4. IsPage(m)
  BY <1>0, Modifies
<1>5. Same(m, go) /\ go.chFSMWrite = "prog_leading" /\ go.chFSMRead = m.chFSMRead /\ go.locked = m.locked
  BY <1>4, StateIs
<1>6. Left(go, w) /\ Leading(go, w, c) /\ ThePage(go) = k /\ go.modified
  <2>1. Left(go, w) /\ Leading(go, w, c)
    BY <1>3, <1>5, SameLeft, SameLeading
  <2>2. ThePage(go) = k
    BY <1>3, <1>5, SamePage
  <2>3. go.modified = m.modified
    BY <1>5 DEF Same
  <2>. QED
    BY <1>3, <2>1, <2>2, <2>3
<1>7. Does(e, "write", k, go.buffer, Wiped(c, k))
  BY <1>2, DoesBegin
<1>8. WriterAt(go, e, w, c)
  BY <1>5, <1>6, <1>7 DEF WriterAt
<1>9. y.p = go /\ y.dev = e /\ y.r = "on_going"
  BY DEF Stay
<1>a. Aided(e, e) /\ ~Fresh(p, w)
  BY <1>0, AidedSame DEF Fresh
<1>. QED
  BY <1>0, <1>3, <1>5, <1>6, <1>8, <1>9, <1>a, KeepsAt

LEMMA ProgLeadingAdvances ==
  ASSUME NEW p, NEW e, NEW w, NEW c, Engaged(p, e, w, c), p.chFSMWrite = "prog_leading",
         NEW z, z = mal_page_write(e, p.wPageAddress, p.buffer),
         NEW go, go = InState(p, "pages"), NEW x, x = Wait(p, e, z, p, go),
         NEW y, y = IF x.p.chFSMWrite = "pages" THEN WritePages(x.p, x.dev) ELSE x
  PROVE  Advances(p, e, w, c, y)
<1>0. IsPage(p) /\ IsDev(e) /\ IsRequest(w) /\ IsCells(c) /\ p.locked /\ Left(p, w)
  BY DEF Engaged, Writing
<1>1. PICK k : k = ThePage(p)
  OBVIOUS
<1>2. Leading(p, w, c) /\ p.modified /\ Does(e, "write", k, p.buffer, Wiped(c, k))
  BY <1>1 DEF Engaged, Writing, WriterAt
<1>3. k \in Nat /\ p.wPageAddress = k * PAGE_SIZE /\ p.wPageAddress \in Nat /\ p.wPageAddress <= w.a
  BY <1>0, <1>1, <1>2, FrontBase DEF Leading
<1>4. /\ k < PAGES /\ p.wAddress > w.a /\ p.wAddress <= p.wPageAddress + PAGE_SIZE
      /\ p.hwCount = 0 \/ p.wAddress = p.wPageAddress + PAGE_SIZE
      /\ p.buffer = Image(Merged(c, w, p.wAddress), k)
  BY <1>1, <1>2 DEF Leading
<1>5. IsSeq(p.buffer) /\ Len(p.buffer) = PAGE_SIZE /\ \A i \in 1 .. PAGE_SIZE : p.buffer[i] = Merged(c, w, p.wAddress)[k * PAGE_SIZE + i - 1]
  BY <1>4, ImageIs
<1>6. IsCells(Wiped(c, k)) /\ IsWiped(Wiped(c, k), k)
  BY <1>0, <1>3, <1>4, WipedIs
<1>7. /\ x.r # "cpl" /\ Aided(e, x.dev) /\ (Held(e) => x.p = p)
      /\ \/ x.p = p /\ Does(x.dev, "write", k, p.buffer, Wiped(c, k))
         \/ x.p = go /\ Does(x.dev, "none", 0, <<>>, Filled(Wiped(c, k), k, p.buffer))
  <2>1. z = mal_page_write(e, k * PAGE_SIZE, p.buffer)
    BY <1>3
  <2>. QED
    BY <1>0, <1>2, <1>3, <1>5, <1>6, <2>1, ProgramWaitIs
<1>n. ~Fresh(p, w)
  BY DEF Fresh
<1>8. CASE x.p = p /\ Does(x.dev, "write", k, p.buffer, Wiped(c, k))
  <2>1. y = x
    BY <1>8
  <2>2. WriterAt(y.p, y.dev, w, c)
    BY <1>1, <1>2, <1>8, <2>1 DEF WriterAt
  <2>. QED
    BY <1>0, <1>7, <1>8, <1>n, <2>1, <2>2, KeepsAt
<1>9. CASE x.p = go /\ Does(x.dev, "none", 0, <<>>, Filled(Wiped(c, k), k, p.buffer))
  <2>1. Same(p, go) /\ go.chFSMWrite = "pages" /\ go.chFSMRead = p.chFSMRead /\ go.locked = p.locked /\ DOMAIN go = PageFields
    <3>1. IsPage(p)
      BY <1>0
    <3>. QED
      BY <3>1, StateIs
  <2>2. IsPage(go)
    BY <1>0, <2>1 DEF IsPage, WriteStates
  <2>3. y = WritePages(go, x.dev)
    BY <1>9, <2>1
  <2>4. Filled(Wiped(c, k), k, p.buffer) = Merged(c, w, p.wAddress)
    <3>1. Merged(c, w, w.a) = c
      BY <1>0, MergedNone
    <3>2. PICK m, n : m = w.a /\ n = p.wAddress
      OBVIOUS
    <3>3. m \in Nat /\ n \in Nat
      BY <1>0, <3>2 DEF Left, IsRequest
    <3>4. k * PAGE_SIZE <= m /\ m <= n /\ n <= k * PAGE_SIZE + PAGE_SIZE
      <4>1. PICK b : b = p.wPageAddress
        OBVIOUS
      <4>2. b \in Nat /\ b <= m /\ m <= n /\ n <= b + PAGE_SIZE
        BY <1>3, <1>4, <3>2, <3>3, <4>1
      <4>. QED
        BY <1>3, <4>1, <4>2
    <3>5. \A i \in 1 .. PAGE_SIZE : p.buffer[i] = Merged(c, w, n)[k * PAGE_SIZE + i - 1]
      BY <1>5, <3>2
    <3>6. Filled(Wiped(Merged(c, w, m), k), k, p.buffer) = Merged(c, w, n)
      BY <1>0, <1>3, <1>4, <3>3, <3>4, <3>5, FilledMerged
    <3>. QED
      BY <3>1, <3>2, <3>6
  <2>5. go.wAddress = p.wAddress /\ go.hwCount = p.hwCount /\ Left(go, w)
    BY <1>0, <2>1, SameLeft DEF Same
  <2>6. go.hwCount = 0 \/ go.wAddress % PAGE_SIZE = 0
    <3>1. ASSUME p.wAddress = p.wPageAddress + PAGE_SIZE PROVE p.wAddress % PAGE_SIZE = 0
      <4>1. (k + 1) * PAGE_SIZE = k * PAGE_SIZE + PAGE_SIZE
        <5>1. ASSUME NEW n \in Nat PROVE (k + 1) * n = k * n + n
          BY <1>3
        <5>. QED
          BY <5>1, Sizes
      <4>2. ((k + 1) * PAGE_SIZE) % PAGE_SIZE = 0
        <5>1. k + 1 \in Nat
          BY <1>3
        <5>. QED
          BY <5>1, PageIs
      <4>. QED
        BY <1>3, <3>1, <4>1, <4>2
    <3>. QED
      BY <1>4, <2>5, <3>1
  <2>7. Does(x.dev, "none", 0, <<>>, Merged(c, w, go.wAddress))
    BY <1>9, <2>4, <2>5
  <2>8. PICK g : g = x.dev
    OBVIOUS
  <2>9. y.dev = x.dev /\ y.p.chFSMRead = go.chFSMRead /\ (Done(y, w, c) \/ Stays(y, w, c))
    <3>1. IsDev(g) /\ go.locked /\ IsPage(go) /\ IsRequest(w) /\ Left(go, w)
      BY <1>0, <1>7, <2>1, <2>2, <2>5, <2>8 DEF Aided
    <3>2. Does(g, "none", 0, <<>>, Merged(c, w, go.wAddress)) /\ y = WritePages(go, g)
      BY <2>3, <2>7, <2>8
    <3>. QED
      BY <2>6, <2>8, <3>1, <3>2, PagesWorks
  <2>. QED
    BY <1>7, <1>n, <2>1, <2>9 DEF Advances
<1>. QED
  BY <1>7, <1>8, <1>9

LEMMA PagesAdvances ==
  ASSUME NEW p, NEW e, NEW w, NEW c, Engaged(p, e, w, c), p.chFSMWrite = "pages", NEW y, y = WritePages(p, e)
  PROVE  Advances(p, e, w, c, y)
<1>0. IsPage(p) /\ IsDev(e) /\ IsRequest(w) /\ IsCells(c) /\ p.locked /\ Left(p, w)
  BY DEF Engaged, Writing
<1>1. (p.hwCount = 0 \/ p.wAddress % PAGE_SIZE = 0) /\ Does(e, "none", 0, <<>>, Merged(c, w, p.wAddress))
  BY DEF Engaged, Writing, WriterAt
<1>2. /\ y.dev = e /\ y.p.chFSMRead = p.chFSMRead
      /\ Done(y, w, c) \/ Stays(y, w, c)
      /\ p.wAddress = w.a => Fresh(y.p, w)
  BY <1>0, <1>1, PagesWorks
<1>3. Aided(e, y.dev)
  BY <1>0, <1>2, AidedSame
<1>. QED
  BY <1>2, <1>3 DEF Advances, Fresh

LEMMA ErasePageAdvances ==
  ASSUME NEW p, NEW e, NEW w, NEW c, Engaged(p, e, w, c), p.chFSMWrite = "erase_page",
         NEW x, x = mal_page_erase(e, p.wPageAddress), NEW go, go = InState(p, "prog_page"), NEW y, y = Wait(p, e, x, p, go)
  PROVE  Advances(p, e, w, c, y)
<1>0. IsPage(p) /\ IsDev(e) /\ IsRequest(w) /\ IsCells(c) /\ p.locked /\ Left(p, w)
  BY DEF Engaged, Writing
<1>1. PICK k, now : k = ThePage(p) /\ now = Merged(c, w, p.wAddress)
  OBVIOUS
<1>2. AtPage(p) /\ p.hwCount >= PAGE_SIZE /\ Does(e, "erase", k, <<>>, now)
  BY <1>1 DEF Engaged, Writing, WriterAt
<1>3. k \in Nat /\ p.wPageAddress = k * PAGE_SIZE
  BY <1>0, <1>1, <1>2, HeadBase
<1>4. /\ y.r # "cpl" /\ Aided(e, y.dev) /\ (Held(e) => y.p = p)
      /\ \/ y.p = p /\ Does(y.dev, "erase", k, <<>>, now)
         \/ k < PAGES /\ y.p = go /\ Does(y.dev, "none", 0, <<>>, Wiped(now, k))
  <2>1. x = mal_page_erase(e, k * PAGE_SIZE) /\ IsCells(now)
    BY <1>1, <1>3, MergedIs
  <2>2. /\ y.r # "cpl" /\ Aided(e, y.dev) /\ (Held(e) => y.p = p)
        /\ \/ y.p \in {p, p} /\ Does(y.dev, "erase", k, <<>>, now)
           \/ k < PAGES /\ y.p = go /\ Does(y.dev, "none", 0, <<>>, Wiped(now, k))
    BY <1>0, <1>2, <1>3, <2>1, EraseWaitIs
  <2>. QED
    BY <2>2
<1>5. CASE y.p = p /\ Does(y.dev, "erase", k, <<>>, now)
  <2>1. WriterAt(p, y.dev, w, c)
    BY <1>1, <1>2, <1>5 DEF WriterAt
  <2>. QED
    BY <1>0, <1>4, <1>5, <2>1, KeepsAt
<1>6. CASE k < PAGES /\ y.p = go /\ Does(y.dev, "none", 0, <<>>, Wiped(now, k))
  <2>1. Same(p, go) /\ go.chFSMWrite = "prog_page" /\ go.chFSMRead = p.chFSMRead /\ go.locked = p.locked
    <3>1. IsPage(p)
      BY <1>0
    <3>. QED
      BY <3>1, StateIs
  <2>2. Left(go, w) /\ AtPage(go) /\ ThePage(go) = k
    BY <1>0, <1>1, <1>2, <2>1, SameLeft, SamePage
  <2>3. go.hwCount >= PAGE_SIZE /\ Merged(c, w, go.wAddress) = now
    BY <1>1, <1>2, <2>1 DEF Same
  <2>4. Does(y.dev, "write", k, Whole(go), Wiped(now, k))
    BY <1>6, DoesBegin
  <2>5. WriterAt(go, y.dev, w, c)
    BY <1>6, <2>1, <2>2, <2>3, <2>4 DEF WriterAt
  <2>6. Held(e) /\ Fresh(p, w) => Fresh(y.p, w)
    BY <1>4
  <2>. QED
    BY <1>0, <1>4, <1>6, <2>1, <2>2, <2>5, <2>6, KeepsAt
<1>. QED
  BY <1>4, <1>5, <1>6

\* The page that was done with leads to the next.
LEMMA AfterPage ==
  ASSUME NEW p, NEW w, NEW c, IsPage(p), IsRequest(w), Left(p, w), p.locked, AtPage(p), p.hwCount >= PAGE_SIZE,
         NEW g, Does(g, "none", 0, <<>>, Merged(c, w, p.wAddress + PAGE_SIZE)), NEW go, go = NextPage(p)
  PROVE  /\ Left(go, w) /\ WriterAt(go, g, w, c) /\ go.locked
         /\ go.chFSMWrite = "pages" /\ go.chFSMRead = p.chFSMRead
<1>1. /\ Left(go, w) /\ go.wAddress = p.wAddress + PAGE_SIZE /\ go.wAddress % PAGE_SIZE = 0
      /\ go.chFSMWrite = "pages" /\ go.chFSMRead = p.chFSMRead /\ go.locked = p.locked
  BY NextPageIs
<1>2. WriterAt(go, g, w, c)
  BY <1>1 DEF WriterAt
<1>. QED
  BY <1>1, <1>2

LEMMA ProgPageAdvances ==
  ASSUME NEW p, NEW e, NEW w, NEW c, Engaged(p, e, w, c), p.chFSMWrite = "prog_page",
         NEW d, d = Whole(p), NEW x, x = mal_page_write(e, p.wPageAddress, d), NEW go, go = NextPage(p),
         NEW y, y = IF p.null THEN Stay(go, e, "on_going") ELSE Wait(p, e, x, p, go)
  PROVE  Advances(p, e, w, c, y)
<1>0. IsPage(p) /\ IsDev(e) /\ IsRequest(w) /\ IsCells(c) /\ p.locked /\ Left(p, w) /\ p.null = w.null
  BY DEF Engaged, Writing, Left
<1>1. PICK k, now : k = ThePage(p) /\ now = Merged(c, w, p.wAddress)
  OBVIOUS
<1>2. /\ AtPage(p) /\ p.hwCount >= PAGE_SIZE /\ k < PAGES
      /\ w.null => Does(e, "none", 0, <<>>, Wiped(now, k))
      /\ ~w.null => Does(e, "write", k, d, Wiped(now, k))
  BY <1>1 DEF Engaged, Writing, WriterAt
<1>3. k \in Nat /\ p.wPageAddress = k * PAGE_SIZE /\ p.wAddress = k * PAGE_SIZE /\ p.wAddress \in Nat /\ w.a <= p.wAddress
  BY <1>0, <1>1, <1>2, HeadBase
<1>n. ~Fresh(p, w)
  BY DEF Fresh
<1>4. CASE p.null
  <2>1. y.p = go /\ y.dev = e /\ y.r = "on_going"
    BY <1>4 DEF Stay
  <2>2. Wiped(now, k) = Merged(c, w, p.wAddress + PAGE_SIZE)
    <3>1. PICK m : m = p.wAddress
      OBVIOUS
    <3>2. m \in Nat /\ m = k * PAGE_SIZE /\ w.a <= m /\ w.null /\ k < PAGES
      BY <1>0, <1>2, <1>3, <1>4, <3>1
    <3>3. Wiped(Merged(c, w, m), k) = Merged(c, w, m + PAGE_SIZE)
      BY <1>0, <1>3, <3>2, WipedMerged
    <3>. QED
      BY <1>1, <3>1, <3>3
  <2>3. Does(e, "none", 0, <<>>, Merged(c, w, p.wAddress + PAGE_SIZE))
    BY <1>0, <1>2, <1>4, <2>2
  <2>4. /\ Left(go, w) /\ WriterAt(go, e, w, c) /\ go.locked
        /\ go.chFSMWrite = "pages" /\ go.chFSMRead = p.chFSMRead
    BY <1>0, <1>2, <2>3, AfterPage
  <2>5. Aided(e, e)
    BY <1>0, AidedSame
  <2>. QED
    BY <1>n, <2>1, <2>4, <2>5, KeepsAt
<1>5. CASE ~p.null
  <2>1. y = Wait(p, e, x, p, go)
    BY <1>5
  <2>w. Suits(d, c, w, k, p)
    <3>1. IsRequest(w) /\ Left(p, w) /\ ~w.null /\ k \in Nat /\ k < PAGES /\ p.wAddress = k * PAGE_SIZE /\ p.hwCount >= PAGE_SIZE
      BY <1>0, <1>2, <1>3, <1>5
    <3>. QED
      BY <3>1, WholeIs
  <2>2. /\ IsSeq(d) /\ Len(d) = PAGE_SIZE
        /\ \A i \in 1 .. PAGE_SIZE : d[i] = Merged(c, w, p.wAddress + PAGE_SIZE)[k * PAGE_SIZE + i - 1]
    BY <2>w DEF Suits
  <2>3. IsCells(Wiped(now, k)) /\ IsWiped(Wiped(now, k), k)
    <3>1. IsCells(now)
      BY <1>1, MergedIs
    <3>. QED
      BY <1>2, <1>3, <3>1, WipedIs
  <2>4. /\ y.r # "cpl" /\ Aided(e, y.dev) /\ (Held(e) => y.p = p)
        /\ \/ y.p = p /\ Does(y.dev, "write", k, d, Wiped(now, k))
           \/ y.p = go /\ Does(y.dev, "none", 0, <<>>, Filled(Wiped(now, k), k, d))
    <3>1. x = mal_page_write(e, k * PAGE_SIZE, d) /\ Does(e, "write", k, d, Wiped(now, k)) /\ IsDev(e)
      BY <1>0, <1>2, <1>3, <1>5
    <3>2. IsSeq(d) /\ Len(d) = PAGE_SIZE /\ k \in Nat
      BY <1>3, <2>2
    <3>. QED
      BY <2>1, <2>3, <3>1, <3>2, ProgramWaitIs
  <2>5. CASE y.p = p /\ Does(y.dev, "write", k, d, Wiped(now, k))
    <3>1. WriterAt(p, y.dev, w, c)
      BY <1>0, <1>1, <1>2, <1>5, <2>5 DEF WriterAt
    <3>. QED
      BY <1>0, <1>n, <2>4, <2>5, <3>1, KeepsAt
  <2>6. CASE y.p = go /\ Does(y.dev, "none", 0, <<>>, Filled(Wiped(now, k), k, d))
    <3>1. Filled(Wiped(now, k), k, d) = Merged(c, w, p.wAddress + PAGE_SIZE)
      <4>1. PICK m, n : m = p.wAddress /\ n = p.wAddress + PAGE_SIZE
        OBVIOUS
      <4>2. m \in Nat /\ n \in Nat /\ k * PAGE_SIZE <= m /\ m <= n /\ n <= k * PAGE_SIZE + PAGE_SIZE
        <5>1. PAGE_SIZE \in Nat
          BY Sizes
        <5>2. n = m + PAGE_SIZE /\ m = k * PAGE_SIZE /\ m \in Nat
          BY <1>3, <4>1
        <5>3. n \in Nat /\ m <= m /\ m <= n /\ n <= m + PAGE_SIZE
          BY <5>1, <5>2
        <5>. QED
          BY <5>2, <5>3
      <4>3. \A i \in 1 .. PAGE_SIZE : d[i] = Merged(c, w, n)[k * PAGE_SIZE + i - 1]
        BY <2>2, <4>1
      <4>4. Filled(Wiped(Merged(c, w, m), k), k, d) = Merged(c, w, n)
        <5>1. IsRequest(w) /\ k \in Nat /\ k < PAGES
          BY <1>0, <1>2, <1>3
        <5>. QED
          BY <4>2, <4>3, <5>1, FilledMerged
      <4>. QED
        BY <1>1, <4>1, <4>4
    <3>2. Does(y.dev, "none", 0, <<>>, Merged(c, w, p.wAddress + PAGE_SIZE))
      BY <2>6, <3>1
    <3>3. PICK g : g = y.dev
      OBVIOUS
    <3>4. /\ Left(go, w) /\ WriterAt(go, g, w, c) /\ go.locked
          /\ go.chFSMWrite = "pages" /\ go.chFSMRead = p.chFSMRead
      <4>1. Does(g, "none", 0, <<>>, Merged(c, w, p.wAddress + PAGE_SIZE))
        BY <3>2, <3>3
      <4>. QED
        BY <1>0, <1>2, <4>1, AfterPage
    <3>. QED
      BY <1>n, <2>4, <2>6, <3>3, <3>4, KeepsAt
  <2>. QED
    BY <2>4, <2>5, <2>6
<1>. QED
  BY <1>4, <1>5

LEMMA ReadFinalAdvances ==
  ASSUME NEW p, NEW e, NEW w, NEW c, Engaged(p, e, w, c), p.chFSMWrite = "read_final",
         NEW y, y = ReadBeforeModify(p, e, "erase_final")
  PROVE  Advances(p, e, w, c, y)
<1>0. IsPage(p) /\ IsDev(e) /\ IsRequest(w) /\ IsCells(c) /\ p.locked /\ Left(p, w)
  BY DEF Engaged, Writing
<1>1. PICK k, now : k = ThePage(p) /\ now = Merged(c, w, p.wAddress)
  OBVIOUS
<1>2. AtLast(p) /\ Does(e, "read", k, <<>>, now)
  BY <1>1 DEF Engaged, Writing, WriterAt
<1>3. k \in Nat /\ p.wPageAddress = k * PAGE_SIZE
  BY <1>0, <1>1, <1>2, HeadBase DEF AtLast
<1>4. /\ y.r # "cpl" /\ Aided(e, y.dev) /\ (Held(e) => y.p = p)
      /\ \/ y.p = p /\ Does(y.dev, "read", k, <<>>, now)
         \/ /\ k < PAGES /\ Does(y.dev, "none", 0, <<>>, now)
            /\ y.p = Loaded(p, "erase_final", Image(now, k))
  <2>1. IsCells(now)
    BY <1>1, MergedIs
  <2>. QED
    BY <1>0, <1>2, <1>3, <2>1, BeforeIs
<1>5. CASE y.p = p /\ Does(y.dev, "read", k, <<>>, now)
  <2>1. WriterAt(p, y.dev, w, c)
    BY <1>1, <1>2, <1>5 DEF WriterAt
  <2>. QED
    BY <1>0, <1>4, <1>5, <2>1, KeepsAt
<1>6. CASE /\ k < PAGES /\ Does(y.dev, "none", 0, <<>>, now)
           /\ y.p = Loaded(p, "erase_final", Image(now, k))
  <2>1. PICK q : q = y.p
    OBVIOUS
  <2>2. /\ q.buffer = Image(now, k) /\ ~q.modified /\ q.chFSMWrite = "erase_final" /\ q.wAddress = p.wAddress
        /\ q.hwCount = p.hwCount /\ q.wPageAddress = p.wPageAddress /\ q.stream = p.stream /\ q.null = p.null
        /\ q.chFSMRead = p.chFSMRead /\ q.locked = p.locked
    <3>1. IsPage(p) /\ q = Loaded(p, "erase_final", Image(now, k))
      BY <1>0, <1>6, <2>1
    <3>. QED
      BY <3>1, LoadedIs
  <2>3. Left(q, w)
    BY <1>0, <2>2 DEF Left
  <2>4. Trailing(q, w, c) /\ ThePage(q) = k
    BY <1>1, <1>2, <1>6, <2>2 DEF Trailing, AtLast, AtPage, ThePage
  <2>5. Does(y.dev, "erase", k, <<>>, now)
    BY <1>6, DoesBegin
  <2>6. WriterAt(q, y.dev, w, c)
    BY <1>1, <2>2, <2>4, <2>5 DEF WriterAt
  <2>7. Held(e) /\ Fresh(p, w) => Fresh(y.p, w)
    BY <1>4
  <2>. QED
    BY <1>0, <1>4, <2>1, <2>2, <2>3, <2>6, <2>7, KeepsAt
<1>. QED
  BY <1>4, <1>5, <1>6

LEMMA EraseFinalAdvances ==
  ASSUME NEW p, NEW e, NEW w, NEW c, Engaged(p, e, w, c), p.chFSMWrite = "erase_final",
         NEW x, x = mal_page_erase(e, p.wPageAddress), NEW m, m = modify_final_page(p),
         NEW go, go = InState(p, "modify_final"), NEW y, y = Wait(p, e, x, m, go)
  PROVE  Advances(p, e, w, c, y)
<1>0. IsPage(p) /\ IsDev(e) /\ IsRequest(w) /\ IsCells(c) /\ p.locked /\ Left(p, w)
  BY DEF Engaged, Writing
<1>1. PICK k, now : k = ThePage(p) /\ now = Merged(c, w, p.wAddress)
  OBVIOUS
<1>2. Trailing(p, w, c) /\ Does(e, "erase", k, <<>>, now)
  BY <1>1 DEF Engaged, Writing, WriterAt
<1>3. k \in Nat /\ p.wPageAddress = k * PAGE_SIZE
  BY <1>0, <1>1, <1>2, HeadBase DEF Trailing, AtLast
<1>4. /\ y.r # "cpl" /\ Aided(e, y.dev) /\ (Held(e) => y.p = p)
      /\ \/ y.p \in {p, m} /\ Does(y.dev, "erase", k, <<>>, now)
         \/ k < PAGES /\ y.p = go /\ Does(y.dev, "none", 0, <<>>, Wiped(now, k))
  <2>1. x = mal_page_erase(e, k * PAGE_SIZE) /\ IsCells(now)
    BY <1>1, <1>3, MergedIs
  <2>. QED
    BY <1>0, <1>2, <1>3, <2>1, EraseWaitIs
<1>n. ~Fresh(p, w)
  BY DEF Fresh
<1>5. CASE y.p \in {p, m} /\ Does(y.dev, "erase", k, <<>>, now)
  <2>1. /\ Left(m, w) /\ Trailing(m, w, c) /\ ThePage(m) = k /\ m.wAddress = p.wAddress /\ m.chFSMWrite = p.chFSMWrite
        /\ m.chFSMRead = p.chFSMRead /\ m.locked = p.locked
    BY <1>0, <1>1, <1>2, ModifyFinal
  <2>2. /\ Left(y.p, w) /\ Trailing(y.p, w, c) /\ ThePage(y.p) = k /\ y.p.chFSMWrite = "erase_final"
        /\ y.p.chFSMRead = p.chFSMRead /\ y.p.locked /\ y.p.wAddress = p.wAddress
    BY <1>0, <1>1, <1>2, <1>5, <2>1
  <2>3. WriterAt(y.p, y.dev, w, c)
    BY <1>1, <1>5, <2>2 DEF WriterAt
  <2>. QED
    BY <1>4, <1>n, <2>2, <2>3, KeepsAt
<1>6. CASE k < PAGES /\ y.p = go /\ Does(y.dev, "none", 0, <<>>, Wiped(now, k))
  <2>1. Same(p, go) /\ go.chFSMWrite = "modify_final" /\ go.chFSMRead = p.chFSMRead /\ go.locked = p.locked
    <3>1. IsPage(p)
      BY <1>0
    <3>. QED
      BY <3>1, StateIs
  <2>2. Left(go, w) /\ Trailing(go, w, c) /\ ThePage(go) = k
    BY <1>0, <1>1, <1>2, <2>1, SameLeft, SameTrailing, SamePage
  <2>3. Merged(c, w, go.wAddress) = now
    BY <1>1, <2>1 DEF Same
  <2>4. WriterAt(go, y.dev, w, c)
    BY <1>6, <2>1, <2>2, <2>3 DEF WriterAt
  <2>. QED
    BY <1>0, <1>4, <1>6, <1>n, <2>1, <2>2, <2>4, KeepsAt
<1>. QED
  BY <1>4, <1>5, <1>6

LEMMA ModifyFinalAdvances ==
  ASSUME NEW p, NEW e, NEW w, NEW c, Engaged(p, e, w, c), p.chFSMWrite = "modify_final",
         NEW m, m = modify_final_page(p), NEW go, go = InState(m, "prog_final"),
         NEW y, y = Stay(go, e, "on_going")
  PROVE  Advances(p, e, w, c, y)
<1>0. IsPage(p) /\ IsDev(e) /\ IsRequest(w) /\ IsCells(c) /\ p.locked /\ Left(p, w)
  BY DEF Engaged, Writing
<1>1. PICK k, now : k = ThePage(p) /\ now = Merged(c, w, p.wAddress)
  OBVIOUS
<1>2. Trailing(p, w, c) /\ Does(e, "none", 0, <<>>, Wiped(now, k))
  BY <1>1 DEF Engaged, Writing, WriterAt
<1>3. /\ Left(m, w) /\ Trailing(m, w, c) /\ m.modified /\ ThePage(m) = k /\ m.wAddress = p.wAddress
      /\ m.chFSMRead = p.chFSMRead /\ m.locked = p.locked
  BY <1>0, <1>1, <1>2, ModifyFinal
<1>4. IsPage(m)
  BY <1>0, Modifies
<1>5. Same(m, go) /\ go.chFSMWrite = "prog_final" /\ go.chFSMRead = m.chFSMRead /\ go.locked = m.locked
  BY <1>4, StateIs
<1>6. Left(go, w) /\ Trailing(go, w, c) /\ ThePage(go) = k /\ go.modified /\ Merged(c, w, go.wAddress) = now
  <2>1. Left(go, w) /\ Trailing(go, w, c)
    BY <1>3, <1>5, SameLeft, SameTrailing
  <2>2. ThePage(go) = k
    BY <1>3, <1>5, SamePage
  <2>3. go.modified = m.modified /\ go.wAddress = m.wAddress
    BY <1>5 DEF Same
  <2>. QED
    BY <1>1, <1>3, <2>1, <2>2, <2>3
<1>7. Does(e, "write", k, go.buffer, Wiped(now, k))
  BY <1>2, DoesBegin
<1>8. WriterAt(go, e, w, c)
  BY <1>5, <1>6, <1>7 DEF WriterAt
<1>9. y.p = go /\ y.dev = e /\ y.r = "on_going"
  BY DEF Stay
<1>a. Aided(e, e) /\ ~Fresh(p, w)
  BY <1>0, AidedSame DEF Fresh
<1>. QED
  BY <1>0, <1>3, <1>5, <1>6, <1>8, <1>9, <1>a, KeepsAt

\* The writer has nothing to do, and its lock is open.
Released(p) == [[p EXCEPT !.chFSMWrite = "start"] EXCEPT !.locked = FALSE]

LEMMA ProgFinalAdvances ==
  ASSUME NEW p, NEW e, NEW w, NEW c, Engaged(p, e, w, c), p.chFSMWrite = "prog_final",
         NEW z, z = mal_page_write(e, p.wPageAddress, p.buffer),
         NEW go, go = Released(p), NEW x, x = Wait(p, e, z, p, go),
         NEW y, y = IF x.p.chFSMWrite = "start" THEN [x EXCEPT !.r = "cpl"] ELSE x
  PROVE  Advances(p, e, w, c, y)
<1>0. IsPage(p) /\ IsDev(e) /\ IsRequest(w) /\ IsCells(c) /\ p.locked /\ Left(p, w)
  BY DEF Engaged, Writing
<1>1. PICK k, now, n : k = ThePage(p) /\ now = Merged(c, w, p.wAddress) /\ n = w.a + w.size
  OBVIOUS
<1>2. Trailing(p, w, c) /\ p.modified /\ Does(e, "write", k, p.buffer, Wiped(now, k))
  BY <1>1 DEF Engaged, Writing, WriterAt
<1>3. /\ k \in Nat /\ p.wPageAddress = k * PAGE_SIZE /\ p.wAddress = k * PAGE_SIZE
      /\ p.wAddress \in Nat /\ p.hwCount \in Nat /\ p.wAddress + p.hwCount = n
  BY <1>0, <1>1, <1>2, HeadBase DEF Trailing, AtLast
<1>4. k < PAGES /\ p.hwCount < PAGE_SIZE /\ p.buffer = Image(Merged(c, w, n), k)
  BY <1>1, <1>2 DEF Trailing, AtLast
<1>5. IsSeq(p.buffer) /\ Len(p.buffer) = PAGE_SIZE /\ \A i \in 1 .. PAGE_SIZE : p.buffer[i] = Merged(c, w, n)[k * PAGE_SIZE + i - 1]
  BY <1>4, ImageIs
<1>6. IsCells(Wiped(now, k)) /\ IsWiped(Wiped(now, k), k)
  <2>1. IsCells(now)
    BY <1>1, MergedIs
  <2>. QED
    BY <1>3, <1>4, <2>1, WipedIs
<1>7. /\ x.r # "cpl" /\ Aided(e, x.dev) /\ (Held(e) => x.p = p)
      /\ \/ x.p = p /\ Does(x.dev, "write", k, p.buffer, Wiped(now, k))
         \/ x.p = go /\ Does(x.dev, "none", 0, <<>>, Filled(Wiped(now, k), k, p.buffer))
  <2>1. z = mal_page_write(e, k * PAGE_SIZE, p.buffer)
    BY <1>3
  <2>. QED
    BY <1>0, <1>2, <1>3, <1>5, <1>6, <2>1, ProgramWaitIs
<1>n. ~Fresh(p, w)
  BY DEF Fresh
<1>8. CASE x.p = p /\ Does(x.dev, "write", k, p.buffer, Wiped(now, k))
  <2>1. y = x
    BY <1>8
  <2>2. WriterAt(y.p, y.dev, w, c)
    BY <1>1, <1>2, <1>8, <2>1 DEF WriterAt
  <2>. QED
    BY <1>0, <1>7, <1>8, <1>n, <2>1, <2>2, KeepsAt
<1>9. CASE x.p = go /\ Does(x.dev, "none", 0, <<>>, Filled(Wiped(now, k), k, p.buffer))
  <2>1. go.chFSMWrite = "start" /\ ~go.locked /\ go.chFSMRead = p.chFSMRead
    <3>1. IsPage(p)
      BY <1>0
    <3>. QED
      BY <3>1 DEF IsPage, PageFields, Released
  <2>2. y = [x EXCEPT !.r = "cpl"]
    BY <1>9, <2>1
  <2>3. x = [p |-> x.p, dev |-> x.dev, r |-> x.r]
    BY DEF Wait, Result
  <2>4. y.p = go /\ y.dev = x.dev /\ y.r = "cpl"
    BY <1>9, <2>2, <2>3
  <2>5. Filled(Wiped(now, k), k, p.buffer) = Merged(c, w, n)
    <3>1. PICK m, h : m = p.wAddress /\ h = p.hwCount
      OBVIOUS
    <3>2. PAGE_SIZE \in Nat
      BY Sizes
    <3>3. m \in Nat /\ h \in Nat /\ m = k * PAGE_SIZE /\ n = m + h /\ h < PAGE_SIZE
      BY <1>3, <1>4, <3>1
    <3>4. n \in Nat /\ m <= m /\ m <= n /\ n <= m + PAGE_SIZE
      BY <3>2, <3>3
    <3>5. k * PAGE_SIZE <= m /\ n <= k * PAGE_SIZE + PAGE_SIZE
      BY <3>3, <3>4
    <3>b. k \in Nat /\ k < PAGES
      BY <1>3, <1>4
    <3>6. IsRequest(w) /\ k \in Nat /\ k < PAGES /\ m \in Nat /\ n \in Nat
      BY <1>0, <3>b, <3>3, <3>4
    <3>7. k * PAGE_SIZE <= m /\ m <= n /\ n <= k * PAGE_SIZE + PAGE_SIZE
      BY <3>4, <3>5
    <3>8. PICK q : q = p.buffer
      OBVIOUS
    <3>9. \A i \in 1 .. PAGE_SIZE : q[i] = Merged(c, w, n)[k * PAGE_SIZE + i - 1]
      BY <1>3, <1>4, <1>5, <3>8
    <3>a. Filled(Wiped(Merged(c, w, m), k), k, q) = Merged(c, w, n)
      BY <3>6, <3>7, <3>9, FilledMerged
    <3>. QED
      BY <1>1, <3>1, <3>8, <3>a
  <2>6. Does(y.dev, "none", 0, <<>>, Merged(c, w, w.a + w.size))
    BY <1>1, <1>9, <2>4, <2>5
  <2>7. Done(y, w, c)
    BY <2>1, <2>4, <2>6 DEF Done
  <2>. QED
    BY <1>7, <1>n, <2>1, <2>4, <2>7 DEF Advances
<1>. QED
  BY <1>7, <1>8, <1>9

\* A call of the writer's, while a request of its is under way.
LEMMA WriteAdvances ==
  ASSUME NEW p, NEW e, NEW w, NEW c, Engaged(p, e, w, c), NEW a, NEW data, NEW null, NEW size,
         NEW y, y = write_memory_disregard_page(p, e, a, data, null, size)
  PROVE  Advances(p, e, w, c, y)
<1>0. p.chFSMWrite \in WriteStates \ {"start"}
  BY DEF Engaged, Writing, IsPage
<1>1. PICK erase, program, whole, d : /\ erase = mal_page_erase(e, p.wPageAddress)
                                      /\ program = mal_page_write(e, p.wPageAddress, p.buffer)
                                      /\ d = Whole(p)
                                      /\ whole = mal_page_write(e, p.wPageAddress, d)
  OBVIOUS
<1>4. CASE p.chFSMWrite = "read_front"
  <2>1. y = ReadBeforeModify(p, e, "erase_leading")
    BY <1>4 DEF write_memory_disregard_page
  <2>. QED
    BY <1>4, <2>1, ReadFrontAdvances
<1>5. CASE p.chFSMWrite = "erase_leading"
  <2>1. PICK m, go : m = modify_leading_page(p) /\ go = InState(p, "modify_leading")
    OBVIOUS
  <2>2. y = Wait(p, e, erase, m, go)
    BY <1>1, <1>5, <2>1 DEF write_memory_disregard_page, InState
  <2>. QED
    BY <1>1, <1>5, <2>1, <2>2, EraseLeadingAdvances
<1>6. CASE p.chFSMWrite = "modify_leading"
  <2>1. PICK m, go : m = modify_leading_page(p) /\ go = InState(m, "prog_leading")
    OBVIOUS
  <2>2. y = Stay(go, e, "on_going")
    BY <1>6, <2>1 DEF write_memory_disregard_page, InState
  <2>. QED
    BY <1>6, <2>1, <2>2, ModifyLeadingAdvances
<1>7. CASE p.chFSMWrite = "prog_leading"
  <2>1. PICK go : go = InState(p, "pages")
    OBVIOUS
  <2>2. PICK x : x = Wait(p, e, program, p, go)
    OBVIOUS
  <2>3. y = IF x.p.chFSMWrite = "pages" THEN WritePages(x.p, x.dev) ELSE x
    BY <1>1, <1>7, <2>1, <2>2 DEF write_memory_disregard_page, InState
  <2>. QED
    BY <1>1, <1>7, <2>1, <2>2, <2>3, ProgLeadingAdvances
<1>8. CASE p.chFSMWrite = "pages"
  <2>1. y = WritePages(p, e)
    BY <1>8 DEF write_memory_disregard_page
  <2>. QED
    BY <1>8, <2>1, PagesAdvances
<1>9. CASE p.chFSMWrite = "erase_page"
  <2>1. PICK go : go = InState(p, "prog_page")
    OBVIOUS
  <2>2. y = Wait(p, e, erase, p, go)
    BY <1>1, <1>9, <2>1 DEF write_memory_disregard_page, InState
  <2>. QED
    BY <1>1, <1>9, <2>1, <2>2, ErasePageAdvances
<1>a. CASE p.chFSMWrite = "prog_page"
  <2>1. PICK go : go = NextPage(p)
    OBVIOUS
  <2>2. whole = mal_page_write(e, p.wPageAddress, SubSeq(p.stream, 1, PAGE_SIZE))
    BY <1>1 DEF Whole
  <2>3. y = IF p.null THEN Stay(go, e, "on_going") ELSE Wait(p, e, whole, p, go)
    BY <1>a, <2>1, <2>2 DEF write_memory_disregard_page
  <2>. QED
    BY <1>1, <1>a, <2>1, <2>3, ProgPageAdvances
<1>b. CASE p.chFSMWrite = "read_final"
  <2>1. y = ReadBeforeModify(p, e, "erase_final")
    BY <1>b DEF write_memory_disregard_page
  <2>. QED
    BY <1>b, <2>1, ReadFinalAdvances
<1>c. CASE p.chFSMWrite = "erase_final"
  <2>1. PICK m, go : m = modify_final_page(p) /\ go = InState(p, "modify_final")
    OBVIOUS
  <2>2. y = Wait(p, e, erase, m, go)
    BY <1>1, <1>c, <2>1 DEF write_memory_disregard_page, InState
  <2>. QED
    BY <1>1, <1>c, <2>1, <2>2, EraseFinalAdvances
<1>d. CASE p.chFSMWrite = "modify_final"
  <2>1. PICK m, go : m = modify_final_page(p) /\ go = InState(m, "prog_final")
    OBVIOUS
  <2>2. y = Stay(go, e, "on_going")
    BY <1>d, <2>1 DEF write_memory_disregard_page, InState
  <2>. QED
    BY <1>d, <2>1, <2>2, ModifyFinalAdvances
<1>e. CASE p.chFSMWrite = "prog_final"
  <2>1. PICK go : go = Released(p)
    OBVIOUS
  <2>2. PICK x : x = Wait(p, e, program, p, go)
    OBVIOUS
  <2>3. y = IF x.p.chFSMWrite = "start" THEN [x EXCEPT !.r = "cpl"] ELSE x
    BY <1>1, <1>e, <2>1, <2>2 DEF write_memory_disregard_page, Released
  <2>. QED
    BY <1>1, <1>e, <2>1, <2>2, <2>3, ProgFinalAdvances
<1>. QED
  BY <1>0, <1>4, <1>5, <1>6, <1>7, <1>8, <1>9, <1>a, <1>b, <1>c, <1>d, <1>e DEF WriteStates

-----------------------------------------------------------------------------
(* The first call of a request. *)

TheData(w) == IF w.null THEN <<>> ELSE Data(w.size)

\* The page_t as the first call fills it in.
Taken(p, w) == [p EXCEPT !.locked = TRUE, !.hwCount = w.size, !.stream = TheData(w), !.null = w.null, !.wAddress = w.a]

LEMMA TakenIs ==
  ASSUME NEW p, IsPage(p), NEW w, IsRequest(w), w.size > 0, NEW q, q = Taken(p, w)
  PROVE  IsPage(q) /\ Left(q, w) /\ q.locked /\ q.wAddress = w.a /\ q.chFSMRead = p.chFSMRead
<1>1. /\ IsPage(q) /\ q.locked /\ q.hwCount = w.size /\ q.stream = TheData(w) /\ q.null = w.null /\ q.wAddress = w.a
      /\ q.chFSMRead = p.chFSMRead
  BY DEF Taken, IsPage, PageFields
<1>2. w.a \in Nat /\ w.size \in Nat
  BY DEF IsRequest
<1>3. ASSUME ~w.null PROVE Rest(q.stream, q.hwCount, 0)
  <2>1. PICK n, s : n = w.size /\ s = q.stream
    OBVIOUS
  <2>2. s = [i \in 1 .. n |-> New(i)] /\ n \in Nat
    BY <1>1, <1>2, <1>3, <2>1 DEF TheData, Data
  <2>3. s = [i \in 1 .. n |-> s[i]] /\ \A i \in 1 .. n : s[i] = New(i) /\ 0 + i = i
    BY <2>2
  <2>4. IsSeq(s) /\ Len(s) = n
    BY <2>2, <2>3, RowIs
  <2>5. \A i \in 1 .. n : s[i] = New(0 + i)
    BY <2>3
  <2>. QED
    BY <1>1, <2>1, <2>4, <2>5 DEF Rest
<1>4. q.wAddress \in w.a .. w.a + w.size /\ q.hwCount = w.a + w.size - q.wAddress /\ q.wAddress - w.a = 0
  <2>1. PICK a, n : a = w.a /\ n = w.size
    OBVIOUS
  <2>2. a \in Nat /\ n \in Nat /\ a \in a .. a + n /\ n = a + n - a /\ a - a = 0
    BY <1>2, <2>1
  <2>. QED
    BY <1>1, <2>1, <2>2
<1>. QED
  BY <1>1, <1>3, <1>4 DEF Left

LEMMA WriteStartWorks ==
  ASSUME NEW p, IsPage(p), p.chFSMWrite = "start", NEW e, IsDev(e), NEW w, IsRequest(w), NEW c, IsCells(c),
         ~p.locked => Does(e, "none", 0, <<>>, c), NEW y, y = WriteStart(p, e, w.a, TheData(w), w.null, w.size)
  PROVE  /\ Aided(e, y.dev)
         /\ \/ w.size = 0 /\ y.p = p /\ y.dev = e /\ y.r = "cpl"
            \/ y.p = p /\ y.dev = e /\ y.r = "on_going"
            \/ ~p.locked /\ Stays(y, w, c) /\ (Held(e) => Fresh(y.p, w)) /\ y.p.chFSMRead = p.chFSMRead
<1>0. Aided(e, e)
  BY AidedSame
<1>1. CASE w.size = 0
  BY <1>0, <1>1 DEF WriteStart, Stay
<1>2. CASE w.size # 0 /\ p.locked
  BY <1>0, <1>2 DEF WriteStart, Stay
<1>3. CASE w.size # 0 /\ ~p.locked
  <2>1. PICK q : q = Taken(p, w)
    OBVIOUS
  <2>2. w.size > 0 /\ w.a \in Nat
    BY <1>3 DEF IsRequest
  <2>3. IsPage(q) /\ Left(q, w) /\ q.locked /\ q.wAddress = w.a /\ q.chFSMRead = p.chFSMRead
    BY <2>1, <2>2, TakenIs
  <2>4. CASE w.a % PAGE_SIZE = 0
    <3>1. PICK t : t = InState(q, "pages")
      OBVIOUS
    <3>2. y.p = t /\ y.dev = e /\ y.r = "on_going"
      BY <1>3, <2>1, <2>4, <3>1 DEF WriteStart, Taken, InState, Stay
    <3>3. Same(q, t) /\ t.chFSMWrite = "pages" /\ t.chFSMRead = q.chFSMRead /\ t.locked = q.locked
      <4>1. IsPage(q)
        BY <2>3
      <4>. QED
        BY <3>1, <4>1, StateIs
    <3>4. Left(t, w) /\ t.wAddress = w.a
      BY <2>3, <3>3, SameLeft DEF Same
    <3>5. Merged(c, w, w.a) = c
      BY MergedNone
    <3>6. WriterAt(t, e, w, c)
      BY <1>3, <2>4, <3>3, <3>4, <3>5 DEF WriterAt
    <3>7. Stays(y, w, c)
      BY <2>3, <3>2, <3>3, <3>4, <3>6 DEF Stays, Writing
    <3>8. Fresh(t, w)
      BY <3>3, <3>4 DEF Fresh
    <3>. QED
      BY <1>0, <1>3, <2>3, <3>2, <3>3, <3>7, <3>8
  <2>5. CASE w.a % PAGE_SIZE # 0
    <3>1. PICK t : t = [q EXCEPT !.wPageAddress = PageOf(w.a), !.chFSMWrite = "read_front"]
      OBVIOUS
    <3>2. y = ReadBeforeModify(t, e, "erase_leading")
      BY <1>3, <2>1, <2>5, <3>1 DEF WriteStart, Taken
    <3>3. /\ IsPage(t) /\ t.chFSMWrite = "read_front" /\ t.wPageAddress = PageOf(w.a) /\ t.wAddress = q.wAddress
          /\ t.hwCount = q.hwCount /\ t.stream = q.stream /\ t.null = q.null /\ t.locked = q.locked
          /\ t.chFSMRead = q.chFSMRead
      BY <2>3, <3>1 DEF IsPage, PageFields, WriteStates
    <3>4. Left(t, w) /\ OnPage(t, w.a) /\ t.wAddress = w.a
      BY <2>3, <3>3 DEF Left, OnPage
    <3>5. Does(e, "read", ThePage(t), <<>>, c)
      BY <1>3, DoesBegin
    <3>6. WriterAt(t, e, w, c)
      BY <3>3, <3>4, <3>5 DEF WriterAt
    <3>7. Engaged(t, e, w, c)
      BY <2>3, <3>3, <3>4, <3>6 DEF Engaged, Writing
    <3>8. Advances(t, e, w, c, y)
      BY <3>2, <3>3, <3>7, ReadFrontAdvances
    <3>9. y.r # "cpl"
      BY <3>2, WaitIs DEF ReadBeforeModify
    <3>a. Stays(y, w, c) /\ Aided(e, y.dev) /\ y.p.chFSMRead = t.chFSMRead
      BY <3>8, <3>9 DEF Advances, Done
    <3>b. Fresh(t, w)
      BY <3>3, <3>4 DEF Fresh
    <3>. QED
      BY <1>3, <2>3, <3>3, <3>8, <3>a, <3>b DEF Advances
  <2>. QED
    BY <2>4, <2>5
<1>. QED
  BY <1>1, <1>2, <1>3

-----------------------------------------------------------------------------
(* The reader's machine. *)

\* s is what n cells hold, from address a on.
Copy(s, c, a, n) == IsSeq(s) /\ Len(s) = n /\ \A i \in 1 .. n : s[i] = c[a + i - 1]

\* How far the reader's request r is.
Got(p, r, c) ==
    /\ r.size > 0
    /\ p.wAddress \in r.a .. r.a + r.size - 1
    /\ p.hwCount = r.a + r.size - p.wAddress
    /\ OnPage(p, p.wAddress)
    /\ Copy(p.stream, c, r.a, p.wAddress - r.a)

ReaderAt(p, e, c) ==
    LET k == ThePage(p)
    IN /\ p.chFSMRead = "page" => Does(e, "read", k, <<>>, c)
       /\ p.chFSMRead = "set_buffer" => k < PAGES /\ p.buffer = Image(c, k) /\ Does(e, "none", 0, <<>>, c)

Getting(p, e, r, c) == p.chFSMRead # "start" /\ Got(p, r, c) /\ ReaderAt(p, e, c)

\* Nothing has been read.
Unread(p, r) == p.chFSMRead = "page" /\ p.wAddress = r.a

Returned(y, r, c) ==
    /\ y.p.chFSMRead = "start" /\ y.r = "cpl" /\ ~y.p.locked /\ Does(y.dev, "none", 0, <<>>, c)
    /\ Copy(y.p.stream, c, r.a, r.size)
Awaits(y, r, c) == y.r # "cpl" /\ y.p.locked /\ Getting(y.p, y.dev, r, c)

Gains(p, e, r, c, y) ==
    /\ y.p.chFSMWrite = p.chFSMWrite
    /\ Aided(e, y.dev)
    /\ Returned(y, r, c) \/ Awaits(y, r, c)
    /\ Held(e) /\ Unread(p, r) => Unread(y.p, r)

Seeking(p, e, r, c) == IsPage(p) /\ IsDev(e) /\ IsRequest(r) /\ IsCells(c) /\ p.locked /\ Getting(p, e, r, c)

LEMMA GotBase == ASSUME NEW p, NEW r, IsRequest(r), NEW c, Got(p, r, c), NEW k, k = ThePage(p)
                 PROVE  /\ p.wAddress \in Nat /\ p.hwCount \in Nat /\ p.hwCount > 0 /\ r.a \in Nat /\ r.size \in Nat
                        /\ p.wAddress >= r.a /\ p.wAddress + p.hwCount = r.a + r.size
                        /\ k \in Nat /\ p.wPageAddress = k * PAGE_SIZE
<1>1. /\ p.wAddress \in Nat /\ p.hwCount \in Nat /\ p.hwCount > 0 /\ r.a \in Nat /\ r.size \in Nat
      /\ p.wAddress >= r.a /\ p.wAddress + p.hwCount = r.a + r.size
  BY DEF Got, IsRequest
<1>2. p.wPageAddress = PageOf(p.wAddress)
  BY DEF Got, OnPage
<1>3. k \in Nat /\ p.wPageAddress = k * PAGE_SIZE
  BY <1>1, <1>2, ThePageIs
<1>. QED
  BY <1>1, <1>3

LEMMA ReadPageGains ==
  ASSUME NEW p, NEW e, NEW r, NEW c, Seeking(p, e, r, c), p.chFSMRead = "page", NEW y, y = ReadPage(p, e)
  PROVE  Gains(p, e, r, c, y)
<1>0. IsPage(p) /\ IsDev(e) /\ IsRequest(r) /\ IsCells(c) /\ p.locked /\ Got(p, r, c)
  BY DEF Seeking, Getting
<1>1. PICK k : k = ThePage(p)
  OBVIOUS
<1>2. Does(e, "read", k, <<>>, c)
  BY <1>1 DEF Seeking, Getting, ReaderAt
<1>3. k \in Nat /\ p.wPageAddress = k * PAGE_SIZE
  BY <1>0, <1>1, GotBase
<1>4. PICK x : x = mal_page_read(e, k * PAGE_SIZE)
  OBVIOUS
<1>5. PICK go : go = [p EXCEPT !.buffer = x.s.in, !.chFSMRead = "set_buffer"]
  OBVIOUS
<1>6. y = Wait(p, e, x, p, go)
  BY <1>3, <1>4, <1>5 DEF ReadPage
<1>7. /\ Does(Moved(e, x), "read", k, <<>>, c) /\ Beside(e, Moved(e, x))
      /\ x.r = "cpl" => Does(Moved(e, x), "none", 0, <<>>, c) /\ x.s.in = Image(c, k) /\ k < PAGES
      /\ Held(e) => x.s = e.s /\ IsErr(x.r)
  <2>1. IsDev(e) /\ k \in Nat /\ IsCells(c)
    BY <1>0, <1>3
  <2>. QED
    BY <1>2, <1>4, <2>1, ReadDoes
<1>8. /\ y.dev = Moved(e, x) /\ y.r # "cpl"
      /\ IsErr(x.r) => y.p = p
      /\ x.r = "cpl" => y.p = go
      /\ ~IsErr(x.r) /\ x.r # "cpl" => y.p = p
  BY <1>6, WaitIs
<1>9. Aided(e, y.dev)
  BY <1>0, <1>7, <1>8, MovedIs DEF Aided
<1>a. CASE x.r # "cpl"
  <2>1. y.p = p /\ Does(y.dev, "read", k, <<>>, c)
    BY <1>7, <1>8, <1>a
  <2>2. ReaderAt(y.p, y.dev, c)
    BY <1>1, <2>1 DEF ReaderAt
  <2>3. Awaits(y, r, c)
    BY <1>0, <1>8, <2>1, <2>2 DEF Awaits, Getting
  <2>. QED
    BY <1>9, <2>1, <2>3 DEF Gains
<1>b. CASE x.r = "cpl"
  <2>1. y.p = go /\ k < PAGES /\ Does(y.dev, "none", 0, <<>>, c) /\ x.s.in = Image(c, k) /\ ~Held(e)
    BY <1>7, <1>8, <1>b, ErrIs
  <2>2. /\ go.buffer = Image(c, k) /\ go.chFSMRead = "set_buffer" /\ go.wAddress = p.wAddress
        /\ go.hwCount = p.hwCount /\ go.wPageAddress = p.wPageAddress /\ go.stream = p.stream
        /\ go.chFSMWrite = p.chFSMWrite /\ go.locked = p.locked
    <3>1. IsPage(p) /\ x.s.in = Image(c, k)
      BY <1>0, <2>1
    <3>. QED
      BY <1>5, <3>1 DEF IsPage, PageFields
  <2>3. ThePage(go) = k /\ Got(go, r, c)
    BY <1>0, <1>1, <2>2 DEF ThePage, Got, OnPage
  <2>4. ReaderAt(go, y.dev, c)
    BY <2>1, <2>2, <2>3 DEF ReaderAt
  <2>5. Awaits(y, r, c)
    BY <1>0, <1>8, <2>1, <2>2, <2>3, <2>4 DEF Awaits, Getting
  <2>. QED
    BY <1>9, <2>1, <2>2, <2>5 DEF Gains
<1>. QED
  BY <1>a, <1>b

\* The part of the page that was asked for continues what was read.
LEMMA CopyJoin ==
  ASSUME NEW s, NEW c, NEW a \in Nat, NEW m \in Nat, Copy(s, c, a, m), NEW k \in Nat, NEW offset \in Nat, NEW n \in Nat,
         offset + n <= PAGE_SIZE, a + m = k * PAGE_SIZE + offset, NEW d, d = Image(c, k)
  PROVE  Copy(s \o SubSeq(d, offset + 1, offset + n), c, a, m + n)
<1>0. PAGE_SIZE \in Nat /\ k * PAGE_SIZE \in Nat
  BY Sizes, PageIs
<1>1. IsSeq(s) /\ Len(s) = m /\ \A i \in 1 .. m : s[i] = c[a + i - 1]
  BY DEF Copy
<1>2. IsSeq(d) /\ Len(d) = PAGE_SIZE /\ \A i \in 1 .. PAGE_SIZE : d[i] = c[k * PAGE_SIZE + i - 1]
  BY ImageIs
<1>3. PICK b, f, z : b = offset + 1 /\ f = offset + n /\ z = k * PAGE_SIZE
  OBVIOUS
<1>4. b \in Nat \ {0} /\ f \in Nat /\ f <= Len(d) /\ f - b + 1 = n /\ z \in Nat /\ a + m = z + offset
  <2>1. z \in Nat /\ a + m = z + offset
    BY <1>0, <1>3
  <2>2. f <= PAGE_SIZE /\ Len(d) = PAGE_SIZE
    BY <1>2, <1>3
  <2>3. b \in Nat \ {0} /\ f \in Nat /\ f - b + 1 = n
    BY <1>3
  <2>. QED
    BY <2>1, <2>2, <2>3
<1>5. PICK t : t = SubSeq(d, b, f)
  OBVIOUS
<1>6. /\ IsSeq(t) /\ Len(t) = (IF b <= f THEN f - b + 1 ELSE 0) /\ \A i \in 1 .. f - b + 1 : t[i] = d[b + i - 1]
  BY <1>2, <1>4, <1>5, PartIs
<1>7. Len(t) = n
  BY <1>3, <1>4, <1>6
<1>8. ASSUME NEW i \in 1 .. n PROVE t[i] = c[a + (m + i) - 1]
  <2>1. i \in 1 .. f - b + 1 /\ b + i - 1 \in 1 .. PAGE_SIZE
    BY <1>0, <1>2, <1>3, <1>4
  <2>2. t[i] = d[b + i - 1]
    BY <1>6, <2>1
  <2>3. d[b + i - 1] = c[z + (b + i - 1) - 1]
    BY <1>2, <1>3, <2>1
  <2>4. z + (b + i - 1) - 1 = a + (m + i) - 1
    BY <1>3, <1>4
  <2>. QED
    BY <2>2, <2>3, <2>4
<1>9. PICK u : u = s \o t
  OBVIOUS
<1>a. IsSeq(u) /\ Len(u) = m + n /\ (\A i \in 1 .. m : u[i] = s[i]) /\ \A i \in 1 .. n : u[m + i] = t[i]
  <2>1. /\ IsSeq(s \o t) /\ Len(s \o t) = Len(s) + Len(t)
        /\ \A i \in 1 .. Len(s) : (s \o t)[i] = s[i]
        /\ \A i \in 1 .. Len(t) : (s \o t)[Len(s) + i] = t[i]
    <3>1. IsSeq(s) /\ IsSeq(t)
      BY <1>1, <1>6
    <3>. QED
      BY <3>1, JoinIs
  <2>. QED
    BY <1>1, <1>7, <1>9, <2>1
<1>b. ASSUME NEW i \in 1 .. m + n PROVE u[i] = c[a + i - 1]
  <2>1. CASE i \in 1 .. m
    BY <1>1, <1>a, <2>1
  <2>2. CASE i \notin 1 .. m
    <3>1. PICK j : j = i - m
      OBVIOUS
    <3>2. j \in 1 .. n /\ i = m + j
      BY <1>b, <2>2, <3>1
    <3>. QED
      BY <1>8, <1>a, <3>2
  <2>. QED
    BY <2>1, <2>2
<1>c. Copy(u, c, a, m + n)
  BY <1>a, <1>b DEF Copy
<1>. QED
  BY <1>3, <1>5, <1>9, <1>c

LEMMA SetBufferGains ==
  ASSUME NEW p, NEW e, NEW r, NEW c, Seeking(p, e, r, c), p.chFSMRead = "set_buffer", NEW y, y = SetBuffer(p, e)
  PROVE  Gains(p, e, r, c, y)
<1>0. IsPage(p) /\ IsDev(e) /\ IsRequest(r) /\ IsCells(c) /\ p.locked /\ Got(p, r, c)
  BY DEF Seeking, Getting
<1>1. PICK k, m, h, a, z : k = ThePage(p) /\ m = p.wAddress /\ h = p.hwCount /\ a = r.a /\ z = r.size
  OBVIOUS
<1>2. k < PAGES /\ p.buffer = Image(c, k) /\ Does(e, "none", 0, <<>>, c)
  BY <1>1 DEF Seeking, Getting, ReaderAt
<1>3. m \in Nat /\ h \in Nat /\ h > 0 /\ a \in Nat /\ z \in Nat /\ m >= a /\ m + h = a + z /\ k \in Nat
  BY <1>0, <1>1, GotBase
<1>4. PICK offset : offset = m % PAGE_SIZE
  OBVIOUS
<1>5. PICK n : n = Least(PAGE_SIZE - offset, h)
  OBVIOUS
<1>6. PICK b : b = k * PAGE_SIZE
  OBVIOUS
<1>7. b \in Nat /\ m = b + offset /\ offset \in 0 .. PAGE_SIZE - 1
  <2>1. p.wPageAddress = PageOf(m)
    BY <1>0, <1>1 DEF Got, OnPage
  <2>. QED
    BY <1>1, <1>3, <1>4, <1>6, <2>1, ThePageIs
<1>8. n \in Nat /\ n > 0 /\ n <= h /\ offset + n <= PAGE_SIZE /\ offset \in Nat
  <2>1. n = IF PAGE_SIZE - offset < h THEN PAGE_SIZE - offset ELSE h
    BY <1>5 DEF Least
  <2>. QED
    BY <1>3, <1>7, <2>1, Sizes
<1>9. PICK u : u = p.stream \o SubSeq(p.buffer, offset + 1, offset + n)
  OBVIOUS
<1>a. PICK g : g = m - a
  OBVIOUS
<1>b. g \in Nat /\ a + g = m /\ Copy(p.stream, c, a, g)
  BY <1>0, <1>1, <1>3, <1>a DEF Got
<1>c. Copy(u, c, a, g + n)
  <2>1. a + g = k * PAGE_SIZE + offset
    BY <1>6, <1>7, <1>b
  <2>. QED
    BY <1>2, <1>3, <1>8, <1>9, <1>b, <2>1, CopyJoin
<1>d. PICK q : q = [p EXCEPT !.stream = u, !.wAddress = m + n, !.hwCount = h - n]
  OBVIOUS
<1>e. /\ q.stream = u /\ q.wAddress = m + n /\ q.hwCount = h - n /\ q.locked = p.locked /\ q.chFSMWrite = p.chFSMWrite
      /\ DOMAIN q = PageFields
  BY <1>0, <1>d DEF IsPage, PageFields
<1>f. Aided(e, e)
  BY <1>0, AidedSame
<1>g. ~Unread(p, r)
  BY DEF Unread
<1>h. q = [p EXCEPT !.stream = @ \o SubSeq(p.buffer, offset + 1, offset + n), !.wAddress = @ + n, !.hwCount = @ - n]
  BY <1>1, <1>9, <1>d
<1>i. y = IF q.hwCount > 0
          THEN Stay([q EXCEPT !.wPageAddress = PageOf(q.wAddress), !.chFSMRead = "page"], e, "on_going")
          ELSE Stay([q EXCEPT !.chFSMRead = "start", !.locked = FALSE], e, "cpl")
  BY <1>1, <1>4, <1>5, <1>h DEF SetBuffer
<1>j. CASE h - n > 0
  <2>1. PICK t : t = [q EXCEPT !.wPageAddress = PageOf(q.wAddress), !.chFSMRead = "page"]
    OBVIOUS
  <2>2. y.p = t /\ y.dev = e /\ y.r = "on_going"
    BY <1>e, <1>i, <1>j, <2>1 DEF Stay
  <2>3. /\ t.stream = u /\ t.wAddress = m + n /\ t.hwCount = h - n /\ t.locked = p.locked /\ t.chFSMWrite = p.chFSMWrite
        /\ t.chFSMRead = "page" /\ t.wPageAddress = PageOf(m + n)
    BY <1>e, <2>1 DEF PageFields
  <2>4. m + n \in a .. a + z - 1 /\ h - n = a + z - (m + n) /\ g + n = m + n - a /\ z > 0
    BY <1>3, <1>8, <1>b, <1>j
  <2>5. Got(t, r, c)
    <3>1. Copy(t.stream, c, r.a, t.wAddress - r.a)
      <4>1. t.wAddress - r.a = g + n /\ t.stream = u /\ r.a = a
        <5>1. PICK v : v = t.wAddress
          OBVIOUS
        <5>2. v = m + n
          BY <2>3, <5>1
        <5>3. v - a = g + n
          BY <1>3, <1>8, <1>b, <5>2
        <5>. QED
          BY <1>1, <2>3, <5>1, <5>3
      <4>. QED
        BY <1>c, <4>1
    <3>2. t.wAddress \in r.a .. r.a + r.size - 1 /\ t.hwCount = r.a + r.size - t.wAddress /\ r.size > 0
      BY <1>1, <2>3, <2>4
    <3>3. OnPage(t, t.wAddress)
      BY <2>3 DEF OnPage
    <3>. QED
      BY <3>1, <3>2, <3>3 DEF Got
  <2>6. Does(e, "read", ThePage(t), <<>>, c)
    BY <1>2, DoesBegin
  <2>7. ReaderAt(t, e, c)
    BY <2>3, <2>6 DEF ReaderAt
  <2>8. Awaits(y, r, c)
    BY <1>0, <2>2, <2>3, <2>5, <2>7 DEF Awaits, Getting
  <2>. QED
    BY <1>f, <1>g, <2>2, <2>3, <2>8 DEF Gains
<1>k. CASE ~(h - n > 0)
  <2>1. PICK t : t = [q EXCEPT !.chFSMRead = "start", !.locked = FALSE]
    OBVIOUS
  <2>2. y.p = t /\ y.dev = e /\ y.r = "cpl"
    BY <1>e, <1>i, <1>k, <2>1 DEF Stay
  <2>3. t.stream = u /\ ~t.locked /\ t.chFSMWrite = p.chFSMWrite /\ t.chFSMRead = "start"
    BY <1>e, <2>1 DEF PageFields
  <2>4. g + n = z
    BY <1>3, <1>8, <1>b, <1>k
  <2>5. Copy(t.stream, c, r.a, r.size)
    BY <1>1, <1>c, <2>3, <2>4
  <2>6. Returned(y, r, c)
    BY <1>2, <2>2, <2>3, <2>5 DEF Returned
  <2>. QED
    BY <1>f, <1>g, <2>2, <2>3, <2>6 DEF Gains
<1>. QED
  BY <1>j, <1>k

\* A call of the reader's, while a request of its is under way.
LEMMA ReadGains ==
  ASSUME NEW p, NEW e, NEW r, NEW c, Seeking(p, e, r, c), NEW a, NEW size,
         NEW y, y = read_memory_disregard_page(p, e, a, size)
  PROVE  Gains(p, e, r, c, y)
<1>0. p.chFSMRead \in {"page", "set_buffer"}
  BY DEF Seeking, Getting, IsPage, ReadStates
<1>1. CASE p.chFSMRead = "page"
  <2>1. y = ReadPage(p, e)
    BY <1>1 DEF read_memory_disregard_page
  <2>. QED
    BY <1>1, <2>1, ReadPageGains
<1>2. CASE p.chFSMRead = "set_buffer"
  <2>1. y = SetBuffer(p, e)
    BY <1>2 DEF read_memory_disregard_page
  <2>. QED
    BY <1>2, <2>1, SetBufferGains
<1>. QED
  BY <1>0, <1>1, <1>2

\* The first call of a request.
LEMMA ReadStartGains ==
  ASSUME NEW p, IsPage(p), p.chFSMRead = "start", NEW e, IsDev(e), NEW r, IsRequest(r), NEW c, IsCells(c),
         ~p.locked => Does(e, "none", 0, <<>>, c), NEW y, y = ReadStart(p, e, r.a, r.size)
  PROVE  /\ Aided(e, y.dev) /\ y.p.chFSMWrite = p.chFSMWrite
         /\ \/ r.size = 0 /\ y.p = p /\ y.dev = e /\ y.r = "cpl"
            \/ y.p = p /\ y.dev = e /\ y.r = "on_going"
            \/ ~p.locked /\ Awaits(y, r, c) /\ (Held(e) => Unread(y.p, r))
<1>0. Aided(e, e)
  BY AidedSame
<1>1. CASE r.size = 0
  BY <1>0, <1>1 DEF ReadStart, Stay
<1>2. CASE r.size # 0 /\ p.locked
  BY <1>0, <1>2 DEF ReadStart, Stay
<1>3. CASE r.size # 0 /\ ~p.locked
  <2>1. PICK q : q = [p EXCEPT !.locked = TRUE, !.hwCount = r.size, !.stream = <<>>, !.wAddress = r.a,
                              !.wPageAddress = PageOf(r.a), !.chFSMRead = "page"]
    OBVIOUS
  <2>2. y = ReadPage(q, e)
    BY <1>3, <2>1 DEF ReadStart
  <2>3. /\ IsPage(q) /\ q.locked /\ q.hwCount = r.size /\ q.stream = <<>> /\ q.wAddress = r.a
        /\ q.wPageAddress = PageOf(r.a) /\ q.chFSMRead = "page" /\ q.chFSMWrite = p.chFSMWrite
    BY <2>1 DEF IsPage, PageFields, ReadStates
  <2>4. Got(q, r, c)
    <3>1. PICK a, z : a = r.a /\ z = r.size
      OBVIOUS
    <3>2. a \in Nat /\ z \in Nat /\ z > 0
      BY <1>3, <3>1 DEF IsRequest
    <3>3. a \in a .. a + z - 1 /\ z = a + z - a /\ a - a = 0 /\ 1 .. 0 = {}
      BY <3>2
    <3>4. Copy(<<>>, c, a, 0)
      BY <3>3, EmptyIs DEF Copy
    <3>. QED
      BY <2>3, <3>1, <3>2, <3>3, <3>4 DEF Got, OnPage
  <2>5. Does(e, "read", ThePage(q), <<>>, c)
    BY <1>3, DoesBegin
  <2>6. Seeking(q, e, r, c)
    BY <2>3, <2>4, <2>5 DEF Seeking, Getting, ReaderAt
  <2>7. Gains(q, e, r, c, y)
    BY <2>2, <2>3, <2>6, ReadPageGains
  <2>8. y.r # "cpl"
    BY <2>2, WaitIs DEF ReadPage
  <2>9. Unread(q, r)
    BY <2>3 DEF Unread
  <2>. QED
    BY <1>3, <2>3, <2>7, <2>8, <2>9 DEF Gains, Returned
<1>. QED
  BY <1>1, <1>2, <1>3

-----------------------------------------------------------------------------
(* The memory under the page service: who has it, and what it holds. *)

\* What the memory holds but for the request under way: the erase of the whole chip counts from where the chip
\* carries it out.
BaseOf(e, c) == IF e.ptMethod = "SDF" /\ e.s.chip = "ready" THEN Blank ELSE c

PagesRest(p) == p.chFSMWrite = "start" /\ p.chFSMRead = "start"

\* The page service, its writer's request w and its reader's request r over a memory e of cells c; v tells that the
\* rival verifies it.
Shared(p, e, w, r, v, c) ==
    /\ p.chFSMWrite = "start" \/ p.chFSMRead = "start"
    /\ p.locked <=> ~PagesRest(p)
    /\ p.chFSMWrite # "start" => w.todo /\ Writing(p, e, w, c)
    /\ p.chFSMRead # "start" => r.todo /\ Getting(p, e, r, c)
    /\ PagesRest(p) => Does(e, IF v THEN "verify" ELSE "none", 0, <<>>, c)

\* Nothing of the request under way has touched the memory.
Waiting(p, w, r) == (p.chFSMWrite # "start" => Fresh(p, w)) /\ (p.chFSMRead # "start" => Unread(p, r))

\* What the rival r does to a memory e under page p.
Rivals(e, v) ==
    /\ v.op = "erase" => Held(e)
    /\ e.ptMethod = "SDF" => /\ e.s.chip # "start" => v.op = "erase"
                             /\ e.s.did # "start" => v.op \in {"init", "device_ID"}
                             /\ e.s.uid # "start" => v.op = "unique_ID"
    /\ e.ptMethod = "SRAM" => /\ v.op \in {"verify", "erase"} => v.inside
                              /\ v.inside => e.s.state = "busy"

WriterRequests == [a : Nat, size : Nat, null : BOOLEAN, todo : BOOLEAN]
ReaderRequests == [a : Nat, size : Nat, todo : BOOLEAN]

CellsInv ==
    /\ IInv
    /\ writer \in WriterRequests /\ reader \in ReaderRequests /\ IsCells(content)
    /\ Shared(page, dev, writer, reader, rival.op = "verify", BaseOf(dev, content))
    /\ Rivals(dev, rival)
    /\ rival.op = "erase" => Waiting(page, writer, reader)
    /\ Sdf /\ rival.op = "verify" => PagesRest(page)

LEMMA WriterIs == ASSUME writer \in WriterRequests PROVE IsRequest(writer)
  BY DEF WriterRequests, IsRequest

LEMMA ReaderIs == ASSUME reader \in ReaderRequests PROVE IsRequest(reader)
  BY DEF ReaderRequests, IsRequest

\* What a step that serves whatever is under way leaves to it.
Serves(e, g) == IsDev(g) /\ g.ptMethod = e.ptMethod /\ \A f, p, d, c : Does(e, f, p, d, c) => Does(g, f, p, d, c)

LEMMA ServesWriting == ASSUME NEW p, NEW e, NEW w, NEW c, Writing(p, e, w, c), NEW g, Serves(e, g) PROVE Writing(p, g, w, c)
<1>1. WriterAt(p, e, w, c) /\ Left(p, w) /\ p.chFSMWrite # "start"
  BY DEF Writing
<1>2. \A f, q, d, b : Does(e, f, q, d, b) => Does(g, f, q, d, b)
  BY DEF Serves
<1>3. WriterAt(p, g, w, c)
  BY <1>1, <1>2 DEF WriterAt
<1>. QED
  BY <1>1, <1>3 DEF Writing

LEMMA ServesGetting == ASSUME NEW p, NEW e, NEW r, NEW c, Getting(p, e, r, c), NEW g, Serves(e, g) PROVE Getting(p, g, r, c)
<1>1. ReaderAt(p, e, c) /\ Got(p, r, c) /\ p.chFSMRead # "start"
  BY DEF Getting
<1>2. \A f, q, d, b : Does(e, f, q, d, b) => Does(g, f, q, d, b)
  BY DEF Serves
<1>3. ReaderAt(p, g, c)
  BY <1>1, <1>2 DEF ReaderAt
<1>. QED
  BY <1>1, <1>3 DEF Getting

LEMMA ServesShared == ASSUME NEW p, NEW e, NEW w, NEW r, NEW v, NEW c, Shared(p, e, w, r, v, c), NEW g, Serves(e, g)
                      PROVE  Shared(p, g, w, r, v, c)
<1>1. p.chFSMWrite # "start" => w.todo /\ Writing(p, g, w, c)
  BY ServesWriting DEF Shared
<1>2. p.chFSMRead # "start" => r.todo /\ Getting(p, g, r, c)
  BY ServesGetting DEF Shared
<1>3. ASSUME PagesRest(p) PROVE Does(g, IF v THEN "verify" ELSE "none", 0, <<>>, c)
  BY <1>3 DEF Shared, Serves
<1>. QED
  BY <1>1, <1>2, <1>3 DEF Shared

\* A memory in which any operation may begin.
Ready(g, c) == \A f, p, d : Does(g, f, p, d, c)

LEMMA RestsReady == ASSUME NEW g, NEW c, g.ptMethod = "SDF", Rests(g.s, c) PROVE Ready(g, c)
<1>1. \A f, p, d : Work(g.s, f, p, d, c)
  BY RestsWorks
<1>. QED
  BY <1>1 DEF Ready, Does

LEMMA SramReady == ASSUME NEW g, NEW c, g.ptMethod # "SDF", SramHas(g.s, c) PROVE Ready(g, c)
  BY DEF Ready, Does

\* A request that has not touched the memory takes it as it finds it.
LEMMA ReadyWriting ==
  ASSUME NEW p, NEW e, NEW w, IsRequest(w), NEW c, Writing(p, e, w, c), Fresh(p, w), NEW g, NEW b, IsCells(b), Ready(g, b)
  PROVE  Writing(p, g, w, b)
<1>1. WriterAt(p, e, w, c) /\ Left(p, w)
  BY DEF Writing
<1>2. Merged(b, w, p.wAddress) = b
  BY MergedNone DEF Fresh
<1>3. \A f, q, d : Does(g, f, q, d, b)
  BY DEF Ready
<1>4. CASE p.chFSMWrite = "read_front"
  BY <1>1, <1>3, <1>4 DEF WriterAt, Writing
<1>5. CASE p.chFSMWrite = "pages"
  BY <1>1, <1>2, <1>3, <1>5 DEF WriterAt, Writing
<1>6. CASE p.chFSMWrite = "erase_page"
  BY <1>1, <1>2, <1>3, <1>6 DEF WriterAt, Writing
<1>7. CASE p.chFSMWrite = "read_final"
  BY <1>1, <1>2, <1>3, <1>7 DEF WriterAt, Writing
<1>. QED
  BY <1>4, <1>5, <1>6, <1>7 DEF Fresh

LEMMA ReadyGetting ==
  ASSUME NEW p, NEW e, NEW r, IsRequest(r), NEW c, Getting(p, e, r, c), Unread(p, r), NEW g, NEW b, Ready(g, b)
  PROVE  Getting(p, g, r, b)
<1>1. Got(p, r, c) /\ p.chFSMRead = "page" /\ p.wAddress = r.a /\ r.a \in Nat
  BY DEF Getting, Unread, IsRequest
<1>2. p.wAddress - r.a = 0
  BY <1>1
<1>3. Got(p, r, b)
  BY <1>1, <1>2 DEF Got, Copy
<1>4. Does(g, "read", ThePage(p), <<>>, b)
  BY DEF Ready
<1>. QED
  BY <1>1, <1>3, <1>4 DEF Getting, ReaderAt

LEMMA ReadyShared ==
  ASSUME NEW p, NEW e, NEW w, IsRequest(w), NEW r, IsRequest(r), NEW v, NEW c, Shared(p, e, w, r, v, c), Waiting(p, w, r),
         NEW g, NEW b, IsCells(b), Ready(g, b), NEW u
  PROVE  Shared(p, g, w, r, u, b)
<1>1. p.chFSMWrite # "start" => w.todo /\ Writing(p, g, w, b)
  BY ReadyWriting DEF Shared, Waiting
<1>2. p.chFSMRead # "start" => r.todo /\ Getting(p, g, r, b)
  BY ReadyGetting DEF Shared, Waiting
<1>3. Does(g, IF u THEN "verify" ELSE "none", 0, <<>>, b)
  BY DEF Ready
<1>. QED
  BY <1>1, <1>2, <1>3 DEF Shared

\* Then the memory holds what it should.
LEMMA WaitingDoes ==
  ASSUME NEW p, NEW e, NEW w, IsRequest(w), NEW r, NEW v, NEW c, IsCells(c), Shared(p, e, w, r, v, c), Waiting(p, w, r)
  PROVE  \E f, k, d : Does(e, f, k, d, c)
<1>1. CASE PagesRest(p)
  BY <1>1 DEF Shared
<1>2. CASE p.chFSMWrite # "start"
  <2>1. Writing(p, e, w, c) /\ Fresh(p, w)
    BY <1>2 DEF Shared, Waiting
  <2>2. Merged(c, w, p.wAddress) = c
    BY <2>1, MergedNone DEF Fresh
  <2>3. WriterAt(p, e, w, c)
    BY <2>1 DEF Writing
  <2>. QED
    BY <2>1, <2>2, <2>3 DEF Fresh, WriterAt
<1>3. CASE p.chFSMRead # "start"
  BY <1>3 DEF Shared, Waiting, Getting, ReaderAt, Unread
<1>. QED
  BY <1>1, <1>2, <1>3 DEF PagesRest

LEMMA UnwrittenCells ==
  ASSUME NEW p, IsPage(p), NEW e, NEW w, NEW r, NEW v, NEW c, Shared(p, e, w, r, v, c), p.chFSMWrite = "start"
  PROVE  e.s.cells = c
<1>1. PICK f, k, d : Does(e, f, k, d, c) /\ f \notin {"write", "erase"}
  <2>1. CASE PagesRest(p)
    <3>1. PICK f : f = IF v THEN "verify" ELSE "none"
      OBVIOUS
    <3>2. Does(e, f, 0, <<>>, c) /\ f \notin {"write", "erase"}
      BY <2>1, <3>1 DEF Shared
    <3>. QED
      BY <3>2
  <2>2. CASE p.chFSMRead # "start"
    <3>1. ReaderAt(p, e, c)
      BY <2>2 DEF Shared, Getting
    <3>2. p.chFSMRead = "page" \/ p.chFSMRead = "set_buffer"
      BY <2>2 DEF IsPage, ReadStates
    <3>3. CASE p.chFSMRead = "page"
      BY <3>1, <3>3 DEF ReaderAt
    <3>4. CASE p.chFSMRead = "set_buffer"
      BY <3>1, <3>4 DEF ReaderAt
    <3>. QED
      BY <3>2, <3>3, <3>4
  <2>. QED
    BY <2>1, <2>2 DEF PagesRest
<1>. QED
  BY <1>1 DEF Does, Work, SramHas

-----------------------------------------------------------------------------
(* The calls of the page service. *)

LEMMA DoesNothing == ASSUME NEW e, NEW v, e.ptMethod = "SDF" => ~v, NEW c
                     PROVE  Does(e, IF v THEN "verify" ELSE "none", 0, <<>>, c) <=> Does(e, "none", 0, <<>>, c)
<1>1. CASE e.ptMethod = "SDF"
  BY <1>1
<1>2. CASE e.ptMethod # "SDF"
  BY <1>2 DEF Does
<1>. QED
  BY <1>1, <1>2

\* A writer that is at rest may have any request.
LEMMA RestingShared == ASSUME NEW p, NEW e, NEW w, NEW r, NEW v, NEW c, Shared(p, e, w, r, v, c), p.chFSMWrite = "start", NEW u
                       PROVE  Shared(p, e, u, r, v, c)
  BY DEF Shared

LEMMA ReadingRests == ASSUME NEW p, NEW e, NEW w, NEW r, NEW v, NEW c, Shared(p, e, w, r, v, c), p.chFSMRead = "start", NEW u
                      PROVE  Shared(p, e, w, u, v, c)
  BY DEF Shared

LEMMA DoneShared ==
  ASSUME NEW y, NEW w, NEW c, Done(y, w, c), y.p.chFSMRead = "start", NEW r, NEW v, y.dev.ptMethod = "SDF" => ~v, NEW u
  PROVE  Shared(y.p, y.dev, u, r, v, Merged(c, w, w.a + w.size))
<1>1. Does(y.dev, IF v THEN "verify" ELSE "none", 0, <<>>, Merged(c, w, w.a + w.size))
  BY DoesNothing DEF Done
<1>. QED
  BY <1>1 DEF Done, Shared, PagesRest

LEMMA StaysShared ==
  ASSUME NEW y, NEW w, NEW c, Stays(y, w, c), w.todo, y.p.chFSMRead = "start", NEW r, NEW v
  PROVE  Shared(y.p, y.dev, w, r, v, c)
  BY DEF Stays, Writing, Shared, PagesRest

\* What a call of the writer's comes to.
WriteGives(p, e, w, u, r, v, c, y) ==
    /\ Aided(e, y.dev)
    /\ Shared(y.p, y.dev, u, r, v, IF y.r = "cpl" THEN Merged(c, w, w.a + w.size) ELSE c)
    /\ Held(e) /\ Waiting(p, w, r) => Waiting(y.p, w, r) /\ (y.r = "cpl" => w.size = 0)

LEMMA WriteUnderWay ==
  ASSUME NEW p, IsPage(p), NEW e, IsDev(e), NEW w, IsRequest(w), w.todo, NEW r, NEW v, e.ptMethod = "SDF" => ~v,
         NEW c, IsCells(c), Shared(p, e, w, r, v, c), p.chFSMWrite # "start",
         NEW y, y = write_memory_disregard_page(p, e, w.a, TheData(w), w.null, w.size),
         NEW u, y.r # "cpl" => u = w
  PROVE  WriteGives(p, e, w, u, r, v, c, y)
<1>1. p.chFSMRead = "start" /\ p.locked /\ Writing(p, e, w, c)
  BY DEF Shared, PagesRest
<1>2. Engaged(p, e, w, c)
  BY <1>1 DEF Engaged
<1>3. Advances(p, e, w, c, y)
  BY <1>2, WriteAdvances
<1>4. y.p.chFSMRead = "start" /\ Aided(e, y.dev) /\ y.dev.ptMethod = e.ptMethod
  BY <1>1, <1>3 DEF Advances, Aided
<1>5. Held(e) /\ Waiting(p, w, r) => Fresh(y.p, w)
  BY <1>3 DEF Advances, Waiting
<1>6. CASE Done(y, w, c)
  <2>1. Shared(y.p, y.dev, u, r, v, Merged(c, w, w.a + w.size))
    BY <1>4, <1>6, DoneShared
  <2>2. y.r = "cpl" /\ y.p.chFSMWrite = "start"
    BY <1>6 DEF Done
  <2>3. ~Fresh(y.p, w)
    BY <2>2 DEF Fresh
  <2>. QED
    BY <1>4, <1>5, <2>1, <2>2, <2>3 DEF WriteGives
<1>7. CASE Stays(y, w, c)
  <2>1. Shared(y.p, y.dev, w, r, v, c)
    BY <1>4, <1>7, StaysShared
  <2>2. y.r # "cpl" /\ u = w
    BY <1>7 DEF Stays
  <2>3. Fresh(y.p, w) => Waiting(y.p, w, r)
    BY <1>4 DEF Waiting
  <2>. QED
    BY <1>4, <1>5, <2>1, <2>2, <2>3 DEF WriteGives
<1>. QED
  BY <1>3, <1>6, <1>7 DEF Advances

LEMMA WriteBegins ==
  ASSUME NEW p, IsPage(p), NEW e, IsDev(e), NEW w, IsRequest(w), w.todo, NEW r, NEW v, e.ptMethod = "SDF" => ~v,
         NEW c, IsCells(c), Shared(p, e, w, r, v, c), p.chFSMWrite = "start",
         NEW y, y = write_memory_disregard_page(p, e, w.a, TheData(w), w.null, w.size),
         NEW u, y.r # "cpl" => u = w
  PROVE  WriteGives(p, e, w, u, r, v, c, y)
<1>1. y = WriteStart(p, e, w.a, TheData(w), w.null, w.size)
  BY DEF write_memory_disregard_page
<1>2. ~p.locked => PagesRest(p) /\ Does(e, "none", 0, <<>>, c)
  BY DoesNothing DEF Shared
<1>3. /\ Aided(e, y.dev)
      /\ \/ w.size = 0 /\ y.p = p /\ y.dev = e /\ y.r = "cpl"
         \/ y.p = p /\ y.dev = e /\ y.r = "on_going"
         \/ ~p.locked /\ Stays(y, w, c) /\ (Held(e) => Fresh(y.p, w)) /\ y.p.chFSMRead = p.chFSMRead
  <2>1. ~p.locked => Does(e, "none", 0, <<>>, c)
    BY <1>2
  <2>. QED
    BY <1>1, <2>1, WriteStartWorks
<1>4. CASE w.size = 0 /\ y.p = p /\ y.dev = e /\ y.r = "cpl"
  <2>1. Merged(c, w, w.a + w.size) = c
    <3>1. w.a + w.size = w.a
      BY <1>4 DEF IsRequest
    <3>. QED
      BY <3>1, MergedNone
  <2>2. Shared(p, e, u, r, v, c)
    BY RestingShared
  <2>. QED
    BY <1>3, <1>4, <2>1, <2>2 DEF WriteGives
<1>5. CASE y.p = p /\ y.dev = e /\ y.r = "on_going"
  BY <1>3, <1>5 DEF WriteGives
<1>6. CASE ~p.locked /\ Stays(y, w, c) /\ (Held(e) => Fresh(y.p, w)) /\ y.p.chFSMRead = p.chFSMRead
  <2>1. y.p.chFSMRead = "start" /\ y.r # "cpl" /\ u = w
    BY <1>2, <1>6 DEF PagesRest, Stays
  <2>2. Shared(y.p, y.dev, w, r, v, c)
    BY <1>6, <2>1, StaysShared
  <2>3. Held(e) => Waiting(y.p, w, r)
    BY <1>6, <2>1 DEF Waiting
  <2>. QED
    BY <1>3, <2>1, <2>2, <2>3 DEF WriteGives
<1>. QED
  BY <1>3, <1>4, <1>5, <1>6

\* What a call of the reader's comes to.
ReadGives(p, e, w, r, u, v, c, y) ==
    /\ Aided(e, y.dev)
    /\ Shared(y.p, y.dev, w, u, v, c)
    /\ Held(e) /\ Waiting(p, w, r) => Waiting(y.p, w, r) /\ (y.r = "cpl" => r.size = 0)
    /\ y.r = "cpl" /\ r.size > 0 => Copy(y.p.stream, c, r.a, r.size)

LEMMA ReturnedShared ==
  ASSUME NEW y, NEW r, NEW c, Returned(y, r, c), y.p.chFSMWrite = "start", NEW w, NEW v, y.dev.ptMethod = "SDF" => ~v, NEW u
  PROVE  Shared(y.p, y.dev, w, u, v, c)
<1>1. Does(y.dev, IF v THEN "verify" ELSE "none", 0, <<>>, c)
  BY DoesNothing DEF Returned
<1>. QED
  BY <1>1 DEF Returned, Shared, PagesRest

LEMMA AwaitsShared ==
  ASSUME NEW y, NEW r, NEW c, Awaits(y, r, c), r.todo, y.p.chFSMWrite = "start", NEW w, NEW v
  PROVE  Shared(y.p, y.dev, w, r, v, c)
  BY DEF Awaits, Getting, Shared, PagesRest

LEMMA ReadUnderWay ==
  ASSUME NEW p, IsPage(p), NEW e, IsDev(e), NEW w, NEW r, IsRequest(r), r.todo, NEW v, e.ptMethod = "SDF" => ~v,
         NEW c, IsCells(c), Shared(p, e, w, r, v, c), p.chFSMRead # "start",
         NEW y, y = read_memory_disregard_page(p, e, r.a, r.size), NEW u, y.r # "cpl" => u = r
  PROVE  ReadGives(p, e, w, r, u, v, c, y)
<1>1. p.chFSMWrite = "start" /\ p.locked /\ Getting(p, e, r, c)
  BY DEF Shared, PagesRest
<1>2. Seeking(p, e, r, c)
  BY <1>1 DEF Seeking
<1>3. Gains(p, e, r, c, y)
  BY <1>2, ReadGains
<1>4. y.p.chFSMWrite = "start" /\ Aided(e, y.dev) /\ y.dev.ptMethod = e.ptMethod
  BY <1>1, <1>3 DEF Gains, Aided
<1>5. Held(e) /\ Waiting(p, w, r) => Unread(y.p, r)
  BY <1>3 DEF Gains, Waiting
<1>6. CASE Returned(y, r, c)
  <2>1. Shared(y.p, y.dev, w, u, v, c)
    BY <1>4, <1>6, ReturnedShared
  <2>2. y.r = "cpl" /\ y.p.chFSMRead = "start" /\ Copy(y.p.stream, c, r.a, r.size)
    BY <1>6 DEF Returned
  <2>3. ~Unread(y.p, r)
    BY <2>2 DEF Unread
  <2>. QED
    BY <1>4, <1>5, <2>1, <2>2, <2>3 DEF ReadGives
<1>7. CASE Awaits(y, r, c)
  <2>1. Shared(y.p, y.dev, w, r, v, c)
    BY <1>4, <1>7, AwaitsShared
  <2>2. y.r # "cpl" /\ u = r
    BY <1>7 DEF Awaits
  <2>3. Unread(y.p, r) => Waiting(y.p, w, r)
    BY <1>4 DEF Waiting
  <2>. QED
    BY <1>4, <1>5, <2>1, <2>2, <2>3 DEF ReadGives
<1>. QED
  BY <1>3, <1>6, <1>7 DEF Gains

LEMMA ReadBegins ==
  ASSUME NEW p, IsPage(p), NEW e, IsDev(e), NEW w, NEW r, IsRequest(r), r.todo, NEW v, e.ptMethod = "SDF" => ~v,
         NEW c, IsCells(c), Shared(p, e, w, r, v, c), p.chFSMRead = "start",
         NEW y, y = read_memory_disregard_page(p, e, r.a, r.size), NEW u, y.r # "cpl" => u = r
  PROVE  ReadGives(p, e, w, r, u, v, c, y)
<1>1. y = ReadStart(p, e, r.a, r.size)
  BY DEF read_memory_disregard_page
<1>2. ~p.locked => PagesRest(p) /\ Does(e, "none", 0, <<>>, c)
  BY DoesNothing DEF Shared
<1>3. /\ Aided(e, y.dev) /\ y.p.chFSMWrite = p.chFSMWrite
      /\ \/ r.size = 0 /\ y.p = p /\ y.dev = e /\ y.r = "cpl"
         \/ y.p = p /\ y.dev = e /\ y.r = "on_going"
         \/ ~p.locked /\ Awaits(y, r, c) /\ (Held(e) => Unread(y.p, r))
  <2>1. ~p.locked => Does(e, "none", 0, <<>>, c)
    BY <1>2
  <2>. QED
    BY <1>1, <2>1, ReadStartGains
<1>4. CASE r.size = 0 /\ y.p = p /\ y.dev = e /\ y.r = "cpl"
  <2>1. Shared(p, e, w, u, v, c)
    BY ReadingRests
  <2>. QED
    BY <1>3, <1>4, <2>1 DEF ReadGives
<1>5. CASE y.p = p /\ y.dev = e /\ y.r = "on_going"
  BY <1>3, <1>5 DEF ReadGives
<1>6. CASE ~p.locked /\ Awaits(y, r, c) /\ (Held(e) => Unread(y.p, r))
  <2>1. y.p.chFSMWrite = "start" /\ y.r # "cpl" /\ u = r
    BY <1>2, <1>3, <1>6 DEF PagesRest, Awaits
  <2>2. Shared(y.p, y.dev, w, r, v, c)
    BY <1>6, <2>1, AwaitsShared
  <2>3. Held(e) => Waiting(y.p, w, r)
    BY <1>6, <2>1 DEF Waiting
  <2>. QED
    BY <1>3, <2>1, <2>2, <2>3 DEF ReadGives
<1>. QED
  BY <1>3, <1>4, <1>5, <1>6

LEMMA AidedRivals == ASSUME NEW e, IsDev(e), NEW g, Aided(e, g), NEW v, Rivals(e, v)
                     PROVE  Rivals(g, v) /\ \A c : BaseOf(g, c) = BaseOf(e, c)
<1>1. CASE e.ptMethod = "SDF"
  <2>1. g.ptMethod = "SDF" /\ g.s.chip = e.s.chip /\ g.s.did = e.s.did /\ g.s.uid = e.s.uid
    BY <1>1 DEF Aided, Beside, Others
  <2>. QED
    BY <1>1, <2>1 DEF Rivals, BaseOf, Held
<1>2. CASE e.ptMethod = "SRAM"
  <2>1. g.ptMethod = "SRAM" /\ g.s.state = e.s.state
    BY <1>2 DEF Aided, Beside
  <2>. QED
    BY <1>2, <2>1 DEF Rivals, BaseOf, Held
<1>. QED
  BY <1>1, <1>2 DEF IsDev

\* No erase of the whole memory is under way.
LEMMA BaseIs == ASSUME NEW e, IsDev(e), NEW v, Rivals(e, v), v.op # "erase", NEW c PROVE BaseOf(e, c) = c
  BY DEF Rivals, BaseOf

LEMMA BaseCells == ASSUME NEW e, NEW c, IsCells(c) PROVE IsCells(BaseOf(e, c))
<1>1. IsCells(Blank)
  BY DEF IsCells, Blank
<1>. QED
  BY <1>1 DEF BaseOf

LEMMA PutIs == ASSUME IsRequest(writer)
               PROVE  Put(writer.a, writer.size, writer.null) = Merged(content, writer, writer.a + writer.size)
<1>1. PICK q, m : q = Put(writer.a, writer.size, writer.null) /\ m = Merged(content, writer, writer.a + writer.size)
  OBVIOUS
<1>2. /\ IsCells(q)
      /\ \A x \in Addresses : q[x] = IF x \in writer.a .. writer.a + writer.size - 1
                                   THEN IF writer.null THEN ERASED ELSE New(x - writer.a + 1) ELSE content[x]
  BY <1>1 DEF Put, IsCells
<1>3. IsCells(m)
  BY <1>1, MergedIs
<1>4. ASSUME NEW x \in Addresses PROVE q[x] = m[x]
  <2>1. PICK n : n = writer.a + writer.size /\ n \in Nat /\ writer.a \in Nat /\ writer.size \in Nat
    BY DEF IsRequest
  <2>2. /\ x \in writer.a .. n - 1 =>
               Merged(content, writer, n)[x] = IF writer.null THEN ERASED ELSE New(x - writer.a + 1)
        /\ x \notin writer.a .. n - 1 => Merged(content, writer, n)[x] = content[x]
    BY MergedAt
  <2>3. m = Merged(content, writer, n)
    BY <1>1, <2>1
  <2>4. CASE x \in writer.a .. n - 1
    <3>1. q[x] = IF writer.null THEN ERASED ELSE New(x - writer.a + 1)
      BY <1>2, <2>1, <2>4
    <3>. QED
      BY <2>2, <2>3, <2>4, <3>1
  <2>5. CASE x \notin writer.a .. n - 1
    BY <1>2, <2>1, <2>2, <2>3, <2>5
  <2>. QED
    BY <2>4, <2>5
<1>. QED
  BY <1>1, <1>2, <1>3, <1>4 DEF IsCells

LEMMA WriterCalls == ASSUME CellsInv, Write, IInv' PROVE CellsInv'
<1>0. /\ IsPage(page) /\ IsDev(dev) /\ writer \in WriterRequests /\ reader \in ReaderRequests /\ IsCells(content)
      /\ Shared(page, dev, writer, reader, rival.op = "verify", BaseOf(dev, content)) /\ Rivals(dev, rival)
      /\ (rival.op = "erase" => Waiting(page, writer, reader) /\ Held(dev))
  BY DEF CellsInv, IInv, Sound, Rivals
<1>1. PICK c : c = BaseOf(dev, content)
  OBVIOUS
<1>2. PICK v : v = (rival.op = "verify")
  OBVIOUS
<1>3. PICK y : /\ y = write_memory_disregard_page(page, dev, writer.a, TheData(writer), writer.null, writer.size)
               /\ page' = y.p /\ dev' = y.dev /\ writer' = [writer EXCEPT !.todo = y.r # "cpl"]
               /\ content' = IF y.r = "cpl" THEN Put(writer.a, writer.size, writer.null) ELSE content
  BY DEF Write, TheData
<1>4. reader' = reader /\ rival' = rival /\ writer.todo /\ (dev.ptMethod = "SDF" => ~v)
  BY <1>2 DEF Write, Apart, Sdf
<1>5. writer' \in WriterRequests /\ (y.r # "cpl" => writer' = writer)
  BY <1>0, <1>3, <1>4 DEF WriterRequests
<1>6. PICK u : u = writer'
  OBVIOUS
<1>7. WriteGives(page, dev, writer, u, reader, v, c, y)
  <2>1. IsPage(page) /\ IsDev(dev) /\ IsRequest(writer) /\ writer.todo /\ (dev.ptMethod = "SDF" => ~v) /\ IsCells(c)
    BY <1>0, <1>1, <1>4, WriterIs, BaseCells
  <2>2. Shared(page, dev, writer, reader, v, c)
    BY <1>0, <1>1, <1>2
  <2>3. y = write_memory_disregard_page(page, dev, writer.a, TheData(writer), writer.null, writer.size)
    BY <1>3
  <2>4. y.r # "cpl" => u = writer
    BY <1>5, <1>6
  <2>5. CASE page.chFSMWrite = "start"
    BY <2>1, <2>2, <2>3, <2>4, <2>5, WriteBegins
  <2>6. CASE page.chFSMWrite # "start"
    BY <2>1, <2>2, <2>3, <2>4, <2>6, WriteUnderWay
  <2>. QED
    BY <2>5, <2>6
<1>8. Rivals(dev', rival) /\ \A b : BaseOf(dev', b) = BaseOf(dev, b)
  <2>1. Aided(dev, dev')
    BY <1>3, <1>7 DEF WriteGives
  <2>. QED
    BY <1>0, <2>1, AidedRivals
<1>9. IsCells(content') /\ Shared(page', dev', writer', reader, v, BaseOf(dev', content'))
  <2>1. CASE y.r # "cpl"
    <3>1. content' = content /\ BaseOf(dev', content') = c
      BY <1>1, <1>3, <1>8, <2>1
    <3>. QED
      BY <1>0, <1>3, <1>6, <1>7, <2>1, <3>1 DEF WriteGives
  <2>2. CASE y.r = "cpl" /\ rival.op # "erase"
    <3>1. c = content /\ BaseOf(dev', content') = content'
      BY <1>0, <1>1, <1>8, <2>2, BaseIs
    <3>2. content' = Merged(c, writer, writer.a + writer.size)
      <4>1. IsRequest(writer)
        BY <1>0, WriterIs
      <4>. QED
        BY <1>3, <2>2, <3>1, <4>1, PutIs
    <3>3. IsCells(content')
      BY <3>2, MergedIs
    <3>. QED
      BY <1>3, <1>6, <1>7, <2>2, <3>1, <3>2, <3>3 DEF WriteGives
  <2>3. CASE y.r = "cpl" /\ rival.op = "erase"
    <3>1. writer.size = 0
      BY <1>0, <1>7, <2>3 DEF WriteGives
    <3>2. IsRequest(writer) /\ writer.a + writer.size = writer.a /\ IsCells(c)
      <4>1. IsRequest(writer)
        BY <1>0, WriterIs
      <4>2. writer.a + writer.size = writer.a
        BY <3>1, <4>1 DEF IsRequest
      <4>. QED
        BY <1>0, <1>1, <4>1, <4>2, BaseCells
    <3>3. Merged(c, writer, writer.a + writer.size) = c /\ Merged(content, writer, writer.a + writer.size) = content
      BY <1>0, <3>2, MergedNone
    <3>4. content' = content /\ BaseOf(dev', content') = c
      BY <1>1, <1>3, <1>8, <2>3, <3>2, <3>3, PutIs
    <3>. QED
      BY <1>0, <1>3, <1>6, <1>7, <2>3, <3>3, <3>4 DEF WriteGives
  <2>. QED
    BY <2>1, <2>2, <2>3
<1>a. rival.op = "erase" => Waiting(page', writer', reader)
  <2>1. ASSUME rival.op = "erase" PROVE Waiting(page', writer', reader)
    <3>1. Waiting(y.p, writer, reader)
      BY <1>0, <1>7, <2>1 DEF WriteGives
    <3>2. writer'.a = writer.a
      BY <1>0, <1>3 DEF WriterRequests
    <3>. QED
      BY <1>3, <3>1, <3>2 DEF Waiting, Fresh
  <2>. QED
    BY <2>1
<1>b. ~(Sdf' /\ rival.op = "verify")
  <2>1. dev'.ptMethod = dev.ptMethod
    BY <1>3, <1>7 DEF WriteGives, Aided
  <2>. QED
    BY <1>2, <1>4, <2>1 DEF Sdf
<1>. QED
  BY <1>0, <1>2, <1>4, <1>5, <1>8, <1>9, <1>a, <1>b DEF CellsInv

LEMMA ReaderCalls == ASSUME CellsInv, ReadMemory, IInv'
                   PROVE  CellsInv' /\ (~reader'.todo /\ reader.size > 0 => page'.stream = Window(reader.a, reader.size))
<1>0. /\ IsPage(page) /\ IsDev(dev) /\ writer \in WriterRequests /\ reader \in ReaderRequests /\ IsCells(content)
      /\ Shared(page, dev, writer, reader, rival.op = "verify", BaseOf(dev, content)) /\ Rivals(dev, rival)
      /\ (rival.op = "erase" => Waiting(page, writer, reader) /\ Held(dev))
  BY DEF CellsInv, IInv, Sound, Rivals
<1>1. PICK c : c = BaseOf(dev, content)
  OBVIOUS
<1>2. PICK v : v = (rival.op = "verify")
  OBVIOUS
<1>3. PICK y : /\ y = read_memory_disregard_page(page, dev, reader.a, reader.size)
               /\ page' = y.p /\ dev' = y.dev /\ reader' = [reader EXCEPT !.todo = y.r # "cpl"]
  BY DEF ReadMemory
<1>4. writer' = writer /\ rival' = rival /\ content' = content /\ reader.todo /\ (dev.ptMethod = "SDF" => ~v)
  BY <1>2 DEF ReadMemory, Apart, Sdf
<1>5. reader' \in ReaderRequests /\ (y.r # "cpl" => reader' = reader) /\ reader'.a = reader.a /\ (~reader'.todo => y.r = "cpl")
  BY <1>0, <1>3, <1>4 DEF ReaderRequests
<1>6. PICK u : u = reader'
  OBVIOUS
<1>7. ReadGives(page, dev, writer, reader, u, v, c, y)
  <2>1. IsPage(page) /\ IsDev(dev) /\ IsRequest(reader) /\ reader.todo /\ (dev.ptMethod = "SDF" => ~v) /\ IsCells(c)
    BY <1>0, <1>1, <1>4, ReaderIs, BaseCells
  <2>2. Shared(page, dev, writer, reader, v, c)
    BY <1>0, <1>1, <1>2
  <2>3. y = read_memory_disregard_page(page, dev, reader.a, reader.size)
    BY <1>3
  <2>4. y.r # "cpl" => u = reader
    BY <1>5, <1>6
  <2>5. CASE page.chFSMRead = "start"
    BY <2>1, <2>2, <2>3, <2>4, <2>5, ReadBegins
  <2>6. CASE page.chFSMRead # "start"
    BY <2>1, <2>2, <2>3, <2>4, <2>6, ReadUnderWay
  <2>. QED
    BY <2>5, <2>6
<1>8. Rivals(dev', rival) /\ BaseOf(dev', content') = c
  <2>1. Aided(dev, dev')
    BY <1>3, <1>7 DEF ReadGives
  <2>. QED
    BY <1>0, <1>1, <1>4, <2>1, AidedRivals
<1>9. Shared(page', dev', writer, reader', v, BaseOf(dev', content'))
  BY <1>3, <1>6, <1>7, <1>8 DEF ReadGives
<1>a. rival.op = "erase" => Waiting(page', writer, reader')
  <2>1. ASSUME rival.op = "erase" PROVE Waiting(page', writer, reader')
    <3>1. Waiting(y.p, writer, reader)
      BY <1>0, <1>7, <2>1 DEF ReadGives
    <3>. QED
      BY <1>3, <1>5, <3>1 DEF Waiting, Unread
  <2>. QED
    BY <2>1
<1>b. ~(Sdf' /\ rival.op = "verify")
  <2>1. dev'.ptMethod = dev.ptMethod
    BY <1>3, <1>7 DEF ReadGives, Aided
  <2>. QED
    BY <1>2, <1>4, <2>1 DEF Sdf
<1>c. CellsInv'
  BY <1>0, <1>2, <1>4, <1>5, <1>8, <1>9, <1>a, <1>b DEF CellsInv
<1>d. ASSUME ~reader'.todo, reader.size > 0 PROVE page'.stream = Window(reader.a, reader.size)
  <2>1. y.r = "cpl"
    BY <1>5, <1>d
  <2>2. Copy(y.p.stream, c, reader.a, reader.size)
    BY <1>7, <1>d, <2>1 DEF ReadGives
  <2>3. rival.op # "erase"
    <3>1. reader.size \in Nat
      BY <1>0 DEF ReaderRequests
    <3>. QED
      BY <1>0, <1>7, <1>d, <2>1, <3>1 DEF ReadGives
  <2>4. c = content
    BY <1>0, <1>1, <2>3, BaseIs
  <2>5. PICK n, a : n = reader.size /\ a = reader.a /\ n \in Nat
    BY <1>0 DEF ReaderRequests
  <2>6. PICK q, s : q = Window(a, n) /\ s = page'.stream
    OBVIOUS
  <2>7. q = [i \in 1 .. n |-> content[a + i - 1]]
    BY <2>6 DEF Window
  <2>8. IsSeq(q) /\ Len(q) = n /\ \A i \in 1 .. n : q[i] = content[a + i - 1]
    <3>1. q = [i \in 1 .. n |-> q[i]] /\ \A i \in 1 .. n : q[i] = content[a + i - 1]
      BY <2>7
    <3>. QED
      BY <2>5, <3>1, RowIs
  <2>9. IsSeq(s) /\ Len(s) = n /\ \A i \in 1 .. n : s[i] = content[a + i - 1]
    BY <1>3, <2>2, <2>4, <2>5, <2>6 DEF Copy
  <2>a. s = q
    BY <2>8, <2>9, SameSeq
  <2>. QED
    BY <2>5, <2>6, <2>a
<1>. QED
  BY <1>c, <1>d

-----------------------------------------------------------------------------
(* The rival and the chip. *)

LEMMA CalledIs ==
  ASSUME NEW op, NEW x, Called(op, x)
  PROVE  /\ page' = page /\ writer' = writer /\ reader' = reader /\ dev' = Moved(dev, x)
         /\ rival'.op = IF x.r \in {"on_going", "busy"} THEN op ELSE Idle
         /\ rival'.inside = FALSE
         /\ content' = IF op = "erase" /\ x.r = "cpl" THEN Blank ELSE content
<1>1. PICK again \in {x.r \in {"on_going", "busy"}} :
         /\ page' = page /\ writer' = writer /\ reader' = reader /\ dev' = [dev EXCEPT !.s = x.s]
         /\ rival' = [op |-> IF again THEN op ELSE Idle, inside |-> FALSE,
                      left |-> IF rival.op = Idle THEN rival.left - 1 ELSE rival.left]
         /\ content' = IF op = "erase" /\ x.r = "cpl" THEN Blank ELSE content
  BY Zenon DEF Called
<1>2. again <=> x.r \in {"on_going", "busy"}
  BY Zenon
<1>3. rival'.op = (IF again THEN op ELSE Idle) /\ rival'.inside = FALSE
  BY <1>1
<1>. QED
  BY <1>1, <1>2, <1>3 DEF Moved

LEMMA SharedAny == ASSUME NEW p, NEW e, NEW w, NEW r, NEW v, NEW c, Shared(p, e, w, r, v, c), NEW u,
                          e.ptMethod = "SDF" => ~v /\ ~u
                   PROVE  Shared(p, e, w, r, u, c)
<1>1. PagesRest(p) => Does(e, "none", 0, <<>>, c)
  BY DoesNothing DEF Shared
<1>2. PagesRest(p) => Does(e, IF u THEN "verify" ELSE "none", 0, <<>>, c)
  BY <1>1, DoesNothing
<1>. QED
  BY <1>2 DEF Shared

\* A step beside the page service, which serves whatever it has under way.
LEMMA ServesKeeps ==
  ASSUME CellsInv, IInv', page' = page, writer' = writer, reader' = reader, content' = content, Serves(dev, dev'),
         Sdf => rival.op # "verify" /\ rival'.op # "verify" /\ dev'.s.chip = dev.s.chip, Rivals(dev', rival'),
         rival'.op = "erase" => Waiting(page, writer, reader)
  PROVE  CellsInv'
<1>0. /\ writer \in WriterRequests /\ reader \in ReaderRequests /\ IsCells(content)
      /\ Shared(page, dev, writer, reader, rival.op = "verify", BaseOf(dev, content))
  BY DEF CellsInv
<1>1. dev'.ptMethod = dev.ptMethod
  BY DEF Serves
<1>2. BaseOf(dev', content) = BaseOf(dev, content)
  BY <1>1 DEF BaseOf, Sdf
<1>3. PICK v, u : v = (rival.op = "verify") /\ u = (rival'.op = "verify")
  OBVIOUS
<1>4. Shared(page, dev', writer, reader, v, BaseOf(dev, content))
  BY <1>0, <1>3, ServesShared
<1>5. Shared(page, dev', writer, reader, u, BaseOf(dev, content))
  <2>1. dev'.ptMethod = "SDF" => ~v /\ ~u
    BY <1>1, <1>3 DEF Sdf
  <2>. QED
    BY <1>4, <2>1, SharedAny
<1>6. ~(Sdf' /\ rival'.op = "verify")
  BY <1>1 DEF Sdf
<1>. QED
  BY <1>0, <1>2, <1>3, <1>5, <1>6 DEF CellsInv

LEMMA FlashServes == ASSUME NEW e, IsDev(e), e.ptMethod = "SDF", NEW x,
                            \A f, p, d, c : Work(e.s, f, p, d, c) => Work(x.s, f, p, d, c)
                     PROVE  Serves(e, Moved(e, x))
<1>1. IsDev(Moved(e, x)) /\ Moved(e, x).s = x.s /\ Moved(e, x).ptMethod = e.ptMethod
  BY MovedIs
<1>. QED
  BY <1>1 DEF Serves, Does

LEMMA RamServes == ASSUME NEW e, IsDev(e), e.ptMethod # "SDF", NEW x, \A c : SramHas(e.s, c) => SramHas(x.s, c)
                   PROVE  Serves(e, Moved(e, x))
<1>1. IsDev(Moved(e, x)) /\ Moved(e, x).s = x.s /\ Moved(e, x).ptMethod = e.ptMethod
  BY MovedIs
<1>. QED
  BY <1>1 DEF Serves, Does

\* A call of the driver's life cycle or for its identifiers.
LEMMA FlashCalls ==
  ASSUME CellsInv, IInv', Sdf, NEW op \in {"init", "finish", "device_ID", "unique_ID"}, rival.op \in {op, Idle}, NEW x,
         Called(op, x), \A f, p, d, c : Work(dev.s, f, p, d, c) => Work(x.s, f, p, d, c), x.s.chip = dev.s.chip,
         x.s.did # "start" => op \in {"init", "device_ID"} /\ x.r \in {"on_going", "busy"},
         x.s.uid # "start" => op = "unique_ID" /\ x.r \in {"on_going", "busy"}
  PROVE  CellsInv'
<1>0. IsDev(dev) /\ dev.ptMethod = "SDF" /\ Rivals(dev, rival)
  BY DEF CellsInv, IInv, Sound, Sdf
<1>1. /\ page' = page /\ writer' = writer /\ reader' = reader /\ dev' = Moved(dev, x)
      /\ rival'.op = IF x.r \in {"on_going", "busy"} THEN op ELSE Idle
      /\ content' = content
  BY CalledIs
<1>2. rival.op \notin {"verify", "erase"} /\ rival'.op \notin {"verify", "erase"}
  BY <1>1 DEF Idle
<1>3. Serves(dev, dev')
  BY <1>0, <1>1, FlashServes
<1>4. dev'.s = x.s /\ dev'.ptMethod = "SDF"
  BY <1>0, <1>1, MovedIs
<1>5. dev.s.chip = "start"
  BY <1>0, <1>2 DEF Rivals
<1>6. Rivals(dev', rival')
  BY <1>1, <1>2, <1>4, <1>5 DEF Rivals
<1>. QED
  BY <1>1, <1>2, <1>3, <1>4, <1>6, ServesKeeps

\* The identifiers' machines, before a call op.
LEMMA OtherMachines == ASSUME CellsInv, Sdf, NEW op, rival.op \in {op, Idle}
                       PROVE  /\ op \notin {"init", "device_ID"} => dev.s.did = "start"
                              /\ op # "unique_ID" => dev.s.uid = "start"
                              /\ op # "erase" => dev.s.chip = "start"
  BY DEF CellsInv, Rivals, Sdf, Idle

\* Whatever the page service is about, the cells are accounted for.
LEMMA CellsDoes == ASSUME CellsInv PROVE \E f, k, d, b : Does(dev, f, k, d, b)
<1>0. IsPage(page)
  BY DEF CellsInv, IInv
<1>1. PICK w, r, v, c : Shared(page, dev, w, r, v, c)
  BY DEF CellsInv
<1>2. \E f, k, d, b : Does(dev, f, k, d, b)
  <2>1. CASE PagesRest(page)
    BY <1>1, <2>1 DEF Shared
  <2>2. CASE page.chFSMWrite # "start"
    <3>1. WriterAt(page, dev, w, c)
      BY <1>1, <2>2 DEF Shared, Writing
    <3>2. PICK k, now : k = ThePage(page) /\ now = Merged(c, w, page.wAddress)
      OBVIOUS
    <3>3. /\ page.chFSMWrite = "read_front" => Does(dev, "read", k, <<>>, c)
          /\ page.chFSMWrite = "erase_leading" => Does(dev, "erase", k, <<>>, c)
          /\ page.chFSMWrite = "modify_leading" => Does(dev, "none", 0, <<>>, Wiped(c, k))
          /\ page.chFSMWrite = "prog_leading" => Does(dev, "write", k, page.buffer, Wiped(c, k))
          /\ page.chFSMWrite = "pages" => Does(dev, "none", 0, <<>>, now)
          /\ page.chFSMWrite = "erase_page" => Does(dev, "erase", k, <<>>, now)
          /\ page.chFSMWrite = "prog_page" => \E f, j, d : Does(dev, f, j, d, Wiped(now, k))
          /\ page.chFSMWrite = "read_final" => Does(dev, "read", k, <<>>, now)
          /\ page.chFSMWrite = "erase_final" => Does(dev, "erase", k, <<>>, now)
          /\ page.chFSMWrite = "modify_final" => Does(dev, "none", 0, <<>>, Wiped(now, k))
          /\ page.chFSMWrite = "prog_final" => Does(dev, "write", k, page.buffer, Wiped(now, k))
      BY <3>1, <3>2 DEF WriterAt
    <3>. QED
      BY <1>0, <2>2, <3>3 DEF IsPage, WriteStates
  <2>3. CASE page.chFSMRead # "start"
    BY <1>0, <1>1, <2>3 DEF Shared, Getting, ReaderAt, IsPage, ReadStates
  <2>. QED
    BY <2>1, <2>2, <2>3 DEF PagesRest
<1>. QED
  BY <1>2

LEMMA CellsWork == ASSUME CellsInv, Sdf PROVE \E f, p, d, c : Work(dev.s, f, p, d, c)
  BY CellsDoes DEF Does, Sdf

LEMMA InitKeeps ==
  ASSUME CellsInv, IInv', Sdf, Calls("init"), NEW spi, NEW open \in {"cpl", "on_going", "err"}, NEW hwID,
         Called("init", sdf_init(dev.s, spi, open, hwID))
  PROVE  CellsInv'
<1>1. PICK x : x = sdf_init(dev.s, spi, open, hwID)
  OBVIOUS
<1>2. rival.op \in {"init", Idle}
  BY DEF Calls
<1>3. dev.s.init = "read" \/ dev.s.state = "not_ready"
  <2>1. CASE rival.op = "init"
    BY <2>1 DEF CellsInv, IInv, Opening
  <2>2. CASE "init" \in Startable
    BY <2>2 DEF Startable
  <2>. QED
    BY <2>1, <2>2 DEF Calls
<1>4. ASSUME NEW f, NEW p, NEW d, NEW c, Work(dev.s, f, p, d, c)
      PROVE  Work(x.s, f, p, d, c) /\ x.s.chip = dev.s.chip /\ x.s.uid = dev.s.uid
             /\ (x.r \notin {"on_going", "busy"} => x.s.did = "start")
  BY <1>1, <1>3, <1>4, InitWorks
<1>5. x.s.chip = dev.s.chip /\ x.s.uid = dev.s.uid /\ (x.r \notin {"on_going", "busy"} => x.s.did = "start")
  <2>1. \E f, p, d, c : Work(dev.s, f, p, d, c)
    BY CellsWork
  <2>. QED
    BY <1>4, <2>1
<1>6. dev.s.uid = "start"
  BY <1>2, OtherMachines
<1>7. Called("init", x) /\ \A f, p, d, c : Work(dev.s, f, p, d, c) => Work(x.s, f, p, d, c)
  BY <1>1, <1>4
<1>. QED
  BY <1>2, <1>5, <1>6, <1>7, FlashCalls

LEMMA FinishKeeps ==
  ASSUME CellsInv, IInv', Sdf, Calls("finish"), dev.s.state = "idle", NEW close, Called("finish", sdf_finish(dev.s, close))
  PROVE  CellsInv'
<1>1. PICK x : x = sdf_finish(dev.s, close)
  OBVIOUS
<1>2. rival.op \in {"finish", Idle}
  BY DEF Calls
<1>4. ASSUME NEW f, NEW p, NEW d, NEW c, Work(dev.s, f, p, d, c)
      PROVE  Work(x.s, f, p, d, c) /\ Others(dev.s, x.s)
  <2>1. Rests(x.s, c) /\ Others(dev.s, x.s)
    BY <1>1, <1>4, FinishWorks
  <2>. QED
    BY <2>1, RestsWorks
<1>5. Others(dev.s, x.s)
  <2>1. \E f, p, d, c : Work(dev.s, f, p, d, c)
    BY CellsWork
  <2>. QED
    BY <1>4, <2>1
<1>6. dev.s.uid = "start" /\ dev.s.did = "start"
  BY <1>2, OtherMachines
<1>7. Called("finish", x) /\ \A f, p, d, c : Work(dev.s, f, p, d, c) => Work(x.s, f, p, d, c)
  BY <1>1, <1>4
<1>8. x.s.chip = dev.s.chip /\ x.s.did = "start" /\ x.s.uid = "start"
  BY <1>5, <1>6 DEF Others
<1>. QED
  BY <1>2, <1>7, <1>8, FlashCalls

LEMMA DeviceKeeps ==
  ASSUME CellsInv, IInv', Sdf, Calls("device_ID"), Called("device_ID", fsm_sdf_read_device_ID(dev.s))
  PROVE  CellsInv'
<1>1. PICK x : x = fsm_sdf_read_device_ID(dev.s)
  OBVIOUS
<1>2. rival.op \in {"device_ID", Idle}
  BY DEF Calls
<1>4. ASSUME NEW f, NEW p, NEW d, NEW c, Work(dev.s, f, p, d, c)
      PROVE  Work(x.s, f, p, d, c) /\ x.s.chip = dev.s.chip /\ x.s.uid = dev.s.uid /\ (x.r # "on_going" => x.s.did = "start")
  BY <1>1, <1>4, DeviceWorks
<1>5. x.s.chip = dev.s.chip /\ x.s.uid = dev.s.uid /\ (x.r # "on_going" => x.s.did = "start")
  <2>1. \E f, p, d, c : Work(dev.s, f, p, d, c)
    BY CellsWork
  <2>. QED
    BY <1>4, <2>1
<1>6. dev.s.uid = "start"
  BY <1>2, OtherMachines
<1>7. Called("device_ID", x) /\ \A f, p, d, c : Work(dev.s, f, p, d, c) => Work(x.s, f, p, d, c)
  BY <1>1, <1>4
<1>. QED
  BY <1>2, <1>5, <1>6, <1>7, FlashCalls

LEMMA UniqueKeeps ==
  ASSUME CellsInv, IInv', Sdf, Calls("unique_ID"), Called("unique_ID", fsm_sdf_read_unique_ID(dev.s))
  PROVE  CellsInv'
<1>1. PICK x : x = fsm_sdf_read_unique_ID(dev.s)
  OBVIOUS
<1>2. rival.op \in {"unique_ID", Idle}
  BY DEF Calls
<1>4. ASSUME NEW f, NEW p, NEW d, NEW c, Work(dev.s, f, p, d, c)
      PROVE  Work(x.s, f, p, d, c) /\ x.s.chip = dev.s.chip /\ x.s.did = dev.s.did /\ (x.r # "on_going" => x.s.uid = "start")
  BY <1>1, <1>4, UniqueWorks
<1>5. x.s.chip = dev.s.chip /\ x.s.did = dev.s.did /\ (x.r # "on_going" => x.s.uid = "start")
  <2>1. \E f, p, d, c : Work(dev.s, f, p, d, c)
    BY CellsWork
  <2>. QED
    BY <1>4, <2>1
<1>6. dev.s.did = "start"
  BY <1>2, OtherMachines
<1>7. Called("unique_ID", x) /\ \A f, p, d, c : Work(dev.s, f, p, d, c) => Work(x.s, f, p, d, c)
  BY <1>1, <1>4
<1>. QED
  BY <1>2, <1>5, <1>6, <1>7, FlashCalls

LEMMA VerifyKeeps ==
  ASSUME CellsInv, IInv', Sdf, Calls("verify"), NEW data, Called("verify", sdf_page_verify(dev.s, 0, 0, data))
  PROVE  CellsInv'
<1>0. /\ writer \in WriterRequests /\ reader \in ReaderRequests /\ IsCells(content) /\ IsDev(dev) /\ dev.ptMethod = "SDF"
      /\ Shared(page, dev, writer, reader, rival.op = "verify", BaseOf(dev, content)) /\ Rivals(dev, rival)
  BY DEF CellsInv, IInv, Sound, Sdf
<1>1. PICK x : x = sdf_page_verify(dev.s, 0, 0, data)
  OBVIOUS
<1>2. rival.op \in {"verify", Idle} /\ PagesRest(page)
  BY DEF Calls, Startable, CellsInv, PageIdle, PagesRest
<1>3. PICK c : c = BaseOf(dev, content)
  OBVIOUS
<1>4. Work(dev.s, "verify", 0, <<>>, c)
  <2>1. Does(dev, "verify", 0, <<>>, c) \/ Does(dev, "none", 0, <<>>, c)
    BY <1>0, <1>2, <1>3 DEF Shared
  <2>2. Does(dev, "verify", 0, <<>>, c)
    BY <2>1, DoesBegin
  <2>. QED
    BY <1>0, <2>2 DEF Does
<1>5. Work(x.s, "verify", 0, <<>>, c) /\ Others(dev.s, x.s) /\ (x.r \notin {"on_going", "busy"} => x.s.read = "start")
  BY <1>1, <1>4, VerifyWorks
<1>6. /\ page' = page /\ writer' = writer /\ reader' = reader /\ dev' = Moved(dev, x)
      /\ rival'.op = IF x.r \in {"on_going", "busy"} THEN "verify" ELSE Idle
      /\ content' = content
  <2>1. PICK op : op = "verify"
    OBVIOUS
  <2>2. Called(op, x)
    BY <1>1, <2>1
  <2>3. /\ page' = page /\ writer' = writer /\ reader' = reader /\ dev' = Moved(dev, x)
        /\ rival'.op = IF x.r \in {"on_going", "busy"} THEN op ELSE Idle
        /\ content' = IF op = "erase" /\ x.r = "cpl" THEN Blank ELSE content
    BY <2>2, CalledIs
  <2>. QED
    BY <2>1, <2>3
<1>7. dev'.s = x.s /\ dev'.ptMethod = "SDF"
  BY <1>0, <1>6, MovedIs
<1>8. dev.s.did = "start" /\ dev.s.uid = "start" /\ dev.s.chip = "start"
  BY <1>2, OtherMachines
<1>9. x.s.did = "start" /\ x.s.uid = "start" /\ x.s.chip = "start"
  BY <1>5, <1>8 DEF Others
<1>a. Rivals(dev', rival') /\ rival'.op # "erase"
  BY <1>6, <1>7, <1>9 DEF Rivals, Idle
<1>b. BaseOf(dev', content') = c
  BY <1>0, <1>3, <1>6, <1>7, <1>8, <1>9 DEF BaseOf
<1>c. PICK u : u = (rival'.op = "verify")
  OBVIOUS
<1>d. Does(dev', IF u THEN "verify" ELSE "none", 0, <<>>, c)
  <2>1. CASE u
    BY <1>5, <1>7, <2>1 DEF Does
  <2>2. CASE ~u
    <3>1. x.s.read = "start"
      BY <1>5, <1>6, <1>c, <2>2
    <3>2. x.s.write = "start" /\ x.s.erase = "start"
      BY <1>5 DEF Work
    <3>3. Work(x.s, "none", 0, <<>>, c)
      BY <1>5, <3>1, <3>2, WorkRests, RestsWorks
    <3>. QED
      BY <1>7, <2>2, <3>3 DEF Does
  <2>. QED
    BY <2>1, <2>2
<1>e. Shared(page, dev', writer, reader, u, c)
  BY <1>0, <1>2, <1>d DEF Shared, PagesRest
<1>. QED
  BY <1>0, <1>2, <1>6, <1>a, <1>b, <1>c, <1>e DEF CellsInv

\* A step after which the memory holds all it should, under a request that has not touched it.
LEMMA ReadyKeeps ==
  ASSUME CellsInv, IInv', page' = page, writer' = writer, reader' = reader, Waiting(page, writer, reader), IsCells(content'),
         Ready(dev', BaseOf(dev', content')), Rivals(dev', rival'), Sdf' => rival'.op # "verify"
  PROVE  CellsInv'
<1>1. /\ IsRequest(writer) /\ IsRequest(reader) /\ writer \in WriterRequests /\ reader \in ReaderRequests
      /\ Shared(page, dev, writer, reader, rival.op = "verify", BaseOf(dev, content))
  BY WriterIs, ReaderIs DEF CellsInv
<1>2. PICK b, u, v, c : /\ b = BaseOf(dev', content') /\ u = (rival'.op = "verify")
                        /\ v = (rival.op = "verify") /\ c = BaseOf(dev, content)
  OBVIOUS
<1>3. IsCells(b) /\ Ready(dev', b)
  BY <1>2, BaseCells
<1>4. Shared(page, dev, writer, reader, v, c)
  BY <1>1, <1>2
<1>5. Shared(page, dev', writer, reader, u, b)
  <2>1. IsRequest(writer) /\ IsRequest(reader)
    BY <1>1
  <2>. QED
    BY <1>3, <1>4, <2>1, ReadyShared
<1>. QED
  BY <1>1, <1>2, <1>5 DEF CellsInv

LEMMA ChipEraseKeeps ==
  ASSUME CellsInv, IInv', Sdf, Calls("erase"), Called("erase", sdf_chip_erase(dev.s))
  PROVE  CellsInv'
<1>0. /\ writer \in WriterRequests /\ reader \in ReaderRequests /\ IsCells(content) /\ IsDev(dev) /\ dev.ptMethod = "SDF"
      /\ Shared(page, dev, writer, reader, rival.op = "verify", BaseOf(dev, content)) /\ Rivals(dev, rival)
      /\ DriverInv(dev.s)
  BY DEF CellsInv, IInv, Sound, Sdf
<1>1. PICK x : x = sdf_chip_erase(dev.s)
  OBVIOUS
<1>2. rival.op \in {"erase", Idle} /\ (rival.op = Idle => dev.s.state # "not_ready" /\ PagesRest(page))
  BY DEF Calls, Startable, PageIdle, PagesRest, Idle
<1>3. PICK c : c = BaseOf(dev, content) /\ IsCells(c)
  BY <1>0, BaseCells
<1>4. Waiting(page, writer, reader)
  BY <1>2 DEF CellsInv, Waiting, PagesRest
<1>8. dev.s.did = "start" /\ dev.s.uid = "start" /\ (rival.op = Idle => dev.s.chip = "start")
      /\ (rival.op = "erase" => dev.s.chip # "start")
  BY <1>0, <1>2, OtherMachines DEF Rivals, Held, Idle
<1>5. Rests(dev.s, c)
  <2>1. CASE rival.op = "erase"
    <3>1. \E f, k, d : Does(dev, f, k, d, c)
      <4>1. IsRequest(writer)
        BY <1>0, WriterIs
      <4>2. PICK v : Shared(page, dev, writer, reader, v, c)
        BY <1>0, <1>3
      <4>. QED
        BY <1>3, <1>4, <4>1, <4>2, WaitingDoes
    <3>2. PICK f, k, d : Work(dev.s, f, k, d, c)
      BY <1>0, <3>1 DEF Does
    <3>3. dev.s.read = "start" /\ dev.s.erase = "start" /\ dev.s.write = "start"
      BY <1>0, <1>8, <2>1, HeldIs
    <3>. QED
      BY <3>2, <3>3, WorkRests
  <2>2. CASE rival.op = Idle
    <3>1. Does(dev, "none", 0, <<>>, c)
      BY <1>0, <1>2, <1>3, <2>2 DEF Shared, Idle
    <3>2. Work(dev.s, "none", 0, <<>>, c)
      BY <1>0, <3>1 DEF Does
    <3>3. dev.s.read = "start" /\ dev.s.erase = "start" /\ dev.s.write = "start"
      BY <3>2 DEF Work
    <3>. QED
      BY <3>2, <3>3, WorkRests
  <2>. QED
    BY <1>2, <2>1, <2>2
<1>6. dev.s.chip = "start" => dev.s.state = "idle"
  <2>1. ASSUME dev.s.chip = "start", dev.s.state = "busy" PROVE FALSE
    <3>1. \A g \in Operations : dev.s[g] = "start"
      BY <1>5, <1>8, <2>1 DEF Rests, Operations
    <3>2. PICK f \in Operations : Only(dev.s, f) /\ At(dev.s, f)
      BY <1>0, <2>1 DEF DriverInv
    <3>3. dev.s[f] = "start"
      BY <3>1
    <3>. QED
      BY <3>2, <3>3 DEF At, Reading, Erasing
  <2>2. dev.s.state \in {"not_ready", "idle", "busy"}
    BY <1>0 DEF DriverInv
  <2>3. dev.s.chip = "start" => rival.op = Idle
    BY <1>2, <1>8
  <2>. QED
    BY <1>2, <2>1, <2>2, <2>3
<1>7. /\ x.s.did = dev.s.did /\ x.s.uid = dev.s.uid
      /\ \/ dev.s.chip = "start" /\ x.s.chip = "command" /\ x.r = "on_going" /\ Rests(x.s, c)
         \/ dev.s.chip = "command" /\ x.s.chip = "ready" /\ x.r = "on_going" /\ Rests(x.s, Blank)
         \/ dev.s.chip = "ready" /\ x.s.chip = "start" /\ x.r = "cpl" /\ Rests(x.s, c)
         \/ dev.s.chip = "ready" /\ x.s.chip = "ready" /\ x.r = "on_going" /\ Rests(x.s, c)
  <2>1. IsCells(c)
    BY <1>3
  <2>. QED
    BY <1>1, <1>5, <1>6, <2>1, ChipEraseWorks
<1>9. /\ page' = page /\ writer' = writer /\ reader' = reader /\ dev' = Moved(dev, x)
      /\ rival'.op = IF x.r \in {"on_going", "busy"} THEN "erase" ELSE Idle
      /\ content' = IF x.r = "cpl" THEN Blank ELSE content
  BY <1>1, CalledIs
<1>a. dev'.s = x.s /\ dev'.ptMethod = "SDF"
  BY <1>0, <1>9, MovedIs
<1>b. Rivals(dev', rival') /\ rival'.op # "verify"
  BY <1>7, <1>8, <1>9, <1>a DEF Rivals, Held, Idle
<1>c. IsCells(content') /\ Rests(dev'.s, BaseOf(dev', content'))
  <2>1. IsCells(Blank)
    BY DEF IsCells, Blank
  <2>. QED
    BY <1>0, <1>3, <1>7, <1>9, <1>a, <2>1 DEF BaseOf
<1>d. Ready(dev', BaseOf(dev', content'))
  BY <1>a, <1>c, RestsReady
<1>. QED
  BY <1>4, <1>9, <1>b, <1>c, <1>d, ReadyKeeps

LEMMA ChipKeeps == ASSUME CellsInv, IInv', Chip PROVE CellsInv'
<1>0. IsDev(dev) /\ dev.ptMethod = "SDF" /\ Rivals(dev, rival) /\ dev.s.chipBusy
  BY DEF CellsInv, IInv, Sound, Sdf, Chip
<1>1. PICK x : x = [s |-> ChipDone(dev.s), r |-> "cpl"]
  OBVIOUS
<1>2. x.s = ChipDone(dev.s)
  BY <1>1
<1>3. dev' = Moved(dev, x) /\ page' = page /\ writer' = writer /\ reader' = reader /\ content' = content /\ rival' = rival
  BY <1>2 DEF Chip, Moved
<1>4. ASSUME NEW f, NEW p, NEW d, NEW c, Work(dev.s, f, p, d, c) PROVE Work(x.s, f, p, d, c) /\ Others(dev.s, x.s)
  BY <1>0, <1>2, <1>4, DoneWorks
<1>5. Others(dev.s, x.s)
  <2>1. \E f, p, d, c : Work(dev.s, f, p, d, c)
    BY CellsWork DEF Chip
  <2>. QED
    BY <1>4, <2>1
<1>6. dev'.s = x.s /\ dev'.ptMethod = "SDF"
  BY <1>0, <1>3, MovedIs
<1>7. CASE rival.op # "verify"
  <2>1. Serves(dev, dev')
    BY <1>0, <1>3, <1>4, FlashServes
  <2>2. Rivals(dev', rival') /\ dev'.s.chip = dev.s.chip
    BY <1>0, <1>3, <1>5, <1>6 DEF Rivals, Others, Held
  <2>3. rival'.op = "erase" => Waiting(page, writer, reader)
    BY <1>3 DEF CellsInv
  <2>. QED
    BY <1>3, <1>7, <2>1, <2>2, <2>3, ServesKeeps
<1>8. CASE rival.op = "verify"
  <2>1. PICK v, c : /\ v = (rival.op = "verify") /\ c = BaseOf(dev, content)
                    /\ Shared(page, dev, writer, reader, v, c)
    BY DEF CellsInv
  <2>2. Serves(dev, dev')
    BY <1>0, <1>3, <1>4, FlashServes
  <2>3. Shared(page, dev', writer, reader, v, c)
    BY <2>1, <2>2, ServesShared
  <2>4. Rivals(dev', rival') /\ BaseOf(dev', content) = c
    BY <1>0, <1>3, <1>5, <1>6, <2>1 DEF Rivals, Others, Held, BaseOf
  <2>. QED
    BY <1>3, <1>8, <2>1, <2>3, <2>4 DEF CellsInv, Chip
<1>. QED
  BY <1>7, <1>8

\* A call of the rival's on the RAM adapter.
LEMMA RamCalls ==
  ASSUME CellsInv, IInv', ~Sdf, page' = page, writer' = writer, reader' = reader, content' = content, NEW x,
         dev' = Moved(dev, x), \A c : SramHas(dev.s, c) => SramHas(x.s, c),
         rival'.op \in {"verify", "erase"} => rival'.inside, rival'.inside => x.s.state = "busy",
         rival'.op = "erase" => PagesRest(page)
  PROVE  CellsInv'
<1>0. IsDev(dev) /\ dev.ptMethod = "SRAM"
  BY DEF CellsInv, IInv, Sound, Sdf, IsDev
<1>1. dev'.s = x.s /\ dev'.ptMethod = "SRAM"
  BY <1>0, MovedIs
<1>2. Serves(dev, dev')
  BY <1>0, RamServes
<1>3. Rivals(dev', rival')
  BY <1>1 DEF Rivals, Held
<1>4. rival'.op = "erase" => Waiting(page, writer, reader)
  BY DEF PagesRest, Waiting
<1>. QED
  BY <1>2, <1>3, <1>4, ServesKeeps

LEMMA OpenIs == ASSUME NEW s, NEW c, SramHas(s, c)
                PROVE  SramHas(Ram!sram_open(s).s, c) /\ SramHas(Ram!sram_close(s).s, c) /\ SramHas(Ram!sram_finish(s).s, c)
  BY DEF SramHas, States, Ram!sram_open, Ram!sram_close, Ram!sram_finish, Ram!Answer

LEMMA RamLife == ASSUME CellsInv, IInv', ~Sdf, NEW op \in {"init", "finish", "close"}, NEW x, Called(op, x),
                        \A c : SramHas(dev.s, c) => SramHas(x.s, c)
                 PROVE  CellsInv'
<1>1. /\ page' = page /\ writer' = writer /\ reader' = reader /\ dev' = Moved(dev, x) /\ content' = content
      /\ rival'.op \in {op, Idle} /\ rival'.inside = FALSE
  BY CalledIs
<1>2. rival'.op \notin {"verify", "erase"} /\ ~rival'.inside
  BY <1>1 DEF Idle
<1>. QED
  BY <1>1, <1>2, RamCalls

LEMMA CellsRam == ASSUME CellsInv, ~Sdf PROVE \E c : SramHas(dev.s, c)
<1>0. IsPage(page) /\ dev.ptMethod # "SDF"
  BY DEF CellsInv, IInv, Sdf
<1>1. \E f, k, d, b : Does(dev, f, k, d, b)
  BY CellsDoes
<1>. QED
  BY <1>0, <1>1 DEF Does

LEMMA ClaimKeeps == ASSUME CellsInv, IInv', ~Sdf, NEW op \in {"verify", "erase"}, RivalClaims(op) PROVE CellsInv'
<1>0. dev.ptMethod = "SRAM" /\ Rivals(dev, rival) /\ \E c : SramHas(dev.s, c)
  <2>1. IsPage(page) /\ dev.ptMethod = "SRAM" /\ Rivals(dev, rival)
    BY DEF CellsInv, IInv, Sound, Sdf, IsDev
  <2>. QED
    BY <2>1, CellsRam
<1>1. PICK x : x = Ram!Enter(dev.s)
  OBVIOUS
<1>2. /\ x.r = "cpl" /\ dev' = Moved(dev, x) /\ page' = page /\ writer' = writer /\ reader' = reader /\ content' = content
      /\ rival'.op = op /\ rival'.inside = TRUE
  BY <1>1 DEF RivalClaims, Moved
<1>3. dev.s.state = "idle"
  <2>1. PICK c : SramHas(dev.s, c)
    BY <1>0
  <2>2. dev.s.state # "idle" => IsErr(x.r)
    BY <1>1, <2>1, EnterIs
  <2>. QED
    BY <1>2, <2>2 DEF IsErr
<1>4. \A c : SramHas(dev.s, c) => SramHas(x.s, c) /\ x.s.state = "busy"
  BY <1>1, <1>3, EnterIs
<1>5. op = "erase" => PagesRest(page)
  <2>1. rival.op # op
    BY <1>0, <1>3 DEF Rivals
  <2>. QED
    BY <2>1 DEF RivalClaims, Calls, Startable, PageIdle, PagesRest
<1>. QED
  BY <1>0, <1>2, <1>4, <1>5, RamCalls

LEMMA SramVerified == ASSUME CellsInv, IInv', ~Sdf, NEW data, RivalEnds("verify", Ram!VerifyWork(dev.s, 0, 0, data)) PROVE CellsInv'
<1>1. PICK x : x = [Ram!VerifyWork(dev.s, 0, 0, data) EXCEPT !.s = Ram!Leave(@)]
  OBVIOUS
<1>2. x.s = Ram!Leave(dev.s) /\ x.r \in {"cpl", "err"}
  BY <1>1 DEF Ram!VerifyWork, Ram!Answer
<1>3. Called("verify", x)
  BY <1>1 DEF RivalEnds
<1>4. /\ page' = page /\ writer' = writer /\ reader' = reader /\ dev' = Moved(dev, x) /\ content' = content
      /\ rival'.op = Idle /\ rival'.inside = FALSE
  <2>1. PICK op : op = "verify"
    OBVIOUS
  <2>2. Called(op, x)
    BY <1>3, <2>1
  <2>3. /\ page' = page /\ writer' = writer /\ reader' = reader /\ dev' = Moved(dev, x)
        /\ rival'.op = IF x.r \in {"on_going", "busy"} THEN op ELSE Idle
        /\ rival'.inside = FALSE
        /\ content' = IF op = "erase" /\ x.r = "cpl" THEN Blank ELSE content
    BY <2>2, CalledIs
  <2>. QED
    BY <1>2, <2>1, <2>3
<1>5. rival'.op \notin {"verify", "erase"} /\ ~rival'.inside
  BY <1>4 DEF Idle
<1>6. \A c : SramHas(dev.s, c) => SramHas(x.s, c)
  BY <1>2, LeaveIs
<1>. QED
  BY <1>4, <1>5, <1>6, RamCalls

LEMMA SramErased == ASSUME CellsInv, IInv', ~Sdf, RivalEnds("erase", Ram!ChipEraseWork(dev.s)) PROVE CellsInv'
<1>0. dev.ptMethod = "SRAM" /\ IsDev(dev) /\ IsCells(content) /\ SramHas(dev.s, dev.s.cells) /\ DOMAIN dev.s.cells = Addresses
      /\ Waiting(page, writer, reader)
  <2>1. IsDev(dev) /\ dev.ptMethod = "SRAM" /\ IsCells(content)
    BY DEF CellsInv, IInv, Sound, Sdf, IsDev
  <2>2. Waiting(page, writer, reader)
    BY DEF CellsInv, RivalEnds
  <2>3. PICK v, c : Shared(page, dev, writer, reader, v, c) /\ c = content
    BY <2>1 DEF CellsInv, BaseOf
  <2>4. PICK f, k, d : Does(dev, f, k, d, c)
    <3>1. IsRequest(writer) /\ IsCells(c)
      BY <2>1, <2>3, WriterIs DEF CellsInv
    <3>. QED
      BY <2>2, <2>3, <3>1, WaitingDoes
  <2>5. SramHas(dev.s, c) /\ dev.s.cells = content
    BY <2>1, <2>3, <2>4 DEF Does, SramHas
  <2>6. DOMAIN content = Addresses
    BY <2>1, Zenon DEF IsCells
  <2>. QED
    BY <2>1, <2>2, <2>3, <2>5, <2>6
<1>1. PICK x : x = [Ram!ChipEraseWork(dev.s) EXCEPT !.s = Ram!Leave(@)]
  OBVIOUS
<1>2. PICK t : t = [dev.s EXCEPT !.cells = [c \in DOMAIN @ |-> ERASED]]
  OBVIOUS
<1>3. x.s = Ram!Leave(t) /\ x.r = "cpl"
  BY <1>1, <1>2 DEF Ram!ChipEraseWork, Ram!Answer
<1>4. SramHas(t, Blank)
  BY <1>0, <1>2 DEF SramHas, Blank
<1>5. SramHas(x.s, Blank)
  BY <1>3, <1>4, LeaveIs
<1>6. Called("erase", x)
  BY <1>1 DEF RivalEnds
<1>7. /\ page' = page /\ writer' = writer /\ reader' = reader /\ dev' = Moved(dev, x) /\ content' = Blank
      /\ rival'.op = Idle /\ rival'.inside = FALSE
  BY <1>3, <1>6, CalledIs
<1>8. dev'.s = x.s /\ dev'.ptMethod = "SRAM"
  BY <1>0, <1>7, MovedIs
<1>9. Rivals(dev', rival') /\ BaseOf(dev', content') = Blank /\ ~Sdf'
  BY <1>7, <1>8 DEF Rivals, BaseOf, Sdf, Idle
<1>a. Ready(dev', BaseOf(dev', content')) /\ IsCells(content')
  <2>1. IsCells(Blank)
    BY DEF IsCells, Blank
  <2>2. Ready(dev', Blank)
    BY <1>5, <1>8, SramReady
  <2>. QED
    BY <1>7, <1>9, <2>1, <2>2
<1>b. page' = page /\ writer' = writer /\ reader' = reader /\ Rivals(dev', rival') /\ (Sdf' => rival'.op # "verify")
  BY <1>7, <1>9
<1>. QED
  BY <1>0, <1>a, <1>b, ReadyKeeps

LEMMA NextCells == CellsInv /\ [Next]_vars => CellsInv'
<1>. SUFFICES ASSUME CellsInv, [Next]_vars PROVE CellsInv'
  OBVIOUS
<1>0. IInv'
  BY NextInv DEF CellsInv
<1>1. CASE Write
  BY <1>0, <1>1, WriterCalls
<1>2. CASE ReadMemory
  BY <1>0, <1>2, ReaderCalls
<1>3. CASE RivalFlash
  <2>1. ASSUME Sdf, Calls("init"), NEW spi \in BOOLEAN, NEW open \in {"cpl", "on_going", "err"},
               NEW hwID \in {0, 1},
               Called("init", sdf_init(dev.s, spi, open, hwID))
        PROVE  CellsInv'
    BY <1>0, <2>1, InitKeeps
  <2>2. ASSUME Sdf, Calls("finish"), dev.s.state = "idle", NEW close \in {"cpl", "on_going"},
               Called("finish", sdf_finish(dev.s, close))
        PROVE  CellsInv'
    BY <1>0, <2>2, FinishKeeps
  <2>3. ASSUME Sdf, Calls("device_ID"), Called("device_ID", fsm_sdf_read_device_ID(dev.s)) PROVE CellsInv'
    BY <1>0, <2>3, DeviceKeeps
  <2>4. ASSUME Sdf, Calls("unique_ID"), Called("unique_ID", fsm_sdf_read_unique_ID(dev.s)) PROVE CellsInv'
    BY <1>0, <2>4, UniqueKeeps
  <2>5. ASSUME Sdf, Calls("verify"), NEW data, Called("verify", sdf_page_verify(dev.s, 0, 0, data)) PROVE CellsInv'
    BY <1>0, <2>5, VerifyKeeps
  <2>6. ASSUME Sdf, Calls("erase"), Called("erase", sdf_chip_erase(dev.s)) PROVE CellsInv'
    BY <1>0, <2>6, ChipEraseKeeps
  <2>. QED
    BY <1>3, <2>1, <2>2, <2>3, <2>4, <2>5, <2>6 DEF RivalFlash
<1>4. CASE RivalRam
  <2>0. ~Sdf
    BY <1>4 DEF RivalRam
  <2>1. ASSUME NEW op \in {"init", "finish", "close"}, NEW x, Called(op, x),
               x \in {Ram!sram_open(dev.s), Ram!sram_finish(dev.s), Ram!sram_close(dev.s)}
        PROVE  CellsInv'
    <3>1. \A c : SramHas(dev.s, c) => SramHas(x.s, c)
      BY <2>1, OpenIs
    <3>. QED
      BY <1>0, <2>0, <2>1, <3>1, RamLife
  <2>2. ASSUME NEW op \in {"verify", "erase"}, RivalClaims(op) PROVE CellsInv'
    BY <1>0, <2>0, <2>2, ClaimKeeps
  <2>3. ASSUME NEW data, RivalEnds("verify", Ram!VerifyWork(dev.s, 0, 0, data)) PROVE CellsInv'
    BY <1>0, <2>0, <2>3, SramVerified
  <2>4. ASSUME RivalEnds("erase", Ram!ChipEraseWork(dev.s)) PROVE CellsInv'
    BY <1>0, <2>0, <2>4, SramErased
  <2>. QED
    BY <1>4, <2>1, <2>2, <2>3, <2>4 DEF RivalRam
<1>5. CASE Chip
  BY <1>0, <1>5, ChipKeeps
<1>6. CASE UNCHANGED vars
  BY <1>0, <1>6 DEF vars, CellsInv, Sdf, BaseOf, Shared, Rivals, Waiting, Writing, WriterAt, Getting, ReaderAt, PagesRest
<1>. QED
  BY <1>1, <1>2, <1>3, <1>4, <1>5, <1>6 DEF Next

LEMMA InitCells == Init => CellsInv
<1>. SUFFICES ASSUME Init PROVE CellsInv
  OBVIOUS
<1>1. IInv
  BY InitInv
<1>2. writer \in WriterRequests
  <2>1. PICK w \in Writes : writer = [a |-> w[1], size |-> w[2], null |-> w[3], todo |-> TRUE]
    BY DEF Init
  <2>2. w \in Nat \X Nat \X BOOLEAN
    BY MemoryAssumption
  <2>. QED
    BY <2>1, <2>2 DEF WriterRequests
<1>3. reader \in ReaderRequests
  <2>1. PICK q \in Reads : reader = [a |-> q[1], size |-> q[2], todo |-> TRUE]
    BY DEF Init
  <2>2. q \in Nat \X Nat
    BY MemoryAssumption
  <2>. QED
    BY <2>1, <2>2 DEF ReaderRequests
<1>4. IsCells(content)
  BY DEF Init, IsCells
<1>5. rival.op = Idle /\ rival.inside = FALSE /\ PagesRest(page) /\ ~page.locked
  BY DEF Init, page_init, PagesRest
<1>6. Rivals(dev, rival) /\ BaseOf(dev, content) = content /\ Ready(dev, content)
  <2>1. CASE dev = [ptMethod |-> "SRAM", s |-> Ram!SramInit(content)]
    <3>1. SramHas(dev.s, content) /\ dev.ptMethod = "SRAM"
      BY <2>1 DEF Ram!SramInit, SramHas, States
    <3>2. Ready(dev, content)
      BY <3>1, SramReady
    <3>. QED
      BY <1>5, <3>1, <3>2 DEF Rivals, BaseOf, Idle
  <2>2. ASSUME NEW wel \in BOOLEAN, NEW busy \in BOOLEAN, dev = [ptMethod |-> "SDF", s |-> FlashInit(content, wel, busy)]
        PROVE  Rivals(dev, rival) /\ BaseOf(dev, content) = content /\ Ready(dev, content)
    <3>1. dev.ptMethod = "SDF" /\ dev.s = FlashInit(content, wel, busy)
      BY <2>2
    <3>2. DriverInv(dev.s)
      BY <1>1, <3>1 DEF IInv, Sound
    <3>3. dev.s.state = "not_ready" /\ dev.s.did = "start" /\ dev.s.uid = "start" /\ dev.s.chip = "start" /\ dev.s.cells = content
      BY <3>1 DEF FlashInit
    <3>4. Rests(dev.s, content)
      BY <3>2, <3>3, QuietRests
    <3>5. Ready(dev, content)
      BY <3>1, <3>4, RestsReady
    <3>. QED
      BY <1>5, <3>1, <3>3, <3>5 DEF Rivals, BaseOf, Idle
  <2>. QED
    BY <2>1, <2>2 DEF Init
<1>7. Shared(page, dev, writer, reader, rival.op = "verify", content)
  BY <1>5, <1>6 DEF Shared, Ready, PagesRest
<1>. QED
  BY <1>1, <1>2, <1>3, <1>4, <1>5, <1>6, <1>7 DEF CellsInv, Idle

LEMMA InvStored == CellsInv => StoredAsWritten
<1>. SUFFICES ASSUME CellsInv, page.chFSMWrite = "start", rival.op # "erase" PROVE dev.s.cells = content
  BY DEF StoredAsWritten, Changing
<1>1. /\ IsPage(page) /\ IsDev(dev) /\ Rivals(dev, rival)
      /\ Shared(page, dev, writer, reader, rival.op = "verify", BaseOf(dev, content))
  BY DEF CellsInv, IInv, Sound
<1>2. PICK v, c : v = (rival.op = "verify") /\ c = BaseOf(dev, content)
  OBVIOUS
<1>3. Shared(page, dev, writer, reader, v, c)
  BY <1>1, <1>2
<1>4. dev.s.cells = c
  BY <1>1, <1>3, UnwrittenCells
<1>. QED
  BY <1>1, <1>2, <1>4, BaseIs

\* While no write or erase is under way the memory holds, cell by cell, what the completed requests put there
\* (service/memory/page/page.c over mal/sdf_w25qxxx and mal/sram): a request that begins and ends inside a page, or
\* spans several, changes its range and nothing else, at whatever calls the memory refused, whenever the chip ended
\* its work, and whatever the rival did between two calls.
THEOREM Stored == Spec => []StoredAsWritten
<1>1. Init => CellsInv
  BY InitCells
<1>2. CellsInv /\ [Next]_vars => CellsInv'
  BY NextCells
<1>3. CellsInv => StoredAsWritten
  BY InvStored
<1>. QED
  BY <1>1, <1>2, <1>3, PTL DEF Spec

\* Only the reader's calls end its request.
LEMMA ReaderStays == Write \/ RivalFlash \/ RivalRam \/ Chip => reader' = reader
<1>1. ASSUME NEW op, NEW x, Called(op, x) PROVE reader' = reader
  BY <1>1, CalledIs
<1>2. ASSUME RivalFlash PROVE reader' = reader
  BY <1>1, <1>2 DEF RivalFlash
<1>3. ASSUME RivalRam PROVE reader' = reader
  BY <1>1, <1>3 DEF RivalRam, RivalClaims, RivalEnds
<1>. QED
  BY <1>2, <1>3 DEF Write, Chip

\* A read that completes returned what the memory held (read_memory_disregard_page() in page.c), piece by piece from
\* as many pages as it spans, however long the other tasks kept it waiting between two of them.
THEOREM Returns == Spec => ReadReturnsContent
<1>. DEFINE Step == reader.todo /\ ~reader'.todo /\ reader.size > 0 => page'.stream = Window(reader.a, reader.size)
<1>1. Init => CellsInv
  BY InitCells
<1>2. CellsInv /\ [Next]_vars => CellsInv'
  BY NextCells
<1>3. CellsInv /\ [Next]_vars => [Step]_vars
  <2>. SUFFICES ASSUME CellsInv, Next, reader.todo, ~reader'.todo, reader.size > 0
                PROVE  page'.stream = Window(reader.a, reader.size)
    BY DEF Step
  <2>1. CASE ReadMemory
    <3>1. IInv'
      BY NextInv DEF CellsInv
    <3>. QED
      BY <2>1, <3>1, ReaderCalls
  <2>2. CASE ~ReadMemory
    <3>1. reader' = reader
      BY <2>2, ReaderStays DEF Next
    <3>. QED
      BY <3>1
  <2>. QED
    BY <2>1, <2>2
<1>. HIDE DEF Step
<1>4. Spec => [][Step]_vars
  BY <1>1, <1>2, <1>3, PTL DEF Spec
<1>5. [][Step]_vars => ReadReturnsContent
  BY DEF Step, ReadReturnsContent
<1>. QED
  BY <1>4, <1>5
=============================================================================
