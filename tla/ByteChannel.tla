------------------------------ MODULE ByteChannel ------------------------------
(***************************************************************************)
(* What a stream buffer promises to the two ends of a byte stream: the     *)
(* bytes the writer got accepted reach the reader once each, unchanged and *)
(* in the order of acceptance.  Both stream directions of                  *)
(* service/memory/stream2block are shown to implement it.                  *)
(***************************************************************************)
EXTENDS Naturals, Sequences

CONSTANT Byte       \* the bytes that may travel

VARIABLES written,   \* every byte accepted so far
          delivered  \* every byte handed over so far

vars == <<written, delivered>>

TypeOK == /\ written \in Seq(Byte)
          /\ delivered \in Seq(Byte)

Init == /\ written = <<>>
        /\ delivered = <<>>

(* The writer's call accepts one or more bytes at once. *)
Accept == /\ \E n \in 1..Len(written') :
               SubSeq(written', 1, Len(written') - n) = written
          /\ UNCHANGED delivered

(* The next undelivered bytes, one or more, and only these, are handed     *)
(* over.                                                                   *)
Deliver == /\ \E n \in 1..Len(written) - Len(delivered) :
                 delivered' = delivered \o
                     SubSeq(written, Len(delivered) + 1, Len(delivered) + n)
           /\ UNCHANGED written

Next == Accept \/ Deliver

Spec == Init /\ [][Next]_vars
================================================================================
