------------------------------ MODULE MCStreamOut ------------------------------
(* Instances of StreamOut for TLC. *)
EXTENDS StreamOut

Plain(reserved, limit, gap) ==
    [chReservedBlock |-> reserved, chBlockLimit |-> limit,
     chBlockReservedSize |-> gap, MaxHeld |-> 0, MinHeldSize |-> 1]

(* Plain writing and flushing; a reserve; limits below the number of       *)
(* blocks, of two so that a block comes back while another is counted;     *)
(* user blocks, at least one byte each, or possibly empty.                 *)
MCConfigs == {Plain(0, 0, 0), Plain(1, 0, 0), Plain(0, 1, 1), Plain(0, 2, 0),
              [Plain(0, 0, 0) EXCEPT !.MaxHeld = 1],
              [Plain(0, 0, 1) EXCEPT !.MaxHeld = 1, !.MinHeldSize = 0]}
================================================================================
