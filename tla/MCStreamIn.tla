------------------------------ MODULE MCStreamIn ------------------------------
(* Instances of StreamIn for TLC. *)
EXTENDS StreamIn

Port(reserved, gap, timeout, enabled, quiet) ==
    [chReservedBlock |-> reserved, chBlockReservedSize |-> gap,
     Timeout |-> timeout, EnabledAtInit |-> enabled, QuietStart |-> quiet]

(* The timeout disabled; a reserve and a gap; the timeout in use.  In      *)
(* these the receive interrupt is enabled by the first request_read only.  *)
(* In the last the platform has it enabled, and bytes come before the      *)
(* first read, but not while the first block is being set up.              *)
MCConfigs == {Port(0, 0, 0, FALSE, FALSE), Port(1, 1, 0, FALSE, FALSE),
              Port(0, 0, 2, FALSE, FALSE), Port(0, 0, 2, TRUE, TRUE)}

================================================================================
