------------------------------ MODULE MCScheduler ------------------------------
(* Instances of Scheduler for TLC. *)
EXTENDS Scheduler

Use(manual, waiters, isr) ==
    [bManualReset |-> manual, MaxWaiters |-> waiters, IsrSets |-> isr]

(* One task at a time waits for the event, which tasks set, and handlers   *)
(* if they like.                                                           *)
MCConfigs == {Use(manual, 1, TRUE) : manual \in BOOLEAN}

================================================================================
