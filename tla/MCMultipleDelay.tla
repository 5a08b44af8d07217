---------------------------- MODULE MCMultipleDelay ----------------------------
(* Instances of MultipleDelay for TLC. *)
EXTENDS MultipleDelay

(* An item is cancelled only while it is on one of the delay lists. *)
MCConfigs == {[Uses |-> uses, CancelsPending |-> FALSE] :
                  uses \in {{"HIGH", "NORMAL"}, {"NORMAL", "LOW"}}}

================================================================================
