---------------------------- MODULE BoundedRetry ----------------------------
(***************************************************************************)
(* What every retry loop of the repository promises its caller: attempts   *)
(* are made one after the other, never more than MaxAttempts of them, and  *)
(* the outcome of the call, once known, is final.                          *)
(***************************************************************************)
EXTENDS Naturals

CONSTANT MaxAttempts

VARIABLES attempt, outcome

vars == <<attempt, outcome>>

Init ==
    /\ attempt = 1
    /\ outcome = "trying"

Again ==
    /\ outcome = "trying"
    /\ attempt < MaxAttempts
    /\ attempt' = attempt + 1
    /\ UNCHANGED outcome

Finish ==
    /\ outcome = "trying"
    /\ outcome' \in {"ok", "failed"}
    /\ UNCHANGED attempt

Next == Again \/ Finish

Spec == Init /\ [][Next]_vars
=============================================================================
