------------------------------- MODULE Outside -------------------------------
(***************************************************************************)
(* What the parts that ask others share: requests and scenes (Asking),     *)
(* what may go wrong, once each, and a clock.                              *)
(***************************************************************************)
EXTENDS Asking

VARIABLES
    harm,     \* what may still go wrong
    clock

Daily == "daily"   \* the nightly task, which nobody hangs up on
ASSUME DailyApart == Daily \notin Requests

Goes(what) == what \in harm /\ harm' = harm \ {what}
=============================================================================
