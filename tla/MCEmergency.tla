---------------------------- MODULE MCEmergency ----------------------------
(* EmergencyAccess on small instances.                                     *)
EXTENDS EmergencyAccess

(* A contact that has asked already: what happens after that would        *)
(* otherwise need the way there in every behaviour.                        *)
AskedInit ==
    /\ access = [status |-> "asked", id |-> 1, revision |-> 4, kind |-> "takeover",
                 wait |-> 2, key |-> 2, asked |-> 1, notified |-> 1]
    /\ saves = 4 /\ userKey = 2 /\ now = 1
    /\ handler = [h \in Requests |-> Idle]
    /\ asking = 1 /\ askedAt = 1 /\ refused = 0 /\ granted = 0 /\ mailed = 1 /\ takenOver = 0

(* Or one that is not there yet, up to its confirmation.                   *)
EitherInit ==
    \/ AskedInit
    \/ /\ access = Gone /\ saves = 4 /\ userKey = 1 /\ now = MaxTime
       /\ handler = [h \in Requests |-> Idle]
       /\ asking = 0 /\ askedAt = 0 /\ refused = 0 /\ granted = 0 /\ mailed = 0 /\ takenOver = 0

EitherSpec == EitherInit /\ [][Next]_vars /\ Fairness
=============================================================================
