---------------------------- MODULE MCDeltaSync ----------------------------
(* DeltaSync on small instances.                                           *)
EXTENDS DeltaSync

CONSTANTS f1, c1

(* An account that travels: folder f1 was made, then item c1 outside it,   *)
(* then f1 marked and travel mode switched on; the client has synced since.*)
(* The writes that matter here, into and out of a hidden folder, would     *)
(* otherwise need an account's whole past in every behaviour.  Nothing is  *)
(* put back from a backup here: that is MCVault's.                         *)
TravelInit ==
    /\ db = [seq |-> 3, epoch |-> 1, pruned |-> 0, server |-> 1,
             alive |-> {Profile, f1, c1},
             number |-> [o \in Objects |-> IF o = f1 THEN 3 ELSE IF o = c1 THEN 2 ELSE 0],
             content |-> [o \in Objects |-> IF o = f1 THEN 4 ELSE IF o = c1 THEN 3
                                            ELSE IF o = Profile THEN 1 ELSE 0],
             folder |-> [c \in Ciphers |-> NoFolder],
             travel |-> TRUE, marked |-> {f1}, tombs |-> {}]
    /\ writes = 5 /\ born = {f1} /\ backups = {} /\ restore = "none" /\ minted = 1
    /\ copy = [o \in Objects |-> IF o = c1 THEN 3 ELSE IF o = Profile THEN 1 ELSE 0]
    /\ cursor = [s |-> 1, e |-> 1, u |-> 3]
    /\ req = Idle

TravelSpec == TravelInit /\ [][ServerRuns]_vars /\ Fairness
=============================================================================
