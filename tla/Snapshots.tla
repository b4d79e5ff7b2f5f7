------------------------------ MODULE Snapshots ------------------------------
(***************************************************************************)
(* What off-site backups promise, without the repository that keeps them.  *)
(* There is a list of snapshots.  A snapshot is made of a copy of the      *)
(* database and of the files that are there, appears when it is whole, and *)
(* stays readable until it is forgotten; the newest never is.  One that is *)
(* listed goes back into the server.  Chunks, what two snapshots share,    *)
(* what a run cut off leaves behind and what pruning removes do not show.  *)
(***************************************************************************)
EXTENDS Integers

CONSTANTS Processes, Paths, Databases,
          Times          \* the seconds at which runs begin

VARIABLES
    data, db,    \* the files and the database of the server
    listed,      \* the snapshots
    readable,    \* those of them that can be restored
    making,      \* the snapshot each process makes
    restoring    \* the snapshot each process puts back

vars == <<data, db, listed, readable, making, restoring>>

Nothing == [stage |-> "none"]

NoRestore == [stage |-> "none", of |-> {}, todo |-> {}]

Newest(s) == \A u \in listed : u.at <= s.at

Makes(p, m) == making' = [making EXCEPT ![p] = m]

Init ==
    /\ data = {} /\ db \in Databases
    /\ listed = {} /\ readable = {}
    /\ making = [p \in Processes |-> Nothing]
    /\ restoring = [p \in Processes |-> NoRestore]

(* A process does one thing at a time, and starts later than all that is   *)
(* listed.                                                                 *)
Free(p) == making[p].stage = "none" /\ restoring[p].stage = "none"

Begin(p) ==
    /\ Free(p)
    /\ \E t \in Times :
          /\ \A s \in listed : s.at < t
          /\ Makes(p, [stage |-> "begun", at |-> t, is |-> "whole"])
    /\ UNCHANGED <<data, db, listed, readable, restoring>>

Copy(p) ==
    /\ making[p].stage = "begun"
    /\ Makes(p, [stage |-> "copied", at |-> making[p].at, is |-> making[p].is,
                 database |-> db])
    /\ UNCHANGED <<data, db, listed, readable, restoring>>

(* The snapshot with these files, and these still to look at. *)
With(m, files, todo) ==
    [stage |-> "files", at |-> m.at, is |-> m.is, database |-> m.database,
     files |-> files, todo |-> todo]

ListFiles(p) ==
    /\ making[p].stage = "copied"
    /\ Makes(p, With(making[p], {}, data))
    /\ UNCHANGED <<data, db, listed, readable, restoring>>

(* Only a file that is gone may be left out. *)
TakeFile(p) ==
    /\ making[p].stage = "files"
    /\ LET m == making[p]
       IN \E f \in m.todo :
             \/ Makes(p, With(m, m.files \cup {f}, m.todo \ {f}))
             \/ f \notin data /\ Makes(p, With(m, m.files, m.todo \ {f}))
    /\ UNCHANGED <<data, db, listed, readable, restoring>>

(* The snapshot appears, readable unless the storage lost something since. *)
Complete(p) ==
    /\ making[p].stage = "files" /\ making[p].todo = {}
    /\ LET s == [at |-> making[p].at, database |-> making[p].database,
                 files |-> making[p].files]
       IN /\ listed' = listed \cup {s}
          /\ \/ readable' = readable \cup {s}
             \/ making[p].is = "harmed" /\ readable' = readable
    /\ Makes(p, [stage |-> "made"])
    /\ UNCHANGED <<data, db, restoring>>

Forget(p) ==
    /\ making[p].stage = "made"
    /\ \E s \in listed :
          /\ ~Newest(s)
          /\ listed' = listed \ {s} /\ readable' = readable \ {s}
    /\ UNCHANGED <<data, db, making, restoring>>

(* A run puts what a damaged snapshot misses. *)
Mend(p) ==
    /\ making[p].stage \in {"copied", "files"}
    /\ readable \subseteq readable' /\ readable' \subseteq listed
    /\ UNCHANGED <<data, db, listed, making, restoring>>

Fetch(p) ==
    /\ Free(p)
    /\ \E s \in listed :
          restoring' = [restoring EXCEPT ![p] = [stage |-> "fetch", of |-> {s}, todo |-> s.files]]
    /\ UNCHANGED <<data, db, listed, readable, making>>

(* What goes back is in the list as long as it goes back. *)
ReplaceDatabase(p) ==
    /\ restoring[p].stage = "fetch"
    /\ \E s \in restoring[p].of \cap listed : db' = s.database
    /\ restoring' = [restoring EXCEPT ![p].stage = "files"]
    /\ UNCHANGED <<data, listed, readable, making>>

PutBackFile(p) ==
    /\ restoring[p].stage = "files" /\ restoring[p].of \subseteq listed
    /\ \E f \in restoring[p].todo :
          /\ data' = data \cup {f}
          /\ restoring' = [restoring EXCEPT ![p].todo = @ \ {f}]
    /\ UNCHANGED <<db, listed, readable, making>>

(* Done, cut off, or the process ends. *)
Stop(p) ==
    /\ Makes(p, Nothing)
    /\ restoring' = [restoring EXCEPT ![p] = NoRestore]
    /\ UNCHANGED <<data, db, listed, readable>>

ServerWorks ==
    /\ data' \subseteq Paths /\ db' \in Databases
    /\ UNCHANGED <<listed, readable, making, restoring>>

Lose ==
    /\ readable' \subseteq readable
    /\ making' = [p \in Processes |->
                    IF making[p].stage \in {"begun", "copied", "files"}
                    THEN [making[p] EXCEPT !.is = "harmed"] ELSE making[p]]
    /\ UNCHANGED <<data, db, listed, restoring>>

Next ==
    \/ \E p \in Processes :
          \/ Begin(p) \/ Copy(p) \/ ListFiles(p) \/ TakeFile(p) \/ Complete(p) \/ Forget(p)
          \/ Mend(p) \/ Fetch(p) \/ ReplaceDatabase(p) \/ PutBackFile(p) \/ Stop(p)
    \/ ServerWorks \/ Lose

Spec == Init /\ [][Next]_vars
==============================================================================
