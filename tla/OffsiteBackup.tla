---------------------------- MODULE OffsiteBackup ----------------------------
(***************************************************************************)
(* Off-site backups.  A run lists the objects of the repository, puts the  *)
(* chunks that are not among them, writes the manifest last, and prunes    *)
(* what no kept snapshot needs.  It can be cut off at every step: an       *)
(* error, the deadline, a crash.  A snapshot goes back into the running    *)
(* server.                                                                 *)
(*                                                                         *)
(* `busy` is a mutex of one process; the repository belongs to every       *)
(* process with its settings.  What a file holds never changes under its   *)
(* name (attachments, Sends and uploads; certificates are left out), so a  *)
(* directory is the set of its paths.  An object is whole or not there,    *)
(* as Storage::write has it, and a snapshot's name is the second of its    *)
(* run, which no other run shares.  The report a run leaves in the setting *)
(* "offsite.status" decides nothing and is left out.                       *)
(***************************************************************************)
EXTENDS Integers, FiniteSets

CONSTANTS
    Processes,   \* servers and command lines that back up into the repository
    Paths,       \* files the data directory may hold
    Databases,   \* states of the database
    Objects,     \* chunks, named by what they hold
    Content,     \* the chunks of a file
    Chunks,      \* the chunks of a copy of the database
    Rules,       \* the retention: <<how many, seconds in each>>
    MaxTime,     \* bound: the clock
    MaxLosses    \* bound: objects the storage loses

ASSUME ContentAssumption == Content \in [Paths -> SUBSET Objects]
ASSUME ChunksAssumption == Chunks \in [Databases -> SUBSET Objects]
ASSUME RulesAssumption == Rules \subseteq Nat \X (Nat \ {0})
ASSUME OffsiteBounds == MaxTime \in Nat /\ MaxLosses \in Nat

VARIABLES
    data,       \* the files in the data directory
    db,         \* the database
    objects,    \* data/ of the repository
    snapshots,  \* snapshots/ of the repository: the manifests
    busy,       \* who holds the mutex of each process
    run,        \* the run of each process
    restore,    \* the restore each process is at
    now,        \* the second of the latest run
    losses,
    harmed      \* snapshots a loss may have touched (for the properties)

repository == <<objects, snapshots>>
vars == <<data, db, objects, snapshots, busy, run, restore, now, losses, harmed>>

Manifest == [at : Nat, database : Databases, files : SUBSET Paths]

Needs(s) == Chunks[s.database] \cup UNION {Content[f] : f \in s.files}

NeededBy(S) == UNION {Needs(s) : s \in S}

(* Each field says what it is from the step that sets it on. *)
Run == [pc : {"idle", "list", "copy", "database", "files", "prune", "snapshots", "objects"},
        at : Nat,
        known : SUBSET Objects,      \* listed at the start, and put since
        previous : SUBSET Paths,     \* the files of the newest snapshot then
        database : Databases,        \* the copy
        files : SUBSET Paths,        \* in the manifest so far
        todo : SUBSET Paths,         \* data_files, the rest
        pending : SUBSET Objects,    \* chunks of the copy or the file at hand to put
        drop : SUBSET Manifest,      \* snapshots not kept, still there
        needed : SUBSET Objects,     \* of those kept
        doomed : SUBSET Objects]     \* objects to remove

Idle == [pc |-> "idle", at |-> 0, known |-> {}, previous |-> {},
         database |-> CHOOSE d \in Databases : TRUE, files |-> {}, todo |-> {}, pending |-> {},
         drop |-> {}, needed |-> {}, doomed |-> {}]

Begun(t) == [Idle EXCEPT !.pc = "list", !.at = t]

NoRestore == [stage |-> "none", of |-> {}, todo |-> {}]

(* The newest snapshot stays, and the newest of each of the last periods   *)
(* that have one, as many as each rule counts.                             *)
NewestOf(times) == {t \in times : \A u \in times : u <= t}

KeptBy(rule, times) ==
    LET period(t) == t \div rule[2]
    IN {t \in times :
            /\ \A u \in times : period(u) = period(t) => u <= t
            /\ Cardinality({period(u) : u \in {v \in times : period(v) > period(t)}}) < rule[1]}

KeepOldest(times) == {t \in times : \A u \in times : u >= t}

Keep(times) == NewestOf(times) \cup UNION {KeptBy(rule, times) : rule \in Rules}

Times == {s.at : s \in snapshots}

Kept == {s \in snapshots : s.at \in Keep(Times)}

NeededByAll == NeededBy(snapshots)

NeededByKept == NeededBy(Kept)

Newest == {s \in snapshots : \A u \in snapshots : u.at <= s.at}

NotBackingUp(p) == busy[p] # "backup"

TryLock(p) == busy[p] = "free"

Release(p) == /\ busy' = [busy EXCEPT ![p] = "free"]
              /\ run' = [run EXCEPT ![p] = Idle]
              /\ restore' = [restore EXCEPT ![p] = NoRestore]

(***************************************************************************)
(* A run                                                                   *)
(***************************************************************************)
RunNow(p) ==
    /\ TryLock(p)
    /\ \E t \in (now + 1)..MaxTime :
          /\ now' = t
          /\ run' = [run EXCEPT ![p] = Begun(t)]
    /\ busy' = [busy EXCEPT ![p] = "backup"]
    /\ UNCHANGED <<data, db, objects, snapshots, restore, losses, harmed>>

Goes(p, r) ==
    /\ run' = [run EXCEPT ![p] = r]
    /\ UNCHANGED <<data, db, busy, restore, now, losses, harmed>>

(* What is there, and which files the newest snapshot has. *)
ListObjects(p) ==
    /\ run[p].pc = "list"
    /\ Goes(p, [run[p] EXCEPT !.pc = "copy", !.known = objects,
                              !.previous = UNION {s.files : s \in Newest}])
    /\ UNCHANGED repository

CopyDatabase(p) ==
    /\ run[p].pc = "copy"
    /\ Goes(p, [run[p] EXCEPT !.pc = "database", !.database = db,
                              !.pending = Chunks[db] \ run[p].known])
    /\ UNCHANGED repository

PutChunk(p) ==
    /\ run[p].pc \in {"database", "files"}
    /\ \E o \in run[p].pending :
          /\ objects' = objects \cup {o}
          /\ Goes(p, [run[p] EXCEPT !.known = @ \cup {o}, !.pending = @ \ {o}])
    /\ UNCHANGED snapshots

ListFiles(p) ==
    /\ run[p].pc = "database" /\ run[p].pending = {}
    /\ Goes(p, [run[p] EXCEPT !.pc = "files", !.todo = data])
    /\ UNCHANGED repository

ReusedUnchecked(r, f) == f \in r.previous

(* A file of the newest snapshot whose chunks are all there is not read    *)
(* again.                                                                  *)
Reused(r, f) == f \in r.previous /\ Content[f] \subseteq r.known

EnteredRead(reused, read) == read

(* One that is gone by now is left out of the manifest. *)
Entered(reused, read) == reused \/ read

BackUpFile(p) ==
    /\ run[p].pc = "files" /\ run[p].pending = {}
    /\ \E f \in run[p].todo :
          LET reused == Reused(run[p], f)
              read == ~reused /\ f \in data
          IN Goes(p, [run[p] EXCEPT
                        !.todo = @ \ {f},
                        !.files = IF Entered(reused, read) THEN @ \cup {f} ELSE @,
                        !.pending = IF read THEN Content[f] \ run[p].known ELSE {}])
    /\ UNCHANGED repository

WriteManifest(p) ==
    /\ run[p].pc = "files" /\ run[p].pending = {} /\ run[p].todo = {}
    /\ snapshots' = snapshots \cup {[at |-> run[p].at, database |-> run[p].database,
                                     files |-> run[p].files]}
    /\ Goes(p, [run[p] EXCEPT !.pc = "prune"])
    /\ UNCHANGED objects

ReadManifests(p) ==
    /\ run[p].pc = "prune"
    /\ Goes(p, [run[p] EXCEPT !.pc = "snapshots", !.drop = snapshots \ Kept,
                              !.needed = NeededByKept])
    /\ UNCHANGED repository

RemoveSnapshot(p) ==
    /\ run[p].pc = "snapshots"
    /\ \E s \in run[p].drop :
          /\ snapshots' = snapshots \ {s}
          /\ Goes(p, [run[p] EXCEPT !.drop = @ \ {s}])
    /\ UNCHANGED objects

ListDoomed(p) ==
    /\ run[p].pc = "snapshots" /\ run[p].drop = {}
    /\ Goes(p, [run[p] EXCEPT !.pc = "objects", !.doomed = objects \ run[p].needed])
    /\ UNCHANGED repository

RemoveObject(p) ==
    /\ run[p].pc = "objects"
    /\ \E o \in run[p].doomed :
          /\ objects' = objects \ {o}
          /\ Goes(p, [run[p] EXCEPT !.doomed = @ \ {o}])
    /\ UNCHANGED snapshots

Finish(p) ==
    /\ run[p].pc = "objects" /\ run[p].doomed = {}
    /\ Release(p)
    /\ UNCHANGED <<data, db, repository, now, losses, harmed>>

(* An error or the deadline: the run is dropped where it is, and the lock  *)
(* with it.                                                                *)
GiveUp(p) ==
    /\ run[p].pc # "idle"
    /\ Release(p)
    /\ UNCHANGED <<data, db, repository, now, losses, harmed>>

Crash(p) ==
    /\ busy[p] # "free"
    /\ Release(p)
    /\ UNCHANGED <<data, db, repository, now, losses, harmed>>

(***************************************************************************)
(* A snapshot goes back into the running server                            *)
(***************************************************************************)
Fetch(p) ==
    /\ TryLock(p)
    /\ \E s \in snapshots :
          restore' = [restore EXCEPT ![p] = [stage |-> "fetch", of |-> {s}, todo |-> s.files]]
    /\ busy' = [busy EXCEPT ![p] = "restore"]
    /\ UNCHANGED <<data, db, repository, run, now, losses, harmed>>

ReplaceDatabase(p) ==
    /\ restore[p].stage = "fetch"
    /\ \E s \in restore[p].of : Chunks[s.database] \subseteq objects /\ db' = s.database
    /\ restore' = [restore EXCEPT ![p].stage = "files"]
    /\ UNCHANGED <<data, repository, busy, run, now, losses, harmed>>

(* What this server has already stays. *)
PutBackFile(p) ==
    /\ restore[p].stage = "files"
    /\ \E f \in restore[p].todo :
          /\ f \in data \/ Content[f] \subseteq objects
          /\ data' = data \cup {f}
          /\ restore' = [restore EXCEPT ![p].todo = @ \ {f}]
    /\ UNCHANGED <<db, repository, busy, run, now, losses, harmed>>

(* Done, or stopped by an error; the files put back by then stay. *)
CloseFetched(p) ==
    /\ restore[p].stage # "none"
    /\ Release(p)
    /\ UNCHANGED <<data, db, repository, now, losses, harmed>>

(***************************************************************************)
(* The server goes on, and the storage may lose what it was given          *)
(***************************************************************************)
ServerWorks ==
    /\ \/ \E f \in Paths \ data : data' = data \cup {f} /\ UNCHANGED db
       \/ \E f \in data : data' = data \ {f} /\ UNCHANGED db
       \/ \E d \in Databases \ {db} : db' = d /\ UNCHANGED data
    /\ UNCHANGED <<repository, busy, run, restore, now, losses, harmed>>

Lose ==
    /\ losses < MaxLosses
    /\ losses' = losses + 1
    /\ \E o \in objects :
          /\ objects' = objects \ {o}
          /\ harmed' = harmed \cup {s.at : s \in {u \in snapshots : o \in Needs(u)}}
                              \cup {run[p].at : p \in Processes}
    /\ UNCHANGED <<data, db, snapshots, busy, run, restore, now>>

Init ==
    /\ data = {} /\ db \in Databases
    /\ objects = {} /\ snapshots = {}
    /\ busy = [p \in Processes |-> "free"]
    /\ run = [p \in Processes |-> Idle]
    /\ restore = [p \in Processes |-> NoRestore]
    /\ now = 0 /\ losses = 0 /\ harmed = {}

BackUp(p) ==
    \/ RunNow(p) \/ ListObjects(p) \/ CopyDatabase(p) \/ PutChunk(p) \/ ListFiles(p)
    \/ BackUpFile(p) \/ WriteManifest(p) \/ ReadManifests(p) \/ RemoveSnapshot(p)
    \/ ListDoomed(p) \/ RemoveObject(p) \/ Finish(p) \/ GiveUp(p)

PutBack(p) == Fetch(p) \/ ReplaceDatabase(p) \/ PutBackFile(p) \/ CloseFetched(p)

Next ==
    \/ \E p \in Processes : BackUp(p) \/ PutBack(p) \/ Crash(p)
    \/ ServerWorks \/ Lose

Spec == Init /\ [][Next]_vars

(***************************************************************************)
(* Properties                                                              *)
(***************************************************************************)
TypeOK ==
    /\ data \subseteq Paths /\ db \in Databases
    /\ objects \subseteq Objects /\ snapshots \subseteq Manifest
    /\ busy \in [Processes -> {"free", "backup", "restore"}]
    /\ run \in [Processes -> Run]
    /\ restore \in [Processes -> [stage : {"none", "fetch", "files"}, of : SUBSET Manifest,
                                  todo : SUBSET Paths]]
    /\ now \in Nat /\ losses \in Nat /\ harmed \subseteq Nat

(* Every listed snapshot is complete, wherever runs were cut off: its      *)
(* objects are there, but for what the storage lost while it was listed or *)
(* being made.                                                             *)
SnapshotsWhole ==
    \A s \in snapshots : s.at \notin harmed => Needs(s) \subseteq objects

(* A restore into the running server never finds a hole: no run prunes     *)
(* under it.                                                               *)
RestoreFindsAll ==
    \A p \in Processes : \A s \in restore[p].of :
        s.at \notin harmed => Needs(s) \subseteq objects

(* Who has a backup keeps one: the newest snapshot is never removed,       *)
(* whatever the retention says.                                            *)
NewestStays == [][Newest \cap snapshots' = Newest]_vars

(* A run that ends well leaves no object behind that no snapshot needs,    *)
(* those of runs cut off before it included.                               *)
NothingLeftOver ==
    [][\A p \in Processes : Finish(p) => objects' \subseteq NeededBy(snapshots')]_vars

(***************************************************************************)
(* The promise                                                             *)
(***************************************************************************)
Readable == {s \in snapshots : Needs(s) \subseteq objects}

(* What a run shows: when it began, whether the storage lost anything      *)
(* since, and what is in its snapshot so far.                              *)
Making(p) ==
    LET r == run[p]
        is == IF r.at \in harmed THEN "harmed" ELSE "whole"
    IN CASE r.pc = "idle" -> [stage |-> "none"]
         [] r.pc \in {"list", "copy"} -> [stage |-> "begun", at |-> r.at, is |-> is]
         [] r.pc = "database" -> [stage |-> "copied", at |-> r.at, is |-> is,
                                  database |-> r.database]
         [] r.pc = "files" -> [stage |-> "files", at |-> r.at, is |-> is,
                               database |-> r.database, files |-> r.files, todo |-> r.todo]
         [] OTHER -> [stage |-> "made"]

Promise == INSTANCE Snapshots WITH
    Times <- 1..MaxTime, listed <- snapshots, readable <- Readable,
    making <- [p \in Processes |-> Making(p)], restoring <- restore

(* The repository keeps what a plain list of snapshots would: shared       *)
(* chunks, runs cut off and pruning never show in what can be restored.    *)
ImplementsSnapshots == Promise!Spec

(***************************************************************************)
(* The inductive invariant of a repository with one process                *)
(***************************************************************************)
Locks ==
    \A p \in Processes :
        /\ run[p].pc # "idle" => busy[p] = "backup" /\ run[p].at = now
        /\ restore[p].of # {} => busy[p] = "restore" /\ restore[p].of \subseteq snapshots

(* What a run takes for put is there, until it writes its manifest. *)
KnownIsThere ==
    \A p \in Processes :
        run[p].pc \in {"copy", "database", "files"} /\ run[p].at \notin harmed
            => run[p].known \subseteq objects

AllIsKnown ==
    \A p \in Processes :
        /\ run[p].pc \in {"list", "copy"} => run[p].files = {}
        /\ run[p].pc \in {"database", "files"} =>
              /\ Chunks[run[p].database] \subseteq run[p].known \cup run[p].pending
              /\ \A f \in run[p].files : Content[f] \subseteq run[p].known \cup run[p].pending

(* Pruning goes by what the kept snapshots need, the run's own among them. *)
Pruning ==
    \A p \in Processes :
        /\ run[p].pc = "prune" => run[p].at \in Times
        /\ run[p].pc = "snapshots" =>
              /\ run[p].needed = NeededBy(snapshots \ run[p].drop)
              /\ run[p].at \in {s.at : s \in snapshots \ run[p].drop}
              /\ \A s \in run[p].drop : s.at < run[p].at
        /\ run[p].pc = "objects" =>
              /\ run[p].needed = NeededBy(snapshots)
              /\ run[p].doomed \cap run[p].needed = {}
              /\ objects \subseteq run[p].needed \cup run[p].doomed

IInv ==
    /\ TypeOK
    /\ \A s \in snapshots : s.at <= now
    /\ Locks
    /\ KnownIsThere
    /\ AllIsKnown
    /\ Pruning
    /\ SnapshotsWhole
==============================================================================
