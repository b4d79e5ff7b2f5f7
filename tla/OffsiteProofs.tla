---------------------------- MODULE OffsiteProofs ----------------------------
(***************************************************************************)
(* Proofs about OffsiteBackup for a repository that one process uses: its  *)
(* inductive invariant, that every listed snapshot is complete, that a     *)
(* restore finds all it needs, that the newest snapshot stays and that a   *)
(* run leaves nothing behind.                                              *)
(***************************************************************************)
EXTENDS OffsiteBackup, TLAPS

OneProcess == \A p, q \in Processes : p = q

(***************************************************************************)
(* Operators                                                               *)
(***************************************************************************)
LEMMA NeedsOf ==
    ASSUME NEW s \in Manifest PROVE Needs(s) \subseteq Objects
  BY ContentAssumption, ChunksAssumption DEF Needs, Manifest

LEMMA IdleIsRun ==
    ASSUME NEW d \in Databases PROVE Idle \in Run /\ Idle.pc = "idle" /\ Idle.files = {}
  BY DEF Idle, Run

(* Retention keeps what is newest. *)
LEMMA KeepsNewest ==
    ASSUME NEW times, NEW t \in times, \A u \in times : u <= t
    PROVE  t \in Keep(times)
  BY DEF Keep, NewestOf

(***************************************************************************)
(* Types                                                                   *)
(***************************************************************************)
LEMMA TypeInit == Init => TypeOK
  BY IdleIsRun DEF Init, TypeOK, NoRestore

(* A step of a run keeps its record typed, and touches nothing but the     *)
(* repository.                                                             *)
LEMMA GoesTyped ==
    ASSUME TypeOK, NEW p \in Processes, NEW r \in Run, Goes(p, r),
           objects' \subseteq Objects, snapshots' \subseteq Manifest
    PROVE  TypeOK'
  BY DEF TypeOK, Goes

LEMMA RunTyped ==
    ASSUME TypeOK, NEW p \in Processes
    PROVE  /\ run[p] \in Run
           /\ run[p].known \subseteq Objects /\ run[p].pending \subseteq Objects
           /\ run[p].needed \subseteq Objects /\ run[p].doomed \subseteq Objects
           /\ run[p].files \subseteq Paths /\ run[p].todo \subseteq Paths
           /\ run[p].drop \subseteq Manifest
           /\ run[p].database \in Databases /\ run[p].at \in Nat
  BY DEF TypeOK, Run

LEMMA ReleaseTyped ==
    ASSUME TypeOK, NEW p \in Processes, Release(p), UNCHANGED <<data, db, objects, snapshots, now, losses, harmed>>
    PROVE  TypeOK'
  <1>1. Idle \in Run
    BY IdleIsRun DEF TypeOK
  <1> QED
    BY <1>1 DEF TypeOK, Release, NoRestore

LEMMA TypeNext == TypeOK /\ [Next]_vars => TypeOK'
  <1> SUFFICES ASSUME TypeOK, [Next]_vars PROVE TypeOK'
    OBVIOUS
  <1>t. objects \subseteq Objects /\ snapshots \subseteq Manifest /\ db \in Databases /\ data \subseteq Paths
    BY DEF TypeOK
  <1>1. ASSUME NEW p \in Processes, RunNow(p) PROVE TypeOK'
    <2>1. PICK t \in (now + 1)..MaxTime :
            now' = t /\ run' = [run EXCEPT ![p] = Begun(t)]
      BY <1>1 DEF RunNow
    <2>2. t \in Nat
      BY OffsiteBounds DEF TypeOK
    <2>3. Idle \in Run
      BY <1>t, IdleIsRun
    <2>4. Begun(t) \in Run
      BY <2>2, <2>3 DEF Begun, Run
    <2> QED
      BY <1>1, <2>1, <2>2, <2>4 DEF RunNow, TypeOK
  <1>2. ASSUME NEW p \in Processes, ListObjects(p) PROVE TypeOK'
    <2>1. UNION {s.files : s \in Newest} \subseteq Paths
      BY <1>t DEF Newest, Manifest
    <2>2. [run[p] EXCEPT !.pc = "copy", !.known = objects,
                         !.previous = UNION {s.files : s \in Newest}] \in Run
      BY <1>t, <2>1, RunTyped DEF Run
    <2> QED
      BY <1>2, <1>t, <2>2, GoesTyped DEF ListObjects, repository
  <1>3. ASSUME NEW p \in Processes, CopyDatabase(p) PROVE TypeOK'
    <2>1. Chunks[db] \ run[p].known \subseteq Objects
      BY <1>t, ChunksAssumption
    <2>2. [run[p] EXCEPT !.pc = "database", !.database = db,
                         !.pending = Chunks[db] \ run[p].known] \in Run
      BY <1>t, <2>1, RunTyped DEF Run
    <2> QED
      BY <1>3, <1>t, <2>2, GoesTyped DEF CopyDatabase, repository
  <1>4. ASSUME NEW p \in Processes, PutChunk(p) PROVE TypeOK'
    <2>1. PICK o \in run[p].pending :
            /\ objects' = objects \cup {o}
            /\ Goes(p, [run[p] EXCEPT !.known = @ \cup {o}, !.pending = @ \ {o}])
      BY <1>4 DEF PutChunk
    <2>2. o \in Objects
      BY RunTyped
    <2>3. [run[p] EXCEPT !.known = @ \cup {o}, !.pending = @ \ {o}] \in Run
      BY <2>2, RunTyped DEF Run
    <2> QED
      BY <1>4, <1>t, <2>1, <2>2, <2>3, GoesTyped DEF PutChunk
  <1>5. ASSUME NEW p \in Processes, ListFiles(p) PROVE TypeOK'
    <2>1. [run[p] EXCEPT !.pc = "files", !.todo = data] \in Run
      BY <1>t, RunTyped DEF Run
    <2> QED
      BY <1>5, <1>t, <2>1, GoesTyped DEF ListFiles, repository
  <1>6. ASSUME NEW p \in Processes, BackUpFile(p) PROVE TypeOK'
    <2>1. PICK f \in run[p].todo : \E files \in {run[p].files, run[p].files \cup {f}},
                                     pending \in {{}, Content[f] \ run[p].known} :
            Goes(p, [run[p] EXCEPT !.todo = @ \ {f}, !.files = files, !.pending = pending])
      BY <1>6 DEF BackUpFile, Entered
    <2>2. PICK files \in {run[p].files, run[p].files \cup {f}},
               pending \in {{}, Content[f] \ run[p].known} :
            Goes(p, [run[p] EXCEPT !.todo = @ \ {f}, !.files = files, !.pending = pending])
      BY <2>1
    <2>3. files \subseteq Paths /\ pending \subseteq Objects
      BY RunTyped, ContentAssumption
    <2>4. [run[p] EXCEPT !.todo = @ \ {f}, !.files = files, !.pending = pending] \in Run
      BY <2>3, RunTyped DEF Run
    <2> QED
      BY <1>6, <1>t, <2>2, <2>4, GoesTyped DEF BackUpFile, repository
  <1>7. ASSUME NEW p \in Processes, WriteManifest(p) PROVE TypeOK'
    <2>1. [run[p] EXCEPT !.pc = "prune"] \in Run
      BY RunTyped DEF Run
    <2>2. snapshots' \subseteq Manifest
      BY <1>7, <1>t, RunTyped DEF WriteManifest, Manifest
    <2> QED
      BY <1>7, <1>t, <2>1, <2>2, GoesTyped DEF WriteManifest
  <1>8. ASSUME NEW p \in Processes, ReadManifests(p) PROVE TypeOK'
    <2>1. NeededByKept \subseteq Objects
      BY <1>t, NeedsOf DEF NeededByKept, NeededBy, Kept
    <2>2. [run[p] EXCEPT !.pc = "snapshots", !.drop = snapshots \ Kept,
                         !.needed = NeededByKept] \in Run
      BY <1>t, <2>1, RunTyped DEF Run
    <2> QED
      BY <1>8, <1>t, <2>2, GoesTyped DEF ReadManifests, repository
  <1>9. ASSUME NEW p \in Processes, RemoveSnapshot(p) PROVE TypeOK'
    <2>1. PICK s \in run[p].drop : /\ snapshots' = snapshots \ {s}
                                   /\ Goes(p, [run[p] EXCEPT !.drop = @ \ {s}])
      BY <1>9 DEF RemoveSnapshot
    <2>2. [run[p] EXCEPT !.drop = @ \ {s}] \in Run
      BY RunTyped DEF Run
    <2> QED
      BY <1>9, <1>t, <2>1, <2>2, GoesTyped DEF RemoveSnapshot
  <1>10. ASSUME NEW p \in Processes, ListDoomed(p) PROVE TypeOK'
    <2>1. [run[p] EXCEPT !.pc = "objects", !.doomed = objects \ run[p].needed] \in Run
      BY <1>t, RunTyped DEF Run
    <2> QED
      BY <1>10, <1>t, <2>1, GoesTyped DEF ListDoomed, repository
  <1>11. ASSUME NEW p \in Processes, RemoveObject(p) PROVE TypeOK'
    <2>1. PICK o \in run[p].doomed : /\ objects' = objects \ {o}
                                     /\ Goes(p, [run[p] EXCEPT !.doomed = @ \ {o}])
      BY <1>11 DEF RemoveObject
    <2>2. [run[p] EXCEPT !.doomed = @ \ {o}] \in Run
      BY RunTyped DEF Run
    <2> QED
      BY <1>11, <1>t, <2>1, <2>2, GoesTyped DEF RemoveObject
  <1>12. ASSUME NEW p \in Processes, Finish(p) \/ GiveUp(p) \/ Crash(p) \/ CloseFetched(p)
         PROVE  TypeOK'
    BY <1>12, ReleaseTyped DEF Finish, GiveUp, Crash, CloseFetched, repository
  <1>15. ASSUME NEW p \in Processes, Fetch(p) PROVE TypeOK'
    <2>1. PICK s \in snapshots :
            restore' = [restore EXCEPT ![p] = [stage |-> "fetch", of |-> {s}, todo |-> s.files]]
      BY <1>15 DEF Fetch
    <2>2. s \in Manifest /\ s.files \subseteq Paths
      BY <1>t DEF Manifest
    <2>3. restore' \in [Processes -> [stage : {"none", "fetch", "files"}, of : SUBSET Manifest,
                                      todo : SUBSET Paths]]
      BY <2>1, <2>2 DEF TypeOK
    <2>4. busy' \in [Processes -> {"free", "backup", "restore"}]
      BY <1>15 DEF Fetch, TypeOK
    <2> QED
      BY <1>15, <2>3, <2>4 DEF Fetch, repository, TypeOK
  <1>16. ASSUME NEW p \in Processes, ReplaceDatabase(p) PROVE TypeOK'
    <2>1. db' \in Databases
      BY <1>16 DEF ReplaceDatabase, Manifest, TypeOK
    <2>2. restore' \in [Processes -> [stage : {"none", "fetch", "files"}, of : SUBSET Manifest,
                                      todo : SUBSET Paths]]
      BY <1>16 DEF ReplaceDatabase, TypeOK
    <2> QED
      BY <1>16, <2>1, <2>2 DEF ReplaceDatabase, repository, TypeOK
  <1>17. ASSUME NEW p \in Processes, PutBackFile(p) PROVE TypeOK'
    <2>1. PICK f \in restore[p].todo :
            /\ data' = data \cup {f}
            /\ restore' = [restore EXCEPT ![p].todo = @ \ {f}]
      BY <1>17 DEF PutBackFile
    <2>2. f \in Paths
      BY DEF TypeOK
    <2>3. restore' \in [Processes -> [stage : {"none", "fetch", "files"}, of : SUBSET Manifest,
                                      todo : SUBSET Paths]]
      BY <2>1 DEF TypeOK
    <2>4. data' \subseteq Paths
      BY <1>t, <2>1, <2>2
    <2> QED
      BY <1>17, <2>3, <2>4 DEF PutBackFile, repository, TypeOK
  <1>19. ASSUME ServerWorks PROVE TypeOK'
    BY <1>19 DEF ServerWorks, repository, TypeOK
  <1>20. ASSUME Lose PROVE TypeOK'
    <2>1. harmed' \subseteq Nat
      <3>1. \A s \in snapshots : s.at \in Nat
        BY <1>t DEF Manifest
      <3>2. \A p \in Processes : run[p].at \in Nat
        BY RunTyped
      <3>3. harmed \subseteq Nat
        BY DEF TypeOK
      <3> QED
        BY <1>20, <3>1, <3>2, <3>3 DEF Lose
    <2>2. objects' \subseteq objects /\ losses' = losses + 1
      BY <1>20 DEF Lose
    <2>3. UNCHANGED <<data, db, snapshots, busy, run, restore, now>>
      BY <1>20 DEF Lose
    <2> QED
      BY <2>1, <2>2, <2>3 DEF TypeOK
  <1>21. ASSUME UNCHANGED vars PROVE TypeOK'
    BY <1>21 DEF vars, TypeOK
  <1> QED
    BY <1>1, <1>2, <1>3, <1>4, <1>5, <1>6, <1>7, <1>8, <1>9, <1>10, <1>11, <1>12, <1>15,
       <1>16, <1>17, <1>19, <1>20, <1>21 DEF Next, BackUp, PutBack

(***************************************************************************)
(* The inductive invariant, with one process                               *)
(***************************************************************************)
Rest == /\ \A s \in snapshots : s.at <= now
        /\ Locks /\ KnownIsThere /\ AllIsKnown /\ Pruning /\ SnapshotsWhole

LEMMA InvInit == Init => IInv
  <1> SUFFICES ASSUME Init PROVE IInv
    OBVIOUS
  <1>1. TypeOK
    BY TypeInit
  <1>2. \A p \in Processes : run[p].pc = "idle" /\ run[p].files = {} /\ restore[p].of = {}
    BY IdleIsRun DEF Init, NoRestore
  <1> QED
    BY <1>1, <1>2 DEF Init, IInv, Locks, KnownIsThere, AllIsKnown, Pruning, SnapshotsWhole

(* A process that lets go of its lock has nothing left to keep true. *)
LEMMA ReleaseKeeps ==
    ASSUME OneProcess, IInv, NEW p \in Processes, Release(p),
           UNCHANGED <<objects, snapshots, now, harmed>>
    PROVE  Rest'
  <1>1. \A q \in Processes : q = p
    BY DEF OneProcess
  <1>2. run'[p] = Idle /\ restore'[p] = NoRestore
    BY DEF Release, IInv, TypeOK
  <1>3. run'[p].pc = "idle" /\ run'[p].files = {} /\ restore'[p].of = {}
    BY <1>2, IdleIsRun DEF NoRestore, IInv, TypeOK
  <1> QED
    BY <1>1, <1>3 DEF Rest, IInv, Locks, KnownIsThere, AllIsKnown, Pruning, SnapshotsWhole

(* A step of a run holds the lock already, so what is left to show is what *)
(* is true of its new record.                                              *)
LEMMA GoesKeeps ==
    ASSUME OneProcess, IInv, NEW p \in Processes, run[p].pc # "idle", NEW r, Goes(p, r),
           r.at = run[p].at
    PROVE  /\ \A q \in Processes : q = p
           /\ run'[p] = r /\ run[p].at = now /\ now' = now /\ harmed' = harmed
           /\ restore[p].of = {}
           /\ Locks'
  <1>1. \A q \in Processes : q = p
    BY DEF OneProcess
  <1>2. run'[p] = r /\ run[p].at = now /\ now' = now /\ harmed' = harmed
    BY DEF Goes, IInv, TypeOK, Locks
  <1>3. restore' = restore /\ busy' = busy /\ busy[p] = "backup" /\ restore[p].of = {}
    BY DEF Goes, IInv, Locks
  <1> QED
    BY <1>1, <1>2, <1>3 DEF Locks

LEMMA InvNext == ASSUME OneProcess, IInv, [Next]_vars PROVE IInv'
  <1>t. TypeOK /\ TypeOK'
    BY TypeNext DEF IInv
  <1>o. \A p, q \in Processes : p = q
    BY DEF OneProcess
  <1>s. \A s \in snapshots : s.at \in Nat
    BY <1>t DEF TypeOK, Manifest
  <1>1. ASSUME NEW p \in Processes, RunNow(p) PROVE Rest'
    <2>1. PICK t \in (now + 1)..MaxTime : now' = t /\ run' = [run EXCEPT ![p] = Begun(t)]
      BY <1>1 DEF RunNow
    <2>2. run'[p] = Begun(t) /\ Begun(t).pc = "list" /\ Begun(t).at = t /\ Begun(t).files = {}
      BY <1>t, <2>1 DEF TypeOK, Begun, Idle
    <2>3. busy'[p] = "backup" /\ restore[p].of = {}
      BY <1>1, <1>t DEF RunNow, TryLock, TypeOK, IInv, Locks
    <2>4. \A s \in snapshots' : s.at <= now'
      BY <1>1, <1>t, <1>s, <2>1, OffsiteBounds DEF RunNow, IInv, TypeOK
    <2>5. UNCHANGED <<objects, snapshots, restore, harmed>>
      BY <1>1 DEF RunNow
    <2> QED
      BY <1>o, <2>1, <2>2, <2>3, <2>4, <2>5
         DEF Rest, IInv, Locks, KnownIsThere, AllIsKnown, Pruning, SnapshotsWhole
  <1>2. ASSUME NEW p \in Processes, ListObjects(p) PROVE Rest'
    <2> DEFINE r == [run[p] EXCEPT !.pc = "copy", !.known = objects,
                                   !.previous = UNION {s.files : s \in Newest}]
    <2>1. r.pc = "copy" /\ r.known = objects /\ r.at = run[p].at /\ r.files = run[p].files
      BY RunTyped, <1>t DEF Run
    <2>2. Goes(p, r) /\ run[p].pc = "list" /\ UNCHANGED <<objects, snapshots>>
      BY <1>2 DEF ListObjects, repository
    <2> HIDE DEF r
    <2>3. (\A q \in Processes : q = p) /\ run'[p] = r /\ now' = now /\ harmed' = harmed /\ Locks'
      BY <2>1, <2>2, GoesKeeps
    <2> QED
      BY <2>1, <2>2, <2>3
         DEF Rest, IInv, KnownIsThere, AllIsKnown, Pruning, SnapshotsWhole
  <1>3. ASSUME NEW p \in Processes, CopyDatabase(p) PROVE Rest'
    <2> DEFINE r == [run[p] EXCEPT !.pc = "database", !.database = db,
                                   !.pending = Chunks[db] \ run[p].known]
    <2>1. /\ r.pc = "database" /\ r.database = db /\ r.pending = Chunks[db] \ run[p].known
          /\ r.known = run[p].known /\ r.at = run[p].at /\ r.files = run[p].files
      BY RunTyped, <1>t DEF Run
    <2>2. Goes(p, r) /\ run[p].pc = "copy" /\ UNCHANGED <<objects, snapshots>>
      BY <1>3 DEF CopyDatabase, repository
    <2> HIDE DEF r
    <2>3. (\A q \in Processes : q = p) /\ run'[p] = r /\ now' = now /\ harmed' = harmed /\ Locks'
      BY <2>1, <2>2, GoesKeeps
    <2> QED
      BY <2>1, <2>2, <2>3
         DEF Rest, IInv, KnownIsThere, AllIsKnown, Pruning, SnapshotsWhole
  <1>4. ASSUME NEW p \in Processes, PutChunk(p) PROVE Rest'
    <2>1. PICK o \in run[p].pending :
            /\ objects' = objects \cup {o}
            /\ Goes(p, [run[p] EXCEPT !.known = @ \cup {o}, !.pending = @ \ {o}])
      BY <1>4 DEF PutChunk
    <2> DEFINE r == [run[p] EXCEPT !.known = @ \cup {o}, !.pending = @ \ {o}]
    <2>2. /\ r.pc = run[p].pc /\ r.database = run[p].database /\ r.pending = run[p].pending \ {o}
          /\ r.known = run[p].known \cup {o} /\ r.at = run[p].at /\ r.files = run[p].files
      BY RunTyped, <1>t DEF Run
    <2>3. run[p].pc \in {"database", "files"} /\ snapshots' = snapshots
      BY <1>4 DEF PutChunk
    <2> HIDE DEF r
    <2>4. (\A q \in Processes : q = p) /\ run'[p] = r /\ now' = now /\ harmed' = harmed /\ Locks'
      BY <2>1, <2>2, <2>3, GoesKeeps DEF r
    <2>5. KnownIsThere' /\ AllIsKnown'
      BY <2>1, <2>2, <2>3, <2>4 DEF IInv, KnownIsThere, AllIsKnown
    <2> QED
      BY <2>1, <2>2, <2>3, <2>4, <2>5 DEF Rest, IInv, Pruning, SnapshotsWhole
  <1>5. ASSUME NEW p \in Processes, ListFiles(p) PROVE Rest'
    <2> DEFINE r == [run[p] EXCEPT !.pc = "files", !.todo = data]
    <2>1. /\ r.pc = "files" /\ r.database = run[p].database /\ r.pending = run[p].pending
          /\ r.known = run[p].known /\ r.at = run[p].at /\ r.files = run[p].files
      BY RunTyped, <1>t DEF Run
    <2>2. Goes(p, r) /\ run[p].pc = "database" /\ UNCHANGED <<objects, snapshots>>
      BY <1>5 DEF ListFiles, repository
    <2> HIDE DEF r
    <2>3. (\A q \in Processes : q = p) /\ run'[p] = r /\ now' = now /\ harmed' = harmed /\ Locks'
      BY <2>1, <2>2, GoesKeeps
    <2> QED
      BY <2>1, <2>2, <2>3
         DEF Rest, IInv, KnownIsThere, AllIsKnown, Pruning, SnapshotsWhole
  <1>6. ASSUME NEW p \in Processes, BackUpFile(p) PROVE Rest'
    <2>1. PICK f \in run[p].todo :
            LET reused == Reused(run[p], f)
                read == ~reused /\ f \in data
            IN Goes(p, [run[p] EXCEPT
                          !.todo = @ \ {f},
                          !.files = IF reused \/ read THEN @ \cup {f} ELSE @,
                          !.pending = IF read THEN Content[f] \ run[p].known ELSE {}])
      BY <1>6 DEF BackUpFile, Entered
    <2> DEFINE read == ~Reused(run[p], f) /\ f \in data
               r == [run[p] EXCEPT
                       !.todo = @ \ {f},
                       !.files = IF Reused(run[p], f) \/ read THEN @ \cup {f} ELSE @,
                       !.pending = IF read THEN Content[f] \ run[p].known ELSE {}]
    <2>2. /\ r.pc = run[p].pc /\ r.database = run[p].database
          /\ r.known = run[p].known /\ r.at = run[p].at
          /\ r.files = IF Reused(run[p], f) \/ read THEN run[p].files \cup {f} ELSE run[p].files
          /\ r.pending = IF read THEN Content[f] \ run[p].known ELSE {}
      BY RunTyped, <1>t DEF Run
    <2>3. run[p].pc = "files" /\ run[p].pending = {} /\ UNCHANGED <<objects, snapshots>>
      BY <1>6 DEF BackUpFile, repository
    <2>4. Goes(p, r)
      BY <2>1
    <2> HIDE DEF r
    <2>5. (\A q \in Processes : q = p) /\ run'[p] = r /\ now' = now /\ harmed' = harmed /\ Locks'
      BY <2>2, <2>3, <2>4, GoesKeeps
    <2>6. \A g \in r.files : Content[g] \subseteq r.known \cup r.pending
      BY <2>2, <2>3 DEF Reused, IInv, AllIsKnown
    <2>7. Chunks[r.database] \subseteq r.known \cup r.pending
      BY <2>2, <2>3 DEF IInv, AllIsKnown
    <2> QED
      BY <2>2, <2>3, <2>5, <2>6, <2>7
         DEF Rest, IInv, KnownIsThere, AllIsKnown, Pruning, SnapshotsWhole
  <1>7. ASSUME NEW p \in Processes, WriteManifest(p) PROVE Rest'
    <2> DEFINE r == [run[p] EXCEPT !.pc = "prune"]
               s == [at |-> run[p].at, database |-> run[p].database, files |-> run[p].files]
    <2>1. r.pc = "prune" /\ r.at = run[p].at
      BY RunTyped, <1>t DEF Run
    <2>2. /\ run[p].pc = "files" /\ run[p].pending = {} /\ Goes(p, r)
          /\ snapshots' = snapshots \cup {s} /\ objects' = objects
      BY <1>7 DEF WriteManifest
    <2>3. s.at = run[p].at /\ s.database = run[p].database /\ s.files = run[p].files
      OBVIOUS
    <2> HIDE DEF r, s
    <2>4. /\ \A q \in Processes : q = p
          /\ run'[p] = r /\ run[p].at = now /\ now' = now /\ harmed' = harmed /\ Locks'
      BY <2>1, <2>2, GoesKeeps
    <2>5. s.at \notin harmed => Needs(s) \subseteq objects
      BY <2>2, <2>3 DEF Needs, IInv, KnownIsThere, AllIsKnown
    <2>6. (\A u \in snapshots' : u.at <= now') /\ SnapshotsWhole'
      BY <2>2, <2>3, <2>4, <2>5, <1>t DEF IInv, SnapshotsWhole, Needs, TypeOK
    <2>7. Pruning'
      BY <2>1, <2>2, <2>3, <2>4 DEF Pruning, Times
    <2> QED
      BY <2>1, <2>2, <2>4, <2>6, <2>7 DEF Rest, KnownIsThere, AllIsKnown
  <1>8. ASSUME NEW p \in Processes, ReadManifests(p) PROVE Rest'
    <2> DEFINE r == [run[p] EXCEPT !.pc = "snapshots", !.drop = snapshots \ Kept,
                                   !.needed = NeededByKept]
    <2>1. /\ r.pc = "snapshots" /\ r.drop = snapshots \ Kept /\ r.needed = NeededByKept
          /\ r.at = run[p].at
      BY RunTyped, <1>t DEF Run
    <2>2. Goes(p, r) /\ run[p].pc = "prune" /\ UNCHANGED <<objects, snapshots>>
      BY <1>8 DEF ReadManifests, repository
    <2> HIDE DEF r
    <2>3. /\ \A q \in Processes : q = p
          /\ run'[p] = r /\ run[p].at = now /\ now' = now /\ harmed' = harmed /\ Locks'
      BY <2>1, <2>2, GoesKeeps
    <2>4. snapshots \ r.drop = Kept
      BY <2>1 DEF Kept
    <2>5. PICK s \in snapshots : s.at = run[p].at
      BY <2>2 DEF IInv, Pruning, Times
    <2>6. run[p].at \in Keep(Times)
      BY <2>3, <2>5, KeepsNewest DEF IInv, Times
    <2>7. s \in Kept
      BY <2>5, <2>6 DEF Kept
    <2>8. \A u \in r.drop : u.at < r.at
      BY <2>1, <2>3, <2>6, <1>s, <1>t DEF Kept, IInv, TypeOK
    <2>9. Pruning'
      BY <2>1, <2>2, <2>3, <2>4, <2>5, <2>7, <2>8 DEF Pruning, NeededByKept, NeededBy
    <2> QED
      BY <2>1, <2>2, <2>3, <2>9 DEF Rest, IInv, KnownIsThere, AllIsKnown, SnapshotsWhole
  <1>9. ASSUME NEW p \in Processes, RemoveSnapshot(p) PROVE Rest'
    <2>1. PICK s \in run[p].drop : /\ snapshots' = snapshots \ {s}
                                   /\ Goes(p, [run[p] EXCEPT !.drop = @ \ {s}])
      BY <1>9 DEF RemoveSnapshot
    <2> DEFINE r == [run[p] EXCEPT !.drop = @ \ {s}]
    <2>2. /\ r.pc = run[p].pc /\ r.drop = run[p].drop \ {s} /\ r.needed = run[p].needed
          /\ r.at = run[p].at
      BY RunTyped, <1>t DEF Run
    <2>3. run[p].pc = "snapshots" /\ objects' = objects
      BY <1>9 DEF RemoveSnapshot
    <2>4. Goes(p, r)
      BY <2>1
    <2> HIDE DEF r
    <2>5. /\ \A q \in Processes : q = p
          /\ run'[p] = r /\ now' = now /\ harmed' = harmed /\ Locks'
      BY <2>2, <2>3, <2>4, GoesKeeps
    <2>6. snapshots' \ r.drop = snapshots \ run[p].drop
      BY <2>1, <2>2
    <2>7. Pruning'
      BY <2>2, <2>3, <2>5, <2>6 DEF IInv, Pruning, NeededBy
    <2> QED
      BY <2>1, <2>2, <2>3, <2>5, <2>7 DEF Rest, IInv, KnownIsThere, AllIsKnown, SnapshotsWhole
  <1>10. ASSUME NEW p \in Processes, ListDoomed(p) PROVE Rest'
    <2> DEFINE r == [run[p] EXCEPT !.pc = "objects", !.doomed = objects \ run[p].needed]
    <2>1. /\ r.pc = "objects" /\ r.doomed = objects \ run[p].needed /\ r.needed = run[p].needed
          /\ r.at = run[p].at
      BY RunTyped, <1>t DEF Run
    <2>2. /\ Goes(p, r) /\ run[p].pc = "snapshots" /\ run[p].drop = {}
          /\ UNCHANGED <<objects, snapshots>>
      BY <1>10 DEF ListDoomed, repository
    <2> HIDE DEF r
    <2>3. (\A q \in Processes : q = p) /\ run'[p] = r /\ now' = now /\ harmed' = harmed /\ Locks'
      BY <2>1, <2>2, GoesKeeps
    <2>4. run[p].needed = NeededBy(snapshots)
      BY <2>2 DEF IInv, Pruning
    <2>5. Pruning'
      BY <2>1, <2>2, <2>3, <2>4 DEF Pruning, NeededBy
    <2> QED
      BY <2>1, <2>2, <2>3, <2>5 DEF Rest, IInv, KnownIsThere, AllIsKnown, SnapshotsWhole
  <1>11. ASSUME NEW p \in Processes, RemoveObject(p) PROVE Rest'
    <2>1. PICK o \in run[p].doomed : /\ objects' = objects \ {o}
                                     /\ Goes(p, [run[p] EXCEPT !.doomed = @ \ {o}])
      BY <1>11 DEF RemoveObject
    <2> DEFINE r == [run[p] EXCEPT !.doomed = @ \ {o}]
    <2>2. /\ r.pc = run[p].pc /\ r.doomed = run[p].doomed \ {o} /\ r.needed = run[p].needed
          /\ r.at = run[p].at
      BY RunTyped, <1>t DEF Run
    <2>3. run[p].pc = "objects" /\ snapshots' = snapshots
      BY <1>11 DEF RemoveObject
    <2>4. Goes(p, r)
      BY <2>1
    <2> HIDE DEF r
    <2>5. (\A q \in Processes : q = p) /\ run'[p] = r /\ now' = now /\ harmed' = harmed /\ Locks'
      BY <2>2, <2>3, <2>4, GoesKeeps
    <2>6. /\ run[p].needed = NeededBy(snapshots) /\ run[p].doomed \cap run[p].needed = {}
          /\ objects \subseteq run[p].needed \cup run[p].doomed
      BY <2>3 DEF IInv, Pruning
    <2>7. SnapshotsWhole'
      BY <2>1, <2>3, <2>5, <2>6 DEF IInv, SnapshotsWhole, NeededBy
    <2>8. Pruning'
      BY <2>1, <2>2, <2>3, <2>5, <2>6 DEF Pruning, NeededBy
    <2> QED
      BY <2>2, <2>3, <2>5, <2>7, <2>8 DEF Rest, IInv, KnownIsThere, AllIsKnown
  <1>12. ASSUME NEW p \in Processes, Finish(p) \/ GiveUp(p) \/ Crash(p) \/ CloseFetched(p)
         PROVE  Rest'
    BY <1>12, ReleaseKeeps DEF Finish, GiveUp, Crash, CloseFetched, repository
  <1>13. ASSUME NEW p \in Processes, Fetch(p) PROVE Rest'
    <2>1. PICK s \in snapshots :
            restore' = [restore EXCEPT ![p] = [stage |-> "fetch", of |-> {s}, todo |-> s.files]]
      BY <1>13 DEF Fetch
    <2>2. restore'[p].of = {s} /\ busy'[p] = "restore"
      BY <2>1, <1>13, <1>t DEF Fetch, TypeOK
    <2>3. run[p].pc = "idle" /\ UNCHANGED <<objects, snapshots, run, now, harmed>>
      BY <1>13, <1>t DEF Fetch, TryLock, repository, IInv, Locks
    <2> QED
      BY <1>o, <2>1, <2>2, <2>3
         DEF Rest, IInv, Locks, KnownIsThere, AllIsKnown, Pruning, SnapshotsWhole, Times
  <1>14. ASSUME NEW p \in Processes, ReplaceDatabase(p) \/ PutBackFile(p) PROVE Rest'
    <2>1. /\ UNCHANGED <<objects, snapshots, busy, run, now, harmed>>
          /\ \A q \in Processes : restore'[q].of = restore[q].of
      BY <1>14, <1>t DEF ReplaceDatabase, PutBackFile, repository, TypeOK
    <2> QED
      BY <2>1 DEF Rest, IInv, Locks, KnownIsThere, AllIsKnown, Pruning, SnapshotsWhole, Times
  <1>15. ASSUME ServerWorks \/ UNCHANGED vars PROVE Rest'
    <2>1. UNCHANGED <<objects, snapshots, busy, run, restore, now, harmed>>
      BY <1>15 DEF ServerWorks, repository, vars
    <2> QED
      BY <2>1 DEF Rest, IInv, Locks, KnownIsThere, AllIsKnown, Pruning, SnapshotsWhole, Times
  <1>16. ASSUME Lose PROVE Rest'
    <2>1. PICK o \in objects :
            /\ objects' = objects \ {o}
            /\ harmed' = harmed \cup {s.at : s \in {u \in snapshots : o \in Needs(u)}}
                                \cup {run[p].at : p \in Processes}
      BY <1>16 DEF Lose
    <2>2. UNCHANGED <<snapshots, busy, run, restore, now>>
      BY <1>16 DEF Lose
    <2>3. KnownIsThere'
      BY <2>1, <2>2 DEF KnownIsThere
    <2>4. SnapshotsWhole'
      BY <2>1, <2>2 DEF IInv, SnapshotsWhole
    <2>5. Locks' /\ AllIsKnown' /\ \A s \in snapshots' : s.at <= now'
      BY <2>2 DEF IInv, Locks, AllIsKnown
    <2>6. Pruning'
      BY <2>1, <2>2 DEF IInv, Pruning, Times
    <2> QED
      BY <2>3, <2>4, <2>5, <2>6 DEF Rest
  <1> QED
    BY <1>1, <1>2, <1>3, <1>4, <1>5, <1>6, <1>7, <1>8, <1>9, <1>10, <1>11, <1>12, <1>13, <1>14,
       <1>15, <1>16, <1>t DEF Next, BackUp, PutBack, Rest, IInv

(***************************************************************************)
(* Theorems                                                                *)
(***************************************************************************)
(* The invariant holds in every state of a repository with one process.    *)
THEOREM Invariance == ASSUME OneProcess PROVE Spec => []IInv
  <1>1. IInv /\ [Next]_vars => IInv'
    BY InvNext
  <1> QED
    BY <1>1, InvInit, PTL DEF Spec

(* However runs are cut off, what the listing shows is complete.           *)
THEOREM WholeAlways == ASSUME OneProcess PROVE Spec => []SnapshotsWhole
  <1>1. IInv => SnapshotsWhole
    BY DEF IInv
  <1> QED
    BY <1>1, Invariance, PTL

(* A restore into the running server finds every object of its snapshot.   *)
THEOREM RestoreAlways == ASSUME OneProcess PROVE Spec => []RestoreFindsAll
  <1>1. IInv => RestoreFindsAll
    BY DEF IInv, RestoreFindsAll, Locks, SnapshotsWhole
  <1> QED
    BY <1>1, Invariance, PTL

(* The newest snapshot is never removed, whatever the retention.           *)
THEOREM NewestAlways == ASSUME OneProcess PROVE Spec => NewestStays
  <1>1. ASSUME IInv, [Next]_vars PROVE Newest \cap snapshots' = Newest
    <2>1. CASE snapshots \subseteq snapshots'
      BY <2>1 DEF Newest
    <2>2. ASSUME NEW p \in Processes, RemoveSnapshot(p) PROVE Newest \cap snapshots' = Newest
      <3>1. PICK s \in run[p].drop : snapshots' = snapshots \ {s}
        BY <2>2 DEF RemoveSnapshot
      <3>2. /\ s.at < run[p].at
            /\ run[p].at \in {v.at : v \in snapshots \ run[p].drop}
        BY <2>2, <3>1, <1>1 DEF RemoveSnapshot, IInv, Pruning
      <3>3. PICK u \in snapshots : s.at < u.at
        BY <3>2
      <3>4. s.at \in Nat /\ u.at \in Nat
        <4>1. TypeOK
          BY <1>1 DEF IInv
        <4>2. s \in Manifest /\ u \in Manifest
          BY <4>1, RunTyped DEF TypeOK
        <4> QED
          BY <4>2 DEF Manifest
      <3>5. s \notin Newest
        BY <3>3, <3>4 DEF Newest
      <3> QED
        BY <3>1, <3>5 DEF Newest
    <2> QED
      BY <1>1, <2>1, <2>2
         DEF Next, BackUp, PutBack, RunNow, ListObjects, CopyDatabase, PutChunk, ListFiles,
             BackUpFile, WriteManifest, ReadManifests, ListDoomed, RemoveObject, Finish, GiveUp,
             Crash, Fetch, ReplaceDatabase, PutBackFile, CloseFetched, ServerWorks, Lose,
             repository, vars
  <1> QED
    BY <1>1, Invariance, PTL DEF Spec, NewestStays

(* What a run that ends well leaves in the repository, some snapshot needs. *)
THEOREM NothingLeftAlways == ASSUME OneProcess PROVE Spec => NothingLeftOver
  <1>1. ASSUME IInv, NEW p \in Processes, Finish(p) PROVE objects' \subseteq NeededBy(snapshots')
    <2>1. run[p].pc = "objects" /\ run[p].doomed = {} /\ UNCHANGED <<objects, snapshots>>
      BY <1>1 DEF Finish, repository
    <2>2. objects \subseteq NeededBy(snapshots)
      BY <1>1, <2>1 DEF IInv, Pruning
    <2> QED
      BY <2>1, <2>2 DEF NeededBy
  <1>2. IInv => \A p \in Processes : Finish(p) => objects' \subseteq NeededBy(snapshots')
    BY <1>1
  <1> QED
    BY <1>2, Invariance, PTL DEF Spec, NothingLeftOver

(***************************************************************************)
(* The promise of Snapshots, with one process                              *)
(***************************************************************************)
(* What the refinement needs besides: the run of now is no older than what *)
(* was lost, has no files before it lists them, and a restore has its      *)
(* snapshot.                                                               *)
Extra ==
    /\ \A h \in harmed : h <= now
    /\ \A p \in Processes :
          /\ run[p].at <= now
          /\ run[p].pc = "database" => run[p].files = {}
          /\ restore[p].stage # "none" => restore[p].of # {}

LEMMA ExtraInit == Init => Extra
  BY IdleIsRun DEF Init, Extra, NoRestore, Idle

(* A run's steps leave its time, and list files after the database.        *)
LEMMA GoesExtra ==
    ASSUME OneProcess, IInv, Extra, NEW p \in Processes, NEW r, Goes(p, r), r.at = run[p].at,
           r.pc = "database" => r.files = {}
    PROVE  Extra'
  <1>1. \A q \in Processes : q = p
    BY DEF OneProcess
  <1>2. run'[p] = r
    BY DEF Goes, IInv, TypeOK
  <1> QED
    BY <1>1, <1>2 DEF Goes, Extra

LEMMA ExtraNext == ASSUME OneProcess, IInv, IInv', Extra, [Next]_vars PROVE Extra'
  <1>t. TypeOK /\ TypeOK' /\ now \in Nat
    BY DEF IInv, TypeOK
  <1>o. \A p, q \in Processes : p = q
    BY DEF OneProcess
  <1>1. ASSUME NEW p \in Processes, RunNow(p) PROVE Extra'
    <2>1. PICK t \in (now + 1)..MaxTime : now' = t /\ run' = [run EXCEPT ![p] = Begun(t)]
      BY <1>1 DEF RunNow
    <2>2. run'[p].pc = "list" /\ run'[p].at = t
      BY <1>t, <2>1 DEF TypeOK, Begun, Idle
    <2>3. \A h \in harmed : h \in Nat
      BY <1>t DEF TypeOK
    <2> QED
      BY <1>1, <1>o, <1>t, <2>1, <2>2, <2>3, OffsiteBounds DEF RunNow, Extra
  <1>2. ASSUME NEW p \in Processes, ListObjects(p) PROVE Extra'
    <2> DEFINE r == [run[p] EXCEPT !.pc = "copy", !.known = objects,
                                   !.previous = UNION {s.files : s \in Newest}]
    <2>1. r.pc = "copy" /\ r.at = run[p].at
      BY RunTyped, <1>t DEF Run
    <2> QED
      BY <1>2, <2>1, GoesExtra DEF ListObjects
  <1>3. ASSUME NEW p \in Processes, CopyDatabase(p) PROVE Extra'
    <2> DEFINE r == [run[p] EXCEPT !.pc = "database", !.database = db,
                                   !.pending = Chunks[db] \ run[p].known]
    <2>1. r.files = run[p].files /\ r.at = run[p].at
      BY RunTyped, <1>t DEF Run
    <2>2. run[p].files = {}
      BY <1>3 DEF CopyDatabase, IInv, AllIsKnown
    <2> QED
      BY <1>3, <2>1, <2>2, GoesExtra DEF CopyDatabase
  <1>4. ASSUME NEW p \in Processes, PutChunk(p) PROVE Extra'
    <2>1. PICK o \in run[p].pending :
            Goes(p, [run[p] EXCEPT !.known = @ \cup {o}, !.pending = @ \ {o}])
      BY <1>4 DEF PutChunk
    <2> DEFINE r == [run[p] EXCEPT !.known = @ \cup {o}, !.pending = @ \ {o}]
    <2>2. r.pc = run[p].pc /\ r.at = run[p].at /\ r.files = run[p].files
      BY RunTyped, <1>t DEF Run
    <2> QED
      BY <2>1, <2>2, GoesExtra DEF Extra
  <1>5. ASSUME NEW p \in Processes, ListFiles(p) PROVE Extra'
    <2> DEFINE r == [run[p] EXCEPT !.pc = "files", !.todo = data]
    <2>1. r.pc = "files" /\ r.at = run[p].at
      BY RunTyped, <1>t DEF Run
    <2> QED
      BY <1>5, <2>1, GoesExtra DEF ListFiles
  <1>6. ASSUME NEW p \in Processes, BackUpFile(p) PROVE Extra'
    <2>1. PICK f, files, pending :
            Goes(p, [run[p] EXCEPT !.todo = @ \ {f}, !.files = files, !.pending = pending])
      BY <1>6 DEF BackUpFile, Entered
    <2> DEFINE r == [run[p] EXCEPT !.todo = @ \ {f}, !.files = files, !.pending = pending]
    <2>2. r.pc = "files" /\ r.at = run[p].at
      BY <1>6, RunTyped, <1>t DEF Run, BackUpFile
    <2> QED
      BY <2>1, <2>2, GoesExtra
  <1>7. ASSUME NEW p \in Processes, WriteManifest(p) \/ ReadManifests(p) \/ ListDoomed(p)
        PROVE  Extra'
    <2> DEFINE r1 == [run[p] EXCEPT !.pc = "prune"]
               r2 == [run[p] EXCEPT !.pc = "snapshots", !.drop = snapshots \ Kept,
                                    !.needed = NeededByKept]
               r3 == [run[p] EXCEPT !.pc = "objects", !.doomed = objects \ run[p].needed]
    <2>1. \A r \in {r1, r2, r3} : r.pc # "database" /\ r.at = run[p].at
      BY RunTyped, <1>t DEF Run
    <2> QED
      BY <1>7, <2>1, GoesExtra DEF WriteManifest, ReadManifests, ListDoomed
  <1>8. ASSUME NEW p \in Processes, RemoveSnapshot(p) \/ RemoveObject(p) PROVE Extra'
    <2>1. PICK drop, doomed : Goes(p, [run[p] EXCEPT !.drop = drop, !.doomed = doomed])
      <3>1. \A x : /\ [run[p] EXCEPT !.drop = x]
                      = [run[p] EXCEPT !.drop = x, !.doomed = run[p].doomed]
                   /\ [run[p] EXCEPT !.doomed = x]
                      = [run[p] EXCEPT !.drop = run[p].drop, !.doomed = x]
        BY RunTyped, <1>t DEF Run
      <3> QED
        BY <1>8, <3>1 DEF RemoveSnapshot, RemoveObject
    <2> DEFINE r == [run[p] EXCEPT !.drop = drop, !.doomed = doomed]
    <2>2. r.pc # "database" /\ r.at = run[p].at
      BY <1>8, RunTyped, <1>t DEF Run, RemoveSnapshot, RemoveObject
    <2> QED
      BY <2>1, <2>2, GoesExtra
  <1>9. ASSUME NEW p \in Processes, Finish(p) \/ GiveUp(p) \/ Crash(p) \/ CloseFetched(p)
        PROVE  Extra'
    <2>1. run'[p] = Idle /\ restore'[p] = NoRestore /\ now' = now /\ harmed' = harmed
      BY <1>9, <1>t DEF Finish, GiveUp, Crash, CloseFetched, Release, TypeOK
    <2>2. run'[p].at = 0 /\ run'[p].pc = "idle" /\ restore'[p].stage = "none"
      BY <2>1 DEF Idle, NoRestore
    <2> QED
      BY <1>o, <1>t, <2>1, <2>2 DEF Extra
  <1>10. ASSUME NEW p \in Processes, Fetch(p) PROVE Extra'
    <2>1. restore'[p].of # {} /\ UNCHANGED <<run, now, harmed>>
      BY <1>10, <1>t DEF Fetch, TypeOK
    <2> QED
      BY <1>o, <2>1 DEF Extra
  <1>11. ASSUME NEW p \in Processes, ReplaceDatabase(p) \/ PutBackFile(p) PROVE Extra'
    <2>1. /\ UNCHANGED <<run, now, harmed>> /\ restore[p].stage # "none"
          /\ restore'[p].of = restore[p].of
      BY <1>11, <1>t DEF ReplaceDatabase, PutBackFile, TypeOK
    <2> QED
      BY <1>o, <2>1 DEF Extra
  <1>12. CASE ServerWorks \/ UNCHANGED vars
    BY <1>12 DEF ServerWorks, Extra, vars
  <1>13. CASE Lose
    <2>1. \A s \in snapshots : s.at <= now
      BY DEF IInv
    <2> QED
      BY <1>13, <2>1 DEF Lose, Extra
  <1> QED
    BY <1>1, <1>2, <1>3, <1>4, <1>5, <1>6, <1>7, <1>8, <1>9, <1>10, <1>11, <1>12, <1>13
       DEF Next, BackUp, PutBack

Is(r) == IF r.at \in harmed THEN "harmed" ELSE "whole"

Shown == [q \in Processes |-> Making(q)]

LEMMA ShownInit == Init => Promise!Init
  <1> SUFFICES ASSUME Init PROVE Promise!Init
    OBVIOUS
  <1>1. \A p \in Processes : Making(p) = [stage |-> "none"]
    BY IdleIsRun DEF Init, Making
  <1>2. Readable = {}
    BY DEF Init, Readable
  <1> QED
    BY <1>1, <1>2 DEF Init, NoRestore, Promise!Init, Promise!Nothing, Promise!NoRestore

LEMMA ShownMakes ==
    ASSUME OneProcess, NEW p \in Processes, NEW m, Making(p)' = m
    PROVE  Promise!Makes(p, m) /\ Shown[p] = Making(p)
  BY DEF OneProcess, Promise!Makes, Shown

(* A step that shows nothing. *)
LEMMA ShownSame ==
    ASSUME OneProcess, NEW p \in Processes, Making(p)' = Making(p), Readable' = Readable,
           UNCHANGED <<data, db, snapshots, restore>>
    PROVE  UNCHANGED Promise!vars
  BY DEF OneProcess, Promise!vars

(* Every step of the repository is one of the list, or shows nothing.      *)
LEMMA ShownNext ==
    ASSUME OneProcess, IInv, IInv', Extra, [Next]_vars
    PROVE  Promise!Next \/ UNCHANGED Promise!vars
  <1>t. TypeOK /\ now \in Nat
    BY DEF IInv, TypeOK
  <1>o. \A p, q \in Processes : p = q
    BY DEF OneProcess
  <1>1. ASSUME NEW p \in Processes, RunNow(p) PROVE Promise!Begin(p)
    <2>1. PICK t \in (now + 1)..MaxTime : now' = t /\ run' = [run EXCEPT ![p] = Begun(t)]
      BY <1>1 DEF RunNow
    <2>2. run'[p].pc = "list" /\ run'[p].at = t /\ t \in 1..MaxTime /\ t > now
      BY <1>t, <2>1, OffsiteBounds DEF TypeOK, Begun, Idle
    <2>3. run[p].pc = "idle" /\ restore[p].stage = "none"
      BY <1>1, <1>t DEF RunNow, TryLock, IInv, Locks, Extra
    <2>4. harmed' = harmed /\ t \notin harmed
      BY <1>1, <1>t, <2>2 DEF RunNow, Extra, TypeOK
    <2>5. Making(p)' = [stage |-> "begun", at |-> t, is |-> "whole"]
      BY <2>2, <2>4 DEF Making, Is
    <2>6. Making(p) = [stage |-> "none"]
      BY <2>3 DEF Making, Is
    <2>7. \A s \in snapshots : s.at < t
      BY <1>t, <2>2 DEF IInv, TypeOK, Manifest
    <2>8. Readable' = Readable /\ UNCHANGED <<data, db, snapshots, restore>>
      BY <1>1 DEF RunNow, Readable
    <2>9. /\ Promise!Makes(p, [stage |-> "begun", at |-> t, is |-> "whole"])
          /\ Shown[p] = Making(p)
      BY <2>5, ShownMakes
    <2>10. Shown[p] = [stage |-> "none"]
      BY <2>6, <2>9
    <2>11. Promise!Free(p)
      BY <2>3, <2>10 DEF Promise!Free, Shown
    <2> QED
      BY <2>2, <2>7, <2>8, <2>9, <2>11 DEF Promise!Begin, Shown
  <1>2. ASSUME NEW p \in Processes, ListObjects(p) PROVE UNCHANGED Promise!vars
    <2> DEFINE r == [run[p] EXCEPT !.pc = "copy", !.known = objects,
                                   !.previous = UNION {s.files : s \in Newest}]
    <2>1. r.pc = "copy" /\ r.at = run[p].at
      BY RunTyped, <1>t DEF Run
    <2>2. Goes(p, r) /\ run[p].pc = "list" /\ UNCHANGED <<objects, snapshots>>
      BY <1>2 DEF ListObjects, repository
    <2> HIDE DEF r
    <2>3. run'[p] = r
      BY <2>2, <1>t DEF Goes, TypeOK
    <2>4. Making(p)' = Making(p) /\ Readable' = Readable
      BY <2>1, <2>2, <2>3 DEF Making, Readable, Goes, Is
    <2> QED
      BY <2>2, <2>4, ShownSame DEF Goes
  <1>3. ASSUME NEW p \in Processes, CopyDatabase(p) PROVE Promise!Copy(p)
    <2> DEFINE r == [run[p] EXCEPT !.pc = "database", !.database = db,
                                   !.pending = Chunks[db] \ run[p].known]
    <2>1. r.pc = "database" /\ r.at = run[p].at /\ r.database = db
      BY RunTyped, <1>t DEF Run
    <2>2. Goes(p, r) /\ run[p].pc = "copy" /\ UNCHANGED <<objects, snapshots>>
      BY <1>3 DEF CopyDatabase, repository
    <2> HIDE DEF r
    <2>3. run'[p] = r
      BY <2>2, <1>t DEF Goes, TypeOK
    <2>4. Making(p) = [stage |-> "begun", at |-> run[p].at, is |-> Is(run[p])]
      BY <2>2 DEF Making, Is
    <2> DEFINE m == [stage |-> "copied", at |-> Making(p).at, is |-> Making(p).is,
                     database |-> db]
    <2>5. Making(p)' = m /\ Readable' = Readable
      BY <2>1, <2>2, <2>3, <2>4 DEF Making, Readable, Goes, Is
    <2>6. Promise!Makes(p, m) /\ Shown[p] = Making(p)
      BY <2>5, ShownMakes
    <2> QED
      BY <2>2, <2>4, <2>5, <2>6 DEF Promise!Copy, Shown, Goes
  <1>4. ASSUME NEW p \in Processes, PutChunk(p) PROVE Promise!Mend(p) \/ UNCHANGED Promise!vars
    <2>1. PICK o \in run[p].pending :
            /\ objects' = objects \cup {o}
            /\ Goes(p, [run[p] EXCEPT !.known = @ \cup {o}, !.pending = @ \ {o}])
      BY <1>4 DEF PutChunk
    <2> DEFINE r == [run[p] EXCEPT !.known = @ \cup {o}, !.pending = @ \ {o}]
    <2>2. /\ r.pc = run[p].pc /\ r.at = run[p].at /\ r.files = run[p].files
          /\ r.database = run[p].database /\ r.todo = run[p].todo
      BY RunTyped, <1>t DEF Run
    <2>3. run[p].pc \in {"database", "files"} /\ snapshots' = snapshots
      BY <1>4 DEF PutChunk
    <2> HIDE DEF r
    <2>4. run'[p] = r
      BY <2>1, <1>t DEF Goes, TypeOK, r
    <2>5. Making(p)' = Making(p)
      BY <2>1, <2>2, <2>3, <2>4 DEF Making, Goes, Is
    <2>6. Making(p).stage \in {"copied", "files"}
      BY <2>3 DEF Making, Is
    <2>7. Readable \subseteq Readable' /\ Readable' \subseteq snapshots
      BY <2>1, <2>3 DEF Readable
    <2>8. Shown' = Shown
      BY <1>o, <2>5 DEF Shown
    <2> QED
      BY <2>1, <2>3, <2>6, <2>7, <2>8 DEF Promise!Mend, Shown, Goes
  <1>5. ASSUME NEW p \in Processes, ListFiles(p) PROVE Promise!ListFiles(p)
    <2> DEFINE r == [run[p] EXCEPT !.pc = "files", !.todo = data]
    <2>1. /\ r.pc = "files" /\ r.at = run[p].at /\ r.files = run[p].files
          /\ r.database = run[p].database /\ r.todo = data
      BY RunTyped, <1>t DEF Run
    <2>2. Goes(p, r) /\ run[p].pc = "database" /\ UNCHANGED <<objects, snapshots>>
      BY <1>5 DEF ListFiles, repository
    <2> HIDE DEF r
    <2>3. run'[p] = r /\ run[p].files = {}
      BY <2>2, <1>t DEF Goes, TypeOK, Extra
    <2>4. Making(p) = [stage |-> "copied", at |-> run[p].at, is |-> Is(run[p]),
                       database |-> run[p].database]
      BY <2>2 DEF Making, Is
    <2> DEFINE m == [stage |-> "files", at |-> Making(p).at, is |-> Making(p).is,
                     database |-> Making(p).database, files |-> {}, todo |-> data]
    <2>5. Making(p)' = m /\ Readable' = Readable
      BY <2>1, <2>2, <2>3, <2>4 DEF Making, Readable, Goes, Is
    <2>6. Promise!Makes(p, m) /\ Shown[p] = Making(p)
      BY <2>5, ShownMakes
    <2> QED
      BY <2>2, <2>4, <2>5, <2>6 DEF Promise!ListFiles, Promise!With, Shown, Goes
  <1>6. ASSUME NEW p \in Processes, BackUpFile(p) PROVE Promise!TakeFile(p)
    <2>1. PICK f \in run[p].todo :
            LET reused == Reused(run[p], f)
                read == ~reused /\ f \in data
            IN Goes(p, [run[p] EXCEPT
                          !.todo = @ \ {f},
                          !.files = IF reused \/ read THEN @ \cup {f} ELSE @,
                          !.pending = IF read THEN Content[f] \ run[p].known ELSE {}])
      BY <1>6 DEF BackUpFile, Entered
    <2> DEFINE read == ~Reused(run[p], f) /\ f \in data
               taken == Reused(run[p], f) \/ read
               r == [run[p] EXCEPT
                       !.todo = @ \ {f},
                       !.files = IF taken THEN @ \cup {f} ELSE @,
                       !.pending = IF read THEN Content[f] \ run[p].known ELSE {}]
    <2>2. /\ r.pc = run[p].pc /\ r.database = run[p].database /\ r.at = run[p].at
          /\ r.todo = run[p].todo \ {f}
          /\ taken => r.files = run[p].files \cup {f}
          /\ ~taken => r.files = run[p].files
      BY RunTyped, <1>t DEF Run
    <2>3. run[p].pc = "files" /\ UNCHANGED <<objects, snapshots>>
      BY <1>6 DEF BackUpFile, repository
    <2>4. Goes(p, r)
      BY <2>1
    <2>5. ~taken => f \notin data
      OBVIOUS
    <2> HIDE DEF r, taken
    <2>6. run'[p] = r
      BY <2>4, <1>t DEF Goes, TypeOK
    <2>7. Making(p) = [stage |-> "files", at |-> run[p].at, is |-> Is(run[p]),
                       database |-> run[p].database, files |-> run[p].files,
                       todo |-> run[p].todo]
      BY <2>3 DEF Making, Is
    <2>8. Making(p)' = [stage |-> "files", at |-> r.at, is |-> Is(r),
                        database |-> r.database, files |-> r.files, todo |-> r.todo]
      BY <2>2, <2>3, <2>4, <2>6 DEF Making, Goes, Is
    <2> DEFINE m == Making(p)
               todo == m.todo \ {f}
    <2>9. /\ taken => Making(p)' = Promise!With(m, m.files \cup {f}, todo)
          /\ ~taken => Making(p)' = Promise!With(m, m.files, todo)
      <3>1. Is(r) = Is(run[p])
        BY <2>2 DEF Is
      <3> QED
        BY <2>2, <2>7, <2>8, <3>1 DEF Promise!With
    <2>10. Making(p).stage = "files" /\ f \in Making(p).todo
      BY <2>7
    <2>11. /\ taken => Promise!Makes(p, Promise!With(m, m.files \cup {f}, todo))
           /\ ~taken => Promise!Makes(p, Promise!With(m, m.files, todo))
           /\ Shown[p] = m
      BY <2>9, ShownMakes DEF Shown
    <2>12. UNCHANGED <<data, db, snapshots, Readable, restore>>
      BY <2>3, <2>4 DEF Goes, Readable
    <2> QED
      BY <2>5, <2>10, <2>11, <2>12 DEF Promise!TakeFile, Shown
  <1>7. ASSUME NEW p \in Processes, WriteManifest(p) PROVE Promise!Complete(p)
    <2> DEFINE r == [run[p] EXCEPT !.pc = "prune"]
               s == [at |-> run[p].at, database |-> run[p].database, files |-> run[p].files]
    <2>1. r.pc = "prune"
      BY RunTyped, <1>t DEF Run
    <2>2. /\ run[p].pc = "files" /\ run[p].pending = {} /\ run[p].todo = {} /\ Goes(p, r)
          /\ snapshots' = snapshots \cup {s} /\ objects' = objects
      BY <1>7 DEF WriteManifest
    <2>3. s.database = run[p].database /\ s.files = run[p].files
      OBVIOUS
    <2>4. Making(p) = [stage |-> "files", at |-> run[p].at, is |-> Is(run[p]),
                       database |-> run[p].database, files |-> run[p].files,
                       todo |-> run[p].todo]
      BY <2>2 DEF Making, Is
    <2>5. s = [at |-> Making(p).at, database |-> Making(p).database, files |-> Making(p).files]
      BY <2>4
    <2> HIDE DEF r, s
    <2>6. run'[p] = r
      BY <2>2, <1>t DEF Goes, TypeOK
    <2>7. Making(p)' = [stage |-> "made"]
      BY <2>1, <2>6 DEF Making, Is
    <2>8. run[p].at \notin harmed => Needs(s) \subseteq objects
      BY <2>2, <2>3 DEF Needs, IInv, KnownIsThere, AllIsKnown
    <2>9. /\ Needs(s) \subseteq objects => Readable' = Readable \cup {s}
          /\ ~(Needs(s) \subseteq objects) => Readable' = Readable
      BY <2>2 DEF Readable
    <2>10. \/ Readable' = Readable \cup {s}
           \/ Making(p).is = "harmed" /\ Readable' = Readable
      <3>1. run[p].at \in harmed => Making(p).is = "harmed"
        BY <2>4 DEF Is
      <3> QED
        BY <2>8, <2>9, <3>1
    <2>11. Promise!Makes(p, [stage |-> "made"]) /\ Shown[p] = Making(p)
      BY <2>7, ShownMakes
    <2>12. Making(p).stage = "files" /\ Making(p).todo = {}
      BY <2>2, <2>4
    <2> QED
      BY <2>2, <2>5, <2>10, <2>11, <2>12 DEF Promise!Complete, Shown, Goes
  <1>8. ASSUME NEW p \in Processes, ReadManifests(p) \/ ListDoomed(p)
        PROVE  UNCHANGED Promise!vars
    <2> DEFINE r2 == [run[p] EXCEPT !.pc = "snapshots", !.drop = snapshots \ Kept,
                                    !.needed = NeededByKept]
               r3 == [run[p] EXCEPT !.pc = "objects", !.doomed = objects \ run[p].needed]
    <2>1. r2.pc = "snapshots" /\ r3.pc = "objects"
      BY RunTyped, <1>t DEF Run
    <2>2. PICK r \in {r2, r3} : Goes(p, r) /\ run[p].pc \in {"prune", "snapshots"}
                                 /\ UNCHANGED <<objects, snapshots>>
      BY <1>8 DEF ReadManifests, ListDoomed, repository
    <2> HIDE DEF r2, r3
    <2>3. run'[p] = r
      BY <2>2, <1>t DEF Goes, TypeOK
    <2>4. Making(p)' = Making(p) /\ Readable' = Readable
      BY <2>1, <2>2, <2>3 DEF Making, Readable, Is
    <2> QED
      BY <2>2, <2>4, ShownSame DEF Goes
  <1>9. ASSUME NEW p \in Processes, RemoveSnapshot(p)
        PROVE  Promise!Forget(p) \/ UNCHANGED Promise!vars
    <2>1. PICK s \in run[p].drop : /\ snapshots' = snapshots \ {s}
                                   /\ Goes(p, [run[p] EXCEPT !.drop = @ \ {s}])
      BY <1>9 DEF RemoveSnapshot
    <2> DEFINE r == [run[p] EXCEPT !.drop = @ \ {s}]
    <2>2. r.pc = "snapshots" /\ run[p].pc = "snapshots" /\ objects' = objects
      BY <1>9, RunTyped, <1>t DEF RemoveSnapshot, Run
    <2>3. Goes(p, r)
      BY <2>1
    <2> HIDE DEF r
    <2>4. run'[p] = r
      BY <2>3, <1>t DEF Goes, TypeOK
    <2>5. Making(p)' = Making(p) /\ Making(p).stage = "made"
      BY <2>2, <2>4 DEF Making, Is
    <2>6. Shown' = Shown
      BY <1>o, <2>5 DEF Shown
    <2>7. PICK u \in snapshots : s.at < u.at
      BY <2>2 DEF IInv, Pruning
    <2>8. s.at \in Nat /\ u.at \in Nat
      BY <1>t, RunTyped DEF TypeOK, Manifest
    <2>9. ~(\A v \in snapshots : v.at <= s.at)
      BY <2>7, <2>8
    <2>10. Readable' = Readable \ {s}
      BY <2>1, <2>2 DEF Readable
    <2>11. CASE s \in snapshots
      BY <2>1, <2>3, <2>5, <2>6, <2>9, <2>10, <2>11
         DEF Promise!Forget, Promise!Newest, Shown, Goes
    <2>12. CASE s \notin snapshots
      <3>1. snapshots' = snapshots /\ Readable' = Readable
        BY <2>1, <2>10, <2>12 DEF Readable
      <3> QED
        BY <2>3, <2>5, <3>1, ShownSame DEF Goes
    <2> QED
      BY <2>11, <2>12
  <1>10. ASSUME NEW p \in Processes, RemoveObject(p) PROVE UNCHANGED Promise!vars
    <2>1. PICK o \in run[p].doomed : /\ objects' = objects \ {o}
                                     /\ Goes(p, [run[p] EXCEPT !.doomed = @ \ {o}])
      BY <1>10 DEF RemoveObject
    <2> DEFINE r == [run[p] EXCEPT !.doomed = @ \ {o}]
    <2>2. r.pc = "objects" /\ run[p].pc = "objects" /\ snapshots' = snapshots
      BY <1>10, RunTyped, <1>t DEF RemoveObject, Run
    <2>3. Goes(p, r)
      BY <2>1
    <2> HIDE DEF r
    <2>4. run'[p] = r
      BY <2>3, <1>t DEF Goes, TypeOK
    <2>5. Making(p)' = Making(p)
      BY <2>2, <2>4 DEF Making, Is
    <2>6. \A s \in snapshots : o \notin Needs(s)
      BY <2>2 DEF IInv, Pruning, NeededBy
    <2>7. Readable' = Readable
      BY <2>1, <2>2, <2>6 DEF Readable
    <2> QED
      BY <2>2, <2>3, <2>5, <2>7, ShownSame DEF Goes
  <1>11. ASSUME NEW p \in Processes, Finish(p) \/ GiveUp(p) \/ Crash(p) \/ CloseFetched(p)
         PROVE  Promise!Stop(p)
    <2>1. Release(p) /\ UNCHANGED <<data, db, objects, snapshots>>
      BY <1>11 DEF Finish, GiveUp, Crash, CloseFetched, repository
    <2>2. run'[p].pc = "idle"
      BY <2>1, <1>t DEF Release, TypeOK, Idle
    <2>3. Making(p)' = Promise!Nothing
      BY <2>2 DEF Making, Promise!Nothing, Is
    <2>4. Promise!Makes(p, Promise!Nothing)
      BY <2>3, ShownMakes
    <2>5. Readable' = Readable
      BY <2>1 DEF Readable
    <2> QED
      BY <2>1, <2>4, <2>5 DEF Promise!Stop, Promise!NoRestore, Release, NoRestore
  <1>12. ASSUME NEW p \in Processes, Fetch(p) PROVE Promise!Fetch(p)
    <2>1. UNCHANGED <<data, db, snapshots, Readable, Shown>>
      BY <1>12 DEF Fetch, repository, Readable, Shown, Making, Is
    <2>2. run[p].pc = "idle" /\ restore[p].stage = "none"
      BY <1>12, <1>t DEF Fetch, TryLock, IInv, Locks, Extra
    <2>3. Shown[p] = [stage |-> "none"]
      BY <2>2 DEF Shown, Making
    <2>4. Promise!Free(p)
      BY <2>2, <2>3 DEF Promise!Free, Shown
    <2> QED
      BY <1>12, <2>1, <2>4 DEF Fetch, Promise!Fetch, Shown
  <1>13. ASSUME NEW p \in Processes, ReplaceDatabase(p) PROVE Promise!ReplaceDatabase(p)
    <2>1. UNCHANGED <<data, snapshots, Readable, Shown>>
      BY <1>13 DEF ReplaceDatabase, repository, Readable, Shown, Making, Is
    <2>2. restore[p].of \subseteq snapshots
      BY DEF IInv, Locks
    <2> QED
      BY <1>13, <2>1, <2>2 DEF ReplaceDatabase, Promise!ReplaceDatabase, Shown
  <1>14. ASSUME NEW p \in Processes, PutBackFile(p) PROVE Promise!PutBackFile(p)
    <2>1. UNCHANGED <<db, snapshots, Readable, Shown>>
      BY <1>14 DEF PutBackFile, repository, Readable, Shown, Making, Is
    <2>2. restore[p].of \subseteq snapshots
      BY DEF IInv, Locks
    <2> QED
      BY <1>14, <2>1, <2>2 DEF PutBackFile, Promise!PutBackFile, Shown
  <1>15. CASE ServerWorks
    <2>1. UNCHANGED <<snapshots, restore, Readable, Shown>>
      BY <1>15 DEF ServerWorks, repository, Readable, Shown, Making, Is
    <2>2. data' \subseteq Paths /\ db' \in Databases
      BY DEF IInv, TypeOK
    <2> QED
      BY <2>1, <2>2 DEF Promise!Next, Promise!ServerWorks, Shown
  <1>16. CASE Lose
    <2>1. /\ UNCHANGED <<data, db, snapshots, run, restore>>
          /\ objects' \subseteq objects
          /\ \A q \in Processes : run[q].at \in harmed'
      BY <1>16 DEF Lose
    <2>2. Readable' \subseteq Readable
      BY <2>1 DEF Readable
    <2>3. ASSUME NEW q \in Processes
          PROVE  Making(q)' = IF Making(q).stage \in {"begun", "copied", "files"}
                              THEN [Making(q) EXCEPT !.is = "harmed"] ELSE Making(q)
      <3>1. CASE run[q].pc = "idle"
        BY <2>1, <3>1 DEF Making, Is
      <3>2. CASE run[q].pc \in {"list", "copy"}
        BY <2>1, <3>2 DEF Making, Is
      <3>3. CASE run[q].pc = "database"
        BY <2>1, <3>3 DEF Making, Is
      <3>4. CASE run[q].pc = "files"
        BY <2>1, <3>4 DEF Making, Is
      <3>5. CASE run[q].pc \notin {"idle", "list", "copy", "database", "files"}
        BY <2>1, <3>5 DEF Making, Is
      <3> QED
        BY <3>1, <3>2, <3>3, <3>4, <3>5
    <2>4. Shown' = [q \in Processes |->
                      IF Shown[q].stage \in {"begun", "copied", "files"}
                      THEN [Shown[q] EXCEPT !.is = "harmed"] ELSE Shown[q]]
      BY <2>3 DEF Shown
    <2> QED
      BY <2>1, <2>2, <2>4 DEF Promise!Next, Promise!Lose, Shown
  <1>17. CASE UNCHANGED vars
    <2>1. UNCHANGED <<data, db, snapshots, restore, Readable, Shown>>
      BY <1>17 DEF vars, Readable, Shown, Making, Is
    <2> QED
      BY <2>1 DEF Promise!vars, Shown
  <1> QED
    BY <1>1, <1>2, <1>3, <1>4, <1>5, <1>6, <1>7, <1>8, <1>9, <1>10, <1>11, <1>12, <1>13, <1>14,
       <1>15, <1>16, <1>17 DEF Next, BackUp, PutBack, Promise!Next

(* What can be restored is what a plain list of snapshots would have: no   *)
(* shared chunk, no run cut off and no pruning shows in it.                *)
THEOREM SnapshotsImplemented == ASSUME OneProcess PROVE Spec => ImplementsSnapshots
  <1>1. Init => IInv /\ Extra /\ Promise!Init
    BY InvInit, ExtraInit, ShownInit
  <1>2. IInv /\ Extra /\ [Next]_vars => (IInv /\ Extra)' /\ [Promise!Next]_(Promise!vars)
    BY InvNext, ExtraNext, ShownNext
  <1> QED
    BY <1>1, <1>2, PTL DEF Spec, ImplementsSnapshots, Promise!Spec
==============================================================================
