----------------------------- MODULE VaultStore -----------------------------
(***************************************************************************)
(* One account's part of the SQLite store, as far as a delta sync sees it: *)
(* the rows of the vault, the account's change counter, the number of each *)
(* row's last change, the tombstones of what is gone, the epochs that make *)
(* a cursor start over, travel mode, and a backup put back.                *)
(*                                                                         *)
(* Every write of the program is one IMMEDIATE transaction behind one      *)
(* writer lock (uwulock-store/src/sqlite.rs), so each operation is one     *)
(* action.  The numbers are handed out by the triggers of migration 0012   *)
(* inside the transaction; an operator that writes rows therefore always   *)
(* goes through Rewritten.  A row's content is the stamp of the write that *)
(* made it, so two contents are equal only when they are the same write.   *)
(* An insert moves the counter on twice (its own trigger and the update    *)
(* trigger that one fires); the number skipped is no row's and is left     *)
(* out.  An item given to an organisation, attachments, Suite records and  *)
(* UwULock's own extras have the same triggers and are left out here.      *)
(***************************************************************************)
EXTENDS Integers, FiniteSets

CONSTANTS
    Folders, Ciphers, Sends,  \* the ids rows may have
    Profile,                  \* what the profile, domains and key options show
    NoFolder,                 \* folder_id IS NULL
    MaxWrites,                \* bound: transactions of the account, its creation included
    MaxBackups,               \* bound: backups taken
    MaxEpochs                 \* bound: server epochs ever minted

Rows == Folders \cup Ciphers \cup Sends
Objects == Rows \cup {Profile}

ASSUME IdsAssumption ==
    /\ IsFiniteSet(Objects)
    /\ Folders \cap Ciphers = {} /\ Folders \cap Sends = {} /\ Ciphers \cap Sends = {}
    /\ Profile \notin Rows /\ NoFolder \notin Folders

ASSUME BoundsAssumption == MaxWrites \in Nat /\ MaxBackups \in Nat /\ MaxEpochs \in Nat

VARIABLES
    db,       \* the database: one account's rows and counters, and the server epoch
    writes,   \* transactions so far: the stamp of the newest content
    born,     \* folder ids handed out: Uuid::new_v4 never gives one twice
    backups,  \* copies of the database put aside
    restore,  \* "none", "copied" (rows back, sessions not ended yet) or "broken"
    minted    \* server epochs drawn so far: randomblob(8) never gives one twice

storeVars == <<db, writes, born, backups, restore, minted>>

Tombstone == [id : Rows, seq : Nat]

Database ==
    [seq : Nat, epoch : Nat, pruned : Nat, server : Nat,
     alive : SUBSET Objects, number : [Objects -> Nat], content : [Objects -> Nat],
     folder : [Ciphers -> Folders \cup {NoFolder}],
     travel : BOOLEAN, marked : SUBSET Folders, tombs : SUBSET Tombstone]

StoreTypeOK ==
    /\ db \in Database
    /\ writes \in Nat
    /\ born \in SUBSET Folders
    /\ backups \in SUBSET Database
    /\ restore \in {"none", "copied", "broken"}
    /\ minted \in Nat

-----------------------------------------------------------------------------
(* What the account sees.  A content or a number of 0 means: no such row.  *)

HiddenFolders(d) == IF d.travel THEN d.marked \cap d.alive ELSE {}

IsHidden(d, o) ==
    \/ o \in HiddenFolders(d)
    \/ o \in Ciphers /\ d.folder[o] \in HiddenFolders(d)

View(d, o) == IF o \in d.alive /\ ~IsHidden(d, o) THEN d.content[o] ELSE 0

-----------------------------------------------------------------------------
(* The triggers.  Rows of one transaction get one number each, those of    *)
(* `first` before those of `second`, in whatever order SQLite visits them. *)

Numberings(d, first, second) ==
    {num \in [first \cup second -> (d.seq + 1)..(d.seq + Cardinality(first \cup second))] :
        /\ \A a, b \in first \cup second : num[a] = num[b] => a = b
        /\ \A a \in first, b \in second : num[a] < num[b]}

(* Fault: a tombstone with the counter as it was before the transaction.   *)
RewrittenWithOldTombs(d, touched, gone, num) ==
    [d EXCEPT
        !.seq = d.seq + Cardinality(touched \cup gone),
        !.alive = (d.alive \cup touched) \ gone,
        !.number = [o \in Objects |->
            IF o \in gone THEN 0 ELSE IF o \in touched THEN num[o] ELSE d.number[o]],
        !.content = [o \in Objects |->
            IF o \in gone THEN 0 ELSE IF o \in touched THEN writes + 1 ELSE d.content[o]],
        !.tombs = d.tombs \cup {[id |-> o, seq |-> d.number[o]] : o \in gone}]

(* `touched` rows are inserted or updated, `gone` ones deleted.            *)
Rewritten(d, touched, gone, num) ==
    [d EXCEPT
        !.seq = d.seq + Cardinality(touched \cup gone),
        !.alive = (d.alive \cup touched) \ gone,
        !.number = [o \in Objects |->
            IF o \in gone THEN 0 ELSE IF o \in touched THEN num[o] ELSE d.number[o]],
        !.content = [o \in Objects |->
            IF o \in gone THEN 0 ELSE IF o \in touched THEN writes + 1 ELSE d.content[o]],
        !.tombs = d.tombs \cup {[id |-> o, seq |-> num[o]] : o \in gone}]

Filed(d, items, f) == [c \in Ciphers |-> IF c \in items THEN f ELSE d.folder[c]]

Commit(new) ==
    /\ db' = new
    /\ writes' = writes + 1
    /\ UNCHANGED <<backups, restore, minted>>

-----------------------------------------------------------------------------
(* Folders and items (vault.rs).                                           *)

LiveFolders == Folders \cap db.alive
LiveCiphers == Ciphers \cap db.alive
Shown(items) == {o \in items : ~IsHidden(db, o)}

SaveFolder(f) ==
    /\ f \in db.alive => ~IsHidden(db, f)
    /\ f \notin db.alive => f \notin born
    /\ \E num \in Numberings(db, {f}, {}) : Commit(Rewritten(db, {f}, {}, num))
    /\ born' = born \cup {f}

DeleteFolder(f) ==
    /\ f \in Shown(LiveFolders)
    /\ LET inside == {c \in LiveCiphers : db.folder[c] = f} IN
       \E num \in Numberings(db, inside, {f}) :
            Commit([Rewritten(db, inside, {f}, num) EXCEPT
                        !.folder = Filed(db, inside, NoFolder), !.marked = db.marked \ {f}])
    /\ UNCHANGED born

(* The handler read the item before and writes it whole: it may have been  *)
(* hidden or deleted since, and a deleted one is inserted again.           *)
SaveCipher(c, f) ==
    /\ f \in LiveFolders \cup {NoFolder}
    /\ \E num \in Numberings(db, {c}, {}) :
            Commit([Rewritten(db, {c}, {}, num) EXCEPT !.folder = Filed(db, {c}, f)])
    /\ UNCHANGED born

ChangeCiphers(items) ==      \* Bulk::Trash, Restore, Archive, Unarchive
    /\ items # {} /\ items \subseteq Shown(LiveCiphers)
    /\ \E num \in Numberings(db, items, {}) : Commit(Rewritten(db, items, {}, num))
    /\ UNCHANGED born

DeleteCiphers(items) ==      \* Bulk::Delete
    /\ items # {} /\ items \subseteq Shown(LiveCiphers)
    /\ \E num \in Numberings(db, {}, items) :
            Commit([Rewritten(db, {}, items, num) EXCEPT !.folder = Filed(db, items, NoFolder)])
    /\ UNCHANGED born

MoveCiphers(items, f) ==
    /\ items # {} /\ items \subseteq Shown(LiveCiphers)
    /\ f \in LiveFolders \cup {NoFolder}
    /\ \E num \in Numberings(db, items, {}) :
            Commit([Rewritten(db, items, {}, num) EXCEPT !.folder = Filed(db, items, f)])
    /\ UNCHANGED born

(* `large`: more than LARGE_IMPORT items.                                  *)
Import(folders, items, f, large) ==
    /\ folders \cup items # {} /\ (large => items # {})
    /\ folders \subseteq Folders \ born /\ items \subseteq Ciphers \ db.alive
    /\ f \in folders \cup {NoFolder}
    /\ \E num \in Numberings(db, folders, items) :
            Commit([Rewritten(db, folders \cup items, {}, num) EXCEPT
                        !.folder = Filed(db, items, f),
                        !.epoch = IF large THEN db.epoch + 1 ELSE db.epoch])
    /\ born' = born \cup folders

PurgeVault ==
    /\ \E num \in Numberings(db, LiveCiphers, LiveFolders) :
            Commit([Rewritten(db, {}, LiveCiphers \cup LiveFolders, num) EXCEPT
                        !.folder = Filed(db, Ciphers, NoFolder), !.marked = {},
                        !.epoch = db.epoch + 1])
    /\ UNCHANGED born

-----------------------------------------------------------------------------
(* Sends (sends.rs), the daily sweep (admin.rs), the account itself.       *)

SaveSend(s) ==               \* an upsert: also of one deleted since it was read
    /\ \E num \in Numberings(db, {s}, {}) : Commit(Rewritten(db, {s}, {}, num))
    /\ UNCHANGED born

DeleteSend(s) ==
    /\ s \in db.alive
    /\ \E num \in Numberings(db, {}, {s}) : Commit(Rewritten(db, {}, {s}, num))
    /\ UNCHANGED born

Sweep(sends, items) ==       \* Sends past their date, items long in the trash
    /\ sends \cup items # {}
    /\ sends \subseteq db.alive /\ items \subseteq LiveCiphers
    /\ \E num \in Numberings(db, sends, items) :
            Commit([Rewritten(db, {}, sends \cup items, num) EXCEPT
                        !.folder = Filed(db, items, NoFolder)])
    /\ UNCHANGED born

UpdateProfile ==
    /\ \E num \in Numberings(db, {Profile}, {}) : Commit(Rewritten(db, {Profile}, {}, num))
    /\ UNCHANGED born

Restamped(d, num) ==
    [Rewritten(d, {Profile}, {}, num) EXCEPT !.epoch = d.epoch + 1]

NewStamp ==                  \* a new password, KDF or user key; log out everywhere
    /\ \E num \in Numberings(db, {Profile}, {}) : Commit(Restamped(db, num))
    /\ UNCHANGED born

(* Every row under a new user key, each item in a folder the client says;  *)
(* refused unless the client brings all of them.                           *)
RotateKeys ==
    /\ \E num \in Numberings(db, db.alive \ {Profile}, {Profile}),
          filing \in [LiveCiphers -> LiveFolders \cup {NoFolder}] :
            Commit([Rewritten(db, db.alive \cup {Profile}, {}, num) EXCEPT
                        !.folder = [c \in Ciphers |->
                            IF c \in LiveCiphers THEN filing[c] ELSE db.folder[c]],
                        !.epoch = db.epoch + 1])
    /\ UNCHANGED born

-----------------------------------------------------------------------------
(* Travel mode (travel.rs).                                                *)

SetTravelFolders(wanted) ==
    /\ wanted \subseteq LiveFolders /\ LiveFolders # {}
    /\ db.travel => db.marked \subseteq wanted
    /\ LET changed == (wanted \ db.marked) \cup (db.marked \ wanted) IN
       \E num \in Numberings(db, LiveFolders, {}) :
            Commit([Rewritten(db, LiveFolders, {}, num) EXCEPT
                        !.marked = wanted,
                        !.epoch = IF db.travel THEN db.epoch + Cardinality(changed)
                                               ELSE db.epoch])
    /\ UNCHANGED born

(* Fault: switching travel mode leaves the account's epoch alone.          *)
SetTravellingQuietly(on) ==
    /\ on # db.travel
    /\ Commit([db EXCEPT !.travel = on])
    /\ UNCHANGED born

SetTravelling(on) ==
    /\ on # db.travel
    /\ Commit([db EXCEPT !.travel = on, !.epoch = db.epoch + 1])
    /\ UNCHANGED born

-----------------------------------------------------------------------------
(* Tombstones are kept 90 days.  Their time is the wall clock's, so those  *)
(* past it may be any of them.                                             *)
PruneTombstones(old) ==
    /\ old # {} /\ old \subseteq db.tombs
    /\ \E p \in {db.pruned} \cup {t.seq : t \in old} :
        /\ p >= db.pruned /\ \A t \in old : t.seq <= p
        /\ db' = [db EXCEPT !.tombs = db.tombs \ old, !.pruned = p]
    /\ UNCHANGED <<writes, born, backups, restore, minted>>

-----------------------------------------------------------------------------
(* Backups put back.  restore_online first copies the pages back in one    *)
(* step, then ends the sessions and draws a new server epoch in a          *)
(* transaction of its own; a server that dies between stays "broken".      *)

TakeBackup ==
    /\ Cardinality(backups) < MaxBackups
    /\ backups' = backups \cup {db}
    /\ UNCHANGED <<db, writes, born, restore, minted>>

RestorePages(b) ==
    /\ restore # "copied" /\ minted < MaxEpochs
    /\ db' = b
    /\ restore' = "copied"
    /\ UNCHANGED <<writes, born, backups, minted>>

(* Fault: the sessions ended, no new server epoch drawn.                   *)
SessionsEndedOnly(d, num) == Restamped(d, num)

SessionsEnded(d, num) ==
    [Restamped(d, num) EXCEPT !.server = minted + 1]

EndSessions ==
    /\ restore = "copied"
    /\ \E num \in Numberings(db, {Profile}, {}) : db' = SessionsEnded(db, num)
    /\ writes' = writes + 1 /\ minted' = minted + 1
    /\ restore' = "none"
    /\ UNCHANGED <<born, backups>>

DieInRestore ==
    /\ restore = "copied"
    /\ restore' = "broken"
    /\ UNCHANGED <<db, writes, born, backups, minted>>

(* `uwulock-server restore`: the copy is made ready beside the database    *)
(* and swapped in whole, with the server stopped.                          *)
RestoreOffline(b) ==
    /\ restore # "copied" /\ minted < MaxEpochs
    /\ \E num \in Numberings(b, {Profile}, {}) : db' = SessionsEnded(b, num)
    /\ writes' = writes + 1 /\ minted' = minted + 1
    /\ restore' = "none"
    /\ UNCHANGED <<born, backups>>

-----------------------------------------------------------------------------
StoreInit ==
    /\ db = [seq |-> 0, epoch |-> 0, pruned |-> 0, server |-> 1,
             alive |-> {Profile}, number |-> [o \in Objects |-> 0],
             content |-> [o \in Objects |-> IF o = Profile THEN 1 ELSE 0],
             folder |-> [c \in Ciphers |-> NoFolder],
             travel |-> FALSE, marked |-> {}, tombs |-> {}]
    /\ writes = 1 /\ born = {} /\ backups = {} /\ restore = "none" /\ minted = 1

Transaction ==               \* of the running program
    \/ \E f \in Folders : SaveFolder(f) \/ DeleteFolder(f)
    \/ \E c \in Ciphers, f \in Folders \cup {NoFolder} : SaveCipher(c, f)
    \/ \E items \in SUBSET Ciphers : ChangeCiphers(items) \/ DeleteCiphers(items)
    \/ \E items \in SUBSET Ciphers, f \in Folders \cup {NoFolder} : MoveCiphers(items, f)
    \/ \E folders \in SUBSET Folders, items \in SUBSET Ciphers,
          f \in Folders \cup {NoFolder}, large \in BOOLEAN : Import(folders, items, f, large)
    \/ PurgeVault
    \/ \E s \in Sends : SaveSend(s) \/ DeleteSend(s)
    \/ \E sends \in SUBSET Sends, items \in SUBSET Ciphers : Sweep(sends, items)
    \/ UpdateProfile \/ NewStamp \/ RotateKeys
    \/ \E wanted \in SUBSET Folders : SetTravelFolders(wanted)
    \/ \E on \in BOOLEAN : SetTravelling(on)

Write ==
    \/ writes < MaxWrites /\ Transaction
    \/ \E old \in SUBSET db.tombs : PruneTombstones(old)

StoreWrite ==
    \/ Write
    \/ TakeBackup
    \/ \E b \in backups : RestorePages(b)
    \/ EndSessions
=============================================================================
