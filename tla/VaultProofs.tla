----------------------------- MODULE VaultProofs -----------------------------
(***************************************************************************)
(* Proofs about the vault: that a delta sync misses nothing (DeltaSync's   *)
(* inductive invariant IInv), that what an item held is kept, read and     *)
(* brought back as promised (ItemsIInv of Items), and that UwUMail's       *)
(* grants and tokens are not lost (MaskedIInv of Masked).                  *)
(***************************************************************************)
EXTENDS DeltaSync, Items, Masked, FiniteSetTheorems, TLAPS

(* The triggers hand out numbers above every one before and not above the  *)
(* counter they leave.                                                     *)
LEMMA NumberingFact ==
    ASSUME NEW d \in Database, NEW first \in SUBSET Objects, NEW second \in SUBSET Objects,
           NEW num \in Numberings(d, first, second)
    PROVE  /\ Cardinality(first \cup second) \in Nat
           /\ \A o \in first \cup second :
                num[o] \in Nat /\ num[o] > d.seq
                /\ num[o] <= d.seq + Cardinality(first \cup second)
<1>1. IsFiniteSet(first \cup second)
  BY IdsAssumption, FS_Subset
<1>2. Cardinality(first \cup second) \in Nat
  BY <1>1, FS_CardinalityType
<1>3. d.seq \in Nat
  BY DEF Database
<1> QED
  BY <1>2, <1>3 DEF Numberings

(* A transaction that rewrites rows leaves a database.                     *)
LEMMA RewrittenType ==
    ASSUME NEW d \in Database, NEW touched \in SUBSET Objects, NEW gone \in SUBSET Rows,
           NEW num, writes \in Nat,
           Cardinality(touched \cup gone) \in Nat,
           \A o \in touched \cup gone : num[o] \in Nat
    PROVE  Rewritten(d, touched, gone, num) \in Database
<1> DEFINE e == Rewritten(d, touched, gone, num)
<1>1. d.seq + Cardinality(touched \cup gone) \in Nat
  BY DEF Database
<1>2. (d.alive \cup touched) \ gone \in SUBSET Objects
  BY DEF Database
<1>3. [o \in Objects |-> IF o \in gone THEN 0 ELSE IF o \in touched THEN num[o] ELSE d.number[o]]
        \in [Objects -> Nat]
  BY DEF Database
<1>4. [o \in Objects |-> IF o \in gone THEN 0 ELSE IF o \in touched THEN writes + 1 ELSE d.content[o]]
        \in [Objects -> Nat]
  BY DEF Database
<1>5. d.tombs \cup {[id |-> o, seq |-> num[o]] : o \in gone} \in SUBSET Tombstone
  BY DEF Database, Tombstone
<1> QED
  BY <1>1, <1>2, <1>3, <1>4, <1>5 DEF Rewritten, Database

(* What every transaction that rewrites rows has in common: `touched` rows *)
(* written and `gone` ones deleted, and unless the epoch moves on, nothing *)
(* hidden or shown beside them.                                            *)
Rewrites(d, e, touched, gone, num) ==
    /\ e.seq = d.seq + Cardinality(touched \cup gone)
    /\ e.alive = (d.alive \cup touched) \ gone
    /\ \A o \in Objects :
        /\ e.number[o] = IF o \in gone THEN 0 ELSE IF o \in touched THEN num[o] ELSE d.number[o]
        /\ o \in gone => e.content[o] = 0
        /\ o \notin touched \cup gone => e.content[o] = d.content[o]
    /\ e.tombs = d.tombs \cup {[id |-> o, seq |-> num[o]] : o \in gone}
    /\ e.server = d.server /\ e.pruned = d.pruned /\ e.epoch >= d.epoch
    /\ e.marked \subseteq e.alive
    /\ e.epoch = d.epoch =>
        /\ HiddenFolders(e) = HiddenFolders(d)
        /\ \A c \in Ciphers \ (touched \cup gone) : e.folder[c] = d.folder[c]

(* Such a transaction numbers every change and keeps the numbers in order. *)
LEMMA RewritesFollows ==
    ASSUME NEW d \in Database, NEW e \in Database, Ordered(d),
           NEW touched \in SUBSET Objects, NEW gone \in SUBSET Rows, touched \cap gone = {},
           NEW num, Cardinality(touched \cup gone) \in Nat,
           \A o \in touched \cup gone :
                num[o] \in Nat /\ num[o] > d.seq /\ num[o] <= d.seq + Cardinality(touched \cup gone),
           Rewrites(d, e, touched, gone, num)
    PROVE  Follows(d, e) /\ Ordered(e)
<1>0. Rows \subseteq Objects
  BY DEF Objects
<1>1. Follows(d, e)
  <2>1. e.server = d.server /\ e.seq >= d.seq /\ e.epoch >= d.epoch /\ e.pruned >= d.pruned
    BY DEF Rewrites, Database
  <2>2. ASSUME e.epoch = d.epoch
        PROVE  /\ HiddenFolders(e) = HiddenFolders(d)
               /\ \A t \in d.tombs : t \in e.tombs \/ t.seq <= e.pruned
    BY <2>2 DEF Rewrites
  <2>3. ASSUME e.epoch = d.epoch, NEW o \in Rows
        PROVE  \/ o \in e.alive /\ e.number[o] > d.seq
               \/ \E t \in e.tombs : t.id = o /\ t.seq > d.seq
               \/ /\ View(e, o) = View(d, o)
                  /\ o \in d.alive => o \in e.alive /\ e.number[o] = d.number[o]
    <3>1. CASE o \in touched
      BY <3>1, <1>0 DEF Rewrites
    <3>2. CASE o \in gone
      <4>1. [id |-> o, seq |-> num[o]] \in e.tombs
        BY <3>2 DEF Rewrites
      <4> QED
        BY <4>1, <3>2
    <3>3. CASE o \notin touched \cup gone
      <4>1. o \in Objects /\ (o \in e.alive <=> o \in d.alive)
            /\ e.number[o] = d.number[o] /\ e.content[o] = d.content[o]
        BY <3>3, <1>0 DEF Rewrites
      <4>2. IsHidden(e, o) <=> IsHidden(d, o)
        BY <3>3, <2>3 DEF Rewrites, IsHidden
      <4> QED
        BY <4>1, <4>2 DEF View
    <3> QED
      BY <3>1, <3>2, <3>3
  <2> QED
    BY <2>1, <2>2, <2>3 DEF Follows
<1>2. Ordered(e)
  <2>1. e.server <= minted /\ e.marked \subseteq e.alive
    BY DEF Rewrites, Ordered
  <2>2. ASSUME NEW o \in e.alive
        PROVE  e.number[o] <= e.seq
    <3>1. o \in Objects /\ d.seq \in Nat /\ d.number[o] \in Nat
      BY DEF Database
    <3>2. CASE o \in touched
      <4>1. e.number[o] = num[o]
        BY <3>1, <3>2 DEF Rewrites
      <4>2. num[o] <= d.seq + Cardinality(touched \cup gone)
        BY <3>2
      <4> QED
        BY <4>1, <4>2 DEF Rewrites
    <3>3. CASE o \notin touched
      <4>1. o \in d.alive /\ o \notin gone
        BY <3>3, <2>2 DEF Rewrites
      <4>2. e.number[o] = d.number[o]
        BY <3>1, <3>3, <4>1 DEF Rewrites
      <4>3. d.number[o] <= d.seq
        BY <4>1 DEF Ordered
      <4>4. e.seq = d.seq + Cardinality(touched \cup gone)
        BY DEF Rewrites
      <4> QED
        BY <3>1, <4>2, <4>3, <4>4
    <3> QED
      BY <3>2, <3>3
  <2>3. ASSUME NEW o \in Rows \ e.alive
        PROVE  e.content[o] = 0
    BY <1>0, <2>3 DEF Rewrites, Ordered
  <2>4. ASSUME NEW t \in e.tombs
        PROVE  t.seq <= e.seq /\ (t.id \in e.alive => t.seq < e.number[t.id])
    <3>1. d.seq \in Nat /\ t.id \in Objects /\ t.seq \in Nat /\ e.seq >= d.seq
      BY <1>0 DEF Database, Tombstone, Rewrites
    <3>2. CASE t \in d.tombs
      BY <3>1, <3>2 DEF Rewrites, Ordered
    <3>3. CASE t \notin d.tombs
      <4>1. PICK o \in gone : t = [id |-> o, seq |-> num[o]]
        BY <3>3 DEF Rewrites
      <4>2. t.id = o /\ t.seq = num[o]
        BY <4>1
      <4>3. num[o] <= e.seq
        <5>1. e.seq = d.seq + Cardinality(touched \cup gone)
          BY DEF Rewrites
        <5>2. o \in touched \cup gone
          OBVIOUS
        <5> QED
          BY <5>1, <5>2
      <4>4. o \notin e.alive
        BY DEF Rewrites
      <4> QED
        BY <4>2, <4>3, <4>4
    <3> QED
      BY <3>2, <3>3
  <2> QED
    BY <2>1, <2>2, <2>3, <2>4 DEF Ordered
<1> QED
  BY <1>1, <1>2

(* A rewriting transaction that also files items, marks folders for travel *)
(* or moves the account's epoch on.                                        *)
Edited(d, touched, gone, num, folder, marked, epoch) ==
    [Rewritten(d, touched, gone, num) EXCEPT
        !.folder = folder, !.marked = marked, !.epoch = epoch]

LEMMA EditedFollows ==
    ASSUME NEW d \in Database, Ordered(d), writes \in Nat,
           NEW first \in SUBSET Objects, NEW second \in SUBSET Objects,
           NEW num \in Numberings(d, first, second),
           NEW touched \in SUBSET Objects, NEW gone \in SUBSET Rows,
           touched \cap gone = {}, touched \cup gone = first \cup second,
           NEW folder \in [Ciphers -> Folders \cup {NoFolder}],
           NEW marked \in SUBSET Folders, marked \subseteq (d.alive \cup touched) \ gone,
           NEW epoch \in Nat, epoch >= d.epoch,
           epoch = d.epoch =>
                /\ d.travel => marked = d.marked
                /\ \A c \in Ciphers \ (touched \cup gone) : folder[c] = d.folder[c]
    PROVE  LET e == Edited(d, touched, gone, num, folder, marked, epoch) IN
           e \in Database /\ Follows(d, e) /\ Ordered(e)
<1> DEFINE r == Rewritten(d, touched, gone, num)
           e == Edited(d, touched, gone, num, folder, marked, epoch)
<1>1. /\ Cardinality(touched \cup gone) \in Nat
      /\ \A o \in touched \cup gone :
            num[o] \in Nat /\ num[o] > d.seq /\ num[o] <= d.seq + Cardinality(touched \cup gone)
  BY NumberingFact
<1>2. r \in Database
  BY <1>1, RewrittenType
<1>3. e \in Database
  BY <1>2 DEF Edited, Database
<1>4. /\ e.seq = d.seq + Cardinality(touched \cup gone)
      /\ e.alive = (d.alive \cup touched) \ gone
      /\ e.number = [o \in Objects |->
            IF o \in gone THEN 0 ELSE IF o \in touched THEN num[o] ELSE d.number[o]]
      /\ e.content = [o \in Objects |->
            IF o \in gone THEN 0 ELSE IF o \in touched THEN writes + 1 ELSE d.content[o]]
      /\ e.tombs = d.tombs \cup {[id |-> o, seq |-> num[o]] : o \in gone}
      /\ e.server = d.server /\ e.pruned = d.pruned /\ e.travel = d.travel
      /\ e.folder = folder /\ e.marked = marked /\ e.epoch = epoch
  BY DEF Edited, Rewritten, Database
<1> HIDE DEF e
<1>5. ASSUME epoch = d.epoch
      PROVE  HiddenFolders(e) = HiddenFolders(d)
  <2>1. CASE d.travel
    <3>1. marked \cap e.alive = d.marked \cap d.alive
      BY <1>4, <1>5, <2>1 DEF Ordered
    <3> QED
      BY <3>1, <2>1, <1>4 DEF HiddenFolders
  <2>2. CASE ~d.travel
    BY <2>2, <1>4 DEF HiddenFolders
  <2> QED
    BY <2>1, <2>2
<1>6. Rewrites(d, e, touched, gone, num)
  BY <1>4, <1>5 DEF Rewrites
<1>7. Follows(d, e) /\ Ordered(e)
  BY <1>1, <1>3, <1>6, RewritesFollows
<1> QED
  BY <1>3, <1>7 DEF e

(* What one transaction of the running program does to the store.          *)
Written ==
    /\ db' \in Database /\ Follows(db, db') /\ Ordered(db')
    /\ writes' \in Nat /\ born' \in SUBSET Folders
    /\ UNCHANGED <<backups, restore, minted>>

LEMMA CommitWrites ==
    ASSUME StoreTypeOK, Ordered(db),
           NEW first \in SUBSET Objects, NEW second \in SUBSET Objects,
           NEW num \in Numberings(db, first, second),
           NEW touched \in SUBSET Objects, NEW gone \in SUBSET Rows,
           touched \cap gone = {}, touched \cup gone = first \cup second,
           NEW folder \in [Ciphers -> Folders \cup {NoFolder}],
           NEW marked \in SUBSET Folders, marked \subseteq (db.alive \cup touched) \ gone,
           NEW epoch \in Nat, epoch >= db.epoch,
           epoch = db.epoch =>
                /\ db.travel => marked = db.marked
                /\ \A c \in Ciphers \ (touched \cup gone) : folder[c] = db.folder[c],
           Commit(Edited(db, touched, gone, num, folder, marked, epoch)),
           born' \in SUBSET Folders
    PROVE  Written
<1>1. db \in Database /\ writes \in Nat
  BY DEF StoreTypeOK
<1>2. /\ db' = Edited(db, touched, gone, num, folder, marked, epoch)
      /\ writes' = writes + 1 /\ UNCHANGED <<backups, restore, minted>>
  BY DEF Commit
<1>3. db' \in Database /\ Follows(db, db') /\ Ordered(db')
  BY <1>1, <1>2, EditedFollows
<1> QED
  BY <1>1, <1>2, <1>3 DEF Written

LEMMA StoreFacts ==
    ASSUME StoreTypeOK, Ordered(db)
    PROVE  /\ db \in Database /\ born \in SUBSET Folders /\ writes \in Nat
           /\ db.alive \in SUBSET Objects /\ db.epoch \in Nat
           /\ db.folder \in [Ciphers -> Folders \cup {NoFolder}]
           /\ db.marked \in SUBSET Folders /\ db.marked \subseteq db.alive
           /\ LiveFolders \in SUBSET Folders /\ LiveCiphers \in SUBSET Ciphers
           /\ \A items : Shown(items) \subseteq items
BY DEF StoreTypeOK, Database, Ordered, LiveFolders, LiveCiphers, Shown

LEMMA FiledType ==
    ASSUME StoreTypeOK, NEW items, NEW f \in Folders \cup {NoFolder}
    PROVE  /\ Filed(db, items, f) \in [Ciphers -> Folders \cup {NoFolder}]
           /\ \A c \in Ciphers \ items : Filed(db, items, f)[c] = db.folder[c]
BY DEF StoreTypeOK, Database, Filed

(* The folders' operations.                                                *)
LEMMA FolderWrites ==
    ASSUME StoreTypeOK, Ordered(db), NEW f \in Folders, SaveFolder(f) \/ DeleteFolder(f)
    PROVE  Written
<1>1. CASE SaveFolder(f)
  <2>1. PICK num \in Numberings(db, {f}, {}) : Commit(Rewritten(db, {f}, {}, num))
    BY <1>1 DEF SaveFolder
  <2>2. Commit(Edited(db, {f}, {}, num, db.folder, db.marked, db.epoch))
    BY <2>1, StoreFacts DEF Edited, Rewritten, Database
  <2>3. born' \in SUBSET Folders
    BY <1>1, StoreFacts DEF SaveFolder
  <2>4. {f} \in SUBSET Objects
    BY DEF Objects, Rows
  <2> QED
    BY <2>2, <2>3, <2>4, StoreFacts, CommitWrites
<1>2. CASE DeleteFolder(f)
  <2> DEFINE inside == {c \in LiveCiphers : db.folder[c] = f}
  <2>1. PICK num \in Numberings(db, inside, {f}) :
            Commit([Rewritten(db, inside, {f}, num) EXCEPT
                        !.folder = Filed(db, inside, NoFolder), !.marked = db.marked \ {f}])
    BY <1>2 DEF DeleteFolder
  <2>2. Commit(Edited(db, inside, {f}, num, Filed(db, inside, NoFolder),
                      db.marked \ {f}, db.epoch))
    BY <2>1, StoreFacts DEF Edited, Rewritten, Database
  <2>3. inside \in SUBSET Objects /\ {f} \in SUBSET Objects /\ {f} \in SUBSET Rows
        /\ inside \cap {f} = {}
    BY IdsAssumption DEF Objects, Rows, LiveCiphers
  <2>4. db.travel => f \notin db.marked
    BY <1>2 DEF DeleteFolder, Shown, LiveFolders, IsHidden, HiddenFolders
  <2>5. born' \in SUBSET Folders
    BY <1>2, StoreFacts DEF DeleteFolder
  <2> HIDE DEF inside
  <2>6. /\ db.marked \ {f} \in SUBSET Folders
        /\ db.marked \ {f} \subseteq (db.alive \cup inside) \ {f}
        /\ db.travel => db.marked \ {f} = db.marked
    BY <2>4, StoreFacts
  <2>7. /\ Filed(db, inside, NoFolder) \in [Ciphers -> Folders \cup {NoFolder}]
        /\ \A c \in Ciphers \ (inside \cup {f}) : Filed(db, inside, NoFolder)[c] = db.folder[c]
    BY FiledType
  <2>8. db.epoch \in Nat /\ db.epoch >= db.epoch
    BY StoreFacts
  <2> QED
    BY <2>1, <2>2, <2>3, <2>5, <2>6, <2>7, <2>8, CommitWrites
<1> QED
  BY <1>1, <1>2

(* The items' operations: rows written and filed, or deleted.              *)
LEMMA CipherWrites ==
    ASSUME StoreTypeOK, Ordered(db), NEW touched \in SUBSET Ciphers, NEW gone \in SUBSET Rows,
           touched \cap gone = {}, gone \cap Folders = {},
           NEW first \in SUBSET Objects, NEW second \in SUBSET Objects,
           first \cup second = touched \cup gone,
           NEW num \in Numberings(db, first, second),
           NEW items \in SUBSET (touched \cup gone), NEW f \in Folders \cup {NoFolder},
           Commit([Rewritten(db, touched, gone, num) EXCEPT !.folder = Filed(db, items, f)]),
           UNCHANGED born
    PROVE  Written
<1>1. Commit(Edited(db, touched, gone, num, Filed(db, items, f), db.marked, db.epoch))
  BY StoreFacts DEF Edited, Rewritten, Database
<1>2. touched \in SUBSET Objects
  BY DEF Objects, Rows
<1>3. db.marked \subseteq (db.alive \cup touched) \ gone
  BY StoreFacts
<1>4. /\ Filed(db, items, f) \in [Ciphers -> Folders \cup {NoFolder}]
      /\ \A c \in Ciphers \ (touched \cup gone) : Filed(db, items, f)[c] = db.folder[c]
  BY FiledType
<1> QED
  BY <1>1, <1>2, <1>3, <1>4, StoreFacts, CommitWrites

(* Rows of any kind written or deleted, nothing filed or marked; the epoch *)
(* may move on.                                                            *)
LEMMA PlainWrites ==
    ASSUME StoreTypeOK, Ordered(db), NEW touched \in SUBSET Objects, NEW gone \in SUBSET Rows,
           touched \cap gone = {}, gone \cap Folders = {},
           NEW num \in Numberings(db, touched, gone),
           NEW epoch \in Nat, epoch >= db.epoch,
           Commit([Rewritten(db, touched, gone, num) EXCEPT !.epoch = epoch]),
           UNCHANGED born
    PROVE  Written
<1>1. Commit(Edited(db, touched, gone, num, db.folder, db.marked, epoch))
  BY StoreFacts DEF Edited, Rewritten, Database
<1>2. db.marked \subseteq (db.alive \cup touched) \ gone
  BY StoreFacts
<1>3. gone \in SUBSET Objects
  BY DEF Objects
<1> QED
  BY <1>1, <1>2, <1>3, StoreFacts, CommitWrites

LEMMA PlainForm ==
    ASSUME StoreTypeOK, NEW touched, NEW gone, NEW num
    PROVE  Rewritten(db, touched, gone, num)
            = [Rewritten(db, touched, gone, num) EXCEPT !.epoch = db.epoch]
BY DEF StoreTypeOK, Database, Rewritten

LEMMA SendAndProfileWrites ==
    ASSUME StoreTypeOK, Ordered(db),
           \/ \E s \in Sends : SaveSend(s) \/ DeleteSend(s)
           \/ UpdateProfile \/ NewStamp
    PROVE  Written
<1>0. /\ db.epoch \in Nat /\ db.epoch + 1 \in Nat
      /\ db.epoch >= db.epoch /\ db.epoch + 1 >= db.epoch
  BY StoreFacts
<1>1. ASSUME NEW s \in Sends, SaveSend(s)
      PROVE  Written
  <2>1. PICK num \in Numberings(db, {s}, {}) : Commit(Rewritten(db, {s}, {}, num))
    BY <1>1 DEF SaveSend
  <2>2. {s} \in SUBSET Objects /\ UNCHANGED born
    BY <1>1 DEF Objects, Rows, SaveSend
  <2>3. Commit([Rewritten(db, {s}, {}, num) EXCEPT !.epoch = db.epoch])
    BY <2>1, PlainForm
  <2> QED
    BY <2>2, <2>3, <1>0, PlainWrites
<1>2. ASSUME NEW s \in Sends, DeleteSend(s)
      PROVE  Written
  <2>1. PICK num \in Numberings(db, {}, {s}) : Commit(Rewritten(db, {}, {s}, num))
    BY <1>2 DEF DeleteSend
  <2>2. {s} \in SUBSET Rows /\ {s} \cap Folders = {} /\ UNCHANGED born
    BY <1>2, IdsAssumption DEF Rows, DeleteSend
  <2>3. Commit([Rewritten(db, {}, {s}, num) EXCEPT !.epoch = db.epoch])
    BY <2>1, PlainForm
  <2> QED
    BY <2>2, <2>3, <1>0, PlainWrites
<1>3. CASE UpdateProfile
  <2>1. PICK num \in Numberings(db, {Profile}, {}) : Commit(Rewritten(db, {Profile}, {}, num))
    BY <1>3 DEF UpdateProfile
  <2>2. {Profile} \in SUBSET Objects /\ UNCHANGED born
    BY <1>3 DEF Objects, UpdateProfile
  <2>3. Commit([Rewritten(db, {Profile}, {}, num) EXCEPT !.epoch = db.epoch])
    BY <2>1, PlainForm
  <2> QED
    BY <2>2, <2>3, <1>0, PlainWrites
<1>4. CASE NewStamp
  <2>1. PICK num \in Numberings(db, {Profile}, {}) :
            Commit([Rewritten(db, {Profile}, {}, num) EXCEPT !.epoch = db.epoch + 1])
    BY <1>4 DEF NewStamp, Restamped
  <2>2. {Profile} \in SUBSET Objects /\ UNCHANGED born
    BY <1>4 DEF Objects, NewStamp
  <2> QED
    BY <2>1, <2>2, <1>0, PlainWrites
<1> QED
  BY <1>1, <1>2, <1>3, <1>4

LEMMA ItemWrites ==
    ASSUME StoreTypeOK, Ordered(db), NEW items \in SUBSET Ciphers, NEW sends \in SUBSET Sends,
           NEW f \in Folders \cup {NoFolder},
           \/ ChangeCiphers(items) \/ DeleteCiphers(items)
           \/ MoveCiphers(items, f) \/ Sweep(sends, items)
           \/ \E c \in Ciphers : SaveCipher(c, f)
    PROVE  Written
<1>0. /\ items \in SUBSET Objects /\ items \in SUBSET Rows /\ items \cap Folders = {}
      /\ sends \in SUBSET Objects /\ sends \cup items \in SUBSET Rows
      /\ (sends \cup items) \cap Folders = {}
      /\ db.epoch \in Nat /\ db.epoch >= db.epoch
  BY IdsAssumption, StoreFacts DEF Objects, Rows
<1>1. ASSUME NEW c \in Ciphers, SaveCipher(c, f)
      PROVE  Written
  <2>1. PICK num \in Numberings(db, {c}, {}) :
            Commit([Rewritten(db, {c}, {}, num) EXCEPT !.folder = Filed(db, {c}, f)])
    BY <1>1 DEF SaveCipher
  <2>2. {c} \in SUBSET Ciphers /\ {c} \in SUBSET Objects /\ UNCHANGED born
    BY <1>1 DEF SaveCipher, Objects, Rows
  <2>3. /\ {c} \cap {} = {} /\ {} \cap Folders = {} /\ {c} \cup {} = {c} /\ {} \in SUBSET Rows
        /\ {c} \in SUBSET ({c} \cup {}) /\ {} \in SUBSET Objects
    OBVIOUS
  <2> QED
    BY <2>1, <2>2, <2>3, CipherWrites
<1>2. CASE ChangeCiphers(items)
  <2>1. PICK num \in Numberings(db, items, {}) : Commit(Rewritten(db, items, {}, num))
    BY <1>2 DEF ChangeCiphers
  <2>2. Commit([Rewritten(db, items, {}, num) EXCEPT !.epoch = db.epoch])
    BY <2>1, PlainForm
  <2> QED
    BY <1>0, <2>2, <1>2, PlainWrites DEF ChangeCiphers
<1>3. CASE DeleteCiphers(items)
  <2>1. PICK num \in Numberings(db, {}, items) :
            Commit([Rewritten(db, {}, items, num) EXCEPT !.folder = Filed(db, items, NoFolder)])
    BY <1>3 DEF DeleteCiphers
  <2>2. /\ {} \cap items = {} /\ {} \cup items = {} \cup items /\ {} \in SUBSET Ciphers
        /\ items \in SUBSET ({} \cup items) /\ {} \in SUBSET Objects
        /\ NoFolder \in Folders \cup {NoFolder} /\ UNCHANGED born
    BY <1>3 DEF DeleteCiphers
  <2> QED
    BY <1>0, <2>1, <2>2, CipherWrites
<1>4. CASE MoveCiphers(items, f)
  <2>1. PICK num \in Numberings(db, items, {}) :
            Commit([Rewritten(db, items, {}, num) EXCEPT !.folder = Filed(db, items, f)])
    BY <1>4 DEF MoveCiphers
  <2>2. /\ items \cap {} = {} /\ {} \cap Folders = {} /\ {} \in SUBSET Rows
        /\ items \in SUBSET (items \cup {}) /\ {} \in SUBSET Objects /\ UNCHANGED born
    BY <1>4 DEF MoveCiphers
  <2> QED
    BY <1>0, <2>1, <2>2, CipherWrites
<1>5. CASE Sweep(sends, items)
  <2>1. PICK num \in Numberings(db, sends, items) :
            Commit([Rewritten(db, {}, sends \cup items, num) EXCEPT
                        !.folder = Filed(db, items, NoFolder)])
    BY <1>5 DEF Sweep
  <2>2. /\ {} \cap (sends \cup items) = {} /\ sends \cup items = {} \cup (sends \cup items)
        /\ items \in SUBSET ({} \cup (sends \cup items)) /\ {} \in SUBSET Ciphers
        /\ NoFolder \in Folders \cup {NoFolder} /\ UNCHANGED born
    BY <1>5 DEF Sweep
  <2> QED
    BY <1>0, <2>1, <2>2, CipherWrites
<1> QED
  BY <1>1, <1>2, <1>3, <1>4, <1>5

(* An import and a purge, travel mode, and the pruning of tombstones.      *)
LEMMA ImportWrites ==
    ASSUME StoreTypeOK, Ordered(db), NEW folders \in SUBSET Folders, NEW items \in SUBSET Ciphers,
           NEW f \in Folders \cup {NoFolder}, NEW large \in BOOLEAN,
           Import(folders, items, f, large)
    PROVE  Written
<1> DEFINE epoch == IF large THEN db.epoch + 1 ELSE db.epoch
<1>1. PICK num \in Numberings(db, folders, items) :
        Commit([Rewritten(db, folders \cup items, {}, num) EXCEPT
                    !.folder = Filed(db, items, f), !.epoch = epoch])
  BY DEF Import
<1>2. epoch \in Nat /\ epoch >= db.epoch
  BY StoreFacts
<1> HIDE DEF epoch
<1>3. Commit(Edited(db, folders \cup items, {}, num, Filed(db, items, f), db.marked, epoch))
  BY <1>1, StoreFacts DEF Edited, Rewritten, Database
<1>4. /\ folders \in SUBSET Objects /\ items \in SUBSET Objects
      /\ folders \cup items \in SUBSET Objects /\ {} \in SUBSET Rows
      /\ (folders \cup items) \cap {} = {} /\ (folders \cup items) \cup {} = folders \cup items
      /\ db.marked \subseteq (db.alive \cup (folders \cup items)) \ {}
      /\ db.marked \in SUBSET Folders
  BY StoreFacts DEF Objects, Rows
<1>5. born' \in SUBSET Folders
  BY StoreFacts DEF Import
<1>6. /\ Filed(db, items, f) \in [Ciphers -> Folders \cup {NoFolder}]
      /\ \A c \in Ciphers \ ((folders \cup items) \cup {}) : Filed(db, items, f)[c] = db.folder[c]
  BY FiledType
<1> QED
  BY <1>2, <1>3, <1>4, <1>5, <1>6, CommitWrites

LEMMA PurgeWrites ==
    ASSUME StoreTypeOK, Ordered(db), PurgeVault
    PROVE  Written
<1>1. PICK num \in Numberings(db, LiveCiphers, LiveFolders) :
        Commit([Rewritten(db, {}, LiveCiphers \cup LiveFolders, num) EXCEPT
                    !.folder = Filed(db, Ciphers, NoFolder), !.marked = {},
                    !.epoch = db.epoch + 1])
  BY DEF PurgeVault
<1>2. Commit(Edited(db, {}, LiveCiphers \cup LiveFolders, num, Filed(db, Ciphers, NoFolder),
                    {}, db.epoch + 1))
  BY <1>1, StoreFacts DEF Edited, Rewritten, Database
<1>3. /\ LiveCiphers \in SUBSET Objects /\ LiveFolders \in SUBSET Objects
      /\ LiveCiphers \cup LiveFolders \in SUBSET Rows /\ {} \in SUBSET Objects
      /\ {} \cap (LiveCiphers \cup LiveFolders) = {}
      /\ {} \cup (LiveCiphers \cup LiveFolders) = LiveCiphers \cup LiveFolders
      /\ {} \in SUBSET Folders
      /\ {} \subseteq (db.alive \cup {}) \ (LiveCiphers \cup LiveFolders)
  BY StoreFacts DEF Objects, Rows
<1>4. /\ db.epoch + 1 \in Nat /\ db.epoch + 1 >= db.epoch /\ db.epoch + 1 # db.epoch
  BY StoreFacts
<1>5. born' \in SUBSET Folders
  BY StoreFacts DEF PurgeVault
<1>6. Filed(db, Ciphers, NoFolder) \in [Ciphers -> Folders \cup {NoFolder}]
  BY FiledType
<1> QED
  BY <1>2, <1>3, <1>4, <1>5, <1>6, CommitWrites

LEMMA RotationWrites ==
    ASSUME StoreTypeOK, Ordered(db), RotateKeys
    PROVE  Written
<1>0. PICK num \in Numberings(db, db.alive \ {Profile}, {Profile}),
           filing \in [LiveCiphers -> LiveFolders \cup {NoFolder}] :
        Commit([Rewritten(db, db.alive \cup {Profile}, {}, num) EXCEPT
                    !.folder = [c \in Ciphers |->
                        IF c \in LiveCiphers THEN filing[c] ELSE db.folder[c]],
                    !.epoch = db.epoch + 1])
  BY DEF RotateKeys
<1> DEFINE folder == [c \in Ciphers |-> IF c \in LiveCiphers THEN filing[c] ELSE db.folder[c]]
           touched == db.alive \cup {Profile}
<1>1. Commit([Rewritten(db, touched, {}, num) EXCEPT
                    !.folder = folder, !.epoch = db.epoch + 1])
  BY <1>0
<1>2. folder \in [Ciphers -> Folders \cup {NoFolder}]
  BY StoreFacts
<1>3. /\ db.alive \ {Profile} \in SUBSET Objects /\ {Profile} \in SUBSET Objects
      /\ touched \in SUBSET Objects /\ {} \in SUBSET Rows /\ touched \cap {} = {}
      /\ touched \cup {} = (db.alive \ {Profile}) \cup {Profile}
      /\ db.marked \in SUBSET Folders /\ db.marked \subseteq (db.alive \cup touched) \ {}
  BY StoreFacts DEF Objects
<1>4. /\ db.epoch + 1 \in Nat /\ db.epoch + 1 >= db.epoch /\ db.epoch + 1 # db.epoch
      /\ born' \in SUBSET Folders
  BY StoreFacts DEF RotateKeys
<1> HIDE DEF folder, touched
<1>5. Commit(Edited(db, touched, {}, num, folder, db.marked, db.epoch + 1))
  BY <1>1, StoreFacts DEF Edited, Rewritten, Database
<1> QED
  BY <1>2, <1>3, <1>4, <1>5, CommitWrites

LEMMA TravelFolderWrites ==
    ASSUME StoreTypeOK, Ordered(db), NEW wanted \in SUBSET Folders, SetTravelFolders(wanted)
    PROVE  Written
<1> DEFINE changed == (wanted \ db.marked) \cup (db.marked \ wanted)
           epoch == IF db.travel THEN db.epoch + Cardinality(changed) ELSE db.epoch
<1>1. PICK num \in Numberings(db, LiveFolders, {}) :
        Commit([Rewritten(db, LiveFolders, {}, num) EXCEPT !.marked = wanted, !.epoch = epoch])
  BY DEF SetTravelFolders
<1>2. IsFiniteSet(changed) /\ Cardinality(changed) \in Nat
      /\ (Cardinality(changed) = 0 => changed = {})
  <2>1. changed \in SUBSET Objects
    BY StoreFacts DEF Objects, Rows
  <2>2. IsFiniteSet(changed)
    BY <2>1, IdsAssumption, FS_Subset
  <2> HIDE DEF changed
  <2> QED
    BY <2>2, FS_CardinalityType, FS_EmptySet
<1>3. epoch \in Nat /\ epoch >= db.epoch /\ (epoch = db.epoch /\ db.travel => wanted = db.marked)
  <2>1. changed = {} => wanted = db.marked
    OBVIOUS
  <2> HIDE DEF changed
  <2> QED
    BY <2>1, <1>2, StoreFacts
<1> HIDE DEF epoch
<1>4. Commit(Edited(db, LiveFolders, {}, num, db.folder, wanted, epoch))
  BY <1>1, StoreFacts DEF Edited, Rewritten, Database
<1>5. /\ LiveFolders \in SUBSET Objects /\ {} \in SUBSET Objects /\ {} \in SUBSET Rows
      /\ LiveFolders \cap {} = {}
      /\ wanted \subseteq (db.alive \cup LiveFolders) \ {}
  BY StoreFacts DEF Objects, Rows, SetTravelFolders
<1>6. born' \in SUBSET Folders
  BY StoreFacts DEF SetTravelFolders
<1> QED
  BY <1>3, <1>4, <1>5, <1>6, StoreFacts, CommitWrites

LEMMA TravellingWrites ==
    ASSUME StoreTypeOK, Ordered(db), NEW on \in BOOLEAN, SetTravelling(on)
    PROVE  Written
<1>1. /\ db' = [db EXCEPT !.travel = on, !.epoch = db.epoch + 1]
      /\ writes' = writes + 1 /\ UNCHANGED <<born, backups, restore, minted>>
  BY DEF SetTravelling, Commit
<1>2. db' \in Database
  <2>1. db' = [seq |-> db.seq, epoch |-> db.epoch + 1, pruned |-> db.pruned, server |-> db.server,
               alive |-> db.alive, number |-> db.number, content |-> db.content,
               folder |-> db.folder, travel |-> on, marked |-> db.marked, tombs |-> db.tombs]
    BY <1>1, StoreFacts DEF Database
  <2>2. /\ db.seq \in Nat /\ db.epoch + 1 \in Nat /\ db.pruned \in Nat /\ db.server \in Nat
        /\ db.alive \in SUBSET Objects /\ db.number \in [Objects -> Nat]
        /\ db.content \in [Objects -> Nat] /\ db.folder \in [Ciphers -> Folders \cup {NoFolder}]
        /\ db.marked \in SUBSET Folders /\ db.tombs \in SUBSET Tombstone
    BY StoreFacts DEF Database
  <2> QED
    BY <2>1, <2>2 DEF Database
<1>3. /\ db'.seq = db.seq /\ db'.alive = db.alive /\ db'.number = db.number
      /\ db'.content = db.content /\ db'.tombs = db.tombs /\ db'.server = db.server
      /\ db'.pruned = db.pruned /\ db'.marked = db.marked /\ db'.epoch = db.epoch + 1
  BY <1>1, StoreFacts DEF Database
<1>4. Follows(db, db')
  BY <1>3, StoreFacts DEF Follows, Database
<1>5. Ordered(db')
  BY <1>3 DEF Ordered
<1> QED
  BY <1>1, <1>2, <1>4, <1>5, StoreFacts DEF Written

LEMMA PruneWrites ==
    ASSUME StoreTypeOK, Ordered(db), NEW old \in SUBSET db.tombs, PruneTombstones(old)
    PROVE  Written
<1>1. PICK p \in {db.pruned} \cup {t.seq : t \in old} :
        /\ p >= db.pruned /\ \A t \in old : t.seq <= p
        /\ db' = [db EXCEPT !.tombs = db.tombs \ old, !.pruned = p]
  BY DEF PruneTombstones
<1>2. UNCHANGED <<writes, born, backups, restore, minted>>
  BY DEF PruneTombstones
<1>3. p \in Nat
  BY <1>1, StoreFacts DEF Database, Tombstone
<1>4. db' \in Database
  BY <1>1, <1>3, StoreFacts DEF Database
<1>5. /\ db'.seq = db.seq /\ db'.alive = db.alive /\ db'.number = db.number
      /\ db'.content = db.content /\ db'.tombs = db.tombs \ old /\ db'.server = db.server
      /\ db'.pruned = p /\ db'.marked = db.marked /\ db'.epoch = db.epoch
      /\ db'.folder = db.folder /\ db'.travel = db.travel
  BY <1>1, StoreFacts DEF Database
<1>6. Follows(db, db')
  <2>1. HiddenFolders(db') = HiddenFolders(db)
    BY <1>5 DEF HiddenFolders
  <2>2. \A o \in Rows : View(db', o) = View(db, o)
    BY <1>5, <2>1 DEF View, IsHidden
  <2>3. db'.seq >= db.seq /\ db'.epoch >= db.epoch /\ db'.pruned >= db.pruned
    BY <1>1, <1>5, StoreFacts DEF Database
  <2> QED
    BY <1>1, <1>5, <2>1, <2>2, <2>3 DEF Follows
<1>7. Ordered(db')
  BY <1>5 DEF Ordered
<1> QED
  BY <1>2, <1>4, <1>6, <1>7, StoreFacts DEF Written

(* Every transaction of the running program numbers what it changes.       *)
LEMMA WriteNumbers ==
    ASSUME StoreTypeOK, Ordered(db), Write
    PROVE  Written
<1>0. NoFolder \in Folders \cup {NoFolder} /\ {} \in SUBSET Ciphers /\ {} \in SUBSET Sends
  OBVIOUS
<1>1. ASSUME NEW f \in Folders, SaveFolder(f) \/ DeleteFolder(f)
      PROVE  Written
  BY <1>1, FolderWrites
<1>2. ASSUME NEW c \in Ciphers, NEW f \in Folders \cup {NoFolder}, SaveCipher(c, f)
      PROVE  Written
  BY <1>0, <1>2, ItemWrites
<1>3. ASSUME NEW items \in SUBSET Ciphers, ChangeCiphers(items) \/ DeleteCiphers(items)
      PROVE  Written
  BY <1>0, <1>3, ItemWrites
<1>4. ASSUME NEW items \in SUBSET Ciphers, NEW f \in Folders \cup {NoFolder}, MoveCiphers(items, f)
      PROVE  Written
  BY <1>0, <1>4, ItemWrites
<1>5. ASSUME NEW sends \in SUBSET Sends, NEW items \in SUBSET Ciphers, Sweep(sends, items)
      PROVE  Written
  <2>1. PICK f \in Folders \cup {NoFolder} : TRUE
    BY <1>0
  <2> QED
    BY <1>5, ItemWrites
<1>6. ASSUME NEW folders \in SUBSET Folders, NEW items \in SUBSET Ciphers,
             NEW f \in Folders \cup {NoFolder}, NEW large \in BOOLEAN,
             Import(folders, items, f, large)
      PROVE  Written
  BY <1>6, ImportWrites
<1>7. ASSUME NEW wanted \in SUBSET Folders, SetTravelFolders(wanted)
      PROVE  Written
  BY <1>7, TravelFolderWrites
<1>8. ASSUME NEW on \in BOOLEAN, SetTravelling(on)
      PROVE  Written
  BY <1>8, TravellingWrites
<1>9. ASSUME NEW old \in SUBSET db.tombs, PruneTombstones(old)
      PROVE  Written
  BY <1>9, PruneWrites
<1> QED
  BY <1>1, <1>2, <1>3, <1>4, <1>5, <1>6, <1>7, <1>8, <1>9,
     PurgeWrites, RotationWrites, SendAndProfileWrites DEF Write, Transaction

-----------------------------------------------------------------------------
(* What a client has right stays right, or the change is above its cursor. *)

(* A cursor that fits after a transaction did fit before it.               *)
LEMMA FitsBefore ==
    ASSUME NEW d \in Database, NEW e \in Database, Follows(d, e), NEW k \in Cursor,
           k.s = d.server => k.e <= d.epoch /\ k.u <= d.seq, Fits(e, k)
    PROVE  Fits(d, k) /\ e.epoch = d.epoch /\ k.u <= d.seq /\ e.pruned <= k.u
BY DEF Follows, Fits, Database, Cursor

LEMMA RightFollows ==
    ASSUME NEW d \in Database, NEW e \in Database, Follows(d, e), e.epoch = d.epoch,
           NEW u \in Nat, u <= d.seq, e.pruned <= u,
           NEW v, NEW o \in Rows, Right(d, v, o, u)
    PROVE  Right(e, v, o, u)
<1>0. d.seq \in Nat /\ e.pruned \in Nat /\ e.number[o] \in Nat /\ d.number[o] \in Nat
  BY DEF Database, Objects
<1>4. /\ \A t \in d.tombs : t.seq \in Nat
      /\ \A t \in e.tombs : t.seq \in Nat
  BY DEF Database, Tombstone
<1>1. CASE o \in e.alive /\ e.number[o] > d.seq
  <2>1. e.number[o] > u
    BY <1>0, <1>1
  <2> QED
    BY <1>1, <2>1 DEF Right
<1>2. CASE \E t \in e.tombs : t.id = o /\ t.seq > d.seq
  <2>1. PICK t \in e.tombs : t.id = o /\ t.seq > d.seq
    BY <1>2
  <2>2. t.seq > u
    BY <1>0, <1>4, <2>1
  <2> QED
    BY <2>1, <2>2 DEF Right
<1>3. CASE /\ View(e, o) = View(d, o)
           /\ o \in d.alive => o \in e.alive /\ e.number[o] = d.number[o]
  <2>1. CASE v = View(d, o)
    BY <2>1, <1>3 DEF Right
  <2>2. CASE o \in d.alive /\ d.number[o] > u
    BY <2>2, <1>3 DEF Right
  <2>3. CASE \E t \in d.tombs : t.id = o /\ t.seq > u
    <3>1. PICK t \in d.tombs : t.id = o /\ t.seq > u
      BY <2>3
    <3>2. t \in e.tombs \/ t.seq <= e.pruned
      BY DEF Follows
    <3>3. t \in e.tombs
      BY <1>0, <1>4, <3>1, <3>2
    <3> QED
      BY <3>1, <3>3 DEF Right
  <2> QED
    BY <2>1, <2>2, <2>3 DEF Right
<1> QED
  BY <1>1, <1>2, <1>3 DEF Follows

(* A transaction leaves a cursor known, and whatever was right from a      *)
(* cursor that still fits after it was right before it and stays so.       *)
LEMMA WrittenKeeps ==
    ASSUME StoreTypeOK, Written, NEW k \in Cursor, Known(k)
    PROVE  /\ k.s <= minted'
           /\ restore' = "none" /\ k.s = db'.server => k.e <= db'.epoch /\ k.u <= db'.seq
           /\ restore' = "none" /\ Fits(db', k) =>
                /\ Current(k) /\ HiddenFolders(db') = HiddenFolders(db)
                /\ \A v : \A o \in Rows : Right(db, v, o, k.u) => Right(db', v, o, k.u)
<1>0. db \in Database /\ db' \in Database /\ Follows(db, db')
      /\ minted' = minted /\ restore' = restore
  BY DEF StoreTypeOK, Written
<1>1. /\ k.s <= minted'
      /\ restore' = "none" /\ k.s = db'.server => k.e <= db'.epoch /\ k.u <= db'.seq
  BY <1>0 DEF Known, Follows, Database, Cursor
<1>2. ASSUME restore' = "none", Fits(db', k)
      PROVE  Current(k) /\ db'.epoch = db.epoch /\ k.u <= db.seq /\ db'.pruned <= k.u
             /\ HiddenFolders(db') = HiddenFolders(db)
  <2>1. k.s = db.server => k.e <= db.epoch /\ k.u <= db.seq
    BY <1>0, <1>2 DEF Known
  <2>2. Fits(db, k) /\ db'.epoch = db.epoch /\ k.u <= db.seq /\ db'.pruned <= k.u
    BY <1>0, <1>2, <2>1, FitsBefore
  <2> QED
    BY <1>0, <1>2, <2>2 DEF Current, Follows
<1>3. ASSUME restore' = "none", Fits(db', k), NEW v, NEW o \in Rows, Right(db, v, o, k.u)
      PROVE  Right(db', v, o, k.u)
  <2>1. k.u \in Nat
    BY DEF Cursor
  <2> QED
    BY <1>0, <1>2, <1>3, <2>1, RightFollows
<1> QED
  BY <1>1, <1>2, <1>3

(* The invariant after a transaction of the running program.               *)
LEMMA WriteKeepsIInv ==
    ASSUME IInv, Write, UNCHANGED <<copy, cursor, req>>
    PROVE  IInv'
<1>0. StoreTypeOK /\ Ordered(db) /\ copy \in [Objects -> Nat]
      /\ cursor \in Cursor /\ req \in Request /\ req.cursor \in Cursor
  BY DEF IInv, TypeOK, Request
<1>1. Written
  BY <1>0, WriteNumbers
<1>2. TypeOK'
  BY <1>0, <1>1 DEF Written, TypeOK, StoreTypeOK
<1>3. Ordered(db)' /\ \A b \in backups' : Ordered(b)'
  BY <1>1 DEF Written, IInv, Ordered
<1>4. Known(cursor)' /\ NothingIsMissed'
  <2>1. Known(cursor)
    BY DEF IInv
  <2>2. Known(cursor)'
    BY <1>0, <1>1, <2>1, WrittenKeeps DEF Known
  <2>3. NothingIsMissed'
    BY <1>0, <1>1, <2>1, WrittenKeeps DEF IInv, NothingIsMissed, Current
  <2> QED
    BY <2>2, <2>3
<1>5. ReadingRight'
  <2>1. SUFFICES ASSUME req.at = "reading"
                 PROVE  ReadingRight'
    BY DEF ReadingRight
  <2>2. Known(req.cursor) /\ req.page \in [Objects -> Nat]
    BY <2>1 DEF IInv, ReadingRight
  <2>3. Known(req.cursor)'
    BY <1>0, <1>1, <2>2, WrittenKeeps DEF Known
  <2>4. Folders \subseteq Rows /\ Ciphers \subseteq Rows /\ Sends \subseteq Rows
    BY DEF Rows
  <2>5. ASSUME restore' = "none", Fits(db', req.cursor)
        PROVE  /\ Current(req.cursor) /\ HiddenFolders(db') = HiddenFolders(db)
               /\ \A v : \A o \in Rows :
                    Right(db, v, o, req.cursor.u) => Right(db', v, o, req.cursor.u)
    BY <1>0, <1>1, <2>2, <2>5, WrittenKeeps
  <2>6. Current(req.cursor)' =>
            /\ restore' = "none" /\ Fits(db', req.cursor)
    BY DEF Current
  <2> QED
    BY <2>1, <2>2, <2>3, <2>4, <2>5, <2>6 DEF IInv, ReadingRight
<1>6. AnswerRight'
  <2>1. SUFFICES ASSUME req.at = "answer"
                 PROVE  AnswerRight'
    BY DEF AnswerRight
  <2>2. Known(req.cursor)
    BY <2>1 DEF IInv, AnswerRight
  <2>3. Known(req.cursor)'
    BY <1>0, <1>1, <2>2, WrittenKeeps DEF Known
  <2>4. ASSUME restore' = "none", Fits(db', req.cursor)
        PROVE  /\ Current(req.cursor)
               /\ \A v : \A o \in Rows :
                    Right(db, v, o, req.cursor.u) => Right(db', v, o, req.cursor.u)
    BY <1>0, <1>1, <2>2, <2>4, WrittenKeeps
  <2>5. Current(req.cursor)' => restore' = "none" /\ Fits(db', req.cursor)
    BY DEF Current
  <2> QED
    BY <2>1, <2>3, <2>4, <2>5 DEF IInv, AnswerRight
<1> QED
  BY <1>2, <1>3, <1>4, <1>5, <1>6 DEF IInv

-----------------------------------------------------------------------------
(* Backups put back.  Between the pages and the new server epoch nothing   *)
(* is claimed of any cursor; with the epoch drawn none fits any more.      *)

LEMMA EndedType ==
    ASSUME StoreTypeOK, NEW d \in Database, Ordered(d),
           NEW num \in Numberings(d, {Profile}, {})
    PROVE  LET e == SessionsEnded(d, num) IN
           /\ e \in Database /\ e.server = minted + 1
           /\ e.marked \subseteq e.alive
           /\ \A o \in e.alive : e.number[o] <= e.seq
           /\ \A o \in Rows \ e.alive : e.content[o] = 0
           /\ \A t \in e.tombs : t.seq <= e.seq /\ (t.id \in e.alive => t.seq < e.number[t.id])
<1> DEFINE r == Edited(d, {Profile}, {}, num, d.folder, d.marked, d.epoch + 1)
           e == SessionsEnded(d, num)
<1>1. {Profile} \in SUBSET Objects /\ {} \in SUBSET Objects /\ {} \in SUBSET Rows
      /\ {Profile} \cap {} = {} /\ writes \in Nat /\ minted \in Nat
  BY DEF Objects, StoreTypeOK
<1>2. /\ d.folder \in [Ciphers -> Folders \cup {NoFolder}] /\ d.marked \in SUBSET Folders
      /\ d.marked \subseteq (d.alive \cup {Profile}) \ {}
      /\ d.epoch + 1 \in Nat /\ d.epoch + 1 >= d.epoch /\ d.epoch + 1 # d.epoch
  BY DEF Database, Ordered
<1>3. r \in Database /\ Ordered(r)
  BY <1>1, <1>2, EditedFollows
<1>4. e = [r EXCEPT !.server = minted + 1]
  BY DEF SessionsEnded, Restamped, Edited, Rewritten, Database
<1> HIDE DEF r, e
<1>5. /\ e.seq = r.seq /\ e.alive = r.alive /\ e.number = r.number /\ e.content = r.content
      /\ e.tombs = r.tombs /\ e.marked = r.marked /\ e.server = minted + 1
  BY <1>3, <1>4 DEF Database
<1>6. e \in Database
  BY <1>1, <1>3, <1>4 DEF Database
<1> QED
  BY <1>3, <1>5, <1>6 DEF Ordered, e

(* With a server epoch nobody has seen, and no restore half done, every    *)
(* cursor is known and none fits.                                          *)
LEMMA FreshServerKeepsIInv ==
    ASSUME IInv, NEW d \in Database, Ordered(d), NEW num \in Numberings(d, {Profile}, {}),
           db' = SessionsEnded(d, num), writes' = writes + 1, minted' = minted + 1,
           restore' = "none", UNCHANGED <<born, backups, copy, cursor>>, req' \in {req, Idle}
    PROVE  IInv'
<1>0. StoreTypeOK /\ minted \in Nat /\ cursor \in Cursor
      /\ req \in Request /\ req.cursor \in Cursor
  BY DEF IInv, TypeOK, StoreTypeOK, Request
<1>1. /\ db' \in Database /\ db'.server = minted + 1
      /\ db'.marked \subseteq db'.alive
      /\ \A o \in db'.alive : db'.number[o] <= db'.seq
      /\ \A o \in Rows \ db'.alive : db'.content[o] = 0
      /\ \A t \in db'.tombs : t.seq <= db'.seq /\ (t.id \in db'.alive => t.seq < db'.number[t.id])
  BY <1>0, EndedType
<1>2. Idle \in Request
  BY DEF Idle, Request, NoCursor, Cursor
<1>3. TypeOK'
  BY <1>0, <1>1, <1>2 DEF IInv, TypeOK, StoreTypeOK
<1>4. Ordered(db)' /\ \A b \in backups' : Ordered(b)'
  <2>1. Ordered(db)'
    BY <1>0, <1>1 DEF Ordered
  <2>2. ASSUME NEW b \in backups
        PROVE  Ordered(b)'
    <3>1. Ordered(b) /\ b.server \in Nat
      BY <1>0 DEF IInv, StoreTypeOK, Database
    <3> QED
      BY <1>0, <3>1 DEF Ordered
  <2> QED
    BY <2>1, <2>2
<1>5. \A k \in Cursor : k.s <= minted => k.s <= minted' /\ k.s # db'.server
  BY <1>0, <1>1 DEF Cursor
<1>6. Known(cursor)' /\ NothingIsMissed'
  BY <1>0, <1>5 DEF IInv, Known, NothingIsMissed, Fits
<1>7. ReadingRight'
  BY <1>0, <1>5 DEF IInv, ReadingRight, Known, Current, Fits, Idle
<1>8. AnswerRight'
  BY <1>0, <1>5 DEF IInv, AnswerRight, Known, Current, Fits, Idle
<1> QED
  BY <1>3, <1>4, <1>6, <1>7, <1>8 DEF IInv

LEMMA BackupsKeepIInv ==
    ASSUME IInv,
           \/ /\ TakeBackup \/ \E b \in backups : RestorePages(b)
              /\ UNCHANGED <<copy, cursor, req>>
           \/ EndSessions /\ UNCHANGED <<copy, cursor, req>>
           \/ ServerStops
    PROVE  IInv'
<1>0. Idle \in Request /\ req \in Request
  BY DEF Idle, Request, NoCursor, Cursor, IInv, TypeOK
<1>1. CASE TakeBackup /\ UNCHANGED <<copy, cursor, req>>
  <2>1. UNCHANGED <<db, writes, born, restore, minted>> /\ backups' = backups \cup {db}
    BY <1>1 DEF TakeBackup
  <2>2. TypeOK'
    BY <1>1, <2>1 DEF IInv, TypeOK, StoreTypeOK
  <2> QED
    BY <1>1, <2>1, <2>2 DEF IInv, Ordered, Known, NothingIsMissed, ReadingRight, AnswerRight,
        Current
<1>2. ASSUME NEW b \in backups, RestorePages(b), UNCHANGED <<copy, cursor, req>>
      PROVE  IInv'
  <2>1. db' = b /\ restore' = "copied" /\ UNCHANGED <<writes, born, backups, minted>>
    BY <1>2 DEF RestorePages
  <2>2. TypeOK'
    BY <1>2, <2>1 DEF IInv, TypeOK, StoreTypeOK
  <2>3. Ordered(db)' /\ \A c \in backups' : Ordered(c)'
    BY <1>2, <2>1 DEF IInv, Ordered
  <2>4. Known(cursor)' /\ NothingIsMissed'
    BY <1>2, <2>1 DEF IInv, Known, NothingIsMissed
  <2>5. ReadingRight' /\ AnswerRight'
    BY <1>2, <2>1 DEF IInv, ReadingRight, AnswerRight, Known, Current
  <2> QED
    BY <2>2, <2>3, <2>4, <2>5 DEF IInv
<1>3. CASE EndSessions /\ UNCHANGED <<copy, cursor, req>>
  <2>1. PICK num \in Numberings(db, {Profile}, {}) : db' = SessionsEnded(db, num)
    BY <1>3 DEF EndSessions
  <2>2. db \in Database /\ Ordered(db)
    BY DEF IInv, TypeOK, StoreTypeOK
  <2> QED
    BY <1>3, <2>1, <2>2, FreshServerKeepsIInv DEF EndSessions
<1>4. CASE DieInRestore /\ req' = Idle /\ UNCHANGED <<copy, cursor>>
  <2>1. restore' = "broken" /\ UNCHANGED <<db, writes, born, backups, minted>>
    BY <1>4 DEF DieInRestore
  <2>2. TypeOK'
    BY <1>0, <1>4, <2>1 DEF IInv, TypeOK, StoreTypeOK
  <2>3. Ordered(db)' /\ \A c \in backups' : Ordered(c)'
    BY <1>4, <2>1 DEF IInv, Ordered
  <2>4. Known(cursor)' /\ NothingIsMissed'
    BY <1>4, <2>1 DEF IInv, Known, NothingIsMissed
  <2>5. ReadingRight' /\ AnswerRight'
    BY <1>4, <2>1 DEF ReadingRight, AnswerRight, Idle
  <2> QED
    BY <2>2, <2>3, <2>4, <2>5 DEF IInv
<1>5. ASSUME NEW b \in backups, RestoreOffline(b), req' = Idle, UNCHANGED <<copy, cursor>>
      PROVE  IInv'
  <2>1. PICK num \in Numberings(b, {Profile}, {}) : db' = SessionsEnded(b, num)
    BY <1>5 DEF RestoreOffline
  <2>2. b \in Database /\ Ordered(b)
    BY DEF IInv, TypeOK, StoreTypeOK
  <2> QED
    BY <1>5, <2>1, <2>2, FreshServerKeepsIInv DEF RestoreOffline
<1> QED
  BY <1>1, <1>2, <1>3, <1>4, <1>5 DEF ServerStops

-----------------------------------------------------------------------------
(* The steps of a request.                                                 *)

LEMMA KeepFact == \A n \in Nat : n # Keep
BY DEF Keep

(* A page of a delta puts right what was wrong above the cursor, up to     *)
(* where the page ends; the rest is above the cursor it hands out.         *)
LEMMA DeltaPageRight ==
    ASSUME NEW d \in Database, Ordered(d), NEW mine \in [Objects -> Nat],
           NEW since \in Nat, NEW until \in Nat, NEW user, NEW o \in Rows,
           Right(d, mine[o], o, since)
    PROVE  Right(d, Applied(mine, DeltaPage(d, since, until, user))[o], o, until)
<1> DEFINE page == DeltaPage(d, since, until, user)
           changed == Changed(d, since, until)
           deleted == DeltaDeleted(d, since, until)
<1>0. o \in Objects /\ o # Profile
  BY IdsAssumption DEF Objects
<1>1. page[o] = IF o \in changed /\ ~IsHidden(d, o) THEN d.content[o]
                ELSE IF o \in deleted THEN 0 ELSE Keep
  BY <1>0 DEF DeltaPage
<1>2. Applied(mine, page)[o] = IF page[o] = Keep THEN mine[o] ELSE page[o]
  BY <1>0 DEF Applied
<1>3. d.content[o] \in Nat /\ d.number[o] \in Nat
  BY <1>0 DEF Database
<1>4. \A t \in d.tombs : t.seq \in Nat
  BY DEF Database, Tombstone
<1>5. o \in d.alive /\ d.number[o] > since => o \in changed \/ d.number[o] > until
  BY <1>3 DEF Changed, InWindow
<1> SUFFICES Right(d, Applied(mine, page)[o], o, until)
  OBVIOUS
<1> HIDE DEF page, changed
<1>6. CASE o \in changed
  <2>1. o \in d.alive
    BY <1>6 DEF changed, Changed
  <2>2. CASE ~IsHidden(d, o)
    <3>1. page[o] = d.content[o]
      BY <1>1, <1>6, <2>2
    <3>2. Applied(mine, page)[o] = d.content[o]
      BY <1>2, <1>3, <3>1, KeepFact
    <3> QED
      BY <2>1, <2>2, <3>2 DEF Right, View
  <2>3. CASE IsHidden(d, o)
    <3>1. o \in deleted
      BY <1>6, <2>3 DEF DeltaDeleted, changed
    <3>2. page[o] = 0
      BY <1>1, <2>3, <3>1
    <3> QED
      BY <1>2, <2>3, <3>2, KeepFact DEF Right, View
  <2> QED
    BY <2>2, <2>3
<1>7. CASE o \notin changed /\ \E t \in d.tombs : t.id = o /\ InWindow(t.seq, since, until)
  <2>1. PICK t \in d.tombs : t.id = o /\ InWindow(t.seq, since, until)
    BY <1>7
  <2>2. o \in deleted
    BY <1>7 DEF DeltaDeleted, changed
  <2>3. Applied(mine, page)[o] = 0
    <3>1. page[o] = 0
      BY <1>1, <1>7, <2>2
    <3> QED
      BY <1>2, <3>1, KeepFact
  <2>4. CASE o \notin d.alive
    BY <2>3, <2>4 DEF Right, View
  <2>5. CASE o \in d.alive
    <3>1. t.seq < d.number[o] /\ t.seq > since
      BY <1>4, <2>1, <2>5 DEF Ordered, InWindow
    <3>2. d.number[o] > since
      BY <1>3, <1>4, <2>1, <3>1
    <3>3. d.number[o] > until
      BY <1>5, <1>7, <2>5, <3>2
    <3> QED
      BY <2>5, <3>3 DEF Right
  <2> QED
    BY <2>4, <2>5
<1>8. CASE o \notin changed /\ ~\E t \in d.tombs : t.id = o /\ InWindow(t.seq, since, until)
  <2>1. o \notin deleted
    BY <1>8 DEF DeltaDeleted, changed
  <2>2. Applied(mine, page)[o] = mine[o]
    BY <1>1, <1>2, <1>8, <2>1
  <2>3. CASE mine[o] = View(d, o)
    BY <2>2, <2>3 DEF Right
  <2>4. CASE o \in d.alive /\ d.number[o] > since
    <3>1. d.number[o] > until
      BY <1>5, <1>8, <2>4
    <3> QED
      BY <2>4, <3>1 DEF Right
  <2>5. CASE \E t \in d.tombs : t.id = o /\ t.seq > since
    <3>1. PICK t \in d.tombs : t.id = o /\ t.seq > since
      BY <2>5
    <3>2. t.seq > until
      BY <1>4, <1>8, <3>1 DEF InWindow
    <3> QED
      BY <3>1, <3>2 DEF Right
  <2> QED
    BY <2>3, <2>4, <2>5 DEF Right
<1> QED
  BY <1>6, <1>7, <1>8

LEMMA PageType ==
    ASSUME NEW d \in Database, NEW since \in Nat, NEW until \in Nat, NEW user \in Nat
    PROVE  /\ DeltaPage(d, since, until, user) \in [Objects -> Nat \cup {Keep}]
           /\ DeltaDeleted(d, since, until) \in SUBSET Rows
<1>1. ASSUME NEW o \in Objects
      PROVE  DeltaPage(d, since, until, user)[o] \in Nat \cup {Keep}
  <2>1. d.content[o] \in Nat
    BY DEF Database
  <2> QED
    BY <2>1 DEF DeltaPage
<1>2. DeltaDeleted(d, since, until) \in SUBSET Rows
  <2>1. \A o : IsHidden(d, o) => o \in Rows
    BY DEF IsHidden, HiddenFolders, Rows, Database
  <2> QED
    BY <2>1 DEF DeltaDeleted
<1> QED
  BY <1>1, <1>2 DEF DeltaPage

(* Where a page ends: at a number above the cursor and not above the       *)
(* counter.                                                                *)
LEMMA CutBounds ==
    ASSUME NEW d \in Database, Ordered(d), NEW since \in Nat, since <= d.seq,
           NEW w \in Cut(d, since)
    PROVE  w.until \in Nat /\ w.until <= d.seq /\ w.more \in BOOLEAN
<1>1. \A n \in NumbersAbove(d, since) : n \in Nat /\ n <= d.seq
  BY DEF NumbersAbove, Ordered, Database, Tombstone
<1>2. d.seq \in Nat
  BY DEF Database
<1>3. CASE Cardinality(NumbersAbove(d, since)) > Limit
  <2>1. PICK n \in NumbersAbove(d, since) : w = [until |-> n, more |-> TRUE]
    BY <1>3 DEF Cut
  <2> QED
    BY <1>1, <2>1
<1>4. CASE ~(Cardinality(NumbersAbove(d, since)) > Limit)
  <2>1. w = [until |-> d.seq, more |-> FALSE]
    BY <1>4 DEF Cut
  <2> QED
    BY <1>2, <2>1
<1> QED
  BY <1>3, <1>4

(* A page ends no earlier than the cursor it was asked with.               *)
LEMMA CutMovesOn ==
    ASSUME NEW d \in Database, Ordered(d), NEW since \in Nat, since <= d.seq,
           NEW w \in Cut(d, since)
    PROVE  w.until >= since
<1>0. w.until \in Nat
  BY CutBounds
<1>1. CASE Cardinality(NumbersAbove(d, since)) > Limit
  <2>1. PICK n \in NumbersAbove(d, since) : w = [until |-> n, more |-> TRUE]
    BY <1>1 DEF Cut
  <2> QED
    BY <1>0, <2>1 DEF NumbersAbove
<1>2. CASE ~(Cardinality(NumbersAbove(d, since)) > Limit)
  BY <1>2 DEF Cut
<1> QED
  BY <1>1, <1>2

(* A step of the request alone leaves the store, the replica and its       *)
(* cursor as they are.                                                     *)
LEMMA QuietFacts ==
    ASSUME IInv, UNCHANGED <<storeVars, copy, cursor>>, req' \in Request
    PROVE  /\ TypeOK' /\ Ordered(db)' /\ \A b \in backups' : Ordered(b)'
           /\ Known(cursor)' /\ NothingIsMissed'
           /\ db \in Database /\ Ordered(db) /\ Known(cursor) /\ NothingIsMissed
           /\ copy \in [Objects -> Nat] /\ cursor \in Cursor /\ req \in Request
           /\ CursorAt(db) \in Cursor /\ Known(CursorAt(db))
<1>1. UNCHANGED <<db, writes, born, backups, restore, minted, copy, cursor>>
  BY DEF storeVars
<1>2. TypeOK'
  BY <1>1 DEF IInv, TypeOK, StoreTypeOK
<1>3. Ordered(db)' /\ \A b \in backups' : Ordered(b)'
  BY <1>1 DEF IInv, Ordered
<1>4. Known(cursor)' /\ NothingIsMissed'
  BY <1>1 DEF IInv, Known, NothingIsMissed
<1>5. CursorAt(db) \in Cursor /\ Known(CursorAt(db))
  BY DEF IInv, TypeOK, StoreTypeOK, CursorAt, Cursor, Known, Database, Ordered
<1> QED
  BY <1>2, <1>3, <1>4, <1>5 DEF IInv, TypeOK, StoreTypeOK

LEMMA BeginKeepsIInv ==
    ASSUME IInv, BeginSync \/ Lose
    PROVE  IInv'
<1>1. UNCHANGED <<storeVars, copy, cursor>>
  BY DEF BeginSync, Lose
<1>2. Idle \in Request
  BY DEF Idle, Request, NoCursor, Cursor
<1>3. db.content[Profile] \in Nat
  BY DEF IInv, TypeOK, StoreTypeOK, Database, Objects
<1>4. req' \in Request /\ req'.at \notin {"reading", "answer"}
  <2>1. CASE Lose
    BY <2>1, <1>2 DEF Lose, Idle
  <2>2. CASE BeginSync
    BY <2>2, <1>2, <1>3 DEF BeginSync, Idle, Request
  <2> QED
    BY <2>1, <2>2
<1>5. ReadingRight' /\ AnswerRight'
  BY <1>4 DEF ReadingRight, AnswerRight
<1> QED
  BY <1>1, <1>4, <1>5, QuietFacts DEF IInv

LEMMA ReadDeltaKeepsIInv ==
    ASSUME IInv, ReadDelta
    PROVE  IInv'
<1>0. /\ UNCHANGED <<storeVars, copy, cursor>> /\ req.at = "session" /\ req \in Request
      /\ UNCHANGED <<db, restore, minted, copy>>
      /\ db \in Database /\ Ordered(db) /\ NothingIsMissed
      /\ copy \in [Objects -> Nat] /\ cursor \in Cursor
      /\ req.user \in Nat /\ cursor.u \in Nat
  BY DEF ReadDelta, IInv, TypeOK, StoreTypeOK, storeVars, Request, Cursor
<1>1. CASE ~Fits(db, cursor)
  <2>1. req' = [req EXCEPT !.at = "counters"]
    BY <1>1 DEF ReadDelta
  <2>2. req' \in Request /\ req'.at = "counters"
    BY <1>0, <2>1 DEF Request
  <2>3. ReadingRight' /\ AnswerRight'
    BY <2>2 DEF ReadingRight, AnswerRight
  <2> QED
    BY <1>0, <2>2, <2>3, QuietFacts DEF IInv
<1>2. CASE Fits(db, cursor)
  <2>1. PICK w \in Cut(db, cursor.u) :
            req' = [req EXCEPT
                !.at = "answer", !.more = w.more,
                !.cursor = [CursorAt(db) EXCEPT !.u = w.until],
                !.page = DeltaPage(db, cursor.u, w.until, req.user),
                !.deleted = DeltaDeleted(db, cursor.u, w.until)]
    BY <1>2 DEF ReadDelta
  <2>2. w.until \in Nat /\ w.until <= db.seq /\ w.more \in BOOLEAN
    BY <1>0, <1>2, CutBounds DEF Fits
  <2> DEFINE page == DeltaPage(db, cursor.u, w.until, req.user)
             deleted == DeltaDeleted(db, cursor.u, w.until)
             k == [s |-> db.server, e |-> db.epoch, u |-> w.until]
  <2>3. page \in [Objects -> Nat \cup {Keep}] /\ deleted \in SUBSET Rows
    BY <1>0, <2>2, PageType
  <2>4. restore = "none" => \A o \in Rows : Right(db, Applied(copy, page)[o], o, w.until)
    BY <1>0, <1>2, <2>2, DeltaPageRight DEF NothingIsMissed
  <2>5. k = [CursorAt(db) EXCEPT !.u = w.until] /\ k \in Cursor
        /\ k.s = db.server /\ k.e = db.epoch /\ k.u = w.until
    BY <1>0, <2>2 DEF CursorAt, Cursor, Database
  <2>6. req' = [req EXCEPT !.at = "answer", !.more = w.more, !.cursor = k,
                           !.page = page, !.deleted = deleted]
    BY <2>1, <2>5
  <2> HIDE DEF page, deleted, k
  <2>7. req' = [at |-> "answer", user |-> req.user, cursor |-> k, hidden |-> req.hidden,
                left |-> req.left, page |-> page, deleted |-> deleted, more |-> w.more]
    BY <1>0, <2>6 DEF Request
  <2>8. req' \in Request /\ req'.at = "answer" /\ req'.cursor = k /\ req'.page = page
    <3>1. req.user \in Nat /\ req.hidden \in SUBSET Folders /\ req.left \in SUBSET Parts
      BY <1>0 DEF Request
    <3> QED
      BY <2>2, <2>3, <2>5, <2>7, <3>1 DEF Request
  <2>9. Known(k)
    BY <1>0, <2>2, <2>5 DEF Known, Ordered, Database
  <2>10. ReadingRight' /\ AnswerRight'
    BY <1>0, <2>4, <2>5, <2>8, <2>9 DEF ReadingRight, AnswerRight, Known, Current
  <2> QED
    BY <1>0, <2>8, <2>10, QuietFacts DEF IInv
<1> QED
  BY <1>1, <1>2

LEMMA ReadCountersKeepsIInv ==
    ASSUME IInv, ReadCounters
    PROVE  IInv'
<1>0. UNCHANGED <<storeVars, copy, cursor>> /\ UNCHANGED <<db, restore, minted>>
      /\ req \in Request /\ req.user \in Nat /\ db \in Database /\ Ordered(db)
  BY DEF ReadCounters, storeVars, IInv, TypeOK, StoreTypeOK, Request
<1> DEFINE page == [o \in Objects |-> IF o = Profile THEN req.user ELSE 0]
<1>1. page \in [Objects -> Nat] /\ page \in [Objects -> Nat \cup {Keep}]
  BY <1>0
<1>2. req' = [req EXCEPT !.at = "reading", !.cursor = CursorAt(db), !.left = Parts, !.page = page]
  BY DEF ReadCounters
<1>3. CursorAt(db) \in Cursor /\ Known(CursorAt(db))
  BY <1>0 DEF CursorAt, Cursor, Known, Database, Ordered
<1> HIDE DEF page
<1>4. /\ req' \in Request /\ req'.at = "reading" /\ req'.cursor = CursorAt(db)
      /\ req'.left = Parts /\ req'.page = page
  BY <1>0, <1>1, <1>2, <1>3 DEF Request
<1>5. Known(req.cursor)'
  BY <1>0, <1>3, <1>4 DEF Known
<1>6. ReadingRight' /\ AnswerRight'
  BY <1>1, <1>4, <1>5 DEF ReadingRight, AnswerRight, Parts
<1> QED
  BY <1>0, <1>4, <1>6, QuietFacts DEF IInv

(* One table of a full answer read: its rows are right now, the other      *)
(* tables' stay as they were read.                                         *)
LEMMA ReadTableKeepsIInv ==
    ASSUME IInv, ReadHidden \/ ReadFolders \/ ReadCiphers \/ ReadSends
    PROVE  IInv'
<1>0. /\ UNCHANGED <<storeVars, copy, cursor>> /\ UNCHANGED <<db, restore, minted>>
      /\ req.at = "reading" /\ req \in Request /\ db \in Database /\ Ordered(db)
      /\ req.page \in [Objects -> Nat] /\ req.left \in SUBSET Parts /\ req.cursor \in Cursor
      /\ Known(req.cursor)
  BY DEF ReadHidden, ReadFolders, ReadCiphers, ReadSends, Reads, storeVars, IInv, TypeOK,
         StoreTypeOK, Request, ReadingRight
<1>1. /\ \A o \in Objects : db.content[o] \in Nat
      /\ \A o \in Rows \ db.alive : db.content[o] = 0
      /\ Rows \subseteq Objects
  BY <1>0 DEF Database, Ordered, Objects
<1>2. /\ Folders \subseteq Objects /\ Ciphers \subseteq Objects /\ Sends \subseteq Objects
      /\ Folders \cap Ciphers = {} /\ Folders \cap Sends = {} /\ Ciphers \cap Sends = {}
  BY IdsAssumption DEF Objects, Rows
<1>3. Known(req.cursor) /\ req'.cursor = req.cursor => Known(req.cursor)'
  BY <1>0 DEF Known
<1>4. req'.cursor = req.cursor /\ Current(req.cursor)' => Current(req.cursor)
  BY <1>0 DEF Current
<1>5. Current(req.cursor) =>
        /\ "hidden" \notin req.left => req.hidden = HiddenFolders(db)
        /\ "folders" \notin req.left =>
            /\ "hidden" \notin req.left
            /\ \A o \in Folders : Right(db, req.page[o], o, req.cursor.u)
        /\ "ciphers" \notin req.left => \A o \in Ciphers : Right(db, req.page[o], o, req.cursor.u)
        /\ "sends" \notin req.left => \A o \in Sends : Right(db, req.page[o], o, req.cursor.u)
  BY <1>0 DEF IInv, ReadingRight
<1>6. CASE ReadHidden
  <2>1. req' = [req EXCEPT !.left = req.left \ {"hidden"}, !.hidden = HiddenFolders(db)]
        /\ "hidden" \in req.left
    BY <1>6 DEF ReadHidden, Reads
  <2>2. /\ req'.at = "reading" /\ req'.cursor = req.cursor /\ req'.page = req.page
        /\ req'.left = req.left \ {"hidden"} /\ req'.hidden = HiddenFolders(db)
    BY <1>0, <2>1 DEF Request
  <2>3. HiddenFolders(db) \in SUBSET Folders
    BY <1>0 DEF HiddenFolders, Database
  <2>4. req' \in Request
    BY <1>0, <2>1, <2>3 DEF Request
  <2>5. ReadingRight' /\ AnswerRight'
    BY <1>0, <1>3, <1>4, <1>5, <2>1, <2>2 DEF ReadingRight, AnswerRight
  <2> QED
    BY <1>0, <2>4, <2>5, QuietFacts DEF IInv
<1>7. CASE ReadFolders
  <2> DEFINE page == [o \in Objects |->
                        IF o \in Folders
                        THEN IF o \in db.alive /\ o \notin req.hidden THEN db.content[o] ELSE 0
                        ELSE req.page[o]]
  <2>1. req' = [req EXCEPT !.left = req.left \ {"folders"}, !.page = page]
        /\ "hidden" \notin req.left
    BY <1>7 DEF ReadFolders, Reads
  <2>2. page \in [Objects -> Nat] /\ page \in [Objects -> Nat \cup {Keep}]
    BY <1>0, <1>1
  <2>3. \A o \in Folders : Current(req.cursor) => page[o] = View(db, o)
    BY <1>2, <1>5, <2>1 DEF View, IsHidden
  <2>4. \A o \in Ciphers \cup Sends : page[o] = req.page[o]
    BY <1>2
  <2> HIDE DEF page
  <2>5. /\ req'.at = "reading" /\ req'.cursor = req.cursor /\ req'.page = page
        /\ req'.left = req.left \ {"folders"} /\ req'.hidden = req.hidden
    BY <1>0, <2>1 DEF Request
  <2>6. req' \in Request
    BY <1>0, <2>1, <2>2 DEF Request
  <2>7. Current(req.cursor) => \A o \in Folders : Right(db, page[o], o, req.cursor.u)
    BY <2>3 DEF Right
  <2>8. ReadingRight' /\ AnswerRight'
    BY <1>0, <1>3, <1>4, <1>5, <2>1, <2>2, <2>4, <2>5, <2>7 DEF ReadingRight, AnswerRight
  <2> QED
    BY <1>0, <2>6, <2>8, QuietFacts DEF IInv
<1>8. CASE ReadCiphers
  <2> DEFINE page == [o \in Objects |->
                        IF o \in Ciphers
                        THEN IF o \in db.alive /\ db.folder[o] \notin req.hidden
                             THEN db.content[o] ELSE 0
                        ELSE req.page[o]]
  <2>1. req' = [req EXCEPT !.left = req.left \ {"ciphers"}, !.page = page]
        /\ "folders" \notin req.left
    BY <1>8 DEF ReadCiphers, Reads
  <2>2. page \in [Objects -> Nat] /\ page \in [Objects -> Nat \cup {Keep}]
    BY <1>0, <1>1
  <2>3. HiddenFolders(db) \subseteq Folders
    BY <1>0 DEF HiddenFolders, Database
  <2>4. \A o \in Ciphers : Current(req.cursor) => page[o] = View(db, o)
    BY <1>2, <1>5, <2>1, <2>3 DEF View, IsHidden
  <2>5. \A o \in Folders \cup Sends : page[o] = req.page[o]
    BY <1>2
  <2> HIDE DEF page
  <2>6. /\ req'.at = "reading" /\ req'.cursor = req.cursor /\ req'.page = page
        /\ req'.left = req.left \ {"ciphers"} /\ req'.hidden = req.hidden
    BY <1>0, <2>1 DEF Request
  <2>7. req' \in Request
    BY <1>0, <2>1, <2>2 DEF Request
  <2>8. Current(req.cursor) => \A o \in Ciphers : Right(db, page[o], o, req.cursor.u)
    BY <2>4 DEF Right
  <2>9. ReadingRight' /\ AnswerRight'
    BY <1>0, <1>3, <1>4, <1>5, <2>1, <2>2, <2>5, <2>6, <2>8 DEF ReadingRight, AnswerRight
  <2> QED
    BY <1>0, <2>7, <2>9, QuietFacts DEF IInv
<1>9. CASE ReadSends
  <2> DEFINE page == [o \in Objects |-> IF o \in Sends THEN db.content[o] ELSE req.page[o]]
  <2>1. req' = [req EXCEPT !.left = req.left \ {"sends"}, !.page = page]
    BY <1>9 DEF ReadSends, Reads
  <2>2. page \in [Objects -> Nat] /\ page \in [Objects -> Nat \cup {Keep}]
    BY <1>0, <1>1
  <2>3. HiddenFolders(db) \subseteq Folders
    BY <1>0 DEF HiddenFolders, Database
  <2>4. \A o \in Sends : page[o] = View(db, o)
    BY <1>1, <1>2, <2>3 DEF View, IsHidden, Rows
  <2>5. \A o \in Folders \cup Ciphers : page[o] = req.page[o]
    BY <1>2
  <2> HIDE DEF page
  <2>6. /\ req'.at = "reading" /\ req'.cursor = req.cursor /\ req'.page = page
        /\ req'.left = req.left \ {"sends"} /\ req'.hidden = req.hidden
    BY <1>0, <2>1 DEF Request
  <2>7. req' \in Request
    BY <1>0, <2>1, <2>2 DEF Request
  <2>8. \A o \in Sends : Right(db, page[o], o, req.cursor.u)
    BY <2>4 DEF Right
  <2>9. ReadingRight' /\ AnswerRight'
    BY <1>0, <1>3, <1>4, <1>5, <2>2, <2>5, <2>6, <2>8 DEF ReadingRight, AnswerRight
  <2> QED
    BY <1>0, <2>7, <2>9, QuietFacts DEF IInv
<1> QED
  BY <1>6, <1>7, <1>8, <1>9

LEMMA AnswerKeepsIInv ==
    ASSUME IInv, FullAnswer \/ Deliver
    PROVE  IInv'
<1>0. req \in Request /\ copy \in [Objects -> Nat] /\ db \in Database /\ Rows \subseteq Objects
  BY DEF IInv, TypeOK, StoreTypeOK, Objects
<1>1. CASE FullAnswer
  <2>1. /\ UNCHANGED <<storeVars, copy, cursor>> /\ UNCHANGED <<db, restore, minted, copy>>
        /\ req.at = "reading" /\ req.left = {} /\ req' = [req EXCEPT !.at = "answer"]
    BY <1>1 DEF FullAnswer, storeVars
  <2>2. req' \in Request /\ req'.at = "answer" /\ req'.cursor = req.cursor /\ req'.page = req.page
    BY <1>0, <2>1 DEF Request
  <2>3. req.page \in [Objects -> Nat] /\ Known(req.cursor)
    BY <2>1 DEF IInv, ReadingRight
  <2>4. \A o \in Rows : Applied(copy, req.page)[o] = req.page[o]
    BY <1>0, <2>3, KeepFact DEF Applied
  <2>5. Current(req.cursor) => \A o \in Rows : Right(db, req.page[o], o, req.cursor.u)
    BY <2>1 DEF IInv, ReadingRight, Rows
  <2>6. ReadingRight' /\ AnswerRight'
    BY <2>1, <2>2, <2>3, <2>4, <2>5 DEF ReadingRight, AnswerRight, Known, Current
  <2> QED
    BY <2>1, <2>2, <2>6, QuietFacts DEF IInv
<1>2. CASE Deliver
  <2>1. /\ UNCHANGED <<db, writes, born, backups, restore, minted>>
        /\ req.at = "answer" /\ copy' = Applied(copy, req.page)
        /\ cursor' = req.cursor /\ req' = Idle
    BY <1>2 DEF Deliver, storeVars
  <2>2. Idle \in Request
    BY DEF Idle, Request, NoCursor, Cursor
  <2>3. copy' \in [Objects -> Nat]
    <3>1. req.page \in [Objects -> Nat \cup {Keep}]
      BY <1>0 DEF Request
    <3>2. \A o \in Objects : (IF req.page[o] = Keep THEN copy[o] ELSE req.page[o]) \in Nat
      BY <1>0, <3>1
    <3> QED
      BY <2>1, <3>2 DEF Applied
  <2>4. TypeOK'
    BY <1>0, <2>1, <2>2, <2>3 DEF IInv, TypeOK, StoreTypeOK, Request
  <2>5. Ordered(db)' /\ \A b \in backups' : Ordered(b)'
    BY <2>1 DEF IInv, Ordered
  <2>6. Known(cursor)' /\ NothingIsMissed'
    BY <2>1 DEF IInv, AnswerRight, Known, Current, NothingIsMissed
  <2>7. ReadingRight' /\ AnswerRight'
    BY <2>1 DEF ReadingRight, AnswerRight, Idle
  <2> QED
    BY <2>4, <2>5, <2>6, <2>7 DEF IInv
<1> QED
  BY <1>1, <1>2

-----------------------------------------------------------------------------
(* The theorems.                                                           *)

LEMMA InitIInv ==
    ASSUME Init
    PROVE  IInv
<1>1. TypeOK
  <2>1. db \in Database
    BY DEF Init, StoreInit, Database, Objects
  <2>2. copy \in [Objects -> Nat] /\ cursor \in Cursor /\ req \in Request
    BY DEF Init, Cursor, NoCursor, Request, Idle
  <2> QED
    BY <2>1, <2>2 DEF Init, StoreInit, TypeOK, StoreTypeOK
<1>2. Ordered(db) /\ \A b \in backups : Ordered(b)
  BY IdsAssumption DEF Init, StoreInit, Ordered, Objects
<1>3. Known(cursor) /\ NothingIsMissed
  BY DEF Init, StoreInit, Known, NothingIsMissed, Fits, NoCursor
<1>4. ReadingRight /\ AnswerRight
  BY DEF Init, Idle, ReadingRight, AnswerRight
<1> QED
  BY <1>1, <1>2, <1>3, <1>4 DEF IInv

LEMMA NextIInv ==
    ASSUME IInv, [Next]_vars
    PROVE  IInv'
<1>1. CASE Next
  BY <1>1, WriteKeepsIInv, BackupsKeepIInv, BeginKeepsIInv, ReadDeltaKeepsIInv,
     ReadCountersKeepsIInv, ReadTableKeepsIInv, AnswerKeepsIInv
  DEF Next, ServerRuns, StoreWrite, ServerStep
<1>2. CASE UNCHANGED vars
  BY <1>2 DEF vars, IInv, TypeOK, StoreTypeOK, Ordered, Known, NothingIsMissed, ReadingRight,
     AnswerRight, Current
<1> QED
  BY <1>1, <1>2

(* In every reachable state, whatever the ids, the page size and the       *)
(* bounds, the inductive invariant holds.                                  *)
THEOREM Inductive == Spec => []IInv
<1>1. Init => IInv
  BY InitIInv
<1>2. IInv /\ [Next]_vars => IInv'
  BY NextIInv
<1> QED
  BY <1>1, <1>2, PTL DEF Spec

(* Every variable keeps its type.                                          *)
THEOREM TypeCorrect == Spec => []TypeOK
<1>1. IInv => TypeOK
  BY DEF IInv
<1> QED
  BY <1>1, Inductive, PTL

(* As long as a cursor is taken for a delta, no change to a row is lost:   *)
(* what the replica has wrong is above the cursor (read_delta and the full *)
(* answer of api/sync.rs, with every write and loss between).              *)
THEOREM NothingMissed == Spec => []NothingIsMissed
<1>1. IInv => NothingIsMissed
  BY DEF IInv
<1> QED
  BY <1>1, Inductive, PTL

(* A replica whose cursor is not behind has the account's rows.            *)
LEMMA CompleteWhenUpToDate ==
    ASSUME IInv
    PROVE  UpToDateIsComplete
<1>1. SUFFICES ASSUME restore = "none", ~Behind(db, cursor), NEW o \in Rows
               PROVE  copy[o] = View(db, o)
  BY DEF UpToDateIsComplete
<1>2. db \in Database /\ Ordered(db) /\ cursor \in Cursor /\ o \in Objects
  BY DEF IInv, TypeOK, StoreTypeOK, Objects
<1>3. Fits(db, cursor) /\ cursor.u = db.seq /\ db.seq \in Nat
  BY <1>1, <1>2 DEF Behind, Fits, Cursor, Database
<1>4. Right(db, copy[o], o, cursor.u)
  BY <1>1, <1>3 DEF IInv, NothingIsMissed
<1>5. ~(o \in db.alive /\ db.number[o] > cursor.u)
  BY <1>2, <1>3 DEF Ordered, Database
<1>6. ~\E t \in db.tombs : t.id = o /\ t.seq > cursor.u
  BY <1>2, <1>3 DEF Ordered, Database, Tombstone
<1> QED
  BY <1>4, <1>5, <1>6 DEF Right

THEOREM UpToDateComplete == Spec => []UpToDateIsComplete
<1>1. IInv => UpToDateIsComplete
  BY CompleteWhenUpToDate
<1> QED
  BY <1>1, Inductive, PTL

(* A step is a transaction, leaves the database as it is, or belongs to a  *)
(* restore.                                                                *)
LEMMA StepKinds ==
    ASSUME IInv, Next, restore = "none", restore' = "none"
    PROVE  \/ Written
           \/ db' = db
           \/ db'.server = minted + 1
<1>0. StoreTypeOK /\ Ordered(db) /\ \A b \in backups : b \in Database /\ Ordered(b)
  BY DEF IInv, TypeOK, StoreTypeOK
<1>1. CASE Write
  BY <1>0, <1>1, WriteNumbers
<1>2. CASE TakeBackup \/ BeginSync \/ ServerStep \/ Deliver \/ Lose
  BY <1>2 DEF TakeBackup, BeginSync, ServerStep, Deliver, Lose, ReadDelta, ReadCounters,
     ReadHidden, ReadFolders, ReadCiphers, ReadSends, Reads, FullAnswer, storeVars
<1>3. CASE \E b \in backups : RestorePages(b)
  BY <1>3 DEF RestorePages
<1>4. CASE EndSessions \/ DieInRestore
  BY <1>4 DEF EndSessions, DieInRestore
<1>5. ASSUME NEW b \in backups, RestoreOffline(b)
      PROVE  db'.server = minted + 1
  <2>1. PICK num \in Numberings(b, {Profile}, {}) : db' = SessionsEnded(b, num)
    BY <1>5 DEF RestoreOffline
  <2> QED
    BY <1>0, <2>1, EndedType
<1> QED
  BY <1>1, <1>2, <1>3, <1>4, <1>5 DEF Next, ServerRuns, StoreWrite, ServerStops

(* No transaction writes past the triggers of migration 0012: a row that   *)
(* changes takes a new number, one that goes leaves a tombstone, or the    *)
(* account's epoch moves on.                                               *)
THEOREM ChangesNumbered == Spec => EveryChangeIsNumbered
<1> DEFINE A == restore = "none" /\ restore' = "none" /\ db'.server = db.server
                => Follows(db, db')
<1>1. ASSUME db \in Database PROVE Follows(db, db)
  BY <1>1 DEF Follows, Database
<1>2. IInv /\ [Next]_vars => [A]_vars
  <2>1. SUFFICES ASSUME IInv, Next, restore = "none", restore' = "none", db'.server = db.server
                 PROVE  Follows(db, db')
    OBVIOUS
  <2>2. db \in Database /\ db.server <= minted /\ minted \in Nat /\ db.server \in Nat
    BY <2>1 DEF IInv, TypeOK, StoreTypeOK, Ordered, Database
  <2>3. db'.server # minted + 1
    BY <2>1, <2>2
  <2>4. CASE Written
    BY <2>4 DEF Written
  <2>5. CASE db' = db
    BY <1>1, <2>2, <2>5
  <2> QED
    BY <2>1, <2>3, <2>4, <2>5, StepKinds
<1> QED
  BY <1>2, Inductive, PTL DEF Spec, EveryChangeIsNumbered

(* A cursor that no longer fits never fits again.                          *)
THEOREM StaleForGood == Spec => StaleStaysStale
<1> DEFINE A == restore = "none" /\ restore' = "none" /\ cursor' = cursor /\ ~Fits(db, cursor)
                => ~Fits(db', cursor)
<1>1. IInv /\ [Next]_vars => [A]_vars
  <2>1. SUFFICES ASSUME IInv, Next, restore = "none", restore' = "none", Fits(db', cursor)
                 PROVE  Fits(db, cursor)
    OBVIOUS
  <2>2. db \in Database /\ minted \in Nat /\ cursor \in Cursor /\ Known(cursor)
    BY <2>1 DEF IInv, TypeOK, StoreTypeOK
  <2>3. db'.server # minted + 1
    <3>1. cursor.s \in Nat /\ cursor.s <= minted /\ cursor.s = db'.server
      BY <2>1, <2>2 DEF Fits, Known, Cursor
    <3> QED
      BY <2>2, <3>1
  <2>4. CASE Written
    BY <2>1, <2>2, <2>4, FitsBefore DEF Written, Known
  <2>5. CASE db' = db
    BY <2>1, <2>5
  <2> QED
    BY <2>1, <2>3, <2>4, <2>5, StepKinds
<1> QED
  BY <1>1, Inductive, PTL DEF Spec, StaleStaysStale

(* A restore that ends leaves a server epoch nobody has seen.              *)
LEMMA RestoreEnds ==
    ASSUME IInv, Next, restore # "none", restore' = "none"
    PROVE  db'.server = minted + 1 /\ cursor' = cursor
<1>0. StoreTypeOK /\ Ordered(db) /\ db \in Database
      /\ \A b \in backups : b \in Database /\ Ordered(b)
  BY DEF IInv, TypeOK, StoreTypeOK
<1>1. CASE Write \/ TakeBackup \/ BeginSync \/ ServerStep \/ Deliver \/ Lose
  <2>1. CASE Write
    BY <1>0, <2>1, WriteNumbers DEF Written
  <2>2. CASE ~Write
    BY <1>1, <2>2 DEF TakeBackup, BeginSync, ServerStep, Deliver, Lose, ReadDelta,
       ReadCounters, ReadHidden, ReadFolders, ReadCiphers, ReadSends, Reads, FullAnswer, storeVars
  <2> QED
    BY <2>1, <2>2
<1>2. CASE (\E b \in backups : RestorePages(b)) \/ DieInRestore
  BY <1>2 DEF RestorePages, DieInRestore
<1>3. CASE EndSessions /\ UNCHANGED <<copy, cursor, req>>
  <2>1. PICK num \in Numberings(db, {Profile}, {}) : db' = SessionsEnded(db, num)
    BY <1>3 DEF EndSessions
  <2> QED
    BY <1>0, <1>3, <2>1, EndedType
<1>4. ASSUME NEW b \in backups, RestoreOffline(b), UNCHANGED cursor
      PROVE  db'.server = minted + 1 /\ cursor' = cursor
  <2>1. PICK num \in Numberings(b, {Profile}, {}) : db' = SessionsEnded(b, num)
    BY <1>4 DEF RestoreOffline
  <2> QED
    BY <1>0, <1>4, <2>1, EndedType
<1> QED
  BY <1>1, <1>2, <1>3, <1>4 DEF Next, ServerRuns, StoreWrite, ServerStops

(* With the cursor as it is and the database written on, an answer that    *)
(* was not behind is not.                                                  *)
LEMMA WriteKeepsAhead ==
    ASSUME IInv, Ahead, Next, UNCHANGED <<cursor, req>>
    PROVE  Ahead'
<1>0. SUFFICES ASSUME req.at \in {"reading", "answer"}, restore' = "none", Fits(db', cursor),
                      req.cursor.s = cursor.s, req.cursor.e = cursor.e
               PROVE  req.cursor.u >= cursor.u
  BY DEF Ahead, Current
<1>1. db \in Database /\ minted \in Nat /\ cursor \in Cursor /\ Known(cursor)
  BY DEF IInv, TypeOK, StoreTypeOK
<1>2. db'.server # minted + 1
  <2>1. cursor.s \in Nat /\ cursor.s <= minted /\ cursor.s = db'.server
    BY <1>0, <1>1 DEF Fits, Known, Cursor
  <2> QED
    BY <1>1, <2>1
<1>3. restore = "none"
  BY <1>0, <1>2, RestoreEnds
<1>4. Fits(db, cursor)
  <2>1. CASE Written
    BY <1>0, <1>1, <1>3, <2>1, FitsBefore DEF Written, Known
  <2>2. CASE db' = db
    BY <1>0, <2>2
  <2> QED
    BY <1>0, <1>2, <1>3, <2>1, <2>2, StepKinds
<1> QED
  BY <1>0, <1>3, <1>4 DEF Ahead, Current

LEMMA AheadKept ==
    ASSUME IInv, Ahead, [Next]_vars
    PROVE  Ahead'
<1>0. /\ db \in Database /\ Ordered(db) /\ req \in Request /\ cursor \in Cursor
      /\ db.seq \in Nat /\ cursor.u \in Nat
  BY DEF IInv, TypeOK, StoreTypeOK, Database, Cursor
<1>1. CASE StoreWrite /\ UNCHANGED <<copy, cursor, req>>
  BY <1>1, WriteKeepsAhead DEF Next, ServerRuns
<1>2. CASE BeginSync
  <2>1. req'.at \in {"counters", "session"}
    BY <1>2 DEF BeginSync, Idle
  <2> QED
    BY <2>1 DEF Ahead
<1>3. CASE Deliver \/ Lose \/ ServerStops
  <2>1. req'.at = "idle"
    BY <1>3 DEF Deliver, Lose, ServerStops, Idle
  <2> QED
    BY <2>1 DEF Ahead
<1>4. CASE ReadDelta
  <2>1. UNCHANGED <<db, restore, cursor>>
    BY <1>4 DEF ReadDelta, storeVars
  <2>2. CASE ~Fits(db, cursor)
    BY <2>1, <2>2 DEF Ahead, Current
  <2>3. CASE Fits(db, cursor)
    <3>1. PICK w \in Cut(db, cursor.u) :
              req' = [req EXCEPT
                  !.at = "answer", !.more = w.more,
                  !.cursor = [CursorAt(db) EXCEPT !.u = w.until],
                  !.page = DeltaPage(db, cursor.u, w.until, req.user),
                  !.deleted = DeltaDeleted(db, cursor.u, w.until)]
      BY <1>4, <2>3 DEF ReadDelta
    <3>2. w.until >= cursor.u
      BY <1>0, <2>3, CutMovesOn DEF Fits
    <3>3. req'.cursor.u = w.until
      BY <1>0, <3>1 DEF Request, CursorAt
    <3> QED
      BY <2>1, <3>2, <3>3 DEF Ahead
  <2> QED
    BY <2>2, <2>3
<1>5. CASE ReadCounters
  <2>1. UNCHANGED <<db, restore, cursor>>
    BY <1>5 DEF ReadCounters, storeVars
  <2>2. req'.cursor = CursorAt(db)
    BY <1>0, <1>5 DEF ReadCounters, Request
  <2> QED
    BY <1>0, <2>1, <2>2 DEF Ahead, Current, Fits, CursorAt
<1>6. CASE ReadHidden \/ ReadFolders \/ ReadCiphers \/ ReadSends \/ FullAnswer
  <2>1. UNCHANGED <<db, restore, cursor>> /\ req.at = "reading"
    BY <1>6 DEF ReadHidden, ReadFolders, ReadCiphers, ReadSends, FullAnswer, Reads, storeVars
  <2>2. req'.cursor = req.cursor
    BY <1>0, <1>6 DEF ReadHidden, ReadFolders, ReadCiphers, ReadSends, FullAnswer, Reads, Request
  <2> QED
    BY <2>1, <2>2 DEF Ahead, Current
<1>7. CASE UNCHANGED vars
  BY <1>7 DEF vars, storeVars, Ahead, Current
<1> QED
  BY <1>1, <1>2, <1>3, <1>4, <1>5, <1>6, <1>7 DEF Next, ServerRuns, ServerStep

(* Within one epoch a client's cursor only moves forward, however late an  *)
(* answer comes (the cursor of read_delta and of full_answer).             *)
THEOREM ForwardOnly == Spec => CursorMovesForward
<1> DEFINE A == restore = "none" /\ Fits(db, cursor) /\ cursor'.s = cursor.s
                /\ cursor'.e = cursor.e => cursor'.u >= cursor.u
<1>1. Init => Ahead
  BY DEF Init, Idle, Ahead
<1>2. IInv /\ Ahead /\ [Next]_vars => Ahead'
  BY AheadKept
<1>3. IInv /\ Ahead /\ [Next]_vars => [A]_vars
  <2>1. SUFFICES ASSUME IInv, Ahead, Next, Current(cursor),
                        cursor'.s = cursor.s, cursor'.e = cursor.e
                 PROVE  cursor'.u >= cursor.u
    BY DEF Current
  <2>2. CASE Deliver
    BY <2>1, <2>2 DEF Deliver, Ahead
  <2>3. CASE cursor' = cursor
    <3>1. cursor.u \in Nat
      BY <2>1 DEF IInv, TypeOK, Cursor
    <3> QED
      BY <2>3, <3>1
  <2> QED
    BY <2>1, <2>2, <2>3 DEF Next, ServerRuns, ServerStep, ServerStops, BeginSync, Lose, ReadDelta,
       ReadCounters, ReadHidden, ReadFolders, ReadCiphers, ReadSends, Reads, FullAnswer
<1> QED
  BY <1>1, <1>2, <1>3, Inductive, PTL DEF Spec, CursorMovesForward

-----------------------------------------------------------------------------
(* Versions that go.                                                       *)

(* Why what was overwritten need not be there any more.                    *)
Excused(rs, i, t) ==
    \/ rs[i].gone
    \/ \E r \in rs[i].rules :
          /\ ~r.paused
          /\ \/ Cardinality(NewerIn(rs, DOMAIN rs, i)) >= r.perItem
             \/ ~(r.days = 0 \/ rs[i].at + r.days >= t)

Promise(vs, rs, t) == \A i \in DOMAIN rs \ DOMAIN vs : Excused(rs, i, t)

Told(vs, rs) ==
    /\ DOMAIN vs \subseteq DOMAIN rs
    /\ \A i \in DOMAIN vs : /\ rs[i].of = vs[i].of /\ rs[i].at = vs[i].at
                            /\ rs[i].text = vs[i].body.text

Entries(rs) == \E n \in Nat : DOMAIN rs = 1..n /\ \A i \in 1..n : rs[i] \in Entry

(* Entries go on being what they are, and come to have more rules.         *)
GoOn(rs, ss) ==
    /\ DOMAIN rs \subseteq DOMAIN ss
    /\ \A i \in DOMAIN rs : /\ ss[i].of = rs[i].of /\ ss[i].at = rs[i].at /\ ss[i].text = rs[i].text
                            /\ (rs[i].gone => ss[i].gone) /\ rs[i].rules \subseteq ss[i].rules

LEMMA NewerFinite ==
    ASSUME NEW rs, Entries(rs), NEW i, NEW ids \in SUBSET DOMAIN rs
    PROVE  IsFiniteSet(NewerIn(rs, ids, i)) /\ Cardinality(NewerIn(rs, ids, i)) \in Nat
  <1>1. PICK n \in Nat : DOMAIN rs = 1..n
    BY DEF Entries
  <1>2. IsFiniteSet(1..n)
    BY FS_Interval
  <1>3. NewerIn(rs, ids, i) \subseteq 1..n
    BY <1>1 DEF NewerIn
  <1>4. IsFiniteSet(NewerIn(rs, ids, i))
    BY <1>2, <1>3, FS_Subset
  <1> QED
    BY <1>4, FS_CardinalityType

LEMMA StillExcused ==
    ASSUME NEW rs, NEW ss, Entries(rs), Entries(ss), GoOn(rs, ss), NEW t \in Nat, NEW u \in Nat, t <= u,
           NEW i \in DOMAIN rs, Excused(rs, i, t)
    PROVE  Excused(ss, i, u)
  <1>1. i \in DOMAIN ss /\ ss[i].at = rs[i].at /\ (rs[i].gone => ss[i].gone) /\ rs[i].rules \subseteq ss[i].rules
    BY DEF GoOn
  <1>2. CASE rs[i].gone
    BY <1>1, <1>2 DEF Excused
  <1>3. CASE ~rs[i].gone
    <2>1. PICK r \in rs[i].rules :
              /\ ~r.paused
              /\ \/ Cardinality(NewerIn(rs, DOMAIN rs, i)) >= r.perItem
                 \/ ~(r.days = 0 \/ rs[i].at + r.days >= t)
      BY <1>3 DEF Excused
    <2>2. rs[i] \in Entry
      BY DEF Entries
    <2>3. r \in Rule /\ rs[i].at \in Nat
      BY <2>2, RulesAssumption DEF Entry
    <2>4. r.perItem \in Nat /\ r.days \in Nat
      BY <2>3 DEF Rule
    <2>5. NewerIn(rs, DOMAIN rs, i) \subseteq NewerIn(ss, DOMAIN ss, i)
      BY DEF NewerIn, GoOn
    <2>6. IsFiniteSet(NewerIn(ss, DOMAIN ss, i)) /\ Cardinality(NewerIn(ss, DOMAIN ss, i)) \in Nat
          /\ Cardinality(NewerIn(rs, DOMAIN rs, i)) \in Nat
      BY NewerFinite
    <2>7. Cardinality(NewerIn(rs, DOMAIN rs, i)) <= Cardinality(NewerIn(ss, DOMAIN ss, i))
      BY <2>5, <2>6, FS_Subset
    <2>8. CASE Cardinality(NewerIn(rs, DOMAIN rs, i)) >= r.perItem
      <3>1. Cardinality(NewerIn(ss, DOMAIN ss, i)) >= r.perItem
        BY <2>4, <2>6, <2>7, <2>8
      <3> QED
        BY <1>1, <2>1, <3>1 DEF Excused
    <2>9. CASE ~(r.days = 0 \/ rs[i].at + r.days >= t)
      <3>1. ~(r.days = 0 \/ ss[i].at + r.days >= u)
        BY <1>1, <2>3, <2>4, <2>9
      <3> QED
        BY <1>1, <2>1, <3>1 DEF Excused
    <2> QED
      BY <2>1, <2>8, <2>9
  <1> QED
    BY <1>2, <1>3

(* The promise is kept by whatever drops only what is excused.             *)
LEMMA PromiseGoesOn ==
    ASSUME NEW vs, NEW ws, NEW rs, NEW ss, Entries(rs), Entries(ss), GoOn(rs, ss),
           NEW t \in Nat, NEW u \in Nat, t <= u, Promise(vs, rs, t),
           \A i \in DOMAIN ss \ DOMAIN ws : (i \in DOMAIN rs /\ i \notin DOMAIN vs) \/ Excused(ss, i, u)
    PROVE  Promise(ws, ss, u)
  BY StillExcused DEF Promise

(* prune drops what is excused, if the entries have its rule.              *)
LEMMA PrunedExcused ==
    ASSUME NEW vs, NEW rs, Entries(rs), Told(vs, rs), now \in Nat, NEW r \in Rules,
           NEW i \in DOMAIN vs \ Stay(vs, r), r \in rs[i].rules
    PROVE  Excused(rs, i, now)
  <1> DEFINE young == {j \in DOMAIN vs : InTime(vs[j].at, r)}
  <1>1. ~r.paused
    BY DEF Stay
  <1>2. Stay(vs, r) = {j \in young : Cardinality(NewerIn(vs, young, j)) < r.perItem}
    BY <1>1 DEF Stay
  <1>3. r.perItem \in Nat /\ r.days \in Nat
    BY RulesAssumption DEF Rule
  <1>4. i \in DOMAIN rs /\ rs[i].at = vs[i].at
    BY DEF Told
  <1>5. CASE i \notin young
    <2>1. ~(r.days = 0 \/ rs[i].at + r.days >= now)
      BY <1>4, <1>5 DEF InTime
    <2> QED
      BY <1>1, <2>1 DEF Excused
  <1>6. CASE i \in young
    <2>1. NewerIn(vs, young, i) \subseteq NewerIn(rs, DOMAIN rs, i)
      BY DEF NewerIn, Told
    <2>2. IsFiniteSet(NewerIn(rs, DOMAIN rs, i)) /\ Cardinality(NewerIn(rs, DOMAIN rs, i)) \in Nat
      BY NewerFinite
    <2>3. Cardinality(NewerIn(vs, young, i)) <= Cardinality(NewerIn(rs, DOMAIN rs, i))
          /\ Cardinality(NewerIn(vs, young, i)) \in Nat
      BY <2>1, <2>2, FS_Subset, FS_CardinalityType
    <2>4. ~(Cardinality(NewerIn(vs, young, i)) < r.perItem)
      BY <1>2, <1>6
    <2>5. Cardinality(NewerIn(rs, DOMAIN rs, i)) >= r.perItem
      BY <1>3, <2>2, <2>3, <2>4
    <2> QED
      BY <1>1, <2>5 DEF Excused
  <1> QED
    BY <1>5, <1>6

-----------------------------------------------------------------------------
(* What one step does to the requests, to the rows and to the rest.        *)

(* A request comes to go by a rule only as it is, and to restore only over *)
(* what the row holds.                                                     *)
Begins(step) ==
    /\ step.at \in {"saving", "restoring"} => step.rule = rule
    /\ step.at = "restoring" => Seen(step) /\ row' = row

Asking(q) ==
    \/ Create(q) \/ Update(q) \/ Partial(q) \/ AskRestore(q)
    \/ SyncForRotation(q) \/ FetchVersions(q) \/ PrepareRotation(q)

LEMMA AskingLeaves ==
    ASSUME NEW q, Asking(q)
    PROVE  /\ UNCHANGED <<scene, row, versions, reminder, rule, userKey, mailing, sweep, now, keys, made>>
           /\ UNCHANGED <<replaced, strays, surprised, sent>>
           /\ texts' = texts \/ texts' = texts + 1
           /\ asked' = asked \/ asked' = asked + 1
  <1>1. CASE Create(q)
    BY <1>1 DEF Create, Asks, NextText, kept, ghosts
  <1>2. CASE Update(q)
    BY <1>2 DEF Update, Asks, NextText, kept, ghosts
  <1>3. CASE Partial(q)
    BY <1>3 DEF Partial, Asks, kept, ghosts
  <1>4. CASE AskRestore(q)
    BY <1>4 DEF AskRestore, Asks, kept, ghosts
  <1>5. CASE SyncForRotation(q)
    BY <1>5 DEF SyncForRotation, Asks, kept, ghosts
  <1>6. CASE FetchVersions(q)
    BY <1>6 DEF FetchVersions, kept, ghosts
  <1>7. CASE PrepareRotation(q)
    BY <1>7 DEF PrepareRotation, kept, ghosts
  <1> QED
    BY <1>1, <1>2, <1>3, <1>4, <1>5, <1>6, <1>7 DEF Asking

LEMMA ReadyShape == Shape(Ready) /\ Begins(Ready)
  BY DEF Shape, Ready, Begins

LEMMA NewBodyType ==
    ASSUME ItemsTypeOK, NEW day \in Nat
    PROVE  NewBody(day) \in Body
  BY DEF ItemsTypeOK, NewBody, Body

LEMMA AskingDoes ==
    ASSUME ItemsTypeOK, NEW q \in Requests, Asking(q)
    PROVE  \E step : Does(q, step) /\ Shape(step) /\ Begins(step)
  <1>0. now \in Nat /\ rule \in Rules /\ Shape(request[q])
    BY DEF ItemsTypeOK
  <1>1. ASSUME NEW c \in Items, NEW new \in Row, Saves(q, c, new)
        PROVE  \E step : Does(q, step) /\ Shape(step) /\ Begins(step)
    BY <1>0, <1>1 DEF Saves, Shape, Begins
  <1>2. \A c \in There : c \in Items /\ row[c] \in Row
    BY DEF There, ItemsTypeOK
  <1>3. CASE Create(q)
    <2>1. PICK c \in Items : Saves(q, c, [body |-> NewBody(now), rev |-> 0, trashed |-> FALSE])
      BY <1>3 DEF Create
    <2>2. [body |-> NewBody(now), rev |-> 0, trashed |-> FALSE] \in Row
      BY <1>0, NewBodyType DEF Row
    <2> QED
      BY <1>1, <2>1, <2>2
  <1>4. CASE Update(q)
    <2>1. PICK c \in There : \E day \in {row[c].body.day, now} : Saves(q, c, [row[c] EXCEPT !.body = NewBody(day)])
      BY <1>4 DEF Update
    <2>2. PICK day \in {row[c].body.day, now} : Saves(q, c, [row[c] EXCEPT !.body = NewBody(day)])
      BY <2>1
    <2>3. day \in Nat
      BY <1>0, <1>2 DEF Row, Body
    <2>4. NewBody(day) \in Body
      BY <2>3, NewBodyType
    <2>5. [row[c] EXCEPT !.body = NewBody(day)] \in Row
      BY <1>2, <2>4 DEF Row
    <2> QED
      BY <1>1, <1>2, <2>2, <2>5
  <1>5. CASE Partial(q)
    <2>1. PICK c \in There : Saves(q, c, row[c])
      BY <1>5 DEF Partial
    <2> QED
      BY <1>1, <1>2, <2>1
  <1>6. CASE AskRestore(q)
    <2>1. PICK i \in DOMAIN versions :
             /\ versions[i].of \in There /\ row[versions[i].of].rev < now
             /\ Does(q, [at |-> "restoring", of |-> versions[i].of, version |-> i,
                         known |-> row[versions[i].of].rev, saw |-> row[versions[i].of].body, rule |-> rule])
      BY <1>6 DEF AskRestore
    <2>2. i \in Nat
      BY DEF ItemsTypeOK, IsMap
    <2>3. PICK c \in There : c = versions[i].of
      BY <2>1
    <2> DEFINE step == [at |-> "restoring", of |-> c, version |-> i, known |-> row[c].rev, saw |-> row[c].body,
                        rule |-> rule]
    <2>4. row[c].rev \in Nat /\ row[c].body \in Body
      BY <1>2 DEF Row
    <2>5. Shape(step)
      BY <1>0, <1>2, <2>2, <2>4 DEF Shape
    <2>6. Begins(step)
      BY <1>6, <2>1, <2>3 DEF Begins, Seen, AskRestore, kept
    <2> QED
      BY <2>1, <2>3, <2>5, <2>6
  <1>7. CASE SyncForRotation(q)
    <2> DEFINE step == [at |-> "synced", key |-> userKey, bodies |-> [c \in There |-> Now(c)]]
    <2>1. IsMap([c \in There |-> Now(c)], Items, Body)
      BY <1>2 DEF IsMap, Now, Row
    <2>2. Shape(step) /\ Begins(step)
      BY <2>1 DEF Shape, Begins, ItemsTypeOK
    <2> QED
      BY <1>7, <2>2 DEF SyncForRotation
  <1>8. CASE FetchVersions(q)
    <2>1. PICK own \in BOOLEAN, which \in SUBSET DOMAIN versions : Fetched(q, own, which)
      BY <1>8 DEF FetchVersions
    <2> DEFINE step == [at |-> "fetched", key |-> userKey, bodies |-> request[q].bodies, own |-> own,
                        versions |-> which]
    <2>2. IsMap(request[q].bodies, Items, Body)
      BY <1>0, <1>8 DEF FetchVersions, Shape
    <2>3. which \subseteq Nat /\ userKey \in Nat
      BY DEF ItemsTypeOK, IsMap
    <2>4. Shape(step) /\ Begins(step)
      BY <2>2, <2>3 DEF Shape, Begins
    <2> QED
      BY <2>1, <2>4 DEF Fetched
  <1>9. CASE PrepareRotation(q)
    <2> DEFINE given == DOMAIN request[q].bodies
               step == [at |-> "prepared", own |-> request[q].own, versions |-> request[q].versions,
                        rows |-> [c \in given |-> [row[c] EXCEPT !.body = request[q].bodies[c]]]]
    <2>1. Does(q, Ready) \/ (Does(q, step) /\ given \subseteq There)
      BY <1>9 DEF PrepareRotation
    <2>2. ASSUME given \subseteq There
          PROVE  Shape(step) /\ Begins(step)
      <3>1. IsMap(request[q].bodies, Items, Body) /\ request[q].own \in BOOLEAN /\ request[q].versions \subseteq Nat
        BY <1>0, <1>9 DEF PrepareRotation, Shape
      <3>2. \A c \in given : [row[c] EXCEPT !.body = request[q].bodies[c]] \in Row
        BY <1>2, <2>2, <3>1 DEF IsMap, Row
      <3>3. IsMap([c \in given |-> [row[c] EXCEPT !.body = request[q].bodies[c]]], Items, Row)
        BY <3>1, <3>2 DEF IsMap
      <3> HIDE DEF given
      <3> QED
        BY <3>1, <3>3 DEF Shape, Begins
    <2> QED
      BY <2>1, <2>2, ReadyShape
  <1> QED
    BY <1>3, <1>4, <1>5, <1>6, <1>7, <1>8, <1>9 DEF Asking

(* Every other step leaves the requests alone, or ends one.                *)
LEMMA RequestSteps ==
    ASSUME ItemsTypeOK, ItemsNext
    PROVE  UNCHANGED request \/ \E q \in Requests : \E step : Does(q, step) /\ Shape(step) /\ Begins(step)
  <1>1. CASE \E q \in Requests : Asking(q)
    BY <1>1, AskingDoes
  <1>2. CASE \E q \in Requests : SaveItem(q) \/ RestoreVersion(q) \/ FinishRotation(q)
    <2>1. PICK q \in Requests : Does(q, Ready)
      BY <1>2 DEF SaveItem, RestoreVersion, FinishRotation
    <2> QED
      BY <2>1, ReadyShape
  <1>3. CASE ImportItem \/ Bulk \/ Move \/ Delete \/ Purge
    BY <1>3 DEF ImportItem, Bulk, Move, Delete, Purge, Gone
  <1>4. CASE DeleteVersions \/ SweepReads \/ PruneVersions \/ SetVersionRule
    BY <1>4 DEF DeleteVersions, SweepReads, PruneVersions, SetVersionRule
  <1>5. CASE SetReminder \/ DeleteReminder \/ TendReads \/ TendSends \/ RemindersMailed \/ Tick
    BY <1>5 DEF SetReminder, DeleteReminder, TendReads, TendSends, RemindersMailed, Tick
  <1> QED
    BY <1>1, <1>2, <1>3, <1>4, <1>5 DEF ItemsNext, Asking

(* Every step leaves a row, takes it away, or dates it.                    *)
Dated(c) == row'[c] = row[c] \/ row'[c] = None \/ (row'[c] \in Row /\ row'[c].rev = now)

LEMMA RowSteps ==
    ASSUME ItemsTypeOK, ItemsNext
    PROVE  row' \in [Items -> Row \cup {None}] /\ \A c \in Items : Dated(c)
  <1> DEFINE Goal == row' \in [Items -> Row \cup {None}] /\ \A c \in Items : Dated(c)
  <1>1. /\ row \in [Items -> Row \cup {None}] /\ now \in Nat /\ userKey \in Nat /\ keys \in Nat
        /\ \A c \in Items : c \in There => row[c] \in Row
        /\ IsMap(versions, 1..made, Version) /\ \A q \in Requests : Shape(request[q])
    BY DEF ItemsTypeOK, There
  <1>2. ASSUME UNCHANGED row
        PROVE  Goal
    BY <1>1, <1>2 DEF Dated
  <1>3. ASSUME NEW c \in Items, NEW new \in Row, new.rev = now, row' = [row EXCEPT ![c] = new]
        PROVE  Goal
    BY <1>1, <1>3 DEF Dated
  <1>4. CASE \E q \in Requests : Asking(q)
    BY <1>2, <1>4, AskingLeaves
  <1>5. ASSUME NEW q \in Requests, SaveItem(q)
        PROVE  Goal
    <2> DEFINE new == [request[q].row EXCEPT !.rev = now]
    <2>1. request[q].of \in Items /\ request[q].row \in Row
      BY <1>1, <1>5 DEF SaveItem, Shape
    <2>2. row' = [row EXCEPT ![request[q].of] = new]
      BY <1>5 DEF SaveItem, SaveRow
    <2>3. new \in Row /\ new.rev = now
      BY <1>1, <2>1 DEF Row
    <2> QED
      BY <1>3, <2>1, <2>2, <2>3
  <1>6. ASSUME NEW q \in Requests, RestoreVersion(q)
        PROVE  Goal
    <2>1. request[q].of \in Items
      BY <1>1, <1>6 DEF RestoreVersion, Shape
    <2> DEFINE c == request[q].of
               body == versions[request[q].version].body
               new == [row[c] EXCEPT !.body = body, !.rev = now]
    <2>2. CASE row[c] # None /\ request[q].version \in DOMAIN versions
               /\ row' = [row EXCEPT ![c].body = body, ![c].rev = now]
      <3>1. body \in Body
        BY <1>1, <2>2 DEF IsMap, Version
      <3>2. row[c] \in Row
        BY <1>1, <2>1, <2>2
      <3>3. new \in Row /\ new.rev = now
        BY <1>1, <3>1, <3>2 DEF Row
      <3>4. row' = [row EXCEPT ![c] = new]
        BY <1>1, <2>1, <2>2, <3>2 DEF Row
      <3> HIDE DEF new, c
      <3> QED
        BY <1>3, <2>1, <3>3, <3>4 DEF c
    <2>3. CASE UNCHANGED row
      BY <1>2, <2>3
    <2> QED
      BY <1>6, <2>2, <2>3 DEF RestoreVersion
  <1>7. ASSUME NEW q \in Requests, FinishRotation(q)
        PROVE  Goal
    <2> DEFINE r == request[q]
    <2>1. IsMap(r.rows, Items, Row)
      BY <1>1, <1>7 DEF FinishRotation, Shape
    <2>2. CASE UNCHANGED row
      BY <1>2, <2>2
    <2>3. CASE row' = [c \in Items |-> IF c \in DOMAIN r.rows
                                       THEN [r.rows[c] EXCEPT !.body = UnderNew(@), !.rev = now]
                                       ELSE row[c]]
      <3>1. ASSUME NEW c \in DOMAIN r.rows
            PROVE  [r.rows[c] EXCEPT !.body = UnderNew(@), !.rev = now] \in Row
        <4>1. r.rows[c] \in Row
          BY <2>1 DEF IsMap
        <4>2. UnderNew(r.rows[c].body) \in Body
          BY <1>1, <4>1 DEF UnderNew, Row, Body
        <4> QED
          BY <1>1, <4>1, <4>2 DEF Row
      <3>2. ASSUME NEW c \in DOMAIN r.rows
            PROVE  [r.rows[c] EXCEPT !.body = UnderNew(@), !.rev = now].rev = now
        BY <2>1 DEF IsMap, Row
      <3>3. \A c \in Items : Dated(c)
        BY <2>3, <3>1, <3>2 DEF Dated
      <3> QED
        BY <1>1, <2>3, <3>1, <3>3
    <2> QED
      BY <1>7, <2>2, <2>3 DEF FinishRotation, Rotated
  <1>8. CASE ImportItem
    <2>1. PICK c \in Items : Imported(c)
      BY <1>8 DEF ImportItem
    <2> DEFINE new == [body |-> NewBody(now), rev |-> now, trashed |-> FALSE]
    <2>2. new \in Row /\ new.rev = now
      BY <1>1, NewBodyType DEF Row
    <2> QED
      BY <1>3, <2>1, <2>2 DEF Imported
  <1>9. CASE Bulk
    <2>1. PICK c \in There, trashed \in BOOLEAN : Marked(c, trashed)
      BY <1>9 DEF Bulk
    <2> DEFINE new == [row[c] EXCEPT !.trashed = trashed, !.rev = now]
    <2>2. c \in Items /\ row[c] \in Row
      BY <1>1 DEF There
    <2>3. new \in Row /\ new.rev = now
      BY <1>1, <2>2 DEF Row
    <2>4. row' = [row EXCEPT ![c] = new]
      BY <1>1, <2>1, <2>2 DEF Marked, Row
    <2> HIDE DEF new
    <2> QED
      BY <1>3, <2>2, <2>3, <2>4
  <1>10. CASE Move
    <2>1. PICK which \in SUBSET There : Moved(which)
      BY <1>10 DEF Move
    <2>2. ASSUME NEW c \in which
          PROVE  [row[c] EXCEPT !.rev = now] \in Row /\ [row[c] EXCEPT !.rev = now].rev = now
      <3>1. row[c] \in Row
        BY <1>1 DEF There
      <3> QED
        BY <1>1, <3>1 DEF Row
    <2>3. \A c \in Items : Dated(c)
      BY <2>1, <2>2 DEF Dated, Moved
    <2> QED
      BY <1>1, <2>1, <2>2, <2>3 DEF Moved
  <1>11. CASE Delete \/ Purge
    <2>1. PICK which \in SUBSET Items : Gone(which)
      BY <1>11 DEF Delete, Purge, There
    <2>2. row' = [c \in Items |-> IF c \in which THEN None ELSE row[c]]
      BY <2>1 DEF Gone
    <2> QED
      BY <1>1, <2>2 DEF Dated
  <1>12. CASE DeleteVersions \/ SweepReads \/ PruneVersions \/ SetVersionRule
    BY <1>2, <1>12 DEF DeleteVersions, SweepReads, PruneVersions, SetVersionRule, kept
  <1>13. CASE SetReminder \/ DeleteReminder \/ TendReads \/ TendSends \/ RemindersMailed \/ Tick
    BY <1>2, <1>13 DEF SetReminder, DeleteReminder, TendReads, TendSends, RemindersMailed, Tick, kept
  <1> QED
    BY <1>4, <1>5, <1>6, <1>7, <1>8, <1>9, <1>10, <1>11, <1>12, <1>13 DEF ItemsNext, Asking

-----------------------------------------------------------------------------
(* Versions and what is told of them, together.                            *)
History(vs, rs, n, t) ==
    /\ n \in Nat
    /\ IsMap(vs, 1..n, Version)
    /\ DOMAIN rs = 1..n /\ IsMap(rs, Nat, Entry)
    /\ Told(vs, rs) /\ Promise(vs, rs, t)

LEMMA HistoryNow ==
    ASSUME ItemsTypeOK, Matched, KeptAsPromised
    PROVE  History(versions, replaced, made, now)
  <1>1. Told(versions, replaced)
    BY DEF Told, Matched, ItemsTypeOK, IsMap
  <1>2. Promise(versions, replaced, now)
    BY DEF Promise, KeptAsPromised, Excused, Newer, InTime
  <1> QED
    BY <1>1, <1>2 DEF History, ItemsTypeOK

LEMMA HistoryThen ==
    ASSUME History(versions', replaced', made', now')
    PROVE  Matched' /\ KeptAsPromised'
  <1>1. Matched'
    BY DEF Matched, History, Told
  <1>2. KeptAsPromised'
    BY DEF KeptAsPromised, History, Told, Promise, Excused, Newer, InTime
  <1> QED
    BY <1>1, <1>2

(* Some go, and are excused; the others are the same text, and the entries *)
(* come to say more.                                                       *)
LEMMA HistoryGoesOn ==
    ASSUME NEW vs, NEW rs, NEW n, NEW t \in Nat, History(vs, rs, n, t),
           NEW ws, DOMAIN ws \subseteq DOMAIN vs,
           \A i \in DOMAIN ws : /\ ws[i] \in Version
                                /\ ws[i].of = vs[i].of /\ ws[i].at = vs[i].at
                                /\ ws[i].body.text = vs[i].body.text,
           NEW ss, DOMAIN ss = DOMAIN rs, \A i \in DOMAIN ss : ss[i] \in Entry, GoOn(rs, ss),
           NEW u \in Nat, t <= u, \A i \in DOMAIN vs \ DOMAIN ws : Excused(ss, i, u)
    PROVE  History(ws, ss, n, u)
  <1>1. Entries(rs) /\ Entries(ss)
    BY DEF Entries, History, IsMap
  <1>2. Promise(vs, rs, t)
    BY DEF History
  <1>3. Promise(ws, ss, u)
    BY <1>1, <1>2, PromiseGoesOn
  <1>4. Told(ws, ss)
    BY DEF Told, History, GoOn
  <1> QED
    BY <1>3, <1>4 DEF History, IsMap

(* One more is written down.                                               *)
LEMMA HistoryGrows ==
    ASSUME NEW vs, NEW rs, NEW n, NEW t \in Nat, History(vs, rs, n, t),
           NEW v \in Version, NEW e \in Entry, e.of = v.of, e.at = v.at, e.text = v.body.text
    PROVE  History(With(vs, n + 1, v), With(rs, n + 1, e), n + 1, t)
  <1> DEFINE ws == With(vs, n + 1, v)
             ss == With(rs, n + 1, e)
  <1>1. n \in Nat /\ DOMAIN rs = 1..n /\ DOMAIN vs \subseteq 1..n
    BY DEF History, IsMap
  <1>2. n + 1 \in Nat /\ 1..n + 1 = 1..n \cup {n + 1} /\ n + 1 \notin 1..n
    BY <1>1
  <1>3. DOMAIN ws = DOMAIN vs \cup {n + 1} /\ DOMAIN ss = 1..n + 1
        /\ ws[n + 1] = v /\ ss[n + 1] = e
        /\ (\A i \in DOMAIN vs : ws[i] = vs[i]) /\ (\A i \in DOMAIN rs : ss[i] = rs[i])
    BY <1>1, <1>2 DEF With
  <1> HIDE DEF ws, ss
  <1>4. \A i \in DOMAIN ss : ss[i] \in Entry
    BY <1>1, <1>2, <1>3 DEF History, IsMap
  <1>5. Entries(rs) /\ Entries(ss)
    BY <1>1, <1>2, <1>3, <1>4 DEF Entries, History, IsMap
  <1>6. GoOn(rs, ss)
    BY <1>1, <1>2, <1>3 DEF GoOn
  <1>7. Promise(ws, ss, t)
    <2>1. Promise(vs, rs, t)
      BY DEF History
    <2>2. \A i \in DOMAIN ss \ DOMAIN ws : i \in DOMAIN rs /\ i \notin DOMAIN vs
      BY <1>1, <1>2, <1>3
    <2> QED
      BY <1>5, <1>6, <2>1, <2>2, PromiseGoesOn
  <1>8. Told(ws, ss)
    BY <1>1, <1>2, <1>3 DEF Told, History
  <1>9. IsMap(ws, 1..n + 1, Version) /\ IsMap(ss, Nat, Entry)
    BY <1>1, <1>2, <1>3, <1>4 DEF IsMap, History
  <1> QED
    BY <1>2, <1>3, <1>7, <1>8, <1>9 DEF History, ws, ss

(* prune, with a rule that every entry has.                                *)
LEMMA HistoryPruned ==
    ASSUME NEW vs, NEW rs, NEW n, now \in Nat, History(vs, rs, n, now), NEW r \in Rules,
           \A i \in DOMAIN rs : r \in rs[i].rules,
           NEW keep \in SUBSET DOMAIN vs, Stay(vs, r) \cap DOMAIN vs \subseteq keep
    PROVE  History(Restrict(vs, keep), rs, n, now)
  <1>1. Entries(rs)
    BY DEF Entries, History, IsMap
  <1>2. Told(vs, rs) /\ GoOn(rs, rs)
    BY DEF History, GoOn
  <1>3. ASSUME NEW i \in DOMAIN vs \ keep
        PROVE  Excused(rs, i, now)
    <2>1. i \in DOMAIN vs \ Stay(vs, r) /\ r \in rs[i].rules
      BY <1>2 DEF Told
    <2> QED
      BY <1>1, <1>2, <2>1, PrunedExcused
  <1>4. DOMAIN Restrict(vs, keep) = keep /\ \A i \in keep : Restrict(vs, keep)[i] = vs[i]
    BY DEF Restrict
  <1>5. \A i \in keep : vs[i] \in Version
    BY DEF History, IsMap
  <1>6. \A i \in DOMAIN rs : rs[i] \in Entry
    BY DEF History, IsMap
  <1> QED
    BY <1>2, <1>3, <1>4, <1>5, <1>6, HistoryGoesOn

(* Some are deleted, by somebody.                                          *)
LEMMA HistoryCut ==
    ASSUME NEW vs, NEW rs, NEW n, NEW t \in Nat, History(vs, rs, n, t),
           NEW keep \in SUBSET DOMAIN vs, NEW gone \in [DOMAIN rs -> BOOLEAN],
           \A i \in DOMAIN rs : rs[i].gone => gone[i],
           \A i \in DOMAIN vs \ keep : gone[i]
    PROVE  History(Restrict(vs, keep), [i \in DOMAIN rs |-> [rs[i] EXCEPT !.gone = gone[i]]], n, t)
  <1> DEFINE ss == [i \in DOMAIN rs |-> [rs[i] EXCEPT !.gone = gone[i]]]
  <1>1. \A i \in DOMAIN rs : rs[i] \in Entry
    BY DEF History, IsMap
  <1>2. ASSUME NEW i \in DOMAIN rs
        PROVE  /\ ss[i] \in Entry /\ ss[i].of = rs[i].of /\ ss[i].at = rs[i].at /\ ss[i].text = rs[i].text
               /\ ss[i].rules = rs[i].rules /\ (gone[i] => ss[i].gone)
    BY <1>1 DEF Entry
  <1>3. GoOn(rs, ss)
    BY <1>2 DEF GoOn
  <1>4. \A i \in DOMAIN vs \ keep : Excused(ss, i, t)
    BY <1>2 DEF Excused, History, Told
  <1>5. DOMAIN Restrict(vs, keep) = keep /\ \A i \in keep : Restrict(vs, keep)[i] = vs[i]
    BY DEF Restrict
  <1>6. \A i \in keep : vs[i] \in Version
    BY DEF History, IsMap
  <1> HIDE DEF ss
  <1>7. DOMAIN ss = DOMAIN rs
    BY DEF ss
  <1>8. History(Restrict(vs, keep), ss, n, t)
    BY <1>2, <1>3, <1>4, <1>5, <1>6, <1>7, HistoryGoesOn
  <1> QED
    BY <1>8 DEF ss

(* Time goes by.                                                           *)
LEMMA HistoryWaits ==
    ASSUME NEW vs, NEW rs, NEW n, NEW t \in Nat, History(vs, rs, n, t), NEW u \in Nat, t <= u
    PROVE  History(vs, rs, n, u)
  <1>1. GoOn(rs, rs) /\ \A i \in DOMAIN rs : rs[i] \in Entry
    BY DEF GoOn, History, IsMap
  <1>2. \A i \in DOMAIN vs : vs[i] \in Version
    BY DEF History, IsMap
  <1> QED
    BY <1>1, <1>2, HistoryGoesOn

(* A version is one there was, or what the row held.                       *)
Comes(c) ==
    \A i \in DOMAIN versions' :
        \/ i \in DOMAIN versions /\ versions'[i].body = versions[i].body
        \/ row[c] # None /\ versions'[i].body = row[c].body

Covers == \A i \in DOMAIN replaced' : RulesAbout \subseteq replaced'[i].rules

LEMMA StateChangedKeeps ==
    ASSUME ItemsTypeOK, Matched, Foreseen, KeptAsPromised, NEW c \in Items, NEW r \in RulesAbout, NEW body,
           StateChanged(c, r, body)
    PROVE  History(versions', replaced', made', now) /\ Comes(c) /\ Covers
  <1>1. History(versions, replaced, made, now) /\ now \in Nat /\ made \in Nat
    BY HistoryNow DEF ItemsTypeOK
  <1>2. RulesAbout \subseteq Rules
    BY DEF RulesAbout, ItemsTypeOK, Shape
  <1>3. CASE UNCHANGED <<versions, made, replaced>>
    BY <1>1, <1>3 DEF Comes, Covers, Foreseen
  <1>4. CASE row[c] # None /\ ~UNCHANGED <<versions, made, replaced>>
    <2> DEFINE v == [of |-> c, body |-> row[c].body, at |-> now]
               e == [of |-> c, text |-> row[c].body.text, at |-> now, gone |-> FALSE,
                     rules |-> RulesAbout \cup {r}]
               vs == With(versions, made + 1, v)
               rs == With(replaced, made + 1, e)
               keep == {i \in DOMAIN vs : vs[i].of = c => i \in Stay(vs, r)}
    <2>1. versions' = Restrict(vs, keep) /\ made' = made + 1 /\ replaced' = rs
      BY <1>4 DEF StateChanged, PrunedOf
    <2>2. row[c] \in Row
      BY <1>4 DEF ItemsTypeOK
    <2>3. v \in Version /\ e \in Entry
      BY <1>1, <1>2, <2>2 DEF Version, Entry, Row, Body
    <2>4. e.of = v.of /\ e.at = v.at /\ e.text = v.body.text /\ e.rules = RulesAbout /\ v.body = row[c].body
      OBVIOUS
    <2> HIDE DEF v, e
    <2>5. History(vs, rs, made + 1, now)
      BY <1>1, <2>3, <2>4, HistoryGrows
    <2>6. /\ DOMAIN rs = DOMAIN replaced \cup {made + 1}
          /\ \A i \in DOMAIN rs : rs[i] = e \/ (i \in DOMAIN replaced /\ rs[i] = replaced[i])
      BY DEF With
    <2>7. \A i \in DOMAIN vs : vs[i] = v \/ (i \in DOMAIN versions /\ vs[i] = versions[i])
      BY DEF With
    <2> HIDE DEF vs, rs
    <2>8. \A i \in DOMAIN rs : RulesAbout \subseteq rs[i].rules
      BY <2>4, <2>6 DEF Foreseen
    <2>9. keep \in SUBSET DOMAIN vs /\ Stay(vs, r) \cap DOMAIN vs \subseteq keep
      OBVIOUS
    <2> HIDE DEF keep
    <2>10. History(Restrict(vs, keep), rs, made + 1, now)
      BY <1>1, <1>2, <2>5, <2>8, <2>9, HistoryPruned
    <2>11. DOMAIN versions' = keep /\ \A i \in keep : versions'[i] = vs[i]
      BY <2>1 DEF Restrict
    <2>12. Comes(c)
      BY <1>4, <2>4, <2>7, <2>9, <2>11 DEF Comes
    <2> QED
      BY <2>1, <2>8, <2>10, <2>12 DEF Covers
  <1> QED
    BY <1>3, <1>4 DEF StateChanged

(* The rules a write could go by come to be no others but the admin's.     *)
LEMMA SweepSteps ==
    ASSUME ItemsTypeOK, ItemsNext
    PROVE  sweep' \in {sweep, rule, None} /\ rule' \in Rules /\ now' \in Nat /\ now <= now'
           /\ (now' = now \/ UNCHANGED <<row, request, surprised>>)
  <1>1. rule \in Rules /\ now \in Nat
    BY DEF ItemsTypeOK
  <1>2. CASE \E q \in Requests : Asking(q)
    BY <1>1, <1>2, AskingLeaves
  <1>3. CASE \E q \in Requests : SaveItem(q) \/ RestoreVersion(q) \/ FinishRotation(q)
    BY <1>1, <1>3 DEF SaveItem, RestoreVersion, FinishRotation
  <1>4. CASE ImportItem \/ Bulk \/ Move
    BY <1>1, <1>4 DEF ImportItem, Bulk, Move
  <1>7. CASE Delete \/ Purge
    <2>1. PICK which : Gone(which)
      BY <1>7 DEF Delete, Purge
    <2>2. UNCHANGED <<sweep, rule, now>>
      BY <2>1 DEF Gone
    <2> QED
      BY <1>1, <2>2
  <1>5. CASE DeleteVersions \/ SweepReads \/ PruneVersions \/ SetVersionRule
    BY <1>1, <1>5 DEF DeleteVersions, SweepReads, PruneVersions, SetVersionRule
  <1>6. CASE SetReminder \/ DeleteReminder \/ TendReads \/ TendSends \/ RemindersMailed \/ Tick
    BY <1>1, <1>6 DEF SetReminder, DeleteReminder, TendReads, TendSends, RemindersMailed, Tick, kept, ghosts
  <1> QED
    BY <1>2, <1>3, <1>4, <1>5, <1>6, <1>7 DEF ItemsNext, Asking

LEMMA RulesSteps ==
    ASSUME ItemsTypeOK, ItemsNext
    PROVE  RulesAbout' \subseteq RulesAbout \cup {rule'}
  <1> DEFINE Going == {request[q].rule : q \in {p \in Requests : request[p].at \in {"saving", "restoring"}}}
  <1>1. Going' \subseteq Going \cup {rule}
    <2>1. CASE UNCHANGED request
      BY <2>1
    <2>2. CASE \E q \in Requests : \E step : Does(q, step) /\ Shape(step) /\ Begins(step)
      <3>1. PICK q \in Requests : \E step : Does(q, step) /\ Shape(step) /\ Begins(step)
        BY <2>2
      <3>2. PICK step : Does(q, step) /\ Begins(step)
        BY <3>1
      <3>3. \A p \in Requests : request'[p] = IF p = q THEN step ELSE request[p]
        BY <3>2 DEF Does, ItemsTypeOK
      <3>4. step.at \in {"saving", "restoring"} => step.rule = rule
        BY <3>2 DEF Begins
      <3> QED
        BY <3>3, <3>4
    <2> QED
      BY <2>1, <2>2, RequestSteps
  <1>2. {rule', sweep'} \ {None} \subseteq {rule, sweep, rule'} \ {None} /\ rule # None
    BY SweepSteps, NoneAssumption DEF ItemsTypeOK
  <1>3. rule' # None
    BY SweepSteps, NoneAssumption
  <1> HIDE DEF Going
  <1>4. RulesAbout = {rule} \cup ({sweep} \ {None}) \cup Going
    BY DEF RulesAbout, Going
  <1>5. RulesAbout' = {rule'} \cup ({sweep'} \ {None}) \cup Going'
    BY DEF RulesAbout, Going
  <1> QED
    BY <1>1, <1>2, <1>3, <1>4, <1>5

LEMMA HistorySteps ==
    ASSUME ItemsTypeOK, Matched, Foreseen, KeptAsPromised, ItemsNext
    PROVE  History(versions', replaced', made', now') /\ Covers
  <1> DEFINE Goal == History(versions', replaced', made', now') /\ Covers
  <1>1. History(versions, replaced, made, now) /\ now \in Nat /\ made \in Nat /\ rule \in RulesAbout
        /\ (sweep # None => sweep \in RulesAbout) /\ RulesAbout \subseteq Rules
        /\ \A q \in Requests : Shape(request[q])
    BY HistoryNow DEF ItemsTypeOK, RulesAbout, Shape
  <1>2. now' \in Nat /\ now <= now'
    BY SweepSteps
  <1>3. ASSUME UNCHANGED <<versions, replaced, made>>
        PROVE  Goal
    BY <1>1, <1>2, <1>3, HistoryWaits DEF Covers, Foreseen
  <1>4. CASE \E q \in Requests : Asking(q)
    BY <1>3, <1>4, AskingLeaves
  <1>5. CASE \E q \in Requests : SaveItem(q) \/ RestoreVersion(q)
    <2>1. PICK q \in Requests : SaveItem(q) \/ RestoreVersion(q)
      BY <1>5
    <2>2. now' = now /\ request[q].of \in Items /\ request[q].rule \in RulesAbout
      BY <1>1, <2>1 DEF SaveItem, RestoreVersion, Shape, RulesAbout
    <2>3. (\E r \in RulesAbout : \E body : StateChanged(request[q].of, r, body))
          \/ UNCHANGED <<versions, replaced, made>>
      <3>1. CASE SaveItem(q)
        BY <1>1, <2>2, <3>1 DEF SaveItem, SaveRow
      <3>2. CASE RestoreVersion(q)
        BY <1>1, <2>2, <3>2 DEF RestoreVersion
      <3> QED
        BY <2>1, <3>1, <3>2
    <2>4. ASSUME NEW r \in RulesAbout, NEW body, StateChanged(request[q].of, r, body)
          PROVE  Goal
      <3>1. History(versions', replaced', made', now) /\ Covers
        BY <2>2, <2>4, StateChangedKeeps
      <3> QED
        BY <2>2, <3>1
    <2> QED
      BY <1>3, <2>2, <2>3, <2>4
  <1>6. ASSUME NEW q \in Requests, FinishRotation(q)
        PROVE  Goal
    <2> DEFINE r == request[q]
    <2>1. now' = now /\ made' = made /\ keys \in Nat
      BY <1>6 DEF FinishRotation, ItemsTypeOK
    <2>2. CASE UNCHANGED <<versions, replaced>>
      BY <1>3, <2>1, <2>2
    <2>3. CASE /\ replaced' = replaced
               /\ versions' = [i \in DOMAIN versions |->
                                 IF i \in r.versions
                                 THEN [versions[i] EXCEPT !.body = UnderNew(@)]
                                 ELSE versions[i]]
      <3>1. \A i \in DOMAIN versions : versions[i] \in Version
        BY DEF ItemsTypeOK, IsMap
      <3>2. ASSUME NEW i \in DOMAIN versions
            PROVE  /\ versions'[i] \in Version
                   /\ versions'[i].of = versions[i].of /\ versions'[i].at = versions[i].at
                   /\ versions'[i].body.text = versions[i].body.text
        <4>1. UnderNew(versions[i].body) \in Body /\ UnderNew(versions[i].body).text = versions[i].body.text
          BY <2>1, <3>1 DEF Version, UnderNew, Body
        <4> QED
          BY <2>3, <3>1, <4>1 DEF Version
      <3>3. DOMAIN versions' = DOMAIN versions
        BY <2>3
      <3>4. GoOn(replaced, replaced) /\ \A i \in DOMAIN replaced : replaced[i] \in Entry
        BY DEF GoOn, ItemsTypeOK, IsMap
      <3>5. History(versions', replaced, made, now)
        BY <1>1, <3>2, <3>3, <3>4, HistoryGoesOn
      <3> QED
        BY <2>1, <2>3, <3>5 DEF Covers, Foreseen
    <2>4. CASE versions' = EmptyMap
               /\ replaced' = [i \in DOMAIN replaced |-> [replaced[i] EXCEPT !.gone = TRUE]]
      <3> DEFINE gone == [i \in DOMAIN replaced |-> TRUE]
      <3>1. gone \in [DOMAIN replaced -> BOOLEAN] /\ \A i \in DOMAIN replaced : gone[i]
        OBVIOUS
      <3>2. replaced' = [i \in DOMAIN replaced |-> [replaced[i] EXCEPT !.gone = gone[i]]]
        BY <2>4
      <3>3. Restrict(versions, {}) = EmptyMap
        BY DEF Restrict, EmptyMap
      <3>4. DOMAIN versions \subseteq DOMAIN replaced
        BY <1>1 DEF History, Told
      <3> HIDE DEF gone
      <3>5. History(Restrict(versions, {}), replaced', made, now)
        BY <1>1, <3>1, <3>2, <3>4, HistoryCut
      <3>6. Covers
        BY <2>4 DEF Covers, Foreseen, ItemsTypeOK, IsMap, Entry
      <3> QED
        BY <2>1, <2>4, <3>3, <3>5, <3>6
    <2> QED
      BY <1>6, <2>2, <2>3, <2>4 DEF FinishRotation, Rotated
  <1>7. CASE ImportItem \/ Bulk \/ Move
    BY <1>3, <1>7 DEF ImportItem, Bulk, Move
  <1>8. ASSUME NEW keep \in SUBSET DOMAIN versions, NEW gone \in [DOMAIN replaced -> BOOLEAN],
               \A i \in DOMAIN replaced : replaced[i].gone => gone[i], \A i \in DOMAIN versions \ keep : gone[i],
               versions' = Restrict(versions, keep),
               replaced' = [i \in DOMAIN replaced |-> [replaced[i] EXCEPT !.gone = gone[i]]],
               UNCHANGED <<made, now>>
        PROVE  Goal
    <2>1. History(Restrict(versions, keep), replaced', made, now)
      BY <1>1, <1>8, HistoryCut
    <2>2. Covers
      BY <1>8 DEF Covers, Foreseen, ItemsTypeOK, IsMap, Entry
    <2> QED
      BY <1>8, <2>1, <2>2
  <1>9. CASE Delete \/ Purge
    <2>1. PICK which : Gone(which)
      BY <1>9 DEF Delete, Purge
    <2> DEFINE keep == {i \in DOMAIN versions : versions[i].of \notin which}
               gone == [i \in DOMAIN replaced |-> replaced[i].gone \/ replaced[i].of \in which]
    <2>2. \A i \in DOMAIN versions \ keep : gone[i]
      BY <1>1 DEF History, Told
    <2>3. gone \in [DOMAIN replaced -> BOOLEAN] /\ \A i \in DOMAIN replaced : replaced[i].gone => gone[i]
      BY DEF ItemsTypeOK, IsMap, Entry
    <2>4. replaced' = [i \in DOMAIN replaced |-> [replaced[i] EXCEPT !.gone = gone[i]]]
      BY <2>1 DEF Gone
    <2>5. versions' = Restrict(versions, keep) /\ UNCHANGED <<made, now>> /\ keep \in SUBSET DOMAIN versions
      BY <2>1 DEF Gone
    <2> HIDE DEF keep, gone
    <2> QED
      BY <1>8, <2>2, <2>3, <2>4, <2>5
  <1>10. CASE DeleteVersions
    <2>0. PICK c \in There : \E which : Forgotten(c, which)
      BY <1>10 DEF DeleteVersions
    <2>1. PICK which : Forgotten(c, which)
      BY <2>0
    <2> DEFINE goes == {i \in DOMAIN versions : versions[i].of = c /\ i \in which}
               keep == DOMAIN versions \ goes
               gone == [i \in DOMAIN replaced |-> replaced[i].gone \/ i \in goes]
    <2>2. \A i \in DOMAIN versions \ keep : gone[i]
      BY <1>1 DEF History, Told
    <2>3. gone \in [DOMAIN replaced -> BOOLEAN] /\ \A i \in DOMAIN replaced : replaced[i].gone => gone[i]
      BY DEF ItemsTypeOK, IsMap, Entry
    <2>4. replaced' = [i \in DOMAIN replaced |-> [replaced[i] EXCEPT !.gone = gone[i]]]
      BY <2>1 DEF Forgotten
    <2>5. versions' = Restrict(versions, keep) /\ UNCHANGED <<made, now>> /\ keep \in SUBSET DOMAIN versions
      BY <1>10, <2>1 DEF Forgotten, DeleteVersions
    <2> HIDE DEF keep, gone
    <2> QED
      BY <1>8, <2>2, <2>3, <2>4, <2>5
  <1>11. CASE PruneVersions
    <2>1. PICK r \in RulesAbout : versions' = Pruned(versions, r)
      BY <1>1, <1>11 DEF PruneVersions
    <2> DEFINE keep == Stay(versions, r)
    <2>2. keep \subseteq DOMAIN versions
      BY DEF Stay
    <2>3. \A i \in DOMAIN replaced : r \in replaced[i].rules
      BY DEF Foreseen
    <2> HIDE DEF keep
    <2>4. History(Restrict(versions, keep), replaced, made, now)
      BY <1>1, <2>2, <2>3, HistoryPruned DEF keep
    <2>5. replaced' = replaced /\ made' = made /\ now' = now
      BY <1>11 DEF PruneVersions
    <2> QED
      BY <2>1, <2>4, <2>5 DEF Pruned, Covers, Foreseen, keep
  <1>12. CASE SetVersionRule
    <2>1. PICK r \in Rules :
             /\ rule' = r
             /\ replaced' = [i \in DOMAIN replaced |-> [replaced[i] EXCEPT !.rules = @ \cup {r}]]
      BY <1>12 DEF SetVersionRule
    <2>2. now' = now /\ made' = made /\ versions' = versions
      BY <1>12 DEF SetVersionRule, kept
    <2>3. \A i \in DOMAIN replaced : replaced[i] \in Entry
      BY DEF ItemsTypeOK, IsMap
    <2>4. ASSUME NEW i \in DOMAIN replaced
          PROVE  /\ replaced'[i] \in Entry /\ replaced'[i].of = replaced[i].of
                 /\ replaced'[i].at = replaced[i].at /\ replaced'[i].text = replaced[i].text
                 /\ (replaced[i].gone => replaced'[i].gone) /\ replaced'[i].rules = replaced[i].rules \cup {r}
      BY <2>1, <2>3 DEF Entry
    <2>5. GoOn(replaced, replaced') /\ DOMAIN replaced' = DOMAIN replaced
      BY <2>1, <2>4 DEF GoOn
    <2>6. \A i \in DOMAIN versions : versions[i] \in Version
      BY DEF ItemsTypeOK, IsMap
    <2>7. History(versions, replaced', made, now)
      BY <1>1, <2>4, <2>5, <2>6, HistoryGoesOn
    <2> QED
      BY <2>2, <2>4, <2>5, <2>7 DEF Covers, Foreseen
  <1>13. CASE SweepReads \/ SetReminder \/ DeleteReminder \/ TendReads \/ TendSends \/ RemindersMailed \/ Tick
    BY <1>3, <1>13 DEF SweepReads, SetReminder, DeleteReminder, TendReads, TendSends, RemindersMailed, Tick, kept
  <1> QED
    BY <1>4, <1>5, <1>6, <1>7, <1>9, <1>10, <1>11, <1>12, <1>13 DEF ItemsNext, Asking

LEMMA RuleHad ==
    ASSUME ItemsTypeOK, Matched, Foreseen, KeptAsPromised, ItemsNext
    PROVE  \A i \in DOMAIN replaced' : rule' \in replaced'[i].rules
  <1>1. rule' = rule \/ SetVersionRule
    <2>1. CASE \E q \in Requests : Asking(q)
      BY <2>1, AskingLeaves
    <2>2. CASE \E q \in Requests : SaveItem(q) \/ RestoreVersion(q) \/ FinishRotation(q)
      BY <2>2 DEF SaveItem, RestoreVersion, FinishRotation
    <2>3. CASE ImportItem \/ Bulk \/ Move \/ Delete \/ Purge \/ DeleteVersions
      BY <2>3 DEF ImportItem, Bulk, Move, Delete, Purge, Gone, DeleteVersions
    <2>4. CASE PruneVersions \/ SweepReads
      BY <2>4 DEF PruneVersions, SweepReads
    <2>5. CASE SetReminder \/ DeleteReminder \/ TendReads \/ TendSends \/ RemindersMailed \/ Tick
      BY <2>5 DEF SetReminder, DeleteReminder, TendReads, TendSends, RemindersMailed, Tick
    <2> QED
      BY <2>1, <2>2, <2>3, <2>4, <2>5 DEF ItemsNext, Asking
  <1>2. \A i \in DOMAIN replaced' : rule' \in replaced'[i].rules
    <2>1. CASE rule' = rule
      BY <2>1, HistorySteps DEF Covers, RulesAbout
    <2>2. CASE SetVersionRule
      BY <2>2 DEF SetVersionRule, ItemsTypeOK, IsMap, Entry
    <2> QED
      BY <1>1, <2>1, <2>2
  <1> QED
    BY <1>2

-----------------------------------------------------------------------------
(* Keys, and what a restore has seen.                                      *)
LEMMA KeySteps ==
    ASSUME ItemsIInv, ItemsNext
    PROVE  NothingUnderALostKey'
  <1>1. /\ ItemsTypeOK /\ Matched /\ Foreseen /\ KeptAsPromised /\ NothingUnderALostKey
        /\ (\A c \in Items : c \in There => row[c] \in Row) /\ row \in [Items -> Row \cup {None}]
        /\ (\A i \in DOMAIN versions : versions[i] \in Version)
        /\ (\A q \in Requests : Shape(request[q])) /\ keys \in Nat
    BY DEF ItemsIInv, ItemsTypeOK, IsMap, There
  <1>2. ASSUME UNCHANGED userKey, strays \subseteq strays',
               \A c \in Items : row'[c] # None =>
                   \/ row[c] # None /\ row'[c].body = row[c].body
                   \/ row'[c].body.key = userKey \/ row'[c].body.text \in strays'
                   \/ \E i \in DOMAIN versions : row'[c].body = versions[i].body,
               \A i \in DOMAIN versions' :
                   \/ i \in DOMAIN versions /\ versions'[i].body = versions[i].body
                   \/ \E c \in There : versions'[i].body = row[c].body
        PROVE  NothingUnderALostKey'
    BY <1>1, <1>2 DEF NothingUnderALostKey, There, Now
  <1>3. ASSUME UNCHANGED <<versions, userKey, strays>>,
               \A c \in Items : row'[c] # None => row[c] # None /\ row'[c].body = row[c].body
        PROVE  NothingUnderALostKey'
    BY <1>2, <1>3
  <1>4. CASE \E q \in Requests : Asking(q)
    BY <1>3, <1>4, AskingLeaves
  <1>5. ASSUME NEW q \in Requests, SaveItem(q)
        PROVE  NothingUnderALostKey'
    <2> DEFINE c == request[q].of
               body == request[q].row.body
    <2>1. c \in Items /\ request[q].row \in Row /\ {request[q].rule, rule} \subseteq RulesAbout
      BY <1>1, <1>5 DEF SaveItem, Shape, RulesAbout
    <2>2. PICK r \in RulesAbout : SaveRow(q, r)
      BY <1>5, <2>1 DEF SaveItem
    <2>3. [request[q].row EXCEPT !.rev = now].body = body
      BY <2>1 DEF Row
    <2>4. /\ row' = [row EXCEPT ![c] = [request[q].row EXCEPT !.rev = now]]
          /\ StateChanged(c, r, body) /\ Strayed(body)
      BY <2>2, <2>3 DEF SaveRow
    <2>5. Comes(c)
      BY <1>1, <2>1, <2>4, StateChangedKeeps
    <2>6. strays \subseteq strays' /\ (body.key = userKey \/ body.text \in strays')
      BY <2>4 DEF Strayed
    <2>7. UNCHANGED userKey
      BY <1>5 DEF SaveItem
    <2>8. \A d \in Items : row'[d] = IF d = c THEN [request[q].row EXCEPT !.rev = now] ELSE row[d]
      BY <1>1, <2>4
    <2>9. \A d \in Items : row'[d] # None =>
              \/ row[d] # None /\ row'[d].body = row[d].body
              \/ row'[d].body.key = userKey \/ row'[d].body.text \in strays'
      BY <2>3, <2>6, <2>8
    <2>10. \A i \in DOMAIN versions' :
              \/ i \in DOMAIN versions /\ versions'[i].body = versions[i].body
              \/ \E d \in There : versions'[i].body = row[d].body
      BY <2>1, <2>5 DEF Comes, There
    <2> QED
      BY <1>2, <2>6, <2>7, <2>9, <2>10
  <1>6. ASSUME NEW q \in Requests, RestoreVersion(q)
        PROVE  NothingUnderALostKey'
    <2> DEFINE c == request[q].of
               body == versions[request[q].version].body
    <2>1. c \in Items /\ {request[q].rule, rule} \subseteq RulesAbout
      BY <1>1, <1>6 DEF RestoreVersion, Shape, RulesAbout
    <2>2. UNCHANGED <<userKey, strays>>
      BY <1>6 DEF RestoreVersion
    <2>3. CASE UNCHANGED <<row, versions>>
      BY <1>3, <2>2, <2>3
    <2>4. ASSUME NEW r \in RulesAbout, row[c] # None, request[q].version \in DOMAIN versions,
                 row' = [row EXCEPT ![c].body = body, ![c].rev = now], StateChanged(c, r, body)
          PROVE  NothingUnderALostKey'
      <3>1. Comes(c)
        BY <1>1, <2>1, <2>4, StateChangedKeeps
      <3>2. row[c] \in Row
        BY <1>1, <2>1, <2>4 DEF There
      <3>3. \A d \in Items : row'[d] = IF d = c THEN [row[c] EXCEPT !.body = body, !.rev = now] ELSE row[d]
        BY <1>1, <2>1, <2>4, <3>2 DEF Row
      <3>4. [row[c] EXCEPT !.body = body, !.rev = now].body = body
        BY <3>2 DEF Row
      <3>5. \A d \in Items : row'[d] # None =>
                \/ row[d] # None /\ row'[d].body = row[d].body
                \/ \E i \in DOMAIN versions : row'[d].body = versions[i].body
        BY <2>4, <3>3, <3>4
      <3>6. \A i \in DOMAIN versions' :
                \/ i \in DOMAIN versions /\ versions'[i].body = versions[i].body
                \/ \E d \in There : versions'[i].body = row[d].body
        BY <2>1, <3>1 DEF Comes, There
      <3> QED
        BY <1>2, <2>2, <3>5, <3>6
    <2> QED
      BY <1>6, <2>1, <2>3, <2>4 DEF RestoreVersion
  <1>7. ASSUME NEW q \in Requests, FinishRotation(q)
        PROVE  NothingUnderALostKey'
    <2> DEFINE r == request[q]
    <2>1. IsMap(r.rows, Items, Row) /\ UNCHANGED strays
      BY <1>1, <1>7 DEF FinishRotation, Shape, ghosts
    <2>2. CASE UNCHANGED <<row, versions, userKey>>
      BY <1>3, <2>1, <2>2
    <2>3. CASE /\ AllItems(r) /\ AllVersions(r) /\ userKey' = keys + 1
               /\ row' = [c \in Items |-> IF c \in DOMAIN r.rows
                                          THEN [r.rows[c] EXCEPT !.body = UnderNew(@), !.rev = now]
                                          ELSE row[c]]
               /\ versions' = IF r.own
                              THEN [i \in DOMAIN versions |->
                                       IF i \in r.versions
                                       THEN [versions[i] EXCEPT !.body = UnderNew(@)]
                                       ELSE versions[i]]
                              ELSE EmptyMap
      <3>1. ASSUME NEW c \in Items, row'[c] # None
            PROVE  row'[c].body.key = userKey'
        <4>1. c \in DOMAIN r.rows
          BY <2>3, <3>1 DEF AllItems, There
        <4>2. r.rows[c] \in Row /\ row'[c] = [r.rows[c] EXCEPT !.body = UnderNew(@), !.rev = now]
          BY <2>1, <2>3, <4>1 DEF IsMap
        <4>3. row'[c].body = UnderNew(r.rows[c].body) /\ r.rows[c].body \in Body
          BY <4>2 DEF Row
        <4> QED
          BY <2>3, <4>3 DEF UnderNew, Body
      <3>2. ASSUME NEW i \in DOMAIN versions'
            PROVE  versions'[i].body.key = userKey'
        <4>1. r.own /\ i \in DOMAIN versions /\ i \in r.versions
          BY <2>3, <3>2 DEF AllVersions, EmptyMap
        <4>2. versions'[i] = [versions[i] EXCEPT !.body = UnderNew(@)] /\ versions[i] \in Version
          BY <1>1, <2>3, <4>1
        <4>3. versions'[i].body = UnderNew(versions[i].body) /\ versions[i].body \in Body
          BY <4>2 DEF Version
        <4> QED
          BY <2>3, <4>3 DEF UnderNew, Body
      <3> QED
        BY <3>1, <3>2 DEF NothingUnderALostKey, There, Now
    <2> QED
      BY <1>7, <2>2, <2>3 DEF FinishRotation, Rotated
  <1>8. CASE ImportItem
    <2>1. PICK c \in Items : Imported(c)
      BY <1>8 DEF ImportItem
    <2>2. \A d \in Items : row'[d] = row[d] \/ row'[d].body.key = userKey
      BY <1>1, <2>1 DEF Imported, NewBody
    <2>3. UNCHANGED <<versions, userKey, strays>>
      BY <1>8 DEF ImportItem, ghosts
    <2> QED
      BY <1>2, <2>2, <2>3
  <1>9. CASE Bulk
    <2>1. PICK c \in There, trashed \in BOOLEAN : Marked(c, trashed)
      BY <1>9 DEF Bulk
    <2>2. row[c] \in Row /\ c \in Items /\ row[c] # None
      BY <1>1 DEF There
    <2>3. \A d \in Items : row'[d] = IF d = c THEN [row[c] EXCEPT !.trashed = trashed, !.rev = now] ELSE row[d]
      BY <1>1, <2>1, <2>2 DEF Marked, Row
    <2>4. [row[c] EXCEPT !.trashed = trashed, !.rev = now].body = row[c].body
      BY <2>2 DEF Row
    <2>5. UNCHANGED <<versions, userKey, strays>>
      BY <1>9 DEF Bulk, ghosts
    <2> QED
      BY <1>3, <2>2, <2>3, <2>4, <2>5
  <1>10. CASE Move
    <2>1. PICK which \in SUBSET There : Moved(which)
      BY <1>10 DEF Move
    <2>2. \A c \in which : row[c] # None /\ [row[c] EXCEPT !.rev = now].body = row[c].body
      BY <1>1 DEF There, Row
    <2>3. \A c \in Items : row'[c] # None => row[c] # None /\ row'[c].body = row[c].body
      BY <2>1, <2>2 DEF Moved
    <2>4. UNCHANGED <<versions, userKey, strays>>
      BY <1>10 DEF Move, ghosts
    <2> QED
      BY <1>3, <2>3, <2>4
  <1>11. CASE Delete \/ Purge
    <2>1. PICK which : Gone(which)
      BY <1>11 DEF Delete, Purge
    <2>2. \A c \in Items : row'[c] # None => row[c] # None /\ row'[c].body = row[c].body
      BY <2>1 DEF Gone
    <2>3. \A i \in DOMAIN versions' : i \in DOMAIN versions /\ versions'[i].body = versions[i].body
      BY <2>1 DEF Gone, Restrict
    <2>4. UNCHANGED <<userKey, strays>>
      BY <2>1 DEF Gone, ghosts
    <2> QED
      BY <1>2, <2>2, <2>3, <2>4
  <1>12. CASE DeleteVersions \/ PruneVersions
    <2>1. \E S \in SUBSET DOMAIN versions : versions' = Restrict(versions, S)
      <3>1. CASE DeleteVersions
        <4>1. PICK c \in There : \E which : Forgotten(c, which)
          BY <3>1 DEF DeleteVersions
        <4>2. PICK which : Forgotten(c, which)
          BY <4>1
        <4> QED
          BY <4>2 DEF Forgotten
      <3>2. CASE PruneVersions
        BY <3>2 DEF PruneVersions, Pruned, Stay
      <3> QED
        BY <1>12, <3>1, <3>2
    <2>2. \A i \in DOMAIN versions' : i \in DOMAIN versions /\ versions'[i].body = versions[i].body
      BY <2>1 DEF Restrict
    <2>3. UNCHANGED <<row, userKey, strays>>
      BY <1>12 DEF DeleteVersions, PruneVersions, ghosts
    <2> QED
      BY <1>2, <2>2, <2>3
  <1>13. CASE SweepReads \/ SetVersionRule
    BY <1>3, <1>13 DEF SweepReads, SetVersionRule, kept, ghosts
  <1>14. CASE SetReminder \/ DeleteReminder \/ TendReads \/ TendSends \/ RemindersMailed \/ Tick
    BY <1>3, <1>14 DEF SetReminder, DeleteReminder, TendReads, TendSends, RemindersMailed, Tick, kept, ghosts
  <1> QED
    BY <1>4, <1>5, <1>6, <1>7, <1>8, <1>9, <1>10, <1>11, <1>12, <1>13, <1>14 DEF ItemsNext, Asking

LEMMA SeenSteps ==
    ASSUME ItemsIInv, ItemsNext, NEW q \in Requests, request'[q].at = "restoring"
    PROVE  Seen(request[q])'
  <1>1. ItemsTypeOK /\ now \in Nat /\ now' \in Nat /\ now <= now' /\ (now' = now \/ UNCHANGED <<row, request>>)
    BY SweepSteps DEF ItemsIInv, ItemsTypeOK
  <1>2. CASE request'[q] = request[q]
    <2>1. Seen(request[q]) /\ request[q].of \in Items /\ request[q].known \in Nat
      BY <1>1, <1>2 DEF ItemsIInv, ItemsTypeOK, Shape
    <2>2. Dated(request[q].of)
      BY <1>1, <2>1, RowSteps
    <2> QED
      BY <1>1, <1>2, <2>1, <2>2 DEF Seen, Dated
  <1>3. CASE request'[q] # request[q]
    <2>1. PICK p \in Requests : \E step : Does(p, step) /\ Shape(step) /\ Begins(step)
      BY <1>1, <1>3, RequestSteps
    <2>2. PICK step : Does(p, step) /\ Begins(step)
      BY <2>1
    <2>3. request'[q] = step
      BY <1>1, <1>3, <2>2 DEF Does, ItemsTypeOK
    <2>4. Seen(step) /\ row' = row
      BY <2>2, <2>3 DEF Begins
    <2>5. now' = now
      BY <1>1, <1>3
    <2> QED
      BY <2>3, <2>4, <2>5 DEF Seen
  <1> QED
    BY <1>2, <1>3

(* Counters, texts, reminders and mails.                                   *)
LEMMA RestSteps ==
    ASSUME ItemsTypeOK, ItemsNext
    PROVE  /\ scene' \in Scenes
           /\ {userKey', keys', texts', asked'} \subseteq Nat
           /\ reminder' \in Reminder \cup {None}
           /\ mailing'.at \in {"idle", "sending", "sent"} /\ (mailing'.at # "idle" => mailing'.due \in Nat)
           /\ strays' \subseteq Nat /\ sent' \subseteq Nat
  <1> DEFINE Goal == /\ scene' \in Scenes
                     /\ {userKey', keys', texts', asked'} \subseteq Nat
                     /\ reminder' \in Reminder \cup {None}
                     /\ mailing'.at \in {"idle", "sending", "sent"}
                     /\ (mailing'.at # "idle" => mailing'.due \in Nat)
                     /\ strays' \subseteq Nat /\ sent' \subseteq Nat
  <1>1. /\ scene \in Scenes /\ userKey \in Nat /\ keys \in Nat /\ texts \in Nat /\ asked \in Nat /\ now \in Nat
        /\ reminder \in Reminder \cup {None}
        /\ mailing.at \in {"idle", "sending", "sent"} /\ (mailing.at # "idle" => mailing.due \in Nat)
        /\ strays \subseteq Nat /\ sent \subseteq Nat
        /\ (\A q \in Requests : Shape(request[q])) /\ (\A c \in Items : c \in There => row[c] \in Row)
    BY DEF ItemsTypeOK, There
  <1>2. ASSUME UNCHANGED <<reminder, mailing, strays, sent, scene>>,
               userKey' \in Nat, keys' \in Nat, texts' \in Nat, asked' \in Nat
        PROVE  Goal
    BY <1>1, <1>2
  <1>3. CASE \E q \in Requests : Asking(q)
    BY <1>1, <1>2, <1>3, AskingLeaves
  <1>4. ASSUME NEW c \in Items, NEW body \in Body, PasswordChanged(c, body)
        PROVE  reminder' \in Reminder \cup {None}
    <2>1. CASE reminder' \in {reminder, None}
      BY <1>1, <2>1
    <2>2. CASE reminder # None /\ reminder' = [reminder EXCEPT !.due = body.day + Month, !.mailed = FALSE]
      <3>1. reminder \in Reminder /\ body.day + Month \in Nat
        BY <1>1, <2>2, ItemBounds DEF Body
      <3> QED
        BY <2>2, <3>1 DEF Reminder
    <2> QED
      BY <1>4, <2>1, <2>2 DEF PasswordChanged
  <1>5. ASSUME NEW q \in Requests, SaveItem(q)
        PROVE  Goal
    <2> DEFINE c == request[q].of
               new == [request[q].row EXCEPT !.rev = now]
    <2>1. c \in Items /\ request[q].row \in Row
      BY <1>1, <1>5 DEF SaveItem, Shape
    <2>2. new.body \in Body
      BY <2>1 DEF Row
    <2>3. PasswordChanged(c, new.body) /\ Strayed(new.body)
      BY <1>5 DEF SaveItem, SaveRow
    <2>4. UNCHANGED <<scene, userKey, mailing, texts, keys, asked, sent>>
      BY <1>5 DEF SaveItem
    <2> HIDE DEF new
    <2>5. strays' \subseteq Nat
      BY <1>1, <2>2, <2>3 DEF Strayed, Body
    <2> QED
      BY <1>1, <1>4, <2>1, <2>2, <2>3, <2>4, <2>5
  <1>6. ASSUME NEW q \in Requests, RestoreVersion(q)
        PROVE  Goal
    <2> DEFINE c == request[q].of
               body == versions[request[q].version].body
    <2>1. c \in Items
      BY <1>1, <1>6 DEF RestoreVersion, Shape
    <2>2. UNCHANGED <<scene, userKey, mailing, texts, keys, asked, strays, sent>>
      BY <1>6 DEF RestoreVersion
    <2>3. UNCHANGED reminder \/ (request[q].version \in DOMAIN versions /\ PasswordChanged(c, body))
      BY <1>6 DEF RestoreVersion
    <2>4. request[q].version \in DOMAIN versions => body \in Body
      BY DEF ItemsTypeOK, IsMap, Version
    <2> HIDE DEF body, c
    <2> QED
      BY <1>1, <1>2, <1>4, <2>1, <2>2, <2>3, <2>4
  <1>7. ASSUME NEW q \in Requests, FinishRotation(q)
        PROVE  Goal
    <2>1. UNCHANGED <<scene, reminder, mailing, texts, asked, strays, sent>>
      BY <1>7 DEF FinishRotation, ghosts
    <2>2. (userKey' = keys + 1 /\ keys' = keys + 1) \/ UNCHANGED <<userKey, keys>>
      BY <1>7 DEF FinishRotation, Rotated
    <2> QED
      BY <1>1, <1>2, <2>1, <2>2
  <1>8. CASE ImportItem \/ Bulk \/ Move
    BY <1>1, <1>2, <1>8 DEF ImportItem, Bulk, Move, Asks, NextText, ghosts
  <1>9. CASE Delete \/ Purge
    <2>1. PICK which : Gone(which)
      BY <1>9 DEF Delete, Purge
    <2>2. UNCHANGED <<scene, userKey, mailing, texts, keys, ghosts>> /\ reminder' \in {reminder, None}
      BY <2>1 DEF Gone
    <2>3. asked' \in Nat
      BY <1>1, <1>9 DEF Delete, Purge, Asks
    <2> QED
      BY <1>1, <2>2, <2>3 DEF ghosts
  <1>10. CASE DeleteVersions \/ SetVersionRule
    BY <1>1, <1>2, <1>10 DEF DeleteVersions, SetVersionRule, Asks, kept, ghosts
  <1>11. CASE SweepReads \/ PruneVersions \/ Tick
    BY <1>1, <1>2, <1>11 DEF SweepReads, PruneVersions, Tick, kept, ghosts
  <1>12. CASE SetReminder
    <2>1. PICK c \in There, due \in now..now + 1, every \in BOOLEAN : Reminded(c, due, every)
      BY <1>12 DEF SetReminder
    <2>2. c \in Items /\ due \in Nat
      BY <1>1 DEF There
    <2>3. (reminder # None /\ reminder.of = c /\ reminder.due = due /\ reminder.mailed) \in BOOLEAN
      BY <1>1 DEF Reminder
    <2>4. reminder' \in Reminder
      BY <2>1, <2>2, <2>3 DEF Reminded, Reminder
    <2>5. UNCHANGED <<scene, userKey, mailing, texts, keys, strays, sent>> /\ asked' \in Nat
      BY <1>1, <1>12 DEF SetReminder, Asks, ghosts
    <2> QED
      BY <1>1, <2>4, <2>5
  <1>13. CASE DeleteReminder
    BY <1>1, <1>13 DEF DeleteReminder, Asks, ghosts
  <1>14. CASE TendReads
    <2>1. mailing' = [at |-> "sending", of |-> reminder.of, due |-> reminder.due] /\ reminder \in Reminder
      BY <1>1, <1>14 DEF TendReads
    <2>2. mailing'.at = "sending" /\ mailing'.due \in Nat
      BY <2>1 DEF Reminder
    <2>3. UNCHANGED <<scene, userKey, reminder, texts, keys, asked, strays, sent>>
      BY <1>14 DEF TendReads, kept, ghosts
    <2> QED
      BY <1>1, <2>2, <2>3
  <1>15. CASE TendSends
    <2>1. UNCHANGED <<scene, userKey, reminder, texts, keys, asked, strays>>
      BY <1>15 DEF TendSends, kept
    <2>2. CASE mailing' = Ready /\ UNCHANGED sent
      BY <1>1, <2>1, <2>2 DEF Ready
    <2>3. CASE mailing' = [mailing EXCEPT !.at = "sent"] /\ sent' = sent \cup {mailing.due} /\ mailing.at = "sending"
      <3>1. mailing'.at \in {"idle", "sending", "sent"} /\ mailing'.due \in Nat
        BY <1>1, <2>3
      <3> QED
        BY <1>1, <2>1, <2>3, <3>1
    <2> QED
      BY <1>15, <2>2, <2>3 DEF TendSends
  <1>16. CASE RemindersMailed
    <2>1. reminder' \in Reminder \cup {None}
      BY <1>1, <1>16 DEF RemindersMailed, Reminder
    <2>2. mailing'.at = "idle" /\ UNCHANGED <<scene, userKey, texts, keys, asked, strays, sent>>
      BY <1>16 DEF RemindersMailed, ghosts, Ready
    <2> QED
      BY <1>1, <2>1, <2>2
  <1> QED
    BY <1>3, <1>5, <1>6, <1>7, <1>8, <1>9, <1>10, <1>11, <1>12, <1>13, <1>14, <1>15, <1>16
    DEF ItemsNext, Asking

(* A restore replaces what it saw.                                         *)
LEMMA SurpriseSteps ==
    ASSUME ItemsIInv, ItemsNext
    PROVE  surprised' = FALSE
  <1>1. surprised = FALSE
    BY DEF ItemsIInv, ItemsTypeOK, RestoresOverWhatWasSeen
  <1>2. CASE \E q \in Requests : Asking(q)
    BY <1>1, <1>2, AskingLeaves
  <1>3. CASE \E q \in Requests : SaveItem(q)
    BY <1>1, <1>3 DEF SaveItem
  <1>4. CASE \E q \in Requests : FinishRotation(q)
    BY <1>1, <1>4 DEF FinishRotation, ghosts
  <1>5. ASSUME NEW q \in Requests, RestoreVersion(q)
        PROVE  surprised' = FALSE
    <2>1. Seen(request[q])
      BY <1>5 DEF ItemsIInv, RestoreVersion
    <2>2. row[request[q].of] # None /\ row[request[q].of].rev = request[q].known
             => row[request[q].of].body = request[q].saw
      BY <2>1 DEF Seen
    <2> QED
      BY <1>1, <1>5, <2>2 DEF RestoreVersion
  <1>6. CASE ImportItem \/ Bulk \/ Move
    BY <1>1, <1>6 DEF ImportItem, Bulk, Move, ghosts
  <1>7. CASE Delete \/ Purge
    <2>1. PICK which : Gone(which)
      BY <1>7 DEF Delete, Purge
    <2> QED
      BY <1>1, <2>1 DEF Gone, ghosts
  <1>8. CASE DeleteVersions \/ SweepReads \/ PruneVersions \/ SetVersionRule
    BY <1>1, <1>8 DEF DeleteVersions, SweepReads, PruneVersions, SetVersionRule, ghosts
  <1>9. CASE SetReminder \/ DeleteReminder \/ TendReads \/ TendSends \/ RemindersMailed \/ Tick
    BY <1>1, <1>9 DEF SetReminder, DeleteReminder, TendReads, TendSends, RemindersMailed, Tick, ghosts
  <1> QED
    BY <1>2, <1>3, <1>4, <1>5, <1>6, <1>7, <1>8, <1>9 DEF ItemsNext, Asking

LEMMA ItemsStep == ItemsIInv /\ [ItemsNext]_itemsVars => ItemsIInv'
  <1> SUFFICES ASSUME ItemsIInv, [ItemsNext]_itemsVars
               PROVE  ItemsIInv'
    OBVIOUS
  <1>1. CASE ItemsNext
    <2>1. ItemsTypeOK /\ Matched /\ Foreseen /\ KeptAsPromised
      BY DEF ItemsIInv
    <2>2. History(versions', replaced', made', now') /\ Covers
      BY <1>1, <2>1, HistorySteps
    <2>3. Matched' /\ KeptAsPromised'
      BY <2>2, HistoryThen
    <2>4. Foreseen'
      <3>1. RulesAbout' \subseteq RulesAbout \cup {rule'}
        BY <1>1, <2>1, RulesSteps
      <3>2. \A i \in DOMAIN replaced' : rule' \in replaced'[i].rules
        BY <1>1, <2>1, RuleHad
      <3> QED
        BY <2>2, <3>1, <3>2 DEF Covers, Foreseen
    <2>5. DOMAIN request' = Requests /\ \A q \in Requests : Shape(request'[q])
      <3>1. DOMAIN request = Requests /\ \A q \in Requests : Shape(request[q])
        BY <2>1 DEF ItemsTypeOK
      <3>2. CASE UNCHANGED request
        BY <3>1, <3>2
      <3>3. CASE \E q \in Requests : \E step : Does(q, step) /\ Shape(step) /\ Begins(step)
        <4>1. PICK q \in Requests : \E step : Does(q, step) /\ Shape(step) /\ Begins(step)
          BY <3>3
        <4>2. PICK step : Does(q, step) /\ Shape(step)
          BY <4>1
        <4>3. DOMAIN request' = Requests /\ \A p \in Requests : request'[p] = IF p = q THEN step ELSE request[p]
          BY <3>1, <4>2 DEF Does
        <4> QED
          BY <3>1, <4>2, <4>3
      <3> QED
        BY <1>1, <2>1, <3>2, <3>3, RequestSteps
    <2>6. rule' \in Rules /\ sweep' \in Rules \cup {None} /\ now' \in Nat
      BY <1>1, <2>1, SweepSteps DEF ItemsTypeOK
    <2>7. row' \in [Items -> Row \cup {None}]
      BY <1>1, <2>1, RowSteps
    <2>8. surprised' = FALSE
      BY <1>1, SurpriseSteps
    <2>9. ItemsTypeOK'
      BY <1>1, <2>1, <2>2, <2>5, <2>6, <2>7, <2>8, RestSteps DEF ItemsTypeOK, History
    <2>10. \A q \in Requests : request'[q].at = "restoring" => Seen(request[q])'
      BY <1>1, SeenSteps
    <2>11. NothingUnderALostKey'
      BY <1>1, KeySteps
    <2> QED
      BY <2>3, <2>4, <2>8, <2>9, <2>10, <2>11 DEF ItemsIInv, RestoresOverWhatWasSeen
  <1>2. CASE UNCHANGED itemsVars
    BY <1>2 DEF itemsVars, kept, ghosts, ItemsIInv, ItemsTypeOK, Matched, Foreseen, RulesAbout, KeptAsPromised,
                Newer, NewerIn, InTime, NothingUnderALostKey, There, Now, RestoresOverWhatWasSeen, Seen
  <1> QED
    BY <1>1, <1>2

LEMMA ItemsStart == ItemsInit => ItemsIInv
  <1> SUFFICES ASSUME ItemsInit
               PROVE  ItemsIInv
    OBVIOUS
  <1>1. DOMAIN versions = {} /\ DOMAIN replaced = {}
    BY DEF ItemsInit, EmptyMap
  <1>2. request = [q \in Requests |-> Ready] /\ Shape(Ready)
    BY ReadyShape DEF ItemsInit
  <1>3. 1..0 = {}
    OBVIOUS
  <1>4. ASSUME NEW c \in Items
        PROVE  row[c] = None \/ (row[c] \in Row /\ row[c].body.key = 1)
    <2> DEFINE body == [text |-> 1, key |-> 1, day |-> 0]
               first == [body |-> body, rev |-> 0, trashed |-> FALSE]
    <2>1. body \in Body /\ body.key = 1
      BY DEF Body
    <2>2. row[c] \in {None, first}
      BY DEF ItemsInit
    <2> HIDE DEF body
    <2>3. first \in Row /\ first.body = body
      BY <2>1 DEF Row
    <2> HIDE DEF first
    <2> QED
      BY <2>1, <2>2, <2>3
  <1>5. row \in [Items -> Row \cup {None}]
    <2>1. row \in [Items -> {None, [body |-> [text |-> 1, key |-> 1, day |-> 0], rev |-> 0, trashed |-> FALSE]}]
      BY DEF ItemsInit
    <2> QED
      BY <1>4, <2>1
  <1>6. ItemsTypeOK
    <2>1. IsMap(versions, 1..made, Version) /\ IsMap(replaced, Nat, Entry) /\ DOMAIN replaced = 1..made
      BY <1>1, <1>3 DEF IsMap, ItemsInit
    <2>2. mailing.at = "idle"
      BY DEF ItemsInit, Ready
    <2>3. DOMAIN request = Requests /\ \A q \in Requests : Shape(request[q])
      BY <1>2
    <2>4. /\ scene \in Scenes /\ rule \in Rules /\ sweep = None /\ reminder = None
          /\ strays = {} /\ sent = {} /\ surprised = FALSE
          /\ {userKey, keys, texts, made, asked, now} \subseteq Nat
      BY DEF ItemsInit
    <2> QED
      BY <1>5, <2>1, <2>2, <2>3, <2>4 DEF ItemsTypeOK
  <1>7. NothingUnderALostKey
    BY <1>1, <1>4 DEF NothingUnderALostKey, There, Now, ItemsInit
  <1> QED
    BY <1>1, <1>2, <1>6, <1>7 DEF ItemsIInv, Matched, Foreseen, KeptAsPromised, RestoresOverWhatWasSeen,
                                  ItemsInit, Ready

(* The invariant of the items, for any items, requests, rules and scenes,  *)
(* any number of versions, rotations and days (store ciphers.rs,           *)
(* versions.rs, vault.rs rotate_keys).                                     *)
THEOREM ItemsKeepTheirShape == ItemsSpec => []ItemsIInv
  <1>1. ItemsInit => ItemsIInv
    BY ItemsStart
  <1>2. ItemsIInv /\ [ItemsNext]_itemsVars => ItemsIInv'
    BY ItemsStep
  <1> QED
    BY <1>1, <1>2, PTL DEF ItemsSpec

(* What was overwritten can be brought back as long as docs/uwu-api.md 8.2 *)
(* says, however the admin changes the rule and whoever read one before    *)
(* (versions.rs changed, prune).                                           *)
THEOREM VersionsAreKept == ItemsSpec => []KeptAsPromised
  <1>1. ItemsIInv => KeptAsPromised
    BY DEF ItemsIInv
  <1> QED
    BY <1>1, ItemsKeepTheirShape, PTL

(* A rotation leaves nothing under the key before (vault.rs rotate_keys).  *)
THEOREM RotationsTakeEverything == ItemsSpec => []NothingUnderALostKey
  <1>1. ItemsIInv => NothingUnderALostKey
    BY DEF ItemsIInv
  <1> QED
    BY <1>1, ItemsKeepTheirShape, PTL

(* A restore replaces the state its client saw (versions.rs                *)
(* restore_version).                                                       *)
THEOREM RestoresAreInformed == ItemsSpec => []RestoresOverWhatWasSeen
  <1>1. ItemsIInv => RestoresOverWhatWasSeen
    BY DEF ItemsIInv
  <1> QED
    BY <1>1, ItemsKeepTheirShape, PTL

(***************************************************************************)
(* Masked addresses                                                        *)
(***************************************************************************)

(* What a step leaves: the other requests, the turns of grants, ended ones *)
(* ended, and the token of a connection, if there is still one.            *)
Others(r) == \A p \in Requests \ {r} : request'[p] = request[p]
GrantsGoOn ==
    /\ unanswered \subseteq unanswered'
    /\ \A g \in DOMAIN grants : g \in DOMAIN grants' /\ (grants[g].ended => grants'[g].ended)
SameTurns == \A g \in DOMAIN grants : grants'[g].turn = grants[g].turn
SameGrant == connection' # None => connection # None /\ connection'.grant = connection.grant
SameToken == SameGrant /\ (connection' # None => connection'.turn = connection.turn)

LEMMA LockMoves ==
    ASSUME LockInv, NEW r \in Requests, Others(r), lock' = lock \/ lock \in {None, r},
           request'[r].at \in Locking => lock' = r
    PROVE  LockInv'
<1> SUFFICES ASSUME NEW p \in Requests, request'[p].at \in Locking
             PROVE  lock' = p
  BY DEF LockInv
<1>1. CASE p = r
  BY <1>1
<1>2. CASE p # r
  <2>1. lock = p /\ p # None
    BY <1>2, MaskedNone DEF LockInv, Others
  <2> QED
    BY <1>2, <2>1
<1> QED
  BY <1>1, <1>2

LEMMA RefreshMoves ==
    ASSUME RefreshInv, NEW r \in Requests, Others(r), GrantsGoOn, SameTurns, SameToken,
           request'[r].at \in {"refresh", "keep"} => HasToken(request[r])'
    PROVE  RefreshInv'
<1> SUFFICES ASSUME NEW p \in Requests, p # r, request'[p].at \in {"refresh", "keep"}
             PROVE  HasToken(request[p])'
  BY DEF RefreshInv
<1>1. request'[p] = request[p] /\ HasToken(request[p])
  BY DEF RefreshInv, Others
<1>2. connection' # None => Token(connection)' = Token(connection) /\ connection # None
  BY DEF SameToken, SameGrant, Token
<1> QED
  BY <1>1, <1>2 DEF HasToken, InStep, GrantsGoOn, SameTurns

LEMMA NewMoves ==
    ASSUME NewInv, NEW r \in Requests, Others(r), GrantsGoOn, SameTurns, SameGrant,
           request'[r].at \in {"session", "store"} => NewGrant(r)',
           \A p \in Requests \ {r} : request[p].at \in {"session", "store"} =>
               /\ request'[r].at \in {"refresh", "keep"} => request'[r].token.grant # request[p].grant
               /\ request'[r].at \in {"session", "store"} => request'[r].grant # request[p].grant
    PROVE  NewInv'
<1> SUFFICES ASSUME NEW p \in Requests, p # r, request'[p].at \in {"session", "store"}
             PROVE  NewGrant(p)'
  BY DEF NewInv
<1>1. request'[p] = request[p] /\ NewGrant(p)
  BY DEF NewInv, Others
<1>2. InStep(request[p].grant, 1)'
  BY <1>1 DEF NewGrant, InStep, GrantsGoOn, SameTurns
<1>3. connection' # None => connection'.grant # request'[p].grant
  BY <1>1 DEF NewGrant, SameGrant
<1>4. ASSUME NEW o \in Requests
      PROVE  /\ request'[o].at \in {"refresh", "keep"} => request'[o].token.grant # request'[p].grant
             /\ request'[o].at \in {"session", "store"} /\ o # p => request'[o].grant # request'[p].grant
  BY <1>1 DEF NewGrant, Others
<1> QED
  BY <1>1, <1>2, <1>3, <1>4 DEF NewGrant

(* The connection's grant is one of UwUMail's.                             *)
LEMMA ConnectionGrant ==
    ASSUME ConnectionInv, RefreshInv, connection # None
    PROVE  connection.grant \in DOMAIN grants
<1>1. CASE InStep(connection.grant, connection.turn)
  BY <1>1 DEF InStep
<1>2. ASSUME NEW p \in Requests, request[p].at = "keep"
      PROVE  connection.grant \in DOMAIN grants
  BY <1>2 DEF RefreshInv, HasToken, InStep, Token
<1> QED
  BY <1>1, <1>2 DEF ConnectionInv

LEMMA ConnectionMoves ==
    ASSUME ConnectionInv, NEW r \in Requests, Others(r), GrantsGoOn, SameTurns, SameToken,
           request[r].at = "keep" /\ request[r].said = "token" /\ connection' # None =>
               InStep(connection.grant, connection.turn)'
    PROVE  ConnectionInv'
<1> SUFFICES ASSUME connection' # None
             PROVE  \/ InStep(connection.grant, connection.turn)'
                    \/ \E p \in Requests : request'[p].at = "keep" /\ request'[p].said = "token"
  BY DEF ConnectionInv
<1>1. connection # None /\ connection'.grant = connection.grant /\ connection'.turn = connection.turn
  BY DEF SameToken, SameGrant
<1>2. CASE InStep(connection.grant, connection.turn)
  BY <1>1, <1>2 DEF InStep, GrantsGoOn, SameTurns
<1>3. ASSUME NEW p \in Requests, request[p].at = "keep" /\ request[p].said = "token", p # r
      PROVE  request'[p].at = "keep" /\ request'[p].said = "token"
  BY <1>3 DEF Others
<1> QED
  BY <1>1, <1>2, <1>3 DEF ConnectionInv

LEMMA EndMoves ==
    ASSUME EndInv, ConnectionInv, RefreshInv, NEW r \in Requests, Others(r), GrantsGoOn, SameGrant, EndsWell(r)'
    PROVE  EndInv'
<1> SUFFICES ASSUME NEW p \in Requests, p # r
             PROVE  EndsWell(p)'
  BY DEF EndInv
<1>1. request'[p] = request[p] /\ EndsWell(p)
  BY DEF EndInv, Others
<1>2. connection' # None => connection # None /\ connection'.grant = connection.grant
                            /\ connection.grant \in DOMAIN grants
  BY ConnectionGrant DEF SameGrant
<1>3. ASSUME connection' # None, connection.grant \notin Active \ unanswered
      PROVE  connection'.grant \notin Active' \ unanswered'
  BY <1>2, <1>3 DEF Active, GrantsGoOn
<1> QED
  BY <1>1, <1>2, <1>3 DEF EndsWell, GrantsGoOn

LEMMA LeftMoves ==
    ASSUME NoGrantIsLeft, NEW r \in Requests, Others(r), GrantsGoOn, account' => account,
           account' => \A g \in Active' :
               g \notin Active \/ g \in Holds(request[r]) \/ (connection # None /\ g = connection.grant) =>
                   g \in Holds(request[r])' \cup unanswered' \cup (IF connection' = None THEN {} ELSE {connection'.grant})
    PROVE  NoGrantIsLeft'
<1> SUFFICES ASSUME account', NEW g \in Active'
             PROVE  g \in unanswered' \cup Held' \cup (IF connection' = None THEN {} ELSE {connection'.grant})
  BY DEF NoGrantIsLeft
<1>1. Holds(request[r])' \subseteq Held'
  BY DEF Held
<1>2. CASE g \notin Active \/ g \in Holds(request[r]) \/ (connection # None /\ g = connection.grant)
  BY <1>1, <1>2
<1>3. CASE g \in Active /\ g \notin Holds(request[r]) /\ ~(connection # None /\ g = connection.grant)
  <2>1. g \in unanswered \cup Held
    BY <1>3 DEF NoGrantIsLeft
  <2>2. ASSUME NEW p \in Requests, g \in Holds(request[p])
        PROVE  g \in Held'
    <3>1. p # r
      BY <1>3, <2>2
    <3>2. Holds(request[p])' = Holds(request[p])
      BY <3>1 DEF Others, Holds
    <3> QED
      BY <2>2, <3>2 DEF Held
  <2> QED
    BY <2>1, <2>2 DEF Held, GrantsGoOn
<1> QED
  BY <1>2, <1>3

(* A step of one request to where it holds nothing that matters.           *)
QuietStages == {"idle", "access", "call", "status", "link", "client", "register", "pend", "exchange",
                "done", "unlock", "delete", "gone"}

Quiet(r) ==
    /\ Others(r) /\ request'[r].at \in QuietStages
    /\ GrantsGoOn /\ SameTurns /\ Active' \subseteq Active \cup unanswered' /\ reused' = reused
    /\ SameToken /\ (account' => account)
    /\ lock' = lock \/ lock \in {None, r}
    /\ request'[r].at \in {"done", "unlock", "delete"} => lock' = r
    /\ request'[r].at = "delete" /\ connection' # None => connection'.grant \notin Active' \ unanswered'
    /\ \A g \in Holds(request[r]) :
          \/ g \in unanswered'
          \/ request[r].at = "end" /\ g \notin Active'
          \/ request[r].at = "store" /\ ~account'
    /\ connection # None /\ connection' = None /\ account' => connection.grant \notin Active' \ unanswered'

LEMMA QuietMoves ==
    ASSUME MaskedIInv, MaskedTypeOK', NEW r \in Requests, Quiet(r)
    PROVE  MaskedIInv'
<1> USE DEF MaskedIInv, MaskedInv
<1>1. LockInv'
  BY LockMoves DEF Quiet, QuietStages, Locking
<1>2. RefreshInv'
  BY RefreshMoves DEF Quiet, QuietStages
<1>3. NewInv'
  BY NewMoves DEF Quiet, QuietStages, SameToken
<1>4. ConnectionInv'
  <2>1. ASSUME request[r].at = "keep", request[r].said = "token", connection' # None
        PROVE  InStep(connection.grant, connection.turn)'
    <3>1. connection # None /\ connection'.grant = connection.grant /\ connection'.turn = connection.turn
      BY <2>1 DEF Quiet, SameToken, SameGrant
    <3>2. HasToken(request[r]) /\ request[r].token.grant \in unanswered'
      BY <2>1 DEF RefreshInv, Holds, Quiet
    <3>3. connection.grant \in unanswered' /\ connection.grant \in DOMAIN grants
      BY <3>1, <3>2 DEF HasToken, InStep, Token
    <3> QED
      BY <3>1, <3>3 DEF InStep, Quiet, GrantsGoOn
  <2> QED
    BY <2>1, ConnectionMoves DEF Quiet
<1>5. EndInv'
  BY EndMoves DEF Quiet, QuietStages, EndsWell, SameToken
<1>6. NoOldToken'
  BY DEF NoOldToken, Quiet, GrantsGoOn
<1>7. NoGrantIsLeft'
  <2>1. connection # None /\ connection' # None => connection'.grant = connection.grant
    BY DEF Quiet, SameToken, SameGrant
  <2> QED
    BY <2>1, LeftMoves DEF Quiet
<1> QED
  BY <1>1, <1>2, <1>3, <1>4, <1>5, <1>6, <1>7

LEMMA DoesMoves ==
    ASSUME request \in [Requests -> MaskedRequest], NEW r \in Requests, NEW q, Does(r, q)
    PROVE  request'[r] = q /\ Others(r) /\ (q \in MaskedRequest => request' \in [Requests -> MaskedRequest])
BY DEF Does, Others

LEMMA StageTypes ==
    ASSUME NEW q \in MaskedRequest
    PROVE  /\ q.at \in {"access", "refresh", "keep", "call", "status", "link"} => q \in Calling
           /\ q.at \in {"client", "register"} => q \in [at : {"client", "register"}, tab : Nat]
           /\ q.at = "pend" => q \in [at : {"pend"}, tab : [tab : Nat, client : Nat]]
           /\ q.at = "exchange" => q \in [at : {"exchange"}, client : Nat]
           /\ q.at \in {"session", "store"} => q \in [at : {"session", "store"}, grant : Nat]
           /\ q.at \in {"disconnect", "going"} => q \in [at : {"disconnect", "going"}, previous : Connection]
           /\ q.at = "end" => q \in [at : {"end"}, what : {"finish", "disconnect", "going"},
                                     previous : Connection \cup {None}]
BY DEF MaskedRequest, Calling, AnyCall, Ready

LEMMA QuietStep ==
    ASSUME MaskedTypeOK, NEW r \in Requests, NEW q, Does(r, q), q.at \in QuietStages \ {"done", "unlock", "delete"},
           Holds(request[r]) = {}, UNCHANGED <<grants, unanswered, reused, account>>,
           lock' = lock \/ lock \in {None, r}, SameToken, connection' = None => connection = None
    PROVE  Quiet(r)
<1>1. request'[r] = q /\ Others(r)
  BY DoesMoves DEF MaskedTypeOK
<1>2. GrantsGoOn /\ SameTurns /\ Active' = Active
  BY DEF GrantsGoOn, SameTurns, Active
<1> QED
  BY <1>1, <1>2 DEF Quiet

(* Nothing but requests, what was asked for, and what goes wrong.          *)
LEMMA OnlyRequests ==
    ASSUME MaskedIInv, NEW r \in Requests, NEW q \in MaskedRequest, Does(r, q),
           q.at \in QuietStages \ {"done", "unlock", "delete"}, Holds(request[r]) = {}, asked' \in Nat,
           UNCHANGED <<allowed, store, pending, backingOff, codes, uwumail, unanswered>>,
           lock' = lock \/ (lock \in {None, r} /\ lock' \in {None, r})
    PROVE  MaskedIInv'
<1>1. Quiet(r)
  BY QuietStep DEF MaskedIInv, store, uwumail, SameToken, SameGrant
<1>2. MaskedTypeOK'
  BY DoesMoves DEF MaskedIInv, MaskedTypeOK, store, uwumail
<1> QED
  BY <1>1, <1>2, QuietMoves

LEMMA MaskedAsking ==
    ASSUME MaskedIInv, NEW r \in Requests,
           CreateAddress(r) \/ Generate(r) \/ Change(r) \/ Connect(r)
    PROVE  MaskedIInv'
<1>1. request[r] = Ready /\ asked \in Nat /\ addresses \in Seq(Mailboxes) /\ asked' \in Nat
      /\ UNCHANGED <<allowed, store, pending, backingOff, codes, uwumail, unanswered, lock>>
  BY DEF MaskedIInv, MaskedTypeOK, CreateAddress, Generate, Change, Connect, AsksOf, Asks
<1>2. Holds(request[r]) = {}
  BY <1>1 DEF Holds, Ready
<1>3. ASSUME NEW what \in {"create", "change"}, NEW item \in ItemIds \cup {None}, NEW address \in Nat \cup {None},
             Calls(r, what, item, address)
      PROVE  MaskedIInv'
  <2> DEFINE q == [at |-> "access", what |-> what, item |-> item, address |-> address,
                   token |-> None, stale |-> None, said |-> None]
  <2>1. q \in MaskedRequest /\ q.at = "access" /\ Does(r, q)
    BY <1>3 DEF MaskedRequest, Calling, AnyCall, Calls
  <2> HIDE DEF q
  <2> QED
    BY <1>1, <1>2, <2>1, OnlyRequests DEF QuietStages
<1>4. CASE CreateAddress(r)
  BY <1>3, <1>4 DEF CreateAddress
<1>5. CASE Generate(r)
  BY <1>3, <1>5 DEF Generate
<1>6. CASE Change(r)
  <2>1. DOMAIN addresses \subseteq Nat
    BY <1>1
  <2> QED
    BY <1>3, <1>6, <2>1 DEF Change
<1>7. CASE Connect(r)
  <2> DEFINE q == [at |-> "client", tab |-> asked + 1]
  <2>1. q \in MaskedRequest /\ q.at = "client" /\ Does(r, q)
    BY <1>1, <1>7 DEF MaskedRequest, Connect
  <2> HIDE DEF q
  <2> QED
    BY <1>1, <1>2, <2>1, OnlyRequests DEF QuietStages
<1> QED
  BY <1>4, <1>5, <1>6, <1>7

LEMMA MaskedAccess ==
    ASSUME MaskedIInv, NEW r \in Requests, Access(r)
    PROVE  MaskedIInv'
<1> DEFINE q == request[r]
           t == Token(connection)
<1>1. q \in Calling /\ request \in [Requests -> MaskedRequest] /\ q.at = "access" /\ lock = None /\ asked \in Nat
      /\ UNCHANGED <<asked, allowed, store, pending, backingOff, codes, uwumail, unanswered>>
  BY StageTypes DEF MaskedIInv, MaskedTypeOK, Access, bounds
<1>2. Holds(request[r]) = {}
  BY <1>1 DEF Holds
<1>3. CASE Does(r, Ready) /\ UNCHANGED lock
  <2>1. Ready \in MaskedRequest /\ Ready.at = "idle"
    BY DEF MaskedRequest, Ready
  <2> QED
    BY <1>1, <1>2, <1>3, <2>1, OnlyRequests DEF QuietStages
<1>4. ASSUME Usable
      PROVE  t \in Tokens /\ connection # None
  BY <1>4 DEF Usable, MaskedIInv, MaskedTypeOK, Token, Tokens, Connection
<1>5. ASSUME Usable, Does(r, [q EXCEPT !.at = "call", !.token = t]), UNCHANGED lock
      PROVE  MaskedIInv'
  <2> HIDE DEF q, t
  <2> DEFINE new == [q EXCEPT !.at = "call", !.token = t]
  <2>1. new \in AnyCall /\ new.at = "call"
    BY <1>1, <1>4, <1>5 DEF Calling, AnyCall
  <2>2. new \in MaskedRequest
    BY <2>1 DEF MaskedRequest, Calling
  <2> HIDE DEF new
  <2> QED
    BY <1>1, <1>2, <1>5, <2>1, <2>2, OnlyRequests DEF QuietStages, new
<1>6. ASSUME Usable, Does(r, [q EXCEPT !.at = "refresh", !.token = t]), lock' = r
      PROVE  MaskedIInv'
  <2>1. t \in Tokens /\ connection # None /\ t.grant = connection.grant /\ t.turn = connection.turn
    BY <1>4, <1>6 DEF Token
  <2> HIDE DEF q, t
  <2> DEFINE new == [q EXCEPT !.at = "refresh", !.token = t]
  <2>2. new \in MaskedRequest /\ new.at = "refresh" /\ new.token = t
    <3>1. new \in AnyCall /\ new.at = "refresh" /\ new.token = t
      BY <1>1, <2>1 DEF Calling, AnyCall
    <3> QED
      BY <3>1 DEF MaskedRequest, Calling
  <2> HIDE DEF new
  <2>3. request'[r] = new /\ Others(r) /\ request' \in [Requests -> MaskedRequest]
    BY <1>1, <1>6, <2>2, DoesMoves DEF new
  <2>4. GrantsGoOn /\ SameTurns /\ SameToken /\ SameGrant /\ Active' = Active
    BY <1>1 DEF GrantsGoOn, SameTurns, SameToken, SameGrant, Active, store, uwumail
  <2>5. MaskedTypeOK'
    BY <1>1, <1>6, <2>3 DEF MaskedIInv, MaskedTypeOK, store, uwumail
  <2>6. LockInv'
    BY <1>1, <1>6, <2>3, LockMoves DEF MaskedIInv
  <2>7. InStep(t.grant, t.turn)
    <3>1. ~\E p \in Requests : request[p].at = "keep"
      BY <1>1, MaskedNone DEF MaskedIInv, LockInv, Locking
    <3> QED
      BY <2>1, <3>1 DEF MaskedIInv, ConnectionInv
  <2>8. RefreshInv'
    <3>1. new \in Tokens \cup MaskedRequest /\ new.token.grant = connection.grant /\ new.token.turn = connection.turn
          /\ new.token # None
      BY <2>1, <2>2, MaskedNone
    <3>2. InStep(connection.grant, connection.turn)'
      BY <1>1, <2>1, <2>7 DEF InStep, uwumail, store
    <3>3. connection' = connection /\ new.token = Token(connection)
      BY <1>1, <2>2 DEF t, store
    <3>4. HasToken(request[r])'
      BY <2>2, <2>3, <3>1, <3>2, <3>3 DEF HasToken, Token, InStep
    <3> QED
      BY <2>3, <2>4, <3>4, RefreshMoves DEF MaskedIInv
  <2>9. NewInv'
    <3>1. ASSUME NEW p \in Requests, request[p].at \in {"session", "store"}
          PROVE  request'[r].token.grant # request[p].grant
      BY <2>1, <2>2, <2>3, <3>1 DEF MaskedIInv, NewInv, NewGrant
    <3> QED
      BY <2>2, <2>3, <2>4, <3>1, NewMoves DEF MaskedIInv
  <2>10. ConnectionInv'
    BY <1>1, <2>3, <2>4, ConnectionMoves DEF MaskedIInv, q
  <2>11. EndInv'
    BY <2>2, <2>3, <2>4, EndMoves DEF MaskedIInv, EndsWell
  <2>12. NoOldToken' /\ NoGrantIsLeft'
    <3>1. NoOldToken'
      BY <1>1 DEF MaskedIInv, MaskedInv, NoOldToken, uwumail
    <3>2. NoGrantIsLeft'
      BY <1>1, <1>2, <2>3, <2>4, LeftMoves DEF MaskedIInv, MaskedInv, store, SameGrant
    <3> QED
      BY <3>1, <3>2
  <2> QED
    BY <2>5, <2>6, <2>8, <2>9, <2>10, <2>11, <2>12 DEF MaskedIInv, MaskedInv
<1> QED
  BY <1>3, <1>5, <1>6 DEF Access

(* The stages of a call to UwUMail's mail interface.                       *)
LEMMA MaskedCalls ==
    ASSUME MaskedIInv, NEW r \in Requests, Call(r) \/ Status(r) \/ Link(r)
    PROVE  MaskedIInv'
<1> DEFINE q == request[r]
<1>1. q \in Calling /\ request \in [Requests -> MaskedRequest] /\ q.at \in {"call", "status", "link"} /\ MaskedTypeOK
      /\ UNCHANGED <<asked, allowed, account, client, pending, backingOff, codes, lock, grants, clients, reused, unanswered>>
  BY StageTypes DEF MaskedIInv, MaskedTypeOK, Call, Status, Link, bounds, uwumail, store
<1>2. Holds(request[r]) = {}
  BY <1>1 DEF Holds
<1>3. /\ connection' \in Connection \cup {None} /\ SameToken /\ (connection' = None => connection = None)
  <2>1. CASE connection' = connection
    BY <1>1, <2>1 DEF SameToken, SameGrant, MaskedTypeOK
  <2>2. ASSUME NEW status \in {"ok", "revoked", "unreachable"}, MarkedAs(status), connection # None
        PROVE  /\ connection' \in Connection \cup {None} /\ SameToken /\ (connection' = None => connection = None)
    <3>1. connection \in Connection /\ connection' = [connection EXCEPT !.status = status]
      BY <1>1, <2>2 DEF MaskedTypeOK, MarkedAs
    <3>2. connection' \in Connection /\ connection'.grant = connection.grant /\ connection'.turn = connection.turn
      BY <3>1 DEF Connection
    <3> QED
      BY <2>2, <3>2, MaskedNone DEF SameToken, SameGrant
  <2>3. CASE Call(r) \/ Link(r)
    BY <2>1, <2>3 DEF Call, Link, store
  <2>4. CASE Status(r) /\ connection # None
    <3>1. q.said = "notFound" \/ MarkedAs(q.said)
      BY <2>4 DEF Status
    <3>2. q.said = "notFound" => connection' = connection
      BY <2>4 DEF Status
    <3> QED
      BY <1>1, <2>1, <2>2, <2>4, <3>1, <3>2 DEF Status, Calling
  <2>5. CASE Status(r) /\ connection = None
    BY <2>1, <2>5 DEF Status, MarkedAs
  <2> QED
    BY <1>1, <2>3, <2>4, <2>5
<1>4. addresses' \in Seq(Mailboxes) /\ Len(addresses) + 1 \in Nat
  <2>1. grants \in Seq(Grant) /\ addresses \in Seq(Mailboxes)
    BY <1>1 DEF MaskedTypeOK
  <2>2. ASSUME Takes(q.token)
        PROVE  grants[q.token.grant].mailbox \in Mailboxes
    <3> DEFINE g == q.token.grant
    <3> HIDE DEF g
    <3>1. q.token.grant \in DOMAIN grants
      BY <2>2 DEF Takes, Active
    <3>2. \A i \in DOMAIN grants : grants[i] \in Grant
      BY <2>1
    <3> QED
      BY <3>1, <3>2 DEF Grant
  <2>3. CASE Call(r) /\ addresses' # addresses
    <3>1. Takes(q.token) /\ addresses' = Append(addresses, grants[q.token.grant].mailbox)
      BY <2>3 DEF Call
    <3> QED
      BY <2>1, <2>2, <3>1
  <2> QED
    BY <1>1, <2>1, <2>3 DEF Status, Link, uwumail
<1>5. links' \subseteq [address : Nat \cup {None}, item : ItemIds]
  <2>1. links \subseteq [address : Nat \cup {None}, item : ItemIds] /\ q.address \in Nat \cup {None}
        /\ q.item \in ItemIds \cup {None}
    BY <1>1 DEF MaskedTypeOK, Calling, AnyCall
  <2>2. CASE Link(r)
    BY <2>1, <2>2 DEF Link
  <2>3. CASE Call(r) \/ Status(r)
    BY <2>1, <2>3 DEF Call, Status, store
  <2> QED
    BY <2>2, <2>3
<1>6. ASSUME NEW new \in MaskedRequest, Does(r, new), new.at \in {"idle", "access", "status", "link"}
      PROVE  MaskedIInv'
  <2>1. request' \in [Requests -> MaskedRequest]
    BY <1>1, <1>6, DoesMoves
  <2>2. MaskedTypeOK'
    BY <1>1, <1>3, <1>4, <1>5, <2>1 DEF MaskedTypeOK
  <2>3. Quiet(r)
    BY <1>1, <1>2, <1>3, <1>6, QuietStep DEF QuietStages
  <2> QED
    BY <2>2, <2>3, QuietMoves
<1>7. Ready \in MaskedRequest /\ Ready.at = "idle"
  BY DEF MaskedRequest, Ready
<1>8. CASE Call(r)
  <2> HIDE DEF q
  <2>1. ASSUME NEW what \in {"ok", "notFound", "revoked", "unreachable"}, NEW a \in Nat \cup {None},
               Does(r, [q EXCEPT !.at = "status", !.said = what, !.address = a])
        PROVE  MaskedIInv'
    <3> DEFINE new == [q EXCEPT !.at = "status", !.said = what, !.address = a]
    <3>1. new \in MaskedRequest /\ new.at = "status"
      <4>1. what \in Says \cup {None} /\ q \in AnyCall
        BY <1>1 DEF Says, Calling
      <4>2. new \in AnyCall /\ new.at = "status" /\ new.said = what
        BY <4>1 DEF AnyCall
      <4> QED
        BY <4>2 DEF MaskedRequest, Calling
    <3> HIDE DEF new
    <3> QED
      BY <1>6, <2>1, <3>1 DEF new
  <2>2. ASSUME NEW what \in {"ok", "notFound", "revoked", "unreachable"}, Does(r, [q EXCEPT !.at = "status", !.said = what])
        PROVE  MaskedIInv'
    <3>1. q.address \in Nat \cup {None} /\ [q EXCEPT !.at = "status", !.said = what, !.address = q.address]
                                         = [q EXCEPT !.at = "status", !.said = what]
      BY <1>1 DEF Calling, AnyCall
    <3> QED
      BY <2>1, <2>2, <3>1
  <2>3. ASSUME Does(r, [q EXCEPT !.at = "access", !.stale = q.token])
        PROVE  MaskedIInv'
    <3> DEFINE new == [q EXCEPT !.at = "access", !.stale = q.token]
    <3>1. new \in MaskedRequest /\ new.at = "access"
      <4>1. new \in AnyCall /\ new.at = "access"
        BY <1>1 DEF Calling, AnyCall
      <4> QED
        BY <4>1 DEF MaskedRequest, Calling
    <3> HIDE DEF new
    <3> QED
      BY <1>6, <2>3, <3>1 DEF new
  <2> QED
    BY <1>4, <1>8, <2>1, <2>2, <2>3 DEF Call, q
<1>9. CASE Status(r)
  <2> DEFINE new == [q EXCEPT !.at = "link"]
  <2>1. new \in MaskedRequest /\ new.at = "link"
    <3> HIDE DEF q
    <3> QED
      BY <1>1 DEF MaskedRequest, Calling, AnyCall
  <2>2. Does(r, new) \/ Does(r, Ready)
    BY <1>9 DEF Status
  <2> HIDE DEF new
  <2> QED
    BY <1>6, <1>7, <2>1, <2>2
<1>10. CASE Link(r)
  BY <1>6, <1>7, <1>10 DEF Link
<1> QED
  BY <1>8, <1>9, <1>10

LEMMA QuietFinish ==
    ASSUME MaskedIInv, NEW r \in Requests, NEW q \in MaskedRequest, Does(r, q),
           q.at \in QuietStages \ {"done", "unlock", "delete"}, Holds(request[r]) = {},
           UNCHANGED <<allowed, account, connection, links, lock, grants, addresses, reused, unanswered>>,
           asked' \in Nat, backingOff' \in BOOLEAN, codes' \in Nat, client' \in Client \cup {None},
           clients' \subseteq Nat, pending' \subseteq [tab : Nat, client : Nat]
    PROVE  MaskedIInv'
<1>1. Quiet(r)
  BY QuietStep DEF MaskedIInv, SameToken, SameGrant
<1>2. MaskedTypeOK'
  BY DoesMoves DEF MaskedIInv, MaskedTypeOK
<1> QED
  BY <1>1, <1>2, QuietMoves

LEMMA MaskedConnecting ==
    ASSUME MaskedIInv, NEW r \in Requests, ClientAt(r) \/ Register(r) \/ Pend(r) \/ Callback(r)
    PROVE  MaskedIInv'
<1> DEFINE q == request[r]
<1>1. /\ request \in [Requests -> MaskedRequest] /\ q \in MaskedRequest /\ asked \in Nat /\ backingOff \in BOOLEAN
      /\ codes \in Nat /\ client \in Client \cup {None} /\ clients \subseteq Nat
      /\ pending \subseteq [tab : Nat, client : Nat]
  BY DEF MaskedIInv, MaskedTypeOK
<1>2. /\ UNCHANGED <<allowed, account, connection, links, lock, grants, addresses, reused, unanswered>>
      /\ q.at \in {"client", "register", "pend", "idle"} /\ asked' \in Nat
  BY <1>1 DEF ClientAt, Register, Pend, Callback, store, uwumail, bounds, AsksOf, Asks, Ready
<1>3. Holds(q) = {}
  BY <1>2 DEF Holds
<1>4. Ready \in MaskedRequest /\ Ready.at = "idle"
  BY DEF MaskedRequest, Ready
<1>5. ASSUME NEW tab \in [tab : Nat, client : Nat], Does(r, [at |-> "pend", tab |-> tab]),
             client' \in Client \cup {None}, clients' \subseteq Nat, UNCHANGED <<backingOff, codes, pending>>
      PROVE  MaskedIInv'
  <2> DEFINE new == [at |-> "pend", tab |-> tab]
  <2>1. new \in MaskedRequest /\ new.at = "pend"
    BY DEF MaskedRequest
  <2> HIDE DEF new
  <2> QED
    BY <1>1, <1>2, <1>3, <1>5, <2>1, QuietFinish DEF QuietStages, new
<1>6. CASE ClientAt(r)
  <2>1. q \in [at : {"client", "register"}, tab : Nat] /\ q.at = "client"
    BY <1>1, <1>6, StageTypes DEF ClientAt
  <2>2. ASSUME NEW id \in Nat, Does(r, [at |-> "pend", tab |-> [tab |-> q.tab, client |-> id]]),
               client' \in Client \cup {None}
        PROVE  MaskedIInv'
    <3>1. [tab |-> q.tab, client |-> id] \in [tab : Nat, client : Nat]
      BY <2>1
    <3> QED
      BY <1>1, <1>5, <1>6, <2>2, <3>1 DEF ClientAt, uwumail
  <2>3. ASSUME Does(r, [q EXCEPT !.at = "register"]), UNCHANGED client
        PROVE  MaskedIInv'
    <3> DEFINE new == [q EXCEPT !.at = "register"]
    <3>1. new \in MaskedRequest /\ new.at = "register"
      <4> HIDE DEF q
      <4> QED
        BY <2>1 DEF MaskedRequest
    <3> HIDE DEF new
    <3> QED
      BY <1>1, <1>2, <1>3, <1>6, <2>3, <3>1, QuietFinish DEF QuietStages, new, ClientAt, uwumail
  <2>4. client # None => client.id \in Nat /\ [client EXCEPT !.aged = FALSE] \in Client
    BY <1>1 DEF Client
  <2> QED
    BY <1>1, <1>6, <2>2, <2>3, <2>4 DEF ClientAt
<1>7. CASE Register(r)
  <2>1. q.tab \in Nat
    BY <1>1, <1>7, StageTypes DEF Register
  <2>2. /\ Does(r, [at |-> "pend", tab |-> [tab |-> q.tab, client |-> q.tab]])
        /\ clients' = clients \cup {q.tab} /\ client' = [id |-> q.tab, aged |-> FALSE]
        /\ UNCHANGED <<backingOff, codes, pending>>
    BY <1>7 DEF Register
  <2>3. client' \in Client /\ clients' \subseteq Nat /\ [tab |-> q.tab, client |-> q.tab] \in [tab : Nat, client : Nat]
    BY <1>1, <2>1, <2>2 DEF Client
  <2> QED
    BY <1>5, <2>2, <2>3
<1>8. CASE Pend(r)
  <2>1. q.tab \in [tab : Nat, client : Nat]
    BY <1>1, <1>8, StageTypes DEF Pend
  <2>2. pending' \subseteq [tab : Nat, client : Nat] /\ UNCHANGED <<backingOff, codes, client, clients>> /\ Does(r, Ready)
    BY <1>1, <1>8, <2>1 DEF Pend, store, uwumail
  <2> QED
    BY <1>1, <1>2, <1>3, <1>4, <2>2, QuietFinish DEF QuietStages
<1>9. CASE Callback(r)
  <2>1. PICK p \in pending :
          /\ pending' = pending \ {p}
          /\ \/ Does(r, Ready) /\ UNCHANGED codes
             \/ /\ ~backingOff /\ codes > 0 /\ codes' = codes - 1
                /\ Does(r, [at |-> "exchange", client |-> p.client])
    BY <1>9 DEF Callback
  <2>2. pending' \subseteq [tab : Nat, client : Nat] /\ UNCHANGED <<backingOff, client, clients>> /\ codes' \in Nat
    BY <1>1, <1>9, <2>1 DEF Callback, store, uwumail
  <2>3. CASE Does(r, Ready)
    BY <1>1, <1>2, <1>3, <1>4, <2>2, <2>3, QuietFinish DEF QuietStages
  <2>4. CASE Does(r, [at |-> "exchange", client |-> p.client])
    <3> DEFINE new == [at |-> "exchange", client |-> p.client]
    <3>1. new \in MaskedRequest /\ new.at = "exchange"
      BY <1>1, <2>1 DEF MaskedRequest
    <3> HIDE DEF new
    <3> QED
      BY <1>1, <1>2, <1>3, <2>2, <2>4, <3>1, QuietFinish DEF QuietStages, new
  <2> QED
    BY <2>1, <2>3, <2>4
<1> QED
  BY <1>6, <1>7, <1>8, <1>9

(* A new grant: the request that asked for it holds it, or it is lost.     *)
LEMMA MaskedExchange ==
    ASSUME MaskedIInv, NEW r \in Requests, Exchange(r)
    PROVE  MaskedIInv'
<1> DEFINE q == request[r]
           n == Len(grants) + 1
<1>1. /\ request \in [Requests -> MaskedRequest] /\ q \in [at : {"exchange"}, client : Nat] /\ MaskedTypeOK
      /\ UNCHANGED <<asked, allowed, account, connection, links, pending, codes, lock, clients, addresses, reused>>
  BY StageTypes DEF MaskedIInv, MaskedTypeOK, Exchange
<1>2. Holds(q) = {} /\ grants \in Seq(Grant) /\ DOMAIN grants = 1 .. Len(grants) /\ Len(grants) \in Nat
  BY <1>1 DEF Holds, MaskedTypeOK
<1>3. Ready \in MaskedRequest /\ Ready.at = "idle"
  BY DEF MaskedRequest, Ready
<1>4. CASE UNCHANGED <<grants, unanswered>> /\ Does(r, Ready)
  <2>1. client' \in Client \cup {None} /\ backingOff' \in BOOLEAN
    BY <1>1, <1>4 DEF Exchange, ForgottenClient, MaskedTypeOK
  <2> QED
    BY <1>1, <1>2, <1>3, <1>4, <2>1, QuietFinish DEF QuietStages, MaskedTypeOK
<1>5. ASSUME NEW m \in Mailboxes,
             grants' = Append(grants, [client |-> q.client, mailbox |-> m, turn |-> 1, out |-> 0, ended |-> FALSE])
      PROVE  /\ grants' \in Seq(Grant) /\ DOMAIN grants' = DOMAIN grants \cup {n} /\ n \notin DOMAIN grants
             /\ GrantsGoOn = (unanswered \subseteq unanswered') /\ SameTurns
             /\ Active' = Active \cup {n} /\ grants'[n].turn = 1
  <2> DEFINE g == [client |-> q.client, mailbox |-> m, turn |-> 1, out |-> 0, ended |-> FALSE]
  <2>1. g \in Grant /\ g.turn = 1 /\ ~g.ended
    BY <1>1 DEF Grant
  <2> HIDE DEF g
  <2>2. grants' = Append(grants, g)
    BY <1>5 DEF g
  <2>3. /\ grants' \in Seq(Grant) /\ DOMAIN grants' = DOMAIN grants \cup {n} /\ n \notin DOMAIN grants
        /\ \A i \in DOMAIN grants : grants'[i] = grants[i]
        /\ grants'[n] = g
    BY <1>2, <2>1, <2>2
  <2> HIDE DEF n
  <2> QED
    BY <2>1, <2>3 DEF GrantsGoOn, SameTurns, Active
<1> HIDE DEF q, n
<1>6. ASSUME NEW m \in Mailboxes, Does(r, Ready), unanswered' = unanswered \cup {n}, UNCHANGED <<client, backingOff>>,
             grants' = Append(grants, [client |-> q.client, mailbox |-> m, turn |-> 1, out |-> 0, ended |-> FALSE])
      PROVE  MaskedIInv'
  <2>1. request'[r] = Ready /\ Others(r) /\ request' \in [Requests -> MaskedRequest]
    BY <1>1, <1>3, <1>6, DoesMoves
  <2>2. MaskedTypeOK'
    <3>1. grants' \in Seq(Grant)
      BY <1>5, <1>6
    <3>2. unanswered' \subseteq Nat
      <4>1. n \in Nat
        BY <1>2 DEF n
      <4>2. unanswered \subseteq Nat
        BY <1>1 DEF MaskedTypeOK
      <4> QED
        BY <1>6, <4>1, <4>2
    <3> QED
      BY <1>1, <1>6, <2>1, <3>1, <3>2 DEF MaskedTypeOK
  <2>3. Quiet(r)
    BY <1>1, <1>2, <1>3, <1>5, <1>6, <2>1 DEF Quiet, QuietStages, SameToken, SameGrant, q
  <2> QED
    BY <2>2, <2>3, QuietMoves
<1>7. ASSUME NEW m \in Mailboxes, Does(r, [at |-> "session", grant |-> n]),
             UNCHANGED <<client, backingOff, unanswered>>,
             grants' = Append(grants, [client |-> q.client, mailbox |-> m, turn |-> 1, out |-> 0, ended |-> FALSE])
      PROVE  MaskedIInv'
  <2> DEFINE new == [at |-> "session", grant |-> n]
  <2>1. new \in MaskedRequest /\ new.at = "session" /\ new.grant = n
    BY <1>2 DEF MaskedRequest, n
  <2> HIDE DEF new
  <2>2. request'[r] = new /\ Others(r) /\ request' \in [Requests -> MaskedRequest]
    BY <1>1, <1>7, <2>1, DoesMoves DEF new
  <2>3. GrantsGoOn /\ SameTurns /\ SameToken /\ SameGrant
    BY <1>1, <1>5, <1>7 DEF SameToken, SameGrant
  <2>4. MaskedTypeOK'
    BY <1>1, <1>5, <1>7, <2>2 DEF MaskedTypeOK
  <2>5. LockInv'
    BY <1>1, <2>1, <2>2, LockMoves DEF MaskedIInv, Locking
  <2>6. RefreshInv'
    BY <2>1, <2>2, <2>3, RefreshMoves DEF MaskedIInv
  <2>7. ConnectionInv'
    BY <1>1, <2>2, <2>3, ConnectionMoves DEF MaskedIInv, q
  <2>8. ASSUME NEW p \in Requests
        PROVE  /\ request[p].at \in {"refresh", "keep"} => request[p].token.grant # n
               /\ request[p].at \in {"session", "store"} => request[p].grant # n
    BY <1>5, <1>7 DEF MaskedIInv, RefreshInv, HasToken, NewInv, NewGrant, InStep
  <2>9. connection # None => connection.grant # n
    BY <1>5, <1>7, ConnectionGrant DEF MaskedIInv
  <2>10. NewInv'
    <3>1. NewGrant(r)'
      BY <1>1, <1>5, <1>7, <2>1, <2>2, <2>8, <2>9 DEF NewGrant, InStep, Others
    <3> QED
      BY <2>1, <2>2, <2>3, <2>8, <3>1, NewMoves DEF MaskedIInv
  <2>11. EndInv'
    BY <2>1, <2>2, <2>3, EndMoves DEF MaskedIInv, EndsWell
  <2>12. NoOldToken'
    BY <1>1, <1>7 DEF MaskedIInv, MaskedInv, NoOldToken
  <2>13. NoGrantIsLeft'
    <3>1. Holds(request[r])' = {n}
      BY <2>1, <2>2 DEF Holds
    <3> QED
      BY <1>1, <1>2, <1>5, <1>7, <2>2, <2>3, <3>1, LeftMoves DEF MaskedIInv, MaskedInv, q
  <2> QED
    BY <2>4, <2>5, <2>6, <2>7, <2>10, <2>11, <2>12, <2>13 DEF MaskedIInv, MaskedInv
<1> QED
  BY <1>4, <1>6, <1>7 DEF Exchange, q, n

(* The grant goes on to be stored, or is given up.                         *)
LEMMA MaskedSession ==
    ASSUME MaskedIInv, NEW r \in Requests, Session(r)
    PROVE  MaskedIInv'
<1> DEFINE q == request[r]
<1>1. /\ request \in [Requests -> MaskedRequest] /\ q \in [at : {"session", "store"}, grant : Nat] /\ q.at = "session"
      /\ UNCHANGED <<asked, allowed, store, pending, backingOff, codes, lock, uwumail>> /\ MaskedTypeOK
  BY StageTypes DEF MaskedIInv, MaskedTypeOK, Session
<1>2. Holds(q) = {q.grant}
  BY <1>1 DEF Holds
<1>3. CASE Does(r, Ready) /\ unanswered' = unanswered \cup {q.grant}
  <2>1. request'[r] = Ready /\ Others(r) /\ request' \in [Requests -> MaskedRequest] /\ Ready.at = "idle"
    BY <1>1, <1>3, DoesMoves DEF MaskedRequest, Ready
  <2>2. MaskedTypeOK'
    BY <1>1, <1>3, <2>1 DEF MaskedTypeOK, store, uwumail
  <2>3. Quiet(r)
    BY <1>1, <1>2, <1>3, <2>1
       DEF Quiet, QuietStages, SameToken, SameGrant, GrantsGoOn, SameTurns, Active, store, uwumail
  <2> QED
    BY <2>2, <2>3, QuietMoves
<1>4. CASE Does(r, [q EXCEPT !.at = "store"]) /\ unanswered' = unanswered
  <2> HIDE DEF q
  <2> DEFINE new == [q EXCEPT !.at = "store"]
  <2>1. new \in MaskedRequest /\ new.at = "store" /\ new.grant = q.grant
    BY <1>1 DEF MaskedRequest
  <2> HIDE DEF new
  <2>2. request'[r] = new /\ Others(r) /\ request' \in [Requests -> MaskedRequest]
    BY <1>1, <1>4, <2>1, DoesMoves DEF new
  <2>3. GrantsGoOn /\ SameTurns /\ SameToken /\ SameGrant /\ Active' = Active
    BY <1>1, <1>4 DEF GrantsGoOn, SameTurns, SameToken, SameGrant, Active, store, uwumail
  <2>4. MaskedTypeOK'
    BY <1>1, <1>4, <2>2 DEF MaskedTypeOK, store, uwumail
  <2>5. LockInv'
    BY <1>1, <2>1, <2>2, LockMoves DEF MaskedIInv, Locking
  <2>6. RefreshInv'
    BY <2>1, <2>2, <2>3, RefreshMoves DEF MaskedIInv
  <2>7. ConnectionInv'
    BY <1>1, <2>2, <2>3, ConnectionMoves DEF MaskedIInv, q
  <2>8. NewInv'
    <3>1. NewGrant(r)
      BY <1>1 DEF MaskedIInv, NewInv, q
    <3>2. NewGrant(r)'
      BY <1>1, <1>4, <2>1, <2>2, <3>1 DEF NewGrant, InStep, Others, q, store, uwumail
    <3>3. ASSUME NEW p \in Requests \ {r}, request[p].at \in {"session", "store"}
          PROVE  request'[r].grant # request[p].grant
      BY <2>1, <2>2, <3>1, <3>3 DEF NewGrant, q
    <3> QED
      BY <2>1, <2>2, <2>3, <3>2, <3>3, NewMoves DEF MaskedIInv
  <2>9. EndInv'
    BY <2>1, <2>2, <2>3, EndMoves DEF MaskedIInv, EndsWell
  <2>10. NoOldToken'
    BY <1>1, <1>4 DEF MaskedIInv, MaskedInv, NoOldToken, uwumail
  <2>11. NoGrantIsLeft'
    <3>1. Holds(request[r])' = Holds(request[r])
      BY <1>2, <2>1, <2>2 DEF Holds, q
    <3> QED
      BY <1>1, <1>4, <2>2, <2>3, <3>1, LeftMoves DEF MaskedIInv, MaskedInv, store, SameGrant
  <2> QED
    BY <2>4, <2>5, <2>6, <2>7, <2>8, <2>9, <2>10, <2>11 DEF MaskedIInv, MaskedInv
<1> QED
  BY <1>3, <1>4 DEF Session

(* Whatever UwUMail says, this request knows which token is the newest, or *)
(* the grant is one somebody did not learn of.                             *)
LEMMA MaskedRefresh ==
    ASSUME MaskedIInv, NEW r \in Requests, Refresh(r)
    PROVE  MaskedIInv'
<1>1. PICK q \in Calling : q = request[r] /\ q.at = "refresh"
  BY StageTypes DEF MaskedIInv, MaskedTypeOK, Refresh
<1>2. HasToken(q) /\ lock = r /\ ~\E p \in Requests \ {r} : request[p].at \in Locking
  BY <1>1, MaskedNone DEF MaskedIInv, RefreshInv, LockInv, Locking
<1>3. PICK t \in Tokens : t = q.token
  BY <1>1, <1>2 DEF HasToken, Calling, AnyCall
<1>4. /\ t.grant \in DOMAIN grants /\ t.grant \in Nat /\ t.turn \in Nat
      /\ t.grant \in unanswered \/ grants[t.grant].turn = t.turn
      /\ connection # None => Token(connection) = t
  BY <1>1, <1>2, <1>3 DEF HasToken, InStep, Tokens
<1>5. /\ grants \in Seq(Grant) /\ asked \in Nat /\ unanswered \subseteq Nat /\ reused \subseteq Nat
      /\ reused \subseteq unanswered /\ request \in [Requests -> MaskedRequest]
  BY DEF MaskedIInv, MaskedTypeOK, MaskedInv, NoOldToken
<1>6. UNCHANGED <<asked, allowed, account, connection, links, client, pending, backingOff, codes, lock, clients, addresses>>
  BY DEF Refresh, store
<1>7. grants[t.grant] \in Grant
  BY <1>4, <1>5
<1>8. /\ \/ grants' = grants
         \/ grants' = [grants EXCEPT ![t.grant].turn = t.turn + 1]
         \/ t.grant \in unanswered /\ Ended(t.grant)
      /\ unanswered' \in {unanswered, unanswered \cup {t.grant}}
      /\ reused' = reused \/ (t.grant \in unanswered /\ reused' = reused \cup {t.grant})
      /\ \E what \in Says :
            /\ Does(r, [q EXCEPT !.at = "keep", !.said = what])
            /\ what = "token" => grants' = [grants EXCEPT ![t.grant].turn = t.turn + 1]
            /\ what # "token" /\ t.grant \notin unanswered' => grants' = grants
  BY <1>1, <1>3, <1>4 DEF Refresh, Says
<1>9. PICK what \in Says :
         /\ Does(r, [q EXCEPT !.at = "keep", !.said = what])
         /\ what = "token" => grants' = [grants EXCEPT ![t.grant].turn = t.turn + 1]
         /\ what # "token" /\ t.grant \notin unanswered' => grants' = grants
  BY <1>8
<1>10. /\ grants' \in Seq(Grant) /\ GrantsGoOn /\ Active' \subseteq Active
       /\ \A g \in DOMAIN grants : g # t.grant => grants'[g] = grants[g]
       /\ grants' = [grants EXCEPT ![t.grant].turn = t.turn + 1] => grants'[t.grant].turn = t.turn + 1
  <2>1. CASE grants' = grants
    <3>1. grants' = [grants EXCEPT ![t.grant].turn = t.turn + 1] => grants'[t.grant].turn = t.turn + 1
      BY <1>4, <1>7 DEF Grant
    <3> QED
      BY <1>4, <1>5, <1>8, <2>1, <3>1 DEF GrantsGoOn, Active
  <2>2. ASSUME NEW g \in Grant, grants' = [grants EXCEPT ![t.grant] = g], grants[t.grant].ended => g.ended
        PROVE  /\ grants' \in Seq(Grant) /\ GrantsGoOn /\ Active' \subseteq Active
               /\ \A o \in DOMAIN grants : o # t.grant => grants'[o] = grants[o]
    <3>1. DOMAIN grants' = DOMAIN grants /\ \A o \in DOMAIN grants : grants'[o] = IF o = t.grant THEN g ELSE grants[o]
      BY <1>4, <2>2
    <3>2. grants' \in Seq(Grant)
      BY <1>4, <1>5, <2>2
    <3> QED
      BY <1>4, <1>8, <2>2, <3>1, <3>2 DEF GrantsGoOn, Active
  <2>3. CASE grants' = [grants EXCEPT ![t.grant].turn = t.turn + 1]
    <3>1. PICK g : g = [grants[t.grant] EXCEPT !.turn = t.turn + 1]
      OBVIOUS
    <3>2. g \in Grant /\ g.ended = grants[t.grant].ended /\ g.turn = t.turn + 1
      BY <1>4, <1>7, <3>1 DEF Grant
    <3>3. grants' = [grants EXCEPT ![t.grant] = g]
      BY <2>3, <3>1
    <3> QED
      BY <1>4, <2>2, <3>2, <3>3
  <2>4. CASE Ended(t.grant)
    <3>1. PICK g : g = [grants[t.grant] EXCEPT !.ended = TRUE]
      OBVIOUS
    <3>2. g \in Grant /\ g.ended
      BY <1>7, <3>1 DEF Grant
    <3>3. grants' = [grants EXCEPT ![t.grant] = g]
      BY <2>4, <3>1 DEF Ended
    <3>4. grants' # [grants EXCEPT ![t.grant].turn = t.turn + 1] \/ grants'[t.grant].turn = t.turn + 1
      <4>1. CASE grants' = [grants EXCEPT ![t.grant].turn = t.turn + 1]
        BY <1>4, <1>7, <4>1 DEF Grant
      <4> QED
        BY <4>1
    <3> QED
      BY <2>2, <3>2, <3>3, <3>4
  <2> QED
    BY <1>8, <2>1, <2>3, <2>4
<1>11. PICK new \in MaskedRequest : /\ new = [q EXCEPT !.at = "keep", !.said = what]
                                    /\ new.at = "keep" /\ new.said = what /\ new.token = t
  <2>1. [q EXCEPT !.at = "keep", !.said = what] \in MaskedRequest
    <3>1. PICK new : new = [q EXCEPT !.at = "keep", !.said = what]
      OBVIOUS
    <3>2. new \in AnyCall /\ new.at = "keep"
      BY <1>1, <3>1 DEF Calling, AnyCall
    <3> QED
      BY <3>1, <3>2 DEF MaskedRequest, Calling
  <2> QED
    BY <1>1, <1>3, <2>1 DEF Calling, AnyCall
<1>12. request'[r] = new /\ Others(r) /\ request' \in [Requests -> MaskedRequest]
  BY <1>5, <1>9, <1>11, DoesMoves
<1>13. MaskedTypeOK'
  BY <1>4, <1>5, <1>6, <1>8, <1>10, <1>12 DEF MaskedIInv, MaskedTypeOK
<1>14. LockInv'
  BY <1>2, <1>6, <1>12, LockMoves DEF MaskedIInv
<1>15. InStep(t.grant, IF what = "token" THEN t.turn + 1 ELSE t.turn)'
  BY <1>4, <1>8, <1>9, <1>10 DEF InStep, GrantsGoOn
<1>16. RefreshInv'
  <2>1. t # None /\ (connection' # None => Token(connection)' = t)
    BY <1>3, <1>4, <1>6, MaskedNone DEF Token
  <2>2. HasToken(request[r])'
    BY <1>11, <1>12, <1>15, <2>1 DEF HasToken, InStep
  <2>3. ASSUME NEW p \in Requests, p # r
        PROVE  request'[p].at \notin {"refresh", "keep"}
    BY <1>2, <1>12, <2>3 DEF Others, Locking
  <2> QED
    BY <2>2, <2>3 DEF RefreshInv
<1>17. ConnectionInv'
  <2>1. CASE what = "token"
    BY <1>11, <1>12, <2>1 DEF ConnectionInv
  <2>2. CASE what # "token" /\ connection # None
    <3>1. connection'.grant = t.grant /\ connection'.turn = t.turn
      BY <1>4, <1>6, <2>2 DEF Token
    <3> QED
      BY <1>15, <2>2, <3>1 DEF ConnectionInv, InStep
  <2> QED
    BY <1>6, <2>1, <2>2 DEF ConnectionInv
<1>18. NewInv'
  <2> SUFFICES ASSUME NEW p \in Requests, request'[p].at \in {"session", "store"}
               PROVE  NewGrant(p)'
    BY DEF NewInv
  <2>1. p # r /\ request'[p] = request[p] /\ NewGrant(p)
    BY <1>11, <1>12 DEF MaskedIInv, NewInv, Others
  <2>2. request[p].grant # t.grant
    BY <1>1, <1>3, <2>1 DEF NewGrant
  <2>3. InStep(request[p].grant, 1)'
    BY <1>10, <2>1, <2>2 DEF NewGrant, InStep, GrantsGoOn
  <2> QED
    BY <1>6, <1>11, <1>12, <2>1, <2>2, <2>3 DEF NewGrant, Others
<1>19. EndInv'
  BY <1>6, <1>10, <1>11, <1>12, EndMoves DEF MaskedIInv, EndsWell, SameGrant
<1>20. NoOldToken'
  BY <1>5, <1>8 DEF NoOldToken
<1>21. NoGrantIsLeft'
  BY <1>1, <1>6, <1>10, <1>12, LeftMoves DEF MaskedIInv, MaskedInv, Holds
<1> QED
  BY <1>13, <1>14, <1>16, <1>17, <1>18, <1>19, <1>20, <1>21 DEF MaskedIInv, MaskedInv

LEMMA MarkedMoves ==
    ASSUME connection \in Connection \cup {None}, NEW status \in {"ok", "revoked", "unreachable"}, MarkedAs(status)
    PROVE  /\ connection' \in Connection \cup {None} /\ SameToken /\ (connection' = None => connection = None)
<1>1. CASE connection = None
  BY <1>1 DEF MarkedAs, SameToken, SameGrant
<1>2. CASE connection # None
  <2>1. connection \in Connection /\ connection' = [connection EXCEPT !.status = status]
    BY <1>2 DEF MarkedAs
  <2>2. connection' \in Connection /\ connection'.grant = connection.grant /\ connection'.turn = connection.turn
    BY <2>1 DEF Connection
  <2> QED
    BY <1>2, <2>2, MaskedNone DEF SameToken, SameGrant
<1> QED
  BY <1>1, <1>2

LEMMA SameUwuMail ==
    ASSUME UNCHANGED grants, unanswered \subseteq unanswered'
    PROVE  GrantsGoOn /\ SameTurns /\ Active' = Active
BY DEF GrantsGoOn, SameTurns, Active

(* The new token is kept before anybody else gets to refresh.              *)
LEMMA MaskedKeep ==
    ASSUME MaskedIInv, NEW r \in Requests, KeepTokens(r)
    PROVE  MaskedIInv'
<1>1. PICK q \in Calling : q = request[r] /\ q.at = "keep"
  BY StageTypes DEF MaskedIInv, MaskedTypeOK, KeepTokens
<1>2. HasToken(q) /\ lock = r /\ lock' = None /\ ~\E p \in Requests \ {r} : request[p].at \in Locking
  BY <1>1, MaskedNone DEF MaskedIInv, RefreshInv, LockInv, Locking, KeepTokens
<1>3. PICK t \in Tokens : t = q.token
  BY <1>1, <1>2 DEF HasToken, Calling, AnyCall
<1>4. /\ MaskedTypeOK /\ asked' = asked /\ unanswered' \in {unanswered, unanswered \cup {t.grant}}
      /\ UNCHANGED <<allowed, account, links, pending, codes, uwumail>>
  BY <1>1, <1>3 DEF KeepTokens, MaskedIInv, bounds
<1>5. t.grant \in Nat /\ t.turn \in Nat /\ t.turn + 1 \in Nat
  BY <1>3 DEF Tokens
<1>6. GrantsGoOn /\ SameTurns /\ Active' = Active
  BY <1>4, SameUwuMail DEF uwumail
<1>7. ASSUME Does(r, Ready), SameToken, connection' = None => connection = None,
             q.said = "token" => t.grant \in unanswered', backingOff' \in BOOLEAN,
             connection' \in Connection \cup {None}, client' \in Client \cup {None}
      PROVE  MaskedIInv'
  <2>1. request'[r] = Ready /\ Others(r) /\ request' \in [Requests -> MaskedRequest] /\ Ready.at = "idle"
    BY <1>4, <1>7, DoesMoves DEF MaskedRequest, Ready, MaskedTypeOK
  <2>2. MaskedTypeOK'
    BY <1>2, <1>4, <1>5, <1>7, <2>1 DEF MaskedTypeOK, uwumail
  <2>3. \A g \in Holds(request[r]) : g \in unanswered'
    BY <1>1, <1>3, <1>7 DEF Holds
  <2>4. Quiet(r)
    BY <1>2, <1>4, <1>6, <1>7, <2>1, <2>3 DEF Quiet, QuietStages, uwumail
  <2> QED
    BY <2>2, <2>4, QuietMoves
<1>8. connection \in Connection \cup {None} /\ client \in Client \cup {None} /\ backingOff \in BOOLEAN
  BY <1>4 DEF MaskedTypeOK
<1>9. UNCHANGED connection => SameToken
  BY DEF SameToken, SameGrant
<1>10. CASE q.said = "token" /\ unanswered' = unanswered \cup {t.grant} /\ Does(r, Ready)
            /\ UNCHANGED <<connection, client, backingOff>>
  BY <1>7, <1>8, <1>9, <1>10
<1>11. CASE q.said = "limited" /\ backingOff' = TRUE /\ Does(r, Ready) /\ UNCHANGED <<connection, client, unanswered>>
  BY <1>7, <1>8, <1>9, <1>11
<1>12. CASE q.said = "lost" /\ MarkedAs("unreachable") /\ Does(r, Ready) /\ UNCHANGED <<client, backingOff, unanswered>>
  BY <1>7, <1>8, <1>12, MarkedMoves
<1>13. CASE /\ q.said \in {"invalid_grant", "invalid_client", "invalid_scope"}
            /\ MarkedAs("revoked") /\ Does(r, Ready)
            /\ \/ ForgottenClient(grants[t.grant].client)
               \/ UNCHANGED client
            /\ UNCHANGED <<backingOff, unanswered>>
  <2>1. client' \in Client \cup {None}
    BY <1>8, <1>13 DEF ForgottenClient
  <2> QED
    BY <1>7, <1>8, <1>13, <2>1, MarkedMoves
<1>14. CASE /\ q.said = "token" /\ connection # None /\ Token(connection) = t
            /\ connection' = [connection EXCEPT !.turn = t.turn + 1, !.lasts = TRUE, !.status = "ok"]
            /\ client' = IF client # None /\ client.id = connection.client
                         THEN [client EXCEPT !.aged = FALSE] ELSE client
            /\ Does(r, [q EXCEPT !.at = "call", !.token.turn = t.turn + 1])
            /\ UNCHANGED <<backingOff, unanswered>>
  <2>1. /\ connection' \in Connection /\ connection'.grant = connection.grant /\ connection'.turn = t.turn + 1
        /\ connection.grant = t.grant /\ connection' # None
    <3>1. connection \in Connection
      BY <1>8, <1>14
    <3>2. connection' \in Connection /\ connection'.grant = connection.grant /\ connection'.turn = t.turn + 1
      BY <1>5, <1>14, <3>1 DEF Connection
    <3> QED
      BY <1>14, <3>2, MaskedNone DEF Token
  <2>2. client' \in Client \cup {None}
    BY <1>8, <1>14 DEF Client
  <2>3. PICK u \in Tokens : u = [q.token EXCEPT !.turn = t.turn + 1]
    BY <1>3, <1>5 DEF Tokens
  <2>4. PICK new \in MaskedRequest : new = [q EXCEPT !.at = "call", !.token.turn = t.turn + 1] /\ new.at = "call"
    <3>1. [q EXCEPT !.at = "call", !.token.turn = t.turn + 1] = [q EXCEPT !.at = "call", !.token = u]
      BY <1>1, <2>3 DEF Calling, AnyCall
    <3>2. [q EXCEPT !.at = "call", !.token = u] \in AnyCall
      BY <1>1, <2>3 DEF Calling, AnyCall
    <3>3. [q EXCEPT !.at = "call", !.token = u].at = "call"
      BY <1>1 DEF Calling, AnyCall
    <3> QED
      BY <3>1, <3>2, <3>3 DEF MaskedRequest, Calling
  <2>5. request'[r] = new /\ Others(r) /\ request' \in [Requests -> MaskedRequest]
    BY <1>4, <1>14, <2>4, DoesMoves DEF MaskedTypeOK
  <2>6. MaskedTypeOK'
    BY <1>2, <1>4, <1>14, <2>1, <2>2, <2>5 DEF MaskedTypeOK, uwumail
  <2>7. LockInv'
    BY <1>2, <2>4, <2>5, LockMoves DEF MaskedIInv, Locking
  <2>8. RefreshInv'
    BY <1>2, <2>4, <2>5 DEF RefreshInv, Others, Locking
  <2>9. SameGrant
    BY <1>14, <2>1 DEF SameGrant
  <2>10. ConnectionInv'
    <3>1. InStep(t.grant, t.turn + 1)
      BY <1>1, <1>2, <1>3, <1>14 DEF HasToken
    <3> QED
      BY <1>4, <1>14, <2>1, <3>1 DEF ConnectionInv, InStep, uwumail
  <2>11. NewInv'
    BY <1>6, <2>4, <2>5, <2>9, NewMoves DEF MaskedIInv
  <2>12. EndInv'
    BY <1>6, <2>4, <2>5, <2>9, EndMoves DEF MaskedIInv, EndsWell
  <2>13. NoOldToken'
    BY <1>4, <1>14 DEF MaskedIInv, MaskedInv, NoOldToken, uwumail
  <2>14. NoGrantIsLeft'
    <3>1. Holds(request[r]) = {t.grant}
      BY <1>1, <1>3, <1>14 DEF Holds
    <3> QED
      BY <1>4, <1>6, <2>1, <2>5, <3>1, LeftMoves DEF MaskedIInv, MaskedInv
  <2> QED
    BY <2>6, <2>7, <2>8, <2>10, <2>11, <2>12, <2>13, <2>14 DEF MaskedIInv, MaskedInv
<1> QED
  BY <1>1, <1>3, <1>10, <1>11, <1>12, <1>13, <1>14 DEF KeepTokens

(* The connection a finish stores is the only one that knows its grant;    *)
(* the one before is the request's to end.                                 *)
LEMMA MaskedFinish ==
    ASSUME MaskedIInv, NEW r \in Requests, Finish(r)
    PROVE  MaskedIInv'
<1>1. PICK q \in [at : {"session", "store"}, grant : Nat] : q = request[r] /\ q.at = "store"
  BY StageTypes DEF MaskedIInv, MaskedTypeOK, Finish
<1>2. /\ MaskedTypeOK /\ lock = None /\ NewGrant(r) /\ UNCHANGED <<asked, allowed, pending, backingOff, codes, uwumail, unanswered>>
      /\ ~\E p \in Requests : request[p].at \in Locking
  BY <1>1, MaskedNone DEF MaskedIInv, NewInv, LockInv, Finish, bounds
<1>3. GrantsGoOn /\ SameTurns /\ Active' = Active
  BY <1>2, SameUwuMail DEF uwumail
<1>4. CASE ~account /\ Does(r, Ready) /\ UNCHANGED <<store, lock>>
  <2>1. request'[r] = Ready /\ Others(r) /\ request' \in [Requests -> MaskedRequest] /\ Ready.at = "idle"
    BY <1>2, <1>4, DoesMoves DEF MaskedRequest, Ready, MaskedTypeOK
  <2>2. MaskedTypeOK'
    BY <1>2, <1>4, <2>1 DEF MaskedTypeOK, uwumail, store
  <2>3. Quiet(r)
    BY <1>1, <1>2, <1>3, <1>4, <2>1 DEF Quiet, QuietStages, uwumail, store, SameToken, SameGrant
  <2> QED
    BY <2>2, <2>3, QuietMoves
<1>5. CASE account /\ lock' = r /\ Stored(r, connection)
  <2> DEFINE new == [at |-> "end", what |-> "finish", previous |-> connection]
  <2>1. new \in MaskedRequest /\ new.at = "end" /\ new.what = "finish" /\ new.previous = connection
    BY <1>2 DEF MaskedTypeOK, MaskedRequest
  <2> HIDE DEF new
  <2>2. request'[r] = new /\ Others(r) /\ request' \in [Requests -> MaskedRequest]
    BY <1>2, <1>5, <2>1, DoesMoves DEF MaskedTypeOK, Stored, new
  <2>3. /\ q.grant \in DOMAIN grants
        /\ q.grant \in unanswered \/ grants[q.grant].turn = 1
        /\ connection # None => connection.grant # q.grant
        /\ \A p \in Requests \ {r} : request[p].at \in {"session", "store"} => request[p].grant # q.grant
    BY <1>1, <1>2 DEF NewGrant, InStep
  <2>4. connection' = New(q.grant) /\ connection'.grant = q.grant /\ connection'.turn = 1
        /\ connection' \in Connection /\ connection' # None
    <3>1. grants[q.grant] \in Grant
      <4>1. grants \in Seq(Grant)
        BY <1>2 DEF MaskedTypeOK
      <4> QED
        BY <2>3, <4>1
    <3>2. New(q.grant) \in Connection /\ New(q.grant).grant = q.grant /\ New(q.grant).turn = 1
      BY <1>1, <3>1 DEF New, Connection, Grant
    <3>3. connection' = New(q.grant)
      BY <1>1, <1>5 DEF Stored
    <3> QED
      BY <3>2, <3>3, MaskedNone
  <2>5. MaskedTypeOK'
    <3>1. links' \in {{}, links} /\ account' = account
      BY <1>5 DEF Stored
    <3>2. client' \in Client \cup {None}
      BY <1>2, <1>5 DEF Stored, Client, MaskedTypeOK
    <3> QED
      BY <1>2, <1>5, <2>2, <2>4, <3>1, <3>2 DEF MaskedTypeOK, uwumail
  <2>6. LockInv'
    BY <1>2, <1>5, <2>2, LockMoves DEF MaskedIInv
  <2>7. RefreshInv'
    BY <1>2, <2>1, <2>2 DEF RefreshInv, Others, Locking
  <2>8. ConnectionInv'
    <3>1. grants' = grants /\ unanswered' = unanswered
      BY <1>2 DEF uwumail
    <3>2. InStep(connection.grant, connection.turn)'
      BY <2>3, <2>4, <3>1 DEF InStep
    <3> QED
      BY <3>2 DEF ConnectionInv
  <2>9. NewInv'
    <3> SUFFICES ASSUME NEW p \in Requests, request'[p].at \in {"session", "store"}
                 PROVE  NewGrant(p)'
      BY DEF NewInv
    <3>1. p # r /\ request'[p] = request[p] /\ NewGrant(p)
      BY <2>1, <2>2 DEF MaskedIInv, NewInv, Others
    <3>2. request[p].grant # q.grant
      BY <2>3, <3>1
    <3>3. InStep(request[p].grant, 1)'
      BY <1>2, <3>1 DEF NewGrant, InStep, uwumail
    <3> QED
      BY <2>1, <2>2, <2>4, <3>1, <3>2, <3>3 DEF NewGrant, Others
  <2>10. EndInv'
    <3> SUFFICES ASSUME NEW p \in Requests
                 PROVE  EndsWell(p)'
      BY DEF EndInv
    <3>1. CASE p = r
      BY <1>2, <2>1, <2>2, <3>1, ConnectionGrant DEF MaskedIInv, EndsWell, uwumail
    <3>2. CASE p # r
      BY <1>2, <2>2, <3>2 DEF MaskedIInv, EndInv, EndsWell, uwumail, Others, Locking
    <3> QED
      BY <3>1, <3>2
  <2>11. NoOldToken'
    BY <1>2 DEF MaskedIInv, MaskedInv, NoOldToken, uwumail
  <2>12. NoGrantIsLeft'
    <3>1. Holds(request[r]) = {q.grant} /\ Holds(request[r])' = IF connection # None THEN {connection.grant} ELSE {}
      BY <1>1, <2>1, <2>2 DEF Holds
    <3>2. account' = account
      BY <1>5 DEF Stored
    <3> QED
      BY <1>2, <1>3, <2>2, <2>4, <3>1, <3>2, LeftMoves DEF MaskedIInv, MaskedInv
  <2> QED
    BY <2>5, <2>6, <2>7, <2>8, <2>9, <2>10, <2>11, <2>12 DEF MaskedIInv, MaskedInv
<1> QED
  BY <1>4, <1>5 DEF Finish

(* What is asked to be ended, and who has the lock to do it.               *)
LEMMA MaskedLeaving ==
    ASSUME MaskedIInv, NEW r \in Requests, Disconnect(r) \/ AccountGoing(r) \/ Locked(r)
    PROVE  MaskedIInv'
<1> DEFINE q == request[r]
<1>1. /\ MaskedTypeOK /\ asked' \in Nat /\ q \in MaskedRequest
      /\ UNCHANGED <<allowed, store, pending, backingOff, codes, uwumail, unanswered>>
  BY DEF MaskedIInv, MaskedTypeOK, Disconnect, AccountGoing, Locked, AsksOf, Asks, bounds
<1>2. GrantsGoOn /\ SameTurns /\ Active' = Active /\ SameToken /\ SameGrant
  BY <1>1, SameUwuMail DEF uwumail, store, SameToken, SameGrant
<1>3. Holds(q) = {} /\ q.at \in {"idle", "disconnect", "going"}
  BY DEF Holds, Disconnect, AccountGoing, Locked, Ready
<1>4. connection # None => connection.grant \in DOMAIN grants /\ connection \in Connection
  BY <1>1, ConnectionGrant DEF MaskedIInv, MaskedTypeOK
<1>5. ASSUME NEW new \in MaskedRequest, Does(r, new), new.at \in {"disconnect", "going", "end"},
             new.previous # None /\ new.previous.grant \in DOMAIN grants,
             new.at = "end" /\ connection # None => new.previous = connection,
             lock' = lock \/ lock \in {None, r}, new.at = "end" => lock' = r, lock' \in {lock, r}
      PROVE  MaskedIInv'
  <2>1. request'[r] = new /\ Others(r) /\ request' \in [Requests -> MaskedRequest]
    BY <1>1, <1>5, DoesMoves DEF MaskedTypeOK
  <2>2. MaskedTypeOK'
    BY <1>1, <1>5, <2>1 DEF MaskedTypeOK, uwumail, store
  <2>3. LockInv'
    BY <1>5, <2>1, LockMoves DEF MaskedIInv, Locking
  <2>4. RefreshInv'
    BY <1>2, <1>5, <2>1, RefreshMoves DEF MaskedIInv
  <2>5. ConnectionInv'
    BY <1>2, <1>3, <2>1, ConnectionMoves DEF MaskedIInv
  <2>6. NewInv'
    BY <1>2, <1>5, <2>1, NewMoves DEF MaskedIInv
  <2>7. EndInv'
    <3>1. EndsWell(r)'
      BY <1>1, <1>5, <2>1 DEF EndsWell, store, uwumail
    <3> QED
      BY <1>2, <2>1, <3>1, EndMoves DEF MaskedIInv
  <2>8. NoOldToken'
    BY <1>1 DEF MaskedIInv, MaskedInv, NoOldToken, uwumail
  <2>9. NoGrantIsLeft'
    BY <1>1, <1>2, <1>3, <2>1, LeftMoves DEF MaskedIInv, MaskedInv, store
  <2> QED
    BY <2>2, <2>3, <2>4, <2>5, <2>6, <2>7, <2>8, <2>9 DEF MaskedIInv, MaskedInv
<1>6. ASSUME NEW at \in {"disconnect", "going"}, Does(r, [at |-> at, previous |-> connection]), connection # None,
             UNCHANGED lock
      PROVE  MaskedIInv'
  <2> DEFINE new == [at |-> at, previous |-> connection]
  <2>1. new \in MaskedRequest /\ new.at = at /\ new.previous = connection
    BY <1>4, <1>6 DEF MaskedRequest
  <2> HIDE DEF new
  <2> QED
    BY <1>4, <1>5, <1>6, <2>1 DEF new
<1>7. CASE Locked(r)
  <2>1. q \in [at : {"disconnect", "going"}, previous : Connection] /\ lock = None /\ lock' = r
    BY <1>1, <1>7, StageTypes DEF Locked
  <2>2. PICK previous \in Connection :
           /\ previous = (IF connection # None THEN connection ELSE q.previous)
           /\ Does(r, [at |-> "end", what |-> q.at, previous |-> previous])
    BY <1>4, <1>7, <2>1 DEF Locked
  <2>3. previous # None /\ previous.grant \in DOMAIN grants
    BY <1>4, <2>1, <2>2, MaskedNone DEF MaskedIInv, EndInv, EndsWell
  <2> DEFINE new == [at |-> "end", what |-> q.at, previous |-> previous]
  <2>4. new \in MaskedRequest /\ new.at = "end" /\ new.previous = previous
    BY <2>1 DEF MaskedRequest
  <2> HIDE DEF new, q
  <2> QED
    BY <1>5, <2>1, <2>2, <2>3, <2>4 DEF new
<1> QED
  BY <1>6, <1>7 DEF Disconnect, AccountGoing

(* A grant is ended, or somebody knows that it may not have been.          *)
LEMMA MaskedEnding ==
    ASSUME MaskedIInv, NEW r \in Requests,
           EndGrant(r) \/ DeleteConnection(r) \/ Unlock(r) \/ AccountGone(r) \/ GiveBack(r)
    PROVE  MaskedIInv'
<1> DEFINE q == request[r]
<1>1. /\ MaskedTypeOK /\ asked' = asked /\ q \in MaskedRequest /\ q.at \in {"end", "delete", "unlock", "gone", "done"}
      /\ UNCHANGED <<allowed, client, pending, backingOff, clients, addresses, reused>>
  BY DEF MaskedIInv, MaskedTypeOK, EndGrant, DeleteConnection, Unlock, AccountGone, GiveBack, bounds, store, uwumail
<1>2. q.at # "gone" => lock = r
  BY <1>1 DEF MaskedIInv, LockInv, Locking
<1>3. Ready \in MaskedRequest /\ Ready.at = "idle"
  BY DEF MaskedRequest, Ready
<1>4. CASE EndGrant(r)
  <2>1. q.at = "end" /\ q \in [at : {"end"}, what : {"finish", "disconnect", "going"}, previous : Connection \cup {None}]
        /\ lock' = lock
    BY <1>1, <1>4, StageTypes DEF EndGrant
  <2>2. PICK new \in {"done", "delete", "unlock"} : Does(r, [at |-> new]) /\ (new = "delete" => q.what = "disconnect")
    BY <1>4, <2>1 DEF EndGrant
  <2>3. [at |-> new] \in MaskedRequest /\ [at |-> new].at = new
    BY DEF MaskedRequest
  <2>4. request'[r] = [at |-> new] /\ Others(r) /\ request' \in [Requests -> MaskedRequest]
    BY <1>1, <2>2, <2>3, DoesMoves DEF MaskedTypeOK
  <2>5. q.previous # None => q.previous.grant \in DOMAIN grants /\ q.previous.grant \in Nat
    BY <2>1 DEF MaskedIInv, EndInv, EndsWell, Connection
  <2>6. \/ UNCHANGED <<grants, unanswered>> /\ q.previous = None
        \/ q.previous # None /\ Ended(q.previous.grant) /\ UNCHANGED unanswered
        \/ q.previous # None /\ unanswered' = unanswered \cup {q.previous.grant} /\ UNCHANGED grants
    BY <1>4 DEF EndGrant
  <2>7. /\ grants' \in Seq(Grant) /\ GrantsGoOn /\ SameTurns /\ Active' \subseteq Active /\ unanswered' \subseteq Nat
        /\ q.previous # None => q.previous.grant \notin Active' \ unanswered'
    <3>1. CASE /\ UNCHANGED grants
               /\ \/ q.previous = None /\ UNCHANGED unanswered
                  \/ q.previous # None /\ unanswered' = unanswered \cup {q.previous.grant}
      <4>1. GrantsGoOn /\ SameTurns /\ Active' = Active
        BY <3>1, SameUwuMail
      <4> QED
        BY <1>1, <2>5, <3>1, <4>1 DEF MaskedTypeOK
    <3>2. CASE q.previous # None /\ Ended(q.previous.grant) /\ UNCHANGED unanswered
      <4>1. PICK n \in DOMAIN grants : n = q.previous.grant
        BY <2>5, <3>2
      <4>2. grants \in Seq(Grant) /\ grants[n] \in Grant
        BY <1>1 DEF MaskedTypeOK
      <4>3. PICK g \in Grant : g = [grants[n] EXCEPT !.ended = TRUE] /\ g.ended /\ g.turn = grants[n].turn
        <5>1. PICK g : g = [grants[n] EXCEPT !.ended = TRUE]
          OBVIOUS
        <5>2. g \in Grant /\ g.ended /\ g.turn = grants[n].turn
          BY <4>2, <5>1 DEF Grant
        <5> QED
          BY <5>1, <5>2
      <4>4. grants' = [grants EXCEPT ![n] = g]
        BY <3>2, <4>1, <4>3 DEF Ended
      <4>5. DOMAIN grants' = DOMAIN grants /\ grants' \in Seq(Grant)
            /\ \A i \in DOMAIN grants : grants'[i] = IF i = n THEN g ELSE grants[i]
        BY <4>2, <4>4
      <4>6. unanswered' \subseteq Nat
        BY <1>1, <3>2 DEF MaskedTypeOK
      <4> QED
        BY <3>2, <4>1, <4>3, <4>5, <4>6 DEF GrantsGoOn, SameTurns, Active
    <3> QED
      BY <2>6, <3>1, <3>2
  <2>8. UNCHANGED <<account, connection, links, codes>>
    BY <1>4 DEF EndGrant, store
  <2>9. MaskedTypeOK'
    BY <1>1, <2>1, <2>4, <2>7, <2>8 DEF MaskedTypeOK
  <2>10. new = "delete" /\ connection # None => q.previous # None /\ connection.grant = q.previous.grant
    BY <2>1, <2>2 DEF MaskedIInv, EndInv, EndsWell
  <2>11. \A g \in Holds(request[r]) : g \in unanswered' \/ g \notin Active'
    BY <2>1, <2>7 DEF Holds
  <2>12. Quiet(r)
    BY <1>1, <1>2, <2>1, <2>3, <2>4, <2>7, <2>8, <2>10, <2>11 DEF Quiet, QuietStages, SameToken, SameGrant
  <2> QED
    BY <2>9, <2>12, QuietMoves
<1>5. CASE ~EndGrant(r)
  <2>1. UNCHANGED <<grants, unanswered>> /\ Holds(q) = {} /\ q.at # "end"
    BY <1>1, <1>5 DEF DeleteConnection, Unlock, AccountGone, GiveBack, Holds, uwumail
  <2>2. GrantsGoOn /\ SameTurns /\ Active' = Active
    BY <2>1, SameUwuMail
  <2>3. PICK new \in MaskedRequest : Does(r, new) /\ new.at \in {"idle", "gone"}
    <3>1. [at |-> "gone"] \in MaskedRequest
      BY DEF MaskedRequest
    <3> QED
      BY <1>3, <1>5, <3>1 DEF DeleteConnection, Unlock, AccountGone, GiveBack
  <2>4. request'[r] = new /\ Others(r) /\ request' \in [Requests -> MaskedRequest]
    BY <1>1, <2>3, DoesMoves DEF MaskedTypeOK
  <2>5. /\ connection' \in {connection, None} /\ links' \in {links, {}}
        /\ codes' \in {codes, codes + 1} /\ lock' \in {lock, None}
        /\ lock' = lock \/ q.at # "gone"
    BY <1>5 DEF DeleteConnection, Unlock, AccountGone, GiveBack, store
  <2>6. (account' => account) /\ account' \in BOOLEAN
    <3>1. CASE AccountGone(r)
      BY <3>1 DEF AccountGone
    <3>2. CASE UNCHANGED account
      BY <1>1, <3>2 DEF MaskedTypeOK
    <3> QED
      BY <1>5, <3>1, <3>2 DEF DeleteConnection, Unlock, GiveBack, store
  <2>9. MaskedTypeOK'
    <3>1. /\ connection' \in Connection \cup {None} /\ links' \subseteq [address : Nat \cup {None}, item : ItemIds]
          /\ codes' \in Nat /\ lock' \in Requests \cup {None}
      BY <1>1, <2>5 DEF MaskedTypeOK
    <3> QED
      BY <1>1, <2>1, <2>4, <2>6, <3>1 DEF MaskedTypeOK
  <2>7. connection # None /\ connection' = None /\ account' => connection.grant \notin Active' \ unanswered'
    <3>1. connection # connection' /\ account' => q.at = "delete"
      BY <1>5 DEF DeleteConnection, Unlock, AccountGone, GiveBack, store
    <3>2. q.at = "delete" /\ connection # None => connection.grant \notin Active \ unanswered
      BY DEF MaskedIInv, EndInv, EndsWell
    <3> QED
      BY <2>1, <2>2, <3>1, <3>2
  <2>8. Quiet(r)
    <3>1. SameToken /\ (lock' = lock \/ lock \in {None, r})
      BY <1>2, <2>5 DEF SameToken, SameGrant
    <3> QED
      BY <1>1, <2>1, <2>2, <2>3, <2>4, <2>6, <2>7, <3>1 DEF Quiet, QuietStages
  <2> QED
    BY <2>8, <2>9, QuietMoves
<1> QED
  BY <1>4, <1>5

LEMMA HeldGrants ==
    ASSUME MaskedIInv, NEW r \in Requests
    PROVE  Holds(request[r]) \subseteq Nat
<1>1. PICK q \in MaskedRequest : q = request[r]
  BY DEF MaskedIInv, MaskedTypeOK
<1>2. CASE q.at = "keep"
  <2>1. q \in Calling /\ q.token # None
    BY <1>1, <1>2, StageTypes DEF MaskedIInv, RefreshInv, HasToken
  <2> QED
    BY <1>1, <1>2, <2>1 DEF Holds, Calling, AnyCall, Tokens
<1>3. CASE q.at \in {"session", "store"}
  BY <1>1, <1>3, StageTypes DEF Holds
<1>4. CASE q.at = "end"
  <2>1. q.previous \in Connection \cup {None}
    BY <1>1, <1>4, StageTypes
  <2> QED
    BY <1>1, <1>4, <2>1 DEF Holds, Connection
<1> QED
  BY <1>1, <1>2, <1>3, <1>4 DEF Holds

(* A request dropped: what it held, nobody knows of.                       *)
LEMMA MaskedHangsUp ==
    ASSUME MaskedIInv, NEW r \in Requests, HangsUp(r)
    PROVE  MaskedIInv'
<1>1. /\ MaskedTypeOK /\ Does(r, Ready) /\ Ready.at = "idle" /\ Ready \in MaskedRequest
      /\ unanswered' = unanswered \cup Holds(request[r]) /\ lock' = IF lock = r THEN None ELSE lock
      /\ UNCHANGED <<asked, allowed, store, pending, backingOff, codes, uwumail>>
  BY DEF MaskedIInv, HangsUp, Ready, MaskedRequest
<1>2. request'[r] = Ready /\ Others(r) /\ request' \in [Requests -> MaskedRequest]
  BY <1>1, DoesMoves DEF MaskedTypeOK
<1>3. unanswered' \subseteq Nat
  BY <1>1, HeldGrants DEF MaskedTypeOK
<1>4. MaskedTypeOK'
  BY <1>1, <1>2, <1>3 DEF MaskedTypeOK, store, uwumail
<1>5. GrantsGoOn /\ SameTurns /\ Active' = Active
  BY <1>1, SameUwuMail DEF uwumail
<1>6. Quiet(r)
  BY <1>1, <1>2, <1>5 DEF Quiet, QuietStages, SameToken, SameGrant, store, uwumail
<1> QED
  BY <1>4, <1>6, QuietMoves

(* What no request does: tokens run out, the person signs the server out,  *)
(* UwUMail forgets clients, the admin takes it off the list.               *)
LEMMA MaskedElsewhere ==
    ASSUME MaskedIInv, MaskedTypeOK', UNCHANGED memory, UNCHANGED <<account, reused, unanswered>>,
           SameToken, connection' = None => connection = None,
           GrantsGoOn, SameTurns, Active' \subseteq Active
    PROVE  MaskedIInv'
<1>1. /\ UNCHANGED <<account, reused, unanswered, request, lock>>
      /\ connection' # None => connection # None /\ connection'.grant = connection.grant
                                                 /\ connection'.turn = connection.turn
      /\ connection # None => connection' # None
  BY DEF memory, SameToken, SameGrant
<1>2. \A g \in DOMAIN grants : g \in DOMAIN grants' /\ grants'[g].turn = grants[g].turn
  BY DEF GrantsGoOn, SameTurns
<1>3. LockInv'
  BY <1>1 DEF MaskedIInv, LockInv
<1>4. RefreshInv'
  <2> SUFFICES ASSUME NEW p \in Requests, request'[p].at \in {"refresh", "keep"}
               PROVE  HasToken(request[p])'
    BY DEF RefreshInv
  <2>1. HasToken(request[p])
    BY <1>1 DEF MaskedIInv, RefreshInv
  <2> QED
    BY <1>1, <1>2, <2>1 DEF HasToken, InStep, Token
<1>5. ConnectionInv'
  <2>1. ASSUME connection # None, InStep(connection.grant, connection.turn)
        PROVE  InStep(connection.grant, connection.turn)'
    BY <1>1, <1>2, <2>1 DEF InStep
  <2> QED
    BY <1>1, <2>1 DEF MaskedIInv, ConnectionInv
<1>6. NewInv'
  <2> SUFFICES ASSUME NEW p \in Requests, request'[p].at \in {"session", "store"}
               PROVE  NewGrant(p)'
    BY DEF NewInv
  <2>1. NewGrant(p)
    BY <1>1 DEF MaskedIInv, NewInv
  <2> QED
    BY <1>1, <1>2, <2>1 DEF NewGrant, InStep
<1>7. EndInv'
  <2> SUFFICES ASSUME NEW p \in Requests
               PROVE  EndsWell(p)'
    BY DEF EndInv
  <2>1. EndsWell(p)
    BY DEF MaskedIInv, EndInv
  <2> QED
    BY <1>1, <1>2, <2>1 DEF EndsWell
<1>8. NoOldToken'
  BY <1>1 DEF MaskedIInv, MaskedInv, NoOldToken
<1>9. NoGrantIsLeft'
  <2>1. Held' = Held
    BY <1>1 DEF Held, Holds
  <2> QED
    BY <1>1, <2>1 DEF MaskedIInv, MaskedInv, NoGrantIsLeft
<1> QED
  BY <1>3, <1>4, <1>5, <1>6, <1>7, <1>8, <1>9 DEF MaskedIInv, MaskedInv

(* One grant marked, neither its turn changed nor ended ones revived.      *)
LEMMA GrantMarked ==
    ASSUME grants \in Seq(Grant), NEW n \in DOMAIN grants, NEW g \in Grant, grants' = [grants EXCEPT ![n] = g],
           g.turn = grants[n].turn, grants[n].ended => g.ended, UNCHANGED unanswered
    PROVE  grants' \in Seq(Grant) /\ GrantsGoOn /\ SameTurns /\ Active' \subseteq Active
<1>1. /\ DOMAIN grants' = DOMAIN grants /\ grants' \in Seq(Grant)
      /\ \A i \in DOMAIN grants : grants'[i] = IF i = n THEN g ELSE grants[i]
  OBVIOUS
<1> QED
  BY <1>1 DEF GrantsGoOn, SameTurns, Active

LEMMA MaskedBesides ==
    ASSUME MaskedIInv, RunsOut \/ SignedOut \/ Ages \/ Unlisted
    PROVE  MaskedIInv'
<1>1. /\ MaskedTypeOK /\ UNCHANGED memory /\ asked' = asked
      /\ UNCHANGED <<account, links, addresses, reused, unanswered>>
      /\ grants \in Seq(Grant)
      /\ connection \in Connection \cup {None} /\ client \in Client \cup {None} /\ clients \subseteq Nat
  BY DEF MaskedIInv, MaskedTypeOK, RunsOut, SignedOut, Ages, Unlisted, store, uwumail
<1>2. ASSUME grants' \in Seq(Grant), GrantsGoOn, SameTurns, Active' \subseteq Active, SameToken,
             connection' \in Connection \cup {None}, connection' = None => connection = None,
             client' \in Client \cup {None}, clients' \subseteq Nat, allowed' \in BOOLEAN
      PROVE  MaskedIInv'
  <2>1. MaskedTypeOK'
    BY <1>1, <1>2 DEF MaskedTypeOK, memory
  <2> QED
    BY <1>1, <1>2, <2>1, MaskedElsewhere
<1>3. UNCHANGED connection => SameToken
  BY DEF SameToken, SameGrant
<1>4. UNCHANGED grants => grants' \in Seq(Grant) /\ GrantsGoOn /\ SameTurns /\ Active' \subseteq Active
  BY <1>1, SameUwuMail
<1>5. allowed \in BOOLEAN
  BY <1>1 DEF MaskedTypeOK
<1>6. CASE RunsOut
  <2>1. PICK n \in DOMAIN grants : n = connection.grant /\ connection # None
    BY <1>6, ConnectionGrant DEF MaskedIInv, RunsOut
  <2>2. grants[n] \in Grant
    BY <1>1
  <2>3. PICK g : g = [grants[n] EXCEPT !.out = grants[n].turn]
    OBVIOUS
  <2>4. g \in Grant /\ g.turn = grants[n].turn /\ g.ended = grants[n].ended
    BY <2>2, <2>3 DEF Grant
  <2>5. grants' = [grants EXCEPT ![n] = g]
    BY <1>6, <2>1, <2>3 DEF RunsOut
  <2>6. grants' \in Seq(Grant) /\ GrantsGoOn /\ SameTurns /\ Active' \subseteq Active
    BY <1>1, <2>4, <2>5, GrantMarked
  <2>7. PICK lasts \in BOOLEAN : connection' = [connection EXCEPT !.lasts = lasts]
    BY <1>6 DEF RunsOut
  <2>8. connection' \in Connection /\ connection'.grant = connection.grant /\ connection'.turn = connection.turn
    BY <1>1, <2>1, <2>7 DEF Connection
  <2>9. SameToken
    BY <2>1, <2>8 DEF SameToken, SameGrant
  <2>10. UNCHANGED <<client, clients, allowed>>
    BY <1>6 DEF RunsOut
  <2> QED
    BY <1>1, <1>2, <1>5, <2>6, <2>8, <2>9, <2>10, MaskedNone
<1>7. CASE SignedOut
  <2>1. PICK n \in Active : Ended(n)
    BY <1>7 DEF SignedOut
  <2>2. n \in DOMAIN grants /\ grants[n] \in Grant
    BY <1>1, <2>1 DEF Active
  <2>3. PICK g : g = [grants[n] EXCEPT !.ended = TRUE]
    OBVIOUS
  <2>4. g \in Grant /\ g.turn = grants[n].turn /\ g.ended
    BY <2>2, <2>3 DEF Grant
  <2>5. grants' = [grants EXCEPT ![n] = g]
    BY <2>1, <2>3 DEF Ended
  <2>6. grants' \in Seq(Grant) /\ GrantsGoOn /\ SameTurns /\ Active' \subseteq Active
    BY <1>1, <2>2, <2>4, <2>5, GrantMarked
  <2>7. UNCHANGED <<client, clients, allowed, connection>>
    BY <1>7 DEF SignedOut, store
  <2> QED
    BY <1>1, <1>2, <1>3, <1>5, <2>6, <2>7
<1>8. CASE Ages
  <2>1. client' = [client EXCEPT !.aged = TRUE] /\ client # None /\ clients' = {grants[g].client : g \in Active}
        /\ UNCHANGED <<connection, grants, allowed>>
    BY <1>8 DEF Ages
  <2>2. client' \in Client
    BY <1>1, <2>1 DEF Client
  <2>3. clients' \subseteq Nat
    <3>1. \A g \in DOMAIN grants : grants[g] \in Grant
      BY <1>1
    <3> QED
      BY <2>1, <3>1 DEF Active, Grant
  <2> QED
    BY <1>1, <1>2, <1>3, <1>4, <1>5, <2>1, <2>2, <2>3
<1>9. CASE Unlisted
  <2>1. UNCHANGED <<connection, grants, client, clients>> /\ allowed' = FALSE
    BY <1>9 DEF Unlisted, store, uwumail
  <2> QED
    BY <1>1, <1>2, <1>3, <1>4, <2>1
<1> QED
  BY <1>6, <1>7, <1>8, <1>9

(* The server stops: what requests held, nobody knows of any more.         *)
LEMMA MaskedStops ==
    ASSUME MaskedIInv, Stops
    PROVE  MaskedIInv'
<1>1. /\ MaskedTypeOK /\ request' = [r \in Requests |-> Ready] /\ lock' = None /\ pending' = {} /\ backingOff' = FALSE
      /\ codes' = MostCodes /\ unanswered' = unanswered \cup Held
      /\ UNCHANGED <<asked, allowed, store, uwumail>>
  BY DEF MaskedIInv, Stops, Held
<1>2. Ready \in MaskedRequest /\ Ready.at = "idle"
  BY DEF Ready, MaskedRequest
<1>3. \A p \in Requests : request'[p] = Ready
  BY <1>1
<1>4. MaskedTypeOK'
  <2>1. unanswered' \subseteq Nat
    BY <1>1, HeldGrants DEF Held, MaskedTypeOK
  <2> QED
    BY <1>1, <1>2, <2>1, MaskedBounds DEF MaskedTypeOK, store, uwumail
<1>5. LockInv' /\ RefreshInv' /\ NewInv' /\ EndInv'
  BY <1>2, <1>3 DEF LockInv, RefreshInv, NewInv, EndInv, EndsWell, Locking
<1>6. ConnectionInv'
  <2> SUFFICES ASSUME connection # None
               PROVE  InStep(connection.grant, connection.turn)'
    BY <1>1 DEF ConnectionInv, store
  <2>1. connection' = connection /\ grants' = grants
    BY <1>1 DEF store, uwumail
  <2>2. CASE InStep(connection.grant, connection.turn)
    BY <1>1, <2>1, <2>2 DEF InStep
  <2>3. ASSUME NEW p \in Requests, request[p].at = "keep", request[p].said = "token"
        PROVE  InStep(connection.grant, connection.turn)'
    <3>1. HasToken(request[p]) /\ connection.grant = request[p].token.grant
      BY <2>3 DEF MaskedIInv, RefreshInv, HasToken, Token
    <3>2. connection.grant \in unanswered' /\ connection.grant \in DOMAIN grants
      BY <1>1, <2>3, <3>1 DEF Held, Holds, HasToken, InStep
    <3> QED
      BY <2>1, <3>2 DEF InStep
  <2> QED
    BY <2>2, <2>3 DEF MaskedIInv, ConnectionInv
<1>7. NoOldToken'
  BY <1>1 DEF MaskedIInv, MaskedInv, NoOldToken, uwumail
<1>8. NoGrantIsLeft'
  <2>1. Active' = Active
    BY <1>1 DEF Active, uwumail
  <2> QED
    BY <1>1, <2>1 DEF MaskedIInv, MaskedInv, NoGrantIsLeft, store
<1> QED
  BY <1>4, <1>5, <1>6, <1>7, <1>8 DEF MaskedIInv, MaskedInv

LEMMA MaskedStarts ==
    ASSUME MaskedInit
    PROVE  MaskedIInv
<1>1. PICK m \in Mailboxes : grants = <<[client |-> 0, mailbox |-> m, turn |-> 1, out |-> 0, ended |-> FALSE]>>
  BY DEF MaskedInit
<1> DEFINE g == [client |-> 0, mailbox |-> m, turn |-> 1, out |-> 0, ended |-> FALSE]
           c == [grant |-> 1, turn |-> 1, lasts |-> TRUE, client |-> 0, mailbox |-> m, status |-> "ok"]
<1>2. g \in Grant /\ g.turn = 1 /\ ~g.ended /\ g.mailbox = m
  BY DEF Grant
<1>3. c \in Connection /\ c.grant = 1 /\ c.turn = 1
  BY DEF Connection
<1> HIDE DEF g, c
<1>4. grants \in Seq(Grant) /\ DOMAIN grants = {1} /\ grants[1] = g
  BY <1>1, <1>2 DEF g
<1>5. connection = c
  BY <1>2, <1>4 DEF MaskedInit, c
<1>6. PICK a \in Mailboxes : addresses = <<a>>
  BY DEF MaskedInit
<1>7. addresses \in Seq(Mailboxes)
  BY <1>6
<1>8. Ready \in MaskedRequest /\ Ready.at = "idle"
  BY DEF MaskedRequest, Ready
<1>9. /\ asked = 0 /\ allowed = TRUE /\ account = TRUE /\ clients = {0} /\ client = [id |-> 0, aged |-> FALSE]
      /\ links = {} /\ reused = {} /\ unanswered = {} /\ pending = {} /\ backingOff = FALSE /\ codes = MostCodes
      /\ lock = None /\ request = [r \in Requests |-> Ready]
  BY DEF MaskedInit
<1>10. MaskedTypeOK
  <2>1. client \in Client
    BY <1>9 DEF Client
  <2> QED
    <3>1. request \in [Requests -> MaskedRequest]
      BY <1>8, <1>9
    <3>2. asked \in Nat /\ clients \subseteq Nat /\ codes \in Nat /\ lock \in Requests \cup {None}
      BY <1>9, MaskedBounds
    <3>4. allowed \in BOOLEAN /\ account \in BOOLEAN /\ backingOff \in BOOLEAN
      BY <1>9, MaskedBounds
    <3>3. links \subseteq [address : Nat \cup {None}, item : ItemIds] /\ reused \subseteq Nat /\ unanswered \subseteq Nat
          /\ pending \subseteq [tab : Nat, client : Nat]
      BY <1>9
    <3> QED
      BY <1>3, <1>4, <1>5, <1>7, <2>1, <3>1, <3>2, <3>3, <3>4 DEF MaskedTypeOK
<1>11. LockInv /\ RefreshInv /\ NewInv /\ EndInv
  BY <1>8, <1>9 DEF LockInv, RefreshInv, NewInv, EndInv, EndsWell, Locking
<1>12. ConnectionInv
  BY <1>2, <1>3, <1>4, <1>5 DEF ConnectionInv, InStep
<1>13. NoOldToken /\ NoGrantIsLeft
  <2>1. connection # None
    BY <1>3, <1>5, MaskedNone
  <2> QED
    BY <1>3, <1>4, <1>5, <1>9, <2>1 DEF NoOldToken, NoGrantIsLeft, Active
<1> QED
  BY <1>10, <1>11, <1>12, <1>13 DEF MaskedIInv, MaskedInv

LEMMA MaskedStep ==
    ASSUME MaskedIInv, [MaskedNext]_maskedVars
    PROVE  MaskedIInv'
<1>1. CASE UNCHANGED maskedVars
  <2>1. UNCHANGED <<asked, allowed, account, connection, links, client, pending, backingOff, codes, lock, request,
                    grants, clients, addresses, reused, unanswered>>
    BY <1>1 DEF maskedVars, bounds, store, memory, uwumail
  <2> QED
    BY <2>1 DEF MaskedIInv, MaskedTypeOK, LockInv, RefreshInv, HasToken, Token, ConnectionInv, InStep, NewInv, NewGrant,
                EndInv, EndsWell, MaskedInv, NoOldToken, NoGrantIsLeft, Active, Held, Holds
<1>2. ASSUME NEW r \in Requests,
             \/ CreateAddress(r) \/ Generate(r) \/ Change(r) \/ Access(r) \/ Refresh(r) \/ KeepTokens(r)
             \/ Call(r) \/ Status(r) \/ Link(r)
             \/ Connect(r) \/ ClientAt(r) \/ Register(r) \/ Pend(r)
             \/ Callback(r) \/ Exchange(r) \/ Session(r) \/ Finish(r)
             \/ Disconnect(r) \/ AccountGoing(r) \/ Locked(r) \/ EndGrant(r)
             \/ DeleteConnection(r) \/ Unlock(r) \/ AccountGone(r) \/ GiveBack(r)
             \/ HangsUp(r)
      PROVE  MaskedIInv'
  BY <1>2, MaskedAsking, MaskedAccess, MaskedRefresh, MaskedKeep, MaskedCalls, MaskedConnecting, MaskedExchange,
     MaskedSession, MaskedFinish, MaskedLeaving, MaskedEnding, MaskedHangsUp
<1>3. CASE RunsOut \/ SignedOut \/ Ages \/ Unlisted \/ Stops
  BY <1>3, MaskedBesides, MaskedStops
<1> QED
  BY <1>1, <1>2, <1>3 DEF MaskedNext

(* masked.rs, at the locks: no old refresh token is presented but where an *)
(* answer was lost, and no grant lives on that this server has forgotten.  *)
THEOREM NoGrantIsLost == MaskedSpec => []MaskedInv
<1>1. MaskedInit => MaskedIInv
  BY MaskedStarts
<1>2. MaskedIInv /\ [MaskedNext]_maskedVars => MaskedIInv'
  BY MaskedStep
<1>3. MaskedIInv => MaskedInv
  BY DEF MaskedIInv
<1> QED
  BY <1>1, <1>2, <1>3, PTL DEF MaskedSpec
=============================================================================
