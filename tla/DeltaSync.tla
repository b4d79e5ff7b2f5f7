------------------------------ MODULE DeltaSync ------------------------------
(***************************************************************************)
(* `GET /uwu/v1/sync`: one client keeps a replica of its account by asking *)
(* for what changed since its cursor, while the store of VaultStore goes   *)
(* on being written.  A request runs through the steps the handler awaits: *)
(* the session's user is read first, then either one snapshot for a page   *)
(* of a delta, or, when there is no cursor or it does not fit any more,    *)
(* the counters and after them every table by a statement of its own.      *)
(* The answer may be lost.  Clients meet only in the store, so one client  *)
(* is modelled; the writes are everybody's.                                *)
(*                                                                         *)
(* The areas are fixed to `vault`; organisations, Suite and UwULock's own  *)
(* extras have windows of their own and are left out.                      *)
(***************************************************************************)
EXTENDS VaultStore

CONSTANT Limit    \* changed objects per page

ASSUME LimitAssumption == Limit \in Nat \ {0}

VARIABLES
    copy,      \* the client's replica: each object's content, 0 for none
    cursor,    \* its cursor
    req        \* its request, as far as the server is with it

vars == <<db, writes, born, backups, restore, minted, copy, cursor, req>>

Keep == -1     \* the answer does not name the object
Parts == {"hidden", "folders", "ciphers", "sends"}

Cursor == [s : Nat, e : Nat, u : Nat]
NoCursor == [s |-> 0, e |-> 0, u |-> 0]    \* no server epoch is 0: fits nothing

Request ==
    [at : {"idle", "session", "counters", "reading", "answer"},
     user : Nat,                         \* the profile the session was opened with
     cursor : Cursor,                    \* the cursor the answer will carry
     hidden : SUBSET Folders,            \* hidden_folders, as vault() read them
     left : SUBSET Parts,                \* what a full answer has still to read
     page : [Objects -> Nat \cup {Keep}],
     deleted : SUBSET Rows,              \* the ids under `deleted`
     more : BOOLEAN]

Idle == [at |-> "idle", user |-> 0, cursor |-> NoCursor, hidden |-> {}, left |-> {},
         page |-> [o \in Objects |-> 0], deleted |-> {}, more |-> FALSE]

TypeOK ==
    /\ StoreTypeOK
    /\ copy \in [Objects -> Nat]
    /\ cursor \in Cursor
    /\ req \in Request

-----------------------------------------------------------------------------
(* The cursor (Cursor in uwulock-api/src/sync.rs).                         *)

CursorAt(d) == [s |-> d.server, e |-> d.epoch, u |-> d.seq]

(* Fault: a cursor older than the last pruned tombstone still taken.       *)
FitsUnpruned(d, k) == k.s = d.server /\ k.e = d.epoch /\ k.u <= d.seq

Fits(d, k) ==
    /\ k.s = d.server /\ k.e = d.epoch
    /\ d.pruned <= k.u /\ k.u <= d.seq

Behind(d, k) == ~Fits(d, k) \/ k.u < d.seq

-----------------------------------------------------------------------------
(* A page of a delta (read_delta): the numbers above the cursor, cut where *)
(* the page is full.                                                       *)

(* Fault: a page counted from the beginning of the history.                *)
NumbersFromStart(d, since) ==
    {d.number[o] : o \in d.alive} \cup {t.seq : t \in d.tombs}

NumbersAbove(d, since) ==
    {n \in {d.number[o] : o \in d.alive} \cup {t.seq : t \in d.tombs} : n > since}

Cut(d, since) ==
    LET above == NumbersAbove(d, since) IN
    IF Cardinality(above) > Limit
    THEN {[until |-> n, more |-> TRUE] :
            n \in {m \in above : Cardinality({k \in above : k <= m}) = Limit}}
    ELSE {[until |-> d.seq, more |-> FALSE]}

InWindow(n, since, until) == since < n /\ n <= until

Changed(d, since, until) == {o \in d.alive : InWindow(d.number[o], since, until)}

(* Fault: what changed while travel mode hides it is left out altogether.  *)
DeadOnly(d, since, until) ==
    {o \in Rows : /\ \E t \in d.tombs : t.id = o /\ InWindow(t.seq, since, until)
                  /\ o \notin Ciphers \cap Changed(d, since, until)}

(* Deleted, or changed while hidden; an item that is there wins over its   *)
(* tombstone, a folder or a Send is named twice.                           *)
DeltaDeleted(d, since, until) ==
    LET changed == Changed(d, since, until)
        dead == {o \in Rows : \E t \in d.tombs : t.id = o /\ InWindow(t.seq, since, until)}
        hidden == {o \in changed : IsHidden(d, o)}
    IN  hidden \cup {o \in dead : o \notin Ciphers \cap changed}

DeltaPage(d, since, until, user) ==
    LET changed == Changed(d, since, until)
        deleted == DeltaDeleted(d, since, until)
    IN  [o \in Objects |->
            IF o = Profile THEN IF o \in changed THEN user ELSE Keep
            ELSE IF o \in changed /\ ~IsHidden(d, o) THEN d.content[o]
            ELSE IF o \in deleted THEN 0
            ELSE Keep]

(* Fault: the client takes a page for the whole.                           *)
AppliedWhole(mine, page) == page

(* The client: what the answer names as there is there, what it names only *)
(* as deleted is not, the rest stays.                                      *)
Applied(mine, page) == [o \in Objects |-> IF page[o] = Keep THEN mine[o] ELSE page[o]]

-----------------------------------------------------------------------------
(* The steps of a request.                                                 *)

BeginSync ==        \* the AnySession extractor: who asks
    /\ req.at = "idle"
    /\ req' = [Idle EXCEPT !.at = IF cursor = NoCursor THEN "counters" ELSE "session",
                           !.user = db.content[Profile]]
    /\ UNCHANGED <<storeVars, copy, cursor>>

ReadDelta ==
    /\ req.at = "session"
    /\ IF Fits(db, cursor)
       THEN \E w \in Cut(db, cursor.u) :
                req' = [req EXCEPT
                    !.at = "answer", !.more = w.more,
                    !.cursor = [CursorAt(db) EXCEPT !.u = w.until],
                    !.page = DeltaPage(db, cursor.u, w.until, req.user),
                    !.deleted = DeltaDeleted(db, cursor.u, w.until)]
       ELSE req' = [req EXCEPT !.at = "counters"]
    /\ UNCHANGED <<storeVars, copy, cursor>>

ReadCounters ==     \* full_answer: the counters first
    /\ req.at = "counters"
    /\ req' = [req EXCEPT !.at = "reading", !.cursor = CursorAt(db), !.left = Parts,
                          !.page = [o \in Objects |-> IF o = Profile THEN req.user ELSE 0]]
    /\ UNCHANGED <<storeVars, copy, cursor>>

Reads(part) == /\ req.at = "reading" /\ part \in req.left
               /\ UNCHANGED <<storeVars, copy, cursor>>

ReadHidden ==       \* vault(): hidden_folders, folders, ciphers, each a statement
    /\ Reads("hidden")
    /\ req' = [req EXCEPT !.left = req.left \ {"hidden"}, !.hidden = HiddenFolders(db)]

ReadFolders ==
    /\ Reads("folders") /\ "hidden" \notin req.left
    /\ req' = [req EXCEPT !.left = req.left \ {"folders"},
                          !.page = [o \in Objects |->
                            IF o \in Folders
                            THEN IF o \in db.alive /\ o \notin req.hidden THEN db.content[o] ELSE 0
                            ELSE req.page[o]]]

ReadCiphers ==
    /\ Reads("ciphers") /\ "folders" \notin req.left
    /\ req' = [req EXCEPT !.left = req.left \ {"ciphers"},
                          !.page = [o \in Objects |->
                            IF o \in Ciphers
                            THEN IF o \in db.alive /\ db.folder[o] \notin req.hidden
                                 THEN db.content[o] ELSE 0
                            ELSE req.page[o]]]

ReadSends ==
    /\ Reads("sends")
    /\ req' = [req EXCEPT !.left = req.left \ {"sends"},
                          !.page = [o \in Objects |->
                            IF o \in Sends THEN db.content[o] ELSE req.page[o]]]

(* Fault: the counters read last.                                          *)
FullAnswerCountedLast ==
    /\ req.at = "reading" /\ req.left = {}
    /\ req' = [req EXCEPT !.at = "answer", !.cursor = CursorAt(db)]
    /\ UNCHANGED <<storeVars, copy, cursor>>

FullAnswer ==
    /\ req.at = "reading" /\ req.left = {}
    /\ req' = [req EXCEPT !.at = "answer"]
    /\ UNCHANGED <<storeVars, copy, cursor>>

Deliver ==
    /\ req.at = "answer"
    /\ copy' = Applied(copy, req.page)
    /\ cursor' = req.cursor
    /\ req' = Idle
    /\ UNCHANGED storeVars

Lose ==             \* the request cut off at an await, or its answer lost
    /\ req.at # "idle"
    /\ req' = Idle
    /\ UNCHANGED <<storeVars, copy, cursor>>

-----------------------------------------------------------------------------
Init == /\ StoreInit
        /\ copy = [o \in Objects |-> 0] /\ cursor = NoCursor /\ req = Idle

ServerStep ==
    \/ ReadDelta \/ ReadCounters
    \/ ReadHidden \/ ReadFolders \/ ReadCiphers \/ ReadSends
    \/ FullAnswer

ServerStops ==      \* with it every request it had
    /\ DieInRestore \/ \E b \in backups : RestoreOffline(b)
    /\ req' = Idle /\ UNCHANGED <<copy, cursor>>

ServerRuns ==
    \/ StoreWrite /\ UNCHANGED <<copy, cursor, req>>
    \/ BeginSync \/ ServerStep \/ Deliver \/ Lose

Next == ServerRuns \/ ServerStops

Spec == Init /\ [][Next]_vars

(* A client syncs again and again (a realtime message, a poll), the server *)
(* works a request off, a restore that goes on ends the sessions, and the  *)
(* line between client and server is not cut for ever.  (Delivering an     *)
(* answer that brings nothing new is the same step as losing it.)          *)
Fairness ==
    /\ WF_vars(BeginSync) /\ WF_vars(ServerStep) /\ WF_vars(Deliver)
    /\ WF_vars(EndSessions /\ UNCHANGED <<copy, cursor, req>>)
    /\ <>[][Lose => Deliver]_vars

FairSpec == Spec /\ Fairness

-----------------------------------------------------------------------------
(* Properties.                                                             *)

(* What the client has of an object is what the account sees, or the       *)
(* change it has missed is above its cursor.                               *)
Right(d, v, o, u) ==
    \/ v = View(d, o)
    \/ o \in d.alive /\ d.number[o] > u
    \/ \E t \in d.tombs : t.id = o /\ t.seq > u

(* As long as a cursor is taken for a delta, no change is lost: whatever   *)
(* the replica has wrong, the deltas from its cursor on will put right.    *)
(* Not while a restore is half done (see EveryCursorStartsOver).           *)
NothingIsMissed ==
    restore = "none" /\ Fits(db, cursor) =>
        \A o \in Rows : Right(db, copy[o], o, cursor.u)

(* A client whose cursor is not behind (the realtime channel tells it that *)
(* nothing changed) has exactly the rows the account sees: none more, none *)
(* hidden by travel mode, each as it was last written.                     *)
UpToDateIsComplete ==
    restore = "none" /\ ~Behind(db, cursor) =>
        \A o \in Rows : copy[o] = View(db, o)

(* From one state of the database to the next: a row that changes takes a  *)
(* number above every one before, a row that goes leaves a tombstone with  *)
(* one, a tombstone goes only with the pruned mark moved past it, and what *)
(* travel mode hides is not touched - or the account's epoch moves on.     *)
Follows(d, e) ==
    /\ e.server = d.server /\ e.seq >= d.seq /\ e.epoch >= d.epoch /\ e.pruned >= d.pruned
    /\ e.epoch = d.epoch =>
        /\ HiddenFolders(e) = HiddenFolders(d)
        /\ \A t \in d.tombs : t \in e.tombs \/ t.seq <= e.pruned
        /\ \A o \in Rows :
            \/ o \in e.alive /\ e.number[o] > d.seq
            \/ \E t \in e.tombs : t.id = o /\ t.seq > d.seq
            \/ /\ View(e, o) = View(d, o)
               /\ o \in d.alive => o \in e.alive /\ e.number[o] = d.number[o]

(* No way of writing forgets its number: the promise of migration 0012.    *)
EveryChangeIsNumbered ==
    [][restore = "none" /\ restore' = "none" /\ db'.server = db.server
        => Follows(db, db')]_vars

(* A cursor that does not fit never fits again, whatever is written:       *)
(* counters only grow, and a restore draws an epoch nobody has seen.       *)
(* Otherwise a delta would be cut out of a history the client never had.   *)
StaleStaysStale ==
    [][restore = "none" /\ restore' = "none" /\ cursor' = cursor /\ ~Fits(db, cursor)
        => ~Fits(db', cursor)]_vars

(* Within one epoch a client's cursor only moves forward: an answer, late  *)
(* as it may be, never takes the client back over changes it had.          *)
CursorMovesForward ==
    [][restore = "none" /\ Fits(db, cursor) /\ cursor'.s = cursor.s /\ cursor'.e = cursor.e
        => cursor'.u >= cursor.u]_vars

(* When the writes have stopped, a client that goes on syncing ends up     *)
(* with what the account sees, page by page or by starting over.           *)
ReplicaConverges == <>[](\A o \in Rows : copy[o] = View(db, o))

-----------------------------------------------------------------------------
(* The inductive invariant behind NothingIsMissed.                         *)

(* Numbers and tombstones of a database, the live one or one put aside:    *)
(* none above the counter, a live row's own tombstone older than the row,  *)
(* its server epoch one that was drawn, only live folders marked.        *)
Ordered(d) ==
    /\ d.server <= minted
    /\ d.marked \subseteq d.alive
    /\ \A o \in d.alive : d.number[o] <= d.seq
    /\ \A o \in Rows \ d.alive : d.content[o] = 0
    /\ \A t \in d.tombs : t.seq <= d.seq /\ (t.id \in d.alive => t.seq < d.number[t.id])

(* A cursor handed out was no further than the counters are now.           *)
Known(k) ==
    /\ k.s <= minted
    /\ restore = "none" /\ k.s = db.server => k.e <= db.epoch /\ k.u <= db.seq

Current(k) == restore = "none" /\ Fits(db, k)

(* A full answer on its way: what it has read is right from its cursor on, *)
(* though each table was read at another moment.                           *)
ReadingRight ==
    req.at = "reading" =>
        /\ Known(req.cursor)
        /\ req.page \in [Objects -> Nat]
        /\ Current(req.cursor) =>
            /\ "hidden" \notin req.left => req.hidden = HiddenFolders(db)
            /\ "folders" \notin req.left =>
                /\ "hidden" \notin req.left
                /\ \A o \in Folders : Right(db, req.page[o], o, req.cursor.u)
            /\ "ciphers" \notin req.left => \A o \in Ciphers : Right(db, req.page[o], o, req.cursor.u)
            /\ "sends" \notin req.left => \A o \in Sends : Right(db, req.page[o], o, req.cursor.u)

AnswerRight ==
    req.at = "answer" =>
        /\ Known(req.cursor)
        /\ Current(req.cursor) =>
            \A o \in Rows : Right(db, Applied(copy, req.page)[o], o, req.cursor.u)

IInv ==
    /\ TypeOK
    /\ Ordered(db) /\ \A b \in backups : Ordered(b)
    /\ Known(cursor)
    /\ NothingIsMissed
    /\ ReadingRight
    /\ AnswerRight

(* The invariant behind CursorMovesForward: an answer on its way, of the   *)
(* epochs a cursor that fits is of, is not behind that cursor.             *)
Ahead ==
    /\ req.at \in {"reading", "answer"} /\ Current(cursor)
    /\ req.cursor.s = cursor.s /\ req.cursor.e = cursor.e
    => req.cursor.u >= cursor.u

-----------------------------------------------------------------------------
(* What the code's comments and docs say, and these steps show it does not *)
(* keep.                                                                   *)

(* "what changes while the rest is read comes again in the next delta":    *)
(* of the profile, which is shown from the session read before.            *)
ProfileComesAgain ==
    restore = "none" /\ Fits(db, cursor) =>
        Right(db, copy[Profile], Profile, cursor.u)

(* "Every delta-sync cursor from before starts over": with the sessions    *)
(* ended in a transaction of its own, not when the server dies before it.  *)
EveryCursorStartsOver ==
    restore = "broken" /\ Fits(db, cursor) =>
        \A o \in Rows : Right(db, copy[o], o, cursor.u)
=============================================================================
