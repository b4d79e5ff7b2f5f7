-------------------------------- MODULE Suite --------------------------------
(***************************************************************************)
(* The suite vault: one space of an account, the records that the apps and *)
(* the web vault push to it and pull from it, and new keys for it.         *)
(*                                                                         *)
(* A request of the web vault is answered in one step and the answer is    *)
(* taken in another, or is lost on its way.  The app (its code is not      *)
(* here) keeps the rules of docs/uwu-api.md 6: it reads everything at      *)
(* once, and pushes, or gives a new key, on what it has read.  A record is *)
(* the number it has, the space it was sealed for (a new key is a new id,  *)
(* so the id stands for both), and its content: the number of the write    *)
(* that brought it, and the write its author had read.  Bytes, kinds,      *)
(* clocks, the extras key and restored backups (DeltaSync) are left out.   *)
(***************************************************************************)
EXTENDS Integers, FiniteSets, Sequences

CONSTANTS
    Browsers,         \* web vaults that show the space
    Ids,              \* ids of records
    None,
    Scenes,           \* what is there at the start, and what happens
    Page,             \* records in an answer to a pull (500)
    Quota,            \* suite.max_records
    MaxRounds,        \* rounds of one pull (10 000)
    MaxNumber,        \* bound: the account's change number (a scene may have a smaller one)
    MaxIds,           \* bound: ids of spaces that are drawn
    MaxSubmits, MaxDrops, MaxFailures    \* bounds: saves, lost connections, lost answers

ASSUME SuiteNumbers ==
    /\ {Page, MaxRounds} \subseteq Nat \ {0}
    /\ {Quota, MaxNumber, MaxIds, MaxSubmits, MaxDrops, MaxFailures} \subseteq Nat

Record == [seq : 0..MaxNumber, key : 1..MaxIds, write : 0..MaxNumber, read : 0..MaxNumber, gone : BOOLEAN]
Records == UNION {[K -> Record] : K \in SUBSET Ids}

\* It is no row of a space, and no space that is open.
ASSUME NoneAssumption == None \notin [id : Nat, epoch : Nat] \cup [id : Nat, recs : Records]

Happenings == {"app", "old", "rekey", "delete", "prune", "vault", "create", "drop", "retry", "lose"}
Plans == {<<"add">>, <<"edit">>, <<"remove">>, <<"add", "edit">>, <<"add", "add">>}

ASSUME SuiteScenes ==
    \A s \in Scenes :
       /\ DOMAIN s = {"made", "records", "up", "asks", "saves", "most"}
       /\ s.made \in BOOLEAN /\ s.records \in Seq(Ids) /\ Len(s.records) <= Quota
       /\ s.records # <<>> => s.made
       /\ s.made => MaxIds > 0 /\ Len(s.records) < s.most
       /\ s.up \in BOOLEAN /\ s.most \in 0..MaxNumber /\ s.asks \subseteq Happenings /\ s.saves \subseteq Plans

IsMap(f, keys, values) == DOMAIN f \subseteq keys /\ f \in [DOMAIN f -> values]
Empty == [r \in {} |-> None]
With(f, x, v) == [y \in DOMAIN f \cup {x} |-> IF y = x THEN v ELSE f[y]]
Only(f, S) == [x \in DOMAIN f \cap S |-> f[x]]

VARIABLES
    scene,
    space,            \* suite_spaces: the space, if there is one
    rec,              \* suite_records, tombstones too
    number, pruned,   \* users.seq and users.pruned_seq
    tombs,            \* numbers of the tombstones of the rest of the account
    drawn,            \* ids of spaces drawn so far
    app,              \* what the app has read and is about to write
    page,             \* the pages of the web vault
    failures          \* answers lost so far

server == <<space, rec, number, pruned, tombs>>
vars == <<scene, server, drawn, app, page, failures>>

Nothing == [reset |-> FALSE, recs |-> Empty, cursor |-> 0, more |-> FALSE]
NoBatch == [at |-> "none", todo |-> <<>>, target |-> None, read |-> 0, sealed |-> <<>>, named |-> 0,
            took |-> Empty]

\* at, wants: the load or the creation that runs, and those in line behind it (taken in any order
\* here); batch: the save that runs beside them; held: what the module has open; shown: what the
\* page was last given; said: it was told that a save or a creation failed; astray: it goes on from
\* a cursor that says nothing of the records it holds (read by properties only).
Loading == [status |-> "loading", cursor |-> 0, id |-> 0, held |-> None, shown |-> Empty,
            wants |-> {"load"}, at |-> "idle", fresh |-> FALSE, making |-> FALSE, round |-> 0,
            again |-> FALSE, found |-> 0, answer |-> Nothing,
            batch |-> NoBatch, submits |-> 0, link |-> "new", drops |-> 0, said |-> FALSE, astray |-> FALSE]

Init ==
    /\ scene \in Scenes
    /\ space = IF scene.made THEN [id |-> 1, epoch |-> 0] ELSE None
    /\ number = IF scene.made THEN 1 + Len(scene.records) ELSE 0
    /\ rec = [r \in {scene.records[i] : i \in DOMAIN scene.records} |->
                 LET n == 1 + CHOOSE i \in DOMAIN scene.records : scene.records[i] = r
                 IN  [seq |-> n, key |-> 1, write |-> n, read |-> 0, gone |-> FALSE]]
    /\ pruned = 0 /\ tombs = {} /\ failures = 0 /\ app = None
    /\ drawn = IF scene.made THEN 1 ELSE 0
    /\ page = [b \in Browsers |-> [Loading EXCEPT !.link = IF scene.up THEN "up" ELSE "new"]]

Asked(what) == what \in scene.asks

-----------------------------------------------------------------------------
(* The server.                                                             *)

\* suite_pull: from before the key, or before a tombstone that was forgotten, over again; else the
\* records above `since` in the order of their numbers, a page of them.
FromBefore(since) == since > 0 /\ (since < space.epoch \/ since < pruned)

Above(since) == {r \in DOMAIN rec : rec[r].seq > since}

FirstOf(since) == {r \in Above(since) : Cardinality({q \in Above(since) : rec[q].seq <= rec[r].seq}) <= Page}

LastNumber(since, rs) ==
    IF rs = {} THEN since
    ELSE CHOOSE n \in {rec[r].seq : r \in rs} : \A r \in rs : rec[r].seq <= n

SuitePullToNow(since) ==
    IF FromBefore(since) THEN [Nothing EXCEPT !.reset = TRUE, !.cursor = since]
    ELSE [reset |-> FALSE, recs |-> Only(rec, FirstOf(since)), cursor |-> number,
          more |-> FirstOf(since) # Above(since)]

SuitePull(since) ==
    IF FromBefore(since) THEN [Nothing EXCEPT !.reset = TRUE, !.cursor = since]
    ELSE [reset |-> FALSE, recs |-> Only(rec, FirstOf(since)), cursor |-> LastNumber(since, FirstOf(since)),
          more |-> FirstOf(since) # Above(since)]

\* suite_push: what is based on the record that is here, or is new, is taken.
Takes(e) == e.id \in DOMAIN rec => rec[e.id].seq = e.base
IdsOf(sealed) == {sealed[i].id : i \in DOMAIN sealed}
Accepted(sealed) == {i \in DOMAIN sealed : Takes(sealed[i])}
New(sealed) == IdsOf(sealed) \ DOMAIN rec

FitsEach(sealed) == Cardinality(DOMAIN rec) < Quota
Fits(sealed) == New(sealed) # {} => Cardinality(DOMAIN rec \cup New(sealed)) <= Quota

MayPush(sealed, named) ==
    /\ space # None /\ (named # 0 => named = space.id)
    /\ Fits(sealed)

\* Each takes the next number.
NextSeq(sealed, i) == number + Cardinality({j \in Accepted(sealed) : j <= i})

Written(sealed) ==
    [r \in {sealed[i].id : i \in Accepted(sealed)} |->
        LET i == CHOOSE i \in Accepted(sealed) : sealed[i].id = r
        IN  [seq |-> NextSeq(sealed, i), key |-> sealed[i].key, write |-> NextSeq(sealed, i),
             read |-> sealed[i].read, gone |-> sealed[i].gone]]

SuitePush(sealed) ==
    LET new == Written(sealed)
    IN  /\ number + Cardinality(Accepted(sealed)) <= scene.most
        /\ rec' = [r \in DOMAIN rec \cup DOMAIN new |-> IF r \in DOMAIN new THEN new[r] ELSE rec[r]]
        /\ number' = number + Cardinality(Accepted(sealed))
        /\ UNCHANGED <<space, pruned, tombs>>

\* create_suite_space.
CreateSpace(id) ==
    /\ space = None /\ number < scene.most
    /\ number' = number + 1
    /\ space' = [id |-> id, epoch |-> 0]
    /\ UNCHANGED <<rec, pruned, tombs>>

\* rekey_suite_space: every record that is here, each on its number; in the order of the request.
SomeStale(recs) == DOMAIN recs \subseteq DOMAIN rec /\ \A r \in DOMAIN recs : recs[r].seq = rec[r].seq

MayRekey(recs) == SomeStale(recs) /\ DOMAIN recs = DOMAIN rec

RekeySpace(id, recs) ==
    /\ space # None /\ MayRekey(recs) /\ number + Cardinality(DOMAIN recs) < scene.most
    /\ \E order \in [DOMAIN recs -> 1..Cardinality(DOMAIN recs)] :
          /\ \A q, r \in DOMAIN recs : order[q] = order[r] => q = r
          /\ rec' = [r \in DOMAIN rec |->
                        IF r \in DOMAIN recs THEN [recs[r] EXCEPT !.seq = number + order[r], !.key = id]
                        ELSE rec[r]]
    /\ number' = number + Cardinality(DOMAIN recs) + 1
    /\ space' = [id |-> id, epoch |-> number']
    /\ UNCHANGED <<pruned, tombs>>

\* notify::live: everybody of the account who is connected, but for who did it; live.ts waits a
\* moment and pulls.
Tell(pages, acting) ==
    [b \in Browsers |->
        IF b # acting /\ pages[b].link = "up" THEN [pages[b] EXCEPT !.wants = @ \cup {"load"}] ELSE pages[b]]

-----------------------------------------------------------------------------
(* What others do.                                                         *)

\* The web vault's settings on another device, or the app: the space goes, or is made.
DeleteSpace ==
    /\ Asked("delete") /\ space # None
    /\ space' = None /\ rec' = Empty
    /\ page' = Tell(page, None)
    /\ UNCHANGED <<scene, number, pruned, tombs, drawn, app, failures>>

AppCreates ==
    /\ Asked("app") /\ drawn < MaxIds
    /\ CreateSpace(drawn + 1) /\ drawn' = drawn + 1
    /\ page' = Tell(page, None)
    /\ UNCHANGED <<scene, app, failures>>

\* Ids are random: a new one is nobody's.
Used ==
    DOMAIN rec \cup (IF app = None THEN {} ELSE DOMAIN app.recs)
    \cup UNION {DOMAIN page[b].shown \cup DOMAIN page[b].answer.recs
                \cup (IF page[b].held = None THEN {} ELSE DOMAIN page[b].held.recs)
                \cup IdsOf(page[b].batch.sealed) : b \in Browsers}
HasNew == Ids \ Used # {}
NewId == CHOOSE r \in Ids \ Used : TRUE

\* The rest of the account: something is deleted.
VaultDeletes ==
    /\ Asked("vault") /\ number < scene.most
    /\ number' = number + 1 /\ tombs' = tombs \cup {number'}
    /\ UNCHANGED <<scene, space, rec, pruned, drawn, app, page, failures>>

\* prune_tombstones: those written until some moment, long enough ago (TOMBSTONE_DAYS) that no
\* answer to a push still shows what they deleted.
Old(n) == {r \in DOMAIN rec : rec[r].gone /\ rec[r].seq <= n}

LongAgo(n) ==
    \A b \in Browsers : LET took == page[b].batch.took IN \A r \in DOMAIN took \cap Old(n) : took[r].gone

PruneTombstones ==
    /\ Asked("prune")
    /\ \E n \in 1..number :
          LET going == {m \in tombs : m <= n} \cup {rec[r].seq : r \in Old(n)}
          IN  /\ n \in going /\ LongAgo(n)
              /\ pruned' = IF n > pruned THEN n ELSE pruned
              /\ tombs' = tombs \ going
              /\ rec' = Only(rec, DOMAIN rec \ Old(n))
    /\ UNCHANGED <<scene, space, number, drawn, app, page, failures>>

\* It reads everything, and edits, deletes or adds a record, or seals all of them anew.
AppReads ==
    /\ space # None /\ app = None
    /\ \/ /\ Asked("app") \/ Asked("old")
          /\ \E r \in DOMAIN rec \cup (IF HasNew THEN {NewId} ELSE {}), gone \in BOOLEAN :
                LET known == r \in DOMAIN rec
                IN  /\ IF known THEN ~rec[r].gone ELSE ~gone
                    /\ app' = [id |-> space.id, rekey |-> FALSE, recs |-> Only(rec, {r}),
                               sealed |-> <<[id |-> r, base |-> IF known THEN rec[r].seq ELSE 0, key |-> space.id,
                                             read |-> IF known THEN rec[r].write ELSE 0, gone |-> gone]>>]
       \/ /\ Asked("rekey") /\ drawn < MaxIds
          /\ app' = [id |-> space.id, rekey |-> TRUE, recs |-> rec, sealed |-> <<>>]
    /\ UNCHANGED <<scene, server, drawn, page, failures>>

\* An app from before 0.6.0-beta.2 does not say which space it sealed for.  What the server refuses
\* is read again.
AppPushes ==
    /\ app # None /\ ~app.rekey /\ app' = None
    /\ \E named \in (IF Asked("app") THEN {app.id} ELSE {}) \cup (IF Asked("old") THEN {0} ELSE {}) :
          IF MayPush(app.sealed, named) THEN SuitePush(app.sealed) ELSE UNCHANGED server
    /\ page' = IF rec' # rec THEN Tell(page, None) ELSE page
    /\ UNCHANGED <<scene, drawn, failures>>

AppRekeys ==
    /\ app # None /\ app.rekey /\ app' = None
    /\ \/ drawn < MaxIds /\ RekeySpace(drawn + 1, app.recs) /\ drawn' = drawn + 1 /\ page' = Tell(page, None)
       \/ ~(space # None /\ MayRekey(app.recs)) /\ UNCHANGED <<server, drawn, page>>
    /\ UNCHANGED <<scene, failures>>

-----------------------------------------------------------------------------
(* The web vault's module: what it has open.                               *)

Becomes(b, p) == page' = [page EXCEPT ![b] = p]

\* take: the newer number wins.
TakesNewer(recs, r, e) == r \in DOMAIN recs => e.seq > recs[r].seq

Taken(recs, new) ==
    [r \in DOMAIN recs \cup DOMAIN new |->
        IF r \in DOMAIN new /\ TakesNewer(recs, r, new[r]) THEN new[r] ELSE recs[r]]

Merged(held, new) == [held EXCEPT !.recs = Taken(held.recs, new)]

\* records: what opens with the key, and is not deleted.
Readable(held) == [r \in {r \in DOMAIN held.recs : ~held.recs[r].gone /\ held.recs[r].key = held.id} |-> held.recs[r].write]

\* open_space: the records stay if it is the same space; open() forgets them when it reads afresh.
OpenSpace(held, id, fresh) ==
    IF held # None /\ held.id = id /\ ~fresh THEN held ELSE [id |-> id, recs |-> Empty]

-----------------------------------------------------------------------------
(* Loads, pulls and the making of the space, one after the other.          *)

Ended(p) == [p EXCEPT !.at = "idle", !.fresh = FALSE, !.making = FALSE, !.round = 0, !.again = FALSE,
                      !.found = 0, !.answer = Nothing]
Failed(p) == [Ended(p) EXCEPT !.status = "error"]
Pulling(p) == [p EXCEPT !.at = "pull", !.round = 0, !.again = FALSE, !.answer = Nothing, !.found = 0]

\* loadSpace and createSpace: a space that is open is only pulled.
Begin(b) ==
    /\ page[b].at = "idle"
    /\ \E work \in page[b].wants :
          LET p == [page[b] EXCEPT !.wants = @ \ {work}, !.said = FALSE]
          IN  \/ /\ work # "create"
                 /\ Becomes(b, IF work = "load" /\ p.status = "open" THEN Pulling(p)
                               ELSE [p EXCEPT !.at = "list", !.fresh = work = "fresh"])
                 /\ UNCHANGED drawn
              \/ /\ work = "create" /\ drawn < MaxIds /\ drawn' = drawn + 1
                 /\ Becomes(b, [p EXCEPT !.at = "put", !.making = TRUE, !.held = [id |-> drawn', recs |-> Empty]])
    /\ UNCHANGED <<scene, server, app, failures>>

\* The list of spaces.
Listing(b) ==
    /\ page[b].at = "list"
    /\ Becomes(b, [page[b] EXCEPT !.at = "listed", !.found = IF space = None THEN 0 ELSE space.id])
    /\ UNCHANGED <<scene, server, drawn, app, failures>>

Listed(b) ==
    LET p == page[b]
        fresh == p.fresh \/ p.found # p.id
    IN  /\ p.at = "listed"
        /\ Becomes(b, IF p.found = 0 THEN [Ended(p) EXCEPT !.status = "none", !.cursor = 0]
                      ELSE [Pulling(p) EXCEPT !.held = OpenSpace(p.held, p.found, fresh), !.id = p.found,
                                              !.cursor = IF fresh THEN 0 ELSE p.cursor,
                                              !.astray = ~fresh /\ (p.astray \/ p.held.id # p.found)])
        /\ UNCHANGED <<scene, server, drawn, app, failures>>

\* PUT: whoever was quicker, its space is taken.
Putting(b) ==
    LET p == [page[b] EXCEPT !.at = "list", !.fresh = TRUE]
    IN  /\ page[b].at = "put"
        /\ \/ CreateSpace(page[b].held.id) /\ page' = Tell([page EXCEPT ![b] = p], b)
           \/ space # None /\ Becomes(b, p) /\ UNCHANGED server
        /\ UNCHANGED <<scene, drawn, app, failures>>

\* What it holds of the space, and the server has forgotten.
KeepsForgotten(p) ==
    \E r \in DOMAIN p.held.recs \ DOMAIN rec : ~p.held.recs[r].gone /\ p.held.recs[r].key = p.held.id

Pull(b) ==
    LET p == page[b]
    IN  /\ p.at = "pull"
        /\ Becomes(b, IF p.round = MaxRounds \/ space = None THEN Failed(p)
                      ELSE [p EXCEPT !.at = "page", !.answer = SuitePull(p.cursor),
                                     !.astray = @ \/ (p.cursor = 0 /\ KeepsForgotten(p))])
        /\ UNCHANGED <<scene, server, drawn, app, failures>>

\* A page is merged, and the cursor moves on; a server that goes nowhere is left.
PageTaken(b) ==
    LET p == page[b]
        a == p.answer
        q == [p EXCEPT !.answer = Nothing, !.round = @ + 1, !.at = "pull"]
    IN  /\ p.at = "page"
        /\ Becomes(b, IF a.reset
                      THEN IF p.again THEN Failed(p)
                           ELSE [q EXCEPT !.again = TRUE, !.held.recs = Empty, !.cursor = 0, !.astray = FALSE]
                      ELSE LET held == Merged(p.held, a.recs)
                           IN  IF a.more /\ a.cursor <= p.cursor THEN [Failed(p) EXCEPT !.held = held]
                               ELSE [q EXCEPT !.again = FALSE, !.held = held, !.cursor = a.cursor,
                                              !.at = IF a.more THEN "pull" ELSE "show"])
        /\ UNCHANGED <<scene, server, drawn, app, failures>>

Show(b) ==
    /\ page[b].at = "show"
    /\ Becomes(b, [Ended(page[b]) EXCEPT !.status = "open", !.shown = Readable(page[b].held)])
    /\ UNCHANGED <<scene, server, drawn, app, failures>>

Loses == Asked("lose") /\ failures < MaxFailures

\* A request or its answer is lost: an error is shown; but a creation that fails says so and leaves
\* everything as it is.
Lost(b) ==
    LET p == page[b]
        q == [Ended(p) EXCEPT !.said = TRUE]
    IN  /\ Loses /\ failures' = failures + 1
        /\ \/ p.at \in {"list", "pull"} /\ Becomes(b, Failed(p)) /\ UNCHANGED server
           \/ p.at = "put" /\ Becomes(b, q) /\ UNCHANGED server
           \/ p.at = "put" /\ CreateSpace(p.held.id) /\ page' = Tell([page EXCEPT ![b] = q], b)
        /\ UNCHANGED <<scene, drawn, app>>

-----------------------------------------------------------------------------
(* A save: a batch is sealed, pushed and applied beside the queue.         *)

Queued(p, work) == [p EXCEPT !.wants = @ \cup {work}]
Over(p) == [p EXCEPT !.batch = NoBatch]
FailedSave(p) == [Over(p) EXCEPT !.said = TRUE]

\* Submit: the page works on the records it was last given; add: an id nobody has.
Submit(b) ==
    LET p == page[b]
    IN  /\ p.status = "open" /\ p.batch = NoBatch /\ p.submits < MaxSubmits
        /\ \E plan \in scene.saves :
              \E t \in IF plan[Len(plan)] = "add" THEN {None} ELSE DOMAIN p.shown :
                 Becomes(b, [p EXCEPT !.submits = @ + 1,
                                      !.batch = [NoBatch EXCEPT !.at = "seal", !.todo = plan, !.target = t,
                                                                !.read = IF t = None THEN 0 ELSE p.shown[t]]])
        /\ UNCHANGED <<scene, server, drawn, app, failures>>

\* seal_new, seal_edit, seal_tombstone: on the record the module has now, if it opens.
Known(p, r) == r \in DOMAIN p.held.recs /\ p.held.recs[r].key = p.held.id

Seal(b) ==
    LET p == page[b]
        t == p.batch.target
        op == Head(p.batch.todo)
        rest == Tail(p.batch.todo)
        sealed(e) == [p EXCEPT !.batch.sealed = Append(@, e), !.batch.todo = rest,
                               !.batch.at = IF rest = <<>> THEN "ask" ELSE "seal"]
        on(gone) == [id |-> t, base |-> p.held.recs[t].seq, key |-> p.held.id, read |-> p.batch.read, gone |-> gone]
    IN  /\ p.batch.at = "seal"
        /\ \/ /\ op = "add"
              /\ HasNew
              /\ Becomes(b, sealed([id |-> NewId, base |-> 0, key |-> p.held.id, read |-> 0, gone |-> FALSE]))
           \/ op # "add" /\ Known(p, t) /\ Becomes(b, sealed(on(op = "remove")))
           \/ op # "add" /\ ~Known(p, t) /\ Becomes(b, FailedSave(p))
        /\ UNCHANGED <<scene, server, drawn, app, failures>>

\* push_request: it names the space that is open now.
Ask(b) ==
    /\ page[b].batch.at = "ask"
    /\ Becomes(b, [page[b] EXCEPT !.batch.at = "sent", !.batch.named = page[b].held.id,
                                  !.batch.target = None, !.batch.read = 0])
    /\ UNCHANGED <<scene, server, drawn, app, failures>>

\* What the answer brings: the accepted records with their new numbers, and the server's others.
Answered(sealed) ==
    LET new == Written(sealed)
    IN  [r \in IdsOf(sealed) |-> IF r \in DOMAIN new THEN new[r] ELSE rec[r]]

Pushed(b) ==
    LET p == page[b]
        envelopes == p.batch.sealed
        told(q) == IF number' > number THEN Tell([page EXCEPT ![b] = q], b) ELSE [page EXCEPT ![b] = q]
    IN  /\ p.batch.at = "sent"
        /\ \/ /\ MayPush(envelopes, p.batch.named) /\ SuitePush(envelopes)
              /\ page' = told([p EXCEPT !.batch = [NoBatch EXCEPT !.at = "answered", !.took = Answered(envelopes)]])
              /\ UNCHANGED failures
           \/ /\ MayPush(envelopes, p.batch.named) /\ SuitePush(envelopes)
              /\ Loses /\ failures' = failures + 1
              /\ page' = told(FailedSave(p))
           \/ /\ ~MayPush(envelopes, p.batch.named) /\ UNCHANGED <<server, failures>>
              /\ Becomes(b, IF space # None /\ space.id # p.batch.named THEN Queued(FailedSave(p), "fresh")
                            ELSE FailedSave(p))
        /\ UNCHANGED <<scene, drawn, app>>

\* apply_push, show, and what else changed meanwhile.
Applied(b) ==
    LET p == page[b]
        held == Merged(p.held, p.batch.took)
    IN  /\ p.batch.at = "answered"
        /\ Becomes(b, Queued([p EXCEPT !.held = held, !.shown = Readable(held), !.status = "open",
                                       !.batch = NoBatch], "load"))
        /\ UNCHANGED <<scene, server, drawn, app, failures>>

-----------------------------------------------------------------------------
(* The page: connected, clicked.                                           *)

\* The first connection pulls nothing, every later one does.
ConnectQuietly(b) ==
    /\ page[b].link # "up"
    /\ Becomes(b, [page[b] EXCEPT !.link = "up"])
    /\ UNCHANGED <<scene, server, drawn, app, failures>>

Connect(b) ==
    /\ page[b].link # "up"
    /\ Becomes(b, [page[b] EXCEPT !.link = "up", !.wants = IF page[b].link = "down" THEN @ \cup {"load"} ELSE @])
    /\ UNCHANGED <<scene, server, drawn, app, failures>>

Drop(b) ==
    /\ Asked("drop") /\ page[b].link = "up" /\ page[b].drops < MaxDrops
    /\ Becomes(b, [page[b] EXCEPT !.link = "down", !.drops = @ + 1])
    /\ UNCHANGED <<scene, server, drawn, app, failures>>

Retry(b) ==
    /\ Asked("retry") /\ page[b].status = "error" /\ page[b].wants = {}
    /\ Becomes(b, Queued(page[b], "fresh"))
    /\ UNCHANGED <<scene, server, drawn, app, failures>>

Create(b) ==
    /\ Asked("create") /\ page[b].status = "none" /\ drawn < MaxIds
    /\ ~page[b].making /\ "create" \notin page[b].wants
    /\ Becomes(b, Queued(page[b], "create"))
    /\ UNCHANGED <<scene, server, drawn, app, failures>>

Queue(b) == Begin(b) \/ Listing(b) \/ Listed(b) \/ Putting(b) \/ Pull(b) \/ PageTaken(b) \/ Show(b)
Save(b) == Seal(b) \/ Ask(b) \/ Pushed(b) \/ Applied(b)

Next ==
    \/ DeleteSpace \/ AppCreates \/ VaultDeletes \/ PruneTombstones \/ AppReads \/ AppPushes \/ AppRekeys
    \/ \E b \in Browsers :
          \/ Queue(b) \/ Save(b) \/ Lost(b)
          \/ Submit(b) \/ Connect(b) \/ Drop(b) \/ Retry(b) \/ Create(b)

Spec == Init /\ [][Next]_vars

\* The page goes on by itself, waits a change out, and connects again.
Fairness ==
    \A b \in Browsers :
       WF_vars(Queue(b)) /\ WF_vars(Save(b)) /\ WF_vars(Connect(b))

FairSpec == Spec /\ Fairness

-----------------------------------------------------------------------------
(* Properties.                                                             *)

(* The rows are what they are declared as, two records never have one     *)
(* number, and the account never keeps more records than it may, whatever *)
(* is pushed together and by whom (suite_push, rekey_suite_space).        *)
SuiteInv ==
    /\ space \in {None} \cup [id : 1..MaxIds, epoch : 0..MaxNumber]
    /\ IsMap(rec, Ids, Record) /\ number \in 0..MaxNumber /\ pruned \in 0..number
    /\ \A r \in DOMAIN rec : rec[r].seq \in 1..number
    /\ \A q, r \in DOMAIN rec : rec[q].seq = rec[r].seq => q = r
    /\ Cardinality(DOMAIN rec) <= Quota

(* What a page holds up to its cursor: it lacks nothing, and keeps nothing *)
(* that has gone, unless its next pull is sent back to the start.         *)
Complete(recs, cursor) ==
    /\ \A r \in DOMAIN rec : rec[r].seq <= cursor => r \in DOMAIN recs /\ recs[r] = rec[r]
    /\ \A r \in DOMAIN recs \ DOMAIN rec : recs[r].gone \/ recs[r].key # space.id \/ cursor < pruned

HasTheSpace(p) == p.held # None /\ space # None /\ p.held.id = space.id

(* As long as a page has the space open that there is, it misses nothing: *)
(* pages, pushes of its own that are applied between them, conflicts,     *)
(* resets and reopened spaces lose no change - but where its cursor is    *)
(* not about what it holds (astray).                                      *)
NothingBelowIsMissed ==
    \A b \in Browsers :
       HasTheSpace(page[b]) /\ ~page[b].astray => Complete(page[b].held.recs, page[b].cursor)

(* open of sync.ts: who opens another space than the one read forgets and *)
(* starts over; docs/uwu-api.md 6: a cursor too old is told to reset.     *)
NobodyIsAstray == \A b \in Browsers : ~page[b].astray

(* A new key brings every record along as it was: none is left under the  *)
(* old key, none is lost, and no write the app had not read is undone.    *)
RekeyBringsAll ==
    [][space # None /\ space' # None /\ space'.id # space.id =>
          /\ DOMAIN rec' = DOMAIN rec
          /\ \A r \in DOMAIN rec : rec'[r].key = space'.id /\ rec'[r].write = rec[r].write]_vars

(* A page that was connected before it first read comes to show what the  *)
(* server holds, or says that it could not, however its pulls, saves and  *)
(* lost connections fall between the others' writes - while the space     *)
(* keeps its key.                                                         *)
OtherSpace(p) == p.held # None /\ p.held.id # p.id

Shows(b) ==
    \/ page[b].status = "error" \/ page[b].said \/ page[b].astray \/ OtherSpace(page[b])
    \/ page[b].status = "none" /\ space = None
    \/ /\ page[b].status = "open" /\ space # None
       /\ page[b].shown = [r \in {r \in DOMAIN rec : ~rec[r].gone} |-> rec[r].write]

ComesToShow ==
    scene.up /\ scene.asks \cap {"rekey", "delete", "prune", "old"} = {} =>
        <>[](\A b \in Browsers : Shows(b))

(* No save undoes what its author had not read: docs/uwu-api.md 6.7 says  *)
(* of what changed elsewhere "never silently over it".                    *)
NeverSilently ==
    [][\A r \in DOMAIN rec \cap DOMAIN rec' :
          rec'[r].write # rec[r].write => rec'[r].read = rec[r].write]_vars

(* A pull comes to its end before it is given up (sync.ts): whoever is    *)
(* sent back to the start is not sent back from there again.              *)
PullsEnd == \A b \in Browsers : page[b].round < MaxRounds

(* Every record is sealed for the space as it is.                         *)
SealedForTheSpace == space # None => \A r \in DOMAIN rec : rec[r].key = space.id
=============================================================================
