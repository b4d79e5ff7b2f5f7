-------------------------------- MODULE Items --------------------------------
(***************************************************************************)
(* The items of one account, the earlier states that are kept of them, and *)
(* the rotation of the key they are all under.  A change reads the row,    *)
(* and writes the whole row back in a transaction of its own; what it      *)
(* overwrites becomes a version.  A rotation is put together by a client   *)
(* from what it synced, and compared with what is there when it commits.   *)
(*                                                                         *)
(* What an item holds is a text nobody wrote before, under the key the     *)
(* client had, with the day of its password.  One clock serves revisions,  *)
(* the age of versions and the days of reminders.  Folders and travel mode *)
(* are DeltaSync's, organisations' items are Organisations'.               *)
(***************************************************************************)
EXTENDS Asking, FiniteSets, Functions

CONSTANTS
    Items,
    Rules,       \* the rules the admin may set: how many versions, how long, paused
    Scenes,      \* bound: what is asked for in one behaviour, and how often
    Late,        \* a copy older than this is out of date
    Month,       \* after how long a reminder that repeats comes again
    MaxKeys, MaxTime   \* bounds

Rule == [perItem : Nat, days : Nat, paused : BOOLEAN]

ASSUME ItemBounds == {Late, Month, MaxKeys, MaxTime} \subseteq Nat
ASSUME RulesAssumption == Rules \subseteq Rule
ASSUME ItemScenes == \A s \in Scenes : DOMAIN s = {"asks", "most"} /\ s.most \in Nat

Body == [text : Nat, key : Nat, day : Nat]
Row == [body : Body, rev : Nat, trashed : BOOLEAN]
Reminder == [of : Items, due : Nat, every : BOOLEAN, mailed : BOOLEAN]

ASSUME NoneAssumption == None \notin Row \cup Rules \cup Reminder

VARIABLES
    row,       \* the item's row, or None
    versions,  \* cipher_versions, by the number of the row
    rule,      \* the rule for versions, in memory
    userKey,   \* the number of the account's key
    reminder,  \* the reminder of an item, or None
    mailing,   \* what the hourly task is at
    sweep,     \* the rule the daily sweep has read
    now,
    texts, keys, made,  \* counted: texts, keys, versions
    replaced,  \* what was overwritten, by the number of its version
    strays,    \* what was written under a key that was not the account's any more
    surprised, \* a restore replaced what its client had not seen
    sent       \* the due dates a mail went out for

kept == <<row, versions, reminder>>
ghosts == <<strays, surprised, sent>>
itemsVars == <<scene, kept, rule, userKey, mailing, sweep, request, now, texts, keys, made, asked,
               replaced, ghosts>>

There == {c \in Items : row[c] # None}

(***************************************************************************)
(* Versions                                                                *)
(***************************************************************************)

(* The rules a write could still go by.                                    *)
RulesAbout ==
    {rule} \cup ({sweep} \ {None})
           \cup {request[q].rule : q \in {p \in Requests : request[p].at \in {"saving", "restoring"}}}

(* prune: the old ones go, and those past the number, the oldest first.    *)
InTime(at, r) == r.days = 0 \/ at + r.days >= now
NewerIn(vs, ids, i) == {j \in ids : j > i /\ vs[j].of = vs[i].of}
Newer(vs, i) == Cardinality(NewerIn(vs, DOMAIN vs, i))

(* Not: the sweep goes on while the feature is off.                        *)
StayWhilePaused(vs, r) ==
    LET young == {i \in DOMAIN vs : InTime(vs[i].at, r)}
    IN  {i \in young : Cardinality(NewerIn(vs, young, i)) < r.perItem}

Stay(vs, r) ==
    LET young == {i \in DOMAIN vs : InTime(vs[i].at, r)}
    IN  IF r.paused THEN DOMAIN vs
        ELSE {i \in young : Cardinality(NewerIn(vs, young, i)) < r.perItem}

Pruned(vs, r) == Restrict(vs, Stay(vs, r))
PrunedOf(vs, r, c) == Restrict(vs, {i \in DOMAIN vs : vs[i].of = c => i \in Stay(vs, r)})

EmptyMap == [x \in {} |-> None]
With(f, x, v) == [y \in DOMAIN f \cup {x} |-> IF y = x THEN v ELSE f[y]]

Keeps(r, before, body) == ~r.paused /\ r.perItem > 0 /\ before.body # body

(* changed: the state before becomes a version, if it was another one.     *)
StateChanged(c, r, body) ==
    LET before == row[c].body
        version == [of |-> c, body |-> before, at |-> now]
        entry == [of |-> c, text |-> before.text, at |-> now, gone |-> FALSE, rules |-> RulesAbout \cup {r}]
    IN  IF row[c] = None \/ ~Keeps(r, row[c], body)
        THEN UNCHANGED <<versions, made, replaced>>
        ELSE /\ versions' = PrunedOf(With(versions, made + 1, version), r, c)
             /\ made' = made + 1
             /\ replaced' = With(replaced, made + 1, entry)

(* password_changed: a new password moves the reminder on, or it is done.  *)
PasswordChanged(c, body) ==
    IF row[c] = None \/ reminder = None \/ reminder.of # c \/ body.day <= row[c].body.day
    THEN UNCHANGED reminder
    ELSE reminder' = IF reminder.every
                     THEN [reminder EXCEPT !.due = body.day + Month, !.mailed = FALSE]
                     ELSE IF reminder.due <= now THEN None ELSE reminder

Strayed(body) ==
    strays' = IF body.key = userKey THEN strays ELSE strays \cup {body.text}

(***************************************************************************)
(* New items and changes of one                                            *)
(***************************************************************************)
NewBody(day) == [text |-> texts + 1, key |-> userKey, day |-> day]
NextText == texts' = texts + 1

Fresh(c) == c \notin There /\ ~\E i \in DOMAIN replaced : replaced[i].of = c

CheckRevision(known, read) == known # None => read.rev <= known + Late

Saves(q, c, new) == Does(q, [at |-> "saving", of |-> c, row |-> new, rule |-> rule])

(* create, create_wrapped: of an id that was never there.                  *)
Create(q) ==
    /\ Asks("create") /\ request[q] = Ready /\ NextText
    /\ \E c \in Items : /\ Fresh(c)
                        /\ Saves(q, c, [body |-> NewBody(now), rev |-> 0, trashed |-> FALSE])
    /\ UNCHANGED <<scene, kept, rule, userKey, mailing, sweep, now, keys, made, replaced, ghosts>>

(* update: the client's content over the row as it was read, with a new    *)
(* password or the one there was.                                          *)
Update(q) ==
    /\ Asks("update") /\ request[q] = Ready /\ NextText
    /\ \E c \in There, known \in {None} \cup 0..now :
          /\ CheckRevision(known, row[c])
          /\ \E day \in {row[c].body.day, now} :
                Saves(q, c, [row[c] EXCEPT !.body = NewBody(day)])
    /\ UNCHANGED <<scene, kept, rule, userKey, mailing, sweep, now, keys, made, replaced, ghosts>>

(* partial: folder and star are not told apart here; the row is written    *)
(* whole, as it was read.                                                  *)
Partial(q) ==
    /\ Asks("partial") /\ request[q] = Ready
    /\ \E c \in There : Saves(q, c, row[c])
    /\ UNCHANGED <<scene, kept, rule, userKey, mailing, sweep, now, texts, keys, made, replaced,
                   ghosts>>

(* Not: what is written keeps the revision it was read with.               *)
SaveRowUndated(q, r) ==
    LET c == request[q].of
        new == request[q].row
    IN  /\ row' = [row EXCEPT ![c] = new]
        /\ StateChanged(c, r, new.body)
        /\ PasswordChanged(c, new.body)
        /\ Strayed(new.body)

(* save_cipher_with: the rule is read on the way into the transaction.     *)
SaveRow(q, r) ==
    LET c == request[q].of
        new == [request[q].row EXCEPT !.rev = now]
    IN  /\ row' = [row EXCEPT ![c] = new]
        /\ StateChanged(c, r, new.body)
        /\ PasswordChanged(c, new.body)
        /\ Strayed(new.body)

SaveItem(q) ==
    /\ request[q].at = "saving"
    /\ \E r \in {request[q].rule, rule} : SaveRow(q, r)
    /\ Does(q, Ready)
    /\ UNCHANGED <<scene, rule, userKey, mailing, sweep, now, texts, keys, asked, surprised, sent>>

(* import: new ids only, all of them or none, and no versions.             *)
Imported(c) == row' = [row EXCEPT ![c] = [body |-> NewBody(now), rev |-> now, trashed |-> FALSE]]

ImportItem ==
    /\ Asks("import") /\ NextText
    /\ \E c \in Items : Fresh(c) /\ Imported(c)
    /\ UNCHANGED <<scene, versions, reminder, rule, userKey, mailing, sweep, request, now, keys, made,
                   replaced, ghosts>>

(***************************************************************************)
(* Trash, archive, move, delete                                            *)
(***************************************************************************)
(* bulk: what an item holds stays, its revision moves on.                  *)
Marked(c, trashed) == row' = [row EXCEPT ![c].trashed = trashed, ![c].rev = now]

Bulk ==
    /\ Asks("bulk")
    /\ \E c \in There, trashed \in BOOLEAN : Marked(c, trashed)
    /\ UNCHANGED <<scene, versions, reminder, rule, userKey, mailing, sweep, request, now, texts, keys,
                   made, replaced, ghosts>>

(* move_ciphers, into a folder or out of it.                               *)
Moved(which) == row' = [c \in Items |-> IF c \in which THEN [row[c] EXCEPT !.rev = now] ELSE row[c]]

Move ==
    /\ Asks("bulk")
    /\ \E which \in SUBSET There \ {{}} : Moved(which)
    /\ UNCHANGED <<scene, versions, reminder, rule, userKey, mailing, sweep, request, now, texts, keys,
                   made, replaced, ghosts>>

(* The rows of versions and reminders go with their item.                  *)
Gone(which) ==
    /\ row' = [c \in Items |-> IF c \in which THEN None ELSE row[c]]
    /\ versions' = Restrict(versions, {i \in DOMAIN versions : versions[i].of \notin which})
    /\ replaced' = [i \in DOMAIN replaced |->
                       [replaced[i] EXCEPT !.gone = @ \/ replaced[i].of \in which]]
    /\ reminder' = IF reminder # None /\ reminder.of \in which THEN None ELSE reminder
    /\ UNCHANGED <<scene, rule, userKey, mailing, sweep, request, now, texts, keys, made, ghosts>>

Delete == Asks("delete") /\ \E c \in There : Gone({c})
Purge == Asks("purge") /\ Gone(Items)

(***************************************************************************)
(* Versions brought back and deleted                                       *)
(***************************************************************************)

(* The client knows the item as it was some time after it was written; the *)
(* rule is read on the way into the transaction.                           *)
AskRestore(q) ==
    /\ Asks("restore") /\ request[q] = Ready
    /\ \E i \in DOMAIN versions :
          LET c == versions[i].of IN
          /\ c \in There /\ row[c].rev < now
          /\ Does(q, [at |-> "restoring", of |-> c, version |-> i,
                      known |-> row[c].rev, saw |-> row[c].body, rule |-> rule])
    /\ UNCHANGED <<scene, kept, rule, userKey, mailing, sweep, now, texts, keys, made, replaced,
                   ghosts>>

RestoreVersion(q) ==
    LET c == request[q].of IN
    /\ request[q].at = "restoring"
    /\ IF row[c] # None /\ row[c].rev = request[q].known
          /\ request[q].version \in DOMAIN versions
       THEN \E r \in {request[q].rule, rule} :
               LET body == versions[request[q].version].body IN
               /\ row' = [row EXCEPT ![c].body = body, ![c].rev = now]
               /\ StateChanged(c, r, body)
               /\ PasswordChanged(c, body)
               /\ surprised' = (surprised \/ row[c].body # request[q].saw)
       ELSE UNCHANGED <<row, versions, reminder, made, replaced, surprised>>
    /\ Does(q, Ready)
    /\ UNCHANGED <<scene, rule, userKey, mailing, sweep, now, texts, keys, asked, strays, sent>>

(* delete_versions: one of an item's, or all of them.                      *)
Forgotten(c, which) ==
    LET goes == {i \in DOMAIN versions : versions[i].of = c /\ i \in which} IN
    /\ goes # {}
    /\ versions' = Restrict(versions, DOMAIN versions \ goes)
    /\ replaced' = [i \in DOMAIN replaced |-> [replaced[i] EXCEPT !.gone = @ \/ i \in goes]]

DeleteVersions ==
    /\ Asks("forget")
    /\ \E c \in There, which \in {{v} : v \in 1..made} \cup {1..made} : Forgotten(c, which)
    /\ UNCHANGED <<scene, row, reminder, rule, userKey, mailing, sweep, request, now, texts, keys, made,
                   ghosts>>

(* The daily sweep: the rule is read first.  Where nobody sets another,    *)
(* that is one step.                                                       *)
SweepReads ==
    /\ "rule" \in scene.asks /\ sweep = None
    /\ sweep' = rule
    /\ UNCHANGED <<scene, kept, rule, userKey, mailing, request, now, texts, keys, made, asked,
                   replaced, ghosts>>

PruneVersions ==
    /\ \E r \in IF "rule" \in scene.asks THEN {sweep} \ {None} ELSE {rule} :
          versions' = Pruned(versions, r)
    /\ sweep' = None
    /\ UNCHANGED <<scene, row, reminder, rule, userKey, mailing, request, now, texts, keys, made,
                   asked, replaced, ghosts>>

(* The admin's choice.                                                     *)
SetVersionRule ==
    /\ Asks("rule")
    /\ \E r \in Rules \ {rule} :
          /\ rule' = r
          /\ replaced' = [i \in DOMAIN replaced |-> [replaced[i] EXCEPT !.rules = @ \cup {r}]]
    /\ UNCHANGED <<scene, kept, userKey, mailing, sweep, request, now, texts, keys, made, ghosts>>

(***************************************************************************)
(* Rotation of the account's key                                           *)
(***************************************************************************)
Now(c) == row[c].body
Opens(bodies) == \A b \in bodies : b.key = userKey

(* The client's sync: what it will encrypt again.                          *)
SyncForRotation(q) ==
    /\ Asks("rotate") /\ request[q] = Ready /\ keys < MaxKeys
    /\ Opens({Now(c) : c \in There})
    /\ Does(q, [at |-> "synced", key |-> userKey, bodies |-> [c \in There |-> Now(c)]])
    /\ UNCHANGED <<scene, kept, rule, userKey, mailing, sweep, now, texts, keys, made, replaced,
                   ghosts>>

Fetched(q, own, which) ==
    Does(q, [at |-> "fetched", key |-> userKey, bodies |-> request[q].bodies, own |-> own,
             versions |-> which])

(* UwULock's clients fetch the versions too (personal); others, and those  *)
(* that say dropVersions, do without.                                      *)
FetchVersions(q) ==
    /\ request[q].at = "synced" /\ request[q].key = userKey
    /\ \/ /\ Opens({versions[i].body : i \in DOMAIN versions})
          /\ Fetched(q, TRUE, DOMAIN versions)
       \/ Fetched(q, FALSE, {})
    /\ UNCHANGED <<scene, kept, rule, userKey, mailing, sweep, now, texts, keys, made, asked, replaced,
                   ghosts>>

(* prepare_rotation: with a session and a password of before another       *)
(* rotation there is no way in; every item given has to be there.          *)
PrepareRotation(q) ==
    /\ request[q].at = "fetched"
    /\ LET given == DOMAIN request[q].bodies IN
       Does(q, IF request[q].key = userKey /\ given \subseteq There
               THEN [at |-> "prepared", own |-> request[q].own, versions |-> request[q].versions,
                     rows |-> [c \in given |-> [row[c] EXCEPT !.body = request[q].bodies[c]]]]
               ELSE Ready)
    /\ UNCHANGED <<scene, kept, rule, userKey, mailing, sweep, now, texts, keys, made, asked, replaced,
                   ghosts>>

AllItems(r) == DOMAIN r.rows = There

(* Not: the versions are taken as they come.                               *)
AllVersionsTrusted(r) == TRUE

AllVersions(r) == r.own => r.versions = DOMAIN versions

UnderNew(body) == [body EXCEPT !.key = keys + 1]

(* rotate_keys of the store: all of it, or nothing.                        *)
Rotated(r) ==
    IF AllItems(r) /\ AllVersions(r)
    THEN /\ row' = [c \in Items |->
                       IF c \in DOMAIN r.rows
                       THEN [r.rows[c] EXCEPT !.body = UnderNew(@), !.rev = now]
                       ELSE row[c]]
         /\ versions' = IF r.own
                        THEN [i \in DOMAIN versions |->
                                 IF i \in r.versions
                                 THEN [versions[i] EXCEPT !.body = UnderNew(@)]
                                 ELSE versions[i]]
                        ELSE EmptyMap
         /\ replaced' = IF r.own THEN replaced
                        ELSE [i \in DOMAIN replaced |-> [replaced[i] EXCEPT !.gone = TRUE]]
         /\ userKey' = keys + 1 /\ keys' = keys + 1
    ELSE UNCHANGED <<row, versions, replaced, userKey, keys>>

(* finish_rotation.                                                        *)
FinishRotation(q) ==
    /\ request[q].at = "prepared" /\ keys < MaxKeys
    /\ Rotated(request[q])
    /\ Does(q, Ready)
    /\ UNCHANGED <<scene, reminder, rule, mailing, sweep, now, texts, made, asked, ghosts>>

(***************************************************************************)
(* Reminders                                                               *)
(***************************************************************************)
(* set_reminder: the mail of the same day is not sent again.               *)
Reminded(c, due, every) ==
    LET there == reminder # None /\ reminder.of = c IN
    reminder' = [of |-> c, due |-> due, every |-> every,
                 mailed |-> there /\ reminder.due = due /\ reminder.mailed]

SetReminder ==
    /\ Asks("remind")
    /\ \E c \in There, due \in now..now + 1, every \in BOOLEAN : Reminded(c, due, every)
    /\ reminder' # reminder
    /\ UNCHANGED <<scene, row, versions, rule, userKey, mailing, sweep, request, now, texts, keys, made,
                   replaced, ghosts>>

DeleteReminder ==
    /\ Asks("remind") /\ reminder # None /\ reminder' = None
    /\ UNCHANGED <<scene, row, versions, rule, userKey, mailing, sweep, request, now, texts, keys, made,
                   replaced, ghosts>>

(* tend: what is due is read, mailed, and marked by its item.              *)
TendReads ==
    /\ mailing = Ready
    /\ reminder # None /\ reminder.due <= now /\ ~reminder.mailed
    /\ mailing' = [at |-> "sending", of |-> reminder.of, due |-> reminder.due]
    /\ UNCHANGED <<scene, kept, rule, userKey, sweep, request, now, texts, keys, made, asked, replaced,
                   ghosts>>

TendSends ==
    /\ mailing.at = "sending"
    /\ \/ mailing' = [mailing EXCEPT !.at = "sent"] /\ sent' = sent \cup {mailing.due}
       \/ mailing' = Ready /\ UNCHANGED sent
    /\ UNCHANGED <<scene, kept, rule, userKey, sweep, request, now, texts, keys, made, asked, replaced,
                   strays, surprised>>

RemindersMailed ==
    /\ mailing.at = "sent" /\ mailing' = Ready
    /\ reminder' = IF reminder # None /\ reminder.of = mailing.of
                   THEN [reminder EXCEPT !.mailed = TRUE] ELSE reminder
    /\ UNCHANGED <<scene, row, versions, rule, userKey, sweep, request, now, texts, keys, made, asked,
                   replaced, ghosts>>

(***************************************************************************)
(* Types                                                                   *)
(***************************************************************************)
Version == [of : Items, body : Body, at : Nat]
Entry == [of : Items, text : Nat, at : Nat, gone : BOOLEAN, rules : SUBSET Rules]

IsMap(f, ids, values) == DOMAIN f \subseteq ids /\ \A x \in DOMAIN f : f[x] \in values

(* What a request has at each of its steps.                                *)
Shape(r) ==
    /\ r.at \in {"idle", "saving", "restoring", "synced", "fetched", "prepared"}
    /\ r.at = "saving" => r.of \in Items /\ r.row \in Row /\ r.rule \in Rules
    /\ r.at = "restoring" => /\ r.of \in Items /\ r.rule \in Rules /\ r.known \in Nat
                             /\ r.saw \in Body /\ r.version \in Nat
    /\ r.at \in {"synced", "fetched"} => r.key \in Nat /\ IsMap(r.bodies, Items, Body)
    /\ r.at = "prepared" => IsMap(r.rows, Items, Row)
    /\ r.at \in {"fetched", "prepared"} => r.own \in BOOLEAN /\ r.versions \subseteq Nat

ItemsTypeOK ==
    /\ scene \in Scenes
    /\ row \in [Items -> Row \cup {None}]
    /\ IsMap(versions, 1..made, Version)
    /\ DOMAIN replaced = 1..made /\ IsMap(replaced, Nat, Entry)
    /\ rule \in Rules /\ sweep \in Rules \cup {None}
    /\ {userKey, keys, texts, made, asked, now} \subseteq Nat
    /\ reminder \in Reminder \cup {None}
    /\ mailing.at \in {"idle", "sending", "sent"} /\ (mailing.at # "idle" => mailing.due \in Nat)
    /\ DOMAIN request = Requests /\ \A q \in Requests : Shape(request[q])
    /\ strays \subseteq Nat /\ sent \subseteq Nat /\ surprised \in BOOLEAN

(***************************************************************************)
(* The specification                                                       *)
(***************************************************************************)
Tick ==
    /\ now < MaxTime /\ now' = now + 1
    /\ UNCHANGED <<scene, kept, rule, userKey, mailing, sweep, request, texts, keys, made, asked,
                   replaced, ghosts>>

(* One item is there, from a while ago.                                    *)
ItemsInit ==
    /\ scene \in Scenes
    /\ row \in [Items -> {None, [body |-> [text |-> 1, key |-> 1, day |-> 0], rev |-> 0,
                                 trashed |-> FALSE]}]
    /\ Cardinality(There) = 1
    /\ versions = EmptyMap /\ reminder = None /\ mailing = Ready /\ sweep = None
    /\ rule \in Rules
    /\ userKey = 1 /\ keys = 1 /\ texts = 1 /\ made = 0 /\ asked = 0
    /\ now = 1
    /\ request = [q \in Requests |-> Ready]
    /\ replaced = EmptyMap /\ strays = {} /\ surprised = FALSE /\ sent = {}

ItemsNext ==
    \/ \E q \in Requests :
          \/ Create(q) \/ Update(q) \/ Partial(q) \/ SaveItem(q)
          \/ AskRestore(q) \/ RestoreVersion(q)
          \/ SyncForRotation(q) \/ FetchVersions(q) \/ PrepareRotation(q) \/ FinishRotation(q)
    \/ ImportItem \/ Bulk \/ Move \/ Delete \/ Purge
    \/ DeleteVersions \/ SweepReads \/ PruneVersions \/ SetVersionRule
    \/ SetReminder \/ DeleteReminder \/ TendReads \/ TendSends \/ RemindersMailed
    \/ Tick

ItemsSpec == ItemsInit /\ [][ItemsNext]_itemsVars

(***************************************************************************)
(* What must hold                                                          *)
(***************************************************************************)

(* docs/uwu-api.md 8.2: what a change or a restore overwrote can be        *)
(* brought back, until as many newer ones came as a rule since then keeps, *)
(* or the days of one went by, or somebody deleted it -                    *)
(* whichever requests, sweeps and changes of the rule come between         *)
(* (versions.rs changed, prune).                                           *)
KeptAsPromised ==
    \A i \in DOMAIN replaced :
        LET e == replaced[i] IN
        \/ i \in DOMAIN versions /\ versions[i].body.text = e.text
        \/ e.gone
        \/ \E r \in e.rules : ~r.paused /\ (Newer(replaced, i) >= r.perItem \/ ~InTime(e.at, r))

(* Nothing the account has is left under a key it has no more, in an item  *)
(* or in a version: only what a request that was on its way at a rotation  *)
(* wrote afterwards is (vault.rs rotate_keys).                             *)
NothingUnderALostKey ==
    /\ \A c \in There : Now(c).key = userKey \/ Now(c).text \in strays
    /\ \A i \in DOMAIN versions :
          versions[i].body.key = userKey \/ versions[i].body.text \in strays

(* docs/uwu-api.md 8.4: a restore replaces the state its client saw, never *)
(* another one (versions.rs restore_version).                              *)
RestoresOverWhatWasSeen == ~surprised

(* The inductive invariant behind these three.  A version is what its      *)
(* entry says, and whoever may still prune goes by a rule the entry has;   *)
(* what a client that restores has seen is what the row holds, or it was   *)
(* written since.                                                          *)
Matched ==
    \A i \in DOMAIN versions :
        /\ replaced[i].of = versions[i].of /\ replaced[i].at = versions[i].at
        /\ replaced[i].text = versions[i].body.text

Foreseen == \A i \in DOMAIN replaced : RulesAbout \subseteq replaced[i].rules

Seen(r) ==
    /\ r.known < now
    /\ row[r.of] # None /\ row[r.of].rev = r.known => row[r.of].body = r.saw

ItemsIInv ==
    /\ ItemsTypeOK
    /\ Matched /\ Foreseen /\ KeptAsPromised
    /\ NothingUnderALostKey
    /\ RestoresOverWhatWasSeen
    /\ \A q \in Requests : request[q].at = "restoring" => Seen(request[q])

(* store reminders.rs, of Reminder.mailed: "The day the mail for this due  *)
(* date went out."                                                         *)
MailedForItsDay == reminder # None /\ reminder.mailed => reminder.due \in sent
=============================================================================
