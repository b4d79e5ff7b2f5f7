# UwULock-Server in TLA+

Specifications, model checks and proofs for the server in this repository: a
password-vault server in Rust that keeps everybody's vault in one SQLite
database and is asked by many clients at once. The specifications stay close to
the code: an action is a handler's step between two awaits, or one database
transaction, and `PROJECT.json` ("map") names the source lines of every
definition.

| module | what it is |
| --- | --- |
| `VaultStore` | the store: one account's rows, change counter, numbers, tombstones, epochs, travel mode, backups |
| `DeltaSync` | extends it: `GET /uwu/v1/sync` step by step, a client's replica and cursor |
| `Sessions` | the account in the database, the server's memory of it, requests and logins |
| `EmergencyAccess` | one emergency access with the requests of both sides, the hourly task and key rotation |
| `OffsiteBackup` | the repository of chunks and manifests, runs that are cut off, pruning, a restore in the admin area |
| `Snapshots` | what that promises: a plain list of readable snapshots, which `OffsiteBackup` implements |
| `Files` | attachments, the files of Sends and of a file request: places on disk against rows, quotas, the sweep |
| `Logins` | password logins, the second step, codes, security keys, remembered devices, approval by another device |
| `Organisations` | families: members, roles, collections, what members reach, items that change hands |
| `Accounts` | invitations, registration, single sign-on, SCIM, administrators, deletion |
| `Suite` | the suite vault's records: pushes, pulls, new keys, and the web vault's module for them |
| `Asking` | what the parts below share: requests at once, and scenes that bound what they ask for |
| `Items` | the items of an account: changes, kept versions, restores, key rotation, reminders |
| `Masked` | the connection to UwUMail: its grant and refresh token, the addresses made through it, the links |
| `Outside` | what the three after it share besides: what may go wrong, once each, a clock, the nightly task |
| `Breaches` | questions to Have I Been Pwned, XposedOrNot and sites: one queue, one budget, answers kept |
| `Mirrors` | copies of lists of others in memory and on disk, and the GeoIP files |
| `Icons` | the cache of website icons with its ceiling, one fetch per host, own icons beside a share |
| `VaultProofs` (of `DeltaSync`, `Items` and `Masked`), `SessionsProofs` (of `Sessions`, `Breaches`, `Mirrors` and `Icons`), `AccessProofs` (of `EmergencyAccess` and `Logins`), `OffsiteProofs`, `AccountsProofs`, `FilesProofs`, `SuiteProofs`, `OrganisationsProofs` | the proofs |
| `MCVault`, `MCSessions` | `DeltaSync`, `Items` and `Masked`, and `Sessions`, `Breaches`, `Mirrors` and `Icons`, in one run each, every part by itself |
| `MCDeltaSync` … `MCSuite` | model values, scenes, symmetry, and specifications used only for checking |

## 1. Inventory

The workspace: `uwulock-store` (SQLite, one module of queries per table group,
`migrations/sqlite/*.sql`), `uwulock-api` (the axum handlers), `uwulock-notify`
(the SignalR hub and the realtime channel), `uwulock-mail`, `uwulock-backup`
(off-site snapshots), `uwulock-server` (process, configuration, TLS, updates,
restore, import), `uwulock-web` (WebAssembly for the web vault in `web/`),
`uwulock-bench` and `uwulock-e2e` (measurements and tests).

How the parts meet: a handler extracts a session (memory, else the store), calls
the store any number of times with an await at each call, publishes what changed
to the notify hub, and answers. A client that goes away drops the handler at
whatever await it is in. Writes go through one writer lock and are IMMEDIATE
transactions (`uwulock-store/src/sqlite.rs`); reads use a pool and see the last
commit, and two reads may see two. So the unit of interleaving is one store call,
and what is hard is nearly always two of them with something between.

| component | state | operations | what is hard | what makes it correct |
| --- | --- | --- | --- | --- |
| Vault store | rows, `change_seq`, `sync_epoch`, `tombstones`, `pruned_seq` | save, delete, move, import, purge, sweep, rotate keys | no write may forget its number or its tombstone; a row deleted while being saved returns | every change numbered above all earlier ones, or a new epoch |
| Delta sync | none on the server; cursor and replica at the client | full answer, page of a delta | several reads for one answer, pages cut at a number, lost and late answers, epochs | nothing is missed; up to date means complete; replicas converge |
| Travel mode | marked folders, the switch | mark, switch on, switch off | what is hidden must go from replicas and come back | as above, of what the account sees |
| Backup and restore | the database file, the server epoch | take, restore online, restore offline | a restore under running requests, in two transactions | a cursor from before never fits |
| Sessions in memory | `by_user`, `forgotten` | look up, remember, forget | a lookup racing a write, a handler dropped before it forgets | judged by no account older than an answered write; stale for seconds at most |
| Accounts and logins | users, devices, stamps, the buckets of tries | log in, refresh, log out, new stamp, disable, delete | checks and writes far apart; tries counted before or after | guesses of logins bounded; a new stamp ends every session |
| Two-step login and codes | factors, codes with tries, taken time steps, challenges, remembered devices | set up, remove, send, try, use | retries, counting to the last try, reuse of a step | each proof lets one login in |
| Device requests | `auth_requests` | ask, answer, poll, log in with | two answers, expiry | the first answer stays, used once |
| Emergency access | `emergency_access`, marks of the hourly task | invite … reject, view, takeover, tend, rotate | read-await-save of whole rows; an hourly task; a client-made list of keys | a no is kept, a yes is for this asking, the wait is waited, a rotation misses nobody |
| Send access and uploads | access counts, files | create, upload, open, change, delete | the last opening taken twice; file before row | at most as many openings as were ever allowed |
| Attachments | rows and files on disk | announce, upload, delete, sweep | file and row are two writes | what is said to have arrived is there |
| File requests | requests, submissions, quotas | open, upload, complete, take, sweep | completion racing disable and expiry; quotas of unfinished ones | quotas hold, a completed submission is whole |
| Item versions | `cipher_versions` | keep, restore, prune | restore over a newer revision | nothing overwritten unseen |
| Organisations, families | members, roles, collections, seats | invite, accept, confirm, update, remove, share, delete | last owner; checks before an await; items changing hands | limits hold; everything refers to what is there; who sees a difference syncs |
| Suite records | spaces, records with numbers | push, pull, rekey, delete, prune | concurrent pushes over one base; a new key under a pull | no push lost or overwritten; a page lacks nothing below its cursor |
| Single sign-on, SCIM | states, codes, linked identities, pushed people, marks | start, call back, log in, log out, provision | sign-ups of one person at once; a code used twice | accounts, links and entries fit together; a code counts once |
| Invitations | invitations, quota | invite, resend, withdraw, use | counting and writing | the quota holds |
| Administration | admins, disabled accounts | promote, demote, disable, delete | the last admin, asked in five places | an admin stays |
| Off-site backups | objects, manifests, one running job | run, prune, restore | cut off at any step | a listed snapshot is whole; what shows is a list of snapshots |
| Realtime and the hub | connections, resume windows | connect, publish, recheck, resume | a connection outlives its session; a lagging reader | ends within the check's interval; told to sync when events were lost |
| Masked addresses | grants, tokens | connect, refresh, disconnect | refresh tokens are single-use at the provider | one refresh at a time, the new token kept |
| Off-site targets | none | put, get, list over S3, SFTP, folder | protocols | I/O |
| Notices and alerts | open events, last mails | open, end, mail | an event that flaps | announced once, with its end |
| Limits, blocked addresses | token buckets, block list | take, give back, block | bounded tables | never more than the limit |
| Breaches | the queue, the budget, kept answers | ask, wait, give up, hang up | a pause asked for in the middle of a queue, a client that goes away while it holds it | never rushed, no place lost, the budget kept |
| Mirrored lists, GeoIP | memory, files | load, refresh, download, delete | a read file by file beside a write, an update cut off | what is handed out is what is on disk |
| Icons | the cache and its book, locks by host | fetch, keep, evict, empty | files, book and evictions go their own ways | the ceiling; one fetch per host |
| Send domains, reminders, reports, mail, metrics, diagnosis | caches and single transactions | | | |
| Server process, migrations, Vaultwarden import | configuration, schema | start, hourly maintenance, stop | stops at any moment | restarts from the database |

`PROJECT.json` lists each with its sources and its status, and under "hazards"
what in this code a test would hardly reach, at its line.

## 2. The models and the code

A convention of the larger models: a **scene**. The components below `Sessions`
in the table have many operations, and what is wrong with two of them at once is
mostly wrong in a small surrounding. `Init` chooses one of the scenes the MC
module lists; a scene says what is there at the start and which operations are
asked for in this behaviour. The operations themselves know nothing of it (a
conjunct `x \in scene.asks` is all), so any set of scenes may be checked; the
ones in the MC modules put together those operations that read or write the same
rows, and every operation is in at least one. A **request** is a record that says
which step its handler is at and what it has read; it goes back to its fresh
value when the handler ends, so a few slots serve any number of requests.

### VaultStore

`db` is one account's part of the database: the counter (`seq`), the epoch of the
account, `pruned`, the server's epoch, the rows alive with their number and
content, the folder of each item, travel mode and its marked folders, the
tombstones. A content is the number of the write that made it, so contents are
equal only if they are the same write. Ids are model values; folder ids are never
handed out twice (`born`), item and Send ids come back when a row read before its
deletion is saved after it (an upsert in the code).

Every writing operation of a personal vault is one action with one transaction:
`SaveFolder`, `DeleteFolder`, `SaveCipher`, `ChangeCiphers`, `DeleteCiphers`,
`MoveCiphers`, `Import`, `PurgeVault`, `SaveSend`, `DeleteSend`, `Sweep`,
`UpdateProfile`, `NewStamp`, `RotateKeys`, `SetTravelFolders`, `SetTravelling`,
`PruneTombstones`. The triggers of migration 0012 are `Rewritten`, and all these
writes go through it; `Numberings` leaves the order in which SQLite visits the
rows of a statement open. A restore is `RestorePages` then `EndSessions`, with
`DieInRestore` between, or `RestoreOffline`.

### DeltaSync

The request's steps are the handler's awaits. `BeginSync` is the session
extractor, which reads the profile the answer will show. With a cursor,
`ReadDelta` is `read_delta`: one transaction that takes the numbers above the
cursor, cuts them where the page is full, and reads the rows as they are. Without
one, or when it does not fit, `ReadCounters`, `ReadHidden`, `ReadFolders`,
`ReadCiphers`, `ReadSends` are `full_answer`: the counters first, then every
table in a read of its own. `Deliver` puts the answer into the replica as
`docs/uwu-api.md` describes it; `Lose` is a handler dropped or an answer lost;
`ServerStops` takes the request along.

Assumed and left out:
- one client: clients meet only in the store, and the writes are everybody's;
- the areas are fixed to `vault`; organisations, Suite and UwULock's own extras
  have windows of their own;
- an insert moves the counter twice; the number skipped is no row's and is left
  out (only the order of numbers is looked at);
- server epochs (random 8 bytes) never repeat;
- the age of tombstones is the wall clock's, so those pruned may be any.

### Sessions

`past` is the history of one account, one entry per write. What a request has
read, and what memory holds, are indices into it, so "older than" is `<`. The
statements of a lookup (`ReadUser`, `ReadDevices`) are two steps, `Store` is the
check of `forgotten` with the insert, `Remembered` a hit. A write makes its
handler owe a `Forget`; `CutOff` is a handler dropped between the two. Writes with
the same effect on memory share an action (`NewStamp`: password, KDF, keys, mail
address, log out everywhere; `Touch`: what only moves the revision). A login is
two steps, `CheckLogin` and `LogInDevice`, with everything the code awaits in
between. `Crash` empties memory; `EndSessions` of a restore clears it.

Assumed: a lookup takes less than a tick of the clock (`Tick` waits for one that
has read something). `SESSION_MEMORY` is thirty seconds in the code, a lookup is two
reads; what `StaleForSeconds` says is exact up to a lookup's length. Refresh
tokens and API keys, which end by their own date, are left out.

### EmergencyAccess

`access` is the row of one access, or "gone". Each handler is a read with its
checks (`ReadApprove`, …) and a write of the whole row as it was read
(`Approve`, …), which `save_emergency_access` takes only while the revision is
the one read. Exceptions are as in the code: `Delete` goes by the id alone,
`SetPassword` writes the account without another look at the access, `Remind`
leaves the revision. `Rotate` compares the contacts the client wrapped keys for
with those that hold one. `ApproveWaited` and `Remind` are the hourly task.

Assumed and left out: a revision is the number of the write, where the code has
the clock to the microsecond, taken not to repeat; one access per address; the
invitation's token and its age.

### OffsiteBackup and Snapshots

The repository is `objects` (the chunks under `data/`) and `snapshots` (the
manifests). A run of `uwulock-backup` goes through its steps on the storage in
the code's order: list, copy the database, put the chunks of the database and of
each file that the listing did not show, write the manifest, and then prune
(`RunNow`, `ListObjects`, `CopyDatabase`, `PutChunk`, `ListFiles`, `BackUpFile`,
`WriteManifest`, `ReadManifests`, `RemoveSnapshot`, `ListDoomed`, `RemoveObject`). It
may be cut off between any two of them (`GiveUp`: an error or the deadline of
service.rs; `Crash`: the end of the process), and what it put stays. `Lose` is an object the storage
loses. A restore in the admin area takes the same mutex (`busy`) and reads the
snapshot object by object. A chunk is named by what it holds, so two files may
share one, and a run that skips a chunk because it is listed is right only as
long as nothing prunes it meanwhile: that is what the mutex and the listing at
the start are for.

`Snapshots` has no objects. It has a list of snapshots, which of them are
readable, and what each process is at; a snapshot appears whole, the newest is
never forgotten. `OffsiteBackup` shows `Promise == INSTANCE Snapshots WITH
listed <- snapshots, readable <- Readable, making <- …` and
`ImplementsSnapshots == Promise!Spec`: a chunk put or pruned is a stutter.

Left out: when a run is due, settings and their test, a restore on a new
machine, the report of a run, encryption and the protocols of the targets.

### Files

`disk` is what lies in each place: nothing, a file of this week, an older one.
The rows are `attached`, `sends`, `request`, `started`, `arriving`. A request
of a client is what it looked at, the file it received, and the mark, each a
step: the file is linked into its place first (`Keep`, which fails when one is
there) and the row is marked afterwards. `Crash` is the end of the process, after
which the handlers are gone and the files stay. The nightly sweep (`Sweeping`)
is itself steps: a file is found to be old, rows are asked whether they claim it
(`SweepLooks`), and it goes (`SweepTakes`).
Quotas are counted in the transaction that adds (`StartSubmission`, `AddAttachment`),
the openings of a Send in one statement (`RegisterSendAccess`).

Every file has one unit of size and messages have none; one account, one item and
one request; ids are never used again; the hidden file an upload is received into
is nobody's business until it is linked.

### Logins

One account. A request is a login or a change of the settings and goes through
the awaits of `identity.rs` and `two_factor.rs`: take a try from the buckets, read
the user, hash, give the try back or not, look at the factors, check the second
step, write the device. What a login shows is a `Proof`: which way, made by which
request (a code mailed, a challenge, an approval) and, for an authenticator, the time
step. The properties count how many logins one proof let in. The six scenes are the
second steps one by one, and a password changed under a login.

A code by mail is asked for with the master password. `SendLoginCode` reads the user,
compares and refuses a wrong one, and takes no try of the account for it, as the code
does; `ReadFactors` and `PutCode` are the rest of that handler. `GuessesWithin` counts
the wrong passwords of logins only (`EveryPasswordTakesATry`, section 5).

Left out: the policy that requires two-step login, mail that cannot be sent, hashing
itself, a code asked for with the token of an SSO login instead of the password, and the
buckets of an address alone (`Limits::login`, `login_wide`), which hold logins and, the first,
requests for a code.

### Organisations

`row` is `org_members`, `reach` is `collection_members`, `item` the items, by their
ids. A request reads who asks and what it is about (`AsOwner`, `FindItem`, …)
and then calls one transaction of `org_management.rs` or `organizations.rs`, which
checks again what has to hold. `moved` is the set of accounts whose revision the
last step moved (`bump_org`), so "who sees a difference syncs" is an action
property. Left out: groups, policies and the other roles of organisations that came
over from Vaultwarden, which the code cannot manage, keys, and mails.

### Accounts

`user`, `invited`, `entry`, `marked`, `link`, `code` and so on are the tables; a
request goes from transaction to transaction (`Signin` … `FinishLogin`, `Invite`,
`Register`, `PutEntry`, …). The provider says what the scene's claims say. A sign-up
that fails after it made an account deletes it again, as in sso.rs. `alone` in a
scene lets only one request be under way: `AnAdminStays` is checked there, since two
at once do remove the last admin (section 5).

Left out: the checks of the provider's answers, pairing, groups themselves, a first
master password, names and external ids of SCIM.

### Suite

The server's part is `suite.rs` of the store: `SuitePush`, `SuitePull`, `RekeySpace`,
`CreateSpace`, `DeleteSpace`, the forgetting of tombstones (`PruneTombstones`). The web vault's part is
`web/src/lib/suite/sync.ts` and the WebAssembly module behind it: a queue of loads
and creations, one batch of saves beside it, and the realtime connection that starts loads (`Queue`, `Save`,
`Connect`). A request of a page is answered in one step and taken in another, or its
answer is lost (`Lost`). The app, whose code is not in this repository, is external:
it keeps the rules of `docs/uwu-api.md` 6. A record is the number it has, the space
it was sealed for, the write that brought it and the write its author had read.

`astray` is no state of the page: it marks the two ways a page comes to a cursor that
says nothing of the records it holds (section 5), and `NothingBelowIsMissed` excepts
what such a page holds until it starts over. `LongAgo` is what 90 days are: a
tombstone is forgotten when no answer on its way still shows what it deleted.

### Items

A change of an item reads the row (`Update`, `Partial`, `AskRestore`), and writes the
whole row in a transaction of its own (`SaveItem`, `RestoreVersion`), which compares
the revision the client said with the row's and keeps what it overwrites as a
version (`StateChanged`). `Bulk`, `Move`, `Delete`, `ImportItem`, `Purge` are single transactions.
A rotation is what a client puts together over several requests (`SyncForRotation`,
`FetchVersions`, `PrepareRotation`) and `rotate_keys` compares and writes (`FinishRotation`).
`PruneVersions` goes by age and by the rule the admin may change meanwhile; every write
reads the rule before its transaction, so it may go by the one before (`rule` of a
request, and what the sweep read, `sweep`). A reminder is a day and a mark; the hourly task
reads, mails and marks in three steps.

A version is known by the number of its row. `replaced` is the history of what was
overwritten, by the same number, with every rule there was since then that a write could
go by (`RulesAbout`); `strays` are texts whose change was on its way when the key changed.

### Masked

`connection`, `links`, `client` are rows; `pending`, `backingOff`, `codes`, `lock` the
server's memory. UwUMail is external: `grants` with the refresh token each is at
(`turn`), `clients`, `addresses`; what it answers follows from what it has been sent, and
from `harm`, what a scene lets go wrong once: an answer lost, a client that hangs up, a
token that ran out, a person who signed out there, an aged registration, too many
requests, the process stopping. The lock of `masked.rs` is held from `Access` to `KeepTokens`
and from `Disconnect` to `Unlock`; JMAP calls (`Call`) are made without it.

Left out: what an address is called, the scopes' words, the texts of refusals.

### Breaches, Mirrors and Icons

Three parts that ask others and keep what they hear, in memory of the process, which
`BreachesStop`, `MirrorsStop` and `IconsStop` empty. They share the requests, scenes and
clock of `Asking` and `Outside`, and in a run only one of them takes part. A queue is a fair
mutex (tokio's), a sequence of requests whose head holds it; `AskerHangsUp`,
`ReaderHangsUp` and `IconHangsUp` are a client that goes away, whose request is dropped at
whatever await it is in: its place comes back (`QueuePlace`), the mutex is free, and what another
thread does for it (a rename, the removal of old icons) still happens. `told` and
`began` count what went out, and are read by properties only.

In `Breaches` the passwords of XposedOrNot go one at a time through `xonQueue` and wait
for `next`; addresses go through `mailQueue` within `counted`, the set of who asked when in
the last day (`asked` and `accounts` of the code: no two addresses go out at one time, so a
set counts what the queues there do). In `Mirrors` a list is loaded from as many files as it has sources, one after the
other, and refreshed under its lock; GeoIP's two files and its month are renamed one by
one. In `Icons` a file is the time it was written; `book` is how many files the cache is
thought to hold, and `overlap` says that a write met a count or a removal since it was
last counted anew, which the code allows.

Left out: what the answers say, reading images and lists, sizes in bytes, which
addresses are public, the icon databases but for what is drawn of them.

## 3. The runs

All of them say `CHECK_DEADLOCK FALSE`: at its bounds (`MaxWrites`, `MaxTime`, the
requests of a scene, …) a model stops though the server does not. Bounds stand in the
guards of the actions that count.

| run | asks | bounds |
| --- | --- | --- |
| `delta_travel` | `NothingIsMissed`, `UpToDateIsComplete`, `EveryChangeIsNumbered`, `CursorMovesForward`, `ReplicaConverges` | one folder, two items, pages of one number; begins (`TravelInit`) with a travelling account and a client that has synced, then any three writes |
| `vault_all` | `StaleStaysStale` of a restore; `KeptAsPromised`, `NothingUnderALostKey`, `RestoresOverWhatWasSeen` of `Items`; `MaskedInv` of `Masked` | restore: one Send, one backup, three server epochs, four writes. Items: six scenes, two items, two requests, three or four operations. Masked: eleven scenes, two requests, two mailboxes |
| `session_memory` | `VerdictIsCurrent`, `StaleForSeconds` of `Sessions`; `QuestionsInv` of `Breaches`; `MirrorsInv` of `Mirrors`; `IconsInv` of `Icons` | sessions: two requests, one device, three writes, memory of one tick, one tick. The other parts: their scenes in `MCSessions`, two requests, two accounts, two subjects, at most four things asked for, one or two that go wrong |
| `emergency_all` | `NoIsKept`, `ApprovedForThisAsking`, `WaitIsKept`, `RotationMissesNobody`, `AskingIsSettled` | two requests; from an access that was asked for, or from none up to its confirmation; seven saves, two rotations, waits of one or two ticks |
| `offsite_all` | `SnapshotsWhole`, `NothingLeftOver`, `ImplementsSnapshots` | one server, two files and two states of the database over three chunks, three runs, one lost object, three retentions |
| `files_all` | `ArrivedIsThere`, `OnlyEndedUploadsBlock`, `LimitsKept` (a Send is opened as often as was ever allowed, a request takes within its quota) | five scenes of at most two attachments, a Send, two submissions of one file; two clients' requests at once, the sweep, one crash |
| `logins_all` | `LoginsInv` (one proof, one login; a recovery code while a way is on), `GuessesWithin`, `AnswersStay` | six scenes, three requests, also for a code by mail with a wrong password, two devices, two networks, two keys; one try of the account, two of a network, two of a code |
| `members_all` | `FamiliesInv`, `WithinLimits`, `OnlyGoingTakesTheOwner`, `SyncsWhatChanges` | nine scenes, two requests, three accounts, at most four rows of members, two collections |
| `members_owner` | `KeepsAnOwner`, which does not hold: section 5 | the same |
| `accounts_all` | `AccountsInv` (also that codes and logout tokens count once), `AnAdminStays`, `WithinQuota` | eleven scenes, two requests, three accounts, two logins at the provider, a quota of one |
| `suite_all` | `SuiteInv`, `NothingBelowIsMissed`, `RekeyBringsAll`, `ComesToShow` | twelve scenes, one page and one app, pages of one record, at most seven numbers, one save, one lost connection, one lost answer |
| `suite_rekey` | `PullsEnd`, which does not hold: section 5 | the same |

Why these bounds reach what matters:
- In a delta the dangerous cases need a cursor from before a change, the change, a
  page that ends below it, and one more change before the next page: three writes
  after a first sync, and pages of one number so that every sync has several. An
  account that travels with something hidden takes five writes to make; starting
  there leaves three for the moves into and out of the hidden folder. Two items
  are enough for "moved" against "stays", and for a batch of two numbers.
- A cursor that fits after a restore by accident needs numbers to grow past it
  again: backup, write, sync, restore, write, write.
- A stale verdict needs a write, its forgetting and a lookup overtaken by both;
  two requests let one remember what misleads the other; three writes give two
  owing at once. A second device behaves as the first.
- An emergency access needs five writes to be asked for, and two more for a no and
  a second asking; two requests are the race. `MCEmergency` starts once before the
  confirmation and once after the asking, which together are every stretch of it.
- A chunk pruned too early needs a run that listed it, a run that prunes it, and a
  manifest that names it: two runs, and a third with a retention of one for what
  was left over. Three chunks let two files share one and the database have one of
  its own.
- A limit is passed by two at once or never: two requests at a limit of one or two.
  Three logins at once are the two that race and the change of the settings, or
  the wrong tries beside the right one.
- A family needs an owner, one who becomes one, and one who is neither. Two
  requests are again the race; what each does is chosen among all that its scene asks.
- A page of the suite that misses something needs a record below the cut, one above,
  and a change between two pulls; a page of one record makes every pull several.

The slots of requests (and in `files_all` the two submissions) are interchangeable:
no definition orders them, and `SYMMETRY` is used in runs without liveness only.
`StorageLimit`, `Seats`, `Quota` and the like are the settings' values for the
instance, at most what the scenes need to reach them.

### Fairness

`ReplicaConverges` assumes (`Fairness` of `DeltaSync`): a client goes on syncing
(it polls, and is told of changes), a request that began is worked off (the
runtime runs every task), an answer arrives in the end, a restore under way ends
its sessions, and requests are in the end no longer lost (`[Lose => Deliver]`: losing
an answer that brings nothing new is the same step as delivering it, so a plain
`[~Lose]` would forbid syncing at all). The writes are bounded, so they
stop. Nothing is assumed of writes, of pruning or of which step of a request
comes first. `AskingIsSettled` assumes the hourly maintenance goes on
(`spawn_maintenance` in `uwulock-server` loops for the life of the process and
logs errors without leaving) and that days pass; it assumes nothing of the people.
`ComesToShow` assumes that the page runs its queue and its saves and connects again
(`Queue`, `Save`, `Connect`: promises and timers of a page that stays open) and
nothing of the app or of the answers, which may be lost up to their bound.

## 4. What is proved

TLAPS checks every proof for all values of the constants: any sets of ids, page
size, numbers of requests and devices, memory and waits, and any bounds. The
assumptions are those stated beside the constants: ids of different kinds are
different and finitely many (`IdsAssumption`), a page has at least one number,
times are positive numbers, what a file and a copy of the database hold are
chunks, files and submissions are finitely many and no two submissions share a file
(`PlacesAssumption`, `FilesOfAssumption`), accounts start as a database that its
constraints allow (`AccountIds`, `ScenesFit`), a family as they and its seats allow
(`FamilyIds`, `FamilyBounds`, `FamilyScenes`, and no two accounts with one address at
first, `HomeAssumption`), rules for versions are rules (`RulesAssumption`), logins are finitely many, `Old` and `None`
are no login, there is a device and a network, and a code may be tried at least once
(`LoginIds`, `LoginBounds`), an account whose security keys are on has keys
(`ScenesAssumption`), and a space starts with no more records than
it may have and numbers left to count on (`SuiteScenes`; `NoneAssumption`: `None` is neither
a row nor an open space). `MaskedNone` says that `None` is no connection, token or request,
`MaskedBounds` that tries are counted. `DailyApart` says the nightly task is none of the
requests, `MirrorsBounds` and `IconsBounds` that waits and limits are numbers (a fetch may
be tried at least once), and `MirrorsNone` and `IconsNone` that `None` is no time, no file
and no lock. `BreachesBounds` says that two questions are at least one moment apart, an hour is
no longer than a day and each share at least one question, `BreachesIds` that requests are
finitely many (places are counted) and `None` is no time.

**VaultProofs.** Of `DeltaSync`: `Inductive` (`IInv`), and from it `TypeCorrect`,
`NothingMissed`, `UpToDateComplete`, `ChangesNumbered`, `StaleForGood`.
`NothingIsMissed` alone is not inductive: an answer on its way may put anything
into the replica. `IInv` adds what is true of the way there. `Right(d, v, o, u)`
says that value `v` of row `o` is what the account sees, or the change it missed
is above `u`. It must hold of the replica at its cursor, of each table a full
answer has read at the cursor it was given before (`ReadingRight`), and of the
replica with the answer applied (`AnswerRight`). That each survives every write is
one lemma, `RightFollows`, from one relation between two states of the database,
`Follows`: a row that changes takes a number above all earlier ones, a row that
goes leaves a tombstone with one, or the epoch moves. One lemma per operation of
the store shows that it is such a step. `Ordered` (no number above the counter,
a live row's tombstone older than the row) is what makes a page complete
(`DeltaPageRight`); `Known` (a cursor was counted) is what makes a fresh
server epoch cut off every cursor (`FreshServerKeepsIInv`). `ForwardOnly` adds one part,
`Ahead`: an answer on its way, of the epochs a cursor that fits is of, is not behind it.
A page ends no earlier than the cursor it was asked with (`CutMovesOn`), a full answer
begins at the counter, and neither a write nor a restore makes a cursor fit that did not.

Of `Items`, for any items, requests, rules and scenes and however many versions and
rotations: `ItemsKeepTheirShape` (`ItemsIInv`), and from it `VersionsAreKept`,
`RotationsTakeEverything`, `RestoresAreInformed`. `History(vs, rs, n, t)` relates the
versions there are to all there ever were: each is what its entry says (`Told`), and
each that is gone is excused (`Promise`). An excuse once given stays one (`StillExcused`):
an entry only gets more rules, more that are newer, and older. `HistoryGoesOn` is the one
lemma every operation is an instance of, and `PrunedExcused` is why pruning one is: the
newer versions there are, are among the newer ones there ever were. It needs `Foreseen`,
that an entry has the rule of whoever may still prune, the rule a sweep or a save read
before the admin changed it included; without it `KeptAsPromised` is not inductive.
For a restore the strengthening is `Seen`: the client's date is in the past and every
write dates the row anew (`RowSteps`), so a row of that date is the one it saw.
`NothingUnderALostKey` is inductive by itself, given the types.

Of `Masked`, for any items, mailboxes, requests, scenes and limits: `NoGrantIsLost`
(`MaskedIInv`). A refresh token is its grant and a count, so that UwUMail ends a grant only
if the counts differ. `InStep` says they do not, unless somebody did not learn of an answer:
of the token a request refreshes with (`RefreshInv`), of the connection's, but while one
request has the new token and has not kept it (`ConnectionInv`), and of a grant on its way to
be stored, which nobody else has (`NewInv`). `LockInv` is what makes the exception harmless:
who refreshes, keeps, ends or replaces holds the lock. For `NoGrantIsLeft` whoever ends a
grant must have the connection's (`EndInv`), and deletes the row only after. `Quiet` collects
what a step must leave as it is for all this to go on; most steps are one (`QuietMoves`), and
the rest have a lemma each.

**SessionsProofs.** `SessionsInductive`, `VerdictsCurrent`, and with the clock
(`TimedInv`) `StaleOnlyForSeconds`. The invariant behind the first: a lookup whose
`seen` is still `forgotten` has read nothing older than the newest answered write,
because answering one counts `forgotten` up; so what goes into memory is current,
and whatever makes it stale clears it. For the second: whatever replaced
the remembered account was written no earlier than it was remembered.

Of `Breaches`, for any accounts, requests, waits, shares and scenes: `QuestionsAreKept`
(`BreachesIInv`). Whoever asks is first in its queue (`XonHalf`, `MailHalf`), so of each kind
only the last question may be without an answer, and exactly then somebody waits for it
(`AnsweredInv`): an answer is put to the question it is of. For XposedOrNot every pause it
asked for is over at `next` or before (`XonInv`), whoever gave up or hung up in between. For
the budget, what went out within a day is in `counted`, and whoever is about to ask was found
within the shares and nobody else has asked since (`MailInv`). `BudgetKept` counts questions,
and the code times; that the times strictly increase, by `Spacing`, is why these are as many
(`CountedOnce`), and without it the invariant is not inductive.

Of `Mirrors`, for any requests, scenes and waits: `MirrorsAreKept` (`MirrorsIInv`).
`LockInv` says whose a list's lock is: of the request that refreshes it, from asking to
reading the files back. While one does, nothing else is known of the copy that is handed
out; before and after, it is what the files say (`CopyInv`), because a read sees files no
write came between, or the list is `mixed` (`FoundInv`). A refresh that ended well leaves a
copy, so that none is begun again; one that failed is remembered in `failed`, which is what
holds the next one back (`BeganInv`). For `MonthIsHere`, `GeoInv`: files only get newer, and
an update renames both of its month before it writes the month.

Of `Icons`, for any names, requests, ceilings and scenes: `IconsAreKept` (`IconsIInv`).
`LocksInv` says that a lock that is held is the one its name finds, and by one request; so
whoever was under it when it looked in the cache is alone until it writes (`NotThere`),
and a name has one of its two files at most (`EitherInv`). The ceiling needs more than the
book: a file is there from the moment its temporary one is written, and in the book steps later.
`Settled` are the files but for those whose request has yet to book them; without an
overlap the book is at least as many (`BookInv`), what a count in progress found is no less than
what there is (`CountedInv`), and a write knows which of its name's files it takes the place
of (`SeenInv`). A book over the ceiling is a book whose request is about to start an
eviction.

**AccessProofs.** Of `EmergencyAccess`: `EmergencyInductive`, `NoKept`, `ApprovedAsAsked`,
`WaitKept`, `RotationComplete`. `StillRight` is the strengthening: a request whose
access still has the revision it read has read the status, the asking and its
time as they are. A no, a yes and an asking move the revision, and the reminder,
which does not, touches none of them.

Of `Logins`, for any number of requests, devices and networks, any scenes and buckets of
any size: `LoginsStayRight` (`LoginsIInv`), and from it `OneProofOneLogin`,
`GuessesStayWithin`, `AnswersAreKept`. One handler moves in a step (`OneMoves`), and what
it shows is either what it showed or is taken in this very step (`Fits`); `ShownInv` says that
what was taken is there for nobody else any more. That is kept because whoever makes a
code, a challenge or a request makes one and is over (`MadeInv`), so what comes next is
another one. An authenticator is the exception, whose steps are used one by one: there the
last step taken is at least the one shown, as long as it is the same authenticator.
`RecoveryWhileOn` needs of `Stage` that keys that are written back are not empty. For the
guesses of logins, `TriesInv` weighs each bucket against who has taken a try out of it and not given it
back: `Costs` is that no step makes the two together more, with a lemma for each kind of
step. `Tried` are the wrong tries of one code, no more than the code counts.

**OffsiteProofs.** For any retention and content, and for one process
(`OneProcess`: any two are the same; a hypothesis of each theorem, because with a
second one the statements are false: section 5): `Invariance`, `WholeAlways`,
`RestoreAlways`, `NewestAlways`, `NothingLeftAlways`. The invariant says who holds
the mutex (`Locks`), that whatever a run takes for put is there until its manifest
is written (`KnownIsThere`), and that pruning goes by what the kept snapshots need,
the run's own among them (`Pruning`). `SnapshotsImplemented` is the refinement: with
`Extra` (what a run shows is what it has put together) the initial states are initial
states of `Snapshots` (`ShownInit`), and every step is one of its steps or a stutter
(`ShownNext`, with one case for each step that changes what shows, `ShownMakes`, and
one for those that do not, `ShownSame`).

**AccountsProofs.** `AccountsFit`, `AdminStays`, `QuotaKept`, for any scene that starts
as the tables' constraints and the quota allow (`ScenesFit`). One inductive invariant
in five parts, each with a lemma for the steps of sign-ins, of invitations and of
administration. `Typed` is the type with what each step of a request has read
(`Shape`); it needs `Tables`, since a sign-in takes the account a login is linked to.
`Tables` are the constraints of the database, which every write keeps because it checks
them in its own transaction. `Once` follows one sign-in through its state, its request
and its code: never two of them hold it. `OneByOne` is why an admin stays: with one
request at a time, what a request has read about the last admin (`Safe`) is still so when
it writes. `QuotaInv` says that whoever may write an invitation without counting is an
admin, or an account that is gone and whose id is never used again (`Unbounded`); with
that an invitation and the account made of it weigh the same.

**FilesProofs.** `FilesFit`, `ArrivedStays`, `NothingElseBlocks`, `LimitsHold`, for any
finite sets of places and submissions and any limits. The invariant goes file by file:
`IdOf` (one request holds an id until its row is there), `AttachmentOf`, `SendOf`,
`RequestOf` (what a row says of its file, and what the sweep may hold of it), and three
that are about all of them: `Starting` (a submission nobody has started has nothing on
disk and nobody at work on it), `Removing` (what is being removed is of nothing that is
there) and `LimitsInv`. `Leaves(f)` says that a step leaves file `f` alone, and
`ClientLeaves` and `OthersLeave` show it for every step that does not concern `f`, so each
part is proved only for the steps that do. `ArrivedIsThere` alone is not inductive: a file
may be in the hands of a sweep that looked before its row was written, and it is `IdOf`
and `Starting` that say no such row can come.

**SuiteProofs.** `SuiteCorrect`, `NothingIsMissed`, `RekeyCorrect`, for any ids, browsers,
page size, limits and scenes. What the server has is read as one value (`Now`), so that
what is right of a page is a statement about a page and a server, and a step of somebody
else one about two servers: `Follows(s, t)` says that what is in `t` is as in `s` or has a
number above all of `s`, and that what goes while the space stays was a tombstone at or
below the pruned number. `PageFollows` is the lemma for every page that does not act.
`NothingBelowIsMissed` alone is not inductive. A page between a pull and its merge is right
about what it will hold (`AnswerRight`); a save that is answered and not yet applied brings
back nothing that has gone (`Stays`, with `CompleteTook` for a merge of it before or after
the pull's); everything anybody has is older than the server's or the same (`Past`); and a
space that is being made has an id that nobody else's records carry (`Alone`), or the
empty space would be shown with the records of another. `Stays` is where the
proof needs `LongAgo`: that no answer to a push is on its way for as long as a tombstone
lives. `RekeyCorrect` needs of this only `Past`: what an app has read, with the numbers the
server has, is what the server has.

**OrganisationsProofs.** `FamiliesFit`, `LimitsHold`, `OwnersGoTogether`, `SyncsFollow`, for
any accounts, organisations, rows, items, requests and scenes. The data are right after
every transaction whatever the request had read, because the transaction checks them
itself: there is one lemma for each (`InviteFits`, `ConfirmFits`, `AcceptFits`, `RowsGo`, …;
`CascadeFits` for what goes with an organisation or an account). That is not so for an
item. A request on one finds its organisation, asks who may, and writes it later, and a
save of an item that has been deleted makes it again. So the invariant has `Settled`: what a
request found is the organisation the item is of for as long as it is there, and all
requests on one item found the same; only so is an item that comes back in collections of
its own organisation. `Shape` is what each step of a request has read. An owner counts the
others in the transaction that takes his own right, and only `Cascade` does not count
(`CascadeKeepsOwner`): that is `OwnersGoTogether`. For `SyncsFollow`, `Within(o)` says that a
step changes nothing outside one organisation and `SameView` that whoever finds their rows,
and the organisations they are confirmed in, as they were sees the same; what is left is to
show that each transaction moves the revisions of the others. `CascadeView` is the one
whose members are no longer there to be asked.

Type correctness, `RestoreFindsAll` and `NewestStays` have theorems and no run of their own:
the runs check what implies them on the instance (`ImplementsSnapshots`).

**Only model-checked**: liveness (`ReplicaConverges`, `AskingIsSettled`,
`ComesToShow`), which is out of this prover's reach. The findings are counterexamples and
need no proof.

## 5. What the sources say and the code does not hold

Two runs refute a sentence of the repository:

- **`members_owner`**: "A family always keeps a confirmed owner"
  (`docs/families.md:46`). SCIM deletes an account without asking whose families it
  owns (`uwulock-api/src/scim.rs:732`).
- **`suite_rekey`**: "Pull from the cursor until there is no more; from 0 again when
  the server says `reset`" (`web/src/lib/suite/sync.ts:115`). The key's number is drawn
  after the records' (`uwulock-store/src/suite.rs:323`), so with more than a page of
  them every page's cursor is from before the key and is sent back to the start.

Others were refuted while the models were written and keep no run of their own.
Where the statement is still a definition of a module it is named; each can be
checked with the configuration of that module's run.

- `ProfileComesAgain`: "what changes while the rest is read comes again in the next
  delta" (`uwulock-api/src/sync.rs:266`). The profile is the session's user, looked up
  before the counters.
- `EveryCursorStartsOver`: "Every delta-sync cursor from before starts over"
  (`uwulock-store/src/backup.rs:94`). The pages and the new epoch are two transactions;
  a process that stops between them keeps the backup's epoch.
- `NoDeviceWithOldStamp`: "no device stays logged in with the old one"
  (`uwulock-store/src/accounts.rs:406`). A login checked before and written after a new
  stamp (`log_in_device`) leaves a device with a refresh hash.
- `NoMeansNo`: "unless they say no within the wait" (`uwulock-api/src/emergency.rs:6`).
  The new password is written without another look at the access.
- `RemindedOnceADay`: "once a day" (`emergency.rs:574`). The reminder leaves the
  revision, and an update read before it takes its mark back.
- `NoKeyNobodyHas`: "a rotation that missed one would leave it under a key nobody has
  any more" (`uwulock-store/src/vault.rs:496`). A contact that is being confirmed holds
  no key yet, and is saved afterwards with the old one.
- `EveryPasswordTakesATry`: "Every password checked takes a try for the address tried"
  (`uwulock-api/src/identity.rs:178`). A login does; `send_login_code` checks the password
  that comes along (`two_factor.rs:406`) and takes none, so that only the bucket of the
  address it comes from (`two_factor.rs:369`) holds it.
- `NewPasswordStays`: a login that replaces a hash from Vaultwarden writes it over a
  password changed meanwhile (`uwulock-api/src/identity.rs:224`).
- `RememberedWhileOn`: remembered devices are forgotten with the last way of two-step
  login (`docs/uwu-api.md:2988`); a login under way brings its own back.
- `StaysAWeek`: "stays another week" (`docs/deployment.md:384`). The sweep goes by the
  age of the file, not of its deletion (`uwulock-api/src/files.rs:343`).
- `LinkedStays`: two first sign-ins of one person at once; the second links the login
  to the account the first has just made, the first's own linking fails, and it deletes
  the account (`uwulock-api/src/sso.rs:872`).
- `NeverSilently`, `SealedForTheSpace`: "never silently over it" (`docs/uwu-api.md`
  6.7). A save of a page that has not read a new key is sealed under the old one; an
  edit of a record reopened after a reset may go over what came meanwhile.
- `NobodyIsAstray`: "Another space than the one read (a rekey), or asked to start
  over" forgets and starts from 0 (`web/src/lib/suite/sync.ts:170`). A creation
  that waits behind a load puts its own new id into the module before it asks the server;
  if that request is lost, the next load finds the id it knows, so the module forgets
  without the cursor starting again.
- `NobodyIsAstray`, in another way: a cursor of 0 is never told to start over
  (`uwulock-store/src/suite.rs:324`). A page of an empty space that adds a record, and does not
  pull until that has been deleted and forgotten, keeps it.
- `SnapshotsWhole` with two processes: "`backup offsite`" beside a running server
  (`docs/backups.md:48`, `uwulock-backup/src/service.rs:329`): the mutex is of one process.
- `AnAdminStays` with two requests at once (`docs/sso.md:105`): whether somebody is the
  last admin is counted before the update.
- `WithinQuota` with an invitation mailed again or run out meanwhile: both write what
  they read (`uwulock-api/src/identity.rs:1003`).
- An authenticator removed and set up anew starts with no step taken, so its code logs
  in twice (`uwulock-store/src/accounts.rs:891`); that is why `OneLoginEach` counts steps
  of the authenticator that is set up.
- Members who accepted are told of a new name of their family (`bump_org`), which their
  sync does not show yet (`org_management.rs:5`); `SyncsWhatChanges` asks for the other
  direction only.
- What `offsite.status` names as the last snapshot is gone when a later run prunes and
  then gives up (`uwulock-api/src/offsite.rs:432`: "is never pruned").
- `LinksOfTheMailbox`: "Another mailbox: the links named its addresses, which this one
  does not have" (`uwulock-api/src/masked.rs:617`). An address that was being made
  while the mailbox changed is linked afterwards.
- `GrantsGoWithTheAccount`: "Deleting the account […] ends its grant at UwUMail first"
  (`docs/uwu-api.md` 13.2). A connect that comes back between the two leaves its own.
- `RevokedIsOver`: "`revoked` (connect again)" (the same). A late answer about the grant
  before marks the new connection, since the status is written by the user's id.
- `MailedForItsDay`: "The day the mail for this due date went out."
  (`uwulock-store/src/reminders.rs:15`). A reminder moved to another day while its mail is
  on the way is marked as mailed for the new one.
- `OnePerSecond`: "one at a time, at least 1 s apart" (`docs/uwu-api.md` 15.2). A client
  that hangs up while its question is out frees the queue before the pace is written down.
- `NothingWasAsked`: "Nothing was asked: the try comes back" (`uwulock-api/src/breaches.rs:218`).
  It also comes back when XposedOrNot was asked, refused, and wants a pause too long to wait.
- `OnlyWhileAgreed`: an address needs "the account's consent" (`docs/uwu-api.md` 15.4),
  which is looked at before the line.
- `AskedOnceAWeek`: "Answers are kept 7 days" (the same). Two requests that found none both ask.
- `NoneIsLost`: "a source that fails keeps its last copy" (`docs/uwu-api.md` 15.3). A request
  that reads the files while they are written puts a list in memory that lacks one.
- `MonthIsAlwaysHere`: "unless they are here already" (`uwulock-api/src/geoip.rs`). A deletion
  cut off may leave the month and one of the files.
- `CeilingAlwaysKept`: "The cache holds at most 256 MiB" (`docs/icons.md:38`). Writes that meet
  a count or a removal are counted wrong until the next one.
- `KeyIsAlwaysOwners`: an own icon that is being put while its item is shared stays under the
  account's key (`uwulock-store/src/organizations.rs:600`).
- `LibraryIsRenewed`: "30 days for an icon" (`docs/uwu-api.md:940`). The second look at an icon
  of the library, under the lock, does not ask how old it is.
- An update on its way over a rotation writes what its client encrypted with the key
  before; `NothingUnderALostKey` excepts those (`strays`).

## 6. Not modelled, and the plan

Never modelled: cryptography, formats, SMTP, storage protocols, DNS and
certificates, the user interface, metrics, the one-time import. They decide
nothing about the state above, or answers of others decide.

Next, in this order:
1. `Realtime` with sessions: a connection ends within the check's interval; an event
   lost is made good by a sync.
2. Notices and alerts, blocked addresses: small components that share no state with the
   others.
