-------------------------------- MODULE Icons --------------------------------
(***************************************************************************)
(* Icons (icons.rs of the API): the cache of website icons with its book   *)
(* and its ceiling, one fetch per host at a time, the icons of the library *)
(* and of the databases, and an item's own icon beside a share.            *)
(*                                                                         *)
(* A file is the time it was written; the cache counts files and leaves    *)
(* their bytes out. Websites are external: they have an icon or none.      *)
(***************************************************************************)
EXTENDS Outside, Integers, FiniteSets

CONSTANTS
    IconScenes,                \* bound: what is asked for, how often, what may go wrong
    MaxFiles, AfterEviction,   \* the ceiling, and what an eviction leaves
    IconDays, NoneDays,        \* how long an icon, and that there is none, are kept
    AtOnce,                    \* fetches at once
    MostHosts,                 \* locks of hosts before unused ones go
    Tries,                     \* an address's fetches
    IconTime                   \* bound

ASSUME IconsBounds ==
    MaxFiles \in Nat /\ AfterEviction \in 0..MaxFiles /\ IconDays \in Nat /\ NoneDays \in Nat

VARIABLES
    disk,      \* when each file was written, or None
    book,      \* how many files the cache is thought to hold, or None
    locks,     \* of each name, its lock in the map, or None
    fetches,   \* what the address has left
    eviction,  \* what the removal of the oldest is at
    clearing,  \* the cache was emptied and the book not yet
    overlap,   \* a write met a count, a removal or the end of its request since the last count
    item       \* an item: whether it is an organisation's, its own icon's key, whether a put met a share

cache == <<disk, book, locks, fetches, request, eviction, clearing, overlap>>
iconsVars == <<scene, asked, harm, clock, cache, item>>

(* A host, its base domain, an icon drawn from a database, one of the      *)
(* library, which is kept elsewhere and not counted.                       *)
Hosts == {"www", "site"}
BaseOf(h) == IF h = "www" THEN "site" ELSE None
Cached == Hosts \cup {"drawn"}
Names == Cached \cup {"library"}
Files == Names \X {"png", "none", "tmp"}
ASSUME IconsNone == None \notin Nat /\ None \notin Names \X Requests /\ None # "extras"

Counted(d) == {f \in Files : f[1] \in Cached /\ d[f] # None}


(***************************************************************************)
(* One host's icon: from the cache, or fetched by one request at a time    *)
(***************************************************************************)
fresh(f, days) == disk[f] # None /\ clock - disk[f] < days
CachedIcon(n) == fresh(<<n, "png">>, IconDays)
CachedNone(n) == fresh(<<n, "none">>, NoneDays)

(* Its base domain comes next, where it has one.                           *)
ThenBase(r, n) == IF n \in Hosts /\ BaseOf(n) # None THEN Does(r, [at |-> "look", name |-> BaseOf(n)])
               ELSE Does(r, Ready)

SiteIcon(r) ==
    \E h \in Hosts :
        /\ Asks("site") /\ request[r] = Ready /\ fetches > 0
        /\ Does(r, [at |-> "look", name |-> h])
        /\ UNCHANGED <<scene, harm, clock, disk, book, locks, fetches, eviction, clearing, overlap, item>>

(* The answer to come is an icon or none; what it counted, and found of     *)
(* this name.                                                              *)
Working(at_, n, lock_) == [at |-> at_, name |-> n, lock |-> lock_, kind |-> "png", files |-> None, before |-> {}]

Holding == {"slot", "fetch", "keep", "count", "size", "replace", "rename", "book", "evict"}
Held(lock) == \E p \in Requests : request[p].at \in Holding /\ request[p].lock = lock
Used(lock) == \E p \in Requests : request[p].at \in Holding \cup {"lock"} /\ request[p].lock = lock

(* The lock of a name, made by whoever asks first; past the bound those    *)
(* that nobody holds or waits for go.                                      *)
HostLock(r, n) ==
    LET kept == IF Cardinality({x \in Names : locks[x] # None}) > MostHosts
                THEN [x \in Names |-> IF locks[x] # None /\ Used(locks[x]) THEN locks[x] ELSE None]
                ELSE locks
    IN [kept EXCEPT ![n] = IF @ = None THEN <<n, r>> ELSE @]

(* Cached answers take no try.                                             *)
Look(r) ==
    LET n == request[r].name IN
    /\ request[r].at = "look"
    /\ \/ CachedIcon(n) /\ Does(r, Ready) /\ UNCHANGED <<fetches, locks>>
       \/ n \in Hosts /\ ~CachedIcon(n) /\ CachedNone(n) /\ ThenBase(r, n) /\ UNCHANGED <<fetches, locks>>
       \/ n \in Hosts /\ ~CachedIcon(n) /\ ~CachedNone(n) /\ fetches = 0
          /\ Does(r, Ready) /\ UNCHANGED <<fetches, locks>>
       \/ /\ n = "drawn" /\ ~CachedIcon(n)
          /\ Does(r, Working("keep", n, None))
          /\ UNCHANGED <<fetches, locks>>
       \/ /\ n # "drawn" /\ ~CachedIcon(n) /\ ~(n \in Hosts /\ (CachedNone(n) \/ fetches = 0))
          /\ fetches' = IF n \in Hosts THEN fetches - 1 ELSE fetches
          /\ locks' = HostLock(r, n)
          /\ Does(r, Working("lock", n, HostLock(r, n)[n]))
    /\ UNCHANGED <<scene, asked, harm, clock, disk, book, eviction, clearing, overlap, item>>

TakeHostLockBlind(r) ==
    /\ request[r].at = "lock" /\ ~Held(request[r].lock)
    /\ Does(r, [request[r] EXCEPT !.at = "slot"])
    /\ UNCHANGED <<scene, asked, harm, clock, disk, book, locks, fetches, eviction, clearing, overlap, item>>

(* Another may have fetched it meanwhile; for the library, whenever.       *)
TakeHostLock(r) ==
    LET n == request[r].name IN
    /\ request[r].at = "lock" /\ ~Held(request[r].lock)
    /\ IF CachedIcon(n) \/ (n = "library" /\ disk[<<n, "png">>] # None) THEN Does(r, Ready)
       ELSE IF n \in Hosts /\ CachedNone(n) THEN ThenBase(r, n)
       ELSE Does(r, [request[r] EXCEPT !.at = "slot"])
    /\ UNCHANGED <<scene, asked, harm, clock, disk, book, locks, fetches, eviction, clearing, overlap, item>>

(* The place is given back with the lock, once the icon is kept.           *)
Fetching == {p \in Requests : request[p].at \in Holding \ {"slot"} /\ request[p].lock # None}

TakeSlot(r) ==
    /\ request[r].at = "slot" /\ Cardinality(Fetching) < AtOnce
    /\ Does(r, [request[r] EXCEPT !.at = "fetch"])
    /\ UNCHANGED <<scene, asked, harm, clock, disk, book, locks, fetches, eviction, clearing, overlap, item>>

(* An error is kept like a website without one; the library's is not.      *)
FetchSite(r) ==
    /\ request[r].at = "fetch"
    /\ \E kind \in {"png", "none"} :
          IF request[r].name # "library" THEN Does(r, [request[r] EXCEPT !.at = "keep", !.kind = kind])
          ELSE Does(r, IF kind = "png" THEN [request[r] EXCEPT !.at = "rename"] ELSE Ready)
    /\ UNCHANGED <<scene, asked, harm, clock, disk, book, locks, fetches, eviction, clearing, overlap, item>>

(***************************************************************************)
(* keep: the file, then the book, then room is made                        *)
(***************************************************************************)
Kept(r) == IF request[r].kind = "png" \/ request[r].name \notin Hosts THEN Ready
           ELSE IF BaseOf(request[r].name) # None THEN [at |-> "look", name |-> BaseOf(request[r].name)] ELSE Ready

(* With the disk nearly full nothing is kept.                              *)
Room(r) ==
    /\ request[r].at = "keep"
    /\ \/ /\ Does(r, [request[r] EXCEPT !.at = IF book = None THEN "count" ELSE "size"]) /\ UNCHANGED harm
       \/ Goes("full") /\ Does(r, Kept(r))
    /\ UNCHANGED <<scene, asked, clock, disk, book, locks, fetches, eviction, clearing, overlap, item>>

CacheSize(r) ==
    /\ request[r].at = "count"
    /\ Does(r, [request[r] EXCEPT !.at = "size", !.files = Cardinality(Counted(disk))])
    /\ UNCHANGED <<scene, asked, harm, clock, disk, book, locks, fetches, eviction, clearing, overlap, item>>

(* What was counted first stays; then what there is of this name.          *)
Size(r) ==
    LET q == request[r] IN
    /\ q.at = "size"
    /\ book' = IF book = None THEN q.files ELSE book
    /\ Does(r, [q EXCEPT !.at = "replace", !.files = None,
                         !.before = {f \in {<<q.name, "png">>, <<q.name, "none">>} : disk[f] # None}])
    /\ UNCHANGED <<scene, asked, harm, clock, disk, locks, fetches, eviction, clearing, overlap, item>>

Kind(q) == <<q.name, q.kind>>
Other(q) == <<q.name, IF q.kind = "png" THEN "none" ELSE "png">>
Temporary(q) == <<q.name, "tmp">>

(* Somebody counts, or removes, at this moment.                            *)
Sizing(q) == q.at = "size" /\ q.files # None
Counting == eviction.at \in {"remove", "count"} \/ \E p \in Requests : Sizing(request[p])

Writes(q) == q.at \in {"replace", "rename", "book"} /\ q.name \in Cached

Replace(r) ==
    LET q == request[r] IN
    /\ q.at = "replace"
    /\ disk' = [disk EXCEPT ![Other(q)] = None, ![Temporary(q)] = clock]
    /\ Does(r, [q EXCEPT !.at = "rename"])
    /\ overlap' = (overlap \/ Counting)
    /\ UNCHANGED <<scene, asked, harm, clock, book, locks, fetches, eviction, clearing, item>>

(* The directory may be gone, and the file with it.                        *)
Renamed(q) == IF disk[Temporary(q)] = None THEN disk
              ELSE [disk EXCEPT ![Temporary(q)] = None, ![Kind(q)] = clock]

Rename(r) ==
    LET q == request[r] IN
    /\ q.at = "rename"
    /\ IF q.name = "library"
       THEN disk' = [disk EXCEPT ![Kind(q)] = clock] /\ Does(r, Ready) /\ UNCHANGED overlap
       ELSE disk' = Renamed(q) /\ Does(r, [q EXCEPT !.at = "book"]) /\ overlap' = (overlap \/ Counting)
    /\ UNCHANGED <<scene, asked, harm, clock, book, locks, fetches, eviction, clearing, item>>

Less(n, k) == IF n > k THEN n - k ELSE 0
Booked(q) == IF book = None THEN None ELSE Less(book, Cardinality(q.before)) + 1
Over(b) == b # None /\ b > MaxFiles

(* Past the ceiling the oldest go - unless somebody removes them already.  *)
Book(r) ==
    LET q == request[r] b == Booked(q) IN
    /\ q.at = "book"
    /\ book' = b
    /\ IF Over(b) /\ eviction.at = "idle"
       THEN Does(r, [q EXCEPT !.at = "evict"]) /\ eviction' = [at |-> "list", by |-> r]
       ELSE Does(r, Kept(r)) /\ UNCHANGED eviction
    /\ UNCHANGED <<scene, asked, harm, clock, disk, locks, fetches, clearing, overlap, item>>

(***************************************************************************)
(* evict and prune: a list, the removals, the book anew                    *)
(***************************************************************************)
DaysOf(f) == CASE f[2] = "png" -> IconDays [] f[2] = "none" -> NoneDays [] f[2] = "tmp" -> 1
Expired(f) == eviction.by = Daily /\ clock - disk[f] > DaysOf(f)

(* The oldest, while more are left than an eviction leaves.                *)
Oldest(listed, d) ==
    {gone \in SUBSET listed :
        /\ Cardinality(listed \ gone) =
              (IF Cardinality(listed) > AfterEviction THEN AfterEviction ELSE Cardinality(listed))
        /\ \A f \in gone, k \in listed \ gone : d[f] <= d[k]}

(* A file that was sized and is removed before the book says so is taken   *)
(* off twice.                                                              *)
Sized(gone) == \E p \in Requests : Writes(request[p]) /\ request[p].before \cap gone # {}

(* Who is between a count and the book is not known by the new list.       *)
ListFiles ==
    /\ eviction.at = "list"
    /\ LET expired == {f \in Counted(disk) : Expired(f)} IN
       /\ eviction' = [at |-> "remove", by |-> eviction.by, listed |-> Counted(disk) \ expired, when |-> disk]
       /\ disk' = [f \in Files |-> IF f \in expired THEN None ELSE disk[f]]
       /\ overlap' = (Sized(expired) \/ (overlap /\ \E p \in Requests : Sizing(request[p]) \/ Writes(request[p])))
    /\ UNCHANGED <<scene, asked, harm, clock, book, locks, fetches, request, clearing, item>>

(* What is gone already is not removed, and still counted.                 *)
Removal(gone) == [f \in Files |-> IF f \in gone THEN None ELSE disk[f]]

RemoveOldest ==
    /\ eviction.at = "remove"
    /\ \E gone \in Oldest(eviction.listed, eviction.when) :
       LET removed == {f \in gone : disk[f] # None} IN
       /\ disk' = Removal(gone)
       /\ eviction' = [at |-> "count", by |-> eviction.by, left |-> Cardinality(eviction.listed) - Cardinality(removed)]
       /\ overlap' = (overlap \/ Sized(removed))
    /\ UNCHANGED <<scene, asked, harm, clock, book, locks, fetches, request, clearing, item>>

Recount ==
    /\ eviction.at = "count"
    /\ book' = eviction.left /\ eviction' = Ready
    /\ IF eviction.by \in Requests THEN Does(eviction.by, Kept(eviction.by)) ELSE UNCHANGED request
    /\ UNCHANGED <<scene, asked, harm, clock, disk, locks, fetches, clearing, overlap, item>>

DailyEvict ==
    /\ Asks("daily") /\ eviction.at = "idle" /\ eviction' = [at |-> "list", by |-> Daily]
    /\ UNCHANGED <<scene, harm, clock, disk, book, locks, fetches, request, clearing, overlap, item>>

(* An admin empties the cache: the files, then the book.                   *)
Clear ==
    /\ Asks("clear") /\ ~clearing /\ clearing' = TRUE
    /\ disk' = [f \in Files |-> IF f[1] \in Cached THEN None ELSE disk[f]]
    /\ overlap' = (overlap \/ Sized(Counted(disk)))
    /\ UNCHANGED <<scene, harm, clock, book, locks, fetches, request, eviction, item>>

ClearBook ==
    /\ clearing /\ clearing' = FALSE /\ book' = None
    /\ UNCHANGED <<scene, asked, harm, clock, disk, locks, fetches, request, eviction, overlap, item>>

(* An icon of a database, and one of the library.                          *)
Drawn(r) ==
    /\ Asks("drawn") /\ request[r] = Ready /\ Does(r, [at |-> "look", name |-> "drawn"])
    /\ UNCHANGED <<scene, harm, clock, disk, book, locks, fetches, eviction, clearing, overlap, item>>

LibraryIcon(r) ==
    /\ Asks("library") /\ request[r] = Ready /\ Does(r, [at |-> "look", name |-> "library"])
    /\ UNCHANGED <<scene, harm, clock, disk, book, locks, fetches, eviction, clearing, overlap, item>>

(***************************************************************************)
(* An item's own icon                                                      *)
(***************************************************************************)
ownRest == <<scene, harm, clock, disk, book, locks, fetches, eviction, clearing, overlap>>

(* The key it must be under is the owner's; then the storage is looked at. *)
OwnPut(r) ==
    /\ Asks("own") /\ request[r] = Ready
    /\ Does(r, [at |-> "own", key |-> IF item.shared THEN "organization" ELSE "extras"])
    /\ UNCHANGED <<ownRest, item>>

PutOwnIcon(r) ==
    /\ request[r].at = "own" /\ Does(r, Ready)
    /\ item' = [item EXCEPT !.own = request[r].key]
    /\ UNCHANGED <<ownRest, asked>>

(* Into an organisation: what is under the account's keys goes.            *)
Share ==
    /\ Asks("share") /\ ~item.shared
    /\ item' = [item EXCEPT !.shared = TRUE, !.own = None,
                            !.raced = \E r \in Requests : request[r].at = "own"]
    /\ UNCHANGED <<ownRest, request>>

DeleteExtrasKey ==
    /\ Asks("extras") /\ item' = [item EXCEPT !.own = IF @ = "extras" /\ ~item.shared THEN None ELSE @]
    /\ UNCHANGED <<ownRest, request>>

OwnDelete ==
    /\ Asks("delete") /\ item' = [item EXCEPT !.own = None]
    /\ UNCHANGED <<ownRest, request>>

(***************************************************************************)
(* Around it                                                               *)
(***************************************************************************)

(* A client hangs up: its request is dropped where it waits, with its lock *)
(* and its place. What another thread does for it still happens: the       *)
(* rename, or the removals.                                                *)
Orphaned ==
    CASE eviction.at = "list" -> Oldest(Counted(disk), disk)
      [] eviction.at = "remove" -> Oldest(eviction.listed, eviction.when)
      [] OTHER -> {{}}

IconHangsUp(r) ==
    LET q == request[r] IN
    /\ Goes("hang up") /\ q # Ready /\ Does(r, Ready)
    /\ CASE q.at = "rename" ->
              /\ disk' \in {disk, IF q.name = "library" THEN [disk EXCEPT ![Kind(q)] = clock] ELSE Renamed(q)}
              /\ overlap' = TRUE /\ UNCHANGED eviction
         [] q.at = "evict" ->
              \E gone \in Orphaned :
                 /\ disk' = Removal(gone) /\ eviction' = Ready
                 /\ overlap' = (overlap \/ Sized({f \in gone : disk[f] # None}) \/ (book # None /\ ~Over(book)))
         [] OTHER -> UNCHANGED <<disk, eviction>> /\ overlap' = (overlap \/ q.at \in {"replace", "book"})
    /\ UNCHANGED <<scene, asked, clock, book, locks, fetches, clearing, item>>

IconsStop ==
    /\ Goes("stop")
    /\ request' = [r \in Requests |-> Ready] /\ locks' = [n \in Names |-> None]
    /\ book' = None /\ eviction' = Ready /\ clearing' = FALSE /\ overlap' = FALSE /\ fetches' = Tries
    /\ UNCHANGED <<scene, asked, clock, disk, item>>

(* A try comes back as time goes by.                                       *)
IconsTick ==
    /\ clock < IconTime /\ clock' = clock + 1 /\ fetches' = IF fetches < Tries THEN fetches + 1 ELSE fetches
    /\ UNCHANGED <<scene, asked, harm, disk, book, locks, request, eviction, clearing, overlap, item>>

IconsInit ==
    /\ scene \in IconScenes /\ asked = 0 /\ harm = scene.harm /\ clock = 1
    /\ \E had \in SUBSET {<<"site", "none">>, <<"drawn", "png">>, <<"library", "png">>} :
          disk = [f \in Files |-> IF f \in had THEN 0 ELSE None]
    /\ book = None /\ locks = [n \in Names |-> None] /\ fetches = Tries
    /\ request = [r \in Requests |-> Ready] /\ eviction = Ready /\ clearing = FALSE /\ overlap = FALSE
    /\ item = [shared |-> FALSE, own |-> None, raced |-> FALSE]

IconsNext ==
    \/ \E r \in Requests :
          \/ SiteIcon(r) \/ Drawn(r) \/ LibraryIcon(r) \/ Look(r) \/ TakeHostLock(r) \/ TakeSlot(r) \/ FetchSite(r)
          \/ Room(r) \/ CacheSize(r) \/ Size(r) \/ Replace(r) \/ Rename(r) \/ Book(r)
          \/ OwnPut(r) \/ PutOwnIcon(r) \/ IconHangsUp(r)
    \/ ListFiles \/ RemoveOldest \/ Recount \/ DailyEvict \/ Clear \/ ClearBook
    \/ Share \/ DeleteExtrasKey \/ OwnDelete
    \/ IconsStop \/ IconsTick

IconsSpec == IconsInit /\ [][IconsNext]_iconsVars

(***************************************************************************)
(* What must hold                                                          *)
(***************************************************************************)

(* "two requests for a new host fetch it once" (host_lock): no two fetch   *)
(* the same at a time, and none fetches what is in the cache by now.       *)
FetchedOnce ==
    \A r \in Requests : request[r].at = "fetch" =>
        /\ \A p \in Requests \ {r} : request[p].at = "fetch" => request[p].name # request[r].name
        /\ ~CachedIcon(request[r].name) /\ ~CachedNone(request[r].name)

(* "The cache holds at most 256 MiB" (docs/icons.md:38): at rest, where no *)
(* write met a count, a removal or a client that hung up since the files   *)
(* were last counted.                                                      *)
AtRest == clearing = FALSE /\ eviction = Ready /\ \A r \in Requests : request[r].at \in {"idle", "look", "lock", "slot", "fetch", "own"}
CeilingKept == AtRest /\ ~overlap /\ book # None => Cardinality(Counted(disk)) <= MaxFiles

(* An own icon of an organisation's item is not under the account's key,   *)
(* unless it was being put while the item was shared.                      *)
KeyIsOwners == item.own = "extras" /\ item.shared => item.raced

(* All of it.                                                              *)
IconsInv == FetchedOnce /\ CeilingKept /\ KeyIsOwners

(***************************************************************************)
(* What does not                                                           *)
(***************************************************************************)

(* The ceiling without the exception.                                      *)
CeilingAlwaysKept == AtRest /\ book # None => Cardinality(Counted(disk)) <= MaxFiles

(* "Under the account's keys, which the organisation's members do not      *)
(* have" (store/organizations.rs:600): what is so goes with the share, and *)
(* one that is being put at that moment comes after it.                    *)
KeyIsAlwaysOwners == item.own = "extras" => ~item.shared

(* "30 days for an icon" (docs/uwu-api.md): one of the library that is     *)
(* older is answered with all the same, since the second look, under the   *)
(* lock, does not ask how old it is.                                       *)
LibraryIsRenewed ==
    [][\A r \in Requests : (request[r].at = "lock" /\ request[r].name = "library" /\ request'[r] = Ready /\ harm' = harm)
                           => CachedIcon("library")]_iconsVars
=============================================================================
