------------------------------- MODULE Mirrors -------------------------------
(***************************************************************************)
(* Lists of others the server keeps a copy of: breached sites (breaches.rs,*)
(* from two sources), 2FA Directory (reports.rs) and the icon library's    *)
(* index (icons.rs), each in memory and on disk, fetched when somebody     *)
(* first asks and then once a day; and the GeoIP databases (geoip.rs),     *)
(* which come once a month as two files.                                   *)
(*                                                                         *)
(* What a source has is an edition, what DB-IP has is a month; both grow.  *)
(* The sources are external: they give what they have or fail.  A file is  *)
(* written beside its place and renamed into it.                           *)
(***************************************************************************)
EXTENDS Outside, Sequences

CONSTANTS
    MirrorScenes,          \* bound: which lists are asked for, how often, what may go wrong
    SitesRetry,       \* after a failure, breached sites are not asked for again this long
    MirrorTime, MaxEdition   \* bounds

ASSUME MirrorsBounds == SitesRetry \in Nat

VARIABLES
    edition,   \* what the sources have
    file,      \* of each source, the edition on disk, or None
    copy,      \* of each list, what is handed out, or None
    lock,      \* of each list, who refreshes it
    failed,    \* when a request last failed to fetch breached sites, or None
    switch,    \* the switch of GeoIP
    geo,       \* its files: city, asn, month
    opened,    \* its databases in memory, or None
    download,  \* what the downloads of it are at
    forgetting,\* what of its files is still to be deleted, or None
    began,     \* counted: when requests began to fetch breached sites, and how it ended
    mixed      \* counted: lists that were read while they were written, or whose fetch was hung up

lists == <<edition, file, copy, lock, failed, request, began, mixed>>
geoip == <<switch, geo, opened, download, forgetting>>
mirrorsVars == <<scene, asked, harm, clock, lists, geoip>>

Tasks == Requests \cup {Daily}
Endings == {"failed", "got", "hung up"}

Lists == {"sites", "twofa", "library"}
Sources(l) == IF l = "sites" THEN <<"hibp", "xon">> ELSE <<l>>
AllSources == {"hibp", "xon", "twofa", "library"}
Found == Nat \cup {None}
CopiesOf(S) == [S -> Found]
Databases == [city : Found, asn : Found]

ASSUME MirrorsNone ==
    /\ None \notin Nat /\ None \notin Tasks /\ None \notin Endings
    /\ None \notin Databases /\ \A S \in SUBSET AllSources : None \notin CopiesOf(S)

(***************************************************************************)
(* A request: from memory, else from disk, else fetched now                *)
(***************************************************************************)
Reading(l, todo, then) == [at |-> "load", list |-> l, todo |-> todo, got |-> [s \in {} |-> None], then |-> then]

Get(r) ==
    \E l \in Lists :
        /\ Asks(l) /\ request[r] = Ready /\ copy[l] = None
        /\ Does(r, Reading(l, Sources(l), "get"))
        /\ UNCHANGED <<scene, harm, clock, edition, file, copy, lock, failed, began, mixed, geoip>>

FailedLately == failed # None /\ clock - failed < SitesRetry

Unlocks(r, l) == lock' = [lock EXCEPT ![l] = IF @ = r THEN None ELSE @]

(* One file after the other; with the last, what there is becomes the list.*)
(* A refresh of breached sites ends with it, and remembers when a request  *)
(* got nothing.                                                            *)
Load(r) ==
    LET q == request[r]
        s == Head(q.todo)
        got == [x \in DOMAIN q.got \cup {s} |-> IF x = s THEN file[s] ELSE q.got[x]]
        none == \A x \in DOMAIN got : got[x] = None
        step == [q EXCEPT !.todo = Tail(@), !.got = got]
    IN
    /\ q.at = "load"
    /\ IF Tail(q.todo) # <<>> THEN Does(r, step) /\ UNCHANGED <<copy, lock, failed, began>>
       ELSE /\ copy' = IF none THEN copy ELSE [copy EXCEPT ![q.list] = got]
            /\ Unlocks(r, q.list)
            /\ IF q.then # "get"
               THEN /\ Does(r, Ready)
                    /\ failed' = IF r # Daily /\ none /\ q.then = "errors" THEN clock ELSE failed
                    /\ began' = IF r = Daily THEN began
                                ELSE [began EXCEPT ![Len(began)].ended = IF none THEN "failed" ELSE "got"]
               ELSE /\ Does(r, IF none /\ ~(q.list = "sites" /\ FailedLately)
                               THEN [at |-> "lock", list |-> q.list] ELSE Ready)
                    /\ UNCHANGED <<failed, began>>
    /\ UNCHANGED <<scene, asked, harm, clock, edition, file, mixed, geoip>>

(* Another request may have fetched breached sites, or failed, meanwhile.  *)
TakeListLock(r) ==
    LET l == request[r].list IN
    /\ request[r].at = "lock" /\ lock[l] = None
    /\ IF l = "sites" /\ r # Daily /\ (copy[l] # None \/ FailedLately)
       THEN Does(r, Ready) /\ UNCHANGED <<lock, began>>
       ELSE /\ lock' = [lock EXCEPT ![l] = r]
            /\ Does(r, [at |-> "ask", list |-> l, todo |-> Sources(l), errors |-> FALSE, edition |-> None])
            /\ began' = IF l = "sites" /\ r # Daily THEN Append(began, [at |-> clock, ended |-> None]) ELSE began
    /\ UNCHANGED <<scene, asked, harm, clock, edition, file, copy, failed, mixed, geoip>>

(* On to the next source of breached sites, or to reading them all.        *)
NextSource(r, errors) ==
    LET q == request[r] IN
    IF Tail(q.todo) # <<>>
    THEN Does(r, [at |-> "ask", list |-> q.list, todo |-> Tail(q.todo), errors |-> errors,
                  edition |-> None])
    ELSE Does(r, Reading(q.list, Sources(q.list), IF errors THEN "errors" ELSE "fetched"))

Fetch(r) ==
    /\ request[r].at = "ask"
    /\ Does(r, [request[r] EXCEPT !.at = "write", !.edition = edition])
    /\ UNCHANGED <<scene, asked, harm, clock, edition, file, copy, lock, failed, began, mixed, geoip>>

(* It does not answer, or not with a list: what there was stays.           *)
FetchFails(r) ==
    LET l == request[r].list IN
    /\ Goes("failed") /\ request[r].at = "ask"
    /\ IF l = "sites" THEN NextSource(r, TRUE) /\ UNCHANGED lock
       ELSE Does(r, Ready) /\ Unlocks(r, l)
    /\ UNCHANGED <<scene, asked, clock, edition, file, copy, failed, began, mixed, geoip>>

(* Lists that somebody reads file by file at this moment.                  *)
BeingRead(l) == {l} \cap {request[p].list : p \in {p \in Tasks : request[p].at = "load"}}

WriteList(r) ==
    LET q == request[r] IN
    /\ q.at = "write"
    /\ file' = [file EXCEPT ![Head(q.todo)] = q.edition]
    /\ mixed' = mixed \cup BeingRead(q.list)
    /\ IF q.list = "sites" THEN NextSource(r, q.errors) /\ UNCHANGED <<copy, lock>>
       ELSE /\ copy' = [copy EXCEPT ![q.list] = [s \in {q.list} |-> q.edition]]
            /\ Does(r, Ready) /\ Unlocks(r, q.list)
    /\ UNCHANGED <<scene, asked, harm, clock, edition, failed, began, geoip>>

(* The nightly task fetches what is in use, one list after the other; for  *)
(* the library an admin may ask as well, which is the same to it.          *)
InUse(l) == l = "library" \/ copy[l] # None \/ \E s \in AllSources : file[s] # None /\ \E i \in DOMAIN Sources(l) : Sources(l)[i] = s

Refresh ==
    \E l \in Lists :
        /\ Asks("daily") /\ l \in scene.asks /\ request[Daily] = Ready /\ InUse(l)
        /\ Does(Daily, [at |-> "lock", list |-> l])
        /\ UNCHANGED <<scene, harm, clock, edition, file, copy, lock, failed, began, mixed, geoip>>

(***************************************************************************)
(* GeoIP: two files of one month, and a third that says which              *)
(***************************************************************************)
geoRest == <<scene, harm, clock, lists>>
NoFiles == [city |-> None, asn |-> None, month |-> None]
NotRunning == [at |-> "idle"]

(* The nightly task, or an admin who asks for it or switches it on.        *)
Update ==
    /\ Asks("update") /\ switch /\ download = NotRunning
    /\ download' = [at |-> "look"]
    /\ UNCHANGED <<geoRest, switch, geo, opened, forgetting>>

DownloadMonthFirst ==
    /\ download.at = "look"
    /\ \E m \in {edition, edition - 1} \ {0} :
          download' = IF opened # None /\ geo.month \in {edition, m} THEN NotRunning
                      ELSE [at |-> "month", month |-> m]
    /\ UNCHANGED <<geoRest, asked, switch, geo, opened, forgetting>>

(* This month's, or last month's, unless those are here already.           *)
Download ==
    /\ download.at = "look"
    /\ \E m \in {edition, edition - 1} \ {0} :
          download' = IF opened # None /\ geo.month \in {edition, m} THEN NotRunning
                      ELSE [at |-> "city", month |-> m]
    /\ UNCHANGED <<geoRest, asked, switch, geo, opened, forgetting>>

DownloadFails ==
    /\ Goes("failed") /\ download.at \in {"look", "city", "asn", "month"}
    /\ download' = NotRunning
    /\ UNCHANGED <<scene, asked, clock, lists, switch, geo, opened, forgetting>>

(* The files into their places, then the month, then they are opened.      *)
Renames(what, then) ==
    /\ download.at = what
    /\ geo' = [geo EXCEPT ![what] = download.month]
    /\ download' = [download EXCEPT !.at = then]
    /\ UNCHANGED <<geoRest, asked, switch, opened, forgetting>>

RenameCity == Renames("city", "asn")
RenameAsn == Renames("asn", "month")
WriteMonth == Renames("month", "open")

Open == IF geo.city = None /\ geo.asn = None THEN None ELSE [city |-> geo.city, asn |-> geo.asn]

OpenFiles ==
    /\ download.at = "open" /\ download' = NotRunning /\ opened' = Open
    /\ UNCHANGED <<geoRest, asked, switch, geo, forgetting>>

SetGeoip ==
    /\ Asks("switch") /\ switch' = ~switch
    /\ UNCHANGED <<geoRest, geo, opened, download, forgetting>>

(* Off, the files go, one by one and in any order; no download is waited   *)
(* for.                                                                    *)
ForgetGeoip ==
    /\ Asks("forget") /\ ~switch /\ forgetting = None
    /\ opened' = None /\ forgetting' = {f \in DOMAIN geo : geo[f] # None}
    /\ UNCHANGED <<geoRest, switch, geo, download>>

DeleteFile ==
    /\ forgetting # None
    /\ IF forgetting = {} THEN forgetting' = None /\ UNCHANGED geo
       ELSE \E f \in forgetting : /\ geo' = [geo EXCEPT ![f] = None]
                                  /\ forgetting' = forgetting \ {f}
    /\ UNCHANGED <<geoRest, asked, switch, opened, download>>

(***************************************************************************)
(* Around it                                                               *)
(***************************************************************************)
Publish ==
    /\ Goes("publish") /\ edition < MaxEdition /\ edition' = edition + 1
    /\ UNCHANGED <<scene, asked, clock, file, copy, lock, failed, request, began, mixed, geoip>>

(* A client hangs up: its request is dropped where it waits. The rename of *)
(* a file may still happen, since another thread does it.                  *)
ReaderHangsUp(r) ==
    LET q == request[r] IN
    /\ Goes("hang up") /\ q # Ready /\ Does(r, Ready)
    /\ Unlocks(r, q.list)
    /\ IF q.at = "write"
       THEN \/ file' = [file EXCEPT ![Head(q.todo)] = q.edition]
            \/ UNCHANGED file
       ELSE UNCHANGED file
    /\ IF lock[q.list] = r
       THEN /\ mixed' = mixed \cup {q.list}
            /\ began' = IF q.list = "sites" THEN [began EXCEPT ![Len(began)].ended = "hung up"] ELSE began
       ELSE UNCHANGED <<mixed, began>>
    /\ UNCHANGED <<scene, asked, clock, edition, copy, failed, geoip>>

(* The process ends and starts again; the databases are opened on start.   *)
MirrorsStop ==
    /\ Goes("stop")
    /\ request' = [r \in Tasks |-> Ready] /\ lock' = [l \in Lists |-> None]
    /\ copy' = [l \in Lists |-> None] /\ failed' = None
    /\ mixed' = {} /\ began' = <<>>
    /\ download' = NotRunning /\ forgetting' = None /\ opened' = Open
    /\ UNCHANGED <<scene, asked, clock, edition, file, switch, geo>>

MirrorsTick ==
    /\ clock < MirrorTime /\ clock' = clock + 1
    /\ UNCHANGED <<scene, asked, harm, lists, geoip>>

MirrorsInit ==
    /\ scene \in MirrorScenes /\ asked = 0 /\ harm = scene.harm /\ clock = 1 /\ edition = 1
    /\ \E had \in {None, 1} : file = [s \in AllSources |-> had]
    /\ copy = [l \in Lists |-> None] /\ lock = [l \in Lists |-> None] /\ failed = None
    /\ request = [r \in Tasks |-> Ready] /\ began = <<>> /\ mixed = {}
    /\ switch = TRUE /\ download = NotRunning /\ forgetting = None
    /\ geo \in {NoFiles, [f \in DOMAIN NoFiles |-> 1]} /\ opened = Open

MirrorsNext ==
    \/ \E r \in Tasks : Load(r) \/ TakeListLock(r) \/ Fetch(r) \/ FetchFails(r) \/ WriteList(r)
    \/ \E r \in Requests : Get(r) \/ ReaderHangsUp(r)
    \/ Refresh
    \/ Update \/ Download \/ DownloadFails \/ RenameCity \/ RenameAsn \/ WriteMonth \/ OpenFiles
    \/ SetGeoip \/ ForgetGeoip \/ DeleteFile
    \/ Publish \/ MirrorsStop \/ MirrorsTick

MirrorsSpec == MirrorsInit /\ [][MirrorsNext]_mirrorsVars

(***************************************************************************)
(* What must hold                                                          *)
(***************************************************************************)

(* breaches.rs SITES_RETRY: after a request failed to fetch breached sites *)
(* none begins to fetch them for a while, however many wait, and never two *)
(* at once; one whose client hung up counts for nothing.                   *)
NotAskedAgain ==
    \A i, j \in DOMAIN began :
        i < j => CASE began[i].ended = "failed" -> began[j].at >= began[i].at + SitesRetry
                   [] began[i].ended = "hung up" -> TRUE
                   [] OTHER -> FALSE

(* breaches.rs load, reports.rs, icons.rs: once nobody is at it, what is   *)
(* handed out is what the files on disk say - unless they were written     *)
(* while somebody read them, or a client hung up in between.               *)
MemoryIsDisk ==
    \A l \in Lists \ mixed :
        (copy[l] # None /\ \A r \in Tasks : request[r] = Ready \/ request[r].list # l)
        => \A s \in DOMAIN copy[l] : copy[l][s] = file[s]

(* geoip.rs download: the month that is said to be here is, in both files, *)
(* at whatever point an update was cut off; where the files are not being  *)
(* deleted.                                                                *)
MonthIsHere ==
    geo.month # None /\ "forget" \notin scene.asks
    => geo.city # None /\ geo.city >= geo.month /\ geo.asn # None /\ geo.asn >= geo.month

(* All of it.                                                              *)
MirrorsInv == NotAskedAgain /\ MemoryIsDisk /\ MonthIsHere

(***************************************************************************)
(* What does not                                                           *)
(***************************************************************************)

(* "a source that fails keeps its last copy", "once a day" (docs/uwu-api.md*)
(* 15.3): a request that reads the files while they are written puts a     *)
(* list in memory that lacks a source, or is older, until the next night.  *)
NoneIsLost ==
    (copy["sites"] # None /\ \A r \in Tasks : request[r] = Ready)
    => \A s \in DOMAIN copy["sites"] : copy["sites"][s] = file[s]

(* "unless they are here already" (geoip.rs): a deletion cut off may leave *)
(* the month and one of the files.                                         *)
MonthIsAlwaysHere ==
    geo.month # None /\ forgetting = None /\ download = NotRunning
    => geo.city # None /\ geo.asn # None
=============================================================================
