-------------------------------- MODULE Files --------------------------------
(***************************************************************************)
(* Files on disk and the rows that claim them: attachments of an item,     *)
(* the files of Sends, and what strangers upload to a file request.  A     *)
(* request of a client is a few steps: it looks at the rows, receives the  *)
(* file, links it into its place, and marks the row.  Others come between, *)
(* and the process may end.  A nightly sweep takes what nothing claims.    *)
(*                                                                         *)
(* One account, one item, one file request.  Every file has one unit of    *)
(* size, messages have none, a place is named by the file's id, and ids    *)
(* are never used again.  The hidden part a file is received into is left  *)
(* out: nothing reads it.                                                  *)
(***************************************************************************)
EXTENDS Naturals, FiniteSets

CONSTANTS
    Attachments,   \* ids of attachments: places in attachments/<item>/
    Sends,         \* file Sends, each with its place in sends/<send>/
    RequestFiles,  \* ids of a request's files: places in file-requests/<request>/
    Submissions,
    FilesOf,       \* the files each submission announces
    Handlers,      \* requests of clients that are under way at once
    Scenes,        \* bound: which attachments, Sends and submissions meet
    MaxAccess,     \* bound: the most openings a Send may allow
    StorageLimit,  \* storagePerUserMb
    RequestLimit,  \* the most a file request may hold
    MaxCrashes     \* bound

Files == Attachments \cup Sends \cup RequestFiles

ASSUME PlacesAssumption ==
    /\ Attachments \cap Sends = {}
    /\ Attachments \cap RequestFiles = {}
    /\ Sends \cap RequestFiles = {}
    /\ IsFiniteSet(Files)
ASSUME FilesOfAssumption ==
    /\ IsFiniteSet(Submissions)
    /\ FilesOf \in [Submissions -> SUBSET RequestFiles]
    /\ \A s, t \in Submissions : s # t => FilesOf[s] \cap FilesOf[t] = {}
ASSUME ScenesAssumption == Scenes \subseteq SUBSET (Attachments \cup Sends \cup Submissions)
ASSUME FilesBounds == MaxAccess \in Nat /\ StorageLimit \in Nat /\ RequestLimit \in Nat
                      /\ MaxCrashes \in Nat

VARIABLES
    scene,     \* the attachments, Sends and submissions there will be
    disk,      \* what lies in each place: nothing, a file of this week, an older one
    item,      \* whether the item is there
    attached,  \* the ids of attachments, and their rows
    sends,     \* the rows of Sends
    request,   \* the row of the file request
    started,   \* the rows of submissions
    arriving,  \* the rows of their files
    handler,   \* what each request of a client is at
    sweep,     \* the nightly sweep
    crashes,
    cut,       \* files left halfway: in place and not marked, moved and not taken, or of a
               \* Send written back after its deletion
    lately,    \* files whose row was deleted this week
    opened,    \* openings of each Send since it was saved first
    most,      \* the most it allowed in that time
    allowed    \* the most submissions the request ever allowed

rows == <<item, attached, sends, request, started, arriving>>
ghosts == <<cut, lately, opened, most, allowed>>
vars == <<scene, disk, rows, handler, sweep, crashes, ghosts>>

Row == [is : {"new", "saved", "gone"}, uploaded : BOOLEAN, shut : BOOLEAN,
        count : 0..MaxAccess, max : 0..MaxAccess]

NoRow == [is |-> "new", uploaded |-> FALSE, shut |-> FALSE, count |-> 0, max |-> 0]

Idle == [at |-> "idle"]

(* What a request of a client holds between its steps.                     *)
Steps == {Idle}
    \cup [at : {"announcing", "receiving whole", "whole in place"}, file : Attachments]
    \cup [at : {"receiving", "in place"}, file : Files]
    \cup [at : {"announcing", "opening"}, file : Sends]
    \cup [at : {"changing"}, file : Sends, row : Row]
    \cup [at : {"starting"}, submission : Submissions]
    \cup [at : {"removing"}, files : SUBSET RequestFiles]
    \cup [at : {"taking", "moved"}, file : RequestFiles, to : Attachments]

Busy(at, f) == \E p \in Handlers : handler[p].at \in at /\ handler[p].file = f

(* Ids are made fresh.                                                     *)
New(a) == a \in scene /\ attached[a] = "new" /\ attached' = [attached EXCEPT ![a] = "named"]

OnItem(a) == item /\ attached[a] \in {"announced", "uploaded", "taken"}

Coming(s) == {f \in FilesOf[s] : arriving[f] \in {"pending", "uploaded"}}

Begun == {s \in Submissions : started[s] \in {"started", "completed"}}

RequestHolds == UNION {Coming(s) : s \in Begun}

StorageUsed == Cardinality({a \in Attachments : OnItem(a)})
               + Cardinality({s \in Sends : sends[s].is = "saved"})
               + Cardinality(RequestHolds)

CheckStorage == StorageUsed + 1 <= StorageLimit

Claimed(f) == IF f \in Attachments THEN OnItem(f)
              ELSE IF f \in Sends THEN sends[f].is = "saved"
              ELSE f \in RequestHolds

Accessible(row) == row.is = "saved" /\ row.uploaded /\ ~row.shut /\ row.count < row.max

Goes(p, step) == handler' = [handler EXCEPT ![p] = step]

(* A file that is there stays as it is.                                    *)
Keep(f) == disk[f] = "none" /\ disk' = [disk EXCEPT ![f] = "young"]

LeftBy(F) == lately' = lately \cup {f \in F : disk[f] # "none"}

(***************************************************************************)
(* Attachments                                                             *)
(***************************************************************************)
Announce(p) ==
    /\ handler[p] = Idle /\ item /\ CheckStorage
    /\ \E a \in Attachments : New(a) /\ Goes(p, [at |-> "announcing", file |-> a])
    /\ UNCHANGED <<scene, disk, item, sends, request, started, arriving, sweep, crashes, ghosts>>

AddAttachment(p, a, row) ==
    /\ attached' = IF item THEN [attached EXCEPT ![a] = row] ELSE attached
    /\ Goes(p, Idle)
    /\ UNCHANGED <<scene, disk, item, sends, request, started, arriving, sweep, crashes, ghosts>>

AnnouncedAttachment(p) ==
    /\ handler[p].at = "announcing" /\ handler[p].file \in Attachments
    /\ AddAttachment(p, handler[p].file, "announced")

UploadAttachment(p) ==
    /\ handler[p] = Idle /\ item
    /\ \E a \in Attachments : /\ attached[a] = "announced"
                              /\ Goes(p, [at |-> "receiving", file |-> a])
    /\ UNCHANGED <<scene, disk, rows, sweep, crashes, ghosts>>

(* The row is marked if it is still there.                                 *)
AttachmentUploaded(p) ==
    /\ handler[p].at = "in place" /\ handler[p].file \in Attachments
    /\ LET a == handler[p].file
       IN attached' = IF item /\ attached[a] = "announced"
                      THEN [attached EXCEPT ![a] = "uploaded"] ELSE attached
    /\ Goes(p, Idle)
    /\ UNCHANGED <<scene, disk, item, sends, request, started, arriving, sweep, crashes, ghosts>>

(* The upload of older clients: the file first, the row after it.          *)
UploadLegacy(p) ==
    /\ handler[p] = Idle /\ item
    /\ \E a \in Attachments : New(a) /\ Goes(p, [at |-> "receiving whole", file |-> a])
    /\ UNCHANGED <<scene, disk, item, sends, request, started, arriving, sweep, crashes, ghosts>>

KeepLegacy(p) ==
    /\ handler[p].at = "receiving whole"
    /\ CheckStorage
    /\ Keep(handler[p].file)
    /\ Goes(p, [handler[p] EXCEPT !.at = "whole in place"])
    /\ UNCHANGED <<scene, rows, sweep, crashes, ghosts>>

AddLegacy(p) ==
    /\ handler[p].at = "whole in place"
    /\ AddAttachment(p, handler[p].file, "uploaded")

DeleteAttachment(a) ==
    /\ OnItem(a)
    /\ attached' = [attached EXCEPT ![a] = "gone"]
    /\ LeftBy({a})
    /\ UNCHANGED <<scene, disk, item, sends, request, started, arriving, handler, sweep, crashes,
                   cut, opened, most, allowed>>

(* The item goes for good, and its attachments with it.                    *)
DeleteItem ==
    /\ item
    /\ item' = FALSE
    /\ LeftBy({a \in Attachments : OnItem(a)})
    /\ UNCHANGED <<scene, disk, attached, sends, request, started, arriving, handler, sweep,
                   crashes, cut, opened, most, allowed>>

(***************************************************************************)
(* Sends                                                                   *)
(***************************************************************************)
CreateFile(p) ==
    /\ handler[p] = Idle /\ CheckStorage
    /\ \E s \in Sends \cap scene : /\ sends[s].is = "new" /\ ~Busy({"announcing"}, s)
                                   /\ Goes(p, [at |-> "announcing", file |-> s])
    /\ UNCHANGED <<scene, disk, rows, sweep, crashes, ghosts>>

(* A new row, or over the one there is, which keeps its count.             *)
WrittenWhole(old, new) == new

Written(old, new) == IF old.is = "saved" THEN [new EXCEPT !.count = old.count] ELSE new

SaveSend(s, row) ==
    /\ sends' = [sends EXCEPT ![s] = Written(sends[s], row)]
    /\ IF sends[s].is = "saved"
       THEN /\ most' = [most EXCEPT ![s] = IF row.max > most[s] THEN row.max ELSE most[s]]
            /\ UNCHANGED opened
       ELSE /\ most' = [most EXCEPT ![s] = row.max]
            /\ opened' = [opened EXCEPT ![s] = 0]
    /\ cut' = IF sends[s].is = "gone" THEN cut \cup {s} ELSE cut
    /\ lately' = lately \ {s}
    /\ UNCHANGED <<scene, disk, item, attached, request, started, arriving, sweep, crashes, allowed>>

SendBodies == [max : 0..MaxAccess, shut : BOOLEAN]

(* What a client asks for, in the row as it was read.                      *)
Applied(body, row) == [row EXCEPT !.max = body.max, !.shut = body.shut]

NewSend == [NoRow EXCEPT !.is = "saved"]

SaveNewSend(p) ==
    /\ handler[p].at = "announcing" /\ handler[p].file \in Sends
    /\ \E body \in SendBodies : SaveSend(handler[p].file, Applied(body, NewSend))
    /\ Goes(p, Idle)

UploadSend(p) ==
    /\ handler[p] = Idle
    /\ \E s \in Sends : /\ sends[s].is = "saved" /\ ~sends[s].uploaded
                        /\ Goes(p, [at |-> "receiving", file |-> s])
    /\ UNCHANGED <<scene, disk, rows, sweep, crashes, ghosts>>

SendFileUploaded(p) ==
    /\ handler[p].at = "in place" /\ handler[p].file \in Sends
    /\ LET s == handler[p].file
       IN sends' = IF sends[s].is = "saved" THEN [sends EXCEPT ![s].uploaded = TRUE] ELSE sends
    /\ Goes(p, Idle)
    /\ UNCHANGED <<scene, disk, item, attached, request, started, arriving, sweep, crashes, ghosts>>

(* An update reads the row, hashes a password, and writes it whole.        *)
ReadSend(p) ==
    /\ handler[p] = Idle
    /\ \E s \in Sends : /\ sends[s].is = "saved"
                        /\ Goes(p, [at |-> "changing", file |-> s, row |-> sends[s]])
    /\ UNCHANGED <<scene, disk, rows, sweep, crashes, ghosts>>

UpdateSend(p) ==
    /\ handler[p].at = "changing"
    /\ \E body \in SendBodies : SaveSend(handler[p].file, Applied(body, handler[p].row))
    /\ Goes(p, Idle)

DeleteSend(s) ==
    /\ sends[s].is = "saved"
    /\ sends' = [sends EXCEPT ![s] = [NoRow EXCEPT !.is = "gone"]]
    /\ LeftBy({s})
    /\ UNCHANGED <<scene, disk, item, attached, request, started, arriving, handler, sweep,
                   crashes, cut, opened, most, allowed>>

(* Somebody with the link: whether it opens, then the opening is counted.  *)
AccessFile(p) ==
    /\ handler[p] = Idle
    /\ \E s \in Sends : Accessible(sends[s]) /\ Goes(p, [at |-> "opening", file |-> s])
    /\ UNCHANGED <<scene, disk, rows, sweep, crashes, ghosts>>

CountsAll(row) == row.is = "saved"

Counts(row) == row.is = "saved" /\ row.count < row.max

RegisterSendAccess(p) ==
    /\ handler[p].at = "opening"
    /\ LET s == handler[p].file
       IN IF Counts(sends[s])
          THEN /\ sends' = [sends EXCEPT ![s].count = @ + 1]
               /\ opened' = [opened EXCEPT ![s] = @ + 1]
          ELSE UNCHANGED <<sends, opened>>
    /\ Goes(p, Idle)
    /\ UNCHANGED <<scene, disk, item, attached, request, started, arriving, sweep, crashes,
                   cut, lately, most, allowed>>

(***************************************************************************)
(* A file request                                                          *)
(***************************************************************************)
RequestBodies == [max : 1..Cardinality(Submissions), closed : BOOLEAN]

CreateRequest ==
    /\ request.is = "new" /\ scene \cap Submissions # {}
    /\ \E body \in RequestBodies :
          /\ request' = [is |-> "saved", closed |-> body.closed, max |-> body.max, count |-> 0]
          /\ allowed' = body.max
    /\ UNCHANGED <<scene, disk, item, attached, sends, started, arriving, handler, sweep, crashes,
                   cut, lately, opened, most>>

(* The count is not among the columns an update writes.                    *)
UpdateRequest ==
    /\ request.is = "saved"
    /\ \E body \in RequestBodies :
          /\ request' = [request EXCEPT !.max = body.max, !.closed = body.closed]
          /\ allowed' = IF body.max > allowed THEN body.max ELSE allowed
    /\ UNCHANGED <<scene, disk, item, attached, sends, started, arriving, handler, sweep, crashes,
                   cut, lately, opened, most>>

RequestOpen == request.is = "saved" /\ ~request.closed

OpenRequest(p) ==
    /\ handler[p] = Idle
    /\ RequestOpen /\ request.count < request.max
    /\ \E s \in Submissions \cap scene :
          /\ started[s] = "new"
          /\ \A q \in Handlers : handler[q].at = "starting" => handler[q].submission # s
          /\ Goes(p, [at |-> "starting", submission |-> s])
    /\ UNCHANGED <<scene, disk, rows, sweep, crashes, ghosts>>

(* What is on its way counts, in number and in bytes.                      *)
OnlyCompleted == {s \in Submissions : started[s] = "completed"}

TakesOverWhatComes(s) ==
    /\ RequestOpen
    /\ Cardinality(OnlyCompleted) < request.max
    /\ StorageUsed + Cardinality(FilesOf[s]) <= StorageLimit
    /\ Cardinality(UNION {Coming(t) : t \in OnlyCompleted}) + Cardinality(FilesOf[s]) <= RequestLimit

Takes(s) == /\ RequestOpen
            /\ Cardinality(Begun) < request.max
            /\ StorageUsed + Cardinality(FilesOf[s]) <= StorageLimit
            /\ Cardinality(RequestHolds) + Cardinality(FilesOf[s]) <= RequestLimit

StartSubmission(p) ==
    /\ handler[p].at = "starting"
    /\ LET s == handler[p].submission
       IN IF Takes(s)
          THEN /\ started' = [started EXCEPT ![s] = "started"]
               /\ arriving' = [f \in RequestFiles |->
                                  IF f \in FilesOf[s] THEN "pending" ELSE arriving[f]]
          ELSE UNCHANGED <<started, arriving>>
    /\ Goes(p, Idle)
    /\ UNCHANGED <<scene, disk, item, attached, sends, request, sweep, crashes, ghosts>>

(* One upload of a file at a time.                                         *)
PendingFile(s, f) ==
    RequestOpen /\ started[s] = "started" /\ f \in FilesOf[s] /\ arriving[f] = "pending"

UploadPart(p) ==
    /\ handler[p] = Idle
    /\ \E s \in Submissions, f \in RequestFiles :
          /\ PendingFile(s, f)
          /\ ~Busy({"receiving", "in place"}, f)
          /\ Goes(p, [at |-> "receiving", file |-> f])
    /\ UNCHANGED <<scene, disk, rows, sweep, crashes, ghosts>>

(* Only one that is waited for, and once.                                  *)
MarksWhileOpen(f) == arriving[f] = "pending" /\ RequestOpen

Marks(f) == arriving[f] = "pending"

RequestFileUploaded(p) ==
    /\ handler[p].at = "in place" /\ handler[p].file \in RequestFiles
    /\ LET f == handler[p].file
       IN arriving' = IF Marks(f) THEN [arriving EXCEPT ![f] = "uploaded"]
                      ELSE arriving
    /\ Goes(p, Idle)
    /\ UNCHANGED <<scene, disk, item, attached, sends, request, started, sweep, crashes, ghosts>>

Whole(s) == \A f \in FilesOf[s] : arriving[f] = "uploaded"

CompleteSubmission(s) ==
    /\ RequestOpen
    /\ started[s] = "started" /\ Whole(s)
    /\ started' = [started EXCEPT ![s] = "completed"]
    /\ request' = [request EXCEPT !.count = @ + 1]
    /\ UNCHANGED <<scene, disk, item, attached, sends, arriving, handler, sweep, crashes, ghosts>>

RemoveSubmission(p, s) ==
    /\ handler[p] = Idle
    /\ started[s] = "completed"
    /\ started' = [started EXCEPT ![s] = "gone"]
    /\ Goes(p, [at |-> "removing", files |-> FilesOf[s]])
    /\ UNCHANGED <<scene, disk, item, attached, sends, request, arriving, sweep, crashes, ghosts>>

WithoutRequest ==
    /\ request' = [request EXCEPT !.is = "gone"]
    /\ started' = [s \in Submissions |-> IF started[s] = "new" THEN "new" ELSE "gone"]

RemoveRequest(p) ==
    /\ handler[p] = Idle
    /\ request.is = "saved"
    /\ WithoutRequest
    /\ Goes(p, [at |-> "removing", files |-> RequestFiles])
    /\ UNCHANGED <<scene, disk, item, attached, sends, arriving, sweep, crashes, ghosts>>

RemoveFile(p) ==
    /\ handler[p].at = "removing"
    /\ IF handler[p].files = {} THEN Goes(p, Idle) /\ UNCHANGED disk
       ELSE \E f \in handler[p].files :
               /\ disk' = [disk EXCEPT ![f] = "none"]
               /\ Goes(p, [handler[p] EXCEPT !.files = @ \ {f}])
    /\ UNCHANGED <<scene, rows, sweep, crashes, ghosts>>

(***************************************************************************)
(* A file of a submission is taken into the item: moved first, as it is,   *)
(* its rows after it; and back when they say no.                           *)
(***************************************************************************)
Attach(p) ==
    /\ handler[p] = Idle /\ item
    /\ \E s \in Submissions : started[s] = "completed"
          /\ \E f \in FilesOf[s], a \in Attachments :
                /\ arriving[f] = "uploaded" /\ New(a)
                /\ Goes(p, [at |-> "taking", file |-> f, to |-> a])
    /\ UNCHANGED <<scene, disk, item, sends, request, started, arriving, sweep, crashes, ghosts>>

MoveFile(p) ==
    /\ handler[p].at = "taking"
    /\ LET f == handler[p].file a == handler[p].to
       IN /\ disk[f] # "none"
          /\ disk' = [disk EXCEPT ![a] = disk[f], ![f] = "none"]
    /\ Goes(p, [handler[p] EXCEPT !.at = "moved"])
    /\ UNCHANGED <<scene, rows, sweep, crashes, ghosts>>

MayTake(f) == f \in RequestHolds /\ arriving[f] = "uploaded" /\ item

TakeRequestFile(p) ==
    /\ handler[p].at = "moved"
    /\ MayTake(handler[p].file)
    /\ arriving' = [arriving EXCEPT ![handler[p].file] = "taken"]
    /\ attached' = [attached EXCEPT ![handler[p].to] = "taken"]
    /\ Goes(p, Idle)
    /\ UNCHANGED <<scene, disk, item, sends, request, started, sweep, crashes, ghosts>>

MoveBack(p) ==
    /\ handler[p].at = "moved"
    /\ ~MayTake(handler[p].file)
    /\ LET f == handler[p].file a == handler[p].to
       IN \/ /\ disk[a] # "none"
             /\ disk' = [disk EXCEPT ![f] = disk[a], ![a] = "none"]
             /\ UNCHANGED cut
          \/ /\ disk[a] = "none" \/ request.is = "gone"
             /\ cut' = cut \cup {f}
             /\ UNCHANGED disk
    /\ Goes(p, Idle)
    /\ UNCHANGED <<scene, rows, sweep, crashes, lately, opened, most, allowed>>

(***************************************************************************)
(* Every upload                                                            *)
(***************************************************************************)
KeepFile(p) ==
    /\ handler[p].at = "receiving"
    /\ Keep(handler[p].file)
    /\ Goes(p, [handler[p] EXCEPT !.at = "in place"])
    /\ UNCHANGED <<scene, rows, sweep, crashes, ghosts>>

LeftInPlace(p) ==
    IF handler[p].at \in {"in place", "whole in place", "moved"} THEN {handler[p].file} ELSE {}

(* A request that fails, that stalls, or whose client goes away ends where *)
(* it is.                                                                  *)
GiveUp(p) ==
    /\ handler[p] # Idle
    /\ cut' = cut \cup LeftInPlace(p)
    /\ Goes(p, Idle)
    /\ UNCHANGED <<scene, disk, rows, sweep, crashes, lately, opened, most, allowed>>

(***************************************************************************)
(* Time, the nightly sweep, the end of the process                         *)
(***************************************************************************)
Ages(f) ==
    /\ disk[f] = "young"
    /\ ~Busy({"in place", "whole in place"}, f)
    /\ \A p \in Handlers : handler[p].at = "moved" => handler[p].to # f
    /\ disk' = [disk EXCEPT ![f] = "old"]
    /\ UNCHANGED <<scene, rows, handler, sweep, crashes, ghosts>>

AWeekAfter(f) ==
    /\ f \in lately
    /\ lately' = lately \ {f}
    /\ UNCHANGED <<scene, disk, rows, handler, sweep, crashes, cut, opened, most, allowed>>

RunsOut ==
    /\ \/ \E s \in Sends : /\ sends[s].is = "saved" /\ ~sends[s].shut
                           /\ sends' = [sends EXCEPT ![s].shut = TRUE]
                           /\ UNCHANGED request
       \/ /\ RequestOpen
          /\ request' = [request EXCEPT !.closed = TRUE]
          /\ UNCHANGED sends
    /\ UNCHANGED <<scene, disk, item, attached, started, arriving, handler, sweep, crashes, ghosts>>

OnDisk(F) == {f \in F : disk[f] # "none"}

NotSweeping == [stage |-> "idle", todo |-> {}, taking |-> {}]

(* Announced attachments whose file never came, and Sends past their       *)
(* deletion date.                                                          *)
SweepRows ==
    /\ sweep.stage = "idle"
    /\ \E A \in SUBSET {a \in Attachments : attached[a] = "announced"},
          S \in SUBSET {s \in Sends : sends[s].is = "saved"} :
          /\ attached' = [a \in Attachments |-> IF a \in A THEN "gone" ELSE attached[a]]
          /\ sends' = [s \in Sends |-> IF s \in S THEN [NoRow EXCEPT !.is = "gone"] ELSE sends[s]]
          /\ LeftBy(A \cup S)
    /\ sweep' = [stage |-> "files", todo |-> OnDisk(Attachments \cup Sends), taking |-> {}]
    /\ UNCHANGED <<scene, disk, item, request, started, arriving, handler, crashes, cut, opened,
                   most, allowed>>

(* Whether a file is old and nothing claims it; then it goes.              *)
OrphanByAge(f) == disk[f] = "old"

Orphan(f) == disk[f] = "old" /\ ~Claimed(f)

SweepLooks(f) ==
    /\ sweep.stage \in {"files", "leftovers"} /\ f \in sweep.todo /\ sweep.taking = {}
    /\ sweep' = [sweep EXCEPT !.todo = @ \ {f},
                              !.taking = IF Orphan(f) THEN {f} ELSE {}]
    /\ UNCHANGED <<scene, disk, rows, handler, crashes, ghosts>>

(* A file that is gone by then is an error, which ends the walk.           *)
SweepTakes ==
    /\ \E f \in sweep.taking :
          /\ disk' = [disk EXCEPT ![f] = "none"]
          /\ sweep' = [sweep EXCEPT !.taking = {}, !.todo = IF disk[f] = "none" THEN {} ELSE @]
    /\ UNCHANGED <<scene, rows, handler, crashes, ghosts>>

SweepFileRequests ==
    /\ sweep.stage = "files" /\ sweep.todo = {} /\ sweep.taking = {}
    /\ IF scene \cap Submissions = {}
       THEN sweep' = NotSweeping /\ UNCHANGED <<request, started>>
       ELSE \/ /\ request.is = "saved" /\ request.closed
               /\ WithoutRequest
               /\ sweep' = [stage |-> "removing", todo |-> OnDisk(RequestFiles), taking |-> {}]
            \/ \E S \in SUBSET {s \in Submissions : started[s] = "started"} :
                  /\ started' = [s \in Submissions |-> IF s \in S THEN "gone" ELSE started[s]]
                  /\ sweep' = [stage |-> "removing", todo |-> UNION {Coming(s) : s \in S}, taking |-> {}]
                  /\ UNCHANGED request
    /\ UNCHANGED <<scene, disk, item, attached, sends, arriving, handler, crashes, ghosts>>

SweepRemoves ==
    /\ sweep.stage = "removing"
    /\ IF sweep.todo = {}
       THEN sweep' = [sweep EXCEPT !.stage = "leftovers", !.todo = OnDisk(RequestFiles)] /\ UNCHANGED disk
       ELSE \E f \in sweep.todo : /\ disk' = [disk EXCEPT ![f] = "none"]
                                  /\ sweep' = [sweep EXCEPT !.todo = @ \ {f}]
    /\ UNCHANGED <<scene, rows, handler, crashes, ghosts>>

SweepEnds ==
    /\ sweep.stage = "leftovers" /\ sweep.todo = {} /\ sweep.taking = {}
    /\ sweep' = NotSweeping
    /\ UNCHANGED <<scene, disk, rows, handler, crashes, ghosts>>

Crash ==
    /\ crashes < MaxCrashes
    /\ crashes' = crashes + 1
    /\ cut' = cut \cup UNION {LeftInPlace(p) : p \in Handlers}
    /\ handler' = [p \in Handlers |-> Idle]
    /\ sweep' = NotSweeping
    /\ UNCHANGED <<scene, disk, rows, lately, opened, most, allowed>>

Init ==
    /\ scene \in Scenes
    /\ disk = [f \in Files |-> "none"]
    /\ item = (scene \cap Attachments # {})
    /\ attached = [a \in Attachments |-> "new"]
    /\ sends = [s \in Sends |-> NoRow]
    /\ request = [is |-> "new", closed |-> FALSE, max |-> 0, count |-> 0]
    /\ started = [s \in Submissions |-> "new"]
    /\ arriving = [f \in RequestFiles |-> "none"]
    /\ handler = [p \in Handlers |-> Idle]
    /\ sweep = NotSweeping
    /\ crashes = 0 /\ cut = {} /\ lately = {}
    /\ opened = [s \in Sends |-> 0] /\ most = [s \in Sends |-> 0] /\ allowed = 0

Sweeping == SweepRows \/ SweepTakes \/ SweepFileRequests \/ SweepRemoves \/ SweepEnds
            \/ \E f \in Files : SweepLooks(f)

Client(p) ==
    \/ Announce(p) \/ AnnouncedAttachment(p) \/ UploadAttachment(p) \/ AttachmentUploaded(p)
    \/ UploadLegacy(p) \/ KeepLegacy(p) \/ AddLegacy(p)
    \/ CreateFile(p) \/ SaveNewSend(p) \/ UploadSend(p) \/ SendFileUploaded(p)
    \/ ReadSend(p) \/ UpdateSend(p) \/ AccessFile(p) \/ RegisterSendAccess(p)
    \/ OpenRequest(p) \/ StartSubmission(p) \/ UploadPart(p) \/ RequestFileUploaded(p)
    \/ (\E s \in Submissions : RemoveSubmission(p, s)) \/ RemoveRequest(p) \/ RemoveFile(p)
    \/ Attach(p) \/ MoveFile(p) \/ TakeRequestFile(p) \/ MoveBack(p)
    \/ KeepFile(p) \/ GiveUp(p)

Next ==
    \/ \E p \in Handlers : Client(p)
    \/ \E a \in Attachments : DeleteAttachment(a)
    \/ \E s \in Sends : DeleteSend(s)
    \/ \E s \in Submissions : CompleteSubmission(s)
    \/ DeleteItem \/ CreateRequest \/ UpdateRequest
    \/ Sweeping \/ Crash \/ RunsOut
    \/ \E f \in Files : Ages(f) \/ AWeekAfter(f)

Spec == Init /\ [][Next]_vars

(***************************************************************************)
(* What must hold                                                          *)
(***************************************************************************)
FilesTyped ==
    /\ scene \in Scenes
    /\ disk \in [Files -> {"none", "young", "old"}]
    /\ item \in BOOLEAN
    /\ attached \in [Attachments -> {"new", "named", "announced", "uploaded", "taken", "gone"}]
    /\ sends \in [Sends -> Row]
    /\ request \in [is : {"new", "saved", "gone"}, closed : BOOLEAN, max : Nat, count : Nat]
    /\ started \in [Submissions -> {"new", "started", "completed", "gone"}]
    /\ arriving \in [RequestFiles -> {"none", "pending", "uploaded", "taken"}]
    /\ handler \in [Handlers -> Steps]
    /\ sweep \in [stage : {"idle", "files", "removing", "leftovers"}, todo : SUBSET Files,
                  taking : SUBSET Files]
    /\ crashes \in 0..MaxCrashes
    /\ cut \subseteq Files /\ lately \subseteq Files
    /\ opened \in [Sends -> Nat] /\ most \in [Sends -> Nat] /\ allowed \in Nat

(* What the clients are told has arrived is there: the file of an          *)
(* attachment that came in an upload, of a Send, of a request, wherever    *)
(* uploads were cut off and whatever the sweep took (files.rs).            *)
ArrivedIsThere ==
    /\ FilesTyped
    /\ \A a \in Attachments : item /\ attached[a] = "uploaded" => disk[a] # "none"
    /\ \A s \in Sends : sends[s].is = "saved" /\ sends[s].uploaded => disk[s] # "none" \/ s \in cut
    /\ \A f \in RequestFiles :
          f \in RequestHolds /\ arriving[f] = "uploaded" =>
              \/ disk[f] # "none"
              \/ f \in cut
              \/ Busy({"moved"}, f)

(* A file in the way of its own upload: it is in place, its row still      *)
(* waits for it, and every further try is told it is there.  Only a        *)
(* request that ended between the two steps leaves one (attachments.rs,    *)
(* file_requests.rs).                                                      *)
OnlyEndedUploadsBlock ==
    \A f \in Attachments \cup RequestFiles :
        /\ disk[f] # "none"
        /\ \/ f \in Attachments /\ OnItem(f) /\ attached[f] = "announced"
           \/ f \in RequestHolds /\ arriving[f] = "pending"
        => f \in cut \/ Busy({"in place"}, f)

(* A Send is opened as often as it ever allowed, at most: however openings *)
(* meet, and whatever an update that was read before them writes over      *)
(* them (sends.rs).                                                        *)
OpenedWithinMost == \A s \in Sends : sends[s].is = "saved" => opened[s] <= most[s]

(* A request never holds more than it may, with what is on its way, and    *)
(* never more submissions than it ever allowed (start_submission).         *)
RequestWithinLimits ==
    /\ Cardinality(RequestHolds) <= RequestLimit
    /\ Cardinality(Begun) <= allowed

(* Both: no limit of a Send or of a request is passed.                     *)
LimitsKept == OpenedWithinMost /\ RequestWithinLimits

(* docs/deployment.md: "A file whose attachment or Send is deleted stays   *)
(* another week before the nightly sweep".                                 *)
StaysAWeek == \A f \in lately : Claimed(f) \/ disk[f] # "none"
==============================================================================
