------------------------------ MODULE FilesProofs ------------------------------
(***************************************************************************)
(* Proofs about Files: what has arrived is there, an upload is only in its *)
(* own way when a request ended halfway, and no limit is passed.           *)
(***************************************************************************)
EXTENDS Files, FiniteSetTheorems, TLAPS

(***************************************************************************)
(* The inductive invariant                                                 *)
(***************************************************************************)
(* A request that has made the id of an attachment, and not yet its row.   *)
Names(h, a) ==
    \/ h.at \in {"announcing", "receiving whole", "whole in place"} /\ h.file = a
    \/ h.at \in {"taking", "moved"} /\ h.to = a

Brings(h, f) == h.at \in {"receiving", "in place"} /\ h.file = f
Takes1(h, f) == h.at \in {"taking", "moved"} /\ h.file = f

Unused(f) == disk[f] = "none" /\ f \notin sweep.taking

(* An attachment's id is of one request until its row is there.            *)
IdOf(a) ==
    /\ attached[a] = "new" => Unused(a) /\ \A p \in Handlers : ~Brings(handler[p], a)
    /\ \A p \in Handlers : Names(handler[p], a) =>
          /\ attached[a] = "named"
          /\ \A q \in Handlers : Names(handler[q], a) => q = p
          /\ handler[p].at \in {"announcing", "receiving whole", "taking"} => disk[a] = "none"
          /\ handler[p].at = "whole in place" => disk[a] = "young"
          /\ handler[p].at \in {"announcing", "receiving whole", "whole in place"} => a \notin sweep.taking
    /\ \A p \in Handlers : Brings(handler[p], a) => attached[a] \notin {"new", "named"}

Ids == \A a \in Attachments : IdOf(a)

Waiting(a) == item /\ attached[a] = "announced"
Here(a) == item /\ attached[a] = "uploaded"

AttachmentOf(a) ==
    /\ Here(a) => disk[a] # "none"
    /\ Waiting(a) /\ disk[a] # "none" => a \in cut \/ Busy({"in place"}, a)
    /\ Waiting(a) /\ Busy({"in place"}, a) => disk[a] # "none"
    /\ a \in sweep.taking => ~Waiting(a) /\ ~Here(a)

AttachmentsInv == \A a \in Attachments : AttachmentOf(a)

(* The file of a Send is there, or it was written back after its deletion. *)
There(f) == disk[f] # "none" \/ f \in cut

SendOf(s) ==
    /\ sends[s].is = "new" =>
          /\ Unused(s)
          /\ \A p \in Handlers : handler[p].at \in {"receiving", "in place", "changing"} => handler[p].file # s
    /\ sends[s].is = "saved" =>
          /\ sends[s].uploaded => There(s)
          /\ Busy({"in place"}, s) => There(s)
          /\ s \in sweep.taking => s \in cut
          /\ \A p \in Handlers :
                handler[p].at = "changing" /\ handler[p].file = s /\ handler[p].row.uploaded => There(s)
    /\ \A p \in Handlers : handler[p].at = "changing" /\ handler[p].file = s => handler[p].row.is = "saved"

SendsInv == \A s \in Sends : SendOf(s)

(* A file of a request that is over.                                       *)
Dead(f) == request.is = "gone" \/ \A s \in Submissions : f \in FilesOf[s] => started[s] = "gone"

Starting ==
    /\ request.is \in {"new", "gone"} => Begun = {}
    /\ \A p \in Handlers : handler[p].at = "starting" =>
          /\ started[handler[p].submission] = "new"
          /\ \A q \in Handlers : handler[q].at = "starting" /\ handler[q].submission = handler[p].submission => q = p
    /\ \A s \in Submissions : started[s] = "new" =>
          \A f \in FilesOf[s] : Unused(f) /\ \A p \in Handlers : ~Brings(handler[p], f) /\ ~Takes1(handler[p], f)

(* What is being removed is of nothing that is there.                      *)
Removing ==
    /\ \A p \in Handlers : handler[p].at = "removing" => \A f \in handler[p].files : Dead(f)
    /\ sweep.stage = "removing" => sweep.todo \subseteq RequestFiles /\ \A f \in sweep.todo : Dead(f)

RequestOf(f) ==
    /\ f \in sweep.taking => f \notin RequestHolds
    /\ \A p \in Handlers : Takes1(handler[p], f) => arriving[f] \in {"uploaded", "taken"}
    /\ f \in RequestHolds /\ arriving[f] = "uploaded" => There(f) \/ Busy({"moved"}, f)
    /\ f \in RequestHolds /\ arriving[f] = "pending" =>
          /\ Busy({"in place"}, f) => There(f)
          /\ disk[f] # "none" => f \in cut \/ Busy({"in place"}, f)

RequestsInv == \A f \in RequestFiles : RequestOf(f)

(* A Send counts what was opened, and allowed at most what it ever did.    *)
LimitOf(s) ==
    sends[s].is = "saved" => opened[s] <= sends[s].count /\ sends[s].max <= most[s] /\ opened[s] <= most[s]

LimitsInv ==
    /\ \A s \in Sends : LimitOf(s)
    /\ request.is = "saved" => request.max <= allowed
    /\ RequestWithinLimits

IInv == FilesTyped /\ Ids /\ AttachmentsInv /\ SendsInv /\ Starting /\ Removing /\ RequestsInv /\ LimitsInv
(***************************************************************************)
(* Types                                                                   *)
(***************************************************************************)
(* What a step holds, by what it is at.                                    *)
Shape(h) ==
    /\ h.at \in {"idle", "announcing", "receiving whole", "whole in place", "receiving", "in place",
                 "opening", "changing", "starting", "removing", "taking", "moved"}
    /\ h.at = "idle" => h = Idle
    /\ h.at = "announcing" => h.file \in Attachments \cup Sends
    /\ h.at \in {"receiving whole", "whole in place"} => h.file \in Attachments
    /\ h.at \in {"receiving", "in place"} => h.file \in Files
    /\ h.at = "opening" => h.file \in Sends
    /\ h.at = "changing" => h.file \in Sends /\ h.row \in Row
    /\ h.at = "starting" => h.submission \in Submissions
    /\ h.at = "removing" => h.files \in SUBSET RequestFiles
    /\ h.at \in {"taking", "moved"} => h.file \in RequestFiles /\ h.to \in Attachments

LEMMA Shapes ==
    ASSUME NEW h \in Steps
    PROVE  Shape(h)
  <1>1. CASE h = Idle
    BY <1>1 DEF Idle, Shape
  <1>2. CASE h \in [at : {"announcing", "receiving whole", "whole in place"}, file : Attachments]
    BY <1>2 DEF Shape
  <1>3. CASE h \in [at : {"receiving", "in place"}, file : Files]
    BY <1>3 DEF Shape
  <1>4. CASE h \in [at : {"announcing", "opening"}, file : Sends]
    BY <1>4 DEF Shape
  <1>5. CASE h \in [at : {"changing"}, file : Sends, row : Row]
    BY <1>5 DEF Shape
  <1>6. CASE h \in [at : {"starting"}, submission : Submissions]
    BY <1>6 DEF Shape
  <1>7. CASE h \in [at : {"removing"}, files : SUBSET RequestFiles]
    BY <1>7 DEF Shape
  <1>8. CASE h \in [at : {"taking", "moved"}, file : RequestFiles, to : Attachments]
    BY <1>8 DEF Shape
  <1> QED
    BY <1>1, <1>2, <1>3, <1>4, <1>5, <1>6, <1>7, <1>8 DEF Steps

LEMMA AtChanges ==
    ASSUME NEW h, NEW x, NEW A, NEW F, h \in [at : A, file : F]
    PROVE  [h EXCEPT !.at = x] = [at |-> x, file |-> h.file]
  OBVIOUS

LEMMA AtChangesToo ==
    ASSUME NEW h, NEW x, NEW A, NEW F, NEW G, h \in [at : A, file : F, to : G]
    PROVE  [h EXCEPT !.at = x] = [at |-> x, file |-> h.file, to |-> h.to]
  OBVIOUS

LEMMA FilesChange ==
    ASSUME NEW h, NEW x, NEW A, NEW F, h \in [at : A, files : F]
    PROVE  [h EXCEPT !.files = x] = [at |-> h.at, files |-> x]
  OBVIOUS

LEMMA NextSteps ==
    ASSUME NEW h \in Steps
    PROVE  /\ h.at = "receiving" => [h EXCEPT !.at = "in place"] = [at |-> "in place", file |-> h.file]
           /\ h.at = "receiving whole" => [h EXCEPT !.at = "whole in place"] = [at |-> "whole in place", file |-> h.file]
           /\ h.at = "taking" => [h EXCEPT !.at = "moved"] = [at |-> "moved", file |-> h.file, to |-> h.to]
           /\ h.at = "removing" =>
                 \A f : [h EXCEPT !.files = @ \ {f}] = [at |-> "removing", files |-> h.files \ {f}]
  <1>1. CASE h = Idle
    BY <1>1 DEF Idle
  <1>2. CASE h \in [at : {"announcing", "receiving whole", "whole in place"}, file : Attachments]
    BY <1>2, AtChanges
  <1>3. CASE h \in [at : {"receiving", "in place"}, file : Files]
    BY <1>3, AtChanges
  <1>4. CASE h \in [at : {"announcing", "opening"}, file : Sends]
    BY <1>4
  <1>5. CASE h \in [at : {"changing"}, file : Sends, row : Row]
    BY <1>5
  <1>6. CASE h \in [at : {"starting"}, submission : Submissions]
    BY <1>6
  <1>7. CASE h \in [at : {"removing"}, files : SUBSET RequestFiles]
    BY <1>7, FilesChange
  <1>8. CASE h \in [at : {"taking", "moved"}, file : RequestFiles, to : Attachments]
    BY <1>8, AtChangesToo
  <1> QED
    BY <1>1, <1>2, <1>3, <1>4, <1>5, <1>6, <1>7, <1>8 DEF Steps

LEMMA MadeSteps ==
    /\ Idle \in Steps
    /\ \A a \in Attachments, at \in {"announcing", "receiving whole", "whole in place"} : [at |-> at, file |-> a] \in Steps
    /\ \A f \in Files, at \in {"receiving", "in place"} : [at |-> at, file |-> f] \in Steps
    /\ \A s \in Sends, at \in {"announcing", "opening"} : [at |-> at, file |-> s] \in Steps
    /\ \A s \in Sends, row \in Row : [at |-> "changing", file |-> s, row |-> row] \in Steps
    /\ \A s \in Submissions : [at |-> "starting", submission |-> s] \in Steps
    /\ \A F \in SUBSET RequestFiles : [at |-> "removing", files |-> F] \in Steps
    /\ \A f \in RequestFiles, a \in Attachments, at \in {"taking", "moved"} : [at |-> at, file |-> f, to |-> a] \in Steps
  BY DEF Steps

(***************************************************************************)
(* Where a request of a client goes                                        *)
(***************************************************************************)
LEMMA Goings ==
    ASSUME handler \in [Handlers -> Steps], NEW p \in Handlers, NEW step \in Steps, Goes(p, step)
    PROVE  handler' \in [Handlers -> Steps]
  BY DEF Goes

LEMMA ClientGoes ==
    ASSUME FilesTyped, NEW p \in Handlers, Client(p)
    PROVE  handler' \in [Handlers -> Steps]
  <1>t. handler \in [Handlers -> Steps] /\ sends \in [Sends -> Row] /\ Sends \subseteq Files
    BY DEF FilesTyped, Files
  <1>s. handler[p] \in Steps /\ Shape(handler[p])
    BY <1>t, Shapes
  <1>g. \A step \in Steps : Goes(p, step) => handler' \in [Handlers -> Steps]
    BY <1>t, Goings
  <1>i. Goes(p, Idle) => handler' \in [Handlers -> Steps]
    BY <1>g, MadeSteps
  <1>1. CASE Announce(p)
    <2>1. PICK a \in Attachments : Goes(p, [at |-> "announcing", file |-> a])
      BY <1>1 DEF Announce
    <2> QED
      BY <2>1, <1>g, MadeSteps
  <1>2. CASE UploadAttachment(p)
    <2>1. PICK a \in Attachments : Goes(p, [at |-> "receiving", file |-> a])
      BY <1>2 DEF UploadAttachment
    <2>2. a \in Files
      BY DEF Files
    <2> QED
      BY <2>1, <2>2, <1>g, MadeSteps
  <1>3. CASE UploadLegacy(p)
    <2>1. PICK a \in Attachments : Goes(p, [at |-> "receiving whole", file |-> a])
      BY <1>3 DEF UploadLegacy
    <2> QED
      BY <2>1, <1>g, MadeSteps
  <1>4. CASE KeepLegacy(p)
    <2>1. handler[p].at = "receiving whole" /\ Goes(p, [handler[p] EXCEPT !.at = "whole in place"])
      BY <1>4 DEF KeepLegacy
    <2>2. [handler[p] EXCEPT !.at = "whole in place"] = [at |-> "whole in place", file |-> handler[p].file]
      BY <2>1, <1>s, NextSteps
    <2>3. [at |-> "whole in place", file |-> handler[p].file] \in Steps
      BY <2>1, <1>s, MadeSteps DEF Shape
    <2> QED
      BY <2>1, <2>2, <2>3, <1>g
  <1>5. CASE KeepFile(p)
    <2>1. handler[p].at = "receiving" /\ Goes(p, [handler[p] EXCEPT !.at = "in place"])
      BY <1>5 DEF KeepFile
    <2>2. [handler[p] EXCEPT !.at = "in place"] = [at |-> "in place", file |-> handler[p].file]
      BY <2>1, <1>s, NextSteps
    <2>3. [at |-> "in place", file |-> handler[p].file] \in Steps
      BY <2>1, <1>s, MadeSteps DEF Shape
    <2> QED
      BY <2>1, <2>2, <2>3, <1>g
  <1>6. CASE MoveFile(p)
    <2>1. handler[p].at = "taking" /\ Goes(p, [handler[p] EXCEPT !.at = "moved"])
      BY <1>6 DEF MoveFile
    <2>2. [handler[p] EXCEPT !.at = "moved"] = [at |-> "moved", file |-> handler[p].file, to |-> handler[p].to]
      BY <2>1, <1>s, NextSteps
    <2>3. [at |-> "moved", file |-> handler[p].file, to |-> handler[p].to] \in Steps
      BY <2>1, <1>s, MadeSteps DEF Shape
    <2> QED
      BY <2>1, <2>2, <2>3, <1>g
  <1>7. CASE RemoveFile(p)
    <2>1. CASE handler[p].files = {}
      BY <1>7, <2>1, <1>i DEF RemoveFile
    <2>2. CASE handler[p].files # {}
      <3>1. PICK f \in handler[p].files : Goes(p, [handler[p] EXCEPT !.files = @ \ {f}])
        BY <1>7, <2>2 DEF RemoveFile
      <3>2. handler[p].at = "removing"
        BY <1>7 DEF RemoveFile
      <3>3. [handler[p] EXCEPT !.files = @ \ {f}] = [at |-> "removing", files |-> handler[p].files \ {f}]
        BY <3>2, <1>s, NextSteps
      <3>4. [at |-> "removing", files |-> handler[p].files \ {f}] \in Steps
        BY <3>2, <1>s, MadeSteps DEF Shape
      <3> QED
        BY <3>1, <3>3, <3>4, <1>g
    <2> QED
      BY <2>1, <2>2
  <1>8. CASE Attach(p)
    <2>1. PICK s \in Submissions :
              \E f \in FilesOf[s], a \in Attachments : Goes(p, [at |-> "taking", file |-> f, to |-> a])
      BY <1>8 DEF Attach
    <2>2. PICK f \in RequestFiles, a \in Attachments : Goes(p, [at |-> "taking", file |-> f, to |-> a])
      BY <2>1, FilesOfAssumption
    <2> QED
      BY <2>2, <1>g, MadeSteps
  <1>9. CASE CreateFile(p) \/ AccessFile(p)
    <2>1. PICK s \in Sends, at \in {"announcing", "opening"} : Goes(p, [at |-> at, file |-> s])
      BY <1>9 DEF CreateFile, AccessFile
    <2> QED
      BY <2>1, <1>g, MadeSteps
  <1>10. CASE UploadSend(p)
    <2>1. PICK s \in Sends : Goes(p, [at |-> "receiving", file |-> s])
      BY <1>10 DEF UploadSend
    <2> QED
      BY <2>1, <1>t, <1>g, MadeSteps
  <1>11. CASE ReadSend(p)
    <2>1. PICK s \in Sends : Goes(p, [at |-> "changing", file |-> s, row |-> sends[s]])
      BY <1>11 DEF ReadSend
    <2>2. sends[s] \in Row
      BY <1>t
    <2> QED
      BY <2>1, <2>2, <1>g, MadeSteps
  <1>12. CASE OpenRequest(p)
    <2>1. PICK s \in Submissions : Goes(p, [at |-> "starting", submission |-> s])
      BY <1>12 DEF OpenRequest
    <2> QED
      BY <2>1, <1>g, MadeSteps
  <1>13. CASE UploadPart(p)
    <2>1. PICK f \in RequestFiles : Goes(p, [at |-> "receiving", file |-> f])
      BY <1>13 DEF UploadPart
    <2>2. f \in Files
      BY DEF Files
    <2> QED
      BY <2>1, <2>2, <1>g, MadeSteps
  <1>14. CASE \E s \in Submissions : RemoveSubmission(p, s)
    <2>1. PICK s \in Submissions : Goes(p, [at |-> "removing", files |-> FilesOf[s]])
      BY <1>14 DEF RemoveSubmission
    <2>2. FilesOf[s] \in SUBSET RequestFiles
      BY FilesOfAssumption
    <2> QED
      BY <2>1, <2>2, <1>g, MadeSteps
  <1>15. CASE RemoveRequest(p)
    <2>1. Goes(p, [at |-> "removing", files |-> RequestFiles])
      BY <1>15 DEF RemoveRequest
    <2> QED
      BY <2>1, <1>g, MadeSteps
  <1>16. CASE \/ AnnouncedAttachment(p) \/ AttachmentUploaded(p) \/ AddLegacy(p) \/ SaveNewSend(p)
              \/ SendFileUploaded(p) \/ UpdateSend(p) \/ RegisterSendAccess(p) \/ StartSubmission(p)
              \/ RequestFileUploaded(p) \/ TakeRequestFile(p) \/ MoveBack(p) \/ GiveUp(p)
    BY <1>16, <1>i DEF AnnouncedAttachment, AttachmentUploaded, AddLegacy, AddAttachment, SaveNewSend,
       SendFileUploaded, UpdateSend, RegisterSendAccess, StartSubmission, RequestFileUploaded, TakeRequestFile,
       MoveBack, GiveUp
  <1> QED
    BY <1>1, <1>2, <1>3, <1>4, <1>5, <1>6, <1>7, <1>8, <1>9, <1>10, <1>11, <1>12, <1>13, <1>14, <1>15, <1>16
    DEF Client

LEMMA OthersStay ==
    ASSUME NEW p \in Handlers, NEW step, Goes(p, step), handler \in [Handlers -> Steps]
    PROVE  handler'[p] = step /\ \A q \in Handlers : q # p => handler'[q] = handler[q]
  BY DEF Goes

(***************************************************************************)
(* The rows of Sends                                                       *)
(***************************************************************************)
LEMMA RowsTyped ==
    /\ NoRow \in Row /\ NewSend \in Row /\ [NoRow EXCEPT !.is = "gone"] \in Row
    /\ \A body \in SendBodies, row \in Row : Applied(body, row) \in Row
    /\ \A old, new \in Row : Written(old, new) \in Row
    /\ \A row \in Row : [row EXCEPT !.uploaded = TRUE] \in Row /\ [row EXCEPT !.shut = TRUE] \in Row
    /\ \A row \in Row : Counts(row) => [row EXCEPT !.count = @ + 1] \in Row
  <1>0. 0 \in 0..MaxAccess
    BY FilesBounds
  <1>1. NoRow \in Row
    BY <1>0 DEF NoRow, Row
  <1>2. \A row \in Row, x \in {"saved", "gone"} : [row EXCEPT !.is = x] \in Row
    BY DEF Row
  <1>3. \A body \in SendBodies, row \in Row : Applied(body, row) \in Row
    BY DEF Applied, SendBodies, Row
  <1>4. \A old, new \in Row : Written(old, new) \in Row
    BY DEF Written, Row
  <1>5. \A row \in Row : [row EXCEPT !.uploaded = TRUE] \in Row /\ [row EXCEPT !.shut = TRUE] \in Row
    BY DEF Row
  <1>6. \A row \in Row : Counts(row) => [row EXCEPT !.count = @ + 1] \in Row
    BY FilesBounds DEF Row, Counts
  <1> QED
    BY <1>1, <1>2, <1>3, <1>4, <1>5, <1>6 DEF NewSend

(***************************************************************************)
(* Every step keeps the types                                              *)
(***************************************************************************)
LEMMA SendSaved ==
    ASSUME FilesTyped, NEW s \in Sends, NEW row \in Row, SaveSend(s, row)
    PROVE  /\ sends' \in [Sends -> Row]
           /\ opened' \in [Sends -> Nat] /\ most' \in [Sends -> Nat]
           /\ cut' \subseteq Files /\ lately' \subseteq Files
  <1>1. Written(sends[s], row) \in Row /\ row.max \in Nat
    BY RowsTyped, FilesBounds DEF FilesTyped, Row
  <1>2. sends' \in [Sends -> Row]
    BY <1>1 DEF SaveSend, FilesTyped
  <1>3. opened' \in [Sends -> Nat] /\ most' \in [Sends -> Nat]
    BY <1>1 DEF SaveSend, FilesTyped
  <1>4. cut' \subseteq Files /\ lately' \subseteq Files
    BY DEF SaveSend, FilesTyped, Files
  <1> QED
    BY <1>2, <1>3, <1>4

LEMMA TypedClient ==
    ASSUME FilesTyped, NEW p \in Handlers, Client(p)
    PROVE  FilesTyped'
  <1>h. handler' \in [Handlers -> Steps]
    BY ClientGoes
  <1>s. Shape(handler[p])
    BY Shapes DEF FilesTyped
  <1>1. CASE Announce(p) \/ UploadLegacy(p)
    BY <1>1, <1>h DEF Announce, UploadLegacy, New, FilesTyped, ghosts
  <1>2. CASE \/ UploadAttachment(p) \/ CreateFile(p) \/ UploadSend(p) \/ ReadSend(p) \/ AccessFile(p)
             \/ OpenRequest(p) \/ UploadPart(p)
    BY <1>2, <1>h DEF UploadAttachment, CreateFile, UploadSend, ReadSend, AccessFile, OpenRequest, UploadPart,
       FilesTyped, rows, ghosts
  <1>3. CASE AnnouncedAttachment(p) \/ AddLegacy(p)
    BY <1>3, <1>h DEF AnnouncedAttachment, AddLegacy, AddAttachment, FilesTyped, ghosts
  <1>4. CASE AttachmentUploaded(p)
    BY <1>4, <1>h DEF AttachmentUploaded, FilesTyped, ghosts
  <1>5. CASE KeepLegacy(p) \/ KeepFile(p)
    <2>1. /\ disk' = [disk EXCEPT ![handler[p].file] = "young"]
          /\ UNCHANGED <<scene, rows, sweep, crashes, ghosts>>
      BY <1>5 DEF KeepLegacy, KeepFile, Keep
    <2> QED
      BY <2>1, <1>h DEF FilesTyped, rows, ghosts
  <1>6. CASE SaveNewSend(p) \/ UpdateSend(p)
    <2>1. PICK row \in Row : handler[p].file \in Sends /\ SaveSend(handler[p].file, row)
      BY <1>6, <1>s, RowsTyped DEF SaveNewSend, UpdateSend, Shape
    <2>2. /\ sends' \in [Sends -> Row]
          /\ opened' \in [Sends -> Nat] /\ most' \in [Sends -> Nat]
          /\ cut' \subseteq Files /\ lately' \subseteq Files
      BY <2>1, SendSaved
    <2> QED
      BY <2>1, <2>2, <1>h DEF SaveSend, FilesTyped
  <1>7. CASE SendFileUploaded(p)
    <2>1. sends' \in [Sends -> Row]
      BY <1>7, RowsTyped DEF SendFileUploaded, FilesTyped
    <2> QED
      BY <1>7, <2>1, <1>h DEF SendFileUploaded, FilesTyped, ghosts
  <1>8. CASE RegisterSendAccess(p)
    <2>1. handler[p].file \in Sends
      BY <1>8, <1>s DEF RegisterSendAccess, Shape
    <2>2. sends' \in [Sends -> Row]
      BY <1>8, <2>1, RowsTyped DEF RegisterSendAccess, FilesTyped
    <2>3. opened' \in [Sends -> Nat]
      BY <1>8, <2>1 DEF RegisterSendAccess, FilesTyped
    <2> QED
      BY <1>8, <2>2, <2>3, <1>h DEF RegisterSendAccess, FilesTyped
  <1>9. CASE StartSubmission(p)
    <2>1. /\ started' \in [Submissions -> {"new", "started", "completed", "gone"}]
          /\ arriving' \in [RequestFiles -> {"none", "pending", "uploaded", "taken"}]
      BY <1>9 DEF StartSubmission, FilesTyped
    <2> QED
      BY <1>9, <2>1, <1>h DEF StartSubmission, FilesTyped, ghosts
  <1>10. CASE RequestFileUploaded(p)
    BY <1>10, <1>h DEF RequestFileUploaded, FilesTyped, ghosts
  <1>11. CASE \E s \in Submissions : RemoveSubmission(p, s)
    BY <1>11, <1>h DEF RemoveSubmission, FilesTyped, ghosts
  <1>12. CASE RemoveRequest(p)
    BY <1>12, <1>h DEF RemoveRequest, WithoutRequest, FilesTyped, ghosts
  <1>13. CASE RemoveFile(p)
    BY <1>13, <1>h DEF RemoveFile, FilesTyped, rows, ghosts
  <1>14. CASE Attach(p)
    BY <1>14, <1>h DEF Attach, New, FilesTyped, ghosts
  <1>15. CASE MoveFile(p)
    <2>1. handler[p].file \in Files
      BY <1>15, <1>s DEF MoveFile, Shape, Files
    <2> QED
      BY <1>15, <2>1, <1>h DEF MoveFile, FilesTyped, rows, ghosts
  <1>16. CASE TakeRequestFile(p)
    BY <1>16, <1>h DEF TakeRequestFile, FilesTyped, ghosts
  <1>17. CASE MoveBack(p)
    <2>1. handler[p].file \in Files /\ handler[p].to \in Files
      BY <1>17, <1>s DEF MoveBack, Shape, Files
    <2>2. disk' \in [Files -> {"none", "young", "old"}] /\ cut' \subseteq Files
      BY <1>17, <2>1 DEF MoveBack, FilesTyped
    <2> QED
      BY <1>17, <2>2, <1>h DEF MoveBack, FilesTyped, rows
  <1>18. CASE GiveUp(p)
    <2>1. LeftInPlace(p) \subseteq Files
      BY <1>s DEF LeftInPlace, Shape, Files
    <2> QED
      BY <1>18, <2>1, <1>h DEF GiveUp, FilesTyped, rows
  <1> QED
    BY <1>1, <1>2, <1>3, <1>4, <1>5, <1>6, <1>7, <1>8, <1>9, <1>10, <1>11, <1>12, <1>13, <1>14, <1>15, <1>16,
       <1>17, <1>18 DEF Client

LEMMA TypedNext ==
    ASSUME FilesTyped, [Next]_vars
    PROVE  FilesTyped'
  <1>1. ASSUME NEW p \in Handlers, Client(p) PROVE FilesTyped'
    BY <1>1, TypedClient
  <1>2. ASSUME NEW a \in Attachments, DeleteAttachment(a) PROVE FilesTyped'
    BY <1>2 DEF DeleteAttachment, LeftBy, FilesTyped, Files
  <1>3. ASSUME NEW s \in Sends, DeleteSend(s) PROVE FilesTyped'
    BY <1>3, RowsTyped DEF DeleteSend, LeftBy, FilesTyped, Files
  <1>4. ASSUME NEW s \in Submissions, CompleteSubmission(s) PROVE FilesTyped'
    BY <1>4 DEF CompleteSubmission, FilesTyped, ghosts
  <1>5. CASE DeleteItem
    BY <1>5 DEF DeleteItem, LeftBy, FilesTyped, Files
  <1>6. CASE CreateRequest \/ UpdateRequest
    <2>1. Cardinality(Submissions) \in Nat
      BY FS_CardinalityType, FilesOfAssumption
    <2>2. \A body \in RequestBodies : body.closed \in BOOLEAN /\ body.max \in Nat
      BY <2>1 DEF RequestBodies
    <2>3. PICK body \in RequestBodies :
             \/ request' = [is |-> "saved", closed |-> body.closed, max |-> body.max, count |-> 0]
             \/ request' = [request EXCEPT !.max = body.max, !.closed = body.closed]
      BY <1>6 DEF CreateRequest, UpdateRequest
    <2>4. request' \in [is : {"new", "saved", "gone"}, closed : BOOLEAN, max : Nat, count : Nat]
      <3>1. body.closed \in BOOLEAN /\ body.max \in Nat
        BY <2>2, <2>3
      <3>2. CASE request' = [is |-> "saved", closed |-> body.closed, max |-> body.max, count |-> 0]
        BY <3>1, <3>2
      <3>3. CASE request' = [request EXCEPT !.max = body.max, !.closed = body.closed]
        BY <3>1, <3>3 DEF FilesTyped
      <3> QED
        BY <2>3, <3>2, <3>3
    <2>5. allowed' \in Nat
      <3>1. CASE CreateRequest
        BY <2>2, <3>1 DEF CreateRequest
      <3>2. CASE UpdateRequest
        BY <2>2, <3>2 DEF UpdateRequest, FilesTyped
      <3> QED
        BY <1>6, <3>1, <3>2
    <2> QED
      BY <1>6, <2>4, <2>5 DEF CreateRequest, UpdateRequest, FilesTyped
  <1>7. CASE SweepRows
    BY <1>7, RowsTyped DEF SweepRows, LeftBy, OnDisk, FilesTyped, Files
  <1>8. CASE SweepTakes
    BY <1>8 DEF SweepTakes, FilesTyped, rows, ghosts
  <1>9. CASE SweepFileRequests
    <2>1. \A S : UNION {Coming(s) : s \in S} \subseteq Files \/ ~(S \subseteq Submissions)
      BY FilesOfAssumption DEF Coming, Files
    <2> QED
      BY <1>9, <2>1 DEF SweepFileRequests, WithoutRequest, NotSweeping, OnDisk, FilesTyped, Files, ghosts
  <1>10. CASE SweepRemoves
    <2>1. CASE sweep.todo = {}
      <3>1. sweep' = [sweep EXCEPT !.stage = "leftovers", !.todo = OnDisk(RequestFiles)]
        BY <1>10, <2>1 DEF SweepRemoves
      <3>2. OnDisk(RequestFiles) \subseteq Files
        BY DEF OnDisk, Files
      <3>3. sweep' \in [stage : {"idle", "files", "removing", "leftovers"}, todo : SUBSET Files,
                        taking : SUBSET Files]
        BY <3>1, <3>2 DEF FilesTyped
      <3> QED
        BY <1>10, <2>1, <3>3 DEF SweepRemoves, FilesTyped, rows, ghosts
    <2>2. CASE sweep.todo # {}
      <3>1. PICK f \in sweep.todo : /\ disk' = [disk EXCEPT ![f] = "none"]
                                    /\ sweep' = [sweep EXCEPT !.todo = @ \ {f}]
        BY <1>10, <2>2 DEF SweepRemoves
      <3>2. disk' \in [Files -> {"none", "young", "old"}]
        BY <3>1 DEF FilesTyped
      <3>3. sweep' \in [stage : {"idle", "files", "removing", "leftovers"}, todo : SUBSET Files,
                        taking : SUBSET Files]
        BY <3>1 DEF FilesTyped
      <3> QED
        BY <1>10, <3>2, <3>3 DEF SweepRemoves, FilesTyped, rows, ghosts
    <2> QED
      BY <2>1, <2>2
  <1>11. CASE SweepEnds
    BY <1>11 DEF SweepEnds, NotSweeping, FilesTyped, rows, ghosts
  <1>12. ASSUME NEW f \in Files, SweepLooks(f) PROVE FilesTyped'
    BY <1>12 DEF SweepLooks, FilesTyped, rows, ghosts
  <1>13. CASE Crash
    <2>1. ASSUME NEW p \in Handlers PROVE LeftInPlace(p) \subseteq Files
      <3>1. Shape(handler[p])
        BY Shapes DEF FilesTyped
      <3> QED
        BY <3>1 DEF LeftInPlace, Shape, Files
    <2>2. UNION {LeftInPlace(p) : p \in Handlers} \subseteq Files
      BY <2>1
    <2>3. handler' \in [Handlers -> Steps]
      BY <1>13, MadeSteps DEF Crash
    <2>4. sweep' \in [stage : {"idle", "files", "removing", "leftovers"}, todo : SUBSET Files,
                      taking : SUBSET Files]
      BY <1>13 DEF Crash, NotSweeping
    <2>5. crashes' \in 0..MaxCrashes
      BY <1>13, FilesBounds DEF Crash, FilesTyped
    <2> QED
      BY <1>13, <2>2, <2>3, <2>4, <2>5 DEF Crash, FilesTyped, rows
  <1>14. CASE RunsOut
    <2>1. sends' \in [Sends -> Row]
      <3>1. \/ sends' = sends
            \/ \E s \in Sends : sends' = [sends EXCEPT ![s].shut = TRUE]
        BY <1>14 DEF RunsOut
      <3>2. sends \in [Sends -> Row]
        BY DEF FilesTyped
      <3>3. ASSUME NEW s \in Sends, sends' = [sends EXCEPT ![s].shut = TRUE] PROVE sends' \in [Sends -> Row]
        <4>1. [sends[s] EXCEPT !.shut = TRUE] \in Row
          BY <3>2, RowsTyped
        <4> QED
          BY <3>2, <3>3, <4>1
      <3> QED
        BY <3>1, <3>2, <3>3
    <2>2. request' \in [is : {"new", "saved", "gone"}, closed : BOOLEAN, max : Nat, count : Nat]
      BY <1>14 DEF RunsOut, FilesTyped
    <2> QED
      BY <1>14, <2>1, <2>2 DEF RunsOut, FilesTyped, ghosts
  <1>15. ASSUME NEW f \in Files, Ages(f) \/ AWeekAfter(f) PROVE FilesTyped'
    BY <1>15 DEF Ages, AWeekAfter, FilesTyped, rows, ghosts
  <1>16. CASE UNCHANGED vars
    BY <1>16 DEF vars, rows, ghosts, FilesTyped
  <1> QED
    BY <1>1, <1>2, <1>3, <1>4, <1>5, <1>6, <1>7, <1>8, <1>9, <1>10, <1>11, <1>12, <1>13, <1>14, <1>15, <1>16
    DEF Next, Sweeping

(***************************************************************************)
(* What a step leaves alone                                                *)
(***************************************************************************)
Concerns(h) ==
    IF h.at \in {"taking", "moved"} THEN {h.file, h.to}
    ELSE IF h.at \in {"idle", "starting", "removing"} THEN {}
    ELSE {h.file}

(* The place, the rows and the requests about f are as they were.          *)
Leaves(f) ==
    /\ disk'[f] = disk[f]
    /\ f \in sweep'.taking => f \in sweep.taking
    /\ f \in cut => f \in cut'
    /\ f \in Attachments => attached'[f] = attached[f]
    /\ f \in Sends => sends'[f] = sends[f]
    /\ f \in RequestFiles => arriving'[f] = arriving[f]
    /\ \A q \in Handlers : \/ handler'[q] = handler[q]
                           \/ f \notin Concerns(handler[q]) /\ f \notin Concerns(handler'[q])

LEMMA MadeConcerns ==
    /\ Concerns(Idle) = {}
    /\ \A f, at : at \notin {"idle", "starting", "removing", "taking", "moved"} => Concerns([at |-> at, file |-> f]) = {f}
    /\ \A f, row : Concerns([at |-> "changing", file |-> f, row |-> row]) = {f}
    /\ \A s : Concerns([at |-> "starting", submission |-> s]) = {}
    /\ \A F : Concerns([at |-> "removing", files |-> F]) = {}
    /\ \A f, a, at : at \in {"taking", "moved"} => Concerns([at |-> at, file |-> f, to |-> a]) = {f, a}
  BY DEF Concerns, Idle

LEMMA ClientLeaves ==
    ASSUME FilesTyped, NEW p \in Handlers, Client(p), NEW f \in Files,
           f \notin Concerns(handler[p]), f \notin Concerns(handler'[p]),
           ~(handler[p].at = "removing" /\ f \in handler[p].files),
           ~(handler[p].at = "starting" /\ f \in FilesOf[handler[p].submission])
    PROVE  Leaves(f)
  <1>t. /\ handler \in [Handlers -> Steps] /\ disk \in [Files -> {"none", "young", "old"}]
        /\ attached \in [Attachments -> {"new", "named", "announced", "uploaded", "taken", "gone"}]
        /\ sends \in [Sends -> Row]
        /\ arriving \in [RequestFiles -> {"none", "pending", "uploaded", "taken"}]
    BY DEF FilesTyped
  <1>s. Shape(handler[p])
    BY <1>t, Shapes
  <1>c. f \notin Concerns(handler[p]) /\ f \notin Concerns(handler'[p])
    OBVIOUS
  <1>o. ASSUME NEW step, Goes(p, step) PROVE handler'[p] = step /\ \A q \in Handlers : q # p => handler'[q] = handler[q]
    BY <1>o, <1>t, OthersStay
  <1>h. \A q \in Handlers : \/ handler'[q] = handler[q]
                            \/ f \notin Concerns(handler[q]) /\ f \notin Concerns(handler'[q])
    BY <1>c, <1>t DEF Client, Goes, Announce, UploadAttachment, UploadLegacy, KeepLegacy, KeepFile, MoveFile, RemoveFile, Attach, CreateFile, AccessFile, UploadSend, ReadSend, OpenRequest, UploadPart, RemoveSubmission, RemoveRequest, AnnouncedAttachment, AttachmentUploaded, AddLegacy, AddAttachment, SaveNewSend,
       SendFileUploaded, UpdateSend, RegisterSendAccess, StartSubmission, RequestFileUploaded, TakeRequestFile,
       MoveBack, GiveUp
  <1>1. CASE Announce(p) \/ UploadLegacy(p)
    <2>1. PICK a \in Attachments, at \in {"announcing", "receiving whole"} :
             attached' = [attached EXCEPT ![a] = "named"] /\ Goes(p, [at |-> at, file |-> a])
      BY <1>1 DEF Announce, UploadLegacy, New
    <2>2. handler'[p] = [at |-> at, file |-> a]
      BY <2>1, <1>o
    <2>3. Concerns([at |-> at, file |-> a]) = {a}
      BY MadeConcerns
    <2>4. f # a
      BY <2>2, <2>3, <1>c
    <2> QED
      BY <1>1, <2>1, <2>4, <1>t, <1>h DEF Announce, UploadLegacy, Leaves, ghosts
  <1>2. CASE \/ UploadAttachment(p) \/ CreateFile(p) \/ UploadSend(p) \/ ReadSend(p) \/ AccessFile(p)
             \/ OpenRequest(p) \/ UploadPart(p)
    BY <1>2, <1>h DEF UploadAttachment, CreateFile, UploadSend, ReadSend, AccessFile, OpenRequest, UploadPart,
       Leaves, rows, ghosts
  <1>3. CASE AnnouncedAttachment(p) \/ AddLegacy(p)
    <2>1. f # handler[p].file
      BY <1>3, <1>c DEF AnnouncedAttachment, AddLegacy, Concerns
    <2> QED
      BY <1>3, <2>1, <1>t, <1>h DEF AnnouncedAttachment, AddLegacy, AddAttachment, Leaves, ghosts
  <1>4. CASE AttachmentUploaded(p)
    <2>1. f # handler[p].file
      BY <1>4, <1>c DEF AttachmentUploaded, Concerns
    <2> QED
      BY <1>4, <2>1, <1>t, <1>h DEF AttachmentUploaded, Leaves, ghosts
  <1>5. CASE KeepLegacy(p) \/ KeepFile(p)
    <2>1. f # handler[p].file
      BY <1>5, <1>c DEF KeepLegacy, KeepFile, Concerns
    <2> QED
      BY <1>5, <2>1, <1>t, <1>h DEF KeepLegacy, KeepFile, Keep, Leaves, rows, ghosts
  <1>6. CASE SaveNewSend(p) \/ UpdateSend(p)
    <2>1. f # handler[p].file
      BY <1>6, <1>c DEF SaveNewSend, UpdateSend, Concerns
    <2>2. PICK row : SaveSend(handler[p].file, row)
      BY <1>6 DEF SaveNewSend, UpdateSend
    <2> QED
      BY <2>1, <2>2, <1>t, <1>h DEF SaveSend, Leaves
  <1>7. CASE SendFileUploaded(p)
    <2>1. f # handler[p].file
      BY <1>7, <1>c DEF SendFileUploaded, Concerns
    <2> QED
      BY <1>7, <2>1, <1>t, <1>h DEF SendFileUploaded, Leaves, ghosts
  <1>8. CASE RegisterSendAccess(p)
    <2>1. f # handler[p].file
      BY <1>8, <1>c DEF RegisterSendAccess, Concerns
    <2> QED
      BY <1>8, <2>1, <1>t, <1>h DEF RegisterSendAccess, Leaves
  <1>9. CASE StartSubmission(p)
    <2>1. f \notin FilesOf[handler[p].submission]
      BY <1>9 DEF StartSubmission
    <2> QED
      BY <1>9, <2>1, <1>t, <1>h DEF StartSubmission, Leaves, ghosts
  <1>10. CASE RequestFileUploaded(p)
    <2>1. f # handler[p].file
      BY <1>10, <1>c DEF RequestFileUploaded, Concerns
    <2> QED
      BY <1>10, <2>1, <1>t, <1>h DEF RequestFileUploaded, Leaves, ghosts
  <1>11. CASE (\E s \in Submissions : RemoveSubmission(p, s)) \/ RemoveRequest(p)
    BY <1>11, <1>h DEF RemoveSubmission, RemoveRequest, Leaves, ghosts
  <1>12. CASE RemoveFile(p)
    <2>1. f \notin handler[p].files
      BY <1>12 DEF RemoveFile
    <2> QED
      BY <1>12, <2>1, <1>t, <1>h DEF RemoveFile, Leaves, rows, ghosts
  <1>13. CASE Attach(p)
    <2>1. PICK s \in Submissions : \E g \in FilesOf[s], a \in Attachments :
             attached' = [attached EXCEPT ![a] = "named"] /\ Goes(p, [at |-> "taking", file |-> g, to |-> a])
      BY <1>13 DEF Attach, New
    <2>2. PICK g \in FilesOf[s], a \in Attachments :
             attached' = [attached EXCEPT ![a] = "named"] /\ Goes(p, [at |-> "taking", file |-> g, to |-> a])
      BY <2>1
    <2>3. f # a
      BY <2>2, <1>o, <1>c, MadeConcerns
    <2> QED
      BY <1>13, <2>2, <2>3, <1>t, <1>h DEF Attach, Leaves, ghosts
  <1>14. CASE MoveFile(p) \/ MoveBack(p)
    <2>1. f # handler[p].file /\ f # handler[p].to
      BY <1>14, <1>c DEF MoveFile, MoveBack, Concerns
    <2> QED
      BY <1>14, <2>1, <1>t, <1>h DEF MoveFile, MoveBack, Leaves, rows, ghosts
  <1>15. CASE TakeRequestFile(p)
    <2>1. f # handler[p].file /\ f # handler[p].to
      BY <1>15, <1>c DEF TakeRequestFile, Concerns
    <2> QED
      BY <1>15, <2>1, <1>t, <1>h DEF TakeRequestFile, Leaves, ghosts
  <1>16. CASE GiveUp(p)
    BY <1>16, <1>h DEF GiveUp, Leaves, rows
  <1> QED
    BY <1>1, <1>2, <1>3, <1>4, <1>5, <1>6, <1>7, <1>8, <1>9, <1>10, <1>11, <1>12, <1>13, <1>14, <1>15, <1>16
    DEF Client

AttachmentStep(p) ==
    \/ Announce(p) \/ AnnouncedAttachment(p) \/ UploadAttachment(p) \/ AttachmentUploaded(p)
    \/ UploadLegacy(p) \/ KeepLegacy(p) \/ AddLegacy(p)

SendStep(p) ==
    \/ CreateFile(p) \/ SaveNewSend(p) \/ UploadSend(p) \/ SendFileUploaded(p)
    \/ ReadSend(p) \/ UpdateSend(p) \/ AccessFile(p) \/ RegisterSendAccess(p)

RequestStep(p) ==
    \/ OpenRequest(p) \/ StartSubmission(p) \/ UploadPart(p) \/ RequestFileUploaded(p)
    \/ (\E s \in Submissions : RemoveSubmission(p, s)) \/ RemoveRequest(p) \/ RemoveFile(p)

TakingStep(p) == Attach(p) \/ MoveFile(p) \/ TakeRequestFile(p) \/ MoveBack(p)

LEMMA AttachmentSteps ==
    ASSUME FilesTyped, NEW p \in Handlers, AttachmentStep(p)
    PROVE  Concerns(handler[p]) \cup Concerns(handler'[p]) \subseteq Attachments
  <1>t. handler \in [Handlers -> Steps] /\ Shape(handler[p])
    BY Shapes DEF FilesTyped
  <1>o. ASSUME NEW step, Goes(p, step) PROVE handler'[p] = step
    BY <1>o, <1>t, OthersStay
  <1>1. Concerns(handler[p]) \subseteq Attachments
    <2>1. \/ handler[p] = Idle
          \/ handler[p].at \in {"announcing", "receiving whole", "whole in place", "in place"} /\ handler[p].file \in Attachments
      BY <1>t DEF AttachmentStep, Announce, AnnouncedAttachment, UploadAttachment, AttachmentUploaded,
         UploadLegacy, KeepLegacy, AddLegacy, Shape
    <2>2. CASE handler[p] = Idle
      BY <2>2, MadeConcerns
    <2>3. CASE handler[p].at \in {"announcing", "receiving whole", "whole in place", "in place"} /\ handler[p].file \in Attachments
      BY <2>3, <1>t DEF Concerns, Shape
    <2> QED
      BY <2>1, <2>2, <2>3
  <1>2. CASE Announce(p) \/ UploadLegacy(p) \/ UploadAttachment(p)
    <2>1. PICK a \in Attachments, at \in {"announcing", "receiving whole", "receiving"} : Goes(p, [at |-> at, file |-> a])
      BY <1>2 DEF Announce, UploadLegacy, UploadAttachment
    <2>2. handler'[p] = [at |-> at, file |-> a]
      BY <2>1, <1>o
    <2>3. Concerns([at |-> at, file |-> a]) = {a}
      BY MadeConcerns
    <2> QED
      BY <2>2, <2>3, <1>1
  <1>3. CASE AnnouncedAttachment(p) \/ AttachmentUploaded(p) \/ AddLegacy(p)
    <2>1. handler'[p] = Idle
      BY <1>3, <1>o DEF AnnouncedAttachment, AttachmentUploaded, AddLegacy, AddAttachment
    <2> QED
      BY <2>1, <1>1, MadeConcerns
  <1>4. CASE KeepLegacy(p)
    <2>1. handler[p].at = "receiving whole" /\ handler'[p] = [handler[p] EXCEPT !.at = "whole in place"]
      BY <1>4, <1>o DEF KeepLegacy
    <2>2. handler'[p] = [at |-> "whole in place", file |-> handler[p].file]
      BY <2>1, <1>t, NextSteps
    <2>3. handler[p].file \in Attachments
      BY <2>1, <1>t DEF Shape
    <2>4. Concerns([at |-> "whole in place", file |-> handler[p].file]) = {handler[p].file}
      BY MadeConcerns
    <2> QED
      BY <2>2, <2>3, <2>4, <1>1
  <1> QED
    BY <1>2, <1>3, <1>4 DEF AttachmentStep

LEMMA SendSteps ==
    ASSUME FilesTyped, NEW p \in Handlers, SendStep(p)
    PROVE  Concerns(handler[p]) \cup Concerns(handler'[p]) \subseteq Sends
  <1>t. handler \in [Handlers -> Steps] /\ Shape(handler[p])
    BY Shapes DEF FilesTyped
  <1>o. ASSUME NEW step, Goes(p, step) PROVE handler'[p] = step
    BY <1>o, <1>t, OthersStay
  <1>1. Concerns(handler[p]) \subseteq Sends
    <2>1. \/ handler[p] = Idle
          \/ handler[p].at \in {"announcing", "in place", "changing", "opening"} /\ handler[p].file \in Sends
      BY <1>t DEF SendStep, CreateFile, SaveNewSend, UploadSend, SendFileUploaded, ReadSend, UpdateSend,
         AccessFile, RegisterSendAccess, Shape
    <2>2. CASE handler[p] = Idle
      BY <2>2, MadeConcerns
    <2>3. CASE handler[p].at \in {"announcing", "in place", "changing", "opening"} /\ handler[p].file \in Sends
      BY <2>3, <1>t DEF Concerns, Shape
    <2> QED
      BY <2>1, <2>2, <2>3
  <1>2. CASE CreateFile(p) \/ UploadSend(p) \/ AccessFile(p)
    <2>1. PICK s \in Sends, at \in {"announcing", "receiving", "opening"} : Goes(p, [at |-> at, file |-> s])
      BY <1>2 DEF CreateFile, UploadSend, AccessFile
    <2>2. handler'[p] = [at |-> at, file |-> s]
      BY <2>1, <1>o
    <2>3. Concerns([at |-> at, file |-> s]) = {s}
      BY MadeConcerns
    <2> QED
      BY <2>2, <2>3, <1>1
  <1>3. CASE ReadSend(p)
    <2>1. PICK s \in Sends : Goes(p, [at |-> "changing", file |-> s, row |-> sends[s]])
      BY <1>3 DEF ReadSend
    <2>2. handler'[p] = [at |-> "changing", file |-> s, row |-> sends[s]]
      BY <2>1, <1>o
    <2> QED
      BY <2>2, <1>1, MadeConcerns
  <1>4. CASE SaveNewSend(p) \/ SendFileUploaded(p) \/ UpdateSend(p) \/ RegisterSendAccess(p)
    <2>1. handler'[p] = Idle
      BY <1>4, <1>o DEF SaveNewSend, SendFileUploaded, UpdateSend, RegisterSendAccess
    <2> QED
      BY <2>1, <1>1, MadeConcerns
  <1> QED
    BY <1>2, <1>3, <1>4 DEF SendStep

LEMMA RequestSteps ==
    ASSUME FilesTyped, NEW p \in Handlers, RequestStep(p)
    PROVE  Concerns(handler[p]) \cup Concerns(handler'[p]) \subseteq RequestFiles
  <1>t. handler \in [Handlers -> Steps] /\ handler[p] \in Steps /\ Shape(handler[p])
    BY Shapes DEF FilesTyped
  <1>o. ASSUME NEW step, Goes(p, step) PROVE handler'[p] = step
    BY <1>o, <1>t, OthersStay
  <1>1. Concerns(handler[p]) \subseteq RequestFiles
    <2>1. \/ handler[p] = Idle
          \/ handler[p].at \in {"starting", "removing"} \/ (handler[p].at = "in place" /\ handler[p].file \in RequestFiles)
      BY <1>t DEF RequestStep, OpenRequest, StartSubmission, UploadPart, RequestFileUploaded,
         RemoveSubmission, RemoveRequest, RemoveFile, Shape
    <2>2. CASE handler[p] = Idle
      BY <2>2, MadeConcerns
    <2>3. CASE handler[p].at \in {"starting", "removing"} \/ (handler[p].at = "in place" /\ handler[p].file \in RequestFiles)
      BY <2>3, <1>t DEF Concerns, Shape
    <2> QED
      BY <2>1, <2>2, <2>3
  <1>2. CASE UploadPart(p)
    <2>1. PICK f \in RequestFiles : Goes(p, [at |-> "receiving", file |-> f])
      BY <1>2 DEF UploadPart
    <2>2. handler'[p] = [at |-> "receiving", file |-> f]
      BY <2>1, <1>o
    <2> QED
      BY <2>2, <1>1, MadeConcerns
  <1>3. CASE OpenRequest(p)
    <2>1. PICK s \in Submissions : Goes(p, [at |-> "starting", submission |-> s])
      BY <1>3 DEF OpenRequest
    <2> QED
      BY <2>1, <1>o, <1>1, MadeConcerns
  <1>4. CASE StartSubmission(p) \/ RequestFileUploaded(p)
    BY <1>4, <1>o, <1>1, MadeConcerns DEF StartSubmission, RequestFileUploaded
  <1>5. CASE (\E s \in Submissions : RemoveSubmission(p, s)) \/ RemoveRequest(p)
    <2>1. PICK F : Goes(p, [at |-> "removing", files |-> F])
      BY <1>5 DEF RemoveSubmission, RemoveRequest
    <2> QED
      BY <2>1, <1>o, <1>1, MadeConcerns
  <1>6. CASE RemoveFile(p)
    <2>1. CASE handler'[p] = Idle
      BY <2>1, <1>1, MadeConcerns
    <2>2. ASSUME NEW f, Goes(p, [handler[p] EXCEPT !.files = @ \ {f}])
          PROVE  Concerns(handler'[p]) \subseteq RequestFiles
      <3>1. handler'[p] = [at |-> "removing", files |-> handler[p].files \ {f}]
        BY <1>6, <2>2, <1>o, <1>t, NextSteps DEF RemoveFile
      <3> QED
        BY <3>1, MadeConcerns
    <2> QED
      BY <1>6, <2>1, <2>2, <1>o, <1>1 DEF RemoveFile
  <1> QED
    BY <1>2, <1>3, <1>4, <1>5, <1>6 DEF RequestStep

LEMMA TakingSteps ==
    ASSUME FilesTyped, NEW p \in Handlers, TakingStep(p)
    PROVE  Concerns(handler[p]) \cup Concerns(handler'[p]) \subseteq RequestFiles \cup Attachments
  <1>t. handler \in [Handlers -> Steps] /\ handler[p] \in Steps /\ Shape(handler[p])
    BY Shapes DEF FilesTyped
  <1>o. ASSUME NEW step, Goes(p, step) PROVE handler'[p] = step
    BY <1>o, <1>t, OthersStay
  <1>1. Concerns(handler[p]) \subseteq RequestFiles \cup Attachments
    <2>1. \/ handler[p] = Idle
          \/ handler[p].at \in {"taking", "moved"} /\ handler[p].file \in RequestFiles /\ handler[p].to \in Attachments
      BY <1>t DEF TakingStep, Attach, MoveFile, TakeRequestFile, MoveBack, Shape
    <2>2. CASE handler[p] = Idle
      BY <2>2, MadeConcerns
    <2>3. CASE handler[p].at \in {"taking", "moved"} /\ handler[p].file \in RequestFiles /\ handler[p].to \in Attachments
      BY <2>3, <1>t DEF Concerns, Shape
    <2> QED
      BY <2>1, <2>2, <2>3
  <1>2. CASE Attach(p)
    <2>1. PICK s \in Submissions :
             \E f \in FilesOf[s], a \in Attachments : Goes(p, [at |-> "taking", file |-> f, to |-> a])
      BY <1>2 DEF Attach
    <2>2. PICK f \in RequestFiles, a \in Attachments : Goes(p, [at |-> "taking", file |-> f, to |-> a])
      BY <2>1, FilesOfAssumption
    <2> QED
      BY <2>2, <1>o, <1>1, MadeConcerns
  <1>3. CASE MoveFile(p)
    <2>1. handler[p].at = "taking" /\ handler'[p] = [handler[p] EXCEPT !.at = "moved"]
      BY <1>3, <1>o DEF MoveFile
    <2>2. handler'[p] = [at |-> "moved", file |-> handler[p].file, to |-> handler[p].to]
      BY <2>1, <1>t, NextSteps
    <2>3. handler[p].file \in RequestFiles /\ handler[p].to \in Attachments
      BY <2>1, <1>t DEF Shape
    <2> QED
      BY <2>2, <2>3, <1>1, MadeConcerns
  <1>4. CASE TakeRequestFile(p) \/ MoveBack(p)
    <2>1. handler'[p] = Idle
      BY <1>4, <1>o DEF TakeRequestFile, MoveBack
    <2> QED
      BY <2>1, <1>1, MadeConcerns
  <1> QED
    BY <1>2, <1>3, <1>4 DEF TakingStep

(* A file that no request is about is left alone by the steps of others.   *)
LEMMA StepsLeave ==
    ASSUME FilesTyped, NEW p \in Handlers, NEW f \in Files
    PROVE  /\ AttachmentStep(p) /\ f \notin Attachments => Leaves(f)
           /\ SendStep(p) /\ f \notin Sends => Leaves(f)
           /\ RequestStep(p) /\ f \notin RequestFiles => Leaves(f)
           /\ TakingStep(p) /\ f \in Sends => Leaves(f)
  <1>s. Shape(handler[p])
    BY Shapes DEF FilesTyped
  <1>1. ASSUME AttachmentStep(p), f \notin Attachments PROVE Leaves(f)
    <2>1. Client(p)
      BY <1>1 DEF AttachmentStep, Client
    <2>2. handler[p].at \notin {"removing", "starting"}
      <3>1. \/ handler[p] = Idle
            \/ handler[p].at \in {"announcing", "receiving whole", "whole in place", "in place"}
        BY <1>1 DEF AttachmentStep, Announce, AnnouncedAttachment, UploadAttachment, AttachmentUploaded,
           UploadLegacy, KeepLegacy, AddLegacy
      <3>2. CASE handler[p] = Idle
        BY <3>2 DEF Idle
      <3>3. CASE handler[p] # Idle
        BY <3>1, <3>3
      <3> QED
        BY <3>2, <3>3
    <2> QED
      BY <1>1, <2>1, <2>2, AttachmentSteps, ClientLeaves
  <1>2. ASSUME SendStep(p), f \notin Sends PROVE Leaves(f)
    <2>1. Client(p)
      BY <1>2 DEF SendStep, Client
    <2>2. handler[p].at \notin {"removing", "starting"}
      <3>1. \/ handler[p] = Idle
            \/ handler[p].at \in {"announcing", "in place", "changing", "opening"}
        BY <1>2 DEF SendStep, CreateFile, SaveNewSend, UploadSend, SendFileUploaded, ReadSend, UpdateSend,
           AccessFile, RegisterSendAccess
      <3>2. CASE handler[p] = Idle
        BY <3>2 DEF Idle
      <3>3. CASE handler[p] # Idle
        BY <3>1, <3>3
      <3> QED
        BY <3>2, <3>3
    <2> QED
      BY <1>2, <2>1, <2>2, SendSteps, ClientLeaves
  <1>3. ASSUME RequestStep(p), f \notin RequestFiles PROVE Leaves(f)
    <2>1. Client(p)
      BY <1>3 DEF RequestStep, Client
    <2>2. /\ ~(handler[p].at = "removing" /\ f \in handler[p].files)
          /\ ~(handler[p].at = "starting" /\ f \in FilesOf[handler[p].submission])
      BY <1>3, <1>s, FilesOfAssumption DEF Shape
    <2>3. f \notin Concerns(handler[p]) /\ f \notin Concerns(handler'[p])
      BY <1>3, RequestSteps
    <2> QED
      BY <2>1, <2>2, <2>3, ClientLeaves
  <1>4. ASSUME TakingStep(p), f \in Sends PROVE Leaves(f)
    <2>1. Client(p) /\ handler[p].at \notin {"removing", "starting"}
      BY <1>4 DEF TakingStep, Client, Attach, MoveFile, TakeRequestFile, MoveBack, Idle
    <2>2. f \notin RequestFiles \cup Attachments
      BY <1>4, PlacesAssumption
    <2> QED
      BY <2>1, <2>2, TakingSteps, ClientLeaves, <1>4
  <1> QED
    BY <1>1, <1>2, <1>3, <1>4

LEMMA OthersLeave ==
    ASSUME FilesTyped, NEW f \in Files
    PROVE  /\ \A a \in Attachments : DeleteAttachment(a) /\ f # a => Leaves(f)
           /\ \A s \in Sends : DeleteSend(s) /\ f # s => Leaves(f)
           /\ \A s \in Submissions : CompleteSubmission(s) => Leaves(f)
           /\ DeleteItem \/ CreateRequest \/ UpdateRequest \/ SweepFileRequests \/ SweepEnds => Leaves(f)
           /\ SweepRows /\ f \in RequestFiles => Leaves(f)
           /\ SweepTakes /\ f \notin sweep.taking => Leaves(f)
           /\ SweepRemoves /\ f \notin sweep.todo => Leaves(f)
           /\ \A g \in Files : SweepLooks(g) /\ ~(f = g /\ Orphan(f)) => Leaves(f)
           /\ RunsOut /\ f \notin Sends => Leaves(f)
           /\ \A g \in Files : Ages(g) /\ f # g => Leaves(f)
           /\ \A g \in Files : AWeekAfter(g) => Leaves(f)
           /\ UNCHANGED vars => Leaves(f)
  <1>t. /\ disk \in [Files -> {"none", "young", "old"}]
        /\ attached \in [Attachments -> {"new", "named", "announced", "uploaded", "taken", "gone"}]
        /\ sends \in [Sends -> Row]
        /\ sweep \in [stage : {"idle", "files", "removing", "leftovers"}, todo : SUBSET Files, taking : SUBSET Files]
    BY DEF FilesTyped
  <1>1. \A a \in Attachments : DeleteAttachment(a) /\ f # a => Leaves(f)
    BY <1>t DEF DeleteAttachment, Leaves
  <1>2. \A s \in Sends : DeleteSend(s) /\ f # s => Leaves(f)
    BY <1>t DEF DeleteSend, Leaves
  <1>3. \A s \in Submissions : CompleteSubmission(s) => Leaves(f)
    BY DEF CompleteSubmission, Leaves, ghosts
  <1>4. DeleteItem \/ CreateRequest \/ UpdateRequest => Leaves(f)
    BY DEF DeleteItem, CreateRequest, UpdateRequest, Leaves
  <1>5. SweepFileRequests \/ SweepEnds => Leaves(f)
    <2>1. SweepFileRequests \/ SweepEnds => sweep'.taking = {}
      BY DEF SweepFileRequests, SweepEnds, NotSweeping
    <2> QED
      BY <2>1 DEF SweepFileRequests, SweepEnds, Leaves, rows, ghosts
  <1>6. SweepRows /\ f \in RequestFiles => Leaves(f)
    <2>1. f \in RequestFiles => f \notin Attachments /\ f \notin Sends
      BY PlacesAssumption
    <2> QED
      BY <2>1 DEF SweepRows, Leaves
  <1>7. SweepTakes /\ f \notin sweep.taking => Leaves(f)
    BY <1>t DEF SweepTakes, Leaves, rows, ghosts
  <1>8. SweepRemoves /\ f \notin sweep.todo => Leaves(f)
    <2>1. SweepRemoves => sweep'.taking = sweep.taking
      BY <1>t DEF SweepRemoves
    <2> QED
      BY <2>1, <1>t DEF SweepRemoves, Leaves, rows, ghosts
  <1>9. \A g \in Files : SweepLooks(g) /\ ~(f = g /\ Orphan(f)) => Leaves(f)
    BY <1>t DEF SweepLooks, Leaves, rows, ghosts
  <1>10. RunsOut /\ f \notin Sends => Leaves(f)
    BY DEF RunsOut, Leaves, ghosts
  <1>11. \A g \in Files : (Ages(g) /\ f # g) \/ AWeekAfter(g) => Leaves(f)
    BY <1>t DEF Ages, AWeekAfter, Leaves, rows, ghosts
  <1>12. UNCHANGED vars => Leaves(f)
    BY DEF vars, Leaves, rows, ghosts
  <1> QED
    BY <1>1, <1>2, <1>3, <1>4, <1>5, <1>6, <1>7, <1>8, <1>9, <1>10, <1>11, <1>12

(***************************************************************************)
(* Ids of attachments                                                      *)
(***************************************************************************)
LEMMA AboutConcerns ==
    ASSUME NEW h, NEW f, Names(h, f) \/ Brings(h, f) \/ Takes1(h, f)
    PROVE  f \in Concerns(h)
  BY DEF Names, Brings, Takes1, Concerns

LEMMA MadeNames ==
    /\ Idle.at = "idle" /\ \A f : ~Names(Idle, f) /\ ~Brings(Idle, f) /\ ~Takes1(Idle, f)
    /\ \A f : /\ [at |-> "whole in place", file |-> f].at = "whole in place"
              /\ \A g : ~Brings([at |-> "whole in place", file |-> f], g) /\ ~Takes1([at |-> "whole in place", file |-> f], g)
    /\ \A f, at : at \in {"receiving", "in place"} =>
             \A g : ~Names([at |-> at, file |-> f], g) /\ ~Takes1([at |-> at, file |-> f], g)
    /\ \A f, a, at : at \in {"taking", "moved"} =>
             /\ [at |-> at, file |-> f, to |-> a].at = at
             /\ \A g : ~Brings([at |-> at, file |-> f, to |-> a], g)
  BY DEF Names, Brings, Takes1, Idle

LEMMA KeepingSteps ==
    ASSUME FilesTyped, NEW p \in Handlers, KeepLegacy(p) \/ KeepFile(p) \/ MoveFile(p)
    PROVE  /\ KeepLegacy(p) => Concerns(handler[p]) = {handler[p].file} /\ handler[p].file \in Attachments
                               /\ handler'[p] = [at |-> "whole in place", file |-> handler[p].file]
           /\ KeepFile(p) => Concerns(handler[p]) = {handler[p].file} /\ handler[p].file \in Files
                             /\ handler'[p] = [at |-> "in place", file |-> handler[p].file]
           /\ MoveFile(p) => /\ Concerns(handler[p]) = {handler[p].file, handler[p].to}
                             /\ handler[p].file \in RequestFiles /\ handler[p].to \in Attachments
                             /\ handler'[p] = [at |-> "moved", file |-> handler[p].file, to |-> handler[p].to]
           /\ Concerns(handler'[p]) = Concerns(handler[p])
           /\ \A q \in Handlers : q # p => handler'[q] = handler[q]
  <1>t. /\ handler \in [Handlers -> Steps] /\ handler[p] \in Steps /\ Shape(handler[p])
    BY Shapes DEF FilesTyped
  <1>o. ASSUME NEW step, Goes(p, step) PROVE handler'[p] = step /\ \A q \in Handlers : q # p => handler'[q] = handler[q]
    BY <1>o, <1>t, OthersStay
  <1>1. CASE KeepLegacy(p)
    <2>1. handler[p].at = "receiving whole" /\ handler[p].file \in Attachments
      BY <1>1, <1>t DEF KeepLegacy, Shape
    <2>2. Concerns(handler[p]) = {handler[p].file}
      BY <2>1 DEF Concerns
    <2>3. handler'[p] = [at |-> "whole in place", file |-> handler[p].file]
      BY <1>1, <1>o, <1>t, <2>1, NextSteps DEF KeepLegacy
    <2>4. Concerns(handler'[p]) = {handler[p].file}
      BY <2>3, MadeConcerns
    <2>5. ~KeepFile(p) /\ ~MoveFile(p)
      BY <2>1 DEF KeepFile, MoveFile
    <2> QED
      BY <1>1, <1>o, <2>1, <2>2, <2>3, <2>4, <2>5 DEF KeepLegacy
  <1>2. CASE KeepFile(p)
    <2>1. handler[p].at = "receiving" /\ handler[p].file \in Files
      BY <1>2, <1>t DEF KeepFile, Shape
    <2>2. Concerns(handler[p]) = {handler[p].file}
      BY <2>1 DEF Concerns
    <2>3. handler'[p] = [at |-> "in place", file |-> handler[p].file]
      BY <1>2, <1>o, <1>t, <2>1, NextSteps DEF KeepFile
    <2>4. Concerns(handler'[p]) = {handler[p].file}
      BY <2>3, MadeConcerns
    <2>5. ~KeepLegacy(p) /\ ~MoveFile(p)
      BY <2>1 DEF KeepLegacy, MoveFile
    <2> QED
      BY <1>2, <1>o, <2>1, <2>2, <2>3, <2>4, <2>5 DEF KeepFile
  <1>3. CASE MoveFile(p)
    <2>1. handler[p].at = "taking" /\ handler[p].file \in RequestFiles /\ handler[p].to \in Attachments
      BY <1>3, <1>t DEF MoveFile, Shape
    <2>2. Concerns(handler[p]) = {handler[p].file, handler[p].to}
      BY <2>1 DEF Concerns
    <2>3. handler'[p] = [at |-> "moved", file |-> handler[p].file, to |-> handler[p].to]
      BY <1>3, <1>o, <1>t, <2>1, NextSteps DEF MoveFile
    <2>4. Concerns(handler'[p]) = {handler[p].file, handler[p].to}
      BY <2>3, MadeConcerns
    <2>5. ~KeepLegacy(p) /\ ~KeepFile(p)
      BY <2>1 DEF KeepLegacy, KeepFile
    <2> QED
      BY <1>3, <1>o, <2>1, <2>2, <2>3, <2>4, <2>5 DEF MoveFile
  <1> QED
    BY <1>1, <1>2, <1>3

LEMMA IdKept ==
    ASSUME NEW a \in Attachments, IdOf(a), Leaves(a)
    PROVE  IdOf(a)'
  <1>1. ASSUME NEW q \in Handlers
        PROVE  \/ handler'[q] = handler[q]
               \/ ~Names(handler'[q], a) /\ ~Brings(handler'[q], a)
    BY AboutConcerns DEF Leaves
  <1>2. disk'[a] = disk[a] /\ attached'[a] = attached[a] /\ (a \in sweep'.taking => a \in sweep.taking)
    BY DEF Leaves
  <1>3. attached'[a] = "new" => Unused(a)' /\ \A q \in Handlers : ~Brings(handler'[q], a)
    BY <1>1, <1>2 DEF IdOf, Unused
  <1>4. \A q \in Handlers : Brings(handler'[q], a) => attached'[a] \notin {"new", "named"}
    BY <1>1, <1>2 DEF IdOf
  <1>5. ASSUME NEW q \in Handlers, Names(handler'[q], a)
        PROVE  /\ attached'[a] = "named"
               /\ \A r \in Handlers : Names(handler'[r], a) => r = q
               /\ handler'[q].at \in {"announcing", "receiving whole", "taking"} => disk'[a] = "none"
               /\ handler'[q].at = "whole in place" => disk'[a] = "young"
               /\ handler'[q].at \in {"announcing", "receiving whole", "whole in place"} => a \notin sweep'.taking
    BY <1>1, <1>2, <1>5 DEF IdOf
  <1> QED
    BY <1>3, <1>4, <1>5 DEF IdOf

(* A step that ends a request, and changes nothing of the place.           *)
LEMMA IdOfEnding ==
    ASSUME NEW a \in Attachments, IdOf(a), handler \in [Handlers -> Steps], NEW p \in Handlers, Goes(p, Idle),
           attached'[a] = attached[a] \/ ((Names(handler[p], a) \/ attached[a] \notin {"new", "named"})
                                         /\ attached'[a] \notin {"new", "named"}),
           disk'[a] = disk[a] \/ (handler[p].at = "moved" /\ handler[p].to = a), sweep'.taking = sweep.taking
    PROVE  IdOf(a)'
  <1>1. handler'[p] = Idle /\ \A q \in Handlers : q # p => handler'[q] = handler[q]
    BY OthersStay
  <1>2. ~Names(handler'[p], a) /\ ~Brings(handler'[p], a)
    BY <1>1, MadeNames
  <1>3. attached'[a] = "new" => Unused(a)' /\ \A q \in Handlers : ~Brings(handler'[q], a)
    BY <1>1, <1>2 DEF IdOf, Unused, Names
  <1>4. \A q \in Handlers : Brings(handler'[q], a) => attached'[a] \notin {"new", "named"}
    BY <1>1, <1>2 DEF IdOf
  <1>5. ASSUME NEW q \in Handlers, Names(handler'[q], a)
        PROVE  /\ attached'[a] = "named"
               /\ \A r \in Handlers : Names(handler'[r], a) => r = q
               /\ handler'[q].at \in {"announcing", "receiving whole", "taking"} => disk'[a] = "none"
               /\ handler'[q].at = "whole in place" => disk'[a] = "young"
               /\ handler'[q].at \in {"announcing", "receiving whole", "whole in place"} => a \notin sweep'.taking
    <2>1. q # p /\ handler'[q] = handler[q] /\ Names(handler[q], a)
      BY <1>1, <1>2, <1>5
    <2>2. attached[a] = "named" /\ ~Names(handler[p], a)
      BY <2>1 DEF IdOf
    <2>3. disk'[a] = disk[a] /\ attached'[a] = attached[a]
      BY <2>2 DEF Names
    <2> QED
      BY <1>1, <1>2, <2>1, <2>2, <2>3 DEF IdOf
  <1> QED
    BY <1>3, <1>4, <1>5 DEF IdOf

LEMMA IdOfClient ==
    ASSUME FilesTyped, NEW p \in Handlers, Client(p), NEW a \in Attachments, IdOf(a)
    PROVE  IdOf(a)'
  <1>t. /\ handler \in [Handlers -> Steps] /\ handler[p] \in Steps /\ Shape(handler[p])
        /\ attached \in [Attachments -> {"new", "named", "announced", "uploaded", "taken", "gone"}]
        /\ disk \in [Files -> {"none", "young", "old"}]
    BY Shapes DEF FilesTyped
  <1>a. a \in Files /\ a \notin Sends /\ a \notin RequestFiles
    BY PlacesAssumption DEF Files
  <1>k. Leaves(a) => IdOf(a)'
    BY IdKept
  <1>o. ASSUME NEW step, Goes(p, step) PROVE handler'[p] = step /\ \A q \in Handlers : q # p => handler'[q] = handler[q]
    BY <1>o, <1>t, OthersStay
  <1>i. IdOf(a)
    OBVIOUS
  <1>l. ASSUME a \notin Concerns(handler[p]), a \notin Concerns(handler'[p]), handler[p].at \notin {"removing", "starting"}
        PROVE  IdOf(a)'
    BY <1>l, <1>a, <1>k, ClientLeaves
  <1>e. ASSUME Goes(p, Idle), attached'[a] = attached[a] \/ ((Names(handler[p], a) \/ attached[a] \notin {"new", "named"})
                                         /\ attached'[a] \notin {"new", "named"}),
               disk'[a] = disk[a] \/ (handler[p].at = "moved" /\ handler[p].to = a), sweep' = sweep
        PROVE  IdOf(a)'
    <2>2. sweep'.taking = sweep.taking
      BY <1>e
    <2> QED
      BY <1>e, <1>i, <1>t, <2>2, IdOfEnding
  <1>1. CASE SendStep(p) \/ RequestStep(p)
    BY <1>1, <1>a, <1>k, StepsLeave
  (* The id is made. *)
  <1>2. ASSUME NEW b \in Attachments, NEW step, handler[p] = Idle, attached[b] = "new",
               attached' = [attached EXCEPT ![b] = "named"], Goes(p, step), disk' = disk, sweep' = sweep,
               Names(step, b), step.at \in {"announcing", "receiving whole", "taking"},
               Concerns(step) \cap Attachments = {b}
        PROVE  IdOf(a)'
    <2>1. handler'[p] = step /\ \A q \in Handlers : q # p => handler'[q] = handler[q]
      BY <1>2, <1>o
    <2>2. CASE a # b
      <3>1. a \notin Concerns(handler[p]) /\ a \notin Concerns(handler'[p])
        BY <1>2, <2>1, <2>2, MadeConcerns
      <3>2. handler[p].at \notin {"removing", "starting"}
        BY <1>2, MadeNames
      <3> QED
        BY <3>1, <3>2, <1>l
    <2>3. CASE a = b
      <3>1. attached[a] = "new" /\ attached'[a] = "named"
        BY <1>2, <2>3, <1>t
      <3>2. Unused(a) /\ \A q \in Handlers : ~Brings(handler[q], a)
        BY <3>1, <1>i DEF IdOf
      <3>3. \A q \in Handlers : ~Names(handler[q], a)
        BY <3>1, <1>i DEF IdOf
      <3>4. disk'[a] = "none" /\ a \notin sweep'.taking
        BY <1>2, <3>2 DEF Unused
      <3>5. ~Brings(handler'[p], a)
        BY <1>2, <2>1 DEF Brings
      <3>6. \A q \in Handlers : ~Brings(handler'[q], a)
        BY <3>2, <3>5, <2>1
      <3>7. \A q \in Handlers : Names(handler'[q], a) => q = p
        BY <3>3, <2>1
      <3>8. handler'[p].at # "whole in place"
        BY <1>2, <2>1
      <3> QED
        BY <3>1, <3>4, <3>6, <3>7, <3>8 DEF IdOf
    <2> QED
      BY <2>2, <2>3
  <1>3. CASE Announce(p)
    <2>1. PICK b \in Attachments : New(b) /\ Goes(p, [at |-> "announcing", file |-> b])
      BY <1>3 DEF Announce
    <2>2. Names([at |-> "announcing", file |-> b], b)
      BY DEF Names
    <2>3. Concerns([at |-> "announcing", file |-> b]) = {b}
      BY MadeConcerns
    <2> QED
      BY <1>3, <2>1, <2>2, <2>3, <1>2 DEF Announce, New
  <1>4. CASE UploadLegacy(p)
    <2>1. PICK b \in Attachments : New(b) /\ Goes(p, [at |-> "receiving whole", file |-> b])
      BY <1>4 DEF UploadLegacy
    <2>2. Names([at |-> "receiving whole", file |-> b], b)
      BY DEF Names
    <2>3. Concerns([at |-> "receiving whole", file |-> b]) = {b}
      BY MadeConcerns
    <2> QED
      BY <1>4, <2>1, <2>2, <2>3, <1>2 DEF UploadLegacy, New
  <1>5. CASE Attach(p)
    <2>1. PICK s \in Submissions :
             \E f \in FilesOf[s], b \in Attachments : New(b) /\ Goes(p, [at |-> "taking", file |-> f, to |-> b])
      BY <1>5 DEF Attach
    <2>2. PICK f \in RequestFiles, b \in Attachments : New(b) /\ Goes(p, [at |-> "taking", file |-> f, to |-> b])
      BY <2>1, FilesOfAssumption
    <2>3. Names([at |-> "taking", file |-> f, to |-> b], b)
      BY DEF Names
    <2>4. Concerns([at |-> "taking", file |-> f, to |-> b]) = {f, b}
      BY MadeConcerns
    <2>5. Concerns([at |-> "taking", file |-> f, to |-> b]) \cap Attachments = {b}
      BY <2>4, PlacesAssumption
    <2> QED
      BY <1>5, <2>2, <2>3, <2>5, <1>2 DEF Attach, New
  <1>6. CASE AnnouncedAttachment(p) \/ AddLegacy(p)
    <2>1. handler[p].file \in Attachments /\ Names(handler[p], handler[p].file)
      BY <1>6, <1>t DEF AnnouncedAttachment, AddLegacy, Names, Shape
    <2>2. attached'[a] = attached[a] \/ (a = handler[p].file /\ attached'[a] \notin {"new", "named"})
      BY <1>6, <1>t DEF AnnouncedAttachment, AddLegacy, AddAttachment
    <2> QED
      BY <1>6, <2>1, <2>2, <1>e DEF AnnouncedAttachment, AddLegacy, AddAttachment
  <1>7. CASE AttachmentUploaded(p)
    <2>1. attached'[a] = attached[a] \/ (attached[a] = "announced" /\ attached'[a] = "uploaded")
      BY <1>7, <1>t DEF AttachmentUploaded
    <2> QED
      BY <1>7, <2>1, <1>e DEF AttachmentUploaded
  <1>8. CASE UploadAttachment(p)
    <2>1. PICK b \in Attachments : attached[b] = "announced" /\ Goes(p, [at |-> "receiving", file |-> b])
      BY <1>8 DEF UploadAttachment
    <2>2. handler'[p] = [at |-> "receiving", file |-> b] /\ \A q \in Handlers : q # p => handler'[q] = handler[q]
      BY <2>1, <1>o
    <2>3. CASE a # b
      <3>1. a \notin Concerns(handler'[p])
        BY <2>2, <2>3, MadeConcerns
      <3>2. a \notin Concerns(handler[p])
        BY <1>8, MadeConcerns DEF UploadAttachment
      <3>3. handler[p].at \notin {"removing", "starting"}
        BY <1>8 DEF UploadAttachment, Idle
      <3> QED
        BY <3>1, <3>2, <3>3, <1>l
    <2>4. CASE a = b
      <3>1. attached' = attached /\ attached[a] = "announced"
        BY <1>8, <2>1, <2>4 DEF UploadAttachment, rows
      <3>2. \A q \in Handlers : ~Names(handler[q], a)
        BY <3>1, <1>i DEF IdOf
      <3>3. ~Names(handler'[p], a)
        BY <2>2 DEF Names
      <3>4. \A q \in Handlers : ~Names(handler'[q], a)
        BY <3>2, <3>3, <2>2
      <3> QED
        BY <3>1, <3>4 DEF IdOf
    <2> QED
      BY <2>3, <2>4
  <1>9. CASE KeepLegacy(p)
    <2>1. /\ handler[p].at = "receiving whole" /\ handler[p].file \in Attachments
          /\ disk[handler[p].file] = "none" /\ disk' = [disk EXCEPT ![handler[p].file] = "young"]
          /\ attached' = attached /\ sweep' = sweep
      BY <1>9, <1>t DEF KeepLegacy, Keep, rows, Shape
    <2>2. handler'[p] = [at |-> "whole in place", file |-> handler[p].file]
      BY <1>9, KeepingSteps
    <2>3. \A q \in Handlers : q # p => handler'[q] = handler[q]
      BY <1>9, KeepingSteps
    <2>4. CASE a # handler[p].file
      <3>1. a \notin Concerns(handler'[p]) /\ a \notin Concerns(handler[p])
        <4>1. Concerns(handler[p]) = {handler[p].file}
          BY <1>9, KeepingSteps
        <4>2. Concerns(handler'[p]) = Concerns(handler[p])
          BY <1>9, KeepingSteps
        <4> QED
          BY <4>1, <4>2, <2>4
      <3> QED
        BY <3>1, <2>1, <1>l
    <2>5. CASE a = handler[p].file
      <3>1. Names(handler[p], a)
        BY <2>1, <2>5 DEF Names
      <3>2. attached[a] = "named" /\ a \notin sweep.taking /\ \A q \in Handlers : Names(handler[q], a) => q = p
        BY <3>1, <2>1, <1>i DEF IdOf
      <3>3. disk'[a] = "young"
        BY <2>1, <2>5, <1>a, <1>t
      <3>4. \A q \in Handlers : ~Brings(handler[q], a)
        BY <3>2, <1>i DEF IdOf
      <3>5. ~Brings(handler'[p], a) /\ handler'[p].at = "whole in place"
        BY <2>2, MadeNames
      <3>6. \A q \in Handlers : ~Brings(handler'[q], a)
        BY <3>4, <3>5, <2>3
      <3>7. \A q \in Handlers : Names(handler'[q], a) => q = p
        BY <3>2, <2>3
      <3> QED
        BY <3>2, <3>3, <3>5, <3>6, <3>7, <2>1 DEF IdOf
    <2> QED
      BY <2>4, <2>5
  <1>10. CASE MoveFile(p)
    <2>1. /\ handler[p].at = "taking" /\ handler[p].file \in RequestFiles /\ handler[p].to \in Attachments
          /\ attached' = attached /\ sweep' = sweep
      BY <1>10, <1>t DEF MoveFile, rows, Shape
    <2>2. handler'[p] = [at |-> "moved", file |-> handler[p].file, to |-> handler[p].to]
      BY <1>10, KeepingSteps
    <2>3. \A q \in Handlers : q # p => handler'[q] = handler[q]
      BY <1>10, KeepingSteps
    <2>4. CASE a # handler[p].to
      <3>1. a \notin Concerns(handler'[p]) /\ a \notin Concerns(handler[p])
        <4>1. Concerns(handler[p]) = {handler[p].file, handler[p].to}
              /\ Concerns(handler'[p]) = Concerns(handler[p])
          BY <1>10, KeepingSteps
        <4> QED
          BY <4>1, <2>1, <2>4, <1>a
      <3> QED
        BY <3>1, <2>1, <1>l
    <2>5. CASE a = handler[p].to
      <3>1. Names(handler[p], a)
        BY <2>1, <2>5 DEF Names
      <3>2. attached[a] = "named" /\ \A q \in Handlers : Names(handler[q], a) => q = p
        BY <3>1, <1>i DEF IdOf
      <3>4. \A q \in Handlers : ~Brings(handler[q], a)
        BY <3>2, <1>i DEF IdOf
      <3>3. [at |-> "moved", file |-> handler[p].file, to |-> handler[p].to].at = "moved"
        OBVIOUS
      <3>5. ~Brings(handler'[p], a) /\ handler'[p].at = "moved"
        BY <2>2, <3>3, MadeNames
      <3>6. \A q \in Handlers : ~Brings(handler'[q], a)
        BY <3>4, <3>5, <2>3
      <3>7. \A q \in Handlers : Names(handler'[q], a) => q = p
        BY <3>2, <2>3
      <3> QED
        BY <3>2, <3>5, <3>6, <3>7, <2>1 DEF IdOf
    <2> QED
      BY <2>4, <2>5
  <1>11. CASE TakeRequestFile(p)
    <2>1. /\ handler[p].at = "moved" /\ handler[p].to \in Attachments
          /\ attached' = [attached EXCEPT ![handler[p].to] = "taken"]
      BY <1>11, <1>t DEF TakeRequestFile, Shape
    <2>2. attached'[a] = attached[a] \/ (Names(handler[p], a) /\ attached'[a] \notin {"new", "named"})
      BY <2>1, <1>t DEF Names
    <2> QED
      BY <1>11, <2>2, <1>e DEF TakeRequestFile
  <1>12. CASE MoveBack(p)
    <2>1. /\ handler[p].at = "moved" /\ handler[p].to \in Attachments /\ handler[p].file \in RequestFiles
          /\ attached' = attached /\ sweep' = sweep /\ Goes(p, Idle)
      BY <1>12, <1>t DEF MoveBack, Shape, rows
    <2>2. disk'[a] = disk[a] \/ handler[p].to = a
      BY <1>12, <2>1, <1>t, <1>a DEF MoveBack
    <2> QED
      BY <2>1, <2>2, <1>e
  <1>13. CASE KeepFile(p)
    <2>1. /\ handler[p].at = "receiving" /\ handler[p].file \in Files
          /\ attached' = attached
      BY <1>13, <1>t DEF KeepFile, rows, Shape
    <2>2. handler'[p] = [at |-> "in place", file |-> handler[p].file]
      BY <1>13, KeepingSteps
    <2>3. \A q \in Handlers : q # p => handler'[q] = handler[q]
      BY <1>13, KeepingSteps
    <2>4. CASE a # handler[p].file
      <3>1. a \notin Concerns(handler'[p]) /\ a \notin Concerns(handler[p])
        BY <1>13, <2>1, <2>4, <1>a, KeepingSteps
      <3> QED
        BY <3>1, <2>1, <1>l
    <2>5. CASE a = handler[p].file
      <3>1. Brings(handler[p], a)
        BY <2>1, <2>5 DEF Brings
      <3>2. attached[a] \notin {"new", "named"}
        BY <3>1, <1>i DEF IdOf
      <3>3. \A q \in Handlers : ~Names(handler[q], a)
        BY <3>2, <1>i DEF IdOf
      <3>4. ~Names(handler'[p], a)
        BY <2>2, MadeNames
      <3>5. \A q \in Handlers : ~Names(handler'[q], a)
        BY <3>3, <3>4, <2>3
      <3> QED
        BY <3>2, <3>5, <2>1 DEF IdOf
    <2> QED
      BY <2>4, <2>5
  <1>14. CASE GiveUp(p)
    BY <1>14, <1>e DEF GiveUp, rows
  <1> QED
    BY <1>1, <1>3, <1>4, <1>5, <1>6, <1>7, <1>8, <1>9, <1>10, <1>11, <1>12, <1>13, <1>14
    DEF Client, SendStep, RequestStep

LEMMA IdsNext ==
    ASSUME FilesTyped, Ids, Removing, [Next]_vars
    PROVE  Ids'
  <1> SUFFICES ASSUME NEW a \in Attachments PROVE IdOf(a)'
    BY DEF Ids
  <1>t. /\ handler \in [Handlers -> Steps] /\ disk \in [Files -> {"none", "young", "old"}]
        /\ attached \in [Attachments -> {"new", "named", "announced", "uploaded", "taken", "gone"}]
    BY DEF FilesTyped
  <1>a. a \in Files /\ a \notin Sends /\ a \notin RequestFiles
    BY PlacesAssumption DEF Files
  <1>i. IdOf(a)
    BY DEF Ids
  <1>k. Leaves(a) => IdOf(a)'
    BY <1>i, IdKept
  (* The requests stay where they are, and the row goes. *)
  <1>g. ASSUME attached[a] \notin {"new", "named"}, attached'[a] \notin {"new", "named"}, handler' = handler
        PROVE  IdOf(a)'
    BY <1>g, <1>i DEF IdOf
  <1>1. ASSUME NEW p \in Handlers, Client(p) PROVE IdOf(a)'
    BY <1>1, <1>i, IdOfClient
  <1>2. ASSUME NEW b \in Attachments, DeleteAttachment(b) PROVE IdOf(a)'
    <2>1. CASE a # b
      BY <1>2, <2>1, <1>a, <1>k, OthersLeave
    <2>2. CASE a = b
      BY <1>2, <2>2, <1>t, <1>g DEF DeleteAttachment, OnItem
    <2> QED
      BY <2>1, <2>2
  <1>3. ASSUME NEW s \in Sends, DeleteSend(s) PROVE IdOf(a)'
    BY <1>3, <1>a, <1>k, OthersLeave
  <1>4. CASE \/ \E s \in Submissions : CompleteSubmission(s)
             \/ DeleteItem \/ CreateRequest \/ UpdateRequest \/ SweepFileRequests \/ SweepEnds \/ RunsOut
             \/ UNCHANGED vars \/ \E f \in Files : AWeekAfter(f)
    BY <1>4, <1>a, <1>k, OthersLeave
  <1>5. CASE SweepRows
    <2>1. \/ attached'[a] = attached[a]
          \/ attached[a] = "announced" /\ attached'[a] = "gone"
      BY <1>5 DEF SweepRows
    <2>2. disk' = disk /\ handler' = handler /\ sweep'.taking = {}
      BY <1>5 DEF SweepRows
    <2>3. CASE attached'[a] = attached[a]
      BY <2>2, <2>3, <1>k, <1>a, <1>5 DEF Leaves, IdOf, SweepRows
    <2> QED
      BY <2>1, <2>2, <2>3, <1>g
  <1>6. CASE SweepTakes
    <2>1. CASE a \notin sweep.taking
      BY <1>6, <2>1, <1>a, <1>k, OthersLeave
    <2>2. CASE a \in sweep.taking
      <3>1. attached' = attached /\ handler' = handler
        BY <1>6 DEF SweepTakes, rows
      <3>2. attached[a] # "new" /\ \A p \in Handlers : Names(handler[p], a) => handler[p].at \in {"taking", "moved"}
        BY <2>2, <1>i DEF IdOf, Unused, Names
      <3>3. disk'[a] = disk[a] \/ disk'[a] = "none"
        BY <1>6, <1>a, <1>t DEF SweepTakes
      <3> QED
        BY <3>1, <3>2, <3>3, <1>i DEF IdOf
    <2> QED
      BY <2>1, <2>2
  <1>7. CASE SweepRemoves
    <2>1. a \notin sweep.todo
      BY <1>7, <1>a DEF SweepRemoves, Removing
    <2> QED
      BY <1>7, <2>1, <1>a, <1>k, OthersLeave
  <1>8. ASSUME NEW f \in Files, SweepLooks(f) PROVE IdOf(a)'
    <2>1. CASE ~(a = f /\ Orphan(a))
      BY <1>8, <2>1, <1>a, <1>k, OthersLeave
    <2>2. CASE Orphan(a)
      <3>1. disk[a] = "old" /\ disk' = disk /\ attached' = attached /\ handler' = handler
        BY <1>8, <2>2 DEF Orphan, SweepLooks, rows
      <3>2. attached[a] # "new" /\ \A p \in Handlers : Names(handler[p], a) => handler[p].at = "moved"
        BY <3>1, <1>i DEF IdOf, Unused, Names
      <3> QED
        BY <3>1, <3>2, <1>i DEF IdOf
    <2> QED
      BY <2>1, <2>2
  <1>9. CASE Crash
    <2>1. handler' = [p \in Handlers |-> Idle] /\ attached' = attached /\ disk' = disk /\ sweep'.taking = {}
      BY <1>9 DEF Crash, rows, NotSweeping
    <2>2. \A q \in Handlers : ~Names(handler'[q], a) /\ ~Brings(handler'[q], a)
      BY <2>1, MadeNames
    <2> QED
      BY <2>1, <2>2, <1>i DEF IdOf, Unused
  <1>10. ASSUME NEW f \in Files, Ages(f) PROVE IdOf(a)'
    <2>1. CASE a # f
      BY <1>10, <2>1, <1>a, <1>k, OthersLeave
    <2>2. CASE a = f
      <3>1. disk[a] = "young" /\ handler' = handler /\ attached' = attached
        BY <1>10, <2>2 DEF Ages, rows
      <3>2. \A p \in Handlers : ~Names(handler[p], a)
        <4>1. ASSUME NEW p \in Handlers, Names(handler[p], a) PROVE FALSE
          <5>1. handler[p].at \in {"whole in place", "moved"}
            BY <3>1, <4>1, <1>i DEF IdOf, Names
          <5>2. CASE handler[p].at = "whole in place"
            BY <1>10, <2>2, <4>1, <5>2 DEF Ages, Busy, Names
          <5>3. CASE handler[p].at = "moved"
            BY <1>10, <2>2, <4>1, <5>3 DEF Ages, Names
          <5> QED
            BY <5>1, <5>2, <5>3
        <4> QED
          BY <4>1
      <3>3. attached[a] # "new"
        BY <3>1, <1>i DEF IdOf, Unused
      <3> QED
        BY <3>1, <3>2, <3>3, <1>i DEF IdOf
    <2> QED
      BY <2>1, <2>2
  <1> QED
    BY <1>1, <1>2, <1>3, <1>4, <1>5, <1>6, <1>7, <1>8, <1>9, <1>10 DEF Next, Sweeping

(***************************************************************************)
(* Attachments                                                             *)
(***************************************************************************)
LEMMA BusyBut ==
    ASSUME NEW f, NEW at, NEW p \in Handlers, \A q \in Handlers : q # p => handler'[q] = handler[q],
           ~(handler[p].at \in at /\ handler[p].file = f), ~(handler'[p].at \in at /\ handler'[p].file = f)
    PROVE  Busy(at, f)' <=> Busy(at, f)
  BY DEF Busy

LEMMA FieldsOf ==
    ASSUME NEW at, NEW f
    PROVE  [at |-> at, file |-> f].at = at /\ [at |-> at, file |-> f].file = f
  OBVIOUS

LEMMA BusyIs ==
    ASSUME NEW f, NEW at, NEW p \in Handlers, handler'[p] = [at |-> at, file |-> f]
    PROVE  Busy({at}, f)'
  <1>1. handler'[p].at = at /\ handler'[p].file = f
    BY FieldsOf
  <1> QED
    BY <1>1 DEF Busy

LEMMA BusyKept ==
    ASSUME NEW f, Leaves(f)
    PROVE  /\ Busy({"in place"}, f)' <=> Busy({"in place"}, f)
           /\ Busy({"moved"}, f)' <=> Busy({"moved"}, f)
  <1>1. \A h : h.at \in {"in place"} /\ h.file = f => f \in Concerns(h)
    BY DEF Concerns
  <1>2. \A h : h.at \in {"moved"} /\ h.file = f => f \in Concerns(h)
    BY DEF Concerns
  <1>3. \A q \in Handlers : \/ handler'[q] = handler[q]
                            \/ f \notin Concerns(handler[q]) /\ f \notin Concerns(handler'[q])
    BY DEF Leaves
  <1>4. Busy({"in place"}, f)' <=> Busy({"in place"}, f)
    BY <1>1, <1>3 DEF Busy
  <1>5. Busy({"moved"}, f)' <=> Busy({"moved"}, f)
    BY <1>2, <1>3 DEF Busy
  <1> QED
    BY <1>4, <1>5

LEMMA ItemGoes ==
    ASSUME [Next]_vars
    PROVE  item' => item
  <1>1. ASSUME NEW p \in Handlers, AttachmentStep(p) PROVE item' = item
    BY <1>1 DEF AttachmentStep, Announce, AnnouncedAttachment, AddAttachment, UploadAttachment, AttachmentUploaded,
       UploadLegacy, KeepLegacy, AddLegacy, rows
  <1>2. ASSUME NEW p \in Handlers, SendStep(p) PROVE item' = item
    BY <1>2 DEF SendStep, CreateFile, SaveNewSend, SaveSend, UploadSend, SendFileUploaded, ReadSend, UpdateSend,
         AccessFile, RegisterSendAccess, rows
  <1>3. ASSUME NEW p \in Handlers, RequestStep(p) PROVE item' = item
    BY <1>3 DEF RequestStep, OpenRequest, StartSubmission, UploadPart, RequestFileUploaded,
         RemoveSubmission, RemoveRequest, RemoveFile, rows
  <1>4. ASSUME NEW p \in Handlers, TakingStep(p) \/ KeepFile(p) \/ GiveUp(p) PROVE item' = item
    BY <1>4 DEF TakingStep, Attach, MoveFile, TakeRequestFile, MoveBack, KeepFile, GiveUp, rows
  <1>5. ASSUME NEW p \in Handlers, Client(p) PROVE item' = item
    BY <1>1, <1>2, <1>3, <1>4, <1>5 DEF Client, AttachmentStep, SendStep, RequestStep, TakingStep
  <1>6. CASE (\E a \in Attachments : DeleteAttachment(a)) \/ (\E s \in Sends : DeleteSend(s))
             \/ (\E s \in Submissions : CompleteSubmission(s))
             \/ DeleteItem \/ CreateRequest \/ UpdateRequest \/ Crash \/ RunsOut \/ UNCHANGED vars
    BY <1>6 DEF DeleteAttachment, DeleteSend, CompleteSubmission, DeleteItem, CreateRequest, UpdateRequest, Crash,
       RunsOut, vars, rows
  <1>7. CASE Sweeping \/ (\E f \in Files : Ages(f) \/ AWeekAfter(f))
    BY <1>7 DEF Sweeping, SweepRows, SweepTakes, SweepFileRequests, SweepRemoves, SweepEnds, SweepLooks, Ages,
       AWeekAfter, rows
  <1> QED
    BY <1>5, <1>6, <1>7 DEF Next

LEMMA AttachmentKept ==
    ASSUME NEW a \in Attachments, AttachmentOf(a), item' => item, attached'[a] = attached[a], disk'[a] = disk[a],
           a \in sweep'.taking => a \in sweep.taking, a \in cut => a \in cut',
           Busy({"in place"}, a)' <=> Busy({"in place"}, a)
    PROVE  AttachmentOf(a)'
  BY DEF AttachmentOf, Here, Waiting

LEMMA AttachmentClient ==
    ASSUME FilesTyped, NEW p \in Handlers, Client(p), item' => item, NEW a \in Attachments, IdOf(a), AttachmentOf(a)
    PROVE  AttachmentOf(a)'
  <1>t. /\ handler \in [Handlers -> Steps] /\ handler[p] \in Steps /\ Shape(handler[p])
        /\ attached \in [Attachments -> {"new", "named", "announced", "uploaded", "taken", "gone"}]
        /\ disk \in [Files -> {"none", "young", "old"}]
    BY Shapes DEF FilesTyped
  <1>a. a \in Files /\ a \notin Sends /\ a \notin RequestFiles
    BY PlacesAssumption DEF Files
  <1>i. IdOf(a) /\ AttachmentOf(a) /\ (item' => item)
    OBVIOUS
  <1>k. Leaves(a) => AttachmentOf(a)'
    BY <1>i, AttachmentKept, BusyKept DEF Leaves
  <1>o. ASSUME NEW step, Goes(p, step) PROVE handler'[p] = step /\ \A q \in Handlers : q # p => handler'[q] = handler[q]
    BY <1>o, <1>t, OthersStay
  <1>v. attached'[a] \notin {"announced", "uploaded"} => AttachmentOf(a)'
    BY DEF AttachmentOf, Here, Waiting
  <1>1. CASE SendStep(p) \/ RequestStep(p)
    BY <1>1, <1>a, <1>k, StepsLeave
  <1>2. CASE Announce(p) \/ UploadLegacy(p) \/ Attach(p) \/ UploadAttachment(p)
    <2>1. /\ handler[p] = Idle /\ disk' = disk /\ sweep' = sweep /\ cut' = cut
          /\ attached' = attached \/ \E b \in Attachments : attached' = [attached EXCEPT ![b] = "named"]
      BY <1>2 DEF Announce, UploadLegacy, Attach, UploadAttachment, New, rows, ghosts
    <2>2. attached'[a] = attached[a] \/ attached'[a] = "named"
      BY <2>1, <1>t
    <2>5. handler'[p].at \in {"announcing", "receiving whole", "receiving", "taking"} /\ \E step : Goes(p, step)
      <3>1. CASE Attach(p)
        <4>1. PICK s \in Submissions : \E f \in FilesOf[s], b \in Attachments : Goes(p, [at |-> "taking", file |-> f, to |-> b])
          BY <3>1 DEF Attach
        <4>2. PICK f, b : Goes(p, [at |-> "taking", file |-> f, to |-> b])
          BY <4>1
        <4>3. handler'[p] = [at |-> "taking", file |-> f, to |-> b]
          BY <4>2, <1>o
        <4> QED
          BY <4>2, <4>3
      <3>2. CASE Announce(p) \/ UploadLegacy(p) \/ UploadAttachment(p)
        <4>1. PICK b \in Attachments, at \in {"announcing", "receiving whole", "receiving"} : Goes(p, [at |-> at, file |-> b])
          BY <3>2 DEF Announce, UploadLegacy, UploadAttachment
        <4>2. handler'[p] = [at |-> at, file |-> b]
          BY <4>1, <1>o
        <4>3. [at |-> at, file |-> b].at = at
          OBVIOUS
        <4> QED
          BY <4>1, <4>2, <4>3
      <3> QED
        BY <1>2, <3>1, <3>2
    <2>6. handler[p].at = "idle" /\ \A q \in Handlers : q # p => handler'[q] = handler[q]
      BY <2>1, <2>5, <1>o, MadeNames
    <2>4. Busy({"in place"}, a)' <=> Busy({"in place"}, a)
      BY <2>5, <2>6, BusyBut
    <2> QED
      BY <2>1, <2>2, <2>4, <1>i, <1>v, AttachmentKept
  <1>3. CASE AnnouncedAttachment(p) \/ AddLegacy(p)
    <2>1. /\ handler[p].at \in {"announcing", "whole in place"} /\ handler[p].file \in Attachments
          /\ disk' = disk /\ sweep' = sweep /\ cut' = cut /\ item' = item /\ Goes(p, Idle)
      BY <1>3, <1>t DEF AnnouncedAttachment, AddLegacy, AddAttachment, Shape, ghosts
    <2>2. Busy({"in place"}, a)' <=> Busy({"in place"}, a)
      <3>1. handler'[p].at = "idle" /\ \A q \in Handlers : q # p => handler'[q] = handler[q]
        BY <2>1, <1>o, MadeNames
      <3> QED
        BY <2>1, <3>1, BusyBut
    <2>3. CASE attached'[a] = attached[a]
      BY <2>1, <2>2, <2>3, <1>i, AttachmentKept
    <2>4. CASE attached'[a] # attached[a]
      <3>1. a = handler[p].file
        BY <1>3, <2>4, <1>t DEF AnnouncedAttachment, AddLegacy, AddAttachment
      <3>2. Names(handler[p], a)
        BY <2>1, <3>1 DEF Names
      <3>3. a \notin sweep.taking /\ attached[a] = "named"
        BY <2>1, <3>2, <1>i DEF IdOf
      <3>4. ~Busy({"in place"}, a)
        BY <3>3, <1>i DEF IdOf, Brings, Busy
      <3>5. CASE AnnouncedAttachment(p)
        <4>1. disk[a] = "none" /\ attached'[a] = "announced"
          BY <2>4, <3>1, <3>2, <3>5, <1>i, <1>t DEF IdOf, AnnouncedAttachment, AddAttachment
        <4> QED
          BY <4>1, <3>3, <3>4, <2>1, <2>2 DEF AttachmentOf, Here, Waiting
      <3>6. CASE AddLegacy(p)
        <4>1. disk[a] = "young" /\ attached'[a] = "uploaded"
          BY <2>4, <3>1, <3>2, <3>6, <1>i, <1>t DEF IdOf, AddLegacy, AddAttachment
        <4> QED
          BY <4>1, <3>3, <3>4, <2>1, <2>2 DEF AttachmentOf, Here, Waiting
      <3> QED
        BY <1>3, <3>5, <3>6
    <2> QED
      BY <2>3, <2>4
  <1>4. CASE AttachmentUploaded(p)
    <2>1. /\ handler[p].at = "in place" /\ handler[p].file \in Attachments
          /\ disk' = disk /\ sweep' = sweep /\ cut' = cut /\ item' = item /\ Goes(p, Idle)
      BY <1>4, <1>t DEF AttachmentUploaded, Shape, ghosts
    <2>2. handler'[p] = Idle /\ \A q \in Handlers : q # p => handler'[q] = handler[q]
      BY <2>1, <1>o
    <2>3. CASE handler[p].file # a
      <3>1. attached'[a] = attached[a]
        BY <1>4, <2>3, <1>t DEF AttachmentUploaded
      <3>2. Busy({"in place"}, a)' <=> Busy({"in place"}, a)
        BY <2>2, <2>3, MadeNames DEF Busy
      <3> QED
        BY <3>1, <3>2, <2>1, <1>i, AttachmentKept
    <2>4. CASE handler[p].file = a
      <3>1. Busy({"in place"}, a)
        BY <2>1, <2>4 DEF Busy
      <3>2. CASE Waiting(a)
        <4>1. attached'[a] = "uploaded"
          BY <1>4, <2>4, <3>2, <1>t DEF AttachmentUploaded, Waiting
        <4>2. disk[a] # "none" /\ a \notin sweep.taking
          BY <3>1, <3>2, <1>i DEF AttachmentOf
        <4> QED
          BY <4>1, <4>2, <2>1 DEF AttachmentOf, Here, Waiting
      <3>3. CASE ~Waiting(a)
        <4>1. attached' = attached
          BY <1>4, <2>4, <3>3 DEF AttachmentUploaded, Waiting
        <4> QED
          BY <4>1, <3>3, <2>1, <1>i DEF AttachmentOf, Here, Waiting
      <3> QED
        BY <3>2, <3>3
    <2> QED
      BY <2>3, <2>4
  <1>5. CASE KeepLegacy(p)
    <2>1. /\ handler[p].file \in Attachments /\ attached' = attached /\ sweep' = sweep /\ cut' = cut
          /\ handler[p].at = "receiving whole" /\ disk' = [disk EXCEPT ![handler[p].file] = "young"]
      BY <1>5, <1>t DEF KeepLegacy, Keep, Shape, rows, ghosts
    <2>2. CASE a = handler[p].file
      <3>1. attached[a] = "named"
        BY <2>1, <2>2, <1>i DEF IdOf, Names
      <3> QED
        BY <3>1, <2>1, <1>v
    <2>3. CASE a # handler[p].file
      <3>1. a \notin Concerns(handler[p]) /\ Concerns(handler'[p]) = Concerns(handler[p])
        BY <1>5, <2>3, KeepingSteps
      <3> QED
        BY <3>1, <2>1, <1>k, <1>a, ClientLeaves
    <2> QED
      BY <2>2, <2>3
  <1>6. CASE KeepFile(p)
    <2>1. /\ handler[p].file \in Files /\ attached' = attached /\ sweep' = sweep /\ cut' = cut /\ item' = item
          /\ handler[p].at = "receiving" /\ disk' = [disk EXCEPT ![handler[p].file] = "young"]
      BY <1>6, <1>t DEF KeepFile, Keep, Shape, rows, ghosts
    <2>2. CASE a = handler[p].file
      <3>1. disk'[a] = "young"
        BY <2>1, <2>2, <1>t
      <3>2. handler'[p] = [at |-> "in place", file |-> a]
        BY <1>6, <2>2, KeepingSteps
      <3>3. Busy({"in place"}, a)'
        BY <3>2, BusyIs
      <3> QED
        BY <3>1, <3>3, <2>1, <1>i DEF AttachmentOf, Here, Waiting
    <2>3. CASE a # handler[p].file
      <3>1. a \notin Concerns(handler[p]) /\ Concerns(handler'[p]) = Concerns(handler[p])
        BY <1>6, <2>3, KeepingSteps
      <3> QED
        BY <3>1, <2>1, <1>k, <1>a, ClientLeaves
    <2> QED
      BY <2>2, <2>3
  <1>7. CASE MoveFile(p) \/ MoveBack(p)
    <2>1. /\ handler[p].file \in RequestFiles /\ handler[p].to \in Attachments
          /\ attached' = attached /\ sweep' = sweep
          /\ handler[p].at \in {"taking", "moved"}
      BY <1>7, <1>t DEF MoveFile, MoveBack, Shape, rows, ghosts
    <2>2. CASE a = handler[p].to
      <3>1. attached[a] = "named"
        BY <2>1, <2>2, <1>i DEF IdOf, Names
      <3> QED
        BY <3>1, <2>1, <1>v
    <2>3. CASE a # handler[p].to
      <3>1. a \notin Concerns(handler[p])
        BY <2>1, <2>3, <1>a DEF Concerns
      <3>2. Concerns(handler'[p]) = Concerns(handler[p]) \/ Concerns(handler'[p]) = {}
        BY <1>7, <1>o, KeepingSteps, MadeConcerns DEF MoveBack
      <3> QED
        BY <3>1, <3>2, <2>1, <1>k, <1>a, ClientLeaves
    <2> QED
      BY <2>2, <2>3
  <1>8. CASE TakeRequestFile(p)
    <2>1. /\ handler[p].at = "moved" /\ disk' = disk /\ sweep' = sweep /\ cut' = cut /\ Goes(p, Idle)
          /\ attached' = [attached EXCEPT ![handler[p].to] = "taken"]
      BY <1>8 DEF TakeRequestFile, ghosts
    <2>2. Busy({"in place"}, a)' <=> Busy({"in place"}, a)
      <3>1. handler'[p].at = "idle" /\ \A q \in Handlers : q # p => handler'[q] = handler[q]
        BY <2>1, <1>o, MadeNames
      <3> QED
        BY <2>1, <3>1, BusyBut
    <2>3. attached'[a] = attached[a] \/ attached'[a] = "taken"
      BY <2>1, <1>t
    <2> QED
      BY <2>1, <2>2, <2>3, <1>i, <1>v, AttachmentKept
  <1>9. CASE GiveUp(p)
    <2>1. /\ attached' = attached /\ disk' = disk /\ sweep' = sweep /\ cut' = cut \cup LeftInPlace(p) /\ Goes(p, Idle)
      BY <1>9 DEF GiveUp, rows
    <2>2. handler'[p] = Idle /\ \A q \in Handlers : q # p => handler'[q] = handler[q]
      BY <2>1, <1>o
    <2>3. Busy({"in place"}, a)' => Busy({"in place"}, a)
      BY <2>2, MadeNames DEF Busy
    <2>4. Busy({"in place"}, a) => Busy({"in place"}, a)' \/ a \in cut'
      BY <2>1, <2>2 DEF Busy, LeftInPlace
    <2> QED
      BY <2>1, <2>3, <2>4, <1>i DEF AttachmentOf, Here, Waiting
  <1> QED
    BY <1>1, <1>2, <1>3, <1>4, <1>5, <1>6, <1>7, <1>8, <1>9 DEF Client, SendStep, RequestStep

LEMMA AttachmentsNext ==
    ASSUME FilesTyped, Ids, AttachmentsInv, Removing, [Next]_vars
    PROVE  AttachmentsInv'
  <1> SUFFICES ASSUME NEW a \in Attachments PROVE AttachmentOf(a)'
    BY DEF AttachmentsInv
  <1>t. /\ handler \in [Handlers -> Steps] /\ disk \in [Files -> {"none", "young", "old"}]
        /\ attached \in [Attachments -> {"new", "named", "announced", "uploaded", "taken", "gone"}]
    BY DEF FilesTyped
  <1>a. a \in Files /\ a \notin Sends /\ a \notin RequestFiles
    BY PlacesAssumption DEF Files
  <1>i. AttachmentOf(a) /\ IdOf(a) /\ (item' => item)
    BY ItemGoes DEF Ids, AttachmentsInv
  <1>k. Leaves(a) => AttachmentOf(a)'
    BY <1>i, AttachmentKept, BusyKept DEF Leaves
  <1>v. attached'[a] \notin {"announced", "uploaded"} => AttachmentOf(a)'
    BY DEF AttachmentOf, Here, Waiting
  <1>h. handler' = handler => (Busy({"in place"}, a)' <=> Busy({"in place"}, a))
    BY DEF Busy
  <1>1. ASSUME NEW p \in Handlers, Client(p) PROVE AttachmentOf(a)'
    BY <1>1, <1>i, AttachmentClient
  <1>2. ASSUME NEW b \in Attachments, DeleteAttachment(b) PROVE AttachmentOf(a)'
    <2>1. CASE a # b
      BY <1>2, <2>1, <1>a, <1>k, OthersLeave
    <2>2. CASE a = b
      BY <1>2, <2>2, <1>t, <1>v DEF DeleteAttachment
    <2> QED
      BY <2>1, <2>2
  <1>3. ASSUME NEW s \in Sends, DeleteSend(s) PROVE AttachmentOf(a)'
    BY <1>3, <1>a, <1>k, OthersLeave
  <1>4. CASE \/ \E s \in Submissions : CompleteSubmission(s)
             \/ DeleteItem \/ CreateRequest \/ UpdateRequest \/ SweepFileRequests \/ SweepEnds \/ RunsOut
             \/ UNCHANGED vars \/ \E f \in Files : AWeekAfter(f)
    BY <1>4, <1>a, <1>k, OthersLeave
  <1>5. CASE SweepRows
    <2>1. attached'[a] = attached[a] \/ attached'[a] = "gone"
      BY <1>5 DEF SweepRows
    <2>2. disk' = disk /\ handler' = handler /\ sweep'.taking = {} /\ cut' = cut
      BY <1>5 DEF SweepRows
    <2> QED
      BY <2>1, <2>2, <1>i, <1>v, <1>h, AttachmentKept
  <1>6. CASE SweepTakes
    <2>1. CASE a \notin sweep.taking
      BY <1>6, <2>1, <1>a, <1>k, OthersLeave
    <2>2. CASE a \in sweep.taking
      <3>1. attached' = attached
        BY <1>6 DEF SweepTakes, rows
      <3>2. ~Waiting(a) /\ ~Here(a)
        BY <2>2, <1>i DEF AttachmentOf
      <3> QED
        BY <3>1, <3>2, <1>i DEF AttachmentOf, Here, Waiting
    <2> QED
      BY <2>1, <2>2
  <1>7. CASE SweepRemoves
    <2>1. a \notin sweep.todo
      BY <1>7, <1>a DEF SweepRemoves, Removing
    <2> QED
      BY <1>7, <2>1, <1>a, <1>k, OthersLeave
  <1>8. ASSUME NEW f \in Files, SweepLooks(f) PROVE AttachmentOf(a)'
    <2>1. CASE ~(a = f /\ Orphan(a))
      BY <1>8, <2>1, <1>a, <1>k, OthersLeave
    <2>2. CASE Orphan(a)
      <3>1. ~OnItem(a) /\ attached' = attached
        BY <1>8, <2>2 DEF Orphan, Claimed, SweepLooks, rows
      <3> QED
        BY <3>1, <1>i DEF OnItem, AttachmentOf, Here, Waiting
    <2> QED
      BY <2>1, <2>2
  <1>9. CASE Crash
    <2>1. /\ handler' = [p \in Handlers |-> Idle] /\ attached' = attached /\ disk' = disk /\ sweep'.taking = {}
          /\ cut' = cut \cup UNION {LeftInPlace(p) : p \in Handlers}
      BY <1>9 DEF Crash, rows, NotSweeping
    <2>2. ~Busy({"in place"}, a)'
      BY <2>1, MadeNames DEF Busy
    <2>3. ASSUME Busy({"in place"}, a) PROVE a \in cut'
      <3>1. PICK p \in Handlers : a \in LeftInPlace(p)
        BY <2>3 DEF Busy, LeftInPlace
      <3> QED
        BY <3>1, <2>1
    <2> QED
      BY <2>1, <2>2, <2>3, <1>i DEF AttachmentOf, Here, Waiting
  <1>10. ASSUME NEW f \in Files, Ages(f) PROVE AttachmentOf(a)'
    <2>1. CASE a # f
      BY <1>10, <2>1, <1>a, <1>k, OthersLeave
    <2>2. CASE a = f
      <3>1. /\ disk[a] = "young" /\ disk'[a] = "old" /\ handler' = handler /\ attached' = attached /\ sweep' = sweep
            /\ cut' = cut
        BY <1>10, <2>2, <1>t, <1>a DEF Ages, rows, ghosts
      <3> QED
        BY <3>1, <1>h, <1>i DEF AttachmentOf, Here, Waiting
    <2> QED
      BY <2>1, <2>2
  <1> QED
    BY <1>1, <1>2, <1>3, <1>4, <1>5, <1>6, <1>7, <1>8, <1>9, <1>10 DEF Next, Sweeping

(***************************************************************************)
(* Sends                                                                   *)
(***************************************************************************)
LEMMA SendKept ==
    ASSUME NEW s \in Sends, SendOf(s), sends'[s].is = sends[s].is, sends'[s].uploaded = sends[s].uploaded,
           disk'[s] = disk[s], s \in sweep'.taking => s \in sweep.taking, s \in cut => s \in cut',
           \A q \in Handlers : \/ handler'[q] = handler[q]
                               \/ ~(handler'[q].at \in {"receiving", "in place", "changing"} /\ handler'[q].file = s)
    PROVE  SendOf(s)'
  <1>1. Busy({"in place"}, s)' => Busy({"in place"}, s)
    BY DEF Busy
  <1>2. There(s) => There(s)'
    BY DEF There
  <1>3. Unused(s) => Unused(s)'
    BY DEF Unused
  <1> QED
    BY <1>1, <1>2, <1>3 DEF SendOf

LEMMA SendLeft ==
    ASSUME NEW s \in Sends, SendOf(s), Leaves(s)
    PROVE  SendOf(s)'
  <1>1. \A h : h.at \in {"receiving", "in place", "changing"} /\ h.file = s => s \in Concerns(h)
    BY DEF Concerns
  <1>2. \A q \in Handlers : \/ handler'[q] = handler[q]
                            \/ ~(handler'[q].at \in {"receiving", "in place", "changing"} /\ handler'[q].file = s)
    BY <1>1 DEF Leaves
  <1> QED
    BY <1>2, SendKept DEF Leaves

(* A Send that is written back, over whatever row there is.                *)
LEMMA SendOfSaved ==
    ASSUME FilesTyped, NEW p \in Handlers, NEW s \in Sends, SendOf(s), NEW row \in Row, row.is = "saved", SaveSend(s, row),
           Goes(p, Idle), sends[s].is = "saved" /\ row.uploaded => There(s), sends[s].is = "new" => ~row.uploaded
    PROVE  SendOf(s)'
  <1>1. handler'[p] = Idle /\ \A q \in Handlers : q # p => handler'[q] = handler[q]
    BY OthersStay DEF FilesTyped
  <1>2. sends'[s].is = "saved" /\ sends'[s].uploaded = row.uploaded
    BY DEF SaveSend, Written, FilesTyped, Row
  <1>3. disk' = disk /\ sweep' = sweep /\ cut' = IF sends[s].is = "gone" THEN cut \cup {s} ELSE cut
    BY DEF SaveSend
  <1>4. There(s) => There(s)'
    BY <1>3 DEF There
  <1>5. Busy({"in place"}, s)' => Busy({"in place"}, s)
    BY <1>1, MadeNames DEF Busy
  <1>6. \A q \in Handlers : handler'[q].at \in {"receiving", "in place", "changing"} => handler'[q] = handler[q]
    BY <1>1, MadeNames
  <1>7. CASE sends[s].is = "gone"
    <2>1. There(s)' /\ s \in cut'
      BY <1>3, <1>7 DEF There
    <2> QED
      BY <1>2, <1>6, <2>1 DEF SendOf
  <1>8. CASE sends[s].is = "saved"
    <2>1. s \in sweep'.taking => s \in cut'
      BY <1>3, <1>8 DEF SendOf
    <2>2. Busy({"in place"}, s)' => There(s)'
      BY <1>4, <1>5, <1>8 DEF SendOf
    <2>3. row.uploaded => There(s)'
      BY <1>4, <1>8
    <2> QED
      BY <1>2, <1>4, <1>6, <1>8, <2>1, <2>2, <2>3 DEF SendOf
  <1>9. CASE sends[s].is = "new"
    <2>1. s \notin sweep'.taking
      BY <1>3, <1>9 DEF SendOf, Unused
    <2>2. ~Busy({"in place"}, s)'
      BY <1>5, <1>9 DEF SendOf, Busy
    <2> QED
      BY <1>2, <1>6, <1>9, <2>1, <2>2 DEF SendOf
  <1>10. sends[s].is \in {"new", "saved", "gone"}
    BY DEF FilesTyped, Row
  <1> QED
    BY <1>7, <1>8, <1>9, <1>10

LEMMA SendClient ==
    ASSUME FilesTyped, NEW p \in Handlers, Client(p), NEW s \in Sends, SendOf(s)
    PROVE  SendOf(s)'
  <1>t. /\ handler \in [Handlers -> Steps] /\ handler[p] \in Steps /\ Shape(handler[p])
        /\ sends \in [Sends -> Row]
        /\ disk \in [Files -> {"none", "young", "old"}]
    BY Shapes DEF FilesTyped
  <1>a. s \in Files /\ s \notin Attachments /\ s \notin RequestFiles
    BY PlacesAssumption DEF Files
  <1>i. SendOf(s)
    OBVIOUS
  <1>k. Leaves(s) => SendOf(s)'
    BY SendLeft
  <1>o. ASSUME NEW step, Goes(p, step) PROVE handler'[p] = step /\ \A q \in Handlers : q # p => handler'[q] = handler[q]
    BY <1>o, <1>t, OthersStay
  (* A step that only moves the request. *)
  <1>g. ASSUME NEW step, Goes(p, step), sends'[s].is = sends[s].is, sends'[s].uploaded = sends[s].uploaded, disk' = disk,
               sweep' = sweep, cut \subseteq cut', ~(step.at \in {"receiving", "in place", "changing"} /\ step.file = s)
        PROVE  SendOf(s)'
    <2>1. \A q \in Handlers : \/ handler'[q] = handler[q]
                              \/ ~(handler'[q].at \in {"receiving", "in place", "changing"} /\ handler'[q].file = s)
      BY <1>g, <1>o
    <2> QED
      BY <1>g, <2>1, SendKept
  <1>1. CASE AttachmentStep(p) \/ RequestStep(p) \/ TakingStep(p)
    BY <1>1, <1>a, <1>k, StepsLeave
  <1>2. CASE CreateFile(p) \/ AccessFile(p)
    <2>1. PICK r \in Sends, at \in {"announcing", "opening"} : Goes(p, [at |-> at, file |-> r])
      BY <1>2 DEF CreateFile, AccessFile
    <2>2. [at |-> at, file |-> r].at \notin {"receiving", "in place", "changing"}
      BY FieldsOf
    <2> QED
      BY <1>2, <1>g, <2>1, <2>2 DEF CreateFile, AccessFile, rows, ghosts
  <1>3. CASE SaveNewSend(p)
    <2>1. handler[p].file \in Sends /\ Goes(p, Idle)
      BY <1>3 DEF SaveNewSend
    <2>2. PICK body \in SendBodies : SaveSend(handler[p].file, Applied(body, NewSend))
      BY <1>3 DEF SaveNewSend
    <2>3. /\ Applied(body, NewSend) \in Row
          /\ Applied(body, NewSend).is = "saved" /\ ~Applied(body, NewSend).uploaded
      BY RowsTyped DEF Applied, NewSend, NoRow
    <2>4. CASE s = handler[p].file
      BY <2>1, <2>2, <2>3, <2>4, SendOfSaved
    <2>5. CASE s # handler[p].file
      <3>1. handler[p].at = "announcing"
        BY <1>3 DEF SaveNewSend
      <3>2. s \notin Concerns(handler[p]) /\ s \notin Concerns(handler'[p])
        BY <3>1, <2>1, <2>5, <1>o, MadeConcerns DEF Concerns
      <3> QED
        BY <3>1, <3>2, <1>a, <1>k, ClientLeaves
    <2> QED
      BY <2>4, <2>5
  <1>4. CASE UpdateSend(p)
    <2>1. handler[p].at = "changing" /\ handler[p].file \in Sends /\ handler[p].row \in Row /\ Goes(p, Idle)
      BY <1>4, <1>t DEF UpdateSend, Shape
    <2>2. PICK body \in SendBodies : SaveSend(handler[p].file, Applied(body, handler[p].row))
      BY <1>4 DEF UpdateSend
    <2>4. CASE s = handler[p].file
      <3>1. handler[p].row.is = "saved" /\ sends[s].is # "new"
        BY <2>1, <2>4, <1>i DEF SendOf
      <3>2. sends[s].is = "saved" /\ handler[p].row.uploaded => There(s)
        BY <2>1, <2>4, <1>i DEF SendOf
      <3>3. /\ Applied(body, handler[p].row) \in Row
            /\ Applied(body, handler[p].row).is = handler[p].row.is
            /\ Applied(body, handler[p].row).uploaded = handler[p].row.uploaded
        BY <2>1, RowsTyped DEF Applied, Row
      <3> QED
        BY <2>1, <2>2, <2>4, <3>1, <3>2, <3>3, SendOfSaved
    <2>5. CASE s # handler[p].file
      <3>1. s \notin Concerns(handler[p]) /\ s \notin Concerns(handler'[p])
        BY <2>1, <2>5, <1>o, MadeConcerns DEF Concerns
      <3> QED
        BY <2>1, <3>1, <1>a, <1>k, ClientLeaves
    <2> QED
      BY <2>4, <2>5
  <1>5. CASE UploadSend(p)
    <2>1. PICK r \in Sends : sends[r].is = "saved" /\ Goes(p, [at |-> "receiving", file |-> r])
      BY <1>5 DEF UploadSend
    <2>2. handler'[p] = [at |-> "receiving", file |-> r] /\ \A q \in Handlers : q # p => handler'[q] = handler[q]
      BY <2>1, <1>o
    <2>3. sends' = sends /\ disk' = disk /\ sweep' = sweep /\ cut' = cut
      BY <1>5 DEF UploadSend, rows, ghosts
    <2>4. handler'[p].at = "receiving" /\ handler'[p].file = r
      BY <2>2, FieldsOf
    <2>5. CASE s # r
      BY <2>1, <2>3, <2>5, <1>g, FieldsOf
    <2>6. CASE s = r
      <3>1. Busy({"in place"}, s)' => Busy({"in place"}, s)
        BY <2>2, <2>4 DEF Busy
      <3>2. There(s) => There(s)'
        BY <2>3 DEF There
      <3>3. \A q \in Handlers : handler'[q].at = "changing" => handler'[q] = handler[q]
        BY <2>2, <2>4
      <3> QED
        BY <2>1, <2>3, <2>6, <3>1, <3>2, <3>3, <1>i DEF SendOf
    <2> QED
      BY <2>5, <2>6
  <1>6. CASE SendFileUploaded(p)
    <2>1. handler[p].at = "in place" /\ handler[p].file \in Sends /\ Goes(p, Idle)
      BY <1>6 DEF SendFileUploaded
    <2>2. handler'[p] = Idle /\ \A q \in Handlers : q # p => handler'[q] = handler[q]
      BY <2>1, <1>o
    <2>3. disk' = disk /\ sweep' = sweep /\ cut' = cut
      BY <1>6 DEF SendFileUploaded, rows, ghosts
    <2>5. CASE s # handler[p].file
      <3>1. s \notin Concerns(handler[p]) /\ s \notin Concerns(handler'[p])
        <4>1. Concerns(handler[p]) = {handler[p].file}
          BY <2>1 DEF Concerns
        <4> QED
          BY <4>1, <2>2, <2>5, MadeConcerns
      <3> QED
        BY <2>1, <3>1, <1>a, <1>k, ClientLeaves
    <2>6. CASE s = handler[p].file /\ sends[s].is = "saved"
      <3>1. There(s)
        BY <2>1, <2>6, <1>i DEF SendOf, Busy
      <3>2. There(s)' /\ sends'[s].is = "saved"
        BY <3>1, <1>6, <2>3, <2>6, <1>t DEF There, SendFileUploaded, Row
      <3>3. \A q \in Handlers : handler'[q].at = "changing" => handler'[q] = handler[q]
        BY <2>2, MadeNames
      <3> QED
        BY <3>2, <3>3, <2>3, <2>6, <1>i DEF SendOf
    <2>7. CASE s = handler[p].file /\ sends[s].is # "saved"
      <3>1. sends' = sends
        BY <1>6, <2>7 DEF SendFileUploaded
      <3> QED
        BY <3>1, <2>1, <2>3, <1>g, MadeNames
    <2> QED
      BY <2>5, <2>6, <2>7
  <1>7. CASE ReadSend(p)
    <2>1. PICK r \in Sends : sends[r].is = "saved" /\ Goes(p, [at |-> "changing", file |-> r, row |-> sends[r]])
      BY <1>7 DEF ReadSend
    <2>2. /\ handler'[p] = [at |-> "changing", file |-> r, row |-> sends[r]]
          /\ \A q \in Handlers : q # p => handler'[q] = handler[q]
      BY <2>1, <1>o
    <2>3. sends' = sends /\ disk' = disk /\ sweep' = sweep /\ cut' = cut
      BY <1>7 DEF ReadSend, rows, ghosts
    <2>4. handler'[p].at = "changing" /\ handler'[p].file = r /\ handler'[p].row = sends[r]
      BY <2>2
    <2>5. CASE s # r
      BY <2>1, <2>3, <2>5, <1>g
    <2>6. CASE s = r
      <3>1. Busy({"in place"}, s)' => Busy({"in place"}, s)
        BY <2>2, <2>4 DEF Busy
      <3>2. There(s) => There(s)'
        BY <2>3 DEF There
      <3> QED
        BY <2>1, <2>2, <2>3, <2>4, <2>6, <3>1, <3>2, <1>i DEF SendOf
    <2> QED
      BY <2>5, <2>6
  <1>8. CASE RegisterSendAccess(p)
    <2>1. sends'[s].is = sends[s].is /\ sends'[s].uploaded = sends[s].uploaded
      BY <1>8, <1>t DEF RegisterSendAccess, Row
    <2> QED
      BY <1>8, <2>1, <1>g, MadeNames DEF RegisterSendAccess
  <1>9. CASE KeepFile(p)
    <2>1. /\ handler[p].file \in Files /\ sends' = sends /\ sweep' = sweep /\ cut' = cut
          /\ handler[p].at = "receiving" /\ disk' = [disk EXCEPT ![handler[p].file] = "young"]
      BY <1>9, <1>t DEF KeepFile, Keep, Shape, rows, ghosts
    <2>2. CASE s = handler[p].file
      <3>1. disk'[s] = "young" /\ sends[s].is # "new"
        BY <2>1, <2>2, <1>t, <1>i DEF SendOf
      <3>2. handler'[p] = [at |-> "in place", file |-> s] /\ \A q \in Handlers : q # p => handler'[q] = handler[q]
        BY <1>9, <2>2, KeepingSteps
      <3>3. There(s)'
        BY <3>1 DEF There
      <3>5. handler'[p].at = "in place"
        <4>1. [at |-> "in place", file |-> s].at = "in place"
          BY FieldsOf
        <4> QED
          BY <3>2, <4>1
      <3>4. \A q \in Handlers : handler'[q].at = "changing" => handler'[q] = handler[q]
        BY <3>2, <3>5
      <3> QED
        BY <3>1, <3>3, <3>4, <2>1, <1>i DEF SendOf
    <2>3. CASE s # handler[p].file
      <3>1. s \notin Concerns(handler[p]) /\ Concerns(handler'[p]) = Concerns(handler[p])
        BY <1>9, <2>3, KeepingSteps
      <3> QED
        BY <3>1, <2>1, <1>k, <1>a, ClientLeaves
    <2> QED
      BY <2>2, <2>3
  <1>10. CASE GiveUp(p)
    BY <1>10, <1>g, MadeNames DEF GiveUp, rows
  <1> QED
    BY <1>1, <1>2, <1>3, <1>4, <1>5, <1>6, <1>7, <1>8, <1>9, <1>10 DEF Client, AttachmentStep, RequestStep, TakingStep

LEMMA SendsNext ==
    ASSUME FilesTyped, SendsInv, Removing, [Next]_vars
    PROVE  SendsInv'
  <1> SUFFICES ASSUME NEW s \in Sends PROVE SendOf(s)'
    BY DEF SendsInv
  <1>t. /\ handler \in [Handlers -> Steps] /\ disk \in [Files -> {"none", "young", "old"}] /\ sends \in [Sends -> Row]
    BY DEF FilesTyped
  <1>a. s \in Files /\ s \notin Attachments /\ s \notin RequestFiles
    BY PlacesAssumption DEF Files
  <1>i. SendOf(s)
    BY DEF SendsInv
  <1>k. Leaves(s) => SendOf(s)'
    BY <1>i, SendLeft
  <1>g. ASSUME sends'[s].is = "gone", handler' = handler PROVE SendOf(s)'
    BY <1>g, <1>i DEF SendOf
  <1>1. ASSUME NEW p \in Handlers, Client(p) PROVE SendOf(s)'
    BY <1>1, <1>i, SendClient
  <1>2. ASSUME NEW r \in Sends, DeleteSend(r) PROVE SendOf(s)'
    <2>1. CASE s # r
      BY <1>2, <2>1, <1>a, <1>k, OthersLeave
    <2>2. CASE s = r
      <3>1. sends'[s] = [NoRow EXCEPT !.is = "gone"] /\ handler' = handler
        BY <1>2, <2>2, <1>t DEF DeleteSend
      <3> QED
        BY <3>1, <1>g DEF NoRow
    <2> QED
      BY <2>1, <2>2
  <1>3. ASSUME NEW b \in Attachments, DeleteAttachment(b) PROVE SendOf(s)'
    BY <1>3, <1>a, <1>k, OthersLeave
  <1>4. CASE \/ \E r \in Submissions : CompleteSubmission(r)
             \/ DeleteItem \/ CreateRequest \/ UpdateRequest \/ SweepFileRequests \/ SweepEnds
             \/ UNCHANGED vars \/ \E f \in Files : AWeekAfter(f)
    BY <1>4, <1>a, <1>k, OthersLeave
  <1>5. CASE SweepRows
    <2>1. sends'[s] = sends[s] \/ sends'[s] = [NoRow EXCEPT !.is = "gone"]
      BY <1>5 DEF SweepRows
    <2>2. disk' = disk /\ handler' = handler /\ sweep'.taking = {} /\ cut' = cut
      BY <1>5 DEF SweepRows
    <2>3. CASE sends'[s] = sends[s]
      BY <2>2, <2>3, <1>i, SendKept
    <2>4. CASE sends'[s] = [NoRow EXCEPT !.is = "gone"]
      BY <2>2, <2>4, <1>g DEF NoRow
    <2> QED
      BY <2>1, <2>3, <2>4
  <1>6. CASE SweepTakes
    <2>1. CASE s \notin sweep.taking
      BY <1>6, <2>1, <1>a, <1>k, OthersLeave
    <2>2. CASE s \in sweep.taking
      <3>1. sends' = sends /\ handler' = handler /\ cut' = cut
        BY <1>6 DEF SweepTakes, rows, ghosts
      <3>2. sends[s].is # "new" /\ (sends[s].is = "saved" => s \in cut)
        BY <2>2, <1>i DEF SendOf, Unused
      <3>3. sends[s].is = "saved" => There(s)' /\ s \in cut'
        BY <3>1, <3>2 DEF There
      <3> QED
        BY <3>1, <3>2, <3>3, <1>i DEF SendOf
    <2> QED
      BY <2>1, <2>2
  <1>7. CASE SweepRemoves
    <2>1. s \notin sweep.todo
      BY <1>7, <1>a DEF SweepRemoves, Removing
    <2> QED
      BY <1>7, <2>1, <1>a, <1>k, OthersLeave
  <1>8. ASSUME NEW f \in Files, SweepLooks(f) PROVE SendOf(s)'
    <2>1. CASE ~(s = f /\ Orphan(s))
      BY <1>8, <2>1, <1>a, <1>k, OthersLeave
    <2>2. CASE Orphan(s)
      <3>1. disk[s] = "old" /\ sends[s].is # "saved" /\ sends' = sends /\ handler' = handler
        BY <1>8, <2>2, <1>a DEF Orphan, Claimed, SweepLooks, rows
      <3>2. sends[s].is # "new"
        BY <3>1, <1>i DEF SendOf, Unused
      <3> QED
        BY <3>1, <3>2, <1>i DEF SendOf
    <2> QED
      BY <2>1, <2>2
  <1>9. CASE Crash
    <2>1. /\ handler' = [p \in Handlers |-> Idle] /\ sends' = sends /\ disk' = disk /\ sweep'.taking = {}
          /\ cut \subseteq cut'
      BY <1>9 DEF Crash, rows, NotSweeping
    <2>2. \A q \in Handlers : handler'[q].at = "idle"
      BY <2>1, MadeNames
    <2> QED
      BY <2>1, <2>2, <1>i, SendKept
  <1>10. ASSUME NEW f \in Files, Ages(f) PROVE SendOf(s)'
    <2>1. CASE s # f
      BY <1>10, <2>1, <1>a, <1>k, OthersLeave
    <2>2. CASE s = f
      <3>1. /\ disk[s] = "young" /\ disk'[s] = "old" /\ handler' = handler /\ sends' = sends /\ sweep' = sweep
            /\ cut' = cut
        BY <1>10, <2>2, <1>t, <1>a DEF Ages, rows, ghosts
      <3>2. There(s)' /\ sends[s].is # "new"
        BY <3>1, <1>i DEF There, SendOf, Unused
      <3> QED
        BY <3>1, <3>2, <1>i DEF SendOf
    <2> QED
      BY <2>1, <2>2
  <1>11. CASE RunsOut
    <2>1. sends'[s].is = sends[s].is /\ sends'[s].uploaded = sends[s].uploaded
      BY <1>11, <1>t DEF RunsOut, Row
    <2> QED
      BY <1>11, <2>1, <1>i, SendKept DEF RunsOut, ghosts
  <1> QED
    BY <1>1, <1>2, <1>3, <1>4, <1>5, <1>6, <1>7, <1>8, <1>9, <1>10, <1>11 DEF Next, Sweeping

(***************************************************************************)
(* Submissions                                                             *)
(***************************************************************************)
(* What a request holds of a file.                                         *)
LEMMA HoldsIs ==
    ASSUME NEW f
    PROVE  f \in RequestHolds <=> \E s \in Submissions : /\ started[s] \in {"started", "completed"} /\ f \in FilesOf[s]
                                                         /\ arriving[f] \in {"pending", "uploaded"}
  BY DEF RequestHolds, Begun, Coming

LEMMA HoldsIsNext ==
    ASSUME NEW f
    PROVE  f \in RequestHolds' <=> \E s \in Submissions : /\ started'[s] \in {"started", "completed"} /\ f \in FilesOf[s]
                                                          /\ arriving'[f] \in {"pending", "uploaded"}
  BY DEF RequestHolds, Begun, Coming

(* The steps that change a row of a request, or of a submission.           *)
RowsOfRequest == request'.is = request.is /\ started' = started

LEMMA RequestRows ==
    ASSUME FilesTyped, [Next]_vars
    PROVE  \/ RowsOfRequest
           \/ CreateRequest \/ SweepFileRequests
           \/ \E p \in Handlers : RemoveRequest(p) \/ StartSubmission(p) \/ \E s \in Submissions : RemoveSubmission(p, s)
           \/ \E s \in Submissions : CompleteSubmission(s)
  <1>1. ASSUME NEW p \in Handlers, AttachmentStep(p) PROVE RowsOfRequest
    BY <1>1 DEF AttachmentStep, Announce, AnnouncedAttachment, AddAttachment, UploadAttachment, AttachmentUploaded,
       UploadLegacy, KeepLegacy, AddLegacy, rows, RowsOfRequest
  <1>2. ASSUME NEW p \in Handlers, SendStep(p) PROVE RowsOfRequest
    BY <1>2 DEF SendStep, CreateFile, SaveNewSend, SaveSend, UploadSend, SendFileUploaded, ReadSend, UpdateSend,
         AccessFile, RegisterSendAccess, rows, RowsOfRequest
  <1>3. ASSUME NEW p \in Handlers, OpenRequest(p) \/ UploadPart(p) \/ RequestFileUploaded(p) \/ RemoveFile(p)
        PROVE  RowsOfRequest
    BY <1>3 DEF OpenRequest, UploadPart, RequestFileUploaded, RemoveFile, rows, RowsOfRequest
  <1>4. ASSUME NEW p \in Handlers, TakingStep(p) \/ KeepFile(p) \/ GiveUp(p) PROVE RowsOfRequest
    BY <1>4 DEF TakingStep, Attach, MoveFile, TakeRequestFile, MoveBack, KeepFile, GiveUp, rows, RowsOfRequest
  <1>6. CASE (\E a \in Attachments : DeleteAttachment(a)) \/ (\E s \in Sends : DeleteSend(s))
             \/ DeleteItem \/ Crash \/ UNCHANGED vars
    BY <1>6 DEF DeleteAttachment, DeleteSend, DeleteItem, Crash, vars, rows, RowsOfRequest
  <1>7. CASE SweepRows \/ SweepTakes \/ SweepRemoves \/ SweepEnds
             \/ (\E f \in Files : SweepLooks(f) \/ Ages(f) \/ AWeekAfter(f))
    BY <1>7 DEF SweepRows, SweepTakes, SweepRemoves, SweepEnds, SweepLooks, Ages,
       AWeekAfter, rows, RowsOfRequest
  <1>8. CASE UpdateRequest \/ RunsOut
    <2>1. request'.is = request.is
      BY <1>8 DEF UpdateRequest, RunsOut, FilesTyped
    <2> QED
      BY <1>8, <2>1 DEF UpdateRequest, RunsOut, RowsOfRequest
  <1> QED
    BY <1>1, <1>2, <1>3, <1>4, <1>6, <1>7, <1>8
    DEF Next, Sweeping, Client, AttachmentStep, SendStep, TakingStep

(* The moves of those rows.                                                *)
LEMMA SubmissionMoves ==
    ASSUME FilesTyped, Starting, [Next]_vars
    PROVE  /\ request.is = "gone" => request'.is = "gone"
           /\ \A s \in Submissions : started[s] = "gone" => started'[s] = "gone"
           /\ \A s \in Submissions : started'[s] = "new" => started[s] = "new"
           /\ \A s \in Submissions : started'[s] \in {"started", "completed"} /\ started[s] \notin {"started", "completed"} =>
                 \E p \in Handlers : StartSubmission(p) /\ handler[p].submission = s /\ started[s] = "new" /\ RequestOpen
           /\ request'.is \in {"new", "gone"} => Begun' = {}
  <1>t. /\ request \in [is : {"new", "saved", "gone"}, closed : BOOLEAN, max : Nat, count : Nat]
        /\ started \in [Submissions -> {"new", "started", "completed", "gone"}]
        /\ handler \in [Handlers -> Steps]
    BY DEF FilesTyped
  <1>b. request.is \in {"new", "gone"} => \A s \in Submissions : started[s] \notin {"started", "completed"}
    BY DEF Starting, Begun
  <1>c. (\A s \in Submissions : started'[s] \notin {"started", "completed"}) => Begun' = {}
    BY DEF Begun
  <1>1. CASE RowsOfRequest
    BY <1>1, <1>b, <1>c DEF RowsOfRequest
  <1>2. CASE CreateRequest
    <2>1. request.is = "new" /\ request'.is = "saved" /\ started' = started
      BY <1>2 DEF CreateRequest
    <2> QED
      BY <2>1
  <1>3. CASE WithoutRequest
    <2>1. request'.is = "gone" /\ \A s \in Submissions : started'[s] = IF started[s] = "new" THEN "new" ELSE "gone"
      BY <1>3, <1>t DEF WithoutRequest
    <2> QED
      BY <2>1, <1>c
  <1>4. ASSUME NEW p \in Handlers, StartSubmission(p) PROVE
           /\ request'.is = request.is
           /\ \A s \in Submissions : started'[s] # started[s] =>
                 /\ handler[p].submission = s /\ started[s] = "new" /\ started'[s] = "started" /\ RequestOpen
    <2>1. handler[p].at = "starting" /\ handler[p].submission \in Submissions
      BY <1>4, <1>t, Shapes DEF StartSubmission, Shape
    <2>2. started[handler[p].submission] = "new"
      BY <2>1 DEF Starting
    <2>3. ASSUME NEW s \in Submissions, started'[s] # started[s]
          PROVE  /\ handler[p].submission = s /\ started'[s] = "started" /\ RequestOpen
      BY <1>4, <1>t, <2>3 DEF StartSubmission, Takes
    <2>4. request' = request
      BY <1>4 DEF StartSubmission
    <2> QED
      BY <2>2, <2>3, <2>4
  <1>5. ASSUME NEW p \in Handlers, StartSubmission(p) PROVE
           /\ request'.is \in {"new", "gone"} => Begun' = {}
           /\ \A s \in Submissions : started[s] = "gone" => started'[s] = "gone"
           /\ \A s \in Submissions : started'[s] = "new" => started[s] = "new"
           /\ \A s \in Submissions : started'[s] \in {"started", "completed"} /\ started[s] \notin {"started", "completed"} =>
                 handler[p].submission = s /\ started[s] = "new" /\ RequestOpen
    <2>1. request'.is \in {"new", "gone"} => \A s \in Submissions : started'[s] = started[s]
      BY <1>4, <1>5 DEF RequestOpen
    <2> QED
      BY <1>4, <1>5, <1>b, <1>c, <2>1
  <1>6. ASSUME NEW p \in Handlers, NEW s \in Submissions, RemoveSubmission(p, s)
        PROVE  /\ request' = request
               /\ \A r \in Submissions : started'[r] = started[r] \/ (started[r] = "completed" /\ started'[r] = "gone")
    BY <1>6, <1>t DEF RemoveSubmission
  <1>7. ASSUME NEW s \in Submissions, CompleteSubmission(s)
        PROVE  /\ request.is = "saved" /\ request'.is = "saved"
               /\ \A r \in Submissions : started'[r] = started[r] \/ (started[r] = "started" /\ started'[r] = "completed")
    BY <1>7, <1>t DEF CompleteSubmission, RequestOpen
  <1>8. CASE SweepFileRequests /\ ~WithoutRequest
    <2>1. request' = request
      BY <1>8 DEF SweepFileRequests
    <2>2. \A r \in Submissions : started'[r] = started[r] \/ (started[r] = "started" /\ started'[r] = "gone")
      BY <1>8, <1>t DEF SweepFileRequests
    <2> QED
      BY <2>1, <2>2, <1>b, <1>c
  <1>9. CASE \E p \in Handlers, s \in Submissions : RemoveSubmission(p, s)
    BY <1>9, <1>6, <1>b, <1>c
  <1>10. CASE \E s \in Submissions : CompleteSubmission(s)
    BY <1>10, <1>7
  <1>11. CASE \E p \in Handlers : StartSubmission(p)
    BY <1>11, <1>4, <1>5
  <1>12. CASE \E p \in Handlers : RemoveRequest(p)
    BY <1>12, <1>3 DEF RemoveRequest
  <1> QED
    BY <1>1, <1>2, <1>3, <1>8, <1>9, <1>10, <1>11, <1>12, RequestRows

LEMMA DeadStays ==
    ASSUME FilesTyped, Starting, [Next]_vars, NEW f, Dead(f)
    PROVE  Dead(f)'
  BY SubmissionMoves DEF Dead

LEMMA DeadNotHeld ==
    ASSUME FilesTyped, Starting, NEW f, Dead(f)
    PROVE  f \notin RequestHolds
  BY HoldsIs DEF Dead, Starting, Begun, FilesTyped

LEMMA WhereTo ==
    ASSUME FilesTyped, NEW p \in Handlers, Client(p)
    PROVE  /\ \/ handler'[p].at \in {"idle", "announcing", "receiving whole", "whole in place", "receiving", "in place",
                                      "opening", "changing", "taking", "moved"}
              \/ OpenRequest(p) \/ RemoveRequest(p) \/ RemoveFile(p) \/ \E s \in Submissions : RemoveSubmission(p, s)
           /\ \A q \in Handlers : q # p => handler'[q] = handler[q]
  <1>t. handler \in [Handlers -> Steps]
    BY DEF FilesTyped
  <1>o. ASSUME NEW step, Goes(p, step) PROVE handler'[p] = step /\ \A q \in Handlers : q # p => handler'[q] = handler[q]
    BY <1>o, <1>t, OthersStay
  <1>1. CASE Announce(p) \/ UploadLegacy(p) \/ UploadAttachment(p) \/ CreateFile(p) \/ UploadSend(p) \/ AccessFile(p)
             \/ UploadPart(p)
    <2>1. PICK at \in {"announcing", "receiving whole", "receiving", "opening"} : \E f : Goes(p, [at |-> at, file |-> f])
      BY <1>1 DEF Announce, UploadLegacy, UploadAttachment, CreateFile, UploadSend, AccessFile, UploadPart
    <2>4. PICK f : Goes(p, [at |-> at, file |-> f])
      BY <2>1
    <2>2. handler'[p] = [at |-> at, file |-> f]
      BY <2>4, <1>o
    <2>3. handler'[p].at = at
      BY <2>2, FieldsOf
    <2> QED
      BY <2>4, <2>3, <1>o
  <1>2. CASE ReadSend(p)
    <2>1. PICK s : Goes(p, [at |-> "changing", file |-> s, row |-> sends[s]])
      BY <1>2 DEF ReadSend
    <2>2. handler'[p] = [at |-> "changing", file |-> s, row |-> sends[s]]
      BY <2>1, <1>o
    <2> QED
      BY <2>1, <2>2, <1>o
  <1>3. CASE Attach(p)
    <2>1. PICK s \in Submissions : \E f \in FilesOf[s], b \in Attachments : Goes(p, [at |-> "taking", file |-> f, to |-> b])
      BY <1>3 DEF Attach
    <2>2. PICK f, b : Goes(p, [at |-> "taking", file |-> f, to |-> b])
      BY <2>1
    <2>3. handler'[p] = [at |-> "taking", file |-> f, to |-> b]
      BY <2>2, <1>o
    <2> QED
      BY <2>2, <2>3, <1>o
  <1>4. CASE KeepLegacy(p) \/ KeepFile(p) \/ MoveFile(p)
    <2>1. \A q \in Handlers : q # p => handler'[q] = handler[q]
      BY <1>4, KeepingSteps
    <2>2. \/ handler'[p] = [at |-> "whole in place", file |-> handler[p].file]
          \/ handler'[p] = [at |-> "in place", file |-> handler[p].file]
          \/ handler'[p] = [at |-> "moved", file |-> handler[p].file, to |-> handler[p].to]
      BY <1>4, KeepingSteps
    <2>3. handler'[p].at \in {"whole in place", "in place", "moved"}
      <3>1. [at |-> "whole in place", file |-> handler[p].file].at = "whole in place"
        BY FieldsOf
      <3>2. [at |-> "in place", file |-> handler[p].file].at = "in place"
        BY FieldsOf
      <3>3. [at |-> "moved", file |-> handler[p].file, to |-> handler[p].to].at = "moved"
        OBVIOUS
      <3> QED
        BY <2>2, <3>1, <3>2, <3>3
    <2> QED
      BY <2>1, <2>3
  <1>5. CASE \/ AnnouncedAttachment(p) \/ AttachmentUploaded(p) \/ AddLegacy(p) \/ SaveNewSend(p)
             \/ SendFileUploaded(p) \/ UpdateSend(p) \/ RegisterSendAccess(p) \/ StartSubmission(p)
             \/ RequestFileUploaded(p) \/ TakeRequestFile(p) \/ MoveBack(p) \/ GiveUp(p)
    <2>1. Goes(p, Idle)
      BY <1>5 DEF AnnouncedAttachment, AttachmentUploaded, AddLegacy, AddAttachment, SaveNewSend,
         SendFileUploaded, UpdateSend, RegisterSendAccess, StartSubmission, RequestFileUploaded, TakeRequestFile,
         MoveBack, GiveUp
    <2> QED
      BY <2>1, <1>o, MadeNames
  <1>6. CASE OpenRequest(p) \/ RemoveRequest(p) \/ RemoveFile(p) \/ \E s \in Submissions : RemoveSubmission(p, s)
    <2>1. \E step : Goes(p, step)
      BY <1>6 DEF OpenRequest, RemoveRequest, RemoveFile, RemoveSubmission
    <2> QED
      BY <1>6, <2>1, <1>o
  <1> QED
    BY <1>1, <1>2, <1>3, <1>4, <1>5, <1>6 DEF Client

(* Whoever is not a client leaves the requests, or ends them all.          *)
LEMMA HandlersStay ==
    ASSUME [Next]_vars
    PROVE  \/ \E p \in Handlers : Client(p)
           \/ handler' = handler
           \/ Crash /\ handler' = [p \in Handlers |-> Idle]
  <1>1. CASE (\E a \in Attachments : DeleteAttachment(a)) \/ (\E s \in Sends : DeleteSend(s))
             \/ (\E s \in Submissions : CompleteSubmission(s))
             \/ DeleteItem \/ CreateRequest \/ UpdateRequest \/ RunsOut \/ UNCHANGED vars
    BY <1>1 DEF DeleteAttachment, DeleteSend, CompleteSubmission, DeleteItem, CreateRequest, UpdateRequest, RunsOut, vars
  <1>2. CASE Sweeping \/ (\E f \in Files : Ages(f) \/ AWeekAfter(f))
    BY <1>2 DEF Sweeping, SweepRows, SweepTakes, SweepFileRequests, SweepRemoves, SweepEnds, SweepLooks, Ages, AWeekAfter
  <1>3. CASE Crash
    BY <1>3 DEF Crash
  <1> QED
    BY <1>1, <1>2, <1>3 DEF Next

LEMMA RemovingNext ==
    ASSUME FilesTyped, Starting, Removing, [Next]_vars
    PROVE  Removing'
  <1>t. /\ handler \in [Handlers -> Steps]
        /\ started \in [Submissions -> {"new", "started", "completed", "gone"}]
        /\ request \in [is : {"new", "saved", "gone"}, closed : BOOLEAN, max : Nat, count : Nat]
        /\ sweep \in [stage : {"idle", "files", "removing", "leftovers"}, todo : SUBSET Files, taking : SUBSET Files]
    BY DEF FilesTyped
  <1>d. \A f : Dead(f) => Dead(f)'
    BY DeadStays
  <1>w. WithoutRequest => \A f : Dead(f)'
    BY <1>t DEF WithoutRequest, Dead
  (* Only one submission has a file. *)
  <1>f. \A s \in Submissions : started'[s] = "gone" => \A f \in FilesOf[s] : Dead(f)'
    BY FilesOfAssumption DEF Dead
  <1>1. ASSUME NEW p \in Handlers, handler'[p].at = "removing" PROVE \A f \in handler'[p].files : Dead(f)'
    <2>1. CASE handler'[p] = handler[p]
      BY <2>1, <1>1, <1>d DEF Removing
    <2>2. CASE Crash /\ handler' = [q \in Handlers |-> Idle]
      BY <2>2, <1>1, MadeNames
    <2>3. ASSUME Client(p) PROVE \A f \in handler'[p].files : Dead(f)'
      <3>1. CASE RemoveRequest(p)
        BY <3>1, <1>w DEF RemoveRequest
      <3>2. ASSUME NEW s \in Submissions, RemoveSubmission(p, s) PROVE \A f \in handler'[p].files : Dead(f)'
        <4>1. handler'[p] = [at |-> "removing", files |-> FilesOf[s]] /\ started'[s] = "gone"
          BY <3>2, <1>t DEF RemoveSubmission, Goes
        <4> QED
          BY <4>1, <1>f
      <3>3. CASE RemoveFile(p)
        <4>1. handler[p].at = "removing" /\ handler[p] \in Steps /\ handler[p].files # {}
          BY <3>3, <1>t, <1>1, OthersStay, MadeNames DEF RemoveFile
        <4>2. PICK f : Goes(p, [handler[p] EXCEPT !.files = @ \ {f}])
          BY <3>3, <4>1 DEF RemoveFile
        <4>3. [handler[p] EXCEPT !.files = @ \ {f}] = [at |-> "removing", files |-> handler[p].files \ {f}]
          BY <4>1, NextSteps
        <4>4. handler'[p] = [at |-> "removing", files |-> handler[p].files \ {f}]
          BY <4>2, <4>3, <1>t, OthersStay
        <4>5. handler'[p].files \subseteq handler[p].files
          BY <4>4
        <4> QED
          BY <4>1, <4>5, <1>d DEF Removing
      <3>4. CASE OpenRequest(p)
        <4>1. PICK s : Goes(p, [at |-> "starting", submission |-> s])
          BY <3>4 DEF OpenRequest
        <4> QED
          BY <4>1, <1>1, <1>t, OthersStay
      <3> QED
        BY <2>3, <1>1, <3>1, <3>2, <3>3, <3>4, WhereTo
    <2> QED
      BY <2>1, <2>2, <2>3, WhereTo, HandlersStay
  <1>2. ASSUME sweep'.stage = "removing" PROVE sweep'.todo \subseteq RequestFiles /\ \A f \in sweep'.todo : Dead(f)'
    <2>1. CASE sweep.stage = "removing" /\ sweep'.todo \subseteq sweep.todo
      BY <2>1, <1>d DEF Removing
    <2>2. CASE SweepFileRequests
      <3>1. CASE WithoutRequest /\ sweep' = [stage |-> "removing", todo |-> OnDisk(RequestFiles), taking |-> {}]
        BY <3>1, <1>w DEF OnDisk
      <3>2. CASE \E S \in SUBSET {s \in Submissions : started[s] = "started"} :
                  /\ started' = [s \in Submissions |-> IF s \in S THEN "gone" ELSE started[s]]
                  /\ sweep' = [stage |-> "removing", todo |-> UNION {Coming(s) : s \in S}, taking |-> {}]
        <4>1. PICK S \in SUBSET Submissions :
                  /\ started' = [s \in Submissions |-> IF s \in S THEN "gone" ELSE started[s]]
                  /\ sweep' = [stage |-> "removing", todo |-> UNION {Coming(s) : s \in S}, taking |-> {}]
          BY <3>2
        <4>2. ASSUME NEW f \in sweep'.todo PROVE f \in RequestFiles /\ Dead(f)'
          <5>1. PICK s \in S : f \in FilesOf[s]
            BY <4>1 DEF Coming
          <5>2. started'[s] = "gone"
            BY <4>1
          <5> QED
            BY <5>1, <5>2, <1>f, FilesOfAssumption
        <4> QED
          BY <4>2
      <3>3. CASE sweep' = NotSweeping
        BY <3>3, <1>2 DEF NotSweeping
      <3> QED
        BY <2>2, <3>1, <3>2, <3>3 DEF SweepFileRequests
    <2>3. CASE SweepRemoves
      <3>1. CASE sweep.todo = {}
        <4>1. sweep' = [sweep EXCEPT !.stage = "leftovers", !.todo = OnDisk(RequestFiles)]
          BY <2>3, <3>1 DEF SweepRemoves
        <4>2. sweep'.stage = "leftovers"
          BY <4>1, <1>t
        <4> QED
          BY <4>2, <1>2
      <3>2. CASE sweep.todo # {}
        <4>1. sweep.stage = "removing" /\ sweep'.todo \subseteq sweep.todo
          BY <2>3, <3>2, <1>t DEF SweepRemoves
        <4> QED
          BY <4>1, <2>1
      <3> QED
        BY <3>1, <3>2
    <2>4. CASE SweepRows \/ SweepEnds \/ Crash
      <3>1. sweep'.stage \in {"files", "idle"}
        BY <2>4 DEF SweepRows, SweepEnds, Crash, NotSweeping
      <3> QED
        BY <3>1, <1>2
    <2>5. CASE SweepTakes
      <3>1. sweep'.stage = sweep.stage /\ sweep'.todo \subseteq sweep.todo
        BY <2>5, <1>t DEF SweepTakes
      <3> QED
        BY <3>1, <1>2, <2>1
    <2>6. CASE \E f \in Files : SweepLooks(f)
      <3>1. sweep'.stage = sweep.stage /\ sweep'.todo \subseteq sweep.todo
        BY <2>6, <1>t DEF SweepLooks
      <3> QED
        BY <3>1, <1>2, <2>1
    <2>7. CASE sweep' = sweep
      BY <2>7, <1>2, <2>1
    <2>8. ASSUME NEW p \in Handlers, Client(p) PROVE sweep' = sweep
      BY <2>8 DEF Client, Announce, AnnouncedAttachment, AddAttachment, UploadAttachment, AttachmentUploaded,
         UploadLegacy, KeepLegacy, AddLegacy, CreateFile, SaveNewSend, SaveSend, UploadSend, SendFileUploaded, ReadSend,
         UpdateSend, AccessFile, RegisterSendAccess, OpenRequest, StartSubmission, UploadPart, RequestFileUploaded,
         RemoveSubmission, RemoveRequest, RemoveFile, Attach, MoveFile, TakeRequestFile, MoveBack, KeepFile, GiveUp
    <2>9. CASE (\E a \in Attachments : DeleteAttachment(a)) \/ (\E s \in Sends : DeleteSend(s))
             \/ (\E s \in Submissions : CompleteSubmission(s))
             \/ DeleteItem \/ CreateRequest \/ UpdateRequest \/ RunsOut \/ UNCHANGED vars
             \/ (\E f \in Files : Ages(f) \/ AWeekAfter(f))
      <3>1. sweep' = sweep
        BY <2>9 DEF DeleteAttachment, DeleteSend, CompleteSubmission, DeleteItem, CreateRequest, UpdateRequest, RunsOut,
           vars, Ages, AWeekAfter
      <3> QED
        BY <3>1, <2>7
    <2> QED
      BY <2>2, <2>3, <2>4, <2>5, <2>6, <2>7, <2>8, <2>9 DEF Next, Sweeping
  <1> QED
    BY <1>1, <1>2 DEF Removing

(* The steps that change what arrives.                                     *)
LEMMA ArrivingMoves ==
    ASSUME FilesTyped, [Next]_vars, NEW f \in RequestFiles
    PROVE  \/ arriving'[f] = arriving[f]
           \/ \E p \in Handlers : StartSubmission(p) /\ f \in FilesOf[handler[p].submission] /\ arriving'[f] = "pending"
                                  /\ started'[handler[p].submission] = "started"
           \/ \E p \in Handlers : RequestFileUploaded(p) /\ handler[p].file = f /\ arriving[f] = "pending"
                                  /\ arriving'[f] = "uploaded"
           \/ \E p \in Handlers : TakeRequestFile(p) /\ handler[p].file = f /\ arriving'[f] = "taken"
  <1>t. arriving \in [RequestFiles -> {"none", "pending", "uploaded", "taken"}]
        /\ started \in [Submissions -> {"new", "started", "completed", "gone"}]
        /\ handler \in [Handlers -> Steps]
    BY DEF FilesTyped
  <1>1. ASSUME NEW p \in Handlers, AttachmentStep(p) \/ SendStep(p) PROVE arriving' = arriving
    BY <1>1 DEF AttachmentStep, Announce, AnnouncedAttachment, AddAttachment, UploadAttachment, AttachmentUploaded,
       UploadLegacy, KeepLegacy, AddLegacy, SendStep, CreateFile, SaveNewSend, SaveSend, UploadSend, SendFileUploaded,
       ReadSend, UpdateSend, AccessFile, RegisterSendAccess, rows
  <1>2. ASSUME NEW p \in Handlers, OpenRequest(p) \/ UploadPart(p) \/ RemoveRequest(p) \/ RemoveFile(p)
                                   \/ \E s \in Submissions : RemoveSubmission(p, s)
        PROVE  arriving' = arriving
    BY <1>2 DEF OpenRequest, UploadPart, RemoveRequest, RemoveFile, RemoveSubmission, rows
  <1>3. ASSUME NEW p \in Handlers, Attach(p) \/ MoveFile(p) \/ MoveBack(p) \/ KeepFile(p) \/ GiveUp(p)
        PROVE  arriving' = arriving
    BY <1>3 DEF Attach, MoveFile, MoveBack, KeepFile, GiveUp, rows
  <1>4. CASE (\E a \in Attachments : DeleteAttachment(a)) \/ (\E s \in Sends : DeleteSend(s))
             \/ (\E s \in Submissions : CompleteSubmission(s))
             \/ DeleteItem \/ CreateRequest \/ UpdateRequest \/ RunsOut \/ UNCHANGED vars \/ Crash
    BY <1>4 DEF DeleteAttachment, DeleteSend, CompleteSubmission, DeleteItem, CreateRequest, UpdateRequest, RunsOut,
       Crash, vars, rows
  <1>5. CASE Sweeping \/ (\E g \in Files : Ages(g) \/ AWeekAfter(g))
    BY <1>5 DEF Sweeping, SweepRows, SweepTakes, SweepFileRequests, SweepRemoves, SweepEnds, SweepLooks, Ages,
       AWeekAfter, rows
  <1>6. ASSUME NEW p \in Handlers, StartSubmission(p), arriving'[f] # arriving[f]
        PROVE  /\ f \in FilesOf[handler[p].submission] /\ arriving'[f] = "pending"
               /\ started'[handler[p].submission] = "started"
    <2>1. handler[p].submission \in Submissions
      BY <1>6, <1>t, Shapes DEF StartSubmission, Shape
    <2> QED
      BY <1>6, <1>t, <2>1 DEF StartSubmission
  <1>7. ASSUME NEW p \in Handlers, RequestFileUploaded(p), arriving'[f] # arriving[f]
        PROVE  handler[p].file = f /\ arriving[f] = "pending" /\ arriving'[f] = "uploaded"
    BY <1>7, <1>t DEF RequestFileUploaded, Marks
  <1>8. ASSUME NEW p \in Handlers, TakeRequestFile(p), arriving'[f] # arriving[f]
        PROVE  handler[p].file = f /\ arriving'[f] = "taken"
    BY <1>8, <1>t DEF TakeRequestFile
  <1> QED
    BY <1>1, <1>2, <1>3, <1>4, <1>5, <1>6, <1>7, <1>8 DEF Next, Client, AttachmentStep, SendStep

(* Only the start of a submission adds to what a request holds.            *)
LEMMA HoldsGrow ==
    ASSUME FilesTyped, Starting, [Next]_vars, NEW f \in RequestFiles, f \in RequestHolds'
    PROVE  \/ f \in RequestHolds
           \/ \E p \in Handlers : /\ StartSubmission(p) /\ f \in FilesOf[handler[p].submission]
                                  /\ handler[p].submission \in Submissions /\ started[handler[p].submission] = "new"
                                  /\ arriving'[f] = "pending"
  <1>1. PICK s \in Submissions : /\ started'[s] \in {"started", "completed"} /\ f \in FilesOf[s]
                                 /\ arriving'[f] \in {"pending", "uploaded"}
    BY HoldsIsNext
  <1>2. ASSUME NEW p \in Handlers, StartSubmission(p) PROVE
           handler[p].submission \in Submissions /\ started[handler[p].submission] = "new"
    <2>1. handler[p].at = "starting" /\ Shape(handler[p])
      BY <1>2, Shapes DEF StartSubmission, FilesTyped
    <2> QED
      BY <2>1 DEF Shape, Starting
  <1>3. CASE started[s] \notin {"started", "completed"}
    <2>1. PICK p \in Handlers : StartSubmission(p) /\ handler[p].submission = s /\ started[s] = "new" /\ RequestOpen
      BY <1>1, <1>3, SubmissionMoves
    <2>2. arriving'[f] = "pending"
      BY <2>1, <1>1, <1>3 DEF StartSubmission, FilesTyped
    <2> QED
      BY <2>1, <2>2, <1>1
  <1>4. CASE started[s] \in {"started", "completed"}
    <2>1. CASE arriving[f] \in {"pending", "uploaded"}
      BY <2>1, <1>1, <1>4, HoldsIs
    <2>2. CASE arriving[f] \notin {"pending", "uploaded"}
      <3>1. PICK p \in Handlers : StartSubmission(p) /\ f \in FilesOf[handler[p].submission] /\ arriving'[f] = "pending"
        BY <2>2, <1>1, ArrivingMoves
      <3> QED
        BY <3>1, <1>2
    <2> QED
      BY <2>1, <2>2
  <1> QED
    BY <1>3, <1>4

(* A file nobody knows of yet.                                             *)
Untouched(f) == Unused(f) /\ \A p \in Handlers : ~Brings(handler[p], f) /\ ~Takes1(handler[p], f)

LEMMA UntouchedBy ==
    ASSUME NEW f, Untouched(f), disk'[f] = "none", f \in sweep'.taking => f \in sweep.taking,
           \A q \in Handlers : handler'[q] = handler[q] \/ (~Brings(handler'[q], f) /\ ~Takes1(handler'[q], f))
    PROVE  Untouched(f)'
  BY DEF Untouched, Unused

LEMMA UntouchedLeft ==
    ASSUME NEW f, Untouched(f), Leaves(f)
    PROVE  Untouched(f)'
  <1>1. \A h : Brings(h, f) \/ Takes1(h, f) => f \in Concerns(h)
    BY DEF Brings, Takes1, Concerns
  <1> QED
    BY <1>1, UntouchedBy DEF Untouched, Unused, Leaves

LEMMA ConcernsOfRequest ==
    ASSUME NEW h, Shape(h), NEW f, f \notin Attachments, f \notin Sends, f \in Concerns(h)
    PROVE  Brings(h, f) \/ Takes1(h, f)
  BY DEF Shape, Concerns, Brings, Takes1

(* No step touches a file of a submission that has not begun.              *)
LEMMA UntouchedClient ==
    ASSUME FilesTyped, NEW p \in Handlers, Client(p), NEW s \in Submissions, started[s] = "new", NEW f \in FilesOf[s],
           Untouched(f)
    PROVE  Untouched(f)'
  <1>t. /\ handler \in [Handlers -> Steps] /\ disk \in [Files -> {"none", "young", "old"}]
        /\ handler[p] \in Steps /\ Shape(handler[p])
    BY Shapes DEF FilesTyped
  <1>a. f \in Files /\ f \in RequestFiles /\ f \notin Attachments /\ f \notin Sends
    BY PlacesAssumption, FilesOfAssumption DEF Files
  <1>u. Untouched(f) /\ disk[f] = "none"
    BY DEF Untouched, Unused
  <1>o. \A t \in Submissions : f \in FilesOf[t] => t = s
    BY FilesOfAssumption
  <1>k. Leaves(f) => Untouched(f)'
    BY <1>u, UntouchedLeft
  <1>c. f \notin Concerns(handler[p])
    BY <1>t, <1>a, <1>u, ConcernsOfRequest DEF Untouched
  <1>g. ASSUME NEW step, Goes(p, step) PROVE handler'[p] = step /\ \A q \in Handlers : q # p => handler'[q] = handler[q]
    BY <1>g, <1>t, OthersStay
  <1>e. ASSUME disk'[f] = "none", sweep' = sweep, f \notin Concerns(handler'[p]) PROVE Untouched(f)'
    <2>1. \A q \in Handlers : q # p => handler'[q] = handler[q]
      BY WhereTo
    <2>2. ~Brings(handler'[p], f) /\ ~Takes1(handler'[p], f)
      BY <1>e, AboutConcerns
    <2> QED
      BY <1>e, <1>u, <2>1, <2>2, UntouchedBy
  <1>1. CASE AttachmentStep(p) \/ SendStep(p)
    BY <1>1, <1>a, <1>k, StepsLeave
  <1>2. CASE KeepFile(p) \/ MoveFile(p)
    <2>1. Concerns(handler'[p]) = Concerns(handler[p]) /\ handler[p].at \notin {"removing", "starting"}
      BY <1>2, KeepingSteps DEF KeepFile, MoveFile
    <2> QED
      BY <2>1, <1>a, <1>c, <1>k, ClientLeaves
  <1>3. CASE Attach(p)
    <2>1. PICK t \in Submissions : started[t] = "completed" /\
             \E g \in FilesOf[t], a \in Attachments : Goes(p, [at |-> "taking", file |-> g, to |-> a])
      BY <1>3 DEF Attach
    <2>2. PICK g \in FilesOf[t], a \in Attachments : Goes(p, [at |-> "taking", file |-> g, to |-> a])
      BY <2>1
    <2>3. g # f /\ a # f
      BY <2>1, <1>o, <1>a
    <2>4. f \notin Concerns(handler'[p])
      BY <2>2, <2>3, <1>g, MadeConcerns
    <2> QED
      BY <1>3, <2>4, <1>e, <1>u DEF Attach
  <1>4. CASE TakeRequestFile(p) \/ MoveBack(p) \/ GiveUp(p)
    <2>1. handler'[p] = Idle
      BY <1>4, <1>g DEF TakeRequestFile, MoveBack, GiveUp
    <2>2. f \notin Concerns(handler'[p])
      BY <2>1, MadeConcerns
    <2>3. sweep' = sweep
      BY <1>4 DEF TakeRequestFile, MoveBack, GiveUp
    <2>4. disk'[f] = "none"
      <3>1. CASE TakeRequestFile(p) \/ GiveUp(p)
        BY <3>1, <1>u DEF TakeRequestFile, GiveUp
      <3>2. CASE MoveBack(p)
        <4>1. f # handler[p].file /\ f # handler[p].to
          BY <3>2, <1>c DEF MoveBack, Concerns
        <4>2. \/ disk' = disk
              \/ disk' = [disk EXCEPT ![handler[p].file] = disk[handler[p].to], ![handler[p].to] = "none"]
          BY <3>2 DEF MoveBack
        <4> QED
          BY <4>1, <4>2, <1>u, <1>t, <1>a
      <3> QED
        BY <1>4, <3>1, <3>2
    <2> QED
      BY <2>2, <2>3, <2>4, <1>e
  <1>5. CASE UploadPart(p)
    <2>1. PICK t \in Submissions, g \in RequestFiles : PendingFile(t, g) /\ Goes(p, [at |-> "receiving", file |-> g])
      BY <1>5 DEF UploadPart
    <2>2. g # f
      BY <2>1, <1>o DEF PendingFile
    <2>3. f \notin Concerns(handler'[p])
      BY <2>1, <2>2, <1>g, MadeConcerns
    <2> QED
      BY <1>5, <2>3, <1>e, <1>u DEF UploadPart
  <1>6. CASE OpenRequest(p)
    <2>1. PICK t : Goes(p, [at |-> "starting", submission |-> t])
      BY <1>6 DEF OpenRequest
    <2>2. f \notin Concerns(handler'[p])
      BY <2>1, <1>g, MadeConcerns
    <2> QED
      BY <1>6, <2>2, <1>e, <1>u DEF OpenRequest
  <1>7. CASE StartSubmission(p) \/ RequestFileUploaded(p)
    <2>1. f \notin Concerns(handler'[p])
      BY <1>7, <1>g, MadeConcerns DEF StartSubmission, RequestFileUploaded
    <2> QED
      BY <1>7, <2>1, <1>e, <1>u DEF StartSubmission, RequestFileUploaded
  <1>8. CASE RemoveRequest(p) \/ \E t \in Submissions : RemoveSubmission(p, t)
    <2>1. PICK F : Goes(p, [at |-> "removing", files |-> F])
      BY <1>8 DEF RemoveRequest, RemoveSubmission
    <2>2. f \notin Concerns(handler'[p])
      BY <2>1, <1>g, MadeConcerns
    <2> QED
      BY <1>8, <2>2, <1>e, <1>u DEF RemoveRequest, RemoveSubmission
  <1>9. CASE RemoveFile(p)
    <2>1. disk'[f] = "none" /\ sweep' = sweep
      BY <1>9, <1>u, <1>t, <1>a DEF RemoveFile
    <2>2. f \notin Concerns(handler'[p])
      <3>1. CASE handler[p].files = {}
        BY <1>9, <3>1, <1>g, MadeConcerns DEF RemoveFile
      <3>2. CASE handler[p].files # {}
        <4>1. PICK g : Goes(p, [handler[p] EXCEPT !.files = @ \ {g}])
          BY <1>9, <3>2 DEF RemoveFile
        <4>2. [handler[p] EXCEPT !.files = @ \ {g}] = [at |-> "removing", files |-> handler[p].files \ {g}]
          BY <1>9, <1>t, NextSteps DEF RemoveFile
        <4> QED
          BY <4>1, <4>2, <1>g, MadeConcerns
      <3> QED
        BY <3>1, <3>2
    <2> QED
      BY <2>1, <2>2, <1>e
  <1> QED
    BY <1>1, <1>2, <1>3, <1>4, <1>5, <1>6, <1>7, <1>8, <1>9 DEF Client, AttachmentStep, SendStep

LEMMA UntouchedNext ==
    ASSUME FilesTyped, Starting, [Next]_vars, NEW s \in Submissions, started'[s] = "new", NEW f \in FilesOf[s]
    PROVE  Untouched(f)'
  <1>t. /\ handler \in [Handlers -> Steps] /\ disk \in [Files -> {"none", "young", "old"}]
        /\ sweep \in [stage : {"idle", "files", "removing", "leftovers"}, todo : SUBSET Files, taking : SUBSET Files]
    BY DEF FilesTyped
  <1>s. started[s] = "new"
    BY SubmissionMoves
  <1>a. f \in Files /\ f \in RequestFiles /\ f \notin Attachments /\ f \notin Sends
    BY PlacesAssumption, FilesOfAssumption DEF Files
  <1>u. Untouched(f) /\ disk[f] = "none"
    BY <1>s DEF Starting, Untouched, Unused
  <1>k. Leaves(f) => Untouched(f)'
    BY <1>u, UntouchedLeft
  <1>e. ASSUME disk'[f] = "none", f \in sweep'.taking => f \in sweep.taking, handler' = handler PROVE Untouched(f)'
    BY <1>e, <1>u, UntouchedBy
  <1>1. ASSUME NEW p \in Handlers, Client(p) PROVE Untouched(f)'
    BY <1>1, <1>s, <1>u, UntouchedClient
  <1>2. CASE \/ \E a \in Attachments : DeleteAttachment(a)
             \/ \E r \in Sends : DeleteSend(r)
             \/ \E r \in Submissions : CompleteSubmission(r)
             \/ DeleteItem \/ CreateRequest \/ UpdateRequest \/ SweepFileRequests \/ SweepEnds \/ SweepRows \/ RunsOut
             \/ UNCHANGED vars \/ \E g \in Files : AWeekAfter(g)
    BY <1>2, <1>a, <1>k, OthersLeave
  <1>3. CASE SweepTakes
    <2>1. disk'[f] = "none" /\ handler' = handler /\ (f \in sweep'.taking => f \in sweep.taking)
      BY <1>3, <1>t, <1>a, <1>u DEF SweepTakes
    <2> QED
      BY <2>1, <1>e
  <1>4. CASE SweepRemoves
    <2>1. disk'[f] = "none" /\ handler' = handler
      BY <1>4, <1>t, <1>a, <1>u DEF SweepRemoves
    <2>2. sweep'.taking = sweep.taking
      BY <1>4, <1>t DEF SweepRemoves
    <2> QED
      BY <2>1, <2>2, <1>e
  <1>5. ASSUME NEW g \in Files, SweepLooks(g) PROVE Untouched(f)'
    <2>1. ~Orphan(f)
      BY <1>u DEF Orphan
    <2> QED
      BY <2>1, <1>5, <1>a, <1>k, OthersLeave
  <1>6. ASSUME NEW g \in Files, Ages(g) PROVE Untouched(f)'
    <2>1. f # g
      BY <1>6, <1>u DEF Ages
    <2> QED
      BY <2>1, <1>6, <1>a, <1>k, OthersLeave
  <1>7. CASE Crash
    <2>1. handler' = [p \in Handlers |-> Idle] /\ disk' = disk /\ sweep'.taking = {}
      BY <1>7 DEF Crash, NotSweeping
    <2> QED
      BY <2>1, <1>u, MadeNames, UntouchedBy
  <1> QED
    BY <1>1, <1>2, <1>3, <1>4, <1>5, <1>6, <1>7 DEF Next, Sweeping

LEMMA StartingNext ==
    ASSUME FilesTyped, Starting, [Next]_vars
    PROVE  Starting'
  <1>t. handler \in [Handlers -> Steps] /\ started \in [Submissions -> {"new", "started", "completed", "gone"}]
        /\ \A p \in Handlers : Shape(handler[p])
    BY Shapes DEF FilesTyped
  <1>1. request'.is \in {"new", "gone"} => Begun' = {}
    BY SubmissionMoves
  <1>2. ASSUME NEW s \in Submissions, started'[s] = "new", NEW f \in FilesOf[s]
        PROVE  Unused(f)' /\ \A p \in Handlers : ~Brings(handler'[p], f) /\ ~Takes1(handler'[p], f)
    BY <1>2, UntouchedNext DEF Untouched
  (* A submission that is to start stays new, unless its own request starts it. *)
  <1>3. ASSUME NEW s \in Submissions, started[s] = "new"
        PROVE  started'[s] = "new" \/ \E p \in Handlers : StartSubmission(p) /\ handler[p].submission = s
    <2>1. CASE RowsOfRequest \/ CreateRequest
      BY <2>1, <1>3 DEF RowsOfRequest, CreateRequest
    <2>2. CASE SweepFileRequests \/ \E p \in Handlers : RemoveRequest(p)
      BY <2>2, <1>3, <1>t DEF SweepFileRequests, RemoveRequest, WithoutRequest
    <2>3. CASE \E p \in Handlers : StartSubmission(p)
      BY <2>3, <1>3, <1>t DEF StartSubmission
    <2>4. CASE \E p \in Handlers, r \in Submissions : RemoveSubmission(p, r)
      BY <2>4, <1>3, <1>t DEF RemoveSubmission
    <2>5. CASE \E r \in Submissions : CompleteSubmission(r)
      BY <2>5, <1>3, <1>t DEF CompleteSubmission
    <2> QED
      BY <2>1, <2>2, <2>3, <2>4, <2>5, RequestRows
  <1>4. ASSUME NEW p \in Handlers, handler'[p].at = "starting"
        PROVE  /\ started'[handler'[p].submission] = "new"
               /\ \A q \in Handlers : handler'[q].at = "starting" /\ handler'[q].submission = handler'[p].submission => q = p
    <2>1. CASE \E r \in Handlers : OpenRequest(r)
      <3>1. PICK r \in Handlers, s \in Submissions :
               /\ started[s] = "new" /\ Goes(r, [at |-> "starting", submission |-> s])
               /\ \A q \in Handlers : handler[q].at = "starting" => handler[q].submission # s
               /\ started' = started
        BY <2>1 DEF OpenRequest, rows
      <3>2. handler'[r].at = "starting" /\ handler'[r].submission = s
        BY <3>1, <1>t DEF Goes
      <3>3. \A q \in Handlers : q # r => handler'[q] = handler[q]
        BY <3>1, <1>t, OthersStay
      <3> QED
        BY <3>1, <3>2, <3>3, <1>4 DEF Starting
    <2>2. CASE \A q \in Handlers : handler'[q].at = "starting" => handler'[q] = handler[q]
      <3>1. handler'[p] = handler[p] /\ handler[p].at = "starting"
        BY <2>2, <1>4
      <3>2. handler[p].submission \in Submissions
        BY <3>1, <1>t DEF Shape
      <3>3. started[handler[p].submission] = "new"
        BY <3>1 DEF Starting
      <3>4. \A q \in Handlers : handler[q].at = "starting" /\ handler[q].submission = handler[p].submission => q = p
        BY <3>1 DEF Starting
      <3>5. \A q \in Handlers : handler'[q].at = "starting" /\ handler'[q].submission = handler'[p].submission => q = p
        BY <2>2, <3>1, <3>4
      <3>6. ~StartSubmission(p)
        <4>1. ASSUME StartSubmission(p) PROVE FALSE
          <5>1. handler'[p] = Idle
            BY <4>1, <1>t, OthersStay DEF StartSubmission
          <5> QED
            BY <5>1, <1>4, MadeNames
        <4> QED
          BY <4>1
      <3>7. \A q \in Handlers : StartSubmission(q) => handler[q].at = "starting"
        BY DEF StartSubmission
      <3> QED
        BY <3>1, <3>2, <3>3, <3>4, <3>5, <3>6, <3>7, <1>3
    <2>3. ASSUME NEW r \in Handlers, Client(r), ~OpenRequest(r)
          PROVE  \A q \in Handlers : handler'[q].at = "starting" => handler'[q] = handler[q]
      <3>1. CASE RemoveRequest(r) \/ \E s \in Submissions : RemoveSubmission(r, s)
        <4>1. PICK F : Goes(r, [at |-> "removing", files |-> F])
          BY <3>1 DEF RemoveRequest, RemoveSubmission
        <4>2. handler'[r] = [at |-> "removing", files |-> F] /\ \A q \in Handlers : q # r => handler'[q] = handler[q]
          BY <4>1, <1>t, OthersStay
        <4>3. handler'[r].at = "removing"
          BY <4>2
        <4> QED
          BY <4>2, <4>3
      <3>2. CASE RemoveFile(r)
        <4>1. \A q \in Handlers : q # r => handler'[q] = handler[q]
          BY <2>3, WhereTo
        <4>2. handler'[r].at # "starting"
          <5>1. CASE handler[r].files = {}
            BY <3>2, <5>1, <1>t, OthersStay, MadeNames DEF RemoveFile
          <5>2. CASE handler[r].files # {}
            <6>1. PICK f : Goes(r, [handler[r] EXCEPT !.files = @ \ {f}])
              BY <3>2, <5>2 DEF RemoveFile
            <6>2. [handler[r] EXCEPT !.files = @ \ {f}] = [at |-> "removing", files |-> handler[r].files \ {f}]
              BY <3>2, <1>t, NextSteps DEF RemoveFile
            <6>3. handler'[r] = [at |-> "removing", files |-> handler[r].files \ {f}]
              BY <6>1, <6>2, <1>t, OthersStay
            <6> QED
              BY <6>3
          <5> QED
            BY <5>1, <5>2
        <4> QED
          BY <4>1, <4>2
      <3>3. CASE handler'[r].at \in {"idle", "announcing", "receiving whole", "whole in place", "receiving", "in place",
                                     "opening", "changing", "taking", "moved"}
        <4>1. \A q \in Handlers : q # r => handler'[q] = handler[q]
          BY <2>3, WhereTo
        <4> QED
          BY <4>1, <3>3
      <3> QED
        BY <2>3, <3>1, <3>2, <3>3, WhereTo
    <2>4. CASE handler' = handler
      BY <2>4, <2>2
    <2>5. CASE handler' = [q \in Handlers |-> Idle]
      BY <2>5, <1>4, MadeNames
    <2> QED
      BY <2>1, <2>2, <2>3, <2>4, <2>5, HandlersStay
  <1> QED
    BY <1>1, <1>2, <1>4 DEF Starting

(***************************************************************************)
(* The files of a request                                                  *)
(***************************************************************************)
LEMMA RequestKept ==
    ASSUME NEW f, RequestOf(f), f \in RequestHolds' => f \in RequestHolds, arriving'[f] = arriving[f],
           disk'[f] = disk[f], f \in sweep'.taking => f \in sweep.taking, f \in cut => f \in cut',
           Busy({"in place"}, f)' <=> Busy({"in place"}, f), Busy({"moved"}, f)' <=> Busy({"moved"}, f),
           \A q \in Handlers : handler'[q] = handler[q] \/ ~Takes1(handler'[q], f)
    PROVE  RequestOf(f)'
  <1>1. There(f) => There(f)'
    BY DEF There
  <1> QED
    BY <1>1 DEF RequestOf

LEMMA RequestLeft ==
    ASSUME NEW f \in RequestFiles, RequestOf(f), f \in RequestHolds' => f \in RequestHolds, Leaves(f)
    PROVE  RequestOf(f)'
  <1>1. \A q \in Handlers : handler'[q] = handler[q] \/ ~Takes1(handler'[q], f)
    BY AboutConcerns DEF Leaves
  <1>2. (Busy({"in place"}, f)' <=> Busy({"in place"}, f)) /\ (Busy({"moved"}, f)' <=> Busy({"moved"}, f))
    BY BusyKept
  <1>3. /\ arriving'[f] = arriving[f] /\ disk'[f] = disk[f] /\ (f \in sweep'.taking => f \in sweep.taking)
        /\ (f \in cut => f \in cut')
    BY DEF Leaves
  <1> QED
    BY <1>1, <1>2, <1>3, RequestKept

LEMMA NotHeld ==
    ASSUME NEW f, f \notin RequestHolds', RequestOf(f), arriving'[f] = arriving[f],
           \A q \in Handlers : handler'[q] = handler[q] \/ ~Takes1(handler'[q], f)
    PROVE  RequestOf(f)'
  BY DEF RequestOf

(* Who is not starting a submission, starts none.                          *)
LEMMA NoStart ==
    ASSUME FilesTyped, Starting, [Next]_vars, NEW f \in RequestFiles, f \in RequestHolds',
           \A q \in Handlers : handler[q].at = "starting" => handler'[q] = handler[q]
    PROVE  f \in RequestHolds
  <1>1. ASSUME NEW q \in Handlers PROVE ~StartSubmission(q)
    <2>1. ASSUME StartSubmission(q) PROVE FALSE
      <3>1. handler[q].at = "starting" /\ handler'[q] = Idle
        BY <2>1, OthersStay DEF StartSubmission, FilesTyped
      <3>2. handler'[q] = handler[q]
        BY <3>1
      <3> QED
        BY <3>1, <3>2, MadeNames
    <2> QED
      BY <2>1
  <1> QED
    BY <1>1, HoldsGrow

LEMMA RequestClient ==
    ASSUME FilesTyped, Starting, Removing, [Next]_vars, NEW p \in Handlers, Client(p), NEW f \in RequestFiles, RequestOf(f)
    PROVE  RequestOf(f)'
  <1>t. /\ handler \in [Handlers -> Steps] /\ disk \in [Files -> {"none", "young", "old"}]
        /\ handler[p] \in Steps /\ Shape(handler[p])
        /\ arriving \in [RequestFiles -> {"none", "pending", "uploaded", "taken"}]
    BY Shapes DEF FilesTyped
  <1>a. f \in Files /\ f \notin Attachments /\ f \notin Sends
    BY PlacesAssumption DEF Files
  <1>i. RequestOf(f)
    OBVIOUS
  <1>g. ASSUME NEW step, Goes(p, step) PROVE handler'[p] = step /\ \A q \in Handlers : q # p => handler'[q] = handler[q]
    BY <1>g, <1>t, OthersStay
  <1>w. \A q \in Handlers : q # p => handler'[q] = handler[q]
    BY WhereTo
  <1>h. ASSUME handler[p].at # "starting" PROVE f \in RequestHolds' => f \in RequestHolds
    BY <1>h, <1>w, NoStart
  <1>k. ASSUME handler[p].at # "starting", Leaves(f) PROVE RequestOf(f)'
    BY <1>k, <1>h, <1>i, RequestLeft
  <1>l. ASSUME handler[p].at # "starting", f \notin Concerns(handler[p]), f \notin Concerns(handler'[p]),
               ~(handler[p].at = "removing" /\ f \in handler[p].files)
        PROVE  RequestOf(f)'
    BY <1>l, <1>k, <1>a, ClientLeaves
  <1>b. ASSUME handler[p].at \notin {"in place", "moved"}, handler'[p].at \notin {"in place", "moved"}
        PROVE  (Busy({"in place"}, f)' <=> Busy({"in place"}, f)) /\ (Busy({"moved"}, f)' <=> Busy({"moved"}, f))
    BY <1>b, <1>w, BusyBut
  <1>1. CASE AttachmentStep(p) \/ SendStep(p)
    <2>1. Leaves(f)
      BY <1>1, <1>a, StepsLeave
    <2>2. handler[p].at # "starting"
      <3>1. handler[p] = Idle \/ handler[p].at \in {"announcing", "receiving whole", "whole in place", "in place", "changing", "opening"}
        BY <1>1 DEF AttachmentStep, Announce, AnnouncedAttachment, UploadAttachment, AttachmentUploaded, UploadLegacy,
           KeepLegacy, AddLegacy, SendStep, CreateFile, SaveNewSend, UploadSend, SendFileUploaded, ReadSend, UpdateSend,
           AccessFile, RegisterSendAccess
      <3>2. CASE handler[p] = Idle
        BY <3>2, MadeNames
      <3>3. CASE handler[p] # Idle
        BY <3>1, <3>3
      <3> QED
        BY <3>2, <3>3
    <2> QED
      BY <2>1, <2>2, <1>k
  <1>2. CASE StartSubmission(p)
    <2>1. handler[p].at = "starting" /\ handler[p].submission \in Submissions /\ started[handler[p].submission] = "new"
      BY <1>2, <1>t DEF StartSubmission, Starting, Shape
    <2>2. handler'[p] = Idle
      BY <1>2, <1>g DEF StartSubmission
    <2>3. ASSUME NEW q \in Handlers, StartSubmission(q) PROVE q = p
      <3>1. handler[q].at = "starting" /\ handler'[q] = Idle
        BY <2>3, <1>t, OthersStay DEF StartSubmission
      <3> QED
        BY <3>1, <1>w, MadeNames
    <2>4. CASE f \in FilesOf[handler[p].submission]
      <3>1. Untouched(f)
        BY <2>1, <2>4 DEF Starting, Untouched
      <3>2. f \notin RequestHolds
        <4>1. \A t \in Submissions : f \in FilesOf[t] => t = handler[p].submission
          BY <2>1, <2>4, FilesOfAssumption
        <4> QED
          BY <4>1, <2>1, HoldsIs
      <3>3. f \in RequestHolds' => arriving'[f] = "pending"
        BY <3>2, HoldsGrow
      <3>4. disk'[f] = "none" /\ f \notin sweep'.taking
        BY <1>2, <3>1 DEF StartSubmission, Untouched, Unused
      <3>5. \A q \in Handlers : ~Takes1(handler'[q], f) /\ ~Brings(handler'[q], f)
        BY <3>1, <2>2, <1>w, MadeNames DEF Untouched
      <3>6. ~Busy({"in place"}, f)'
        BY <3>5 DEF Busy, Brings
      <3> QED
        BY <3>3, <3>4, <3>5, <3>6 DEF RequestOf
    <2>5. CASE f \notin FilesOf[handler[p].submission]
      <3>1. f \in RequestHolds' => f \in RequestHolds
        BY <2>3, <2>5, HoldsGrow
      <3>2. f \notin Concerns(handler[p]) /\ f \notin Concerns(handler'[p])
        BY <2>1, <2>2, MadeConcerns DEF Concerns
      <3>3. Leaves(f)
        BY <3>2, <2>1, <2>5, <1>a, ClientLeaves
      <3> QED
        BY <3>1, <3>3, <1>i, RequestLeft
    <2> QED
      BY <2>4, <2>5
  <1>3. CASE OpenRequest(p) \/ RemoveRequest(p) \/ \E s \in Submissions : RemoveSubmission(p, s)
    <2>1. handler[p] = Idle
      BY <1>3 DEF OpenRequest, RemoveRequest, RemoveSubmission
    <2>2. (\E s : Goes(p, [at |-> "starting", submission |-> s])) \/ (\E F : Goes(p, [at |-> "removing", files |-> F]))
      BY <1>3 DEF OpenRequest, RemoveRequest, RemoveSubmission
    <2>3. f \notin Concerns(handler[p])
      BY <2>1, MadeConcerns
    <2>4. f \notin Concerns(handler'[p])
      <3>1. ASSUME NEW s, Goes(p, [at |-> "starting", submission |-> s]) PROVE f \notin Concerns(handler'[p])
        <4>1. handler'[p] = [at |-> "starting", submission |-> s]
          BY <3>1, <1>g
        <4> QED
          BY <4>1, MadeConcerns
      <3>2. ASSUME NEW F, Goes(p, [at |-> "removing", files |-> F]) PROVE f \notin Concerns(handler'[p])
        <4>1. handler'[p] = [at |-> "removing", files |-> F]
          BY <3>2, <1>g
        <4> QED
          BY <4>1, MadeConcerns
      <3> QED
        BY <2>2, <3>1, <3>2
    <2> QED
      BY <2>1, <2>3, <2>4, <1>l, MadeNames
  <1>4. CASE RemoveFile(p)
    <2>1. handler[p].at = "removing" /\ arriving' = arriving
      BY <1>4 DEF RemoveFile, rows
    <2>2. Concerns(handler'[p]) \subseteq {}
      <3>1. CASE handler[p].files = {}
        BY <1>4, <3>1, <1>g, MadeConcerns DEF RemoveFile
      <3>2. CASE handler[p].files # {}
        <4>1. PICK g : Goes(p, [handler[p] EXCEPT !.files = @ \ {g}])
          BY <1>4, <3>2 DEF RemoveFile
        <4>2. [handler[p] EXCEPT !.files = @ \ {g}] = [at |-> "removing", files |-> handler[p].files \ {g}]
          BY <2>1, <1>t, NextSteps
        <4> QED
          BY <4>1, <4>2, <1>g, MadeConcerns
      <3> QED
        BY <3>1, <3>2
    <2>3. f \notin Concerns(handler[p])
      BY <2>1 DEF Concerns
    <2>4. CASE f \notin handler[p].files
      BY <2>1, <2>2, <2>3, <2>4, <1>l
    <2>5. CASE f \in handler[p].files
      <3>1. f \notin RequestHolds
        BY <2>1, <2>5, DeadNotHeld DEF Removing
      <3>2. \A q \in Handlers : handler'[q] = handler[q] \/ ~Takes1(handler'[q], f)
        BY <2>2, <1>w, AboutConcerns
      <3> QED
        BY <3>1, <3>2, <2>1, <1>h, <1>i, NotHeld
    <2> QED
      BY <2>4, <2>5
  <1>5. CASE UploadPart(p)
    <2>1. PICK g \in RequestFiles : Goes(p, [at |-> "receiving", file |-> g])
      BY <1>5 DEF UploadPart
    <2>2. handler[p].at = "idle" /\ arriving' = arriving /\ disk' = disk /\ sweep' = sweep /\ cut' = cut
      BY <1>5, MadeNames DEF UploadPart, rows, ghosts
    <2>3. handler'[p] = [at |-> "receiving", file |-> g]
      BY <2>1, <1>g
    <2>4. handler'[p].at = "receiving"
      BY <2>3, FieldsOf
    <2>5. ~Takes1(handler'[p], f)
      BY <2>3, MadeNames
    <2>6. (Busy({"in place"}, f)' <=> Busy({"in place"}, f)) /\ (Busy({"moved"}, f)' <=> Busy({"moved"}, f))
      BY <2>2, <2>4, <1>b
    <2> QED
      BY <2>2, <2>5, <2>6, <1>h, <1>i, <1>w, RequestKept
  <1>6. CASE RequestFileUploaded(p)
    <2>1. handler[p].at = "in place" /\ handler'[p] = Idle /\ disk' = disk /\ sweep' = sweep /\ cut' = cut
      BY <1>6, <1>g DEF RequestFileUploaded, ghosts
    <2>2. f \in RequestHolds' => f \in RequestHolds
      BY <2>1, <1>h
    <2>3. CASE f # handler[p].file
      <3>1. Concerns(handler[p]) = {handler[p].file}
        BY <2>1 DEF Concerns
      <3> QED
        BY <3>1, <2>1, <2>3, <1>l, MadeConcerns
    <2>4. CASE f = handler[p].file
      <3>1. \A q \in Handlers : handler'[q] = handler[q] \/ ~Takes1(handler'[q], f)
        BY <2>1, <1>w, MadeNames
      <3>2. There(f) => There(f)'
        BY <2>1 DEF There
      <3>3. Busy({"moved"}, f)' <=> Busy({"moved"}, f)
        <4>1. handler'[p].at = "idle"
          BY <2>1, MadeNames
        <4> QED
          BY <4>1, <2>1, <1>w, BusyBut
      <3>4. CASE arriving[f] = "pending"
        <4>1. arriving'[f] = "uploaded"
          BY <1>6, <2>4, <3>4, <1>t DEF RequestFileUploaded, Marks
        <4>2. Busy({"in place"}, f)
          BY <2>1, <2>4 DEF Busy
        <4>3. f \in RequestHolds' => There(f)'
          BY <2>2, <3>2, <3>4, <4>2, <1>i DEF RequestOf
        <4> QED
          BY <4>1, <4>3, <3>1, <2>1, <2>2, <1>i DEF RequestOf
      <3>5. CASE arriving[f] # "pending"
        <4>1. arriving' = arriving
          BY <1>6, <2>4, <3>5 DEF RequestFileUploaded, Marks
        <4> QED
          BY <4>1, <3>1, <3>2, <3>3, <3>5, <2>1, <2>2, <1>i DEF RequestOf
      <3> QED
        BY <3>4, <3>5
    <2> QED
      BY <2>3, <2>4
  <1>7. CASE Attach(p)
    <2>1. PICK s \in Submissions : \E g \in FilesOf[s], b \in Attachments :
             arriving[g] = "uploaded" /\ Goes(p, [at |-> "taking", file |-> g, to |-> b])
      BY <1>7 DEF Attach
    <2>2. PICK g, b : arriving[g] = "uploaded" /\ Goes(p, [at |-> "taking", file |-> g, to |-> b])
      BY <2>1
    <2>3. handler'[p] = [at |-> "taking", file |-> g, to |-> b]
      BY <2>2, <1>g
    <2>4. handler[p].at = "idle" /\ arriving' = arriving /\ disk' = disk /\ sweep' = sweep /\ cut' = cut
      BY <1>7, MadeNames DEF Attach, ghosts
    <2>5. handler'[p].at = "taking" /\ handler'[p].file = g
      BY <2>3
    <2>6. (Busy({"in place"}, f)' <=> Busy({"in place"}, f)) /\ (Busy({"moved"}, f)' <=> Busy({"moved"}, f))
      BY <2>4, <2>5, <1>b
    <2>7. f \in RequestHolds' => f \in RequestHolds
      BY <2>4, <1>h
    <2>8. Takes1(handler'[p], f) => arriving'[f] = "uploaded"
      BY <2>2, <2>4, <2>5 DEF Takes1
    <2>9. There(f) => There(f)'
      BY <2>4 DEF There
    <2> QED
      BY <2>4, <2>6, <2>7, <2>8, <2>9, <1>i, <1>w DEF RequestOf
  <1>8. CASE MoveFile(p)
    <2>1. handler[p].at = "taking" /\ arriving' = arriving /\ sweep' = sweep /\ cut' = cut
      BY <1>8 DEF MoveFile, rows, ghosts
    <2>2. /\ Concerns(handler[p]) = {handler[p].file, handler[p].to} /\ handler[p].to \in Attachments
          /\ handler'[p] = [at |-> "moved", file |-> handler[p].file, to |-> handler[p].to]
          /\ Concerns(handler'[p]) = Concerns(handler[p])
      BY <1>8, KeepingSteps
    <2>3. CASE f # handler[p].file
      BY <2>1, <2>2, <2>3, <1>a, <1>l
    <2>4. CASE f = handler[p].file
      <3>1. Takes1(handler[p], f)
        BY <2>1, <2>4 DEF Takes1
      <3>2. arriving'[f] \in {"uploaded", "taken"}
        BY <3>1, <2>1, <1>i DEF RequestOf
      <3>3. handler'[p].at = "moved" /\ handler'[p].file = f
        BY <2>2, <2>4
      <3>4. Busy({"moved"}, f)'
        BY <3>3 DEF Busy
      <3> QED
        BY <3>2, <3>4, <2>1, <1>h, <1>i DEF RequestOf
    <2> QED
      BY <2>3, <2>4
  <1>9. CASE TakeRequestFile(p)
    <2>1. handler[p].at = "moved" /\ sweep' = sweep /\ handler'[p] = Idle
      BY <1>9, <1>g DEF TakeRequestFile
    <2>2. handler[p].to \in Attachments
      BY <2>1, <1>t DEF Shape
    <2>3. CASE f # handler[p].file
      <3>1. f \notin Concerns(handler[p])
        BY <2>1, <2>2, <2>3, <1>a DEF Concerns
      <3> QED
        BY <3>1, <2>1, <1>l, MadeConcerns
    <2>4. CASE f = handler[p].file
      <3>1. arriving'[f] = "taken"
        BY <1>9, <2>4, <1>t DEF TakeRequestFile
      <3> QED
        BY <3>1, <2>1, <1>h, <1>i DEF RequestOf
    <2> QED
      BY <2>3, <2>4
  <1>10. CASE MoveBack(p)
    <2>1. handler[p].at = "moved" /\ arriving' = arriving /\ sweep' = sweep /\ handler'[p] = Idle
      BY <1>10, <1>g DEF MoveBack, rows
    <2>2. handler[p].to \in Attachments
      BY <2>1, <1>t DEF Shape
    <2>3. CASE f # handler[p].file
      <3>1. f \notin Concerns(handler[p])
        BY <2>1, <2>2, <2>3, <1>a DEF Concerns
      <3> QED
        BY <3>1, <2>1, <1>l, MadeConcerns
    <2>4. CASE f = handler[p].file
      <3>1. Takes1(handler[p], f)
        BY <2>1, <2>4 DEF Takes1
      <3>2. arriving'[f] \in {"uploaded", "taken"}
        BY <3>1, <2>1, <1>i DEF RequestOf
      <3>3. There(f)'
        <4>1. \/ disk[handler[p].to] # "none" /\ disk' = [disk EXCEPT ![f] = disk[handler[p].to], ![handler[p].to] = "none"]
              \/ f \in cut'
          BY <1>10, <2>4 DEF MoveBack
        <4>2. f # handler[p].to
          BY <2>2, <1>a
        <4> QED
          BY <4>1, <4>2, <1>t, <1>a DEF There
      <3>4. \A q \in Handlers : handler'[q] = handler[q] \/ ~Takes1(handler'[q], f)
        BY <2>1, <1>w, MadeNames
      <3> QED
        BY <3>2, <3>3, <3>4, <2>1, <1>h, <1>i DEF RequestOf
    <2> QED
      BY <2>3, <2>4
  <1>11. CASE KeepFile(p)
    <2>1. /\ handler[p].file \in Files /\ arriving' = arriving /\ sweep' = sweep /\ cut' = cut
          /\ handler[p].at = "receiving" /\ disk' = [disk EXCEPT ![handler[p].file] = "young"]
      BY <1>11, <1>t DEF KeepFile, Keep, Shape, rows, ghosts
    <2>2. /\ Concerns(handler[p]) = {handler[p].file}
          /\ handler'[p] = [at |-> "in place", file |-> handler[p].file]
          /\ Concerns(handler'[p]) = Concerns(handler[p])
      BY <1>11, KeepingSteps
    <2>3. CASE f # handler[p].file
      BY <2>1, <2>2, <2>3, <1>l
    <2>4. CASE f = handler[p].file
      <3>1. There(f)'
        BY <2>1, <2>4, <1>t DEF There
      <3>2. Busy({"in place"}, f)'
        BY <2>2, <2>4, BusyIs
      <3>3. ~Takes1(handler'[p], f)
        BY <2>2, MadeNames
      <3> QED
        BY <3>1, <3>2, <3>3, <2>1, <1>h, <1>i, <1>w DEF RequestOf
    <2> QED
      BY <2>3, <2>4
  <1>12. CASE GiveUp(p)
    <2>1. arriving' = arriving /\ sweep' = sweep /\ disk' = disk /\ cut' = cut \cup LeftInPlace(p) /\ handler'[p] = Idle
          /\ started' = started
      BY <1>12, <1>g DEF GiveUp, rows
    <2>2. f \in RequestHolds' <=> f \in RequestHolds
      BY <2>1, HoldsIs, HoldsIsNext
    <2>3. There(f) => There(f)'
      BY <2>1 DEF There
    <2>4. Busy({"in place"}, f)' => Busy({"in place"}, f)
      BY <2>1, <1>w, MadeNames DEF Busy
    <2>5. Busy({"in place"}, f) => Busy({"in place"}, f)' \/ f \in cut'
      BY <2>1, <1>w DEF Busy, LeftInPlace
    <2>6. Busy({"moved"}, f) => Busy({"moved"}, f)' \/ There(f)'
      BY <2>1, <1>w DEF Busy, LeftInPlace, There
    <2>7. \A q \in Handlers : handler'[q] = handler[q] \/ ~Takes1(handler'[q], f)
      BY <2>1, <1>w, MadeNames
    <2> QED
      BY <2>1, <2>2, <2>3, <2>4, <2>5, <2>6, <2>7, <1>i DEF RequestOf
  <1> QED
    BY <1>1, <1>2, <1>3, <1>4, <1>5, <1>6, <1>7, <1>8, <1>9, <1>10, <1>11, <1>12 DEF Client, AttachmentStep, SendStep

LEMMA RequestsNext ==
    ASSUME FilesTyped, Starting, Removing, RequestsInv, [Next]_vars
    PROVE  RequestsInv'
  <1> SUFFICES ASSUME NEW f \in RequestFiles PROVE RequestOf(f)'
    BY DEF RequestsInv
  <1>t. /\ handler \in [Handlers -> Steps] /\ disk \in [Files -> {"none", "young", "old"}]
    BY DEF FilesTyped
  <1>a. f \in Files /\ f \notin Attachments /\ f \notin Sends
    BY PlacesAssumption DEF Files
  <1>i. RequestOf(f)
    BY DEF RequestsInv
  <1>h. handler' = handler => (f \in RequestHolds' => f \in RequestHolds)
    BY NoStart
  <1>k. handler' = handler /\ Leaves(f) => RequestOf(f)'
    BY <1>h, <1>i, RequestLeft
  <1>n. handler' = handler /\ f \notin RequestHolds /\ arriving' = arriving => RequestOf(f)'
    BY <1>h, <1>i, NotHeld
  <1>1. ASSUME NEW p \in Handlers, Client(p) PROVE RequestOf(f)'
    BY <1>1, <1>i, RequestClient
  <1>2. CASE \/ \E a \in Attachments : DeleteAttachment(a)
             \/ \E r \in Sends : DeleteSend(r)
             \/ \E r \in Submissions : CompleteSubmission(r)
             \/ DeleteItem \/ CreateRequest \/ UpdateRequest \/ SweepFileRequests \/ SweepEnds \/ SweepRows \/ RunsOut
             \/ UNCHANGED vars \/ \E g \in Files : AWeekAfter(g)
    <2>1. Leaves(f)
      BY <1>2, <1>a, OthersLeave
    <2>2. handler' = handler
      BY <1>2 DEF DeleteAttachment, DeleteSend, CompleteSubmission, DeleteItem, CreateRequest, UpdateRequest,
         SweepFileRequests, SweepEnds, SweepRows, RunsOut, vars, AWeekAfter
    <2> QED
      BY <2>1, <2>2, <1>k
  <1>3. CASE SweepTakes
    <2>1. handler' = handler /\ arriving' = arriving
      BY <1>3 DEF SweepTakes, rows
    <2>2. CASE f \notin sweep.taking
      BY <1>3, <2>1, <2>2, <1>a, <1>k, OthersLeave
    <2>3. CASE f \in sweep.taking
      BY <2>1, <2>3, <1>i, <1>n DEF RequestOf
    <2> QED
      BY <2>2, <2>3
  <1>4. CASE SweepRemoves
    <2>1. handler' = handler /\ arriving' = arriving
      BY <1>4 DEF SweepRemoves, rows
    <2>2. CASE f \notin sweep.todo
      BY <1>4, <2>1, <2>2, <1>a, <1>k, OthersLeave
    <2>3. CASE f \in sweep.todo
      <3>1. Dead(f)
        BY <1>4, <2>3 DEF SweepRemoves, Removing
      <3> QED
        BY <3>1, <2>1, <1>n, DeadNotHeld
    <2> QED
      BY <2>2, <2>3
  <1>5. ASSUME NEW g \in Files, SweepLooks(g) PROVE RequestOf(f)'
    <2>1. handler' = handler /\ arriving' = arriving
      BY <1>5 DEF SweepLooks, rows
    <2>2. CASE Orphan(f)
      <3>1. f \notin RequestHolds
        BY <2>2, <1>a DEF Orphan, Claimed
      <3> QED
        BY <3>1, <2>1, <1>n
    <2>3. CASE ~Orphan(f)
      BY <1>5, <2>1, <2>3, <1>a, <1>k, OthersLeave
    <2> QED
      BY <2>2, <2>3
  <1>6. ASSUME NEW g \in Files, Ages(g) PROVE RequestOf(f)'
    <2>1. handler' = handler /\ arriving' = arriving /\ sweep' = sweep /\ cut' = cut
      BY <1>6 DEF Ages, rows, ghosts
    <2>2. CASE f # g
      BY <1>6, <2>1, <2>2, <1>a, <1>k, OthersLeave
    <2>3. CASE f = g
      <3>1. disk[f] = "young" /\ disk'[f] = "old"
        BY <1>6, <2>3, <1>t, <1>a DEF Ages
      <3>2. There(f)'
        BY <3>1 DEF There
      <3>3. Busy({"in place"}, f)' <=> Busy({"in place"}, f)
        BY <2>1 DEF Busy
      <3> QED
        BY <3>1, <3>2, <3>3, <2>1, <1>h, <1>i DEF RequestOf
    <2> QED
      BY <2>2, <2>3
  <1>7. CASE Crash
    <2>1. handler' = [p \in Handlers |-> Idle] /\ disk' = disk /\ sweep'.taking = {} /\ arriving' = arriving
          /\ started' = started /\ cut' = cut \cup UNION {LeftInPlace(p) : p \in Handlers}
      BY <1>7 DEF Crash, NotSweeping, rows
    <2>2. f \in RequestHolds' <=> f \in RequestHolds
      BY <2>1, HoldsIs, HoldsIsNext
    <2>3. \A q \in Handlers : ~Takes1(handler'[q], f) /\ handler'[q].at = "idle"
      BY <2>1, MadeNames
    <2>4. ~Busy({"in place"}, f)'
      BY <2>3 DEF Busy
    <2>5. Busy({"in place"}, f) \/ Busy({"moved"}, f) => f \in cut'
      <3>1. ASSUME NEW p \in Handlers, handler[p].at \in {"in place", "moved"}, handler[p].file = f PROVE f \in cut'
        <4>1. f \in LeftInPlace(p)
          BY <3>1 DEF LeftInPlace
        <4> QED
          BY <4>1, <2>1
      <3> QED
        BY <3>1 DEF Busy
    <2>6. There(f) => There(f)'
      BY <2>1 DEF There
    <2> QED
      BY <2>1, <2>2, <2>3, <2>4, <2>5, <2>6, <1>i DEF RequestOf, There
  <1> QED
    BY <1>1, <1>2, <1>3, <1>4, <1>5, <1>6, <1>7 DEF Next, Sweeping

(***************************************************************************)
(* Limits                                                                  *)
(***************************************************************************)
(* What a step that opens no Send leaves of its limits.                    *)
LEMMA LimitKept ==
    ASSUME NEW s \in Sends, LimitOf(s), opened'[s] = opened[s], most'[s] = most[s],
           \/ sends'[s].is # "saved"
           \/ sends'[s].is = sends[s].is /\ sends'[s].count = sends[s].count /\ sends'[s].max = sends[s].max
    PROVE  LimitOf(s)'
  BY DEF LimitOf

LEMMA LimitSaved ==
    ASSUME FilesTyped, NEW r \in Sends, NEW row \in Row, SaveSend(r, row), NEW s \in Sends, LimitOf(s)
    PROVE  LimitOf(s)'
  <1>t. /\ sends \in [Sends -> Row] /\ opened \in [Sends -> Nat] /\ most \in [Sends -> Nat]
        /\ row.max \in Nat /\ row.count \in Nat /\ sends[s].count \in Nat /\ sends[s].max \in Nat
    BY FilesBounds DEF FilesTyped, Row
  <1>1. CASE s # r
    <2>1. sends'[s] = sends[s] /\ opened'[s] = opened[s] /\ most'[s] = most[s]
      BY <1>1, <1>t DEF SaveSend
    <2> QED
      BY <2>1, LimitKept
  <1>2. CASE s = r /\ sends[s].is = "saved"
    <2>1. sends'[s].count = sends[s].count /\ sends'[s].max = row.max
      BY <1>2, <1>t DEF SaveSend, Written, Row
    <2>2. opened'[s] = opened[s] /\ most'[s] = IF row.max > most[s] THEN row.max ELSE most[s]
      BY <1>2, <1>t DEF SaveSend
    <2> QED
      BY <1>2, <1>t, <2>1, <2>2 DEF LimitOf
  <1>3. CASE s = r /\ sends[s].is # "saved"
    <2>1. sends'[s] = row
      BY <1>3, <1>t DEF SaveSend, Written
    <2>2. opened'[s] = 0 /\ most'[s] = row.max
      BY <1>3, <1>t DEF SaveSend
    <2> QED
      BY <1>t, <2>1, <2>2 DEF LimitOf
  <1> QED
    BY <1>1, <1>2, <1>3

LEMMA LimitClient ==
    ASSUME FilesTyped, NEW p \in Handlers, Client(p), NEW s \in Sends, LimitOf(s)
    PROVE  LimitOf(s)'
  <1>t. /\ sends \in [Sends -> Row] /\ opened \in [Sends -> Nat] /\ most \in [Sends -> Nat]
        /\ Shape(handler[p])
        /\ sends[s].count \in Nat /\ sends[s].max \in Nat
    BY FilesBounds, Shapes DEF FilesTyped, Row
  <1>1. CASE SaveNewSend(p)
    <2>1. PICK body \in SendBodies : SaveSend(handler[p].file, Applied(body, NewSend))
      BY <1>1 DEF SaveNewSend
    <2>2. handler[p].file \in Sends /\ Applied(body, NewSend) \in Row
      BY <1>1, RowsTyped DEF SaveNewSend
    <2> QED
      BY <2>1, <2>2, LimitSaved
  <1>2. CASE UpdateSend(p)
    <2>1. PICK body \in SendBodies : SaveSend(handler[p].file, Applied(body, handler[p].row))
      BY <1>2 DEF UpdateSend
    <2>2. handler[p].file \in Sends /\ Applied(body, handler[p].row) \in Row
      BY <1>2, <1>t, RowsTyped DEF UpdateSend, Shape
    <2> QED
      BY <2>1, <2>2, LimitSaved
  <1>3. CASE SendFileUploaded(p)
    <2>1. sends'[s].is = sends[s].is /\ sends'[s].count = sends[s].count /\ sends'[s].max = sends[s].max
      BY <1>3, <1>t DEF SendFileUploaded, Row
    <2> QED
      BY <1>3, <2>1, LimitKept DEF SendFileUploaded, ghosts
  <1>4. CASE RegisterSendAccess(p)
    <2>1. most' = most
      BY <1>4 DEF RegisterSendAccess
    <2>2. CASE s = handler[p].file /\ Counts(sends[s])
      <3>1. sends'[s].count = sends[s].count + 1 /\ sends'[s].max = sends[s].max /\ opened'[s] = opened[s] + 1
        BY <1>4, <1>t, <2>2 DEF RegisterSendAccess, Row
      <3>2. sends[s].is = "saved" /\ sends[s].count < sends[s].max
        BY <2>2 DEF Counts
      <3> QED
        BY <1>t, <2>1, <3>1, <3>2 DEF LimitOf
    <2>3. CASE ~(s = handler[p].file /\ Counts(sends[s]))
      <3>1. sends'[s] = sends[s] /\ opened'[s] = opened[s]
        BY <1>4, <1>t, <2>3 DEF RegisterSendAccess
      <3> QED
        BY <2>1, <3>1, LimitKept
    <2> QED
      BY <2>2, <2>3
  <1>5. CASE AttachmentStep(p)
    <2>1. sends' = sends /\ opened' = opened /\ most' = most
      BY <1>5 DEF AttachmentStep, Announce, AnnouncedAttachment, AddAttachment, UploadAttachment, AttachmentUploaded,
         UploadLegacy, KeepLegacy, AddLegacy, rows, ghosts
    <2> QED
      BY <2>1, LimitKept
  <1>6. CASE CreateFile(p) \/ UploadSend(p) \/ ReadSend(p) \/ AccessFile(p)
    <2>1. sends' = sends /\ opened' = opened /\ most' = most
      BY <1>6 DEF CreateFile, UploadSend, ReadSend, AccessFile, rows, ghosts
    <2> QED
      BY <2>1, LimitKept
  <1>7. CASE \/ OpenRequest(p) \/ StartSubmission(p) \/ UploadPart(p) \/ RequestFileUploaded(p) \/ RemoveRequest(p)
             \/ RemoveFile(p) \/ \E r \in Submissions : RemoveSubmission(p, r)
    <2>1. sends' = sends /\ opened' = opened /\ most' = most
      BY <1>7 DEF OpenRequest, StartSubmission, UploadPart, RequestFileUploaded, RemoveRequest, RemoveFile,
         RemoveSubmission, rows, ghosts
    <2> QED
      BY <2>1, LimitKept
  <1>8. CASE Attach(p) \/ MoveFile(p) \/ TakeRequestFile(p) \/ MoveBack(p) \/ KeepFile(p) \/ GiveUp(p)
    <2>1. sends' = sends /\ opened' = opened /\ most' = most
      BY <1>8 DEF Attach, MoveFile, TakeRequestFile, MoveBack, KeepFile, GiveUp, rows, ghosts
    <2> QED
      BY <2>1, LimitKept
  <1> QED
    BY <1>1, <1>2, <1>3, <1>4, <1>5, <1>6, <1>7, <1>8 DEF Client, AttachmentStep

LEMMA LimitNext ==
    ASSUME FilesTyped, [Next]_vars, NEW s \in Sends, LimitOf(s)
    PROVE  LimitOf(s)'
  <1>t. sends \in [Sends -> Row]
    BY DEF FilesTyped
  <1>1. ASSUME NEW p \in Handlers, Client(p) PROVE LimitOf(s)'
    BY <1>1, LimitClient
  <1>2. CASE (\E r \in Sends : DeleteSend(r)) \/ SweepRows
    <2>1. opened' = opened /\ most' = most
      BY <1>2 DEF DeleteSend, SweepRows
    <2>2. sends'[s] = sends[s] \/ sends'[s] = [NoRow EXCEPT !.is = "gone"]
      BY <1>2, <1>t DEF DeleteSend, SweepRows
    <2>3. [NoRow EXCEPT !.is = "gone"].is = "gone"
      BY DEF NoRow
    <2>4. CASE sends'[s] = sends[s]
      BY <2>1, <2>4, LimitKept
    <2>5. CASE sends'[s] = [NoRow EXCEPT !.is = "gone"]
      BY <2>1, <2>3, <2>5, LimitKept
    <2> QED
      BY <2>2, <2>4, <2>5
  <1>3. CASE RunsOut
    <2>1. sends'[s].is = sends[s].is /\ sends'[s].count = sends[s].count /\ sends'[s].max = sends[s].max
      BY <1>3, <1>t DEF RunsOut, Row
    <2> QED
      BY <1>3, <2>1, LimitKept DEF RunsOut, ghosts
  <1>4. CASE (\E a \in Attachments : DeleteAttachment(a)) \/ (\E r \in Submissions : CompleteSubmission(r))
             \/ DeleteItem \/ CreateRequest \/ UpdateRequest \/ Crash \/ UNCHANGED vars
    <2>1. sends' = sends /\ opened' = opened /\ most' = most
      BY <1>4 DEF DeleteAttachment, CompleteSubmission, DeleteItem, CreateRequest, UpdateRequest, Crash, vars, rows, ghosts
    <2> QED
      BY <2>1, LimitKept
  <1>5. CASE SweepTakes \/ SweepFileRequests \/ SweepRemoves \/ SweepEnds
             \/ \E f \in Files : SweepLooks(f) \/ Ages(f) \/ AWeekAfter(f)
    <2>1. sends' = sends /\ opened' = opened /\ most' = most
      BY <1>5 DEF SweepTakes, SweepFileRequests, SweepRemoves, SweepEnds, SweepLooks, Ages, AWeekAfter, rows, ghosts
    <2> QED
      BY <2>1, LimitKept
  <1> QED
    BY <1>1, <1>2, <1>3, <1>4, <1>5 DEF Next, Sweeping

(* How much a request may take only grows while it is there.               *)
Allowance == request.is = "saved" => request.max <= allowed

LEMMA AllowanceNext ==
    ASSUME FilesTyped, Allowance, [Next]_vars
    PROVE  Allowance' /\ (request.is # "new" => allowed <= allowed')
  <1>t. /\ request \in [is : {"new", "saved", "gone"}, closed : BOOLEAN, max : Nat, count : Nat] /\ allowed \in Nat
        /\ request.max \in Nat
    BY DEF FilesTyped
  <1>k. ASSUME allowed' = allowed, request'.is = "saved" => request.is = "saved", request'.max = request.max
        PROVE  Allowance' /\ (request.is # "new" => allowed <= allowed')
    BY <1>k, <1>t DEF Allowance
  <1>1. ASSUME NEW p \in Handlers, AttachmentStep(p) PROVE allowed' = allowed /\ request' = request
    BY <1>1 DEF AttachmentStep, Announce, AnnouncedAttachment, AddAttachment, UploadAttachment, AttachmentUploaded,
       UploadLegacy, KeepLegacy, AddLegacy, rows, ghosts
  <1>2. ASSUME NEW p \in Handlers, SendStep(p) PROVE allowed' = allowed /\ request' = request
    BY <1>2 DEF SendStep, CreateFile, SaveNewSend, SaveSend, UploadSend, SendFileUploaded, ReadSend, UpdateSend,
         AccessFile, RegisterSendAccess, rows, ghosts
  <1>3. ASSUME NEW p \in Handlers, \/ OpenRequest(p) \/ StartSubmission(p) \/ UploadPart(p) \/ RequestFileUploaded(p)
                                   \/ RemoveFile(p) \/ \E r \in Submissions : RemoveSubmission(p, r)
        PROVE  allowed' = allowed /\ request' = request
    BY <1>3 DEF OpenRequest, StartSubmission, UploadPart, RequestFileUploaded, RemoveFile, RemoveSubmission, rows, ghosts
  <1>4. ASSUME NEW p \in Handlers, Attach(p) \/ MoveFile(p) \/ TakeRequestFile(p) \/ MoveBack(p) \/ KeepFile(p) \/ GiveUp(p)
        PROVE  allowed' = allowed /\ request' = request
    BY <1>4 DEF Attach, MoveFile, TakeRequestFile, MoveBack, KeepFile, GiveUp, rows, ghosts
  <1>5. CASE (\E a \in Attachments : DeleteAttachment(a)) \/ (\E r \in Sends : DeleteSend(r))
             \/ DeleteItem \/ Crash \/ UNCHANGED vars
    <2>1. allowed' = allowed /\ request' = request
      BY <1>5 DEF DeleteAttachment, DeleteSend, DeleteItem, Crash, vars, rows, ghosts
    <2> QED
      BY <2>1, <1>k
  <1>6. CASE SweepRows \/ SweepTakes \/ SweepRemoves \/ SweepEnds
             \/ \E f \in Files : SweepLooks(f) \/ Ages(f) \/ AWeekAfter(f)
    <2>1. allowed' = allowed /\ request' = request
      BY <1>6 DEF SweepRows, SweepTakes, SweepRemoves, SweepEnds, SweepLooks, Ages, AWeekAfter, rows, ghosts
    <2> QED
      BY <2>1, <1>k
  <1>7. CASE WithoutRequest /\ allowed' = allowed
    <2>1. request'.is = "gone"
      BY <1>7, <1>t DEF WithoutRequest
    <2> QED
      BY <1>7, <1>t, <2>1 DEF Allowance
  <1>8. CASE SweepFileRequests \/ \E p \in Handlers : RemoveRequest(p)
    <2>1. allowed' = allowed /\ (request' = request \/ WithoutRequest)
      BY <1>8 DEF SweepFileRequests, RemoveRequest, ghosts
    <2> QED
      BY <2>1, <1>k, <1>7
  <1>9. CASE (\E r \in Submissions : CompleteSubmission(r)) \/ RunsOut
    <2>1. request'.is = request.is /\ request'.max = request.max /\ allowed' = allowed
      BY <1>9, <1>t DEF CompleteSubmission, RunsOut, ghosts
    <2> QED
      BY <2>1, <1>k
  <1>10. CASE CreateRequest
    <2>1. PICK body \in RequestBodies : /\ request' = [is |-> "saved", closed |-> body.closed, max |-> body.max, count |-> 0]
                                        /\ allowed' = body.max
      BY <1>10 DEF CreateRequest
    <2>2. request.is = "new" /\ body.max \in Nat
      BY <1>10, FS_CardinalityType, FilesOfAssumption DEF CreateRequest, RequestBodies
    <2> QED
      BY <2>1, <2>2 DEF Allowance
  <1>11. CASE UpdateRequest
    <2>1. PICK body \in RequestBodies : /\ request' = [request EXCEPT !.max = body.max, !.closed = body.closed]
                                        /\ allowed' = IF body.max > allowed THEN body.max ELSE allowed
      BY <1>11 DEF UpdateRequest
    <2>2. body.max \in Nat
      BY FS_CardinalityType, FilesOfAssumption DEF RequestBodies
    <2>3. request'.max = body.max
      BY <2>1, <1>t
    <2>4. body.max <= allowed' /\ allowed <= allowed'
      BY <2>1, <2>2, <1>t
    <2> QED
      BY <2>3, <2>4 DEF Allowance
  <1>12. ASSUME NEW p \in Handlers, Client(p) PROVE Allowance' /\ (request.is # "new" => allowed <= allowed')
    BY <1>12, <1>1, <1>2, <1>3, <1>4, <1>8, <1>k DEF Client, AttachmentStep, SendStep
  <1> QED
    BY <1>5, <1>6, <1>8, <1>9, <1>10, <1>11, <1>12 DEF Next, Sweeping

LEMMA SmallSets ==
    /\ IsFiniteSet(RequestFiles) /\ IsFiniteSet(RequestHolds) /\ IsFiniteSet(RequestHolds')
    /\ IsFiniteSet(Begun) /\ IsFiniteSet(Begun')
    /\ \A s \in Submissions : IsFiniteSet(FilesOf[s])
    /\ RequestHolds \subseteq RequestFiles /\ RequestHolds' \subseteq RequestFiles
  <1>1. IsFiniteSet(RequestFiles)
    BY PlacesAssumption, FS_Subset DEF Files
  <1>2. \A s \in Submissions : FilesOf[s] \subseteq RequestFiles
    BY FilesOfAssumption
  <1>3. RequestHolds \subseteq RequestFiles /\ RequestHolds' \subseteq RequestFiles
    BY <1>2 DEF RequestHolds, Begun, Coming
  <1>4. Begun \subseteq Submissions /\ Begun' \subseteq Submissions
    BY DEF Begun
  <1> QED
    BY <1>1, <1>2, <1>3, <1>4, FilesOfAssumption, FS_Subset

(* A submission more, within both limits.                                  *)
LEMMA StartsWithin ==
    ASSUME FilesTyped, Starting, Allowance, RequestWithinLimits, [Next]_vars, NEW p \in Handlers, StartSubmission(p)
    PROVE  RequestWithinLimits'
  <1> DEFINE s == handler[p].submission
  <1>t. /\ started \in [Submissions -> {"new", "started", "completed", "gone"}]
        /\ handler \in [Handlers -> Steps] /\ allowed \in Nat /\ request.max \in Nat
        /\ arriving \in [RequestFiles -> {"none", "pending", "uploaded", "taken"}]
    BY DEF FilesTyped
  <1>s. s \in Submissions
    BY <1>t, Shapes DEF StartSubmission, Shape
  <1>1. allowed' = allowed
    BY DEF StartSubmission, ghosts
  <1>2. CASE Takes(s)
    <2>1. started' = [started EXCEPT ![s] = "started"]
      BY <1>2 DEF StartSubmission
    <2>2. \A f \in RequestFiles : arriving'[f] = IF f \in FilesOf[s] THEN "pending" ELSE arriving[f]
      BY <1>2 DEF StartSubmission
    <2>3. Begun' \subseteq Begun \cup {s}
      BY <2>1, <1>t, <1>s DEF Begun
    <2>4. RequestHolds' \subseteq RequestHolds \cup FilesOf[s]
      <3>1. SUFFICES ASSUME NEW f \in RequestHolds', f \notin FilesOf[s] PROVE f \in RequestHolds
        OBVIOUS
      <3>2. f \in RequestFiles
        BY SmallSets
      <3>3. PICK r \in Submissions : /\ started'[r] \in {"started", "completed"} /\ f \in FilesOf[r]
                                     /\ arriving'[f] \in {"pending", "uploaded"}
        BY HoldsIsNext
      <3>4. started[r] \in {"started", "completed"} /\ arriving[f] \in {"pending", "uploaded"}
        BY <2>1, <2>2, <1>t, <3>1, <3>2, <3>3
      <3> QED
        BY <3>3, <3>4, HoldsIs
    <2>5. /\ Cardinality(Begun) < request.max /\ request.max <= allowed
          /\ Cardinality(RequestHolds) + Cardinality(FilesOf[s]) <= RequestLimit
      BY <1>2 DEF Takes, RequestOpen, Allowance
    <2>6. Cardinality(Begun') <= Cardinality(Begun) + 1
      <3>0. IsFiniteSet(Begun) /\ Cardinality(Begun) \in Nat
        BY SmallSets, FS_CardinalityType
      <3>1. IsFiniteSet(Begun \cup {s}) /\ Cardinality(Begun \cup {s}) <= Cardinality(Begun) + 1
        <4>1. /\ IsFiniteSet(Begun \cup {s})
              /\ Cardinality(Begun \cup {s}) = IF s \in Begun THEN Cardinality(Begun) ELSE Cardinality(Begun) + 1
          BY <3>0, FS_AddElement
        <4> QED
          BY <3>0, <4>1
      <3>2. Cardinality(Begun') <= Cardinality(Begun \cup {s})
        BY <3>1, <2>3, FS_Subset
      <3> QED
        BY <3>1, <3>2, SmallSets, FS_CardinalityType
    <2>7. Cardinality(RequestHolds') <= Cardinality(RequestHolds) + Cardinality(FilesOf[s])
      <3>1. IsFiniteSet(RequestHolds) /\ IsFiniteSet(FilesOf[s])
        BY SmallSets, <1>s
      <3>2. /\ IsFiniteSet(RequestHolds \cup FilesOf[s])
            /\ Cardinality(RequestHolds \cup FilesOf[s]) =
               Cardinality(RequestHolds) + Cardinality(FilesOf[s]) - Cardinality(RequestHolds \cap FilesOf[s])
        BY <3>1, FS_Union
      <3>3. IsFiniteSet(RequestHolds \cap FilesOf[s])
        BY <3>1, FS_Subset
      <3>4. /\ Cardinality(RequestHolds) \in Nat /\ Cardinality(FilesOf[s]) \in Nat
            /\ Cardinality(RequestHolds \cap FilesOf[s]) \in Nat
        BY <3>1, <3>3, FS_CardinalityType
      <3>5. Cardinality(RequestHolds') <= Cardinality(RequestHolds \cup FilesOf[s])
        BY <3>2, <2>4, FS_Subset
      <3> QED
        BY <3>2, <3>4, <3>5, SmallSets, FS_CardinalityType
    <2>8. /\ Cardinality(Begun) \in Nat /\ Cardinality(Begun') \in Nat /\ Cardinality(RequestHolds) \in Nat
          /\ Cardinality(RequestHolds') \in Nat /\ Cardinality(FilesOf[s]) \in Nat
      BY SmallSets, <1>s, FS_CardinalityType
    <2>9. Cardinality(RequestHolds') <= RequestLimit
      BY <2>5, <2>7, <2>8, FilesBounds
    <2>10. Cardinality(Begun') <= allowed'
      BY <2>5, <2>6, <2>8, <1>1, <1>t
    <2> QED
      BY <2>9, <2>10 DEF RequestWithinLimits
  <1>3. CASE ~Takes(s)
    <2>1. started' = started /\ arriving' = arriving
      BY <1>3 DEF StartSubmission
    <2>2. Begun' = Begun /\ RequestHolds' = RequestHolds
      BY <2>1 DEF Begun, RequestHolds, Coming
    <2> QED
      BY <2>2, <1>1 DEF RequestWithinLimits
  <1> QED
    BY <1>2, <1>3

LEMMA WithinNext ==
    ASSUME FilesTyped, Starting, Allowance, RequestWithinLimits, [Next]_vars
    PROVE  RequestWithinLimits'
  <1>1. CASE \E p \in Handlers : StartSubmission(p)
    BY <1>1, StartsWithin
  <1>2. CASE ~\E p \in Handlers : StartSubmission(p)
    <2>1. RequestHolds' \subseteq RequestHolds
      BY <1>2, HoldsGrow, SmallSets
    <2>2. Begun' \subseteq Begun
      BY <1>2, SubmissionMoves DEF Begun
    <2>3. Cardinality(RequestHolds') <= Cardinality(RequestHolds) /\ Cardinality(Begun') <= Cardinality(Begun)
      BY <2>1, <2>2, SmallSets, FS_Subset
    <2>4. /\ Cardinality(RequestHolds') \in Nat /\ Cardinality(RequestHolds) \in Nat
          /\ Cardinality(Begun') \in Nat /\ Cardinality(Begun) \in Nat
      BY SmallSets, FS_CardinalityType
    <2>5. Cardinality(RequestHolds') <= RequestLimit
      BY <2>3, <2>4, FilesBounds DEF RequestWithinLimits
    <2>6. Cardinality(Begun') <= allowed'
      <3>1. CASE request.is # "new"
        <4>1. allowed <= allowed' /\ allowed \in Nat /\ allowed' \in Nat
          BY <3>1, AllowanceNext, TypedNext DEF FilesTyped
        <4> QED
          BY <2>3, <2>4, <4>1 DEF RequestWithinLimits
      <3>2. CASE request.is = "new"
        <4>1. Begun' = {}
          BY <3>2, <2>2 DEF Starting
        <4>2. allowed' \in Nat
          BY TypedNext DEF FilesTyped
        <4> QED
          BY <4>1, <4>2, FS_EmptySet
      <3> QED
        BY <3>1, <3>2
    <2> QED
      BY <2>5, <2>6 DEF RequestWithinLimits
  <1> QED
    BY <1>1, <1>2

LEMMA LimitsNext ==
    ASSUME FilesTyped, Starting, LimitsInv, [Next]_vars
    PROVE  LimitsInv'
  <1>1. \A s \in Sends : LimitOf(s)'
    BY LimitNext DEF LimitsInv
  <1>2. Allowance'
    BY AllowanceNext DEF LimitsInv, Allowance
  <1>3. RequestWithinLimits'
    BY WithinNext DEF LimitsInv, Allowance
  <1> QED
    BY <1>1, <1>2, <1>3 DEF LimitsInv, Allowance

(***************************************************************************)
(* The theorems                                                            *)
(***************************************************************************)
LEMMA InitIInv ==
    ASSUME Init
    PROVE  IInv
  <1>h. \A p \in Handlers : handler[p] = Idle /\ handler[p].at = "idle"
    BY MadeNames DEF Init
  <1>0. 0 \in 0..MaxAccess /\ NoRow \in Row
    BY RowsTyped, FilesBounds
  <1>s. \A s \in Sends : sends[s].is = "new"
    BY DEF Init, NoRow
  <1>u. \A f \in Files : Unused(f)
    BY DEF Init, Unused, NotSweeping
  <1>n. \A p \in Handlers : \A f : ~Brings(handler[p], f) /\ ~Takes1(handler[p], f) /\ ~Names(handler[p], f)
    BY <1>h, MadeNames
  <1>b. Begun = {} /\ RequestHolds = {}
    BY DEF Init, Begun, RequestHolds
  <1>1. FilesTyped
    <2>1. handler \in [Handlers -> Steps]
      BY MadeSteps DEF Init
    <2>2. sends \in [Sends -> Row]
      BY <1>0 DEF Init
    <2>3. crashes \in 0..MaxCrashes
      BY FilesBounds DEF Init
    <2> QED
      BY <2>1, <2>2, <2>3 DEF Init, FilesTyped, NotSweeping
  <1>2. Ids
    BY <1>u, <1>n DEF Ids, IdOf, Init, Files
  <1>3. AttachmentsInv
    BY DEF AttachmentsInv, AttachmentOf, Waiting, Here, Init, NotSweeping
  <1>4. SendsInv
    BY <1>s, <1>u, <1>h DEF SendsInv, SendOf, Files
  <1>5. Starting
    <2>1. \A s \in Submissions : \A f \in FilesOf[s] : f \in Files
      BY FilesOfAssumption DEF Files
    <2> QED
      BY <1>b, <1>h, <1>u, <1>n, <2>1 DEF Starting
  <1>6. Removing
    BY <1>h DEF Removing, Init, NotSweeping
  <1>7. RequestsInv
    BY <1>b, <1>n, <1>u DEF RequestsInv, RequestOf, Unused, Files
  <1>8. LimitsInv
    BY <1>s, <1>b, FS_EmptySet, FilesBounds DEF LimitsInv, LimitOf, RequestWithinLimits, Init
  <1> QED
    BY <1>1, <1>2, <1>3, <1>4, <1>5, <1>6, <1>7, <1>8 DEF IInv

LEMMA NextIInv ==
    ASSUME IInv, [Next]_vars
    PROVE  IInv'
  <1>1. FilesTyped'
    BY TypedNext DEF IInv
  <1>2. Ids'
    BY IdsNext DEF IInv
  <1>3. AttachmentsInv'
    BY AttachmentsNext DEF IInv
  <1>4. SendsInv'
    BY SendsNext DEF IInv
  <1>5. Starting'
    BY StartingNext DEF IInv
  <1>6. Removing'
    BY RemovingNext DEF IInv
  <1>7. RequestsInv'
    BY RequestsNext DEF IInv
  <1>8. LimitsInv'
    BY LimitsNext DEF IInv
  <1> QED
    BY <1>1, <1>2, <1>3, <1>4, <1>5, <1>6, <1>7, <1>8 DEF IInv

(* Uploads, deletions, the sweep and crashes keep what the proofs rest on. *)
THEOREM FilesFit == Spec => []IInv
  <1>1. Init => IInv
    BY InitIInv
  <1>2. IInv /\ [Next]_vars => IInv'
    BY NextIInv
  <1> QED
    BY <1>1, <1>2, PTL DEF Spec

(* What the clients are told has arrived is there, wherever uploads were   *)
(* cut off, whatever was deleted meanwhile and whatever the sweep took.    *)
THEOREM ArrivedStays == Spec => []ArrivedIsThere
  <1>1. IInv => ArrivedIsThere
    BY DEF IInv, ArrivedIsThere, AttachmentsInv, AttachmentOf, Here, SendsInv, SendOf, RequestsInv, RequestOf, There
  <1> QED
    BY <1>1, FilesFit, PTL

(* A file is in the way of its own upload only where a request ended       *)
(* between its file and its row.                                           *)
THEOREM NothingElseBlocks == Spec => []OnlyEndedUploadsBlock
  <1>1. ASSUME IInv PROVE OnlyEndedUploadsBlock
    <2>1. ASSUME NEW a \in Attachments, disk[a] # "none", OnItem(a), attached[a] = "announced"
          PROVE  a \in cut \/ Busy({"in place"}, a)
      BY <1>1, <2>1 DEF IInv, AttachmentsInv, AttachmentOf, Waiting, OnItem
    <2>2. ASSUME NEW f \in RequestFiles, disk[f] # "none", f \in RequestHolds, arriving[f] = "pending"
          PROVE  f \in cut \/ Busy({"in place"}, f)
      BY <1>1, <2>2 DEF IInv, RequestsInv, RequestOf
    <2>3. \A f \in Attachments : f \notin RequestHolds
      BY SmallSets, PlacesAssumption
    <2> QED
      BY <2>1, <2>2, <2>3, PlacesAssumption DEF OnlyEndedUploadsBlock
  <1> QED
    BY <1>1, FilesFit, PTL

(* Neither a Send nor a file request passes its limits, however openings,  *)
(* submissions and updates meet.                                           *)
THEOREM LimitsHold == Spec => []LimitsKept
  <1>1. IInv => LimitsKept
    BY DEF IInv, LimitsInv, LimitOf, LimitsKept, OpenedWithinMost
  <1> QED
    BY <1>1, FilesFit, PTL
================================================================================
