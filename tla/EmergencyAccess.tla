--------------------------- MODULE EmergencyAccess ---------------------------
(***************************************************************************)
(* One emergency access: the grantor names a contact, who may see or take  *)
(* over the vault after asking and a wait, unless the grantor says no.     *)
(* A handler reads the access, awaits, and writes it back whole            *)
(* (save_emergency_access), which the database takes only when the         *)
(* revision is still the one that was read.  The hourly task approves what *)
(* has waited and reminds the grantor, each in a transaction of its own;   *)
(* the reminder leaves the revision as it is.  A key rotation brings new   *)
(* wraps for the contacts the client saw holding a key.                    *)
(*                                                                         *)
(* A wrapped key is the number of the user key under it.  The invitation's *)
(* token and its age are left out: who has the address may accept.  A      *)
(* revision is the number of the write; the code takes the clock, to the   *)
(* microsecond.                                                            *)
(***************************************************************************)
EXTENDS Integers

CONSTANTS
    Requests,      \* requests in flight at once, of either side
    Waits,         \* wait_days, in ticks
    Day,           \* ticks between two reminders
    MaxSaves,      \* bound: writes of the access by a request
    MaxRotations,  \* bound: user keys
    MaxTime        \* bound: the clock

ASSUME WaitsAssumption == Waits \subseteq Nat \ {0} /\ Day \in Nat
ASSUME EmergencyBounds == MaxSaves \in Nat /\ MaxRotations \in Nat /\ MaxTime \in Nat

VARIABLES
    access,     \* the row, "gone" when there is none
    saves,      \* writes so far: the newest revision, and the newest id
    userKey,    \* the grantor's user key
    handler,    \* each request: what it does and the access as it read it
    now,        \* the clock, in ticks
    asking,     \* times the contact asked (this and the rest for the properties)
    askedAt,    \* when it last did
    refused,    \* the last asking the grantor said no to
    granted,    \* the last asking approved, as the grantor or the task saw it
    mailed,     \* when the grantor was last told of this asking
    takenOver   \* the last asking that ended in a new master password

history == <<asking, askedAt, refused, granted, mailed, takenOver>>
vars == <<access, saves, userKey, handler, now, asking, askedAt, refused, granted, mailed, takenOver>>

Access ==
    [status : {"gone", "invited", "accepted", "confirmed", "asked", "approved"},
     id : Nat, revision : Nat, kind : {"view", "takeover"}, wait : Waits \cup {0},
     key : Nat, asked : Nat, notified : Nat]

Gone == [status |-> "gone", id |-> 0, revision |-> 0, kind |-> "view", wait |-> 0,
         key |-> 0, asked |-> 0, notified |-> 0]

Handler ==
    [op : {"none", "invite", "update", "accept", "confirm", "initiate", "approve", "reject",
           "delete", "password", "rotate"},
     seen : Access,
     key : Nat,         \* the user key its client knows
     asking : Nat]      \* `asking` when it read (for the properties)

Idle == [op |-> "none", seen |-> Gone, key |-> 0, asking |-> 0]

TypeOK ==
    /\ access \in Access
    /\ saves \in Nat /\ userKey \in Nat /\ now \in Nat
    /\ handler \in [Requests -> Handler]
    /\ asking \in Nat /\ askedAt \in Nat /\ refused \in Nat /\ granted \in Nat
    /\ mailed \in Nat /\ takenOver \in Nat

-----------------------------------------------------------------------------
(* A request reads the access and checks who asks and what for.            *)

Reading(op, a) == [op |-> op, seen |-> a, key |-> userKey, asking |-> asking]

Reads(h, op) ==
    /\ handler[h].op = "none"
    /\ handler' = [handler EXCEPT ![h] = Reading(op, access)]
    /\ UNCHANGED <<access, saves, userKey, now, history>>

ReadReinvite(h) == access.status = "invited" /\ Reads(h, "invite")
ReadUpdate(h) == access.status # "gone" /\ Reads(h, "update")
ReadAccept(h) == access.status = "invited" /\ Reads(h, "accept")
ReadConfirm(h) == access.status = "accepted" /\ Reads(h, "confirm")
ReadInitiate(h) == access.status = "confirmed" /\ Reads(h, "initiate")
ReadApprove(h) == access.status = "asked" /\ Reads(h, "approve")
ReadReject(h) == access.status \in {"asked", "approved"} /\ Reads(h, "reject")
ReadDelete(h) == access.status # "gone" /\ Reads(h, "delete")

ReadPassword(h) ==       \* approved(): then the password is hashed
    /\ access.status = "approved" /\ access.kind = "takeover"
    /\ Reads(h, "password")

ReadRotate(h) == Reads(h, "rotate")  \* the client wraps a new key for the contacts it sees

Leave(h) ==              \* refused ("changed in the meantime"), failed or cut off
    /\ handler[h].op # "none"
    /\ handler' = [handler EXCEPT ![h] = Idle]
    /\ UNCHANGED <<access, saves, userKey, now, history>>

-----------------------------------------------------------------------------
(* save_emergency_access.                                                  *)

(* Fault: written back whatever happened since.                            *)
StillThere(a, seen) == a.id = seen.id

(* Fault: the status compared in place of the revision.                    *)
SameStatus(a, seen) == a.id = seen.id /\ a.status = seen.status

Unchanged(a, seen) == a.id = seen.id /\ a.revision = seen.revision

Done(h, op) ==
    /\ handler[h].op = op
    /\ handler' = [handler EXCEPT ![h] = Idle]
    /\ UNCHANGED now

Numbered(new) == [new EXCEPT !.revision = saves + 1]

Writes(new) ==
    /\ saves < MaxSaves
    /\ saves' = saves + 1
    /\ access' = Numbered(new)

Save(h, op, new) ==
    /\ Done(h, op)
    /\ Unchanged(access, handler[h].seen)
    /\ Writes(new)
    /\ UNCHANGED userKey

Seen(h) == handler[h].seen

Invited(kind, wait) ==
    [status |-> "invited", id |-> saves + 1, revision |-> 0, kind |-> kind, wait |-> wait,
     key |-> 0, asked |-> 0, notified |-> 0]

Invite(h, kind, wait) ==     \* added; the token for the mail is saved next
    /\ access.status = "gone" /\ handler[h].op = "none"
    /\ Writes(Invited(kind, wait))
    /\ handler' = [handler EXCEPT ![h] = Reading("invite", access')]
    /\ UNCHANGED <<userKey, now, history>>

SaveToken(h) ==
    /\ Save(h, "invite", Seen(h))
    /\ UNCHANGED history

Update(h, kind, wait) ==     \* with a new wrap or without
    /\ \E key \in {Seen(h).key, handler[h].key} :
            Save(h, "update", [Seen(h) EXCEPT !.kind = kind, !.wait = wait, !.key = key])
    /\ UNCHANGED history

Accept(h) ==
    /\ Save(h, "accept", [Seen(h) EXCEPT !.status = "accepted"])
    /\ UNCHANGED history

Confirm(h) ==
    /\ Save(h, "confirm", [Seen(h) EXCEPT !.status = "confirmed", !.key = handler[h].key])
    /\ UNCHANGED history

Initiate(h) ==
    /\ \A w \in Waits : now + w <= MaxTime      \* bound: the wait ends before the clock
    /\ Save(h, "initiate", [Seen(h) EXCEPT !.status = "asked", !.asked = now, !.notified = now])
    /\ asking' = asking + 1 /\ askedAt' = now /\ mailed' = now
    /\ UNCHANGED <<refused, granted, takenOver>>

Approve(h) ==
    /\ Save(h, "approve", [Seen(h) EXCEPT !.status = "approved"])
    /\ granted' = handler[h].asking
    /\ UNCHANGED <<asking, askedAt, refused, mailed, takenOver>>

Reject(h) ==
    /\ Save(h, "reject", [Seen(h) EXCEPT !.status = "confirmed", !.asked = 0])
    /\ refused' = asking
    /\ UNCHANGED <<asking, askedAt, granted, mailed, takenOver>>

Delete(h) ==             \* whatever it has become since
    /\ Done(h, "delete")
    /\ access' = IF access.id = Seen(h).id THEN Gone ELSE access
    /\ UNCHANGED <<saves, userKey, history>>

ContactDeleted ==        \* the contact's account: ON DELETE CASCADE
    /\ access.status \notin {"gone", "invited"}
    /\ access' = Gone
    /\ UNCHANGED <<saves, userKey, handler, now, history>>

SetPassword(h) ==        \* update_user: the access is not looked at again
    /\ Done(h, "password")
    /\ takenOver' = handler[h].asking
    /\ UNCHANGED <<access, saves, userKey, asking, askedAt, refused, granted, mailed>>

-----------------------------------------------------------------------------
(* rotate_keys: refused unless every contact that holds a key gets one.    *)

Holding(a) == IF a.key = 0 THEN {} ELSE {a.id}

(* Fault: only asked that nobody who holds no key is given one.            *)
AtMost(given, holding) == given \subseteq holding

Matches(given, holding) == given = holding

Rotate(h) ==
    /\ userKey < MaxRotations
    /\ Done(h, "rotate")
    /\ Matches(Holding(Seen(h)), Holding(access))
    /\ userKey' = userKey + 1
    /\ IF Holding(Seen(h)) = {} THEN UNCHANGED <<access, saves>>
       ELSE /\ access' = Numbered([access EXCEPT !.key = userKey + 1])
            /\ saves' = saves + 1
    /\ UNCHANGED history

-----------------------------------------------------------------------------
(* tend, every hour.                                                       *)

(* Fault: the wait counted from the last reminder.                         *)
WaitedSinceReminder == access.notified + access.wait <= now

Waited == access.asked + access.wait <= now

ApproveWaited ==
    /\ access.status = "asked" /\ Waited
    /\ access' = Numbered([access EXCEPT !.status = "approved"])
    /\ saves' = saves + 1
    /\ granted' = asking
    /\ UNCHANGED <<userKey, handler, now, asking, askedAt, refused, mailed, takenOver>>

Remind ==
    /\ access.status = "asked" /\ access.notified + Day < now
    /\ access' = [access EXCEPT !.notified = now]
    /\ mailed' = now
    /\ UNCHANGED <<saves, userKey, handler, now, asking, askedAt, refused, granted, takenOver>>

Tick ==
    /\ now < MaxTime
    /\ now' = now + 1
    /\ UNCHANGED <<access, saves, userKey, handler, history>>

-----------------------------------------------------------------------------
Init ==
    /\ access = Gone /\ saves = 0 /\ userKey = 1 /\ now = 1
    /\ handler = [h \in Requests |-> Idle]
    /\ asking = 0 /\ askedAt = 0 /\ refused = 0 /\ granted = 0 /\ mailed = 0 /\ takenOver = 0

Read(h) ==
    \/ ReadReinvite(h) \/ ReadUpdate(h) \/ ReadAccept(h) \/ ReadConfirm(h) \/ ReadInitiate(h)
    \/ ReadApprove(h) \/ ReadReject(h) \/ ReadDelete(h) \/ ReadPassword(h) \/ ReadRotate(h)

Finish(h) ==
    \/ \E kind \in {"view", "takeover"}, wait \in Waits :
            Invite(h, kind, wait) \/ Update(h, kind, wait)
    \/ SaveToken(h) \/ Accept(h) \/ Confirm(h) \/ Initiate(h) \/ Approve(h) \/ Reject(h)
    \/ Delete(h) \/ SetPassword(h) \/ Rotate(h) \/ Leave(h)

Next ==
    \/ \E h \in Requests : Read(h) \/ Finish(h)
    \/ ContactDeleted
    \/ ApproveWaited \/ Remind \/ Tick

Spec == Init /\ [][Next]_vars

(* The hourly task goes on as long as the server runs, and days pass.      *)
Fairness == WF_vars(ApproveWaited) /\ WF_vars(Tick)

FairSpec == Spec /\ Fairness

-----------------------------------------------------------------------------
(* Properties.                                                             *)

IsOpen == access.status \in {"asked", "approved"}

(* After the grantor's no nothing is open until the contact asks again,    *)
(* whatever was on its way when the no was answered: an update of the      *)
(* terms, a second approval, the hourly task.                              *)
NoIsKept == IsOpen => refused < asking

(* A recovery is approved for the asking the grantor saw, or whose wait    *)
(* was over: a yes to an earlier one does not approve a later one.         *)
ApprovedForThisAsking == access.status = "approved" => granted = asking

(* Without the grantor's yes, no sooner than the wait after the contact    *)
(* last asked.                                                             *)
WaitIsKept ==
    [][access.status = "asked" /\ access'.status = "approved" /\ handler' = handler
        => now >= askedAt + access.wait]_vars

(* When the user key is rotated, a contact that holds a key holds the new  *)
(* one from then on, also one confirmed while the client was at it.        *)
RotationMissesNobody ==
    [][userKey' # userKey => access'.key \in {0, userKey'}]_vars

(* Who asked does not wait for ever: approved, or the grantor says no, or  *)
(* one of them ends it.                                                    *)
AskingIsSettled == access.status = "asked" ~> access.status # "asked"

-----------------------------------------------------------------------------
(* The inductive invariant.  What a handler read and may still write back  *)
(* is as the access is: a no since then, or a new asking, has taken the    *)
(* revision along.                                                         *)

StillRight(q) ==
    /\ q.seen.revision <= saves
    /\ q.op \notin {"none", "rotate"} => q.seen.id > 0
    /\ q.op = "approve" => q.seen.status = "asked"
    /\ q.op # "none" /\ Unchanged(access, q.seen) /\ access.status # "gone" =>
        /\ q.seen.status = access.status /\ q.seen.asked = access.asked
        /\ q.asking = asking

IInv ==
    /\ TypeOK
    /\ access.revision <= saves
    /\ access.status = "gone" <=> access.id = 0
    /\ refused <= asking
    /\ IsOpen => access.asked = askedAt
    /\ NoIsKept
    /\ ApprovedForThisAsking
    /\ \A h \in Requests : StillRight(handler[h])

-----------------------------------------------------------------------------
(* What the code's comments and tests say, and these steps show it does    *)
(* not keep.                                                               *)

(* "unless they say no within the wait": a new password that was on its    *)
(* way when the grantor said no is set all the same.                       *)
NoMeansNo ==
    [][takenOver' # takenOver => refused < takenOver']_vars

(* "remind grantors of those still waiting once a day": a change of the    *)
(* terms that was read before the reminder takes its mark back.            *)
RemindedOnceADay == [][Remind => mailed + Day < now]_vars

(* "a rotation that missed one would leave it under a key nobody has any   *)
(* more": a contact confirmed with a key from before the rotation is not   *)
(* missed by it and holds that key.                                        *)
NoKeyNobodyHas ==
    access.status \in {"confirmed", "asked", "approved"} => access.key = userKey
=============================================================================
