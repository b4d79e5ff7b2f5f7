----------------------------- MODULE AccessProofs -----------------------------
(***************************************************************************)
(* What EmergencyAccess and Logins promise, proved for any number of       *)
(* requests in flight, any waits, buckets of any size and any bounds: the  *)
(* two ways into an account that another login can change meanwhile.       *)
(***************************************************************************)
EXTENDS EmergencyAccess, Logins, FiniteSetTheorems, TLAPS

-----------------------------------------------------------------------------
(* Emergency access.                                                       *)

(* A row that is written takes a new revision and stays as it is otherwise. *)
LEMMA NumberedRow ==
    ASSUME TypeOK, NEW new \in Access
    PROVE  /\ Numbered(new) \in Access /\ Numbered(new).revision = saves + 1
           /\ Numbered(new).id = new.id /\ Numbered(new).status = new.status
           /\ Numbered(new).asked = new.asked /\ Numbered(new).key = new.key
BY DEF Numbered, Access, TypeOK

(* What is written over takes every request on its way out of date.        *)
LEMMA WrittenOver ==
    ASSUME TypeOK, TypeOK', \A h \in Requests : StillRight(handler[h]),
           saves' = saves + 1, access'.revision = saves + 1,
           NEW h \in Requests, handler'[h] = handler[h] \/ handler'[h] = Idle
    PROVE  StillRight(handler[h])'
<1>1. handler[h] \in Handler /\ handler'[h] \in Handler BY DEF TypeOK
<1>2. CASE handler'[h] = Idle
    <2>1. handler'[h].seen.revision = 0 /\ handler'[h].op = "none" BY <1>2 DEF Idle, Gone
    <2> QED BY <2>1 DEF StillRight, TypeOK
<1>3. CASE handler'[h] = handler[h]
    <2>1. handler[h].seen.revision <= saves /\ handler[h].seen.revision \in Nat
        BY <1>1 DEF StillRight, Handler, Access
    <2>2. handler'[h].seen.revision <= saves' BY <1>3, <2>1 DEF TypeOK
    <2>3. ~Unchanged(access', handler'[h].seen) BY <1>3, <2>1 DEF Unchanged, TypeOK
    <2>4. /\ handler'[h].op \notin {"none", "rotate"} => handler'[h].seen.id > 0
          /\ handler'[h].op = "approve" => handler'[h].seen.status = "asked"
        BY <1>3 DEF StillRight
    <2> QED BY <2>2, <2>3, <2>4 DEF StillRight
<1> QED BY <1>2, <1>3

(* A request that may still be written back has read the access as it is.  *)
LEMMA ReadAsItIs ==
    ASSUME IInv, NEW h \in Requests, handler[h].op \notin {"none", "rotate"},
           Unchanged(access, handler[h].seen)
    PROVE  /\ handler[h].seen \in Access /\ handler[h].key \in Nat /\ handler[h].asking = asking
           /\ access.status # "gone" /\ handler[h].seen.id > 0
           /\ handler[h].seen.status = access.status
           /\ handler[h].seen.asked = access.asked
<1>1. handler[h] \in Handler BY DEF IInv, TypeOK
<1>2. StillRight(handler[h]) BY DEF IInv
<1>3. access.status # "gone" BY <1>1, <1>2 DEF IInv, StillRight, Unchanged, Handler, Access
<1> QED BY <1>1, <1>2, <1>3 DEF StillRight, Handler

LEMMA Starts == Init => IInv
<1> SUFFICES ASSUME Init PROVE IInv OBVIOUS
<1>1. Idle \in Handler BY DEF Idle, Handler, Gone, Access
<1>2. TypeOK BY <1>1 DEF Init, TypeOK, Gone, Access
<1>3. Idle.op = "none" /\ Idle.seen = Gone /\ Gone.revision = 0 BY DEF Idle, Gone
<1>4. ASSUME NEW h \in Requests PROVE StillRight(handler[h])
    <2>1. handler[h] = Idle /\ saves = 0 BY DEF Init
    <2> QED BY <1>3, <2>1 DEF StillRight
<1> QED BY <1>2, <1>4 DEF Init, IInv, IsOpen, NoIsKept, ApprovedForThisAsking, Gone

(* A step that only reads puts the access as it is before the request.     *)
LEMMA ReadsKeep ==
    ASSUME IInv, NEW h \in Requests, NEW op, Reads(h, op),
           op \in {"invite", "update", "accept", "confirm", "initiate", "approve", "reject",
                   "delete", "password", "rotate"},
           op = "approve" => access.status = "asked",
           op # "rotate" => access.status # "gone"
    PROVE  IInv'
<1>1. Reading(op, access) \in Handler BY DEF Reading, Handler, IInv, TypeOK
<1>2. /\ handler' = [handler EXCEPT ![h] = Reading(op, access)]
      /\ UNCHANGED <<access, saves, userKey, now, asking, askedAt, refused, granted, mailed, takenOver>>
    BY DEF Reads, history
<1>3. TypeOK' BY <1>1, <1>2 DEF IInv, TypeOK
<1>4. ASSUME NEW k \in Requests PROVE StillRight(handler[k])'
    <2>1. CASE k = h
        <3>1. handler'[k] = Reading(op, access) BY <1>2, <2>1 DEF IInv, TypeOK
        <3>2. op # "rotate" => access.id > 0 BY DEF IInv, TypeOK, Access
        <3> QED BY <1>2, <3>1, <3>2 DEF IInv, StillRight, Reading
    <2>2. CASE k # h
        <3>1. handler'[k] = handler[k] BY <1>2, <2>2 DEF IInv, TypeOK
        <3> QED BY <1>2, <3>1 DEF IInv, StillRight, Unchanged
    <2> QED BY <2>1, <2>2
<1> QED BY <1>2, <1>3, <1>4 DEF IInv, IsOpen, NoIsKept, ApprovedForThisAsking

(* A step that leaves the access alone or ends it, and the requests, but   *)
(* for some that are over.                                                 *)
LEMMA QuietKeeps ==
    ASSUME IInv, access' = access \/ access' = Gone,
           handler' \in [Requests -> Handler],
           \A h \in Requests : handler'[h] = handler[h] \/ handler'[h] = Idle,
           UNCHANGED <<saves, asking, askedAt, refused, granted, mailed>>,
           userKey' \in Nat, now' \in Nat, takenOver' \in Nat
    PROVE  IInv'
<1>1. /\ Gone \in Access /\ Gone.status = "gone" /\ Gone.id = 0 /\ Gone.revision = 0
      /\ Idle.op = "none" /\ Idle.seen = Gone
    BY DEF Gone, Access, Idle
<1>2. TypeOK' BY <1>1 DEF IInv, TypeOK
<1>3. ASSUME NEW h \in Requests PROVE StillRight(handler[h])'
    <2>1. CASE handler'[h] = Idle BY <1>1, <2>1 DEF IInv, TypeOK, StillRight
    <2>2. CASE handler'[h] = handler[h] BY <1>1, <2>2 DEF IInv, StillRight, Unchanged
    <2> QED BY <2>1, <2>2
<1>4. /\ access'.revision <= saves' /\ (access'.status = "gone" <=> access'.id = 0)
      /\ access'.status \in {access.status, "gone"}
      /\ access'.asked = access.asked \/ ~IsOpen'
    BY <1>1 DEF IInv, TypeOK, IsOpen
<1> QED BY <1>2, <1>3, <1>4 DEF IInv, IsOpen, NoIsKept, ApprovedForThisAsking

LEMMA OverIsOver ==
    ASSUME IInv, NEW h \in Requests, handler' = [handler EXCEPT ![h] = Idle]
    PROVE  /\ handler' \in [Requests -> Handler]
           /\ \A k \in Requests : handler'[k] = handler[k] \/ handler'[k] = Idle
<1>1. Idle \in Handler BY DEF Idle, Handler, Gone, Access
<1> QED BY <1>1 DEF IInv, TypeOK

(* save_emergency_access: what a request writes over the access it read is *)
(* right if what it makes of it is.                                        *)
LEMMA SavesKeep ==
    ASSUME IInv, NEW h \in Requests, NEW op, op \notin {"none", "rotate"},
           NEW new \in Access, new.id = handler[h].seen.id, new.status # "gone",
           Save(h, op, new),
           asking' \in Nat, askedAt' \in Nat, refused' \in Nat, granted' \in Nat,
           mailed' \in Nat, takenOver' \in Nat,
           refused' <= asking',
           new.status \in {"asked", "approved"} => new.asked = askedAt' /\ refused' < asking',
           new.status = "approved" => granted' = asking'
    PROVE  IInv'
<1>1. /\ handler[h].op = op /\ handler' = [handler EXCEPT ![h] = Idle]
      /\ Unchanged(access, handler[h].seen)
      /\ saves' = saves + 1 /\ access' = Numbered(new)
      /\ userKey' = userKey /\ now' = now
    BY DEF Save, Done, Writes
<1>2. handler[h].seen.id > 0 BY <1>1, ReadAsItIs
<1>3. /\ access' \in Access /\ access'.revision = saves + 1
      /\ access'.id = new.id /\ access'.status = new.status /\ access'.asked = new.asked
    BY <1>1, NumberedRow DEF IInv
<1>4. TypeOK'
    <2>1. Idle \in Handler BY DEF Idle, Handler, Gone, Access
    <2> QED BY <1>1, <1>3, <2>1 DEF IInv, TypeOK
<1>5. ASSUME NEW k \in Requests PROVE StillRight(handler[k])'
    <2>1. handler'[k] = handler[k] \/ handler'[k] = Idle BY <1>1 DEF IInv, TypeOK
    <2>2. TypeOK /\ \A i \in Requests : StillRight(handler[i]) BY DEF IInv
    <2> QED BY <1>1, <1>3, <1>4, <2>1, <2>2, WrittenOver
<1>6. access'.revision <= saves' /\ (access'.status = "gone" <=> access'.id = 0)
    BY <1>1, <1>2, <1>3 DEF IInv, TypeOK
<1> QED BY <1>3, <1>4, <1>5, <1>6 DEF IInv, IsOpen, NoIsKept, ApprovedForThisAsking

LEMMA ReadKeeps == ASSUME IInv, NEW h \in Requests, Read(h) PROVE IInv'
BY ReadsKeep DEF Read, ReadReinvite, ReadUpdate, ReadAccept, ReadConfirm, ReadInitiate, ReadApprove,
                 ReadReject, ReadDelete, ReadPassword, ReadRotate

LEMMA InviteKeeps ==
    ASSUME IInv, NEW h \in Requests, NEW kind \in {"view", "takeover"}, NEW wait \in Waits,
           Invite(h, kind, wait)
    PROVE  IInv'
<1> DEFINE new == Invited(kind, wait)
<1>1. /\ saves' = saves + 1 /\ access' = Numbered(new)
      /\ handler' = [handler EXCEPT ![h] = Reading("invite", access')]
      /\ UNCHANGED <<userKey, now, asking, askedAt, refused, granted, mailed, takenOver>>
    BY DEF Invite, Writes, history
<1>a. new \in Access /\ new.id = saves + 1 /\ new.status = "invited"
    BY DEF Invited, Access, IInv, TypeOK
<1> HIDE DEF new
<1>2. /\ access' \in Access /\ access'.revision = saves + 1 /\ access'.id = saves + 1
      /\ access'.status = "invited"
    BY <1>1, <1>a, NumberedRow DEF IInv
<1>3. Reading("invite", access') \in Handler BY <1>2 DEF Reading, Handler, IInv, TypeOK
<1>4. TypeOK' BY <1>1, <1>2, <1>3 DEF IInv, TypeOK
<1>5. ASSUME NEW k \in Requests PROVE StillRight(handler[k])'
    <2>1. CASE k = h
        <3>1. handler'[k] = Reading("invite", access') BY <1>1, <2>1 DEF IInv, TypeOK
        <3>2. /\ handler'[k].op = "invite" /\ handler'[k].seen = access'
              /\ handler'[k].asking = asking'
            BY <1>1, <3>1 DEF Reading
        <3>3. /\ access'.revision <= saves' /\ access'.id > 0
              /\ access'.asked = access'.asked
            BY <1>1, <1>2 DEF IInv, TypeOK
        <3> QED BY <3>2, <3>3 DEF StillRight
    <2>2. CASE k # h
        <3>1. handler'[k] = handler[k] BY <1>1, <2>2 DEF IInv, TypeOK
        <3>2. TypeOK /\ \A i \in Requests : StillRight(handler[i]) BY DEF IInv
        <3> QED BY <1>1, <1>2, <1>4, <3>1, <3>2, WrittenOver
    <2> QED BY <2>1, <2>2
<1> QED BY <1>1, <1>2, <1>4, <1>5 DEF IInv, TypeOK, IsOpen, NoIsKept, ApprovedForThisAsking

LEMMA UpdateKeeps ==
    ASSUME IInv, NEW h \in Requests, NEW kind \in {"view", "takeover"}, NEW wait \in Waits,
           Update(h, kind, wait)
    PROVE  IInv'
<1>1. PICK key \in {Seen(h).key, handler[h].key} :
        Save(h, "update", [Seen(h) EXCEPT !.kind = kind, !.wait = wait, !.key = key])
    BY DEF Update
<1> DEFINE new == [Seen(h) EXCEPT !.kind = kind, !.wait = wait, !.key = key]
<1>2. handler[h].op = "update" /\ Unchanged(access, handler[h].seen) BY <1>1 DEF Save, Done
<1>3. /\ handler[h].seen \in Access /\ handler[h].key \in Nat /\ access.status # "gone"
      /\ handler[h].seen.status = access.status /\ handler[h].seen.asked = access.asked
    BY <1>2, ReadAsItIs
<1>4. /\ new \in Access /\ new.id = handler[h].seen.id
      /\ new.status = access.status /\ new.asked = access.asked
    BY <1>3 DEF Seen, Access
<1>5. UNCHANGED <<asking, askedAt, refused, granted, mailed, takenOver>> BY DEF Update, history
<1> HIDE DEF new
<1> QED BY <1>1, <1>3, <1>4, <1>5, SavesKeep
        DEF IInv, TypeOK, IsOpen, NoIsKept, ApprovedForThisAsking, new

LEMMA TokenKeeps == ASSUME IInv, NEW h \in Requests, SaveToken(h) PROVE IInv'
<1> DEFINE new == Seen(h)
<1>1. Save(h, "invite", new) BY DEF SaveToken
<1>2. handler[h].op = "invite" /\ Unchanged(access, handler[h].seen) BY <1>1 DEF Save, Done
<1>3. /\ handler[h].seen \in Access /\ handler[h].key \in Nat /\ access.status # "gone"
      /\ handler[h].asking = asking
      /\ handler[h].seen.status = access.status /\ handler[h].seen.asked = access.asked
    BY <1>2, ReadAsItIs
<1>4. /\ new \in Access /\ new.id = handler[h].seen.id
      /\ new.status = access.status /\ new.asked = access.asked
    BY <1>3 DEF Seen, Access, IInv, TypeOK
<1>5. UNCHANGED <<asking, askedAt, refused, granted, mailed, takenOver>> BY DEF SaveToken, history
<1> HIDE DEF new
<1> QED BY <1>1, <1>3, <1>4, <1>5, SavesKeep
        DEF IInv, TypeOK, IsOpen, NoIsKept, ApprovedForThisAsking

LEMMA AcceptKeeps == ASSUME IInv, NEW h \in Requests, Accept(h) PROVE IInv'
<1> DEFINE new == [Seen(h) EXCEPT !.status = "accepted"]
<1>1. Save(h, "accept", new) BY DEF Accept
<1>2. handler[h].op = "accept" /\ Unchanged(access, handler[h].seen) BY <1>1 DEF Save, Done
<1>3. /\ handler[h].seen \in Access /\ handler[h].key \in Nat /\ access.status # "gone"
      /\ handler[h].asking = asking
      /\ handler[h].seen.status = access.status /\ handler[h].seen.asked = access.asked
    BY <1>2, ReadAsItIs
<1>4. /\ new \in Access /\ new.id = handler[h].seen.id
      /\ new.status = "accepted"
    BY <1>3 DEF Seen, Access, IInv, TypeOK
<1>5. UNCHANGED <<asking, askedAt, refused, granted, mailed, takenOver>> BY DEF Accept, history
<1> HIDE DEF new
<1> QED BY <1>1, <1>3, <1>4, <1>5, SavesKeep
        DEF IInv, TypeOK, IsOpen, NoIsKept, ApprovedForThisAsking

LEMMA ConfirmKeeps == ASSUME IInv, NEW h \in Requests, Confirm(h) PROVE IInv'
<1> DEFINE new == [Seen(h) EXCEPT !.status = "confirmed", !.key = handler[h].key]
<1>1. Save(h, "confirm", new) BY DEF Confirm
<1>2. handler[h].op = "confirm" /\ Unchanged(access, handler[h].seen) BY <1>1 DEF Save, Done
<1>3. /\ handler[h].seen \in Access /\ handler[h].key \in Nat /\ access.status # "gone"
      /\ handler[h].asking = asking
      /\ handler[h].seen.status = access.status /\ handler[h].seen.asked = access.asked
    BY <1>2, ReadAsItIs
<1>4. /\ new \in Access /\ new.id = handler[h].seen.id
      /\ new.status = "confirmed"
    BY <1>3 DEF Seen, Access, IInv, TypeOK
<1>5. UNCHANGED <<asking, askedAt, refused, granted, mailed, takenOver>> BY DEF Confirm, history
<1> HIDE DEF new
<1> QED BY <1>1, <1>3, <1>4, <1>5, SavesKeep
        DEF IInv, TypeOK, IsOpen, NoIsKept, ApprovedForThisAsking

LEMMA InitiateKeeps == ASSUME IInv, NEW h \in Requests, Initiate(h) PROVE IInv'
<1> DEFINE new == [Seen(h) EXCEPT !.status = "asked", !.asked = now, !.notified = now]
<1>1. Save(h, "initiate", new) BY DEF Initiate
<1>2. handler[h].op = "initiate" /\ Unchanged(access, handler[h].seen) BY <1>1 DEF Save, Done
<1>3. /\ handler[h].seen \in Access /\ handler[h].key \in Nat /\ access.status # "gone"
      /\ handler[h].asking = asking
      /\ handler[h].seen.status = access.status /\ handler[h].seen.asked = access.asked
    BY <1>2, ReadAsItIs
<1>4. /\ new \in Access /\ new.id = handler[h].seen.id
      /\ new.status = "asked" /\ new.asked = now
    BY <1>3 DEF Seen, Access, IInv, TypeOK
<1>5. /\ asking' = asking + 1 /\ askedAt' = now /\ mailed' = now
      /\ UNCHANGED <<refused, granted, takenOver>>
    BY DEF Initiate, history
<1> HIDE DEF new
<1> QED BY <1>1, <1>3, <1>4, <1>5, SavesKeep
        DEF IInv, TypeOK, IsOpen, NoIsKept, ApprovedForThisAsking

LEMMA ApproveKeeps == ASSUME IInv, NEW h \in Requests, Approve(h) PROVE IInv'
<1> DEFINE new == [Seen(h) EXCEPT !.status = "approved"]
<1>1. Save(h, "approve", new) BY DEF Approve
<1>2. handler[h].op = "approve" /\ Unchanged(access, handler[h].seen) BY <1>1 DEF Save, Done
<1>3. /\ handler[h].seen \in Access /\ handler[h].key \in Nat /\ access.status # "gone"
      /\ handler[h].asking = asking
      /\ handler[h].seen.status = access.status /\ handler[h].seen.asked = access.asked
    BY <1>2, ReadAsItIs
<1>4. /\ new \in Access /\ new.id = handler[h].seen.id
      /\ new.status = "approved" /\ new.asked = access.asked
    BY <1>3 DEF Seen, Access, IInv, TypeOK
<1>5. /\ granted' = handler[h].asking
      /\ UNCHANGED <<asking, askedAt, refused, mailed, takenOver>>
    BY DEF Approve, history
<1>6. access.status = "asked" BY <1>2, <1>3 DEF IInv, StillRight
<1> HIDE DEF new
<1> QED BY <1>1, <1>3, <1>4, <1>5, <1>6, SavesKeep
        DEF IInv, TypeOK, IsOpen, NoIsKept, ApprovedForThisAsking

LEMMA RejectKeeps == ASSUME IInv, NEW h \in Requests, Reject(h) PROVE IInv'
<1> DEFINE new == [Seen(h) EXCEPT !.status = "confirmed", !.asked = 0]
<1>1. Save(h, "reject", new) BY DEF Reject
<1>2. handler[h].op = "reject" /\ Unchanged(access, handler[h].seen) BY <1>1 DEF Save, Done
<1>3. /\ handler[h].seen \in Access /\ handler[h].key \in Nat /\ access.status # "gone"
      /\ handler[h].asking = asking
      /\ handler[h].seen.status = access.status /\ handler[h].seen.asked = access.asked
    BY <1>2, ReadAsItIs
<1>4. /\ new \in Access /\ new.id = handler[h].seen.id
      /\ new.status = "confirmed"
    BY <1>3 DEF Seen, Access, IInv, TypeOK
<1>5. /\ refused' = asking
      /\ UNCHANGED <<asking, askedAt, granted, mailed, takenOver>>
    BY DEF Reject, history
<1>6. asking' \in Nat /\ askedAt' \in Nat /\ refused' \in Nat /\ granted' \in Nat /\ mailed' \in Nat
      /\ takenOver' \in Nat /\ refused' <= asking'
    BY <1>5 DEF IInv, TypeOK
<1> HIDE DEF new
<1> QED BY <1>1, <1>3, <1>4, <1>6, SavesKeep

LEMMA EndKeeps ==
    ASSUME IInv, NEW h \in Requests, Delete(h) \/ SetPassword(h) \/ Leave(h)
    PROVE  IInv'
<1>1. /\ handler' = [handler EXCEPT ![h] = Idle]
      /\ access' = access \/ access' = Gone
      /\ UNCHANGED <<saves, userKey, now, asking, askedAt, refused, granted, mailed>>
      /\ takenOver' = takenOver \/ takenOver' = handler[h].asking
    BY DEF Delete, SetPassword, Leave, Done, history
<1>2. /\ userKey' \in Nat /\ now' \in Nat /\ takenOver' \in Nat
    BY <1>1 DEF IInv, TypeOK, Handler
<1> QED BY <1>1, <1>2, OverIsOver, QuietKeeps

LEMMA RotateKeeps == ASSUME IInv, NEW h \in Requests, Rotate(h) PROVE IInv'
<1>1. /\ handler' = [handler EXCEPT ![h] = Idle]
      /\ userKey' = userKey + 1
      /\ UNCHANGED <<now, asking, askedAt, refused, granted, mailed, takenOver>>
      /\ Holding(Seen(h)) = Holding(access)
    BY DEF Rotate, Done, Matches, history
<1>2. userKey' \in Nat /\ now' \in Nat /\ takenOver' \in Nat BY <1>1 DEF IInv, TypeOK
<1>3. CASE access' = access /\ saves' = saves BY <1>1, <1>2, <1>3, OverIsOver, QuietKeeps
<1>4. CASE /\ access' = Numbered([access EXCEPT !.key = userKey + 1])
           /\ saves' = saves + 1 /\ Holding(access) # {}
    <2> DEFINE new == [access EXCEPT !.key = userKey + 1]
    <2>a. new \in Access /\ new.id = access.id /\ new.status = access.status /\ new.asked = access.asked
        BY DEF IInv, TypeOK, Access
    <2>c. access' = Numbered(new) /\ saves' = saves + 1 BY <1>4
    <2> HIDE DEF new
    <2>1. /\ access' \in Access /\ access'.revision = saves + 1 /\ access'.id = access.id
          /\ access'.status = access.status /\ access'.asked = access.asked
        BY <2>a, <2>c, NumberedRow DEF IInv
    <2>b. saves' \in Nat BY <2>c DEF IInv, TypeOK
    <2>d. handler' \in [Requests -> Handler] BY <1>1, OverIsOver
    <2>2. TypeOK' BY <1>1, <1>2, <2>1, <2>b, <2>d DEF IInv, TypeOK
    <2>3. \A k \in Requests : StillRight(handler[k])'
        <3> TAKE k \in Requests
        <3>1. handler'[k] = handler[k] \/ handler'[k] = Idle BY <1>1, OverIsOver
        <3>2. TypeOK /\ \A i \in Requests : StillRight(handler[i]) BY DEF IInv
        <3> QED BY <1>4, <2>1, <2>2, <3>1, <3>2, WrittenOver
    <2> QED BY <1>1, <1>4, <2>1, <2>2, <2>3
            DEF IInv, TypeOK, IsOpen, NoIsKept, ApprovedForThisAsking
<1> QED BY <1>1, <1>3, <1>4 DEF Rotate

LEMMA ApproveWaitedKeeps == ASSUME IInv, ApproveWaited PROVE IInv'
<1>1. /\ access.status = "asked" /\ saves' = saves + 1 /\ granted' = asking
      /\ access' = Numbered([access EXCEPT !.status = "approved"])
      /\ UNCHANGED <<userKey, handler, now, asking, askedAt, refused, mailed, takenOver>>
    BY DEF ApproveWaited
<1> DEFINE new == [access EXCEPT !.status = "approved"]
<1>a. new \in Access /\ new.id = access.id /\ new.status = "approved" /\ new.asked = access.asked
    BY DEF IInv, TypeOK, Access
<1> HIDE DEF new
<1>2. /\ access' \in Access /\ access'.revision = saves + 1 /\ access'.id = access.id
      /\ access'.status = "approved" /\ access'.asked = access.asked
    BY <1>1, <1>a, NumberedRow DEF IInv, new
<1>3. TypeOK' BY <1>1, <1>2 DEF IInv, TypeOK
<1>4. \A k \in Requests : StillRight(handler[k])'
    <2> TAKE k \in Requests
    <2>1. TypeOK /\ \A i \in Requests : StillRight(handler[i]) BY DEF IInv
    <2> QED BY <1>1, <1>2, <1>3, <2>1, WrittenOver
<1> QED BY <1>1, <1>2, <1>3, <1>4 DEF IInv, TypeOK, IsOpen, NoIsKept, ApprovedForThisAsking

LEMMA RemindKeeps == ASSUME IInv, Remind PROVE IInv'
<1>1. /\ access' = [access EXCEPT !.notified = now] /\ mailed' = now
      /\ UNCHANGED <<saves, userKey, handler, now, asking, askedAt, refused, granted, takenOver>>
    BY DEF Remind
<1>2. /\ access' \in Access /\ access'.revision = access.revision /\ access'.id = access.id
      /\ access'.status = access.status /\ access'.asked = access.asked
    BY <1>1 DEF Access, IInv, TypeOK
<1>3. TypeOK' BY <1>1, <1>2 DEF IInv, TypeOK
<1>4. \A k \in Requests : StillRight(handler[k])' BY <1>1, <1>2 DEF IInv, StillRight, Unchanged
<1> QED BY <1>1, <1>2, <1>3, <1>4 DEF IInv, IsOpen, NoIsKept, ApprovedForThisAsking

LEMMA RestKeeps == ASSUME IInv, ContactDeleted \/ Tick \/ UNCHANGED vars PROVE IInv'
<1>1. /\ access' = access \/ access' = Gone
      /\ now' = now \/ now' = now + 1
      /\ UNCHANGED <<saves, userKey, handler, asking, askedAt, refused, granted, mailed, takenOver>>
    BY DEF ContactDeleted, Tick, vars, history
<1>2. userKey' \in Nat /\ now' \in Nat /\ takenOver' \in Nat /\ handler' \in [Requests -> Handler]
    BY <1>1 DEF IInv, TypeOK
<1> QED BY <1>1, <1>2, QuietKeeps

(* The inductive invariant: whatever requests are on their way, what they  *)
(* may still write back is right.                                          *)
THEOREM EmergencyInductive == Spec => []IInv
<1>1. Init => IInv BY Starts
<1>2. IInv /\ [Next]_vars => IInv'
    <2> SUFFICES ASSUME IInv, [Next]_vars PROVE IInv' OBVIOUS
    <2>1. CASE UNCHANGED vars BY <2>1, RestKeeps
    <2>2. CASE ContactDeleted \/ Tick BY <2>2, RestKeeps
    <2>3. CASE ApproveWaited BY <2>3, ApproveWaitedKeeps
    <2>4. CASE Remind BY <2>4, RemindKeeps
    <2>5. ASSUME NEW h \in Requests, Read(h) PROVE IInv' BY <2>5, ReadKeeps
    <2>6. ASSUME NEW h \in Requests, Finish(h) PROVE IInv'
        <3>1. ASSUME NEW kind \in {"view", "takeover"}, NEW wait \in Waits,
                     Invite(h, kind, wait) \/ Update(h, kind, wait)
              PROVE  IInv'
            BY <3>1, InviteKeeps, UpdateKeeps
        <3>2. CASE SaveToken(h) BY <3>2, TokenKeeps
        <3>3. CASE Accept(h) BY <3>3, AcceptKeeps
        <3>4. CASE Confirm(h) BY <3>4, ConfirmKeeps
        <3>5. CASE Initiate(h) BY <3>5, InitiateKeeps
        <3>6. CASE Approve(h) BY <3>6, ApproveKeeps
        <3>7. CASE Reject(h) BY <3>7, RejectKeeps
        <3>8. CASE Delete(h) \/ SetPassword(h) \/ Leave(h) BY <3>8, EndKeeps
        <3>9. CASE Rotate(h) BY <3>9, RotateKeeps
        <3> QED BY <2>6, <3>1, <3>2, <3>3, <3>4, <3>5, <3>6, <3>7, <3>8, <3>9 DEF Finish
    <2> QED BY <2>1, <2>2, <2>3, <2>4, <2>5, <2>6 DEF Next
<1> QED BY <1>1, <1>2, PTL DEF Spec

(* After the grantor's no nothing is open until the contact asks again.    *)
THEOREM NoKept == Spec => []NoIsKept
<1>1. IInv => NoIsKept BY DEF IInv
<1> QED BY <1>1, EmergencyInductive, PTL

(* Approved is the asking the grantor saw, or whose wait was over.         *)
THEOREM ApprovedAsAsked == Spec => []ApprovedForThisAsking
<1>1. IInv => ApprovedForThisAsking BY DEF IInv
<1> QED BY <1>1, EmergencyInductive, PTL

(* A handler that is done is no longer what it was.                        *)
LEMMA DoneChanges ==
    ASSUME IInv, NEW h \in Requests, handler[h].op # "none",
           handler' = [handler EXCEPT ![h] = Idle]
    PROVE  handler' # handler
<1>1. handler'[h] = Idle BY DEF IInv, TypeOK
<1> QED BY <1>1 DEF Idle

(* Only the hourly task approves without a request, and only when the wait *)
(* after the last asking is over.                                          *)
THEOREM WaitKept == Spec => WaitIsKept
<1>1. ASSUME IInv, [Next]_vars, access.status = "asked", access'.status = "approved",
             handler' = handler
      PROVE  now >= askedAt + access.wait
    <2>1. access' # access BY <1>1
    <2>2. CASE ApproveWaited
        <3>1. access.asked + access.wait <= now /\ access.asked = askedAt
            BY <1>1, <2>2 DEF ApproveWaited, Waited, IInv, IsOpen
        <3>2. access.wait \in Nat /\ askedAt \in Nat /\ now \in Nat
            <4>1. access.wait \in Waits \cup {0} BY <1>1 DEF IInv, TypeOK, Access
            <4>2. \A w \in Waits \cup {0} : w \in Nat
                <5>1. Waits \subseteq Nat \ {0} BY WaitsAssumption
                <5> QED BY <5>1
            <4>3. access.wait \in Nat BY <4>1, <4>2
            <4> QED BY <1>1, <4>3 DEF IInv, TypeOK
        <3> QED BY <3>1, <3>2
    <2>3. CASE Remind
        <3>1. access'.status = access.status BY <1>1, <2>3 DEF Remind, IInv, TypeOK, Access
        <3> QED BY <1>1, <3>1
    <2>4. CASE ContactDeleted BY <1>1, <2>4 DEF ContactDeleted, Gone
    <2>5. ASSUME NEW h \in Requests, Read(h) PROVE FALSE
        BY <1>1, <2>1, <2>5 DEF Read, ReadReinvite, ReadUpdate, ReadAccept, ReadConfirm, ReadInitiate,
            ReadApprove, ReadReject, ReadDelete, ReadPassword, ReadRotate, Reads
    <2>6. ASSUME NEW h \in Requests, Finish(h) PROVE FALSE
        <3>1. ASSUME NEW kind, NEW wait, Invite(h, kind, wait) PROVE FALSE
            BY <1>1, <3>1 DEF Invite
        <3>2. ASSUME handler[h].op # "none", handler' = [handler EXCEPT ![h] = Idle] PROVE FALSE
            BY <1>1, <3>2, DoneChanges
        <3> QED BY <2>6, <3>1, <3>2 DEF Finish, Update, SaveToken, Accept, Confirm, Initiate, Approve,
                    Reject, Save, Delete, SetPassword, Rotate, Leave, Done
    <2>7. CASE Tick BY <1>1, <2>1, <2>7 DEF Tick
    <2> QED BY <1>1, <2>1, <2>2, <2>3, <2>4, <2>5, <2>6, <2>7 DEF Next, vars
<1> QED BY <1>1, EmergencyInductive, PTL DEF Spec, WaitIsKept

(* A rotation leaves no contact under the key it replaced: as many as hold *)
(* one are given the new one, or there is no rotation.                     *)
THEOREM RotationComplete == Spec => RotationMissesNobody
<1>1. ASSUME IInv, [Next]_vars, userKey' # userKey PROVE access'.key \in {0, userKey'}
    <2>1. PICK h \in Requests : Rotate(h)
        BY <1>1 DEF Next, vars, history, Read, ReadReinvite, ReadUpdate, ReadAccept, ReadConfirm,
            ReadInitiate, ReadApprove, ReadReject, ReadDelete, ReadPassword, ReadRotate, Reads,
            Finish, Invite, Update, SaveToken, Accept, Confirm, Initiate, Approve, Reject, Save,
            Delete, SetPassword, Leave, ContactDeleted, ApproveWaited, Remind, Tick
    <2>2. Holding(Seen(h)) = Holding(access) /\ userKey' = userKey + 1
        BY <2>1 DEF Rotate, Matches
    <2>3. CASE Holding(Seen(h)) = {}
        <3>1. access' = access BY <2>1, <2>3 DEF Rotate
        <3>2. access.key = 0 BY <2>2, <2>3 DEF Holding
        <3> QED BY <3>1, <3>2
    <2>4. CASE Holding(Seen(h)) # {}
        <3> DEFINE new == [access EXCEPT !.key = userKey + 1]
        <3>1. access' = Numbered(new) BY <2>1, <2>4 DEF Rotate
        <3>2. new \in Access /\ new.key = userKey + 1 BY <1>1 DEF IInv, TypeOK, Access
        <3> HIDE DEF new
        <3> QED BY <1>1, <2>2, <3>1, <3>2, NumberedRow DEF IInv
    <2> QED BY <2>3, <2>4
<1> QED BY <1>1, EmergencyInductive, PTL DEF Spec, RotationMissesNobody

-----------------------------------------------------------------------------
(* Logins.  Each handler moves alone, from step to step of one login or    *)
(* one change of the settings; what it shows counts only from the write    *)
(* that checks it and takes it away from everybody else.                   *)

-----------------------------------------------------------------------------
(* What a handler does with itself in one step.                            *)

\* What a login shows from now on counts, and was there to be taken.
Fits(h) ==
    LET p == run'[h].proof
    IN /\ p.way = "mail" => p.by # None /\ codes.login.by = p.by /\ codes'.login.by = None
       /\ p.way = "key" => p.by # None /\ challenges.login = p.by /\ challenges'.login = None
       /\ p.way = "request" => p.by \in Handlers /\ requests[p.by] = "yes" /\ requests'[p.by] = "used"
       /\ p.way = "totp" => factors.last < p.n /\ factors'.totp = factors.totp /\ factors'.last = p.n

Moves(h) ==
    /\ run'[h] \in Run /\ Stage(run'[h])
    /\ run[h].at \notin {"over", "in"} /\ (run[h].at = "use" => run'[h].at = "over")
    /\ run'[h].proof.way = "mail" => \/ run'[h].proof = run[h].proof
                                     \/ run'[h].proof.by \in {codes.login.by, None}
    /\ run'[h].proof.way = "totp" /\ run'[h].at \in {"step", "finish", "in"}
          => \/ run'[h].proof = run[h].proof /\ run[h].at \in {"step", "finish"}
             \/ run'[h].proof.by = factors.totp /\ factors.totp # None
    /\ Taken(h)' => (Taken(h) /\ run'[h].proof = run[h].proof) \/ Fits(h)

Only(h) == \E r : Goes(h, r)

LEMMA FreshRun ==
    /\ Fresh \in Run /\ NoProof \in Proof /\ NoProof.way = "none" /\ NoProof.n = 0
    /\ Fresh.at = "new" /\ Fresh.proof = NoProof /\ Fresh.wrong = "no" /\ Fresh.keys = {} /\ Fresh.kind = "login"
<1>1. Some(Devices) \in Devices /\ Some(Networks) \in Networks
  BY LoginIds DEF Some
<1>2. NoProof \in Proof /\ NoProof.way = "none" /\ NoProof.n = 0
  BY DEF NoProof, Shows, Proof
<1>3. [password |-> 0, legacy |-> FALSE, recovery |-> None]
        \in [password : Nat, legacy : BOOLEAN, recovery : Makers \cup {None}]
  OBVIOUS
<1> QED
  BY <1>1, <1>2, <1>3 DEF Fresh, Run, Kinds

LEMMA ShowsProof ==
    ASSUME NEW way \in Ways \cup {"none", "remember", "recovery", "request"}, NEW by \in Makers \cup {None},
           NEW n \in Nat
    PROVE  Shows(way, by, n) \in Proof /\ Shows(way, by, n).way = way /\ Shows(way, by, n).by = by
           /\ Shows(way, by, n).n = n
BY DEF Shows, Proof

\* A handler that goes on with what it has.
LEMMA GoesOn ==
    ASSUME LoginsTypeOK, NEW h \in Handlers, ShownInv(h), NEW at,
           at \in {"known", "device", "second", "put", "remove", "finish", "rehash", "hash", "forget", "unset", "set"},
           To(h, at),
           run[h].at \notin {"over", "in", "use"},
           at \in {"known", "hash", "rehash", "second"} => run[h].proof.way = "none",
           at \in {"known", "hash", "rehash"} => run[h].at \in {"tries", "known", "hash", "rehash"},
           at = "device" => run[h].proof.way \in {"none", "request"},
           at = "remove" => run[h].proof.way = "recovery",
           at \in {"device", "finish"} =>
              \/ Taken(h) \/ Fits(h) \/ run[h].proof.way \notin {"mail", "key", "request", "totp"},
           at = "finish" => run[h].proof.way # "totp" \/ run[h].at \in {"step", "finish"}
    PROVE  Moves(h) /\ Only(h)
<1>1. run[h] \in Run /\ DOMAIN run = Handlers
  BY DEF LoginsTypeOK
<1>2. run'[h] = [run[h] EXCEPT !.at = at]
  BY <1>1 DEF To, Goes
<1>3. run'[h] \in Run /\ run'[h].at = at /\ run'[h].proof = run[h].proof /\ run'[h].wrong = run[h].wrong
      /\ run'[h].kind = run[h].kind /\ run'[h].keys = run[h].keys /\ run'[h].saw = run[h].saw
  BY <1>1, <1>2 DEF Run
<1>4. Stage(run'[h])
  BY <1>3 DEF ShownInv, Stage
<1>5. Taken(h)' => (Taken(h) /\ run'[h].proof = run[h].proof) \/ Fits(h)
  BY <1>3 DEF Taken, Fits
<1> QED
  BY <1>3, <1>4, <1>5 DEF Moves, Only, To

LEMMA IsOver ==
    ASSUME LoginsTypeOK, NEW h \in Handlers, Over(h), run[h].at \notin {"over", "in"}
    PROVE  Moves(h) /\ Only(h)
<1>1. DOMAIN run = Handlers
  BY DEF LoginsTypeOK
<1>2. run'[h] = [Fresh EXCEPT !.at = "over"]
  BY <1>1 DEF Over, Goes
<1>3. run'[h] \in Run /\ run'[h].at = "over" /\ run'[h].proof.way = "none" /\ run'[h].proof.n = 0
  BY <1>2, FreshRun DEF Run
<1> QED
  BY <1>3 DEF Moves, Only, Over, Stage, Taken

LEMMA IsWrong ==
    ASSUME LoginsTypeOK, NEW h \in Handlers, NEW what \in {"password", "second", "mailing"}, WrongGuess(h, what),
           run[h].at \notin {"over", "in"}
    PROVE  /\ Moves(h) /\ Only(h)
           /\ run'[h].at = "over" /\ run'[h].wrong = what /\ run'[h].network = run[h].network
           /\ run'[h].proof.way = "none"
<1>1. DOMAIN run = Handlers /\ run[h].network \in Networks
  BY DEF LoginsTypeOK, Run
<1>2. run'[h] = [Fresh EXCEPT !.at = "over", !.wrong = what, !.network = run[h].network]
  BY <1>1 DEF WrongGuess, Goes
<1>3. run'[h] \in Run /\ run'[h].at = "over" /\ run'[h].proof.way = "none" /\ run'[h].proof.n = 0
      /\ run'[h].wrong = what /\ run'[h].network = run[h].network
  BY <1>1, <1>2, FreshRun DEF Run
<1> QED
  BY <1>3 DEF Moves, Only, WrongGuess, Stage, Taken

LEMMA LoginMoves ==
    ASSUME LoginsTypeOK, NEW h \in Handlers, ShownInv(h), PasswordLogin(h)
    PROVE  Moves(h) /\ Only(h)
<1>1. run[h] \in Run /\ DOMAIN run = Handlers /\ Stage(run[h])
  BY DEF LoginsTypeOK, ShownInv
<1>2. user.password \in Nat /\ user.password \in 1..2 /\ user.legacy \in BOOLEAN /\ user.recovery \in Makers \cup {None}
      /\ factors \in Factors /\ codes.login \in Code /\ challenges.login \in Makers \cup {None} /\ step \in Nat
      /\ DOMAIN codes = {"login", "setup"} /\ DOMAIN challenges = {"login", "register"} /\ DOMAIN requests = Handlers
  BY LoginBounds DEF LoginsTypeOK
<1>3. ASSUME ReadUser(h)
      PROVE  Moves(h) /\ Only(h)
  <2>1. PICK d \in Devices, n \in Networks, p \in Typed,
             q \in {None} \cup (IF "ask" \in scene.asks THEN Handlers ELSE {}) :
          Goes(h, [Fresh EXCEPT !.device = d, !.network = n, !.typed = p,
                       !.saw = [password |-> user.password, legacy |-> user.legacy, recovery |-> user.recovery],
                       !.proof = IF q = None THEN NoProof ELSE Shows("request", q, 0),
                       !.at = IF q = None THEN "tries" ELSE "request"])
    BY <1>3 DEF ReadUser
  <2> DEFINE proof == IF q = None THEN NoProof ELSE Shows("request", q, 0)
             at == IF q = None THEN "tries" ELSE "request"
             saw == [password |-> user.password, legacy |-> user.legacy, recovery |-> user.recovery]
  <2>2. saw \in [password : Nat, legacy : BOOLEAN, recovery : Makers \cup {None}]
    BY <1>2
  <2>3. proof \in Proof /\ (q = None => proof.way = "none") /\ (q # None => proof.way = "request")
    <3>1. CASE q = None
      BY <3>1, FreshRun
    <3>2. CASE q # None
      <4>1. q \in Makers \cup {None} /\ proof = Shows("request", q, 0)
        BY <3>2 DEF Makers
      <4> QED
        BY <3>2, <4>1 DEF Shows, Proof
    <3> QED
      BY <3>1, <3>2
  <2>4. p \in Nat /\ saw.password \in 1..2
    BY <1>2 DEF Typed
  <2> HIDE DEF proof, saw
  <2>5. run'[h] = [Fresh EXCEPT !.device = d, !.network = n, !.typed = p, !.saw = saw, !.proof = proof, !.at = at]
    BY <1>1, <2>1 DEF Goes, proof, saw
  <2>6. run'[h] \in Run /\ run'[h].at = at /\ run'[h].proof = proof /\ run'[h].wrong = "no" /\ run'[h].kind = "login"
        /\ run'[h].saw = saw
    <3>1. at \in {"tries", "request"} /\ Fresh \in Run /\ Fresh.wrong = "no" /\ Fresh.kind = "login"
      BY FreshRun
    <3>2. run'[h].at = at /\ run'[h].proof = proof /\ run'[h].wrong = "no" /\ run'[h].kind = "login" /\ run'[h].saw = saw
      BY <2>5, <3>1 DEF Run
    <3>3. run'[h] \in Run
      <4> DEFINE sent == [Fresh EXCEPT !.device = d, !.network = n, !.typed = p]
      <4>1. sent \in Run
        BY <2>4, <3>1 DEF Run
      <4>2. run'[h] = [sent EXCEPT !.saw = saw, !.proof = proof, !.at = at]
        BY <2>5, <3>1 DEF Run
      <4> HIDE DEF sent, at
      <4>3. at \in {"tries", "request"}
        BY <3>1
      <4> QED
        BY <2>2, <2>3, <4>1, <4>2, <4>3 DEF Run
    <3> QED
      BY <3>2, <3>3
  <2>7. run[h].at = "new"
    BY <1>3, FreshRun DEF ReadUser
  <2>8. Stage(run'[h])
    BY <2>3, <2>4, <2>6 DEF Stage
  <2> QED
    BY <2>1, <2>3, <2>6, <2>7, <2>8 DEF Moves, Only, Taken
<1>4. ASSUME TakeTries(h)
      PROVE  Moves(h) /\ Only(h)
  <2>1. run[h].at = "tries" /\ run[h].proof.way = "none"
    BY <1>1, <1>4 DEF TakeTries, Stage
  <2>2. CASE Over(h)
    BY <2>1, <2>2, IsOver
  <2>3. CASE Goes(h, [run[h] EXCEPT !.at = "hash", !.wide = "all"])
    <3>1. run'[h] = [run[h] EXCEPT !.at = "hash", !.wide = "all"]
      BY <1>1, <2>3 DEF Goes
    <3>2. run'[h] \in Run /\ run'[h].at = "hash" /\ run'[h].proof = run[h].proof /\ run'[h].wrong = run[h].wrong
          /\ run'[h].saw = run[h].saw
      BY <1>1, <3>1 DEF Run
    <3> QED
      BY <1>1, <2>1, <2>3, <3>2 DEF Moves, Only, Taken, Stage
  <2>4. CASE To(h, "known")
    BY <2>1, <2>4, GoesOn
  <2> QED
    BY <1>4, <2>2, <2>3, <2>4 DEF TakeTries
<1>5. ASSUME TakeKnown(h)
      PROVE  Moves(h) /\ Only(h)
  <2>1. run[h].at = "known" /\ run[h].proof.way = "none"
    BY <1>1, <1>5 DEF TakeKnown, Stage
  <2>2. CASE Over(h)
    BY <2>1, <2>2, IsOver
  <2>3. CASE Goes(h, [run[h] EXCEPT !.at = "hash", !.wide = "known"])
    <3>1. run'[h] = [run[h] EXCEPT !.at = "hash", !.wide = "known"]
      BY <1>1, <2>3 DEF Goes
    <3>2. run'[h] \in Run /\ run'[h].at = "hash" /\ run'[h].proof = run[h].proof /\ run'[h].wrong = run[h].wrong
          /\ run'[h].saw = run[h].saw
      BY <1>1, <3>1 DEF Run
    <3> QED
      BY <1>1, <2>1, <2>3, <3>2 DEF Moves, Only, Taken, Stage
  <2> QED
    BY <1>5, <2>2, <2>3 DEF TakeKnown
<1>6. ASSUME VerifyLogin(h)
      PROVE  Moves(h) /\ Only(h)
  <2>1. run[h].at = "hash" /\ run[h].proof.way = "none"
    BY <1>1, <1>6 DEF VerifyLogin, Stage
  <2>2. CASE WrongGuess(h, "password")
    BY <2>1, <2>2, IsWrong
  <2>3. CASE To(h, "rehash")
    BY <2>1, <2>3, GoesOn
  <2>4. CASE To(h, "device")
    BY <2>1, <2>4, GoesOn
  <2> QED
    BY <1>6, <2>2, <2>3, <2>4 DEF VerifyLogin
<1>7. ASSUME Rehash(h)
      PROVE  Moves(h) /\ Only(h)
  <2>1. run[h].at = "rehash" /\ run[h].proof.way = "none"
    BY <1>1, <1>7 DEF Rehash, Stage
  <2> QED
    BY <1>7, <2>1, GoesOn DEF Rehash
<1>8. ASSUME UseAuthRequest(h)
      PROVE  Moves(h) /\ Only(h)
  <2>1. run[h].at = "request" /\ run[h].proof.way = "request"
    BY <1>1, <1>8 DEF UseAuthRequest, Stage
  <2>2. CASE Over(h)
    BY <2>1, <2>2, IsOver
  <2>3. CASE /\ Lets(run[h].proof.by, run[h].device)
             /\ requests' = [requests EXCEPT ![run[h].proof.by] = "used"] /\ To(h, "device")
    <3>1. run'[h] = [run[h] EXCEPT !.at = "device"]
      BY <1>1, <2>3 DEF To, Goes
    <3>2. run'[h].proof = run[h].proof
      BY <1>1, <3>1 DEF Run
    <3>3. Fits(h)
      BY <1>2, <2>1, <2>3, <3>2 DEF Fits, Lets
    <3> QED
      BY <2>1, <2>3, <3>3, GoesOn
  <2> QED
    BY <1>8, <2>2, <2>3 DEF UseAuthRequest
<1>9. ASSUME ReadDevice(h)
      PROVE  Moves(h) /\ Only(h)
  <2> DEFINE at == IF run[h].proof.way = "request" THEN "finish" ELSE "second"
             seen == devices[run[h].device].remembered
  <2>1. run[h].at = "device" /\ run[h].proof.way \in {"none", "request"}
    BY <1>1, <1>9 DEF ReadDevice, Stage
  <2>2. run'[h] = [run[h] EXCEPT !.seen = seen, !.at = at]
    BY <1>1, <1>9 DEF ReadDevice, Goes
  <2>3. seen \in Makers \cup {None}
    BY <1>1 DEF LoginsTypeOK, Run
  <2> HIDE DEF seen
  <2>4. run'[h] \in Run /\ run'[h].at = at /\ run'[h].proof = run[h].proof /\ run'[h].wrong = run[h].wrong
    BY <1>1, <2>2, <2>3 DEF Run
  <2>5. Stage(run'[h])
    BY <1>1, <2>1, <2>4 DEF Stage
  <2> QED
    BY <1>9, <2>1, <2>4, <2>5 DEF Moves, Only, ReadDevice, Taken
<1>10. ASSUME CheckLogin(h)
       PROVE  Moves(h) /\ Only(h)
  <2>1. run[h].at = "second" /\ run[h].proof.way = "none"
    BY <1>1, <1>10 DEF CheckLogin, Stage
  <2>2. CASE To(h, "finish") \/ To(h, "put")
    BY <2>1, <2>2, GoesOn
  <2>3. CASE Over(h)
    BY <2>1, <2>3, IsOver
  <2>4. CASE WrongGuess(h, "second")
    BY <2>1, <2>4, IsWrong
  <2>5. ASSUME NEW at \in {"renew", "travelling", "step", "code"}, NEW proof \in Proof,
               Goes(h, [run[h] EXCEPT !.at = at, !.proof = proof]),
               at = "renew" => proof.way = "remember", at = "travelling" => proof.way = "recovery",
               at = "step" => proof.way = "totp" /\ proof.by = factors.totp /\ factors.totp # None,
               at = "code" => proof.way = "mail" /\ proof.n = 0 /\ proof.by \in {codes.login.by, None}
        PROVE  Moves(h) /\ Only(h)
    <3>1. run'[h] = [run[h] EXCEPT !.at = at, !.proof = proof]
      BY <1>1, <2>5 DEF Goes
    <3>2. run'[h].at = at /\ run'[h].proof = proof /\ run'[h].wrong = run[h].wrong
      BY <1>1, <3>1 DEF Run
    <3>3. run'[h] \in Run
      BY <1>1, <3>1 DEF Run
    <3>4. Stage(run'[h])
      BY <1>1, <2>1, <2>5, <3>2 DEF Stage
    <3> QED
      BY <2>1, <2>5, <3>2, <3>3, <3>4 DEF Moves, Only, Taken
  <2>6. CASE ShowsRemembered(h)
    <3>1. CASE Required(h)
      BY <2>3, <3>1 DEF Required
    <3>2. CASE Goes(h, [run[h] EXCEPT !.at = "renew", !.proof = Shows("remember", run[h].seen, 0)])
      <4>1. run[h].seen \in Makers \cup {None}
        BY <1>1 DEF Run
      <4> DEFINE proof == Shows("remember", run[h].seen, 0)
      <4>2. proof \in Proof /\ proof.way = "remember"
        BY <4>1 DEF Shows, Proof
      <4>3. Goes(h, [run[h] EXCEPT !.at = "renew", !.proof = proof])
        BY <3>2
      <4> HIDE DEF proof
      <4> QED
        BY <2>5, <4>2, <4>3
    <3> QED
      BY <2>6, <3>1, <3>2 DEF ShowsRemembered
  <2>7. CASE ShowsRecovery(h)
    <3>1. run[h].saw.recovery \in Makers \cup {None}
      BY <1>1 DEF Run
    <3> DEFINE proof == Shows("recovery", run[h].saw.recovery, 0)
    <3>2. proof \in Proof /\ proof.way = "recovery"
      BY <3>1, ShowsProof
    <3>3. Goes(h, [run[h] EXCEPT !.at = "travelling", !.proof = proof])
      BY <2>7 DEF ShowsRecovery
    <3> HIDE DEF proof
    <3> QED
      BY <2>5, <3>2, <3>3
  <2>8. CASE ShowsTotp(h)
    <3>1. factors.totp \in Makers \cup {None} /\ factors.totp # None
      BY <1>2, <2>8 DEF ShowsTotp, On, Factors
    <3>2. PICK s \in Nat : Goes(h, [run[h] EXCEPT !.at = "step", !.proof = Shows("totp", factors.totp, s)])
      BY <2>8 DEF ShowsTotp
    <3> DEFINE proof == Shows("totp", factors.totp, s)
    <3>3. proof \in Proof /\ proof.way = "totp" /\ proof.by = factors.totp
      BY <3>1, ShowsProof DEF Ways
    <3>4. Goes(h, [run[h] EXCEPT !.at = "step", !.proof = proof])
      BY <3>2
    <3> HIDE DEF proof
    <3> QED
      BY <2>5, <3>1, <3>3, <3>4
  <2>9. CASE ShowsKey(h)
    <3> DEFINE proof == Shows("key", challenges.login, 0)
    <3>1. proof \in Proof /\ proof.way = "key" /\ proof.by = challenges.login /\ proof.n = 0
      BY <1>2, ShowsProof DEF Ways
    <3> HIDE DEF proof
    <3>2. run'[h] = [run[h] EXCEPT !.at = "data", !.keys = factors.keys, !.proof = proof]
      BY <1>1, <2>9 DEF ShowsKey, Goes, proof
    <3>3. factors.keys # {} /\ factors.keys \subseteq Keys
      BY <1>2, <2>9 DEF ShowsKey, On, Factors
    <3>4. run'[h] \in Run /\ run'[h].at = "data" /\ run'[h].proof = proof /\ run'[h].wrong = run[h].wrong
          /\ run'[h].keys = factors.keys
      BY <1>1, <3>1, <3>2, <3>3 DEF Run
    <3>5. challenges'.login = None /\ challenges.login # None
      BY <1>2, <2>9 DEF ShowsKey
    <3>6. Fits(h)
      BY <3>1, <3>4, <3>5 DEF Fits
    <3>7. Stage(run'[h])
      BY <1>1, <2>1, <3>1, <3>3, <3>4 DEF Stage
    <3> QED
      BY <2>1, <2>9, <3>1, <3>4, <3>6, <3>7 DEF Moves, Only, ShowsKey
  <2>10. CASE ShowsMail(h)
    <3>1. PICK c \in {codes.login.by, None} : Goes(h, [run[h] EXCEPT !.at = "code", !.proof = Shows("mail", c, 0)])
      BY <2>10 DEF ShowsMail
    <3>2. c \in Makers \cup {None}
      BY <1>2 DEF Code
    <3> DEFINE proof == Shows("mail", c, 0)
    <3>3. proof \in Proof /\ proof.way = "mail" /\ proof.by = c /\ proof.n = 0
      BY <3>2, ShowsProof DEF Ways
    <3>4. Goes(h, [run[h] EXCEPT !.at = "code", !.proof = proof])
      BY <3>1
    <3> HIDE DEF proof
    <3> QED
      BY <2>5, <3>1, <3>3, <3>4
  <2> QED
    BY <1>10, <2>2, <2>3, <2>4, <2>6, <2>7, <2>8, <2>9, <2>10 DEF CheckLogin, AsksForCode, Required, GuessesWrong
<1>11. ASSUME UseTotpStep(h)
       PROVE  Moves(h) /\ Only(h)
  <2>1. run[h].at = "step" /\ run[h].proof.way = "totp"
    BY <1>1, <1>11 DEF UseTotpStep, Stage
  <2>2. CASE WrongGuess(h, "second")
    BY <2>1, <2>2, IsWrong
  <2>3. CASE Takes(factors, run[h].proof.n) /\ factors' = [factors EXCEPT !.last = run[h].proof.n] /\ To(h, "finish")
    <3>1. run'[h] = [run[h] EXCEPT !.at = "finish"]
      BY <1>1, <2>3 DEF To, Goes
    <3>2. run'[h].proof = run[h].proof
      BY <1>1, <3>1 DEF Run
    <3>3. Fits(h)
      BY <1>2, <2>1, <2>3, <3>2 DEF Fits, Takes, Factors
    <3> QED
      BY <2>1, <2>3, <3>3, GoesOn
  <2> QED
    BY <1>11, <2>2, <2>3 DEF UseTotpStep, Passes
<1>12. ASSUME WriteKeys(h)
       PROVE  Moves(h) /\ Only(h)
  <2>1. run[h].at = "data" /\ run[h].proof.way = "key"
    BY <1>1, <1>12 DEF WriteKeys, Stage
  <2> QED
    BY <1>12, <2>1, GoesOn DEF WriteKeys, Passes, Taken
<1>13. ASSUME TakeCode(h)
       PROVE  Moves(h) /\ Only(h)
  <2> DEFINE c == codes.login
  <2>1. run[h].at = "code" /\ run[h].proof.way = "mail"
    BY <1>1, <1>13 DEF TakeCode, Stage
  <2>2. CASE Goes(h, [Fresh EXCEPT !.at = "over", !.wrong = "second", !.proof = Shows("mail", c.by, 0)])
    <3> DEFINE proof == Shows("mail", c.by, 0)
    <3>1. c.by \in Makers \cup {None}
      BY <1>2 DEF Code
    <3>2. proof \in Proof /\ proof.way = "mail" /\ proof.by = c.by /\ proof.n = 0
      BY <3>1 DEF Shows, Proof, Ways
    <3> HIDE DEF proof
    <3>3. run'[h] = [Fresh EXCEPT !.at = "over", !.wrong = "second", !.proof = proof]
      BY <1>1, <2>2 DEF Goes, proof
    <3>4. run'[h] \in Run /\ run'[h].at = "over" /\ run'[h].proof = proof
      BY <3>2, <3>3, FreshRun DEF Run
    <3>5. Stage(run'[h])
      BY <3>2, <3>4 DEF Stage
    <3> QED
      BY <2>1, <2>2, <3>2, <3>4, <3>5 DEF Moves, Only, Taken
  <2>3. CASE /\ c.by # None /\ run[h].proof.by = c.by /\ codes' = [codes EXCEPT !.login = NoCode]
             /\ To(h, "finish")
    <3>1. run'[h] = [run[h] EXCEPT !.at = "finish"]
      BY <1>1, <2>3 DEF To, Goes
    <3>2. run'[h].proof = run[h].proof
      BY <1>1, <3>1 DEF Run
    <3>3. codes'.login.by = None
      BY <1>2, <2>3 DEF NoCode
    <3>4. Fits(h)
      BY <2>1, <2>3, <3>2, <3>3 DEF Fits
    <3> QED
      BY <2>1, <2>3, <3>4, GoesOn
  <2> QED
    BY <1>13, <2>2, <2>3 DEF TakeCode, Passes
<1>14. ASSUME Renew(h)
       PROVE  Moves(h) /\ Only(h)
  <2>1. run[h].at = "renew" /\ run[h].proof.way = "remember"
    BY <1>1, <1>14 DEF Renew, Stage
  <2> QED
    BY <1>14, <2>1, GoesOn DEF Renew, Passes
<1>15. ASSUME CheckTravelling(h) \/ Recover(h)
       PROVE  Moves(h) /\ Only(h)
  <2>1. run[h].at \in {"travelling", "remove"} /\ run[h].proof.way = "recovery"
    BY <1>1, <1>15 DEF CheckTravelling, Recover, Stage
  <2>2. CASE Over(h)
    BY <2>1, <2>2, IsOver
  <2>3. CASE To(h, "remove") \/ To(h, "finish")
    BY <2>1, <2>3, GoesOn
  <2> QED
    BY <1>15, <2>2, <2>3 DEF CheckTravelling, Recover, Passes
<1>16. ASSUME FinishLogin(h)
       PROVE  Moves(h) /\ Only(h)
  <2>1. run[h].at = "finish"
    BY <1>16 DEF FinishLogin
  <2>2. run'[h] = [Fresh EXCEPT !.at = "in", !.proof = run[h].proof]
    BY <1>1, <1>16 DEF FinishLogin, Goes
  <2>3. run[h].proof \in Proof
    BY <1>1 DEF Run
  <2>4. run'[h] \in Run /\ run'[h].at = "in" /\ run'[h].proof = run[h].proof /\ run'[h].wrong = "no"
    BY <2>2, <2>3, FreshRun DEF Run
  <2>5. Stage(run'[h])
    BY <1>1, <2>4 DEF Stage
  <2> QED
    BY <1>16, <2>1, <2>4, <2>5 DEF Moves, Only, FinishLogin, Taken
<1> QED
  BY <1>3, <1>4, <1>5, <1>6, <1>7, <1>8, <1>9, <1>10, <1>11, <1>12, <1>13, <1>14, <1>15, <1>16 DEF PasswordLogin

LEMMA SettingMoves ==
    ASSUME LoginsTypeOK, NEW h \in Handlers, ShownInv(h),
           Settings(h) \/ SendLoginCode(h) \/ ReadFactors(h) \/ PutCode(h) \/ Create(h) \/ Answer(h)
    PROVE  Moves(h) /\ Only(h)
<1>1. run[h] \in Run /\ DOMAIN run = Handlers /\ Stage(run[h])
  BY DEF LoginsTypeOK, ShownInv
<1>2. factors \in Factors /\ step \in Nat /\ factors.keys \subseteq Keys
  BY LoginBounds DEF LoginsTypeOK, Factors
<1>3. ASSUME NEW kind \in Kinds, NEW at \in {"factors", "put", "allowed", "over"}, run[h] = Fresh,
             Goes(h, [Fresh EXCEPT !.kind = kind, !.at = at])
      PROVE  Moves(h) /\ Only(h)
  <2>1. run'[h] = [Fresh EXCEPT !.kind = kind, !.at = at]
    BY <1>1, <1>3 DEF Goes
  <2>2. run'[h] \in Run /\ run'[h].at = at /\ run'[h].proof.way = "none" /\ run'[h].proof.n = 0
        /\ run'[h].wrong = "no"
    BY <2>1, FreshRun DEF Run
  <2> QED
    BY <1>3, <2>2, FreshRun DEF Moves, Only, Stage, Taken
<1>4. CASE Setting(h)
  <2>1. PICK kind \in {"disable", "delete", "activate", "setup", "mail", "enroll", "key", "unkey"} :
           Asks(h, kind) /\ Goes(h, [Fresh EXCEPT !.kind = kind, !.at = IF kind = "setup" THEN "put" ELSE "allowed"])
    BY <1>4 DEF Setting
  <2> QED
    BY <1>3, <2>1 DEF Asks, Kinds
<1>5. CASE SendLoginCode(h) \/ ReadFactors(h)
  <2>1. CASE WrongGuess(h, "mailing") /\ run[h] = Fresh
    BY <2>1, FreshRun, IsWrong
  <2>2. CASE Goes(h, [Fresh EXCEPT !.kind = "code", !.at = "factors"]) /\ run[h] = Fresh
    BY <1>3, <2>2 DEF Kinds
  <2>3. CASE Over(h) /\ run[h].at = "factors"
    BY <2>3, IsOver
  <2>4. CASE To(h, "put") /\ run[h].at = "factors"
    BY <2>4, GoesOn
  <2> QED
    BY <1>5, <2>1, <2>2, <2>3, <2>4 DEF SendLoginCode, ReadFactors
<1>6. CASE Answer(h)
  BY <1>3, <1>6 DEF Answer, Kinds
<1>7. CASE Create(h)
  <2>1. PICK d \in Devices : Goes(h, [Fresh EXCEPT !.kind = "ask", !.at = "over", !.device = d])
    BY <1>7 DEF Create
  <2>2. run'[h] = [Fresh EXCEPT !.kind = "ask", !.at = "over", !.device = d]
    BY <1>1, <2>1 DEF Goes
  <2>3. run'[h] \in Run /\ run'[h].at = "over" /\ run'[h].proof.way = "none" /\ run'[h].proof.n = 0
        /\ run'[h].wrong = "no"
    BY <2>2, FreshRun DEF Run, Kinds
  <2> QED
    BY <1>7, <2>1, <2>3, FreshRun DEF Create, Moves, Only, Stage, Taken
<1>8. ASSUME run[h].at \notin {"over", "in"}, Over(h)
      PROVE  Moves(h) /\ Only(h)
  BY <1>8, IsOver
<1>9. CASE PutCode(h)
  BY <1>8, <1>9 DEF PutCode
<1>10. CASE ForgetRemembered(h) \/ SetEmail(h) \/ UseFirstStep(h)
  BY <1>8, <1>10 DEF ForgetRemembered, SetEmail, UseFirstStep
<1>11. CASE WebauthnChallenge(h) \/ ActivateWebauthn(h)
  BY <1>8, <1>11 DEF WebauthnChallenge, ActivateWebauthn, Does
<1>12. ASSUME NEW at \in {"forget", "unset", "set"}, run[h].at \in {"allowed", "unset", "write"}, To(h, at)
       PROVE  Moves(h) /\ Only(h)
  BY <1>12, GoesOn
<1>13. CASE Disable(h) \/ CompareKey(h) \/ DeleteAuthenticator(h) \/ ActivateEmail(h)
  BY <1>12, <1>13 DEF Disable, CompareKey, DeleteAuthenticator, ActivateEmail, Does
<1>14. CASE DeleteWebauthn(h)
  <2>1. run[h].at = "write" /\ (To(h, "forget") \/ Over(h))
    BY <1>14 DEF DeleteWebauthn
  <2> QED
    BY <1>8, <1>12, <2>1
<1>15. CASE ActivateAuthenticator(h)
  <2>1. PICK s \in Nat : Goes(h, [run[h] EXCEPT !.at = "use", !.proof = Shows("totp", h, s)])
    BY <1>15 DEF ActivateAuthenticator
  <2> DEFINE proof == Shows("totp", h, s)
  <2>2. proof \in Proof /\ proof.way = "totp"
    BY ShowsProof DEF Ways, Makers
  <2> HIDE DEF proof
  <2>3. run'[h] = [run[h] EXCEPT !.at = "use", !.proof = proof]
    BY <1>1, <2>1 DEF Goes, proof
  <2>4. run'[h] \in Run /\ run'[h].at = "use" /\ run'[h].proof = proof /\ run'[h].wrong = run[h].wrong
    BY <1>1, <2>2, <2>3 DEF Run
  <2>5. run[h].at = "allowed"
    BY <1>15 DEF ActivateAuthenticator, Does
  <2>6. Stage(run'[h])
    BY <1>1, <2>2, <2>4, <2>5 DEF Stage
  <2> QED
    BY <2>1, <2>2, <2>4, <2>5, <2>6 DEF Moves, Only, Taken
<1>16. ASSUME NEW keys \in SUBSET Keys, run[h].at = "allowed", run[h].kind = "key" => keys # {},
              Goes(h, [run[h] EXCEPT !.at = "write", !.keys = keys])
       PROVE  Moves(h) /\ Only(h)
  <2>1. run'[h] = [run[h] EXCEPT !.at = "write", !.keys = keys]
    BY <1>1, <1>16 DEF Goes
  <2>2. run'[h] \in Run /\ run'[h].at = "write" /\ run'[h].proof = run[h].proof /\ run'[h].wrong = run[h].wrong
        /\ run'[h].kind = run[h].kind /\ run'[h].keys = keys
    BY <1>1, <2>1 DEF Run
  <2>3. Stage(run'[h])
    BY <1>1, <1>16, <2>2 DEF Stage
  <2> QED
    BY <1>16, <2>2, <2>3 DEF Moves, Only, Taken
<1>17. CASE TakeRegistration(h)
  <2>1. PICK k \in Keys \ factors.keys, before \in {{}} \cup {{x} : x \in factors.keys} :
           Goes(h, [run[h] EXCEPT !.at = "write", !.keys = (factors.keys \ before) \cup {k}])
    BY <1>17 DEF TakeRegistration
  <2>2. (factors.keys \ before) \cup {k} \in SUBSET Keys /\ (factors.keys \ before) \cup {k} # {}
    BY <1>2
  <2> QED
    BY <1>16, <1>17, <2>1, <2>2 DEF TakeRegistration, Does
<1>18. CASE ReadKeys(h)
  <2>1. PICK k \in Keys : Goes(h, [run[h] EXCEPT !.at = "write", !.keys = factors.keys \ {k}])
    BY <1>18 DEF ReadKeys
  <2> QED
    BY <1>2, <1>16, <1>18, <2>1 DEF ReadKeys, Does
<1> QED
  BY <1>4, <1>5, <1>6, <1>7, <1>9, <1>10, <1>11, <1>13, <1>14, <1>15, <1>17, <1>18 DEF Settings

\* One handler moves in a step, or none.
Handled(h) ==
    PasswordLogin(h) \/ Settings(h) \/ SendLoginCode(h) \/ ReadFactors(h) \/ PutCode(h) \/ Create(h) \/ Answer(h)

Meanwhile == ChangePassword \/ SwitchTravel \/ RunsOut \/ TimeGoesOn \/ Refill

LEMMA OneMoves ==
    ASSUME LoginsTypeOK, \A h \in Handlers : ShownInv(h), LoginsNext
    PROVE  UNCHANGED run \/ \E h \in Handlers : Moves(h) /\ \A g \in Handlers \ {h} : run'[g] = run[g]
<1>1. CASE \E h \in Handlers : Handled(h)
  <2>1. PICK h \in Handlers : Handled(h)
    BY <1>1
  <2>2. Moves(h) /\ Only(h)
    BY <2>1, LoginMoves, SettingMoves DEF Handled
  <2>3. \A g \in Handlers \ {h} : run'[g] = run[g]
    BY <2>2 DEF Only, Goes, LoginsTypeOK
  <2> QED
    BY <2>2, <2>3
<1>2. CASE Meanwhile
  BY <1>2 DEF Meanwhile, ChangePassword, SwitchTravel, RunsOut, TimeGoesOn, Refill
<1> QED
  BY <1>1, <1>2 DEF LoginsNext, Handled, Meanwhile

LEMMA RunType ==
    ASSUME LoginsTypeOK, \A h \in Handlers : ShownInv(h), LoginsNext
    PROVE  run' \in [Handlers -> Run]
<1>1. CASE UNCHANGED run
  BY <1>1 DEF LoginsTypeOK
<1>2. CASE ~UNCHANGED run
  <2>1. PICK h \in Handlers : Handled(h)
    BY <1>2 DEF LoginsNext, Handled, ChangePassword, SwitchTravel, RunsOut, TimeGoesOn, Refill
  <2>2. Moves(h) /\ Only(h)
    BY <2>1, LoginMoves, SettingMoves DEF Handled
  <2>3. PICK r : run' = [run EXCEPT ![h] = r]
    BY <2>2 DEF Only, Goes
  <2>4. run'[h] \in Run /\ run'[h] = r
    BY <2>2, <2>3 DEF Moves, LoginsTypeOK
  <2> QED
    BY <2>3, <2>4 DEF LoginsTypeOK
<1> QED
  BY <1>1, <1>2

-----------------------------------------------------------------------------
(* What a step costs: the tries it takes or gives back against who counts. *)

One(b) == IF b THEN 1 ELSE 0

LEMMA OneAlone ==
    ASSUME NEW H, IsFiniteSet(H), NEW h \in H, NEW S \in SUBSET H, NEW T \in SUBSET H,
           \A g \in H \ {h} : g \in S <=> g \in T
    PROVE  /\ Cardinality(S) \in Nat /\ Cardinality(T) \in Nat
           /\ Cardinality(T) + One(h \in S) = Cardinality(S) + One(h \in T)
<1> DEFINE R == S \ {h}
<1>1. R \in SUBSET H /\ R = T \ {h} /\ h \notin R
  OBVIOUS
<1>2. IsFiniteSet(R) /\ Cardinality(R) \in Nat
  BY <1>1, FS_Subset, FS_CardinalityType
<1>3. Cardinality(R \cup {h}) = Cardinality(R) + 1
  BY <1>1, <1>2, FS_AddElement
<1>4. S = (IF h \in S THEN R \cup {h} ELSE R) /\ T = (IF h \in T THEN R \cup {h} ELSE R)
  BY <1>1
<1> HIDE DEF R
<1>5. Cardinality(S) = Cardinality(R) + One(h \in S)
  <2>1. CASE h \in S
    BY <1>3, <1>4, <2>1 DEF One
  <2>2. CASE h \notin S
    BY <1>2, <1>4, <2>2 DEF One
  <2> QED
    BY <2>1, <2>2
<1>6. Cardinality(T) = Cardinality(R) + One(h \in T)
  <2>1. CASE h \in T
    BY <1>3, <1>4, <2>1 DEF One
  <2>2. CASE h \notin T
    BY <1>2, <1>4, <2>2 DEF One
  <2> QED
    BY <2>1, <2>2
<1>7. One(h \in S) \in Nat /\ One(h \in T) \in Nat
  BY DEF One
<1> QED
  BY <1>2, <1>5, <1>6, <1>7

\* Nobody guesses, knows or shows anything without a try taken for it.
Costs(h) ==
    /\ tries' \in Tries /\ tries'.back = tries.back
    /\ One(Guesses(run'[h])) + tries'.all + tries'.known <= One(Guesses(run[h])) + tries.all + tries.known
    /\ \A n \in Networks :
          One(GuessesFrom(run'[h], n)) + tries'.network[n] <= One(GuessesFrom(run[h], n)) + tries.network[n]
    /\ One(ShowsOne(run'[h])) + tries'.second <= One(ShowsOne(run[h])) + tries.second
    /\ run'[h].wrong = "second" /\ run'[h].proof.way = "mail"
          => /\ run[h].at = "code" /\ run'[h].proof.by = codes.login.by
             /\ codes'.login.by = None \/ codes'.login.wrong = codes.login.wrong + 1

TriesAreNumbers ==
    /\ tries \in Tries /\ tries.all \in Nat /\ tries.known \in Nat /\ tries.second \in Nat
    /\ tries.network \in [Networks -> Nat] /\ tries.back \in Nat

LEMMA TriesNumbers == ASSUME LoginsTypeOK PROVE TriesAreNumbers
BY LoginBounds DEF LoginsTypeOK, Tries, TriesAreNumbers

Trying == {"known", "hash", "renew", "data", "step", "code", "travelling", "remove"}

LEMMA Quiet ==
    ASSUME LoginsTypeOK, NEW h \in Handlers, tries' = tries, run'[h].wrong \in {"no", "mailing"},
           run'[h].at \notin Trying
    PROVE  Costs(h)
<1>1. TriesAreNumbers
  BY TriesNumbers
<1>2. ~Guesses(run'[h]) /\ ~ShowsOne(run'[h]) /\ \A n \in Networks : ~GuessesFrom(run'[h], n)
  BY DEF Guesses, ShowsOne, GuessesFrom, Trying
<1>3. One(Guesses(run'[h])) = 0 /\ One(ShowsOne(run'[h])) = 0 /\ \A n \in Networks : One(GuessesFrom(run'[h], n)) = 0
  BY <1>2 DEF One
<1>4. One(Guesses(run[h])) \in {0, 1} /\ One(ShowsOne(run[h])) \in {0, 1}
      /\ \A n \in Networks : One(GuessesFrom(run[h], n)) \in {0, 1}
  BY DEF One
<1> QED
  BY <1>1, <1>3, <1>4 DEF Costs, TriesAreNumbers

LEMMA GoesTo ==
    ASSUME LoginsTypeOK, NEW h \in Handlers, NEW at, To(h, at)
    PROVE  /\ run'[h] = [run[h] EXCEPT !.at = at]
           /\ run'[h].at = at /\ run'[h].wrong = run[h].wrong /\ run'[h].network = run[h].network
           /\ run'[h].proof = run[h].proof /\ run'[h].kind = run[h].kind /\ run'[h].keys = run[h].keys
<1>1. DOMAIN run = Handlers /\ run[h] \in Run
  BY DEF LoginsTypeOK
<1>2. run'[h] = [run[h] EXCEPT !.at = at]
  BY <1>1 DEF To, Goes
<1> QED
  BY <1>1, <1>2 DEF Run

LEMMA OverNow ==
    ASSUME LoginsTypeOK, NEW h \in Handlers, Over(h)
    PROVE  run'[h].at = "over" /\ run'[h].wrong = "no" /\ run'[h].proof.way = "none"
<1>1. DOMAIN run = Handlers
  BY DEF LoginsTypeOK
<1>2. run'[h] = [Fresh EXCEPT !.at = "over"]
  BY <1>1 DEF Over, Goes
<1> QED
  BY <1>2, FreshRun DEF Run

\* A step that leaves the tries alone and neither starts nor ends to wait for one.
LEMMA QuietTo ==
    ASSUME LoginsTypeOK, NEW h \in Handlers, ShownInv(h), tries' = tries, run[h].at # "over",
           NEW at, To(h, at), at \notin Trying
    PROVE  Costs(h)
<1>1. run[h].wrong = "no"
  BY DEF ShownInv, Stage, LoginsTypeOK, Run
<1> QED
  BY <1>1, GoesTo, Quiet

LEMMA QuietOver ==
    ASSUME LoginsTypeOK, NEW h \in Handlers, tries' = tries, Over(h)
    PROVE  Costs(h)
BY OverNow, Quiet DEF Trying

\* A right second step gives its try back.
LEMMA PassesCosts ==
    ASSUME LoginsTypeOK, NEW h \in Handlers, ShownInv(h),
           run[h].at \in {"renew", "data", "step", "code", "travelling", "remove"}, Passes(h)
    PROVE  Costs(h)
<1>1. TriesAreNumbers
  BY TriesNumbers
<1>2. run[h].wrong = "no"
  BY DEF ShownInv, Stage, LoginsTypeOK, Run
<1>3. run'[h].at = "finish" /\ run'[h].wrong = "no"
  BY <1>2, GoesTo DEF Passes
<1>4. tries' = [tries EXCEPT !.second = Least(@ + 1, CodeTries)]
  BY DEF Passes, GiveBackSecond
<1>5. tries' \in Tries /\ tries'.back = tries.back /\ tries'.all = tries.all /\ tries'.known = tries.known
      /\ tries'.network = tries.network /\ tries'.second <= tries.second + 1 /\ tries'.second \in Nat
  BY <1>1, <1>4, LoginBounds DEF Tries, TriesAreNumbers, Least
<1>6. One(Guesses(run'[h])) = 0 /\ One(ShowsOne(run'[h])) = 0 /\ One(ShowsOne(run[h])) = 1
      /\ \A n \in Networks : One(GuessesFrom(run'[h], n)) = 0
  BY <1>3 DEF One, Guesses, ShowsOne, GuessesFrom
<1>7. One(Guesses(run[h])) \in {0, 1} /\ \A n \in Networks : One(GuessesFrom(run[h], n)) \in {0, 1}
  BY DEF One
<1> QED
  BY <1>1, <1>3, <1>5, <1>6, <1>7 DEF Costs, TriesAreNumbers

\* A wrong one keeps it.
LEMMA WrongCosts ==
    ASSUME LoginsTypeOK, NEW h \in Handlers, tries' = tries,
           run[h].at \in {"renew", "data", "step", "code", "travelling", "remove"},
           run'[h].wrong = "second", run'[h].at = "over",
           run'[h].proof.way = "mail" => /\ run[h].at = "code" /\ run'[h].proof.by = codes.login.by
                                         /\ codes'.login.by = None \/ codes'.login.wrong = codes.login.wrong + 1
    PROVE  Costs(h)
<1>1. TriesAreNumbers
  BY TriesNumbers
<1>2. One(Guesses(run'[h])) = 0 /\ One(ShowsOne(run'[h])) = 1 /\ One(ShowsOne(run[h])) = 1
      /\ \A n \in Networks : One(GuessesFrom(run'[h], n)) = 0
  BY DEF One, Guesses, ShowsOne, GuessesFrom
<1>3. One(Guesses(run[h])) \in {0, 1} /\ \A n \in Networks : One(GuessesFrom(run[h], n)) \in {0, 1}
  BY DEF One
<1> QED
  BY <1>1, <1>2, <1>3 DEF Costs, TriesAreNumbers

LEMMA TriesCosts ==
    ASSUME LoginsTypeOK, NEW h \in Handlers, ShownInv(h), TakeTries(h)
    PROVE  Costs(h)
<1> DEFINE n == run[h].network
<1>1. TriesAreNumbers /\ n \in Networks /\ run[h] \in Run /\ DOMAIN run = Handlers
  BY TriesNumbers DEF LoginsTypeOK, Run
<1>2. run[h].at = "tries" /\ run[h].wrong = "no"
  BY DEF TakeTries, ShownInv, Stage, LoginsTypeOK, Run
<1>3. CASE Over(h) /\ UNCHANGED tries
  BY <1>3, QuietOver
<1>4. CASE /\ tries.network[n] > 0 /\ tries.all > 0
           /\ tries' = [tries EXCEPT !.network[n] = @ - 1, !.all = @ - 1]
           /\ Goes(h, [run[h] EXCEPT !.at = "hash", !.wide = "all"])
  <2>1. run'[h] = [run[h] EXCEPT !.at = "hash", !.wide = "all"]
    BY <1>1, <1>4 DEF Goes
  <2>2. run'[h].at = "hash" /\ run'[h].wrong = "no" /\ run'[h].network = n
    BY <1>1, <1>2, <2>1 DEF Run
  <2>3. tries'.all = tries.all - 1 /\ tries'.known = tries.known /\ tries'.second = tries.second
        /\ tries'.back = tries.back /\ tries'.network = [tries.network EXCEPT ![n] = @ - 1]
    BY <1>1, <1>4 DEF Tries, TriesAreNumbers
  <2>4. tries'.network \in [Networks -> 0..NetworkTries] /\ tries'.network[n] = tries.network[n] - 1
        /\ \A m \in Networks \ {n} : tries'.network[m] = tries.network[m]
    BY <1>1, <1>4, <2>3, LoginBounds DEF Tries, TriesAreNumbers
  <2> DEFINE left == tries'.network
  <2>5. tries' = [tries EXCEPT !.network = left, !.all = tries.all - 1]
    BY <1>1, <1>4, <2>3 DEF Tries, TriesAreNumbers
  <2>6. tries.all - 1 \in 0..AccountTries
    BY <1>1, <1>4, LoginBounds DEF Tries, TriesAreNumbers
  <2>7. left \in [Networks -> 0..NetworkTries]
    BY <2>4
  <2> HIDE DEF left
  <2>8. tries' \in Tries
    BY <1>1, <2>5, <2>6, <2>7 DEF Tries, TriesAreNumbers
  <2> USE DEF left
  <2>9. /\ One(Guesses(run'[h])) = 1 /\ One(ShowsOne(run'[h])) = 0
        /\ \A m \in Networks : One(GuessesFrom(run'[h], m)) = One(m = n)
        /\ One(Guesses(run[h])) = 0 /\ One(ShowsOne(run[h])) = 0
        /\ \A m \in Networks : One(GuessesFrom(run[h], m)) = 0
    BY <1>2, <2>2 DEF One, Guesses, ShowsOne, GuessesFrom
  <2>10. One(TRUE) = 1 /\ One(FALSE) = 0
    BY DEF One
  <2>11. \A m \in Networks : One(m = n) + tries'.network[m] <= tries.network[m]
    <3> TAKE m \in Networks
    <3>1. CASE m = n
      BY <1>1, <2>4, <3>1 DEF TriesAreNumbers, One
    <3>2. CASE m # n
      BY <1>1, <2>4, <3>2 DEF TriesAreNumbers, One
    <3> QED
      BY <3>1, <3>2
  <2>12. One(Guesses(run'[h])) + tries'.all + tries'.known <= One(Guesses(run[h])) + tries.all + tries.known
    BY <1>1, <2>3, <2>9 DEF TriesAreNumbers
  <2>13. \A m \in Networks :
            One(GuessesFrom(run'[h], m)) + tries'.network[m] <= One(GuessesFrom(run[h], m)) + tries.network[m]
    BY <1>1, <2>9, <2>11 DEF TriesAreNumbers
  <2> QED
    BY <1>1, <2>2, <2>3, <2>8, <2>9, <2>12, <2>13 DEF Costs, TriesAreNumbers
<1>5. CASE /\ tries.network[n] > 0
           /\ tries' = [tries EXCEPT !.network[n] = @ - 1]
           /\ To(h, "known")
  <2>2. run'[h].at = "known" /\ run'[h].wrong = "no" /\ run'[h].network = n
    BY <1>2, <1>5, GoesTo
  <2>3. tries'.all = tries.all /\ tries'.known = tries.known /\ tries'.second = tries.second
        /\ tries'.back = tries.back /\ tries'.network = [tries.network EXCEPT ![n] = @ - 1]
    BY <1>1, <1>5 DEF Tries, TriesAreNumbers
  <2>4. tries'.network \in [Networks -> 0..NetworkTries] /\ tries'.network[n] = tries.network[n] - 1
        /\ \A m \in Networks \ {n} : tries'.network[m] = tries.network[m]
    BY <1>1, <1>5, <2>3, LoginBounds DEF Tries, TriesAreNumbers
  <2>5. tries' \in Tries
    BY <1>1, <1>5, <2>3, <2>4, LoginBounds DEF Tries, TriesAreNumbers
  <2>6. /\ One(Guesses(run'[h])) = 0 /\ One(ShowsOne(run'[h])) = 0
        /\ \A m \in Networks : One(GuessesFrom(run'[h], m)) = One(m = n)
        /\ One(Guesses(run[h])) = 0 /\ One(ShowsOne(run[h])) = 0
        /\ \A m \in Networks : One(GuessesFrom(run[h], m)) = 0
    BY <1>2, <2>2 DEF One, Guesses, ShowsOne, GuessesFrom
  <2>8. \A m \in Networks : One(m = n) + tries'.network[m] <= tries.network[m]
    <3> TAKE m \in Networks
    <3>1. CASE m = n
      BY <1>1, <2>4, <3>1 DEF TriesAreNumbers, One
    <3>2. CASE m # n
      BY <1>1, <2>4, <3>2 DEF TriesAreNumbers, One
    <3> QED
      BY <3>1, <3>2
  <2>10. \A m \in Networks :
            One(GuessesFrom(run'[h], m)) + tries'.network[m] <= One(GuessesFrom(run[h], m)) + tries.network[m]
    BY <1>1, <2>6, <2>8 DEF TriesAreNumbers
  <2> QED
    BY <1>1, <2>2, <2>3, <2>5, <2>6, <2>10 DEF Costs, TriesAreNumbers
<1> QED
  BY <1>3, <1>4, <1>5 DEF TakeTries

LEMMA KnownCosts ==
    ASSUME LoginsTypeOK, NEW h \in Handlers, ShownInv(h), TakeKnown(h)
    PROVE  Costs(h)
<1> DEFINE n == run[h].network
<1>1. TriesAreNumbers /\ n \in Networks /\ run[h] \in Run /\ DOMAIN run = Handlers
  BY TriesNumbers DEF LoginsTypeOK, Run
<1>2. run[h].at = "known" /\ run[h].wrong = "no"
  BY DEF TakeKnown, ShownInv, Stage, LoginsTypeOK, Run
<1>3. CASE /\ tries.known > 0 /\ tries' = [tries EXCEPT !.known = @ - 1]
           /\ Goes(h, [run[h] EXCEPT !.at = "hash", !.wide = "known"])
  <2>1. run'[h] = [run[h] EXCEPT !.at = "hash", !.wide = "known"]
    BY <1>1, <1>3 DEF Goes
  <2>2. run'[h].at = "hash" /\ run'[h].wrong = "no" /\ run'[h].network = n
    BY <1>1, <1>2, <2>1 DEF Run
  <2>3. tries' \in Tries /\ tries'.all = tries.all /\ tries'.known = tries.known - 1 /\ tries'.second = tries.second
        /\ tries'.back = tries.back /\ tries'.network = tries.network
    BY <1>1, <1>3, LoginBounds DEF Tries, TriesAreNumbers
  <2>4. /\ One(Guesses(run'[h])) = 1 /\ One(ShowsOne(run'[h])) = 0
        /\ \A m \in Networks : One(GuessesFrom(run'[h], m)) = One(GuessesFrom(run[h], m))
        /\ One(Guesses(run[h])) = 0 /\ One(ShowsOne(run[h])) = 0
    BY <1>2, <2>2 DEF One, Guesses, ShowsOne, GuessesFrom
  <2>5. \A m \in Networks : One(GuessesFrom(run[h], m)) \in {0, 1}
    BY DEF One
  <2> QED
    BY <1>1, <2>2, <2>3, <2>4, <2>5 DEF Costs, TriesAreNumbers
<1>4. CASE tries' = GiveBackNetwork(tries, n) /\ Over(h)
  <2>1. run'[h].at = "over" /\ run'[h].wrong = "no"
    BY <1>4, OverNow
  <2>2. tries' = [tries EXCEPT !.network[n] = Least(@ + 1, NetworkTries)]
    BY <1>4 DEF GiveBackNetwork
  <2>3. tries'.all = tries.all /\ tries'.known = tries.known /\ tries'.second = tries.second
        /\ tries'.back = tries.back
        /\ tries'.network = [tries.network EXCEPT ![n] = Least(@ + 1, NetworkTries)]
    BY <1>1, <2>2 DEF Tries, TriesAreNumbers
  <2>4. tries'.network \in [Networks -> 0..NetworkTries] /\ tries'.network[n] <= tries.network[n] + 1
        /\ \A m \in Networks \ {n} : tries'.network[m] = tries.network[m]
    BY <1>1, <2>3, LoginBounds DEF Tries, TriesAreNumbers, Least
  <2>5. tries' \in Tries
    BY <1>1, <2>2, <2>3, <2>4, LoginBounds DEF Tries, TriesAreNumbers
  <2>6. /\ One(Guesses(run'[h])) = 0 /\ One(ShowsOne(run'[h])) = 0
        /\ \A m \in Networks : One(GuessesFrom(run'[h], m)) = 0
        /\ One(Guesses(run[h])) = 0 /\ One(ShowsOne(run[h])) = 0
        /\ \A m \in Networks : One(GuessesFrom(run[h], m)) = One(m = n)
    BY <1>2, <2>1 DEF One, Guesses, ShowsOne, GuessesFrom
  <2>7. \A m \in Networks : tries'.network[m] <= One(m = n) + tries.network[m]
    <3> TAKE m \in Networks
    <3>1. CASE m = n
      BY <1>1, <2>4, <3>1, LoginBounds DEF TriesAreNumbers, One
    <3>2. CASE m # n
      BY <1>1, <2>4, <3>2 DEF TriesAreNumbers, One
    <3> QED
      BY <3>1, <3>2
  <2>8. \A m \in Networks : One(m = n) \in {0, 1} /\ tries'.network[m] \in Nat
    BY <2>4, LoginBounds DEF One
  <2> QED
    BY <1>1, <2>1, <2>3, <2>5, <2>6, <2>7, <2>8 DEF Costs, TriesAreNumbers
<1> QED
  BY <1>3, <1>4 DEF TakeKnown, KnownLeft

LEMMA VerifyCosts ==
    ASSUME LoginsTypeOK, NEW h \in Handlers, ShownInv(h), VerifyLogin(h)
    PROVE  Costs(h)
<1> DEFINE n == run[h].network
<1>1. TriesAreNumbers /\ n \in Networks /\ run[h] \in Run /\ DOMAIN run = Handlers
  BY TriesNumbers DEF LoginsTypeOK, Run
<1>2. run[h].at = "hash" /\ run[h].wrong = "no"
  BY DEF VerifyLogin, ShownInv, Stage, LoginsTypeOK, Run
<1>3. CASE WrongGuess(h, "password") /\ UNCHANGED tries
  <2>1. run'[h] = [Fresh EXCEPT !.at = "over", !.wrong = "password", !.network = n]
    BY <1>1, <1>3 DEF WrongGuess, Goes
  <2>2. run'[h].at = "over" /\ run'[h].wrong = "password" /\ run'[h].network = n
    BY <2>1, FreshRun DEF Run
  <2>3. /\ One(Guesses(run'[h])) = 1 /\ One(ShowsOne(run'[h])) = 0
        /\ One(Guesses(run[h])) = 1 /\ One(ShowsOne(run[h])) = 0
        /\ \A m \in Networks : One(GuessesFrom(run'[h], m)) = One(GuessesFrom(run[h], m))
    BY <1>2, <2>2 DEF One, Guesses, ShowsOne, GuessesFrom
  <2>4. \A m \in Networks : One(GuessesFrom(run[h], m)) \in {0, 1}
    BY DEF One
  <2> QED
    BY <1>1, <1>3, <2>2, <2>3, <2>4 DEF Costs, TriesAreNumbers
<1>4. CASE tries' = GiveBack(tries, run[h]) /\ To(h, IF run[h].saw.legacy THEN "rehash" ELSE "device")
  <2>1. run'[h].at \in {"rehash", "device"} /\ run'[h].wrong = "no"
    BY <1>2, <1>4, GoesTo
  <2> DEFINE back == [tries.network EXCEPT ![n] = Least(@ + 1, NetworkTries)]
  <2>2. back \in [Networks -> 0..NetworkTries] /\ back[n] <= tries.network[n] + 1
        /\ \A m \in Networks \ {n} : back[m] = tries.network[m]
    BY <1>1, LoginBounds DEF Tries, TriesAreNumbers, Least
  <2>3. GiveBackNetwork(tries, n) = [tries EXCEPT !.network = back]
    BY <1>1 DEF GiveBackNetwork, Tries, TriesAreNumbers
  <2> HIDE DEF back
  <2> DEFINE given == GiveBackNetwork(tries, n)
  <2>4. given \in Tries /\ given.network = back /\ given.all = tries.all /\ given.known = tries.known
        /\ given.second = tries.second /\ given.back = tries.back
    BY <1>1, <2>2, <2>3 DEF Tries, TriesAreNumbers
  <2> HIDE DEF given
  <2>5. \/ tries' = [given EXCEPT !.all = Least(@ + 1, AccountTries)]
        \/ tries' = [given EXCEPT !.known = Least(@ + 1, KnownTries)]
    BY <1>4 DEF GiveBack, given
  <2>6. tries' \in Tries /\ tries'.network = back /\ tries'.second = tries.second /\ tries'.back = tries.back
        /\ tries'.all + tries'.known <= tries.all + tries.known + 1 /\ tries'.all + tries'.known \in Nat
    BY <1>1, <2>4, <2>5, LoginBounds DEF Tries, TriesAreNumbers, Least
  <2>7. /\ One(Guesses(run'[h])) = 0 /\ One(ShowsOne(run'[h])) = 0
        /\ \A m \in Networks : One(GuessesFrom(run'[h], m)) = 0
        /\ One(Guesses(run[h])) = 1 /\ One(ShowsOne(run[h])) = 0
        /\ \A m \in Networks : One(GuessesFrom(run[h], m)) = One(m = n)
    BY <1>2, <2>1 DEF One, Guesses, ShowsOne, GuessesFrom
  <2>8. \A m \in Networks : back[m] <= One(m = n) + tries.network[m]
    <3> TAKE m \in Networks
    <3>1. CASE m = n
      BY <1>1, <2>2, <3>1, LoginBounds DEF TriesAreNumbers, One
    <3>2. CASE m # n
      BY <1>1, <2>2, <3>2 DEF TriesAreNumbers, One
    <3> QED
      BY <3>1, <3>2
  <2>9. \A m \in Networks : One(m = n) \in {0, 1} /\ back[m] \in Nat
    BY <2>2, LoginBounds DEF One
  <2>10. tries'.all \in Nat /\ tries'.known \in Nat
    BY <2>6, LoginBounds DEF Tries
  <2> QED
    BY <1>1, <2>1, <2>6, <2>7, <2>8, <2>9, <2>10 DEF Costs, TriesAreNumbers
<1> QED
  BY <1>3, <1>4 DEF VerifyLogin

\* A second step takes a try before it looks.
LEMMA TakesOne ==
    ASSUME LoginsTypeOK, NEW h \in Handlers, ShownInv(h), run[h].at = "second", tries.second > 0,
           tries' = TakeSecond(tries),
           \/ run'[h].at \in {"renew", "data", "step", "code", "travelling"} /\ run'[h].wrong = "no"
           \/ run'[h].at = "over" /\ run'[h].wrong = "second" /\ run'[h].proof.way = "none"
    PROVE  Costs(h)
<1>1. TriesAreNumbers
  BY TriesNumbers
<1>2. run[h].wrong = "no"
  BY DEF ShownInv, Stage, LoginsTypeOK, Run
<1>3. tries' \in Tries /\ tries'.all = tries.all /\ tries'.known = tries.known /\ tries'.second = tries.second - 1
      /\ tries'.back = tries.back /\ tries'.network = tries.network
  BY <1>1, LoginBounds DEF Tries, TriesAreNumbers, TakeSecond
<1>4. /\ One(Guesses(run'[h])) = 0 /\ One(ShowsOne(run'[h])) = 1
      /\ \A m \in Networks : One(GuessesFrom(run'[h], m)) = 0
      /\ One(Guesses(run[h])) = 0 /\ One(ShowsOne(run[h])) = 0
      /\ \A m \in Networks : One(GuessesFrom(run[h], m)) = 0
  BY <1>2 DEF One, Guesses, ShowsOne, GuessesFrom
<1> QED
  BY <1>1, <1>3, <1>4 DEF Costs, TriesAreNumbers

LEMMA SecondCosts ==
    ASSUME LoginsTypeOK, NEW h \in Handlers, ShownInv(h), CheckLogin(h)
    PROVE  Costs(h)
<1>1. run[h].at = "second" /\ run[h].wrong = "no" /\ run[h] \in Run /\ DOMAIN run = Handlers /\ TriesAreNumbers
  BY TriesNumbers DEF CheckLogin, ShownInv, Stage, LoginsTypeOK, Run
<1>2. CASE UNCHANGED tries /\ (To(h, "finish") \/ To(h, "put") \/ Over(h))
  BY <1>1, <1>2, QuietTo, QuietOver DEF Trying
<1>3. CASE tries' = GiveBackSecond(TakeSecond(tries)) /\ Over(h) /\ tries.second > 0
  <2>1. TakeSecond(tries) = [tries EXCEPT !.second = tries.second - 1]
    BY <1>1 DEF TakeSecond, Tries, TriesAreNumbers
  <2>2. Least(tries.second - 1 + 1, CodeTries) = tries.second
    BY <1>1, LoginBounds DEF Least, Tries, TriesAreNumbers
  <2>3. tries' = [tries EXCEPT !.second = Least(tries.second - 1 + 1, CodeTries)]
    BY <1>1, <1>3, <2>1 DEF GiveBackSecond, Tries, TriesAreNumbers
  <2>4. tries' = tries
    BY <1>1, <2>2, <2>3 DEF Tries, TriesAreNumbers
  <2> QED
    BY <1>3, <2>4, QuietOver
<1>4. ASSUME NEW at, NEW proof, Goes(h, [run[h] EXCEPT !.at = at, !.proof = proof])
      PROVE  run'[h].at = at /\ run'[h].wrong = "no"
  <2>1. run'[h] = [run[h] EXCEPT !.at = at, !.proof = proof]
    BY <1>1, <1>4 DEF Goes
  <2> QED
    BY <1>1, <2>1 DEF Run
<1>5. CASE tries.second > 0 /\ tries' = TakeSecond(tries)
           /\ \E proof : Goes(h, [run[h] EXCEPT !.at = "renew", !.proof = proof])
  BY <1>1, <1>4, <1>5, TakesOne
<1>6. CASE tries.second > 0 /\ tries' = TakeSecond(tries) /\ ShowsRecovery(h)
  BY <1>1, <1>4, <1>6, TakesOne DEF ShowsRecovery
<1>7. CASE tries.second > 0 /\ tries' = TakeSecond(tries) /\ ShowsTotp(h)
  BY <1>1, <1>4, <1>7, TakesOne DEF ShowsTotp
<1>8. CASE tries.second > 0 /\ tries' = TakeSecond(tries) /\ ShowsMail(h)
  BY <1>1, <1>4, <1>8, TakesOne DEF ShowsMail
<1>9. CASE tries.second > 0 /\ tries' = TakeSecond(tries) /\ ShowsKey(h)
  <2>1. PICK proof : Goes(h, [run[h] EXCEPT !.at = "data", !.keys = factors.keys, !.proof = proof])
    BY <1>9 DEF ShowsKey
  <2>2. run'[h] = [run[h] EXCEPT !.at = "data", !.keys = factors.keys, !.proof = proof]
    BY <1>1, <2>1 DEF Goes
  <2>3. run'[h].at = "data" /\ run'[h].wrong = "no"
    BY <1>1, <2>2 DEF Run
  <2> QED
    BY <1>1, <1>9, <2>3, TakesOne
<1>10. CASE tries.second > 0 /\ tries' = TakeSecond(tries) /\ GuessesWrong(h)
  <2>1. run'[h].at = "over" /\ run'[h].wrong = "second" /\ run'[h].proof.way = "none"
    BY <1>1, <1>10, IsWrong DEF GuessesWrong
  <2> QED
    BY <1>1, <1>10, <2>1, TakesOne
<1>11. tries.second > 0 /\ ShowsRemembered(h) => Costs(h)
  <2>1. CASE tries.second > 0 /\ ShowsRemembered(h)
    BY <1>3, <1>5, <2>1 DEF ShowsRemembered, Required
  <2> QED
    BY <2>1
<1> QED
  BY <1>2, <1>6, <1>7, <1>8, <1>9, <1>10, <1>11 DEF CheckLogin, AsksForCode, Required

LEMMA LoginCosts ==
    ASSUME LoginsTypeOK, NEW h \in Handlers, ShownInv(h), PasswordLogin(h)
    PROVE  Costs(h)
<1>1. run[h] \in Run /\ DOMAIN run = Handlers /\ (run[h].at # "over" => run[h].wrong = "no")
  BY DEF LoginsTypeOK, ShownInv, Stage, Run
<1>2. CASE TakeTries(h) \/ TakeKnown(h) \/ VerifyLogin(h) \/ CheckLogin(h)
  BY <1>2, TriesCosts, KnownCosts, VerifyCosts, SecondCosts
<1>3. CASE ReadUser(h)
  <2>1. PICK d \in Devices, n \in Networks, p \in Typed,
             q \in {None} \cup (IF "ask" \in scene.asks THEN Handlers ELSE {}) :
          Goes(h, [Fresh EXCEPT !.device = d, !.network = n, !.typed = p,
                       !.saw = [password |-> user.password, legacy |-> user.legacy, recovery |-> user.recovery],
                       !.proof = IF q = None THEN NoProof ELSE Shows("request", q, 0),
                       !.at = IF q = None THEN "tries" ELSE "request"])
    BY <1>3 DEF ReadUser
  <2> DEFINE at == IF q = None THEN "tries" ELSE "request"
             proof == IF q = None THEN NoProof ELSE Shows("request", q, 0)
             saw == [password |-> user.password, legacy |-> user.legacy, recovery |-> user.recovery]
  <2> HIDE DEF proof, saw
  <2>2. run'[h] = [Fresh EXCEPT !.device = d, !.network = n, !.typed = p, !.saw = saw, !.proof = proof, !.at = at]
    BY <1>1, <2>1 DEF Goes, proof, saw
  <2>3. run'[h].at \in {"tries", "request"} /\ run'[h].wrong = "no"
    BY <2>2, FreshRun DEF Run
  <2> QED
    BY <1>3, <2>3, Quiet DEF ReadUser, RequestVars, Trying
<1>4. CASE Rehash(h)
  BY <1>4, QuietTo DEF Rehash, Trying
<1>5. CASE UseAuthRequest(h)
  BY <1>5, QuietTo, QuietOver DEF UseAuthRequest, Trying
<1>6. CASE ReadDevice(h)
  <2> DEFINE seen == devices[run[h].device].remembered
             at == IF run[h].proof.way = "request" THEN "finish" ELSE "second"
  <2>1. run[h].at = "device" /\ at \in {"finish", "second"}
    BY <1>6 DEF ReadDevice
  <2> HIDE DEF seen
  <2>2. run'[h] = [run[h] EXCEPT !.seen = seen, !.at = at]
    BY <1>1, <1>6 DEF ReadDevice, Goes, seen
  <2>3. run'[h].at = at /\ run'[h].wrong = run[h].wrong
    BY <1>1, <2>2 DEF Run
  <2> QED
    BY <1>1, <1>6, <2>1, <2>3, Quiet DEF ReadDevice, RequestVars, Trying
<1>7. CASE UseTotpStep(h)
  <2>1. run[h].at = "step"
    BY <1>7 DEF UseTotpStep
  <2>2. CASE Passes(h)
    BY <2>1, <2>2, PassesCosts
  <2>3. CASE WrongGuess(h, "second") /\ UNCHANGED tries
    BY <2>1, <2>3, IsWrong, WrongCosts
  <2> QED
    BY <1>7, <2>2, <2>3 DEF UseTotpStep
<1>8. CASE WriteKeys(h) \/ Renew(h) \/ Recover(h)
  BY <1>8, PassesCosts DEF WriteKeys, Renew, Recover
<1>9. CASE TakeCode(h)
  <2>1. run[h].at = "code"
    BY <1>9 DEF TakeCode
  <2>2. CASE Passes(h)
    BY <2>1, <2>2, PassesCosts
  <2>3. CASE /\ Goes(h, [Fresh EXCEPT !.at = "over", !.wrong = "second", !.proof = Shows("mail", codes.login.by, 0)])
             /\ UNCHANGED tries
    <3> DEFINE proof == Shows("mail", codes.login.by, 0)
    <3>1. proof.by = codes.login.by
      BY DEF Shows
    <3> HIDE DEF proof
    <3>2. run'[h] = [Fresh EXCEPT !.at = "over", !.wrong = "second", !.proof = proof]
      BY <1>1, <2>3 DEF Goes, proof
    <3>3. run'[h].at = "over" /\ run'[h].wrong = "second" /\ run'[h].proof.by = codes.login.by
      BY <3>1, <3>2, FreshRun DEF Run
    <3>4. codes'.login.by = None \/ codes'.login.wrong = codes.login.wrong + 1
      BY <1>9, <2>1, LoginBounds DEF TakeCode, Wrong, NoCode, LoginsTypeOK, Code
    <3> QED
      BY <2>1, <2>3, <3>3, <3>4, WrongCosts
  <2> QED
    BY <1>9, <2>2, <2>3 DEF TakeCode
<1>10. CASE CheckTravelling(h)
  <2>1. run[h].at = "travelling" /\ UNCHANGED tries
    BY <1>10 DEF CheckTravelling, RequestVars
  <2>2. CASE Over(h)
    BY <2>1, <2>2, QuietOver
  <2>3. CASE To(h, "remove")
    <3>1. run'[h].at = "remove" /\ run'[h].wrong = "no"
      BY <1>1, <2>1, <2>3, GoesTo
    <3>2. TriesAreNumbers
      BY TriesNumbers
    <3>3. /\ One(Guesses(run'[h])) = 0 /\ One(ShowsOne(run'[h])) = 1
          /\ \A m \in Networks : One(GuessesFrom(run'[h], m)) = 0
          /\ One(Guesses(run[h])) = 0 /\ One(ShowsOne(run[h])) = 1
          /\ \A m \in Networks : One(GuessesFrom(run[h], m)) = 0
      BY <1>1, <2>1, <3>1 DEF One, Guesses, ShowsOne, GuessesFrom
    <3> QED
      BY <2>1, <3>1, <3>2, <3>3 DEF Costs, TriesAreNumbers
  <2> QED
    BY <1>10, <2>2, <2>3 DEF CheckTravelling
<1>11. CASE FinishLogin(h)
  <2>1. PICK proof : Goes(h, [Fresh EXCEPT !.at = "in", !.proof = proof])
    BY <1>11 DEF FinishLogin
  <2>2. run'[h] = [Fresh EXCEPT !.at = "in", !.proof = proof]
    BY <1>1, <2>1 DEF Goes
  <2>3. run'[h].at = "in" /\ run'[h].wrong = "no"
    BY <2>2, FreshRun DEF Run
  <2> QED
    BY <1>11, <2>3, Quiet DEF FinishLogin, Trying
<1> QED
  BY <1>2, <1>3, <1>4, <1>5, <1>6, <1>7, <1>8, <1>9, <1>10, <1>11 DEF PasswordLogin

LEMMA SettingCosts ==
    ASSUME LoginsTypeOK, NEW h \in Handlers, ShownInv(h),
           Settings(h) \/ SendLoginCode(h) \/ ReadFactors(h) \/ PutCode(h) \/ Create(h) \/ Answer(h)
    PROVE  Costs(h)
<1>1. run[h] \in Run /\ DOMAIN run = Handlers /\ (run[h].at # "over" => run[h].wrong = "no")
  BY DEF LoginsTypeOK, ShownInv, Stage, Run
<1>2. tries' = tries
  BY DEF Settings, SendLoginCode, ReadFactors, PutCode, Create, Answer, Setting, Asks, Disable, CompareKey, DeleteAuthenticator,
         ForgetRemembered, ActivateAuthenticator, UseFirstStep, ActivateEmail, SetEmail, WebauthnChallenge,
         TakeRegistration, ActivateWebauthn, ReadKeys, DeleteWebauthn, RequestVars
<1>3. ASSUME NEW at \in {"factors", "put", "allowed", "over"}, NEW kind, Goes(h, [Fresh EXCEPT !.kind = kind, !.at = at])
      PROVE  Costs(h)
  <2>1. run'[h] = [Fresh EXCEPT !.kind = kind, !.at = at]
    BY <1>1, <1>3 DEF Goes
  <2>2. run'[h].at = at /\ run'[h].wrong = "no"
    BY <2>1, FreshRun DEF Run
  <2> QED
    BY <1>2, <2>2, Quiet DEF Trying
<1>4. CASE Setting(h)
  BY <1>3, <1>4 DEF Setting
<1>5. CASE SendLoginCode(h) \/ ReadFactors(h) \/ Answer(h)
  <2>1. CASE WrongGuess(h, "mailing")
    <3>1. run'[h] = [Fresh EXCEPT !.at = "over", !.wrong = "mailing", !.network = run[h].network]
      BY <1>1, <2>1 DEF WrongGuess, Goes
    <3>2. run'[h].at = "over" /\ run'[h].wrong = "mailing"
      BY <3>1, FreshRun DEF Run
    <3> QED
      BY <1>2, <3>2, Quiet DEF Trying
  <2>2. CASE Goes(h, [Fresh EXCEPT !.kind = "code", !.at = "factors"])
    BY <1>3, <2>2
  <2>3. CASE Over(h)
    BY <1>2, <2>3, QuietOver
  <2>4. CASE To(h, "put") /\ run[h].at = "factors"
    BY <1>2, <2>4, QuietTo DEF Trying
  <2>5. CASE Answer(h)
    BY <1>3, <2>5 DEF Answer
  <2> QED
    BY <1>5, <2>1, <2>2, <2>3, <2>4, <2>5 DEF SendLoginCode, ReadFactors
<1>6. CASE Create(h)
  <2>1. PICK d : Goes(h, [Fresh EXCEPT !.kind = "ask", !.at = "over", !.device = d])
    BY <1>6 DEF Create
  <2>2. run'[h] = [Fresh EXCEPT !.kind = "ask", !.at = "over", !.device = d]
    BY <1>1, <2>1 DEF Goes
  <2>3. run'[h].at = "over" /\ run'[h].wrong = "no"
    BY <2>2, FreshRun DEF Run
  <2> QED
    BY <1>2, <2>3, Quiet DEF Trying
<1>7. CASE Over(h)
  BY <1>2, <1>7, QuietOver
<1>8. CASE run[h].at # "over" /\ (To(h, "forget") \/ To(h, "unset") \/ To(h, "set"))
  BY <1>2, <1>8, QuietTo DEF Trying
<1>9. CASE PutCode(h) \/ ForgetRemembered(h) \/ SetEmail(h) \/ UseFirstStep(h) \/ WebauthnChallenge(h)
           \/ ActivateWebauthn(h)
  BY <1>7, <1>9 DEF PutCode, ForgetRemembered, SetEmail, UseFirstStep, WebauthnChallenge, ActivateWebauthn
<1>10. CASE Disable(h) \/ CompareKey(h) \/ DeleteAuthenticator(h) \/ ActivateEmail(h) \/ DeleteWebauthn(h)
  BY <1>7, <1>8, <1>10 DEF Disable, CompareKey, DeleteAuthenticator, ActivateEmail, DeleteWebauthn, Does
<1>11. CASE ActivateAuthenticator(h)
  <2>1. PICK proof : Goes(h, [run[h] EXCEPT !.at = "use", !.proof = proof])
    BY <1>11 DEF ActivateAuthenticator
  <2>2. run'[h] = [run[h] EXCEPT !.at = "use", !.proof = proof] /\ run[h].at = "allowed"
    BY <1>1, <1>11, <2>1 DEF Goes, ActivateAuthenticator, Does
  <2>3. run'[h].at = "use" /\ run'[h].wrong = "no"
    BY <1>1, <2>2 DEF Run
  <2> QED
    BY <1>2, <2>3, Quiet DEF Trying
<1>12. CASE TakeRegistration(h) \/ ReadKeys(h)
  <2>1. PICK keys : Goes(h, [run[h] EXCEPT !.at = "write", !.keys = keys])
    BY <1>12 DEF TakeRegistration, ReadKeys
  <2>2. run'[h] = [run[h] EXCEPT !.at = "write", !.keys = keys] /\ run[h].at = "allowed"
    BY <1>1, <1>12, <2>1 DEF Goes, TakeRegistration, ReadKeys, Does
  <2>3. run'[h].at = "write" /\ run'[h].wrong = "no"
    BY <1>1, <2>2 DEF Run
  <2> QED
    BY <1>2, <2>3, Quiet DEF Trying
<1> QED
  BY <1>4, <1>5, <1>6, <1>9, <1>10, <1>11, <1>12 DEF Settings

LEMMA TriesKept ==
    ASSUME LoginsIInv, LoginsNext
    PROVE  tries' \in Tries /\ TriesInv'
<1>1. LoginsTypeOK /\ TriesInv /\ (\A h \in Handlers : ShownInv(h)) /\ TriesAreNumbers
  BY TriesNumbers DEF LoginsIInv
<1>2. CASE \E h \in Handlers : Handled(h)
  <2>1. PICK h \in Handlers : Handled(h)
    BY <1>2
  <2>2. Moves(h) /\ Only(h) /\ Costs(h)
    BY <1>1, <2>1, LoginMoves, SettingMoves, LoginCosts, SettingCosts DEF Handled
  <2>3. \A g \in Handlers \ {h} : run'[g] = run[g]
    BY <1>1, <2>2 DEF Only, Goes, LoginsTypeOK
  <2>4. IsFiniteSet(Handlers)
    BY LoginIds
  <2>5. /\ Cardinality(Guessing) \in Nat /\ Cardinality(Guessing') \in Nat
        /\ Cardinality(Guessing') + One(h \in Guessing) = Cardinality(Guessing) + One(h \in Guessing')
    BY <2>3, <2>4, OneAlone DEF Guessing
  <2>6. /\ Cardinality(Showing) \in Nat /\ Cardinality(Showing') \in Nat
        /\ Cardinality(Showing') + One(h \in Showing) = Cardinality(Showing) + One(h \in Showing')
    BY <2>3, <2>4, OneAlone DEF Showing
  <2>7. ASSUME NEW n \in Networks
        PROVE  /\ Cardinality(GuessingFrom(n)) \in Nat /\ Cardinality(GuessingFrom(n)') \in Nat
               /\ Cardinality(GuessingFrom(n)') + One(h \in GuessingFrom(n))
                    = Cardinality(GuessingFrom(n)) + One(h \in GuessingFrom(n)')
    BY <2>3, <2>4, OneAlone DEF GuessingFrom
  <2>8. \A b \in BOOLEAN : One(b) \in {0, 1}
    BY DEF One
  <2>9. tries' \in Tries /\ tries'.all \in Nat /\ tries'.known \in Nat /\ tries'.second \in Nat
        /\ tries'.network \in [Networks -> Nat] /\ tries'.back = tries.back
    BY <2>2, LoginBounds DEF Costs, Tries
  <2>10. Cardinality(Guessing') + tries'.all + tries'.known <= AccountTries + KnownTries + 2 * tries'.back
    <3>1. (h \in Guessing <=> Guesses(run[h])) /\ (h \in Guessing' <=> Guesses(run'[h]))
      BY DEF Guessing
    <3>2. One(h \in Guessing) = One(Guesses(run[h])) /\ One(h \in Guessing') = One(Guesses(run'[h]))
          /\ One(h \in Guessing) \in {0, 1} /\ One(h \in Guessing') \in {0, 1}
      BY <3>1 DEF One
    <3>3. One(h \in Guessing') + tries'.all + tries'.known <= One(h \in Guessing) + tries.all + tries.known
      BY <2>2, <3>2 DEF Costs
    <3>4. Cardinality(Guessing) + tries.all + tries.known <= AccountTries + KnownTries + 2 * tries.back
      BY <1>1 DEF TriesInv
    <3> QED
      BY <1>1, <2>5, <2>9, <3>2, <3>3, <3>4, LoginBounds DEF TriesAreNumbers
  <2>11. Cardinality(Showing') + tries'.second <= CodeTries + tries'.back
    <3>1. (h \in Showing <=> ShowsOne(run[h])) /\ (h \in Showing' <=> ShowsOne(run'[h]))
      BY DEF Showing
    <3>2. One(h \in Showing) = One(ShowsOne(run[h])) /\ One(h \in Showing') = One(ShowsOne(run'[h]))
          /\ One(h \in Showing) \in {0, 1} /\ One(h \in Showing') \in {0, 1}
      BY <3>1 DEF One
    <3>3. One(h \in Showing') + tries'.second <= One(h \in Showing) + tries.second
      BY <2>2, <3>2 DEF Costs
    <3>4. Cardinality(Showing) + tries.second <= CodeTries + tries.back
      BY <1>1 DEF TriesInv
    <3> QED
      BY <1>1, <2>6, <2>9, <3>2, <3>3, <3>4, LoginBounds DEF TriesAreNumbers
  <2>12. ASSUME NEW n \in Networks
         PROVE  Cardinality(GuessingFrom(n)') + tries'.network[n] <= NetworkTries + tries'.back
    <3>1. (h \in GuessingFrom(n) <=> GuessesFrom(run[h], n)) /\ (h \in GuessingFrom(n)' <=> GuessesFrom(run'[h], n))
      BY DEF GuessingFrom
    <3>2. One(h \in GuessingFrom(n)) = One(GuessesFrom(run[h], n))
          /\ One(h \in GuessingFrom(n)') = One(GuessesFrom(run'[h], n))
          /\ One(h \in GuessingFrom(n)) \in {0, 1} /\ One(h \in GuessingFrom(n)') \in {0, 1}
      BY <3>1 DEF One
    <3>3. One(h \in GuessingFrom(n)') + tries'.network[n] <= One(h \in GuessingFrom(n)) + tries.network[n]
      BY <2>2, <3>2 DEF Costs
    <3>4. Cardinality(GuessingFrom(n)) + tries.network[n] <= NetworkTries + tries.back
      BY <1>1 DEF TriesInv
    <3> QED
      BY <1>1, <2>7, <2>9, <3>2, <3>3, <3>4, LoginBounds DEF TriesAreNumbers
  <2> QED
    BY <2>9, <2>10, <2>11, <2>12 DEF TriesInv
<1>3. CASE ChangePassword \/ SwitchTravel \/ RunsOut \/ TimeGoesOn
  <2>1. UNCHANGED <<tries, run>>
    BY <1>3 DEF ChangePassword, SwitchTravel, RunsOut, TimeGoesOn
  <2> QED
    BY <1>1, <2>1 DEF TriesInv, Guessing, GuessingFrom, Showing, TriesAreNumbers
<1>4. CASE Refill
  <2>1. UNCHANGED run /\ tries.back < MaxRefills
        /\ tries' = [all |-> Least(tries.all + 1, AccountTries), known |-> Least(tries.known + 1, KnownTries),
                     second |-> Least(tries.second + 1, CodeTries), back |-> tries.back + 1,
                     network |-> [n \in Networks |-> Least(tries.network[n] + 1, NetworkTries)]]
    BY <1>4 DEF Refill
  <2>2. tries' \in Tries
    BY <1>1, <2>1, LoginBounds DEF Tries, TriesAreNumbers, Least
  <2>3. /\ tries'.all <= tries.all + 1 /\ tries'.known <= tries.known + 1 /\ tries'.second <= tries.second + 1
        /\ tries'.back = tries.back + 1 /\ \A n \in Networks : tries'.network[n] <= tries.network[n] + 1
        /\ tries'.all \in Nat /\ tries'.known \in Nat /\ tries'.second \in Nat
        /\ \A n \in Networks : tries'.network[n] \in Nat
    BY <1>1, <2>1, LoginBounds DEF Tries, TriesAreNumbers, Least
  <2>4. Guessing' = Guessing /\ Showing' = Showing /\ \A n \in Networks : GuessingFrom(n)' = GuessingFrom(n)
    BY <2>1 DEF Guessing, GuessingFrom, Showing
  <2>5. IsFiniteSet(Handlers)
    BY LoginIds
  <2>6. Cardinality(Guessing) \in Nat /\ Cardinality(Showing) \in Nat
        /\ \A n \in Networks : Cardinality(GuessingFrom(n)) \in Nat
    BY <2>5, FS_Subset, FS_CardinalityType DEF Guessing, GuessingFrom, Showing
  <2>7. Cardinality(Guessing') + tries'.all + tries'.known <= AccountTries + KnownTries + 2 * tries'.back
    BY <1>1, <2>3, <2>4, <2>6, LoginBounds DEF TriesInv, TriesAreNumbers
  <2>8. Cardinality(Showing') + tries'.second <= CodeTries + tries'.back
    BY <1>1, <2>3, <2>4, <2>6, LoginBounds DEF TriesInv, TriesAreNumbers
  <2>9. ASSUME NEW n \in Networks
        PROVE  Cardinality(GuessingFrom(n)') + tries'.network[n] <= NetworkTries + tries'.back
    BY <1>1, <2>3, <2>4, <2>6, LoginBounds DEF TriesInv, TriesAreNumbers
  <2> QED
    BY <2>2, <2>7, <2>8, <2>9 DEF TriesInv
<1> QED
  BY <1>2, <1>3, <1>4 DEF LoginsNext, Handled

-----------------------------------------------------------------------------
(* What a step does to what is there for all.                              *)

CodesMove ==
    /\ codes' \in [{"login", "setup"} -> Code]
    /\ \/ codes'.login.by = None
       \/ /\ codes'.login.by = codes.login.by /\ codes'.login.wrong >= codes.login.wrong
          /\ codes'.login.wrong = codes.login.wrong \/ codes'.login.wrong < CODE_ATTEMPTS
       \/ \E h \in Handlers :
             codes'.login.by = h /\ codes'.login.wrong = 0 /\ run[h].at = "put" /\ run'[h].at = "over"

LEMMA CodesMoved ==
    ASSUME LoginsTypeOK, LoginsNext
    PROVE  CodesMove
<1>1. codes \in [{"login", "setup"} -> Code] /\ codes.login.wrong \in Nat /\ NoCode \in Code /\ NoCode.by = None
      /\ DOMAIN codes = {"login", "setup"}
  BY DEF LoginsTypeOK, Code, NoCode
<1>2. CASE UNCHANGED codes
  BY <1>1, <1>2 DEF CodesMove
<1>3. ASSUME NEW h \in Handlers, TakeCode(h)
      PROVE  CodesMove
  <2>1. PICK c : (c = NoCode \/ c = Wrong(codes.login)) /\ codes' = [codes EXCEPT !.login = c]
    BY <1>3 DEF TakeCode
  <2> DEFINE more == [codes.login EXCEPT !.wrong = @ + 1]
  <2>2. more \in Code /\ more.by = codes.login.by /\ more.wrong = codes.login.wrong + 1
    BY <1>1 DEF Code
  <2> HIDE DEF more
  <2>3. Wrong(codes.login) = IF codes.login.wrong + 1 >= CODE_ATTEMPTS THEN NoCode ELSE more
    BY DEF Wrong, more
  <2>4. c = NoCode \/ (c = more /\ ~(codes.login.wrong + 1 >= CODE_ATTEMPTS))
    BY <2>1, <2>3
  <2>5. CODE_ATTEMPTS \in Nat
    BY LoginBounds
  <2>6. c \in Code /\ (c.by = None \/ (c.by = codes.login.by /\ c.wrong = codes.login.wrong + 1 /\ c.wrong < CODE_ATTEMPTS))
    BY <1>1, <2>2, <2>4, <2>5
  <2>7. codes' \in [{"login", "setup"} -> Code] /\ codes'.login = c
    BY <1>1, <2>1, <2>6
  <2> QED
    BY <1>1, <2>6, <2>7 DEF CodesMove
<1>4. ASSUME NEW h \in Handlers, PutCode(h)
      PROVE  CodesMove
  <2> DEFINE new == [NoCode EXCEPT !.by = h]
  <2>1. new \in Code /\ new.by = h /\ new.wrong = 0
    BY DEF NoCode, Code, Makers
  <2> HIDE DEF new
  <2>2. PICK p \in {"login", "setup"} : codes' = [codes EXCEPT ![p] = new]
    BY <1>4 DEF PutCode, new
  <2>3. codes' \in [{"login", "setup"} -> Code] /\ (codes'.login = new \/ codes'.login = codes.login)
    BY <1>1, <2>1, <2>2
  <2>4. run[h].at = "put" /\ run'[h].at = "over"
    BY <1>4, OverNow DEF PutCode
  <2> QED
    BY <1>1, <2>1, <2>3, <2>4 DEF CodesMove
<1>5. ASSUME NEW h \in Handlers, ActivateEmail(h)
      PROVE  CodesMove
  <2>1. codes' = [codes EXCEPT !.setup = NoCode]
    BY <1>5 DEF ActivateEmail
  <2>2. codes' \in [{"login", "setup"} -> Code] /\ codes'.login = codes.login
    BY <1>1, <2>1
  <2> QED
    BY <1>1, <2>2 DEF CodesMove
<1>6. CASE RunsOut /\ codes' # codes
  <2>1. PICK p \in {"login", "setup"} : codes' = [codes EXCEPT ![p].expired = TRUE]
    BY <1>1, <1>6 DEF RunsOut, OneRunsOut
  <2>2. codes' = [codes EXCEPT ![p] = [codes[p] EXCEPT !.expired = TRUE]]
    BY <1>1, <2>1
  <2> DEFINE new == [codes[p] EXCEPT !.expired = TRUE]
  <2>3. new \in Code /\ new.by = codes[p].by /\ new.wrong = codes[p].wrong
    BY <1>1 DEF Code
  <2> HIDE DEF new
  <2>4. codes' = [codes EXCEPT ![p] = new]
    BY <2>2 DEF new
  <2>5. codes' \in [{"login", "setup"} -> Code]
    BY <1>1, <2>3, <2>4
  <2>6. CASE p = "login"
    BY <1>1, <2>3, <2>4, <2>5, <2>6 DEF CodesMove
  <2>7. CASE p = "setup"
    BY <1>1, <2>4, <2>5, <2>7 DEF CodesMove
  <2> QED
    BY <2>6, <2>7
<1>7. ASSUME NEW h \in Handlers, Handled(h), ~TakeCode(h), ~PutCode(h), ~ActivateEmail(h)
      PROVE  UNCHANGED codes
  <2>1. CASE PasswordLogin(h)
    BY <1>7, <2>1 DEF PasswordLogin, ReadUser, TakeTries, TakeKnown, VerifyLogin, Rehash, UseAuthRequest, ReadDevice,
         CheckLogin, UseTotpStep, WriteKeys, Renew, CheckTravelling, Recover, FinishLogin, RequestVars
  <2>2. CASE Settings(h)
    BY <1>7, <2>2 DEF Settings, Setting, Asks, Disable, CompareKey, DeleteAuthenticator, ForgetRemembered,
         ActivateAuthenticator, UseFirstStep, SetEmail, WebauthnChallenge, TakeRegistration, ActivateWebauthn,
         ReadKeys, DeleteWebauthn, RequestVars
  <2>3. CASE SendLoginCode(h) \/ ReadFactors(h) \/ Create(h) \/ Answer(h)
    BY <2>3 DEF SendLoginCode, ReadFactors, Create, Answer, RequestVars
  <2> QED
    BY <1>7, <2>1, <2>2, <2>3 DEF Handled
<1>8. CASE ChangePassword \/ SwitchTravel \/ TimeGoesOn \/ Refill
  BY <1>2, <1>8 DEF ChangePassword, SwitchTravel, TimeGoesOn, Refill
<1> QED
  BY <1>2, <1>3, <1>4, <1>5, <1>6, <1>7, <1>8 DEF LoginsNext, Handled

ChallengesMove ==
    /\ challenges' \in [{"login", "register"} -> Makers \cup {None}]
    /\ \/ challenges'.login \in {None, challenges.login}
       \/ \E h \in Handlers : challenges'.login = h /\ run[h].at = "second" /\ run'[h].at = "over"

LEMMA ChallengesMoved ==
    ASSUME LoginsTypeOK, LoginsNext
    PROVE  ChallengesMove
<1>1. challenges \in [{"login", "register"} -> Makers \cup {None}] /\ Handlers \subseteq Makers
  BY DEF LoginsTypeOK, Makers
<1>2. CASE UNCHANGED challenges
  BY <1>1, <1>2 DEF ChallengesMove
<1>3. ASSUME NEW by \in Makers \cup {None}, NEW p \in {"login", "register"}, challenges' = [challenges EXCEPT ![p] = by]
      PROVE  /\ challenges' \in [{"login", "register"} -> Makers \cup {None}]
             /\ challenges'.login = IF p = "login" THEN by ELSE challenges.login
  <2>1. challenges' \in [{"login", "register"} -> Makers \cup {None}]
    BY <1>1, <1>3
  <2>2. challenges'["login"] = IF p = "login" THEN by ELSE challenges["login"]
    BY <1>1, <1>3
  <2> QED
    BY <2>1, <2>2
<1>4. ASSUME NEW h \in Handlers, CheckLogin(h)
      PROVE  ChallengesMove
  <2>1. CASE challenges' = [challenges EXCEPT !.login = None]
    BY <1>3, <2>1 DEF ChallengesMove
  <2>2. CASE Over(h) /\ challenges' = [challenges EXCEPT !.login = h]
    <3>1. challenges' \in [{"login", "register"} -> Makers \cup {None}] /\ challenges'.login = h
      BY <1>1, <1>3, <2>2
    <3>2. run[h].at = "second" /\ run'[h].at = "over"
      BY <1>4, <2>2, OverNow DEF CheckLogin
    <3> QED
      BY <3>1, <3>2 DEF ChallengesMove
  <2> QED
    BY <1>2, <1>4, <2>1, <2>2 DEF CheckLogin, AsksForCode, Required, ShowsRemembered, ShowsRecovery, ShowsTotp,
         ShowsKey, ShowsMail, GuessesWrong
<1>5. ASSUME NEW h \in Handlers, WebauthnChallenge(h)
      PROVE  ChallengesMove
  BY <1>1, <1>3, <1>5 DEF WebauthnChallenge, ChallengesMove
<1>6. ASSUME NEW h \in Handlers, TakeRegistration(h)
      PROVE  ChallengesMove
  BY <1>1, <1>3, <1>6 DEF TakeRegistration, ChallengesMove
<1>7. CASE RunsOut
  <2>1. CASE \E p \in {"login", "register"} : challenges' = [challenges EXCEPT ![p] = None]
    BY <1>1, <1>3, <2>1 DEF ChallengesMove
  <2> QED
    BY <1>1, <1>2, <1>7, <2>1 DEF RunsOut, OneRunsOut
<1>8. ASSUME NEW h \in Handlers, Handled(h), ~CheckLogin(h), ~WebauthnChallenge(h), ~TakeRegistration(h)
      PROVE  UNCHANGED challenges
  <2>1. CASE PasswordLogin(h)
    BY <1>8, <2>1 DEF PasswordLogin, ReadUser, TakeTries, TakeKnown, VerifyLogin, Rehash, UseAuthRequest, ReadDevice,
         TakeCode, UseTotpStep, WriteKeys, Renew, CheckTravelling, Recover, FinishLogin, RequestVars
  <2>2. CASE Settings(h)
    BY <1>8, <2>2 DEF Settings, Setting, Asks, Disable, CompareKey, DeleteAuthenticator, ForgetRemembered,
         ActivateAuthenticator, UseFirstStep, ActivateEmail, SetEmail, ActivateWebauthn,
         ReadKeys, DeleteWebauthn, RequestVars
  <2>3. CASE SendLoginCode(h) \/ ReadFactors(h) \/ PutCode(h) \/ Create(h) \/ Answer(h)
    BY <2>3 DEF SendLoginCode, ReadFactors, PutCode, Create, Answer, RequestVars
  <2> QED
    BY <1>8, <2>1, <2>2, <2>3 DEF Handled
<1>9. CASE ChangePassword \/ SwitchTravel \/ TimeGoesOn \/ Refill
  BY <1>2, <1>9 DEF ChangePassword, SwitchTravel, TimeGoesOn, Refill
<1> QED
  BY <1>2, <1>4, <1>5, <1>6, <1>7, <1>8, <1>9 DEF LoginsNext, Handled

RequestsMove ==
    /\ requests' \in [Handlers -> {"none", "waiting", "yes", "no", "used", "late"}]
    /\ \A q \in Handlers :
          requests'[q] # requests[q] =>
             \/ requests[q] = "none" /\ requests'[q] = "waiting" /\ run'[q].at = "over"
             \/ requests[q] = "waiting" /\ requests'[q] \in {"yes", "no", "late"}
             \/ requests[q] = "yes" /\ requests'[q] \in {"used", "late"}

LEMMA RequestsMoved ==
    ASSUME LoginsTypeOK, MadeInv, LoginsNext
    PROVE  RequestsMove
<1>1. requests \in [Handlers -> {"none", "waiting", "yes", "no", "used", "late"}]
      /\ DOMAIN run = Handlers
  BY DEF LoginsTypeOK
<1>2. CASE UNCHANGED requests
  BY <1>1, <1>2 DEF RequestsMove
<1>3. ASSUME NEW q \in Handlers, NEW new \in {"waiting", "yes", "no", "used", "late"},
             requests' = [requests EXCEPT ![q] = new],
             \/ requests[q] = "none" /\ new = "waiting" /\ run'[q].at = "over"
             \/ requests[q] = "waiting" /\ new \in {"yes", "no", "late"}
             \/ requests[q] = "yes" /\ new \in {"used", "late"}
      PROVE  RequestsMove
  BY <1>1, <1>3 DEF RequestsMove
<1>4. ASSUME NEW h \in Handlers, UseAuthRequest(h)
      PROVE  RequestsMove
  BY <1>2, <1>3, <1>4 DEF UseAuthRequest, Lets
<1>5. ASSUME NEW h \in Handlers, Create(h)
      PROVE  RequestsMove
  <2>1. run[h].at = "new"
    BY <1>5, FreshRun DEF Create
  <2>2. requests[h] = "none"
    BY <2>1 DEF MadeInv, Finished
  <2>3. PICK d \in Devices : Goes(h, [Fresh EXCEPT !.kind = "ask", !.at = "over", !.device = d])
    BY <1>5 DEF Create
  <2>4. run'[h] = [Fresh EXCEPT !.kind = "ask", !.at = "over", !.device = d]
    BY <1>1, <2>3 DEF Goes
  <2>5. run'[h].at = "over"
    BY <2>4, FreshRun DEF Run
  <2> QED
    BY <1>3, <1>5, <2>2, <2>5 DEF Create
<1>6. ASSUME NEW h \in Handlers, Answer(h)
      PROVE  RequestsMove
  <2>1. PICK q \in Handlers, yes \in {"yes", "no"} : Open(q) /\ requests' = [requests EXCEPT ![q] = yes]
    BY <1>6 DEF Answer
  <2> QED
    BY <1>3, <2>1 DEF Open
<1>7. CASE RunsOut
  <2>1. CASE \E q \in Handlers : requests[q] \in {"waiting", "yes"} /\ requests' = [requests EXCEPT ![q] = "late"]
    BY <1>3, <2>1
  <2> QED
    BY <1>2, <1>7, <2>1 DEF RunsOut, OneRunsOut
<1>8. ASSUME NEW h \in Handlers, Handled(h), ~UseAuthRequest(h), ~Create(h), ~Answer(h)
      PROVE  UNCHANGED requests
  <2>1. CASE PasswordLogin(h)
    BY <1>8, <2>1 DEF PasswordLogin, ReadUser, TakeTries, TakeKnown, VerifyLogin, Rehash, CheckLogin, ReadDevice,
         TakeCode, UseTotpStep, WriteKeys, Renew, CheckTravelling, Recover, FinishLogin, RequestVars
  <2>2. CASE Settings(h)
    BY <1>8, <2>2 DEF Settings, Setting, Asks, Disable, CompareKey, DeleteAuthenticator, ForgetRemembered,
         ActivateAuthenticator, UseFirstStep, ActivateEmail, SetEmail, ActivateWebauthn, WebauthnChallenge,
         TakeRegistration, ReadKeys, DeleteWebauthn, RequestVars
  <2>3. CASE SendLoginCode(h) \/ ReadFactors(h) \/ PutCode(h)
    BY <2>3 DEF SendLoginCode, ReadFactors, PutCode, RequestVars
  <2> QED
    BY <1>8, <2>1, <2>2, <2>3 DEF Handled
<1>9. CASE ChangePassword \/ SwitchTravel \/ TimeGoesOn \/ Refill
  BY <1>2, <1>9 DEF ChangePassword, SwitchTravel, TimeGoesOn, Refill
<1> QED
  BY <1>2, <1>4, <1>5, <1>6, <1>7, <1>8, <1>9 DEF LoginsNext, Handled

Users == [password : 1..2, legacy : BOOLEAN, recovery : Makers \cup {None}, travel : BOOLEAN]
Clients == [Devices -> [known : BOOLEAN, remembered : Makers \cup {None}, in : Makers \cup {None}]]

FactorsMove ==
    /\ factors' \in Factors /\ user' \in Users /\ RecoveryWhileOn'
    /\ \/ factors'.totp = None
       \/ factors'.totp = factors.totp /\ factors'.last >= factors.last
       \/ \E h \in Handlers : factors'.totp = h /\ run[h].at = "allowed" /\ run'[h].at = "use"

LEMMA Removes ==
    ASSUME LoginsTypeOK, RecoveryWhileOn, NEW ways, RemoveFactors(ways)
    PROVE  FactorsMove /\ devices' \in Clients
<1> DEFINE left == [factors EXCEPT !.totp = IF "totp" \in ways THEN None ELSE @,
                                   !.mail = @ /\ "mail" \notin ways,
                                   !.keys = IF "key" \in ways THEN {} ELSE @]
<1>1. factors \in Factors /\ user \in Users /\ devices \in Clients
  BY DEF LoginsTypeOK, Users, Clients
<1>2. left \in Factors /\ left.totp \in {None, factors.totp} /\ left.last = factors.last
      /\ On(left) \subseteq On(factors)
  BY <1>1 DEF Factors, On
<1>3. factors' = left /\ user' = [user EXCEPT !.recovery = RecoveryAfter(left)]
      /\ devices' = IF On(left) = {} THEN Forgotten ELSE devices
  BY DEF RemoveFactors
<1> HIDE DEF left
<1>4. RecoveryAfter(left) \in Makers \cup {None} /\ (RecoveryAfter(left) # None <=> On(left) # {})
  BY <1>1, <1>2 DEF RecoveryAfter, RecoveryWhileOn, Users
<1>5. user' \in Users /\ user'.recovery = RecoveryAfter(left)
  BY <1>1, <1>3, <1>4 DEF Users
<1>6. Forgotten \in Clients
  BY <1>1 DEF Forgotten, Clients
<1>7. RecoveryWhileOn'
  BY <1>3, <1>4, <1>5 DEF RecoveryWhileOn
<1>8. factors.last \in Nat
  BY <1>1 DEF Factors
<1> QED
  BY <1>1, <1>2, <1>3, <1>5, <1>6, <1>7, <1>8 DEF FactorsMove

LEMMA Sets ==
    ASSUME LoginsTypeOK, RecoveryWhileOn, NEW h \in Handlers, NEW new \in Factors, On(new) # {}, SetFactor(h, new),
           \/ new.totp = factors.totp /\ new.last = factors.last
           \/ new.totp = h /\ run[h].at = "allowed" /\ run'[h].at = "use"
    PROVE  FactorsMove
<1>1. factors \in Factors /\ user \in Users /\ h \in Makers /\ h # None
  BY LoginIds DEF LoginsTypeOK, Users, Makers
<1>2. factors' = new /\ user' = [user EXCEPT !.recovery = IF @ = None THEN h ELSE @]
  BY DEF SetFactor
<1>3. user' \in Users /\ user'.recovery # None
  BY <1>1, <1>2 DEF Users
<1>4. RecoveryWhileOn'
  BY <1>2, <1>3 DEF RecoveryWhileOn
<1>5. factors.last \in Nat
  BY <1>1 DEF Factors
<1> QED
  BY <1>2, <1>3, <1>4, <1>5 DEF FactorsMove

\* A way that is on stays on, and a step of the authenticator is only taken forward.
LEMMA KeepsOn ==
    ASSUME LoginsTypeOK, RecoveryWhileOn, UNCHANGED user, factors' \in Factors, On(factors') = On(factors),
           factors'.totp = factors.totp, factors'.last >= factors.last
    PROVE  FactorsMove
BY DEF FactorsMove, RecoveryWhileOn, LoginsTypeOK, Users

LEMMA FactorsMoved ==
    ASSUME LoginsTypeOK, RecoveryWhileOn, \A h \in Handlers : ShownInv(h), LoginsNext
    PROVE  FactorsMove
<1>1. factors \in Factors /\ user \in Users /\ factors.last \in Nat /\ factors.keys \subseteq Keys
  BY DEF LoginsTypeOK, Users, Factors
<1>2. CASE UNCHANGED <<factors, user>>
  BY <1>1, <1>2, KeepsOn
<1>3. ASSUME UNCHANGED user, NEW n \in Nat, Takes(factors, n), factors' = [factors EXCEPT !.last = n]
      PROVE  FactorsMove
  <2>1. factors' \in Factors /\ On(factors') = On(factors) /\ factors'.totp = factors.totp /\ factors'.last >= factors.last
    BY <1>1, <1>3 DEF Factors, On, Takes
  <2> QED
    BY <1>3, <2>1, KeepsOn
<1>4. ASSUME UNCHANGED user, NEW keys \in SUBSET Keys, keys # {}, factors.keys # {},
             factors' = [factors EXCEPT !.keys = keys]
      PROVE  FactorsMove
  <2>1. factors' \in Factors /\ On(factors') = On(factors) /\ factors'.totp = factors.totp /\ factors'.last >= factors.last
    BY <1>1, <1>4 DEF Factors, On
  <2> QED
    BY <1>4, <2>1, KeepsOn
<1>5. ASSUME NEW h \in Handlers
      PROVE  run[h].proof.n \in Nat /\ run[h].keys \in SUBSET Keys /\ Stage(run[h]) /\ run[h] \in Run /\ DOMAIN run = Handlers
  BY DEF LoginsTypeOK, Run, Proof, ShownInv
<1>6. ASSUME NEW h \in Handlers, UseTotpStep(h)
      PROVE  FactorsMove
  BY <1>2, <1>3, <1>5, <1>6 DEF UseTotpStep
<1>7. ASSUME NEW h \in Handlers, WriteKeys(h)
      PROVE  FactorsMove
  BY <1>2, <1>4, <1>5, <1>7 DEF WriteKeys, Stage
<1>8. ASSUME NEW h \in Handlers, Recover(h) \/ Disable(h) \/ DeleteAuthenticator(h)
      PROVE  FactorsMove
  BY <1>8, Removes DEF Recover, Disable, DeleteAuthenticator
<1>9. ASSUME NEW h \in Handlers, ActivateAuthenticator(h)
      PROVE  FactorsMove
  <2> DEFINE new == [factors EXCEPT !.totp = h, !.last = 0]
  <2>1. new \in Factors /\ new.totp = h /\ On(new) # {}
    BY <1>1, LoginIds DEF Factors, On, Makers
  <2>2. SetFactor(h, new)
    BY <1>9 DEF ActivateAuthenticator
  <2>3. PICK s \in Nat : Goes(h, [run[h] EXCEPT !.at = "use", !.proof = Shows("totp", h, s)])
    BY <1>9 DEF ActivateAuthenticator
  <2> DEFINE proof == Shows("totp", h, s)
  <2> HIDE DEF proof, new
  <2>4. run'[h] = [run[h] EXCEPT !.at = "use", !.proof = proof]
    BY <1>5, <2>3 DEF Goes, proof
  <2>5. run'[h].at = "use" /\ run[h].at = "allowed"
    BY <1>5, <1>9, <2>4 DEF Run, ActivateAuthenticator, Does
  <2> QED
    BY <2>1, <2>2, <2>5, Sets
<1>10. ASSUME NEW h \in Handlers, UseFirstStep(h)
       PROVE  FactorsMove
  BY <1>2, <1>3, <1>5, <1>10 DEF UseFirstStep
<1>11. ASSUME NEW h \in Handlers, SetEmail(h)
       PROVE  FactorsMove
  <2> DEFINE new == [factors EXCEPT !.mail = TRUE]
  <2>1. new \in Factors /\ new.totp = factors.totp /\ new.last = factors.last /\ On(new) # {}
    BY <1>1 DEF Factors, On
  <2>2. SetFactor(h, new)
    BY <1>11 DEF SetEmail
  <2> HIDE DEF new
  <2> QED
    BY <2>1, <2>2, Sets
<1>12. ASSUME NEW h \in Handlers, ActivateWebauthn(h)
       PROVE  FactorsMove
  <2> DEFINE new == [factors EXCEPT !.keys = run[h].keys]
  <2>1. run[h].keys # {}
    BY <1>5, <1>12 DEF ActivateWebauthn, Stage
  <2>2. new \in Factors /\ new.totp = factors.totp /\ new.last = factors.last /\ On(new) # {}
    BY <1>1, <1>5, <2>1 DEF Factors, On
  <2>3. SetFactor(h, new)
    BY <1>12 DEF ActivateWebauthn
  <2> HIDE DEF new
  <2> QED
    BY <2>2, <2>3, Sets
<1>13. ASSUME NEW h \in Handlers, DeleteWebauthn(h)
       PROVE  FactorsMove
  <2>1. CASE RemoveFactors({"key"})
    BY <2>1, Removes
  <2>2. CASE run[h].keys # {}
    BY <1>2, <1>4, <1>5, <1>13, <2>2 DEF DeleteWebauthn
  <2> QED
    BY <1>13, <2>1, <2>2 DEF DeleteWebauthn
<1>14. ASSUME UNCHANGED factors, user' \in Users, user'.recovery = user.recovery
       PROVE  FactorsMove
  BY <1>1, <1>14 DEF FactorsMove, RecoveryWhileOn
<1>15. ASSUME NEW h \in Handlers, Rehash(h)
       PROVE  FactorsMove
  <2>1. run[h].saw.password \in 1..2
    BY <1>5, <1>15 DEF Rehash, Stage
  <2>2. user' = [user EXCEPT !.password = run[h].saw.password, !.legacy = FALSE] /\ UNCHANGED factors
    BY <1>15 DEF Rehash
  <2> QED
    BY <1>1, <1>14, <2>1, <2>2 DEF Users
<1>16. CASE ChangePassword
  <2>1. PICK p : p = 2 /\ user' = [user EXCEPT !.password = p, !.legacy = FALSE]
    BY <1>16 DEF ChangePassword
  <2>2. UNCHANGED factors
    BY <1>16 DEF ChangePassword
  <2>3. p = 2
    BY <2>1
  <2>4. p \in 1..2 /\ UNCHANGED factors
    BY <2>2, <2>3
  <2>5. user' = [user EXCEPT !.password = p, !.legacy = FALSE]
    BY <2>1
  <2>6. user' \in Users /\ user'.recovery = user.recovery
    BY <1>1, <2>4, <2>5 DEF Users
  <2> QED
    BY <1>14, <2>4, <2>6
<1>17. CASE SwitchTravel
  BY <1>1, <1>14, <1>17 DEF SwitchTravel, Users
<1>18. CASE RunsOut \/ TimeGoesOn \/ Refill
  BY <1>2, <1>18 DEF RunsOut, TimeGoesOn, Refill
<1>19. ASSUME NEW h \in Handlers, Handled(h), ~UseTotpStep(h), ~WriteKeys(h), ~Recover(h), ~Disable(h),
              ~DeleteAuthenticator(h), ~ActivateAuthenticator(h), ~UseFirstStep(h), ~SetEmail(h),
              ~ActivateWebauthn(h), ~DeleteWebauthn(h), ~Rehash(h)
       PROVE  UNCHANGED <<factors, user>>
  <2>1. CASE PasswordLogin(h)
    BY <1>19, <2>1 DEF PasswordLogin, ReadUser, TakeTries, TakeKnown, VerifyLogin, CheckLogin, ReadDevice,
         UseAuthRequest, TakeCode, Renew, CheckTravelling, FinishLogin, RequestVars
  <2>2. CASE Settings(h)
    BY <1>19, <2>2 DEF Settings, Setting, Asks, CompareKey, ForgetRemembered, ActivateEmail, WebauthnChallenge,
         TakeRegistration, ReadKeys, RequestVars
  <2>3. CASE SendLoginCode(h) \/ ReadFactors(h) \/ PutCode(h) \/ Create(h) \/ Answer(h)
    BY <2>3 DEF SendLoginCode, ReadFactors, PutCode, Create, Answer, RequestVars
  <2> QED
    BY <1>19, <2>1, <2>2, <2>3 DEF Handled
<1> QED
  BY <1>2, <1>6, <1>7, <1>8, <1>9, <1>10, <1>11, <1>12, <1>13, <1>15, <1>16, <1>17, <1>18, <1>19 DEF LoginsNext, Handled

LEMMA ClientsMoved ==
    ASSUME LoginsTypeOK, RecoveryWhileOn, LoginsNext
    PROVE  devices' \in Clients
<1>1. devices \in Clients /\ Forgotten \in Clients
  BY DEF LoginsTypeOK, Clients, Forgotten
<1>2. ASSUME NEW h \in Handlers, Recover(h) \/ Disable(h) \/ DeleteAuthenticator(h) \/ DeleteWebauthn(h)
      PROVE  devices' \in Clients
  BY <1>1, <1>2, Removes DEF Recover, Disable, DeleteAuthenticator, DeleteWebauthn
<1>3. ASSUME NEW h \in Handlers, FinishLogin(h)
      PROVE  devices' \in Clients
  <2> DEFINE d == run[h].device
  <2>1. d \in Devices /\ h \in Makers
    BY DEF LoginsTypeOK, Run, Makers
  <2>2. PICK remember \in BOOLEAN :
          devices' = [devices EXCEPT ![d] = [known |-> TRUE, in |-> h, remembered |-> IF remember THEN h ELSE @.remembered]]
    BY <1>3 DEF FinishLogin
  <2> DEFINE kept == IF remember THEN h ELSE devices[d].remembered
             new == [known |-> TRUE, in |-> h, remembered |-> kept]
  <2>3. kept \in Makers \cup {None}
    BY <1>1, <2>1 DEF Clients
  <2> HIDE DEF kept
  <2>4. devices' = [devices EXCEPT ![d] = new]
    BY <1>1, <2>1, <2>2 DEF Clients, kept
  <2>5. new \in [known : BOOLEAN, remembered : Makers \cup {None}, in : Makers \cup {None}]
    BY <2>1, <2>3
  <2> HIDE DEF new
  <2> QED
    BY <1>1, <2>1, <2>4, <2>5 DEF Clients
<1>4. ASSUME NEW h \in Handlers, ForgetRemembered(h)
      PROVE  devices' \in Clients
  BY <1>1, <1>4 DEF ForgetRemembered
<1>5. CASE ChangePassword
  BY <1>1, <1>5 DEF ChangePassword, Clients
<1>6. CASE RunsOut
  <2>1. CASE \E d \in Devices : devices' = [devices EXCEPT ![d].remembered = None]
    BY <1>1, <2>1 DEF Clients
  <2> QED
    BY <1>1, <1>6, <2>1 DEF RunsOut, OneRunsOut
<1>7. CASE SwitchTravel \/ TimeGoesOn \/ Refill
  BY <1>1, <1>7 DEF SwitchTravel, TimeGoesOn, Refill
<1>8. ASSUME NEW h \in Handlers, Handled(h), ~Recover(h), ~Disable(h), ~DeleteAuthenticator(h), ~DeleteWebauthn(h),
             ~FinishLogin(h), ~ForgetRemembered(h)
      PROVE  UNCHANGED devices
  <2>1. CASE PasswordLogin(h)
    BY <1>8, <2>1 DEF PasswordLogin, ReadUser, TakeTries, TakeKnown, VerifyLogin, Rehash, CheckLogin, ReadDevice,
         UseAuthRequest, UseTotpStep, WriteKeys, TakeCode, Renew, CheckTravelling, RequestVars
  <2>2. CASE Settings(h)
    BY <1>8, <2>2 DEF Settings, Setting, Asks, CompareKey, ActivateAuthenticator, UseFirstStep, ActivateEmail, SetEmail,
         WebauthnChallenge, TakeRegistration, ActivateWebauthn, ReadKeys, RequestVars
  <2>3. CASE SendLoginCode(h) \/ ReadFactors(h) \/ PutCode(h) \/ Create(h) \/ Answer(h)
    BY <2>3 DEF SendLoginCode, ReadFactors, PutCode, Create, Answer, RequestVars
  <2> QED
    BY <1>8, <2>1, <2>2, <2>3 DEF Handled
<1> QED
  BY <1>1, <1>2, <1>3, <1>4, <1>5, <1>6, <1>7, <1>8 DEF LoginsNext, Handled

-----------------------------------------------------------------------------
(* The parts of the invariant, one by one.                                 *)

\* The same after the step.
FinishedNow(x) == x \in Handlers => run'[x].at = "over"
SetUpNow(x) == x \in Handlers => run'[x].at \in {"use", "over"}
TriedNow(x) == {g \in Handlers : run'[g].wrong = "second" /\ run'[g].proof.way = "mail" /\ run'[g].proof.by = x}
OnceNow(p) == p.way \in {"mail", "key", "request"} \/ (p.way = "totp" /\ p.by = factors'.totp)

LEMMA FinishedStays ==
    ASSUME LoginsTypeOK, \A h \in Handlers : ShownInv(h), LoginsNext, NEW x
    PROVE  (Finished(x) => FinishedNow(x)) /\ (SetUp(x) => SetUpNow(x))
<1>1. CASE UNCHANGED run
  BY <1>1 DEF Finished, SetUp, FinishedNow, SetUpNow
<1>2. CASE \E h \in Handlers : Moves(h) /\ \A g \in Handlers \ {h} : run'[g] = run[g]
  BY <1>2 DEF Finished, SetUp, FinishedNow, SetUpNow, Moves
<1> QED
  BY <1>1, <1>2, OneMoves

LEMMA MadeKept ==
    ASSUME LoginsIInv, LoginsNext
    PROVE  MadeInv'
<1>1. LoginsTypeOK /\ (\A h \in Handlers : ShownInv(h)) /\ MadeInv /\ RecoveryWhileOn
  BY DEF LoginsIInv
<1>2. codes'.login.by # None => FinishedNow(codes'.login.by)
  BY <1>1, CodesMoved, FinishedStays DEF CodesMove, MadeInv, Finished, FinishedNow
<1>3. challenges'.login # None => FinishedNow(challenges'.login)
  BY <1>1, ChallengesMoved, FinishedStays DEF ChallengesMove, MadeInv, FinishedNow
<1>4. factors'.totp # None => SetUpNow(factors'.totp)
  BY <1>1, FactorsMoved, FinishedStays DEF FactorsMove, MadeInv, SetUpNow
<1>5. ASSUME NEW q \in Handlers, requests'[q] # "none"
      PROVE  FinishedNow(q)
  BY <1>1, <1>5, RequestsMoved, FinishedStays DEF RequestsMove, MadeInv, FinishedNow
<1> QED
  BY <1>2, <1>3, <1>4, <1>5 DEF MadeInv, Finished, SetUp, FinishedNow, SetUpNow

\* What was taken stays taken.
Kept(g) == Taken(g) /\ run'[g].proof = run[g].proof

LEMMA TakenStays ==
    ASSUME LoginsIInv, LoginsNext, NEW g \in Handlers, Kept(g)
    PROVE  LET p == run'[g].proof
           IN /\ p.way = "mail" => p.by # None /\ codes.login.by # p.by /\ codes'.login.by # p.by
              /\ p.way = "key" => p.by # None /\ FinishedNow(p.by) /\ challenges.login # p.by /\ challenges'.login # p.by
              /\ p.way = "request" => p.by \in Handlers /\ requests[p.by] = "used" /\ requests'[p.by] = "used"
              /\ p.way = "totp" /\ p.by = factors'.totp
                    => p.by = factors.totp /\ p.n <= factors.last /\ p.n <= factors'.last
<1> DEFINE p == run[g].proof
<1>1. LoginsTypeOK /\ (\A h \in Handlers : ShownInv(h)) /\ MadeInv /\ RecoveryWhileOn /\ ShownInv(g) /\ Taken(g)
      /\ run'[g].proof = p
  BY DEF LoginsIInv, Kept
<1>2. p \in Proof /\ p.n \in Nat /\ factors.last \in Nat /\ run[g].at \in {"device", "data", "finish", "in"}
  BY <1>1 DEF LoginsTypeOK, Run, Proof, Factors, Taken
<1>3. ASSUME p.way = "mail"
      PROVE  p.by # None /\ codes.login.by # p.by /\ codes'.login.by # p.by
  BY <1>1, <1>3, CodesMoved DEF ShownInv, CodesMove, Finished
<1>4. ASSUME p.way = "key"
      PROVE  p.by # None /\ FinishedNow(p.by) /\ challenges.login # p.by /\ challenges'.login # p.by
  BY <1>1, <1>4, ChallengesMoved, FinishedStays DEF ShownInv, ChallengesMove, Finished
<1>5. ASSUME p.way = "request"
      PROVE  p.by \in Handlers /\ requests[p.by] = "used" /\ requests'[p.by] = "used"
  BY <1>1, <1>5, RequestsMoved DEF ShownInv, RequestsMove
<1>6. ASSUME p.way = "totp", p.by = factors'.totp
      PROVE  p.by = factors.totp /\ p.n <= factors.last /\ p.n <= factors'.last
  <2>1. run[g].at \in {"finish", "in"}
    BY <1>1, <1>2, <1>6 DEF ShownInv, Stage
  <2>2. p.by # None /\ SetUp(p.by)
    BY <1>1, <1>6, <2>1 DEF ShownInv
  <2>3. p.by = factors.totp /\ factors'.last >= factors.last /\ factors'.last \in Nat
    BY <1>1, <1>6, <2>2, FactorsMoved DEF FactorsMove, SetUp, Factors
  <2>4. p.n <= factors.last
    BY <1>1, <1>6, <2>3 DEF ShownInv
  <2> QED
    BY <1>2, <2>3, <2>4
<1> QED
  BY <1>1, <1>3, <1>4, <1>5, <1>6

LEMMA ShownKept ==
    ASSUME LoginsIInv, LoginsNext, NEW g \in Handlers
    PROVE  ShownInv(g)'
<1> DEFINE p == run'[g].proof
<1>1. LoginsTypeOK /\ (\A h \in Handlers : ShownInv(h)) /\ MadeInv /\ RecoveryWhileOn /\ ShownInv(g)
  BY DEF LoginsIInv
<1>2. run'[g] = run[g] \/ Moves(g)
  BY <1>1, OneMoves
<1>3. Stage(run'[g])
  BY <1>1, <1>2 DEF Moves, ShownInv
<1>4. ASSUME p.way = "mail", p.by # None
      PROVE  FinishedNow(p.by)
  <2>1. Finished(p.by)
    BY <1>1, <1>2, <1>4 DEF Moves, ShownInv, MadeInv
  <2> QED
    BY <1>1, <2>1, FinishedStays
<1>5. ASSUME p.way = "totp", run'[g].at \in {"step", "finish", "in"}
      PROVE  p.by # None /\ SetUpNow(p.by)
  <2>1. p.by # None /\ SetUp(p.by)
    BY <1>1, <1>2, <1>5 DEF Moves, ShownInv, MadeInv
  <2> QED
    BY <1>1, <2>1, FinishedStays
<1>6. ASSUME Taken(g)'
      PROVE  /\ p.way = "mail" => p.by # None /\ codes'.login.by # p.by
             /\ p.way = "key" => p.by # None /\ FinishedNow(p.by) /\ challenges'.login # p.by
             /\ p.way = "request" => p.by \in Handlers /\ requests'[p.by] = "used"
             /\ p.way = "totp" /\ p.by = factors'.totp => p.n <= factors'.last
  <2>1. Kept(g) \/ Fits(g)
    BY <1>2, <1>6 DEF Moves, Kept, Taken
  <2>2. CASE Kept(g)
    BY <2>2, TakenStays
  <2>3. CASE Fits(g)
    <3>1. p.way = "key" => FinishedNow(p.by)
      BY <1>1, <2>3, FinishedStays DEF Fits, MadeInv
    <3>2. p.n \in Nat
      BY <1>1, RunType DEF Run, Proof
    <3> QED
      BY <2>3, <3>1, <3>2 DEF Fits
  <2> QED
    BY <2>1, <2>2, <2>3
<1> QED
  BY <1>3, <1>4, <1>5, <1>6 DEF ShownInv, Finished, SetUp, FinishedNow, SetUpNow

LEMMA AloneKept ==
    ASSUME LoginsIInv, LoginsNext
    PROVE  Alone'
<1>1. LoginsTypeOK /\ (\A h \in Handlers : ShownInv(h)) /\ MadeInv /\ RecoveryWhileOn /\ Alone
  BY DEF LoginsIInv
<1>2. ASSUME NEW g \in Handlers, NEW h \in Handlers, g # h, Taken(g)', Taken(h)', run'[g].proof = run'[h].proof,
             OnceNow(run'[g].proof)
      PROVE  FALSE
  <2> DEFINE p == run'[g].proof
  <2>1. (Kept(g) \/ Fits(g)) /\ (Kept(h) \/ Fits(h)) /\ (Kept(g) \/ Kept(h))
    BY <1>1, <1>2, OneMoves DEF Moves, Kept, Taken
  <2>2. ASSUME NEW a \in Handlers, NEW b \in Handlers, Kept(a), Fits(b), run'[a].proof = run'[b].proof, OnceNow(run'[a].proof)
        PROVE  FALSE
    <3>1. run'[a].proof \in Proof /\ run'[a].proof.n \in Nat /\ factors.last \in Nat
      BY <1>1, RunType DEF Run, Proof, LoginsTypeOK, Factors
    <3> QED
      BY <2>2, <3>1, TakenStays DEF Fits, OnceNow
  <2>3. CASE Kept(g) /\ Kept(h)
    <3>1. Once(p)
      BY <1>2, <2>3, TakenStays DEF Once, OnceNow
    <3> QED
      BY <1>1, <1>2, <2>3, <3>1 DEF Alone, Kept
  <2> QED
    BY <1>2, <2>1, <2>2, <2>3
<1> QED
  BY <1>2 DEF Alone, Once, OnceNow

LEMMA TriedKept ==
    ASSUME LoginsIInv, LoginsNext
    PROVE  TriedInv'
<1>1. LoginsTypeOK /\ (\A h \in Handlers : ShownInv(h)) /\ MadeInv /\ RecoveryWhileOn /\ TriedInv
  BY DEF LoginsIInv
<1>2. IsFiniteSet(Handlers) /\ CODE_ATTEMPTS \in Nat /\ CODE_ATTEMPTS > 0
  BY LoginIds, LoginBounds
<1>3. \A x : Tried(x) \in SUBSET Handlers /\ TriedNow(x) \in SUBSET Handlers
             /\ Cardinality(Tried(x)) \in Nat /\ Cardinality(TriedNow(x)) \in Nat
  BY <1>2, FS_Subset, FS_CardinalityType DEF Tried, TriedNow, Refused
<1>4. codes.login.wrong \in Nat /\ codes'.login.wrong \in Nat
  BY <1>1, CodesMoved DEF CodesMove, LoginsTypeOK, Code
<1>5. ASSUME NEW x
      PROVE  \/ TriedNow(x) = Tried(x)
             \/ /\ codes.login.by = x /\ Cardinality(TriedNow(x)) <= Cardinality(Tried(x)) + 1
                /\ codes'.login.by = None \/ codes'.login.wrong = codes.login.wrong + 1
  <2>1. CASE \E h \in Handlers : Handled(h)
    <3>1. PICK h \in Handlers : Handled(h)
      BY <2>1
    <3>2. Moves(h) /\ Only(h) /\ Costs(h) /\ ShownInv(h)
      BY <1>1, <3>1, LoginMoves, SettingMoves, LoginCosts, SettingCosts DEF Handled
    <3>3. \A g \in Handlers \ {h} : run'[g] = run[g]
      BY <1>1, <3>2 DEF Only, Goes, LoginsTypeOK
    <3>4. h \notin Tried(x)
      BY <3>2 DEF Moves, ShownInv, Stage, Tried, TriedNow, Refused
    <3>5. \A g \in Handlers \ {h} : g \in Tried(x) <=> g \in TriedNow(x)
      BY <3>3 DEF Tried, TriedNow, Refused
    <3>6. CASE h \notin TriedNow(x)
      <4>1. TriedNow(x) = Tried(x)
        BY <1>3, <3>4, <3>5, <3>6
      <4> QED
        BY <4>1
    <3>7. CASE h \in TriedNow(x)
      <4>1. run'[h].wrong = "second" /\ run'[h].proof.way = "mail" /\ run'[h].proof.by = x
        BY <3>7 DEF Tried, TriedNow, Refused
      <4>2. codes.login.by = x /\ (codes'.login.by = None \/ codes'.login.wrong = codes.login.wrong + 1)
        BY <3>2, <4>1 DEF Costs
      <4>3. Cardinality(TriedNow(x)) + One(h \in Tried(x)) = Cardinality(Tried(x)) + One(h \in TriedNow(x))
        <5> DEFINE S == Tried(x)
                   T == TriedNow(x)
        <5>1. S \in SUBSET Handlers /\ T \in SUBSET Handlers
          BY <1>3
        <5> HIDE DEF S, T
        <5>2. \A g \in Handlers \ {h} : g \in S <=> g \in T
          BY <3>5 DEF S, T
        <5>3. Cardinality(T) + One(h \in S) = Cardinality(S) + One(h \in T)
          BY <1>2, <5>1, <5>2, OneAlone
        <5> QED
          BY <5>3 DEF S, T
      <4>4. One(h \in Tried(x)) = 0 /\ One(h \in TriedNow(x)) = 1
        BY <3>4, <3>7 DEF One
      <4>5. Cardinality(TriedNow(x)) <= Cardinality(Tried(x)) + 1
        BY <1>3, <4>3, <4>4
      <4> QED
        BY <4>2, <4>5
    <3> QED
      BY <3>6, <3>7
  <2>2. CASE Meanwhile
    BY <2>2 DEF Meanwhile, ChangePassword, SwitchTravel, RunsOut, TimeGoesOn, Refill, Tried, TriedNow, Refused
  <2> QED
    BY <2>1, <2>2 DEF LoginsNext, Handled, Meanwhile
<1>6. ASSUME codes'.login.by # None
      PROVE  Cardinality(TriedNow(codes'.login.by)) <= codes'.login.wrong /\ codes'.login.wrong < CODE_ATTEMPTS
  <2> DEFINE x == codes'.login.by
  <2>1. CASE /\ codes'.login.by = codes.login.by /\ codes'.login.wrong >= codes.login.wrong
             /\ codes'.login.wrong = codes.login.wrong \/ codes'.login.wrong < CODE_ATTEMPTS
    <3>1. Cardinality(Tried(x)) <= codes.login.wrong /\ codes.login.wrong < CODE_ATTEMPTS
      BY <1>1, <1>6, <2>1 DEF TriedInv
    <3> HIDE DEF x
    <3>2. Cardinality(TriedNow(x)) <= codes'.login.wrong
      BY <1>3, <1>4, <1>5, <1>6, <2>1, <3>1 DEF x
    <3>3. codes'.login.wrong < CODE_ATTEMPTS
      BY <2>1, <3>1
    <3> QED
      BY <3>2, <3>3 DEF x
  <2>2. CASE \E h \in Handlers :
                codes'.login.by = h /\ codes'.login.wrong = 0 /\ run[h].at = "put" /\ run'[h].at = "over"
    <3>1. PICK h \in Handlers : x = h /\ codes'.login.wrong = 0 /\ run[h].at = "put" /\ run'[h].at = "over"
      BY <2>2
    <3>2. codes.login.by # h
      BY <1>1, <3>1, LoginIds DEF MadeInv, Finished
    <3>3. Tried(h) = {}
      BY <1>1, <3>1, LoginIds DEF Tried, TriedNow, Refused, ShownInv, Finished
    <3>4. TriedNow(h) = {}
      BY <1>5, <3>2, <3>3
    <3>5. Cardinality({}) = 0
      BY FS_EmptySet
    <3> HIDE DEF x
    <3>6. TriedNow(x) = {}
      BY <3>1, <3>4
    <3> QED
      BY <1>2, <3>1, <3>5, <3>6 DEF x
  <2> QED
    BY <1>1, <1>6, <2>1, <2>2, CodesMoved DEF CodesMove
<1>7. ASSUME NEW g \in Handlers, Taken(g)', run'[g].proof.way = "mail"
      PROVE  Cardinality(TriedNow(run'[g].proof.by)) < CODE_ATTEMPTS
  <2> DEFINE x == run'[g].proof.by
  <2>1. Kept(g) \/ (Moves(g) /\ Fits(g) /\ \A h \in Handlers \ {g} : run'[h] = run[h])
    BY <1>1, <1>7, OneMoves DEF Moves, Kept, Taken
  <2>2. CASE Kept(g)
    <3>1. codes.login.by # x
      BY <1>7, <2>2, TakenStays
    <3>2. Cardinality(Tried(run[g].proof.by)) < CODE_ATTEMPTS /\ x = run[g].proof.by
      BY <1>1, <1>7, <2>2 DEF TriedInv, Kept
    <3> HIDE DEF x
    <3>3. TriedNow(x) = Tried(x)
      BY <1>5, <3>1
    <3>4. Cardinality(TriedNow(x)) < CODE_ATTEMPTS
      BY <3>2, <3>3
    <3> QED
      BY <3>4 DEF x
  <2>3. CASE Moves(g) /\ Fits(g) /\ \A h \in Handlers \ {g} : run'[h] = run[h]
    <3>1. x # None /\ codes.login.by = x
      BY <1>7, <2>3 DEF Fits
    <3>2. Cardinality(Tried(x)) <= codes.login.wrong /\ codes.login.wrong < CODE_ATTEMPTS
      BY <1>1, <3>1 DEF TriedInv
    <3>3. g \notin Tried(x) /\ g \notin TriedNow(x)
      BY <1>1, <1>7, <2>3 DEF Moves, ShownInv, Stage, Tried, TriedNow, Refused, Taken
    <3>5. TriedNow(x) = Tried(x)
      <4> HIDE DEF x
      <4>1. \A h \in Handlers \ {g} : h \in TriedNow(x) <=> h \in Tried(x)
        BY <2>3 DEF Tried, TriedNow, Refused
      <4> QED
        BY <1>3, <3>3, <4>1
    <3> HIDE DEF x
    <3>6. Cardinality(TriedNow(x)) < CODE_ATTEMPTS
      BY <1>2, <1>3, <1>4, <3>2, <3>5
    <3> QED
      BY <3>6 DEF x
  <2> QED
    BY <2>1, <2>2, <2>3
<1> QED
  BY <1>6, <1>7 DEF TriedInv, Tried, TriedNow, Refused

-----------------------------------------------------------------------------
(* The theorems.                                                           *)

LEMMA LoginsStart == LoginsInit => LoginsIInv
<1> SUFFICES ASSUME LoginsInit
             PROVE  LoginsIInv
  OBVIOUS
<1>1. scene \in Scenes /\ scene \in Scene /\ ("key" \in scene.on => Keys # {}) /\ scene.on \subseteq Ways
  BY ScenesAssumption DEF LoginsInit, Scene
<1>2. IsFiniteSet(Handlers) /\ Old \in Makers /\ Old \notin Handlers /\ None \notin Handlers /\ Old # None
  BY LoginIds DEF Makers
<1>3. \A h \in Handlers : run[h] = Fresh
  BY DEF LoginsInit
<1>4. LoginsTypeOK
  <2>1. user \in Users
    BY <1>1, <1>2 DEF LoginsInit, Users, Scene
  <2>2. factors \in Factors
    BY <1>1, <1>2 DEF LoginsInit, Factors
  <2>3. devices \in Clients
    BY <1>1, <1>2 DEF LoginsInit, Clients
  <2>4. codes \in [{"login", "setup"} -> Code]
    <3>1. NoCode \in Code /\ [NoCode EXCEPT !.by = Old] \in Code
      BY <1>2 DEF NoCode, Code
    <3>2. PICK c \in Code : codes = [login |-> c, setup |-> NoCode]
      BY <3>1 DEF LoginsInit
    <3> QED
      BY <3>1, <3>2
  <2>5. challenges \in [{"login", "register"} -> Makers \cup {None}]
    BY <1>2 DEF LoginsInit
  <2>6. requests \in [Handlers -> {"none", "waiting", "yes", "no", "used", "late"}]
    BY DEF LoginsInit
  <2>7. tries \in Tries
    BY LoginBounds DEF LoginsInit, Tries
  <2>8. step \in 0..MaxStep
    BY LoginBounds DEF LoginsInit
  <2>9. run \in [Handlers -> Run]
    BY FreshRun DEF LoginsInit
  <2> QED
    BY <1>1, <2>1, <2>2, <2>3, <2>4, <2>5, <2>6, <2>7, <2>8, <2>9 DEF LoginsTypeOK, Users, Clients
<1>5. codes.login.by \in {Old, None} /\ codes.login.wrong = 0 /\ challenges.login \in {Old, None}
      /\ factors.totp \in {Old, None} /\ \A h \in Handlers : requests[h] = "none"
  BY DEF LoginsInit, NoCode
<1>6. MadeInv
  BY <1>2, <1>5 DEF MadeInv, Finished, SetUp
<1>7. \A h \in Handlers : ShownInv(h)
  BY <1>3, FreshRun DEF ShownInv, Stage, Taken
<1>8. Alone
  BY <1>3, FreshRun DEF Alone, Taken
<1>9. RecoveryWhileOn
  BY <1>1, <1>2 DEF LoginsInit, RecoveryWhileOn, On, Ways
<1>10. Cardinality({}) = 0
  BY FS_EmptySet
<1>11. TriedInv
  <2>1. \A x : Tried(x) = {}
    BY <1>3, FreshRun DEF Tried, Refused
  <2>2. CODE_ATTEMPTS \in Nat
    BY LoginBounds
  <2> QED
    BY <1>3, <1>5, <1>10, <2>1, <2>2, LoginBounds, FreshRun DEF TriedInv, Taken
<1>12. TriesInv
  <2>1. Guessing = {} /\ Showing = {} /\ \A n \in Networks : GuessingFrom(n) = {}
    BY <1>3, FreshRun DEF Guessing, Showing, GuessingFrom, Guesses, GuessesFrom, ShowsOne
  <2>2. tries.all = AccountTries /\ tries.known = KnownTries /\ tries.second = CodeTries /\ tries.back = 0
        /\ \A n \in Networks : tries.network[n] = NetworkTries
    BY DEF LoginsInit
  <2>3. AccountTries \in Nat /\ KnownTries \in Nat /\ CodeTries \in Nat /\ NetworkTries \in Nat
    BY LoginBounds
  <2>4. Cardinality(Guessing) = 0 /\ Cardinality(Showing) = 0
    BY <1>10, <2>1
  <2>5. ASSUME NEW n \in Networks
        PROVE  Cardinality(GuessingFrom(n)) + tries.network[n] <= NetworkTries + tries.back
    <3>1. Cardinality(GuessingFrom(n)) = 0
      BY <1>10, <2>1
    <3> QED
      BY <2>2, <2>3, <3>1
  <2> QED
    BY <2>2, <2>3, <2>4, <2>5 DEF TriesInv
<1> QED
  BY <1>4, <1>6, <1>7, <1>8, <1>9, <1>11, <1>12 DEF LoginsIInv

LEMMA LoginsStep == LoginsIInv /\ [LoginsNext]_loginsVars => LoginsIInv'
<1> SUFFICES ASSUME LoginsIInv, [LoginsNext]_loginsVars
             PROVE  LoginsIInv'
  OBVIOUS
<1>1. CASE UNCHANGED loginsVars
  <2>1. LoginsTypeOK' /\ MadeInv' /\ RecoveryWhileOn'
    BY <1>1 DEF loginsVars, LoginsIInv, LoginsTypeOK, MadeInv, Finished, SetUp, RecoveryWhileOn
  <2>2. \A h \in Handlers : ShownInv(h)'
    BY <1>1 DEF loginsVars, LoginsIInv, ShownInv, Taken, Finished, SetUp
  <2>3. Alone'
    BY <1>1 DEF loginsVars, LoginsIInv, Alone, Taken, Once
  <2>4. TriedInv'
    BY <1>1 DEF loginsVars, LoginsIInv, TriedInv, Tried, Refused, Taken
  <2>5. TriesInv'
    BY <1>1 DEF loginsVars, LoginsIInv, TriesInv, Guessing, GuessingFrom, Showing
  <2> QED
    BY <2>1, <2>2, <2>3, <2>4, <2>5 DEF LoginsIInv
<1>2. CASE LoginsNext
  <2>1. LoginsTypeOK /\ MadeInv /\ (\A h \in Handlers : ShownInv(h)) /\ RecoveryWhileOn
    BY DEF LoginsIInv
  <2>2. scene' = scene /\ step' \in 0..MaxStep
    <3>1. CASE \E h \in Handlers : Handled(h)
      <4>1. PICK h \in Handlers : Handled(h)
        BY <3>1
      <4>2. CASE PasswordLogin(h)
        BY <2>1, <4>2 DEF PasswordLogin, ReadUser, TakeTries, TakeKnown, VerifyLogin, Rehash, CheckLogin, ReadDevice,
             UseAuthRequest, UseTotpStep, WriteKeys, TakeCode, Renew, CheckTravelling, Recover, FinishLogin, RequestVars,
             LoginsTypeOK
      <4>3. CASE Settings(h)
        BY <2>1, <4>3 DEF Settings, Setting, Asks, Disable, CompareKey, DeleteAuthenticator, ForgetRemembered,
             ActivateAuthenticator, UseFirstStep, ActivateEmail, SetEmail, WebauthnChallenge, TakeRegistration,
             ActivateWebauthn, ReadKeys, DeleteWebauthn, RequestVars, LoginsTypeOK
      <4>4. CASE SendLoginCode(h) \/ ReadFactors(h) \/ PutCode(h) \/ Create(h) \/ Answer(h)
        BY <2>1, <4>4 DEF SendLoginCode, ReadFactors, PutCode, Create, Answer, RequestVars, LoginsTypeOK
      <4> QED
        BY <4>1, <4>2, <4>3, <4>4 DEF Handled
    <3>2. CASE Meanwhile
      <4>1. scene' = scene /\ (step' = step \/ (step < MaxStep /\ step' = step + 1))
        BY <3>2 DEF Meanwhile, ChangePassword, SwitchTravel, RunsOut, TimeGoesOn, Refill
      <4>2. step \in 0..MaxStep /\ MaxStep \in Nat
        BY <2>1, LoginBounds DEF LoginsTypeOK
      <4> QED
        BY <4>1, <4>2
    <3> QED
      BY <1>2, <3>1, <3>2 DEF LoginsNext, Handled, Meanwhile
  <2>3. run' \in [Handlers -> Run]
    BY <1>2, <2>1, RunType
  <2>4. factors' \in Factors /\ user' \in Users /\ RecoveryWhileOn'
    BY <1>2, <2>1, FactorsMoved DEF FactorsMove
  <2>5. codes' \in [{"login", "setup"} -> Code]
    BY <1>2, <2>1, CodesMoved DEF CodesMove
  <2>6. challenges' \in [{"login", "register"} -> Makers \cup {None}]
    BY <1>2, <2>1, ChallengesMoved DEF ChallengesMove
  <2>7. requests' \in [Handlers -> {"none", "waiting", "yes", "no", "used", "late"}]
    BY <1>2, <2>1, RequestsMoved DEF RequestsMove
  <2>8. devices' \in Clients
    BY <1>2, <2>1, ClientsMoved
  <2>9. tries' \in Tries /\ TriesInv'
    BY <1>2, TriesKept
  <2>10. LoginsTypeOK'
    BY <2>1, <2>2, <2>3, <2>4, <2>5, <2>6, <2>7, <2>8, <2>9 DEF LoginsTypeOK, Users, Clients
  <2>11. MadeInv' /\ Alone' /\ TriedInv'
    BY <1>2, MadeKept, AloneKept, TriedKept
  <2>12. \A h \in Handlers : ShownInv(h)'
    BY <1>2, ShownKept
  <2> QED
    BY <2>4, <2>9, <2>10, <2>11, <2>12 DEF LoginsIInv
<1> QED
  BY <1>1, <1>2

THEOREM LoginsStayRight == LoginsSpec => []LoginsIInv
BY LoginsStart, LoginsStep, PTL DEF LoginsSpec

\* No mailed code, security key's challenge, authenticator's time step or approved request lets
\* two logins in, and there is a recovery code exactly while a way of two-step login is on, for
\* any number of logins, removals and settings at once: what a login shows is gone for all
\* others in the very write that checks it.
THEOREM OneProofOneLogin == LoginsSpec => []LoginsInv
<1>1. LoginsIInv => LoginsInv
  BY DEF LoginsIInv, LoginsInv, OneLoginEach, Alone, CameIn, Taken
<1> QED
  BY <1>1, LoginsStayRight, PTL

\* Wrong passwords of logins and wrong second steps stay within what the buckets held and got
\* back, for any number of logins at once and buckets of any size, and a mailed code lets nobody
\* in after CODE_ATTEMPTS wrong tries.  A password that comes along when a code is asked for is
\* no login, takes no try, and is not in it.
THEOREM GuessesStayWithin == LoginsSpec => []GuessesWithin
<1>1. LoginsIInv => GuessesWithin
  <2> SUFFICES ASSUME LoginsIInv
               PROVE  GuessesWithin
    OBVIOUS
  <2>1. LoginsTypeOK /\ TriedInv /\ TriesInv /\ TriesAreNumbers
    BY TriesNumbers DEF LoginsIInv
  <2>2. IsFiniteSet(Handlers) /\ CODE_ATTEMPTS \in Nat /\ AccountTries \in Nat /\ KnownTries \in Nat
        /\ NetworkTries \in Nat /\ CodeTries \in Nat
    BY LoginIds, LoginBounds
  <2>3. \A S \in SUBSET Handlers : \A R \in SUBSET S :
           Cardinality(R) \in Nat /\ Cardinality(S) \in Nat /\ Cardinality(R) <= Cardinality(S)
    BY <2>2, FS_Subset, FS_CardinalityType
  <2>4. RightAfterWrong
    <3> SUFFICES ASSUME NEW h \in Handlers, CameIn(h), run[h].proof.way = "mail"
                 PROVE  Cardinality({g \in Refused("second") : run[g].proof = run[h].proof}) < CODE_ATTEMPTS
      BY DEF RightAfterWrong
    <3> DEFINE T == Tried(run[h].proof.by)
               R == {g \in Refused("second") : run[g].proof = run[h].proof}
    <3>1. Cardinality(T) < CODE_ATTEMPTS
      BY <2>1 DEF TriedInv, CameIn, Taken
    <3>2. T \in SUBSET Handlers /\ R \in SUBSET T
      BY DEF Tried, Refused
    <3> HIDE DEF T, R
    <3>3. Cardinality(R) < CODE_ATTEMPTS
      BY <2>2, <2>3, <3>1, <3>2
    <3> QED
      BY <3>3 DEF R
  <2>5. Cardinality(Refused("password")) <= AccountTries + KnownTries + 2 * tries.back
    <3>1. Guessing \in SUBSET Handlers /\ Refused("password") \in SUBSET Guessing
      BY DEF Guessing, Guesses, Refused
    <3>2. Cardinality(Guessing) + tries.all + tries.known <= AccountTries + KnownTries + 2 * tries.back
      BY <2>1 DEF TriesInv
    <3>3. Cardinality(Guessing) \in Nat /\ Cardinality(Refused("password")) \in Nat
          /\ Cardinality(Refused("password")) <= Cardinality(Guessing)
      BY <2>3, <3>1
    <3> QED
      BY <2>1, <2>2, <3>2, <3>3 DEF TriesAreNumbers
  <2>6. ASSUME NEW n \in Networks
        PROVE  Cardinality({h \in Refused("password") : run[h].network = n}) <= NetworkTries + tries.back
    <3> DEFINE R == {h \in Refused("password") : run[h].network = n}
    <3>1. GuessingFrom(n) \in SUBSET Handlers /\ R \in SUBSET GuessingFrom(n)
      BY DEF GuessingFrom, GuessesFrom, Refused
    <3>2. Cardinality(GuessingFrom(n)) + tries.network[n] <= NetworkTries + tries.back
      BY <2>1 DEF TriesInv
    <3> HIDE DEF R
    <3>3. Cardinality(GuessingFrom(n)) \in Nat /\ Cardinality(R) \in Nat /\ Cardinality(R) <= Cardinality(GuessingFrom(n))
      BY <2>3, <3>1
    <3>4. tries.network[n] \in Nat
      BY <2>1 DEF TriesAreNumbers
    <3>5. Cardinality(R) <= NetworkTries + tries.back
      BY <2>1, <2>2, <3>2, <3>3, <3>4 DEF TriesAreNumbers
    <3> QED
      BY <3>5 DEF R
  <2>7. Cardinality(Refused("second")) <= CodeTries + tries.back
    <3>1. Showing \in SUBSET Handlers /\ Refused("second") \in SUBSET Showing
      BY DEF Showing, ShowsOne, Refused
    <3>2. Cardinality(Showing) + tries.second <= CodeTries + tries.back
      BY <2>1 DEF TriesInv
    <3>3. Cardinality(Showing) \in Nat /\ Cardinality(Refused("second")) \in Nat
          /\ Cardinality(Refused("second")) <= Cardinality(Showing)
      BY <2>3, <3>1
    <3> QED
      BY <2>1, <2>2, <3>2, <3>3 DEF TriesAreNumbers
  <2> QED
    BY <2>1, <2>4, <2>5, <2>6, <2>7 DEF GuessesWithin
<1> QED
  BY <1>1, LoginsStayRight, PTL

\* Two devices that answer one request, while it gets too old or is used, for any number of
\* them: the first answer stays, and a request that was denied or too old lets nobody in.
THEOREM AnswersAreKept == LoginsSpec => AnswersStay
<1> DEFINE Stays == \A q \in Handlers :
          requests'[q] # requests[q] =>
             \/ requests[q] = "none" /\ requests'[q] = "waiting"
             \/ requests[q] = "waiting" /\ requests'[q] \in {"yes", "no", "late"}
             \/ requests[q] = "yes" /\ requests'[q] \in {"used", "late"}
<1>1. LoginsIInv /\ [LoginsNext]_loginsVars => [Stays]_loginsVars
  <2> SUFFICES ASSUME LoginsIInv, LoginsNext
               PROVE  Stays
    BY DEF loginsVars
  <2> QED
    BY RequestsMoved DEF LoginsIInv, RequestsMove
<1> HIDE DEF Stays
<1>2. LoginsSpec => [][Stays]_loginsVars
  BY <1>1, LoginsStayRight, PTL DEF LoginsSpec
<1> QED
  BY <1>2 DEF AnswersStay, Stays
=============================================================================
