------------------------------ MODULE Sessions ------------------------------
(***************************************************************************)
(* Who a request is from: one account's row and devices in the database,   *)
(* and the server's memory of them (Store::session_user).  A request finds *)
(* the account in memory for SESSION_MEMORY, or reads it: the user and the *)
(* logged-in devices by a statement each, put into memory only if nothing  *)
(* was forgotten since.  A write of the account is one transaction; its    *)
(* handler forgets the memory afterwards, in a step of its own, and never  *)
(* if it is dropped between the two (the client went away, the request     *)
(* timed out).                                                             *)
(*                                                                         *)
(* `past` is the account after each write; a number into it stands for     *)
(* what a request read.  A security stamp is the number of the write that  *)
(* drew it.  The refresh tokens themselves, and what ends by its own date  *)
(* (access tokens, API keys), are left out.                                *)
(***************************************************************************)
EXTENDS Integers, Sequences

CONSTANTS
    Devices,          \* the device ids of the account's clients
    Callers,         \* requests in flight at once
    SESSION_MEMORY,   \* how long memory answers, in ticks
    MaxWrites,        \* bound: writes of the account, its creation included
    MaxTime           \* bound: the clock

ASSUME MemoryAssumption == SESSION_MEMORY \in Nat \ {0}
ASSUME SessionBounds == MaxWrites \in Nat /\ MaxTime \in Nat

VARIABLES
    past,       \* the account after every write so far, and when it was made
    backup,     \* the write a backup was taken after, 0 for none
    restoring,  \* restore_online has put the pages back, not ended the sessions yet
    memory,     \* sessions.by_user[id]
    forgotten,  \* sessions.forgotten
    owing,      \* writes whose handler has not forgotten the memory yet
    answered,   \* the newest write whose handler has (for the properties)
    caller,    \* each request, as far as session_user is with it
    login,      \* the stamp a login of the device was checked against, 0 for none
    now         \* the clock, in ticks

memoryVars == <<memory, forgotten, answered>>
vars == <<past, backup, restoring, memory, forgotten, owing, answered, caller, login, now>>

Account ==
    [stamp : Nat, disabled : BOOLEAN, gone : BOOLEAN,
     logged : [Devices -> Nat],    \* the stamp its login was checked against, 0: no refresh_hash
     at : Nat]                     \* when the write was made (for the properties)

Entry == [user : Nat, devices : Nat, since : Nat]
Nothing == [user |-> 0, devices |-> 0, since |-> 0]

Request ==
    [at : {"idle", "reading", "user", "loaded", "judged"},
     from : Nat,       \* `answered` when it began (for the properties)
     seen : Nat,       \* `forgotten` when it began
     user : Nat, devices : Nat]

Idle == [at |-> "idle", from |-> 0, seen |-> 0, user |-> 0, devices |-> 0]

writes == Len(past)
account == past[writes]

TypeOK ==
    /\ past \in Seq(Account) /\ past # <<>>
    /\ backup \in 0..writes
    /\ restoring \in BOOLEAN
    /\ memory \in Entry
    /\ forgotten \in Nat
    /\ owing \subseteq 1..writes
    /\ answered \in 0..writes
    /\ caller \in [Callers -> Request]
    /\ login \in [Devices -> Nat]
    /\ now \in Nat

-----------------------------------------------------------------------------
(* The writes.  A handler that made one owes it to forget the memory.      *)

LoggedOut(a, devices) == [a EXCEPT !.logged = [d \in Devices |->
                                IF d \in devices THEN 0 ELSE a.logged[d]]]

(* A new stamp ends every session: no device keeps its refresh token.      *)
Restamped(a) == [LoggedOut(a, Devices) EXCEPT !.stamp = writes + 1]

Put(new) ==
    /\ writes < MaxWrites
    /\ past' = Append(past, [new EXCEPT !.at = now])
    /\ UNCHANGED <<memoryVars, caller, now>>

Write(new) ==
    /\ Put(new)
    /\ owing' = owing \cup {writes + 1}
    /\ UNCHANGED backup

OfAccount(new) ==
    /\ ~account.gone
    /\ Write(new)
    /\ UNCHANGED <<restoring, login>>

NewStamp == OfAccount(Restamped(account))          \* password, KDF, address, keys, "log out"

Disable == OfAccount([Restamped(account) EXCEPT !.disabled = TRUE])

Enable == OfAccount([account EXCEPT !.disabled = FALSE])

LogOut(devices) == OfAccount(LoggedOut(account, devices))

Touch == OfAccount(account)      \* the vault, the profile, a refresh token replaced

DeleteUser == OfAccount([LoggedOut(account, Devices) EXCEPT !.gone = TRUE])

(* complete_submission moves the owner's revision on and forgets nothing.  *)
SubmissionCompleted ==
    /\ ~account.gone
    /\ Put(account)
    /\ UNCHANGED <<backup, restoring, owing, login>>

(* A login: the user read and the password checked against it, then, after *)
(* the second step and what else is awaited, the device given its token.   *)
CheckLogin(d) ==
    /\ ~account.gone /\ ~account.disabled
    /\ login[d] = 0
    /\ login' = [login EXCEPT ![d] = account.stamp]
    /\ UNCHANGED <<past, backup, restoring, memoryVars, owing, caller, now>>

LogInDevice(d) ==
    /\ login[d] # 0 /\ ~account.gone
    /\ Write([account EXCEPT !.logged[d] = login[d]])
    /\ login' = [login EXCEPT ![d] = 0]
    /\ UNCHANGED restoring

LoginFails(d) ==
    /\ login[d] # 0
    /\ login' = [login EXCEPT ![d] = 0]
    /\ UNCHANGED <<past, backup, restoring, memoryVars, owing, caller, now>>

(* A backup put back under the running server: the pages first, the        *)
(* sessions ended by a transaction of its own.                             *)
TakeBackup ==
    /\ backup = 0
    /\ backup' = writes
    /\ UNCHANGED <<past, restoring, memoryVars, owing, caller, login, now>>

RestorePages ==
    /\ backup # 0 /\ ~restoring
    /\ Put(past[backup])
    /\ restoring' = TRUE
    /\ UNCHANGED <<backup, owing, login>>

EndSessions ==
    /\ restoring
    /\ Write(Restamped(account))
    /\ restoring' = FALSE
    /\ UNCHANGED login

-----------------------------------------------------------------------------
(* The handler after its write.                                            *)

(* Fault: forgotten without counting.                                      *)
ForgetUncounted(w) ==
    /\ w \in owing
    /\ owing' = owing \ {w}
    /\ memory' = Nothing
    /\ answered' = IF w > answered THEN w ELSE answered
    /\ UNCHANGED <<past, backup, restoring, forgotten, caller, login, now>>

Forget(w) ==           \* forget_session_of; sweep and restore_online clear everybody's
    /\ w \in owing
    /\ owing' = owing \ {w}
    /\ memory' = Nothing
    /\ forgotten' = forgotten + 1
    /\ answered' = IF w > answered THEN w ELSE answered
    /\ UNCHANGED <<past, backup, restoring, caller, login, now>>

CutOff(w) ==           \* dropped before it could forget
    /\ w \in owing
    /\ owing' = owing \ {w}
    /\ UNCHANGED <<past, backup, restoring, memoryVars, caller, login, now>>

-----------------------------------------------------------------------------
(* A request (session_user, then from_any_token).                          *)

Steps(r, next) ==
    /\ caller' = [caller EXCEPT ![r] = next]
    /\ UNCHANGED <<past, backup, restoring, forgotten, owing, answered, login, now>>

(* Fault: an entry answers however old it is.                              *)
KnownForever == memory # Nothing

Known == memory # Nothing /\ now - memory.since < SESSION_MEMORY

Remembered(r) ==
    /\ caller[r].at = "idle" /\ Known
    /\ Steps(r, [at |-> "judged", from |-> answered, seen |-> forgotten,
                user |-> memory.user, devices |-> memory.devices])
    /\ UNCHANGED memory

LookUp(r) ==
    /\ caller[r].at = "idle" /\ ~Known
    /\ Steps(r, [at |-> "reading", from |-> answered, seen |-> forgotten,
                user |-> 0, devices |-> 0])
    /\ UNCHANGED memory

ReadUser(r) ==         \* nothing for an account that is gone, and nothing remembered
    /\ caller[r].at = "reading"
    /\ Steps(r, [caller[r] EXCEPT !.at = IF account.gone THEN "judged" ELSE "user",
                                  !.user = writes, !.devices = writes])
    /\ UNCHANGED memory

ReadDevices(r) ==
    /\ caller[r].at = "user"
    /\ Steps(r, [caller[r] EXCEPT !.at = "loaded", !.devices = writes])
    /\ UNCHANGED memory

(* Fault: what was read is remembered though it was forgotten meanwhile.   *)
StoreUnchecked(r) ==
    /\ caller[r].at = "loaded"
    /\ memory' = [user |-> caller[r].user, devices |-> caller[r].devices, since |-> now]
    /\ Steps(r, [caller[r] EXCEPT !.at = "judged"])

Store(r) ==
    /\ caller[r].at = "loaded"
    /\ memory' = IF caller[r].seen = forgotten
                 THEN [user |-> caller[r].user, devices |-> caller[r].devices, since |-> now]
                 ELSE memory
    /\ Steps(r, [caller[r] EXCEPT !.at = "judged"])

Leave(r) ==            \* answered, or cut off at an await
    /\ caller[r].at # "idle"
    /\ Steps(r, Idle)
    /\ UNCHANGED memory

(* Time passes between requests: a lookup takes far less than a tick.      *)
Tick ==
    /\ now < MaxTime
    /\ \A r \in Callers : caller[r].at \in {"idle", "reading"}
    /\ now' = now + 1
    /\ UNCHANGED <<past, backup, restoring, memoryVars, owing, caller, login>>

Crash ==               \* and started again
    /\ memory' = Nothing /\ forgotten' = 0
    /\ owing' = {} /\ restoring' = FALSE
    /\ caller' = [r \in Callers |-> Idle] /\ login' = [d \in Devices |-> 0]
    /\ UNCHANGED <<past, backup, answered, now>>

-----------------------------------------------------------------------------
Init ==
    /\ past = << [stamp |-> 1, disabled |-> FALSE, gone |-> FALSE,
                  logged |-> [d \in Devices |-> 0], at |-> 0] >>
    /\ backup = 0 /\ restoring = FALSE
    /\ memory = Nothing /\ forgotten = 0 /\ owing = {} /\ answered = 0
    /\ caller = [r \in Callers |-> Idle] /\ login = [d \in Devices |-> 0]
    /\ now = 0

AccountWrite ==
    \/ NewStamp \/ Disable \/ Enable \/ Touch \/ DeleteUser \/ SubmissionCompleted
    \/ \E devices \in SUBSET Devices \ {{}} : LogOut(devices)
    \/ \E d \in Devices : CheckLogin(d) \/ LogInDevice(d) \/ LoginFails(d)

Asked(r) ==
    \/ Remembered(r) \/ LookUp(r) \/ ReadUser(r) \/ ReadDevices(r) \/ Store(r) \/ Leave(r)

Next ==
    \/ AccountWrite
    \/ TakeBackup \/ RestorePages \/ EndSessions
    \/ \E w \in owing : Forget(w) \/ CutOff(w)
    \/ \E r \in Callers : Asked(r)
    \/ Tick \/ Crash

Spec == Init /\ [][Next]_vars

-----------------------------------------------------------------------------
(* Properties.                                                             *)

Tokens == [stamp : 1..writes, device : Devices]

(* from_any_token: what the token says against what was read of the user   *)
(* after write v, and of the devices after write w.                        *)
Accepts(v, w, token) ==
    /\ ~past[v].gone /\ ~past[v].disabled
    /\ past[v].stamp = token.stamp
    /\ past[w].logged[token.device] # 0

(* A request is judged by the account as it was at moments no older than   *)
(* the newest write that was answered before the request began: who has    *)
(* logged a device out, changed the password or logged in, and had the     *)
(* answer, is not judged by what was before.  The two statements of a      *)
(* lookup may see two moments.                                             *)
VerdictIsCurrent ==
    \A r \in Callers : caller[r].at = "judged" =>
        \E v \in 1..writes, w \in 1..writes :
            /\ caller[r].from <= v /\ v <= w
            /\ \A token \in Tokens :
                Accepts(caller[r].user, caller[r].devices, token) <=> Accepts(v, w, token)

(* Also when the write's handler was dropped before it could forget, and   *)
(* for the one write that never does: what a request is judged by was      *)
(* replaced less than SESSION_MEMORY ago.                                  *)
StaleForSeconds ==
    \A r \in Callers : caller[r].at = "judged" =>
        \A v \in {caller[r].user, caller[r].devices} :
            v < writes => now - past[v + 1].at < SESSION_MEMORY

(* What the comment in update_user says and a login on its way does not    *)
(* keep: "A new stamp ends every session: no device stays logged in with   *)
(* the old one."                                                           *)
NoDeviceWithOldStamp ==
    \A d \in Devices : account.logged[d] \in {0, account.stamp}

-----------------------------------------------------------------------------
(* The inductive invariant behind VerdictIsCurrent.                        *)

(* What a request has read so far, and whether it may still be remembered. *)
LookupCurrent(q) ==
    /\ q.at # "idle" => q.from <= answered /\ q.seen <= forgotten
    /\ q.at \in {"user", "loaded", "judged"} =>
        q.from <= q.user /\ q.user <= q.devices /\ 1 <= q.user /\ q.devices <= writes
    /\ q.at \in {"user", "loaded"} /\ q.seen = forgotten => answered <= q.user

MemoryCurrent ==
    memory # Nothing =>
        /\ 1 <= memory.user /\ answered <= memory.user
        /\ memory.user <= memory.devices /\ memory.devices <= writes

IInv ==
    /\ TypeOK
    /\ \A r \in Callers : LookupCurrent(caller[r])
    /\ MemoryCurrent

(* Behind StaleForSeconds: whatever replaced what memory holds was written *)
(* no earlier than memory got it, and what replaced what a lookup on its   *)
(* way has read was written just now.                                      *)
NotReplacedBefore(v, time) == v < writes => past[v + 1].at >= time

Ages ==
    /\ \A v \in 1..writes : past[v].at <= now
    /\ memory # Nothing =>
        /\ memory.since <= now
        /\ NotReplacedBefore(memory.user, memory.since)
        /\ NotReplacedBefore(memory.devices, memory.since)
    /\ \A r \in Callers : caller[r].at \in {"user", "loaded"} =>
        NotReplacedBefore(caller[r].user, now) /\ NotReplacedBefore(caller[r].devices, now)

TimedInv == IInv /\ Ages /\ StaleForSeconds
=============================================================================
