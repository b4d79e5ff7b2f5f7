--------------------------- MODULE SessionsProofs ---------------------------
(***************************************************************************)
(* Theorems about what the server keeps of others, for any devices,        *)
(* requests, lists, names and bounds: what a request is judged by is never *)
(* older than the newest write answered before it began, nor than          *)
(* SESSION_MEMORY (Sessions); what the server holds of a list is of the    *)
(* edition it says, and a refresh leaves no half of one (Mirrors); a place *)
(* of icons keeps its bounds and its book (Icons); what the server asks    *)
(* XposedOrNot and the breach database keeps their pace and the budgets    *)
(* (Breaches).                                                             *)
(***************************************************************************)
EXTENDS Sessions, Breaches, Mirrors, Icons, FiniteSetTheorems, TLAPS

(***************************************************************************)
(* Sessions                                                                *)
(***************************************************************************)
(* A write adds one state of the account and keeps the ones before.        *)
LEMMA PutKeeps ==
    ASSUME TypeOK, NEW new \in Account, Put(new)
    PROVE  /\ past' \in Seq(Account) /\ past' # <<>>
           /\ writes \in Nat \ {0}
           /\ writes' = writes + 1
           /\ \A v \in 1..writes : past'[v] = past[v]
           /\ past'[writes + 1].at = now
<1>1. past \in Seq(Account) /\ past # <<>> /\ now \in Nat
    BY DEF TypeOK
<1>2. DEFINE a == [new EXCEPT !.at = now]
<1>3. a \in Account /\ a.at = now
    BY <1>1 DEF Account
<1>4. past' = Append(past, a)
    BY DEF Put
<1>5. Len(past) \in Nat /\ Len(past) # 0
    BY <1>1
<1>6. past' \in Seq(Account) /\ past' # <<>> /\ Len(past') = Len(past) + 1
    BY <1>1, <1>3, <1>4, <1>5
<1>7. past'[Len(past) + 1] = a /\ \A v \in 1..Len(past) : past'[v] = past[v]
    BY <1>1, <1>3, <1>4, <1>5
<1>8. QED
    BY <1>3, <1>5, <1>6, <1>7 DEF writes

(* The account now, and what the writes make of it, are accounts.          *)
LEMMA AccountTypes ==
    ASSUME TypeOK
    PROVE  /\ writes \in Nat \ {0}
           /\ account \in Account
           /\ Restamped(account) \in Account
           /\ \A devices \in SUBSET Devices : LoggedOut(account, devices) \in Account
           /\ backup # 0 => past[backup] \in Account
           /\ \A v \in 1..writes : past[v].at \in Nat
<1>1. past \in Seq(Account) /\ past # <<>>
    BY DEF TypeOK
<1>2. Len(past) \in Nat /\ Len(past) # 0
    BY <1>1
<1>3. account \in Account
    BY <1>1, <1>2 DEF account, writes
<1>4. \A devices \in SUBSET Devices : LoggedOut(account, devices) \in Account
    BY <1>3 DEF LoggedOut, Account
<1>5. Restamped(account) \in Account
    <2>1. LoggedOut(account, Devices) \in Account
        BY <1>4
    <2>2. QED
        BY <2>1, <1>2 DEF Restamped, Account, writes
<1>6. backup # 0 => past[backup] \in Account
    BY <1>1, <1>2 DEF TypeOK, writes
<1>7. \A v \in 1..writes : past[v].at \in Nat
    <2>1. \A v \in 1..Len(past) : past[v] \in Account
        BY <1>1
    <2>2. QED
        BY <2>1 DEF Account, writes
<1>8. QED
    BY <1>2, <1>3, <1>4, <1>5, <1>6, <1>7 DEF writes

(* A write of the account: what was read stays what it was, and no handler *)
(* has answered.                                                           *)
LEMMA PutStep ==
    ASSUME IInv, NEW new \in Account, Put(new),
           backup' = backup, restoring' \in BOOLEAN, login' \in [Devices -> Nat],
           owing' \subseteq owing \cup {writes + 1}
    PROVE  IInv'
<1>1. /\ past' \in Seq(Account) /\ past' # <<>>
      /\ writes \in Nat \ {0} /\ writes' = writes + 1
    BY PutKeeps DEF IInv
<1>2. UNCHANGED <<memory, forgotten, answered, caller, now>>
    BY DEF Put, memoryVars
<1>3. TypeOK'
    <2>1. backup' \in 0..writes' /\ owing' \subseteq 1..writes' /\ answered' \in 0..writes'
        BY <1>1, <1>2 DEF IInv, TypeOK
    <2>2. QED
        BY <1>1, <1>2, <2>1 DEF IInv, TypeOK
<1>4. ASSUME NEW r \in Callers
      PROVE  LookupCurrent(caller[r])'
    <2>1. LookupCurrent(caller[r]) /\ caller[r] \in Request
        BY DEF IInv, TypeOK
    <2>2. QED
        BY <1>1, <1>2, <2>1 DEF LookupCurrent, Request
<1>5. MemoryCurrent'
    <2>1. MemoryCurrent /\ memory \in Entry
        BY DEF IInv, TypeOK
    <2>2. QED
        BY <1>1, <1>2, <2>1 DEF MemoryCurrent, Entry
<1>6. QED
    BY <1>3, <1>4, <1>5 DEF IInv

(* Forgetting: memory is empty, and no lookup of before is remembered.     *)
LEMMA ForgetStep ==
    ASSUME IInv, NEW w \in owing, Forget(w)
    PROVE  IInv'
<1>1. /\ w \in 1..writes /\ writes' = writes /\ writes \in Nat \ {0}
      /\ memory' = Nothing /\ forgotten' = forgotten + 1
      /\ answered' = IF w > answered THEN w ELSE answered
      /\ UNCHANGED <<past, backup, restoring, caller, login, now>>
      /\ owing' \subseteq 1..writes
    BY AccountTypes DEF IInv, TypeOK, Forget, writes
<1>2. forgotten \in Nat /\ answered \in 0..writes /\ answered' \in 0..writes /\ answered <= answered'
    BY <1>1 DEF IInv, TypeOK
<1>3. TypeOK'
    BY <1>1, <1>2 DEF IInv, TypeOK, Nothing, Entry
<1>4. ASSUME NEW r \in Callers
      PROVE  LookupCurrent(caller[r])'
    <2>1. LookupCurrent(caller[r]) /\ caller[r] \in Request
        BY DEF IInv, TypeOK
    <2>2. QED
        BY <1>1, <1>2, <2>1 DEF LookupCurrent, Request
<1>5. MemoryCurrent'
    BY <1>1 DEF MemoryCurrent
<1>6. QED
    BY <1>3, <1>4, <1>5 DEF IInv

(* One request's own step: only that request and the memory change.        *)
LEMMA AskStep ==
    ASSUME IInv, NEW r \in Callers, Asked(r)
    PROVE  IInv'
<1>1. /\ writes' = writes /\ writes \in Nat \ {0}
      /\ UNCHANGED <<past, backup, restoring, forgotten, owing, answered, login, now>>
    BY AccountTypes DEF IInv, Asked, Remembered, LookUp, ReadUser, ReadDevices, Store, Leave, Steps, writes
<1>2. /\ caller \in [Callers -> Request] /\ memory \in Entry /\ forgotten \in Nat
      /\ answered \in 0..writes /\ now \in Nat
    BY DEF IInv, TypeOK
<1>3. LookupCurrent(caller[r]) /\ caller[r] \in Request
    BY <1>2 DEF IInv
<1>4. SUFFICES ASSUME NEW q \in Request, caller' = [caller EXCEPT ![r] = q],
                      LookupCurrent(q), MemoryCurrent', memory' \in Entry
               PROVE  IInv'
    <2>1. CASE Remembered(r)
        <3>1. DEFINE q == [at |-> "judged", from |-> answered, seen |-> forgotten,
                           user |-> memory.user, devices |-> memory.devices]
        <3>2. q \in Request /\ caller' = [caller EXCEPT ![r] = q] /\ memory' = memory
            BY <2>1, <1>1, <1>2 DEF Remembered, Steps, Request, Entry
        <3>3. LookupCurrent(q)
            BY <2>1, <1>1, <1>2 DEF IInv, MemoryCurrent, Remembered, Known, LookupCurrent, Entry
        <3>4. MemoryCurrent'
            BY <1>1, <3>2 DEF IInv, MemoryCurrent
        <3>5. QED
            BY <1>2, <1>4, <3>2, <3>3, <3>4
    <2>2. CASE LookUp(r)
        <3>1. DEFINE q == [at |-> "reading", from |-> answered, seen |-> forgotten,
                           user |-> 0, devices |-> 0]
        <3>2. q \in Request /\ caller' = [caller EXCEPT ![r] = q] /\ memory' = memory
            BY <2>2, <1>1, <1>2 DEF LookUp, Steps, Request
        <3>3. LookupCurrent(q)
            BY <1>1, <1>2 DEF LookupCurrent
        <3>4. MemoryCurrent'
            BY <1>1, <3>2 DEF IInv, MemoryCurrent
        <3>5. QED
            BY <1>2, <1>4, <3>2, <3>3, <3>4
    <2>3. CASE ReadUser(r)
        <3>1. DEFINE q == [caller[r] EXCEPT !.at = IF account.gone THEN "judged" ELSE "user",
                                             !.user = writes, !.devices = writes]
        <3>2. q \in Request /\ caller' = [caller EXCEPT ![r] = q] /\ memory' = memory
            BY <2>3, <1>1, <1>2, <1>3 DEF ReadUser, Steps, Request
        <3>3. LookupCurrent(q)
            BY <2>3, <1>1, <1>2, <1>3 DEF ReadUser, LookupCurrent, Request
        <3>4. MemoryCurrent'
            BY <1>1, <3>2 DEF IInv, MemoryCurrent
        <3>5. QED
            BY <1>2, <1>4, <3>2, <3>3, <3>4
    <2>4. CASE ReadDevices(r)
        <3>1. DEFINE q == [caller[r] EXCEPT !.at = "loaded", !.devices = writes]
        <3>2. q \in Request /\ caller' = [caller EXCEPT ![r] = q] /\ memory' = memory
            BY <2>4, <1>1, <1>2, <1>3 DEF ReadDevices, Steps, Request
        <3>3. LookupCurrent(q)
            BY <2>4, <1>1, <1>2, <1>3 DEF ReadDevices, LookupCurrent, Request
        <3>4. MemoryCurrent'
            BY <1>1, <3>2 DEF IInv, MemoryCurrent
        <3>5. QED
            BY <1>2, <1>4, <3>2, <3>3, <3>4
    <2>5. CASE Store(r)
        <3>1. DEFINE q == [caller[r] EXCEPT !.at = "judged"]
        <3>2. q \in Request /\ caller' = [caller EXCEPT ![r] = q]
            BY <2>5, <1>1, <1>2, <1>3 DEF Store, Steps, Request
        <3>3. LookupCurrent(q)
            BY <2>5, <1>1, <1>2, <1>3 DEF Store, LookupCurrent, Request
        <3>4. MemoryCurrent' /\ memory' \in Entry
            BY <2>5, <1>1, <1>2, <1>3 DEF IInv, MemoryCurrent, Store, LookupCurrent, Request, Entry
        <3>5. QED
            BY <1>4, <3>2, <3>3, <3>4
    <2>6. CASE Leave(r)
        <3>1. Idle \in Request /\ LookupCurrent(Idle)
            BY DEF Idle, Request, LookupCurrent
        <3>2. caller' = [caller EXCEPT ![r] = Idle] /\ memory' = memory
            BY <2>6 DEF Leave, Steps
        <3>3. MemoryCurrent'
            BY <1>1, <3>2 DEF IInv, MemoryCurrent
        <3>4. QED
            BY <1>2, <1>4, <3>1, <3>2, <3>3
    <2>7. QED
        BY <2>1, <2>2, <2>3, <2>4, <2>5, <2>6 DEF Asked
<1>5. TypeOK'
    BY <1>1, <1>2, <1>4 DEF IInv, TypeOK
<1>6. ASSUME NEW p \in Callers
      PROVE  LookupCurrent(caller[p])'
    <2>1. caller'[p] = (IF p = r THEN q ELSE caller[p]) /\ LookupCurrent(caller[p])
        BY <1>2, <1>4 DEF IInv
    <2>2. QED
        BY <1>1, <1>4, <2>1 DEF LookupCurrent
<1>7. QED
    BY <1>4, <1>5, <1>6 DEF IInv

(* Every other step.                                                       *)
LEMMA OtherStep ==
    ASSUME IInv,
           \/ \E d \in Devices : CheckLogin(d) \/ LoginFails(d)
           \/ TakeBackup \/ \E w \in owing : CutOff(w)
           \/ Tick \/ UNCHANGED vars
    PROVE  IInv'
<1>1. /\ writes \in Nat \ {0} /\ account \in Account
      /\ TypeOK /\ MemoryCurrent
    BY AccountTypes DEF IInv
<1>2. UNCHANGED <<past, restoring, memory, forgotten, answered, caller>>
    BY DEF CheckLogin, LoginFails, TakeBackup, CutOff, Tick, memoryVars, vars
<1>3. backup' \in 0..writes /\ owing' \subseteq 1..writes
    <2>1. backup \in 0..writes /\ owing \subseteq 1..writes
        BY <1>1 DEF TypeOK
    <2>2. (backup' = backup \/ backup' = writes) /\ owing' \subseteq owing
        BY DEF CheckLogin, LoginFails, TakeBackup, CutOff, Tick, vars
    <2>3. QED
        BY <1>1, <2>1, <2>2
<1>4. login' \in [Devices -> Nat] /\ now' \in Nat
    <2>1. login \in [Devices -> Nat] /\ now \in Nat /\ account.stamp \in Nat
        BY <1>1 DEF TypeOK, Account
    <2>2. QED
        BY <2>1 DEF CheckLogin, LoginFails, TakeBackup, CutOff, Tick, memoryVars, vars
<1>5. writes' = writes
    BY <1>2 DEF writes
<1>6. TypeOK'
    BY <1>1, <1>2, <1>3, <1>4, <1>5 DEF TypeOK
<1>7. \A r \in Callers : LookupCurrent(caller[r])'
    BY <1>2, <1>5 DEF IInv, LookupCurrent
<1>8. MemoryCurrent'
    BY <1>1, <1>2, <1>5 DEF MemoryCurrent
<1>9. QED
    BY <1>6, <1>7, <1>8 DEF IInv

(* A server started again knows nothing of before.                         *)
LEMMA CrashStep ==
    ASSUME IInv, Crash
    PROVE  IInv'
<1>1. /\ UNCHANGED <<past, backup, answered, now>> /\ writes' = writes
      /\ memory' = Nothing /\ forgotten' = 0 /\ owing' = {} /\ restoring' = FALSE
      /\ caller' = [r \in Callers |-> Idle] /\ login' = [d \in Devices |-> 0]
    BY DEF Crash, writes
<1>2. Idle \in Request /\ Nothing \in Entry
    BY DEF Idle, Request, Nothing, Entry
<1>3. TypeOK'
    BY <1>1, <1>2 DEF IInv, TypeOK
<1>4. \A r \in Callers : LookupCurrent(caller[r])'
    BY <1>1 DEF Idle, LookupCurrent
<1>5. MemoryCurrent'
    BY <1>1 DEF MemoryCurrent
<1>6. QED
    BY <1>3, <1>4, <1>5 DEF IInv

(* The writes, each a Put of an account.                                   *)
LEMMA WriteStep ==
    ASSUME IInv,
           \/ NewStamp \/ Disable \/ Enable \/ Touch \/ DeleteUser \/ SubmissionCompleted
           \/ \E devices \in SUBSET Devices \ {{}} : LogOut(devices)
           \/ \E d \in Devices : LogInDevice(d)
           \/ RestorePages \/ EndSessions
    PROVE  IInv'
<1>1. /\ TypeOK /\ writes \in Nat \ {0} /\ account \in Account
      /\ Restamped(account) \in Account
      /\ \A devices \in SUBSET Devices : LoggedOut(account, devices) \in Account
      /\ backup # 0 => past[backup] \in Account
    BY AccountTypes DEF IInv
<1>2. /\ restoring \in BOOLEAN /\ login \in [Devices -> Nat]
    BY <1>1 DEF TypeOK
<1>3. ASSUME NEW new \in Account, OfAccount(new)
      PROVE  IInv'
    <2>1. Put(new) /\ UNCHANGED <<backup, restoring, login>> /\ owing' = owing \cup {writes + 1}
        BY <1>3 DEF OfAccount, Write
    <2>2. QED
        BY <1>2, <2>1, PutStep
<1>4. CASE NewStamp
    BY <1>1, <1>3, <1>4 DEF NewStamp
<1>5. CASE Disable
    <2>1. [Restamped(account) EXCEPT !.disabled = TRUE] \in Account
        BY <1>1 DEF Account
    <2>2. QED
        BY <1>3, <1>5, <2>1 DEF Disable
<1>6. CASE Enable
    <2>1. [account EXCEPT !.disabled = FALSE] \in Account
        BY <1>1 DEF Account
    <2>2. QED
        BY <1>3, <1>6, <2>1 DEF Enable
<1>7. CASE Touch
    BY <1>1, <1>3, <1>7 DEF Touch
<1>8. CASE DeleteUser
    <2>1. LoggedOut(account, Devices) \in Account
        BY <1>1
    <2>2. [LoggedOut(account, Devices) EXCEPT !.gone = TRUE] \in Account
        BY <2>1 DEF Account
    <2>3. QED
        BY <1>3, <1>8, <2>2 DEF DeleteUser
<1>9. CASE SubmissionCompleted
    <2>1. Put(account) /\ UNCHANGED <<backup, restoring, owing, login>>
        BY <1>9 DEF SubmissionCompleted
    <2>2. QED
        BY <1>1, <1>2, <2>1, PutStep
<1>10. CASE \E devices \in SUBSET Devices \ {{}} : LogOut(devices)
    BY <1>1, <1>3, <1>10 DEF LogOut
<1>11. CASE \E d \in Devices : LogInDevice(d)
    <2>1. PICK d \in Devices : LogInDevice(d)
        BY <1>11
    <2>2. [account EXCEPT !.logged[d] = login[d]] \in Account
        BY <1>1, <1>2 DEF Account
    <2>3. /\ Put([account EXCEPT !.logged[d] = login[d]])
          /\ UNCHANGED <<backup, restoring>> /\ owing' = owing \cup {writes + 1}
          /\ login' = [login EXCEPT ![d] = 0]
        BY <2>1 DEF LogInDevice, Write
    <2>4. login' \in [Devices -> Nat]
        BY <1>2, <2>3
    <2>5. QED
        BY <1>2, <2>2, <2>3, <2>4, PutStep
<1>12. CASE RestorePages
    <2>1. Put(past[backup]) /\ past[backup] \in Account
          /\ restoring' = TRUE /\ UNCHANGED <<backup, owing, login>>
        BY <1>1, <1>12 DEF RestorePages
    <2>2. QED
        BY <1>2, <2>1, PutStep
<1>13. CASE EndSessions
    <2>1. /\ Put(Restamped(account)) /\ restoring' = FALSE
          /\ UNCHANGED <<backup, login>> /\ owing' = owing \cup {writes + 1}
        BY <1>13 DEF EndSessions, Write
    <2>2. QED
        BY <1>1, <1>2, <2>1, PutStep
<1>14. QED
    BY <1>4, <1>5, <1>6, <1>7, <1>8, <1>9, <1>10, <1>11, <1>12, <1>13

(* What memory and lookups hold is never older than what was answered.     *)
THEOREM SessionsInductive == Spec => []IInv
<1>1. Init => IInv
    <2>1. SUFFICES ASSUME Init PROVE IInv
        OBVIOUS
    <2>2. DEFINE a == [stamp |-> 1, disabled |-> FALSE, gone |-> FALSE,
                       logged |-> [d \in Devices |-> 0], at |-> 0]
    <2>3. a \in Account /\ past = <<a>>
        BY <2>1 DEF Init, Account
    <2> HIDE DEF a
    <2>4. past \in Seq(Account) /\ past # <<>> /\ writes = 1
        BY <2>3 DEF writes
    <2>5. Idle \in Request /\ Nothing \in Entry
        BY DEF Idle, Request, Nothing, Entry
    <2>6. TypeOK
        <3>1. /\ backup = 0 /\ restoring = FALSE /\ memory = Nothing /\ forgotten = 0
              /\ owing = {} /\ answered = 0 /\ now = 0
              /\ caller \in [Callers -> Request] /\ login \in [Devices -> Nat]
            BY <2>1, <2>5 DEF Init
        <3>2. backup \in 0..writes /\ owing \subseteq 1..writes /\ answered \in 0..writes
            BY <2>4, <3>1
        <3>3. memory \in Entry
            BY <2>5, <3>1
        <3>4. QED
            BY <2>4, <3>1, <3>2, <3>3 DEF TypeOK
    <2>7. QED
        BY <2>1, <2>6 DEF Init, IInv, LookupCurrent, MemoryCurrent, Idle
<1>2. IInv /\ [Next]_vars => IInv'
    <2>1. SUFFICES ASSUME IInv, [Next]_vars PROVE IInv'
        OBVIOUS
    <2>2. CASE \/ NewStamp \/ Disable \/ Enable \/ Touch \/ DeleteUser \/ SubmissionCompleted
               \/ \E devices \in SUBSET Devices \ {{}} : LogOut(devices)
               \/ \E d \in Devices : LogInDevice(d)
               \/ RestorePages \/ EndSessions
        BY <2>1, <2>2, WriteStep
    <2>3. CASE \E w \in owing : Forget(w)
        BY <2>1, <2>3, ForgetStep
    <2>4. CASE \E r \in Callers : Asked(r)
        BY <2>1, <2>4, AskStep
    <2>5. CASE Crash
        BY <2>1, <2>5, CrashStep
    <2>6. CASE \/ \E d \in Devices : CheckLogin(d) \/ LoginFails(d)
               \/ TakeBackup \/ \E w \in owing : CutOff(w)
               \/ Tick \/ UNCHANGED vars
        BY <2>1, <2>6, OtherStep
    <2>7. QED
        BY <2>1, <2>2, <2>3, <2>4, <2>5, <2>6 DEF Next, AccountWrite
<1>3. QED
    BY <1>1, <1>2, PTL DEF Spec

(* A request is never judged by what was before the newest write that was  *)
(* answered before it began: logging out, a new password, a login count    *)
(* for every request that comes after their answer.                        *)
THEOREM VerdictsCurrent == Spec => []VerdictIsCurrent
<1>1. IInv => VerdictIsCurrent
    <2>1. SUFFICES ASSUME IInv, NEW r \in Callers, caller[r].at = "judged"
                   PROVE  \E v \in 1..writes, w \in 1..writes :
                            /\ caller[r].from <= v /\ v <= w
                            /\ \A token \in Tokens :
                                Accepts(caller[r].user, caller[r].devices, token)
                                    <=> Accepts(v, w, token)
        BY DEF VerdictIsCurrent
    <2>2. LookupCurrent(caller[r]) /\ caller[r] \in Request /\ writes \in Nat \ {0}
        BY <2>1, AccountTypes DEF IInv, TypeOK
    <2>3. /\ caller[r].user \in 1..writes /\ caller[r].devices \in 1..writes
          /\ caller[r].from <= caller[r].user /\ caller[r].user <= caller[r].devices
        BY <2>1, <2>2 DEF LookupCurrent, Request
    <2>4. QED
        BY <2>3
<1>2. QED
    BY <1>1, SessionsInductive, PTL

-----------------------------------------------------------------------------
(* The clock.                                                              *)

(* A write replaces what was newest now, and nothing that was older.       *)
LEMMA PutAges ==
    ASSUME TimedInv, NEW new \in Account, Put(new)
    PROVE  Ages' /\ StaleForSeconds'
<1>1. /\ writes \in Nat \ {0} /\ writes' = writes + 1
      /\ \A v \in 1..writes : past'[v] = past[v]
      /\ past'[writes + 1].at = now
      /\ past \in Seq(Account)
    BY PutKeeps DEF TimedInv, IInv, TypeOK
<1>2. UNCHANGED <<memory, caller, now>>
    BY DEF Put, memoryVars
<1>3. /\ now \in Nat /\ memory \in Entry /\ caller \in [Callers -> Request]
      /\ SESSION_MEMORY \in Nat \ {0} /\ Ages /\ StaleForSeconds
      /\ \A v \in 1..writes : past[v].at \in Nat
    BY AccountTypes, MemoryAssumption DEF TimedInv, IInv, TypeOK
<1>4. ASSUME NEW v \in Nat, NEW time \in Nat, time <= now, NotReplacedBefore(v, time), v < writes'
      PROVE  past'[v + 1].at >= time
    <2>1. CASE v < writes
        <3>1. v + 1 \in 1..writes
            BY <1>1, <2>1
        <3>2. past'[v + 1].at = past[v + 1].at
            BY <1>1, <3>1
        <3>3. QED
            BY <1>4, <2>1, <3>2 DEF NotReplacedBefore
    <2>2. CASE v = writes
        BY <1>1, <1>3, <1>4, <2>2
    <2>3. QED
        BY <1>1, <1>4, <2>1, <2>2
<1>5. Ages'
    <2>1. \A v \in 1..writes' : past'[v].at <= now'
        BY <1>1, <1>2, <1>3 DEF Ages
    <2>2. ASSUME memory' # Nothing
          PROVE  /\ memory.since <= now
                 /\ NotReplacedBefore(memory.user, memory.since)'
                 /\ NotReplacedBefore(memory.devices, memory.since)'
        <3>1. memory.since \in Nat /\ memory.user \in Nat /\ memory.devices \in Nat
            BY <1>3 DEF Entry
        <3>2. /\ memory.since <= now /\ NotReplacedBefore(memory.user, memory.since)
              /\ NotReplacedBefore(memory.devices, memory.since)
            BY <1>2, <1>3, <2>2 DEF Ages
        <3>3. /\ NotReplacedBefore(memory.user, memory.since)'
              /\ NotReplacedBefore(memory.devices, memory.since)'
            BY <1>2, <1>4, <3>1, <3>2 DEF NotReplacedBefore
        <3>4. QED
            BY <3>2, <3>3
    <2>3. ASSUME NEW r \in Callers, caller'[r].at \in {"user", "loaded"}
          PROVE  NotReplacedBefore(caller[r].user, now)'
                 /\ NotReplacedBefore(caller[r].devices, now)'
        <3>1. caller[r].user \in Nat /\ caller[r].devices \in Nat
            BY <1>3 DEF Request
        <3>2. NotReplacedBefore(caller[r].user, now) /\ NotReplacedBefore(caller[r].devices, now)
            BY <1>2, <1>3, <2>3 DEF Ages
        <3>3. QED
            BY <1>2, <1>3, <1>4, <3>1, <3>2 DEF NotReplacedBefore
    <2>4. QED
        BY <1>2, <2>1, <2>2, <2>3 DEF Ages
<1>6. StaleForSeconds'
    <2>1. SUFFICES ASSUME NEW r \in Callers, caller'[r].at = "judged",
                          NEW v \in {caller[r].user, caller[r].devices}, v < writes'
                   PROVE  now - past'[v + 1].at < SESSION_MEMORY
        BY <1>2 DEF StaleForSeconds
    <2>2. v \in Nat
        BY <1>3, <2>1 DEF Request
    <2>3. CASE v < writes
        <3>1. caller[r].at = "judged"
            BY <1>2, <2>1
        <3>2. now - past[v + 1].at < SESSION_MEMORY
            BY <1>3, <2>1, <2>3, <3>1 DEF StaleForSeconds
        <3>3. v + 1 \in 1..writes
            BY <1>1, <2>2, <2>3
        <3>4. past'[v + 1] = past[v + 1]
            BY <1>1, <3>3
        <3>5. QED
            BY <3>2, <3>4
    <2>4. CASE v = writes
        BY <1>1, <1>3, <2>4
    <2>5. QED
        BY <1>1, <2>1, <2>2, <2>3, <2>4
<1>7. QED
    BY <1>5, <1>6

(* What changes neither the account nor the clock: memory and requests     *)
(* that are what they were, or empty.                                      *)
LEMMA QuietAges ==
    ASSUME TimedInv, UNCHANGED <<past, now>>,
           memory' \in {memory, Nothing},
           caller' = caller \/ caller' = [r \in Callers |-> Idle]
    PROVE  Ages' /\ StaleForSeconds'
<1>1. writes' = writes
    BY DEF writes
<1>2. CASE caller' = caller
    BY <1>1, <1>2 DEF TimedInv, Ages, StaleForSeconds, NotReplacedBefore
<1>3. CASE caller' = [r \in Callers |-> Idle]
    <2>1. \A r \in Callers : caller'[r].at = "idle"
        BY <1>3 DEF Idle
    <2>2. QED
        BY <1>1, <2>1 DEF TimedInv, Ages, StaleForSeconds, NotReplacedBefore
<1>4. QED
    BY <1>2, <1>3

(* A request's own step.                                                   *)
LEMMA AskAges ==
    ASSUME TimedInv, NEW r \in Callers, Asked(r)
    PROVE  Ages' /\ StaleForSeconds'
<1>1. /\ UNCHANGED <<past, now>> /\ writes' = writes
    BY DEF Asked, Remembered, LookUp, ReadUser, ReadDevices, Store, Leave, Steps, writes
<1>2. /\ now \in Nat /\ memory \in Entry /\ caller \in [Callers -> Request]
      /\ SESSION_MEMORY \in Nat \ {0} /\ Ages /\ StaleForSeconds
      /\ writes \in Nat \ {0} /\ \A v \in 1..writes : past[v].at \in Nat
    <2>1. TypeOK
        BY DEF TimedInv, IInv
    <2>2. QED
        BY <2>1, AccountTypes, MemoryAssumption DEF TimedInv, TypeOK
<1>3. SUFFICES ASSUME NEW q \in Request, caller' = [caller EXCEPT ![r] = q],
                      memory' # memory => /\ memory'.since = now
                                          /\ NotReplacedBefore(memory'.user, now)
                                          /\ NotReplacedBefore(memory'.devices, now),
                      q.at \in {"user", "loaded"} =>
                        NotReplacedBefore(q.user, now) /\ NotReplacedBefore(q.devices, now),
                      q.at = "judged" => \A v \in {q.user, q.devices} :
                        v < writes => now - past[v + 1].at < SESSION_MEMORY
               PROVE  Ages' /\ StaleForSeconds'
    <2>1. caller[r] \in Request
        BY <1>2
    <2>2. CASE Remembered(r)
        <3>1. DEFINE q == [at |-> "judged", from |-> answered, seen |-> forgotten,
                           user |-> memory.user, devices |-> memory.devices]
        <3>2. q \in Request
            BY <1>2 DEF TimedInv, IInv, TypeOK, Request, Entry
        <3>3. caller' = [caller EXCEPT ![r] = q] /\ memory' = memory /\ Known
            BY <2>2 DEF Remembered, Steps
        <3>4. /\ memory.since \in Nat /\ memory.user \in Nat /\ memory.devices \in Nat
              /\ now - memory.since < SESSION_MEMORY
              /\ NotReplacedBefore(memory.user, memory.since)
              /\ NotReplacedBefore(memory.devices, memory.since)
            BY <1>2, <3>3 DEF Known, Ages, Entry
        <3>5. \A v \in {memory.user, memory.devices} :
                v < writes => now - past[v + 1].at < SESSION_MEMORY
            BY <1>2, <3>4 DEF NotReplacedBefore
        <3>6. QED
            BY <1>3, <3>2, <3>3, <3>5
    <2>3. CASE LookUp(r)
        <3>1. DEFINE q == [at |-> "reading", from |-> answered, seen |-> forgotten,
                           user |-> 0, devices |-> 0]
        <3>2. q \in Request
            BY <1>2 DEF TimedInv, IInv, TypeOK, Request
        <3>3. caller' = [caller EXCEPT ![r] = q] /\ memory' = memory
            BY <2>3 DEF LookUp, Steps
        <3>4. QED
            BY <1>3, <3>2, <3>3
    <2>4. CASE ReadUser(r)
        <3>1. DEFINE q == [caller[r] EXCEPT !.at = IF account.gone THEN "judged" ELSE "user",
                                             !.user = writes, !.devices = writes]
        <3>2. q \in Request /\ q.user = writes /\ q.devices = writes
            BY <1>2, <2>1 DEF Request
        <3>3. caller' = [caller EXCEPT ![r] = q] /\ memory' = memory
            BY <2>4 DEF ReadUser, Steps
        <3>4. NotReplacedBefore(q.user, now) /\ NotReplacedBefore(q.devices, now)
            BY <1>2, <3>2 DEF NotReplacedBefore
        <3>5. \A v \in {q.user, q.devices} : ~(v < writes)
            BY <1>2, <3>2
        <3>6. QED
            BY <1>3, <3>2, <3>3, <3>4, <3>5
    <2>5. CASE ReadDevices(r)
        <3>1. DEFINE q == [caller[r] EXCEPT !.at = "loaded", !.devices = writes]
        <3>2. q \in Request /\ q.user = caller[r].user /\ q.devices = writes /\ q.at = "loaded"
            BY <1>2, <2>1 DEF Request
        <3>3. caller' = [caller EXCEPT ![r] = q] /\ memory' = memory /\ caller[r].at = "user"
            BY <2>5 DEF ReadDevices, Steps
        <3>4. NotReplacedBefore(q.user, now) /\ NotReplacedBefore(q.devices, now)
            BY <1>2, <3>2, <3>3 DEF Ages, NotReplacedBefore
        <3>5. QED
            BY <1>3, <3>2, <3>3, <3>4
    <2>6. CASE Store(r)
        <3>1. DEFINE q == [caller[r] EXCEPT !.at = "judged"]
        <3>2. /\ q \in Request /\ q.user = caller[r].user /\ q.devices = caller[r].devices
              /\ q.at = "judged"
            BY <1>2, <2>1 DEF Request
        <3>3. caller' = [caller EXCEPT ![r] = q] /\ caller[r].at = "loaded"
            BY <2>6 DEF Store, Steps
        <3>4. NotReplacedBefore(q.user, now) /\ NotReplacedBefore(q.devices, now)
            BY <1>2, <3>2, <3>3 DEF Ages
        <3>5. memory' # memory => /\ memory'.since = now /\ memory'.user = q.user
                                  /\ memory'.devices = q.devices
            BY <2>6, <3>2 DEF Store
        <3>6. \A v \in {q.user, q.devices} : v < writes => now - past[v + 1].at < SESSION_MEMORY
            <4>1. q.user \in Nat /\ q.devices \in Nat
                BY <3>2 DEF Request
            <4>2. QED
                BY <1>2, <3>4, <4>1 DEF NotReplacedBefore
        <3>7. QED
            BY <1>3, <3>2, <3>3, <3>4, <3>5, <3>6
    <2>7. CASE Leave(r)
        <3>1. Idle \in Request /\ Idle.at = "idle"
            BY DEF Idle, Request
        <3>2. caller' = [caller EXCEPT ![r] = Idle] /\ memory' = memory
            BY <2>7 DEF Leave, Steps
        <3>3. QED
            BY <1>3, <3>1, <3>2
    <2>8. QED
        BY <2>2, <2>3, <2>4, <2>5, <2>6, <2>7 DEF Asked
<1>4. \A p \in Callers : caller'[p] = IF p = r THEN q ELSE caller[p]
    BY <1>2, <1>3
<1>5. \A v, time : NotReplacedBefore(v, time)' <=> NotReplacedBefore(v, time)
    BY <1>1 DEF NotReplacedBefore
<1>6. Ages'
    <2>1. \A v \in 1..writes' : past'[v].at <= now'
        BY <1>1, <1>2 DEF Ages
    <2>2. memory' # Nothing =>
            /\ memory'.since <= now'
            /\ NotReplacedBefore(memory.user, memory.since)'
            /\ NotReplacedBefore(memory.devices, memory.since)'
        <3>1. CASE memory' = memory
            BY <1>1, <1>2, <3>1 DEF Ages, NotReplacedBefore
        <3>2. CASE memory' # memory
            BY <1>1, <1>2, <1>3, <3>2 DEF NotReplacedBefore
        <3>3. QED
            BY <3>1, <3>2
    <2>3. ASSUME NEW p \in Callers, caller'[p].at \in {"user", "loaded"}
          PROVE  NotReplacedBefore(caller[p].user, now)' /\ NotReplacedBefore(caller[p].devices, now)'
        BY <1>1, <1>2, <1>3, <1>4, <2>3 DEF Ages, NotReplacedBefore
    <2>4. QED
        BY <2>1, <2>2, <2>3 DEF Ages
<1>7. StaleForSeconds'
    BY <1>1, <1>2, <1>3, <1>4 DEF StaleForSeconds
<1>8. QED
    BY <1>6, <1>7

(* What a request is judged by was replaced less than SESSION_MEMORY ago,  *)
(* whether or not the write that replaced it ever forgot the memory.       *)
THEOREM StaleOnlyForSeconds == Spec => []StaleForSeconds
<1>1. Init => Ages /\ StaleForSeconds
    <2>1. SUFFICES ASSUME Init PROVE Ages /\ StaleForSeconds
        OBVIOUS
    <2>2. writes = 1 /\ past[1].at = 0 /\ now = 0
        BY <2>1 DEF Init, writes
    <2>3. \A r \in Callers : caller[r].at = "idle"
        BY <2>1 DEF Init, Idle
    <2>4. memory = Nothing
        BY <2>1 DEF Init
    <2>5. QED
        BY <2>2, <2>3, <2>4 DEF Ages, StaleForSeconds
<1>2. TimedInv /\ [Next]_vars => Ages' /\ StaleForSeconds'
    <2>1. SUFFICES ASSUME TimedInv, [Next]_vars PROVE Ages' /\ StaleForSeconds'
        OBVIOUS
    <2>2. /\ account \in Account /\ Restamped(account) \in Account
          /\ \A devices \in SUBSET Devices : LoggedOut(account, devices) \in Account
          /\ backup # 0 => past[backup] \in Account
          /\ login \in [Devices -> Nat]
        BY <2>1, AccountTypes DEF TimedInv, IInv, TypeOK
    <2>3. ASSUME NEW new \in Account, Put(new) PROVE Ages' /\ StaleForSeconds'
        BY <2>1, <2>3, PutAges
    <2>4. CASE NewStamp \/ EndSessions
        BY <2>2, <2>3, <2>4 DEF NewStamp, EndSessions, OfAccount, Write
    <2>5. CASE Disable \/ DeleteUser
        <3>1. LoggedOut(account, Devices) \in Account
            BY <2>2
        <3>2. /\ [Restamped(account) EXCEPT !.disabled = TRUE] \in Account
              /\ [LoggedOut(account, Devices) EXCEPT !.gone = TRUE] \in Account
            BY <2>2, <3>1 DEF Account
        <3>3. QED
            BY <2>3, <2>5, <3>2 DEF Disable, DeleteUser, OfAccount, Write
    <2>6. CASE Enable
        <3>1. [account EXCEPT !.disabled = FALSE] \in Account
            BY <2>2 DEF Account
        <3>2. QED
            BY <2>3, <2>6, <3>1 DEF Enable, OfAccount, Write
    <2>7. CASE Touch \/ SubmissionCompleted
        BY <2>2, <2>3, <2>7 DEF Touch, SubmissionCompleted, OfAccount, Write
    <2>8. CASE \E devices \in SUBSET Devices \ {{}} : LogOut(devices)
        BY <2>2, <2>3, <2>8 DEF LogOut, OfAccount, Write
    <2>9. CASE \E d \in Devices : LogInDevice(d)
        <3>1. PICK d \in Devices : LogInDevice(d)
            BY <2>9
        <3>2. [account EXCEPT !.logged[d] = login[d]] \in Account
            BY <2>2 DEF Account
        <3>3. QED
            BY <2>3, <3>1, <3>2 DEF LogInDevice, Write
    <2>10. CASE RestorePages
        BY <2>2, <2>3, <2>10 DEF RestorePages
    <2>11. CASE \E w \in owing : Forget(w) \/ CutOff(w)
        BY <2>1, <2>11, QuietAges DEF Forget, CutOff, memoryVars
    <2>12. CASE TakeBackup \/ UNCHANGED vars \/ \E d \in Devices : CheckLogin(d) \/ LoginFails(d)
        BY <2>1, <2>12, QuietAges DEF TakeBackup, CheckLogin, LoginFails, memoryVars, vars
    <2>13. CASE \E r \in Callers : Asked(r)
        BY <2>1, <2>13, AskAges
    <2>14. CASE Crash
        BY <2>1, <2>14, QuietAges DEF Crash
    <2>15. CASE Tick
        <3>1. /\ UNCHANGED <<past, memory, caller>> /\ writes' = writes /\ now' = now + 1
              /\ \A r \in Callers : caller[r].at \in {"idle", "reading"}
            BY <2>15 DEF Tick, memoryVars, writes
        <3>2. now \in Nat /\ Ages /\ memory \in Entry
            BY <2>1 DEF TimedInv, IInv, TypeOK
        <3>3. \A v \in 1..writes : past[v].at \in Nat
            BY <2>1, AccountTypes DEF TimedInv, IInv
        <3>4. \A v \in 1..writes' : past'[v].at <= now'
            BY <3>1, <3>2, <3>3 DEF Ages
        <3>5. memory' # Nothing =>
                /\ memory'.since <= now'
                /\ NotReplacedBefore(memory.user, memory.since)'
                /\ NotReplacedBefore(memory.devices, memory.since)'
            BY <3>1, <3>2 DEF Ages, NotReplacedBefore, Entry
        <3>6. QED
            BY <3>1, <3>4, <3>5 DEF Ages, StaleForSeconds
    <2>16. QED
        BY <2>1, <2>4, <2>5, <2>6, <2>7, <2>8, <2>9, <2>10, <2>11, <2>12, <2>13, <2>14, <2>15
        DEF Next, AccountWrite
<1>3. Spec => []IInv
    BY SessionsInductive
<1>4. Init /\ IInv => TimedInv
    BY <1>1 DEF TimedInv
<1>5. TimedInv /\ IInv' /\ [Next]_vars => TimedInv'
    BY <1>2 DEF TimedInv
<1>6. TimedInv => StaleForSeconds
    BY DEF TimedInv
<1>7. QED
    BY <1>3, <1>4, <1>5, <1>6, PTL DEF Spec

(***************************************************************************)
(* Breaches                                                                *)
(***************************************************************************)
AtOnceStep == [at : {"hibp", "page"}, who : Accounts, about : Subjects]
XonStep == [at : {"turn", "xon"}, who : Accounts, about : Subjects, since : Nat, attempt : Nat, pause : Nat]
BreachLookStep == [at : {"look"}, who : Accounts, todo : SUBSET Subjects, missing : SUBSET Subjects]
LineStep == [at : {"line"}, who : Accounts, missing : SUBSET Subjects, since : Nat, done : Nat]
MailStep ==
    [at : {"pace", "mail", "keep"}, who : Accounts, missing : SUBSET Subjects, about : Subjects, since : Nat,
     done : Nat]
AnAsker(q) ==
    q = Ready \/ q \in AtOnceStep \/ q \in XonStep \/ q \in BreachLookStep \/ q \in LineStep \/ q \in MailStep

QuestionTimes == Nat \cup {None}
Question == [to : {"xon", "mail"}, who : Accounts, about : Subjects, at : Nat, until : QuestionTimes, agreed : BOOLEAN]

AskersOK == DOMAIN request = Requests /\ \A r \in Requests : AnAsker(request[r])
TimesOK == clock \in Nat /\ next \in Nat /\ blockedUntil \in Nat /\ last \in QuestionTimes
ToldOK == told \in Seq(Question) /\ agreed \in [Accounts -> BOOLEAN]
QueuesOK == xonQueue \in Seq(Requests) /\ mailQueue \in Seq(Requests) /\ DOMAIN waiting = Accounts
CountedOK == counted \subseteq [who : Accounts, at : Nat] /\ IsFiniteSet(counted)
BreachesTypeOK == AskersOK /\ TimesOK /\ ToldOK /\ QueuesOK /\ CountedOK

(* Of a kind only the last question may lack an answer, and one waits for  *)
(* it.                                                                     *)
AnsweredInv(to) ==
    /\ \A i \in About(to) :
          /\ told[i].at <= clock
          /\ told[i].until = None => (\E r \in Requests : request[r].at = to) /\ \A j \in About(to) : j <= i
    /\ \A r \in Requests : request[r].at = to => \E i \in About(to) : told[i].until = None

XonInv ==
    /\ AnsweredInv("xon") /\ XonIsNotRushed
    /\ \A i \in About("xon") : told[i].until # None => told[i].until <= next
    /\ \A r \in Requests : request[r].at = "xon" => next <= clock

(* What went out within a day is counted.                                  *)
MailInv ==
    /\ AnsweredInv("mail") /\ BudgetKept
    /\ last # None => last <= clock
    /\ \A i \in About("mail") :
          /\ last # None /\ told[i].at <= last
          /\ clock - told[i].at < Day => [who |-> told[i].who, at |-> told[i].at] \in counted
          /\ told[i].until # None => told[i].until <= clock \/ told[i].until <= blockedUntil
    /\ \A i, j \in About("mail") : i < j => told[i].at < told[j].at
    /\ \A r \in Requests :
          /\ request[r].at \in {"pace", "mail"} => blockedUntil <= clock
          /\ request[r].at = "pace" => ~MustWait(request[r].who, counted)

(* Who asks is first in its queue.                                         *)
XonHalf == XonInv /\ PlacesMatch /\ \A r \in Requests : request[r].at = "xon" => IsHead(xonQueue, r)
MailHalf == MailInv /\ \A r \in Requests : request[r].at \in {"pace", "mail", "keep"} => IsHead(mailQueue, r)
BreachesIInv == BreachesTypeOK /\ XonHalf /\ MailHalf

(***************************************************************************)
(* What a request may be at                                                *)
(***************************************************************************)
LEMMA StepFacts ==
    ASSUME NEW q, AnAsker(q)
    PROVE  /\ q.at = "idle" <=> q = Ready
           /\ q # Ready => q.who \in Accounts
           /\ q.at \in {"turn", "xon"} => q \in XonStep
           /\ q.at = "look" => q \in BreachLookStep
           /\ q.at = "line" => q \in LineStep
           /\ q.at \in {"pace", "mail", "keep"} => q \in MailStep
<1>1. CASE q = Ready
  BY <1>1 DEF Ready
<1>2. CASE q \in AtOnceStep
  BY <1>2 DEF AtOnceStep, Ready
<1>3. CASE q \in XonStep
  BY <1>3 DEF XonStep, Ready
<1>4. CASE q \in BreachLookStep
  BY <1>4 DEF BreachLookStep, Ready
<1>5. CASE q \in LineStep
  BY <1>5 DEF LineStep, Ready
<1>6. CASE q \in MailStep
  BY <1>6 DEF MailStep, Ready
<1> QED
  BY <1>1, <1>2, <1>3, <1>4, <1>5, <1>6 DEF AnAsker

LEMMA DoesFacts ==
    ASSUME AskersOK, NEW r \in Requests, NEW step, AnAsker(step), Does(r, step)
    PROVE  AskersOK' /\ request'[r] = step /\ \A p \in Requests \ {r} : request'[p] = request[p]
<1>1. request' = [request EXCEPT ![r] = step] /\ DOMAIN request = Requests
  BY DEF Does, AskersOK
<1>2. DOMAIN request' = Requests /\ request'[r] = step /\ \A p \in Requests \ {r} : request'[p] = request[p]
  BY <1>1
<1> QED
  BY <1>2 DEF AskersOK

(***************************************************************************)
(* What was asked                                                          *)
(***************************************************************************)
Same(to) == {i \in DOMAIN told' : told'[i].to = to} = About(to) /\ \A i \in About(to) : told'[i] = told[i]

LEMMA SameFacts ==
    ASSUME NEW to, Same(to)
    PROVE  About(to)' = About(to) /\ \A i \in About(to) : told'[i] = told[i]
BY DEF Same, About

LEMMA SameStays ==
    ASSUME NEW to, told' = told
    PROVE  Same(to)
BY DEF Same, About

LEMMA AboutFacts ==
    ASSUME ToldOK, NEW to
    PROVE  \A i \in About(to) : i \in 1..Len(told) /\ i \in Nat /\ told[i] \in Question /\ told[i].at \in Nat /\ told[i].until \in QuestionTimes
                                /\ told[i].who \in Accounts
<1>1. SUFFICES ASSUME NEW i \in About(to)
               PROVE  i \in 1..Len(told) /\ i \in Nat /\ told[i] \in Question /\ told[i].at \in Nat /\ told[i].until \in QuestionTimes
                      /\ told[i].who \in Accounts
  OBVIOUS
<1>2. i \in 1..Len(told) /\ told[i] \in Question
  BY <1>1 DEF ToldOK, About
<1> QED
  BY <1>2 DEF Question

LEMMA AskedFacts ==
    ASSUME ToldOK, agreed' = agreed, NEW e \in Question, told' = Append(told, e)
    PROVE  \E n \in Nat :
              /\ ToldOK' /\ told'[n] = e
              /\ About(e.to)' = About(e.to) \cup {n}
              /\ \A i \in About(e.to) : i < n /\ told'[i] = told[i]
              /\ \A to : to # e.to => Same(to)
<1>1. PICK n \in Nat : n = Len(told) + 1
  BY DEF ToldOK
<1>2. told \in Seq(Question) /\ Len(told) \in Nat
  BY DEF ToldOK
<1>3. /\ told' \in Seq(Question) /\ Len(told') = n /\ told'[n] = e
      /\ \A i \in 1..Len(told) : told'[i] = told[i]
  BY <1>1, <1>2
<1>4. DOMAIN told = 1..Len(told) /\ DOMAIN told' = 1..n /\ n \notin DOMAIN told /\ DOMAIN told' = DOMAIN told \cup {n}
  BY <1>1, <1>2, <1>3
<1>5. About(e.to)' = About(e.to) \cup {n}
  BY <1>3, <1>4 DEF About
<1>6. \A i \in About(e.to) : i < n /\ told'[i] = told[i]
  BY <1>1, <1>2, <1>3, <1>4 DEF About
<1>7. \A to : to # e.to => Same(to)
  BY <1>3, <1>4 DEF About, Same
<1> QED
  BY <1>3, <1>5, <1>6, <1>7 DEF ToldOK

LEMMA AnswerFacts ==
    ASSUME ToldOK, agreed' = agreed, NEW to, AnsweredInv(to), NEW r \in Requests, request[r].at = to,
           NEW until \in Nat, Answered(to, until)
    PROVE  \E i \in About(to) :
              /\ ToldOK' /\ told[i].until = None /\ \A j \in About(to) : j <= i
              /\ About(to)' = About(to)
              /\ told'[i].until = until /\ told'[i].at = told[i].at /\ told'[i].who = told[i].who
              /\ \A j \in About(to) \ {i} : told'[j] = told[j]
              /\ \A o : o # to => Same(o)
<1>1. PICK i \in About(to) : told[i].until = None /\ \A j \in About(to) : j <= i
  BY DEF AnsweredInv
<1>2. About(to) \subseteq Nat
  BY AboutFacts
<1>3. Max(About(to)) = i
  <2>1. PICK m : m = Max(About(to))
    OBVIOUS
  <2>2. m \in About(to) /\ \A j \in About(to) : m >= j
    BY <1>1, <1>2, <2>1 DEF Max
  <2> QED
    BY <1>1, <1>2, <2>1, <2>2
<1>4. told \in Seq(Question) /\ i \in DOMAIN told /\ told[i] \in Question
  BY <1>1, AboutFacts DEF ToldOK, About
<1>5. told' = [told EXCEPT ![i].until = until]
  BY <1>3 DEF Answered
<1>6. PICK e : e = [told[i] EXCEPT !.until = until]
  OBVIOUS
<1>7. e \in Question /\ e.until = until /\ e.at = told[i].at /\ e.who = told[i].who /\ e.to = told[i].to
  BY <1>4, <1>6 DEF Question, QuestionTimes
<1>8. told' = [told EXCEPT ![i] = e]
  BY <1>5, <1>6
<1>9. told' \in Seq(Question) /\ DOMAIN told' = DOMAIN told /\ told'[i] = e /\ \A j \in DOMAIN told \ {i} : told'[j] = told[j]
  BY <1>4, <1>7, <1>8
<1>10. told[i].to = to
  BY <1>1 DEF About
<1>11. About(to)' = About(to) /\ \A o : o # to => Same(o)
  BY <1>7, <1>9, <1>10 DEF About, Same
<1>12. \A j \in About(to) \ {i} : told'[j] = told[j]
  BY <1>9 DEF About
<1> QED
  BY <1>1, <1>7, <1>9, <1>11, <1>12 DEF ToldOK

LEMMA NobodyTold ==
    ASSUME told' = <<>>, NEW to
    PROVE  About(to)' = {}
BY DEF About

(***************************************************************************)
(* Questions about passwords                                               *)
(***************************************************************************)
LEMMA XonKeeps ==
    ASSUME TimesOK, TimesOK', ToldOK, XonInv, Same("xon"), clock <= clock', next <= next',
           \A r \in Requests : request'[r].at = "xon" <=> request[r].at = "xon",
           \A r \in Requests : request[r].at = "xon" => next' <= clock'
    PROVE  XonInv'
<1>1. About("xon")' = About("xon") /\ \A i \in About("xon") : told'[i] = told[i]
  BY SameFacts
<1>2. \A i \in About("xon") : told[i].at \in Nat /\ told[i].until \in QuestionTimes
  BY AboutFacts
<1>3. clock \in Nat /\ clock' \in Nat /\ next \in Nat /\ next' \in Nat
  BY DEF TimesOK
<1>4. AnsweredInv("xon")'
  BY <1>1, <1>2, <1>3 DEF XonInv, AnsweredInv
<1>5. XonIsNotRushed'
  BY <1>1 DEF XonInv, XonIsNotRushed
<1>6. \A i \in About("xon")' : told'[i].until # None => told'[i].until <= next'
  BY <1>1, <1>2, <1>3 DEF XonInv, QuestionTimes
<1> QED
  BY <1>4, <1>5, <1>6 DEF XonInv

LEMMA XonGoesOut ==
    ASSUME TimesOK, ToldOK, agreed' = agreed, clock' = clock, next' = next, XonInv, NEW r \in Requests, NEW e \in Question,
           e.to = "xon", e.at = clock, e.until = None, next <= clock, told' = Append(told, e),
           \A p \in Requests : request[p].at # "xon",
           request'[r].at = "xon"
    PROVE  XonInv' /\ ToldOK' /\ \A to : to # "xon" => Same(to)
<1>0. \E n \in Nat : /\ ToldOK' /\ told'[n] = e
                     /\ About(e.to)' = About(e.to) \cup {n}
                     /\ \A i \in About(e.to) : i < n /\ told'[i] = told[i]
                     /\ \A to : to # e.to => Same(to)
  BY AskedFacts
<1>1. PICK n \in Nat : /\ ToldOK' /\ told'[n] = e
                       /\ About("xon")' = About("xon") \cup {n}
                       /\ \A i \in About("xon") : i < n /\ told'[i] = told[i]
                       /\ \A to : to # "xon" => Same(to)
  <2>1. e.to = "xon"
    OBVIOUS
  <2> QED
    BY <1>0, <2>1
<1>2. \A i \in About("xon") : i \in Nat /\ told[i].at \in Nat /\ told[i].until \in QuestionTimes
  BY AboutFacts
<1>3. clock \in Nat /\ next \in Nat
  BY DEF TimesOK
<1>4. \A i \in About("xon") : told[i].until # None /\ told[i].until <= next /\ told[i].until \in Nat
  BY <1>2 DEF XonInv, AnsweredInv, QuestionTimes
<1>5. \A i \in About("xon") : clock >= told[i].until
  BY <1>3, <1>4
<1>6. AnsweredInv("xon")'
  <2>1. ASSUME NEW i \in About("xon")'
        PROVE  told'[i].at <= clock'
    <3>1. CASE i = n
      <4>1. told'[i].at = clock /\ clock' = clock /\ clock \in Nat
        BY <1>1, <1>3, <3>1
      <4> QED
        BY <4>1
    <3>2. CASE i \in About("xon")
      BY <1>1, <1>2, <1>3, <3>2 DEF XonInv, AnsweredInv
    <3> QED
      BY <1>1, <3>1, <3>2
  <2>2. \A i \in About("xon")' : told'[i].until = None => i = n
    BY <1>1, <1>4
  <2>3. \A j \in About("xon")' : j <= n
    BY <1>1, <1>2
  <2>4. n \in About("xon")' /\ told'[n].until = None
    BY <1>1
  <2> QED
    BY <2>1, <2>2, <2>3, <2>4 DEF AnsweredInv
<1>7. XonIsNotRushed'
  <2>1. ASSUME NEW i \in About("xon"), NEW j \in About("xon"), i < j
        PROVE  told'[i].until # None /\ told'[j].at >= told'[i].until
    BY <1>1, <2>1 DEF XonInv, XonIsNotRushed
  <2>2. ASSUME NEW i \in About("xon")
        PROVE  told'[i].until # None /\ told'[n].at >= told'[i].until /\ ~(n < i)
    <3>1. told'[i] = told[i] /\ i < n /\ i \in Nat /\ told'[n].at = clock
      BY <1>1, <1>2
    <3> QED
      BY <1>4, <1>5, <3>1
  <2>3. About("xon")' = About("xon") \cup {n} /\ ~(n < n)
    BY <1>1
  <2> QED
    BY <2>1, <2>2, <2>3 DEF XonIsNotRushed
<1>8. \A i \in About("xon")' : told'[i].until # None => told'[i].until <= next'
  BY <1>1, <1>4
<1> QED
  BY <1>1, <1>3, <1>6, <1>7, <1>8 DEF XonInv

LEMMA XonIsAnswered ==
    ASSUME TimesOK, TimesOK', ToldOK, agreed' = agreed, clock' = clock, XonInv, NEW r \in Requests, request[r].at = "xon",
           NEW until \in Nat, until <= next', next <= next', Answered("xon", until),
           \A p \in Requests : request'[p].at # "xon"
    PROVE  XonInv' /\ ToldOK' /\ \A to : to # "xon" => Same(to)
<1>1. PICK i \in About("xon") :
              /\ ToldOK' /\ told[i].until = None /\ \A j \in About("xon") : j <= i
              /\ About("xon")' = About("xon")
              /\ told'[i].until = until /\ told'[i].at = told[i].at /\ told'[i].who = told[i].who
              /\ \A j \in About("xon") \ {i} : told'[j] = told[j]
              /\ \A o : o # "xon" => Same(o)
  BY AnswerFacts DEF XonInv
<1>2. \A j \in About("xon") : j \in Nat /\ told[j].at \in Nat /\ told[j].until \in QuestionTimes
  BY AboutFacts
<1>3. clock \in Nat /\ next \in Nat /\ next' \in Nat /\ None \notin Nat
  BY BreachesIds DEF TimesOK
<1>4. \A j \in About("xon") \ {i} : told[j].until # None
  BY <1>1, <1>2 DEF XonInv, AnsweredInv
<1>5. \A j \in About("xon")' : told'[j].at <= clock' /\ told'[j].until # None /\ told'[j].at = told[j].at
  BY <1>1, <1>3, <1>4 DEF XonInv, AnsweredInv
<1>6. AnsweredInv("xon")'
  BY <1>5 DEF AnsweredInv
<1>7. XonIsNotRushed'
  <2>1. ASSUME NEW j \in About("xon"), NEW k \in About("xon"), j < k
        PROVE  told'[j].until # None /\ told'[k].at >= told'[j].until
    <3>1. j # i
      BY <1>1, <1>2, <2>1
    <3>2. told'[j] = told[j] /\ told'[k].at = told[k].at
      BY <1>1, <1>5, <3>1
    <3> QED
      BY <2>1, <3>2 DEF XonInv, XonIsNotRushed
  <2> QED
    BY <1>1, <2>1 DEF XonIsNotRushed
<1>8. ASSUME NEW j \in About("xon")'
      PROVE  told'[j].until <= next'
  <2>1. CASE j = i
    BY <1>1, <2>1
  <2>2. CASE j # i
    <3>1. told'[j] = told[j] /\ told[j].until \in Nat /\ told[j].until <= next
      BY <1>1, <1>2, <1>4, <2>2 DEF XonInv, QuestionTimes
    <3> QED
      BY <1>3, <3>1
  <2> QED
    BY <2>1, <2>2
<1> QED
  BY <1>1, <1>6, <1>7, <1>8 DEF XonInv

(***************************************************************************)
(* Questions about addresses                                               *)
(***************************************************************************)
LEMMA BackKeeps ==
    ASSUME Same("mail"), NEW i \in About("mail"), NEW window
    PROVE  Back(i, window)' = Back(i, window)
<1>1. About("mail")' = About("mail") /\ \A j \in About("mail") : told'[j] = told[j]
  BY SameFacts
<1> QED
  BY <1>1 DEF Back

(* One question keeps within the budget when its time, its account and     *)
(* those before it stay.                                                   *)
LEMMA BudgetKeeps ==
    ASSUME BudgetKept, NEW i \in About("mail"), About("mail") \subseteq About("mail")',
           \A j \in About("mail")' \ About("mail") : ~(j <= i),
           \A j \in About("mail") : /\ told'[j].at = told[j].at /\ told'[j].who = told[j].who
                                    /\ told[j].until # None => told'[j].until = told[j].until
    PROVE  /\ Cardinality(Back(i, Hour)') <= PerHour
           /\ Cardinality(Back(i, Day)') <= PerDay
           /\ Cardinality({j \in Back(i, Day)' : told'[j].who = told'[i].who}) <= PerAccountDay
           /\ \A j \in About("mail") : j < i => told'[j].until # None /\ told'[i].at >= told'[j].until
<1>1. Back(i, Hour)' = Back(i, Hour)
  BY DEF Back
<1>2. Back(i, Day)' = Back(i, Day)
  BY DEF Back
<1>3. {j \in Back(i, Day)' : told'[j].who = told'[i].who} = {j \in Back(i, Day) : told[j].who = told[i].who}
  BY <1>2 DEF Back
<1> QED
  BY <1>1, <1>2, <1>3 DEF BudgetKept

LEMMA BudgetStays ==
    ASSUME BudgetKept, Same("mail")
    PROVE  BudgetKept'
<1>1. About("mail")' = About("mail") /\ \A i \in About("mail") : told'[i] = told[i]
  BY SameFacts
<1>2. ASSUME NEW i \in About("mail")
      PROVE  /\ Cardinality(Back(i, Hour)') <= PerHour
             /\ Cardinality(Back(i, Day)') <= PerDay
             /\ Cardinality({j \in Back(i, Day)' : told'[j].who = told'[i].who}) <= PerAccountDay
             /\ \A j \in About("mail") : j < i => told'[j].until # None /\ told'[i].at >= told'[j].until
  BY <1>1, BudgetKeeps
<1> QED
  BY <1>1, <1>2 DEF BudgetKept

LEMMA MailKeeps ==
    ASSUME TimesOK, TimesOK', ToldOK, MailInv, Same("mail"), clock <= clock', last' = last, blockedUntil' = blockedUntil,
           \A e \in counted : clock' - e.at < Day => e \in counted',
           \A r \in Requests : request'[r].at = "mail" <=> request[r].at = "mail",
           \A r \in Requests : request'[r].at = "pace" => blockedUntil <= clock' /\ ~MustWait(request[r].who, counted)'
    PROVE  MailInv'
<1>1. About("mail")' = About("mail") /\ \A i \in About("mail") : told'[i] = told[i]
  BY SameFacts
<1>2. \A i \in About("mail") : told[i].at \in Nat /\ told[i].until \in QuestionTimes
  BY AboutFacts
<1>3. clock \in Nat /\ clock' \in Nat /\ blockedUntil \in Nat /\ last \in QuestionTimes /\ Day \in Nat
  BY BreachesBounds DEF TimesOK
<1>4. AnsweredInv("mail")'
  BY <1>1, <1>2, <1>3 DEF MailInv, AnsweredInv
<1>5. BudgetKept'
  BY BudgetStays DEF MailInv
<1>6. last' # None => last' <= clock'
  BY <1>3 DEF MailInv, QuestionTimes
<1>7. ASSUME NEW i \in About("mail")'
      PROVE  /\ last' # None /\ told'[i].at <= last'
             /\ clock' - told'[i].at < Day => [who |-> told'[i].who, at |-> told'[i].at] \in counted'
             /\ told'[i].until # None => told'[i].until <= clock' \/ told'[i].until <= blockedUntil'
  <2>1. i \in About("mail") /\ told'[i] = told[i] /\ told[i].at \in Nat /\ told[i].until \in QuestionTimes
    BY <1>1, <1>2
  <2>2. last' # None /\ told'[i].at <= last'
    BY <2>1 DEF MailInv
  <2>3. ASSUME clock' - told'[i].at < Day
        PROVE  [who |-> told'[i].who, at |-> told'[i].at] \in counted'
    <3>1. PICK e : e = [who |-> told[i].who, at |-> told[i].at]
      OBVIOUS
    <3>2. clock - told[i].at < Day
      BY <1>3, <2>1, <2>3
    <3>3. e \in counted /\ clock' - e.at < Day
      BY <2>1, <2>3, <3>1, <3>2 DEF MailInv
    <3> QED
      BY <2>1, <3>1, <3>3
  <2>4. told'[i].until # None => told'[i].until <= clock' \/ told'[i].until <= blockedUntil'
    <3>1. told[i].until # None => told[i].until \in Nat /\ (told[i].until <= clock \/ told[i].until <= blockedUntil)
      BY <2>1 DEF MailInv, QuestionTimes
    <3> QED
      BY <1>3, <2>1, <3>1
  <2> QED
    BY <2>2, <2>3, <2>4
<1>8. \A i, j \in About("mail")' : i < j => told'[i].at < told'[j].at
  BY <1>1 DEF MailInv
<1>9. ASSUME NEW r \in Requests
      PROVE  /\ request'[r].at \in {"pace", "mail"} => blockedUntil' <= clock'
             /\ request'[r].at = "pace" => ~MustWait(request[r].who, counted)'
  <2>1. request'[r].at = "mail" => blockedUntil' <= clock'
    BY <1>3 DEF MailInv
  <2> QED
    BY <2>1
<1> QED
  BY <1>4, <1>5, <1>6, <1>7, <1>8, <1>9 DEF MailInv

(* A set of questions, each of which is counted, is no larger than what is *)
(* counted.                                                                *)
LEMMA CountedOnce ==
    ASSUME ToldOK, CountedOK, MailInv, NEW S \in SUBSET About("mail"), NEW T \in SUBSET counted,
           \A i \in S : [who |-> told[i].who, at |-> told[i].at] \in T
    PROVE  IsFiniteSet(S) /\ IsFiniteSet(T) /\ Cardinality(S) <= Cardinality(T)
           /\ Cardinality(S) \in Nat /\ Cardinality(T) \in Nat
<1>1. DEFINE f == [i \in S |-> [who |-> told[i].who, at |-> told[i].at]]
<1>2. f \in [S -> T]
  OBVIOUS
<1>3. ASSUME NEW i \in S, NEW j \in S, i # j
      PROVE  f[i] # f[j]
  <2>1. i \in Nat /\ j \in Nat /\ told[i].at \in Nat /\ told[j].at \in Nat
    BY AboutFacts
  <2>2. told[i].at # told[j].at
    BY <1>3, <2>1 DEF MailInv
  <2>3. f[i].at = told[i].at /\ f[j].at = told[j].at
    OBVIOUS
  <2> QED
    BY <2>2, <2>3
<1>4. f \in Injection(S, T)
  BY <1>2, <1>3 DEF Injection, IsInjective
<1>5. IsFiniteSet(T)
  BY FS_Subset DEF CountedOK
<1> HIDE DEF f
<1> QED
  BY <1>4, <1>5, FS_Injection, FS_CardinalityType

(* The question that goes out and those of the window before it.           *)
LEMMA OneMore ==
    ASSUME ToldOK, CountedOK, MailInv, NEW S \in SUBSET About("mail"), NEW T \in SUBSET counted,
           \A i \in S : [who |-> told[i].who, at |-> told[i].at] \in T,
           NEW most \in Nat, Cardinality(T) < most, NEW n, NEW U \in SUBSET (S \cup {n})
    PROVE  Cardinality(U) <= most
<1>1. IsFiniteSet(S) /\ Cardinality(S) <= Cardinality(T) /\ Cardinality(S) \in Nat /\ Cardinality(T) \in Nat
  BY CountedOnce
<1>2. IsFiniteSet(S \cup {n}) /\ Cardinality(S \cup {n}) \in {Cardinality(S), Cardinality(S) + 1}
  BY <1>1, FS_AddElement
<1>3. IsFiniteSet(U) /\ Cardinality(U) <= Cardinality(S \cup {n}) /\ Cardinality(U) \in Nat
  BY <1>2, FS_Subset, FS_CardinalityType
<1> QED
  BY <1>1, <1>2, <1>3

LEMMA MailGoesOut ==
    ASSUME TimesOK, ToldOK, CountedOK, agreed' = agreed, clock' = clock, blockedUntil' = blockedUntil, MailInv,
           NEW r \in Requests, request[r].at = "pace", NEW e \in Question, e.to = "mail", e.at = clock, e.until = None,
           e.who = request[r].who, last # None => clock >= last + Spacing, last' = clock,
           counted' = counted \cup {[who |-> e.who, at |-> clock]}, told' = Append(told, e),
           \A p \in Requests : request[p].at # "mail",
           request'[r].at = "mail", \A p \in Requests : request'[p].at # "pace"
    PROVE  MailInv' /\ ToldOK' /\ \A to : to # "mail" => Same(to)
<1>0. \E n \in Nat : /\ ToldOK' /\ told'[n] = e
                     /\ About(e.to)' = About(e.to) \cup {n}
                     /\ \A i \in About(e.to) : i < n /\ told'[i] = told[i]
                     /\ \A to : to # e.to => Same(to)
  BY AskedFacts
<1>1. PICK n \in Nat : /\ ToldOK' /\ told'[n] = e
                       /\ About("mail")' = About("mail") \cup {n}
                       /\ \A i \in About("mail") : i < n /\ told'[i] = told[i]
                       /\ \A to : to # "mail" => Same(to)
  <2>1. e.to = "mail"
    OBVIOUS
  <2> QED
    BY <1>0, <2>1
<1>2. \A i \in About("mail") : i \in Nat /\ told[i].at \in Nat /\ told[i].until \in QuestionTimes
  BY AboutFacts
<1>3. clock \in Nat /\ blockedUntil \in Nat /\ last \in QuestionTimes /\ Day \in Nat /\ Hour \in Nat /\ Hour <= Day /\ Spacing \in Nat /\ Spacing > 0
  BY BreachesBounds DEF TimesOK
<1>4. blockedUntil <= clock /\ ~MustWait(request[r].who, counted)
  BY DEF MailInv
<1>5. ASSUME NEW i \in About("mail")
      PROVE  told[i].until # None /\ told[i].until <= clock /\ told[i].at < clock
  <2>1. told[i].until # None
    BY DEF MailInv, AnsweredInv
  <2>2. told[i].until \in Nat /\ (told[i].until <= clock \/ told[i].until <= blockedUntil)
    BY <1>2, <2>1 DEF MailInv, QuestionTimes
  <2>3. last \in Nat /\ told[i].at <= last
    BY <1>3 DEF MailInv, QuestionTimes
  <2>4. clock >= last + Spacing
    BY <2>3, BreachesIds
  <2> QED
    BY <1>2, <1>3, <1>4, <2>1, <2>2, <2>3, <2>4
<1>6. n \in About("mail")' /\ told'[n].until = None /\ told'[n].at = clock /\ told'[n].who = request[r].who
  BY <1>1
<1>7. AnsweredInv("mail")'
  <2>1. \A i \in About("mail")' : told'[i].at <= clock'
    <3>1. ASSUME NEW i \in About("mail")
          PROVE  told'[i].at <= clock'
      <4>1. told'[i] = told[i] /\ told[i].at < clock /\ told[i].at \in Nat /\ clock' = clock
        BY <1>1, <1>2, <1>5
      <4> QED
        BY <1>3, <4>1
    <3>2. told'[n].at <= clock'
      BY <1>3, <1>6
    <3> QED
      BY <1>1, <3>1, <3>2
  <2>2. \A i \in About("mail")' : told'[i].until = None => i = n
    BY <1>1, <1>5
  <2>3. \A j \in About("mail")' : j <= n
    BY <1>1, <1>2
  <2> QED
    BY <1>6, <2>1, <2>2, <2>3 DEF AnsweredInv
<1>8. /\ Cardinality(Back(n, Hour)') <= PerHour
      /\ Cardinality(Back(n, Day)') <= PerDay
      /\ Cardinality({j \in Back(n, Day)' : told'[j].who = told'[n].who}) <= PerAccountDay
  <2>0. PerHour \in Nat /\ PerDay \in Nat /\ PerAccountDay \in Nat
    BY BreachesBounds
  <2>1. PICK H : H = {j \in About("mail") : clock - told[j].at < Hour}
    OBVIOUS
  <2>2. PICK D : D = {j \in About("mail") : clock - told[j].at < Day}
    OBVIOUS
  <2>3. PICK A : A = {j \in D : told[j].who = request[r].who}
    OBVIOUS
  <2>4. \A i \in D : [who |-> told[i].who, at |-> told[i].at] \in counted
    BY <2>2 DEF MailInv
  <2>5. \A i \in H : i \in D
    BY <1>2, <1>3, <2>1, <2>2
  <2>6. \A i \in H : [who |-> told[i].who, at |-> told[i].at] \in Within(Hour, counted)
    <3>1. ASSUME NEW i \in H
          PROVE  [who |-> told[i].who, at |-> told[i].at] \in Within(Hour, counted)
      <4>1. PICK m : m = [who |-> told[i].who, at |-> told[i].at]
        OBVIOUS
      <4>2. m \in counted /\ clock - m.at < Hour
        BY <2>1, <2>4, <2>5, <4>1
      <4> QED
        BY <4>1, <4>2 DEF Within
    <3> QED
      BY <3>1
  <2>7. \A i \in A : [who |-> told[i].who, at |-> told[i].at] \in Of(request[r].who, counted)
    <3>1. ASSUME NEW i \in A
          PROVE  [who |-> told[i].who, at |-> told[i].at] \in Of(request[r].who, counted)
      <4>1. PICK m : m = [who |-> told[i].who, at |-> told[i].at]
        OBVIOUS
      <4>2. m \in counted /\ m.who = request[r].who
        BY <2>3, <2>4, <4>1
      <4> QED
        BY <4>1, <4>2 DEF Of
    <3> QED
      BY <3>1
  <2>8. /\ Cardinality(Within(Hour, counted)) < PerHour /\ Cardinality(counted) < PerDay
        /\ Cardinality(Of(request[r].who, counted)) < PerAccountDay
    <3>1. \A T \in SUBSET counted : Cardinality(T) \in Nat
      BY FS_Subset, FS_CardinalityType DEF CountedOK
    <3>2. Within(Hour, counted) \subseteq counted /\ Of(request[r].who, counted) \subseteq counted
      BY DEF Within, Of
    <3>3. /\ ~(Cardinality(Within(Hour, counted)) >= PerHour) /\ ~(Cardinality(counted) >= PerDay)
          /\ ~(Cardinality(Of(request[r].who, counted)) >= PerAccountDay)
      BY <1>4 DEF MustWait
    <3> QED
      BY <2>0, <3>1, <3>2, <3>3
  <2>9. \A j \in About("mail") : told'[j] = told[j]
    BY <1>1
  <2>10. Back(n, Hour)' \subseteq H \cup {n} /\ Back(n, Day)' \subseteq D \cup {n}
    BY <1>1, <1>6, <2>1, <2>2 DEF Back
  <2>11. {j \in Back(n, Day)' : told'[j].who = told'[n].who} \subseteq A \cup {n}
    BY <1>6, <2>2, <2>3, <2>9, <2>10
  <2>12. H \subseteq About("mail") /\ D \subseteq About("mail") /\ A \subseteq About("mail")
    BY <2>1, <2>2, <2>3
  <2>13. Within(Hour, counted) \subseteq counted /\ Of(request[r].who, counted) \subseteq counted
    BY DEF Within, Of
  <2>14. Cardinality(Back(n, Hour)') <= PerHour
    BY <2>0, <2>6, <2>8, <2>10, <2>12, <2>13, OneMore
  <2>15. Cardinality(Back(n, Day)') <= PerDay
    BY <2>0, <2>4, <2>8, <2>10, <2>12, <2>13, OneMore
  <2>16. Cardinality({j \in Back(n, Day)' : told'[j].who = told'[n].who}) <= PerAccountDay
    BY <2>0, <2>7, <2>8, <2>11, <2>12, <2>13, OneMore
  <2> QED
    BY <2>14, <2>15, <2>16
<1>9. BudgetKept'
  <2>1. ASSUME NEW i \in About("mail")
        PROVE  /\ Cardinality(Back(i, Hour)') <= PerHour
               /\ Cardinality(Back(i, Day)') <= PerDay
               /\ Cardinality({j \in Back(i, Day)' : told'[j].who = told'[i].who}) <= PerAccountDay
               /\ \A j \in About("mail") : j < i => told'[j].until # None /\ told'[i].at >= told'[j].until
               /\ ~(n <= i)
    <3>1. ~(n <= i) /\ About("mail") \subseteq About("mail")' /\ \A j \in About("mail")' \ About("mail") : ~(j <= i)
      BY <1>1, <1>2
    <3> QED
      BY <1>1, <3>1, BudgetKeeps DEF MailInv
  <2>2. \A j \in About("mail") : told'[j].until # None /\ told'[n].at >= told'[j].until
    <3>1. ASSUME NEW j \in About("mail")
          PROVE  told'[j].until # None /\ told'[n].at >= told'[j].until
      <4>1. told'[j] = told[j] /\ told[j].until \in Nat /\ told[j].until <= clock
        BY <1>1, <1>2, <1>5 DEF QuestionTimes
      <4> QED
        BY <1>3, <1>5, <1>6, <4>1
    <3> QED
      BY <3>1
  <2>3. \A i \in About("mail") : ~(n < i)
    BY <1>1, <1>2
  <2>4. ASSUME NEW i \in About("mail")'
        PROVE  /\ Cardinality(Back(i, Hour)') <= PerHour
               /\ Cardinality(Back(i, Day)') <= PerDay
               /\ Cardinality({j \in Back(i, Day)' : told'[j].who = told'[i].who}) <= PerAccountDay
               /\ \A j \in About("mail")' : j < i => told'[j].until # None /\ told'[i].at >= told'[j].until
    <3>1. CASE i = n
      <4>1. ASSUME NEW j \in About("mail")', j < i
            PROVE  told'[j].until # None /\ told'[i].at >= told'[j].until
        <5>1. j \in About("mail")
          BY <1>1, <3>1, <4>1
        <5> QED
          BY <2>2, <3>1, <5>1
      <4> QED
        BY <1>8, <3>1, <4>1
    <3>2. CASE i \in About("mail")
      <4>1. ASSUME NEW j \in About("mail")', j < i
            PROVE  told'[j].until # None /\ told'[i].at >= told'[j].until
        <5>1. j \in About("mail")
          BY <1>1, <2>3, <3>2, <4>1
        <5> QED
          BY <2>1, <3>2, <4>1, <5>1
      <4> QED
        BY <2>1, <3>2, <4>1
    <3> QED
      BY <1>1, <3>1, <3>2
  <2> QED
    BY <2>4 DEF BudgetKept
<1>10. ASSUME NEW i \in About("mail")'
       PROVE  /\ last' # None /\ told'[i].at <= last'
              /\ clock' - told'[i].at < Day => [who |-> told'[i].who, at |-> told'[i].at] \in counted'
              /\ told'[i].until # None => told'[i].until <= clock' \/ told'[i].until <= blockedUntil'
  <2>1. CASE i = n
    <3>1. last' = clock /\ told'[i].at = clock /\ told'[i].until = None /\ told'[i].who = e.who
      BY <1>1, <1>6, <2>1
    <3>2. [who |-> e.who, at |-> clock] \in counted'
      OBVIOUS
    <3> QED
      BY <1>3, <3>1, <3>2, BreachesIds
  <2>2. CASE i \in About("mail")
    <3>1. told'[i] = told[i] /\ told[i].at < clock /\ told[i].until <= clock
      BY <1>1, <1>5, <2>2
    <3>2. clock - told[i].at < Day => [who |-> told[i].who, at |-> told[i].at] \in counted
      BY <2>2 DEF MailInv
    <3> QED
      BY <1>2, <1>3, <2>2, <3>1, <3>2, BreachesIds
  <2> QED
    BY <1>1, <2>1, <2>2
<1>11. \A i, j \in About("mail")' : i < j => told'[i].at < told'[j].at
  <2>1. ASSUME NEW i \in About("mail"), NEW j \in About("mail"), i < j
        PROVE  told'[i].at < told'[j].at
    BY <1>1, <2>1 DEF MailInv
  <2>2. ASSUME NEW i \in About("mail")
        PROVE  told'[i].at < told'[n].at /\ ~(n < i)
    <3>1. told'[i] = told[i] /\ told[i].at < clock /\ i < n /\ i \in Nat /\ told'[n].at = clock
      BY <1>1, <1>2, <1>5, <1>6
    <3> QED
      BY <3>1
  <2>3. ~(n < n)
    OBVIOUS
  <2> QED
    BY <1>1, <2>1, <2>2, <2>3
<1> QED
  BY <1>1, <1>3, <1>4, <1>7, <1>9, <1>10, <1>11, BreachesIds DEF MailInv

LEMMA MailIsAnswered ==
    ASSUME TimesOK, TimesOK', ToldOK, agreed' = agreed, clock' = clock, last' = last, counted' = counted, MailInv,
           NEW r \in Requests, request[r].at = "mail", NEW until \in Nat, blockedUntil <= blockedUntil',
           until <= clock \/ until <= blockedUntil', Answered("mail", until),
           \A p \in Requests : request'[p].at \notin {"pace", "mail"}
    PROVE  MailInv' /\ ToldOK' /\ \A to : to # "mail" => Same(to)
<1>1. PICK i \in About("mail") :
              /\ ToldOK' /\ told[i].until = None /\ \A j \in About("mail") : j <= i
              /\ About("mail")' = About("mail")
              /\ told'[i].until = until /\ told'[i].at = told[i].at /\ told'[i].who = told[i].who
              /\ \A j \in About("mail") \ {i} : told'[j] = told[j]
              /\ \A o : o # "mail" => Same(o)
  BY AnswerFacts DEF MailInv
<1>2. \A j \in About("mail") : j \in Nat /\ told[j].at \in Nat /\ told[j].until \in QuestionTimes
  BY AboutFacts
<1>3. clock \in Nat /\ blockedUntil \in Nat /\ blockedUntil' \in Nat /\ None \notin Nat
  BY BreachesIds DEF TimesOK
<1>4. ASSUME NEW j \in About("mail")
      PROVE  /\ told'[j].at = told[j].at /\ told'[j].who = told[j].who
             /\ told[j].until # None => told'[j].until = told[j].until
             /\ told'[j].until # None
  <2>1. CASE j = i
    BY <1>1, <1>3, <2>1
  <2>2. CASE j # i
    <3>1. told[j].until # None
      <4>1. told[j].until = None => i <= j
        BY DEF MailInv, AnsweredInv
      <4> QED
        BY <1>1, <1>2, <2>2, <4>1
    <3> QED
      BY <1>1, <2>2, <3>1
  <2> QED
    BY <2>1, <2>2
<1>5. AnsweredInv("mail")'
  BY <1>1, <1>4 DEF MailInv, AnsweredInv
<1>6. BudgetKept'
  <2>1. ASSUME NEW j \in About("mail")
        PROVE  /\ Cardinality(Back(j, Hour)') <= PerHour
               /\ Cardinality(Back(j, Day)') <= PerDay
               /\ Cardinality({k \in Back(j, Day)' : told'[k].who = told'[j].who}) <= PerAccountDay
               /\ \A k \in About("mail") : k < j => told'[k].until # None /\ told'[j].at >= told'[k].until
    BY <1>1, <1>4, BudgetKeeps DEF MailInv
  <2> QED
    BY <1>1, <2>1 DEF BudgetKept
<1>7. ASSUME NEW j \in About("mail")'
      PROVE  /\ last' # None /\ told'[j].at <= last'
             /\ clock' - told'[j].at < Day => [who |-> told'[j].who, at |-> told'[j].at] \in counted'
             /\ told'[j].until # None => told'[j].until <= clock' \/ told'[j].until <= blockedUntil'
  <2>1. j \in About("mail")
    BY <1>1
  <2>2. told'[j].at = told[j].at /\ told'[j].who = told[j].who
    BY <1>4, <2>1
  <2>3. /\ last' # None /\ told'[j].at <= last'
        /\ clock' - told'[j].at < Day => [who |-> told'[j].who, at |-> told'[j].at] \in counted'
    BY <2>1, <2>2 DEF MailInv
  <2>4. told'[j].until <= clock' \/ told'[j].until <= blockedUntil'
    <3>1. CASE j = i
      BY <1>1, <3>1
    <3>2. CASE j # i
      <4>1. told'[j] = told[j] /\ told[j].until # None
        BY <1>1, <1>4, <2>1, <3>2
      <4>2. told[j].until \in Nat /\ (told[j].until <= clock \/ told[j].until <= blockedUntil)
        BY <1>2, <2>1, <4>1 DEF MailInv, QuestionTimes
      <4> QED
        BY <1>3, <4>1, <4>2
    <3> QED
      BY <3>1, <3>2
  <2> QED
    BY <2>3, <2>4
<1>8. \A j, k \in About("mail")' : j < k => told'[j].at < told'[k].at
  BY <1>1, <1>4 DEF MailInv
<1>9. last' # None => last' <= clock'
  BY DEF MailInv
<1> QED
  BY <1>1, <1>5, <1>6, <1>7, <1>8, <1>9 DEF MailInv

(* As time goes by, who may ask may still.                                 *)
LEMMA MayStillAsk ==
    ASSUME TimesOK, CountedOK, NEW a, clock' \in Nat, clock <= clock', counted' = counted, blockedUntil' = blockedUntil,
           ~MustWait(a, counted)
    PROVE  blockedUntil <= clock' /\ ~(\/ blockedUntil' > clock'
                                       \/ Cardinality({e \in counted' : clock' - e.at < Hour}) >= PerHour
                                       \/ Cardinality(counted') >= PerDay
                                       \/ Cardinality(Of(a, counted')) >= PerAccountDay)
<1>1. clock \in Nat /\ blockedUntil \in Nat /\ Hour \in Nat /\ PerHour \in Nat
  BY BreachesBounds DEF TimesOK
<1>2. PICK S : S = Within(Hour, counted)
  OBVIOUS
<1>3. PICK T : T = {e \in counted : clock' - e.at < Hour}
  OBVIOUS
<1>4. S \subseteq counted /\ T \subseteq S
  BY <1>1, <1>2, <1>3 DEF Within, CountedOK
<1>5. IsFiniteSet(S) /\ Cardinality(S) \in Nat /\ IsFiniteSet(T) /\ Cardinality(T) \in Nat /\ Cardinality(T) <= Cardinality(S)
  BY <1>4, FS_Subset, FS_CardinalityType DEF CountedOK
<1>6. ~(Cardinality(S) >= PerHour) /\ ~(blockedUntil > clock)
  BY <1>2 DEF MustWait
<1>7. ~(Cardinality(T) >= PerHour) /\ blockedUntil <= clock'
  BY <1>1, <1>5, <1>6
<1> QED
  BY <1>1, <1>3, <1>7 DEF MustWait

(***************************************************************************)
(* Queues and places                                                       *)
(***************************************************************************)
LEMMA WithoutFacts ==
    ASSUME NEW queue \in Seq(Requests), NEW r
    PROVE  /\ Without(queue, r) \in Seq(Requests)
           /\ \A p \in Requests \ {r} : IsHead(queue, p) => IsHead(Without(queue, r), p)
<1>1. CASE \E i \in DOMAIN queue : queue[i] = r
  <2>1. PICK i : i = CHOOSE j \in DOMAIN queue : queue[j] = r
    OBVIOUS
  <2>2. i \in 1..Len(queue) /\ queue[i] = r /\ Len(queue) \in Nat
    BY <1>1, <2>1
  <2>3. PICK a : a = SubSeq(queue, 1, i - 1)
    OBVIOUS
  <2>4. PICK b : b = SubSeq(queue, i + 1, Len(queue))
    OBVIOUS
  <2>5. a \in Seq(Requests) /\ Len(a) = i - 1 /\ (i > 1 => a[1] = queue[1])
    BY <2>2, <2>3
  <2>6. b \in Seq(Requests)
    BY <2>2, <2>4
  <2>7. a \o b \in Seq(Requests) /\ (i > 1 => a \o b # <<>> /\ Head(a \o b) = Head(queue))
    BY <2>2, <2>5, <2>6
  <2>8. Without(queue, r) = a \o b
    BY <1>1, <2>1, <2>3, <2>4 DEF Without, RemoveAt
  <2>9. ASSUME NEW p \in Requests \ {r}, IsHead(queue, p)
        PROVE  IsHead(a \o b, p)
    <3>1. queue # <<>> /\ queue[1] = p
      BY <2>9 DEF IsHead
    <3>2. i > 1
      BY <2>2, <3>1
    <3> QED
      BY <2>7, <2>9, <3>2 DEF IsHead
  <2> QED
    BY <2>7, <2>8, <2>9
<1>2. CASE ~\E i \in DOMAIN queue : queue[i] = r
  BY <1>2 DEF Without
<1> QED
  BY <1>1, <1>2

LEMMA AppendFacts ==
    ASSUME NEW queue \in Seq(Requests), NEW r \in Requests
    PROVE  /\ Append(queue, r) \in Seq(Requests)
           /\ \A p \in Requests : IsHead(queue, p) => IsHead(Append(queue, r), p)
BY DEF IsHead

LEMMA OneHead ==
    ASSUME NEW queue, NEW p, NEW r, IsHead(queue, p), IsHead(queue, r)
    PROVE  p = r
BY DEF IsHead

LEMMA PlacesStay ==
    ASSUME PlacesMatch, NEW r \in Requests, waiting' = waiting, \A p \in Requests \ {r} : request'[p] = request[p],
           request[r].at \in {"turn", "xon"} <=> request'[r].at \in {"turn", "xon"},
           request[r].at \in {"turn", "xon"} => request'[r].who = request[r].who
    PROVE  PlacesMatch'
<1>1. ASSUME NEW a \in Accounts
      PROVE  Places(a)' = Places(a)
  BY DEF Places
<1> QED
  BY <1>1 DEF PlacesMatch

LEMMA PlaceTaken ==
    ASSUME PlacesMatch, NEW r \in Requests, NEW a \in Accounts, DOMAIN waiting = Accounts,
           waiting' = [waiting EXCEPT ![a] = @ + 1], \A p \in Requests \ {r} : request'[p] = request[p],
           request[r].at \notin {"turn", "xon"}, request'[r].at \in {"turn", "xon"}, request'[r].who = a
    PROVE  PlacesMatch' /\ DOMAIN waiting' = Accounts
<1>1. ASSUME NEW b \in Accounts \ {a}
      PROVE  Places(b)' = Places(b) /\ waiting'[b] = waiting[b]
  BY DEF Places
<1>2. Places(a)' = Places(a) \cup {r} /\ r \notin Places(a)
  BY DEF Places
<1>3. IsFiniteSet(Places(a))
  BY BreachesIds, FS_Subset DEF Places
<1>4. waiting'[a] = Cardinality(Places(a)')
  BY <1>2, <1>3, FS_AddElement DEF PlacesMatch
<1> QED
  BY <1>1, <1>4 DEF PlacesMatch

LEMMA PlaceLeft ==
    ASSUME PlacesMatch, NEW r \in Requests, request[r].who \in Accounts, DOMAIN waiting = Accounts,
           waiting' = [waiting EXCEPT ![request[r].who] = @ - 1], \A p \in Requests \ {r} : request'[p] = request[p],
           request[r].at \in {"turn", "xon"}, request'[r].at \notin {"turn", "xon"}
    PROVE  PlacesMatch' /\ DOMAIN waiting' = Accounts
<1>0. PICK a \in Accounts : a = request[r].who
  OBVIOUS
<1>1. ASSUME NEW b \in Accounts \ {a}
      PROVE  Places(b)' = Places(b) /\ waiting'[b] = waiting[b]
  BY <1>0 DEF Places
<1>2. Places(a)' = Places(a) \ {r} /\ r \in Places(a)
  BY <1>0 DEF Places
<1>3. IsFiniteSet(Places(a))
  BY BreachesIds, FS_Subset DEF Places
<1>4. waiting'[a] = Cardinality(Places(a)')
  BY <1>0, <1>2, <1>3, FS_RemoveElement DEF PlacesMatch
<1> QED
  BY <1>0, <1>1, <1>4 DEF PlacesMatch

(***************************************************************************)
(* A step of one half leaves the other                                     *)
(***************************************************************************)
XonAts == {"turn", "xon"}
MailAts == {"pace", "mail", "keep"}

LEMMA XonHalfStays ==
    ASSUME TimesOK, TimesOK', ToldOK, XonHalf, NEW r \in Requests, \A p \in Requests \ {r} : request'[p] = request[p],
           request[r].at \notin XonAts, request'[r].at \notin XonAts,
           clock' = clock, next' = next, waiting' = waiting, Same("xon"),
           \A p \in Requests \ {r} : IsHead(xonQueue, p) => IsHead(xonQueue', p)
    PROVE  XonHalf'
<1>1. \A p \in Requests : request'[p].at = "xon" <=> request[p].at = "xon"
  BY DEF XonAts
<1>2. clock <= clock' /\ next <= next'
  BY DEF TimesOK
<1>3. \A p \in Requests : request[p].at = "xon" => next' <= clock'
  BY DEF XonHalf, XonInv
<1>4. XonInv'
  BY <1>1, <1>2, <1>3, XonKeeps DEF XonHalf
<1>5. PlacesMatch'
  BY PlacesStay DEF XonHalf, XonAts
<1>6. \A p \in Requests : request'[p].at = "xon" => IsHead(xonQueue', p)
  BY <1>1 DEF XonHalf, XonAts
<1> QED
  BY <1>4, <1>5, <1>6 DEF XonHalf

LEMMA MailHalfStays ==
    ASSUME TimesOK, TimesOK', ToldOK, CountedOK, MailHalf, NEW r \in Requests, \A p \in Requests \ {r} : request'[p] = request[p],
           request[r].at # "mail", request'[r].at \notin MailAts,
           clock' = clock, last' = last, blockedUntil' = blockedUntil, counted' = counted, Same("mail"),
           \A p \in Requests \ {r} : IsHead(mailQueue, p) => IsHead(mailQueue', p)
    PROVE  MailHalf'
<1>1. \A p \in Requests : request'[p].at \in MailAts => p # r /\ request'[p] = request[p]
  BY DEF MailAts
<1>2. \A p \in Requests : request'[p].at = "mail" <=> request[p].at = "mail"
  BY <1>1 DEF MailAts
<1>3. clock <= clock' /\ clock' \in Nat
  BY DEF TimesOK
<1>4. ASSUME NEW p \in Requests, request'[p].at = "pace"
      PROVE  blockedUntil <= clock' /\ ~MustWait(request[p].who, counted)'
  <2>1. request'[p] = request[p] /\ request[p].at = "pace"
    BY <1>1, <1>4 DEF MailAts
  <2>2. ~MustWait(request[p].who, counted)
    BY <2>1 DEF MailHalf, MailInv
  <2> QED
    BY <1>3, <2>1, <2>2, MayStillAsk DEF MustWait, Within
<1>5. \A e \in counted : clock' - e.at < Day => e \in counted'
  OBVIOUS
<1>6. MailInv'
  BY <1>2, <1>3, <1>4, <1>5, MailKeeps DEF MailHalf
<1>7. \A p \in Requests : request'[p].at \in MailAts => IsHead(mailQueue', p)
  BY <1>1 DEF MailHalf, MailAts
<1> QED
  BY <1>6, <1>7 DEF MailHalf, MailAts

(***************************************************************************)
(* The steps                                                               *)
(***************************************************************************)
LEMMA NothingMoves ==
    ASSUME BreachesIInv, agreed' \in [Accounts -> BOOLEAN], request' = request,
           UNCHANGED <<clock, xonQueue, waiting, next, mailQueue, last, counted, blockedUntil, told>>
    PROVE  BreachesIInv'
<1>1. /\ clock' = clock /\ xonQueue' = xonQueue /\ waiting' = waiting /\ next' = next /\ mailQueue' = mailQueue
      /\ last' = last /\ counted' = counted /\ blockedUntil' = blockedUntil /\ told' = told
  OBVIOUS
<1>2. BreachesTypeOK'
  BY <1>1 DEF BreachesIInv, BreachesTypeOK, AskersOK, TimesOK, ToldOK, QueuesOK, CountedOK
<1>3. XonHalf'
  BY <1>1 DEF BreachesIInv, XonHalf, XonInv, AnsweredInv, XonIsNotRushed, PlacesMatch, Places, About
<1>4. MailHalf'
  <2>1. Same("mail") /\ TimesOK /\ TimesOK' /\ ToldOK /\ CountedOK /\ clock \in Nat /\ clock <= clock'
    BY <1>1, <1>2, SameStays DEF BreachesIInv, BreachesTypeOK, TimesOK
  <2>2. ASSUME NEW p \in Requests, request'[p].at = "pace"
        PROVE  blockedUntil <= clock' /\ ~MustWait(request[p].who, counted)'
    <3>1. ~MustWait(request[p].who, counted)
      BY <2>2 DEF BreachesIInv, MailHalf, MailInv
    <3> QED
      BY <1>1, <2>1, <3>1, MayStillAsk DEF MustWait, Within
  <2>3. MailInv'
    BY <1>1, <2>1, <2>2, MailKeeps DEF BreachesIInv, MailHalf
  <2> QED
    BY <1>1, <2>3 DEF BreachesIInv, MailHalf
<1> QED
  BY <1>2, <1>3, <1>4 DEF BreachesIInv

(* Who neither waits for XposedOrNot nor asks about an address, before and *)
(* after.                                                                  *)
LEMMA BreachQuietStep ==
    ASSUME BreachesIInv, NEW r \in Requests, NEW step, AnAsker(step), Does(r, step),
           request[r].at \notin XonAts, request[r].at # "mail", step.at \notin XonAts, step.at \notin MailAts,
           clock' = clock, waiting' = waiting, next' = next, last' = last,
           counted' = counted, blockedUntil' = blockedUntil, told' = told, agreed' = agreed,
           xonQueue' = xonQueue \/ xonQueue' = Without(xonQueue, r), mailQueue' \in Seq(Requests), \A p \in Requests \ {r} : IsHead(mailQueue, p) => IsHead(mailQueue', p)
    PROVE  BreachesIInv'
<1>1. AskersOK' /\ request'[r] = step /\ \A p \in Requests \ {r} : request'[p] = request[p]
  BY DoesFacts DEF BreachesIInv, BreachesTypeOK
<1>2. TimesOK /\ TimesOK' /\ ToldOK /\ ToldOK' /\ CountedOK /\ CountedOK'
  BY DEF BreachesIInv, BreachesTypeOK, TimesOK, ToldOK, CountedOK
<1>3. Same("xon") /\ Same("mail")
  BY SameStays
<1>4. QueuesOK' /\ \A p \in Requests \ {r} : IsHead(xonQueue, p) => IsHead(xonQueue', p)
  BY WithoutFacts DEF BreachesIInv, BreachesTypeOK, QueuesOK
<1>5. XonHalf'
  BY <1>1, <1>2, <1>3, <1>4, XonHalfStays DEF BreachesIInv
<1>6. MailHalf'
  BY <1>1, <1>2, <1>3, MailHalfStays DEF BreachesIInv
<1> QED
  BY <1>1, <1>2, <1>5, <1>6, <1>4 DEF BreachesIInv, BreachesTypeOK

LEMMA AskAtOnceStep ==
    ASSUME BreachesIInv, NEW r \in Requests, HibpRange(r) \/ ChangePassword(r)
    PROVE  BreachesIInv'
<1>1. PICK of \in {"hibp", "page"} : AskAtOnce(r, of)
  BY DEF HibpRange, ChangePassword
<1>2. PICK a \in Accounts, x \in Subjects :
          /\ request[r] = Ready /\ Does(r, [at |-> of, who |-> a, about |-> x])
          /\ UNCHANGED <<scene, harm, clock, on, kept, xonQueue, waiting, next, mailQueue, last, counted,
                         blockedUntil, agreed, answers, told, unpaid>>
  BY <1>1 DEF AskAtOnce
<1>3. PICK step : step = [at |-> of, who |-> a, about |-> x]
  OBVIOUS
<1>4. step \in AtOnceStep /\ step.at = of
  BY <1>3 DEF AtOnceStep
<1>5. AnAsker(step) /\ Does(r, step)
  BY <1>2, <1>3, <1>4 DEF AnAsker
<1>6. request[r].at = "idle" /\ step.at \notin XonAts /\ step.at \notin MailAts /\ "idle" \notin XonAts
  BY <1>2, <1>4 DEF Ready, XonAts, MailAts
<1>7. mailQueue' = mailQueue /\ mailQueue \in Seq(Requests)
  BY <1>2 DEF BreachesIInv, BreachesTypeOK, QueuesOK
<1> QED
  BY <1>2, <1>5, <1>6, <1>7, BreachQuietStep

LEMMA AtOnceAnsweredStep ==
    ASSUME BreachesIInv, NEW r \in Requests, RangeAnswered(r) \/ PageAnswered(r)
    PROVE  BreachesIInv'
<1>1. /\ request[r].at \in {"hibp", "page"} /\ Does(r, Ready)
      /\ UNCHANGED <<scene, asked, harm, clock, on, tries, xonQueue, waiting, next, mailQueue, last, counted,
                     blockedUntil, agreed, answers, told, unpaid>>
  BY DEF RangeAnswered, PageAnswered
<1>2. AnAsker(Ready) /\ Ready.at = "idle"
  BY DEF AnAsker, Ready
<1>3. /\ request[r].at \notin XonAts /\ request[r].at # "mail"
      /\ Ready.at \notin XonAts /\ Ready.at \notin MailAts
  BY <1>1, <1>2 DEF XonAts, MailAts
<1>4. mailQueue' = mailQueue /\ mailQueue \in Seq(Requests)
  BY <1>1 DEF BreachesIInv, BreachesTypeOK, QueuesOK
<1> QED
  BY <1>1, <1>2, <1>3, <1>4, BreachQuietStep

LEMMA EmailsStep ==
    ASSUME BreachesIInv, NEW r \in Requests, Emails(r)
    PROVE  BreachesIInv'
<1>1. PICK a \in Accounts, addresses \in SUBSET Subjects \ {{}} :
          /\ request[r] = Ready
          /\ Does(r, [at |-> "look", who |-> a, todo |-> addresses, missing |-> {}])
          /\ UNCHANGED <<mailRest, harm, mailQueue, last, counted, blockedUntil, agreed, answers, told>>
  BY DEF Emails
<1>2. PICK step : step = [at |-> "look", who |-> a, todo |-> addresses, missing |-> {}]
  OBVIOUS
<1>3. step \in BreachLookStep /\ step.at = "look"
  BY <1>2 DEF BreachLookStep
<1>4. AnAsker(step) /\ Does(r, step)
  BY <1>1, <1>2, <1>3 DEF AnAsker
<1>5. request[r].at = "idle" /\ step.at \notin XonAts /\ step.at \notin MailAts /\ "idle" \notin XonAts
  BY <1>1, <1>3 DEF Ready, XonAts, MailAts
<1>6. mailQueue' = mailQueue /\ mailQueue \in Seq(Requests)
  BY <1>1 DEF BreachesIInv, BreachesTypeOK, QueuesOK
<1>7. clock' = clock /\ xonQueue' = xonQueue /\ waiting' = waiting /\ next' = next
  BY <1>1 DEF mailRest
<1> QED
  BY <1>1, <1>4, <1>5, <1>6, <1>7, BreachQuietStep

LEMMA LookUpStep ==
    ASSUME BreachesIInv, NEW r \in Requests, LookUpAnswers(r)
    PROVE  BreachesIInv'
<1>0. PICK q : q = request[r]
  OBVIOUS
<1>1. AnAsker(q) /\ q.at = "look"
  BY <1>0 DEF LookUpAnswers, BreachesIInv, BreachesTypeOK, AskersOK
<1>2. q \in BreachLookStep
  BY <1>1, StepFacts
<1>3. q.who \in Accounts /\ q.todo \subseteq Subjects /\ q.missing \subseteq Subjects
  BY <1>2 DEF BreachLookStep
<1>4. PICK x \in q.todo :
          LET missing == q.missing \cup (IF IsAnswered(x) THEN {} ELSE {x}) IN
          IF q.todo # {x}
          THEN Does(r, [q EXCEPT !.todo = @ \ {x}, !.missing = missing]) /\ UNCHANGED mailQueue
          ELSE IF missing = {} THEN Does(r, Ready) /\ UNCHANGED mailQueue
          ELSE /\ Does(r, [at |-> "line", who |-> q.who, missing |-> missing, since |-> clock, done |-> 0])
               /\ mailQueue' = Append(mailQueue, r)
  BY <1>0 DEF LookUpAnswers
<1>5. PICK missing \in SUBSET Subjects : missing = q.missing \cup (IF IsAnswered(x) THEN {} ELSE {x})
  BY <1>3
<1>6. \/ Does(r, [q EXCEPT !.todo = @ \ {x}, !.missing = missing]) /\ mailQueue' = mailQueue
      \/ Does(r, Ready) /\ mailQueue' = mailQueue
      \/ /\ Does(r, [at |-> "line", who |-> q.who, missing |-> missing, since |-> clock, done |-> 0])
         /\ mailQueue' = Append(mailQueue, r)
  BY <1>4, <1>5
<1>7. clock \in Nat /\ mailQueue \in Seq(Requests)
  BY DEF BreachesIInv, BreachesTypeOK, TimesOK, QueuesOK
<1>8. \E step : AnAsker(step) /\ Does(r, step) /\ step.at \in {"look", "idle", "line"}
  <2>1. [q EXCEPT !.todo = @ \ {x}, !.missing = missing] \in BreachLookStep
    BY <1>2 DEF BreachLookStep
  <2>2. [at |-> "line", who |-> q.who, missing |-> missing, since |-> clock, done |-> 0] \in LineStep
    BY <1>3, <1>7 DEF LineStep
  <2>3. AnAsker(Ready) /\ Ready.at = "idle"
    BY DEF AnAsker, Ready
  <2>4. \A step \in BreachLookStep : step.at = "look" /\ AnAsker(step)
    BY DEF BreachLookStep, AnAsker
  <2>5. \A step \in LineStep : step.at = "line" /\ AnAsker(step)
    BY DEF LineStep, AnAsker
  <2> QED
    BY <1>6, <2>1, <2>2, <2>3, <2>4, <2>5
<1>9. PICK step : AnAsker(step) /\ Does(r, step) /\ step.at \in {"look", "idle", "line"}
  BY <1>8
<1>10. request[r].at \notin XonAts /\ request[r].at # "mail" /\ step.at \notin XonAts /\ step.at \notin MailAts
  BY <1>0, <1>1, <1>9 DEF XonAts, MailAts
<1>11. mailQueue' \in Seq(Requests) /\ \A p \in Requests \ {r} : IsHead(mailQueue, p) => IsHead(mailQueue', p)
  BY <1>6, <1>7, AppendFacts
<1>12. /\ clock' = clock /\ xonQueue' = xonQueue /\ waiting' = waiting /\ next' = next /\ last' = last
       /\ counted' = counted /\ blockedUntil' = blockedUntil /\ told' = told /\ agreed' = agreed
  BY DEF LookUpAnswers, mailRest
<1> QED
  BY <1>9, <1>10, <1>11, <1>12, BreachQuietStep

LEMMA MailGivesUpStep ==
    ASSUME BreachesIInv, NEW r \in Requests, MailGivesUp(r)
    PROVE  BreachesIInv'
<1>1. request[r].at = "line" /\ Does(r, Ready) /\ mailQueue' = Without(mailQueue, r)
  BY DEF MailGivesUp, LeaveLine
<1>2. AnAsker(Ready) /\ Ready.at = "idle"
  BY DEF AnAsker, Ready
<1>3. /\ request[r].at \notin XonAts /\ request[r].at # "mail"
      /\ Ready.at \notin XonAts /\ Ready.at \notin MailAts
  BY <1>1, <1>2 DEF XonAts, MailAts
<1>4. mailQueue \in Seq(Requests)
  BY DEF BreachesIInv, BreachesTypeOK, QueuesOK
<1>5. mailQueue' \in Seq(Requests) /\ \A p \in Requests \ {r} : IsHead(mailQueue, p) => IsHead(mailQueue', p)
  BY <1>1, <1>4, WithoutFacts
<1>6. /\ clock' = clock /\ xonQueue' = xonQueue /\ waiting' = waiting /\ next' = next /\ last' = last
      /\ counted' = counted /\ blockedUntil' = blockedUntil /\ told' = told /\ agreed' = agreed
  BY DEF MailGivesUp, mailRest
<1> QED
  BY <1>1, <1>2, <1>3, <1>5, <1>6, BreachQuietStep

(***************************************************************************)
(* The queue for passwords                                                 *)
(***************************************************************************)
LEMMA XonPasswordStep ==
    ASSUME BreachesIInv, NEW r \in Requests, XonPassword(r)
    PROVE  BreachesIInv'
<1>1. PICK a \in Accounts, x \in Subjects :
          /\ request[r] = Ready
          /\ \/ /\ Enter(a) /\ xonQueue' = Append(xonQueue, r)
                /\ Does(r, [at |-> "turn", who |-> a, about |-> x, since |-> clock, attempt |-> 0,
                            pause |-> 2 * Spacing])
             \/ waiting' = waiting /\ xonQueue' = xonQueue /\ request' = request
          /\ UNCHANGED <<xonRest, kept, next, told, unpaid>>
  BY DEF XonPassword
<1>2. /\ clock' = clock /\ next' = next /\ last' = last /\ mailQueue' = mailQueue
      /\ counted' = counted /\ blockedUntil' = blockedUntil /\ told' = told /\ agreed' = agreed
  BY <1>1 DEF xonRest
<1>3. CASE waiting' = waiting /\ xonQueue' = xonQueue /\ request' = request
  BY <1>2, <1>3, NothingMoves DEF BreachesIInv, BreachesTypeOK, ToldOK
<1>4. CASE /\ Enter(a) /\ xonQueue' = Append(xonQueue, r)
           /\ Does(r, [at |-> "turn", who |-> a, about |-> x, since |-> clock, attempt |-> 0, pause |-> 2 * Spacing])
  <2>1. PICK step : step = [at |-> "turn", who |-> a, about |-> x, since |-> clock, attempt |-> 0, pause |-> 2 * Spacing]
    OBVIOUS
  <2>2. clock \in Nat /\ 2 * Spacing \in Nat
    BY BreachesBounds DEF BreachesIInv, BreachesTypeOK, TimesOK
  <2>3. step \in XonStep /\ step.at = "turn" /\ step.who = a
    BY <2>1, <2>2 DEF XonStep
  <2>4. AnAsker(step)
    BY <2>3 DEF AnAsker
  <2>5. AskersOK' /\ request'[r] = step /\ \A p \in Requests \ {r} : request'[p] = request[p]
    BY <1>4, <2>1, <2>4, DoesFacts DEF BreachesIInv, BreachesTypeOK
  <2>6. request[r].at = "idle"
    BY <1>1 DEF Ready
  <2>7. TimesOK /\ TimesOK' /\ ToldOK /\ ToldOK' /\ CountedOK /\ CountedOK'
    BY <1>2 DEF BreachesIInv, BreachesTypeOK, TimesOK, ToldOK, CountedOK
  <2>8. Same("xon") /\ Same("mail")
    BY <1>2, SameStays
  <2>9. PlacesMatch' /\ DOMAIN waiting' = Accounts
    BY <1>4, <2>3, <2>5, <2>6, PlaceTaken DEF Enter, BreachesIInv, BreachesTypeOK, QueuesOK, XonHalf
  <2>10. \A p \in Requests : request'[p].at = "xon" <=> request[p].at = "xon"
    BY <2>3, <2>5, <2>6
  <2>11. clock <= clock' /\ next <= next'
    BY <1>2, <2>7 DEF TimesOK
  <2>12. \A p \in Requests : request[p].at = "xon" => next' <= clock'
    BY <1>2 DEF BreachesIInv, XonHalf, XonInv
  <2>13. XonInv'
    BY <2>7, <2>8, <2>10, <2>11, <2>12, XonKeeps DEF BreachesIInv, XonHalf
  <2>14. xonQueue \in Seq(Requests) /\ mailQueue \in Seq(Requests)
    BY DEF BreachesIInv, BreachesTypeOK, QueuesOK
  <2>15. xonQueue' \in Seq(Requests) /\ \A p \in Requests : IsHead(xonQueue, p) => IsHead(xonQueue', p)
    BY <1>4, <2>14, AppendFacts
  <2>16. XonHalf'
    BY <2>9, <2>10, <2>13, <2>15 DEF BreachesIInv, XonHalf
  <2>17. request[r].at # "mail" /\ request'[r].at \notin MailAts
    BY <2>3, <2>5, <2>6 DEF MailAts
  <2>18. MailHalf'
    BY <1>2, <2>5, <2>7, <2>8, <2>17, MailHalfStays DEF BreachesIInv
  <2> QED
    BY <1>2, <2>5, <2>7, <2>9, <2>14, <2>15, <2>16, <2>18 DEF BreachesIInv, BreachesTypeOK, QueuesOK
<1> QED
  BY <1>1, <1>3, <1>4

(* Leaving the queue, when what was told and when the next may follow are  *)
(* known to be right.                                                      *)
LEMMA LeavesQueue ==
    ASSUME BreachesIInv, NEW r \in Requests, request[r].at \in XonAts, LeaveQueue(r),
           TimesOK', ToldOK', XonInv', Same("mail"), clock' = clock, last' = last,
           mailQueue' = mailQueue \/ mailQueue' = Without(mailQueue, r),
           counted' = counted, blockedUntil' = blockedUntil
    PROVE  BreachesIInv'
<1>1. AnAsker(Ready) /\ Ready.at = "idle"
  BY DEF AnAsker, Ready
<1>2. /\ waiting' = [waiting EXCEPT ![request[r].who] = @ - 1]
      /\ xonQueue' = Without(xonQueue, r) /\ Does(r, Ready)
  BY DEF LeaveQueue
<1>3. AskersOK' /\ request'[r] = Ready /\ \A p \in Requests \ {r} : request'[p] = request[p]
  BY <1>1, <1>2, DoesFacts DEF BreachesIInv, BreachesTypeOK
<1>4. AnAsker(request[r]) /\ request[r] # Ready
  BY <1>1 DEF BreachesIInv, BreachesTypeOK, AskersOK, XonAts
<1>5. request[r].who \in Accounts
  BY <1>4, StepFacts
<1>6. PlacesMatch' /\ DOMAIN waiting' = Accounts
  BY <1>1, <1>2, <1>3, <1>5, PlaceLeft DEF XonAts, BreachesIInv, BreachesTypeOK, QueuesOK, XonHalf
<1>7. xonQueue \in Seq(Requests) /\ mailQueue \in Seq(Requests)
  BY DEF BreachesIInv, BreachesTypeOK, QueuesOK
<1>8. xonQueue' \in Seq(Requests) /\ \A p \in Requests \ {r} : IsHead(xonQueue, p) => IsHead(xonQueue', p)
  BY <1>2, <1>7, WithoutFacts
<1>9. ASSUME NEW p \in Requests, request'[p].at = "xon"
      PROVE  IsHead(xonQueue', p)
  <2>1. p # r /\ request[p].at = "xon"
    BY <1>1, <1>3, <1>9
  <2> QED
    BY <1>8, <2>1 DEF BreachesIInv, XonHalf
<1>10. XonHalf'
  BY <1>6, <1>9 DEF XonHalf
<1>11. request[r].at # "mail" /\ request'[r].at \notin MailAts
  BY <1>1, <1>3 DEF XonAts, MailAts
<1>12. TimesOK /\ ToldOK /\ CountedOK /\ CountedOK'
  BY DEF BreachesIInv, BreachesTypeOK, CountedOK
<1>13. mailQueue' \in Seq(Requests) /\ \A p \in Requests \ {r} : IsHead(mailQueue, p) => IsHead(mailQueue', p)
  BY <1>7, WithoutFacts
<1>14. MailHalf'
  BY <1>3, <1>11, <1>12, <1>13, MailHalfStays DEF BreachesIInv
<1> QED
  BY <1>3, <1>6, <1>13, <1>8, <1>10, <1>12, <1>14 DEF BreachesIInv, BreachesTypeOK, QueuesOK

(* Nobody else asks while one does, or may.                                *)
LEMMA OneAsks ==
    ASSUME BreachesIInv, NEW r \in Requests, IsHead(xonQueue, r), NEW p \in Requests, request[p].at = "xon"
    PROVE  p = r
BY OneHead DEF BreachesIInv, XonHalf

LEMMA XonBusyStep ==
    ASSUME BreachesIInv, NEW r \in Requests, XonBusy(r)
    PROVE  BreachesIInv'
<1>1. request[r].at = "turn" /\ LeaveQueue(r)
  BY DEF XonBusy, Busy
<1>2. /\ clock' = clock /\ next' = next /\ last' = last /\ mailQueue' = mailQueue
      /\ counted' = counted /\ blockedUntil' = blockedUntil /\ told' = told /\ agreed' = agreed
  BY DEF XonBusy, Busy, xonRest
<1>3. TimesOK /\ TimesOK' /\ ToldOK /\ ToldOK' /\ Same("xon") /\ Same("mail")
  BY <1>2, SameStays DEF BreachesIInv, BreachesTypeOK, TimesOK, ToldOK
<1>4. AnAsker(Ready) /\ Ready.at = "idle"
  BY DEF AnAsker, Ready
<1>5. request'[r] = Ready /\ \A p \in Requests \ {r} : request'[p] = request[p]
  BY <1>1, <1>4, DoesFacts DEF LeaveQueue, BreachesIInv, BreachesTypeOK
<1>6. \A p \in Requests : request'[p].at = "xon" <=> request[p].at = "xon"
  BY <1>1, <1>4, <1>5
<1>7. clock <= clock' /\ next <= next'
  BY <1>2, <1>3 DEF TimesOK
<1>8. \A p \in Requests : request[p].at = "xon" => next' <= clock'
  BY <1>2 DEF BreachesIInv, XonHalf, XonInv
<1>9. XonInv'
  BY <1>3, <1>6, <1>7, <1>8, XonKeeps DEF BreachesIInv, XonHalf
<1> QED
  BY <1>1, <1>2, <1>3, <1>9, LeavesQueue DEF XonAts

LEMMA XonAsksStep ==
    ASSUME BreachesIInv, NEW r \in Requests, XonAsks(r)
    PROVE  BreachesIInv'
<1>0. PICK q : q = request[r]
  OBVIOUS
<1>1. q.at = "turn" /\ IsHead(xonQueue, r) /\ next <= clock /\ Does(r, [q EXCEPT !.at = "xon"])
  BY <1>0 DEF XonAsks
<1>2. PICK e : e = [to |-> "xon", who |-> q.who, about |-> q.about, at |-> clock, until |-> None, agreed |-> TRUE]
  OBVIOUS
<1>3. told' = Append(told, e)
  BY <1>0, <1>2 DEF XonAsks
<1>4. /\ clock' = clock /\ xonQueue' = xonQueue /\ waiting' = waiting /\ next' = next /\ last' = last
      /\ mailQueue' = mailQueue /\ counted' = counted /\ blockedUntil' = blockedUntil /\ agreed' = agreed
  BY DEF XonAsks, xonRest
<1>5. q \in XonStep
  BY <1>0, <1>1, StepFacts DEF BreachesIInv, BreachesTypeOK, AskersOK
<1>6. PICK step : step = [q EXCEPT !.at = "xon"]
  OBVIOUS
<1>7. step \in XonStep /\ step.at = "xon" /\ step.who = q.who /\ q.who \in Accounts /\ q.about \in Subjects
  BY <1>5, <1>6 DEF XonStep
<1>8. AnAsker(step) /\ Does(r, step)
  BY <1>1, <1>6, <1>7 DEF AnAsker
<1>9. AskersOK' /\ request'[r] = step /\ \A p \in Requests \ {r} : request'[p] = request[p]
  BY <1>8, DoesFacts DEF BreachesIInv, BreachesTypeOK
<1>10. TimesOK /\ TimesOK' /\ ToldOK /\ CountedOK /\ CountedOK' /\ QueuesOK'
  BY <1>4 DEF BreachesIInv, BreachesTypeOK, TimesOK, CountedOK, QueuesOK
<1>11. e \in Question /\ e.to = "xon" /\ e.at = clock /\ e.until = None
  BY <1>2, <1>7, <1>10 DEF Question, TimesOK, QuestionTimes
<1>12. \A p \in Requests : request[p].at # "xon"
  BY <1>0, <1>1, OneAsks
<1>13. XonInv' /\ ToldOK' /\ \A to : to # "xon" => Same(to)
  BY <1>1, <1>3, <1>4, <1>7, <1>9, <1>10, <1>11, <1>12, XonGoesOut DEF BreachesIInv, XonHalf
<1>14. PlacesMatch'
  BY <1>0, <1>1, <1>4, <1>7, <1>9, PlacesStay DEF BreachesIInv, XonHalf
<1>15. \A p \in Requests : request'[p].at = "xon" => IsHead(xonQueue', p)
  BY <1>1, <1>4, <1>9, <1>12
<1>16. XonHalf'
  BY <1>13, <1>14, <1>15 DEF XonHalf
<1>17. request[r].at # "mail" /\ request'[r].at \notin MailAts
  BY <1>0, <1>1, <1>7, <1>9 DEF MailAts
<1>18. MailHalf'
  BY <1>4, <1>9, <1>10, <1>13, <1>17, MailHalfStays DEF BreachesIInv
<1> QED
  BY <1>9, <1>10, <1>13, <1>16, <1>18 DEF BreachesIInv, BreachesTypeOK

LEMMA XonAnswersStep ==
    ASSUME BreachesIInv, NEW r \in Requests, request[r].at = "xon", next' = clock + Spacing, Answered("xon", clock + Spacing),
           LeaveQueue(r), UNCHANGED xonRest
    PROVE  BreachesIInv'
<1>1. /\ clock' = clock /\ last' = last /\ mailQueue' = mailQueue
      /\ counted' = counted /\ blockedUntil' = blockedUntil /\ agreed' = agreed
  BY DEF xonRest
<1>2. TimesOK /\ ToldOK /\ clock \in Nat /\ next \in Nat /\ Spacing \in Nat
  BY BreachesBounds DEF BreachesIInv, BreachesTypeOK, TimesOK
<1>3. next' \in Nat /\ next <= next'
  <2>1. next <= clock
    BY DEF BreachesIInv, XonHalf, XonInv
  <2> QED
    BY <1>2, <2>1
<1>4. TimesOK'
  BY <1>1, <1>3 DEF BreachesIInv, BreachesTypeOK, TimesOK
<1>5. AnAsker(Ready) /\ Ready.at = "idle"
  BY DEF AnAsker, Ready
<1>6. request'[r] = Ready /\ \A p \in Requests \ {r} : request'[p] = request[p]
  BY <1>5, DoesFacts DEF LeaveQueue, BreachesIInv, BreachesTypeOK
<1>7. IsHead(xonQueue, r)
  BY DEF BreachesIInv, XonHalf
<1>8. \A p \in Requests : request'[p].at # "xon"
  BY <1>5, <1>6, <1>7, OneAsks
<1>9. clock + Spacing \in Nat /\ clock + Spacing <= next'
  BY <1>2
<1>10. XonInv' /\ ToldOK' /\ \A to : to # "xon" => Same(to)
  BY <1>1, <1>2, <1>3, <1>4, <1>8, <1>9, XonIsAnswered DEF BreachesIInv, XonHalf
<1> QED
  BY <1>1, <1>4, <1>10, LeavesQueue DEF XonAts

LEMMA PauseFacts ==
    ASSUME NEW pause \in Nat, NEW retryAfter \in Nat \cup {None}
    PROVE  PauseAfter(retryAfter, pause) \in Nat
<1>1. PICK x \in Nat : x = IF retryAfter = None THEN pause ELSE retryAfter
  OBVIOUS
<1>2. PICK m : m = Max({Spacing, x})
  OBVIOUS
<1>3. Spacing \in Nat /\ LongestPause \in Nat
  BY BreachesBounds
<1>4. m \in Nat
  <2>1. \E y \in {Spacing, x} : \A z \in {Spacing, x} : y >= z
    BY <1>3
  <2> QED
    BY <1>2, <1>3, <2>1 DEF Max
<1>5. PICK n : n = Min({LongestPause, m})
  OBVIOUS
<1>6. n \in Nat
  <2>1. \E y \in {LongestPause, m} : \A z \in {LongestPause, m} : y <= z
    BY <1>3, <1>4
  <2> QED
    BY <1>3, <1>4, <1>5, <2>1 DEF Min
<1> QED
  BY <1>1, <1>2, <1>5, <1>6 DEF PauseAfter

(* Refused, it stays first in the queue, and the queue pauses.             *)
LEMMA XonPauses ==
    ASSUME BreachesIInv, NEW r \in Requests, request[r].at = "xon", NEW from \in Nat, clock <= from, next' = from,
           Answered("xon", from), Does(r, [request[r] EXCEPT !.at = "turn", !.attempt = @ + 1, !.pause = 2 * @]),
           waiting' = waiting, xonQueue' = xonQueue, UNCHANGED xonRest
    PROVE  BreachesIInv'
<1>1. /\ clock' = clock /\ last' = last /\ mailQueue' = mailQueue
      /\ counted' = counted /\ blockedUntil' = blockedUntil /\ agreed' = agreed
  BY DEF xonRest
<1>2. TimesOK /\ ToldOK /\ CountedOK /\ CountedOK' /\ QueuesOK' /\ clock \in Nat /\ next \in Nat
  BY <1>1 DEF BreachesIInv, BreachesTypeOK, TimesOK, CountedOK, QueuesOK
<1>3. next' \in Nat /\ next <= next'
  <2>1. next <= clock
    BY DEF BreachesIInv, XonHalf, XonInv
  <2> QED
    BY <1>2, <2>1
<1>4. TimesOK'
  BY <1>1, <1>3 DEF BreachesIInv, BreachesTypeOK, TimesOK
<1>5. PICK q : q = request[r]
  OBVIOUS
<1>6. q \in XonStep
  BY <1>5, StepFacts DEF BreachesIInv, BreachesTypeOK, AskersOK
<1>7. PICK step : step = [q EXCEPT !.at = "turn", !.attempt = @ + 1, !.pause = 2 * @]
  OBVIOUS
<1>8. step \in XonStep /\ step.at = "turn" /\ step.who = q.who
  <2>1. PICK m \in Nat : m = q.attempt + 1
    BY <1>6 DEF XonStep
  <2>2. PICK n \in Nat : n = 2 * q.pause
    <3>1. q.pause \in Nat
      BY <1>6 DEF XonStep
    <3> QED
      BY <3>1
  <2>3. step = [q EXCEPT !.at = "turn", !.attempt = m, !.pause = n]
    BY <1>7, <2>1, <2>2
  <2> QED
    BY <1>6, <2>3 DEF XonStep
<1>9. AnAsker(step) /\ Does(r, step)
  BY <1>5, <1>7, <1>8 DEF AnAsker
<1>10. AskersOK' /\ request'[r] = step /\ \A p \in Requests \ {r} : request'[p] = request[p]
  BY <1>9, DoesFacts DEF BreachesIInv, BreachesTypeOK
<1>11. IsHead(xonQueue, r)
  BY DEF BreachesIInv, XonHalf
<1>12. \A p \in Requests : request'[p].at # "xon"
  BY <1>8, <1>10, <1>11, OneAsks
<1>13. from <= next'
  OBVIOUS
<1>14. XonInv' /\ ToldOK' /\ \A to : to # "xon" => Same(to)
  BY <1>1, <1>2, <1>3, <1>4, <1>12, <1>13, XonIsAnswered DEF BreachesIInv, XonHalf
<1>15. PlacesMatch'
  BY <1>5, <1>8, <1>10, PlacesStay DEF BreachesIInv, XonHalf
<1>16. XonHalf'
  BY <1>12, <1>14, <1>15 DEF XonHalf
<1>17. request[r].at # "mail" /\ request'[r].at \notin MailAts
  BY <1>8, <1>10 DEF MailAts
<1>18. MailHalf'
  BY <1>1, <1>2, <1>4, <1>10, <1>14, <1>17, MailHalfStays DEF BreachesIInv
<1> QED
  BY <1>2, <1>4, <1>10, <1>14, <1>16, <1>18 DEF BreachesIInv, BreachesTypeOK

LEMMA XonRefusesStep ==
    ASSUME BreachesIInv, NEW r \in Requests, XonRefuses(r)
    PROVE  BreachesIInv'
<1>1. request[r].at = "xon" /\ UNCHANGED xonRest
  BY DEF XonRefuses
<1>2. PICK retryAfter \in {None, 0, LongestPause, LongestPause + 1} :
          IF request[r].attempt >= Retries
          THEN /\ next' = clock + Spacing /\ Answered("xon", clock + Spacing)
               /\ LeaveQueue(r)
          ELSE LET from == clock + PauseAfter(retryAfter, request[r].pause) IN
               /\ next' = from /\ Answered("xon", from)
               /\ Does(r, [request[r] EXCEPT !.at = "turn", !.attempt = @ + 1, !.pause = 2 * @])
               /\ UNCHANGED <<waiting, xonQueue>>
  BY DEF XonRefuses
<1>3. CASE request[r].attempt >= Retries
  BY <1>1, <1>2, <1>3, XonAnswersStep
<1>4. CASE ~(request[r].attempt >= Retries)
  <2>1. request[r].pause \in Nat
    <3>1. request[r] \in XonStep
      BY <1>1, StepFacts DEF BreachesIInv, BreachesTypeOK, AskersOK
    <3> QED
      BY <3>1 DEF XonStep
  <2>2. retryAfter \in Nat \cup {None}
    BY BreachesBounds
  <2>3. PICK n \in Nat : n = PauseAfter(retryAfter, request[r].pause)
    BY <2>1, <2>2, PauseFacts
  <2>4. PICK from : from = clock + n
    OBVIOUS
  <2>5. from \in Nat /\ clock <= from
    BY <2>4 DEF BreachesIInv, BreachesTypeOK, TimesOK
  <2>6. /\ next' = from /\ Answered("xon", from)
        /\ Does(r, [request[r] EXCEPT !.at = "turn", !.attempt = @ + 1, !.pause = 2 * @])
        /\ waiting' = waiting /\ xonQueue' = xonQueue
    BY <1>2, <1>4, <2>3, <2>4
  <2> QED
    BY <1>1, <2>5, <2>6, XonPauses
<1> QED
  BY <1>3, <1>4

(***************************************************************************)
(* The line for addresses                                                  *)
(***************************************************************************)
LEMMA OneInLine ==
    ASSUME BreachesIInv, NEW r \in Requests, IsHead(mailQueue, r), NEW p \in Requests, request[p].at \in MailAts
    PROVE  p = r
BY OneHead DEF BreachesIInv, MailHalf, MailAts

(* The head looks at the budget, and forgets what is a day old.            *)
LEMMA BudgetRead ==
    ASSUME BreachesIInv, NEW r \in Requests, request[r].at = "line", IsHead(mailQueue, r), counted' = Within(Day, counted),
           NEW step, AnAsker(step), Does(r, step), step.at \in {"idle", "pace"},
           step.at = "pace" => ~MustWait(step.who, counted') /\ mailQueue' = mailQueue,
           mailQueue' = mailQueue \/ mailQueue' = Without(mailQueue, r),
           clock' = clock, next' = next, waiting' = waiting, xonQueue' = xonQueue, last' = last,
           blockedUntil' = blockedUntil, told' = told, agreed' = agreed
    PROVE  BreachesIInv'
<1>1. AskersOK' /\ request'[r] = step /\ \A p \in Requests \ {r} : request'[p] = request[p]
  BY DoesFacts DEF BreachesIInv, BreachesTypeOK
<1>2. TimesOK /\ TimesOK' /\ ToldOK /\ ToldOK' /\ mailQueue \in Seq(Requests)
  BY DEF BreachesIInv, BreachesTypeOK, TimesOK, ToldOK, QueuesOK
<1>3. CountedOK'
  BY FS_Subset DEF BreachesIInv, BreachesTypeOK, CountedOK, Within
<1>4. QueuesOK'
  BY <1>2, WithoutFacts DEF BreachesIInv, BreachesTypeOK, QueuesOK
<1>5. Same("xon") /\ Same("mail")
  BY SameStays
<1>6. request[r].at \notin XonAts /\ request'[r].at \notin XonAts
  BY <1>1 DEF XonAts
<1>7. XonHalf'
  BY <1>1, <1>2, <1>5, <1>6, XonHalfStays DEF BreachesIInv
<1>8. ASSUME NEW p \in Requests, request'[p].at \in MailAts
      PROVE  p = r /\ request'[p].at = "pace"
  <2>1. p = r
    BY <1>1, <1>8, OneInLine
  <2> QED
    BY <1>1, <1>8, <2>1 DEF MailAts
<1>9. \A p \in Requests : request'[p].at = "mail" <=> request[p].at = "mail"
  <2>1. \A p \in Requests : request'[p].at # "mail"
    BY <1>8 DEF MailAts
  <2>2. \A p \in Requests : request[p].at # "mail"
    BY OneInLine DEF MailAts
  <2> QED
    BY <2>1, <2>2
<1>10. ASSUME NEW p \in Requests, request'[p].at = "pace"
       PROVE  blockedUntil <= clock' /\ ~MustWait(request[p].who, counted)'
  <2>1. p = r
    BY <1>8, <1>10 DEF MailAts
  <2>2. ~MustWait(step.who, counted') /\ request'[p].who = step.who
    BY <1>1, <1>10, <2>1
  <2>3. ~MustWait(request[p].who, counted)'
    BY <2>2 DEF MustWait, Within
  <2>4. ~(blockedUntil > clock)
    BY <2>2 DEF MustWait
  <2> QED
    BY <1>2, <2>3, <2>4 DEF TimesOK
<1>11. \A e \in counted : clock' - e.at < Day => e \in counted'
  BY DEF Within
<1>12. clock <= clock'
  BY <1>2 DEF TimesOK
<1>13. MailInv'
  BY <1>2, <1>5, <1>9, <1>10, <1>11, <1>12, MailKeeps DEF BreachesIInv, MailHalf
<1>14. \A p \in Requests : request'[p].at \in MailAts => IsHead(mailQueue', p)
  BY <1>1, <1>8
<1>15. MailHalf'
  BY <1>13, <1>14 DEF MailHalf, MailAts
<1> QED
  BY <1>1, <1>2, <1>3, <1>4, <1>7, <1>15 DEF BreachesIInv, BreachesTypeOK

LEMMA NextAddressStep ==
    ASSUME BreachesIInv, NEW r \in Requests, NextAddress(r)
    PROVE  BreachesIInv'
<1>1. PICK q : q = request[r]
  OBVIOUS
<1>2. q.at = "line" /\ IsHead(mailQueue, r) /\ counted' = Within(Day, counted)
  BY <1>1 DEF NextAddress
<1>3. q \in LineStep
  BY <1>1, <1>2, StepFacts DEF BreachesIInv, BreachesTypeOK, AskersOK
<1>4. q.who \in Accounts /\ q.missing \subseteq Subjects /\ q.since \in Nat /\ q.done \in Nat
  BY <1>3 DEF LineStep
<1>5. /\ clock' = clock /\ xonQueue' = xonQueue /\ waiting' = waiting /\ next' = next /\ last' = last
      /\ blockedUntil' = blockedUntil /\ told' = told /\ agreed' = agreed
  BY DEF NextAddress, mailRest
<1>6. CASE LeaveLine(r)
  <2>1. AnAsker(Ready) /\ Ready.at = "idle"
    BY DEF AnAsker, Ready
  <2>2. Does(r, Ready) /\ mailQueue' = Without(mailQueue, r)
    BY <1>6 DEF LeaveLine
  <2> QED
    BY <1>1, <1>2, <1>5, <2>1, <2>2, BudgetRead
<1>7. CASE /\ ~MustWait(q.who, counted') /\ mailQueue' = mailQueue
           /\ \E x \in q.missing : Does(r, [at |-> "pace", who |-> q.who, missing |-> q.missing, about |-> x,
                                            since |-> q.since, done |-> q.done])
  <2>1. PICK x \in q.missing : Does(r, [at |-> "pace", who |-> q.who, missing |-> q.missing, about |-> x,
                                        since |-> q.since, done |-> q.done])
    BY <1>7
  <2>2. PICK step : step = [at |-> "pace", who |-> q.who, missing |-> q.missing, about |-> x, since |-> q.since,
                            done |-> q.done]
    OBVIOUS
  <2>3. step \in MailStep /\ step.at = "pace" /\ step.who = q.who
    BY <1>4, <2>2 DEF MailStep
  <2>4. AnAsker(step) /\ Does(r, step)
    BY <2>1, <2>2, <2>3 DEF AnAsker
  <2> QED
    BY <1>1, <1>2, <1>5, <1>7, <2>3, <2>4, BudgetRead
<1> QED
  BY <1>1, <1>2, <1>6, <1>7 DEF NextAddress

LEMMA MailAsksStep ==
    ASSUME BreachesIInv, NEW r \in Requests, MailAsks(r)
    PROVE  BreachesIInv'
<1>1. PICK q : q = request[r]
  OBVIOUS
<1>2. /\ q.at = "pace" /\ (last # None => clock >= last + Spacing) /\ last' = clock
      /\ counted' = counted \cup {[who |-> q.who, at |-> clock]}
      /\ Does(r, [q EXCEPT !.at = "mail"])
  BY <1>1 DEF MailAsks
<1>3. q \in MailStep
  BY <1>1, <1>2, StepFacts DEF BreachesIInv, BreachesTypeOK, AskersOK
<1>4. PICK e : e = [to |-> "mail", who |-> q.who, about |-> q.about, at |-> clock, until |-> None, agreed |-> agreed[q.who]]
  OBVIOUS
<1>5. told' = Append(told, e)
  BY <1>1, <1>4 DEF MailAsks
<1>6. /\ clock' = clock /\ xonQueue' = xonQueue /\ waiting' = waiting /\ next' = next /\ mailQueue' = mailQueue
      /\ blockedUntil' = blockedUntil /\ agreed' = agreed
  BY DEF MailAsks, mailRest
<1>7. PICK step : step = [q EXCEPT !.at = "mail"]
  OBVIOUS
<1>8. step \in MailStep /\ step.at = "mail" /\ q.who \in Accounts /\ q.about \in Subjects
  BY <1>3, <1>7 DEF MailStep
<1>9. AnAsker(step) /\ Does(r, step)
  BY <1>2, <1>7, <1>8 DEF AnAsker
<1>10. AskersOK' /\ request'[r] = step /\ \A p \in Requests \ {r} : request'[p] = request[p]
  BY <1>9, DoesFacts DEF BreachesIInv, BreachesTypeOK
<1>11. clock \in Nat /\ agreed[q.who] \in BOOLEAN
  BY <1>8 DEF BreachesIInv, BreachesTypeOK, TimesOK, ToldOK
<1>12. TimesOK /\ TimesOK' /\ ToldOK /\ QueuesOK' /\ CountedOK
  BY <1>2, <1>6, <1>11 DEF BreachesIInv, BreachesTypeOK, TimesOK, QueuesOK, QuestionTimes
<1>13. CountedOK'
  <2>1. PICK m : m = [who |-> q.who, at |-> clock]
    OBVIOUS
  <2>2. m \in [who : Accounts, at : Nat] /\ counted' = counted \cup {m}
    BY <1>2, <1>8, <1>11, <2>1
  <2> QED
    BY <1>12, <2>2, FS_AddElement DEF CountedOK
<1>14. e \in Question /\ e.to = "mail" /\ e.at = clock /\ e.until = None /\ e.who = q.who
  BY <1>4, <1>8, <1>11 DEF Question, QuestionTimes
<1>15. IsHead(mailQueue, r)
  BY <1>1, <1>2 DEF BreachesIInv, MailHalf
<1>16. \A p \in Requests : request[p].at # "mail"
  BY <1>1, <1>2, <1>15, OneInLine DEF MailAts
<1>17. \A p \in Requests : request'[p].at # "pace"
  BY <1>8, <1>10, <1>15, OneInLine DEF MailAts
<1>18. MailInv' /\ ToldOK' /\ \A to : to # "mail" => Same(to)
  BY <1>1, <1>2, <1>5, <1>6, <1>8, <1>10, <1>12, <1>14, <1>16, <1>17, MailGoesOut DEF BreachesIInv, MailHalf
<1>19. \A p \in Requests : request'[p].at \in MailAts => IsHead(mailQueue', p)
  BY <1>6, <1>10, <1>15, OneInLine
<1>20. MailHalf'
  BY <1>18, <1>19 DEF MailHalf, MailAts
<1>21. request[r].at \notin XonAts /\ request'[r].at \notin XonAts
  BY <1>1, <1>2, <1>8, <1>10 DEF XonAts
<1>22. XonHalf'
  BY <1>6, <1>10, <1>12, <1>18, <1>21, XonHalfStays DEF BreachesIInv
<1> QED
  BY <1>10, <1>12, <1>13, <1>18, <1>20, <1>22 DEF BreachesIInv, BreachesTypeOK

(* The question out is answered, refused or given up.                      *)
LEMMA AddressAnswered ==
    ASSUME BreachesIInv, NEW r \in Requests, request[r].at = "mail", NEW step, AnAsker(step), Does(r, step),
           step.at \in {"keep", "line", "idle"}, step.at = "keep" => mailQueue' = mailQueue,
           mailQueue' = mailQueue \/ mailQueue' = Without(mailQueue, r),
           xonQueue' = xonQueue \/ xonQueue' = Without(xonQueue, r),
           NEW until \in Nat, Answered("mail", until), until <= clock \/ until <= blockedUntil',
           blockedUntil' \in Nat, blockedUntil <= blockedUntil',
           clock' = clock, next' = next, waiting' = waiting, last' = last, counted' = counted, agreed' = agreed
    PROVE  BreachesIInv'
<1>1. AskersOK' /\ request'[r] = step /\ \A p \in Requests \ {r} : request'[p] = request[p]
  BY DoesFacts DEF BreachesIInv, BreachesTypeOK
<1>2. TimesOK /\ TimesOK' /\ ToldOK /\ CountedOK' /\ xonQueue \in Seq(Requests) /\ mailQueue \in Seq(Requests)
  BY DEF BreachesIInv, BreachesTypeOK, TimesOK, CountedOK, QueuesOK
<1>3. QueuesOK' /\ \A p \in Requests \ {r} : IsHead(xonQueue, p) => IsHead(xonQueue', p)
  BY <1>2, WithoutFacts DEF BreachesIInv, BreachesTypeOK, QueuesOK
<1>4. IsHead(mailQueue, r)
  BY DEF BreachesIInv, MailHalf
<1>5. ASSUME NEW p \in Requests, request'[p].at \in MailAts
      PROVE  p = r /\ request'[p].at = "keep"
  <2>1. p = r
    BY <1>1, <1>4, <1>5, OneInLine
  <2> QED
    BY <1>1, <1>5, <2>1 DEF MailAts
<1>6. \A p \in Requests : request'[p].at \notin {"pace", "mail"}
  BY <1>5 DEF MailAts
<1>7. MailInv' /\ ToldOK' /\ \A to : to # "mail" => Same(to)
  BY <1>2, <1>6, MailIsAnswered DEF BreachesIInv, MailHalf
<1>8. \A p \in Requests : request'[p].at \in MailAts => IsHead(mailQueue', p)
  BY <1>1, <1>4, <1>5
<1>9. MailHalf'
  BY <1>7, <1>8 DEF MailHalf, MailAts
<1>10. request[r].at \notin XonAts /\ request'[r].at \notin XonAts
  BY <1>1 DEF XonAts
<1>11. XonHalf'
  BY <1>1, <1>2, <1>3, <1>7, <1>10, XonHalfStays DEF BreachesIInv
<1> QED
  BY <1>1, <1>2, <1>3, <1>7, <1>9, <1>11 DEF BreachesIInv, BreachesTypeOK

LEMMA GoesOnFacts ==
    ASSUME BreachesIInv, NEW r \in Requests, request[r].at \in MailAts, GoesOn(r)
    PROVE  /\ \E step : AnAsker(step) /\ Does(r, step) /\ step.at \in {"line", "idle"}
           /\ mailQueue' = mailQueue \/ mailQueue' = Without(mailQueue, r)
<1>1. PICK q : q = request[r]
  OBVIOUS
<1>2. q \in MailStep
  BY <1>1, StepFacts DEF MailAts, BreachesIInv, BreachesTypeOK, AskersOK
<1>3. CASE LeaveLine(r)
  <2>1. AnAsker(Ready) /\ Ready.at = "idle"
    BY DEF AnAsker, Ready
  <2> QED
    BY <1>3, <2>1 DEF LeaveLine
<1>4. CASE /\ Does(r, [at |-> "line", who |-> q.who, missing |-> q.missing \ {q.about}, since |-> q.since, done |-> q.done + 1])
           /\ UNCHANGED mailQueue
  <2>1. PICK step : step = [at |-> "line", who |-> q.who, missing |-> q.missing \ {q.about}, since |-> q.since, done |-> q.done + 1]
    OBVIOUS
  <2>2. step \in LineStep /\ step.at = "line"
    BY <1>2, <2>1 DEF MailStep, LineStep
  <2> QED
    BY <1>4, <2>1, <2>2 DEF AnAsker
<1> QED
  BY <1>1, <1>3, <1>4 DEF GoesOn

LEMMA MailAnswersStep ==
    ASSUME BreachesIInv, NEW r \in Requests, MailAnswers(r)
    PROVE  BreachesIInv'
<1>1. PICK q : q = request[r]
  OBVIOUS
<1>2. q.at = "mail" /\ Answered("mail", clock)
  BY <1>1 DEF MailAnswers
<1>3. /\ clock' = clock /\ xonQueue' = xonQueue /\ waiting' = waiting /\ next' = next /\ last' = last
      /\ counted' = counted /\ blockedUntil' = blockedUntil /\ agreed' = agreed
  BY DEF MailAnswers, mailRest
<1>4. clock \in Nat /\ clock <= clock /\ blockedUntil' \in Nat /\ blockedUntil <= blockedUntil'
  BY <1>3 DEF BreachesIInv, BreachesTypeOK, TimesOK
<1>5. CASE Does(r, [q EXCEPT !.at = "keep"]) /\ UNCHANGED mailQueue
  <2>1. PICK step : step = [q EXCEPT !.at = "keep"]
    OBVIOUS
  <2>2. q \in MailStep
    BY <1>1, <1>2, StepFacts DEF BreachesIInv, BreachesTypeOK, AskersOK
  <2>3. step \in MailStep /\ step.at = "keep"
    BY <2>1, <2>2 DEF MailStep
  <2>4. AnAsker(step) /\ Does(r, step)
    BY <1>5, <2>1, <2>3 DEF AnAsker
  <2> QED
    BY <1>1, <1>2, <1>3, <1>4, <1>5, <2>3, <2>4, AddressAnswered
<1>6. CASE GoesOn(r)
  <2>1. request[r].at \in MailAts
    BY <1>1, <1>2 DEF MailAts
  <2>2. PICK step : AnAsker(step) /\ Does(r, step) /\ step.at \in {"line", "idle"}
    BY <1>6, <2>1, GoesOnFacts
  <2>3. mailQueue' = mailQueue \/ mailQueue' = Without(mailQueue, r)
    BY <1>6, <2>1, GoesOnFacts
  <2> QED
    BY <1>1, <1>2, <1>3, <1>4, <2>2, <2>3, AddressAnswered
<1> QED
  BY <1>1, <1>5, <1>6 DEF MailAnswers

LEMMA MailRefusesStep ==
    ASSUME BreachesIInv, NEW r \in Requests, MailRefuses(r)
    PROVE  BreachesIInv'
<1>1. /\ request[r].at = "mail" /\ blockedUntil' = clock + Hour /\ Answered("mail", clock + Hour)
      /\ Does(r, Ready) /\ mailQueue' = Without(mailQueue, r)
  BY DEF MailRefuses, LeaveLine
<1>2. /\ clock' = clock /\ xonQueue' = xonQueue /\ waiting' = waiting /\ next' = next /\ last' = last
      /\ counted' = counted /\ agreed' = agreed
  BY DEF MailRefuses, mailRest
<1>3. AnAsker(Ready) /\ Ready.at = "idle"
  BY DEF AnAsker, Ready
<1>4. clock \in Nat /\ Hour \in Nat /\ blockedUntil \in Nat /\ blockedUntil <= clock
  BY <1>1, BreachesBounds DEF BreachesIInv, BreachesTypeOK, TimesOK, MailHalf, MailInv
<1>5. clock + Hour \in Nat /\ clock + Hour <= blockedUntil' /\ blockedUntil' \in Nat /\ blockedUntil <= blockedUntil'
  BY <1>1, <1>4
<1> QED
  BY <1>1, <1>2, <1>3, <1>5, AddressAnswered

LEMMA KeepAnswerStep ==
    ASSUME BreachesIInv, NEW r \in Requests, KeepAnswer(r)
    PROVE  BreachesIInv'
<1>1. request[r].at = "keep" /\ GoesOn(r)
  BY DEF KeepAnswer
<1>2. /\ clock' = clock /\ xonQueue' = xonQueue /\ waiting' = waiting /\ next' = next /\ last' = last
      /\ counted' = counted /\ blockedUntil' = blockedUntil /\ told' = told /\ agreed' = agreed
  BY DEF KeepAnswer, mailRest
<1>3. request[r].at \in MailAts
  BY <1>1 DEF MailAts
<1>4. PICK step : AnAsker(step) /\ Does(r, step) /\ step.at \in {"line", "idle"}
  BY <1>1, <1>3, GoesOnFacts
<1>5. mailQueue' = mailQueue \/ mailQueue' = Without(mailQueue, r)
  BY <1>1, <1>3, GoesOnFacts
<1>6. mailQueue' \in Seq(Requests) /\ \A p \in Requests \ {r} : IsHead(mailQueue, p) => IsHead(mailQueue', p)
  BY <1>5, WithoutFacts DEF BreachesIInv, BreachesTypeOK, QueuesOK
<1>7. request[r].at \notin XonAts /\ request[r].at # "mail" /\ step.at \notin XonAts /\ step.at \notin MailAts
  BY <1>1, <1>4 DEF XonAts, MailAts
<1> QED
  BY <1>2, <1>4, <1>6, <1>7, BreachQuietStep

LEMMA AskerHangsUpStep ==
    ASSUME BreachesIInv, NEW r \in Requests, AskerHangsUp(r)
    PROVE  BreachesIInv'
<1>1. PICK q : q = request[r]
  OBVIOUS
<1>2. /\ Does(r, Ready)
      /\ xonQueue' = Without(xonQueue, r) /\ mailQueue' = Without(mailQueue, r)
      /\ waiting' = IF q.at \in {"turn", "xon"} THEN [waiting EXCEPT ![q.who] = @ - 1] ELSE waiting
      /\ IF q.at \in {"xon", "mail"} THEN Answered(q.at, 0) ELSE UNCHANGED told
  BY <1>1 DEF AskerHangsUp
<1>3. /\ clock' = clock /\ next' = next /\ last' = last
      /\ counted' = counted /\ blockedUntil' = blockedUntil /\ agreed' = agreed
  BY DEF AskerHangsUp
<1>4. AnAsker(Ready) /\ Ready.at = "idle"
  BY DEF AnAsker, Ready
<1>5. TimesOK /\ TimesOK' /\ ToldOK /\ 0 \in Nat /\ clock \in Nat /\ next \in Nat /\ blockedUntil \in Nat
  BY <1>3 DEF BreachesIInv, BreachesTypeOK, TimesOK
<1>6. request'[r] = Ready /\ \A p \in Requests \ {r} : request'[p] = request[p]
  BY <1>2, <1>4, DoesFacts DEF BreachesIInv, BreachesTypeOK
<1>7. CASE q.at \in XonAts
  <2>1. LeaveQueue(r)
    BY <1>1, <1>2, <1>7 DEF LeaveQueue, XonAts
  <2>2. CASE q.at = "turn"
    <3>1. told' = told
      BY <1>2, <2>2
    <3>2. ToldOK' /\ Same("xon") /\ Same("mail")
      BY <1>3, <1>5, <3>1, SameStays DEF ToldOK
    <3>3. \A p \in Requests : request'[p].at = "xon" <=> request[p].at = "xon"
      BY <1>1, <1>4, <1>6, <2>2
    <3>4. clock <= clock' /\ next <= next'
      BY <1>3, <1>5
    <3>5. \A p \in Requests : request[p].at = "xon" => next' <= clock'
      BY <1>3 DEF BreachesIInv, XonHalf, XonInv
    <3>6. XonInv'
      BY <1>5, <3>2, <3>3, <3>4, <3>5, XonKeeps DEF BreachesIInv, XonHalf
    <3> QED
      BY <1>1, <1>2, <1>3, <1>5, <1>7, <2>1, <3>2, <3>6, LeavesQueue
  <2>3. CASE q.at = "xon"
    <3>1. Answered("xon", 0)
      BY <1>2, <2>3
    <3>2. IsHead(xonQueue, r)
      BY <1>1, <2>3 DEF BreachesIInv, XonHalf
    <3>3. \A p \in Requests : request'[p].at # "xon"
      BY <1>4, <1>6, <3>2, OneAsks
    <3>4. 0 <= next' /\ next <= next'
      BY <1>3, <1>5
    <3>5. XonInv' /\ ToldOK' /\ \A to : to # "xon" => Same(to)
      BY <1>1, <1>3, <1>5, <2>3, <3>1, <3>3, <3>4, XonIsAnswered DEF BreachesIInv, XonHalf
    <3> QED
      BY <1>1, <1>2, <1>3, <1>5, <1>7, <2>1, <3>5, LeavesQueue
  <2> QED
    BY <1>7, <2>2, <2>3 DEF XonAts
<1>8. CASE q.at = "mail"
  <2>1. Answered("mail", 0) /\ waiting' = waiting
    BY <1>2, <1>8
  <2>2. 0 <= clock /\ blockedUntil' \in Nat /\ blockedUntil <= blockedUntil'
    BY <1>3, <1>5
  <2> QED
    BY <1>1, <1>2, <1>3, <1>4, <1>5, <1>8, <2>1, <2>2, AddressAnswered
<1>9. CASE q.at \notin XonAts /\ q.at # "mail"
  <2>1. told' = told /\ waiting' = waiting
    BY <1>2, <1>9 DEF XonAts
  <2>2. mailQueue' \in Seq(Requests) /\ \A p \in Requests \ {r} : IsHead(mailQueue, p) => IsHead(mailQueue', p)
    BY <1>2, WithoutFacts DEF BreachesIInv, BreachesTypeOK, QueuesOK
  <2>3. Ready.at \notin XonAts /\ Ready.at \notin MailAts
    BY <1>4 DEF XonAts, MailAts
  <2> QED
    BY <1>1, <1>2, <1>3, <1>4, <1>9, <2>1, <2>2, <2>3, BreachQuietStep
<1> QED
  BY <1>7, <1>8, <1>9

LEMMA TickStep ==
    ASSUME BreachesIInv, BreachesTick
    PROVE  BreachesIInv'
<1>1. /\ clock' = clock + 1 /\ request' = request /\ xonQueue' = xonQueue /\ waiting' = waiting /\ next' = next
      /\ mailQueue' = mailQueue /\ last' = last /\ counted' = counted /\ blockedUntil' = blockedUntil
      /\ told' = told /\ agreed' = agreed
  BY DEF BreachesTick
<1>2. BreachesTypeOK'
  BY <1>1 DEF BreachesIInv, BreachesTypeOK, AskersOK, TimesOK, ToldOK, QueuesOK, CountedOK
<1>3. /\ Same("xon") /\ Same("mail") /\ TimesOK /\ TimesOK' /\ ToldOK /\ CountedOK /\ clock \in Nat /\ clock' \in Nat
      /\ next \in Nat /\ clock <= clock' /\ next <= next'
  BY <1>1, <1>2, SameStays DEF BreachesIInv, BreachesTypeOK, TimesOK
<1>4. \A p \in Requests : request[p].at = "xon" => next' <= clock'
  <2>1. \A p \in Requests : request[p].at = "xon" => next <= clock
    BY DEF BreachesIInv, XonHalf, XonInv
  <2> QED
    BY <1>1, <1>3, <2>1
<1>5. XonInv'
  BY <1>1, <1>3, <1>4, XonKeeps DEF BreachesIInv, XonHalf
<1>6. PlacesMatch'
  BY <1>1 DEF BreachesIInv, XonHalf, PlacesMatch, Places
<1>7. XonHalf'
  BY <1>1, <1>5, <1>6 DEF BreachesIInv, XonHalf
<1>8. ASSUME NEW p \in Requests, request'[p].at = "pace"
      PROVE  blockedUntil <= clock' /\ ~MustWait(request[p].who, counted)'
  <2>1. ~MustWait(request[p].who, counted)
    BY <1>1, <1>8 DEF BreachesIInv, MailHalf, MailInv
  <2> QED
    BY <1>1, <1>3, <2>1, MayStillAsk DEF MustWait, Within
<1>9. MailInv'
  BY <1>1, <1>3, <1>8, MailKeeps DEF BreachesIInv, MailHalf
<1>10. MailHalf'
  BY <1>1, <1>9 DEF BreachesIInv, MailHalf
<1> QED
  BY <1>2, <1>7, <1>10 DEF BreachesIInv

(* Nobody asks, waits or has asked.                                        *)
LEMMA NobodyAsks ==
    ASSUME clock \in Nat, request = [r \in Requests |-> Ready], xonQueue = <<>>, waiting = [a \in Accounts |-> 0],
           next \in Nat, mailQueue = <<>>, last = None, counted = {}, blockedUntil = 0, told = <<>>,
           agreed \in [Accounts -> BOOLEAN]
    PROVE  BreachesIInv
<1>1. \A r \in Requests : request[r].at = "idle" /\ AnAsker(request[r])
  BY DEF AnAsker, Ready
<1>2. IsFiniteSet({}) /\ Cardinality({}) = 0
  BY FS_EmptySet
<1>3. BreachesTypeOK
  BY <1>1, <1>2 DEF BreachesTypeOK, AskersOK, TimesOK, ToldOK, QueuesOK, CountedOK, QuestionTimes
<1>4. About("xon") = {} /\ About("mail") = {}
  BY DEF About
<1>5. PlacesMatch
  <2>1. \A a \in Accounts : Places(a) = {}
    BY <1>1 DEF Places
  <2> QED
    BY <1>2, <2>1 DEF PlacesMatch
<1>6. XonHalf
  BY <1>1, <1>4, <1>5 DEF XonHalf, XonInv, AnsweredInv, XonIsNotRushed
<1>7. MailHalf
  BY <1>1, <1>4 DEF MailHalf, MailInv, AnsweredInv, BudgetKept
<1> QED
  BY <1>3, <1>6, <1>7 DEF BreachesIInv

LEMMA BreachesBegin ==
    ASSUME BreachesInit
    PROVE  BreachesIInv
<1>1. agreed \in [Accounts -> BOOLEAN]
  BY DEF BreachesInit
<1> QED
  BY <1>1, NobodyAsks DEF BreachesInit

LEMMA BreachStopStep ==
    ASSUME BreachesIInv, BreachesStop
    PROVE  BreachesIInv'
<1>1. clock' \in Nat /\ next' \in Nat /\ agreed' \in [Accounts -> BOOLEAN]
  BY DEF BreachesStop, BreachesIInv, BreachesTypeOK, TimesOK, ToldOK
<1>2. \A r \in Requests : request'[r].at = "idle" /\ AnAsker(request'[r])
  BY DEF BreachesStop, AnAsker, Ready
<1>3. IsFiniteSet({}) /\ Cardinality({}) = 0
  BY FS_EmptySet
<1>4. BreachesTypeOK'
  BY <1>1, <1>2, <1>3 DEF BreachesStop, BreachesTypeOK, AskersOK, TimesOK, ToldOK, QueuesOK, CountedOK, QuestionTimes
<1>5. About("xon")' = {} /\ About("mail")' = {}
  BY NobodyTold DEF BreachesStop
<1>6. PlacesMatch'
  <2>1. \A a \in Accounts : Places(a)' = {} /\ waiting'[a] = 0
    BY <1>2 DEF Places, BreachesStop
  <2> QED
    BY <1>3, <2>1 DEF PlacesMatch
<1>7. XonHalf'
  BY <1>2, <1>5, <1>6 DEF XonHalf, XonInv, AnsweredInv, XonIsNotRushed
<1>8. last' = None
  BY DEF BreachesStop
<1>9. MailHalf'
  BY <1>2, <1>5, <1>8 DEF MailHalf, MailInv, AnsweredInv, BudgetKept
<1> QED
  BY <1>4, <1>7, <1>9 DEF BreachesIInv

LEMMA AdminsStep ==
    ASSUME BreachesIInv, (\E a \in Accounts : SetOptIn(a)) \/ PruneAnswers \/ Off
    PROVE  BreachesIInv'
<1>1. agreed \in [Accounts -> BOOLEAN]
  BY DEF BreachesIInv, BreachesTypeOK, ToldOK
<1>2. ASSUME NEW a \in Accounts, SetOptIn(a)
      PROVE  BreachesIInv'
  <2>1. PICK b \in BOOLEAN : b = ~agreed[a]
    OBVIOUS
  <2>2. agreed' = [agreed EXCEPT ![a] = b]
    BY <1>2, <2>1 DEF SetOptIn
  <2>3. agreed' \in [Accounts -> BOOLEAN]
    BY <1>1, <2>2
  <2> QED
    BY <1>2, <2>3, NothingMoves DEF SetOptIn, mailRest
<1>3. CASE PruneAnswers
  BY <1>1, <1>3, NothingMoves DEF PruneAnswers, mailRest
<1>4. CASE Off
  BY <1>1, <1>4, NothingMoves DEF Off, questions
<1> QED
  BY <1>2, <1>3, <1>4

LEMMA BreachesStep ==
    ASSUME BreachesIInv, BreachesNext
    PROVE  BreachesIInv'
<1>1. ASSUME NEW r \in Requests, XonAnswers(r)
      PROVE  BreachesIInv'
  BY <1>1, XonAnswersStep DEF XonAnswers
<1>2. ASSUME NEW r \in Requests,
             \/ HibpRange(r) \/ ChangePassword(r) \/ RangeAnswered(r) \/ PageAnswered(r)
             \/ XonPassword(r) \/ XonBusy(r) \/ XonAsks(r) \/ XonAnswers(r) \/ XonRefuses(r)
             \/ Emails(r) \/ LookUpAnswers(r) \/ MailGivesUp(r) \/ NextAddress(r) \/ MailAsks(r)
             \/ MailAnswers(r) \/ MailRefuses(r) \/ KeepAnswer(r)
             \/ AskerHangsUp(r)
      PROVE  BreachesIInv'
  BY <1>1, <1>2, AskAtOnceStep, AtOnceAnsweredStep, XonPasswordStep, XonBusyStep, XonAsksStep, XonRefusesStep,
     EmailsStep, LookUpStep, MailGivesUpStep, NextAddressStep, MailAsksStep, MailAnswersStep, MailRefusesStep,
     KeepAnswerStep, AskerHangsUpStep
<1>3. CASE (\E a \in Accounts : SetOptIn(a)) \/ PruneAnswers \/ Off
  BY <1>3, AdminsStep
<1> QED
  BY <1>2, <1>3, BreachStopStep, TickStep DEF BreachesNext

LEMMA BreachesStutter ==
    ASSUME BreachesIInv, UNCHANGED breachesVars
    PROVE  BreachesIInv'
<1>1. agreed' \in [Accounts -> BOOLEAN]
  BY DEF BreachesIInv, BreachesTypeOK, ToldOK, breachesVars
<1> QED
  BY <1>1, NothingMoves DEF breachesVars, questions

(* docs/uwu-api.md 15.2 and 15.4, breaches.rs QueuePlace: whoever waits,   *)
(* gives up, is refused or hangs up, and for any accounts, requests, waits *)
(* and limits, XposedOrNot is not asked before it wants to be, an account  *)
(* has as many places in the queue as requests that take one, and what     *)
(* went out about addresses is within each share.                          *)
THEOREM QuestionsAreKept == BreachesSpec => []QuestionsInv
<1>1. BreachesInit => BreachesIInv
  BY BreachesBegin
<1>2. BreachesIInv /\ [BreachesNext]_breachesVars => BreachesIInv'
  BY BreachesStep, BreachesStutter
<1>3. BreachesIInv => QuestionsInv
  BY DEF BreachesIInv, XonHalf, XonInv, MailHalf, MailInv, QuestionsInv
<1> QED
  BY <1>1, <1>2, <1>3, PTL DEF BreachesSpec

(***************************************************************************)
(* Mirrors                                                                 *)
(***************************************************************************)
Begun == [at : Nat, ended : Endings \cup {None}]
SourcesOf(l) == {Sources(l)[i] : i \in DOMAIN Sources(l)}
Queues == {<<"hibp", "xon">>, <<"xon">>, <<"twofa">>, <<"library">>}
MayLoad(S) == [at : {"load"}, list : Lists, todo : Queues, got : CopiesOf(S), then : {"get", "errors", "fetched"}]
MayLock == [at : {"lock"}, list : Lists]
MayAsk == [at : {"ask", "write"}, list : Lists, todo : Queues, errors : BOOLEAN, edition : Found]

(* What a request of a list may be at, in the order of its sources, and    *)
(* what a refresh knows of breached sites.                                 *)
InOrder(q) == q.todo = Sources(q.list) \/ (q.list = "sites" /\ q.todo = <<"xon">>)
MayBe(q) ==
    \/ q = Ready
    \/ q \in MayLock
    \/ q \in MayAsk /\ InOrder(q) /\ (q.at = "write" => q.edition \in Nat)
    \/ /\ q.at = "load" /\ q \in MayLoad(IF q.todo = <<"xon">> THEN {"hibp"} ELSE {}) /\ InOrder(q)
       /\ q.then # "get" => q.list = "sites"

MirrorsTypeOK ==
    /\ clock \in Nat /\ edition \in Nat \ {0} /\ failed \in Found /\ mixed \subseteq Lists
    /\ file \in [AllSources -> Found] /\ lock \in [Lists -> Tasks \cup {None}]
    /\ DOMAIN copy = Lists /\ \A l \in Lists : copy[l] \in CopiesOf(SourcesOf(l)) \cup {None}
    /\ began \in Seq(Begun)
    /\ DOMAIN request = Tasks /\ \A r \in Tasks : MayBe(request[r])

(* Who has a list's lock, and nobody else, is between taking it and its    *)
(* end.                                                                    *)
Refreshes(q, l) ==
    /\ q # Ready /\ q.list = l
    /\ q.at \in {"ask", "write"} \/ (q.at = "load" /\ q.then # "get")
LockInv == \A l \in Lists, r \in Tasks : lock[l] = r <=> Refreshes(request[r], l)

(* A file written is there for good: a refresh without an error finds it.  *)
(* What was read so far is what the files say.                             *)
Finds(q) ==
    /\ q.at \in {"ask", "write"} /\ q.list = "sites" /\ q.todo = <<"xon">> /\ ~q.errors => file["hibp"] # None
    /\ q.at = "load" /\ q.then = "fetched" => /\ file["hibp"] # None /\ file["xon"] # None
                                              /\ \A s \in DOMAIN q.got : q.got[s] # None
    /\ q.at = "load" /\ q.list \notin mixed => \A s \in DOMAIN q.got : q.got[s] = file[s]
FoundInv == \A r \in Tasks : Finds(request[r])

(* What is handed out is.                                                  *)
CopyInv ==
    \A l \in Lists \ mixed : copy[l] # None =>
        /\ \E s \in SourcesOf(l) : file[s] # None
        /\ \/ l = "sites" /\ lock["sites"] # None
           \/ \A s \in SourcesOf(l) : copy[l][s] = file[s]

BeganInv ==
    /\ failed # None => failed <= clock
    /\ \A i \in DOMAIN began :
          /\ began[i].at <= clock
          /\ began[i].ended = None => i = Len(began) /\ lock["sites"] \in Requests
          /\ began[i].ended = "got" => copy["sites"] # None
          /\ began[i].ended = "failed" => failed # None /\ failed >= began[i].at
    /\ lock["sites"] \in Requests => began # <<>> /\ began[Len(began)].ended = None
    /\ NotAskedAgain

(* An update only goes on, and what is opened is there.                    *)
MayDownload ==
    \/ download = NotRunning \/ download = [at |-> "look"]
    \/ /\ download \in [at : {"city", "asn", "month", "open"}, month : Nat \ {0}]
       /\ download.month <= edition
GeoTypeOK ==
    /\ geo \in [city : Found, asn : Found, month : Found] /\ opened \in Databases \cup {None}
    /\ MayDownload /\ edition \in Nat \ {0}
GeoInv ==
    "forget" \notin scene.asks =>
        /\ forgetting = None
        /\ geo.month # None => /\ geo.month <= edition /\ geo.city # None /\ geo.city >= geo.month
                               /\ geo.asn # None /\ geo.asn >= geo.month
                               /\ opened # None \/ download.at = "open"
                               /\ download.at \in {"city", "asn", "month"} => geo.month <= download.month
        /\ download.at \in {"asn", "month"} => geo.city = download.month
        /\ download.at = "month" => geo.asn = download.month

ListsInv == MirrorsTypeOK /\ LockInv /\ FoundInv /\ CopyInv /\ BeganInv
MirrorsIInv == ListsInv /\ GeoTypeOK /\ GeoInv

LEMMA SourceFacts ==
    /\ Sources("sites") = <<"hibp", "xon">> /\ Sources("twofa") = <<"twofa">> /\ Sources("library") = <<"library">>
    /\ SourcesOf("sites") = {"hibp", "xon"} /\ SourcesOf("twofa") = {"twofa"} /\ SourcesOf("library") = {"library"}
    /\ Head(<<"hibp", "xon">>) = "hibp" /\ Tail(<<"hibp", "xon">>) = <<"xon">>
    /\ \A s \in AllSources : Head(<<s>>) = s /\ Tail(<<s>>) = <<>> /\ <<s>> # <<>> /\ <<s>> # <<"hibp", "xon">>
    /\ <<"twofa">> # <<"xon">> /\ <<"library">> # <<"xon">>
    /\ Lists = {"sites", "twofa", "library"}
<1>1. DOMAIN <<"hibp", "xon">> = {1, 2} /\ DOMAIN <<"twofa">> = {1} /\ DOMAIN <<"library">> = {1}
  OBVIOUS
<1>2. Sources("sites") = <<"hibp", "xon">> /\ Sources("twofa") = <<"twofa">> /\ Sources("library") = <<"library">>
  BY DEF Sources
<1>3. SourcesOf("sites") = {"hibp", "xon"} /\ SourcesOf("twofa") = {"twofa"} /\ SourcesOf("library") = {"library"}
  BY <1>1, <1>2 DEF SourcesOf
<1>4. Head(<<"hibp", "xon">>) = "hibp" /\ Tail(<<"hibp", "xon">>) = <<"xon">>
  OBVIOUS
<1>5. ASSUME NEW s \in AllSources
      PROVE  Head(<<s>>) = s /\ Tail(<<s>>) = <<>> /\ <<s>> # <<>> /\ <<s>> # <<"hibp", "xon">>
  OBVIOUS
<1>6. <<"twofa">> # <<"xon">> /\ <<"library">> # <<"xon">>
  OBVIOUS
<1> QED
  BY <1>2, <1>3, <1>4, <1>5, <1>6 DEF Lists

(* What a request may turn to.                                             *)
LEMMA MayBeReady == MayBe(Ready)
BY DEF MayBe

LEMMA MayBeLocking ==
    ASSUME NEW l \in Lists
    PROVE  MayBe([at |-> "lock", list |-> l])
BY DEF MayBe, MayLock

LEMMA MayBeReading ==
    ASSUME NEW l \in Lists, NEW then \in {"get", "errors", "fetched"}, then # "get" => l = "sites"
    PROVE  /\ MayBe(Reading(l, Sources(l), then))
           /\ DOMAIN Reading(l, Sources(l), then).got = {}
<1>1. DEFINE q == Reading(l, Sources(l), then)
<1>2. Sources(l) \in Queues /\ Sources(l) # <<"xon">>
  BY SourceFacts DEF Queues, AllSources
<1>3. [s \in {} |-> None] \in CopiesOf({})
  BY DEF CopiesOf
<1>4. q \in MayLoad({})
  BY <1>2, <1>3 DEF Reading, MayLoad
<1>5. q.at = "load" /\ q.list = l /\ q.todo = Sources(l) /\ q.then = then /\ q.got = [s \in {} |-> None]
  BY DEF Reading
<1>6. MayBe(q)
  BY <1>2, <1>4, <1>5 DEF MayBe, InOrder
<1> QED
  BY <1>5, <1>6

LEMMA MayBeAsking ==
    ASSUME NEW l \in Lists, NEW todo, todo = Sources(l) \/ (l = "sites" /\ todo = <<"xon">>), NEW errors \in BOOLEAN
    PROVE  MayBe([at |-> "ask", list |-> l, todo |-> todo, errors |-> errors, edition |-> None])
<1>1. DEFINE q == [at |-> "ask", list |-> l, todo |-> todo, errors |-> errors, edition |-> None]
<1>2. todo \in Queues
  BY SourceFacts DEF Queues
<1>3. q \in MayAsk
  BY <1>2 DEF MayAsk, Found
<1> QED
  BY <1>3 DEF MayBe, InOrder

(* A request takes a step: the others stay as they are.                    *)
LEMMA OneSteps ==
    ASSUME MirrorsTypeOK, NEW r \in Tasks, NEW step, MayBe(step), Does(r, step)
    PROVE  /\ DOMAIN request' = Tasks /\ \A p \in Tasks : MayBe(request'[p])
           /\ \A p \in Tasks : request'[p] = IF p = r THEN step ELSE request[p]
BY DEF MirrorsTypeOK, Does

(* A step that neither takes nor gives back a lock, and fetches nothing.   *)
LEMMA QuietStep ==
    ASSUME ListsInv, NEW r \in Tasks, NEW step, MayBe(step), Does(r, step),
           \A l \in Lists : Refreshes(step, l) <=> Refreshes(request[r], l),
           Finds(step), UNCHANGED <<clock, edition, file, copy, lock, failed, began, mixed>>
    PROVE  ListsInv'
<1>1. MirrorsTypeOK
  BY DEF ListsInv
<1>2. DOMAIN request' = Tasks /\ \A p \in Tasks : MayBe(request'[p])
  BY <1>1, OneSteps
<1>3. \A p \in Tasks : request'[p] = IF p = r THEN step ELSE request[p]
  BY <1>1, OneSteps
<1>4. MirrorsTypeOK'
  BY <1>1, <1>2 DEF MirrorsTypeOK
<1>5. LockInv'
  BY <1>3 DEF ListsInv, LockInv
<1>6. FoundInv'
  <2> SUFFICES ASSUME NEW p \in Tasks
               PROVE  Finds(request[p])'
    BY DEF FoundInv
  <2>1. Finds(request[p]) /\ Finds(step)
    BY DEF ListsInv, FoundInv
  <2> QED
    BY <1>3, <2>1 DEF Finds
<1>7. CopyInv' /\ BeganInv'
  BY DEF ListsInv, CopyInv, BeganInv, NotAskedAgain
<1> QED
  BY <1>4, <1>5, <1>6, <1>7 DEF ListsInv

LEMMA GetStep ==
    ASSUME ListsInv, NEW r \in Tasks, Get(r)
    PROVE  ListsInv'
<1>1. PICK l \in Lists : /\ request[r] = Ready /\ Does(r, Reading(l, Sources(l), "get"))
                         /\ UNCHANGED <<clock, edition, file, copy, lock, failed, began, mixed>>
  BY DEF Get, geoip
<1>2. DEFINE step == Reading(l, Sources(l), "get")
<1>3. MayBe(step) /\ DOMAIN step.got = {}
  BY MayBeReading
<1>4. step.at = "load" /\ step.then = "get" /\ step # Ready
  BY DEF Reading, Ready
<1>5. Finds(step)
  BY <1>3, <1>4 DEF Finds
<1>6. \A k \in Lists : Refreshes(step, k) <=> Refreshes(request[r], k)
  BY <1>1, <1>4 DEF Refreshes
<1> QED
  BY <1>1, <1>3, <1>5, <1>6, QuietStep

LEMMA RefreshStep ==
    ASSUME ListsInv, Refresh
    PROVE  ListsInv'
<1>1. PICK l \in Lists : /\ request[Daily] = Ready /\ Does(Daily, [at |-> "lock", list |-> l])
                         /\ UNCHANGED <<clock, edition, file, copy, lock, failed, began, mixed>>
  BY DEF Refresh, geoip
<1>2. DEFINE step == [at |-> "lock", list |-> l]
<1>3. MayBe(step) /\ step.at = "lock" /\ Daily \in Tasks
  BY MayBeLocking DEF Tasks
<1>5. Finds(step)
  BY <1>3 DEF Finds
<1>6. \A k \in Lists : Refreshes(step, k) <=> Refreshes(request[Daily], k)
  BY <1>1, <1>3 DEF Refreshes
<1> QED
  BY <1>1, <1>3, <1>5, <1>6, QuietStep

LEMMA FetchStep ==
    ASSUME ListsInv, NEW r \in Tasks, Fetch(r)
    PROVE  ListsInv'
<1>1. DEFINE q == request[r]
<1>2. MayBe(q) /\ edition \in Nat /\ Finds(q)
  BY DEF ListsInv, MirrorsTypeOK, FoundInv
<1>3. q.at = "ask" /\ UNCHANGED <<clock, edition, file, copy, lock, failed, began, mixed>>
  BY DEF Fetch, geoip
<1>4. q \in MayAsk /\ InOrder(q)
  BY <1>2, <1>3 DEF MayBe, Ready, MayLock
<1>5. PICK step : step = [q EXCEPT !.at = "write", !.edition = edition]
  OBVIOUS
<1>6. Does(r, step)
  BY <1>5 DEF Fetch
<1>7. /\ step \in MayAsk /\ step.at = "write" /\ step.edition = edition
      /\ step.list = q.list /\ step.todo = q.todo
  BY <1>2, <1>4, <1>5 DEF MayAsk, Found
<1>8. step.errors = q.errors
  BY <1>4, <1>5 DEF MayAsk
<1>9. MayBe(step)
  BY <1>2, <1>4, <1>7 DEF MayBe, InOrder
<1>10. Finds(step)
  BY <1>2, <1>3, <1>7, <1>8 DEF Finds
<1>11. \A k \in Lists : Refreshes(step, k) <=> Refreshes(q, k)
  BY <1>3, <1>7 DEF Refreshes, Ready
<1> QED
  BY <1>3, <1>6, <1>9, <1>10, <1>11, QuietStep

(* With a list's lock given back, nobody else has it.                      *)
LEMMA Unlocked ==
    ASSUME ListsInv, NEW r \in Tasks, NEW step, MayBe(step), Does(r, step), request[r] # Ready,
           step.at \in {"idle", "lock"}, Unlocks(r, request[r].list)
    PROVE  /\ LockInv' /\ lock' \in [Lists -> Tasks \cup {None}] /\ request[r].list \in Lists
           /\ \A l \in Lists : lock'[l] = IF lock[l] = r THEN None ELSE lock[l]
<1>1. MirrorsTypeOK /\ LockInv
  BY DEF ListsInv
<1>2. MayBe(request[r])
  BY <1>1 DEF MirrorsTypeOK
<1>3. request[r].list \in Lists
  BY <1>2 DEF MayBe, MayLoad, MayLock, MayAsk
<1>4. \A l \in Lists : lock[l] = r => l = request[r].list
  BY <1>1 DEF LockInv, Refreshes
<1>5. lock' \in [Lists -> Tasks \cup {None}] /\ \A l \in Lists : lock'[l] = IF lock[l] = r THEN None ELSE lock[l]
  BY <1>1, <1>3, <1>4 DEF Unlocks, MirrorsTypeOK
<1>6. \A p \in Tasks : request'[p] = IF p = r THEN step ELSE request[p]
  BY <1>1, OneSteps
<1>7. \A l \in Lists : ~Refreshes(step, l)
  BY DEF Refreshes
<1>8. LockInv'
  BY <1>1, <1>5, <1>6, <1>7, MirrorsNone DEF LockInv, MirrorsTypeOK
<1> QED
  BY <1>3, <1>5, <1>8

LEMMA TakeListLockStep ==
    ASSUME ListsInv, NEW r \in Tasks, TakeListLock(r)
    PROVE  ListsInv'
<1>1. DEFINE q == request[r]  l == q.list
<1>2. MirrorsTypeOK /\ MayBe(q) /\ LockInv
  BY DEF ListsInv, MirrorsTypeOK
<1>3. q.at = "lock" /\ lock[l] = None /\ UNCHANGED <<clock, edition, file, copy, failed, mixed>>
  BY DEF TakeListLock, geoip
<1>4. q \in MayLock /\ l \in Lists
  BY <1>2, <1>3 DEF MayBe, Ready, MayAsk, MayLock, MayLoad
<1>5. \A k \in Lists : ~Refreshes(q, k)
  BY <1>3 DEF Refreshes
<1>6. CASE Does(r, Ready) /\ UNCHANGED <<lock, began>>
  <2>1. Finds(Ready) /\ \A k \in Lists : ~Refreshes(Ready, k)
    BY DEF Finds, Ready, Refreshes
  <2> QED
    BY <1>3, <1>5, <1>6, <2>1, MayBeReady, QuietStep
<1>7. ASSUME ~(l = "sites" /\ r # Daily /\ (copy[l] # None \/ FailedLately)),
             lock' = [lock EXCEPT ![l] = r],
             Does(r, [at |-> "ask", list |-> l, todo |-> Sources(l), errors |-> FALSE, edition |-> None]),
             began' = IF l = "sites" /\ r # Daily THEN Append(began, [at |-> clock, ended |-> None]) ELSE began
      PROVE  ListsInv'
  <2>1. PICK step : step = [at |-> "ask", list |-> l, todo |-> Sources(l), errors |-> FALSE, edition |-> None]
    OBVIOUS
  <2>2. MayBe(step) /\ Does(r, step)
    BY <1>4, <1>7, <2>1, MayBeAsking
  <2>3. DOMAIN request' = Tasks /\ \A p \in Tasks : MayBe(request'[p])
    BY <1>2, <2>2, OneSteps
  <2>4. \A p \in Tasks : request'[p] = IF p = r THEN step ELSE request[p]
    BY <1>2, <2>2, OneSteps
  <2>5. lock \in [Lists -> Tasks \cup {None}] /\ lock' \in [Lists -> Tasks \cup {None}]
        /\ \A k \in Lists : lock'[k] = IF k = l THEN r ELSE lock[k]
    BY <1>2, <1>4, <1>7 DEF MirrorsTypeOK
  <2>6. \A k \in Lists : Refreshes(step, k) <=> k = l
    BY <2>1 DEF Refreshes, Ready
  <2>7. LockInv'
    BY <1>2, <1>3, <1>5, <2>4, <2>5, <2>6, MirrorsNone DEF LockInv
  <2>8. Finds(step)
    BY <2>1, SourceFacts DEF Finds, AllSources
  <2>9. FoundInv'
    <3> SUFFICES ASSUME NEW p \in Tasks
                 PROVE  Finds(request[p])'
      BY DEF FoundInv
    <3>1. Finds(request[p])
      BY DEF ListsInv, FoundInv
    <3> QED
      BY <1>3, <2>4, <2>8, <3>1 DEF Finds
  <2>10. CopyInv'
    BY <1>3, <1>4, <2>5 DEF ListsInv, CopyInv
  <2>11. began' \in Seq(Begun) /\ BeganInv'
    <3>1. clock \in Nat /\ failed \in Found /\ began \in Seq(Begun)
      BY <1>2 DEF MirrorsTypeOK
    <3>2. BeganInv
      BY DEF ListsInv
    <3>3. Daily \notin Requests
      BY DailyApart
    <3>4. CASE ~(l = "sites" /\ r # Daily)
      <4>1. UNCHANGED began
        BY <1>7, <3>4
      <4>2. lock["sites"] \in Requests <=> lock'["sites"] \in Requests
        BY <1>3, <1>4, <2>5, <3>3, <3>4, MirrorsNone, SourceFacts DEF Tasks
      <4> QED
        BY <1>3, <3>1, <3>2, <4>1, <4>2 DEF BeganInv, NotAskedAgain
    <3>5. CASE l = "sites" /\ r # Daily
      <4>1. PICK b : b = [at |-> clock, ended |-> None]
        OBVIOUS
      <4>2. b \in Begun /\ b.at = clock /\ b.ended = None
        BY <3>1, <4>1 DEF Begun
      <4>3. began' = Append(began, b)
        BY <1>7, <3>5, <4>1
      <4>4. /\ began' \in Seq(Begun) /\ Len(began') = Len(began) + 1
            /\ began'[Len(began) + 1] = b /\ \A i \in 1..Len(began) : began'[i] = began[i]
            /\ Len(began) \in Nat
        BY <3>1, <4>2, <4>3
      <4>5. lock["sites"] \notin Requests /\ lock'["sites"] \in Requests
        BY <1>3, <1>4, <2>5, <3>5, MirrorsNone DEF Tasks
      <4>6. copy["sites"] = None /\ ~FailedLately
        BY <1>7, <3>5
      <4>7. \A i \in 1..Len(began) : /\ began[i] \in Begun
                                     /\ began[i].ended \in {"failed", "hung up"}
                                     /\ began[i].at <= clock
                                     /\ began[i].ended = "failed" => clock >= began[i].at + SitesRetry
                                                                    /\ failed # None /\ failed >= began[i].at
        <5> SUFFICES ASSUME NEW i \in 1..Len(began)
                     PROVE  /\ began[i] \in Begun
                            /\ began[i].ended \in {"failed", "hung up"}
                            /\ began[i].at <= clock
                            /\ began[i].ended = "failed" => clock >= began[i].at + SitesRetry
                                                           /\ failed # None /\ failed >= began[i].at
          OBVIOUS
        <5>1. began[i] \in Begun /\ i \in DOMAIN began
          BY <3>1
        <5>2. began[i].at \in Nat /\ began[i].ended \in Endings \cup {None} /\ began[i].at <= clock
          BY <3>2, <5>1 DEF BeganInv, Begun
        <5>3. began[i].ended \in {"failed", "hung up"}
          BY <3>2, <4>5, <4>6, <5>1, <5>2 DEF BeganInv, Endings
        <5>4. began[i].ended = "failed" => failed # None /\ failed >= began[i].at
          BY <3>2, <5>1 DEF BeganInv
        <5>5. began[i].ended = "failed" => clock >= began[i].at + SitesRetry
          BY <3>1, <4>6, <5>2, <5>4, MirrorsBounds DEF FailedLately, Found
        <5> QED
          BY <5>1, <5>2, <5>3, <5>4, <5>5
      <4>8. DOMAIN began' = 1..(Len(began) + 1)
        BY <4>4
      <4>9. NotAskedAgain'
        <5> SUFFICES ASSUME NEW i \in DOMAIN began', NEW j \in DOMAIN began', i < j
                     PROVE  CASE began'[i].ended = "failed" -> began'[j].at >= began'[i].at + SitesRetry
                              [] began'[i].ended = "hung up" -> TRUE
                              [] OTHER -> FALSE
          BY DEF NotAskedAgain
        <5>1. i \in 1..Len(began) /\ began'[i] = began[i]
          BY <4>4, <4>8
        <5>2. CASE j = Len(began) + 1
          BY <4>2, <4>4, <4>7, <5>1, <5>2
        <5>3. CASE j \in 1..Len(began)
          <6>1. began'[j] = began[j] /\ j \in DOMAIN began /\ i \in DOMAIN began
            BY <3>1, <4>4, <5>1, <5>3
          <6> QED
            BY <3>2, <5>1, <6>1 DEF BeganInv, NotAskedAgain
        <5>4. j = Len(began) + 1 \/ j \in 1..Len(began)
          BY <4>4, <4>8
        <5> QED
          BY <5>2, <5>3, <5>4
      <4>10. \A i \in DOMAIN began' :
                /\ began'[i].at <= clock
                /\ began'[i].ended = None => i = Len(began')
                /\ began'[i].ended = "got" => copy["sites"] # None
                /\ began'[i].ended = "failed" => failed # None /\ failed >= began'[i].at
        <5> SUFFICES ASSUME NEW i \in DOMAIN began'
                     PROVE  /\ began'[i].at <= clock
                            /\ began'[i].ended = None => i = Len(began')
                            /\ began'[i].ended = "got" => copy["sites"] # None
                            /\ began'[i].ended = "failed" => failed # None /\ failed >= began'[i].at
          OBVIOUS
        <5>1. CASE i = Len(began) + 1
          <6>1. began'[i] = b /\ i = Len(began')
            BY <4>4, <5>1
          <6>2. began'[i].at <= clock
            BY <3>1, <4>2, <6>1
          <6>3. began'[i].ended \notin Endings
            BY <4>2, <6>1, MirrorsNone
          <6> QED
            BY <6>1, <6>2, <6>3 DEF Endings
        <5>2. CASE i \in 1..Len(began)
          <6>1. began'[i] = began[i]
            BY <4>4, <5>2
          <6> QED
            BY <4>7, <5>2, <6>1, MirrorsNone DEF Endings
        <5> QED
          BY <4>8, <4>4, <5>1, <5>2
      <4>11. began' # <<>> /\ began'[Len(began')].ended = None
        BY <4>2, <4>4
      <4>12. failed # None => failed <= clock
        BY <3>2 DEF BeganInv
      <4> QED
        BY <1>3, <4>4, <4>5, <4>9, <4>10, <4>11, <4>12 DEF BeganInv
    <3> QED
      BY <3>4, <3>5
  <2>12. MirrorsTypeOK'
    BY <1>2, <1>3, <2>3, <2>5, <2>11 DEF MirrorsTypeOK
  <2> QED
    BY <2>7, <2>9, <2>10, <2>11, <2>12 DEF ListsInv
<1> QED
  BY <1>6, <1>7 DEF TakeListLock

(* A fetch of breached sites ends.                                         *)
LEMMA FetchEnds ==
    ASSUME MirrorsTypeOK, BeganInv, lock["sites"] \in Requests, lock'["sites"] \notin Requests,
           NEW e \in Endings, began' = [began EXCEPT ![Len(began)].ended = e], clock' = clock,
           failed' = failed \/ failed' = clock, e = "failed" => failed' = clock,
           e = "got" => copy'["sites"] # None, copy["sites"] # None => copy'["sites"] # None
    PROVE  began' \in Seq(Begun) /\ BeganInv'
<1>1. clock \in Nat /\ failed \in Found /\ began \in Seq(Begun)
  BY DEF MirrorsTypeOK
<1>2. Len(began) \in Nat /\ DOMAIN began = 1..Len(began) /\ began # <<>> /\ Len(began) # 0
  BY <1>1 DEF BeganInv
<1>3. PICK n \in 1..Len(began) : n = Len(began)
  BY <1>2
<1>4. began[n] \in Begun
  BY <1>1, <1>3
<1>5. PICK b : b = [began[n] EXCEPT !.ended = e]
  OBVIOUS
<1>6. b \in Begun /\ b.at = began[n].at /\ b.ended = e /\ b.at \in Nat
  BY <1>4, <1>5 DEF Begun
<1>7. began' = [began EXCEPT ![n] = b]
  BY <1>3, <1>5
<1>8. /\ began' \in Seq(Begun) /\ Len(began') = Len(began) /\ DOMAIN began' = DOMAIN began
      /\ \A i \in DOMAIN began : began'[i] = IF i = n THEN b ELSE began[i]
  BY <1>1, <1>3, <1>6, <1>7
<1>9. failed' # None => failed' <= clock
  BY <1>1 DEF BeganInv
<1>10. failed # None => failed' # None /\ failed' >= failed
  BY <1>1, MirrorsNone DEF BeganInv, Found
<1>11. \A i \in DOMAIN began : began'[i].at = began[i].at /\ began[i].at \in Nat
  <2>1. \A i \in DOMAIN began : began[i] \in Begun
    BY <1>1, <1>2
  <2> QED
    BY <1>3, <1>4, <1>6, <1>8, <2>1 DEF Begun
<1>12. ASSUME NEW i \in DOMAIN began
       PROVE  /\ began'[i].at <= clock
              /\ began'[i].ended # None
              /\ began'[i].ended = "got" => copy'["sites"] # None
              /\ began'[i].ended = "failed" => failed' # None /\ failed' >= began'[i].at
  <2>1. began[i].at <= clock
    BY DEF BeganInv
  <2>2. CASE i = n
    BY <1>1, <1>6, <1>8, <1>11, <2>1, <2>2, MirrorsNone DEF Endings
  <2>3. CASE i # n
    <3>1. began'[i] = began[i]
      BY <1>8, <2>3
    <3>2. /\ began[i].ended # None
          /\ began[i].ended = "got" => copy["sites"] # None
          /\ began[i].ended = "failed" => failed # None /\ failed >= began[i].at
      BY <1>3, <2>3 DEF BeganInv
    <3>3. failed # None => failed \in Nat /\ failed' \in Nat
      BY <1>1, <1>10, MirrorsNone DEF Found
    <3> QED
      BY <1>10, <1>11, <2>1, <3>1, <3>2, <3>3
  <2> QED
    BY <2>2, <2>3
<1>13. NotAskedAgain'
  <2> SUFFICES ASSUME NEW i \in DOMAIN began, NEW j \in DOMAIN began, i < j
               PROVE  CASE began'[i].ended = "failed" -> began'[j].at >= began'[i].at + SitesRetry
                        [] began'[i].ended = "hung up" -> TRUE
                        [] OTHER -> FALSE
    BY <1>8 DEF NotAskedAgain
  <2>1. i # n
    BY <1>2, <1>3
  <2>2. began'[i] = began[i]
    BY <1>8, <2>1
  <2> QED
    BY <1>11, <2>2 DEF BeganInv, NotAskedAgain
<1> QED
  BY <1>8, <1>9, <1>12, <1>13 DEF BeganInv

LEMMA NoneEnds ==
    ASSUME MirrorsTypeOK, BeganInv, UNCHANGED <<began, failed>>, clock' \in Nat, clock' >= clock,
           lock'["sites"] \in Requests <=> lock["sites"] \in Requests, copy["sites"] # None => copy'["sites"] # None
    PROVE  BeganInv'
<1>1. clock \in Nat /\ failed \in Found /\ began \in Seq(Begun)
  BY DEF MirrorsTypeOK
<1>2. \A i \in DOMAIN began : began[i].at \in Nat
  <2>1. \A i \in DOMAIN began : began[i] \in Begun
    BY <1>1
  <2> QED
    BY <2>1 DEF Begun
<1>3. failed # None => failed \in Nat
  BY <1>1 DEF Found
<1>4. NotAskedAgain'
  BY DEF BeganInv, NotAskedAgain
<1>5. \A i \in DOMAIN began : began[i].at <= clock'
  BY <1>1, <1>2 DEF BeganInv
<1>6. failed # None => failed <= clock'
  BY <1>1, <1>3 DEF BeganInv
<1> QED
  BY <1>4, <1>5, <1>6 DEF BeganInv

(* Files only come, and a list that somebody reads is not written, or the  *)
(* reader counts for nothing.                                              *)
LEMMA OthersFind ==
    ASSUME NEW q, Finds(q), \A s \in AllSources : file[s] # None => file'[s] # None, mixed \subseteq mixed',
           q.at = "load" /\ q.list \notin mixed' => \A s \in DOMAIN q.got : file'[s] = file[s]
    PROVE  /\ q.at \in {"ask", "write"} /\ q.list = "sites" /\ q.todo = <<"xon">> /\ ~q.errors => file'["hibp"] # None
           /\ q.at = "load" /\ q.then = "fetched" => /\ file'["hibp"] # None /\ file'["xon"] # None
                                                     /\ \A s \in DOMAIN q.got : q.got[s] # None
           /\ q.at = "load" /\ q.list \notin mixed' => \A s \in DOMAIN q.got : q.got[s] = file'[s]
<1>1. "hibp" \in AllSources /\ "xon" \in AllSources
  BY DEF AllSources
<1> QED
  BY <1>1 DEF Finds

LEMMA LoadStep ==
    ASSUME ListsInv, NEW r \in Tasks, Load(r)
    PROVE  ListsInv'
<1>1. DEFINE q == request[r]
             s == Head(q.todo)
             got == [x \in DOMAIN q.got \cup {s} |-> IF x = s THEN file[s] ELSE q.got[x]]
             none == \A x \in DOMAIN got : got[x] = None
<1>2. /\ MirrorsTypeOK /\ MayBe(q) /\ LockInv /\ Finds(q) /\ file \in [AllSources -> Found] /\ BeganInv
      /\ DOMAIN copy = Lists
  BY DEF ListsInv, MirrorsTypeOK, FoundInv
<1>3. q.at = "load" /\ UNCHANGED <<clock, edition, file, mixed>>
  BY DEF Load, geoip
<1>4. /\ q \in MayLoad(IF q.todo = <<"xon">> THEN {"hibp"} ELSE {}) /\ InOrder(q)
      /\ q.then # "get" => q.list = "sites"
  BY <1>2, <1>3 DEF MayBe, Ready, MayLock, MayAsk
<1>5. q.list \in Lists /\ q.then \in {"get", "errors", "fetched"}
  BY <1>4 DEF MayLoad
<1>6. q.got \in CopiesOf(IF q.todo = <<"xon">> THEN {"hibp"} ELSE {})
  BY <1>4 DEF MayLoad
<1>7. CASE Tail(q.todo) # <<>>
  <2>1. q.list = "sites" /\ q.todo = <<"hibp", "xon">> /\ s = "hibp" /\ Tail(q.todo) = <<"xon">> /\ <<"xon">> # q.todo
    BY <1>4, <1>5, <1>7, SourceFacts DEF InOrder, AllSources
  <2>2. DOMAIN q.got = {}
    BY <1>6, <2>1 DEF CopiesOf
  <2>3. got \in CopiesOf({"hibp"}) /\ got["hibp"] = file["hibp"] /\ DOMAIN got = {"hibp"}
    BY <1>2, <2>1, <2>2 DEF CopiesOf, AllSources
  <2>4. PICK step : step = [q EXCEPT !.todo = Tail(q.todo), !.got = got]
    OBVIOUS
  <2>5. Does(r, step) /\ UNCHANGED <<copy, lock, failed, began>>
    BY <1>7, <2>4 DEF Load
  <2>6. /\ step.at = "load" /\ step.list = "sites" /\ step.todo = <<"xon">> /\ step.got = got /\ step.then = q.then
        /\ step \in MayLoad({"hibp"})
    <3> HIDE DEF got
    <3>1. q \in MayLoad({})
      BY <1>4, <2>1
    <3> QED
      BY <1>3, <2>1, <2>3, <2>4, <3>1 DEF MayLoad, Queues
  <2>7. MayBe(step)
    BY <2>6, <1>4 DEF MayBe, InOrder
  <2>8. Finds(step)
    <3> HIDE DEF got
    <3> QED
      BY <1>2, <1>3, <2>1, <2>3, <2>6 DEF Finds
  <2>9. \A l \in Lists : Refreshes(step, l) <=> Refreshes(q, l)
    BY <1>3, <2>1, <2>6 DEF Refreshes, Ready
  <2> QED
    BY <1>3, <2>5, <2>7, <2>8, <2>9, QuietStep
<1>8. CASE Tail(q.todo) = <<>>
  <2>1. SourcesOf(q.list) = DOMAIN q.got \cup {s} /\ s \in AllSources /\ SourcesOf(q.list) \subseteq AllSources
    <3>1. CASE q.todo = <<"xon">>
      <4>1. q.list = "sites" /\ s = "xon"
        BY <1>4, <1>5, <3>1, SourceFacts DEF InOrder, AllSources
      <4>2. DOMAIN q.got = {"hibp"}
        BY <1>6, <3>1 DEF CopiesOf
      <4> QED
        BY <4>1, <4>2, SourceFacts DEF AllSources
    <3>2. CASE q.todo # <<"xon">>
      <4>1. q.list \in {"twofa", "library"} /\ s = q.list
        BY <1>4, <1>5, <1>8, <3>2, SourceFacts DEF InOrder, AllSources
      <4>2. DOMAIN q.got = {}
        BY <1>6, <3>2 DEF CopiesOf
      <4> QED
        BY <4>1, <4>2, SourceFacts DEF AllSources
    <3> QED
      BY <3>1, <3>2
  <2>2. DOMAIN got = SourcesOf(q.list)
    BY <2>1
  <2>3. got \in CopiesOf(SourcesOf(q.list))
    <3>1. \A x \in DOMAIN q.got : q.got[x] \in Found
      BY <1>6 DEF CopiesOf
    <3> QED
      BY <1>2, <2>1, <3>1 DEF CopiesOf
  <2>4. got # None
    <3>1. SourcesOf(q.list) \in SUBSET AllSources
      BY <2>1
    <3> QED
      BY <2>3, <3>1, MirrorsNone
  <2>5. q.list \notin mixed => \A x \in SourcesOf(q.list) : got[x] = file[x]
    BY <1>2, <1>3, <2>1 DEF Finds
  <2>6. q.then = "fetched" => ~none
    <3> SUFFICES ASSUME q.then = "fetched"
                 PROVE  got[s] # None
      BY <2>1
    <3>1. file["hibp"] # None /\ file["xon"] # None /\ q.list = "sites"
      BY <1>2, <1>3, <1>4 DEF Finds
    <3> QED
      BY <2>1, <3>1, SourceFacts
  <2>7. PICK c, n : c = got /\ n = none /\ n \in BOOLEAN
    OBVIOUS
  <2>8. /\ c \in CopiesOf(SourcesOf(q.list)) /\ c # None
        /\ q.list \notin mixed => \A x \in SourcesOf(q.list) : c[x] = file[x]
        /\ q.then = "fetched" => ~n
        /\ n <=> \A x \in SourcesOf(q.list) : c[x] = None
    BY <2>2, <2>3, <2>4, <2>5, <2>6, <2>7
  <2>9. copy' = IF n THEN copy ELSE [copy EXCEPT ![q.list] = c]
    BY <1>8, <2>7 DEF Load
  <2>10. Unlocks(r, q.list)
    BY <1>8 DEF Load
  <2>11. PICK step : Does(r, step) /\ MayBe(step) /\ step.at \in {"idle", "lock"} /\ (q.then # "get" => step = Ready)
    <3>1. CASE q.then # "get"
      <4>1. Does(r, Ready)
        BY <1>8, <3>1 DEF Load
      <4> QED
        BY <3>1, <4>1, MayBeReady DEF Ready
    <3>2. CASE q.then = "get"
      <4>1. Does(r, Ready) \/ Does(r, [at |-> "lock", list |-> q.list])
        BY <1>8, <3>2 DEF Load
      <4>2. MayBe([at |-> "lock", list |-> q.list])
        BY <1>5, MayBeLocking
      <4> QED
        BY <3>2, <4>1, <4>2, MayBeReady DEF Ready
    <3> QED
      BY <3>1, <3>2
  <2>12. /\ q.then # "get" => /\ failed' = IF r # Daily /\ n /\ q.then = "errors" THEN clock ELSE failed
                              /\ began' = IF r = Daily THEN began
                                          ELSE [began EXCEPT ![Len(began)].ended = IF n THEN "failed" ELSE "got"]
         /\ q.then = "get" => UNCHANGED <<failed, began>>
    BY <1>8, <2>7 DEF Load
  <2> HIDE DEF got, none, s
  <2>13. /\ LockInv' /\ lock' \in [Lists -> Tasks \cup {None}]
         /\ \A l \in Lists : lock'[l] = IF lock[l] = r THEN None ELSE lock[l]
    BY <1>3, <2>10, <2>11, Unlocked DEF Ready
  <2>14. DOMAIN request' = Tasks /\ \A p \in Tasks : MayBe(request'[p])
    BY <1>2, <2>11, OneSteps
  <2>15. \A p \in Tasks : request'[p] = IF p = r THEN step ELSE request[p]
    BY <1>2, <2>11, OneSteps
  <2>16. /\ DOMAIN copy' = Lists
         /\ \A l \in Lists : copy'[l] = IF ~n /\ l = q.list THEN c ELSE copy[l]
    BY <1>2, <1>5, <2>9
  <2>17. FoundInv'
    <3> SUFFICES ASSUME NEW p \in Tasks
                 PROVE  Finds(request[p])'
      BY DEF FoundInv
    <3>1. Finds(request[p])
      BY DEF ListsInv, FoundInv
    <3>2. CASE p = r
      BY <2>11, <2>15, <3>2 DEF Finds
    <3>3. CASE p # r
      BY <1>3, <2>15, <3>1, <3>3 DEF Finds
    <3> QED
      BY <3>2, <3>3
  <2>18. CopyInv'
    <3> SUFFICES ASSUME NEW l \in Lists \ mixed, copy'[l] # None
                 PROVE  /\ \E x \in SourcesOf(l) : file[x] # None
                        /\ \/ l = "sites" /\ lock'["sites"] # None
                           \/ \A x \in SourcesOf(l) : copy'[l][x] = file[x]
      BY <1>3 DEF CopyInv
    <3>3. copy[l] # None => /\ \E x \in SourcesOf(l) : file[x] # None
                            /\ \/ l = "sites" /\ lock["sites"] # None
                               \/ \A x \in SourcesOf(l) : copy[l][x] = file[x]
      <4>1. CopyInv
        BY DEF ListsInv
      <4> QED
        BY <4>1 DEF CopyInv
    <3>1. CASE l = q.list
      <4>1. CASE ~n
        BY <2>8, <2>16, <3>1, <4>1
      <4>2. CASE n
        <5>1. copy[l] # None
          BY <2>16, <4>2
        <5> QED
          BY <2>8, <3>1, <3>3, <4>2, <5>1
      <4> QED
        BY <4>1, <4>2
    <3>2. CASE l # q.list
      <4>1. copy'[l] = copy[l] /\ lock'[l] = lock[l]
        <5>1. lock[l] # r
          BY <1>2, <3>2 DEF LockInv, Refreshes
        <5> QED
          BY <2>13, <2>16, <3>2, <5>1
      <4> QED
        BY <3>3, <4>1
    <3> QED
      BY <3>1, <3>2
  <2>19. copy["sites"] # None => copy'["sites"] # None
    BY <2>8, <2>16, SourceFacts
  <2>20. began' \in Seq(Begun) /\ BeganInv' /\ failed' \in Found
    <3>1. clock \in Nat /\ failed \in Found /\ began \in Seq(Begun) /\ "sites" \in Lists
      BY <1>2 DEF MirrorsTypeOK, Lists
    <3>2. failed' \in Found
      BY <2>12, <3>1, <1>5 DEF Found
    <3>3. CASE r # Daily /\ q.then # "get"
      <4>1. lock["sites"] = r /\ r \in Requests
        BY <1>2, <1>3, <1>4, <3>1, <3>3 DEF LockInv, Refreshes, Ready, Tasks
      <4>2. lock'["sites"] \notin Requests
        BY <2>13, <3>1, <4>1, MirrorsNone DEF Tasks
      <4>3. PICK e : e = IF n THEN "failed" ELSE "got"
        OBVIOUS
      <4>4. e \in Endings /\ (e = "got" <=> ~n) /\ (e = "failed" <=> n)
        BY <4>3 DEF Endings
      <4>5. began' = [began EXCEPT ![Len(began)].ended = e]
        BY <2>12, <3>3, <4>3
      <4>6. e = "failed" => failed' = clock
        BY <1>5, <2>8, <2>12, <3>3, <4>4
      <4>7. e = "got" => copy'["sites"] # None
        BY <1>4, <2>8, <2>16, <3>1, <3>3, <4>4
      <4>8. failed' = failed \/ failed' = clock
        BY <2>12, <3>3
      <4> QED
        BY <1>2, <1>3, <2>19, <3>2, <4>1, <4>2, <4>4, <4>5, <4>6, <4>7, <4>8, FetchEnds
    <3>4. CASE r = Daily \/ q.then = "get"
      <4>1. UNCHANGED <<began, failed>>
        BY <1>5, <2>12, <3>4
      <4>2. lock'["sites"] \in Requests <=> lock["sites"] \in Requests
        <5>1. lock["sites"] = r => r = Daily
          BY <1>2, <1>3, <3>1, <3>4 DEF LockInv, Refreshes
        <5> QED
          BY <2>13, <3>1, <5>1, DailyApart, MirrorsNone DEF Tasks
      <4> QED
        BY <1>2, <1>3, <2>19, <3>1, <3>2, <4>1, <4>2, NoneEnds
    <3> QED
      BY <3>3, <3>4
  <2>21. MirrorsTypeOK'
    <3>1. \A l \in Lists : copy'[l] \in CopiesOf(SourcesOf(l)) \cup {None}
      BY <1>2, <2>8, <2>16 DEF MirrorsTypeOK
    <3> QED
      BY <1>2, <1>3, <2>13, <2>14, <2>16, <2>20, <3>1 DEF MirrorsTypeOK
  <2> QED
    BY <2>13, <2>17, <2>18, <2>20, <2>21 DEF ListsInv
<1> QED
  BY <1>7, <1>8

LEMMA MayBeAt ==
    ASSUME NEW q, MayBe(q)
    PROVE  /\ q.at \in {"idle", "load", "lock", "ask", "write"}
           /\ q.at = "idle" <=> q = Ready
           /\ q.at # "idle" => q.list \in Lists
           /\ q.at \in {"ask", "write"} => q \in MayAsk /\ InOrder(q) /\ q.errors \in BOOLEAN
           /\ q.at = "write" => q.edition \in Nat
           /\ q.at = "load" => q \in MayLoad(IF q.todo = <<"xon">> THEN {"hibp"} ELSE {}) /\ InOrder(q)
<1>1. q \in MayAsk => q.errors \in BOOLEAN
  BY ZenonT(30) DEF MayAsk
<1>2. Ready.at = "idle"
  BY DEF Ready
<1> QED
  BY <1>1, <1>2 DEF MayBe, MayLoad, MayLock, MayAsk

(* Who asks and whom one hears from next.                                  *)
LEMMA NextSourceStep ==
    ASSUME MirrorsTypeOK, NEW r \in Tasks, request[r].at \in {"ask", "write"}, request[r].list = "sites",
           NEW errors \in BOOLEAN, NextSource(r, errors)
    PROVE  \E step :
              /\ Does(r, step) /\ MayBe(step) /\ \A l \in Lists : Refreshes(step, l) <=> Refreshes(request[r], l)
              /\ \/ /\ request[r].todo = <<"hibp", "xon">> /\ step.at = "ask" /\ step.errors = errors
                 \/ /\ request[r].todo = <<"xon">> /\ step.at = "load" /\ DOMAIN step.got = {}
                    /\ step.then = "fetched" => ~errors
<1>1. DEFINE q == request[r]
<1>2. MayBe(q) /\ InOrder(q) /\ "sites" \in Lists /\ q # Ready
  <2>1. MayBe(q)
    BY DEF MirrorsTypeOK
  <2> QED
    BY <2>1, MayBeAt DEF Lists, Ready
<1>3. CASE Tail(q.todo) # <<>>
  <2>1. q.todo = <<"hibp", "xon">> /\ Tail(q.todo) = <<"xon">>
    BY <1>2, <1>3, SourceFacts DEF InOrder, AllSources
  <2>2. PICK step : step = [at |-> "ask", list |-> "sites", todo |-> <<"xon">>, errors |-> errors, edition |-> None]
    OBVIOUS
  <2>3. Does(r, step)
    BY <1>3, <2>1, <2>2 DEF NextSource
  <2>4. MayBe(step)
    BY <1>2, <2>2, MayBeAsking
  <2>5. step.at = "ask" /\ step.list = "sites"
    BY <2>2
  <2>6. step.errors = errors
    BY <2>2, Zenon
  <2>7. \A l \in Lists : Refreshes(step, l) <=> Refreshes(q, l)
    BY <1>2, <2>5 DEF Refreshes, Ready
  <2> QED
    BY <2>1, <2>3, <2>4, <2>5, <2>6, <2>7
<1>4. CASE Tail(q.todo) = <<>>
  <2>1. q.todo = <<"xon">>
    BY <1>2, <1>4, SourceFacts DEF InOrder, AllSources
  <2>2. PICK then \in {"errors", "fetched"} : then = IF errors THEN "errors" ELSE "fetched"
    OBVIOUS
  <2>3. PICK step : step = Reading("sites", Sources("sites"), then)
    OBVIOUS
  <2>4. Does(r, step)
    BY <1>4, <2>2, <2>3 DEF NextSource
  <2>5. MayBe(step) /\ DOMAIN step.got = {}
    BY <1>2, <2>2, <2>3, MayBeReading
  <2>6. step.at = "load" /\ step.then = then /\ step.list = "sites"
    BY <2>3 DEF Reading
  <2>7. \A l \in Lists : Refreshes(step, l) <=> Refreshes(q, l)
    BY <1>2, <2>2, <2>6 DEF Refreshes, Ready
  <2>8. step.then = "fetched" => ~errors
    BY <2>2, <2>6
  <2> QED
    BY <2>1, <2>4, <2>5, <2>6, <2>7, <2>8
<1> QED
  BY <1>3, <1>4

LEMMA FetchFailsStep ==
    ASSUME ListsInv, NEW r \in Tasks, FetchFails(r)
    PROVE  ListsInv'
<1>1. DEFINE q == request[r]
<1>2. q.at = "ask" /\ UNCHANGED <<clock, edition, file, copy, failed, began, mixed>>
  BY DEF FetchFails, geoip
<1>3. MirrorsTypeOK /\ BeganInv /\ LockInv /\ MayBe(q)
  BY DEF ListsInv, MirrorsTypeOK
<1>4. CASE q.list = "sites"
  <2>1. PICK step :
              /\ Does(r, step) /\ MayBe(step) /\ \A l \in Lists : Refreshes(step, l) <=> Refreshes(q, l)
              /\ \/ /\ request[r].todo = <<"hibp", "xon">> /\ step.at = "ask" /\ step.errors = TRUE
                 \/ /\ request[r].todo = <<"xon">> /\ step.at = "load" /\ DOMAIN step.got = {}
                    /\ step.then = "fetched" => ~TRUE
    BY <1>2, <1>3, <1>4, NextSourceStep DEF FetchFails
  <2>2. Finds(step)
    BY <2>1 DEF Finds
  <2>3. UNCHANGED lock
    BY <1>4 DEF FetchFails
  <2> QED
    BY <1>2, <2>1, <2>2, <2>3, QuietStep
<1>5. CASE q.list # "sites"
  <2>1. Does(r, Ready) /\ Unlocks(r, q.list)
    BY <1>5 DEF FetchFails
  <2>2. Ready.at = "idle" /\ q # Ready
    BY <1>2 DEF Ready
  <2>3. /\ LockInv' /\ lock' \in [Lists -> Tasks \cup {None}]
        /\ \A l \in Lists : lock'[l] = IF lock[l] = r THEN None ELSE lock[l]
    BY <2>1, <2>2, MayBeReady, Unlocked
  <2>4. /\ DOMAIN request' = Tasks /\ \A p \in Tasks : MayBe(request'[p])
        /\ \A p \in Tasks : request'[p] = IF p = r THEN Ready ELSE request[p]
    BY <1>3, <2>1, MayBeReady, OneSteps
  <2>5. "sites" \in Lists /\ lock["sites"] # r
    BY <1>3, <1>5 DEF Lists, LockInv, Refreshes
  <2>6. MirrorsTypeOK'
    BY <1>2, <1>3, <2>3, <2>4 DEF MirrorsTypeOK
  <2>7. FoundInv'
    <3> SUFFICES ASSUME NEW p \in Tasks
                 PROVE  Finds(request[p])'
      BY DEF FoundInv
    <3>1. Finds(request[p])
      BY DEF ListsInv, FoundInv
    <3> QED
      BY <1>2, <2>2, <2>4, <3>1 DEF Finds
  <2>8. CopyInv'
    <3>1. CopyInv
      BY DEF ListsInv
    <3> QED
      BY <1>2, <2>3, <2>5, <3>1 DEF CopyInv
  <2>9. BeganInv'
    <3>1. clock \in Nat /\ clock' = clock /\ lock'["sites"] = lock["sites"]
      BY <1>2, <1>3, <2>3, <2>5 DEF MirrorsTypeOK
    <3> QED
      BY <1>2, <1>3, <3>1, NoneEnds
  <2> QED
    BY <2>3, <2>6, <2>7, <2>8, <2>9 DEF ListsInv
<1> QED
  BY <1>4, <1>5

(* A source's file is written by whoever has its list's lock.              *)
LEMMA FileWritten ==
    ASSUME ListsInv, NEW r \in Tasks, request[r].at = "write",
           file' = [file EXCEPT ![Head(request[r].todo)] = request[r].edition]
    PROVE  /\ file' \in [AllSources -> Found] /\ Head(request[r].todo) \in SourcesOf(request[r].list)
           /\ file'[Head(request[r].todo)] # None
           /\ \A x \in AllSources : file[x] # None => file'[x] # None
           /\ \A l \in Lists : SourcesOf(l) \subseteq AllSources
           /\ \A l \in Lists \ {request[r].list} : \A x \in SourcesOf(l) : file'[x] = file[x]
           /\ file'[Head(request[r].todo)] = request[r].edition
<1>1. DEFINE q == request[r]  s == Head(q.todo)
<1>2. MayBe(q) /\ file \in [AllSources -> Found]
  BY DEF ListsInv, MirrorsTypeOK
<1>3. q.list \in Lists /\ InOrder(q) /\ q.edition \in Nat
  BY <1>2, MayBeAt
<1>4. s \in SourcesOf(q.list) /\ \A l \in Lists : SourcesOf(l) \subseteq AllSources /\ (l # q.list => s \notin SourcesOf(l))
  <2>1. \A l \in Lists : SourcesOf(l) \subseteq AllSources
    BY SourceFacts DEF AllSources
  <2>2. CASE q.list = "sites"
    <3>1. s \in {"hibp", "xon"}
      BY <1>3, <2>2, SourceFacts DEF InOrder, AllSources
    <3> QED
      BY <2>1, <2>2, <3>1, SourceFacts
  <2>3. CASE q.list # "sites"
    <3>1. s = q.list
      BY <1>3, <2>3, SourceFacts DEF InOrder, AllSources
    <3> QED
      BY <1>3, <2>1, <2>3, <3>1, SourceFacts
  <2> QED
    BY <2>2, <2>3
<1>5. q.edition \in Found /\ q.edition # None
  BY <1>3, MirrorsNone DEF Found
<1>6. s \in AllSources
  BY <1>3, <1>4
<1>7. PICK t, e : t = s /\ e = q.edition
  OBVIOUS
<1>8. file' = [file EXCEPT ![t] = e]
  BY <1>7
<1> HIDE DEF s, q
<1>9. file' \in [AllSources -> Found] /\ \A x \in AllSources : file'[x] = IF x = s THEN q.edition ELSE file[x]
  BY <1>2, <1>5, <1>6, <1>7, <1>8
<1>10. file'[s] = q.edition /\ \A x \in AllSources : file[x] # None => file'[x] # None
  BY <1>5, <1>6, <1>9
<1>11. \A l \in Lists \ {q.list} : \A x \in SourcesOf(l) : file'[x] = file[x]
  BY <1>4, <1>9
<1> QED
  BY <1>4, <1>5, <1>9, <1>10, <1>11 DEF s, q

(* The other requests, when the file of a list is written that none of     *)
(* them reads for anything.                                                *)
LEMMA OthersStillFind ==
    ASSUME ListsInv, NEW r \in Tasks, request[r].at = "write",
           file' = [file EXCEPT ![Head(request[r].todo)] = request[r].edition],
           mixed \subseteq mixed', NEW p \in Tasks, request'[p] = request[p],
           request[p].at = "load" /\ request[p].list = request[r].list => request[p].list \in mixed'
    PROVE  Finds(request[p])'
<1>1. DEFINE q == request[p]
<1>2. Finds(q) /\ MayBe(q)
  BY DEF ListsInv, FoundInv, MirrorsTypeOK
<1>3. ASSUME q.at = "load", q.list \notin mixed'
      PROVE  \A s \in DOMAIN q.got : file'[s] = file[s]
  <2>1. q.list \in Lists \ {request[r].list} /\ InOrder(q) /\ q \in MayLoad(IF q.todo = <<"xon">> THEN {"hibp"} ELSE {})
    BY <1>2, <1>3, MayBeAt
  <2>2. q.got \in CopiesOf(IF q.todo = <<"xon">> THEN {"hibp"} ELSE {})
    BY <2>1 DEF MayLoad
  <2>3. DOMAIN q.got \subseteq SourcesOf(q.list)
    BY <2>1, <2>2, SourceFacts DEF CopiesOf, InOrder
  <2> QED
    BY <2>1, <2>3, FileWritten
<1>4. \A s \in AllSources : file[s] # None => file'[s] # None
  BY FileWritten
<1>5. /\ q.at \in {"ask", "write"} /\ q.list = "sites" /\ q.todo = <<"xon">> /\ ~q.errors => file'["hibp"] # None
      /\ q.at = "load" /\ q.then = "fetched" => /\ file'["hibp"] # None /\ file'["xon"] # None
                                                /\ \A s \in DOMAIN q.got : q.got[s] # None
      /\ q.at = "load" /\ q.list \notin mixed' => \A s \in DOMAIN q.got : q.got[s] = file'[s]
  BY <1>2, <1>3, <1>4, OthersFind
<1> QED
  BY <1>5 DEF Finds

LEMMA WriteListStep ==
    ASSUME ListsInv, NEW r \in Tasks, WriteList(r)
    PROVE  ListsInv'
<1>1. DEFINE q == request[r]  s == Head(q.todo)
<1>2. /\ q.at = "write" /\ file' = [file EXCEPT ![Head(q.todo)] = q.edition]
      /\ mixed' = mixed \cup BeingRead(q.list) /\ UNCHANGED <<clock, edition, failed, began>>
  BY DEF WriteList, geoip
<1>3. MirrorsTypeOK /\ BeganInv /\ LockInv /\ MayBe(q) /\ Finds(q) /\ CopyInv
  BY DEF ListsInv, MirrorsTypeOK, FoundInv
<1>4. q.list \in Lists /\ InOrder(q) /\ q.errors \in BOOLEAN /\ q.edition \in Nat /\ q # Ready
  BY <1>2, <1>3, MayBeAt DEF Ready
<1>5. /\ file' \in [AllSources -> Found] /\ s \in SourcesOf(q.list) /\ file'[s] # None
      /\ \A x \in AllSources : file[x] # None => file'[x] # None
      /\ \A l \in Lists : SourcesOf(l) \subseteq AllSources
      /\ \A l \in Lists \ {q.list} : \A x \in SourcesOf(l) : file'[x] = file[x]
      /\ file'[s] = q.edition
  BY <1>2, FileWritten
<1>6. lock[q.list] = r /\ \A l \in Lists \ {q.list} : lock[l] # r
  BY <1>2, <1>3, <1>4 DEF LockInv, Refreshes
<1>7. mixed' \subseteq Lists /\ mixed \subseteq mixed'
  BY <1>2, <1>3, <1>4 DEF MirrorsTypeOK, BeingRead
<1>8. \A p \in Tasks : request[p].at = "load" /\ request[p].list = q.list => request[p].list \in mixed'
  BY <1>2, <1>4 DEF BeingRead
<1>9. ASSUME NEW p \in Tasks, request'[p] = request[p]
      PROVE  Finds(request[p])'
  BY <1>2, <1>7, <1>8, <1>9, OthersStillFind
<1>10. ASSUME NEW step, Does(r, step), MayBe(step), \A l \in Lists : lock'[l] = r <=> Refreshes(step, l),
              lock' \in [Lists -> Tasks \cup {None}],
              \A l \in Lists \ {q.list} : lock'[l] = lock[l], lock'[q.list] \in {None, r},
              Finds(request[r])', DOMAIN copy' = Lists, \A l \in Lists \ {q.list} : copy'[l] = copy[l],
              q.list = "sites" => copy'[q.list] = copy[q.list] /\ lock'["sites"] = r,
              q.list # "sites" => /\ copy'[q.list] \in CopiesOf(SourcesOf(q.list))
                                  /\ \A x \in SourcesOf(q.list) : copy'[q.list][x] = file'[x]
       PROVE  ListsInv'
  <2>1. /\ DOMAIN request' = Tasks /\ \A p \in Tasks : MayBe(request'[p])
        /\ \A p \in Tasks : request'[p] = IF p = r THEN step ELSE request[p]
    BY <1>3, <1>10, OneSteps
  <2>2. LockInv'
    <3> SUFFICES ASSUME NEW l \in Lists, NEW p \in Tasks
                 PROVE  lock'[l] = p <=> Refreshes(request'[p], l)
      BY DEF LockInv
    <3>1. lock[l] = p <=> Refreshes(request[p], l)
      BY <1>3 DEF LockInv
    <3>2. CASE p = r
      BY <1>10, <2>1, <3>2
    <3>3. CASE p # r
      BY <1>6, <1>10, <2>1, <3>1, <3>3, MirrorsNone
    <3> QED
      BY <3>2, <3>3
  <2>3. FoundInv'
    <3> SUFFICES ASSUME NEW p \in Tasks
                 PROVE  Finds(request[p])'
      BY DEF FoundInv
    <3> QED
      BY <1>9, <1>10, <2>1
  <2>4. CopyInv'
    <3> SUFFICES ASSUME NEW l \in Lists \ mixed', copy'[l] # None
                 PROVE  /\ \E x \in SourcesOf(l) : file'[x] # None
                        /\ \/ l = "sites" /\ lock'["sites"] # None
                           \/ \A x \in SourcesOf(l) : copy'[l][x] = file'[x]
      BY DEF CopyInv
    <3>1. CASE l = q.list
      BY <1>5, <1>10, <3>1, MirrorsNone
    <3>2. CASE l # q.list
      <4>1. copy'[l] = copy[l] /\ lock'[l] = lock[l] /\ l \in Lists \ mixed
        BY <1>7, <1>10, <3>2
      <4>2. /\ \E x \in SourcesOf(l) : file[x] # None
            /\ \/ l = "sites" /\ lock["sites"] # None
               \/ \A x \in SourcesOf(l) : copy[l][x] = file[x]
        BY <1>3, <4>1 DEF CopyInv
      <4>3. \A x \in SourcesOf(l) : file'[x] = file[x]
        BY <1>5, <3>2
      <4> QED
        BY <4>1, <4>2, <4>3
    <3> QED
      BY <3>1, <3>2
  <2>5. BeganInv'
    <3>1. clock \in Nat /\ "sites" \in Lists
      BY <1>3 DEF MirrorsTypeOK, Lists
    <3>2. lock'["sites"] = lock["sites"]
      BY <1>6, <1>10, <3>1
    <3>3. copy'["sites"] = copy["sites"]
      BY <1>10, <3>1
    <3> QED
      BY <1>2, <1>3, <3>1, <3>2, <3>3, NoneEnds
  <2>6. MirrorsTypeOK'
    <3>1. \A l \in Lists : copy'[l] \in CopiesOf(SourcesOf(l)) \cup {None}
      BY <1>3, <1>10 DEF MirrorsTypeOK
    <3> QED
      BY <1>2, <1>3, <1>5, <1>7, <1>10, <2>1, <3>1 DEF MirrorsTypeOK
  <2> QED
    BY <2>2, <2>3, <2>4, <2>5, <2>6 DEF ListsInv
<1>11. CASE q.list = "sites"
  <2>1. NextSource(r, q.errors) /\ UNCHANGED <<copy, lock>>
    BY <1>11 DEF WriteList
  <2>2. PICK step :
              /\ Does(r, step) /\ MayBe(step) /\ \A l \in Lists : Refreshes(step, l) <=> Refreshes(q, l)
              /\ \/ /\ request[r].todo = <<"hibp", "xon">> /\ step.at = "ask" /\ step.errors = q.errors
                 \/ /\ request[r].todo = <<"xon">> /\ step.at = "load" /\ DOMAIN step.got = {}
                    /\ step.then = "fetched" => ~q.errors
    BY <1>2, <1>3, <1>4, <1>11, <2>1, NextSourceStep
  <2>3. request'[r] = step
    BY <1>3, <2>2, OneSteps
  <2>4. "hibp" \in AllSources /\ "xon" \in AllSources /\ <<"xon">> # <<"hibp", "xon">>
    BY SourceFacts DEF AllSources
  <2>5. Finds(step)'
    <3>1. CASE q.todo = <<"hibp", "xon">>
      <4>1. s = "hibp" /\ step.at = "ask"
        BY <2>2, <2>4, <3>1, SourceFacts
      <4> QED
        BY <1>5, <4>1 DEF Finds
    <3>2. CASE q.todo = <<"xon">>
      <4>1. s = "xon" /\ step.at = "load" /\ DOMAIN step.got = {} /\ (step.then = "fetched" => ~q.errors)
        BY <2>2, <2>4, <3>2, SourceFacts
      <4>2. ~q.errors => file["hibp"] # None
        BY <1>2, <1>3, <1>11, <3>2 DEF Finds
      <4> QED
        BY <1>5, <2>4, <4>1, <4>2 DEF Finds
    <3> QED
      BY <2>2, <3>1, <3>2
  <2>6. Finds(request[r])'
    BY <2>3, <2>5 DEF Finds
  <2>7. \A l \in Lists : lock'[l] = r <=> Refreshes(step, l)
    BY <1>3, <2>1, <2>2 DEF LockInv
  <2>8. lock' \in [Lists -> Tasks \cup {None}] /\ DOMAIN copy' = Lists
    BY <1>3, <2>1 DEF MirrorsTypeOK
  <2> QED
    BY <1>6, <1>10, <1>11, <2>1, <2>2, <2>6, <2>7, <2>8
<1>12. CASE q.list # "sites"
  <2>1. /\ copy' = [copy EXCEPT ![q.list] = [x \in {q.list} |-> q.edition]]
        /\ Does(r, Ready) /\ Unlocks(r, q.list)
    BY <1>12 DEF WriteList
  <2>2. Ready.at = "idle"
    BY DEF Ready
  <2>3. /\ lock' \in [Lists -> Tasks \cup {None}]
        /\ \A l \in Lists : lock'[l] = IF lock[l] = r THEN None ELSE lock[l]
    BY <1>4, <2>1, <2>2, MayBeReady, Unlocked
  <2>4. SourcesOf(q.list) = {q.list} /\ s = q.list
    BY <1>4, <1>5, <1>12, SourceFacts
  <2>5. PICK c : c = [x \in {q.list} |-> q.edition]
    OBVIOUS
  <2>6. c \in CopiesOf(SourcesOf(q.list)) /\ \A x \in SourcesOf(q.list) : c[x] = file'[x]
    BY <1>4, <1>5, <2>4, <2>5 DEF CopiesOf, Found
  <2>7. DOMAIN copy' = Lists /\ \A l \in Lists : copy'[l] = IF l = q.list THEN c ELSE copy[l]
    BY <1>3, <1>4, <2>1, <2>5 DEF MirrorsTypeOK
  <2>8. Finds(request[r])'
    <3>1. request'[r] = Ready
      BY <1>3, <2>1, MayBeReady, OneSteps
    <3> QED
      BY <2>2, <3>1 DEF Finds
  <2>9. \A l \in Lists : lock'[l] = r <=> Refreshes(Ready, l)
    BY <2>3, MirrorsNone DEF Refreshes
  <2>10. /\ \A l \in Lists \ {q.list} : lock'[l] = lock[l]
         /\ lock'[q.list] \in {None, r}
    BY <1>4, <1>6, <2>3
  <2>11. /\ \A l \in Lists \ {q.list} : copy'[l] = copy[l]
         /\ copy'[q.list] = c
    BY <1>4, <2>7
  <2> HIDE DEF q
  <2> QED
    BY <1>10, <1>12, <2>1, <2>3, <2>6, <2>7, <2>8, <2>9, <2>10, <2>11, MayBeReady
<1> QED
  BY <1>11, <1>12

(* A client hangs up: with a lock of its own, its list counts for nothing  *)
(* any more.                                                               *)
LEMMA HangsUpStep ==
    ASSUME ListsInv, NEW r \in Requests, ReaderHangsUp(r)
    PROVE  ListsInv'
<1>1. DEFINE q == request[r]
<1>2. /\ q # Ready /\ Does(r, Ready) /\ Unlocks(r, q.list) /\ UNCHANGED <<clock, edition, copy, failed>>
      /\ IF lock[q.list] = r
         THEN /\ mixed' = mixed \cup {q.list}
              /\ began' = IF q.list = "sites" THEN [began EXCEPT ![Len(began)].ended = "hung up"] ELSE began
         ELSE UNCHANGED <<mixed, began>>
      /\ \/ UNCHANGED file
         \/ q.at = "write" /\ file' = [file EXCEPT ![Head(q.todo)] = q.edition]
  BY DEF ReaderHangsUp, geoip
<1>3. MirrorsTypeOK /\ BeganInv /\ LockInv /\ MayBe(q) /\ CopyInv /\ r \in Tasks
  BY DEF ListsInv, MirrorsTypeOK, Tasks
<1>4. q.list \in Lists /\ Ready.at = "idle" /\ "sites" \in Lists
  BY <1>2, <1>3, MayBeAt DEF Ready, Lists
<1>5. /\ LockInv' /\ lock' \in [Lists -> Tasks \cup {None}]
      /\ \A l \in Lists : lock'[l] = IF lock[l] = r THEN None ELSE lock[l]
  BY <1>2, <1>3, <1>4, MayBeReady, Unlocked
<1>6. /\ DOMAIN request' = Tasks /\ \A p \in Tasks : MayBe(request'[p])
      /\ \A p \in Tasks : request'[p] = IF p = r THEN Ready ELSE request[p]
  BY <1>2, <1>3, MayBeReady, OneSteps
<1>7. mixed' \subseteq Lists /\ mixed \subseteq mixed' /\ (lock[q.list] = r => q.list \in mixed')
  BY <1>2, <1>3, <1>4 DEF MirrorsTypeOK
<1>8. q.at = "write" => lock[q.list] = r
  BY <1>2, <1>3, <1>4 DEF LockInv, Refreshes
<1>9. \A l \in Lists \ {q.list} : lock[l] # r
  BY <1>2, <1>3 DEF LockInv, Refreshes
<1>10. /\ file' \in [AllSources -> Found]
       /\ \A l \in Lists \ mixed' : \A x \in SourcesOf(l) : file'[x] = file[x]
  <2>1. CASE UNCHANGED file
    BY <1>3, <2>1 DEF MirrorsTypeOK
  <2>2. CASE q.at = "write" /\ file' = [file EXCEPT ![Head(q.todo)] = q.edition]
    BY <1>3, <1>7, <1>8, <2>2, FileWritten
  <2> QED
    BY <1>2, <2>1, <2>2
<1>11. ASSUME NEW p \in Tasks
       PROVE  Finds(request[p])'
  <2>1. CASE p = r
    BY <1>4, <1>6, <2>1 DEF Finds
  <2>2. CASE p # r /\ UNCHANGED file
    <3>1. Finds(request[p]) /\ request'[p] = request[p]
      BY <1>6, <2>2 DEF ListsInv, FoundInv
    <3> QED
      BY <1>7, <2>2, <3>1 DEF Finds
  <2>3. CASE p # r /\ q.at = "write" /\ file' = [file EXCEPT ![Head(q.todo)] = q.edition]
    <3>1. request'[p] = request[p]
      BY <1>6, <2>3
    <3>2. q.list \in mixed'
      BY <1>7, <1>8, <2>3
    <3> QED
      BY <1>3, <1>7, <2>3, <3>1, <3>2, OthersStillFind
  <2> QED
    BY <1>2, <2>1, <2>2, <2>3
<1>12. CopyInv'
  <2> SUFFICES ASSUME NEW l \in Lists \ mixed', copy'[l] # None
               PROVE  /\ \E x \in SourcesOf(l) : file'[x] # None
                      /\ \/ l = "sites" /\ lock'["sites"] # None
                         \/ \A x \in SourcesOf(l) : copy'[l][x] = file'[x]
    BY DEF CopyInv
  <2>1. l \in Lists \ mixed /\ copy' = copy
    BY <1>2, <1>7
  <2>2. /\ \E x \in SourcesOf(l) : file[x] # None
        /\ \/ l = "sites" /\ lock["sites"] # None
           \/ \A x \in SourcesOf(l) : copy[l][x] = file[x]
    BY <1>3, <2>1 DEF CopyInv
  <2>3. lock'[l] = lock[l]
    BY <1>5, <1>7, <1>9
  <2> QED
    BY <1>10, <2>1, <2>2, <2>3
<1>13. began' \in Seq(Begun) /\ BeganInv'
  <2>1. clock \in Nat /\ clock' = clock /\ began \in Seq(Begun) /\ copy'["sites"] = copy["sites"] /\ failed' = failed
    BY <1>2, <1>3 DEF MirrorsTypeOK
  <2>2. CASE lock["sites"] = r
    <3>1. q.list = "sites"
      BY <1>4, <1>9, <2>2
    <3>2. began' = [began EXCEPT ![Len(began)].ended = "hung up"]
      BY <1>2, <2>2, <3>1
    <3>3. lock["sites"] \in Requests /\ lock'["sites"] \notin Requests
      BY <1>4, <1>5, <2>2, MirrorsNone DEF Tasks
    <3> QED
      BY <1>3, <2>1, <3>2, <3>3, FetchEnds DEF Endings
  <2>3. CASE lock["sites"] # r
    <3>1. began' = began
      BY <1>2, <2>3
    <3>2. lock'["sites"] = lock["sites"]
      BY <1>4, <1>5, <2>3
    <3> QED
      BY <1>3, <2>1, <3>1, <3>2, NoneEnds
  <2> QED
    BY <2>2, <2>3
<1>14. MirrorsTypeOK'
  BY <1>2, <1>3, <1>5, <1>6, <1>7, <1>10, <1>13 DEF MirrorsTypeOK
<1> QED
  BY <1>5, <1>11, <1>12, <1>13, <1>14 DEF ListsInv, FoundInv

LEMMA StopStep ==
    ASSUME ListsInv, MirrorsStop
    PROVE  ListsInv'
<1>1. /\ MirrorsTypeOK /\ request' = [r \in Tasks |-> Ready] /\ lock' = [l \in Lists |-> None]
      /\ copy' = [l \in Lists |-> None] /\ failed' = None /\ mixed' = {} /\ began' = <<>>
      /\ UNCHANGED <<clock, edition, file>>
  BY DEF ListsInv, MirrorsStop
<1>2. MirrorsTypeOK'
  BY <1>1, MayBeReady DEF MirrorsTypeOK, Found
<1>3. \A r \in Tasks : request'[r] = Ready /\ Ready.at = "idle"
  BY <1>1 DEF Ready
<1>4. LockInv'
  BY <1>1, <1>3, MirrorsNone DEF LockInv, Refreshes
<1>5. FoundInv'
  BY <1>3 DEF FoundInv, Finds
<1>6. CopyInv'
  BY <1>1 DEF CopyInv
<1>7. BeganInv'
  <2>1. lock'["sites"] = None
    BY <1>1 DEF Lists
  <2> QED
    BY <1>1, <2>1, MirrorsNone DEF BeganInv, NotAskedAgain, Tasks
<1> QED
  BY <1>2, <1>4, <1>5, <1>6, <1>7 DEF ListsInv

(* Nothing happens to the lists, but time goes by or a source has news.    *)
LEMMA ListsStay ==
    ASSUME ListsInv, UNCHANGED <<file, copy, lock, failed, request, began, mixed>>,
           clock' \in Nat, clock' >= clock, edition' \in Nat \ {0}
    PROVE  ListsInv'
<1>1. MirrorsTypeOK'
  BY DEF ListsInv, MirrorsTypeOK
<1>2. LockInv' /\ CopyInv'
  BY DEF ListsInv, LockInv, CopyInv
<1>3. FoundInv'
  BY DEF ListsInv, FoundInv, Finds
<1>4. BeganInv'
  BY NoneEnds DEF ListsInv
<1> QED
  BY <1>1, <1>2, <1>3, <1>4 DEF ListsInv

(***************************************************************************)
(* GeoIP                                                                   *)
(***************************************************************************)
LEMMA OpenIsThere ==
    ASSUME geo \in [city : Found, asn : Found, month : Found]
    PROVE  /\ Open \in Databases \cup {None}
           /\ geo.city # None => Open # None
<1>1. [city |-> geo.city, asn |-> geo.asn] \in Databases
  BY DEF Databases
<1> QED
  BY <1>1, MirrorsNone DEF Open

LEMMA GeoStays ==
    ASSUME GeoTypeOK, GeoInv, UNCHANGED <<scene, geo, opened, download, forgetting>>, edition' \in Nat, edition' >= edition
    PROVE  GeoTypeOK' /\ GeoInv'
<1>1. GeoTypeOK'
  BY DEF GeoTypeOK, MayDownload
<1>2. GeoInv'
  BY MirrorsNone DEF GeoInv, GeoTypeOK, Found
<1> QED
  BY <1>1, <1>2

LEMMA UpdateStep ==
    ASSUME GeoTypeOK, GeoInv, Update \/ DownloadFails
    PROVE  GeoTypeOK' /\ GeoInv'
<1>1. UNCHANGED <<scene, edition, geo, opened, forgetting>>
  BY DEF Update, DownloadFails, geoRest, lists
<1>2. /\ download' = NotRunning \/ download' = [at |-> "look"]
      /\ download.at # "open"
      /\ download'.at \in {"idle", "look"}
  BY DEF Update, DownloadFails, NotRunning
<1> QED
  BY <1>1, <1>2 DEF GeoTypeOK, MayDownload, GeoInv

LEMMA DownloadStep ==
    ASSUME GeoTypeOK, GeoInv, Download
    PROVE  GeoTypeOK' /\ GeoInv'
<1>1. UNCHANGED <<scene, edition, geo, opened, forgetting>> /\ download.at = "look" /\ edition \in Nat \ {0}
  BY DEF Download, geoRest, lists, GeoTypeOK
<1>2. PICK m \in {edition, edition - 1} \ {0} :
          download' = IF opened # None /\ geo.month \in {edition, m} THEN NotRunning
                      ELSE [at |-> "city", month |-> m]
  BY DEF Download
<1>3. m \in Nat \ {0} /\ m <= edition
  BY <1>1
<1>4. CASE download' = NotRunning
  <2>1. download'.at = "idle"
    BY <1>4 DEF NotRunning
  <2> QED
    BY <1>1, <1>4, <2>1 DEF GeoTypeOK, MayDownload, GeoInv
<1>5. CASE download' = [at |-> "city", month |-> m] /\ ~(opened # None /\ geo.month \in {edition, m})
  <2>1. download'.at = "city" /\ download'.month = m
        /\ download' \in [at : {"city", "asn", "month", "open"}, month : Nat \ {0}]
    BY <1>3, <1>5
  <2>2. GeoTypeOK'
    BY <1>1, <1>3, <2>1 DEF GeoTypeOK, MayDownload
  <2>3. "forget" \notin scene.asks /\ geo.month # None => geo.month <= m
    <3>1. geo.month # None => geo.month \in Nat
      BY DEF GeoTypeOK, Found
    <3>2. "forget" \notin scene.asks /\ geo.month # None => geo.month <= edition /\ opened # None
      BY <1>1 DEF GeoInv
    <3> QED
      BY <1>1, <1>5, <3>1, <3>2
  <2>4. GeoInv'
    BY <1>1, <2>1, <2>3 DEF GeoInv
  <2> QED
    BY <2>2, <2>4
<1> QED
  BY <1>2, <1>4, <1>5

LEMMA RenamesStep ==
    ASSUME GeoTypeOK, GeoInv, RenameCity \/ RenameAsn \/ WriteMonth
    PROVE  GeoTypeOK' /\ GeoInv'
<1>1. PICK what, then : /\ <<what, then>> \in {<<"city", "asn">>, <<"asn", "month">>, <<"month", "open">>}
                        /\ download.at = what /\ geo' = [geo EXCEPT ![what] = download.month]
                        /\ download' = [download EXCEPT !.at = then]
                        /\ UNCHANGED <<scene, edition, opened, forgetting>>
  BY DEF RenameCity, RenameAsn, WriteMonth, Renames, geoRest, lists
<1>2. /\ download \in [at : {"city", "asn", "month", "open"}, month : Nat \ {0}] /\ download.month <= edition
      /\ edition \in Nat /\ geo \in [city : Found, asn : Found, month : Found]
  BY <1>1 DEF GeoTypeOK, MayDownload, NotRunning
<1>3. PICK m \in Nat \ {0} : m = download.month /\ m <= edition
  BY <1>2
<1>4. m \in Found /\ m # None
  BY <1>3, MirrorsNone DEF Found
<1>5. /\ download' \in [at : {"city", "asn", "month", "open"}, month : Nat \ {0}]
      /\ download'.month = m /\ download'.at = then
  BY <1>1, <1>2, <1>3
<1>6. /\ geo' \in [city : Found, asn : Found, month : Found]
      /\ geo'.city = (IF what = "city" THEN m ELSE geo.city) /\ geo'.asn = (IF what = "asn" THEN m ELSE geo.asn)
      /\ geo'.month = (IF what = "month" THEN m ELSE geo.month)
  BY <1>1, <1>2, <1>3, <1>4
<1>7. GeoTypeOK'
  BY <1>1, <1>3, <1>5, <1>6 DEF GeoTypeOK, MayDownload
<1>8. GeoInv'
  <2> SUFFICES ASSUME "forget" \notin scene.asks
               PROVE  /\ forgetting' = None
                      /\ geo'.month # None => /\ geo'.month <= edition /\ geo'.city # None /\ geo'.city >= geo'.month
                                              /\ geo'.asn # None /\ geo'.asn >= geo'.month
                                              /\ opened # None \/ download'.at = "open"
                                              /\ download'.at \in {"city", "asn", "month"} => geo'.month <= m
                      /\ download'.at \in {"asn", "month"} => geo'.city = m
                      /\ download'.at = "month" => geo'.asn = m
    BY <1>1, <1>5 DEF GeoInv
  <2>1. /\ forgetting = None
        /\ geo.month # None => /\ geo.month <= edition /\ geo.city # None /\ geo.city >= geo.month
                               /\ geo.asn # None /\ geo.asn >= geo.month
                               /\ opened # None \/ download.at = "open"
                               /\ download.at \in {"city", "asn", "month"} => geo.month <= m
        /\ download.at \in {"asn", "month"} => geo.city = m
        /\ download.at = "month" => geo.asn = m
    BY <1>3 DEF GeoInv
  <2>2. CASE what = "city" /\ then = "asn"
    BY <1>1, <1>3, <1>4, <1>5, <1>6, <2>1, <2>2
  <2>3. CASE what = "asn" /\ then = "month"
    BY <1>1, <1>3, <1>4, <1>5, <1>6, <2>1, <2>3
  <2>4. CASE what = "month" /\ then = "open"
    BY <1>1, <1>3, <1>4, <1>5, <1>6, <2>1, <2>4
  <2> QED
    BY <1>1, <2>2, <2>3, <2>4
<1> QED
  BY <1>7, <1>8

LEMMA OpenFilesStep ==
    ASSUME GeoTypeOK, GeoInv, OpenFiles
    PROVE  GeoTypeOK' /\ GeoInv'
<1>1. /\ download' = NotRunning /\ download'.at = "idle" /\ opened' = Open /\ UNCHANGED <<scene, edition, geo, forgetting>>
      /\ geo \in [city : Found, asn : Found, month : Found]
  BY DEF OpenFiles, geoRest, lists, NotRunning, GeoTypeOK
<1>2. opened' \in Databases \cup {None} /\ (geo.city # None => opened' # None)
  BY <1>1, OpenIsThere
<1> QED
  BY <1>1, <1>2 DEF GeoTypeOK, MayDownload, GeoInv

LEMMA ForgetStep_ ==
    ASSUME GeoTypeOK, GeoInv, ForgetGeoip \/ DeleteFile
    PROVE  GeoTypeOK' /\ GeoInv'
<1>1. UNCHANGED <<scene, edition, download>>
  BY DEF ForgetGeoip, DeleteFile, geoRest, lists
<1>2. "forget" \in scene.asks
  BY DEF ForgetGeoip, DeleteFile, Asks, GeoInv
<1>3. opened' \in Databases \cup {None} /\ geo' \in [city : Found, asn : Found, month : Found]
  <2>1. geo \in [city : Found, asn : Found, month : Found] /\ opened \in Databases \cup {None} /\ None \in Found
    BY DEF GeoTypeOK, Found
  <2>2. geo' = geo \/ \E f : geo' = [geo EXCEPT ![f] = None]
    BY DEF ForgetGeoip, DeleteFile
  <2>3. opened' = opened \/ opened' = None
    BY DEF ForgetGeoip, DeleteFile
  <2>4. ASSUME NEW f, geo' = [geo EXCEPT ![f] = None]
        PROVE  geo' \in [city : Found, asn : Found, month : Found]
    <3>1. CASE f \in {"city", "asn", "month"}
      BY <2>1, <2>4, <3>1
    <3>2. CASE f \notin {"city", "asn", "month"}
      BY <2>1, <2>4, <3>2
    <3> QED
      BY <3>1, <3>2
  <2> QED
    BY <2>1, <2>2, <2>3, <2>4
<1> QED
  BY <1>1, <1>2, <1>3 DEF GeoTypeOK, MayDownload, GeoInv

LEMMA StopGeo ==
    ASSUME GeoTypeOK, GeoInv, MirrorsStop
    PROVE  GeoTypeOK' /\ GeoInv'
<1>1. /\ download' = NotRunning /\ download'.at = "idle" /\ opened' = Open /\ forgetting' = None
      /\ UNCHANGED <<scene, edition, geo>> /\ geo \in [city : Found, asn : Found, month : Found]
  BY DEF MirrorsStop, NotRunning, GeoTypeOK
<1>2. opened' \in Databases \cup {None} /\ (geo.city # None => opened' # None)
  BY <1>1, OpenIsThere
<1> QED
  BY <1>1, <1>2 DEF GeoTypeOK, MayDownload, GeoInv

(***************************************************************************)
(* All of it                                                               *)
(***************************************************************************)
LEMMA MirrorsStart ==
    ASSUME MirrorsInit
    PROVE  MirrorsIInv
<1>1. /\ clock = 1 /\ edition = 1 /\ copy = [l \in Lists |-> None] /\ lock = [l \in Lists |-> None] /\ failed = None
      /\ request = [r \in Tasks |-> Ready] /\ began = <<>> /\ mixed = {}
      /\ download = NotRunning /\ forgetting = None /\ opened = Open
  BY DEF MirrorsInit
<1>2. PICK had \in {None, 1} : file = [s \in AllSources |-> had]
  BY DEF MirrorsInit
<1>3. PICK month \in {None, 1} : geo = [city |-> month, asn |-> month, month |-> month]
  BY DEF MirrorsInit, NoFiles
<1>4. \A r \in Tasks : request[r] = Ready /\ Ready.at = "idle"
  BY <1>1 DEF Ready
<1>5. MirrorsTypeOK
  BY <1>1, <1>2, MayBeReady DEF MirrorsTypeOK, Found
<1>6. LockInv /\ FoundInv
  BY <1>1, <1>4, MirrorsNone DEF LockInv, Refreshes, FoundInv, Finds
<1>7. CopyInv
  BY <1>1 DEF CopyInv
<1>8. BeganInv
  <2>1. lock["sites"] = None
    BY <1>1 DEF Lists
  <2> QED
    BY <1>1, <2>1, MirrorsNone DEF BeganInv, NotAskedAgain, Tasks
<1>9. geo \in [city : Found, asn : Found, month : Found] /\ geo.city = month /\ geo.asn = month /\ geo.month = month
  BY <1>3 DEF Found
<1>10. opened \in Databases \cup {None} /\ (geo.city # None => opened # None)
  BY <1>1, <1>9, OpenIsThere
<1>11. GeoTypeOK
  BY <1>1, <1>9, <1>10 DEF GeoTypeOK, MayDownload
<1>12. GeoInv
  BY <1>1, <1>9, <1>10 DEF GeoInv, NotRunning
<1> QED
  BY <1>5, <1>6, <1>7, <1>8, <1>11, <1>12 DEF MirrorsIInv, ListsInv

LEMMA MirrorsGoOn ==
    ASSUME MirrorsIInv, [MirrorsNext]_mirrorsVars
    PROVE  MirrorsIInv'
<1>1. ListsInv /\ GeoTypeOK /\ GeoInv /\ clock \in Nat /\ edition \in Nat \ {0}
  BY DEF MirrorsIInv, ListsInv, MirrorsTypeOK
<1>2. ASSUME UNCHANGED <<scene, edition, geoip>>
      PROVE  GeoTypeOK' /\ GeoInv'
  <2>1. UNCHANGED <<scene, geo, opened, download, forgetting>> /\ edition' \in Nat /\ edition' >= edition
    BY <1>1, <1>2 DEF geoip
  <2> QED
    BY <1>1, <2>1, GeoStays
<1>3. ASSUME UNCHANGED <<clock, lists>>
      PROVE  ListsInv'
  <2>1. /\ UNCHANGED <<file, copy, lock, failed, request, began, mixed>>
        /\ clock' \in Nat /\ clock' >= clock /\ edition' \in Nat \ {0}
    BY <1>1, <1>3 DEF lists
  <2> QED
    BY <1>1, <2>1, ListsStay
<1>4. ASSUME NEW r \in Tasks, Load(r)
      PROVE  MirrorsIInv'
  BY <1>1, <1>2, <1>4, LoadStep DEF MirrorsIInv, Load
<1>5. ASSUME NEW r \in Tasks, TakeListLock(r)
      PROVE  MirrorsIInv'
  BY <1>1, <1>2, <1>5, TakeListLockStep DEF MirrorsIInv, TakeListLock
<1>6. ASSUME NEW r \in Tasks, Fetch(r)
      PROVE  MirrorsIInv'
  BY <1>1, <1>2, <1>6, FetchStep DEF MirrorsIInv, Fetch
<1>7. ASSUME NEW r \in Tasks, FetchFails(r)
      PROVE  MirrorsIInv'
  BY <1>1, <1>2, <1>7, FetchFailsStep DEF MirrorsIInv, FetchFails
<1>8. ASSUME NEW r \in Tasks, WriteList(r)
      PROVE  MirrorsIInv'
  BY <1>1, <1>2, <1>8, WriteListStep DEF MirrorsIInv, WriteList
<1>9. ASSUME NEW r \in Requests, Get(r)
      PROVE  MirrorsIInv'
  <2>1. r \in Tasks /\ UNCHANGED <<scene, edition, geoip>>
    BY <1>9 DEF Get, Tasks
  <2> QED
    BY <1>1, <1>2, <1>9, <2>1, GetStep DEF MirrorsIInv
<1>10. ASSUME NEW r \in Requests, ReaderHangsUp(r)
       PROVE  MirrorsIInv'
  BY <1>1, <1>2, <1>10, HangsUpStep DEF MirrorsIInv, ReaderHangsUp
<1>11. CASE Refresh
  BY <1>1, <1>2, <1>11, RefreshStep DEF MirrorsIInv, Refresh
<1>12. CASE Update \/ DownloadFails
  <2>1. UNCHANGED <<clock, lists>>
    BY <1>12 DEF Update, DownloadFails, geoRest
  <2> QED
    BY <1>1, <1>3, <1>12, <2>1, UpdateStep DEF MirrorsIInv
<1>13. CASE Download
  <2>1. UNCHANGED <<clock, lists>>
    BY <1>13 DEF Download, geoRest
  <2> QED
    BY <1>1, <1>3, <1>13, <2>1, DownloadStep DEF MirrorsIInv
<1>14. CASE RenameCity \/ RenameAsn \/ WriteMonth
  <2>1. UNCHANGED <<clock, lists>>
    BY <1>14 DEF RenameCity, RenameAsn, WriteMonth, Renames, geoRest
  <2> QED
    BY <1>1, <1>3, <1>14, <2>1, RenamesStep DEF MirrorsIInv
<1>15. CASE OpenFiles
  <2>1. UNCHANGED <<clock, lists>>
    BY <1>15 DEF OpenFiles, geoRest
  <2> QED
    BY <1>1, <1>3, <1>15, <2>1, OpenFilesStep DEF MirrorsIInv
<1>16. CASE SetGeoip
  <2>1. UNCHANGED <<clock, lists>> /\ UNCHANGED <<scene, geo, opened, download, forgetting>>
        /\ edition' \in Nat /\ edition' >= edition
    BY <1>1, <1>16 DEF SetGeoip, geoRest, lists
  <2> QED
    BY <1>1, <1>3, <2>1, GeoStays DEF MirrorsIInv
<1>17. CASE ForgetGeoip \/ DeleteFile
  <2>1. UNCHANGED <<clock, lists>>
    BY <1>17 DEF ForgetGeoip, DeleteFile, geoRest
  <2> QED
    BY <1>1, <1>3, <1>17, <2>1, ForgetStep_ DEF MirrorsIInv
<1>18. CASE Publish
  <2>1. /\ UNCHANGED <<file, copy, lock, failed, request, began, mixed>>
        /\ clock' \in Nat /\ clock' >= clock /\ edition' \in Nat \ {0}
        /\ UNCHANGED <<scene, geo, opened, download, forgetting>> /\ edition' >= edition
    BY <1>1, <1>18 DEF Publish, geoip
  <2> QED
    BY <1>1, <2>1, ListsStay, GeoStays DEF MirrorsIInv
<1>19. CASE MirrorsStop
  BY <1>1, <1>19, StopStep, StopGeo DEF MirrorsIInv
<1>20. CASE MirrorsTick
  <2>1. /\ UNCHANGED <<file, copy, lock, failed, request, began, mixed>>
        /\ clock' \in Nat /\ clock' >= clock /\ edition' \in Nat \ {0}
        /\ UNCHANGED <<scene, edition, geoip>>
    BY <1>1, <1>20 DEF MirrorsTick, lists
  <2> QED
    BY <1>1, <1>2, <2>1, ListsStay DEF MirrorsIInv
<1>21. CASE UNCHANGED mirrorsVars
  <2>1. UNCHANGED <<clock, lists>> /\ UNCHANGED <<scene, edition, geoip>>
    BY <1>21 DEF mirrorsVars, lists
  <2> QED
    BY <1>2, <1>3, <2>1 DEF MirrorsIInv
<1> QED
  BY <1>4, <1>5, <1>6, <1>7, <1>8, <1>9, <1>10, <1>11, <1>12, <1>13, <1>14, <1>15, <1>16, <1>17, <1>18, <1>19,
     <1>20, <1>21 DEF MirrorsNext

LEMMA MirrorsHold ==
    ASSUME MirrorsIInv
    PROVE  MirrorsInv
<1>1. NotAskedAgain
  BY DEF MirrorsIInv, ListsInv, BeganInv
<1>2. MemoryIsDisk
  <2> SUFFICES ASSUME NEW l \in Lists \ mixed, copy[l] # None,
                      \A r \in Tasks : request[r] = Ready \/ request[r].list # l
               PROVE  \A s \in DOMAIN copy[l] : copy[l][s] = file[s]
    BY DEF MemoryIsDisk
  <2>1. copy[l] \in CopiesOf(SourcesOf(l)) /\ lock[l] \in Tasks \cup {None} /\ LockInv /\ CopyInv
    BY DEF MirrorsIInv, ListsInv, MirrorsTypeOK
  <2>2. DOMAIN copy[l] = SourcesOf(l)
    BY <2>1 DEF CopiesOf
  <2>3. lock[l] = None
    BY <2>1 DEF LockInv, Refreshes
  <2> QED
    BY <2>1, <2>2, <2>3 DEF CopyInv
<1>3. MonthIsHere
  BY DEF MirrorsIInv, GeoInv, MonthIsHere
<1> QED
  BY <1>1, <1>2, <1>3 DEF MirrorsInv

THEOREM MirrorsAreKept == MirrorsSpec => []MirrorsInv
<1>1. MirrorsInit => MirrorsIInv
  BY MirrorsStart
<1>2. MirrorsIInv /\ [MirrorsNext]_mirrorsVars => MirrorsIInv'
  BY MirrorsGoOn
<1>3. MirrorsIInv => MirrorsInv
  BY MirrorsHold
<1> QED
  BY <1>1, <1>2, <1>3, PTL DEF MirrorsSpec

(***************************************************************************)
(* Icons                                                                   *)
(***************************************************************************)
Times == Nat \cup {None}
Kinds == {"png", "none"}
LocksOf(n) == {n} \X Requests
AnyLock == (Names \X Requests) \cup {None}
MayLook == [at : {"look"}, name : Names]
MayOwn == [at : {"own"}, key : {"organization", "extras"}]
MayWork ==
    [at : Holding \cup {"lock"}, name : Names, lock : AnyLock, kind : Kinds,
     files : Times, before : SUBSET Files]

(* What a request may be at: icons drawn from a database are written       *)
(* without a lock and as icons, those of the library without a book.       *)
Fits(q) ==
    \/ q = Ready
    \/ q \in MayLook
    \/ q \in MayOwn
    \/ /\ q \in MayWork
       /\ CASE q.name = "drawn" -> /\ q.lock = None /\ q.kind = "png" /\ <<"drawn", "none">> \notin q.before
                                   /\ q.at \notin {"lock", "slot", "fetch"}
            [] q.name = "library" -> q.lock \in LocksOf("library") /\ q.kind = "png" /\ q.at \in {"lock", "slot", "fetch", "rename"}
            [] OTHER -> q.lock \in LocksOf(q.name)
       /\ q.before \in {{}, {Kind(q)}, {Other(q)}}
       /\ q.at # "size" => q.files = None

MayEvict ==
    \/ eviction = Ready
    \/ eviction \in [at : {"list"}, by : Requests \cup {Daily}]
    \/ eviction \in [at : {"remove"}, by : Requests \cup {Daily}, listed : SUBSET (Cached \X {"png", "none", "tmp"}),
                     when : [Files -> Times]]
    \/ eviction \in [at : {"count"}, by : Requests \cup {Daily}, left : Nat]

IconsTypeOK ==
    /\ clock \in Nat /\ disk \in [Files -> Times] /\ book \in Times
    /\ DOMAIN locks = Names /\ \A n \in Names : locks[n] \in LocksOf(n) \cup {None}
    /\ overlap \in BOOLEAN /\ clearing \in BOOLEAN
    /\ DOMAIN request = Requests /\ \A r \in Requests : Fits(request[r])

(* The request that evicts waits for it.                                   *)
EvictInv ==
    /\ MayEvict
    /\ \A r \in Requests : request[r].at = "evict" <=> eviction # Ready /\ eviction.by = r

(* A name's lock is the one in the map, and one request holds it.          *)
Works(q) == q.at \in Holding \cup {"lock"} /\ q.lock # None
LocksInv ==
    /\ \A r \in Requests : Works(request[r]) => locks[request[r].name] = request[r].lock
    /\ \A p, r \in Requests : p # r /\ request[p].at \in Holding /\ Works(request[p]) /\ request[r].at \in Holding /\ Works(request[r])
                              => request[p].name # request[r].name

(* What is about to be fetched is not there.                               *)
NotThere ==
    \A r \in Requests : request[r].at \in {"slot", "fetch"} => ~CachedIcon(request[r].name) /\ ~CachedNone(request[r].name)

(* A name has an icon or is known to have none, never both.                *)
EitherInv ==
    /\ \A n \in Cached : disk[<<n, "png">>] = None \/ disk[<<n, "none">>] = None
    /\ disk[<<"drawn", "none">>] = None /\ disk[<<"library", "none">>] = None
    /\ \A r \in Requests : request[r].at \in {"rename", "book"} => disk[Other(request[r])] = None

(* What a request found is there until it says so in the book.             *)
SeenInv ==
    ~overlap => \A r \in Requests :
        /\ Writes(request[r]) /\ request[r].at = "replace" => \A f \in request[r].before : disk[f] # None
        /\ Writes(request[r]) /\ request[r].at = "rename" /\ request[r].before = {Kind(request[r])} => disk[Kind(request[r])] # None

(* What is on disk and does not go by the book yet.                        *)
Beside(q) ==
    IF Writes(q) /\ q.at = "rename" /\ Other(q) \notin q.before THEN {Temporary(q)}
    ELSE IF Writes(q) /\ q.at = "book" /\ q.before = {} THEN {Kind(q)}
    ELSE {}
Settled == Counted(disk) \ UNION {Beside(request[p]) : p \in Requests}

CountedInv ==
    ~overlap =>
        /\ \A r \in Requests : Sizing(request[r]) => Cardinality(Counted(disk)) <= request[r].files
        /\ eviction.at = "remove" => Counted(disk) \subseteq eviction.listed
        /\ eviction.at = "count" => Cardinality(Counted(disk)) <= eviction.left /\ Cardinality(Counted(disk)) <= AfterEviction
BookInv ==
    ~overlap /\ book # None =>
        /\ Cardinality(Settled) <= book \/ eviction.at \in {"remove", "count"}
        /\ book > MaxFiles => \/ Cardinality(Settled) <= MaxFiles \/ eviction # Ready
                              \/ \E p \in Requests : Writes(request[p])

OwnInv ==
    /\ DOMAIN item = {"shared", "own", "raced"}
    /\ KeyIsOwners
    /\ \A r \in Requests : request[r].at = "own" /\ request[r].key = "extras" /\ item.shared => item.raced

IconsIInv ==
    IconsTypeOK /\ EvictInv /\ LocksInv /\ NotThere /\ EitherInv /\ SeenInv /\ CountedInv /\ BookInv /\ OwnInv

LEMMA FitsAt ==
    ASSUME NEW q, Fits(q)
    PROVE  /\ q.at \in Holding \cup {"idle", "look", "own", "lock"}
           /\ q.at = "look" => q.name \in Names
           /\ q.at \in Holding \cup {"lock"} =>
                 /\ q \in MayWork /\ q.name \in Names /\ q.kind \in Kinds /\ q.before \in {{}, {Kind(q)}, {Other(q)}}
                 /\ q.at # "size" => q.files = None
                 /\ q.files \in Times
                 /\ q.name = "drawn" => /\ q.lock = None /\ q.kind = "png" /\ <<"drawn", "none">> \notin q.before
                                        /\ q.at \notin {"lock", "slot", "fetch"}
                 /\ q.name = "library" => q.kind = "png" /\ q.at \in {"lock", "slot", "fetch", "rename"}
                 /\ q.name # "drawn" => q.lock \in LocksOf(q.name) /\ q.lock # None
           /\ q.at = "idle" <=> q = Ready
<1>1. Ready.at = "idle"
  BY DEF Ready
<1>2. \A n \in Names : None \notin LocksOf(n)
  BY IconsNone DEF LocksOf
<1>3. CASE q \in MayWork
  BY <1>1, <1>2, <1>3 DEF Fits, MayWork, Holding, MayLook, MayOwn
<1>4. CASE q \in MayLook \cup MayOwn \cup {Ready}
  BY <1>1, <1>4 DEF MayLook, MayOwn, Holding
<1> QED
  BY <1>3, <1>4 DEF Fits

LEMMA FitsReady == Fits(Ready) /\ Ready.at = "idle"
BY DEF Fits, Ready

LEMMA FitsLook ==
    ASSUME NEW n \in Names
    PROVE  Fits([at |-> "look", name |-> n])
BY DEF Fits, MayLook

LEMMA NameFacts ==
    /\ Names = {"www", "site", "drawn", "library"} /\ Cached = {"www", "site", "drawn"} /\ Hosts = {"www", "site"}
    /\ \A n \in Names : n \notin {"drawn", "library"} <=> n \in Hosts
    /\ \A n \in Names : n \in Cached <=> n # "library"
    /\ \A n \in Hosts : BaseOf(n) \in Names \cup {None}
    /\ \A q : q.kind \in Kinds => Other(q) # Kind(q)
    /\ Files = Names \X {"png", "none", "tmp"}
BY DEF Names, Cached, Hosts, BaseOf, Kinds, Other, Kind, Files

(* What a name's files are called.                                         *)
LEMMA FileFacts ==
    ASSUME NEW q, q.name \in Names, q.kind \in Kinds
    PROVE  /\ Kind(q) \in Files /\ Other(q) \in Files /\ Temporary(q) \in Files
           /\ Kind(q) # Other(q) /\ Temporary(q) # Kind(q) /\ Temporary(q) # Other(q)
           /\ \/ Kind(q) = <<q.name, "png">> /\ Other(q) = <<q.name, "none">>
              \/ Kind(q) = <<q.name, "none">> /\ Other(q) = <<q.name, "png">>
           /\ q.kind = "png" => Kind(q) = <<q.name, "png">> /\ Other(q) = <<q.name, "none">>
           /\ \A n \in Names, k \in Kinds : <<n, k>> \in Files /\ <<n, k>> # Temporary(q)
           /\ \A n \in Names \ {q.name}, k \in Kinds : <<n, k>> # Kind(q) /\ <<n, k>> # Other(q)
           /\ Kind(q)[1] = q.name /\ Other(q)[1] = q.name /\ Temporary(q)[1] = q.name
BY DEF Kinds, Kind, Other, Temporary, Files

(* The answer ends here, or goes on with the base domain.                  *)
LEMMA KeptFits ==
    ASSUME NEW r \in Requests
    PROVE  Fits(Kept(r)) /\ Kept(r).at \in {"idle", "look"}
<1>1. CASE Kept(r) = Ready
  BY <1>1, FitsReady
<1>2. CASE Kept(r) # Ready
  <2>1. request[r].name \in Hosts /\ BaseOf(request[r].name) # None /\ Kept(r) = [at |-> "look", name |-> BaseOf(request[r].name)]
    BY <1>2 DEF Kept
  <2>2. BaseOf(request[r].name) \in Names
    BY <2>1, NameFacts
  <2>3. Kept(r).at = "look"
    BY <2>1
  <2> QED
    BY <2>1, <2>2, <2>3, FitsLook
<1> QED
  BY <1>1, <1>2

LEMMA ThenBaseFits ==
    ASSUME NEW r, NEW n \in Hosts, ThenBase(r, n)
    PROVE  \E step : Does(r, step) /\ Fits(step) /\ step.at \in {"idle", "look"}
<1>1. CASE Does(r, Ready)
  BY <1>1, FitsReady
<1>2. CASE BaseOf(n) # None /\ Does(r, [at |-> "look", name |-> BaseOf(n)])
  <2>1. BaseOf(n) \in Names
    BY <1>2, NameFacts
  <2>2. PICK step : step = [at |-> "look", name |-> BaseOf(n)]
    OBVIOUS
  <2>3. Fits(step) /\ step.at = "look" /\ Does(r, step)
    BY <1>2, <2>1, <2>2, FitsLook
  <2> QED
    BY <2>3
<1> QED
  BY <1>1, <1>2 DEF ThenBase

LEMMA IconSteps ==
    ASSUME IconsTypeOK, NEW r \in Requests, NEW step, Fits(step), Does(r, step)
    PROVE  /\ DOMAIN request' = Requests /\ \A p \in Requests : Fits(request'[p])
           /\ \A p \in Requests : request'[p] = IF p = r THEN step ELSE request[p]
BY DEF IconsTypeOK, Does

(***************************************************************************)
(* Locks, and what is fetched under them                                   *)
(***************************************************************************)
IconsCore == IconsTypeOK /\ LocksInv /\ NotThere /\ EitherInv

(* Two that hold no name's lock but their own have two names.              *)
LEMMA OwnNames ==
    ASSUME IconsTypeOK, LocksInv, NEW p \in Requests, NEW r \in Requests, p # r,
           request[p].at \in Holding, request[r].at \in Holding, request[p].name = request[r].name
    PROVE  request[p].name = "drawn" /\ request[p].lock = None /\ request[p].kind = "png"
<1>1. Fits(request[p]) /\ Fits(request[r])
  BY DEF IconsTypeOK
<1>2. request[p].name # "drawn" => request[p].lock # None /\ request[r].lock # None
  BY <1>1, FitsAt
<1>3. request[p].name = "drawn"
  BY <1>2 DEF LocksInv, Works
<1> QED
  BY <1>1, <1>3, FitsAt

LEMMA CoreStep ==
    ASSUME IconsCore, NEW r \in Requests, NEW step, Fits(step), Does(r, step), clock' = clock,
           disk' \in [Files -> Times], book' \in Times, overlap' \in BOOLEAN, clearing' \in BOOLEAN,
           DOMAIN locks' = Names, \A n \in Names : locks'[n] \in LocksOf(n) \cup {None},
           \A p \in Requests \ {r} : Works(request[p]) => locks'[request[p].name] = request[p].lock,
           Works(step) => locks'[step.name] = step.lock,
           Works(step) /\ step.at \in Holding =>
               \A p \in Requests \ {r} : Works(request[p]) /\ request[p].at \in Holding => request[p].name # step.name,
           \A n \in Cached : disk'[<<n, "png">>] = None \/ disk'[<<n, "none">>] = None,
           disk'[<<"drawn", "none">>] = None, disk'[<<"library", "none">>] = None,
           \A p \in Requests \ {r} : request[p].at \in {"slot", "fetch"} =>
               \A k \in Kinds : disk'[<<request[p].name, k>>] \in {None, disk[<<request[p].name, k>>]},
           \A p \in Requests \ {r} : request[p].at \in {"rename", "book"} => disk'[Other(request[p])] = None,
           step.at \in {"slot", "fetch"} => ~(CachedIcon(step.name))' /\ ~(CachedNone(step.name))',
           step.at \in {"rename", "book"} => disk'[Other(step)] = None
    PROVE  IconsCore'
<1>1. /\ DOMAIN request' = Requests /\ \A p \in Requests : Fits(request'[p])
      /\ \A p \in Requests : request'[p] = IF p = r THEN step ELSE request[p]
  BY IconSteps DEF IconsCore
<1>2. IconsTypeOK'
  BY <1>1 DEF IconsCore, IconsTypeOK
<1>3. LocksInv'
  <2>1. \A p \in Requests : Works(request'[p]) => locks'[request'[p].name] = request'[p].lock
    BY <1>1
  <2>2. ASSUME NEW p \in Requests, NEW q \in Requests, p # q, request'[p].at \in Holding, Works(request'[p]),
               request'[q].at \in Holding, Works(request'[q])
        PROVE  request'[p].name # request'[q].name
    <3>1. CASE p = r
      BY <1>1, <2>2, <3>1
    <3>2. CASE q = r
      BY <1>1, <2>2, <3>2
    <3>3. CASE p # r /\ q # r
      BY <1>1, <2>2, <3>3 DEF IconsCore, LocksInv
    <3> QED
      BY <3>1, <3>2, <3>3
  <2> QED
    BY <2>1, <2>2 DEF LocksInv, Works
<1>4. NotThere'
  <2> SUFFICES ASSUME NEW p \in Requests, request'[p].at \in {"slot", "fetch"}
               PROVE  ~(CachedIcon(request[p].name))' /\ ~(CachedNone(request[p].name))'
    BY DEF NotThere
  <2>1. CASE p = r
    <3>1. request'[p] = step
      BY <1>1, <2>1
    <3> QED
      BY <3>1 DEF CachedIcon, CachedNone, fresh
  <2>2. CASE p # r
    <3>1. request'[p] = request[p] /\ ~CachedIcon(request[p].name) /\ ~CachedNone(request[p].name)
      BY <1>1, <2>2 DEF IconsCore, NotThere
    <3>2. /\ disk'[<<request[p].name, "png">>] \in {None, disk[<<request[p].name, "png">>]}
          /\ disk'[<<request[p].name, "none">>] \in {None, disk[<<request[p].name, "none">>]}
      BY <2>2, <3>1 DEF Kinds
    <3> QED
      BY <3>1, <3>2 DEF CachedIcon, CachedNone, fresh
  <2> QED
    BY <2>1, <2>2
<1>5. EitherInv'
  <2> SUFFICES ASSUME NEW p \in Requests, request'[p].at \in {"rename", "book"}
               PROVE  disk'[(Other(request[p]))'] = None
    BY DEF EitherInv
  <2>1. CASE p = r
    BY <1>1, <2>1 DEF Other
  <2>2. CASE p # r
    BY <1>1, <2>2 DEF Other
  <2> QED
    BY <2>1, <2>2
<1> QED
  BY <1>2, <1>3, <1>4, <1>5 DEF IconsCore

(***************************************************************************)
(* The ceiling                                                             *)
(***************************************************************************)
LEMMA CountedFinite ==
    ASSUME NEW d
    PROVE  /\ Counted(d) \subseteq Files /\ IsFiniteSet(Counted(d)) /\ Cardinality(Counted(d)) \in Nat
           /\ \A T : T \subseteq Counted(d) => /\ IsFiniteSet(T) /\ Cardinality(T) \in Nat
                                               /\ Cardinality(T) <= Cardinality(Counted(d))
<1>1. IsFiniteSet(Names)
  <2>1. IsFiniteSet({"www"}) /\ IsFiniteSet({"site"}) /\ IsFiniteSet({"drawn"}) /\ IsFiniteSet({"library"})
    BY FS_Singleton
  <2>2. IsFiniteSet({"www"} \cup {"site"})
    BY <2>1, FS_Union
  <2>3. IsFiniteSet({"drawn"} \cup {"library"})
    BY <2>1, FS_Union
  <2>4. IsFiniteSet(({"www"} \cup {"site"}) \cup ({"drawn"} \cup {"library"}))
    BY <2>2, <2>3, FS_Union
  <2>5. Names = ({"www"} \cup {"site"}) \cup ({"drawn"} \cup {"library"})
    BY NameFacts
  <2> QED
    BY <2>4, <2>5
<1>2. IsFiniteSet({"png", "none", "tmp"})
  <2>1. IsFiniteSet({"png"}) /\ IsFiniteSet({"none"}) /\ IsFiniteSet({"tmp"})
    BY FS_Singleton
  <2>2. IsFiniteSet({"png"} \cup {"none"})
    BY <2>1, FS_Union
  <2>3. IsFiniteSet(({"png"} \cup {"none"}) \cup {"tmp"})
    BY <2>1, <2>2, FS_Union
  <2>4. {"png", "none", "tmp"} = ({"png"} \cup {"none"}) \cup {"tmp"}
    OBVIOUS
  <2> QED
    BY <2>3, <2>4
<1>3. IsFiniteSet(Files)
  BY <1>1, <1>2, FS_Product DEF Files
<1>4. Counted(d) \subseteq Files
  BY DEF Counted
<1>5. IsFiniteSet(Counted(d))
  BY <1>3, <1>4, FS_Subset
<1>6. ASSUME NEW T, T \subseteq Counted(d)
      PROVE  IsFiniteSet(T) /\ Cardinality(T) \in Nat /\ Cardinality(T) <= Cardinality(Counted(d))
  BY <1>5, <1>6, FS_Subset, FS_CardinalityType
<1> QED
  BY <1>4, <1>5, <1>6, FS_CardinalityType

LEMMA SettledFinite ==
    /\ Settled \subseteq Counted(disk) /\ IsFiniteSet(Settled) /\ Cardinality(Settled) \in Nat
    /\ Cardinality(Settled) <= Cardinality(Counted(disk))
    /\ \A T : T \subseteq Settled => Cardinality(T) \in Nat /\ Cardinality(T) <= Cardinality(Settled)
<1>1. Settled \subseteq Counted(disk)
  BY DEF Settled
<1>2. IsFiniteSet(Settled) /\ Cardinality(Settled) \in Nat /\ Cardinality(Settled) <= Cardinality(Counted(disk))
  BY <1>1, CountedFinite
<1>3. ASSUME NEW T, T \subseteq Settled
      PROVE  Cardinality(T) \in Nat /\ Cardinality(T) <= Cardinality(Settled)
  BY <1>2, <1>3, FS_Subset, FS_CardinalityType
<1> QED
  BY <1>1, <1>2, <1>3

Ceiling == SeenInv /\ CountedInv /\ BookInv

LEMMA CeilingStays ==
    ASSUME Ceiling, NEW r \in Requests, NEW step, \A p \in Requests : request'[p] = IF p = r THEN step ELSE request[p],
           ~Writes(request[r]), ~Writes(step), UNCHANGED <<book, eviction, overlap>>,
           \A f \in Files : f[1] \in Cached => disk'[f] = disk[f], \A p \in Requests : Fits(request[p]),
           Sizing(step) => Cardinality(Counted(disk)) <= step.files
    PROVE  Ceiling'
<1> USE NameFacts
<1>0. Counted(disk') = Counted(disk)
  BY DEF Counted
<1>1. SeenInv'
  <2> SUFFICES ASSUME ~overlap, NEW p \in Requests, Writes(request[p])
               PROVE  /\ request[p].at = "replace" => \A f \in request[p].before : disk'[f] # None
                      /\ request[p].at = "rename" /\ request[p].before = {Kind(request[p])} => disk'[Kind(request[p])] # None
    BY DEF SeenInv, Writes, Kind
  <2>1. /\ request[p].at = "replace" => \A f \in request[p].before : disk[f] # None
        /\ request[p].at = "rename" /\ request[p].before = {Kind(request[p])} => disk[Kind(request[p])] # None
    BY DEF Ceiling, SeenInv
  <2>2. /\ request[p].name \in Cached /\ request[p].name \in Names /\ request[p].kind \in Kinds
        /\ request[p].before \in {{}, {Kind(request[p])}, {Other(request[p])}}
    BY FitsAt DEF Writes, Holding
  <2>3. /\ Kind(request[p]) \in Files /\ Kind(request[p])[1] \in Cached
        /\ Other(request[p]) \in Files /\ Other(request[p])[1] \in Cached
    BY <2>2, FileFacts
  <2> QED
    BY <2>1, <2>2, <2>3
<1>2. CountedInv'
  BY <1>0 DEF Ceiling, CountedInv, Sizing
<1>3. \A p \in Requests : Beside(request'[p]) = Beside(request[p]) /\ (Writes(request'[p]) <=> Writes(request[p]))
  BY DEF Beside
<1>4. Settled' = Settled
  <2>1. \A x : (\E p \in Requests : x \in Beside(request'[p])) <=> (\E p \in Requests : x \in Beside(request[p]))
    BY <1>3
  <2>2. UNION {Beside(request'[p]) : p \in Requests} = UNION {Beside(request[p]) : p \in Requests}
    BY <2>1
  <2> QED
    BY <1>0, <2>2 DEF Settled, Beside, Writes, Kind, Other, Temporary
<1>5. BookInv'
  BY <1>3, <1>4 DEF Ceiling, BookInv, Writes
<1> QED
  BY <1>1, <1>2, <1>5 DEF Ceiling

LEMMA OwnStays ==
    ASSUME OwnInv, NEW r \in Requests, NEW step, \A p \in Requests : request'[p] = IF p = r THEN step ELSE request[p],
           UNCHANGED item, step.at = "own" /\ step.key = "extras" /\ item.shared => item.raced
    PROVE  OwnInv'
BY DEF OwnInv, KeyIsOwners

(* A step of a request that neither writes nor takes off.                  *)
LEMMA QuietIcon ==
    ASSUME IconsIInv, NEW r \in Requests, NEW step, Fits(step), Does(r, step), request[r].at # "evict", step.at # "evict",
           ~Writes(request[r]), ~Writes(step), UNCHANGED <<clock, disk, book, eviction, clearing, overlap, item>>,
           DOMAIN locks' = Names, \A n \in Names : locks'[n] \in LocksOf(n) \cup {None},
           \A p \in Requests \ {r} : Works(request[p]) => locks'[request[p].name] = request[p].lock,
           Works(step) => locks'[step.name] = step.lock,
           Works(step) /\ step.at \in Holding =>
               \A p \in Requests \ {r} : Works(request[p]) /\ request[p].at \in Holding => request[p].name # step.name,
           step.at \in {"slot", "fetch"} => ~CachedIcon(step.name) /\ ~CachedNone(step.name),
           step.at \in {"rename", "book"} => disk[Other(step)] = None,
           Sizing(step) => Cardinality(Counted(disk)) <= step.files,
           step.at = "own" /\ step.key = "extras" /\ item.shared => item.raced
    PROVE  IconsIInv'
<1>1. IconsCore /\ Ceiling /\ OwnInv /\ EvictInv
  BY DEF IconsIInv, IconsCore, Ceiling
<1>2. \A p \in Requests : request'[p] = IF p = r THEN step ELSE request[p]
  BY <1>1, IconSteps DEF IconsCore
<1>3. IconsCore'
  <2>1. disk' \in [Files -> Times] /\ book' \in Times /\ overlap' \in BOOLEAN /\ clearing' \in BOOLEAN
    BY <1>1 DEF IconsCore, IconsTypeOK
  <2>2. /\ \A n \in Cached : disk'[<<n, "png">>] = None \/ disk'[<<n, "none">>] = None
        /\ disk'[<<"drawn", "none">>] = None /\ disk'[<<"library", "none">>] = None
        /\ \A p \in Requests \ {r} : request[p].at \in {"rename", "book"} => disk'[Other(request[p])] = None
    BY <1>1 DEF IconsCore, EitherInv
  <2>3. step.at \in {"slot", "fetch"} => ~(CachedIcon(step.name))' /\ ~(CachedNone(step.name))'
    BY DEF CachedIcon, CachedNone, fresh
  <2>4. \A p \in Requests \ {r} : request[p].at \in {"slot", "fetch"} =>
               \A k \in Kinds : disk'[<<request[p].name, k>>] \in {None, disk[<<request[p].name, k>>]}
    OBVIOUS
  <2>5. step.at \in {"rename", "book"} => disk'[Other(step)] = None
    OBVIOUS
  <2> QED
    BY <1>1, <2>1, <2>2, <2>3, <2>4, <2>5, CoreStep
<1>4. Ceiling'
  BY <1>1, <1>2, CeilingStays DEF IconsCore, IconsTypeOK
<1>5. OwnInv'
  BY <1>1, <1>2, OwnStays
<1>6. EvictInv'
  BY <1>1, <1>2 DEF EvictInv, MayEvict
<1> QED
  BY <1>3, <1>4, <1>5, <1>6 DEF IconsIInv, IconsCore, Ceiling

(* One that keeps its lock, or lets it go, and takes none.                 *)
LEMMA PlainStep ==
    ASSUME IconsIInv, NEW r \in Requests, NEW step, Fits(step), Does(r, step), request[r].at # "evict", step.at # "evict",
           ~Writes(request[r]), ~Writes(step), UNCHANGED <<clock, disk, book, locks, eviction, clearing, overlap, item>>,
           \/ step.at \in {"idle", "look", "own"}
           \/ step.at \in Holding /\ request[r].at \in Holding /\ step.name = request[r].name /\ step.lock = request[r].lock,
           step.at \in {"slot", "fetch"} => request[r].at \in {"slot", "fetch"},
           step.at \in {"rename", "book"} => disk[Other(step)] = None,
           Sizing(step) => Cardinality(Counted(disk)) <= step.files,
           step.at = "own" /\ step.key = "extras" /\ item.shared => item.raced
    PROVE  IconsIInv'
<1>1. IconsTypeOK /\ LocksInv /\ NotThere
  BY DEF IconsIInv
<1>2. DOMAIN locks' = Names /\ \A n \in Names : locks'[n] \in LocksOf(n) \cup {None}
  BY <1>1 DEF IconsTypeOK
<1>3. \A p \in Requests \ {r} : Works(request[p]) => locks'[request[p].name] = request[p].lock
  BY <1>1 DEF LocksInv
<1>4. /\ Works(step) => locks'[step.name] = step.lock
      /\ Works(step) /\ step.at \in Holding =>
               \A p \in Requests \ {r} : Works(request[p]) /\ request[p].at \in Holding => request[p].name # step.name
  <2>1. CASE step.at \in {"idle", "look", "own"}
    BY <2>1 DEF Works, Holding
  <2>2. CASE step.at \in Holding /\ request[r].at \in Holding /\ step.name = request[r].name /\ step.lock = request[r].lock
    BY <1>1, <2>2 DEF LocksInv, Works
  <2> QED
    BY <2>1, <2>2
<1>5. step.at \in {"slot", "fetch"} => ~CachedIcon(step.name) /\ ~CachedNone(step.name)
  BY <1>1 DEF NotThere
<1> QED
  BY <1>2, <1>3, <1>4, <1>5, QuietIcon

(* A request begins, or ends, without having written.                      *)
LEMMA LooksStep ==
    ASSUME IconsIInv, NEW r \in Requests, NEW step, Fits(step), Does(r, step), request[r].at # "evict",
           step.at \in {"idle", "look"}, ~Writes(request[r]),
           UNCHANGED <<clock, disk, book, locks, eviction, clearing, overlap, item>>
    PROVE  IconsIInv'
<1>1. ~Writes(step) /\ ~Sizing(step)
  BY DEF Writes, Sizing
<1> QED
  BY <1>1, PlainStep

LEMMA BeginsStep ==
    ASSUME IconsIInv, NEW r \in Requests, SiteIcon(r) \/ Drawn(r) \/ LibraryIcon(r)
    PROVE  IconsIInv'
<1>1. PICK n \in Names : request[r] = Ready /\ Does(r, [at |-> "look", name |-> n])
  BY NameFacts DEF SiteIcon, Drawn, LibraryIcon
<1>2. UNCHANGED <<clock, disk, book, locks, eviction, clearing, overlap, item>>
  BY DEF SiteIcon, Drawn, LibraryIcon
<1>3. PICK step : step = [at |-> "look", name |-> n]
  OBVIOUS
<1>4. Fits(step) /\ step.at = "look" /\ Does(r, step)
  BY <1>1, <1>3, FitsLook
<1>5. request[r].at = "idle" /\ ~Writes(request[r])
  BY <1>1 DEF Ready, Writes
<1> QED
  BY <1>2, <1>4, <1>5, LooksStep

LEMMA WorkingFits ==
    ASSUME NEW n \in Names \ {"drawn"}, NEW mine \in LocksOf(n)
    PROVE  /\ Fits(Working("lock", n, mine)) /\ Working("lock", n, mine).at = "lock"
           /\ Working("lock", n, mine).name = n /\ Working("lock", n, mine).lock = mine
<1>1. mine \in AnyLock
  BY DEF AnyLock, LocksOf
<1>2. PICK q : q = Working("lock", n, mine)
  OBVIOUS
<1>3. q \in MayWork /\ q.at = "lock" /\ q.name = n /\ q.lock = mine /\ q.kind = "png" /\ q.before = {} /\ q.files = None
  BY <1>1, <1>2 DEF Working, MayWork, Times, Kinds
<1>4. Fits(q)
  BY <1>3 DEF Fits
<1> QED
  BY <1>2, <1>3, <1>4

LEMMA DrawingFits ==
    /\ Fits(Working("keep", "drawn", None)) /\ Working("keep", "drawn", None).at = "keep"
    /\ Working("keep", "drawn", None).lock = None
<1>1. None \in AnyLock
  BY DEF AnyLock
<1>2. PICK q : q = Working("keep", "drawn", None)
  OBVIOUS
<1>3. q \in MayWork /\ q.at = "keep" /\ q.name = "drawn" /\ q.lock = None /\ q.kind = "png" /\ q.before = {} /\ q.files = None
  BY <1>1, <1>2, NameFacts DEF Working, MayWork, Times, Kinds, Holding
<1>4. Fits(q)
  BY <1>3 DEF Fits
<1> QED
  BY <1>2, <1>3, <1>4

(* The map of locks: who uses one finds it there.                          *)
LEMMA HostLockKeeps ==
    ASSUME IconsTypeOK, LocksInv, NEW r \in Requests, NEW n \in Names
    PROVE  /\ DOMAIN HostLock(r, n) = Names /\ \A x \in Names : HostLock(r, n)[x] \in LocksOf(x) \cup {None}
           /\ HostLock(r, n)[n] \in LocksOf(n)
           /\ \A p \in Requests : Works(request[p]) => HostLock(r, n)[request[p].name] = request[p].lock
<1>1. DEFINE left == IF Cardinality({x \in Names : locks[x] # None}) > MostHosts
                     THEN [x \in Names |-> IF locks[x] # None /\ Used(locks[x]) THEN locks[x] ELSE None]
                     ELSE locks
<1>2. DOMAIN left = Names /\ \A x \in Names : left[x] \in LocksOf(x) \cup {None}
  BY DEF IconsTypeOK
<1>3. ASSUME NEW p \in Requests, Works(request[p])
      PROVE  left[request[p].name] = request[p].lock /\ request[p].lock # None /\ request[p].name \in Names
  <2>1. locks[request[p].name] = request[p].lock /\ request[p].lock # None /\ request[p].at \in Holding \cup {"lock"}
    BY <1>3 DEF LocksInv, Works
  <2>2. Used(request[p].lock)
    BY <2>1 DEF Used
  <2>3. request[p].name \in Names
    BY <2>1, FitsAt DEF IconsTypeOK
  <2> QED
    BY <2>1, <2>2, <2>3
<1>4. HostLock(r, n) = [left EXCEPT ![n] = IF left[n] = None THEN <<n, r>> ELSE left[n]]
  BY DEF HostLock
<1>5. <<n, r>> \in LocksOf(n)
  BY DEF LocksOf
<1>6. None \notin LocksOf(n)
  BY IconsNone DEF LocksOf
<1> HIDE DEF left
<1>7. PICK h : h = HostLock(r, n)
  OBVIOUS
<1>8. DOMAIN h = Names /\ \A x \in Names : h[x] = IF x = n /\ left[n] = None THEN <<n, r>> ELSE left[x]
  BY <1>2, <1>4, <1>7
<1>9. \A x \in Names : h[x] \in LocksOf(x) \cup {None}
  BY <1>2, <1>5, <1>8
<1>10. h[n] \in LocksOf(n)
  BY <1>2, <1>5, <1>8
<1>11. \A p \in Requests : Works(request[p]) => h[request[p].name] = request[p].lock
  BY <1>3, <1>8
<1> QED
  BY <1>7, <1>8, <1>9, <1>10, <1>11

LEMMA LookStep ==
    ASSUME IconsIInv, NEW r \in Requests, Look(r)
    PROVE  IconsIInv'
<1>1. DEFINE n == request[r].name
<1>2. /\ request[r].at = "look" /\ ~Writes(request[r]) /\ UNCHANGED <<clock, disk, book, eviction, clearing, overlap, item>>
      /\ n \in Names /\ IconsTypeOK /\ LocksInv
  <2>1. request[r].at = "look" /\ UNCHANGED <<clock, disk, book, eviction, clearing, overlap, item>>
    BY DEF Look
  <2>2. Fits(request[r]) /\ IconsTypeOK /\ LocksInv
    BY DEF IconsIInv, IconsTypeOK
  <2> QED
    BY <2>1, <2>2, FitsAt DEF Writes
<1>3. CASE Does(r, Ready) /\ UNCHANGED locks
  BY <1>2, <1>3, FitsReady, LooksStep
<1>4. CASE n \in Hosts /\ ThenBase(r, n) /\ UNCHANGED locks
  <2>1. PICK step : Does(r, step) /\ Fits(step) /\ step.at \in {"idle", "look"}
    BY <1>4, ThenBaseFits
  <2> QED
    BY <1>2, <1>4, <2>1, LooksStep
<1>5. CASE n = "drawn" /\ Does(r, Working("keep", n, None)) /\ UNCHANGED locks
  <2>1. PICK step : step = Working("keep", "drawn", None)
    OBVIOUS
  <2>2. Fits(step) /\ Does(r, step) /\ step.at = "keep" /\ step.lock = None
    BY <1>5, <2>1, DrawingFits
  <2>3. ~Writes(step) /\ ~Works(step) /\ ~Sizing(step)
    BY <2>2 DEF Writes, Works, Sizing
  <2>4. \A p \in Requests \ {r} : Works(request[p]) => locks'[request[p].name] = request[p].lock
    BY <1>2, <1>5 DEF LocksInv
  <2>5. DOMAIN locks' = Names /\ \A x \in Names : locks'[x] \in LocksOf(x) \cup {None}
    BY <1>2, <1>5 DEF IconsTypeOK
  <2> QED
    BY <1>2, <2>2, <2>3, <2>4, <2>5, QuietIcon
<1>6. CASE n # "drawn" /\ locks' = HostLock(r, n) /\ Does(r, Working("lock", n, HostLock(r, n)[n]))
  <2>1. /\ DOMAIN locks' = Names /\ \A x \in Names : locks'[x] \in LocksOf(x) \cup {None}
        /\ locks'[n] \in LocksOf(n)
        /\ \A p \in Requests : Works(request[p]) => locks'[request[p].name] = request[p].lock
    BY <1>2, <1>6, HostLockKeeps
  <2>2. PICK step : step = Working("lock", n, HostLock(r, n)[n])
    OBVIOUS
  <2>3. Fits(step) /\ Does(r, step) /\ step.at = "lock" /\ step.name = n /\ step.lock = locks'[n]
    BY <1>2, <1>6, <2>1, <2>2, WorkingFits
  <2>4. ~Writes(step) /\ ~Sizing(step) /\ step.at \notin Holding
    BY <2>3 DEF Writes, Sizing, Holding
  <2> QED
    BY <1>2, <2>1, <2>3, <2>4, QuietIcon
<1> QED
  BY <1>3, <1>4, <1>5, <1>6 DEF Look

LEMMA WorkFits ==
    ASSUME NEW q, q \in MayWork, q.before \in {{}, {Kind(q)}, {Other(q)}}, q.at # "size" => q.files = None,
           q.name = "drawn" => /\ q.lock = None /\ q.kind = "png" /\ <<"drawn", "none">> \notin q.before
                               /\ q.at \notin {"lock", "slot", "fetch"},
           q.name = "library" => q.kind = "png" /\ q.at \in {"lock", "slot", "fetch", "rename"},
           q.name # "drawn" => q.lock \in LocksOf(q.name)
    PROVE  Fits(q)
<1>1. CASE q.name = "drawn"
  BY <1>1 DEF Fits
<1>2. CASE q.name = "library"
  BY <1>2 DEF Fits
<1>3. CASE q.name \notin {"drawn", "library"}
  BY <1>3 DEF Fits
<1> QED
  BY <1>1, <1>2, <1>3

(* What a request that works does next.                                    *)
Moved(q, at_, kind_, files_, before_) ==
    [at |-> at_, name |-> q.name, lock |-> q.lock, kind |-> kind_, files |-> files_, before |-> before_]

LEMMA MovedFits ==
    ASSUME NEW q, Fits(q), q.at \in Holding \cup {"lock"}, NEW at_ \in Holding, NEW kind_ \in Kinds, NEW files_ \in Times,
           NEW before_, before_ \in {{}, {<<q.name, "png">>}, {<<q.name, "none">>}}, at_ # "size" => files_ = None,
           q.name = "drawn" => kind_ = "png" /\ <<"drawn", "none">> \notin before_ /\ at_ \notin {"slot", "fetch"},
           q.name = "library" => kind_ = "png" /\ at_ \in {"slot", "fetch", "rename"}
    PROVE  LET step == Moved(q, at_, kind_, files_, before_) IN
           /\ Fits(step) /\ step.at = at_ /\ step.name = q.name /\ step.lock = q.lock /\ step.kind = kind_
           /\ step.files = files_ /\ step.before = before_
<1>1. PICK step : step = Moved(q, at_, kind_, files_, before_)
  OBVIOUS
<1>2. /\ step.at = at_ /\ step.name = q.name /\ step.lock = q.lock /\ step.kind = kind_
      /\ step.files = files_ /\ step.before = before_
  BY <1>1 DEF Moved
<1>3. /\ q \in MayWork /\ q.name \in Names /\ q.lock \in AnyLock
      /\ q.name = "drawn" => q.lock = None
      /\ q.name # "drawn" => q.lock \in LocksOf(q.name)
  BY FitsAt DEF MayWork
<1>4. before_ \subseteq Files /\ before_ \in {{}, {Kind(step)}, {Other(step)}}
  BY <1>2, <1>3, FileFacts, NameFacts
<1>5. step \in MayWork
  BY <1>1, <1>3, <1>4 DEF Moved, MayWork
<1>6. at_ # "lock"
  BY DEF Holding
<1>7. /\ step.at # "size" => step.files = None
      /\ step.name = "drawn" => /\ step.lock = None /\ step.kind = "png" /\ <<"drawn", "none">> \notin step.before
                                /\ step.at \notin {"lock", "slot", "fetch"}
      /\ step.name = "library" => step.kind = "png" /\ step.at \in {"lock", "slot", "fetch", "rename"}
      /\ step.name # "drawn" => step.lock \in LocksOf(step.name)
  BY <1>2, <1>3, <1>6
<1>8. Fits(step)
  BY <1>2, <1>4, <1>5, <1>7, WorkFits
<1> QED
  BY <1>1, <1>2, <1>8

(* Its record, and the one it is at next.                                  *)
LEMMA MovesOn ==
    ASSUME NEW q, Fits(q), q.at \in Holding \cup {"lock"}
    PROVE  /\ \A a, k, n :
                /\ [q EXCEPT !.at = a] = Moved(q, a, q.kind, q.files, q.before)
                /\ [q EXCEPT !.at = a, !.kind = k] = Moved(q, a, k, q.files, q.before)
                /\ [q EXCEPT !.at = a, !.files = n] = Moved(q, a, q.kind, n, q.before)
           /\ q.before \in {{}, {<<q.name, "png">>}, {<<q.name, "none">>}}
<1>1. q \in MayWork /\ q.before \in {{}, {Kind(q)}, {Other(q)}} /\ q.name \in Names /\ q.kind \in Kinds
  BY FitsAt
<1>2. q = Moved(q, q.at, q.kind, q.files, q.before)
  BY <1>1 DEF MayWork, Moved
<1>3. q.before \in {{}, {<<q.name, "png">>}, {<<q.name, "none">>}}
  BY <1>1, FileFacts
<1>4. \A a, k, n, b, x : /\ [Moved(q, a, k, n, b) EXCEPT !.at = x] = Moved(q, x, k, n, b)
                         /\ [Moved(q, a, k, n, b) EXCEPT !.kind = x] = Moved(q, a, x, n, b)
                         /\ [Moved(q, a, k, n, b) EXCEPT !.files = x] = Moved(q, a, k, x, b)
                         /\ [Moved(q, a, k, n, b) EXCEPT !.before = x] = Moved(q, a, k, n, x)
  BY DEF Moved
<1>5. ASSUME NEW a, NEW k, NEW n
      PROVE  /\ [q EXCEPT !.at = a] = Moved(q, a, q.kind, q.files, q.before)
             /\ [q EXCEPT !.at = a, !.kind = k] = Moved(q, a, k, q.files, q.before)
             /\ [q EXCEPT !.at = a, !.files = n] = Moved(q, a, q.kind, n, q.before)
  <2>1. [q EXCEPT !.at = a] = Moved(q, a, q.kind, q.files, q.before)
    BY <1>2, <1>4
  <2>2. PICK w : w = [q EXCEPT !.at = a]
    OBVIOUS
  <2>3. w = Moved(q, a, q.kind, q.files, q.before)
    BY <2>1, <2>2
  <2>4. [w EXCEPT !.kind = k] = Moved(q, a, k, q.files, q.before)
    BY <1>4, <2>3
  <2>5. [w EXCEPT !.files = n] = Moved(q, a, q.kind, n, q.before)
    BY <1>4, <2>3
  <2>6. [q EXCEPT !.at = a, !.kind = k] = [w EXCEPT !.kind = k]
    BY <2>2
  <2>7. [q EXCEPT !.at = a, !.files = n] = [w EXCEPT !.files = n]
    BY <2>2
  <2> QED
    BY <2>1, <2>4, <2>5, <2>6, <2>7
<1> QED
  BY <1>3, <1>5

LEMMA TakeHostLockStep ==
    ASSUME IconsIInv, NEW r \in Requests, TakeHostLock(r)
    PROVE  IconsIInv'
<1>1. DEFINE q == request[r] n == request[r].name
<1>2. /\ q.at = "lock" /\ ~Held(q.lock) /\ ~Writes(q) /\ Fits(q)
      /\ UNCHANGED <<clock, disk, book, locks, eviction, clearing, overlap, item>>
      /\ IconsTypeOK /\ LocksInv
  BY DEF TakeHostLock, IconsIInv, IconsTypeOK, Writes
<1>3. n \in Names /\ n # "drawn" /\ q.lock \in LocksOf(n) /\ q.lock # None /\ q.kind \in Kinds
      /\ (n = "library" => q.kind = "png") /\ q.files = None
  BY <1>2, FitsAt
<1>4. CASE Does(r, Ready)
  BY <1>2, <1>4, FitsReady, LooksStep
<1>5. CASE n \in Hosts /\ ThenBase(r, n)
  <2>1. PICK step : Does(r, step) /\ Fits(step) /\ step.at \in {"idle", "look"}
    BY <1>5, ThenBaseFits
  <2> QED
    BY <1>2, <2>1, LooksStep
<1>6. CASE /\ ~(CachedIcon(n) \/ (n = "library" /\ disk[<<n, "png">>] # None)) /\ ~(n \in Hosts /\ CachedNone(n))
           /\ Does(r, [q EXCEPT !.at = "slot"])
  <2>1. PICK step : step = [q EXCEPT !.at = "slot"]
    OBVIOUS
  <2>2. step = Moved(q, "slot", q.kind, q.files, q.before) /\ q.before \in {{}, {<<n, "png">>}, {<<n, "none">>}}
    BY <1>2, <2>1, MovesOn
  <2>3. Fits(step) /\ step.at = "slot" /\ step.name = n /\ step.lock = q.lock /\ Does(r, step)
    <3>1. q.at \in Holding \cup {"lock"} /\ "slot" \in Holding /\ None \in Times
      BY <1>2 DEF Holding, Times
    <3>2. Fits(Moved(q, "slot", q.kind, None, q.before)) /\ Moved(q, "slot", q.kind, None, q.before).at = "slot"
          /\ Moved(q, "slot", q.kind, None, q.before).name = q.name /\ Moved(q, "slot", q.kind, None, q.before).lock = q.lock
      BY <1>2, <1>3, <2>2, <3>1, MovedFits, SMTT(60)
    <3> QED
      BY <1>3, <1>6, <2>1, <2>2, <3>2
  <2>4. ~CachedIcon(n) /\ ~CachedNone(n)
    <3>1. CASE n = "library"
      BY <1>2, <1>6, <3>1 DEF IconsIInv, EitherInv, CachedNone, fresh
    <3>2. CASE n # "library"
      BY <1>3, <1>6, <3>2, NameFacts
    <3> QED
      BY <3>1, <3>2
  <2>5. DOMAIN locks' = Names /\ \A x \in Names : locks'[x] \in LocksOf(x) \cup {None}
    BY <1>2 DEF IconsTypeOK
  <2>6. \A p \in Requests : Works(request[p]) => locks'[request[p].name] = request[p].lock
    BY <1>2 DEF LocksInv
  <2>7. Works(q)
    BY <1>2, <1>3 DEF Works
  <2>8. \A p \in Requests \ {r} : Works(request[p]) /\ request[p].at \in Holding => request[p].name # n
    BY <1>2, <2>6, <2>7 DEF Held
  <2>9. step.at # "evict" /\ ~Writes(step) /\ ~Sizing(step) /\ locks'[step.name] = step.lock
    BY <2>3, <2>6, <2>7 DEF Writes, Sizing
  <2> QED
    BY <1>2, <2>3, <2>4, <2>5, <2>6, <2>8, <2>9, QuietIcon
<1> QED
  BY <1>4, <1>5, <1>6 DEF TakeHostLock

(* One that works goes on, with its lock and what it found.                *)
LEMMA MovesStep ==
    ASSUME IconsIInv, NEW r \in Requests, request[r].at \in Holding, request[r].at # "evict", ~Writes(request[r]),
           NEW at_ \in Holding, at_ \notin {"evict", "replace", "book"}, NEW kind_ \in Kinds, NEW files_ \in Times,
           at_ # "size" => files_ = None, at_ \in {"slot", "fetch"} => request[r].at \in {"slot", "fetch"},
           at_ = "rename" => request[r].name = "library",
           request[r].name = "drawn" => kind_ = "png" /\ at_ \notin {"slot", "fetch"},
           request[r].name = "library" => kind_ = "png" /\ at_ \in {"slot", "fetch", "rename"},
           files_ # None => Cardinality(Counted(disk)) <= files_,
           Does(r, Moved(request[r], at_, kind_, files_, request[r].before)),
           UNCHANGED <<clock, disk, book, locks, eviction, clearing, overlap, item>>
    PROVE  IconsIInv'
<1>1. Fits(request[r]) /\ EitherInv
  BY DEF IconsIInv, IconsTypeOK
<1>2. PICK q : q = request[r]
  OBVIOUS
<1>3. PICK step : step = Moved(q, at_, kind_, files_, q.before)
  OBVIOUS
<1>4. q.before \in {{}, {<<q.name, "png">>}, {<<q.name, "none">>}}
  BY <1>1, <1>2, MovesOn
<1>5. q.name = "drawn" => <<"drawn", "none">> \notin q.before
  BY <1>1, <1>2, FitsAt
<1>6. Fits(step) /\ step.at = at_ /\ step.name = q.name /\ step.lock = q.lock /\ step.kind = kind_ /\ step.files = files_
  <2>1. Fits(q) /\ q.at \in Holding \cup {"lock"}
    BY <1>1, <1>2
  <2> QED
    BY <1>2, <1>3, <1>4, <1>5, <2>1, MovedFits
<1>7. at_ \in {"rename", "book"} => disk[Other(step)] = None
  BY <1>1, <1>2, <1>6 DEF EitherInv, Other
<1>8. ~Writes(step)
  BY <1>2, <1>6, NameFacts DEF Writes
<1>9. Sizing(step) => Cardinality(Counted(disk)) <= step.files
  BY <1>6 DEF Sizing
<1>10. Does(r, step)
  BY <1>2, <1>3
<1>11. /\ step.at # "evict" /\ step.at \in Holding /\ step.name = request[r].name /\ step.lock = request[r].lock
       /\ step.at \in {"slot", "fetch"} => request[r].at \in {"slot", "fetch"}
       /\ step.at \in {"rename", "book"} => disk[Other(step)] = None
       /\ step.at # "own"
  BY <1>2, <1>6, <1>7 DEF Holding
<1> QED
  BY <1>6, <1>8, <1>9, <1>10, <1>11, PlainStep

LEMMA IconFetchStep ==
    ASSUME IconsIInv, NEW r \in Requests, TakeSlot(r) \/ FetchSite(r)
    PROVE  IconsIInv'
<1>1. PICK q : q = request[r]
  OBVIOUS
<1>2. /\ q.at \in {"slot", "fetch"} /\ Fits(q) /\ ~Writes(q) /\ q.at \in Holding \cup {"lock"}
      /\ UNCHANGED <<clock, disk, book, locks, eviction, clearing, overlap, item>>
  BY <1>1 DEF TakeSlot, FetchSite, IconsIInv, IconsTypeOK, Writes, Holding
<1>3. /\ q.name \in Names /\ q.kind \in Kinds /\ q.files = None /\ q.name # "drawn" /\ (q.name = "library" => q.kind = "png")
      /\ None \in Times /\ "fetch" \in Holding /\ "keep" \in Holding /\ "rename" \in Holding
  BY <1>2, FitsAt DEF Times, Holding
<1>4. CASE Does(r, [q EXCEPT !.at = "fetch"])
  <2>1. [q EXCEPT !.at = "fetch"] = Moved(q, "fetch", q.kind, None, q.before)
    BY <1>2, <1>3, MovesOn
  <2> QED
    BY <1>1, <1>2, <1>3, <1>4, <2>1, MovesStep
<1>5. ASSUME NEW kind \in Kinds, q.name # "library", Does(r, [q EXCEPT !.at = "keep", !.kind = kind])
      PROVE  IconsIInv'
  <2>1. [q EXCEPT !.at = "keep", !.kind = kind] = Moved(q, "keep", kind, None, q.before)
    BY <1>2, <1>3, MovesOn
  <2> QED
    BY <1>1, <1>2, <1>3, <1>5, <2>1, MovesStep
<1>6. CASE q.name = "library" /\ Does(r, [q EXCEPT !.at = "rename"])
  <2>1. [q EXCEPT !.at = "rename"] = Moved(q, "rename", q.kind, None, q.before)
    BY <1>2, <1>3, MovesOn
  <2> QED
    BY <1>1, <1>2, <1>3, <1>6, <2>1, MovesStep
<1>7. CASE Does(r, Ready)
  BY <1>1, <1>2, <1>7, FitsReady, LooksStep
<1> QED
  BY <1>1, <1>4, <1>5, <1>6, <1>7 DEF TakeSlot, FetchSite, Kinds

LEMMA RoomStep ==
    ASSUME IconsIInv, NEW r \in Requests, Room(r) \/ CacheSize(r)
    PROVE  IconsIInv'
<1>1. PICK q : q = request[r]
  OBVIOUS
<1>2. /\ q.at \in {"keep", "count"} /\ Fits(q) /\ ~Writes(q) /\ q.at \in Holding \cup {"lock"}
      /\ UNCHANGED <<clock, disk, book, locks, eviction, clearing, overlap, item>>
  BY <1>1 DEF Room, CacheSize, IconsIInv, IconsTypeOK, Writes, Holding
<1>3. /\ q.name \in Names /\ q.kind \in Kinds /\ q.files = None /\ q.name # "library" /\ (q.name = "drawn" => q.kind = "png")
      /\ None \in Times /\ "count" \in Holding /\ "size" \in Holding
  BY <1>2, FitsAt DEF Times, Holding
<1>4. ASSUME NEW a \in {"count", "size"}, Does(r, [q EXCEPT !.at = a])
      PROVE  IconsIInv'
  <2>1. [q EXCEPT !.at = a] = Moved(q, a, q.kind, None, q.before)
    BY <1>2, <1>3, MovesOn
  <2>2. a \in Holding
    BY <1>3
  <2> QED
    BY <1>1, <1>2, <1>3, <1>4, <2>1, <2>2, MovesStep
<1>5. CASE Does(r, [q EXCEPT !.at = "size", !.files = Cardinality(Counted(disk))])
  <2>1. PICK n : n = Cardinality(Counted(disk)) /\ n \in Nat
    BY CountedFinite
  <2>2. [q EXCEPT !.at = "size", !.files = n] = Moved(q, "size", q.kind, n, q.before)
    BY <1>2, MovesOn
  <2>3. n \in Times /\ Cardinality(Counted(disk)) <= n
    BY <2>1 DEF Times
  <2>4. Does(r, Moved(q, "size", q.kind, n, q.before))
    BY <1>5, <2>1, <2>2
  <2> QED
    BY <1>1, <1>2, <1>3, <2>3, <2>4, MovesStep
<1>6. CASE Does(r, Kept(r))
  BY <1>1, <1>2, <1>6, KeptFits, LooksStep
<1>7. CASE Room(r)
  BY <1>1, <1>4, <1>6, <1>7 DEF Room
<1>8. CASE CacheSize(r)
  BY <1>1, <1>5, <1>8 DEF CacheSize
<1> QED
  BY <1>7, <1>8

LEMMA OwnFits ==
    ASSUME NEW k \in {"organization", "extras"}
    PROVE  Fits([at |-> "own", key |-> k])
BY DEF Fits, MayOwn

LEMMA OwnPutStep ==
    ASSUME IconsIInv, NEW r \in Requests, OwnPut(r)
    PROVE  IconsIInv'
<1>1. PICK step : step = [at |-> "own", key |-> IF item.shared THEN "organization" ELSE "extras"]
  OBVIOUS
<1>2. step.at = "own" /\ step.key = (IF item.shared THEN "organization" ELSE "extras") /\ Fits(step)
  BY <1>1, OwnFits
<1>3. Does(r, step) /\ request[r].at = "idle" /\ UNCHANGED <<clock, disk, book, locks, eviction, clearing, overlap, item>>
  BY <1>1 DEF OwnPut, ownRest, Ready
<1>4. ~Writes(request[r]) /\ ~Writes(step) /\ ~Sizing(step)
  BY <1>2, <1>3 DEF Writes, Sizing
<1> QED
  BY <1>2, <1>3, <1>4, PlainStep

(***************************************************************************)
(* Writes                                                                  *)
(***************************************************************************)

(* A write that another counts, or takes off, is not promised anything.    *)
LEMMA Overlapped ==
    ASSUME overlap' = TRUE
    PROVE  Ceiling'
BY DEF Ceiling, SeenInv, CountedInv, BookInv

LEMMA EvictStays ==
    ASSUME EvictInv, NEW r \in Requests, NEW step, \A p \in Requests : request'[p] = IF p = r THEN step ELSE request[p],
           UNCHANGED eviction, step.at = "evict" <=> request[r].at = "evict"
    PROVE  EvictInv'
BY DEF EvictInv, MayEvict

(* What is on disk is fewer, and what is beside the book the same.         *)
LEMMA SettledShrinks ==
    ASSUME \A f \in Files : disk'[f] \in {None, disk[f]}, \A p \in Requests : Beside(request'[p]) = Beside(request[p])
    PROVE  Counted(disk') \subseteq Counted(disk) /\ Settled' \subseteq Settled /\ Cardinality(Settled') \in Nat
           /\ Cardinality(Settled') <= Cardinality(Settled)
<1>1. Counted(disk') \subseteq Counted(disk)
  BY DEF Counted
<1>2. \A x : x \in Settled' <=> x \in Counted(disk') /\ \A p \in Requests : x \notin Beside(request'[p])
  BY DEF Settled, Beside, Writes, Kind, Other, Temporary, Counted
<1>3. \A x : x \in Settled <=> x \in Counted(disk) /\ \A p \in Requests : x \notin Beside(request[p])
  BY DEF Settled
<1>4. Settled' \subseteq Settled
  BY <1>1, <1>2, <1>3
<1> QED
  BY <1>1, <1>4, SettledFinite

(* One comes for one that goes.                                            *)
LEMMA Swapped ==
    ASSUME NEW S, IsFiniteSet(S), NEW x \in S, NEW y, NEW T, T \subseteq (S \ {x}) \cup {y}
    PROVE  Cardinality(T) \in Nat /\ Cardinality(T) <= Cardinality(S)
<1>1. IsFiniteSet(S \ {x}) /\ Cardinality(S \ {x}) = Cardinality(S) - 1
  BY FS_RemoveElement
<1>2. IsFiniteSet((S \ {x}) \cup {y}) /\ Cardinality((S \ {x}) \cup {y}) <= Cardinality(S \ {x}) + 1
  BY <1>1, FS_AddElement, FS_CardinalityType
<1>3. Cardinality(T) <= Cardinality((S \ {x}) \cup {y}) /\ IsFiniteSet(T)
  BY <1>2, FS_Subset
<1> QED
  BY <1>1, <1>2, <1>3, FS_CardinalityType

(* What the book does not know yet is under the own name of its request.   *)
LEMMA BesideFacts ==
    ASSUME NEW q, Fits(q), NEW f \in Beside(q)
    PROVE  /\ q.at \in {"rename", "book"} /\ q.name \in Names /\ q.kind \in Kinds /\ f[1] = q.name
           /\ f \in {Temporary(q), Kind(q)}
<1>1. Writes(q) /\ q.at \in {"rename", "book"} /\ f \in {Temporary(q), Kind(q)}
  BY DEF Beside
<1>2. q.name \in Names /\ q.kind \in Kinds
  BY <1>1, FitsAt DEF Holding
<1> QED
  BY <1>1, <1>2, FileFacts

LEMMA SizeStep ==
    ASSUME IconsIInv, NEW r \in Requests, Size(r)
    PROVE  IconsIInv'
<1>1. PICK q : q = request[r]
  OBVIOUS
<1>2. PICK found : found = {f \in {<<q.name, "png">>, <<q.name, "none">>} : disk[f] # None}
  OBVIOUS
<1>3. /\ q.at = "size" /\ Fits(q) /\ q.at \in Holding \cup {"lock"} /\ book' = (IF book = None THEN q.files ELSE book)
      /\ Does(r, [q EXCEPT !.at = "replace", !.files = None, !.before = found])
      /\ UNCHANGED <<clock, disk, locks, eviction, clearing, overlap, item>>
      /\ IconsCore /\ Ceiling /\ OwnInv /\ EvictInv
  BY <1>1, <1>2 DEF Size, IconsIInv, IconsTypeOK, Holding, IconsCore, Ceiling
<1>4. /\ q.name \in Names /\ q.kind \in Kinds /\ q.name # "library" /\ (q.name = "drawn" => q.kind = "png")
      /\ None \in Times /\ "replace" \in Holding /\ q.files \in Times
  BY <1>3, FitsAt DEF Times, Holding
<1>5. found \in {{}, {<<q.name, "png">>}, {<<q.name, "none">>}} /\ (q.name = "drawn" => <<"drawn", "none">> \notin found)
  <2>1. q.name \in Cached
    BY <1>4, NameFacts
  <2>2. disk[<<q.name, "png">>] = None \/ disk[<<q.name, "none">>] = None
    BY <1>3, <2>1 DEF IconsCore, EitherInv
  <2>3. disk[<<"drawn", "none">>] = None
    BY <1>3 DEF IconsCore, EitherInv
  <2> QED
    BY <1>2, <2>2, <2>3
<1>6. PICK step : step = Moved(q, "replace", q.kind, None, found)
  OBVIOUS
<1>7. Fits(step) /\ step.at = "replace" /\ step.name = q.name /\ step.lock = q.lock /\ step.kind = q.kind /\ step.before = found
  BY <1>3, <1>4, <1>5, <1>6, MovedFits
<1>8. Does(r, step)
  <2>1. [q EXCEPT !.at = "replace", !.files = None, !.before = found] = Moved(q, "replace", q.kind, None, found)
    <3>1. Fits(q) /\ q.at \in Holding \cup {"lock"}
      BY <1>3
    <3>2. PICK v : v = [q EXCEPT !.at = "replace", !.files = None]
      OBVIOUS
    <3>3. v = Moved(q, "replace", q.kind, None, q.before)
      BY <3>1, <3>2, MovesOn
    <3>4. [v EXCEPT !.before = found] = Moved(q, "replace", q.kind, None, found)
      BY <3>3 DEF Moved
    <3> QED
      BY <3>2, <3>4
  <2> QED
    BY <1>3, <1>6, <2>1
<1>9. \A p \in Requests : request'[p] = IF p = r THEN step ELSE request[p]
  BY <1>3, <1>7, <1>8, IconSteps DEF IconsCore
<1>10. IconsCore'
  <2>1. disk' \in [Files -> Times] /\ book' \in Times /\ overlap' \in BOOLEAN /\ clearing' \in BOOLEAN
    BY <1>3, <1>4 DEF IconsCore, IconsTypeOK
  <2>2. /\ \A n \in Cached : disk'[<<n, "png">>] = None \/ disk'[<<n, "none">>] = None
        /\ disk'[<<"drawn", "none">>] = None /\ disk'[<<"library", "none">>] = None
        /\ \A p \in Requests \ {r} : request[p].at \in {"rename", "book"} => disk'[Other(request[p])] = None
    BY <1>3 DEF IconsCore, EitherInv
  <2>3. \A p \in Requests \ {r} : request[p].at \in {"slot", "fetch"} =>
               \A k \in Kinds : disk'[<<request[p].name, k>>] \in {None, disk[<<request[p].name, k>>]}
    BY <1>3
  <2>4. DOMAIN locks' = Names /\ \A n \in Names : locks'[n] \in LocksOf(n) \cup {None}
    BY <1>3 DEF IconsCore, IconsTypeOK
  <2>5. /\ \A p \in Requests \ {r} : Works(request[p]) => locks'[request[p].name] = request[p].lock
        /\ Works(step) => locks'[step.name] = step.lock
        /\ Works(step) => \A p \in Requests \ {r} : Works(request[p]) /\ request[p].at \in Holding => request[p].name # step.name
    <3>1. Works(step) => Works(q) /\ q.at \in Holding
      BY <1>3, <1>7 DEF Works, Holding
    <3> QED
      BY <1>1, <1>3, <1>7, <3>1 DEF IconsCore, LocksInv
  <2> QED
    BY <1>3, <1>7, <1>8, <2>1, <2>2, <2>3, <2>4, <2>5, CoreStep
<1>11. Beside(step) = {} /\ Beside(q) = {} /\ Writes(step) /\ ~Writes(q)
  BY <1>3, <1>4, <1>7, NameFacts DEF Beside, Writes
<1>12. Cardinality(Settled') \in Nat /\ Cardinality(Settled') <= Cardinality(Settled) /\ Counted(disk') = Counted(disk)
  BY <1>1, <1>3, <1>9, <1>11, SettledShrinks
<1>13. SeenInv'
  <2>1. \A f \in found : disk[f] # None
    BY <1>2
  <2> QED
    BY <1>3, <1>7, <1>9, <2>1 DEF Ceiling, SeenInv, Writes, Kind
<1>14. CountedInv'
  <2>1. ~Sizing(step)
    BY <1>7 DEF Sizing
  <2> QED
    BY <1>3, <1>9, <1>12, <2>1 DEF Ceiling, CountedInv, Sizing
<1>15. BookInv'
  <2> SUFFICES ASSUME ~overlap, book' # None
               PROVE  /\ Cardinality(Settled') <= book' \/ eviction.at \in {"remove", "count"}
                      /\ \E p \in Requests : Writes(request'[p])
    BY <1>3 DEF BookInv, Writes
  <2>1. Writes(request'[r])
    BY <1>9, <1>11
  <2>2. CASE book = None
    <3>1. Cardinality(Counted(disk)) <= q.files
      BY <1>1, <1>3, <2>2 DEF Ceiling, CountedInv, Sizing
    <3>2. Cardinality(Settled) <= Cardinality(Counted(disk)) /\ Cardinality(Settled) \in Nat /\ Cardinality(Counted(disk)) \in Nat
      BY SettledFinite, CountedFinite
    <3>3. q.files \in Nat
      BY <1>3, <1>4, <2>2 DEF Times
    <3> QED
      BY <1>3, <1>12, <2>1, <2>2, <3>1, <3>2, <3>3
  <2>3. CASE book # None
    <3>1. Cardinality(Settled) <= book \/ eviction.at \in {"remove", "count"}
      BY <1>3, <2>3 DEF Ceiling, BookInv
    <3>2. book \in Nat /\ Cardinality(Settled) \in Nat
      BY <1>3, <2>3, SettledFinite DEF IconsCore, IconsTypeOK, Times
    <3> QED
      BY <1>3, <1>12, <2>1, <2>3, <3>1, <3>2
  <2> QED
    BY <2>2, <2>3
<1>16. OwnInv'
  <2>1. step.at # "own"
    BY <1>7
  <2> QED
    BY <1>3, <1>9, <2>1, OwnStays
<1>17. EvictInv'
  BY <1>1, <1>3, <1>7, <1>9, EvictStays
<1> QED
  BY <1>10, <1>13, <1>14, <1>15, <1>16, <1>17 DEF IconsIInv, IconsCore

(* Who holds a name's lock keeps it; another of the same name draws.       *)
LEMMA HoldsOn ==
    ASSUME IconsCore, NEW r \in Requests, NEW step, request[r].at \in Holding, step.name = request[r].name,
           step.lock = request[r].lock, UNCHANGED locks
    PROVE  /\ DOMAIN locks' = Names /\ \A n \in Names : locks'[n] \in LocksOf(n) \cup {None}
           /\ \A p \in Requests \ {r} : Works(request[p]) => locks'[request[p].name] = request[p].lock
           /\ Works(step) => locks'[step.name] = step.lock
           /\ Works(step) => \A p \in Requests \ {r} : Works(request[p]) /\ request[p].at \in Holding => request[p].name # step.name
<1>1. IconsTypeOK /\ LocksInv
  BY DEF IconsCore
<1>2. Works(step) => Works(request[r])
  BY DEF Works
<1> QED
  BY <1>1, <1>2 DEF IconsTypeOK, LocksInv

(* What another found, or keeps beside, is of another name, or it draws    *)
(* the same.                                                               *)
LEMMA Apart ==
    ASSUME IconsCore, NEW r \in Requests, request[r].at \in Holding,
           NEW p \in Requests, p # r, request[p].at \in Holding
    PROVE  /\ \A f \in request[p].before : f # Other(request[r]) /\ f # Temporary(request[r])
           /\ Other(request[p]) # Kind(request[r]) /\ Other(request[p]) # Temporary(request[r])
           /\ Kind(request[p]) # Other(request[r])
           /\ request[r].name # "drawn" => \A f \in Beside(request[p]) : f[1] # request[r].name
           /\ \A f \in Beside(request[p]) : f # Other(request[r])
           /\ request[p].at \in {"slot", "fetch"} => request[p].name # request[r].name
<1>1. PICK q, o : q = request[r] /\ o = request[p]
  OBVIOUS
<1>2. Fits(q) /\ Fits(o) /\ IconsTypeOK /\ LocksInv
  BY <1>1 DEF IconsCore, IconsTypeOK
<1>3. /\ q.name \in Names /\ q.kind \in Kinds /\ o.name \in Names /\ o.kind \in Kinds
      /\ o.before \in {{}, {Kind(o)}, {Other(o)}}
      /\ o.name = "drawn" => <<"drawn", "none">> \notin o.before /\ o.kind = "png"
      /\ o.name = "drawn" => o.at \notin {"slot", "fetch"}
  BY <1>1, <1>2, FitsAt
<1>4. o.name = q.name => q.name = "drawn" /\ q.kind = "png" /\ o.kind = "png"
  <2>1. request[p].name = request[r].name => request[r].name = "drawn" /\ request[r].kind = "png" /\ request[p].kind = "png"
    BY <1>2, OwnNames
  <2> QED
    BY <1>1, <2>1
<1>5. \A f \in Beside(o) : f[1] = o.name /\ f \in {Temporary(o), Kind(o)}
  BY <1>2, BesideFacts
<1>6. /\ Kind(q)[1] = q.name /\ Other(q)[1] = q.name /\ Temporary(q)[1] = q.name
      /\ Kind(o)[1] = o.name /\ Other(o)[1] = o.name /\ Temporary(o)[1] = o.name
  BY <1>3, FileFacts
<1>7. CASE o.name # q.name
  <2>1. \A f \in o.before : f[1] = o.name
    BY <1>3, <1>6
  <2> QED
    BY <1>1, <1>5, <1>6, <1>7, <2>1
<1>8. CASE o.name = q.name
  <2>1. /\ Kind(q) = <<"drawn", "png">> /\ Other(q) = <<"drawn", "none">> /\ Temporary(q) = <<"drawn", "tmp">>
        /\ Kind(o) = <<"drawn", "png">> /\ Other(o) = <<"drawn", "none">> /\ Temporary(o) = <<"drawn", "tmp">>
    BY <1>4, <1>8 DEF Kind, Other, Temporary
  <2>2. o.before \subseteq {<<"drawn", "png">>}
    BY <1>3, <1>4, <1>8, <2>1
  <2> QED
    BY <1>1, <1>3, <1>4, <1>5, <1>8, <2>1, <2>2
<1> QED
  BY <1>7, <1>8

LEMMA ReplaceStep ==
    ASSUME IconsIInv, NEW r \in Requests, Replace(r)
    PROVE  IconsIInv'
<1>1. PICK q : q = request[r]
  OBVIOUS
<1>2. /\ q.at = "replace" /\ Fits(q) /\ q.at \in Holding \cup {"lock"} /\ q.at \in Holding
      /\ disk' = [disk EXCEPT ![Other(q)] = None, ![Temporary(q)] = clock]
      /\ Does(r, [q EXCEPT !.at = "rename"]) /\ overlap' = (overlap \/ Counting)
      /\ UNCHANGED <<clock, book, locks, eviction, clearing, item>>
      /\ IconsCore /\ Ceiling /\ OwnInv /\ EvictInv
  BY <1>1 DEF Replace, IconsIInv, IconsTypeOK, Holding, IconsCore, Ceiling
<1>3. /\ q.name \in Names /\ q.kind \in Kinds /\ q.name # "library" /\ (q.name = "drawn" => q.kind = "png" /\ <<"drawn", "none">> \notin q.before)
      /\ None \in Times /\ "rename" \in Holding /\ q.files = None /\ q.before \in {{}, {Kind(q)}, {Other(q)}}
  BY <1>2, FitsAt DEF Times, Holding
<1>4. q.before \in {{}, {<<q.name, "png">>}, {<<q.name, "none">>}}
  BY <1>2, MovesOn
<1>5. PICK step : step = Moved(q, "rename", q.kind, None, q.before)
  OBVIOUS
<1>6. Fits(step) /\ step.at = "rename" /\ step.name = q.name /\ step.lock = q.lock /\ step.kind = q.kind /\ step.before = q.before
  BY <1>2, <1>3, <1>4, <1>5, MovedFits
<1>7. Does(r, step)
  <2>1. [q EXCEPT !.at = "rename"] = Moved(q, "rename", q.kind, q.files, q.before)
    BY <1>2, MovesOn
  <2> QED
    BY <1>2, <1>3, <1>5, <2>1
<1>8. \A p \in Requests : request'[p] = IF p = r THEN step ELSE request[p]
  BY <1>2, <1>6, <1>7, IconSteps DEF IconsCore
<1>9. /\ Kind(q) \in Files /\ Other(q) \in Files /\ Temporary(q) \in Files
      /\ Kind(q) # Other(q) /\ Temporary(q) # Kind(q) /\ Temporary(q) # Other(q)
      /\ \A n \in Names, k \in Kinds : <<n, k>> \in Files /\ <<n, k>> # Temporary(q)
  BY <1>3, FileFacts
<1>10. \A f \in Files : disk'[f] = IF f = Temporary(q) THEN clock ELSE IF f = Other(q) THEN None ELSE disk[f]
  BY <1>2, <1>9 DEF IconsCore, IconsTypeOK
<1>11. \A n \in Names, k \in Kinds : disk'[<<n, k>>] \in {None, disk[<<n, k>>]}
  BY <1>9, <1>10
<1>12. IconsCore'
  <2>1. disk' \in [Files -> Times] /\ book' \in Times /\ overlap' \in BOOLEAN /\ clearing' \in BOOLEAN
    <3>1. disk \in [Files -> Times] /\ clock \in Times /\ book \in Times /\ overlap \in BOOLEAN /\ clearing \in BOOLEAN
      BY <1>2 DEF IconsCore, IconsTypeOK, Times
    <3>2. overlap' \in BOOLEAN
      BY <1>2, <3>1 DEF Counting
    <3> QED
      BY <1>2, <1>3, <3>1, <3>2
  <2>2. /\ \A n \in Cached : disk'[<<n, "png">>] = None \/ disk'[<<n, "none">>] = None
        /\ disk'[<<"drawn", "none">>] = None /\ disk'[<<"library", "none">>] = None
    BY <1>2, <1>11, NameFacts DEF IconsCore, EitherInv, Kinds
  <2>3. \A p \in Requests \ {r} : request[p].at \in {"slot", "fetch"} =>
               \A k \in Kinds : disk'[<<request[p].name, k>>] \in {None, disk[<<request[p].name, k>>]}
    <3>1. \A p \in Requests : request[p].at \in {"slot", "fetch"} => request[p].name \in Names
      BY <1>2, FitsAt DEF IconsCore, IconsTypeOK, Holding
    <3> QED
      BY <1>11, <3>1
  <2>4. \A p \in Requests \ {r} : request[p].at \in {"rename", "book"} => disk'[Other(request[p])] = None
    <3> SUFFICES ASSUME NEW p \in Requests \ {r}, request[p].at \in {"rename", "book"}
                 PROVE  disk'[Other(request[p])] = None
      OBVIOUS
    <3>1. request[p].name \in Names /\ request[p].kind \in Kinds
      BY <1>2, FitsAt DEF IconsCore, IconsTypeOK, Holding
    <3>2. \E n \in Names, k \in Kinds : Other(request[p]) = <<n, k>>
      BY <3>1 DEF Other, Kinds
    <3>3. disk[Other(request[p])] = None
      BY <1>2 DEF IconsCore, EitherInv
    <3> QED
      BY <1>11, <3>2, <3>3
  <2>5. disk'[Other(step)] = None
    <3>1. Other(step) = Other(q)
      BY <1>6 DEF Other
    <3> QED
      BY <1>9, <1>10, <3>1
  <2>6. /\ DOMAIN locks' = Names /\ \A n \in Names : locks'[n] \in LocksOf(n) \cup {None}
        /\ \A p \in Requests \ {r} : Works(request[p]) => locks'[request[p].name] = request[p].lock
        /\ Works(step) => locks'[step.name] = step.lock
        /\ Works(step) => \A p \in Requests \ {r} : Works(request[p]) /\ request[p].at \in Holding => request[p].name # step.name
    BY <1>1, <1>2, <1>6, HoldsOn
  <2> QED
    BY <1>2, <1>6, <1>7, <2>1, <2>2, <2>3, <2>4, <2>5, <2>6, CoreStep
<1>13. Writes(step) /\ Writes(q) /\ Beside(q) = {} /\ Beside(step) = (IF Other(q) \notin q.before THEN {Temporary(q)} ELSE {})
  BY <1>2, <1>3, <1>6, NameFacts DEF Beside, Writes, Other, Temporary
<1>14. \A p \in Requests \ {r} : Writes(request[p]) => request[p].at \in Holding
  BY DEF Writes, Holding
<1>15. CASE overlap'
  <2>1. overlap' = TRUE
    BY <1>15, <1>12 DEF IconsCore, IconsTypeOK
  <2> QED
    BY <2>1, Overlapped, <1>12, <1>2, <1>8, <1>1, <1>6, EvictStays, OwnStays DEF IconsIInv, IconsCore, Ceiling
<1>16. CASE ~overlap'
  <2>1. ~overlap /\ ~Counting
    BY <1>2, <1>16
  <2>2. SeenInv'
    <3>1. ASSUME NEW p \in Requests \ {r}, Writes(request[p])
          PROVE  /\ request[p].at = "replace" => \A f \in request[p].before : disk'[f] # None
                 /\ request[p].at = "rename" /\ request[p].before = {Kind(request[p])} => disk'[Kind(request[p])] # None
      <4>1. /\ request[p].at = "replace" => \A f \in request[p].before : disk[f] # None
            /\ request[p].at = "rename" /\ request[p].before = {Kind(request[p])} => disk[Kind(request[p])] # None
        BY <1>2, <2>1, <3>1 DEF Ceiling, SeenInv
      <4>2. /\ \A f \in request[p].before : f # Other(q) /\ f # Temporary(q)
            /\ Kind(request[p]) # Other(q)
        BY <1>1, <1>2, <1>14, <3>1, Apart
      <4>3. Fits(request[p]) /\ request[p].at \in Holding
        BY <1>2, <1>14, <3>1 DEF IconsCore, IconsTypeOK
      <4>4. request[p].name \in Names /\ request[p].kind \in Kinds /\ request[p].before \in {{}, {Kind(request[p])}, {Other(request[p])}}
        BY <4>3, FitsAt
      <4>5. request[p].before \subseteq Files /\ Kind(request[p]) \in Files
        BY <4>4, FileFacts
      <4>6. \A f \in Files : f # Other(q) /\ f # Temporary(q) => disk'[f] = disk[f]
        BY <1>10
      <4>7. Kind(request[p]) # Temporary(q)
        BY <1>9, <4>4 DEF Kind
      <4> QED
        BY <4>1, <4>2, <4>5, <4>6, <4>7
    <3>2. step.before = {Kind(step)} => disk'[Kind(step)] # None
      <4>1. Kind(step) = Kind(q)
        BY <1>6 DEF Kind
      <4>2. q.before = {Kind(q)} => disk[Kind(q)] # None
        BY <1>1, <1>2, <1>13, <2>1 DEF Ceiling, SeenInv
      <4> QED
        BY <1>6, <1>9, <1>10, <4>1, <4>2
    <3> QED
      BY <1>6, <1>8, <3>1, <3>2 DEF SeenInv, Writes, Kind
  <2>3. CountedInv'
    <3>1. ~Sizing(step) /\ \A p \in Requests : ~Sizing(request[p])
      BY <1>6, <2>1 DEF Sizing, Counting
    <3>2. eviction.at \notin {"remove", "count"}
      BY <2>1 DEF Counting
    <3> QED
      BY <1>2, <1>8, <3>1, <3>2 DEF CountedInv, Sizing
  <2>4. Cardinality(Settled') \in Nat /\ Cardinality(Settled') <= Cardinality(Settled)
    <3>1. \A x : x \in Settled' <=> x \in Counted(disk') /\ \A p \in Requests : x \notin Beside(request'[p])
      BY DEF Settled, Beside, Writes, Kind, Other, Temporary, Counted
    <3>2. \A x : x \in Settled <=> x \in Counted(disk) /\ \A p \in Requests : x \notin Beside(request[p])
      BY DEF Settled
    <3>3. \A x \in Settled' : x # Temporary(q) => x \in Settled /\ x # Other(q)
      <4>1. \A x \in Counted(disk') : x # Temporary(q) => x \in Counted(disk) /\ x # Other(q)
        BY <1>10 DEF Counted
      <4>2. \A p \in Requests : p # r => request'[p] = request[p]
        BY <1>8
      <4> QED
        BY <1>1, <1>13, <3>1, <3>2, <4>1, <4>2
    <3>4. CASE Other(q) \notin q.before
      <4>1. Temporary(q) \notin Settled'
        BY <1>8, <1>13, <3>1, <3>4
      <4>2. Settled' \subseteq Settled
        BY <3>3, <4>1
      <4> QED
        BY <4>2, SettledFinite
    <3>5. CASE Other(q) \in q.before
      <4>1. disk[Other(q)] # None
        BY <1>1, <1>2, <1>13, <2>1, <3>5 DEF Ceiling, SeenInv
      <4>2. Other(q) \in Counted(disk)
        BY <1>9, <1>3, <4>1, NameFacts, FileFacts DEF Counted
      <4>3. \A p \in Requests \ {r} : Other(q) \notin Beside(request[p])
        <5>1. \A p \in Requests \ {r} : request[p].at \notin Holding => Beside(request[p]) = {}
          BY DEF Beside, Writes, Holding
        <5> QED
          BY <1>1, <1>2, <5>1, Apart
      <4>4. Other(q) \in Settled
        BY <1>1, <1>13, <3>2, <4>2, <4>3
      <4>5. Settled' \subseteq (Settled \ {Other(q)}) \cup {Temporary(q)}
        BY <3>3
      <4> QED
        BY <4>4, <4>5, Swapped, SettledFinite
    <3> QED
      BY <3>4, <3>5
  <2>5. BookInv'
    <3> SUFFICES ASSUME book # None
                 PROVE  /\ Cardinality(Settled') <= book \/ eviction.at \in {"remove", "count"}
                        /\ \E p \in Requests : Writes(request'[p])
      BY <1>2, <1>16 DEF BookInv, Writes
    <3>1. Writes(request'[r])
      BY <1>8, <1>13
    <3>2. book \in Nat /\ Cardinality(Settled) \in Nat
      BY <1>2, SettledFinite DEF IconsCore, IconsTypeOK, Times
    <3>3. Cardinality(Settled) <= book \/ eviction.at \in {"remove", "count"}
      BY <1>2, <2>1 DEF Ceiling, BookInv
    <3> QED
      BY <2>4, <3>1, <3>2, <3>3
  <2> QED
    BY <2>2, <2>3, <2>5, <1>12, <1>2, <1>8, <1>1, <1>6, EvictStays, OwnStays DEF IconsIInv, IconsCore, Ceiling
<1> QED
  BY <1>15, <1>16

(* A rename, done or not, puts nothing beside what it must not meet.       *)
LEMMA RenameFacts ==
    ASSUME IconsCore, NEW r \in Requests, request[r].at = "rename",
           disk' \in {disk, IF request[r].name = "library" THEN [disk EXCEPT ![Kind(request[r])] = clock] ELSE Renamed(request[r])}
    PROVE  /\ disk' \in [Files -> Times]
           /\ \A n \in Cached : disk'[<<n, "png">>] = None \/ disk'[<<n, "none">>] = None
           /\ disk'[<<"drawn", "none">>] = None /\ disk'[<<"library", "none">>] = None
           /\ \A p \in Requests \ {r} : request[p].at \in {"slot", "fetch"} =>
                  \A k \in Kinds : disk'[<<request[p].name, k>>] \in {None, disk[<<request[p].name, k>>]}
           /\ \A p \in Requests \ {r} : request[p].at \in {"rename", "book"} => disk'[Other(request[p])] = None
           /\ disk'[Other(request[r])] = None
           /\ \A f \in Files : f \notin {Kind(request[r]), Temporary(request[r])} => disk'[f] = disk[f]
           /\ disk'[Kind(request[r])] \in {disk[Kind(request[r])], clock}
<1>1. PICK q : q = request[r]
  OBVIOUS
<1>2. /\ q.at = "rename" /\ q.at \in Holding /\ Fits(q) /\ IconsTypeOK /\ EitherInv
      /\ disk \in [Files -> Times] /\ clock \in Times /\ None \in Times /\ disk[Other(q)] = None
      /\ disk' \in {disk, IF q.name = "library" THEN [disk EXCEPT ![Kind(q)] = clock] ELSE Renamed(q)}
  BY <1>1 DEF IconsCore, IconsTypeOK, Holding, EitherInv, Times
<1>3. /\ q.name \in Names /\ q.kind \in Kinds
      /\ q.name \in {"drawn", "library"} => q.kind = "png"
  BY <1>2, FitsAt
<1>4. /\ Kind(q) \in Files /\ Other(q) \in Files /\ Temporary(q) \in Files
      /\ Kind(q) # Other(q) /\ Temporary(q) # Kind(q) /\ Temporary(q) # Other(q)
      /\ \A n \in Names, k \in Kinds : <<n, k>> \in Files /\ <<n, k>> # Temporary(q)
      /\ \/ Kind(q) = <<q.name, "png">> /\ Other(q) = <<q.name, "none">>
         \/ Kind(q) = <<q.name, "none">> /\ Other(q) = <<q.name, "png">>
      /\ q.kind = "png" => Kind(q) = <<q.name, "png">>
  BY <1>3, FileFacts
<1>5. /\ disk' \in [Files -> Times]
      /\ \A f \in Files : f \notin {Kind(q), Temporary(q)} => disk'[f] = disk[f]
      /\ disk'[Kind(q)] \in {disk[Kind(q)], clock}
  BY <1>2, <1>4 DEF Renamed
<1>6. \A n \in Names, k \in Kinds : <<n, k>> # Kind(q) => disk'[<<n, k>>] = disk[<<n, k>>]
  BY <1>4, <1>5
<1>7. disk'[Other(q)] = None
  BY <1>2, <1>4, <1>5
<1>8. \A n \in Cached : disk'[<<n, "png">>] = None \/ disk'[<<n, "none">>] = None
  <2> SUFFICES ASSUME NEW n \in Cached
               PROVE  disk'[<<n, "png">>] = None \/ disk'[<<n, "none">>] = None
    OBVIOUS
  <2>1. CASE n = q.name
    BY <1>4, <1>7, <2>1
  <2>2. CASE n # q.name
    <3>1. disk'[<<n, "png">>] = disk[<<n, "png">>] /\ disk'[<<n, "none">>] = disk[<<n, "none">>]
      BY <1>4, <1>6, <2>2, NameFacts DEF Kinds
    <3> QED
      BY <1>2, <3>1 DEF EitherInv
  <2> QED
    BY <2>1, <2>2
<1>9. disk'[<<"drawn", "none">>] = None /\ disk'[<<"library", "none">>] = None
  <2>1. <<"drawn", "none">> # Kind(q) /\ <<"library", "none">> # Kind(q)
    BY <1>3, <1>4
  <2> QED
    BY <1>2, <1>6, <2>1, NameFacts DEF EitherInv, Kinds
<1>10. ASSUME NEW p \in Requests \ {r}, request[p].at \in {"slot", "fetch", "rename", "book"}
       PROVE  /\ request[p].at \in {"slot", "fetch"} =>
                     \A k \in Kinds : disk'[<<request[p].name, k>>] \in {None, disk[<<request[p].name, k>>]}
              /\ request[p].at \in {"rename", "book"} => disk'[Other(request[p])] = None
  <2>1. request[p].at \in Holding
    BY <1>10 DEF Holding
  <2>2. request[p].name \in Names /\ request[p].kind \in Kinds
    BY <1>2, <2>1, FitsAt DEF IconsTypeOK
  <2>3. request[p].at \in {"slot", "fetch"} => request[p].name # q.name
    BY <1>1, <1>2, <2>1, Apart
  <2>4. Other(request[p]) # Kind(q)
    BY <1>1, <1>2, <2>1, Apart
  <2>5. \E k \in Kinds : Other(request[p]) = <<request[p].name, k>>
    BY <2>2 DEF Other, Kinds
  <2>6. request[p].at \in {"rename", "book"} => disk[Other(request[p])] = None
    BY <1>2 DEF EitherInv
  <2> QED
    BY <1>4, <1>6, <2>2, <2>3, <2>4, <2>5, <2>6
<1> QED
  BY <1>1, <1>5, <1>7, <1>8, <1>9, <1>10

LEMMA RenameStep ==
    ASSUME IconsIInv, NEW r \in Requests, Rename(r), request[r].name # "library"
    PROVE  IconsIInv'
<1>1. PICK q : q = request[r]
  OBVIOUS
<1>2. /\ q.at = "rename" /\ Fits(q) /\ q.at \in Holding \cup {"lock"} /\ q.at \in Holding /\ q.name # "library"
      /\ disk' = Renamed(q) /\ Does(r, [q EXCEPT !.at = "book"]) /\ overlap' = (overlap \/ Counting)
      /\ UNCHANGED <<clock, book, locks, eviction, clearing, item>>
      /\ IconsCore /\ Ceiling /\ OwnInv /\ EvictInv
  BY <1>1 DEF Rename, IconsIInv, IconsTypeOK, Holding, IconsCore, Ceiling
<1>3. /\ q.name \in Names /\ q.kind \in Kinds
      /\ q.name = "drawn" => q.kind = "png" /\ <<"drawn", "none">> \notin q.before
      /\ None \in Times /\ "book" \in Holding /\ q.files = None /\ q.before \in {{}, {Kind(q)}, {Other(q)}}
  BY <1>2, FitsAt DEF Times, Holding
<1>4. q.before \in {{}, {<<q.name, "png">>}, {<<q.name, "none">>}}
  BY <1>2, MovesOn
<1>5. PICK step : step = Moved(q, "book", q.kind, None, q.before)
  OBVIOUS
<1>6. Fits(step) /\ step.at = "book" /\ step.name = q.name /\ step.lock = q.lock /\ step.kind = q.kind /\ step.before = q.before
  BY <1>2, <1>3, <1>4, <1>5, MovedFits
<1>7. Does(r, step)
  <2>1. [q EXCEPT !.at = "book"] = Moved(q, "book", q.kind, q.files, q.before)
    BY <1>2, MovesOn
  <2> QED
    BY <1>2, <1>3, <1>5, <2>1
<1>8. \A p \in Requests : request'[p] = IF p = r THEN step ELSE request[p]
  BY <1>2, <1>6, <1>7, IconSteps DEF IconsCore
<1>9. /\ Kind(q) \in Files /\ Other(q) \in Files /\ Temporary(q) \in Files
      /\ Kind(q) # Other(q) /\ Temporary(q) # Kind(q) /\ Temporary(q) # Other(q)
      /\ Kind(q)[1] = q.name /\ Other(q)[1] = q.name /\ Temporary(q)[1] = q.name
      /\ \A n \in Names, k \in Kinds : <<n, k>> \in Files /\ <<n, k>> # Temporary(q)
  BY <1>3, FileFacts
<1>10. /\ disk[Temporary(q)] = None => disk' = disk
       /\ disk[Temporary(q)] # None => \A f \in Files : disk'[f] = IF f = Kind(q) THEN clock ELSE IF f = Temporary(q) THEN None ELSE disk[f]
       /\ clock # None
  BY <1>2, <1>9, IconsNone DEF IconsCore, IconsTypeOK, Renamed
<1>11. IconsCore'
  <2>1. disk' \in {disk, IF request[r].name = "library" THEN [disk EXCEPT ![Kind(request[r])] = clock] ELSE Renamed(request[r])}
    BY <1>1, <1>2
  <2>2. /\ disk' \in [Files -> Times]
        /\ \A n \in Cached : disk'[<<n, "png">>] = None \/ disk'[<<n, "none">>] = None
        /\ disk'[<<"drawn", "none">>] = None /\ disk'[<<"library", "none">>] = None
        /\ \A p \in Requests \ {r} : request[p].at \in {"slot", "fetch"} =>
                  \A k \in Kinds : disk'[<<request[p].name, k>>] \in {None, disk[<<request[p].name, k>>]}
        /\ \A p \in Requests \ {r} : request[p].at \in {"rename", "book"} => disk'[Other(request[p])] = None
        /\ disk'[Other(request[r])] = None
    BY <1>1, <1>2, <2>1, RenameFacts
  <2>3. book' \in Times /\ overlap' \in BOOLEAN /\ clearing' \in BOOLEAN
    <3>1. book \in Times /\ overlap \in BOOLEAN /\ clearing \in BOOLEAN
      BY <1>2 DEF IconsCore, IconsTypeOK
    <3>2. overlap' \in BOOLEAN
      BY <1>2, <3>1 DEF Counting
    <3> QED
      BY <1>2, <3>1, <3>2
  <2>4. disk'[Other(step)] = None
    <3>1. Other(step) = Other(request[r])
      BY <1>1, <1>6 DEF Other
    <3> QED
      BY <2>2, <3>1
  <2>5. /\ DOMAIN locks' = Names /\ \A n \in Names : locks'[n] \in LocksOf(n) \cup {None}
        /\ \A p \in Requests \ {r} : Works(request[p]) => locks'[request[p].name] = request[p].lock
        /\ Works(step) => locks'[step.name] = step.lock
        /\ Works(step) => \A p \in Requests \ {r} : Works(request[p]) /\ request[p].at \in Holding => request[p].name # step.name
    BY <1>1, <1>2, <1>6, HoldsOn
  <2> QED
    BY <1>2, <1>6, <1>7, <2>2, <2>3, <2>4, <2>5, CoreStep
<1>12. /\ Writes(step) /\ Writes(q) /\ Beside(q) = (IF Other(q) \notin q.before THEN {Temporary(q)} ELSE {})
       /\ Beside(step) = (IF q.before = {} THEN {Kind(q)} ELSE {})
  BY <1>2, <1>3, <1>6, NameFacts DEF Beside, Writes, Kind, Other, Temporary
<1>13. \A p \in Requests \ {r} : Writes(request[p]) => request[p].at \in Holding
  BY DEF Writes, Holding
<1>14. OwnInv' /\ EvictInv'
  BY <1>1, <1>2, <1>6, <1>8, EvictStays, OwnStays
<1>15. CASE overlap'
  <2>1. overlap' = TRUE
    BY <1>15, <1>11 DEF IconsCore, IconsTypeOK
  <2> QED
    BY <2>1, Overlapped, <1>11, <1>14 DEF IconsIInv, IconsCore, Ceiling
<1>16. CASE ~overlap'
  <2>1. ~overlap /\ ~Counting
    BY <1>2, <1>16
  <2>2. SeenInv'
    <3>1. ASSUME NEW p \in Requests \ {r}, Writes(request[p])
          PROVE  /\ request[p].at = "replace" => \A f \in request[p].before : disk'[f] # None
                 /\ request[p].at = "rename" /\ request[p].before = {Kind(request[p])} => disk'[Kind(request[p])] # None
      <4>1. /\ request[p].at = "replace" => \A f \in request[p].before : disk[f] # None
            /\ request[p].at = "rename" /\ request[p].before = {Kind(request[p])} => disk[Kind(request[p])] # None
        BY <1>2, <2>1, <3>1 DEF Ceiling, SeenInv
      <4>2. \A f \in request[p].before : f # Temporary(q)
        BY <1>1, <1>2, <1>13, <3>1, Apart
      <4>3. Fits(request[p]) /\ request[p].at \in Holding
        BY <1>2, <1>13, <3>1 DEF IconsCore, IconsTypeOK
      <4>4. request[p].name \in Names /\ request[p].kind \in Kinds /\ request[p].before \in {{}, {Kind(request[p])}, {Other(request[p])}}
        BY <4>3, FitsAt
      <4>5. request[p].before \subseteq Files /\ Kind(request[p]) \in Files
        BY <4>4, FileFacts
      <4>6. \A f \in Files : f # Temporary(q) /\ disk[f] # None => disk'[f] # None
        BY <1>10
      <4>7. Kind(request[p]) # Temporary(q)
        BY <1>9, <4>4 DEF Kind
      <4> QED
        BY <4>1, <4>2, <4>5, <4>6, <4>7
    <3> QED
      BY <1>6, <1>8, <3>1 DEF SeenInv, Writes, Kind
  <2>3. CountedInv'
    <3>1. ~Sizing(step) /\ \A p \in Requests : ~Sizing(request[p])
      BY <1>6, <2>1 DEF Sizing, Counting
    <3>2. eviction.at \notin {"remove", "count"}
      BY <2>1 DEF Counting
    <3> QED
      BY <1>2, <1>8, <3>1, <3>2 DEF CountedInv, Sizing
  <2>4. Cardinality(Settled') \in Nat /\ Cardinality(Settled') <= Cardinality(Settled)
    <3>1. \A x : x \in Settled' <=> x \in Counted(disk') /\ \A p \in Requests : x \notin Beside(request'[p])
      BY DEF Settled, Beside, Writes, Kind, Other, Temporary, Counted
    <3>2. \A x : x \in Settled <=> x \in Counted(disk) /\ \A p \in Requests : x \notin Beside(request[p])
      BY DEF Settled
    <3>3. \A p \in Requests : p # r => request'[p] = request[p]
      BY <1>8
    <3>4. \A x \in Settled' : /\ \A p \in Requests : p # r => x \notin Beside(request[p])
                              /\ x \notin Beside(step)
      BY <1>8, <3>1, <3>3
    <3>5. \A x \in Settled' : x # Kind(q) => x \in Counted(disk) /\ x # Temporary(q)
      <4>1. CASE disk[Temporary(q)] = None
        BY <1>10, <3>1, <4>1 DEF Counted
      <4>2. CASE disk[Temporary(q)] # None
        BY <1>10, <3>1, <4>2 DEF Counted
      <4> QED
        BY <4>1, <4>2
    <3>6. \A x \in Settled' : x # Kind(q) => x \in Settled /\ x # Temporary(q)
      BY <1>1, <1>12, <3>2, <3>4, <3>5
    <3>7. CASE q.before = {}
      <4>1. Settled' \subseteq Settled
        BY <1>12, <3>4, <3>6, <3>7
      <4> QED
        BY <4>1, SettledFinite
    <3>8. CASE q.before = {Kind(q)}
      <4>1. disk[Kind(q)] # None
        BY <1>1, <1>2, <1>12, <2>1, <3>8 DEF Ceiling, SeenInv
      <4>2. Kind(q) \in Counted(disk)
        BY <1>9, <1>2, <1>3, <4>1, NameFacts DEF Counted
      <4>3. Kind(q) \in Settled' => Kind(q) \in Settled
        BY <1>1, <1>9, <1>12, <3>2, <3>4, <4>2
      <4>4. Settled' \subseteq Settled
        BY <3>6, <4>3
      <4> QED
        BY <4>4, SettledFinite
    <3>9. CASE q.before = {Other(q)} /\ disk[Temporary(q)] = None
      <4>1. Kind(q) \in Settled' => Kind(q) \in Settled
        BY <1>1, <1>10, <1>12, <3>1, <3>2, <3>4, <3>9
      <4>2. Settled' \subseteq Settled
        BY <3>6, <4>1
      <4> QED
        BY <4>2, SettledFinite
    <3>10. CASE q.before = {Other(q)} /\ disk[Temporary(q)] # None
      <4>1. q.name # "drawn"
        BY <1>3, <3>10 DEF Other
      <4>2. Temporary(q) \in Counted(disk)
        BY <1>9, <1>2, <1>3, <3>10, NameFacts DEF Counted
      <4>3. \A p \in Requests \ {r} : Temporary(q) \notin Beside(request[p])
        <5>1. \A p \in Requests \ {r} : request[p].at \notin Holding => Beside(request[p]) = {}
          BY DEF Beside, Writes, Holding
        <5> QED
          BY <1>1, <1>2, <1>9, <4>1, <5>1, Apart
      <4>4. Temporary(q) \in Settled
        BY <1>1, <1>12, <3>2, <3>10, <4>2, <4>3
      <4>5. Settled' \subseteq (Settled \ {Temporary(q)}) \cup {Kind(q)}
        BY <3>6
      <4> QED
        BY <4>4, <4>5, Swapped, SettledFinite
    <3> QED
      BY <1>3, <3>7, <3>8, <3>9, <3>10
  <2>5. BookInv'
    <3> SUFFICES ASSUME book # None
                 PROVE  /\ Cardinality(Settled') <= book \/ eviction.at \in {"remove", "count"}
                        /\ \E p \in Requests : Writes(request'[p])
      BY <1>2, <1>16 DEF BookInv, Writes
    <3>1. Writes(request'[r])
      BY <1>8, <1>12
    <3>2. book \in Nat /\ Cardinality(Settled) \in Nat
      BY <1>2, SettledFinite DEF IconsCore, IconsTypeOK, Times
    <3>3. Cardinality(Settled) <= book \/ eviction.at \in {"remove", "count"}
      BY <1>2, <2>1 DEF Ceiling, BookInv
    <3> QED
      BY <2>4, <3>1, <3>2, <3>3
  <2> QED
    BY <2>2, <2>3, <2>5, <1>11, <1>14 DEF IconsIInv, IconsCore, Ceiling
<1> QED
  BY <1>15, <1>16

LEMMA LibraryStep ==
    ASSUME IconsIInv, NEW r \in Requests, Rename(r), request[r].name = "library"
    PROVE  IconsIInv'
<1>1. PICK q : q = request[r]
  OBVIOUS
<1>2. /\ q.at = "rename" /\ Fits(q) /\ q.name = "library" /\ disk' = [disk EXCEPT ![Kind(q)] = clock] /\ Does(r, Ready)
      /\ UNCHANGED <<clock, book, locks, eviction, clearing, overlap, item>>
      /\ IconsCore /\ Ceiling /\ OwnInv /\ EvictInv /\ IconsTypeOK
  BY <1>1 DEF Rename, IconsIInv, IconsTypeOK, IconsCore, Ceiling
<1>3. q.name \in Names /\ q.kind \in Kinds
  BY <1>2, FitsAt DEF Holding
<1>4. \A p \in Requests : request'[p] = IF p = r THEN Ready ELSE request[p]
  BY <1>2, FitsReady, IconSteps
<1>5. PICK step : step = Ready
  OBVIOUS
<1>6. Fits(step) /\ step.at = "idle" /\ Does(r, step) /\ ~Writes(step) /\ ~Sizing(step) /\ ~Works(step)
  BY <1>2, <1>5, FitsReady DEF Writes, Sizing, Works, Holding
<1>7. ~Writes(q)
  BY <1>2, NameFacts DEF Writes
<1>8. IconsCore'
  <2>1. disk' \in {disk, IF request[r].name = "library" THEN [disk EXCEPT ![Kind(request[r])] = clock] ELSE Renamed(request[r])}
    BY <1>1, <1>2
  <2>2. /\ disk' \in [Files -> Times]
        /\ \A n \in Cached : disk'[<<n, "png">>] = None \/ disk'[<<n, "none">>] = None
        /\ disk'[<<"drawn", "none">>] = None /\ disk'[<<"library", "none">>] = None
        /\ \A p \in Requests \ {r} : request[p].at \in {"slot", "fetch"} =>
                  \A k \in Kinds : disk'[<<request[p].name, k>>] \in {None, disk[<<request[p].name, k>>]}
        /\ \A p \in Requests \ {r} : request[p].at \in {"rename", "book"} => disk'[Other(request[p])] = None
    BY <1>1, <1>2, <2>1, RenameFacts
  <2>3. /\ book' \in Times /\ overlap' \in BOOLEAN /\ clearing' \in BOOLEAN
        /\ DOMAIN locks' = Names /\ \A n \in Names : locks'[n] \in LocksOf(n) \cup {None}
    BY <1>2 DEF IconsTypeOK
  <2>4. \A p \in Requests \ {r} : Works(request[p]) => locks'[request[p].name] = request[p].lock
    BY <1>2 DEF IconsCore, LocksInv
  <2> QED
    BY <1>2, <1>6, <2>2, <2>3, <2>4, CoreStep
<1>9. \A f \in Files : f[1] \in Cached => disk'[f] = disk[f]
  <2>1. Kind(q)[1] = "library" /\ Kind(q) \in Files
    BY <1>2, <1>3, FileFacts
  <2> QED
    BY <1>2, <2>1, NameFacts DEF IconsTypeOK
<1>10. Ceiling'
  BY <1>1, <1>2, <1>4, <1>5, <1>6, <1>7, <1>9, CeilingStays DEF IconsTypeOK
<1>11. OwnInv' /\ EvictInv'
  BY <1>1, <1>2, <1>4, <1>5, <1>6, OwnStays, EvictStays
<1> QED
  BY <1>8, <1>10, <1>11 DEF IconsIInv, IconsCore, Ceiling

(* A request ends, or looks for the next name.                             *)
LEMMA LeavesCore ==
    ASSUME IconsCore, NEW r \in Requests, NEW step, Fits(step), Does(r, step), step.at \in {"idle", "look", "evict"},
           step.at = "evict" => request[r].at \in Holding /\ step.name = request[r].name /\ step.lock = request[r].lock,
           UNCHANGED <<clock, locks>>, disk' \in [Files -> Times], \A f \in Files : disk'[f] \in {None, disk[f]},
           book' \in Times, overlap' \in BOOLEAN, clearing' \in BOOLEAN
    PROVE  IconsCore'
<1>1. /\ \A n \in Names, k \in Kinds : <<n, k>> \in Files
      /\ \A p \in Requests : request[p].at \in Holding => request[p].name \in Names /\ Other(request[p]) \in Files
  <2>1. \A n \in Names, k \in Kinds : <<n, k>> \in Files
    BY DEF Files, Kinds
  <2>2. ASSUME NEW p \in Requests, request[p].at \in Holding
        PROVE  request[p].name \in Names /\ Other(request[p]) \in Files
    <3>1. request[p].name \in Names /\ request[p].kind \in Kinds
      BY <2>2, FitsAt DEF IconsCore, IconsTypeOK
    <3> QED
      BY <3>1, FileFacts
  <2> QED
    BY <2>1, <2>2
<1>2. /\ \A n \in Cached : disk'[<<n, "png">>] = None \/ disk'[<<n, "none">>] = None
      /\ disk'[<<"drawn", "none">>] = None /\ disk'[<<"library", "none">>] = None
  <2>1. \A n \in Names, k \in Kinds : disk'[<<n, k>>] \in {None, disk[<<n, k>>]}
    BY <1>1
  <2> QED
    BY <2>1, NameFacts DEF IconsCore, EitherInv, Kinds
<1>3. /\ \A p \in Requests \ {r} : request[p].at \in {"slot", "fetch"} =>
               \A k \in Kinds : disk'[<<request[p].name, k>>] \in {None, disk[<<request[p].name, k>>]}
      /\ \A p \in Requests \ {r} : request[p].at \in {"rename", "book"} => disk'[Other(request[p])] = None
  <2>1. \A p \in Requests : request[p].at \in {"rename", "book", "slot", "fetch"} => request[p].at \in Holding
    BY DEF Holding
  <2> QED
    BY <1>1, <2>1 DEF IconsCore, EitherInv
<1>4. /\ DOMAIN locks' = Names /\ \A n \in Names : locks'[n] \in LocksOf(n) \cup {None}
      /\ \A p \in Requests \ {r} : Works(request[p]) => locks'[request[p].name] = request[p].lock
      /\ Works(step) => locks'[step.name] = step.lock
      /\ Works(step) => \A p \in Requests \ {r} : Works(request[p]) /\ request[p].at \in Holding => request[p].name # step.name
  <2>1. /\ DOMAIN locks' = Names /\ \A n \in Names : locks'[n] \in LocksOf(n) \cup {None}
        /\ \A p \in Requests \ {r} : Works(request[p]) => locks'[request[p].name] = request[p].lock
    BY DEF IconsCore, IconsTypeOK, LocksInv
  <2>2. CASE step.at = "evict"
    BY <2>2, HoldsOn
  <2>3. CASE step.at # "evict"
    <3>1. ~Works(step)
      BY <2>3 DEF Works, Holding
    <3> QED
      BY <2>1, <3>1
  <2> QED
    BY <2>2, <2>3
<1> QED
  BY <1>2, <1>3, <1>4, CoreStep

LEMMA BookStep ==
    ASSUME IconsIInv, NEW r \in Requests, Book(r)
    PROVE  IconsIInv'
<1>1. PICK q : q = request[r]
  OBVIOUS
<1>2. PICK b : b = Booked(q)
  OBVIOUS
<1>3. /\ q.at = "book" /\ Fits(q) /\ q.at \in Holding \cup {"lock"} /\ q.at \in Holding /\ book' = b
      /\ UNCHANGED <<clock, disk, locks, clearing, overlap, item>>
      /\ IF Over(b) /\ eviction.at = "idle"
         THEN Does(r, [q EXCEPT !.at = "evict"]) /\ eviction' = [at |-> "list", by |-> r]
         ELSE Does(r, Kept(r)) /\ UNCHANGED eviction
      /\ IconsCore /\ Ceiling /\ OwnInv /\ EvictInv /\ IconsTypeOK
  BY <1>1, <1>2 DEF Book, IconsIInv, IconsTypeOK, Holding, IconsCore, Ceiling
<1>4. /\ q.name \in Names /\ q.kind \in Kinds /\ q.name # "library"
      /\ q.name = "drawn" => q.kind = "png" /\ <<"drawn", "none">> \notin q.before
      /\ None \in Times /\ "evict" \in Holding /\ q.files = None /\ q.before \in {{}, {Kind(q)}, {Other(q)}}
  BY <1>3, FitsAt DEF Times, Holding
<1>5. eviction.at = "idle" <=> eviction = Ready
  BY <1>3 DEF EvictInv, MayEvict, Ready
<1>6. PICK step : /\ Fits(step) /\ step.at \in {"idle", "look", "evict"} /\ Does(r, step)
                  /\ step.at = "evict" => step.name = q.name /\ step.lock = q.lock
                  /\ step.at = "evict" <=> Over(b) /\ eviction = Ready
                  /\ IF Over(b) /\ eviction = Ready THEN eviction' = [at |-> "list", by |-> r] ELSE UNCHANGED eviction
  <2>1. CASE Over(b) /\ eviction = Ready
    <3>1. [q EXCEPT !.at = "evict"] = Moved(q, "evict", q.kind, None, q.before)
      BY <1>3, <1>4, MovesOn
    <3>2. q.before \in {{}, {<<q.name, "png">>}, {<<q.name, "none">>}}
      BY <1>3, MovesOn
    <3>3. PICK step : step = Moved(q, "evict", q.kind, None, q.before)
      OBVIOUS
    <3>4. Fits(step) /\ step.at = "evict" /\ step.name = q.name /\ step.lock = q.lock
      BY <1>3, <1>4, <3>2, <3>3, MovedFits
    <3> QED
      BY <1>3, <1>5, <2>1, <3>1, <3>3, <3>4
  <2>2. CASE ~(Over(b) /\ eviction = Ready)
    <3>1. Fits(Kept(r)) /\ Kept(r).at \in {"idle", "look"}
      BY KeptFits
    <3>2. Does(r, Kept(r)) /\ UNCHANGED eviction
      BY <1>3, <1>5, <2>2
    <3> QED
      BY <2>2, <3>1, <3>2
  <2> QED
    BY <2>1, <2>2
<1>7. \A p \in Requests : request'[p] = IF p = r THEN step ELSE request[p]
  BY <1>3, <1>6, IconSteps
<1>8. /\ b = None <=> book = None
      /\ book # None => /\ book \in Nat /\ b \in Nat
                        /\ q.before = {} => b = book + 1
                        /\ q.before # {} => b >= book
  <2>1. CASE book = None
    BY <1>2, <2>1 DEF Booked
  <2>2. CASE book # None
    <3>1. book \in Nat
      BY <1>3, <2>2 DEF IconsTypeOK, Times
    <3>2. Cardinality({}) = 0 /\ \A f : Cardinality({f}) = 1
      BY FS_EmptySet, FS_Singleton
    <3>3. Cardinality(q.before) = (IF q.before = {} THEN 0 ELSE 1)
      BY <1>4, <3>2
    <3>4. b = Less(book, Cardinality(q.before)) + 1
      BY <1>2, <2>2 DEF Booked
    <3>5. b \in Nat /\ (q.before = {} => b = book + 1) /\ (q.before # {} => b >= book)
      BY <3>1, <3>3, <3>4 DEF Less
    <3> QED
      BY <2>2, <3>1, <3>5, IconsNone
  <2> QED
    BY <2>1, <2>2
<1>9. IconsCore'
  <2>1. b \in Times
    BY <1>8 DEF Times
  <2>2. /\ disk' \in [Files -> Times] /\ book' \in Times /\ overlap' \in BOOLEAN /\ clearing' \in BOOLEAN
        /\ \A f \in Files : disk'[f] \in {None, disk[f]}
    BY <1>3, <2>1 DEF IconsTypeOK
  <2> QED
    BY <1>1, <1>3, <1>6, <2>2, LeavesCore
<1>10. Beside(step) = {} /\ ~Writes(step) /\ ~Sizing(step) /\ Beside(q) \subseteq (IF q.before = {} THEN {Kind(q)} ELSE {})
  BY <1>3, <1>6 DEF Beside, Writes, Sizing
<1>11. /\ Cardinality(Settled') \in Nat /\ Cardinality(Settled) \in Nat
       /\ q.before = {} => Cardinality(Settled') <= Cardinality(Settled) + 1
       /\ q.before # {} => Cardinality(Settled') <= Cardinality(Settled)
  <2>1. \A x : x \in Settled' <=> x \in Counted(disk) /\ \A p \in Requests : x \notin Beside(request'[p])
    BY <1>3 DEF Settled, Beside, Writes, Kind, Other, Temporary, Counted
  <2>2. \A x : x \in Settled <=> x \in Counted(disk) /\ \A p \in Requests : x \notin Beside(request[p])
    BY DEF Settled
  <2>3. \A p \in Requests : p # r => request'[p] = request[p]
    BY <1>7
  <2>4. Settled' \subseteq Settled \cup Beside(q)
    BY <1>1, <2>1, <2>2, <2>3
  <2>5. IsFiniteSet(Settled) /\ Cardinality(Settled) \in Nat
    BY SettledFinite
  <2>6. IsFiniteSet(Settled \cup {Kind(q)}) /\ Cardinality(Settled \cup {Kind(q)}) <= Cardinality(Settled) + 1
        /\ Cardinality(Settled \cup {Kind(q)}) \in Nat
    <3>1. PICK k : k = Kind(q)
      OBVIOUS
    <3>2. IsFiniteSet(Settled \cup {k})
          /\ Cardinality(Settled \cup {k}) = (IF k \in Settled THEN Cardinality(Settled) ELSE Cardinality(Settled) + 1)
      BY <2>5, FS_AddElement
    <3> QED
      BY <2>5, <3>1, <3>2
  <2>7. CASE q.before = {}
    <3>1. Settled' \subseteq Settled \cup {Kind(q)}
      BY <1>10, <2>4, <2>7
    <3>2. IsFiniteSet(Settled') /\ Cardinality(Settled') <= Cardinality(Settled \cup {Kind(q)})
      BY <2>6, <3>1, FS_Subset
    <3>3. Cardinality(Settled') \in Nat
      BY <3>2, FS_CardinalityType
    <3> QED
      BY <2>5, <2>6, <2>7, <3>2, <3>3
  <2>8. CASE q.before # {}
    <3>1. Settled' \subseteq Settled
      BY <1>10, <2>4, <2>8
    <3> QED
      BY <2>5, <2>8, <3>1, SettledFinite
  <2> QED
    BY <2>7, <2>8
<1>12. SeenInv'
  BY <1>3, <1>7, <1>10 DEF Ceiling, SeenInv, Writes, Kind
<1>13. CountedInv'
  <2>1. ~overlap => \A p \in Requests : Sizing(request'[p]) => Cardinality(Counted(disk')) <= request'[p].files
    BY <1>3, <1>7, <1>10 DEF Ceiling, CountedInv
  <2>2. eviction'.at \in {"remove", "count"} => UNCHANGED eviction
    BY <1>6
  <2> QED
    BY <1>3, <2>1, <2>2 DEF Ceiling, CountedInv, Sizing
<1>14. BookInv'
  <2> SUFFICES ASSUME ~overlap, b # None
               PROVE  /\ Cardinality(Settled') <= b \/ eviction'.at \in {"remove", "count"}
                      /\ b > MaxFiles => eviction' # Ready
    BY <1>3 DEF BookInv, Writes
  <2>1. book # None
    BY <1>8
  <2>2. Cardinality(Settled) <= book \/ eviction.at \in {"remove", "count"}
    BY <1>3, <2>1 DEF Ceiling, BookInv
  <2>3. CASE eviction.at \in {"remove", "count"}
    <3>1. eviction # Ready
      BY <2>3 DEF Ready
    <3> QED
      BY <1>6, <2>3, <3>1
  <2>4. CASE Cardinality(Settled) <= book
    <3>1. Cardinality(Settled') <= b
      BY <1>8, <1>11, <2>1, <2>4
    <3>2. b > MaxFiles => eviction' # Ready
      <4>1. b > MaxFiles => Over(b)
        BY DEF Over
      <4>2. [at |-> "list", by |-> r] # Ready
        BY DEF Ready
      <4> QED
        BY <1>6, <4>1, <4>2
    <3> QED
      BY <3>1, <3>2
  <2> QED
    BY <2>2, <2>3, <2>4
<1>15. OwnInv'
  <2>1. step.at # "own"
    BY <1>6
  <2> QED
    BY <1>3, <1>7, <2>1, OwnStays
<1>16. EvictInv'
  <2>1. CASE Over(b) /\ eviction = Ready
    <3>1. eviction' = [at |-> "list", by |-> r] /\ step.at = "evict"
      BY <1>6, <2>1
    <3>2. \A p \in Requests : request[p].at # "evict"
      BY <1>3, <2>1 DEF EvictInv
    <3>3. eviction' # Ready /\ eviction'.by = r /\ eviction' \in [at : {"list"}, by : Requests \cup {Daily}]
      BY <3>1 DEF Ready
    <3> QED
      BY <1>7, <3>1, <3>2, <3>3 DEF EvictInv, MayEvict
  <2>2. CASE ~(Over(b) /\ eviction = Ready)
    <3>1. UNCHANGED eviction /\ step.at # "evict" /\ q.at # "evict"
      BY <1>3, <1>6, <2>2
    <3> QED
      BY <1>1, <1>3, <1>7, <3>1, EvictStays
  <2> QED
    BY <2>1, <2>2
<1> QED
  BY <1>9, <1>12, <1>13, <1>14, <1>15, <1>16 DEF IconsIInv, IconsCore, Ceiling

(***************************************************************************)
(* Removals                                                                *)
(***************************************************************************)
LEMMA FewerCore ==
    ASSUME IconsCore, UNCHANGED <<clock, locks, request>>, disk' \in [Files -> Times],
           \A f \in Files : disk'[f] \in {None, disk[f]}, book' \in Times, overlap' \in BOOLEAN, clearing' \in BOOLEAN
    PROVE  IconsCore'
<1>1. /\ \A n \in Names, k \in Kinds : <<n, k>> \in Files
      /\ \A p \in Requests : request[p].at \in {"slot", "fetch", "rename", "book"} => request[p].name \in Names /\ Other(request[p]) \in Files
  <2>1. \A n \in Names, k \in Kinds : <<n, k>> \in Files
    BY DEF Files, Kinds
  <2>2. ASSUME NEW p \in Requests, request[p].at \in {"slot", "fetch", "rename", "book"}
        PROVE  request[p].name \in Names /\ Other(request[p]) \in Files
    <3>1. request[p].name \in Names /\ request[p].kind \in Kinds
      BY <2>2, FitsAt DEF IconsCore, IconsTypeOK, Holding
    <3> QED
      BY <3>1, FileFacts
  <2> QED
    BY <2>1, <2>2
<1>2. \A n \in Names, k \in Kinds : disk'[<<n, k>>] \in {None, disk[<<n, k>>]}
  BY <1>1
<1>3. IconsTypeOK'
  BY DEF IconsCore, IconsTypeOK
<1>4. LocksInv'
  BY DEF IconsCore, LocksInv, Works
<1>5. NotThere'
  <2> SUFFICES ASSUME NEW p \in Requests, request[p].at \in {"slot", "fetch"}
               PROVE  ~(CachedIcon(request[p].name))' /\ ~(CachedNone(request[p].name))'
    BY DEF NotThere
  <2>1. ~CachedIcon(request[p].name) /\ ~CachedNone(request[p].name)
    BY DEF IconsCore, NotThere
  <2>2. /\ disk'[<<request[p].name, "png">>] \in {None, disk[<<request[p].name, "png">>]}
        /\ disk'[<<request[p].name, "none">>] \in {None, disk[<<request[p].name, "none">>]}
    BY <1>1, <1>2 DEF Kinds
  <2> QED
    BY <2>1, <2>2 DEF CachedIcon, CachedNone, fresh
<1>6. EitherInv'
  <2>1. /\ \A n \in Cached : disk'[<<n, "png">>] = None \/ disk'[<<n, "none">>] = None
        /\ disk'[<<"drawn", "none">>] = None /\ disk'[<<"library", "none">>] = None
    BY <1>2, NameFacts DEF IconsCore, EitherInv, Kinds
  <2>2. \A p \in Requests : request[p].at \in {"rename", "book"} => disk'[Other(request[p])] = None
    BY <1>1 DEF IconsCore, EitherInv
  <2> QED
    BY <2>1, <2>2 DEF EitherInv, Other
<1> QED
  BY <1>3, <1>4, <1>5, <1>6 DEF IconsCore

LEMMA RemovalFacts ==
    ASSUME IconsTypeOK, NEW gone, disk' = Removal(gone)
    PROVE  /\ disk' \in [Files -> Times] /\ \A f \in Files : disk'[f] = IF f \in gone THEN None ELSE disk[f]
           /\ Counted(disk') = Counted(disk) \ gone
<1>1. disk \in [Files -> Times] /\ None \in Times
  BY DEF IconsTypeOK, Times
<1>2. disk' \in [Files -> Times] /\ \A f \in Files : disk'[f] = IF f \in gone THEN None ELSE disk[f]
  BY <1>1 DEF Removal
<1>3. \A f : f \in Counted(disk') <=> f \in Counted(disk) \ gone
  BY <1>2 DEF Counted
<1> QED
  BY <1>2, <1>3

(* A removal that takes nothing somebody found, seen by those that write   *)
(* and those that count.                                                   *)
LEMMA RemovalCeiling ==
    ASSUME IconsTypeOK, Ceiling, overlap = FALSE, NEW gone, disk' = Removal(gone), NEW removed,
           \A f \in gone : disk[f] # None => f \in removed, ~Sized(removed),
           \A p \in Requests : \/ request'[p] = request[p]
                               \/ ~Writes(request[p]) /\ ~Writes(request'[p]) /\ ~Sizing(request'[p])
    PROVE  /\ SeenInv'
           /\ \A p \in Requests : Sizing(request'[p]) => Cardinality(Counted(disk')) <= request'[p].files
           /\ Cardinality(Settled') \in Nat /\ Cardinality(Settled') <= Cardinality(Settled)
<1>1. /\ disk' \in [Files -> Times] /\ \A f \in Files : disk'[f] = IF f \in gone THEN None ELSE disk[f]
      /\ Counted(disk') = Counted(disk) \ gone
  BY RemovalFacts
<1>2. SeenInv'
  <2> SUFFICES ASSUME NEW p \in Requests, Writes(request'[p])
               PROVE  /\ request'[p].at = "replace" => \A f \in request'[p].before : disk'[f] # None
                      /\ request'[p].at = "rename" /\ request'[p].before = {Kind(request'[p])} => disk'[Kind(request'[p])] # None
    BY DEF SeenInv, Writes, Kind
  <2>1. request'[p] = request[p] /\ Writes(request[p])
    OBVIOUS
  <2>2. request[p].name \in Names /\ request[p].kind \in Kinds /\ request[p].before \in {{}, {Kind(request[p])}, {Other(request[p])}}
    BY <2>1, FitsAt DEF IconsTypeOK, Writes, Holding
  <2>3. request[p].before \subseteq Files /\ Kind(request[p]) \in Files
    BY <2>2, FileFacts
  <2>4. \A f \in request[p].before : disk[f] # None => f \notin gone
    BY <2>1 DEF Sized
  <2>5. /\ request[p].at = "replace" => \A f \in request[p].before : disk[f] # None
        /\ request[p].at = "rename" /\ request[p].before = {Kind(request[p])} => disk[Kind(request[p])] # None
    BY <2>1 DEF Ceiling, SeenInv
  <2> QED
    BY <1>1, <2>1, <2>3, <2>4, <2>5
<1>3. ASSUME NEW p \in Requests, Sizing(request'[p])
      PROVE  Cardinality(Counted(disk')) <= request'[p].files
  <2>1. request'[p] = request[p] /\ Fits(request[p])
    BY <1>3 DEF IconsTypeOK
  <2>2. request[p].files \in Nat
    BY <1>3, <2>1, FitsAt DEF Sizing, Holding, Times
  <2>3. Cardinality(Counted(disk)) <= request[p].files
    BY <1>3, <2>1 DEF Ceiling, CountedInv
  <2>4. /\ Cardinality(Counted(disk)) \in Nat /\ Cardinality(Counted(disk')) \in Nat
        /\ Cardinality(Counted(disk')) <= Cardinality(Counted(disk))
    <3>1. Counted(disk') \subseteq Counted(disk)
      BY <1>1
    <3> QED
      BY <3>1, CountedFinite
  <2> QED
    BY <2>1, <2>2, <2>3, <2>4
<1>4. \A p \in Requests : Beside(request'[p]) = Beside(request[p])
  BY DEF Beside
<1>5. \A f \in Files : disk'[f] \in {None, disk[f]}
  BY <1>1
<1> QED
  BY <1>2, <1>3, <1>4, <1>5, SettledShrinks

LEMMA OwnFrame ==
    ASSUME OwnInv, UNCHANGED <<request, item>>
    PROVE  OwnInv'
BY DEF OwnInv, KeyIsOwners

LEMMA CountedListed ==
    /\ Counted(disk) \subseteq Cached \X {"png", "none", "tmp"}
    /\ \A L \in SUBSET (Cached \X {"png", "none", "tmp"}) : IsFiniteSet(L)
<1>1. Counted(disk) \subseteq Cached \X {"png", "none", "tmp"}
  BY DEF Counted, Files
<1>2. ASSUME NEW L \in SUBSET (Cached \X {"png", "none", "tmp"})
      PROVE  IsFiniteSet(L)
  <2>1. PICK d : d = [f \in Files |-> "here"]
    OBVIOUS
  <2>2. "here" # None \/ "gone" # None
    OBVIOUS
  <2>3. PICK e : e \in {[f \in Files |-> "here"], [f \in Files |-> "gone"]} /\ \A f \in Files : e[f] # None
    <3>1. CASE "here" # None
      BY <3>1
    <3>2. CASE "gone" # None
      BY <3>2
    <3> QED
      BY <2>2, <3>1, <3>2
  <2>4. L \subseteq Counted(e)
    <3>1. \A f \in L : f \in Files /\ f[1] \in Cached
      BY NameFacts DEF Files
    <3> QED
      BY <2>3, <3>1 DEF Counted
  <2> QED
    BY <2>4, CountedFinite
<1> QED
  BY <1>1, <1>2

LEMMA ListFilesStep ==
    ASSUME IconsIInv, ListFiles
    PROVE  IconsIInv'
<1>1. PICK expired : expired = {f \in Counted(disk) : Expired(f)}
  OBVIOUS
<1>2. /\ eviction.at = "list" /\ disk' = Removal(expired)
      /\ eviction' = [at |-> "remove", by |-> eviction.by, listed |-> Counted(disk) \ expired, when |-> disk]
      /\ overlap' = (Sized(expired) \/ (overlap /\ \E p \in Requests : Sizing(request[p]) \/ Writes(request[p])))
      /\ UNCHANGED <<clock, book, locks, request, clearing, item>>
      /\ IconsCore /\ Ceiling /\ OwnInv /\ EvictInv /\ IconsTypeOK
  BY <1>1 DEF ListFiles, Removal, IconsIInv, IconsCore, Ceiling
<1>3. /\ disk' \in [Files -> Times] /\ \A f \in Files : disk'[f] = IF f \in expired THEN None ELSE disk[f]
      /\ Counted(disk') = Counted(disk) \ expired
  BY <1>2, RemovalFacts
<1>4. IconsCore'
  <2>1. overlap' \in BOOLEAN
    BY <1>2 DEF Sized, IconsTypeOK
  <2>2. \A f \in Files : disk'[f] \in {None, disk[f]}
    BY <1>3
  <2> QED
    BY <1>2, <1>3, <2>1, <2>2, FewerCore DEF IconsTypeOK
<1>5. eviction'.at = "remove" /\ eviction' # Ready /\ eviction'.listed = Counted(disk') /\ eviction'.by = eviction.by
  BY <1>2, <1>3 DEF Ready
<1>6. EvictInv'
  <2>1. eviction # Ready /\ eviction.by \in Requests \cup {Daily}
    BY <1>2 DEF EvictInv, MayEvict, Ready
  <2>2. Counted(disk) \ expired \in SUBSET (Cached \X {"png", "none", "tmp"}) /\ disk \in [Files -> Times]
    BY <1>2, CountedListed DEF IconsTypeOK
  <2>3. eviction' \in [at : {"remove"}, by : Requests \cup {Daily}, listed : SUBSET (Cached \X {"png", "none", "tmp"}),
                       when : [Files -> Times]]
    BY <1>2, <2>1, <2>2
  <2> QED
    BY <1>2, <1>5, <2>1, <2>3 DEF EvictInv, MayEvict
<1>7. BookInv'
  BY <1>5 DEF BookInv
<1>8. SeenInv' /\ CountedInv'
  <2>1. CASE overlap'
    <3>1. overlap' = TRUE
      BY <1>2, <2>1 DEF Sized
    <3> QED
      BY <3>1, Overlapped DEF Ceiling
  <2>2. CASE ~overlap' /\ ~overlap
    <3>1. ~Sized({f \in expired : disk[f] # None})
      <4>1. {f \in expired : disk[f] # None} = expired
        BY <1>1 DEF Counted
      <4> QED
        BY <1>2, <2>2, <4>1
    <3>2. /\ SeenInv' /\ \A p \in Requests : Sizing(request'[p]) => Cardinality(Counted(disk')) <= request'[p].files
      <4>1. \A p \in Requests : request'[p] = request[p]
        BY <1>2
      <4>2. PICK removed : removed = {f \in expired : disk[f] # None}
        OBVIOUS
      <4>3. ~Sized(removed) /\ overlap = FALSE
        BY <1>2, <2>2, <3>1, <4>2 DEF IconsTypeOK
      <4>4. \A f \in expired : disk[f] # None => f \in removed
        BY <4>2
      <4>5. IconsTypeOK /\ Ceiling /\ disk' = Removal(expired)
        BY <1>2
      <4> QED
        BY <4>1, <4>3, <4>4, <4>5, RemovalCeiling
    <3> QED
      BY <1>5, <3>2 DEF CountedInv, Sizing
  <2>3. CASE ~overlap' /\ overlap
    <3>1. \A p \in Requests : ~Sizing(request'[p]) /\ ~Writes(request'[p])
      BY <1>2, <2>3
    <3> QED
      BY <1>5, <3>1 DEF CountedInv, SeenInv, Sizing, Writes
  <2> QED
    BY <2>1, <2>2, <2>3
<1> QED
  BY <1>2, <1>4, <1>6, <1>7, <1>8, OwnFrame DEF IconsIInv, IconsCore

(* What goes, and what it leaves.                                          *)
LEMMA OldestFacts ==
    ASSUME NEW L \in SUBSET (Cached \X {"png", "none", "tmp"}), NEW d, NEW gone \in Oldest(L, d)
    PROVE  /\ gone \subseteq L /\ Cardinality(L \ gone) \in Nat /\ Cardinality(L \ gone) <= AfterEviction
           /\ Cardinality(gone) \in Nat /\ Cardinality(L) \in Nat /\ Cardinality(L \ gone) = Cardinality(L) - Cardinality(gone)
           /\ IsFiniteSet(L) /\ IsFiniteSet(gone)
<1>1. IsFiniteSet(L) /\ gone \subseteq L
  BY CountedListed DEF Oldest
<1>2. IsFiniteSet(gone) /\ IsFiniteSet(L \ gone) /\ Cardinality(L) \in Nat /\ Cardinality(gone) \in Nat /\ Cardinality(L \ gone) \in Nat
  BY <1>1, FS_Subset, FS_CardinalityType
<1>3. Cardinality(L \ gone) = Cardinality(L) - Cardinality(L \cap gone) /\ L \cap gone = gone
  BY <1>1, FS_Difference
<1>4. Cardinality(L \ gone) = IF Cardinality(L) > AfterEviction THEN AfterEviction ELSE Cardinality(L)
  BY DEF Oldest
<1>5. AfterEviction \in Nat
  BY IconsBounds
<1>6. Cardinality(L \ gone) <= AfterEviction
  BY <1>2, <1>4, <1>5
<1> QED
  BY <1>1, <1>2, <1>3, <1>6

LEMMA RemoveOldestStep ==
    ASSUME IconsIInv, RemoveOldest
    PROVE  IconsIInv'
<1>1. PICK gone \in Oldest(eviction.listed, eviction.when) :
          /\ disk' = Removal(gone) /\ overlap' = (overlap \/ Sized({f \in gone : disk[f] # None}))
          /\ eviction' = [at |-> "count", by |-> eviction.by,
                          left |-> Cardinality(eviction.listed) - Cardinality({f \in gone : disk[f] # None})]
  BY DEF RemoveOldest
<1>2. PICK removed : removed = {f \in gone : disk[f] # None}
  OBVIOUS
<1>3. /\ eviction.at = "remove" /\ UNCHANGED <<clock, book, locks, request, clearing, item>>
      /\ IconsCore /\ Ceiling /\ OwnInv /\ EvictInv /\ IconsTypeOK
  BY DEF RemoveOldest, IconsIInv, IconsCore, Ceiling
<1>4. eviction.by \in Requests \cup {Daily} /\ eviction.listed \in SUBSET (Cached \X {"png", "none", "tmp"}) /\ eviction # Ready
  BY <1>3 DEF EvictInv, MayEvict, Ready
<1>5. PICK L : L = eviction.listed
  OBVIOUS
<1>6. /\ gone \subseteq L /\ Cardinality(L \ gone) \in Nat /\ Cardinality(L \ gone) <= AfterEviction
      /\ Cardinality(gone) \in Nat /\ Cardinality(L) \in Nat /\ Cardinality(L \ gone) = Cardinality(L) - Cardinality(gone)
      /\ IsFiniteSet(L) /\ IsFiniteSet(gone)
  BY <1>1, <1>4, <1>5, OldestFacts
<1>7. PICK left : left = Cardinality(L) - Cardinality(removed)
  OBVIOUS
<1>8. left \in Nat /\ Cardinality(L \ gone) <= left
  <2>1. removed \subseteq gone
    BY <1>2
  <2>2. Cardinality(removed) \in Nat /\ Cardinality(removed) <= Cardinality(gone)
    BY <1>6, <2>1, FS_Subset, FS_CardinalityType
  <2> QED
    BY <1>6, <1>7, <2>2
<1>9. eviction' = [at |-> "count", by |-> eviction.by, left |-> left]
  BY <1>1, <1>2, <1>5, <1>7
<1>10. eviction'.at = "count" /\ eviction'.by = eviction.by /\ eviction'.left = left /\ eviction' # Ready
  BY <1>9 DEF Ready
<1>11. /\ disk' \in [Files -> Times] /\ \A f \in Files : disk'[f] = IF f \in gone THEN None ELSE disk[f]
       /\ Counted(disk') = Counted(disk) \ gone
  BY <1>1, <1>3, RemovalFacts
<1>12. IconsCore'
  <2>1. overlap' \in BOOLEAN
    BY <1>1, <1>3 DEF Sized, IconsTypeOK
  <2>2. \A f \in Files : disk'[f] \in {None, disk[f]}
    BY <1>11
  <2> QED
    BY <1>3, <1>11, <2>1, <2>2, FewerCore DEF IconsTypeOK
<1>13. EvictInv'
  <2>1. eviction' \in [at : {"count"}, by : Requests \cup {Daily}, left : Nat]
    BY <1>4, <1>8, <1>9
  <2> QED
    BY <1>3, <1>4, <1>10, <2>1 DEF EvictInv, MayEvict
<1>14. BookInv'
  BY <1>10 DEF BookInv
<1>15. SeenInv' /\ CountedInv'
  <2>1. CASE overlap'
    <3>1. overlap' = TRUE
      BY <1>12, <2>1 DEF IconsCore, IconsTypeOK
    <3> QED
      BY <3>1, Overlapped DEF Ceiling
  <2>2. CASE ~overlap'
    <3>1. ~overlap /\ ~Sized({f \in gone : disk[f] # None})
      BY <1>1, <2>2
    <3>2. /\ SeenInv' /\ \A p \in Requests : Sizing(request'[p]) => Cardinality(Counted(disk')) <= request'[p].files
      <4>1. \A p \in Requests : request'[p] = request[p]
        BY <1>3
      <4>2. ~Sized(removed) /\ overlap = FALSE
        BY <1>2, <1>3, <3>1 DEF IconsTypeOK
      <4>3. \A f \in gone : disk[f] # None => f \in removed
        BY <1>2
      <4>4. IconsTypeOK /\ Ceiling /\ disk' = Removal(gone)
        BY <1>1, <1>3
      <4> QED
        BY <4>1, <4>2, <4>3, <4>4, RemovalCeiling
    <3>3. Counted(disk') \subseteq L \ gone
      BY <1>3, <1>5, <1>11, <3>1 DEF Ceiling, CountedInv
    <3>4. IsFiniteSet(L \ gone)
      BY <1>6, FS_Subset
    <3>5. Cardinality(Counted(disk')) <= Cardinality(L \ gone) /\ Cardinality(Counted(disk')) \in Nat
      BY <3>3, <3>4, FS_Subset, CountedFinite
    <3>6. Cardinality(Counted(disk')) <= left /\ Cardinality(Counted(disk')) <= AfterEviction
      BY <1>6, <1>8, <3>5, IconsBounds
    <3> QED
      BY <1>10, <3>2, <3>6 DEF CountedInv, Sizing
  <2> QED
    BY <2>1, <2>2
<1> QED
  BY <1>3, <1>12, <1>13, <1>14, <1>15, OwnFrame DEF IconsIInv, IconsCore

LEMMA RecountStep ==
    ASSUME IconsIInv, Recount
    PROVE  IconsIInv'
<1>1. /\ eviction.at = "count" /\ book' = eviction.left /\ eviction' = Ready
      /\ IF eviction.by \in Requests THEN Does(eviction.by, Kept(eviction.by)) ELSE UNCHANGED request
      /\ UNCHANGED <<clock, disk, locks, clearing, overlap, item>>
      /\ IconsCore /\ Ceiling /\ OwnInv /\ EvictInv /\ IconsTypeOK
  BY DEF Recount, IconsIInv, IconsCore, Ceiling
<1>2. eviction # Ready /\ eviction.left \in Nat /\ eviction.by \in Requests \cup {Daily} /\ Ready.at = "idle"
  BY <1>1 DEF EvictInv, MayEvict, Ready
<1>3. PICK by : by = eviction.by
  OBVIOUS
<1>4. /\ IconsCore'
      /\ \A p \in Requests : IF p = by THEN request[p].at = "evict" /\ request'[p].at \in {"idle", "look"} ELSE request'[p] = request[p]
  <2>1. disk' \in [Files -> Times] /\ book' \in Times /\ overlap' \in BOOLEAN /\ clearing' \in BOOLEAN
        /\ \A f \in Files : disk'[f] \in {None, disk[f]}
    BY <1>1, <1>2 DEF IconsTypeOK, Times
  <2>2. CASE by \in Requests
    <3>1. PICK step : step = Kept(by)
      OBVIOUS
    <3>2. Fits(step) /\ step.at \in {"idle", "look"} /\ Does(by, step)
      BY <1>1, <1>3, <2>2, <3>1, KeptFits
    <3>3. \A p \in Requests : request'[p] = IF p = by THEN step ELSE request[p]
      BY <1>1, <2>2, <3>2, IconSteps
    <3>4. request[by].at = "evict"
      BY <1>1, <1>2, <1>3, <2>2 DEF EvictInv
    <3>5. IconsCore'
      BY <1>1, <2>1, <2>2, <3>2, LeavesCore
    <3> QED
      BY <2>2, <3>2, <3>3, <3>4, <3>5
  <2>3. CASE by \notin Requests
    <3>1. UNCHANGED request
      BY <1>1, <1>3, <2>3
    <3>2. IconsCore'
      BY <1>1, <2>1, <3>1, FewerCore
    <3> QED
      BY <2>3, <3>1, <3>2
  <2> QED
    BY <2>2, <2>3
<1>5. \A p \in Requests : p = by => /\ Beside(request'[p]) = {} /\ Beside(request[p]) = {} /\ ~Writes(request'[p]) /\ ~Writes(request[p])
                                    /\ ~Sizing(request'[p])
  BY <1>4 DEF Beside, Writes, Sizing
<1>6. /\ Cardinality(Settled') \in Nat /\ Cardinality(Settled') <= Cardinality(Settled)
      /\ Cardinality(Settled) <= Cardinality(Counted(disk)) /\ Cardinality(Settled) \in Nat /\ Cardinality(Counted(disk)) \in Nat
  <2>1. \A f \in Files : disk'[f] \in {None, disk[f]}
    BY <1>1
  <2>2. \A p \in Requests : Beside(request'[p]) = Beside(request[p])
    BY <1>4, <1>5
  <2> QED
    BY <2>1, <2>2, SettledShrinks, SettledFinite, CountedFinite
<1>7. SeenInv'
  BY <1>1, <1>4, <1>5 DEF Ceiling, SeenInv, Writes, Kind
<1>8. CountedInv'
  BY <1>1, <1>2, <1>4, <1>5 DEF Ceiling, CountedInv, Sizing, Counted
<1>9. BookInv'
  <2> SUFFICES ASSUME ~overlap
               PROVE  Cardinality(Settled') <= eviction.left /\ Cardinality(Settled') <= MaxFiles
    BY <1>1 DEF BookInv
  <2>1. Cardinality(Counted(disk)) <= eviction.left /\ Cardinality(Counted(disk)) <= AfterEviction
    BY <1>1 DEF Ceiling, CountedInv
  <2>2. AfterEviction \in Nat /\ MaxFiles \in Nat /\ AfterEviction <= MaxFiles
    BY IconsBounds
  <2> QED
    BY <1>2, <1>6, <2>1, <2>2
<1>10. EvictInv'
  <2>1. \A p \in Requests : p # by => request[p].at # "evict"
    BY <1>1, <1>3 DEF EvictInv
  <2>2. \A p \in Requests : request'[p].at # "evict"
    BY <1>4, <2>1
  <2> QED
    BY <1>1, <2>2 DEF EvictInv, MayEvict
<1>11. OwnInv'
  BY <1>1, <1>4 DEF OwnInv, KeyIsOwners
<1> QED
  BY <1>4, <1>7, <1>8, <1>9, <1>10, <1>11 DEF IconsIInv, IconsCore

LEMMA DailyEvictStep ==
    ASSUME IconsIInv, DailyEvict
    PROVE  IconsIInv'
<1>1. /\ eviction.at = "idle" /\ eviction' = [at |-> "list", by |-> Daily]
      /\ UNCHANGED <<clock, disk, book, locks, request, clearing, overlap, item>>
      /\ IconsCore /\ Ceiling /\ OwnInv /\ EvictInv /\ IconsTypeOK
  BY DEF DailyEvict, IconsIInv, IconsCore, Ceiling
<1>2. eviction = Ready /\ eviction' # Ready /\ eviction'.by = Daily /\ eviction'.at = "list"
      /\ eviction' \in [at : {"list"}, by : Requests \cup {Daily}]
  BY <1>1 DEF EvictInv, MayEvict, Ready
<1>3. IconsCore'
  BY <1>1, FewerCore DEF IconsTypeOK
<1>4. SeenInv'
  BY <1>1 DEF Ceiling, SeenInv, Writes, Kind
<1>5. CountedInv'
  BY <1>1, <1>2 DEF Ceiling, CountedInv, Sizing, Counted
<1>6. BookInv'
  <2>1. Settled' = Settled
    BY <1>1 DEF Settled, Beside, Writes, Kind, Other, Temporary, Counted
  <2>2. eviction.at \notin {"remove", "count"}
    BY <1>1
  <2> QED
    BY <1>1, <1>2, <2>1, <2>2 DEF Ceiling, BookInv
<1>7. EvictInv'
  <2>1. \A p \in Requests : request[p].at # "evict"
    BY <1>1, <1>2 DEF EvictInv
  <2> QED
    BY <1>1, <1>2, <2>1, DailyApart DEF EvictInv, MayEvict
<1> QED
  BY <1>1, <1>3, <1>4, <1>5, <1>6, <1>7, OwnFrame DEF IconsIInv, IconsCore

LEMMA ClearStep ==
    ASSUME IconsIInv, Clear
    PROVE  IconsIInv'
<1>1. PICK gone : gone = {f \in Files : f[1] \in Cached}
  OBVIOUS
<1>2. /\ disk' = Removal(gone) /\ overlap' = (overlap \/ Sized(Counted(disk)))
      /\ UNCHANGED <<clock, book, locks, request, eviction, item>> /\ clearing' \in BOOLEAN
      /\ IconsCore /\ Ceiling /\ OwnInv /\ EvictInv /\ IconsTypeOK
  <2>1. disk' = Removal(gone)
    BY <1>1 DEF Clear, Removal
  <2> QED
    BY <2>1 DEF Clear, IconsIInv, IconsCore, Ceiling
<1>3. /\ disk' \in [Files -> Times] /\ \A f \in Files : disk'[f] = IF f \in gone THEN None ELSE disk[f]
      /\ Counted(disk') = Counted(disk) \ gone
  BY <1>2, RemovalFacts
<1>4. IconsCore'
  <2>1. overlap' \in BOOLEAN
    BY <1>2 DEF Sized, IconsTypeOK
  <2>2. \A f \in Files : disk'[f] \in {None, disk[f]}
    BY <1>3
  <2> QED
    BY <1>2, <1>3, <2>1, <2>2, FewerCore DEF IconsTypeOK
<1>5. EvictInv'
  BY <1>2 DEF EvictInv, MayEvict
<1>6. CASE overlap'
  <2>1. overlap' = TRUE
    BY <1>4, <1>6 DEF IconsCore, IconsTypeOK
  <2> QED
    BY <1>2, <1>4, <1>5, <2>1, Overlapped, OwnFrame DEF IconsIInv, IconsCore, Ceiling
<1>7. CASE ~overlap'
  <2>1. ~overlap /\ ~Sized({f \in gone : disk[f] # None})
    <3>1. {f \in gone : disk[f] # None} = Counted(disk)
      BY <1>1 DEF Counted
    <3> QED
      BY <1>2, <1>7, <3>1
  <2>2. \A p \in Requests : request'[p] = request[p]
    BY <1>2
  <2>3. /\ SeenInv' /\ \A p \in Requests : Sizing(request'[p]) => Cardinality(Counted(disk')) <= request'[p].files
        /\ Cardinality(Settled') \in Nat /\ Cardinality(Settled') <= Cardinality(Settled)
    <3>1. PICK removed : removed = {f \in gone : disk[f] # None}
      OBVIOUS
    <3>2. ~Sized(removed) /\ overlap = FALSE
      BY <1>2, <2>1, <3>1 DEF IconsTypeOK
    <3>3. \A f \in gone : disk[f] # None => f \in removed
      BY <3>1
    <3>4. IconsTypeOK /\ Ceiling /\ disk' = Removal(gone)
      BY <1>2
    <3> QED
      BY <2>2, <3>2, <3>3, <3>4, RemovalCeiling
  <2>4. /\ Cardinality(Counted(disk)) \in Nat /\ Cardinality(Counted(disk')) \in Nat
        /\ Cardinality(Counted(disk')) <= Cardinality(Counted(disk)) /\ Counted(disk') \subseteq Counted(disk)
    <3>1. Counted(disk') \subseteq Counted(disk)
      BY <1>3
    <3> QED
      BY <3>1, CountedFinite
  <2>5. CountedInv'
    <3>1. eviction.at = "remove" => Counted(disk) \subseteq eviction.listed
      BY <1>2, <2>1 DEF Ceiling, CountedInv
    <3>2. eviction.at = "count" => Cardinality(Counted(disk)) <= eviction.left /\ Cardinality(Counted(disk)) <= AfterEviction
      BY <1>2, <2>1 DEF Ceiling, CountedInv
    <3>3. eviction.at = "count" => eviction.left \in Nat
      BY <1>2 DEF EvictInv, MayEvict, Ready
    <3>4. AfterEviction \in Nat
      BY IconsBounds
    <3>5. eviction.at = "remove" => Counted(disk') \subseteq eviction.listed
      BY <2>4, <3>1
    <3>6. eviction.at = "count" => Cardinality(Counted(disk')) <= eviction.left /\ Cardinality(Counted(disk')) <= AfterEviction
      BY <2>4, <3>2, <3>3, <3>4
    <3> QED
      BY <1>2, <2>3, <3>5, <3>6 DEF CountedInv, Sizing
  <2>6. BookInv'
    <3> SUFFICES ASSUME book # None
                 PROVE  /\ Cardinality(Settled') <= book \/ eviction.at \in {"remove", "count"}
                        /\ book > MaxFiles => \/ Cardinality(Settled') <= MaxFiles \/ eviction # Ready
                                              \/ \E p \in Requests : Writes(request[p])
      BY <1>2 DEF BookInv, Writes
    <3>1. book \in Nat /\ Cardinality(Settled) \in Nat /\ MaxFiles \in Nat
      BY <1>2, SettledFinite, IconsBounds DEF IconsTypeOK, Times
    <3>2. /\ Cardinality(Settled) <= book \/ eviction.at \in {"remove", "count"}
          /\ book > MaxFiles => \/ Cardinality(Settled) <= MaxFiles \/ eviction # Ready
                                \/ \E p \in Requests : Writes(request[p])
      BY <1>2, <2>1 DEF Ceiling, BookInv
    <3> QED
      BY <2>3, <3>1, <3>2
  <2> QED
    BY <1>2, <1>4, <1>5, <2>3, <2>5, <2>6, OwnFrame DEF IconsIInv, IconsCore
<1> QED
  BY <1>6, <1>7

LEMMA ClearBookStep ==
    ASSUME IconsIInv, ClearBook
    PROVE  IconsIInv'
<1>1. /\ book' = None /\ clearing' = FALSE /\ UNCHANGED <<clock, disk, locks, request, eviction, overlap, item>>
      /\ IconsCore /\ Ceiling /\ OwnInv /\ EvictInv /\ IconsTypeOK
  BY DEF ClearBook, IconsIInv, IconsCore, Ceiling
<1>2. IconsCore'
  <2>1. /\ disk' \in [Files -> Times] /\ book' \in Times /\ overlap' \in BOOLEAN /\ clearing' \in BOOLEAN
        /\ \A f \in Files : disk'[f] \in {None, disk[f]}
    BY <1>1 DEF IconsTypeOK, Times
  <2> QED
    BY <1>1, <2>1, FewerCore
<1>3. SeenInv'
  BY <1>1 DEF Ceiling, SeenInv, Writes, Kind
<1>4. CountedInv'
  BY <1>1 DEF Ceiling, CountedInv, Sizing, Counted
<1>5. BookInv'
  BY <1>1 DEF BookInv
<1>6. EvictInv'
  BY <1>1 DEF EvictInv, MayEvict
<1> QED
  BY <1>1, <1>2, <1>3, <1>4, <1>5, <1>6, OwnFrame DEF IconsIInv, IconsCore

(***************************************************************************)
(* The item, and the end of a request                                      *)
(***************************************************************************)
LEMMA PutOwnIconStep ==
    ASSUME IconsIInv, NEW r \in Requests, PutOwnIcon(r)
    PROVE  IconsIInv'
<1>1. /\ request[r].at = "own" /\ Does(r, Ready) /\ item' = [item EXCEPT !.own = request[r].key]
      /\ UNCHANGED <<clock, disk, book, locks, eviction, clearing, overlap>>
      /\ IconsCore /\ Ceiling /\ OwnInv /\ EvictInv /\ IconsTypeOK
  BY DEF PutOwnIcon, ownRest, IconsIInv, IconsCore, Ceiling
<1>2. PICK step : step = Ready
  OBVIOUS
<1>3. Fits(step) /\ step.at = "idle" /\ Does(r, step) /\ ~Writes(step) /\ ~Sizing(step) /\ ~Writes(request[r])
  BY <1>1, <1>2, FitsReady DEF Writes, Sizing
<1>4. \A p \in Requests : request'[p] = IF p = r THEN step ELSE request[p]
  BY <1>1, <1>3, IconSteps
<1>5. IconsCore'
  <2>1. /\ disk' \in [Files -> Times] /\ book' \in Times /\ overlap' \in BOOLEAN /\ clearing' \in BOOLEAN
        /\ \A f \in Files : disk'[f] \in {None, disk[f]}
    BY <1>1 DEF IconsTypeOK
  <2> QED
    BY <1>1, <1>3, <2>1, LeavesCore
<1>6. Ceiling'
  BY <1>1, <1>3, <1>4, CeilingStays DEF IconsTypeOK
<1>7. EvictInv'
  BY <1>1, <1>3, <1>4, EvictStays
<1>8. OwnInv'
  BY <1>1, <1>3, <1>4 DEF OwnInv, KeyIsOwners
<1> QED
  BY <1>5, <1>6, <1>7, <1>8 DEF IconsIInv, IconsCore, Ceiling

LEMMA IconsFrame ==
    ASSUME IconsIInv, UNCHANGED <<clock, disk, book, locks, request, eviction, clearing, overlap>>, OwnInv'
    PROVE  IconsIInv'
<1>1. IconsCore' /\ EvictInv'
  <2>1. IconsCore /\ IconsTypeOK
    BY DEF IconsIInv, IconsCore
  <2>2. /\ disk' \in [Files -> Times] /\ book' \in Times /\ overlap' \in BOOLEAN /\ clearing' \in BOOLEAN
        /\ \A f \in Files : disk'[f] \in {None, disk[f]}
    BY <2>1 DEF IconsTypeOK
  <2>3. EvictInv'
    BY DEF IconsIInv, EvictInv, MayEvict
  <2> QED
    BY <2>1, <2>2, <2>3, FewerCore
<1>2. SeenInv' /\ CountedInv'
  BY DEF IconsIInv, SeenInv, CountedInv, Writes, Kind, Sizing, Counted
<1>3. BookInv'
  <2>1. Settled' = Settled
    BY DEF Settled, Beside, Writes, Kind, Other, Temporary, Counted
  <2> QED
    BY <2>1 DEF IconsIInv, BookInv, Writes
<1> QED
  BY <1>1, <1>2, <1>3 DEF IconsIInv, IconsCore

LEMMA ItemStep ==
    ASSUME IconsIInv, Share \/ DeleteExtrasKey \/ OwnDelete
    PROVE  IconsIInv'
<1>1. OwnInv /\ UNCHANGED <<clock, disk, book, locks, request, eviction, clearing, overlap>>
  BY DEF Share, DeleteExtrasKey, OwnDelete, ownRest, IconsIInv
<1>2. CASE Share
  <2>1. DOMAIN item' = {"shared", "own", "raced"} /\ item'.own = None /\ item'.raced = (\E r \in Requests : request[r].at = "own")
    BY <1>1, <1>2 DEF Share, OwnInv
  <2>2. KeyIsOwners'
    BY <2>1, IconsNone DEF KeyIsOwners
  <2>3. \A r \in Requests : request'[r].at = "own" => item'.raced
    BY <1>1, <2>1
  <2>4. OwnInv'
    BY <2>1, <2>2, <2>3 DEF OwnInv
  <2> QED
    BY <1>1, <2>4, IconsFrame
<1>3. CASE DeleteExtrasKey \/ OwnDelete
  <2>1. DOMAIN item' = {"shared", "own", "raced"} /\ item'.own \in {None, item.own} /\ item'.raced = item.raced /\ item'.shared = item.shared
    BY <1>1, <1>3 DEF DeleteExtrasKey, OwnDelete, OwnInv
  <2>2. OwnInv'
    BY <1>1, <2>1, IconsNone DEF OwnInv, KeyIsOwners
  <2> QED
    BY <1>1, <2>2, IconsFrame
<1> QED
  BY <1>2, <1>3

(* Who hangs up: the rename or the removals that another thread does for   *)
(* it happen or not.                                                       *)
LEMMA IconHangsUpStep ==
    ASSUME IconsIInv, NEW r \in Requests, IconHangsUp(r)
    PROVE  IconsIInv'
<1>1. PICK q : q = request[r]
  OBVIOUS
<1>2. /\ q # Ready /\ Does(r, Ready) /\ UNCHANGED <<clock, book, locks, clearing, item>> /\ Fits(q)
      /\ IconsCore /\ Ceiling /\ OwnInv /\ EvictInv /\ IconsTypeOK
  BY <1>1 DEF IconHangsUp, IconsIInv, IconsCore, IconsTypeOK, Ceiling
<1>3. PICK step : step = Ready
  OBVIOUS
<1>4. Fits(step) /\ step.at = "idle" /\ Does(r, step) /\ ~Writes(step) /\ ~Sizing(step) /\ ~Works(step)
  BY <1>2, <1>3, FitsReady DEF Writes, Sizing, Works, Holding
<1>5. \A p \in Requests : request'[p] = IF p = r THEN step ELSE request[p]
  BY <1>2, <1>4, IconSteps
<1>6. OwnInv'
  BY <1>2, <1>4, <1>5, OwnStays
<1>7. CASE q.at = "rename"
  <2>1. /\ disk' \in {disk, IF request[r].name = "library" THEN [disk EXCEPT ![Kind(request[r])] = clock] ELSE Renamed(request[r])}
        /\ overlap' = TRUE /\ UNCHANGED eviction
    BY <1>1, <1>7 DEF IconHangsUp
  <2>2. /\ disk' \in [Files -> Times]
        /\ \A n \in Cached : disk'[<<n, "png">>] = None \/ disk'[<<n, "none">>] = None
        /\ disk'[<<"drawn", "none">>] = None /\ disk'[<<"library", "none">>] = None
        /\ \A p \in Requests \ {r} : request[p].at \in {"slot", "fetch"} =>
                  \A k \in Kinds : disk'[<<request[p].name, k>>] \in {None, disk[<<request[p].name, k>>]}
        /\ \A p \in Requests \ {r} : request[p].at \in {"rename", "book"} => disk'[Other(request[p])] = None
    BY <1>1, <1>2, <1>7, <2>1, RenameFacts
  <2>3. /\ book' \in Times /\ overlap' \in BOOLEAN /\ clearing' \in BOOLEAN
        /\ DOMAIN locks' = Names /\ \A n \in Names : locks'[n] \in LocksOf(n) \cup {None}
    BY <1>2, <2>1 DEF IconsTypeOK
  <2>4. \A p \in Requests \ {r} : Works(request[p]) => locks'[request[p].name] = request[p].lock
    BY <1>2 DEF IconsCore, LocksInv
  <2>5. IconsCore'
    BY <1>2, <1>4, <2>2, <2>3, <2>4, CoreStep
  <2>6. EvictInv'
    BY <1>1, <1>2, <1>4, <1>5, <1>7, <2>1, EvictStays
  <2> QED
    BY <1>6, <2>1, <2>5, <2>6, Overlapped DEF IconsIInv, IconsCore, Ceiling
<1>8. CASE q.at = "evict"
  <2>1. PICK gone \in Orphaned :
           /\ disk' = Removal(gone) /\ eviction' = Ready
           /\ overlap' = (overlap \/ Sized({f \in gone : disk[f] # None}) \/ (book # None /\ ~Over(book)))
    BY <1>1, <1>8 DEF IconHangsUp
  <2>2. PICK removed : removed = {f \in gone : disk[f] # None}
    OBVIOUS
  <2>3. eviction # Ready /\ eviction.by = r
    BY <1>1, <1>2, <1>8 DEF EvictInv
  <2>4. /\ disk' \in [Files -> Times] /\ \A f \in Files : disk'[f] = IF f \in gone THEN None ELSE disk[f]
        /\ Counted(disk') = Counted(disk) \ gone
    BY <1>2, <2>1, RemovalFacts
  <2>5. IconsCore'
    <3>1. overlap' \in BOOLEAN
      BY <1>2, <2>1 DEF Sized, Over, IconsTypeOK
    <3>2. \A f \in Files : disk'[f] \in {None, disk[f]}
      BY <2>4
    <3>3. book' \in Times /\ clearing' \in BOOLEAN
      BY <1>2 DEF IconsTypeOK
    <3> QED
      BY <1>2, <1>4, <2>4, <3>1, <3>2, <3>3, LeavesCore
  <2>6. EvictInv'
    <3>1. \A p \in Requests : request'[p].at # "evict"
      BY <1>2, <1>4, <1>5, <2>3 DEF EvictInv
    <3> QED
      BY <2>1, <3>1 DEF EvictInv, MayEvict
  <2>7. CASE overlap'
    <3>1. overlap' = TRUE
      BY <2>5, <2>7 DEF IconsCore, IconsTypeOK
    <3> QED
      BY <1>6, <2>5, <2>6, <3>1, Overlapped DEF IconsIInv, IconsCore, Ceiling
  <2>8. CASE ~overlap'
    <3>1. ~Sized(removed) /\ ~overlap /\ (book = None \/ Over(book))
      BY <2>1, <2>2, <2>8
    <3>2. overlap = FALSE
      BY <1>2, <3>1 DEF IconsTypeOK
    <3>3. \A f \in gone : disk[f] # None => f \in removed
      BY <2>2
    <3>4. \A p \in Requests : \/ request'[p] = request[p]
                              \/ ~Writes(request[p]) /\ ~Writes(request'[p]) /\ ~Sizing(request'[p])
      BY <1>1, <1>4, <1>5, <1>8 DEF Writes
    <3>5. IconsTypeOK /\ Ceiling /\ disk' = Removal(gone) /\ ~Sized(removed)
      BY <1>2, <2>1, <3>1
    <3>6. /\ SeenInv' /\ \A p \in Requests : Sizing(request'[p]) => Cardinality(Counted(disk')) <= request'[p].files
          /\ Cardinality(Settled') \in Nat /\ Cardinality(Settled') <= Cardinality(Settled)
      BY <3>2, <3>3, <3>4, <3>5, RemovalCeiling
    <3>7. CountedInv'
      BY <2>1, <3>6 DEF CountedInv, Ready, Sizing
    <3>8. Cardinality(Counted(disk')) <= AfterEviction
      <4>1. AfterEviction \in Nat
        BY IconsBounds
      <4>2. CASE eviction.at = "list"
        <5>1. gone \in Oldest(Counted(disk), disk)
          BY <2>1, <4>2 DEF Orphaned
        <5>2. Counted(disk) \in SUBSET (Cached \X {"png", "none", "tmp"})
          BY CountedListed
        <5> QED
          BY <2>4, <5>1, <5>2, OldestFacts
      <4>3. CASE eviction.at = "remove"
        <5>1. gone \in Oldest(eviction.listed, eviction.when)
          BY <2>1, <4>3 DEF Orphaned
        <5>2. eviction.listed \in SUBSET (Cached \X {"png", "none", "tmp"})
          BY <1>2, <2>3, <4>3 DEF EvictInv, MayEvict
        <5>3. Counted(disk) \subseteq eviction.listed
          BY <1>2, <3>1, <4>3 DEF Ceiling, CountedInv
        <5>4. PICK L : L = eviction.listed
          OBVIOUS
        <5>5. /\ gone \subseteq L /\ Cardinality(L \ gone) \in Nat /\ Cardinality(L \ gone) <= AfterEviction /\ IsFiniteSet(L)
          BY <5>1, <5>2, <5>4, OldestFacts
        <5>6. IsFiniteSet(L \ gone) /\ Counted(disk') \subseteq L \ gone
          BY <2>4, <5>3, <5>4, <5>5, FS_Subset
        <5>7. Cardinality(Counted(disk')) <= Cardinality(L \ gone) /\ Cardinality(Counted(disk')) \in Nat
          BY <5>6, FS_Subset, CountedFinite
        <5> QED
          BY <4>1, <5>5, <5>7
      <4>4. CASE eviction.at = "count"
        <5>1. Cardinality(Counted(disk)) <= AfterEviction
          BY <1>2, <3>1, <4>4 DEF Ceiling, CountedInv
        <5>2. Counted(disk') \subseteq Counted(disk)
          BY <2>4
        <5>3. Cardinality(Counted(disk')) <= Cardinality(Counted(disk)) /\ Cardinality(Counted(disk')) \in Nat /\ Cardinality(Counted(disk)) \in Nat
          BY <5>2, CountedFinite
        <5> QED
          BY <4>1, <5>1, <5>3
      <4>5. eviction.at \in {"list", "remove", "count"}
        BY <1>2, <2>3 DEF EvictInv, MayEvict
      <4> QED
        BY <4>2, <4>3, <4>4, <4>5
    <3>9. BookInv'
      <4> SUFFICES ASSUME book # None
                   PROVE  Cardinality(Settled') <= book /\ Cardinality(Settled') <= MaxFiles
        BY <1>2 DEF BookInv
      <4>1. Settled' \subseteq Counted(disk')
        BY DEF Settled, Counted
      <4>2. Cardinality(Settled') <= Cardinality(Counted(disk')) /\ Cardinality(Counted(disk')) \in Nat
        BY <4>1, CountedFinite
      <4>3. book > MaxFiles /\ book \in Nat
        BY <1>2, <3>1 DEF Over, IconsTypeOK, Times
      <4>4. AfterEviction \in Nat /\ MaxFiles \in Nat /\ AfterEviction <= MaxFiles
        BY IconsBounds
      <4> QED
        BY <3>6, <3>8, <4>2, <4>3, <4>4
    <3> QED
      BY <1>6, <2>5, <2>6, <3>6, <3>7, <3>9 DEF IconsIInv, IconsCore
  <2> QED
    BY <2>7, <2>8
<1>9. CASE q.at \notin {"rename", "evict"}
  <2>1. UNCHANGED <<disk, eviction>> /\ overlap' = (overlap \/ q.at \in {"replace", "book"})
    BY <1>1, <1>9 DEF IconHangsUp
  <2>2. IconsCore'
    <3>1. overlap' \in BOOLEAN
      BY <1>2, <2>1 DEF IconsTypeOK
    <3>2. /\ disk' \in [Files -> Times] /\ book' \in Times /\ clearing' \in BOOLEAN
          /\ \A f \in Files : disk'[f] \in {None, disk[f]}
      BY <1>2, <2>1 DEF IconsTypeOK
    <3> QED
      BY <1>2, <1>4, <3>1, <3>2, LeavesCore
  <2>3. EvictInv'
    BY <1>1, <1>2, <1>4, <1>5, <1>9, <2>1, EvictStays
  <2>4. CASE overlap'
    <3>1. overlap' = TRUE
      BY <2>2, <2>4 DEF IconsCore, IconsTypeOK
    <3> QED
      BY <1>6, <2>2, <2>3, <3>1, Overlapped DEF IconsIInv, IconsCore, Ceiling
  <2>5. CASE ~overlap'
    <3>1. ~overlap /\ ~Writes(request[r])
      BY <1>1, <1>9, <2>1, <2>5 DEF Writes
    <3>2. UNCHANGED overlap
      BY <1>2, <2>2, <2>5, <3>1 DEF IconsCore, IconsTypeOK
    <3>3. Ceiling'
      BY <1>2, <1>4, <1>5, <2>1, <3>1, <3>2, CeilingStays DEF IconsTypeOK
    <3> QED
      BY <1>6, <2>2, <2>3, <3>3 DEF IconsIInv, IconsCore, Ceiling
  <2> QED
    BY <2>4, <2>5
<1> QED
  BY <1>7, <1>8, <1>9

(* A restart forgets the book and the locks.                               *)
LEMMA IconsStopStep ==
    ASSUME IconsIInv, IconsStop
    PROVE  IconsIInv'
<1>1. /\ request' = [r \in Requests |-> Ready] /\ locks' = [n \in Names |-> None]
      /\ book' = None /\ eviction' = Ready /\ clearing' = FALSE /\ overlap' = FALSE
      /\ UNCHANGED <<clock, disk, item>> /\ IconsTypeOK /\ EitherInv /\ OwnInv /\ Ready.at = "idle"
  BY DEF IconsStop, IconsIInv, Ready
<1>2. \A r \in Requests : request'[r] = Ready /\ request'[r].at = "idle"
  BY <1>1
<1>3. IconsTypeOK'
  BY <1>1, <1>2, FitsReady DEF IconsTypeOK, Times
<1>4. EvictInv'
  BY <1>1, <1>2 DEF EvictInv, MayEvict
<1>5. LocksInv' /\ NotThere'
  BY <1>2 DEF LocksInv, NotThere, Works, Holding
<1>6. EitherInv'
  BY <1>1, <1>2 DEF EitherInv, Other
<1>7. SeenInv' /\ CountedInv'
  BY <1>1, <1>2 DEF SeenInv, CountedInv, Writes, Sizing
<1>8. BookInv'
  BY <1>1 DEF BookInv
<1>9. OwnInv'
  BY <1>1, <1>2 DEF OwnInv, KeyIsOwners
<1> QED
  BY <1>3, <1>4, <1>5, <1>6, <1>7, <1>8, <1>9 DEF IconsIInv

(* As time goes by what was not there, or too old, is no younger.          *)
LEMMA IconsTickStep ==
    ASSUME IconsIInv, IconsTick
    PROVE  IconsIInv'
<1>1. /\ clock' = clock + 1 /\ UNCHANGED <<disk, book, locks, request, eviction, clearing, overlap, item>>
      /\ IconsTypeOK /\ IconsCore /\ OwnInv
  BY DEF IconsTick, IconsIInv, IconsCore
<1>2. IconsTypeOK'
  BY <1>1 DEF IconsTypeOK
<1>3. EvictInv'
  BY <1>1 DEF IconsIInv, EvictInv, MayEvict
<1>4. LocksInv' /\ EitherInv'
  BY <1>1 DEF IconsCore, LocksInv, EitherInv, Works, Other
<1>5. NotThere'
  <2> SUFFICES ASSUME NEW p \in Requests, request[p].at \in {"slot", "fetch"}
               PROVE  ~(CachedIcon(request[p].name))' /\ ~(CachedNone(request[p].name))'
    BY <1>1 DEF NotThere
  <2>1. ~CachedIcon(request[p].name) /\ ~CachedNone(request[p].name)
    BY <1>1 DEF IconsCore, NotThere
  <2>2. request[p].name \in Names
    BY <1>1, FitsAt DEF IconsTypeOK, Holding
  <2>3. /\ disk[<<request[p].name, "png">>] \in Nat \cup {None} /\ disk[<<request[p].name, "none">>] \in Nat \cup {None}
        /\ clock \in Nat /\ IconDays \in Nat /\ NoneDays \in Nat
    BY <1>1, <2>2, IconsBounds DEF IconsTypeOK, Times, Files
  <2> QED
    BY <1>1, <2>1, <2>3 DEF CachedIcon, CachedNone, fresh
<1>6. SeenInv' /\ CountedInv'
  BY <1>1 DEF IconsIInv, SeenInv, CountedInv, Writes, Kind, Sizing, Counted
<1>7. BookInv'
  <2>1. Settled' = Settled
    BY <1>1 DEF Settled, Beside, Writes, Kind, Other, Temporary, Counted
  <2> QED
    BY <1>1, <2>1 DEF IconsIInv, BookInv, Writes
<1> QED
  BY <1>1, <1>2, <1>3, <1>4, <1>5, <1>6, <1>7, OwnFrame DEF IconsIInv

LEMMA IconsStart ==
    ASSUME IconsInit
    PROVE  IconsIInv
<1>1. PICK had \in SUBSET {<<"site", "none">>, <<"drawn", "png">>, <<"library", "png">>} :
         disk = [f \in Files |-> IF f \in had THEN 0 ELSE None]
  BY DEF IconsInit
<1>2. /\ clock = 1 /\ book = None /\ locks = [n \in Names |-> None] /\ request = [r \in Requests |-> Ready]
      /\ eviction = Ready /\ clearing = FALSE /\ overlap = FALSE /\ item = [shared |-> FALSE, own |-> None, raced |-> FALSE]
      /\ Ready.at = "idle"
  BY DEF IconsInit, Ready
<1>3. \A r \in Requests : request[r] = Ready /\ request[r].at = "idle"
  BY <1>2
<1>4. disk \in [Files -> Times] /\ \A f \in Files : disk[f] # None => f \in had
  BY <1>1 DEF Times
<1>5. IconsTypeOK
  BY <1>2, <1>3, <1>4, FitsReady DEF IconsTypeOK, Times
<1>6. EvictInv
  BY <1>2, <1>3 DEF EvictInv, MayEvict
<1>7. LocksInv /\ NotThere
  BY <1>3 DEF LocksInv, NotThere, Works, Holding
<1>8. EitherInv
  <2>1. \A n \in Names : <<n, "png">> \in Files /\ <<n, "none">> \in Files
    BY DEF Files
  <2>2. \A n \in Cached : <<n, "png">> \notin had \/ <<n, "none">> \notin had
    BY <1>1
  <2>3. <<"drawn", "none">> \notin had /\ <<"library", "none">> \notin had
    BY <1>1
  <2> QED
    BY <1>3, <1>4, <2>1, <2>2, <2>3, NameFacts DEF EitherInv
<1>9. SeenInv /\ CountedInv /\ BookInv
  BY <1>2, <1>3 DEF SeenInv, CountedInv, BookInv, Writes, Sizing
<1>10. OwnInv
  BY <1>2, <1>3 DEF OwnInv, KeyIsOwners
<1> QED
  BY <1>5, <1>6, <1>7, <1>8, <1>9, <1>10 DEF IconsIInv

LEMMA IconsHold ==
    ASSUME IconsIInv
    PROVE  IconsInv
<1>1. IconsTypeOK /\ LocksInv /\ NotThere /\ BookInv /\ OwnInv
  BY DEF IconsIInv
<1>2. FetchedOnce
  <2> SUFFICES ASSUME NEW r \in Requests, request[r].at = "fetch"
               PROVE  /\ \A p \in Requests \ {r} : request[p].at = "fetch" => request[p].name # request[r].name
                      /\ ~CachedIcon(request[r].name) /\ ~CachedNone(request[r].name)
    BY DEF FetchedOnce
  <2>1. \A p \in Requests : request[p].at = "fetch" => request[p].at \in Holding /\ Works(request[p])
    <3> SUFFICES ASSUME NEW p \in Requests, request[p].at = "fetch"
                 PROVE  request[p].at \in Holding /\ Works(request[p])
      OBVIOUS
    <3>1. request[p].at \in Holding /\ Fits(request[p])
      BY <1>1 DEF Holding, IconsTypeOK
    <3>2. request[p].lock # None
      BY <3>1, FitsAt
    <3> QED
      BY <3>1, <3>2 DEF Works
  <2>2. \A p \in Requests \ {r} : request[p].at = "fetch" => request[p].name # request[r].name
    BY <1>1, <2>1 DEF LocksInv
  <2> QED
    BY <1>1, <2>2 DEF NotThere
<1>3. CeilingKept
  <2> SUFFICES ASSUME AtRest, ~overlap, book # None
               PROVE  Cardinality(Counted(disk)) <= MaxFiles
    BY DEF CeilingKept
  <2>1. \A r \in Requests : ~Writes(request[r]) /\ Beside(request[r]) = {}
    BY DEF AtRest, Writes, Beside
  <2>2. Settled = Counted(disk)
    <3>1. UNION {Beside(request[p]) : p \in Requests} = {}
      BY <2>1
    <3> QED
      BY <3>1 DEF Settled
  <2>3. eviction = Ready /\ eviction.at \notin {"remove", "count"}
    BY DEF AtRest, Ready
  <2>4. Cardinality(Settled) <= book /\ (book > MaxFiles => Cardinality(Settled) <= MaxFiles)
    BY <1>1, <2>1, <2>3 DEF BookInv
  <2>5. Cardinality(Settled) \in Nat /\ book \in Nat /\ MaxFiles \in Nat
    BY <1>1, SettledFinite, IconsBounds DEF IconsTypeOK, Times
  <2> QED
    BY <2>2, <2>4, <2>5
<1> QED
  BY <1>1, <1>2, <1>3 DEF IconsInv, OwnInv

LEMMA IconsStepKeeps ==
    ASSUME IconsIInv, [IconsNext]_iconsVars
    PROVE  IconsIInv'
<1>1. CASE UNCHANGED iconsVars
  <2>1. UNCHANGED <<clock, disk, book, locks, request, eviction, clearing, overlap, item>>
    BY <1>1 DEF iconsVars, cache
  <2>2. OwnInv'
    BY <2>1, OwnFrame DEF IconsIInv
  <2> QED
    BY <2>1, <2>2, IconsFrame
<1>2. ASSUME NEW r \in Requests,
             SiteIcon(r) \/ Drawn(r) \/ LibraryIcon(r) \/ Look(r) \/ TakeHostLock(r) \/ TakeSlot(r) \/ FetchSite(r)
      PROVE  IconsIInv'
  BY <1>2, BeginsStep, LookStep, TakeHostLockStep, IconFetchStep
<1>3. ASSUME NEW r \in Requests,
             Room(r) \/ CacheSize(r) \/ Size(r) \/ Replace(r) \/ Rename(r) \/ Book(r)
      PROVE  IconsIInv'
  BY <1>3, RoomStep, SizeStep, ReplaceStep, RenameStep, LibraryStep, BookStep
<1>4. ASSUME NEW r \in Requests, OwnPut(r) \/ PutOwnIcon(r) \/ IconHangsUp(r)
      PROVE  IconsIInv'
  BY <1>4, OwnPutStep, PutOwnIconStep, IconHangsUpStep
<1>5. CASE ListFiles \/ RemoveOldest \/ Recount \/ DailyEvict \/ Clear \/ ClearBook
  BY <1>5, ListFilesStep, RemoveOldestStep, RecountStep, DailyEvictStep, ClearStep, ClearBookStep
<1>6. CASE Share \/ DeleteExtrasKey \/ OwnDelete \/ IconsStop \/ IconsTick
  BY <1>6, ItemStep, IconsStopStep, IconsTickStep
<1> QED
  BY <1>1, <1>2, <1>3, <1>4, <1>5, <1>6 DEF IconsNext

(* In every behaviour of the cache of icons, whatever is asked for and     *)
(* whoever hangs up, two requests never fetch a host at once and none      *)
(* fetches what the cache has (host_lock); at rest the cache is within its *)
(* ceiling, but for the writes that met a count or a removal (keep, evict, *)
(* prune); and an own icon is under its owner's key (shared_icon).         *)
THEOREM IconsAreKept == IconsSpec => []IconsInv
<1>1. IconsInit => IconsIInv
  BY IconsStart
<1>2. IconsIInv /\ [IconsNext]_iconsVars => IconsIInv'
  BY IconsStepKeeps
<1>3. IconsIInv => IconsInv
  BY IconsHold
<1> QED
  BY <1>1, <1>2, <1>3, PTL DEF IconsSpec
=============================================================================
