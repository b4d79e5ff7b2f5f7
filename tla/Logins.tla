------------------------------- MODULE Logins -------------------------------
(***************************************************************************)
(* Logins of one account with its master password or with another device's *)
(* approval, the second step, and the settings that change it meanwhile.   *)
(* A request is a handler that goes from await to await; what it read      *)
(* before one may be old after it.  Each handler serves one request, and   *)
(* what a request makes (a code, a challenge, a key, a token) is known by  *)
(* the handler that made it; Old is what was there before.                 *)
(*                                                                         *)
(* A scene says what is on when the requests come and which ones come.     *)
(* The master password passes in every setting; disabled accounts and the  *)
(* ends of sessions are in Sessions, SSO is in Accounts.  The policy       *)
(* that requires two-step login, and mail that cannot be sent, are left    *)
(* out, and so are the buckets of an address alone (Limits::login and      *)
(* login_wide), the only ones a request for a code by mail is held by.     *)
(***************************************************************************)
EXTENDS Integers, FiniteSets

CONSTANTS
    Handlers,         \* requests
    Devices,          \* the device ids of the account's clients
    Networks,         \* where logins come from
    Keys,             \* security keys
    None, Old,
    Scenes,           \* what is on at the start, and which requests come
    AccountTries, NetworkTries, KnownTries, CodeTries,  \* the buckets of limits.rs
    CODE_ATTEMPTS,
    MaxRefills,       \* bound: tries that come back
    MaxStep           \* bound: the authenticator's time steps

ASSUME LoginBounds ==
    {AccountTries, NetworkTries, KnownTries, CodeTries, CODE_ATTEMPTS, MaxRefills, MaxStep} \subseteq Nat
    /\ CODE_ATTEMPTS > 0

ASSUME LoginIds == /\ IsFiniteSet(Handlers) /\ Old \notin Handlers /\ None \notin Handlers \cup {Old}
                   /\ Devices # {} /\ Networks # {}

Makers == Handlers \cup {Old}
Ways == {"totp", "mail", "key"}
Kinds == {"login", "code", "ask", "answer", "disable", "delete", "activate", "setup", "mail",
          "enroll", "key", "unkey"}

Scene == [on : SUBSET Ways, remembered : SUBSET Devices, legacy : BOOLEAN, guesses : BOOLEAN,
          asks : SUBSET (Kinds \cup {"password", "travel", "late", "time", "refill"})]

ASSUME ScenesAssumption == Scenes \subseteq Scene /\ \A s \in Scenes : "key" \in s.on => Keys # {}

VARIABLES
    scene,
    user,        \* the row of the account
    factors,     \* its rows in two_factor
    devices,
    codes,       \* by purpose
    challenges,  \* in memory, by purpose
    requests,    \* auth_requests, by the handler that made each
    tries,       \* the buckets
    step,        \* the time step of now
    run          \* the handlers

loginsVars == <<scene, user, factors, devices, codes, challenges, requests, tries, step, run>>

\* What a login showed: which way, made by whom, and the time step of an authenticator's code.
Proof == [way : Ways \cup {"none", "remember", "recovery", "request"}, by : Makers \cup {None}, n : Nat]
Shows(way, by, n) == [way |-> way, by |-> by, n |-> n]
NoProof == Shows("none", None, 0)

Factors == [totp : Makers \cup {None}, last : Nat, mail : BOOLEAN, keys : SUBSET Keys]
Code == [by : Makers \cup {None}, wrong : Nat, expired : BOOLEAN]
NoCode == [by |-> None, wrong |-> 0, expired |-> FALSE]

Tries == [all : 0..AccountTries, known : 0..KnownTries, second : 0..CodeTries,
          network : [Networks -> 0..NetworkTries], back : 0..MaxRefills]

Run ==
    [at : {"new", "tries", "known", "hash", "rehash", "request", "device", "second", "step", "code",
           "data", "renew", "travelling", "remove", "finish", "in", "factors", "put", "allowed", "use", "set",
           "write", "unset", "forget", "over"},
     kind : Kinds,
     device : Devices, network : Networks,
     typed : Nat,                      \* the password, 0 a wrong one
     saw : [password : Nat, legacy : BOOLEAN, recovery : Makers \cup {None}],
     seen : Makers \cup {None},        \* the remembered token of the device, as it was read
     keys : SUBSET Keys,               \* the security keys, as they were read
     wide : {"all", "known"},          \* which bucket it took from
     proof : Proof,
     wrong : {"no", "password", "second", "mailing"}]   \* what it is over for, if for a wrong guess

LoginsTypeOK ==
    /\ scene \in Scenes
    /\ user \in [password : 1..2, legacy : BOOLEAN, recovery : Makers \cup {None}, travel : BOOLEAN]
    /\ factors \in Factors
    /\ devices \in [Devices -> [known : BOOLEAN, remembered : Makers \cup {None}, in : Makers \cup {None}]]
    /\ codes \in [{"login", "setup"} -> Code]
    /\ challenges \in [{"login", "register"} -> Makers \cup {None}]
    /\ requests \in [Handlers -> {"none", "waiting", "yes", "no", "used", "late"}]
    /\ tries \in Tries
    /\ step \in 0..MaxStep
    /\ run \in [Handlers -> Run]

Some(S) == CHOOSE x \in S : TRUE
Fresh == [at |-> "new", kind |-> "login", device |-> Some(Devices), network |-> Some(Networks),
          typed |-> 0, saw |-> [password |-> 0, legacy |-> FALSE, recovery |-> None], seen |-> None,
          keys |-> {}, wide |-> "all", proof |-> NoProof, wrong |-> "no"]

LoginsInit ==
    /\ scene \in Scenes
    /\ user = [password |-> 1, legacy |-> scene.legacy, travel |-> FALSE,
               recovery |-> IF scene.on = {} THEN None ELSE Old]
    /\ factors = [totp |-> IF "totp" \in scene.on THEN Old ELSE None, last |-> 0,
                  mail |-> "mail" \in scene.on, keys |-> IF "key" \in scene.on THEN Keys ELSE {}]
    /\ devices = [d \in Devices |-> [known |-> d \in scene.remembered, in |-> None,
                                     remembered |-> IF d \in scene.remembered /\ scene.on # {} THEN Old ELSE None]]
    /\ codes = [login |-> IF "mail" \in scene.on THEN [NoCode EXCEPT !.by = Old] ELSE NoCode, setup |-> NoCode]
    /\ challenges = [login |-> IF "key" \in scene.on THEN Old ELSE None, register |-> None]
    /\ requests = [h \in Handlers |-> "none"]
    /\ tries = [all |-> AccountTries, known |-> KnownTries, second |-> CodeTries,
                network |-> [n \in Networks |-> NetworkTries], back |-> 0]
    /\ step = 0
    /\ run = [h \in Handlers |-> Fresh]

-----------------------------------------------------------------------------
(* What the steps are made of.                                             *)

On(f) == (IF f.totp # None THEN {"totp"} ELSE {}) \cup (IF f.mail THEN {"mail"} ELSE {})
            \cup (IF f.keys # {} THEN {"key"} ELSE {})

Goes(h, r) == run' = [run EXCEPT ![h] = r]

To(h, at) == Goes(h, [run[h] EXCEPT !.at = at])
\* A handler that is over forgets what it read.
Over(h) == Goes(h, [Fresh EXCEPT !.at = "over"])

WrongGuess(h, what) == Goes(h, [Fresh EXCEPT !.at = "over", !.wrong = what, !.network = run[h].network])

\* Limiter::take and give_back; what comes back never fills a bucket past its burst.
Least(a, b) == IF a < b THEN a ELSE b

TakesNothing(t) == t

TakeSecond(t) == [t EXCEPT !.second = @ - 1]

GiveBackSecond(t) == [t EXCEPT !.second = Least(@ + 1, CodeTries)]
GiveBackAnyway(t, n) == [t EXCEPT !.network[n] = @ + 1]

GiveBackNetwork(t, n) == [t EXCEPT !.network[n] = Least(@ + 1, NetworkTries)]

GiveBack(t, r) ==
    IF r.wide = "all" THEN [GiveBackNetwork(t, r.network) EXCEPT !.all = Least(@ + 1, AccountTries)]
                      ELSE [GiveBackNetwork(t, r.network) EXCEPT !.known = Least(@ + 1, KnownTries)]

Forgotten == [d \in Devices |-> [devices[d] EXCEPT !.remembered = None]]

RecoveryGone(left) == None

RecoveryAfter(left) == IF On(left) = {} THEN None ELSE user.recovery

\* remove_two_factor: with the last way gone, the recovery code and remembered devices go too.
RemoveFactors(ways) ==
    LET left == [factors EXCEPT !.totp = IF "totp" \in ways THEN None ELSE @,
                                !.mail = @ /\ "mail" \notin ways,
                                !.keys = IF "key" \in ways THEN {} ELSE @]
    IN /\ factors' = left
       /\ user' = [user EXCEPT !.recovery = RecoveryAfter(left)]
       /\ devices' = IF On(left) = {} THEN Forgotten ELSE devices

\* set_two_factor: the first one also gets the account a recovery code, if it has none.
SetFactor(h, new) ==
    /\ factors' = new
    /\ user' = [user EXCEPT !.recovery = IF @ = None THEN h ELSE @]

RequestVars == <<scene, user, factors, devices, codes, challenges, requests, tries, step>>

-----------------------------------------------------------------------------
(* A login with the master password: password_login.                       *)

\* The password somebody types: one of the account's, or a wrong one.
Typed == (IF scene.guesses THEN {0} ELSE {}) \cup (1..user.password)

\* The user is read; the form has a password or names an approved request.
ReadUser(h) ==
    /\ run[h] = Fresh /\ "login" \in scene.asks
    /\ \E d \in Devices, n \in Networks, p \in Typed,
          q \in {None} \cup (IF "ask" \in scene.asks THEN Handlers ELSE {}) :
          Goes(h, [Fresh EXCEPT !.device = d, !.network = n, !.typed = p,
                       !.saw = [password |-> user.password, legacy |-> user.legacy, recovery |-> user.recovery],
                       !.proof = IF q = None THEN NoProof ELSE Shows("request", q, 0),
                       !.at = IF q = None THEN "tries" ELSE "request"])
    /\ UNCHANGED RequestVars

\* account_tries: one from the network's bucket and one from the account's.
TakeTries(h) ==
    LET n == run[h].network
    IN /\ run[h].at = "tries"
       /\ \/ tries.network[n] = 0 /\ Over(h) /\ UNCHANGED tries
          \/ /\ tries.network[n] > 0 /\ tries.all > 0
             /\ tries' = [tries EXCEPT !.network[n] = @ - 1, !.all = @ - 1]
             /\ Goes(h, [run[h] EXCEPT !.at = "hash", !.wide = "all"])
          \/ /\ tries.network[n] > 0 /\ tries.all = 0
             /\ tries' = [tries EXCEPT !.network[n] = @ - 1]
             /\ To(h, "known")
       /\ UNCHANGED <<scene, user, factors, devices, codes, challenges, requests, step>>

\* The account's is empty: a device it knows still gets a few.
KnownAlways(h) == devices[run[h].device].known

KnownLeft(h) == devices[run[h].device].known /\ tries.known > 0

TakeKnown(h) ==
    /\ run[h].at = "known"
    /\ IF KnownLeft(h)
       THEN /\ tries' = [tries EXCEPT !.known = @ - 1]
            /\ Goes(h, [run[h] EXCEPT !.at = "hash", !.wide = "known"])
       ELSE tries' = GiveBackNetwork(tries, run[h].network) /\ Over(h)
    /\ UNCHANGED <<scene, user, factors, devices, codes, challenges, requests, step>>

\* The password against the hash that was read.
VerifyLogin(h) ==
    /\ run[h].at = "hash"
    /\ IF run[h].typed = run[h].saw.password
       THEN /\ tries' = GiveBack(tries, run[h])
            /\ To(h, IF run[h].saw.legacy THEN "rehash" ELSE "device")
       ELSE WrongGuess(h, "password") /\ UNCHANGED tries
    /\ UNCHANGED <<scene, user, factors, devices, codes, challenges, requests, step>>

\* A hash from Vaultwarden becomes one of this server's.
Rehash(h) ==
    /\ run[h].at = "rehash"
    /\ user' = [user EXCEPT !.password = run[h].saw.password, !.legacy = FALSE]
    /\ To(h, "device")
    /\ UNCHANGED <<scene, factors, devices, codes, challenges, requests, tries, step>>

\* use_auth_request: approved a moment ago, for this device, and not used yet.
Lets(q, d) == q \in Handlers /\ requests[q] = "yes" /\ run[q].device = d

UseAuthRequest(h) ==
    /\ run[h].at = "request"
    /\ IF Lets(run[h].proof.by, run[h].device)
       THEN requests' = [requests EXCEPT ![run[h].proof.by] = "used"] /\ To(h, "device")
       ELSE Over(h) /\ UNCHANGED requests
    /\ UNCHANGED <<scene, user, factors, devices, codes, challenges, tries, step>>

\* The device is read.  Another device's approval stands for the second step.
ReadDevice(h) ==
    /\ run[h].at = "device"
    /\ Goes(h, [run[h] EXCEPT !.seen = devices[run[h].device].remembered,
                              !.at = IF run[h].proof.way = "request" THEN "finish" ELSE "second"])
    /\ UNCHANGED RequestVars

-----------------------------------------------------------------------------
(* The second step: check_login.  What the form shows is chosen here.      *)

\* The answer that asks for a code; with security keys it carries a challenge, and an older
\* client whose only way is the mail gets one.
Required(h) ==
    /\ challenges' = IF factors.keys # {} THEN [challenges EXCEPT !.login = h] ELSE challenges
    /\ Over(h)

AsksForCode(h) ==
    \/ Required(h)
    \/ /\ On(factors) = {"mail"}
       /\ To(h, "put")
       /\ UNCHANGED challenges

\* A token of a device that is remembered, as it was when the device was read.
ShowsRemembered(h) ==
    \/ /\ run[h].seen # None
       /\ tries' = TakeSecond(tries)
       /\ Goes(h, [run[h] EXCEPT !.at = "renew", !.proof = Shows("remember", run[h].seen, 0)])
       /\ UNCHANGED challenges
    \/ tries' = GiveBackSecond(TakeSecond(tries)) /\ Required(h)

\* The recovery code, as it was when the user was read.
ShowsRecovery(h) ==
    /\ run[h].saw.recovery # None
    /\ Goes(h, [run[h] EXCEPT !.at = "travelling", !.proof = Shows("recovery", run[h].saw.recovery, 0)])
    /\ UNCHANGED challenges

\* A code of the authenticator: of now's time step, the one before or the one after.
ShowsTotp(h) ==
    /\ "totp" \in On(factors)
    /\ \E s \in {step - 1, step, step + 1} \cap Nat :
          Goes(h, [run[h] EXCEPT !.at = "step", !.proof = Shows("totp", factors.totp, s)])
    /\ UNCHANGED challenges

\* A security key's answer to a challenge: whatever it is, the challenge is gone.
ShowsKey(h) ==
    /\ "key" \in On(factors) /\ challenges.login # None
    /\ challenges' = [challenges EXCEPT !.login = None]
    /\ Goes(h, [run[h] EXCEPT !.at = "data", !.keys = factors.keys, !.proof = Shows("key", challenges.login, 0)])

ShowsMail(h) ==
    /\ "mail" \in On(factors)
    /\ \E c \in {codes.login.by, None} :
          Goes(h, [run[h] EXCEPT !.at = "code", !.proof = Shows("mail", c, 0)])
    /\ UNCHANGED challenges

GuessesWrong(h) ==
    /\ WrongGuess(h, "second")
    /\ challenges' \in {challenges, [challenges EXCEPT !.login = None]}

CheckLogin(h) ==
    /\ run[h].at = "second"
    /\ \/ On(factors) = {} /\ To(h, "finish") /\ UNCHANGED <<tries, challenges>>
       \/ On(factors) # {} /\ AsksForCode(h) /\ UNCHANGED tries
       \/ On(factors) # {} /\ tries.second = 0 /\ Over(h) /\ UNCHANGED <<tries, challenges>>
       \/ /\ On(factors) # {} /\ tries.second > 0
          /\ \/ ShowsRemembered(h)
             \/ /\ tries' = TakeSecond(tries)
                /\ ShowsRecovery(h) \/ ShowsTotp(h) \/ ShowsKey(h) \/ ShowsMail(h) \/ GuessesWrong(h)
    /\ UNCHANGED <<scene, user, factors, devices, codes, requests, step>>

Passes(h) == To(h, "finish") /\ tries' = GiveBackSecond(tries)

\* use_totp_step: the step is taken unless it or a later one was.
TakesAgain(f, s) == f.totp # None /\ f.last <= s

Takes(f, s) == f.totp # None /\ f.last < s

UseTotpStep(h) ==
    /\ run[h].at = "step"
    /\ IF Takes(factors, run[h].proof.n)
       THEN factors' = [factors EXCEPT !.last = run[h].proof.n] /\ Passes(h)
       ELSE WrongGuess(h, "second") /\ UNCHANGED <<factors, tries>>
    /\ UNCHANGED <<scene, user, devices, codes, challenges, requests, step>>

\* The security keys are written back as they were read, with the new counter.
WriteKeys(h) ==
    /\ run[h].at = "data"
    /\ factors' = IF factors.keys = {} THEN factors ELSE [factors EXCEPT !.keys = run[h].keys]
    /\ Passes(h)
    /\ UNCHANGED <<scene, user, devices, codes, challenges, requests, step>>

\* take_code: a right one is used up, a wrong one counts, and the last try takes the code with it.
WrongOneMore(c) == IF c.wrong + 1 > CODE_ATTEMPTS THEN NoCode ELSE [c EXCEPT !.wrong = @ + 1]

Wrong(c) == IF c.wrong + 1 >= CODE_ATTEMPTS THEN NoCode ELSE [c EXCEPT !.wrong = @ + 1]

TakeCode(h) ==
    LET c == codes.login
        right == c.by # None /\ ~c.expired /\ run[h].proof.by = c.by
    IN /\ run[h].at = "code"
       /\ codes' = [codes EXCEPT !.login = IF c.by = None \/ c.expired \/ right THEN NoCode ELSE Wrong(c)]
       /\ IF right THEN Passes(h)
          ELSE /\ Goes(h, [Fresh EXCEPT !.at = "over", !.wrong = "second", !.proof = Shows("mail", c.by, 0)])
               /\ UNCHANGED tries
       /\ UNCHANGED <<scene, user, factors, devices, challenges, requests, step>>

Renew(h) ==
    /\ run[h].at = "renew"
    /\ Passes(h)
    /\ UNCHANGED <<scene, user, factors, devices, codes, challenges, requests, step>>

\* The recovery code does not work while travelling, and takes every way away.
CheckTravelling(h) ==
    /\ run[h].at = "travelling"
    /\ IF user.travel THEN Over(h) ELSE To(h, "remove")
    /\ UNCHANGED RequestVars

Recover(h) ==
    /\ run[h].at = "remove"
    /\ RemoveFactors(Ways)
    /\ Passes(h)
    /\ UNCHANGED <<scene, codes, challenges, requests, step>>

\* log_in_device, with a new token if a code was shown and the device is to be remembered.
FinishLogin(h) ==
    /\ run[h].at = "finish"
    /\ \E remember \in IF run[h].proof.way \in Ways THEN BOOLEAN ELSE {FALSE} :
          devices' = [devices EXCEPT ![run[h].device] =
                        [known |-> TRUE, in |-> h, remembered |-> IF remember THEN h ELSE @.remembered]]
    /\ Goes(h, [Fresh EXCEPT !.at = "in", !.proof = run[h].proof])
    /\ UNCHANGED <<scene, user, factors, codes, challenges, requests, tries, step>>

-----------------------------------------------------------------------------
(* Codes by mail, and requests to be let in by another device.             *)

\* The master password comes along and is compared with what is read here; a wrong one is
\* refused.  No try of the account is taken for it: only the bucket of the address is asked.
SendLoginCode(h) ==
    /\ run[h] = Fresh /\ "code" \in scene.asks
    /\ \E p \in Typed :
          IF p = user.password THEN Goes(h, [Fresh EXCEPT !.kind = "code", !.at = "factors"])
          ELSE WrongGuess(h, "mailing")
    /\ UNCHANGED RequestVars

ReadFactors(h) ==
    /\ run[h].at = "factors"
    /\ IF factors.mail THEN To(h, "put") ELSE Over(h)
    /\ UNCHANGED RequestVars

\* put_code: a new one replaces the one before.
PutCode(h) ==
    /\ run[h].at = "put"
    /\ codes' = [codes EXCEPT ![IF run[h].kind = "setup" THEN "setup" ELSE "login"] = [NoCode EXCEPT !.by = h]]
    /\ Over(h)
    /\ UNCHANGED <<scene, user, factors, devices, challenges, requests, tries, step>>

Create(h) ==
    /\ run[h] = Fresh /\ "ask" \in scene.asks
    /\ \E d \in Devices : Goes(h, [Fresh EXCEPT !.kind = "ask", !.at = "over", !.device = d])
    /\ requests' = [requests EXCEPT ![h] = "waiting"]
    /\ UNCHANGED <<scene, user, factors, devices, codes, challenges, tries, step>>

\* answer_auth_request: one that nobody answered, and that is not too old.
OpenIfNotApproved(q) == requests[q] \in {"waiting", "no"}

Open(q) == requests[q] = "waiting"

Answer(h) ==
    /\ run[h] = Fresh /\ "answer" \in scene.asks
    /\ \E q \in Handlers, yes \in {"yes", "no"} : Open(q) /\ requests' = [requests EXCEPT ![q] = yes]
    /\ Goes(h, [Fresh EXCEPT !.kind = "answer", !.at = "over"])
    /\ UNCHANGED <<scene, user, factors, devices, codes, challenges, tries, step>>

-----------------------------------------------------------------------------
(* The settings.  Each asks first whether travel mode is on.               *)

Asks(h, kind) ==
    /\ run[h] = Fresh /\ kind \in scene.asks
    /\ ~user.travel
    /\ UNCHANGED RequestVars

Setting(h) ==
    \E kind \in {"disable", "delete", "activate", "setup", "mail", "enroll", "key", "unkey"} :
        /\ Asks(h, kind)
        /\ Goes(h, [Fresh EXCEPT !.kind = kind, !.at = IF kind = "setup" THEN "put" ELSE "allowed"])

Does(h, kind) == run[h].at = "allowed" /\ run[h].kind = kind

\* disable: the way first, the remembered devices in a write of its own.
Disable(h) ==
    /\ Does(h, "disable")
    /\ \E w \in Ways : RemoveFactors({w})
    /\ To(h, "forget")
    /\ UNCHANGED <<scene, codes, challenges, requests, tries, step>>

\* delete_authenticator: only with the key that is set up, compared before it is removed.
CompareKey(h) ==
    /\ Does(h, "delete") /\ factors.totp # None
    /\ To(h, "unset")
    /\ UNCHANGED RequestVars

DeleteAuthenticator(h) ==
    /\ run[h].at = "unset"
    /\ RemoveFactors({"totp"})
    /\ To(h, "forget")
    /\ UNCHANGED <<scene, codes, challenges, requests, tries, step>>

ForgetRemembered(h) ==
    /\ run[h].at = "forget"
    /\ devices' = Forgotten
    /\ Over(h)
    /\ UNCHANGED <<scene, user, factors, codes, challenges, requests, tries, step>>

\* activate_authenticator: the key starts with no step taken; its first code is taken afterwards.
ActivateAuthenticator(h) ==
    /\ Does(h, "activate")
    /\ \E s \in {step - 1, step, step + 1} \cap Nat :
          Goes(h, [run[h] EXCEPT !.at = "use", !.proof = Shows("totp", h, s)])
    /\ SetFactor(h, [factors EXCEPT !.totp = h, !.last = 0])
    /\ UNCHANGED <<scene, devices, codes, challenges, requests, tries, step>>

UseFirstStep(h) ==
    /\ run[h].at = "use"
    /\ factors' = IF Takes(factors, run[h].proof.n) THEN [factors EXCEPT !.last = run[h].proof.n] ELSE factors
    /\ Over(h)
    /\ UNCHANGED <<scene, user, devices, codes, challenges, requests, tries, step>>

\* activate_email: the code for the setup is taken, then the way is on.
ActivateEmail(h) ==
    /\ Does(h, "mail") /\ codes.setup.by # None /\ ~codes.setup.expired
    /\ codes' = [codes EXCEPT !.setup = NoCode]
    /\ To(h, "set")
    /\ UNCHANGED <<scene, user, factors, devices, challenges, requests, tries, step>>

SetEmail(h) ==
    /\ run[h].at = "set"
    /\ SetFactor(h, [factors EXCEPT !.mail = TRUE])
    /\ Over(h)
    /\ UNCHANGED <<scene, devices, codes, challenges, requests, tries, step>>

WebauthnChallenge(h) ==
    /\ Does(h, "enroll")
    /\ challenges' = [challenges EXCEPT !.register = h]
    /\ Over(h)
    /\ UNCHANGED <<scene, user, factors, devices, codes, requests, tries, step>>

\* activate_webauthn: the keys are read, and written back with the new one.
TakeRegistration(h) ==
    /\ Does(h, "key") /\ challenges.register # None
    /\ challenges' = [challenges EXCEPT !.register = None]
    /\ \E k \in Keys \ factors.keys, before \in {{}} \cup {{x} : x \in factors.keys} :   \* in the same slot
          Goes(h, [run[h] EXCEPT !.at = "write", !.keys = (factors.keys \ before) \cup {k}])
    /\ UNCHANGED <<scene, user, factors, devices, codes, requests, tries, step>>

ActivateWebauthn(h) ==
    /\ run[h].at = "write" /\ run[h].kind = "key"
    /\ SetFactor(h, [factors EXCEPT !.keys = run[h].keys])
    /\ Over(h)
    /\ UNCHANGED <<scene, devices, codes, challenges, requests, tries, step>>

\* delete_webauthn: the same without one; without the last, as for every way.
ReadKeys(h) ==
    /\ Does(h, "unkey")
    /\ \E k \in Keys : Goes(h, [run[h] EXCEPT !.at = "write", !.keys = factors.keys \ {k}])
    /\ UNCHANGED RequestVars

DeleteWebauthn(h) ==
    /\ run[h].at = "write" /\ run[h].kind = "unkey"
    /\ IF run[h].keys = {} THEN RemoveFactors({"key"}) /\ To(h, "forget")
       ELSE /\ factors' = IF factors.keys = {} THEN factors ELSE [factors EXCEPT !.keys = run[h].keys]
            /\ Over(h)
            /\ UNCHANGED <<user, devices>>
    /\ UNCHANGED <<scene, codes, challenges, requests, tries, step>>

-----------------------------------------------------------------------------
(* Meanwhile: a new master password, travel mode, and time.                *)

\* update_user with a new stamp: no device stays logged in or remembered.
ChangePassword ==
    /\ "password" \in scene.asks /\ user.password = 1
    /\ user' = [user EXCEPT !.password = 2, !.legacy = FALSE]
    /\ devices' = [d \in Devices |-> [devices[d] EXCEPT !.in = None, !.remembered = None]]
    /\ UNCHANGED <<scene, factors, codes, challenges, requests, tries, step, run>>

\* Travel mode needs two-step login.
SwitchTravel ==
    /\ "travel" \in scene.asks
    /\ user.travel \/ On(factors) # {}
    /\ user' = [user EXCEPT !.travel = ~@]
    /\ UNCHANGED <<scene, factors, devices, codes, challenges, requests, tries, step, run>>

\* A challenge, a code, a request or a remembered device that ran out.
OneRunsOut ==
    \/ /\ \E q \in Handlers : requests[q] \in {"waiting", "yes"} /\ requests' = [requests EXCEPT ![q] = "late"]
       /\ UNCHANGED <<devices, codes, challenges>>
    \/ /\ \E p \in DOMAIN codes : codes[p].by # None /\ ~codes[p].expired /\ codes' = [codes EXCEPT ![p].expired = TRUE]
       /\ UNCHANGED <<devices, requests, challenges>>
    \/ /\ \E p \in DOMAIN challenges : challenges[p] # None /\ challenges' = [challenges EXCEPT ![p] = None]
       /\ UNCHANGED <<devices, requests, codes>>
    \/ /\ \E d \in Devices : devices[d].remembered # None /\ devices' = [devices EXCEPT ![d].remembered = None]
       /\ UNCHANGED <<challenges, requests, codes>>

RunsOut ==
    /\ "late" \in scene.asks
    /\ OneRunsOut
    /\ UNCHANGED <<scene, user, factors, tries, step, run>>

TimeGoesOn ==
    /\ "time" \in scene.asks
    /\ step < MaxStep /\ step' = step + 1
    /\ UNCHANGED <<scene, user, factors, devices, codes, challenges, requests, tries, run>>

Refill ==
    /\ "refill" \in scene.asks
    /\ tries.back < MaxRefills
    /\ tries' = [all |-> Least(tries.all + 1, AccountTries), known |-> Least(tries.known + 1, KnownTries),
                 second |-> Least(tries.second + 1, CodeTries), back |-> tries.back + 1,
                 network |-> [n \in Networks |-> Least(tries.network[n] + 1, NetworkTries)]]
    /\ UNCHANGED <<scene, user, factors, devices, codes, challenges, requests, step, run>>

PasswordLogin(h) ==
    \/ ReadUser(h) \/ TakeTries(h) \/ TakeKnown(h) \/ VerifyLogin(h) \/ Rehash(h) \/ UseAuthRequest(h)
    \/ ReadDevice(h) \/ CheckLogin(h) \/ UseTotpStep(h) \/ WriteKeys(h) \/ TakeCode(h) \/ Renew(h)
    \/ CheckTravelling(h) \/ Recover(h) \/ FinishLogin(h)

Settings(h) ==
    \/ Setting(h) \/ Disable(h) \/ CompareKey(h) \/ DeleteAuthenticator(h) \/ ForgetRemembered(h) \/ ActivateAuthenticator(h) \/ UseFirstStep(h)
    \/ ActivateEmail(h) \/ SetEmail(h) \/ WebauthnChallenge(h) \/ TakeRegistration(h)
    \/ ActivateWebauthn(h) \/ ReadKeys(h) \/ DeleteWebauthn(h)

LoginsNext ==
    \/ \E h \in Handlers :
          \/ PasswordLogin(h) \/ Settings(h)
          \/ SendLoginCode(h) \/ ReadFactors(h) \/ PutCode(h) \/ Create(h) \/ Answer(h)
    \/ ChangePassword \/ SwitchTravel \/ RunsOut \/ TimeGoesOn \/ Refill

LoginsSpec == LoginsInit /\ [][LoginsNext]_loginsVars

-----------------------------------------------------------------------------
(* Properties.                                                             *)

CameIn(h) == run[h].at = "in"
Refused(what) == {h \in Handlers : run[h].wrong = what}

\* No mailed code, security key's challenge, time step of the authenticator that is set up or
\* approved request lets two logins in, however many show it at once: each is taken in the
\* write that checks it (use_totp_step, take_code, Challenges::take, use_auth_request).  An
\* authenticator set up anew starts with no step taken, so its code is left out.
Once(p) == p.way \in {"mail", "key", "request"} \/ (p.way = "totp" /\ p.by = factors.totp)

OneLoginEach ==
    \A g, h \in Handlers :
        (g # h /\ CameIn(g) /\ CameIn(h) /\ run[g].proof = run[h].proof) => ~Once(run[g].proof)

\* There is a recovery code exactly while a way of two-step login is on, whatever is set up
\* and removed at once (set_two_factor, remove_two_factor).
RecoveryWhileOn == user.recovery # None <=> On(factors) # {}

\* What one proof lets in and what is set up stay together: no proof counts for two logins,
\* and no account has ways of two-step login without a code that gets past them, or the code
\* without a way, in any order of logins, settings and removals.
LoginsInv == OneLoginEach /\ RecoveryWhileOn

\* After CODE_ATTEMPTS wrong tries a mailed code lets nobody in any more, in whatever order the
\* tries and the right one arrive (take_code).
RightAfterWrong ==
    \A h \in Handlers :
        (CameIn(h) /\ run[h].proof.way = "mail") =>
            Cardinality({g \in Refused("second") : run[g].proof = run[h].proof}) < CODE_ATTEMPTS

\* docs/uwu-api.md, "Password logins": wrong master passwords that logins had hashed stay within
\* the buckets, of each network and of the account, and wrong second steps within theirs, however
\* many logins are sent at once: a try is taken before, only a right one gives it back, and no
\* bucket ever holds more than it started with (account_tries, AccountTries::give_back,
\* check_login).  Nor does a mailed code let anybody in after its own tries.  Passwords that come
\* along when a code is asked for by mail are not logins and not counted: see EveryPasswordTakesATry.
GuessesWithin ==
    /\ LoginsTypeOK /\ RightAfterWrong
    /\ Cardinality(Refused("password")) <= AccountTries + KnownTries + 2 * tries.back
    /\ \A n \in Networks :
          Cardinality({h \in Refused("password") : run[h].network = n}) <= NetworkTries + tries.back
    /\ Cardinality(Refused("second")) <= CodeTries + tries.back

\* Two devices that answer one request: the first answer stays, a request that was denied or
\* too old lets nobody in (answer_auth_request, use_auth_request).
AnswersStay ==
    [][\A q \in Handlers :
          requests'[q] # requests[q] =>
             \/ requests[q] = "none" /\ requests'[q] = "waiting"
             \/ requests[q] = "waiting" /\ requests'[q] \in {"yes", "no", "late"}
             \/ requests[q] = "yes" /\ requests'[q] \in {"used", "late"}]_loginsVars

\* What the code does not hold: "Every password checked takes a try for the address tried"
\* (identity.rs).  That is so in a login only; send_login_code checks one and takes none.
EveryPasswordTakesATry ==
    Cardinality(Refused("password") \cup Refused("mailing")) <= AccountTries + KnownTries + 2 * tries.back

\* Nor: a login that replaces a hash from Vaultwarden with one of this
\* server's writes it over a password that was changed meanwhile.
NewPasswordStays == [][user'.password >= user.password]_loginsVars

\* Nor: once a way of two-step login is turned off, and the remembered devices are forgotten,
\* none is remembered without a way on; a login under way brings its own back.
RememberedWhileOn ==
    (On(factors) = {} /\ \A h \in Handlers : run[h].at # "forget")
        => \A d \in Devices : devices[d].remembered = None

-----------------------------------------------------------------------------
(* The inductive invariant behind LoginsInv and GuessesWithin.             *)

\* Who has made something has nothing else to make.
Finished(x) == x \in Handlers => run[x].at = "over"
SetUp(x) == x \in Handlers => run[x].at \in {"use", "over"}

\* What a login shows at each of its steps, and what it has read.
Stage(r) ==
    /\ r.at \in {"tries", "known", "hash", "rehash", "second"} => r.proof.way = "none"
    /\ r.at \in {"tries", "known", "hash", "rehash"} => r.saw.password \in 1..2
    /\ r.at = "device" => r.proof.way \in {"none", "request"}
    /\ r.at = "request" => r.proof.way = "request"
    /\ r.at = "step" => r.proof.way = "totp"
    /\ r.at = "data" => r.proof.way = "key" /\ r.keys # {}
    /\ r.at = "code" => r.proof.way = "mail"
    /\ r.at = "renew" => r.proof.way = "remember"
    /\ r.at \in {"travelling", "remove"} => r.proof.way = "recovery"
    /\ r.proof.way = "mail" => r.proof.n = 0
    /\ r.at = "write" /\ r.kind = "key" => r.keys # {}
    /\ r.wrong # "no" => r.at = "over"

MadeInv ==
    /\ codes.login.by # None => Finished(codes.login.by)
    /\ challenges.login # None => Finished(challenges.login)
    /\ factors.totp # None => SetUp(factors.totp)
    /\ \A q \in Handlers : requests[q] # "none" => Finished(q)

\* From here on what is shown counts, and is there no more for anybody else.
Taken(h) == run[h].at \in {"device", "data", "finish", "in"}

ShownInv(h) ==
    LET p == run[h].proof
    IN /\ Stage(run[h])
       /\ p.way = "mail" /\ p.by # None => Finished(p.by)
       /\ p.way = "totp" /\ run[h].at \in {"step", "finish", "in"} => p.by # None /\ SetUp(p.by)
       /\ Taken(h) => /\ p.way = "mail" => p.by # None /\ codes.login.by # p.by
                      /\ p.way = "key" => p.by # None /\ Finished(p.by) /\ challenges.login # p.by
                      /\ p.way = "request" => p.by \in Handlers /\ requests[p.by] = "used"
                      /\ p.way = "totp" /\ p.by = factors.totp => p.n <= factors.last

Alone ==
    \A g, h \in Handlers : (g # h /\ Taken(g) /\ Taken(h) /\ run[g].proof = run[h].proof) => ~Once(run[g].proof)

\* The wrong tries of a code.
Tried(x) == {g \in Refused("second") : run[g].proof.way = "mail" /\ run[g].proof.by = x}

TriedInv ==
    /\ codes.login.by # None => /\ Cardinality(Tried(codes.login.by)) <= codes.login.wrong
                                /\ codes.login.wrong < CODE_ATTEMPTS
    /\ \A h \in Handlers :
          Taken(h) /\ run[h].proof.way = "mail" => Cardinality(Tried(run[h].proof.by)) < CODE_ATTEMPTS

\* Whoever guessed wrong, or has taken a try and not given it back.
Guesses(r) == r.wrong = "password" \/ r.at = "hash"
GuessesFrom(r, n) == r.network = n /\ (r.wrong = "password" \/ r.at \in {"hash", "known"})
ShowsOne(r) == r.wrong = "second" \/ r.at \in {"renew", "data", "step", "code", "travelling", "remove"}

Guessing == {h \in Handlers : Guesses(run[h])}
GuessingFrom(n) == {h \in Handlers : GuessesFrom(run[h], n)}
Showing == {h \in Handlers : ShowsOne(run[h])}

TriesInv ==
    /\ Cardinality(Guessing) + tries.all + tries.known <= AccountTries + KnownTries + 2 * tries.back
    /\ \A n \in Networks : Cardinality(GuessingFrom(n)) + tries.network[n] <= NetworkTries + tries.back
    /\ Cardinality(Showing) + tries.second <= CodeTries + tries.back

LoginsIInv ==
    /\ LoginsTypeOK
    /\ MadeInv /\ (\A h \in Handlers : ShownInv(h)) /\ Alone
    /\ RecoveryWhileOn
    /\ TriedInv /\ TriesInv

=============================================================================
