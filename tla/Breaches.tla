------------------------------- MODULE Breaches -------------------------------
(***************************************************************************)
(* What the server asks others for its accounts (breaches.rs, hibp.rs):    *)
(* about passwords' prefixes and pages at once, XposedOrNot's passwords    *)
(* through one queue, addresses through another with a budget.  A queue is *)
(* a fair mutex: whoever is first in it holds what it guards, asks, and    *)
(* waits for the answer, while others wait behind, give up or hang up.     *)
(*                                                                         *)
(* Prefixes, addresses and hosts are subjects; what is answered about one  *)
(* is left out.  Those outside are external: they answer, refuse with or   *)
(* without saying for how long, or do not answer.                          *)
(***************************************************************************)
EXTENDS Outside, Sequences, SequencesExt, FiniteSetsExt

CONSTANTS
    Accounts, Subjects,
    BreachScenes,                   \* bound: what is asked for, how often, what may go wrong
    Spacing, LongestWait, LongestPause, Retries, PerAccount,  \* XonLimits
    PerHour, PerDay, PerAccountDay, FreshPerRequest, EmailWait, EmailKeep,  \* of addresses
    Hour, Day, Week,
    Burst, MostKept,                \* tries of an account; answers kept in memory
    BreachTime                      \* bound

ASSUME BreachesBounds ==
    /\ Spacing \in Nat \ {0} /\ LongestPause \in Nat /\ Day \in Nat /\ Hour \in 0..Day
    /\ {PerHour, PerDay, PerAccountDay} \subseteq Nat \ {0}
ASSUME BreachesIds == IsFiniteSet(Requests) /\ None \notin Nat

VARIABLES
    on,        \* the admin's switches
    tries,     \* what is left of an account's tries
    kept,      \* answers in memory: of XposedOrNot, of Have I Been Pwned, about pages
    xonQueue, waiting, next,        \* XonQueue: who holds or waits for it, places taken, from when on
    mailQueue, last, counted, blockedUntil,  \* Budget and its BudgetState
    agreed, answers,                \* rows: who agreed, when an address was answered
    told,      \* counted: the questions to XposedOrNot since the start, and until when it wants no other
    unpaid     \* counted: a question whose try came back

questions == <<tries, kept, xonQueue, waiting, next, mailQueue, last, counted, blockedUntil>>
breachesVars == <<scene, asked, harm, clock, on, request, questions, agreed, answers, told, unpaid>>

IsHead(queue, r) == queue # <<>> /\ Head(queue) = r
Without(queue, r) ==
    IF \E i \in DOMAIN queue : queue[i] = r
    THEN RemoveAt(queue, CHOOSE i \in DOMAIN queue : queue[i] = r)
    ELSE queue

(***************************************************************************)
(* Answers kept in memory                                                  *)
(***************************************************************************)
Young(of) == {e \in kept[of] : clock - e.at < (IF of = "page" THEN Week ELSE Day)}
Knows(of, key) == \E e \in Young(of) : e.key = key

(* At the limit what is too old goes, and if nothing is, everything.       *)
PutAnswer(of, key) ==
    LET room == IF Cardinality(kept[of]) < MostKept THEN kept[of]
                ELSE IF Cardinality(Young(of)) < MostKept THEN Young(of) ELSE {}
    IN kept' = [kept EXCEPT ![of] = {e \in room : e.key # key} \cup {[key |-> key, at |-> clock]}]

AllTries == [b \in {"prefixes", "pages"} |-> [a \in Accounts |-> Burst]]

(* The limiters: of prefixes, whoever is asked, and of pages.              *)
Bucket(of) == IF of = "page" THEN "pages" ELSE "prefixes"
Take(a, of) == tries[Bucket(of)][a] > 0 /\ tries' = [tries EXCEPT ![Bucket(of)][a] = @ - 1]
GiveBack(a, of) == tries' = [tries EXCEPT ![Bucket(of)][a] = Min({@ + 1, Burst})]

(* A page of a site, or a range of Have I Been Pwned: asked at once.       *)
AskAtOnce(r, of) ==
    \E a \in Accounts, x \in Subjects :
        /\ Asks(of) /\ on /\ request[r] = Ready
        /\ ~Knows(of, <<a, x>>) /\ Take(a, of)
        /\ Does(r, [at |-> of, who |-> a, about |-> x])
        /\ UNCHANGED <<scene, harm, clock, on, kept, xonQueue, waiting, next, mailQueue, last, counted,
                       blockedUntil, agreed, answers, told, unpaid>>

HibpRange(r) == AskAtOnce(r, "hibp")
ChangePassword(r) == AskAtOnce(r, "page")

RangeAnswered(r) ==
    /\ request[r].at = "hibp" /\ Does(r, Ready)
    /\ \/ PutAnswer("hibp", <<request[r].who, request[r].about>>)
       \/ UNCHANGED kept   \* no answer
    /\ UNCHANGED <<scene, asked, harm, clock, on, tries, xonQueue, waiting, next, mailQueue, last, counted,
                   blockedUntil, agreed, answers, told, unpaid>>

(* Also that there is none is kept.                                        *)
PageAnswered(r) ==
    /\ request[r].at = "page" /\ Does(r, Ready)
    /\ PutAnswer("page", <<request[r].who, request[r].about>>)
    /\ UNCHANGED <<scene, asked, harm, clock, on, tries, xonQueue, waiting, next, mailQueue, last, counted,
                   blockedUntil, agreed, answers, told, unpaid>>

(***************************************************************************)
(* XposedOrNot's passwords: one question at a time                         *)
(***************************************************************************)
xonRest == <<scene, harm, clock, on, mailQueue, last, counted, blockedUntil, agreed, answers>>

Enter(a) == waiting[a] < PerAccount /\ waiting' = [waiting EXCEPT ![a] = @ + 1]
LeaveQueue(r) ==
    /\ waiting' = [waiting EXCEPT ![request[r].who] = @ - 1]
    /\ xonQueue' = Without(xonQueue, r)
    /\ Does(r, Ready)

(* As many of the account wait as may: busy, and the try comes back.       *)
XonPassword(r) ==
    \E a \in Accounts, x \in Subjects :
        /\ Asks("xon") /\ on /\ request[r] = Ready
        /\ ~Knows("xon", <<a, x>>) /\ tries["prefixes"][a] > 0
        /\ \/ /\ Enter(a) /\ Take(a, "xon")
              /\ xonQueue' = Append(xonQueue, r)
              /\ Does(r, [at |-> "turn", who |-> a, about |-> x, since |-> clock, attempt |-> 0,
                             pause |-> 2 * Spacing])
           \/ waiting[a] >= PerAccount /\ UNCHANGED <<tries, waiting, xonQueue, request>>
        /\ UNCHANGED <<xonRest, kept, next, told, unpaid>>

Busy(r) ==
    /\ LeaveQueue(r) /\ GiveBack(request[r].who, "xon")
    /\ unpaid' = (unpaid \/ request[r].attempt > 0)
    /\ UNCHANGED <<xonRest, asked, kept, next, told>>

(* It waited for the others too long, or would wait for a pause too long.  *)
XonBusy(r) ==
    /\ request[r].at = "turn"
    /\ IF IsHead(xonQueue, r) THEN next > clock /\ next > request[r].since + LongestWait
       ELSE clock >= request[r].since + LongestWait
    /\ Busy(r)

XonAsks(r) ==
    /\ request[r].at = "turn" /\ IsHead(xonQueue, r) /\ next <= clock
    /\ Does(r, [request[r] EXCEPT !.at = "xon"])
    /\ told' = Append(told, [to |-> "xon", who |-> request[r].who, about |-> request[r].about,
                             at |-> clock, until |-> None, agreed |-> TRUE])
    /\ UNCHANGED <<xonRest, asked, tries, kept, xonQueue, waiting, next, unpaid>>

(* XonLimits::pause, what it asks for or twice as long each time.          *)
PauseAfter(retryAfter, pause) ==
    Min({LongestPause, Max({Spacing, IF retryAfter = None THEN pause ELSE retryAfter})})

(* The last question to XposedOrNot was answered, and when it wants the    *)
(* next.                                                                   *)
About(to) == {i \in DOMAIN told : told[i].to = to}
Answered(to, until) == LET i == Max(About(to)) IN told' = [told EXCEPT ![i].until = until]

XonAnswers(r) ==
    /\ request[r].at = "xon"
    /\ next' = clock + Spacing /\ Answered("xon", clock + Spacing)
    /\ LeaveQueue(r)
    /\ \/ PutAnswer("xon", <<request[r].who, request[r].about>>)
       \/ UNCHANGED kept   \* no answer
    /\ UNCHANGED <<xonRest, asked, tries, unpaid>>

(* Refused: the whole queue pauses, and it is asked again a few times.     *)
XonRefuses(r) ==
    /\ request[r].at = "xon"
    /\ \E retryAfter \in {None, 0, LongestPause, LongestPause + 1} :
          IF request[r].attempt >= Retries
          THEN /\ next' = clock + Spacing /\ Answered("xon", clock + Spacing)
               /\ LeaveQueue(r)
          ELSE LET from == clock + PauseAfter(retryAfter, request[r].pause) IN
               /\ next' = from /\ Answered("xon", from)
               /\ Does(r, [request[r] EXCEPT !.at = "turn", !.attempt = @ + 1, !.pause = 2 * @])
               /\ UNCHANGED <<waiting, xonQueue>>
    /\ UNCHANGED <<xonRest, asked, tries, kept, unpaid>>

(***************************************************************************)
(* Addresses: one question at a time, within a budget                      *)
(***************************************************************************)
mailRest == <<scene, clock, on, tries, kept, xonQueue, waiting, next, unpaid>>

SetOptIn(a) ==
    /\ Asks("agree") /\ on /\ agreed' = [agreed EXCEPT ![a] = ~@]
    /\ UNCHANGED <<mailRest, harm, request, mailQueue, last, counted, blockedUntil, answers, told>>

Emails(r) ==
    \E a \in Accounts, addresses \in SUBSET Subjects \ {{}} :
        /\ Asks("emails") /\ on /\ agreed[a] /\ request[r] = Ready
        /\ Does(r, [at |-> "look", who |-> a, todo |-> addresses, missing |-> {}])
        /\ UNCHANGED <<mailRest, harm, mailQueue, last, counted, blockedUntil, agreed, answers, told>>

IsAnswered(x) == answers[x] # None /\ answers[x] + EmailKeep >= clock

(* One address after the other in the answers kept; then into the line.    *)
LookUpAnswers(r) ==
    LET q == request[r] IN
    /\ q.at = "look"
    /\ \E x \in q.todo :
          LET missing == q.missing \cup (IF IsAnswered(x) THEN {} ELSE {x}) IN
          IF q.todo # {x}
          THEN Does(r, [q EXCEPT !.todo = @ \ {x}, !.missing = missing]) /\ UNCHANGED mailQueue
          ELSE IF missing = {} THEN Does(r, Ready) /\ UNCHANGED mailQueue
          ELSE /\ Does(r, [at |-> "line", who |-> q.who, missing |-> missing, since |-> clock, done |-> 0])
               /\ mailQueue' = Append(mailQueue, r)
    /\ UNCHANGED <<mailRest, asked, harm, last, counted, blockedUntil, agreed, answers, told>>

LeaveLine(r) == Does(r, Ready) /\ mailQueue' = Without(mailQueue, r)

(* It waited for the others too long: later.                               *)
MailGivesUp(r) ==
    /\ request[r].at = "line" /\ ~IsHead(mailQueue, r) /\ clock >= request[r].since + EmailWait
    /\ LeaveLine(r)
    /\ UNCHANGED <<mailRest, asked, harm, last, counted, blockedUntil, agreed, answers, told>>

Within(window, times) == {e \in times : clock - e.at < window}
Of(a, times) == {e \in times : e.who = a}

MustWaitForAll(a, times) ==
    \/ blockedUntil > clock
    \/ Cardinality(Within(Hour, times)) >= PerHour
    \/ Cardinality(times) >= PerDay

(* BudgetState::wait: whether a question of this account may go out now.   *)
MustWait(a, times) ==
    \/ blockedUntil > clock
    \/ Cardinality(Within(Hour, times)) >= PerHour
    \/ Cardinality(times) >= PerDay
    \/ Cardinality(Of(a, times)) >= PerAccountDay

NextAddress(r) ==
    LET q == request[r]
        times == Within(Day, counted)   \* forget_old
    IN
    /\ q.at = "line" /\ IsHead(mailQueue, r)
    /\ counted' = times
    /\ IF q.done >= FreshPerRequest \/ clock - q.since >= EmailWait \/ MustWait(q.who, times)
       THEN LeaveLine(r)
       ELSE /\ \E x \in q.missing : Does(r, [at |-> "pace", who |-> q.who, missing |-> q.missing, about |-> x,
                                              since |-> q.since, done |-> q.done])
            /\ UNCHANGED mailQueue
    /\ UNCHANGED <<mailRest, asked, harm, last, blockedUntil, agreed, answers, told>>

(* Counted before it goes out.                                             *)
MailAsks(r) ==
    LET q == request[r] IN
    /\ q.at = "pace" /\ (last # None => clock >= last + Spacing)
    /\ last' = clock /\ counted' = counted \cup {[who |-> q.who, at |-> clock]}
    /\ told' = Append(told, [to |-> "mail", who |-> q.who, about |-> q.about, at |-> clock,
                             until |-> None, agreed |-> agreed[q.who]])
    /\ Does(r, [q EXCEPT !.at = "mail"])
    /\ UNCHANGED <<mailRest, asked, harm, mailQueue, blockedUntil, agreed, answers>>

(* On to the next address, or out of the line after the last.              *)
GoesOn(r) ==
    LET q == request[r] IN
    IF q.missing = {q.about} THEN LeaveLine(r)
    ELSE /\ Does(r, [at |-> "line", who |-> q.who, missing |-> q.missing \ {q.about},
                     since |-> q.since, done |-> q.done + 1])
         /\ UNCHANGED mailQueue

MailAnswers(r) ==
    /\ request[r].at = "mail"
    /\ \/ Does(r, [request[r] EXCEPT !.at = "keep"]) /\ UNCHANGED mailQueue
       \/ GoesOn(r)   \* no answer, or none that can be read
    /\ Answered("mail", clock)
    /\ UNCHANGED <<mailRest, asked, harm, last, counted, blockedUntil, agreed, answers>>

(* XposedOrNot says 429: nothing for an hour.                              *)
MailRefuses(r) ==
    /\ Goes("429") /\ request[r].at = "mail"
    /\ blockedUntil' = clock + Hour /\ Answered("mail", clock + Hour)
    /\ LeaveLine(r)
    /\ UNCHANGED <<mailRest, asked, last, counted, agreed, answers>>

KeepAnswer(r) ==
    /\ request[r].at = "keep"
    /\ answers' = [answers EXCEPT ![request[r].about] = clock]
    /\ GoesOn(r)
    /\ UNCHANGED <<mailRest, asked, harm, last, counted, blockedUntil, agreed, told>>

(* Once a day old answers go.                                              *)
PruneAnswers ==
    /\ \E x \in Subjects : answers[x] # None /\ ~IsAnswered(x)
    /\ answers' = [x \in Subjects |-> IF IsAnswered(x) THEN answers[x] ELSE None]
    /\ UNCHANGED <<mailRest, asked, harm, request, mailQueue, last, counted, blockedUntil, agreed, told>>

(***************************************************************************)
(* Around it                                                               *)
(***************************************************************************)

(* A client hangs up: its request is dropped where it waits, its place in  *)
(* the queue comes back, its try does not.  Nobody waits for an answer to  *)
(* a question already sent.                                                *)
AskerHangsUp(r) ==
    LET q == request[r] IN
    /\ Goes("hang up") /\ q # Ready /\ Does(r, Ready)
    /\ xonQueue' = Without(xonQueue, r) /\ mailQueue' = Without(mailQueue, r)
    /\ waiting' = IF q.at \in {"turn", "xon"} THEN [waiting EXCEPT ![q.who] = @ - 1] ELSE waiting
    /\ IF q.at \in {"xon", "mail"} THEN Answered(q.at, 0) ELSE UNCHANGED told
    /\ UNCHANGED <<scene, asked, clock, on, tries, kept, next, last, counted, blockedUntil, agreed,
                   answers, unpaid>>

Off ==
    /\ Goes("off") /\ on' = FALSE
    /\ UNCHANGED <<scene, asked, clock, request, questions, agreed, answers, told, unpaid>>

(* The process ends, and nothing of memory is left.                        *)
BreachesStop ==
    /\ Goes("stop") /\ request' = [r \in Requests |-> Ready]
    /\ tries' = AllTries /\ kept' = [of \in DOMAIN kept |-> {}]
    /\ xonQueue' = <<>> /\ waiting' = [a \in Accounts |-> 0] /\ next' = clock
    /\ mailQueue' = <<>> /\ last' = None /\ counted' = {} /\ blockedUntil' = 0
    /\ told' = <<>>
    /\ UNCHANGED <<scene, asked, clock, on, agreed, answers, unpaid>>

(* A try comes back for everybody.                                         *)
BreachesTick ==
    /\ clock < BreachTime /\ clock' = clock + 1
    /\ tries' = [b \in DOMAIN tries |-> [a \in Accounts |-> Min({tries[b][a] + 1, Burst})]]
    /\ UNCHANGED <<scene, asked, harm, on, request, kept, xonQueue, waiting, next, mailQueue, last,
                   counted, blockedUntil, agreed, answers, told, unpaid>>

BreachesInit ==
    /\ scene \in BreachScenes /\ asked = 0 /\ harm = scene.harm /\ clock = 1 /\ on = TRUE
    /\ request = [r \in Requests |-> Ready]
    /\ tries = AllTries /\ kept = [of \in {"xon", "hibp", "page"} |-> {}]
    /\ xonQueue = <<>> /\ waiting = [a \in Accounts |-> 0] /\ next = 1
    /\ mailQueue = <<>> /\ last = None /\ counted = {} /\ blockedUntil = 0
    /\ agreed = [a \in Accounts |-> TRUE] /\ answers = [x \in Subjects |-> None]
    /\ told = <<>> /\ unpaid = FALSE

BreachesNext ==
    \/ \E r \in Requests :
          \/ HibpRange(r) \/ ChangePassword(r) \/ RangeAnswered(r) \/ PageAnswered(r)
          \/ XonPassword(r) \/ XonBusy(r) \/ XonAsks(r) \/ XonAnswers(r) \/ XonRefuses(r)
          \/ Emails(r) \/ LookUpAnswers(r) \/ MailGivesUp(r) \/ NextAddress(r) \/ MailAsks(r)
          \/ MailAnswers(r) \/ MailRefuses(r) \/ KeepAnswer(r)
          \/ AskerHangsUp(r)
    \/ \E a \in Accounts : SetOptIn(a)
    \/ PruneAnswers \/ Off \/ BreachesStop \/ BreachesTick

BreachesSpec == BreachesInit /\ [][BreachesNext]_breachesVars

(***************************************************************************)
(* What must hold                                                          *)
(***************************************************************************)
(* docs/uwu-api.md 15.2: XposedOrNot is asked about passwords one at a     *)
(* time, and not before it wants to be, whoever waits, gives up or asks    *)
(* again; of a question whose client hung up nobody knows.                 *)
XonIsNotRushed ==
    \A i, j \in About("xon") : i < j => told[i].until # None /\ told[j].at >= told[i].until

(* breaches.rs QueuePlace: the places an account has in the queue are as   *)
(* many as its requests that wait there or ask: none is lost, so nobody is *)
(* kept out for good, and none counts twice.                               *)
Places(a) == {r \in Requests : request[r].at \in {"turn", "xon"} /\ request[r].who = a}
PlacesMatch == \A a \in Accounts : waiting[a] = Cardinality(Places(a))

(* docs/uwu-api.md 15.4: what went out about addresses since the start is  *)
(* within the hour's, the day's and each account's share, at any time, and *)
(* nothing goes out in the hour after a 429.                               *)
Back(i, window) == {j \in About("mail") : j <= i /\ told[i].at - told[j].at < window}
BudgetKept ==
    \A i \in About("mail") :
        /\ Cardinality(Back(i, Hour)) <= PerHour
        /\ Cardinality(Back(i, Day)) <= PerDay
        /\ Cardinality({j \in Back(i, Day) : told[j].who = told[i].who}) <= PerAccountDay
        /\ \A j \in About("mail") : j < i => told[j].until # None /\ told[i].at >= told[j].until

(* All of it.                                                              *)
QuestionsInv == XonIsNotRushed /\ PlacesMatch /\ BudgetKept

(***************************************************************************)
(* What does not                                                           *)
(***************************************************************************)

(* "one at a time, at least 1 s apart" (docs/uwu-api.md 15.2): not after   *)
(* a client that hung up while its question was out.                       *)
OnePerSecond == \A i, j \in About("xon") : i < j => told[j].at >= told[i].at + Spacing

(* "Nothing was asked: the try comes back" (breaches.rs): also when it was *)
(* asked and refused, and the pause is too long to wait for.               *)
NothingWasAsked == ~unpaid

(* "Needs [...] the account's consent" (15.4): it is looked at before the  *)
(* line, and an address goes out after it was taken back.                  *)
OnlyWhileAgreed == \A i \in DOMAIN told : told[i].agreed

(* "Answers are kept 7 days" (15.4): two requests that both found none     *)
(* both ask.                                                               *)
AskedOnceAWeek ==
    \A i, j \in About("mail") :
        i < j /\ told[i].about = told[j].about /\ answers[told[i].about] # None
        => told[j].at > told[i].at + EmailKeep
=============================================================================
