------------------------------- MODULE Accounts -------------------------------
(***************************************************************************)
(* Accounts as they come and go: invitations and who registers with them,  *)
(* sign-ins through the login provider, people pushed by SCIM, and what    *)
(* administrators do.  Every transaction of the store is a step of its     *)
(* own; what a request read before may be old when it writes.              *)
(*                                                                         *)
(* There is one provider.  Its claims (a subject, a verified address, the  *)
(* admin group) are what a scene says it may send, and it sends one logout *)
(* token for a subject.  The checks of its answers, passwords, the second  *)
(* step (Logins), access tokens (Sessions), and the names and external     *)
(* ids SCIM sends are left out.                                            *)
(***************************************************************************)
EXTENDS Integers, FiniteSets

CONSTANTS
    Users,            \* ids of accounts, each used once
    Addresses, Subjects,
    Entries,          \* ids of people SCIM pushed
    Flows,            \* sign-ins at the provider: each has a state, and then a code
    Requests,
    None,
    Scenes,           \* what is there at the start, and what is asked
    Quota             \* invitations_per_user

ASSUME QuotaIsNumber == Quota \in Nat

Rights == {"given", "taken", "unsaid"}
Asks == {"signin", "grant", "logout", "invite", "adminInvite", "withdraw", "expire", "register", "family",
         "scim", "scimCreate", "scimDelete", "group", "portal", "delete", "resend"}

User == [email : Addresses, admin : BOOLEAN, disabled : BOOLEAN, password : BOOLEAN, by : Users \cup {None}]
Invitation == [by : Users \cup {None}, admin : BOOLEAN, late : BOOLEAN]
Entry == [email : Addresses, user : Users \cup {None}, active : BOOLEAN]
Claim == [subject : Subjects, email : Addresses, right : Rights]

\* A map that holds what there is.
IsMap(f, keys, values) == DOMAIN f \subseteq keys /\ f \in [DOMAIN f -> values]

ASSUME AccountIds ==
    /\ IsFiniteSet(Users) /\ IsFiniteSet(Addresses) /\ Addresses # {}
    /\ None \notin Users \cup Addresses \cup Flows \cup Entries /\ None \notin Claim

\* One account for an address; one entry for an account, and one for an address without; and
\* whoever is named is there.
TablesFit(people, entries) ==
    /\ \A u, x \in DOMAIN people : people[u].email = people[x].email => u = x
    /\ \A n, m \in DOMAIN entries :
          n # m /\ entries[n].user = entries[m].user =>
             entries[n].user = None /\ entries[n].email # entries[m].email
    /\ \A n \in DOMAIN entries : entries[n].user \in DOMAIN people \cup {None}
    /\ \A u \in DOMAIN people : people[u].by \in DOMAIN people \cup {None}

ASSUME AccountScenes ==
    \A s \in Scenes :
       /\ DOMAIN s = {"user", "invited", "entry", "claims", "open", "alone", "asks"}
       /\ IsMap(s.user, Users, User) /\ IsMap(s.invited, Addresses, Invitation)
       /\ IsMap(s.entry, Entries, Entry)
       /\ s.claims \subseteq Claim /\ s.open \in BOOLEAN /\ s.alone \in BOOLEAN /\ s.asks \subseteq Asks

\* The start is a database as the tables' constraints and the quota keep it, with invitations
\* that have not run out; where requests follow one another, with an admin.
ASSUME ScenesFit ==
    \A s \in Scenes :
       /\ TablesFit(s.user, s.entry)
       /\ \A e \in DOMAIN s.invited : s.invited[e].by \in DOMAIN s.user \cup {None} /\ ~s.invited[e].late
       /\ \A u \in DOMAIN s.user : ~s.user[u].admin =>
             Cardinality({x \in DOMAIN s.user : s.user[x].by = u})
               + Cardinality({e \in DOMAIN s.invited : s.invited[e].by = u}) <= Quota
       /\ s.alone => \E u \in DOMAIN s.user : s.user[u].admin /\ ~s.user[u].disabled

VARIABLES
    scene,
    user,             \* users, and gone: ids there were
    gone,
    invited,          \* invitations, by address
    entry,            \* scim_provisioned
    marked,           \* scim_disabled
    link,             \* sso_identities: the account of a subject
    sid,              \* sso_sessions: the account of the provider's session of a subject
    started,          \* sso_states
    code,             \* sso_codes
    device,           \* the accounts with a device that logged in through the provider
    used,             \* sso_logout_tokens, by the subject they are for
    logins, ended,    \* how often a sign-in ended in a login, and a token in a logout
    run               \* the requests

data == <<user, gone, invited, entry, marked, link, sid, started, code, device, used, logins, ended>>
vars == <<scene, data, run>>

Run == [at : {"idle", "identity", "link", "signup", "first", "undo", "claim", "session", "count", "right", "code",
              "second", "finish", "logout", "invite", "resend", "checked", "withdraw", "register",
              "off", "mark", "on", "entry", "drop", "going", "portal", "demote"},
        who : Users \cup {None}, flow : Flows \cup {None}, claim : Claim \cup {None},
        email : Addresses \cup {None}, by : Users \cup {None},
        entry : Entries \cup {None}, admin : BOOLEAN, off : BOOLEAN, last : BOOLEAN]

Fresh == [at |-> "idle", who |-> None, flow |-> None, claim |-> None, email |-> None, by |-> None,
          entry |-> None, admin |-> FALSE, off |-> FALSE, last |-> FALSE]

Init ==
    /\ scene \in Scenes
    /\ user = scene.user /\ invited = scene.invited /\ entry = scene.entry
    /\ gone = {} /\ marked = {} /\ device = {} /\ used = {} /\ started = Flows
    /\ link = [s \in {} |-> None] /\ sid = [s \in {} |-> None] /\ code = [f \in {} |-> None]
    /\ logins = [f \in Flows |-> 0] /\ ended = [t \in Subjects |-> 0]
    /\ run = [q \in Requests |-> Fresh]

-----------------------------------------------------------------------------

Without(f, S) == [x \in DOMAIN f \ S |-> f[x]]
With(f, x, v) == [y \in DOMAIN f \cup {x} |-> IF y = x THEN v ELSE f[y]]

Asked(what) == what \in scene.asks
Free(q) == run[q] = Fresh /\ (scene.alone => \A p \in Requests : run[p] = Fresh)

Goes(q, r) == run' = [run EXCEPT ![q] = r]
Over(q) == Goes(q, Fresh)
Then(q, at) == Goes(q, [run[q] EXCEPT !.at = at])

\* user_by_email, sso_identity_of.
UsersWith(e) == {u \in DOMAIN user : user[u].email = e}
Linked(u) == \E s \in DOMAIN link : link[s] = u

\* admin_count: admins that are disabled do not count.
AdminCountAll == Cardinality({u \in DOMAIN user : user[u].admin})

AdminCount == Cardinality({u \in DOMAIN user : user[u].admin /\ ~user[u].disabled})

\* scim_user_of and entry_person: an entry without an account is the account's of its address.
EntriesOf(u) == {n \in DOMAIN entry : entry[n].user = u}
PersonOf(n) == IF entry[n].user # None THEN {entry[n].user} ELSE UsersWith(entry[n].email)

\* claim_scim_user: one entry for an account.
Claimed(e, u) ==
    [n \in DOMAIN entry |->
        IF entry[n].email = e /\ entry[n].user = None /\ EntriesOf(u) = {} THEN [entry[n] EXCEPT !.user = u]
        ELSE entry[n]]

\* create_user: none for an address that has one; the invitation is used up with it, and whoever
\* sent it brought the account in.
BroughtInByNobody(e) == None

BroughtInBy(e) == IF e \in DOMAIN invited THEN invited[e].by ELSE None

MayBeMade(e) == UsersWith(e) = {}

CreateUser(u, e, admin, password) ==
    /\ u \notin DOMAIN user \cup gone
    /\ \A x \in Users : x \notin DOMAIN user \cup gone => u = CHOOSE y \in Users : y \notin DOMAIN user \cup gone
    /\ user' = With(user, u, [email |-> e, admin |-> admin, disabled |-> FALSE, password |-> password,
                              by |-> BroughtInBy(e)])
    /\ invited' = Without(invited, {e})
    /\ UNCHANGED <<gone, entry, marked, link, sid, started, code, device, used, logins, ended>>

\* delete_user, and what goes with it (ON DELETE CASCADE, SET NULL).
RangeWithout(f, u) == [x \in {x \in DOMAIN f : f[x] # u} |-> f[x]]

DeleteUser(u) ==
    LET brought(r) == IF r.by = u THEN [r EXCEPT !.by = None] ELSE r
    IN  /\ user' = [x \in DOMAIN user \ {u} |-> brought(user[x])]
        /\ gone' = gone \cup ({u} \cap DOMAIN user)
        /\ invited' = [e \in DOMAIN invited |-> brought(invited[e])]
        /\ entry' = Without(entry, EntriesOf(u))
        /\ marked' = marked \ {u}
        /\ link' = RangeWithout(link, u) /\ sid' = RangeWithout(sid, u) /\ code' = RangeWithout(code, u)
        /\ device' = device \ {u}
        /\ UNCHANGED <<started, used, logins, ended>>

\* update_user: nothing for an account that is gone.
Update(u, row) ==
    /\ user' = IF u \in DOMAIN user THEN [user EXCEPT ![u] = row] ELSE user
    /\ UNCHANGED <<gone, invited, entry, link, sid, started, code, device, used, logins, ended>>

\* A trigger: whoever is enabled, in any way, loses the mark.
SetDisabled(u, off) ==
    /\ Update(u, [user[u] EXCEPT !.disabled = off])
    /\ marked' = IF off THEN marked ELSE marked \ {u}

SetAdmin(u, admin) ==
    /\ Update(u, [user[u] EXCEPT !.admin = admin])
    /\ UNCHANGED marked

Refuses(q) == Over(q) /\ UNCHANGED data

\* A check that is not in the model refuses, or the client hangs up.
Ends(q) == run[q] # Fresh /\ Refuses(q)

-----------------------------------------------------------------------------
(* A sign-in through the provider.                                         *)

\* signin: the state is taken, and the provider answers with its claims.
Signin(q) ==
    /\ Free(q) /\ Asked("signin")
    /\ \E f \in started, c \in scene.claims :
          /\ started' = started \ {f}
          /\ Goes(q, [Fresh EXCEPT !.at = "identity", !.flow = f, !.claim = c])
    /\ UNCHANGED <<user, gone, invited, entry, marked, link, sid, code, device, used, logins, ended>>

\* sign_up: by an invitation, an entry that is active, or for everybody.
MaySignUp(e) ==
    \/ scene.open
    \/ e \in DOMAIN invited /\ ~invited[e].late
    \/ \E n \in DOMAIN entry : entry[n].email = e /\ entry[n].user = None /\ entry[n].active

\* account_for: by the subject, else by the address, which must not have another login here.
AccountFor(q) ==
    LET c == run[q].claim
        known == IF c.subject \in DOMAIN link THEN {link[c.subject]} ELSE UsersWith(c.email)
        found(u, at) == Goes(q, [run[q] EXCEPT !.at = at, !.who = u, !.admin = user[u].admin])
    IN  /\ run[q].at = "identity"
        /\ \/ \E u \in known : /\ ~user[u].disabled
                               /\ \/ c.subject \in DOMAIN link /\ found(u, "session")
                                  \/ c.subject \notin DOMAIN link /\ ~Linked(u) /\ found(u, "link")
           \/ /\ known = {} /\ MaySignUp(c.email)
              /\ LET invitedAs == c.email \in DOMAIN invited /\ ~invited[c.email].late /\ invited[c.email].admin
                 IN  Goes(q, [run[q] EXCEPT !.at = "signup", !.admin = invitedAs \/ c.right = "given"])
        /\ UNCHANGED data

\* link_sso: a subject has one account, an account one login here.
CanLinkAnother(s, u) == s \notin DOMAIN link /\ u \in DOMAIN user

CanLink(s, u) == s \notin DOMAIN link /\ ~Linked(u) /\ u \in DOMAIN user

LinkSso(q) ==
    LET u == run[q].who
        s == run[q].claim.subject
    IN  /\ run[q].at = "link" /\ CanLink(s, u)
        /\ link' = With(link, s, u)
        /\ Then(q, "session")
        /\ UNCHANGED <<user, gone, invited, entry, marked, sid, started, code, device, used, logins, ended>>

SignUp(q) ==
    /\ run[q].at = "signup" /\ MayBeMade(run[q].claim.email)
    /\ \E u \in Users : /\ CreateUser(u, run[q].claim.email, run[q].admin, FALSE)
                        /\ Goes(q, [run[q] EXCEPT !.at = "first", !.who = u])

LinkFirst(q) ==
    LET u == run[q].who
        s == run[q].claim.subject
    IN  /\ run[q].at = "first"
        /\ IF CanLink(s, u) THEN link' = With(link, s, u) /\ Then(q, "claim")
           ELSE Then(q, "undo") /\ UNCHANGED link
        /\ UNCHANGED <<user, gone, invited, entry, marked, sid, started, code, device, used, logins, ended>>

\* The account that was just made is deleted when its login belongs to another one.
Undo(q) == run[q].at = "undo" /\ DeleteUser(run[q].who) /\ Over(q)

ClaimEntry(q) ==
    /\ run[q].at = "claim"
    /\ entry' = IF run[q].who \in DOMAIN user THEN Claimed(run[q].claim.email, run[q].who) ELSE entry
    /\ Then(q, "session")
    /\ UNCHANGED <<user, gone, invited, marked, link, sid, started, code, device, used, logins, ended>>

\* sso_session_started, when the provider names its session; then the admin right may change.
StartSession(q) ==
    LET c == run[q].claim IN
    /\ run[q].at = "session"
    /\ \/ UNCHANGED sid
       \/ run[q].who \in DOMAIN user /\ sid' = With(sid, c.subject, run[q].who)
    /\ Then(q, IF c.right = "given" /\ ~run[q].admin THEN "right"
               ELSE IF c.right = "taken" /\ run[q].admin THEN "count" ELSE "code")
    /\ UNCHANGED <<user, gone, invited, entry, marked, link, started, code, device, used, logins, ended>>

CountAdmins(q) ==
    /\ run[q].at = "count"
    /\ Then(q, IF AdminCount <= 1 THEN "code" ELSE "right")
    /\ UNCHANGED data

FollowAdminRight(q) ==
    /\ run[q].at = "right"
    /\ SetAdmin(run[q].who, ~run[q].admin)
    /\ Then(q, "code")

PutCode(q) ==
    /\ run[q].at = "code" /\ run[q].who \in DOMAIN user
    /\ code' = With(code, run[q].flow, run[q].who)
    /\ Over(q)
    /\ UNCHANGED <<user, gone, invited, entry, marked, link, sid, started, device, used, logins, ended>>

\* grant: the code stays until the second step is through, and is taken once.
ReadCode(q) ==
    /\ Free(q) /\ Asked("grant")
    /\ \E f \in DOMAIN code : /\ ~user[code[f]].disabled
                              /\ Goes(q, [Fresh EXCEPT !.at = "second", !.flow = f, !.who = code[f]])
    /\ UNCHANGED data

StillThereAsRead(f) == TRUE

StillThere(f) == f \in DOMAIN code

TakeSsoCode(q) ==
    /\ run[q].at = "second" /\ StillThere(run[q].flow)
    /\ code' = Without(code, {run[q].flow})
    /\ Then(q, "finish")
    /\ UNCHANGED <<user, gone, invited, entry, marked, link, sid, started, device, used, logins, ended>>

FinishLogin(q) ==
    /\ run[q].at = "finish" /\ run[q].who \in DOMAIN user
    /\ device' = device \cup {run[q].who}
    /\ logins' = [logins EXCEPT ![run[q].flow] = @ + 1]
    /\ Over(q)
    /\ UNCHANGED <<user, gone, invited, entry, marked, link, sid, started, code, used, ended>>

\* backchannel_logout: whose session it was is read first, by the subject or the provider's
\* session; the token is taken with the logout.
FindSession(q) ==
    /\ Free(q) /\ Asked("logout")
    /\ \E s \in Subjects, by \in {link, sid} :
          Goes(q, [Fresh EXCEPT !.at = "logout", !.claim = CHOOSE c \in Claim : c.subject = s,
                                !.who = IF s \in DOMAIN by THEN by[s] ELSE None])
    /\ UNCHANGED data

BackChannelLogout(q) ==
    LET s == run[q].claim.subject
        u == run[q].who
    IN  /\ run[q].at = "logout" /\ s \notin used
        /\ used' = used \cup {s}
        /\ ended' = [ended EXCEPT ![s] = @ + 1]
        /\ device' = device \ {u}
        /\ sid' = RangeWithout(sid, u)
        /\ Over(q)
        /\ UNCHANGED <<user, gone, invited, entry, marked, link, started, code, logins>>

-----------------------------------------------------------------------------
(* Invitations.                                                            *)

Invite(e, by, admin) ==
    /\ invited' = With(invited, e, [by |-> by, admin |-> admin, late |-> FALSE])
    /\ UNCHANGED <<user, gone, entry, marked, link, sid, started, code, device, used, logins, ended>>

\* What counts against a quota: accounts brought in, and invitations that still may bring one.
BroughtIn(u) == {x \in DOMAIN user : user[x].by = u}
OpenBy(u) == {e \in DOMAIN invited : invited[e].by = u /\ ~invited[e].late}
OpenInvitations(u, e) == Cardinality(OpenBy(u) \ {e})

InvitedBy(u, e) == Cardinality(BroughtIn(u)) + Cardinality(OpenBy(u) \ {e})

\* create (invitations.rs), or the invitation a family's brings along: none there but one's own.
AskToInvite(q) ==
    /\ Free(q)
    /\ \E u \in DOMAIN user, e \in Addresses :
          /\ ~user[u].disabled
          /\ \/ Asked("invite") /\ (e \in DOMAIN invited => invited[e].by = u)
             \/ Asked("family") /\ (e \in DOMAIN invited => invited[e].late)
          /\ Goes(q, [Fresh EXCEPT !.at = "invite", !.who = u, !.email = e, !.admin = user[u].admin])
    /\ UNCHANGED data

\* invite_within: counted and written in one transaction.
WithinQuotaOf(u, e) == InvitedBy(u, e) < Quota

InviteWithin(q) ==
    /\ run[q].at = "invite" /\ ~run[q].admin
    /\ WithinQuotaOf(run[q].who, run[q].email)
    /\ run[q].who \in DOMAIN user
    /\ Invite(run[q].email, run[q].who, FALSE)
    /\ Over(q)

\* An admin, without a quota, only addresses without an account (invite, admin.rs).
AskAsAdmin(q) ==
    \/ /\ run[q].at = "invite" /\ run[q].admin /\ UsersWith(run[q].email) = {}
       /\ Goes(q, [run[q] EXCEPT !.at = "checked", !.by = run[q].who, !.admin = FALSE])
       /\ UNCHANGED data
    \/ /\ Free(q) /\ Asked("adminInvite")
       /\ \E u \in DOMAIN user, e \in Addresses, admin \in BOOLEAN :
             /\ user[u].admin /\ ~user[u].disabled /\ UsersWith(e) = {}
             /\ Goes(q, [Fresh EXCEPT !.at = "checked", !.email = e, !.by = u, !.admin = admin])
       /\ UNCHANGED data

InviteChecked(q) ==
    /\ run[q].at = "checked"
    /\ run[q].by \in DOMAIN user \cup {None}
    /\ Invite(run[q].email, run[q].by, run[q].admin)
    /\ Over(q)

\* send_verification_email: the mail goes out again, with what the invitation said.
AskForMail(q) ==
    /\ Free(q) /\ Asked("resend")
    /\ \E e \in DOMAIN invited :
          /\ ~invited[e].late
          /\ Goes(q, [Fresh EXCEPT !.at = "resend", !.email = e, !.by = invited[e].by, !.admin = invited[e].admin])
    /\ UNCHANGED data

MailAgain(q) ==
    /\ run[q].at = "resend" /\ UsersWith(run[q].email) = {}
    /\ Then(q, "checked") /\ UNCHANGED data

AskToWithdraw(q) ==
    /\ Free(q) /\ Asked("withdraw")
    /\ \E e \in DOMAIN invited :
          /\ invited[e].by \in DOMAIN user
          /\ Goes(q, [Fresh EXCEPT !.at = "withdraw", !.email = e])
    /\ UNCHANGED data

Uninvite(q) ==
    /\ run[q].at = "withdraw"
    /\ invited' = Without(invited, {run[q].email})
    /\ Over(q)
    /\ UNCHANGED <<user, gone, entry, marked, link, sid, started, code, device, used, logins, ended>>

\* register_finish: the invitation is read, the password hashed, and the account made.
ReadInvitation(q) ==
    /\ Free(q) /\ Asked("register")
    /\ \E e \in DOMAIN invited :
          /\ ~invited[e].late
          /\ Goes(q, [Fresh EXCEPT !.at = "register", !.email = e, !.admin = invited[e].admin])
    /\ UNCHANGED data

Register(q) ==
    /\ run[q].at = "register" /\ MayBeMade(run[q].email)
    /\ \E u \in Users : CreateUser(u, run[q].email, run[q].admin, TRUE)
    /\ Over(q)

\* An invitation runs out, and is swept a month later.
RunsOut(e) ==
    /\ Asked("expire") /\ e \in DOMAIN invited
    /\ invited' = IF invited[e].late THEN Without(invited, {e}) ELSE [invited EXCEPT ![e].late = TRUE]
    /\ UNCHANGED <<user, gone, entry, marked, link, sid, started, code, device, used, logins, ended, run>>

-----------------------------------------------------------------------------
(* Who may stay.                                                           *)

\* keep_last_admin: counted when the account was read.
MayGo(u) == user[u].admin /\ ~user[u].disabled => AdminCount > 1

\* apply and delete_user of SCIM, for an account; only what SCIM disabled may it enable.
ReadPerson(q) ==
    /\ Free(q)
    /\ \E u \in DOMAIN user :
          \/ /\ Asked("scim") /\ ~user[u].disabled /\ MayGo(u)
             /\ Goes(q, [Fresh EXCEPT !.at = "off", !.who = u])
          \/ /\ Asked("scim") /\ user[u].disabled /\ u \in marked
             /\ Goes(q, [Fresh EXCEPT !.at = "on", !.who = u])
          \/ /\ Asked("scimDelete") /\ MayGo(u)
             /\ \E at \in {"going"} \cup (IF user[u].disabled THEN {} ELSE {"off"}) :
                   Goes(q, [Fresh EXCEPT !.at = at, !.who = u])
    /\ UNCHANGED data

Disable(q) == run[q].at = "off" /\ SetDisabled(run[q].who, TRUE) /\ Then(q, "mark")

MarkDisabled(q) ==
    /\ run[q].at = "mark"
    /\ marked' = marked \cup ({run[q].who} \cap DOMAIN user)
    /\ Over(q)
    /\ UNCHANGED <<user, gone, invited, entry, link, sid, started, code, device, used, logins, ended>>

Enable(q) == run[q].at = "on" /\ SetDisabled(run[q].who, FALSE) /\ Over(q)

\* An entry is read; if its address has an account by now, that takes it over.
ReadEntry(q) ==
    /\ Free(q)
    /\ \E n \in DOMAIN entry :
          \/ /\ entry[n].user = None /\ Asked("scim")
             /\ \E u \in UsersWith(entry[n].email) : entry' = Claimed(entry[n].email, u)
             /\ UNCHANGED run
          \/ /\ PersonOf(n) = {}
             /\ \/ Asked("scim") /\ \E off \in BOOLEAN :
                      Goes(q, [Fresh EXCEPT !.at = "entry", !.entry = n, !.email = entry[n].email, !.off = off])
                \/ Asked("scimDelete") /\ Goes(q, [Fresh EXCEPT !.at = "drop", !.entry = n])
             /\ UNCHANGED entry
    /\ UNCHANGED <<user, gone, invited, marked, link, sid, started, code, device, used, logins, ended>>

\* apply, for the external id of an account: its entry as it was read, or a first one.
ReadOwnEntry(q) ==
    /\ Free(q) /\ Asked("scim")
    /\ \E u \in DOMAIN user, n \in Entries :
          /\ n \in EntriesOf(u) \/ (EntriesOf(u) = {} /\ n \notin DOMAIN entry)
          /\ Goes(q, [Fresh EXCEPT !.at = "entry", !.who = u, !.entry = n, !.email = user[u].email,
                                   !.off = n \in DOMAIN entry /\ ~entry[n].active])
    /\ UNCHANGED data

\* create_user of SCIM: nobody has the address.
AskForEntry(q) ==
    /\ Free(q) /\ Asked("scimCreate")
    /\ \E e \in Addresses, n \in Entries \ DOMAIN entry :
          /\ UsersWith(e) = {} /\ \A x \in DOMAIN entry : entry[x].user = None => entry[x].email # e
          /\ Goes(q, [Fresh EXCEPT !.at = "entry", !.entry = n, !.email = e])
    /\ UNCHANGED data

\* put_scim_user: the whole row as it was read; one for an account, one without for an address.
PutEntry(q) ==
    LET n == run[q].entry
        u == run[q].who
    IN  /\ run[q].at = "entry"
        /\ \A x \in DOMAIN entry \ {n} :
              entry[x].user = u => u = None /\ entry[x].email # run[q].email
        /\ u \in DOMAIN user \cup {None}
        /\ entry' = With(entry, n, [email |-> run[q].email, user |-> u, active |-> ~run[q].off])
        /\ Over(q)
        /\ UNCHANGED <<user, gone, invited, marked, link, sid, started, code, device, used, logins, ended>>

DropEntry(q) ==
    /\ run[q].at = "drop"
    /\ entry' = Without(entry, {run[q].entry})
    /\ Over(q)
    /\ UNCHANGED <<user, gone, invited, marked, link, sid, started, code, device, used, logins, ended>>

\* left_admin_group: an admin out of the group, unless they are the last.
LeavesGroup(q) ==
    /\ Free(q) /\ Asked("group")
    /\ \E u \in DOMAIN user : /\ user[u].admin /\ AdminCount > 1
                              /\ Goes(q, [Fresh EXCEPT !.at = "demote", !.who = u])
    /\ UNCHANGED data

LeftAdminGroup(q) == run[q].at = "demote" /\ SetAdmin(run[q].who, FALSE) /\ Over(q)

\* user_action and delete_user of the portal: the account is read, and whether it is the last
\* admin; then what was asked is done, mostly not to oneself.
ReadTarget(q) ==
    /\ Free(q) /\ Asked("portal")
    /\ \E a, u \in DOMAIN user :
          /\ user[a].admin /\ ~user[a].disabled
          /\ Goes(q, [Fresh EXCEPT !.at = "portal", !.who = u, !.by = a, !.last = user[u].admin /\ AdminCount <= 1])
    /\ UNCHANGED data

UserAction(q) ==
    LET u == run[q].who IN
    /\ run[q].at = "portal"
    /\ \/ u # run[q].by /\ SetDisabled(u, TRUE)
       \/ SetDisabled(u, FALSE)
       \/ SetAdmin(u, TRUE)
       \/ ~run[q].last /\ SetAdmin(u, FALSE)
       \/ u # run[q].by /\ DeleteUser(u)
    /\ Over(q)

\* delete_account: with the password.
AskToGo(q) ==
    /\ Free(q) /\ Asked("delete")
    /\ \E u \in DOMAIN user : /\ ~user[u].disabled /\ (user[u].admin => AdminCount > 1)
                              /\ Goes(q, [Fresh EXCEPT !.at = "going", !.who = u])
    /\ UNCHANGED data

DeleteAccount(q) == run[q].at = "going" /\ DeleteUser(run[q].who) /\ Over(q)

-----------------------------------------------------------------------------

ThroughProvider(q) ==
    \/ Signin(q) \/ AccountFor(q) \/ LinkSso(q) \/ SignUp(q) \/ LinkFirst(q) \/ Undo(q) \/ ClaimEntry(q)
    \/ StartSession(q) \/ CountAdmins(q) \/ FollowAdminRight(q) \/ PutCode(q)
    \/ ReadCode(q) \/ TakeSsoCode(q) \/ FinishLogin(q) \/ FindSession(q) \/ BackChannelLogout(q)

Invitations(q) ==
    \/ AskToInvite(q) \/ InviteWithin(q) \/ AskAsAdmin(q) \/ InviteChecked(q) \/ AskForMail(q) \/ MailAgain(q)
    \/ AskToWithdraw(q) \/ Uninvite(q) \/ ReadInvitation(q) \/ Register(q)

Administration(q) ==
    \/ ReadPerson(q) \/ Disable(q) \/ MarkDisabled(q) \/ Enable(q)
    \/ ReadEntry(q) \/ ReadOwnEntry(q) \/ AskForEntry(q) \/ PutEntry(q) \/ DropEntry(q)
    \/ LeavesGroup(q) \/ LeftAdminGroup(q) \/ ReadTarget(q) \/ UserAction(q) \/ AskToGo(q) \/ DeleteAccount(q)

Next ==
    /\ \/ \E q \in Requests : ThroughProvider(q) \/ Invitations(q) \/ Administration(q) \/ Ends(q)
       \/ \E e \in Addresses : RunsOut(e)
    /\ UNCHANGED scene

Spec == Init /\ [][Next]_vars

-----------------------------------------------------------------------------
(* Properties.                                                             *)

TypeOK ==
    /\ scene \in Scenes
    /\ IsMap(user, Users, User) /\ gone \subseteq Users \ DOMAIN user
    /\ IsMap(invited, Addresses, Invitation)
    /\ IsMap(entry, Entries, Entry)
    /\ IsMap(link, Subjects, Users) /\ IsMap(sid, Subjects, Users) /\ IsMap(code, Flows, Users)
    /\ started \subseteq Flows /\ used \subseteq Subjects
    /\ logins \in [Flows -> Nat] /\ ended \in [Subjects -> Nat]
    /\ run \in [Requests -> Run]

\* What the provider hands out counts once, however often it comes and however the requests
\* interleave: a code makes one login, and a logout token ends the sessions there are once, never
\* those that were opened since (take_sso_code, back_channel_logout).
CountsOnce == (\A f \in Flows : logins[f] <= 1) /\ (\A s \in Subjects : ended[s] <= 1)

\* Accounts, logins at the provider and entries fit together, whatever order sign-ups, SCIM and
\* deletions wrote in: one account for an address, one login at the provider for an account, one
\* entry for an account and one for an address without; and nothing is of an account that is gone.
\* A code and a logout token of the provider count once on the way.
AccountsInv ==
    /\ TypeOK /\ CountsOnce
    /\ TablesFit(user, entry)
    /\ \A s, t \in DOMAIN link : link[s] = link[t] => s = t
    /\ \A s \in DOMAIN link : link[s] \in DOMAIN user
    /\ \A s \in DOMAIN sid : sid[s] \in DOMAIN user
    /\ \A f \in DOMAIN code : code[f] \in DOMAIN user
    /\ \A e \in DOMAIN invited : invited[e].by \in DOMAIN user \cup {None}
    /\ device \cup marked \subseteq DOMAIN user

\* As long as one request follows the other, no mix of portal, SCIM, group, provider and deletion
\* leaves the server without an admin who can log in.
AnAdminStays == scene.alone => AdminCount > 0

\* Invitations sent, withdrawn and used at once do not pass the quota of who is no admin, as long
\* as none runs out and nobody asks for a mail again, which both write what they read, and nobody
\* who invited as an admin loses the right.
WithinQuota ==
    (scene.asks \cap {"expire", "resend", "portal", "group"} = {} /\ \A c \in scene.claims : c.right # "taken") =>
        \A u \in DOMAIN user : ~user[u].admin => Cardinality(BroughtIn(u)) + Cardinality(OpenBy(u)) <= Quota

\* What the code does not hold: an account that a login at the provider was linked to is not
\* deleted by a sign-up that was refused.
LinkedStays == [][\A q \in Requests : Undo(q) => ~Linked(run[q].who)]_vars

=============================================================================
