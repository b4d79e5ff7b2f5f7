------------------------------- MODULE Masked -------------------------------
(***************************************************************************)
(* One account's connection to UwUMail: the client this server registered  *)
(* there, connects that wait for their answer, the grant and its rotating  *)
(* tokens, and the links between masked addresses and items.  UwUMail ends *)
(* a grant when an old refresh token comes again, so refreshing happens    *)
(* under a lock, and the new token is kept before it is used.              *)
(*                                                                         *)
(* UwUMail is modelled by what the code asks of it.  A refresh token is    *)
(* its grant and how often that was refreshed; an access token is the same *)
(* pair.  Besides a no, a call may be lost on its way there or on its way  *)
(* back; a request ends early when its client hangs up, all of them when   *)
(* the server stops.  How often each happens is part of the scene.         *)
(***************************************************************************)
EXTENDS Asking, Sequences, FiniteSets

CONSTANTS
    ItemIds,       \* the items that may have an address
    Mailboxes,
    MaskedScenes,  \* bound: what is asked for, how often, and what goes wrong once each
    MostPending,   \* MOST_PENDING
    MostCodes      \* masked_codes_account and masked_codes_server, the smaller

VARIABLES
    harm,          \* what may still go wrong
    allowed,       \* whether the admin's list has the server
    account,       \* whether the account is there
    connection,    \* the row of masked_connections, or None
    links,         \* the rows of masked_links
    client,        \* the row of masked_clients, or None
    pending,       \* connects that wait for UwUMail's answer: their clients
    backingOff,    \* UwUMail said 429 a short while ago
    codes,         \* tries left
    lock,          \* who holds the account's lock
    grants, clients, addresses,   \* what UwUMail has
    reused,        \* grants UwUMail ended because an old token came again
    unanswered     \* grants somebody did not learn of: a call lost, cut short or refused

Tokens == [grant : Nat, turn : Nat]
Connection ==
    [grant : Nat, turn : Nat, lasts : BOOLEAN, client : Nat, mailbox : Mailboxes,
     status : {"ok", "revoked", "unreachable"}]

ASSUME MaskedBounds == MostCodes \in Nat
ASSUME MaskedNone == None \notin Connection \cup Tokens \cup Requests

memory == <<pending, backingOff, codes, lock, request>>
store == <<account, connection, links, client>>
uwumail == <<grants, clients, addresses, reused>>
bounds == <<scene, asked, harm>>
maskedVars == <<bounds, allowed, store, memory, uwumail, unanswered>>

AsksOf(what) == account /\ Asks(what)
Goes(wrong) == wrong \in harm /\ harm' = harm \ {wrong}

Active == {g \in DOMAIN grants : ~grants[g].ended}
Ended(g) == grants' = [grants EXCEPT ![g].ended = TRUE]

(***************************************************************************)
(* An access token that works (access)                                     *)
(***************************************************************************)
Usable == connection # None /\ allowed /\ connection.status # "revoked"

Token(c) == [grant |-> c.grant, turn |-> c.turn]

(* Not: what was read before the lock was there.                           *)
AccessUnlocked(r) ==
    /\ request[r].at = "access"
    /\ IF ~Usable \/ backingOff
       THEN Does(r, Ready)
       ELSE IF connection.lasts /\ request[r].stale # Token(connection)
       THEN Does(r, [request[r] EXCEPT !.at = "call", !.token = Token(connection)])
       ELSE Does(r, [request[r] EXCEPT !.at = "refresh", !.token = Token(connection)])
    /\ UNCHANGED <<bounds, allowed, store, pending, backingOff, codes, lock, uwumail, unanswered>>

(* Read under the lock: the token kept, or a new one when it runs out or   *)
(* is the one UwUMail just refused.                                        *)
Access(r) ==
    /\ request[r].at = "access" /\ lock = None
    /\ \/ /\ ~Usable
          /\ Does(r, Ready) /\ UNCHANGED lock
       \/ /\ Usable /\ connection.lasts /\ request[r].stale # Token(connection)
          /\ Does(r, [request[r] EXCEPT !.at = "call", !.token = Token(connection)])
          /\ UNCHANGED lock
       \/ /\ Usable /\ ~(connection.lasts /\ request[r].stale # Token(connection))
          /\ IF backingOff THEN Does(r, Ready) /\ UNCHANGED lock
             ELSE /\ Does(r, [request[r] EXCEPT !.at = "refresh", !.token = Token(connection)])
                  /\ lock' = r
    /\ UNCHANGED <<bounds, allowed, store, pending, backingOff, codes, uwumail, unanswered>>

(* uwumail::refresh: UwUMail takes the newest token once and gives another;*)
(* an older one ends the grant.  A new token for fewer scopes is refused   *)
(* here, and not kept.                                                     *)
Refresh(r) ==
    LET t == request[r].token
        known == grants[t.grant].client \in clients
        says(what) == Does(r, [request[r] EXCEPT !.at = "keep", !.said = what])
    IN  /\ request[r].at = "refresh"
        /\ \/ /\ known /\ t.grant \in Active /\ grants[t.grant].turn = t.turn
              /\ grants' = [grants EXCEPT ![t.grant].turn = t.turn + 1]
              /\ says("token") /\ UNCHANGED <<reused, unanswered, harm>>
           \/ /\ known /\ t.grant \in Active /\ grants[t.grant].turn # t.turn
              /\ Ended(t.grant) /\ reused' = reused \cup {t.grant}
              /\ says("invalid_grant") /\ UNCHANGED <<unanswered, harm>>
           \/ /\ known /\ t.grant \notin Active
              /\ says("invalid_grant") /\ UNCHANGED <<grants, reused, unanswered, harm>>
           \/ /\ ~known
              /\ says("invalid_client") /\ UNCHANGED <<grants, reused, unanswered, harm>>
           \/ /\ Goes("scope") /\ known /\ t.grant \in Active /\ grants[t.grant].turn = t.turn
              /\ grants' = [grants EXCEPT ![t.grant].turn = t.turn + 1]
              /\ unanswered' = unanswered \cup {t.grant}
              /\ says("invalid_scope") /\ UNCHANGED reused
           \/ /\ Goes("limited")
              /\ says("limited") /\ UNCHANGED <<grants, reused, unanswered>>
           \/ /\ Goes("lost") /\ t.grant \in Active /\ grants[t.grant].turn = t.turn
              /\ \/ grants' = [grants EXCEPT ![t.grant].turn = t.turn + 1]
                 \/ UNCHANGED grants
              /\ unanswered' = unanswered \cup {t.grant}
              /\ says("lost") /\ UNCHANGED reused
        /\ UNCHANGED <<scene, asked, allowed, store, pending, backingOff, codes, lock, clients, addresses>>

MarkedAs(status) ==
    connection' = IF connection = None THEN None ELSE [connection EXCEPT !.status = status]

(* forget_masked_client                                                    *)
ForgottenClient(c) == client' = IF client # None /\ client.id = c THEN None ELSE client

(* masked_tokens_refreshed: only over the token that was used; and what    *)
(* else UwUMail may have said.                                             *)
KeepTokens(r) ==
    LET t == request[r].token
        q == request[r]
    IN  /\ q.at = "keep" /\ lock' = None
        /\ \/ /\ q.said = "token" /\ connection # None /\ Token(connection) = t
              /\ connection' = [connection EXCEPT !.turn = t.turn + 1, !.lasts = TRUE, !.status = "ok"]
              /\ client' = IF client # None /\ client.id = connection.client
                           THEN [client EXCEPT !.aged = FALSE] ELSE client
              /\ Does(r, [q EXCEPT !.at = "call", !.token.turn = t.turn + 1])
              /\ UNCHANGED <<backingOff, unanswered>>
           \/ /\ q.said = "token" /\ (connection # None => Token(connection) # t)
              /\ unanswered' = unanswered \cup {t.grant}
              /\ Does(r, Ready) /\ UNCHANGED <<connection, client, backingOff>>
           \/ /\ q.said \in {"invalid_grant", "invalid_client", "invalid_scope"}
              /\ MarkedAs("revoked") /\ Does(r, Ready)
              /\ IF q.said = "invalid_client" THEN ForgottenClient(grants[t.grant].client) ELSE UNCHANGED client
              /\ UNCHANGED <<backingOff, unanswered>>
           \/ /\ q.said = "limited"
              /\ backingOff' = TRUE /\ Does(r, Ready) /\ UNCHANGED <<connection, client, unanswered>>
           \/ /\ q.said = "lost"
              /\ MarkedAs("unreachable") /\ Does(r, Ready) /\ UNCHANGED <<client, backingOff, unanswered>>
        /\ UNCHANGED <<bounds, allowed, account, links, pending, codes, uwumail>>

(***************************************************************************)
(* Addresses (jmap, make, create, change, remove)                          *)
(***************************************************************************)
Calls(r, what, item, address) ==
    Does(r, [at |-> "access", what |-> what, item |-> item, address |-> address,
             token |-> None, stale |-> None, said |-> None])

(* create: for an item that has no address yet.                            *)
CreateAddress(r) ==
    /\ AsksOf("create") /\ request[r] = Ready /\ Usable
    /\ \E item \in ItemIds : /\ ~\E l \in links : l.item = item
                             /\ Calls(r, "create", item, None)
    /\ UNCHANGED <<scene, harm, allowed, store, pending, backingOff, codes, lock, uwumail, unanswered>>

(* addy, simplelogin: a generator's, for no item.                          *)
Generate(r) ==
    /\ AsksOf("generate") /\ request[r] = Ready /\ Usable
    /\ Calls(r, "create", None, None)
    /\ UNCHANGED <<scene, harm, allowed, store, pending, backingOff, codes, lock, uwumail, unanswered>>

(* change: to another item, or to none.                                    *)
Change(r) ==
    /\ AsksOf("change") /\ request[r] = Ready
    /\ \E item \in ItemIds \cup {None}, address \in DOMAIN addresses :
          /\ ~\E l \in links : l.item = item /\ l.address # address
          /\ Calls(r, "change", item, address)
    /\ UNCHANGED <<scene, harm, allowed, store, pending, backingOff, codes, lock, uwumail, unanswered>>

(* jmap: UwUMail takes a token until it has run out or its grant ended.    *)
Takes(t) == t.grant \in Active /\ t.turn > grants[t.grant].out

(* Only the mailbox's own addresses are found.                             *)
Call(r) ==
    LET q == request[r]
        mine == addresses[q.address] = grants[q.token.grant].mailbox
        says(what) == Does(r, [q EXCEPT !.at = "status", !.said = what])
    IN  /\ q.at = "call"
        /\ \/ /\ Takes(q.token) /\ q.what = "create"
              /\ addresses' = Append(addresses, grants[q.token.grant].mailbox)
              /\ Does(r, [q EXCEPT !.at = "status", !.said = "ok", !.address = Len(addresses) + 1])
              /\ UNCHANGED harm
           \/ /\ Takes(q.token) /\ q.what = "change"
              /\ says(IF mine THEN "ok" ELSE "notFound")
              /\ UNCHANGED <<addresses, harm>>
           \/ /\ ~Takes(q.token) /\ q.stale = None
              /\ Does(r, [q EXCEPT !.at = "access", !.stale = q.token])
              /\ UNCHANGED <<addresses, harm>>
           \/ /\ ~Takes(q.token) /\ q.stale # None
              /\ says("revoked") /\ UNCHANGED <<addresses, harm>>
           \/ /\ Goes("lost") /\ says("unreachable") /\ UNCHANGED addresses
        /\ UNCHANGED <<scene, asked, allowed, store, pending, backingOff, codes, lock, grants, clients,
                       reused, unanswered>>

(* masked_status: whatever connection the account has by now.              *)
Status(r) ==
    LET q == request[r]
    IN  /\ q.at = "status"
        /\ IF q.said = "notFound" THEN UNCHANGED connection ELSE MarkedAs(q.said)
        /\ Does(r, IF q.said = "ok" /\ (q.what = "change" \/ q.item # None)
                   THEN [q EXCEPT !.at = "link"] ELSE Ready)
        /\ UNCHANGED <<bounds, allowed, account, links, client, pending, backingOff, codes, lock, uwumail, unanswered>>

(* link_masked, unlink_masked: instead of what the address was linked to,  *)
(* and not where the item has another one.                                 *)
Link(r) ==
    LET q == request[r]
        others == {l \in links : l.address # q.address}
    IN  /\ q.at = "link" /\ Does(r, Ready)
        /\ links' = IF q.item = None THEN others
                    ELSE IF ~account \/ \E l \in others : l.item = q.item THEN links
                    ELSE others \cup {[address |-> q.address, item |-> q.item]}
        /\ UNCHANGED <<bounds, allowed, account, connection, client, pending, backingOff, codes, lock, uwumail, unanswered>>

(***************************************************************************)
(* Connecting                                                              *)
(***************************************************************************)

(* connect: tab tells the connects apart.                                  *)
Connect(r) ==
    /\ AsksOf("connect") /\ request[r] = Ready /\ allowed /\ ~backingOff
    /\ Does(r, [at |-> "client", tab |-> asked + 1])
    /\ UNCHANGED <<scene, harm, allowed, store, pending, backingOff, codes, lock, uwumail, unanswered>>

(* masked_client_in_use                                                    *)
InUse(id) == connection # None /\ connection.client = id /\ connection.status # "revoked"

(* client_at: the one there is, if UwUMail cannot have forgotten it or     *)
(* says that it has not.                                                   *)
ClientAt(r) ==
    LET goes(id) == Does(r, [at |-> "pend", tab |-> [tab |-> request[r].tab, client |-> id]])
        kept == client # None /\ client.aged /\ InUse(client.id) /\ client.id \in clients
    IN  /\ request[r].at = "client"
        /\ \/ /\ client # None /\ ~client.aged
              /\ goes(client.id) /\ UNCHANGED client
           \/ /\ kept
              /\ goes(client.id) /\ client' = [client EXCEPT !.aged = FALSE]
           \/ /\ (client # None => client.aged /\ ~kept)
              /\ Does(r, [request[r] EXCEPT !.at = "register"]) /\ UNCHANGED client
        /\ UNCHANGED <<bounds, allowed, account, connection, links, pending, backingOff, codes, lock, uwumail, unanswered>>

(* register, set_masked_client                                             *)
Register(r) ==
    LET id == request[r].tab
    IN  /\ request[r].at = "register"
        /\ clients' = clients \cup {id}
        /\ client' = [id |-> id, aged |-> FALSE]
        /\ Does(r, [at |-> "pend", tab |-> [tab |-> id, client |-> id]])
        /\ UNCHANGED <<bounds, allowed, account, connection, links, pending, backingOff, codes, lock,
                       grants, addresses, reused, unanswered>>

Pend(r) ==
    /\ request[r].at = "pend" /\ Does(r, Ready)
    /\ pending' = IF Cardinality(pending) < MostPending THEN pending \cup {request[r].tab} ELSE pending
    /\ UNCHANGED <<bounds, allowed, store, backingOff, codes, lock, uwumail, unanswered>>

(* callback: what waits is taken out, whatever comes next - the wrong      *)
(* browser, too late, a no, no tries left - or the code is sent on.        *)
Callback(r) ==
    /\ AsksOf("callback") /\ request[r] = Ready
    /\ \E p \in pending :
          /\ pending' = pending \ {p}
          /\ \/ Does(r, Ready) /\ UNCHANGED codes
             \/ /\ ~backingOff /\ codes > 0 /\ codes' = codes - 1
                /\ Does(r, [at |-> "exchange", client |-> p.client])
    /\ UNCHANGED <<scene, harm, allowed, store, backingOff, lock, uwumail, unanswered>>

(* finish: the code for tokens, of whichever mailbox the person signed in  *)
(* to.                                                                     *)
Exchange(r) ==
    LET id == request[r].client
        grant(m) == Append(grants, [client |-> id, mailbox |-> m, turn |-> 1, out |-> 0, ended |-> FALSE])
    IN  /\ request[r].at = "exchange"
        /\ \/ /\ id \in clients /\ \E m \in Mailboxes : grants' = grant(m)
              /\ Does(r, [at |-> "session", grant |-> Len(grants) + 1])
              /\ UNCHANGED <<client, backingOff, unanswered, harm>>
           \/ /\ id \notin clients
              /\ ForgottenClient(id) /\ Does(r, Ready) /\ UNCHANGED <<grants, backingOff, unanswered, harm>>
           \/ /\ Goes("limited")
              /\ backingOff' = TRUE /\ Does(r, Ready) /\ UNCHANGED <<grants, client, unanswered>>
           \/ /\ Goes("lost") /\ id \in clients /\ \E m \in Mailboxes : grants' = grant(m)
              /\ unanswered' = unanswered \cup {Len(grants) + 1}
              /\ Does(r, Ready) /\ UNCHANGED <<client, backingOff>>
        /\ UNCHANGED <<scene, asked, allowed, account, connection, links, pending, codes, lock, clients, addresses, reused>>

(* finish: the session.  Without one the grant is not ended.               *)
Session(r) ==
    /\ request[r].at = "session"
    /\ \/ /\ ~grants[request[r].grant].ended
          /\ Does(r, [request[r] EXCEPT !.at = "store"]) /\ UNCHANGED <<harm, unanswered>>
       \/ /\ Goes("lost") \/ (grants[request[r].grant].ended /\ UNCHANGED harm)
          /\ Does(r, Ready) /\ unanswered' = unanswered \cup {request[r].grant}
    /\ UNCHANGED <<scene, asked, allowed, store, pending, backingOff, codes, lock, uwumail>>

New(g) == [grant |-> g, turn |-> 1, lasts |-> TRUE, client |-> grants[g].client,
           mailbox |-> grants[g].mailbox, status |-> "ok"]

Stored(r, previous) ==
    LET g == request[r].grant
    IN  /\ UNCHANGED account
        /\ links' = IF previous # None /\ previous.mailbox # grants[g].mailbox THEN {} ELSE links
        /\ connection' = New(g)
        /\ client' = IF client # None /\ client.id = grants[g].client
                     THEN [client EXCEPT !.aged = FALSE] ELSE client
        /\ Does(r, [at |-> "end", what |-> "finish", previous |-> previous])

(* Not: what it replaces is what was there when it was asked for.          *)
FinishFirst(r) ==
    /\ request[r].at = "store" /\ lock = None /\ lock' = r
    /\ Stored(r, None)
    /\ UNCHANGED <<bounds, allowed, pending, backingOff, codes, uwumail, unanswered>>

(* finish, under the lock: another mailbox has other addresses.  An        *)
(* account that went meanwhile cannot have a connection.                   *)
Finish(r) ==
    /\ request[r].at = "store" /\ lock = None
    /\ IF account THEN lock' = r /\ Stored(r, connection)
       ELSE Does(r, Ready) /\ UNCHANGED <<store, lock>>
    /\ UNCHANGED <<bounds, allowed, pending, backingOff, codes, uwumail, unanswered>>

(* disconnect                                                              *)
Disconnect(r) ==
    /\ AsksOf("disconnect") /\ request[r] = Ready /\ connection # None
    /\ Does(r, [at |-> "disconnect", previous |-> connection])
    /\ UNCHANGED <<scene, harm, allowed, store, pending, backingOff, codes, lock, uwumail, unanswered>>

(* account_going: before the account's row goes.                           *)
AccountGoing(r) ==
    /\ AsksOf("going") /\ request[r] = Ready /\ connection # None
    /\ Does(r, [at |-> "going", previous |-> connection])
    /\ UNCHANGED <<scene, harm, allowed, store, pending, backingOff, codes, lock, uwumail, unanswered>>

(* disconnect, account_going: read again under the lock.                   *)
Locked(r) ==
    /\ request[r].at \in {"disconnect", "going"} /\ lock = None /\ lock' = r
    /\ Does(r, [at |-> "end", what |-> request[r].at,
                previous |-> IF connection # None THEN connection ELSE request[r].previous])
    /\ UNCHANGED <<bounds, allowed, store, pending, backingOff, codes, uwumail, unanswered>>

(* end_grant: best effort, and not at a server the admin took off.         *)
EndGrant(r) ==
    LET q == request[r]
        next == [at |-> CASE q.what = "finish" -> "done" [] q.what = "disconnect" -> "delete"
                          [] q.what = "going" -> "unlock"]
    IN  /\ q.at = "end" /\ Does(r, next)
        /\ \/ q.previous = None /\ UNCHANGED <<grants, unanswered, harm>>
           \/ q.previous # None /\ allowed /\ Ended(q.previous.grant) /\ UNCHANGED <<unanswered, harm>>
           \/ /\ q.previous # None /\ (Goes("lost") \/ (~allowed /\ UNCHANGED harm))
              /\ unanswered' = unanswered \cup {q.previous.grant} /\ UNCHANGED grants
        /\ UNCHANGED <<scene, asked, allowed, store, pending, backingOff, codes, lock, clients, addresses, reused>>

(* delete_masked_connection, with the links of its addresses.              *)
DeleteConnection(r) ==
    /\ request[r].at = "delete" /\ Does(r, Ready) /\ lock' = None
    /\ connection' = None /\ links' = {}
    /\ UNCHANGED <<bounds, allowed, account, client, pending, backingOff, codes, uwumail, unanswered>>

(* account_going is over; its caller deletes the account.                  *)
Unlock(r) ==
    /\ request[r].at = "unlock" /\ Does(r, [at |-> "gone"]) /\ lock' = None
    /\ UNCHANGED <<bounds, allowed, store, pending, backingOff, codes, uwumail, unanswered>>

AccountGone(r) ==
    /\ request[r].at = "gone" /\ Does(r, Ready)
    /\ account' = FALSE /\ connection' = None /\ links' = {}
    /\ UNCHANGED <<bounds, allowed, client, pending, backingOff, codes, lock, uwumail, unanswered>>

(* callback: a success gives its try back.                                 *)
GiveBack(r) ==
    /\ request[r].at = "done" /\ Does(r, Ready) /\ lock' = None
    /\ codes' = IF codes < MostCodes THEN codes + 1 ELSE codes
    /\ UNCHANGED <<bounds, allowed, store, pending, backingOff, uwumail, unanswered>>

(***************************************************************************)
(* What happens besides                                                    *)
(***************************************************************************)

(* An access token runs out at UwUMail, which this server knows or not.    *)
RunsOut ==
    /\ Goes("out") /\ connection # None
    /\ grants' = [grants EXCEPT ![connection.grant].out = grants[connection.grant].turn]
    /\ \E lasts \in BOOLEAN : connection' = [connection EXCEPT !.lasts = lasts]
    /\ UNCHANGED <<scene, asked, allowed, account, links, client, memory, clients, addresses, reused, unanswered>>

(* The person signs this server out at UwUMail.                            *)
SignedOut ==
    /\ Goes("signed out") /\ \E g \in Active : Ended(g)
    /\ UNCHANGED <<scene, asked, allowed, store, memory, clients, addresses, reused, unanswered>>

(* Days without a call, and UwUMail forgets clients without a grant.       *)
Ages ==
    /\ Goes("age") /\ client # None /\ client' = [client EXCEPT !.aged = TRUE]
    /\ clients' = {grants[g].client : g \in Active}
    /\ UNCHANGED <<scene, asked, allowed, account, connection, links, memory, grants, addresses, reused, unanswered>>

Unlisted ==
    /\ Goes("unlisted") /\ allowed' = FALSE
    /\ UNCHANGED <<scene, asked, store, memory, uwumail, unanswered>>

(* What a request holds that only it knows of.                             *)
Holds(q) ==
    IF q.at = "keep" THEN IF q.said = "token" THEN {q.token.grant} ELSE {}
    ELSE IF q.at \in {"session", "store"} THEN {q.grant}
    ELSE IF q.at = "end" /\ q.previous # None THEN {q.previous.grant} ELSE {}

(* A client hangs up, and its request is dropped where it waits.           *)
HangsUp(r) ==
    /\ Goes("hang up") /\ request[r] # Ready /\ Does(r, Ready)
    /\ lock' = IF lock = r THEN None ELSE lock
    /\ unanswered' = unanswered \cup Holds(request[r])
    /\ UNCHANGED <<scene, asked, allowed, store, pending, backingOff, codes, uwumail>>

Stops ==
    /\ Goes("stop")
    /\ request' = [r \in Requests |-> Ready] /\ lock' = None /\ pending' = {}
    /\ backingOff' = FALSE /\ codes' = MostCodes
    /\ unanswered' = unanswered \cup UNION {Holds(request[r]) : r \in Requests}
    /\ UNCHANGED <<scene, asked, allowed, store, uwumail>>

(* One address, of this mailbox or of one before.                          *)
MaskedInit ==
    /\ scene \in MaskedScenes /\ asked = 0 /\ harm = scene.harm
    /\ allowed = TRUE /\ account = TRUE /\ clients = {0} /\ client = [id |-> 0, aged |-> FALSE]
    /\ \E m \in Mailboxes : grants = <<[client |-> 0, mailbox |-> m, turn |-> 1, out |-> 0, ended |-> FALSE]>>
    /\ connection = [grant |-> 1, turn |-> 1, lasts |-> TRUE, client |-> 0,
                     mailbox |-> grants[1].mailbox, status |-> "ok"]
    /\ addresses \in {<<m>> : m \in Mailboxes} /\ links = {} /\ reused = {} /\ unanswered = {}
    /\ pending = {} /\ backingOff = FALSE /\ codes = MostCodes /\ lock = None
    /\ request = [r \in Requests |-> Ready]

MaskedNext ==
    \/ \E r \in Requests :
          \/ CreateAddress(r) \/ Generate(r) \/ Change(r) \/ Access(r) \/ Refresh(r) \/ KeepTokens(r)
          \/ Call(r) \/ Status(r) \/ Link(r)
          \/ Connect(r) \/ ClientAt(r) \/ Register(r) \/ Pend(r)
          \/ Callback(r) \/ Exchange(r) \/ Session(r) \/ Finish(r)
          \/ Disconnect(r) \/ AccountGoing(r) \/ Locked(r) \/ EndGrant(r)
          \/ DeleteConnection(r) \/ Unlock(r) \/ AccountGone(r) \/ GiveBack(r)
          \/ HangsUp(r)
    \/ RunsOut \/ SignedOut \/ Ages \/ Unlisted \/ Stops

MaskedSpec == MaskedInit /\ [][MaskedNext]_maskedVars

(***************************************************************************)
(* What must hold                                                          *)
(***************************************************************************)
Held == UNION {Holds(request[r]) : r \in Requests}

(* masked.rs: UwUMail "ends the whole grant when an old one comes back. So *)
(* refreshing happens one at a time": no old refresh token is presented    *)
(* but where an answer with the new one was lost.                          *)
NoOldToken == reused \subseteq unanswered

(* docs/uwu-api.md 13.2: no grant lives on at UwUMail that this server has *)
(* forgotten, but where a call was lost.                                   *)
NoGrantIsLeft ==
    account => Active \subseteq unanswered \cup Held
                     \cup (IF connection = None THEN {} ELSE {connection.grant})

(* Both.                                                                   *)
MaskedInv == NoOldToken /\ NoGrantIsLeft

(***************************************************************************)
(* Why it does: the inductive invariant                                    *)
(***************************************************************************)
Grant == [client : Nat, mailbox : Mailboxes, turn : Nat, out : Nat, ended : BOOLEAN]
Client == [id : Nat, aged : BOOLEAN]
Says == {"token", "invalid_grant", "invalid_client", "invalid_scope", "limited", "lost",
         "ok", "notFound", "revoked", "unreachable"}

AnyCall ==
    [at : {"access", "refresh", "keep", "call", "status", "link"}, what : {"create", "change"},
     item : ItemIds \cup {None}, address : Nat \cup {None},
     token : Tokens \cup {None}, stale : Tokens \cup {None}, said : Says \cup {None}]

Calling == {q \in AnyCall : q.at = "status" => q.said \in {"ok", "notFound", "revoked", "unreachable"}}

MaskedRequest ==
    {Ready} \cup Calling
    \cup [at : {"client", "register"}, tab : Nat]
    \cup [at : {"pend"}, tab : [tab : Nat, client : Nat]]
    \cup [at : {"exchange"}, client : Nat]
    \cup [at : {"session", "store"}, grant : Nat]
    \cup [at : {"disconnect", "going"}, previous : Connection]
    \cup [at : {"end"}, what : {"finish", "disconnect", "going"}, previous : Connection \cup {None}]
    \cup [at : {"done", "delete", "unlock", "gone"}]

MaskedTypeOK ==
    /\ asked \in Nat /\ allowed \in BOOLEAN /\ account \in BOOLEAN /\ backingOff \in BOOLEAN
    /\ connection \in Connection \cup {None}
    /\ client \in Client \cup {None} /\ clients \subseteq Nat
    /\ pending \subseteq [tab : Nat, client : Nat] /\ codes \in Nat
    /\ links \subseteq [address : Nat \cup {None}, item : ItemIds]
    /\ lock \in Requests \cup {None}
    /\ request \in [Requests -> MaskedRequest]
    /\ grants \in Seq(Grant) /\ addresses \in Seq(Mailboxes)
    /\ reused \subseteq Nat /\ unanswered \subseteq Nat

(* What only the holder of the lock is at.                                 *)
Locking == {"refresh", "keep", "end", "delete", "unlock", "done"}
LockInv == \A r \in Requests : request[r].at \in Locking => lock = r

(* A grant has been refreshed as often as its token says, or somebody did  *)
(* not learn of it.                                                        *)
InStep(g, turn) == g \in DOMAIN grants /\ (g \in unanswered \/ grants[g].turn = turn)

(* A refreshing request has the connection's token.  Until it has kept the *)
(* new one it alone knows it.                                              *)
HasToken(q) ==
    LET t == q.token IN
    /\ t # None /\ (connection # None => Token(connection) = t)
    /\ InStep(t.grant, IF q.at = "keep" /\ q.said = "token" THEN t.turn + 1 ELSE t.turn)

RefreshInv == \A r \in Requests : request[r].at \in {"refresh", "keep"} => HasToken(request[r])

ConnectionInv ==
    connection # None =>
        \/ InStep(connection.grant, connection.turn)
        \/ \E r \in Requests : request[r].at = "keep" /\ request[r].said = "token"

(* A grant on its way to be stored is nobody else's.                       *)
NewGrant(r) ==
    LET g == request[r].grant IN
    /\ InStep(g, 1)
    /\ connection # None => connection.grant # g
    /\ \A p \in Requests :
          /\ request[p].at \in {"refresh", "keep"} => request[p].token.grant # g
          /\ request[p].at \in {"session", "store"} /\ p # r => request[p].grant # g

NewInv == \A r \in Requests : request[r].at \in {"session", "store"} => NewGrant(r)

(* Who ends a grant knows which; then it is over, or somebody did not      *)
(* learn of it.                                                            *)
EndsWell(r) ==
    LET q == request[r] IN
    /\ q.at \in {"disconnect", "going"} => q.previous.grant \in DOMAIN grants
    /\ q.at = "end" /\ q.previous # None => q.previous.grant \in DOMAIN grants
    /\ q.at = "end" /\ q.what # "finish" =>
          q.previous # None /\ (connection # None => connection.grant = q.previous.grant)
    /\ q.at = "delete" /\ connection # None => connection.grant \notin Active \ unanswered

EndInv == \A r \in Requests : EndsWell(r)

MaskedIInv ==
    MaskedTypeOK /\ LockInv /\ RefreshInv /\ ConnectionInv /\ NewInv /\ EndInv /\ MaskedInv

(***************************************************************************)
(* What does not                                                           *)
(***************************************************************************)

(* "the links named its addresses, which this one does not have"           *)
(* (masked.rs finish): an address under way while the mailbox changes is   *)
(* linked afterwards.                                                      *)
LinksOfTheMailbox ==
    \A l \in links : connection # None /\ addresses[l.address] = connection.mailbox

(* "Deleting the account [...] ends its grant at UwUMail first" (13.2): not *)
(* the one of a connect that comes back between the two.                   *)
GrantsGoWithTheAccount == ~account => Active \subseteq unanswered \cup Held

(* "revoked (connect again)" (docs/uwu-api.md 13.2): the answer about one  *)
(* grant marks the next.                                                   *)
RevokedIsOver ==
    connection # None /\ connection.status = "revoked" /\ connection.grant \notin unanswered
    => connection.grant \notin Active \/ grants[connection.grant].client \notin clients
=============================================================================
