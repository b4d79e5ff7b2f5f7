---------------------------- MODULE AccountsProofs ----------------------------
(***************************************************************************)
(* Proofs about Accounts: its inductive invariant, that accounts, logins   *)
(* at the provider and entries fit together, that an admin stays as long   *)
(* as one request follows the other, and that quotas hold.                 *)
(***************************************************************************)
EXTENDS Accounts, FiniteSetTheorems, TLAPS

(***************************************************************************)
(* The inductive invariant                                                 *)
(***************************************************************************)
Signing == {"identity", "link", "signup", "first", "undo", "claim", "session", "count", "right", "code"}

(* What each step of a request has read.                                   *)
Shape(r) ==
    /\ r \in Run
    /\ r.at \in Signing \cup {"logout"} => r.claim \in Claim
    /\ r.at \in Signing \cup {"second", "finish"} => r.flow \in Flows
    /\ r.at \in {"link", "first", "undo", "claim", "session", "count", "right", "code", "second", "finish",
                 "invite", "off", "mark", "on", "going", "portal", "demote"} => r.who \in Users
    /\ r.at \in {"invite", "resend", "checked", "withdraw", "register", "entry"} => r.email \in Addresses
    /\ r.at \in {"entry", "drop"} => r.entry \in Entries

Typed == TypeOK /\ \A q \in Requests : Shape(run[q])

Tables ==
    /\ TablesFit(user, entry)
    /\ \A s, t \in DOMAIN link : link[s] = link[t] => s = t
    /\ \A s \in DOMAIN link : link[s] \in DOMAIN user
    /\ \A s \in DOMAIN sid : sid[s] \in DOMAIN user
    /\ \A f \in DOMAIN code : code[f] \in DOMAIN user
    /\ \A e \in DOMAIN invited : invited[e].by \in DOMAIN user \cup {None}
    /\ device \cup marked \subseteq DOMAIN user

Holds(q, f) == run[q].at \in Signing \cup {"finish"} /\ run[q].flow = f

Once ==
    /\ \A f \in Flows :
          /\ logins[f] <= 1
          /\ f \in started => f \notin DOMAIN code
          /\ f \in started \cup DOMAIN code => logins[f] = 0 /\ \A q \in Requests : ~Holds(q, f)
          /\ \A q \in Requests : Holds(q, f) => logins[f] = 0
          /\ \A p, q \in Requests : Holds(p, f) /\ Holds(q, f) => p = q
    /\ \A s \in Subjects : ended[s] <= 1 /\ (s \notin used => ended[s] = 0)

Admins == {u \in DOMAIN user : user[u].admin /\ ~user[u].disabled}

Safe(r) ==
    /\ r.at # "undo"
    /\ r.at = "signup" => r.claim.subject \notin DOMAIN link
    /\ r.at = "first" => r.claim.subject \notin DOMAIN link /\ ~Linked(r.who) /\ r.who \in DOMAIN user
    /\ r.at \in {"off", "going", "demote"} => Admins \ {r.who} # {}
    /\ r.at = "right" /\ r.admin => Admins \ {r.who} # {}
    /\ r.at = "portal" => r.by \in Admins /\ (~r.last => Admins \ {r.who} # {})

OneByOne ==
    scene.alone =>
        /\ \A p, q \in Requests : run[p] # Fresh /\ run[q] # Fresh => p = q
        /\ Admins # {}
        /\ \A q \in Requests : Safe(run[q])

Counted == scene.asks \cap {"expire", "resend", "portal", "group"} = {} /\ \A c \in scene.claims : c.right # "taken"

Unbounded(u) == u \in DOMAIN user => user[u].admin
Past == DOMAIN user \cup gone \cup {None}

Asking(r) ==
    /\ r.at \notin {"resend", "portal", "demote", "count"}
    /\ r.at \in Signing => r.claim \in scene.claims
    /\ r.at = "right" => ~r.admin
    /\ r.at = "checked" => r.by \in Past /\ Unbounded(r.by)
    /\ r.at = "invite" => r.who \in Past /\ (r.admin => Unbounded(r.who))

NoneLate == \A e \in DOMAIN invited : ~invited[e].late
Load(u) == Cardinality(BroughtIn(u)) + Cardinality(OpenBy(u))
Loads == \A u \in DOMAIN user : ~user[u].admin => Load(u) <= Quota

QuotaInv == Counted => NoneLate /\ Loads /\ \A q \in Requests : Asking(run[q])

IInv == Typed /\ Tables /\ Once /\ OneByOne /\ QuotaInv

(***************************************************************************)
(* Maps                                                                    *)
(***************************************************************************)
LEMMA MapWith ==
    ASSUME NEW f, NEW K, NEW V, IsMap(f, K, V), NEW x \in K, NEW v \in V
    PROVE  /\ IsMap(With(f, x, v), K, V)
           /\ DOMAIN With(f, x, v) = DOMAIN f \cup {x}
           /\ With(f, x, v)[x] = v
           /\ \A y \in DOMAIN f : y # x => With(f, x, v)[y] = f[y]
  BY DEF IsMap, With

LEMMA MapWithout ==
    ASSUME NEW f, NEW K, NEW V, IsMap(f, K, V), NEW S
    PROVE  /\ IsMap(Without(f, S), K, V)
           /\ DOMAIN Without(f, S) = DOMAIN f \ S
           /\ \A y \in DOMAIN f \ S : Without(f, S)[y] = f[y]
  BY DEF IsMap, Without

LEMMA MapRangeWithout ==
    ASSUME NEW f, NEW K, NEW V, IsMap(f, K, V), NEW u
    PROVE  /\ IsMap(RangeWithout(f, u), K, V)
           /\ DOMAIN RangeWithout(f, u) = {x \in DOMAIN f : f[x] # u}
           /\ \A y \in DOMAIN RangeWithout(f, u) : RangeWithout(f, u)[y] = f[y]
  BY DEF IsMap, RangeWithout

LEMMA MapValue ==
    ASSUME NEW f, NEW K, NEW V, IsMap(f, K, V), NEW x \in DOMAIN f
    PROVE  x \in K /\ f[x] \in V
  BY DEF IsMap

(***************************************************************************)
(* Types                                                                   *)
(***************************************************************************)
DataTyped ==
    /\ IsMap(user, Users, User) /\ gone \subseteq Users \ DOMAIN user
    /\ IsMap(invited, Addresses, Invitation)
    /\ IsMap(entry, Entries, Entry)
    /\ IsMap(link, Subjects, Users) /\ IsMap(sid, Subjects, Users) /\ IsMap(code, Flows, Users)
    /\ started \subseteq Flows /\ used \subseteq Subjects
    /\ logins \in [Flows -> Nat] /\ ended \in [Subjects -> Nat]

LEMMA TypeParts == TypeOK <=> scene \in Scenes /\ DataTyped /\ run \in [Requests -> Run]
  BY DEF TypeOK, DataTyped

LEMMA DataSame == DataTyped /\ UNCHANGED data => DataTyped'
  BY DEF DataTyped, data

LEMMA FreshShape == Shape(Fresh)
  BY DEF Shape, Fresh, Run, Signing

(* A request at its next step, and the data typed, is all it takes.        *)
LEMMA GoesTyped ==
    ASSUME Typed, NEW q \in Requests, NEW r, Goes(q, r), Shape(r), DataTyped', UNCHANGED scene
    PROVE  Typed'
  <1>1. run' = [run EXCEPT ![q] = r] /\ run \in [Requests -> Run] /\ r \in Run
    BY TypeParts DEF Typed, Goes, Shape
  <1>2. run' \in [Requests -> Run] /\ TypeOK'
    BY <1>1, TypeParts DEF Typed, TypeOK, DataTyped
  <1>3. \A p \in Requests : Shape(run'[p])
    BY <1>1 DEF Typed
  <1> QED
    BY <1>2, <1>3 DEF Typed

LEMMA RunTyped ==
    ASSUME Typed, NEW q \in Requests PROVE run[q] \in Run /\ Shape(run[q])
  BY TypeParts DEF Typed

LEMMA FitsUser ==
    ASSUME NEW r \in User, NEW u \in Users
    PROVE  /\ \A off \in BOOLEAN : [r EXCEPT !.disabled = off] \in User
           /\ \A admin \in BOOLEAN : [r EXCEPT !.admin = admin] \in User
           /\ [r EXCEPT !.by = None] \in User
  BY DEF User

LEMMA UpdateTyped ==
    ASSUME DataTyped, NEW u \in Users, NEW row, u \in DOMAIN user => row \in User, Update(u, row),
           marked' = marked \/ marked' = marked \ {u}
    PROVE  DataTyped'
  <1>1. IsMap(user', Users, User) /\ DOMAIN user' = DOMAIN user
    BY DEF DataTyped, Update, IsMap
  <1> QED
    BY <1>1 DEF DataTyped, Update

LEMMA SetDisabledTyped ==
    ASSUME DataTyped, NEW u \in Users, NEW off \in BOOLEAN, SetDisabled(u, off) PROVE DataTyped'
  <1>1. u \in DOMAIN user => [user[u] EXCEPT !.disabled = off] \in User
    BY MapValue, FitsUser DEF DataTyped
  <1> QED
    BY <1>1, UpdateTyped DEF SetDisabled

LEMMA SetAdminTyped ==
    ASSUME DataTyped, NEW u \in Users, NEW admin \in BOOLEAN, SetAdmin(u, admin) PROVE DataTyped'
  <1>1. u \in DOMAIN user => [user[u] EXCEPT !.admin = admin] \in User
    BY MapValue, FitsUser DEF DataTyped
  <1> QED
    BY <1>1, UpdateTyped DEF SetAdmin

LEMMA CreateUserTyped ==
    ASSUME DataTyped, NEW u \in Users, NEW e \in Addresses, NEW admin \in BOOLEAN, NEW password \in BOOLEAN,
           CreateUser(u, e, admin, password)
    PROVE  DataTyped'
  <1>1. BroughtInBy(e) \in Users \cup {None}
    <2>1. ASSUME e \in DOMAIN invited PROVE invited[e] \in Invitation
      BY <2>1, MapValue DEF DataTyped
    <2> QED
      BY <2>1 DEF BroughtInBy, Invitation
  <1> DEFINE row == [email |-> e, admin |-> admin, disabled |-> FALSE, password |-> password, by |-> BroughtInBy(e)]
  <1>2. row \in User /\ user' = With(user, u, row)
    BY <1>1 DEF User, CreateUser
  <1> HIDE DEF row
  <1>3. IsMap(user', Users, User) /\ DOMAIN user' = DOMAIN user \cup {u}
    <2>1. IsMap(user, Users, User)
      BY DEF DataTyped
    <2>2. IsMap(With(user, u, row), Users, User)
      BY <1>2, <2>1, MapWith
    <2>3. DOMAIN With(user, u, row) = DOMAIN user \cup {u}
      BY DEF With
    <2> QED
      BY <1>2, <2>2, <2>3
  <1>4. IsMap(invited', Addresses, Invitation)
    BY MapWithout DEF DataTyped, CreateUser
  <1>5. gone' \subseteq Users \ DOMAIN user'
    BY <1>3 DEF DataTyped, CreateUser
  <1> QED
    BY <1>3, <1>4, <1>5 DEF DataTyped, CreateUser

LEMMA DeleteUserTyped ==
    ASSUME DataTyped, NEW u, DeleteUser(u) PROVE DataTyped'
  <1>1. IsMap(user', Users, User) /\ gone' \subseteq Users \ DOMAIN user'
    BY DEF DataTyped, DeleteUser, IsMap, User
  <1>2. IsMap(invited', Addresses, Invitation)
    BY DEF DataTyped, DeleteUser, IsMap, Invitation
  <1>3. IsMap(entry', Entries, Entry)
    BY MapWithout DEF DataTyped, DeleteUser
  <1>4. IsMap(link', Subjects, Users) /\ IsMap(sid', Subjects, Users) /\ IsMap(code', Flows, Users)
    BY MapRangeWithout DEF DataTyped, DeleteUser
  <1> QED
    BY <1>1, <1>2, <1>3, <1>4 DEF DataTyped, DeleteUser

LEMMA InviteTyped ==
    ASSUME DataTyped, NEW e \in Addresses, NEW by \in Users \cup {None}, NEW admin \in BOOLEAN, Invite(e, by, admin)
    PROVE  DataTyped'
  <1>1. [by |-> by, admin |-> admin, late |-> FALSE] \in Invitation
    BY DEF Invitation
  <1>2. IsMap(invited', Addresses, Invitation)
    BY <1>1, MapWith DEF Invite, DataTyped
  <1> QED
    BY <1>2 DEF Invite, DataTyped

LEMMA ClaimedTyped ==
    ASSUME DataTyped, NEW e, NEW u \in Users PROVE IsMap(Claimed(e, u), Entries, Entry)
  BY DEF DataTyped, Claimed, IsMap, Entry

LEMMA InitTyped == Init => Typed
  <1> SUFFICES ASSUME Init PROVE Typed
    OBVIOUS
  <1>1. scene \in Scenes /\ IsMap(user, Users, User) /\ IsMap(invited, Addresses, Invitation) /\ IsMap(entry, Entries, Entry)
    BY AccountScenes DEF Init
  <1>2. IsMap(link, Subjects, Users) /\ IsMap(sid, Subjects, Users) /\ IsMap(code, Flows, Users)
    BY DEF Init, IsMap
  <1>3. \A q \in Requests : Shape(run[q])
    BY FreshShape DEF Init
  <1>4. run \in [Requests -> Run]
    BY FreshShape DEF Init, Shape
  <1>5. DataTyped
    BY <1>1, <1>2 DEF Init, DataTyped
  <1> QED
    BY <1>1, <1>3, <1>4, <1>5, TypeParts DEF Typed

(* What a request may become, one lemma for each way it moves.             *)
LEMMA ThenShape ==
    ASSUME NEW r, Shape(r), NEW at,
           \/ r.at \in Signing /\ at \in Signing /\ (at \in {"identity", "signup"} \/ r.who \in Users)
           \/ r.at = "second" /\ at = "finish"
           \/ r.at = "off" /\ at = "mark"
           \/ r.at = "resend" /\ at = "checked"
    PROVE  Shape([r EXCEPT !.at = at])
  BY DEF Shape, Run, Signing

LEMMA OverTyped ==
    ASSUME Typed, NEW q \in Requests, Over(q), DataTyped', UNCHANGED scene PROVE Typed'
  BY GoesTyped, FreshShape DEF Over

LEMMA ThenTyped ==
    ASSUME Typed, NEW q \in Requests, NEW at, Then(q, at), DataTyped', UNCHANGED scene,
           \/ run[q].at \in Signing /\ at \in Signing /\ (at \in {"identity", "signup"} \/ run[q].who \in Users)
           \/ run[q].at = "second" /\ at = "finish"
           \/ run[q].at = "off" /\ at = "mark"
           \/ run[q].at = "resend" /\ at = "checked"
    PROVE  Typed'
  <1>1. Shape([run[q] EXCEPT !.at = at])
    BY RunTyped, ThenShape
  <1> QED
    BY <1>1, GoesTyped DEF Then

LEMMA FreshTyped ==
    ASSUME Typed, NEW q \in Requests, UNCHANGED <<scene, data>>, NEW r, Goes(q, r), Shape(r)
    PROVE  Typed'
  BY GoesTyped, DataSame, TypeParts DEF Typed

LEMMA RowsTyped ==
    ASSUME Typed
    PROVE  /\ \A u \in DOMAIN user : u \in Users /\ user[u] \in User
           /\ \A e \in DOMAIN invited : e \in Addresses /\ invited[e] \in Invitation
           /\ \A n \in DOMAIN entry : n \in Entries /\ entry[n] \in Entry
           /\ \A s \in DOMAIN link : s \in Subjects /\ link[s] \in Users
           /\ \A s \in DOMAIN sid : s \in Subjects /\ sid[s] \in Users
           /\ \A f \in DOMAIN code : f \in Flows /\ code[f] \in Users
  BY DEF Typed, TypeOK, IsMap

LEMMA AccountForTyped ==
    ASSUME Typed, Tables, NEW q \in Requests, AccountFor(q), UNCHANGED scene PROVE Typed'
  <1> DEFINE c == run[q].claim
             known == IF c.subject \in DOMAIN link THEN {link[c.subject]} ELSE UsersWith(c.email)
  <1>1. run[q].at = "identity" /\ c \in Claim /\ run[q].flow \in Flows /\ run[q] \in Run
    BY RunTyped DEF AccountFor, Shape, Signing
  <1>2. known \subseteq DOMAIN user
    BY DEF Tables, UsersWith
  <1>3. UNCHANGED <<scene, data>>
    BY DEF AccountFor
  <1>4. ASSUME NEW u \in known, NEW at \in {"session", "link"},
               Goes(q, [run[q] EXCEPT !.at = at, !.who = u, !.admin = user[u].admin])
        PROVE  Typed'
    <2>1. u \in Users /\ user[u].admin \in BOOLEAN
      BY <1>2, RowsTyped DEF User
    <2>2. Shape([run[q] EXCEPT !.at = at, !.who = u, !.admin = user[u].admin])
      BY <1>1, <2>1 DEF Shape, Run, Signing
    <2> QED
      BY <1>3, <1>4, <2>2, FreshTyped
  <1>5. ASSUME NEW admin \in BOOLEAN, Goes(q, [run[q] EXCEPT !.at = "signup", !.admin = admin])
        PROVE  Typed'
    <2>1. Shape([run[q] EXCEPT !.at = "signup", !.admin = admin])
      BY <1>1 DEF Shape, Run, Signing
    <2> QED
      BY <1>3, <1>5, <2>1, FreshTyped
  <1>6. \/ \E u \in known : \E at \in {"session", "link"} :
              Goes(q, [run[q] EXCEPT !.at = at, !.who = u, !.admin = user[u].admin])
        \/ \E admin \in BOOLEAN : Goes(q, [run[q] EXCEPT !.at = "signup", !.admin = admin])
    <2>1. ASSUME NEW u \in known,
                 \/ c.subject \in DOMAIN link /\ Goes(q, [run[q] EXCEPT !.at = "session", !.who = u, !.admin = user[u].admin])
                 \/ c.subject \notin DOMAIN link /\ ~Linked(u)
                    /\ Goes(q, [run[q] EXCEPT !.at = "link", !.who = u, !.admin = user[u].admin])
          PROVE  \E at \in {"session", "link"} :
                    Goes(q, [run[q] EXCEPT !.at = at, !.who = u, !.admin = user[u].admin])
      BY <2>1
    <2> DEFINE invitedAs == c.email \in DOMAIN invited /\ ~invited[c.email].late /\ invited[c.email].admin
    <2>2. (invitedAs \/ c.right = "given") \in BOOLEAN
      OBVIOUS
    <2> QED
      BY <2>1, <2>2 DEF AccountFor
  <1> QED
    BY <1>4, <1>5, <1>6

LEMMA ProviderTyped ==
    ASSUME Typed, Tables, NEW q \in Requests, ThroughProvider(q), UNCHANGED scene PROVE Typed'
  <1>a. DataTyped
    BY TypeParts DEF Typed
  <1>b. run[q] \in Run /\ Shape(run[q])
    BY RunTyped
  <1>1. ASSUME Signin(q) PROVE Typed'
    <2>1. PICK f \in started, c \in scene.claims :
             started' = started \ {f} /\ Goes(q, [Fresh EXCEPT !.at = "identity", !.flow = f, !.claim = c])
      BY <1>1 DEF Signin
    <2>2. f \in Flows /\ c \in Claim
      BY <1>a, AccountScenes, TypeParts DEF DataTyped, Typed
    <2>3. Shape([Fresh EXCEPT !.at = "identity", !.flow = f, !.claim = c])
      BY <2>2 DEF Shape, Run, Fresh, Signing
    <2>4. DataTyped'
      BY <1>a, <1>1, <2>1 DEF Signin, DataTyped
    <2> QED
      BY <2>1, <2>3, <2>4, GoesTyped
  <1>2. ASSUME LinkSso(q) \/ LinkFirst(q) PROVE Typed'
    <2>1. run[q].at \in Signing /\ run[q].who \in Users /\ run[q].claim.subject \in Subjects
      BY <1>b, <1>2 DEF LinkSso, LinkFirst, Shape, Signing, Claim
    <2>2. IsMap(With(link, run[q].claim.subject, run[q].who), Subjects, Users)
      BY <1>a, <2>1, MapWith DEF DataTyped
    <2>3. DataTyped'
      BY <1>a, <1>2, <2>2 DEF LinkSso, LinkFirst, DataTyped
    <2>4. \E at \in {"session", "claim", "undo"} : Then(q, at)
      BY <1>2 DEF LinkSso, LinkFirst
    <2> QED
      BY <2>1, <2>3, <2>4, ThenTyped DEF Signing
  <1>3. ASSUME SignUp(q) PROVE Typed'
    <2>1. PICK u \in Users : /\ CreateUser(u, run[q].claim.email, run[q].admin, FALSE)
                             /\ Goes(q, [run[q] EXCEPT !.at = "first", !.who = u])
      BY <1>3 DEF SignUp
    <2>2. run[q].at = "signup" /\ run[q].claim \in Claim
      BY <1>b, <1>3 DEF SignUp, Shape, Signing
    <2>3. run[q].claim.email \in Addresses /\ run[q].admin \in BOOLEAN
      BY <1>b, <2>2 DEF Claim, Run
    <2>4. Shape([run[q] EXCEPT !.at = "first", !.who = u])
      BY <1>b, <2>2 DEF Shape, Run, Signing
    <2>5. DataTyped'
      BY <1>a, <2>1, <2>3, CreateUserTyped
    <2> QED
      BY <2>1, <2>4, <2>5, GoesTyped
  <1>4. ASSUME Undo(q) PROVE Typed'
    BY <1>a, <1>4, DeleteUserTyped, OverTyped DEF Undo
  <1>5. ASSUME ClaimEntry(q) PROVE Typed'
    <2>1. run[q].at \in Signing /\ run[q].who \in Users
      BY <1>b, <1>5 DEF ClaimEntry, Shape, Signing
    <2>2. IsMap(entry', Entries, Entry)
      BY <1>a, <1>5, <2>1, ClaimedTyped DEF ClaimEntry, DataTyped
    <2>3. DataTyped'
      BY <1>a, <1>5, <2>2 DEF ClaimEntry, DataTyped
    <2> QED
      BY <1>5, <2>1, <2>3, ThenTyped DEF ClaimEntry, Signing
  <1>6. ASSUME StartSession(q) PROVE Typed'
    <2>1. run[q].at \in Signing /\ run[q].who \in Users /\ run[q].claim.subject \in Subjects
      BY <1>b, <1>6 DEF StartSession, Shape, Signing, Claim
    <2>2. IsMap(With(sid, run[q].claim.subject, run[q].who), Subjects, Users)
      BY <1>a, <2>1, MapWith DEF DataTyped
    <2>3. DataTyped'
      BY <1>a, <1>6, <2>2 DEF StartSession, DataTyped
    <2>4. \E at \in {"right", "count", "code"} : Then(q, at)
      BY <1>6 DEF StartSession
    <2> QED
      BY <2>1, <2>3, <2>4, ThenTyped DEF Signing
  <1>7. ASSUME CountAdmins(q) PROVE Typed'
    <2>1. run[q].at \in Signing /\ run[q].who \in Users /\ DataTyped'
      BY <1>a, <1>b, <1>7, DataSame DEF CountAdmins, Shape, Signing
    <2>2. \E at \in {"right", "code"} : Then(q, at)
      BY <1>7 DEF CountAdmins
    <2> QED
      BY <2>1, <2>2, ThenTyped DEF Signing
  <1>8. ASSUME FollowAdminRight(q) PROVE Typed'
    <2>1. run[q].at \in Signing /\ run[q].who \in Users
      BY <1>b, <1>8 DEF FollowAdminRight, Shape, Signing
    <2>2. DataTyped'
      BY <1>a, <1>8, <2>1, SetAdminTyped DEF FollowAdminRight
    <2> QED
      BY <1>8, <2>1, <2>2, ThenTyped DEF FollowAdminRight, Signing
  <1>9. ASSUME PutCode(q) PROVE Typed'
    <2>1. run[q].who \in Users /\ run[q].flow \in Flows
      BY <1>b, <1>9 DEF PutCode, Shape, Signing
    <2>2. IsMap(code', Flows, Users)
      BY <1>a, <1>9, <2>1, MapWith DEF DataTyped, PutCode
    <2>3. DataTyped'
      BY <1>a, <1>9, <2>2 DEF PutCode, DataTyped
    <2> QED
      BY <1>9, <2>3, OverTyped DEF PutCode
  <1>10. ASSUME ReadCode(q) PROVE Typed'
    <2>1. PICK f \in DOMAIN code : Goes(q, [Fresh EXCEPT !.at = "second", !.flow = f, !.who = code[f]])
      BY <1>10 DEF ReadCode
    <2>2. Shape([Fresh EXCEPT !.at = "second", !.flow = f, !.who = code[f]])
      BY RowsTyped DEF Shape, Run, Fresh, Signing
    <2> QED
      BY <1>10, <2>1, <2>2, FreshTyped DEF ReadCode
  <1>11. ASSUME TakeSsoCode(q) PROVE Typed'
    <2>1. IsMap(code', Flows, Users)
      BY <1>a, <1>11, MapWithout DEF DataTyped, TakeSsoCode
    <2>2. DataTyped'
      BY <1>a, <1>11, <2>1 DEF TakeSsoCode, DataTyped
    <2> QED
      BY <1>11, <2>2, ThenTyped DEF TakeSsoCode
  <1>12. ASSUME FinishLogin(q) PROVE Typed'
    <2>1. run[q].flow \in Flows /\ logins \in [Flows -> Nat]
      BY <1>a, <1>b, <1>12 DEF FinishLogin, Shape, DataTyped
    <2>2. logins' \in [Flows -> Nat]
      BY <1>12, <2>1 DEF FinishLogin
    <2>3. DataTyped'
      BY <1>a, <1>12, <2>2 DEF FinishLogin, DataTyped
    <2> QED
      BY <1>12, <2>3, OverTyped DEF FinishLogin
  <1>13. ASSUME FindSession(q) PROVE Typed'
    <2>1. PICK s \in Subjects, by \in {link, sid} :
             Goes(q, [Fresh EXCEPT !.at = "logout", !.claim = CHOOSE c \in Claim : c.subject = s,
                                   !.who = IF s \in DOMAIN by THEN by[s] ELSE None])
      BY <1>13 DEF FindSession
    <2>2. (CHOOSE c \in Claim : c.subject = s) \in Claim
      <3>1. PICK e : e \in Addresses
        BY AccountIds
      <3>2. [subject |-> s, email |-> e, right |-> "given"] \in Claim
        BY <3>1 DEF Claim, Rights
      <3> DEFINE k == [subject |-> s, email |-> e, right |-> "given"]
      <3>3. k \in Claim /\ k.subject = s
        BY <3>2
      <3> HIDE DEF k
      <3> QED
        BY <3>3
    <2>3. (IF s \in DOMAIN by THEN by[s] ELSE None) \in Users \cup {None}
      BY RowsTyped
    <2>4. ASSUME NEW c \in Claim, NEW u \in Users \cup {None}
          PROVE  Shape([Fresh EXCEPT !.at = "logout", !.claim = c, !.who = u])
      BY DEF Shape, Run, Fresh, Signing
    <2> QED
      BY <1>13, <2>1, <2>2, <2>3, <2>4, FreshTyped DEF FindSession
  <1>14. ASSUME BackChannelLogout(q) PROVE Typed'
    <2>1. run[q].claim.subject \in Subjects
      BY <1>b, <1>14 DEF BackChannelLogout, Shape, Claim
    <2>2. IsMap(sid', Subjects, Users)
      BY <1>a, <1>14, MapRangeWithout DEF BackChannelLogout, DataTyped
    <2>3. ended' \in [Subjects -> Nat] /\ used' \subseteq Subjects
      BY <1>a, <1>14, <2>1 DEF BackChannelLogout, DataTyped
    <2>4. DataTyped'
      BY <1>a, <1>14, <2>2, <2>3 DEF BackChannelLogout, DataTyped
    <2> QED
      BY <1>14, <2>4, OverTyped DEF BackChannelLogout
  <1> QED
    BY <1>1, <1>2, <1>3, <1>4, <1>5, <1>6, <1>7, <1>8, <1>9, <1>10, <1>11, <1>12, <1>13, <1>14,
       AccountForTyped DEF ThroughProvider

LEMMA InvitationsTyped ==
    ASSUME Typed, NEW q \in Requests, Invitations(q), UNCHANGED scene PROVE Typed'
  <1>a. DataTyped
    BY TypeParts DEF Typed
  <1>b. run[q] \in Run /\ Shape(run[q])
    BY RunTyped
  <1>1. ASSUME AskToInvite(q) PROVE Typed'
    <2>1. PICK u \in DOMAIN user, e \in Addresses :
             Goes(q, [Fresh EXCEPT !.at = "invite", !.who = u, !.email = e, !.admin = user[u].admin])
      BY <1>1 DEF AskToInvite
    <2>2. Shape([Fresh EXCEPT !.at = "invite", !.who = u, !.email = e, !.admin = user[u].admin])
      <3>1. u \in Users /\ user[u].admin \in BOOLEAN
        BY RowsTyped DEF User
      <3> QED
        BY <3>1 DEF Shape, Run, Fresh, Signing
    <2> QED
      BY <1>1, <2>1, <2>2, FreshTyped DEF AskToInvite
  <1>2. ASSUME InviteWithin(q) PROVE Typed'
    <2>1. run[q].email \in Addresses /\ run[q].who \in Users /\ Invite(run[q].email, run[q].who, FALSE)
      BY <1>b, <1>2 DEF InviteWithin, Shape
    <2>2. DataTyped'
      BY <1>a, <2>1, InviteTyped
    <2> QED
      BY <1>2, <2>2, OverTyped DEF InviteWithin
  <1>3. ASSUME AskAsAdmin(q) PROVE Typed'
    <2>1. CASE run[q].at = "invite" /\ Goes(q, [run[q] EXCEPT !.at = "checked", !.by = run[q].who, !.admin = FALSE])
      <3>1. Shape([run[q] EXCEPT !.at = "checked", !.by = run[q].who, !.admin = FALSE])
        BY <1>b, <2>1 DEF Shape, Run, Signing
      <3> QED
        BY <1>3, <2>1, <3>1, FreshTyped DEF AskAsAdmin
    <2>2. CASE \E u \in DOMAIN user, e \in Addresses, admin \in BOOLEAN :
                  Goes(q, [Fresh EXCEPT !.at = "checked", !.email = e, !.by = u, !.admin = admin])
      <3>1. PICK u \in DOMAIN user, e \in Addresses, admin \in BOOLEAN :
                  Goes(q, [Fresh EXCEPT !.at = "checked", !.email = e, !.by = u, !.admin = admin])
        BY <2>2
      <3>2. u \in Users
        BY RowsTyped
      <3>3. Shape([Fresh EXCEPT !.at = "checked", !.email = e, !.by = u, !.admin = admin])
        BY <3>2 DEF Shape, Run, Fresh, Signing
      <3> QED
        BY <1>3, <3>1, <3>3, FreshTyped DEF AskAsAdmin
    <2> QED
      BY <1>3, <2>1, <2>2 DEF AskAsAdmin
  <1>4. ASSUME InviteChecked(q) PROVE Typed'
    <2>1. run[q].email \in Addresses /\ run[q].by \in Users \cup {None} /\ run[q].admin \in BOOLEAN
      BY <1>b, <1>4 DEF InviteChecked, Shape, Run
    <2>2. DataTyped'
      BY <1>a, <1>4, <2>1, InviteTyped DEF InviteChecked
    <2> QED
      BY <1>4, <2>2, OverTyped DEF InviteChecked
  <1>5. ASSUME AskForMail(q) \/ AskToWithdraw(q) \/ ReadInvitation(q) PROVE Typed'
    <2>1. PICK e \in DOMAIN invited :
             \/ Goes(q, [Fresh EXCEPT !.at = "resend", !.email = e, !.by = invited[e].by, !.admin = invited[e].admin])
             \/ Goes(q, [Fresh EXCEPT !.at = "withdraw", !.email = e])
             \/ Goes(q, [Fresh EXCEPT !.at = "register", !.email = e, !.admin = invited[e].admin])
      BY <1>5 DEF AskForMail, AskToWithdraw, ReadInvitation
    <2>2. e \in Addresses /\ invited[e].by \in Users \cup {None} /\ invited[e].admin \in BOOLEAN
      BY RowsTyped DEF Invitation
    <2>3. Shape([Fresh EXCEPT !.at = "resend", !.email = e, !.by = invited[e].by, !.admin = invited[e].admin])
      BY <2>2 DEF Shape, Run, Fresh, Signing
    <2>4. Shape([Fresh EXCEPT !.at = "withdraw", !.email = e])
      BY <2>2 DEF Shape, Run, Fresh, Signing
    <2>5. Shape([Fresh EXCEPT !.at = "register", !.email = e, !.admin = invited[e].admin])
      BY <2>2 DEF Shape, Run, Fresh, Signing
    <2> QED
      BY <1>5, <2>1, <2>3, <2>4, <2>5, FreshTyped DEF AskForMail, AskToWithdraw, ReadInvitation
  <1>6. ASSUME MailAgain(q) PROVE Typed'
    BY <1>a, <1>6, DataSame, ThenTyped DEF MailAgain
  <1>7. ASSUME Uninvite(q) PROVE Typed'
    <2>1. IsMap(invited', Addresses, Invitation)
      BY <1>a, <1>7, MapWithout DEF Uninvite, DataTyped
    <2>2. DataTyped'
      BY <1>a, <1>7, <2>1 DEF Uninvite, DataTyped
    <2> QED
      BY <1>7, <2>2, OverTyped DEF Uninvite
  <1>8. ASSUME Register(q) PROVE Typed'
    <2>1. run[q].email \in Addresses /\ run[q].admin \in BOOLEAN
      BY <1>b, <1>8 DEF Register, Shape, Run
    <2>2. DataTyped'
      BY <1>a, <1>8, <2>1, CreateUserTyped DEF Register
    <2> QED
      BY <1>8, <2>2, OverTyped DEF Register
  <1> QED
    BY <1>1, <1>2, <1>3, <1>4, <1>5, <1>6, <1>7, <1>8 DEF Invitations

LEMMA AdministrationTyped ==
    ASSUME Typed, NEW q \in Requests, Administration(q), UNCHANGED scene PROVE Typed'
  <1>a. DataTyped
    BY TypeParts DEF Typed
  <1>b. run[q] \in Run /\ Shape(run[q])
    BY RunTyped
  <1>1. ASSUME ReadPerson(q) \/ LeavesGroup(q) \/ AskToGo(q) PROVE Typed'
    <2>1. PICK u \in DOMAIN user, at \in {"off", "on", "going", "demote"} : Goes(q, [Fresh EXCEPT !.at = at, !.who = u])
      BY <1>1 DEF ReadPerson, LeavesGroup, AskToGo
    <2>2. u \in Users
      BY RowsTyped
    <2>3. Shape([Fresh EXCEPT !.at = at, !.who = u])
      BY <2>2 DEF Shape, Run, Fresh, Signing
    <2> QED
      BY <1>1, <2>1, <2>3, FreshTyped DEF ReadPerson, LeavesGroup, AskToGo
  <1>2. ASSUME Disable(q) \/ Enable(q) \/ LeftAdminGroup(q) PROVE Typed'
    <2>1. run[q].who \in Users
      BY <1>b, <1>2 DEF Disable, Enable, LeftAdminGroup, Shape
    <2>2. DataTyped'
      BY <1>a, <1>2, <2>1, SetDisabledTyped, SetAdminTyped DEF Disable, Enable, LeftAdminGroup
    <2> QED
      BY <1>2, <2>2, OverTyped, ThenTyped DEF Disable, Enable, LeftAdminGroup
  <1>3. ASSUME MarkDisabled(q) PROVE Typed'
    <2>1. DataTyped'
      BY <1>a, <1>3 DEF MarkDisabled, DataTyped
    <2> QED
      BY <1>3, <2>1, OverTyped DEF MarkDisabled
  <1>4. ASSUME ReadEntry(q) PROVE Typed'
    <2>1. PICK n \in DOMAIN entry :
             \/ (\E u \in UsersWith(entry[n].email) : entry' = Claimed(entry[n].email, u)) /\ UNCHANGED run
             \/ /\ \/ \E off \in BOOLEAN :
                         Goes(q, [Fresh EXCEPT !.at = "entry", !.entry = n, !.email = entry[n].email, !.off = off])
                   \/ Goes(q, [Fresh EXCEPT !.at = "drop", !.entry = n])
                /\ UNCHANGED entry
      BY <1>4 DEF ReadEntry
    <2>2. n \in Entries /\ entry[n].email \in Addresses
      BY RowsTyped DEF Entry
    <2>3. CASE (\E u \in UsersWith(entry[n].email) : entry' = Claimed(entry[n].email, u)) /\ UNCHANGED run
      <3>1. IsMap(entry', Entries, Entry)
        BY <1>a, <2>3, RowsTyped, ClaimedTyped DEF UsersWith
      <3>2. DataTyped'
        BY <1>a, <1>4, <3>1 DEF DataTyped, ReadEntry
      <3> QED
        BY <2>3, <3>2, TypeParts DEF Typed, TypeOK, DataTyped
    <2>4. ASSUME NEW off \in BOOLEAN, UNCHANGED entry,
                 Goes(q, [Fresh EXCEPT !.at = "entry", !.entry = n, !.email = entry[n].email, !.off = off])
          PROVE  Typed'
      <3>1. Shape([Fresh EXCEPT !.at = "entry", !.entry = n, !.email = entry[n].email, !.off = off])
        BY <2>2 DEF Shape, Run, Fresh, Signing
      <3> QED
        BY <1>4, <2>4, <3>1, FreshTyped DEF ReadEntry, data
    <2>5. ASSUME UNCHANGED entry, Goes(q, [Fresh EXCEPT !.at = "drop", !.entry = n]) PROVE Typed'
      <3>1. Shape([Fresh EXCEPT !.at = "drop", !.entry = n])
        BY <2>2 DEF Shape, Run, Fresh, Signing
      <3> QED
        BY <1>4, <2>5, <3>1, FreshTyped DEF ReadEntry, data
    <2> QED
      BY <2>1, <2>3, <2>4, <2>5
  <1>5. ASSUME ReadOwnEntry(q) PROVE Typed'
    <2>1. PICK u \in DOMAIN user, n \in Entries :
             Goes(q, [Fresh EXCEPT !.at = "entry", !.who = u, !.entry = n, !.email = user[u].email,
                                   !.off = n \in DOMAIN entry /\ ~entry[n].active])
      BY <1>5 DEF ReadOwnEntry
    <2>2. u \in Users /\ user[u].email \in Addresses /\ (n \in DOMAIN entry /\ ~entry[n].active) \in BOOLEAN
      BY RowsTyped DEF User
    <2>3. ASSUME NEW e \in Addresses, NEW off \in BOOLEAN
          PROVE  Shape([Fresh EXCEPT !.at = "entry", !.who = u, !.entry = n, !.email = e, !.off = off])
      BY <2>2 DEF Shape, Run, Fresh, Signing
    <2> QED
      BY <1>5, <2>1, <2>2, <2>3, FreshTyped DEF ReadOwnEntry
  <1>6. ASSUME AskForEntry(q) PROVE Typed'
    <2>1. PICK e \in Addresses, n \in Entries \ DOMAIN entry :
             Goes(q, [Fresh EXCEPT !.at = "entry", !.entry = n, !.email = e])
      BY <1>6 DEF AskForEntry
    <2>2. Shape([Fresh EXCEPT !.at = "entry", !.entry = n, !.email = e])
      BY DEF Shape, Run, Fresh, Signing
    <2> QED
      BY <1>6, <2>1, <2>2, FreshTyped DEF AskForEntry
  <1>7. ASSUME PutEntry(q) PROVE Typed'
    <2> DEFINE row == [email |-> run[q].email, user |-> run[q].who, active |-> ~run[q].off]
    <2>1. run[q].entry \in Entries /\ row \in Entry /\ entry' = With(entry, run[q].entry, row)
      BY <1>b, <1>7 DEF PutEntry, Shape, Run, Entry
    <2> HIDE DEF row
    <2>2. IsMap(entry', Entries, Entry)
      BY <1>a, <2>1, MapWith DEF DataTyped
    <2>3. DataTyped'
      BY <1>a, <1>7, <2>2 DEF PutEntry, DataTyped
    <2> QED
      BY <1>7, <2>3, OverTyped DEF PutEntry
  <1>8. ASSUME DropEntry(q) PROVE Typed'
    <2>1. IsMap(entry', Entries, Entry)
      BY <1>a, <1>8, MapWithout DEF DropEntry, DataTyped
    <2>2. DataTyped'
      BY <1>a, <1>8, <2>1 DEF DropEntry, DataTyped
    <2> QED
      BY <1>8, <2>2, OverTyped DEF DropEntry
  <1>9. ASSUME ReadTarget(q) PROVE Typed'
    <2>1. PICK a \in DOMAIN user, u \in DOMAIN user :
             Goes(q, [Fresh EXCEPT !.at = "portal", !.who = u, !.by = a, !.last = user[u].admin /\ AdminCount <= 1])
      BY <1>9 DEF ReadTarget
    <2>2. a \in Users /\ u \in Users /\ (user[u].admin /\ AdminCount <= 1) \in BOOLEAN
      BY RowsTyped
    <2>3. ASSUME NEW last \in BOOLEAN
          PROVE  Shape([Fresh EXCEPT !.at = "portal", !.who = u, !.by = a, !.last = last])
      BY <2>2 DEF Shape, Run, Fresh, Signing
    <2> QED
      BY <1>9, <2>1, <2>2, <2>3, FreshTyped DEF ReadTarget
  <1>10. ASSUME UserAction(q) PROVE Typed'
    <2>1. run[q].who \in Users
      BY <1>b, <1>10 DEF UserAction, Shape
    <2>2. DataTyped'
      BY <1>a, <1>10, <2>1, SetDisabledTyped, SetAdminTyped, DeleteUserTyped DEF UserAction
    <2> QED
      BY <1>10, <2>2, OverTyped DEF UserAction
  <1>11. ASSUME DeleteAccount(q) PROVE Typed'
    BY <1>a, <1>11, DeleteUserTyped, OverTyped DEF DeleteAccount
  <1> QED
    BY <1>1, <1>2, <1>3, <1>4, <1>5, <1>6, <1>7, <1>8, <1>9, <1>10, <1>11 DEF Administration

LEMMA RunsOutTyped ==
    ASSUME Typed, NEW e \in Addresses, RunsOut(e), UNCHANGED scene PROVE Typed'
  <1>1. IsMap(invited, Addresses, Invitation)
    BY TypeParts DEF Typed, DataTyped
  <1>2. IsMap(invited', Addresses, Invitation)
    <2>1. CASE invited[e].late
      BY <1>1, <2>1, MapWithout DEF RunsOut
    <2>2. CASE ~invited[e].late
      BY <1>1, <2>2 DEF RunsOut, IsMap, Invitation
    <2> QED
      BY <2>1, <2>2
  <1>3. DataTyped' /\ run' = run
    BY <1>2, TypeParts DEF RunsOut, Typed, DataTyped
  <1> QED
    BY <1>3, TypeParts DEF Typed, TypeOK, DataTyped

LEMMA NextTyped == Typed /\ Tables /\ [Next]_vars => Typed'
  <1> SUFFICES ASSUME Typed, Tables, [Next]_vars PROVE Typed'
    OBVIOUS
  <1>1. CASE UNCHANGED vars
    BY <1>1 DEF vars, data, Typed, TypeOK
  <1>2. CASE Next
    <2>1. ASSUME NEW q \in Requests, Ends(q), UNCHANGED scene PROVE Typed'
      BY <2>1, TypeParts, DataSame, OverTyped DEF Ends, Refuses, Typed
    <2> QED
      BY <1>2, <2>1, ProviderTyped, InvitationsTyped, AdministrationTyped, RunsOutTyped DEF Next
  <1> QED
    BY <1>1, <1>2

(***************************************************************************)
(* Tables that fit together                                                *)
(***************************************************************************)
LEMMA InitTables == Init => Tables
  BY ScenesFit DEF Init, Tables

LEMMA DataSameTables == Tables /\ UNCHANGED data => Tables'
  BY DEF Tables, data

(* A row that keeps its address and who brought it in.                     *)
LEMMA UpdateTables ==
    ASSUME Typed, Tables, NEW u, NEW row, Update(u, row), marked' \subseteq marked,
           u \in DOMAIN user => row.email = user[u].email /\ row.by = user[u].by
    PROVE  Tables'
  <1>1. DOMAIN user' = DOMAIN user /\ \A x \in DOMAIN user : user'[x].email = user[x].email /\ user'[x].by = user[x].by
    BY DEF Update
  <1>2. UNCHANGED <<gone, invited, entry, link, sid, started, code, device, used, logins, ended>>
    BY DEF Update
  <1>3. TablesFit(user', entry')
    BY <1>1, <1>2 DEF Tables, TablesFit
  <1> QED
    BY <1>1, <1>2, <1>3 DEF Tables

LEMMA SetDisabledTables ==
    ASSUME Typed, Tables, NEW u, NEW off \in BOOLEAN, SetDisabled(u, off) PROVE Tables'
  <1>1. u \in DOMAIN user =>
          [user[u] EXCEPT !.disabled = off].email = user[u].email /\ [user[u] EXCEPT !.disabled = off].by = user[u].by
    BY RowsTyped DEF User
  <1> QED
    BY <1>1, UpdateTables DEF SetDisabled

LEMMA SetAdminTables ==
    ASSUME Typed, Tables, NEW u, NEW admin \in BOOLEAN, SetAdmin(u, admin) PROVE Tables'
  <1>1. u \in DOMAIN user =>
          [user[u] EXCEPT !.admin = admin].email = user[u].email /\ [user[u] EXCEPT !.admin = admin].by = user[u].by
    BY RowsTyped DEF User
  <1> QED
    BY <1>1, UpdateTables DEF SetAdmin

LEMMA CreateUserTables ==
    ASSUME Typed, Tables, NEW u, NEW e, NEW admin, NEW password, MayBeMade(e), CreateUser(u, e, admin, password)
    PROVE  Tables'
  <1> DEFINE row == [email |-> e, admin |-> admin, disabled |-> FALSE, password |-> password, by |-> BroughtInBy(e)]
  <1>1. row.email = e /\ row.by \in DOMAIN user \cup {None}
    BY DEF BroughtInBy, Tables
  <1>2. u \notin DOMAIN user /\ user' = With(user, u, row) /\ invited' = Without(invited, {e})
    BY DEF CreateUser
  <1> HIDE DEF row
  <1>3. /\ DOMAIN user' = DOMAIN user \cup {u} /\ user'[u] = row
        /\ \A x \in DOMAIN user : user'[x] = user[x]
    BY <1>2 DEF With
  <1>4. UNCHANGED <<entry, marked, link, sid, code, device>>
    BY DEF CreateUser
  <1>5. TablesFit(user', entry')
    <2>1. \A x, y \in DOMAIN user' : user'[x].email = user'[y].email => x = y
      BY <1>1, <1>3 DEF Tables, TablesFit, MayBeMade, UsersWith
    <2>2. \A x \in DOMAIN user' : user'[x].by \in DOMAIN user' \cup {None}
      BY <1>1, <1>3 DEF Tables, TablesFit
    <2>3. \A n \in DOMAIN entry : entry[n].user \in DOMAIN user' \cup {None}
      BY <1>3 DEF Tables, TablesFit
    <2> QED
      BY <1>4, <2>1, <2>2, <2>3 DEF Tables, TablesFit
  <1>6. \A x \in DOMAIN invited' : invited'[x].by \in DOMAIN user' \cup {None}
    BY <1>2, <1>3 DEF Tables, Without
  <1> QED
    BY <1>3, <1>4, <1>5, <1>6 DEF Tables

LEMMA DeleteUserTables ==
    ASSUME Typed, Tables, NEW u, DeleteUser(u) PROVE Tables'
  <1>1. /\ DOMAIN user' = DOMAIN user \ {u}
        /\ \A x \in DOMAIN user' :
              /\ user'[x].email = user[x].email
              /\ user'[x].by = IF user[x].by = u THEN None ELSE user[x].by
    BY RowsTyped DEF DeleteUser, User
  <1>2. /\ DOMAIN invited' = DOMAIN invited
        /\ \A e \in DOMAIN invited' : invited'[e].by = IF invited[e].by = u THEN None ELSE invited[e].by
    BY RowsTyped DEF DeleteUser, Invitation
  <1>3. /\ DOMAIN entry' = {n \in DOMAIN entry : entry[n].user # u}
        /\ \A n \in DOMAIN entry' : entry'[n] = entry[n]
    BY DEF DeleteUser, Without, EntriesOf
  <1>4. /\ link' = RangeWithout(link, u) /\ sid' = RangeWithout(sid, u) /\ code' = RangeWithout(code, u)
        /\ device' = device \ {u} /\ marked' = marked \ {u}
    BY DEF DeleteUser
  <1>5. TablesFit(user', entry')
    <2>1. \A x, y \in DOMAIN user' : user'[x].email = user'[y].email => x = y
      BY <1>1 DEF Tables, TablesFit
    <2>2. \A x \in DOMAIN user' : user'[x].by \in DOMAIN user' \cup {None}
      BY <1>1 DEF Tables, TablesFit
    <2>3. \A n \in DOMAIN entry' : entry'[n].user \in DOMAIN user' \cup {None}
      BY <1>1, <1>3 DEF Tables, TablesFit
    <2>4. \A n, m \in DOMAIN entry' :
             n # m /\ entry'[n].user = entry'[m].user => entry'[n].user = None /\ entry'[n].email # entry'[m].email
      BY <1>3 DEF Tables, TablesFit
    <2> QED
      BY <2>1, <2>2, <2>3, <2>4 DEF TablesFit
  <1>6. \A e \in DOMAIN invited' : invited'[e].by \in DOMAIN user' \cup {None}
    BY <1>1, <1>2 DEF Tables
  <1>7. /\ \A s, t \in DOMAIN link' : link'[s] = link'[t] => s = t
        /\ \A s \in DOMAIN link' : link'[s] \in DOMAIN user'
        /\ \A s \in DOMAIN sid' : sid'[s] \in DOMAIN user'
        /\ \A f \in DOMAIN code' : code'[f] \in DOMAIN user'
    BY <1>1, <1>4 DEF Tables, RangeWithout
  <1>8. device' \cup marked' \subseteq DOMAIN user'
    BY <1>1, <1>4 DEF Tables
  <1> QED
    BY <1>5, <1>6, <1>7, <1>8 DEF Tables

LEMMA ClaimedTables ==
    ASSUME Typed, Tables, NEW e, NEW u \in DOMAIN user PROVE TablesFit(user, Claimed(e, u))
  <1>1. /\ DOMAIN Claimed(e, u) = DOMAIN entry
        /\ \A n \in DOMAIN entry :
              /\ Claimed(e, u)[n].email = entry[n].email
              /\ Claimed(e, u)[n].user =
                    IF entry[n].email = e /\ entry[n].user = None /\ EntriesOf(u) = {} THEN u ELSE entry[n].user
    BY RowsTyped DEF Claimed, Entry
  <1>2. \A n \in DOMAIN entry : EntriesOf(u) = {} => entry[n].user # u
    BY DEF EntriesOf
  <1>3. \A n, m \in DOMAIN entry :
           n # m /\ entry[n].user = entry[m].user => entry[n].user = None /\ entry[n].email # entry[m].email
    BY DEF Tables, TablesFit
  <1> DEFINE new == Claimed(e, u)
  <1>4. \A n, m \in DOMAIN new : n # m /\ new[n].user = new[m].user => new[n].user = None /\ new[n].email # new[m].email
    BY <1>1, <1>2, <1>3
  <1>5. \A n \in DOMAIN new : new[n].user \in DOMAIN user \cup {None}
    BY <1>1 DEF Tables, TablesFit
  <1> QED
    BY <1>4, <1>5 DEF Tables, TablesFit

LEMMA InviteTables ==
    ASSUME Typed, Tables, NEW e, NEW by \in DOMAIN user \cup {None}, NEW admin, Invite(e, by, admin) PROVE Tables'
  <1>1. \A x \in DOMAIN invited' : invited'[x].by \in DOMAIN user \cup {None}
    BY DEF Invite, With, Tables
  <1> QED
    BY <1>1 DEF Invite, Tables

LEMMA LinkTables ==
    ASSUME Tables, NEW s, NEW u, CanLink(s, u), link' = With(link, s, u),
           UNCHANGED <<user, invited, entry, marked, sid, code, device>>
    PROVE  Tables'
  <1>1. /\ DOMAIN link' = DOMAIN link \cup {s} /\ link'[s] = u /\ \A t \in DOMAIN link : link'[t] = link[t]
    BY DEF With, CanLink
  <1>2. u \in DOMAIN user /\ \A t \in DOMAIN link : link[t] # u
    BY DEF CanLink, Linked
  <1>3. /\ \A t, x \in DOMAIN link' : link'[t] = link'[x] => t = x
        /\ \A t \in DOMAIN link' : link'[t] \in DOMAIN user
    BY <1>1, <1>2 DEF Tables
  <1> QED
    BY <1>3 DEF Tables

LEMMA EntryTables ==
    ASSUME Tables, TablesFit(user, entry'), UNCHANGED <<user, invited, marked, link, sid, code, device>>
    PROVE  Tables'
  BY DEF Tables

LEMMA ProviderTables ==
    ASSUME Typed, Tables, NEW q \in Requests, ThroughProvider(q) PROVE Tables'
  <1>1. ASSUME Signin(q) \/ AccountFor(q) \/ CountAdmins(q) \/ ReadCode(q) \/ FindSession(q) PROVE Tables'
    BY <1>1, DataSameTables DEF Signin, AccountFor, CountAdmins, ReadCode, FindSession, Tables
  <1>2. ASSUME LinkSso(q) PROVE Tables'
    BY <1>2, LinkTables DEF LinkSso
  <1>3. ASSUME SignUp(q) PROVE Tables'
    BY <1>3, CreateUserTables DEF SignUp
  <1>4. ASSUME LinkFirst(q) PROVE Tables'
    <2>1. CASE CanLink(run[q].claim.subject, run[q].who)
      BY <1>4, <2>1, LinkTables DEF LinkFirst
    <2>2. CASE ~CanLink(run[q].claim.subject, run[q].who)
      BY <1>4, <2>2 DEF LinkFirst, Tables
    <2> QED
      BY <2>1, <2>2
  <1>5. ASSUME Undo(q) PROVE Tables'
    BY <1>5, DeleteUserTables DEF Undo
  <1>6. ASSUME ClaimEntry(q) PROVE Tables'
    <2>1. TablesFit(user, entry')
      BY <1>6, ClaimedTables DEF ClaimEntry, Tables
    <2> QED
      BY <1>6, <2>1, EntryTables DEF ClaimEntry
  <1>7. ASSUME StartSession(q) PROVE Tables'
    <2>1. \A s \in DOMAIN sid' : sid'[s] \in DOMAIN user
      BY <1>7 DEF StartSession, With, Tables
    <2> QED
      BY <1>7, <2>1 DEF StartSession, Tables
  <1>8. ASSUME FollowAdminRight(q) PROVE Tables'
    <2>1. (~run[q].admin) \in BOOLEAN
      OBVIOUS
    <2> QED
      BY <1>8, <2>1, SetAdminTables DEF FollowAdminRight
  <1>9. ASSUME PutCode(q) PROVE Tables'
    <2>1. \A f \in DOMAIN code' : code'[f] \in DOMAIN user
      BY <1>9 DEF PutCode, With, Tables
    <2> QED
      BY <1>9, <2>1 DEF PutCode, Tables
  <1>10. ASSUME TakeSsoCode(q) PROVE Tables'
    <2>1. \A f \in DOMAIN code' : code'[f] \in DOMAIN user
      BY <1>10 DEF TakeSsoCode, Without, Tables
    <2> QED
      BY <1>10, <2>1 DEF TakeSsoCode, Tables
  <1>11. ASSUME FinishLogin(q) PROVE Tables'
    BY <1>11 DEF FinishLogin, Tables
  <1>12. ASSUME BackChannelLogout(q) PROVE Tables'
    <2>1. \A s \in DOMAIN sid' : sid'[s] \in DOMAIN user
      BY <1>12 DEF BackChannelLogout, RangeWithout, Tables
    <2> QED
      BY <1>12, <2>1 DEF BackChannelLogout, Tables
  <1> QED
    BY <1>1, <1>2, <1>3, <1>4, <1>5, <1>6, <1>7, <1>8, <1>9, <1>10, <1>11, <1>12 DEF ThroughProvider

LEMMA InvitationsTables ==
    ASSUME Typed, Tables, NEW q \in Requests, Invitations(q) PROVE Tables'
  <1>1. ASSUME AskToInvite(q) \/ AskAsAdmin(q) \/ AskForMail(q) \/ MailAgain(q) \/ AskToWithdraw(q) \/ ReadInvitation(q)
        PROVE  Tables'
    BY <1>1, DataSameTables DEF AskToInvite, AskAsAdmin, AskForMail, MailAgain, AskToWithdraw, ReadInvitation
  <1>2. ASSUME InviteWithin(q) \/ InviteChecked(q) PROVE Tables'
    BY <1>2, InviteTables DEF InviteWithin, InviteChecked
  <1>3. ASSUME Uninvite(q) PROVE Tables'
    <2>1. \A x \in DOMAIN invited' : invited'[x].by \in DOMAIN user \cup {None}
      BY <1>3 DEF Uninvite, Without, Tables
    <2> QED
      BY <1>3, <2>1 DEF Uninvite, Tables
  <1>4. ASSUME Register(q) PROVE Tables'
    BY <1>4, CreateUserTables DEF Register
  <1> QED
    BY <1>1, <1>2, <1>3, <1>4 DEF Invitations

LEMMA AdministrationTables ==
    ASSUME Typed, Tables, NEW q \in Requests, Administration(q) PROVE Tables'
  <1>1. ASSUME ReadPerson(q) \/ ReadOwnEntry(q) \/ AskForEntry(q) \/ LeavesGroup(q) \/ ReadTarget(q) \/ AskToGo(q)
        PROVE  Tables'
    BY <1>1, DataSameTables DEF ReadPerson, ReadOwnEntry, AskForEntry, LeavesGroup, ReadTarget, AskToGo
  <1>2. ASSUME Disable(q) \/ Enable(q) \/ LeftAdminGroup(q) PROVE Tables'
    BY <1>2, SetDisabledTables, SetAdminTables DEF Disable, Enable, LeftAdminGroup
  <1>3. ASSUME MarkDisabled(q) PROVE Tables'
    BY <1>3 DEF MarkDisabled, Tables
  <1>4. ASSUME ReadEntry(q) PROVE Tables'
    <2>1. TablesFit(user, entry')
      <3>1. \A e : \A u \in UsersWith(e) : TablesFit(user, Claimed(e, u))
        BY ClaimedTables DEF UsersWith
      <3>2. TablesFit(user, entry)
        BY DEF Tables
      <3> QED
        BY <1>4, <3>1, <3>2 DEF ReadEntry
    <2> QED
      BY <1>4, <2>1, EntryTables DEF ReadEntry
  <1>5. ASSUME PutEntry(q) PROVE Tables'
    <2> DEFINE row == [email |-> run[q].email, user |-> run[q].who, active |-> ~run[q].off]
    <2>1. /\ entry' = With(entry, run[q].entry, row)
          /\ row.user \in DOMAIN user \cup {None}
          /\ \A x \in DOMAIN entry \ {run[q].entry} :
                entry[x].user = row.user => row.user = None /\ entry[x].email # row.email
      BY <1>5 DEF PutEntry
    <2> HIDE DEF row
    <2>2. /\ DOMAIN entry' = DOMAIN entry \cup {run[q].entry} /\ entry'[run[q].entry] = row
          /\ \A x \in DOMAIN entry \ {run[q].entry} : entry'[x] = entry[x]
      BY <2>1 DEF With
    <2>3. TablesFit(user, entry')
      BY <2>1, <2>2 DEF Tables, TablesFit
    <2> QED
      BY <1>5, <2>3, EntryTables DEF PutEntry
  <1>6. ASSUME DropEntry(q) PROVE Tables'
    <2>1. TablesFit(user, entry')
      BY <1>6 DEF DropEntry, Without, Tables, TablesFit
    <2> QED
      BY <1>6, <2>1, EntryTables DEF DropEntry
  <1>7. ASSUME UserAction(q) PROVE Tables'
    BY <1>7, SetDisabledTables, SetAdminTables, DeleteUserTables DEF UserAction
  <1>8. ASSUME DeleteAccount(q) PROVE Tables'
    BY <1>8, DeleteUserTables DEF DeleteAccount
  <1> QED
    BY <1>1, <1>2, <1>3, <1>4, <1>5, <1>6, <1>7, <1>8 DEF Administration

LEMMA NextTables == Typed /\ Tables /\ [Next]_vars => Tables'
  <1> SUFFICES ASSUME Typed, Tables, [Next]_vars PROVE Tables'
    OBVIOUS
  <1>1. CASE UNCHANGED vars
    BY <1>1, DataSameTables DEF vars
  <1>2. ASSUME NEW e \in Addresses, RunsOut(e) PROVE Tables'
    <2>1. \A x \in DOMAIN invited' : invited'[x].by \in DOMAIN user \cup {None}
      <3>1. CASE invited[e].late
        BY <1>2, <3>1 DEF RunsOut, Without, Tables
      <3>2. CASE ~invited[e].late
        BY <1>2, <3>2, RowsTyped DEF RunsOut, Tables, Invitation
      <3> QED
        BY <3>1, <3>2
    <2> QED
      BY <1>2, <2>1 DEF RunsOut, Tables
  <1>3. ASSUME NEW q \in Requests, Ends(q) PROVE Tables'
    BY <1>3, DataSameTables DEF Ends, Refuses
  <1> QED
    BY <1>1, <1>2, <1>3, ProviderTables, InvitationsTables, AdministrationTables DEF Next

(***************************************************************************)
(* What counts once                                                        *)
(***************************************************************************)
Quiet == DOMAIN code' \subseteq DOMAIN code /\ UNCHANGED <<started, used, logins, ended>>

LEMMA QuietSame == UNCHANGED data => Quiet
  BY DEF data, Quiet

LEMMA QuietUser ==
    ASSUME NEW u, NEW e, NEW x, NEW y,
           CreateUser(u, e, x, y) \/ DeleteUser(u) \/ SetDisabled(u, x) \/ SetAdmin(u, x) \/ Invite(e, u, x)
    PROVE  Quiet
  BY DEF CreateUser, DeleteUser, SetDisabled, SetAdmin, Update, Invite, RangeWithout, Quiet

(* A step that hands nothing out, takes nothing and keeps what it holds.   *)
LEMMA QuietOnce ==
    ASSUME Typed, Once, NEW q \in Requests, NEW r, Goes(q, r), Quiet,
           r.at \notin Signing \cup {"finish"} \/ Holds(q, r.flow)
    PROVE  Once'
  <1>1. run' = [run EXCEPT ![q] = r] /\ run \in [Requests -> Run]
    BY TypeParts DEF Goes, Typed
  <1>2. \A p \in Requests : \A f : Holds(p, f)' => Holds(p, f)
    BY <1>1 DEF Holds
  <1>3. UNCHANGED <<started, used, logins, ended>> /\ DOMAIN code' \subseteq DOMAIN code
    BY DEF Quiet
  <1> QED
    BY <1>2, <1>3 DEF Once

LEMMA AwayOnce ==
    ASSUME Once, NEW q \in Requests, Quiet, \A p \in Requests \ {q} : run'[p] = run[p],
           run'[q].at \notin Signing \cup {"finish"}
    PROVE  Once'
  <1>1. \A p \in Requests : \A f : Holds(p, f)' => Holds(p, f)
    BY DEF Holds
  <1> QED
    BY <1>1 DEF Once, Quiet

LEMMA SameOnce == Once /\ Quiet /\ UNCHANGED run => Once'
  BY DEF Once, Quiet, Holds

LEMMA OverOnce ==
    ASSUME Typed, Once, NEW q \in Requests, Over(q), Quiet PROVE Once'
  BY QuietOnce DEF Over, Fresh, Signing

LEMMA ThenOnce ==
    ASSUME Typed, Once, NEW q \in Requests, NEW at, Then(q, at), Quiet,
           at \notin Signing \cup {"finish"} \/ run[q].at \in Signing \cup {"finish"}
    PROVE  Once'
  <1> DEFINE r == [run[q] EXCEPT !.at = at]
  <1>1. r.at = at /\ r.flow = run[q].flow
    BY RunTyped DEF Run
  <1>2. Goes(q, r)
    BY DEF Then
  <1> HIDE DEF r
  <1> QED
    BY <1>1, <1>2, QuietOnce DEF Holds

LEMMA ProviderOnce ==
    ASSUME Typed, Typed', Once, NEW q \in Requests, ThroughProvider(q) PROVE Once'
  <1>a. run \in [Requests -> Run] /\ run[q] \in Run /\ Shape(run[q])
    BY RunTyped, TypeParts DEF Typed
  <1>b. logins \in [Flows -> Nat] /\ ended \in [Subjects -> Nat] /\ started \subseteq Flows
    BY TypeParts DEF Typed, DataTyped
  <1>1. ASSUME Signin(q) PROVE Once'
    <2>1. PICK f \in started, c \in scene.claims :
             started' = started \ {f} /\ Goes(q, [Fresh EXCEPT !.at = "identity", !.flow = f, !.claim = c])
      BY <1>1 DEF Signin
    <2>2. /\ run'[q].flow = f
          /\ \A p \in Requests \ {q} : run'[p] = run[p]
      BY <1>a, <2>1 DEF Goes, Fresh
    <2>3. \A g \in Flows : \A p \in Requests : Holds(p, g)' => (p = q /\ g = f) \/ (p # q /\ Holds(p, g))
      BY <2>2 DEF Holds
    <2>4. started' = started \ {f} /\ f \in started /\ f \in Flows /\ UNCHANGED <<code, used, logins, ended>>
      BY <1>1, <1>b, <2>1 DEF Signin
    <2> QED
      BY <2>3, <2>4 DEF Once
  <1>2. ASSUME AccountFor(q) PROVE Once'
    <2>1. run[q].at = "identity" /\ Quiet
      BY <1>2, QuietSame DEF AccountFor
    <2>2. \/ \E u : \E at \in {"session", "link"} :
                Goes(q, [run[q] EXCEPT !.at = at, !.who = u, !.admin = user[u].admin])
          \/ \E admin : Goes(q, [run[q] EXCEPT !.at = "signup", !.admin = admin])
      BY <1>2, Zenon DEF AccountFor
    <2>3. ASSUME NEW u, NEW at \in {"session", "link"},
                 Goes(q, [run[q] EXCEPT !.at = at, !.who = u, !.admin = user[u].admin])
          PROVE  Once'
      <3>1. [run[q] EXCEPT !.at = at, !.who = u, !.admin = user[u].admin].flow = run[q].flow
        BY <1>a DEF Run
      <3> QED
        BY <2>1, <2>3, <3>1, QuietOnce DEF Holds, Signing
    <2>4. ASSUME NEW admin, Goes(q, [run[q] EXCEPT !.at = "signup", !.admin = admin]) PROVE Once'
      <3>1. [run[q] EXCEPT !.at = "signup", !.admin = admin].flow = run[q].flow
        BY <1>a DEF Run
      <3> QED
        BY <2>1, <2>4, <3>1, QuietOnce DEF Holds, Signing
    <2> QED
      BY <2>2, <2>3, <2>4
  <1>3. ASSUME LinkSso(q) \/ LinkFirst(q) \/ ClaimEntry(q) \/ StartSession(q) \/ CountAdmins(q) \/ FollowAdminRight(q)
        PROVE  Once'
    <2>1. Quiet
      BY <1>3, QuietSame, QuietUser
         DEF LinkSso, LinkFirst, ClaimEntry, StartSession, CountAdmins, FollowAdminRight, Quiet
    <2>2. run[q].at \in Signing /\ \E at : Then(q, at)
      BY <1>3 DEF LinkSso, LinkFirst, ClaimEntry, StartSession, CountAdmins, FollowAdminRight, Signing
    <2> QED
      BY <2>1, <2>2, ThenOnce
  <1>4. ASSUME SignUp(q) PROVE Once'
    <2>1. PICK u \in Users : CreateUser(u, run[q].claim.email, run[q].admin, FALSE)
                             /\ Goes(q, [run[q] EXCEPT !.at = "first", !.who = u])
      BY <1>4 DEF SignUp
    <2>2. [run[q] EXCEPT !.at = "first", !.who = u].flow = run[q].flow /\ run[q].at \in Signing
      BY <1>a, <1>4 DEF Run, SignUp, Signing
    <2>3. Quiet
      BY <2>1, QuietUser
    <2> QED
      BY <2>1, <2>2, <2>3, QuietOnce DEF Holds
  <1>5. ASSUME Undo(q) PROVE Once'
    BY <1>5, QuietUser, OverOnce DEF Undo
  <1>6. ASSUME PutCode(q) PROVE Once'
    <2> DEFINE f == run[q].flow
    <2>1. run[q].at = "code" /\ f \in Flows /\ Holds(q, f)
      BY <1>a, <1>6 DEF PutCode, Shape, Signing, Holds
    <2>2. run'[q] = Fresh /\ \A p \in Requests \ {q} : run'[p] = run[p]
      BY <1>a, <1>6 DEF PutCode, Over, Goes
    <2>3. \A g \in Flows : \A p \in Requests : Holds(p, g)' => p # q /\ Holds(p, g)
      BY <2>2 DEF Holds, Fresh, Signing
    <2>4. DOMAIN code' = DOMAIN code \cup {f} /\ UNCHANGED <<started, used, logins, ended>>
      BY <1>6 DEF PutCode, With
    <2> HIDE DEF f
    <2> QED
      BY <2>1, <2>3, <2>4 DEF Once
  <1>7. ASSUME ReadCode(q) PROVE Once'
    <2>1. PICK f \in DOMAIN code : Goes(q, [Fresh EXCEPT !.at = "second", !.flow = f, !.who = code[f]])
      BY <1>7 DEF ReadCode
    <2>2. [Fresh EXCEPT !.at = "second", !.flow = f, !.who = code[f]].at \notin Signing \cup {"finish"}
      BY DEF Fresh, Signing
    <2> QED
      BY <1>7, <2>1, <2>2, QuietSame, QuietOnce DEF ReadCode
  <1>8. ASSUME TakeSsoCode(q) PROVE Once'
    <2> DEFINE f == run[q].flow
    <2>1. f \in Flows /\ f \in DOMAIN code
      BY <1>a, <1>8 DEF TakeSsoCode, Shape, StillThere
    <2>2. /\ run'[q].flow = f
          /\ \A p \in Requests \ {q} : run'[p] = run[p]
      BY <1>a, <1>8 DEF TakeSsoCode, Then, Goes, Run
    <2>3. \A g \in Flows : \A p \in Requests : Holds(p, g)' => (p = q /\ g = f) \/ (p # q /\ Holds(p, g))
      BY <2>2 DEF Holds
    <2>4. DOMAIN code' = DOMAIN code \ {f} /\ UNCHANGED <<started, used, logins, ended>>
      BY <1>8 DEF TakeSsoCode, Without
    <2> HIDE DEF f
    <2> QED
      BY <2>1, <2>3, <2>4 DEF Once
  <1>9. ASSUME FinishLogin(q) PROVE Once'
    <2> DEFINE f == run[q].flow
    <2>1. f \in Flows /\ Holds(q, f)
      BY <1>a, <1>9 DEF FinishLogin, Shape, Holds
    <2>2. run'[q] = Fresh /\ \A p \in Requests \ {q} : run'[p] = run[p]
      BY <1>a, <1>9 DEF FinishLogin, Over, Goes
    <2>3. \A g \in Flows : \A p \in Requests : Holds(p, g)' => p # q /\ Holds(p, g)
      BY <2>2 DEF Holds, Fresh, Signing
    <2>4. /\ logins'[f] = logins[f] + 1 /\ \A g \in Flows \ {f} : logins'[g] = logins[g]
          /\ UNCHANGED <<code, started, used, ended>>
      BY <1>b, <1>9, <2>1 DEF FinishLogin
    <2>5. logins[f] = 0 /\ f \notin started \cup DOMAIN code /\ \A p \in Requests : Holds(p, f) => p = q
      BY <2>1 DEF Once
    <2>6. \A g \in Flows : logins[g] \in Nat
      BY <1>b
    <2> HIDE DEF f
    <2>7. \A g \in Flows : logins'[g] <= 1 /\ (g # f => logins'[g] = logins[g])
      BY <2>1, <2>4, <2>5, <2>6 DEF Once
    <2> QED
      BY <2>1, <2>3, <2>4, <2>5, <2>7 DEF Once
  <1>10. ASSUME FindSession(q) PROVE Once'
    <2>1. PICK c, u : Goes(q, [Fresh EXCEPT !.at = "logout", !.claim = c, !.who = u])
      BY <1>10 DEF FindSession
    <2>2. [Fresh EXCEPT !.at = "logout", !.claim = c, !.who = u].at \notin Signing \cup {"finish"}
      BY DEF Fresh, Signing
    <2> QED
      BY <1>10, <2>1, <2>2, QuietSame, QuietOnce DEF FindSession
  <1>11. ASSUME BackChannelLogout(q) PROVE Once'
    <2> DEFINE s == run[q].claim.subject
    <2>1. s \in Subjects /\ s \notin used
      BY <1>a, <1>11 DEF BackChannelLogout, Shape, Claim
    <2>2. run'[q] = Fresh /\ \A p \in Requests \ {q} : run'[p] = run[p]
      BY <1>a, <1>11 DEF BackChannelLogout, Over, Goes
    <2>3. \A g \in Flows : \A p \in Requests : Holds(p, g)' => Holds(p, g)
      BY <2>2 DEF Holds, Fresh, Signing
    <2>4. /\ ended'[s] = ended[s] + 1 /\ \A t \in Subjects \ {s} : ended'[t] = ended[t]
          /\ used' = used \cup {s} /\ UNCHANGED <<code, started, logins>>
      BY <1>b, <1>11, <2>1 DEF BackChannelLogout
    <2> HIDE DEF s
    <2>5. \A t \in Subjects : ended'[t] <= 1 /\ (t \notin used' => ended'[t] = 0)
      BY <2>1, <2>4 DEF Once
    <2> QED
      BY <2>3, <2>4, <2>5 DEF Once
  <1> QED
    BY <1>1, <1>2, <1>3, <1>4, <1>5, <1>6, <1>7, <1>8, <1>9, <1>10, <1>11 DEF ThroughProvider

(* The other requests neither hold a sign-in nor begin one.                *)
LEMMA OthersOnce ==
    ASSUME Typed, Once, NEW q \in Requests, Invitations(q) \/ Administration(q) \/ Ends(q) PROVE Once'
  <1>a. run \in [Requests -> Run] /\ run[q] \in Run
    BY RunTyped, TypeParts DEF Typed
  <1>1. ASSUME AskToInvite(q) \/ AskForMail(q) \/ AskToWithdraw(q) \/ ReadInvitation(q) PROVE Once'
    <2>1. Quiet
      BY <1>1, QuietSame DEF AskToInvite, AskForMail, AskToWithdraw, ReadInvitation
    <2>2. run'[q].at \in {"invite", "resend", "withdraw", "register"} /\ \A p \in Requests \ {q} : run'[p] = run[p]
      <3>1. CASE AskToInvite(q)
        BY <1>a, <3>1 DEF AskToInvite, Fresh, Goes
      <3>2. CASE AskForMail(q)
        BY <1>a, <3>2 DEF AskForMail, Fresh, Goes
      <3>3. CASE AskToWithdraw(q)
        BY <1>a, <3>3 DEF AskToWithdraw, Fresh, Goes
      <3>4. CASE ReadInvitation(q)
        BY <1>a, <3>4 DEF ReadInvitation, Fresh, Goes
      <3> QED
        BY <1>1, <3>1, <3>2, <3>3, <3>4
    <2> QED
      BY <2>1, <2>2, AwayOnce DEF Signing
  <1>2. ASSUME AskAsAdmin(q) PROVE Once'
    <2>1. Quiet
      BY <1>2, QuietSame DEF AskAsAdmin
    <2>2. run'[q].at = "checked" /\ \A p \in Requests \ {q} : run'[p] = run[p]
      <3>1. CASE run[q].at = "invite" /\ Goes(q, [run[q] EXCEPT !.at = "checked", !.by = run[q].who, !.admin = FALSE])
        BY <1>a, <3>1 DEF Goes, Run
      <3>2. ASSUME NEW u, NEW e, NEW admin, Goes(q, [Fresh EXCEPT !.at = "checked", !.email = e, !.by = u, !.admin = admin])
            PROVE  run'[q].at = "checked" /\ \A p \in Requests \ {q} : run'[p] = run[p]
        BY <1>a, <3>2 DEF Goes, Fresh
      <3> QED
        BY <1>2, <3>1, <3>2 DEF AskAsAdmin
    <2> QED
      BY <2>1, <2>2, AwayOnce DEF Signing
  <1>3. ASSUME InviteWithin(q) \/ InviteChecked(q) \/ Uninvite(q) \/ Register(q) PROVE Once'
    <2>1. Quiet /\ Over(q)
      BY <1>3, QuietUser DEF InviteWithin, InviteChecked, Uninvite, Register, Quiet
    <2> QED
      BY <2>1, OverOnce
  <1>4. ASSUME MailAgain(q) PROVE Once'
    BY <1>4, QuietSame, ThenOnce DEF MailAgain, Signing
  <1>5. ASSUME ReadPerson(q) \/ LeavesGroup(q) \/ AskToGo(q) PROVE Once'
    <2>1. Quiet
      BY <1>5, QuietSame DEF ReadPerson, LeavesGroup, AskToGo
    <2>2. PICK u \in DOMAIN user, at \in {"off", "on", "going", "demote"} : Goes(q, [Fresh EXCEPT !.at = at, !.who = u])
      BY <1>5 DEF ReadPerson, LeavesGroup, AskToGo
    <2>3. [Fresh EXCEPT !.at = at, !.who = u].at \notin Signing \cup {"finish"}
      BY DEF Fresh, Signing
    <2> QED
      BY <2>1, <2>2, <2>3, QuietOnce
  <1>6. ASSUME ReadOwnEntry(q) \/ AskForEntry(q) \/ ReadTarget(q) PROVE Once'
    <2>1. Quiet
      BY <1>6, QuietSame DEF ReadOwnEntry, AskForEntry, ReadTarget
    <2>2. run'[q].at \in {"entry", "portal"} /\ \A p \in Requests \ {q} : run'[p] = run[p]
      <3>1. CASE ReadOwnEntry(q)
        BY <1>a, <3>1 DEF ReadOwnEntry, Fresh, Goes
      <3>2. CASE AskForEntry(q)
        BY <1>a, <3>2 DEF AskForEntry, Fresh, Goes
      <3>3. CASE ReadTarget(q)
        BY <1>a, <3>3 DEF ReadTarget, Fresh, Goes
      <3> QED
        BY <1>6, <3>1, <3>2, <3>3
    <2> QED
      BY <2>1, <2>2, AwayOnce DEF Signing
  <1>7. ASSUME ReadEntry(q) PROVE Once'
    <2>1. Quiet
      BY <1>7 DEF ReadEntry, Quiet
    <2>2. \/ UNCHANGED run
          \/ run'[q].at \in {"entry", "drop"} /\ \A p \in Requests \ {q} : run'[p] = run[p]
      BY <1>a, <1>7 DEF ReadEntry, Fresh, Goes
    <2> QED
      BY <2>1, <2>2, AwayOnce, SameOnce DEF Signing
  <1>8. ASSUME Disable(q) PROVE Once'
    BY <1>8, QuietUser, ThenOnce DEF Disable, Signing
  <1>9. ASSUME MarkDisabled(q) \/ Enable(q) \/ PutEntry(q) \/ DropEntry(q) \/ LeftAdminGroup(q) \/ UserAction(q)
               \/ DeleteAccount(q) \/ Ends(q)
        PROVE  Once'
    <2>1. Over(q)
      BY <1>9 DEF MarkDisabled, Enable, PutEntry, DropEntry, LeftAdminGroup, UserAction, DeleteAccount, Ends, Refuses
    <2>2. Quiet
      BY <1>9, QuietSame, QuietUser
         DEF MarkDisabled, Enable, PutEntry, DropEntry, LeftAdminGroup, UserAction, DeleteAccount, Ends, Refuses, Quiet
    <2> QED
      BY <2>1, <2>2, OverOnce
  <1> QED
    BY <1>1, <1>2, <1>3, <1>4, <1>5, <1>6, <1>7, <1>8, <1>9 DEF Invitations, Administration

LEMMA NextOnce == Typed /\ Typed' /\ Once /\ [Next]_vars => Once'
  <1> SUFFICES ASSUME Typed, Typed', Once, [Next]_vars PROVE Once'
    OBVIOUS
  <1>1. CASE UNCHANGED vars
    BY <1>1, QuietSame, SameOnce DEF vars
  <1>2. ASSUME NEW e \in Addresses, RunsOut(e) PROVE Once'
    BY <1>2, SameOnce DEF RunsOut, Quiet
  <1> QED
    BY <1>1, <1>2, ProviderOnce, OthersOnce DEF Next

LEMMA InitOnce == Init => Once
  BY DEF Init, Once, Holds, Fresh, Signing

(***************************************************************************)
(* Requests that follow one another                                        *)
(***************************************************************************)
Plain == {"idle", "identity", "link", "claim", "session", "count", "code", "second", "finish", "logout", "invite",
          "resend", "checked", "withdraw", "register", "mark", "on", "entry", "drop"}

Moves(q, ats) ==
    /\ Free(q) \/ run[q] # Fresh
    /\ \A p \in Requests \ {q} : run'[p] = run[p]
    /\ run'[q].at \in ats

LEMMA MovesOver ==
    ASSUME Typed, NEW q \in Requests, run[q].at # "idle", Over(q) PROVE Moves(q, {"idle"})
  BY TypeParts DEF Typed, Over, Goes, Moves, Fresh

LEMMA MovesThen ==
    ASSUME Typed, NEW q \in Requests, NEW at, run[q].at # "idle", Then(q, at) PROVE Moves(q, {at})
  BY TypeParts DEF Typed, Then, Goes, Moves, Fresh, Run

LEMMA AloneStep ==
    ASSUME Typed, OneByOne, NEW q \in Requests, NEW ats, Moves(q, ats), UNCHANGED scene,
           scene.alone => Admins' # {} /\ Safe(run[q])'
    PROVE  OneByOne'
  <1> SUFFICES ASSUME scene.alone
               PROVE  /\ \A p, x \in Requests : run'[p] # Fresh /\ run'[x] # Fresh => p = x
                      /\ Admins' # {}
                      /\ \A p \in Requests : Safe(run[p])'
    BY DEF OneByOne
  <1>1. \A p \in Requests \ {q} : run[p] = Fresh /\ run'[p] = Fresh
    BY DEF Moves, OneByOne, Free
  <1>2. \A p \in Requests \ {q} : Safe(run[p])'
    BY <1>1 DEF Safe, Fresh
  <1> QED
    BY <1>1, <1>2

(* No admin goes, and nothing has been read that could make one go.        *)
LEMMA AlonePlain ==
    ASSUME Typed, OneByOne, NEW q \in Requests, Moves(q, Plain), UNCHANGED scene, scene.alone => Admins' # {}
    PROVE  OneByOne'
  <1>1. Safe(run[q])'
    BY DEF Moves, Plain, Safe
  <1> QED
    BY <1>1, AloneStep

LEMMA AdminsKept ==
    ASSUME NEW u, NEW e, NEW x, NEW y, UNCHANGED user \/ CreateUser(u, e, x, y) PROVE Admins \subseteq Admins'
  BY DEF CreateUser, With, Admins

LEMMA AdminsDeleted ==
    ASSUME Typed, NEW u, DeleteUser(u) PROVE Admins \ {u} \subseteq Admins'
  <1>1. \A x \in DOMAIN user \ {u} : x \in DOMAIN user' /\ user'[x].admin = user[x].admin /\ user'[x].disabled = user[x].disabled
    BY RowsTyped DEF DeleteUser, User
  <1> QED
    BY <1>1 DEF Admins

LEMMA AdminsDisabled ==
    ASSUME Typed, NEW u, NEW off \in BOOLEAN, SetDisabled(u, off)
    PROVE  Admins \ {u} \subseteq Admins' /\ (~off => Admins \subseteq Admins')
  <1>1. DOMAIN user' = DOMAIN user /\ \A x \in DOMAIN user \ {u} : user'[x] = user[x]
    BY DEF SetDisabled, Update
  <1>2. u \in DOMAIN user => user'[u].admin = user[u].admin /\ user'[u].disabled = off
    BY RowsTyped DEF SetDisabled, Update, User
  <1> QED
    BY <1>1, <1>2 DEF Admins

LEMMA AdminsChanged ==
    ASSUME Typed, NEW u, NEW admin \in BOOLEAN, SetAdmin(u, admin)
    PROVE  Admins \ {u} \subseteq Admins' /\ (admin => Admins \subseteq Admins')
  <1>1. DOMAIN user' = DOMAIN user /\ \A x \in DOMAIN user \ {u} : user'[x] = user[x]
    BY DEF SetAdmin, Update
  <1>2. u \in DOMAIN user => user'[u].admin = admin /\ user'[u].disabled = user[u].disabled
    BY RowsTyped DEF SetAdmin, Update, User
  <1> QED
    BY <1>1, <1>2 DEF Admins

(* More than one admin: without any one of them there is another.          *)
LEMMA AnotherAdmin ==
    ASSUME Typed, NEW u, AdminCount > 1 PROVE Admins \ {u} # {}
  <1> SUFFICES ASSUME Admins \ {u} = {} PROVE FALSE
    OBVIOUS
  <1>1. Admins \subseteq {u}
    OBVIOUS
  <1>2. IsFiniteSet({u}) /\ Cardinality({u}) = 1
    BY FS_Singleton
  <1>3. Cardinality(Admins) <= 1 /\ Cardinality(Admins) \in Nat
    BY <1>1, <1>2, FS_Subset, FS_CardinalityType
  <1> QED
    BY <1>3 DEF AdminCount, Admins

LEMMA ProviderAlone ==
    ASSUME Typed, Tables, OneByOne, NEW q \in Requests, ThroughProvider(q), UNCHANGED scene PROVE OneByOne'
  <1>a. run \in [Requests -> Run] /\ run[q] \in Run /\ Shape(run[q])
    BY RunTyped, TypeParts DEF Typed
  <1>b. scene.alone => Admins # {} /\ Safe(run[q])
    BY DEF OneByOne
  <1>1. ASSUME Signin(q) \/ ReadCode(q) \/ FindSession(q) PROVE OneByOne'
    <2>1. Free(q) /\ UNCHANGED user
      BY <1>1 DEF Signin, ReadCode, FindSession, data
    <2>2. run'[q].at \in Plain /\ \A p \in Requests \ {q} : run'[p] = run[p]
      <3>1. CASE Signin(q)
        BY <1>a, <3>1 DEF Signin, Fresh, Goes, Plain
      <3>2. CASE ReadCode(q)
        BY <1>a, <3>2 DEF ReadCode, Fresh, Goes, Plain
      <3>3. CASE FindSession(q)
        BY <1>a, <3>3 DEF FindSession, Fresh, Goes, Plain
      <3> QED
        BY <1>1, <3>1, <3>2, <3>3
    <2>3. Moves(q, Plain)
      BY <2>1, <2>2 DEF Moves
    <2> QED
      BY <1>b, <2>1, <2>3, AdminsKept, AlonePlain
  <1>2. ASSUME AccountFor(q) PROVE OneByOne'
    <2>1. run[q].at = "identity" /\ run[q] # Fresh /\ UNCHANGED <<user, link>>
      <3>1. run[q].at = "identity" /\ UNCHANGED data
        BY <1>2 DEF AccountFor
      <3> QED
        BY <3>1 DEF data, Fresh
    <2>2. CASE run'[q].at \in {"session", "link"} /\ \A p \in Requests \ {q} : run'[p] = run[p]
      BY <1>b, <2>1, <2>2, AdminsKept, AlonePlain DEF Moves, Plain
    <2>3. CASE /\ run'[q].at = "signup" /\ run'[q].claim = run[q].claim /\ run[q].claim.subject \notin DOMAIN link
               /\ \A p \in Requests \ {q} : run'[p] = run[p]
      <3>1. Moves(q, {"signup"}) /\ Safe(run[q])'
        BY <2>1, <2>3 DEF Moves, Safe
      <3> QED
        BY <1>b, <2>1, <3>1, AdminsKept, AloneStep
    <2> QED
      <3> DEFINE known == IF run[q].claim.subject \in DOMAIN link THEN {link[run[q].claim.subject]}
                          ELSE UsersWith(run[q].claim.email)
      <3>1. known = {} => run[q].claim.subject \notin DOMAIN link
        OBVIOUS
      <3>2. \/ \E u, at : at \in {"session", "link"} /\ Goes(q, [run[q] EXCEPT !.at = at, !.who = u, !.admin = user[u].admin])
            \/ known = {} /\ \E admin : Goes(q, [run[q] EXCEPT !.at = "signup", !.admin = admin])
        BY <1>2 DEF AccountFor
      <3>3. ASSUME NEW u, NEW at \in {"session", "link"}, NEW x, Goes(q, [run[q] EXCEPT !.at = at, !.who = u, !.admin = x])
            PROVE  run'[q].at = at /\ \A p \in Requests \ {q} : run'[p] = run[p]
        BY <1>a, <3>3 DEF Goes, Run
      <3>4. ASSUME NEW x, Goes(q, [run[q] EXCEPT !.at = "signup", !.admin = x])
            PROVE  run'[q].at = "signup" /\ run'[q].claim = run[q].claim /\ \A p \in Requests \ {q} : run'[p] = run[p]
        BY <1>a, <3>4 DEF Goes, Run
      <3> HIDE DEF known
      <3> QED
        BY <2>2, <2>3, <3>1, <3>2, <3>3, <3>4
  <1>3. ASSUME LinkSso(q) \/ ClaimEntry(q) \/ TakeSsoCode(q) PROVE OneByOne'
    <2>1. run[q].at # "idle" /\ UNCHANGED user /\ \E at \in Plain : Then(q, at)
      BY <1>3 DEF LinkSso, ClaimEntry, TakeSsoCode, Plain
    <2>2. Moves(q, Plain)
      BY <2>1, MovesThen DEF Moves
    <2> QED
      BY <1>b, <2>1, <2>2, AdminsKept, AlonePlain
  <1>4. ASSUME PutCode(q) \/ FinishLogin(q) \/ BackChannelLogout(q) PROVE OneByOne'
    <2>1. run[q].at # "idle" /\ UNCHANGED user /\ Over(q)
      BY <1>4 DEF PutCode, FinishLogin, BackChannelLogout
    <2>2. Moves(q, Plain)
      BY <2>1, MovesOver DEF Moves, Plain
    <2> QED
      BY <1>b, <2>1, <2>2, AdminsKept, AlonePlain
  <1>5. ASSUME SignUp(q) PROVE OneByOne'
    <2>1. PICK u \in Users : CreateUser(u, run[q].claim.email, run[q].admin, FALSE)
                             /\ Goes(q, [run[q] EXCEPT !.at = "first", !.who = u])
      BY <1>5 DEF SignUp
    <2>2. run[q].at = "signup" /\ run[q] # Fresh
      BY <1>5 DEF SignUp, Fresh
    <2>3. run'[q].at = "first" /\ run'[q].who = u /\ run'[q].claim = run[q].claim
          /\ \A p \in Requests \ {q} : run'[p] = run[p]
      BY <1>a, <2>1 DEF Goes, Run
    <2>4. u \in DOMAIN user' /\ u \notin DOMAIN user /\ link' = link
      BY <2>1 DEF CreateUser, With
    <2>5. ~Linked(u)'
      BY <2>4 DEF Linked, Tables
    <2>6. scene.alone => Safe(run[q])'
      BY <1>b, <2>2, <2>3, <2>4, <2>5 DEF Safe, Linked
    <2>7. Moves(q, {"first"})
      BY <2>2, <2>3 DEF Moves
    <2>8. Admins \subseteq Admins'
      BY <2>1, AdminsKept
    <2> QED
      BY <1>b, <2>6, <2>7, <2>8, AloneStep
  <1>6. ASSUME LinkFirst(q) PROVE OneByOne'
    <2>1. run[q].at = "first" /\ UNCHANGED user
      BY <1>6 DEF LinkFirst
    <2>2. CASE scene.alone
      <3>1. CanLink(run[q].claim.subject, run[q].who)
        BY <1>b, <2>1, <2>2 DEF Safe, CanLink
      <3>2. Then(q, "claim")
        BY <1>6, <3>1 DEF LinkFirst
      <3>3. Moves(q, Plain)
        BY <2>1, <3>2, MovesThen DEF Moves, Plain
      <3> QED
        BY <1>b, <2>1, <3>3, AdminsKept, AlonePlain
    <2> QED
      BY <2>2 DEF OneByOne
  <1>7. ASSUME Undo(q) PROVE OneByOne'
    BY <1>b, <1>7 DEF Undo, Safe, OneByOne
  <1>8. ASSUME StartSession(q) \/ CountAdmins(q) PROVE OneByOne'
    <2>1. run[q].at # "idle" /\ UNCHANGED user
      BY <1>8 DEF StartSession, CountAdmins, data
    <2>2. CASE \E at \in {"count", "code"} : Then(q, at)
      <3>1. Moves(q, Plain)
        BY <2>1, <2>2, MovesThen DEF Moves, Plain
      <3> QED
        BY <1>b, <2>1, <3>1, AdminsKept, AlonePlain
    <2>3. CASE Then(q, "right") /\ (run[q].admin => AdminCount > 1)
      <3>1. Moves(q, {"right"})
        BY <2>1, <2>3, MovesThen
      <3>2. run'[q].at = "right" /\ run'[q].admin = run[q].admin /\ run'[q].who = run[q].who
        BY <1>a, <2>3 DEF Then, Goes, Run
      <3>3. run[q].admin => Admins' \ {run[q].who} # {}
        BY <2>1, <2>3, AnotherAdmin DEF Admins
      <3>4. Safe(run[q])'
        BY <3>2, <3>3 DEF Safe
      <3> QED
        BY <1>b, <2>1, <3>1, <3>4, AdminsKept, AloneStep
    <2>4. AdminCount \in Int
      <3>1. Admins \subseteq Users /\ IsFiniteSet(Users)
        BY AccountIds, RowsTyped DEF Admins
      <3> QED
        BY <3>1, FS_Subset, FS_CardinalityType DEF AdminCount, Admins
    <2> QED
      BY <1>8, <2>2, <2>3, <2>4 DEF StartSession, CountAdmins
  <1>9. ASSUME FollowAdminRight(q) PROVE OneByOne'
    <2>1. run[q].at = "right" /\ SetAdmin(run[q].who, ~run[q].admin) /\ Then(q, "code") /\ run[q].admin \in BOOLEAN
      BY <1>a, <1>9 DEF FollowAdminRight, Run
    <2>2. Moves(q, Plain)
      BY <2>1, MovesThen DEF Moves, Plain
    <2>3. Admins \ {run[q].who} \subseteq Admins' /\ (~run[q].admin => Admins \subseteq Admins')
      BY <2>1, AdminsChanged
    <2>4. scene.alone => Admins' # {}
      BY <1>b, <2>1, <2>3 DEF Safe
    <2> QED
      BY <2>2, <2>4, AlonePlain
  <1> QED
    BY <1>1, <1>2, <1>3, <1>4, <1>5, <1>6, <1>7, <1>8, <1>9 DEF ThroughProvider

LEMMA InvitationsAlone ==
    ASSUME Typed, OneByOne, NEW q \in Requests, Invitations(q), UNCHANGED scene PROVE OneByOne'
  <1>a. run \in [Requests -> Run] /\ run[q] \in Run
    BY RunTyped, TypeParts DEF Typed
  <1>b. scene.alone => Admins # {}
    BY DEF OneByOne
  <1>1. ASSUME AskToInvite(q) \/ AskForMail(q) \/ AskToWithdraw(q) \/ ReadInvitation(q) PROVE OneByOne'
    <2>1. Free(q) /\ UNCHANGED user
      BY <1>1 DEF AskToInvite, AskForMail, AskToWithdraw, ReadInvitation, data
    <2>2. run'[q].at \in {"invite", "resend", "withdraw", "register"} /\ \A p \in Requests \ {q} : run'[p] = run[p]
      <3>1. CASE AskToInvite(q)
        BY <1>a, <3>1 DEF AskToInvite, Fresh, Goes
      <3>2. CASE AskForMail(q)
        BY <1>a, <3>2 DEF AskForMail, Fresh, Goes
      <3>3. CASE AskToWithdraw(q)
        BY <1>a, <3>3 DEF AskToWithdraw, Fresh, Goes
      <3>4. CASE ReadInvitation(q)
        BY <1>a, <3>4 DEF ReadInvitation, Fresh, Goes
      <3> QED
        BY <1>1, <3>1, <3>2, <3>3, <3>4
    <2> QED
      BY <1>b, <2>1, <2>2, AdminsKept, AlonePlain DEF Moves, Plain
  <1>2. ASSUME AskAsAdmin(q) PROVE OneByOne'
    <2>1. (Free(q) \/ run[q] # Fresh) /\ UNCHANGED user
      <3>1. (Free(q) \/ run[q].at = "invite") /\ UNCHANGED data
        BY <1>2 DEF AskAsAdmin
      <3> QED
        BY <3>1 DEF data, Fresh
    <2>2. run'[q].at = "checked" /\ \A p \in Requests \ {q} : run'[p] = run[p]
      <3>1. CASE run[q].at = "invite" /\ Goes(q, [run[q] EXCEPT !.at = "checked", !.by = run[q].who, !.admin = FALSE])
        BY <1>a, <3>1 DEF Goes, Run
      <3>2. ASSUME NEW u, NEW e, NEW admin, Goes(q, [Fresh EXCEPT !.at = "checked", !.email = e, !.by = u, !.admin = admin])
            PROVE  run'[q].at = "checked" /\ \A p \in Requests \ {q} : run'[p] = run[p]
        BY <1>a, <3>2 DEF Goes, Fresh
      <3> QED
        BY <1>2, <3>1, <3>2 DEF AskAsAdmin
    <2> QED
      BY <1>b, <2>1, <2>2, AdminsKept, AlonePlain DEF Moves, Plain
  <1>3. ASSUME InviteWithin(q) \/ InviteChecked(q) \/ Uninvite(q) \/ Register(q) PROVE OneByOne'
    <2>1. run[q].at # "idle" /\ Over(q)
      BY <1>3 DEF InviteWithin, InviteChecked, Uninvite, Register
    <2>2. UNCHANGED user \/ \E u, e, x, y : CreateUser(u, e, x, y)
      BY <1>3 DEF InviteWithin, InviteChecked, Uninvite, Register, Invite
    <2>3. Admins \subseteq Admins'
      BY <2>2, AdminsKept
    <2>4. Moves(q, Plain)
      BY <2>1, MovesOver DEF Moves, Plain
    <2> QED
      BY <1>b, <2>3, <2>4, AlonePlain
  <1>4. ASSUME MailAgain(q) PROVE OneByOne'
    <2>1. run[q].at # "idle" /\ Then(q, "checked") /\ UNCHANGED user
      BY <1>4 DEF MailAgain, data
    <2>2. Moves(q, Plain)
      BY <2>1, MovesThen DEF Moves, Plain
    <2> QED
      BY <1>b, <2>1, <2>2, AdminsKept, AlonePlain
  <1> QED
    BY <1>1, <1>2, <1>3, <1>4 DEF Invitations

LEMMA AdministrationAlone ==
    ASSUME Typed, OneByOne, NEW q \in Requests, Administration(q), UNCHANGED scene PROVE OneByOne'
  <1>a. run \in [Requests -> Run] /\ run[q] \in Run
    BY RunTyped, TypeParts DEF Typed
  <1>b. scene.alone => Admins # {} /\ Safe(run[q])
    BY DEF OneByOne
  <1>1. ASSUME NEW u \in DOMAIN user, MayGo(u), scene.alone PROVE Admins \ {u} # {}
    <2>1. CASE u \in Admins
      BY <1>1, <2>1, AnotherAdmin DEF MayGo, Admins
    <2>2. CASE u \notin Admins
      BY <1>b, <1>1, <2>2
    <2> QED
      BY <2>1, <2>2
  <1>2. ASSUME ReadPerson(q) \/ LeavesGroup(q) \/ AskToGo(q) PROVE OneByOne'
    <2>1. Free(q) /\ UNCHANGED user
      BY <1>2 DEF ReadPerson, LeavesGroup, AskToGo, data
    <2>2. PICK u \in DOMAIN user, at \in {"off", "on", "going", "demote"} :
             /\ Goes(q, [Fresh EXCEPT !.at = at, !.who = u])
             /\ at # "on" => MayGo(u) \/ AdminCount > 1
      BY <1>2 DEF ReadPerson, LeavesGroup, AskToGo, MayGo
    <2>3. run'[q].at = at /\ run'[q].who = u /\ \A p \in Requests \ {q} : run'[p] = run[p]
      BY <1>a, <2>2 DEF Goes, Fresh
    <2>4. Admins' = Admins
      BY <2>1 DEF Admins
    <2>5. scene.alone /\ at # "on" => Admins' \ {u} # {}
      BY <1>1, <2>2, <2>4, AnotherAdmin
    <2>6. scene.alone => Safe(run[q])'
      BY <2>3, <2>5 DEF Safe
    <2>7. Moves(q, {at})
      BY <2>1, <2>3 DEF Moves
    <2> QED
      BY <1>b, <2>4, <2>6, <2>7, AloneStep
  <1>3. ASSUME Disable(q) PROVE OneByOne'
    <2>1. run[q].at = "off" /\ SetDisabled(run[q].who, TRUE) /\ Then(q, "mark")
      BY <1>3 DEF Disable
    <2>2. Moves(q, Plain)
      BY <2>1, MovesThen DEF Moves, Plain
    <2>3. scene.alone => Admins' # {}
      BY <1>b, <2>1, AdminsDisabled DEF Safe
    <2> QED
      BY <2>2, <2>3, AlonePlain
  <1>4. ASSUME MarkDisabled(q) \/ PutEntry(q) \/ DropEntry(q) PROVE OneByOne'
    <2>1. run[q].at # "idle" /\ Over(q) /\ UNCHANGED user
      BY <1>4 DEF MarkDisabled, PutEntry, DropEntry
    <2>2. Moves(q, Plain)
      BY <2>1, MovesOver DEF Moves, Plain
    <2> QED
      BY <1>b, <2>1, <2>2, AdminsKept, AlonePlain
  <1>5. ASSUME Enable(q) PROVE OneByOne'
    <2>1. run[q].at = "on" /\ SetDisabled(run[q].who, FALSE) /\ Over(q)
      BY <1>5 DEF Enable
    <2>2. Moves(q, Plain)
      BY <2>1, MovesOver DEF Moves, Plain
    <2>3. Admins \subseteq Admins'
      BY <2>1, AdminsDisabled
    <2> QED
      BY <1>b, <2>2, <2>3, AlonePlain
  <1>6. ASSUME ReadEntry(q) PROVE OneByOne'
    <2>1. Free(q) /\ UNCHANGED user
      BY <1>6 DEF ReadEntry
    <2>2. \/ UNCHANGED run
          \/ run'[q].at \in {"entry", "drop"} /\ \A p \in Requests \ {q} : run'[p] = run[p]
      BY <1>a, <1>6 DEF ReadEntry, Fresh, Goes
    <2>3. CASE UNCHANGED run
      <3>1. run'[q].at = "idle" /\ \A p \in Requests \ {q} : run'[p] = run[p]
        BY <2>1, <2>3 DEF Free, Fresh
      <3> QED
        BY <1>b, <2>1, <3>1, AdminsKept, AlonePlain DEF Moves, Plain
    <2>4. CASE run'[q].at \in {"entry", "drop"} /\ \A p \in Requests \ {q} : run'[p] = run[p]
      BY <1>b, <2>1, <2>4, AdminsKept, AlonePlain DEF Moves, Plain
    <2> QED
      BY <2>2, <2>3, <2>4
  <1>7. ASSUME ReadOwnEntry(q) \/ AskForEntry(q) PROVE OneByOne'
    <2>1. Free(q) /\ UNCHANGED user
      BY <1>7 DEF ReadOwnEntry, AskForEntry, data
    <2>2. run'[q].at = "entry" /\ \A p \in Requests \ {q} : run'[p] = run[p]
      <3>1. CASE ReadOwnEntry(q)
        BY <1>a, <3>1 DEF ReadOwnEntry, Fresh, Goes
      <3>2. CASE AskForEntry(q)
        BY <1>a, <3>2 DEF AskForEntry, Fresh, Goes
      <3> QED
        BY <1>7, <3>1, <3>2
    <2> QED
      BY <1>b, <2>1, <2>2, AdminsKept, AlonePlain DEF Moves, Plain
  <1>8. ASSUME LeftAdminGroup(q) PROVE OneByOne'
    <2>1. run[q].at = "demote" /\ SetAdmin(run[q].who, FALSE) /\ Over(q)
      BY <1>8 DEF LeftAdminGroup
    <2>2. Moves(q, Plain)
      BY <2>1, MovesOver DEF Moves, Plain
    <2>3. scene.alone => Admins' # {}
      <3>1. Admins \ {run[q].who} \subseteq Admins'
        BY <2>1, AdminsChanged
      <3>2. scene.alone => Admins \ {run[q].who} # {}
        BY <1>b, <2>1 DEF Safe
      <3> QED
        BY <3>1, <3>2
    <2> QED
      BY <2>2, <2>3, AlonePlain
  <1>9. ASSUME ReadTarget(q) PROVE OneByOne'
    <2>1. PICK a \in DOMAIN user, u \in DOMAIN user :
             /\ user[a].admin /\ ~user[a].disabled
             /\ Goes(q, [Fresh EXCEPT !.at = "portal", !.who = u, !.by = a, !.last = user[u].admin /\ AdminCount <= 1])
      BY <1>9 DEF ReadTarget
    <2>2. Free(q) /\ Admins' = Admins
      BY <1>9 DEF ReadTarget, data, Admins
    <2> DEFINE last == user[u].admin /\ AdminCount <= 1
    <2>3. /\ run'[q].at = "portal" /\ run'[q].who = u /\ run'[q].by = a /\ run'[q].last = last
          /\ \A p \in Requests \ {q} : run'[p] = run[p]
      BY <1>a, <2>1 DEF Goes, Fresh
    <2>4. scene.alone /\ ~last => Admins \ {u} # {}
      <3>1. CASE user[u].admin
        <4>1. Admins \subseteq Users /\ IsFiniteSet(Users)
          BY AccountIds, RowsTyped DEF Admins
        <4>2. AdminCount \in Int
          BY <4>1, FS_Subset, FS_CardinalityType DEF AdminCount, Admins
        <4> QED
          BY <3>1, <4>2, AnotherAdmin
      <3>2. CASE ~user[u].admin
        BY <1>b, <3>2 DEF Admins
      <3> QED
        BY <3>1, <3>2
    <2>5. scene.alone => Safe(run[q])'
      BY <2>1, <2>2, <2>3, <2>4 DEF Safe, Admins
    <2>6. Moves(q, {"portal"})
      BY <2>2, <2>3 DEF Moves
    <2> QED
      BY <1>b, <2>2, <2>5, <2>6, AloneStep
  <1>10. ASSUME UserAction(q) PROVE OneByOne'
    <2> DEFINE u == run[q].who
    <2>1. run[q].at = "portal" /\ Over(q)
      BY <1>10 DEF UserAction
    <2>2. Moves(q, Plain)
      BY <2>1, MovesOver DEF Moves, Plain
    <2>3. scene.alone => run[q].by \in Admins /\ (~run[q].last => Admins \ {u} # {})
      BY <1>b, <2>1 DEF Safe
    <2>4. CASE u # run[q].by /\ (SetDisabled(u, TRUE) \/ DeleteUser(u))
      <3>1. Admins \ {u} \subseteq Admins'
        BY <2>4, AdminsDisabled, AdminsDeleted
      <3> QED
        BY <2>2, <2>3, <2>4, <3>1, AlonePlain
    <2>5. CASE SetDisabled(u, FALSE) \/ SetAdmin(u, TRUE)
      <3>1. Admins \subseteq Admins'
        BY <2>5, AdminsDisabled, AdminsChanged
      <3> QED
        BY <1>b, <2>2, <3>1, AlonePlain
    <2>6. CASE ~run[q].last /\ SetAdmin(u, FALSE)
      <3>1. Admins \ {u} \subseteq Admins'
        BY <2>6, AdminsChanged
      <3> QED
        BY <2>2, <2>3, <2>6, <3>1, AlonePlain
    <2> QED
      BY <1>10, <2>4, <2>5, <2>6 DEF UserAction
  <1>11. ASSUME DeleteAccount(q) PROVE OneByOne'
    <2>1. run[q].at = "going" /\ DeleteUser(run[q].who) /\ Over(q)
      BY <1>11 DEF DeleteAccount
    <2>2. Moves(q, Plain)
      BY <2>1, MovesOver DEF Moves, Plain
    <2>3. scene.alone => Admins' # {}
      BY <1>b, <2>1, AdminsDeleted DEF Safe
    <2> QED
      BY <2>2, <2>3, AlonePlain
  <1> QED
    BY <1>2, <1>3, <1>4, <1>5, <1>6, <1>7, <1>8, <1>9, <1>10, <1>11 DEF Administration

LEMMA InitAlone == Init => OneByOne
  BY ScenesFit DEF Init, OneByOne, Safe, Admins, Fresh

LEMMA NextAlone == Typed /\ Tables /\ OneByOne /\ [Next]_vars => OneByOne'
  <1> SUFFICES ASSUME Typed, Tables, OneByOne, [Next]_vars PROVE OneByOne'
    OBVIOUS
  <1>1. CASE UNCHANGED <<scene, user, link, run>>
    <2>1. Admins' = Admins
      BY <1>1 DEF Admins
    <2> QED
      BY <1>1, <2>1 DEF OneByOne, Safe, Linked
  <1>2. ASSUME NEW q \in Requests, Ends(q), UNCHANGED scene PROVE OneByOne'
    <2>1. run[q] # Fresh /\ UNCHANGED user /\ Over(q)
      BY <1>2 DEF Ends, Refuses, data
    <2>2. Moves(q, Plain)
      BY <2>1, TypeParts DEF Typed, Over, Goes, Moves, Fresh, Plain
    <2>3. scene.alone => Admins # {}
      BY DEF OneByOne
    <2> QED
      BY <1>2, <2>1, <2>2, <2>3, AdminsKept, AlonePlain
  <1> QED
    BY <1>1, <1>2, ProviderAlone, InvitationsAlone, AdministrationAlone DEF Next, RunsOut, vars, data

(***************************************************************************)
(* Quotas                                                                  *)
(***************************************************************************)
LEMMA FiniteLoads ==
    ASSUME Typed, NEW u
    PROVE  /\ IsFiniteSet(BroughtIn(u)) /\ Cardinality(BroughtIn(u)) \in Nat
           /\ IsFiniteSet(OpenBy(u)) /\ Cardinality(OpenBy(u)) \in Nat
  <1>1. BroughtIn(u) \subseteq Users /\ OpenBy(u) \subseteq Addresses
    BY RowsTyped DEF BroughtIn, OpenBy
  <1> QED
    BY <1>1, AccountIds, FS_Subset, FS_CardinalityType

LEMMA FiniteLoadsNext ==
    ASSUME Typed', NEW u
    PROVE  Cardinality(BroughtIn(u)') \in Nat /\ Cardinality(OpenBy(u)') \in Nat
  <1>1. BroughtIn(u)' \subseteq Users /\ OpenBy(u)' \subseteq Addresses
    BY DEF Typed, TypeOK, IsMap, BroughtIn, OpenBy
  <1> QED
    BY <1>1, AccountIds, FS_Subset, FS_CardinalityType

LEMMA LoadIsNumber ==
    ASSUME Typed, Typed', NEW u PROVE Load(u) \in Nat /\ Load(u)' \in Nat
  BY FiniteLoads, FiniteLoadsNext DEF Load

LEMMA LighterLoad ==
    ASSUME Typed, Typed', NEW u, BroughtIn(u)' \subseteq BroughtIn(u), OpenBy(u)' \subseteq OpenBy(u)
    PROVE  Load(u)' <= Load(u)
  <1>1. Cardinality(BroughtIn(u)') <= Cardinality(BroughtIn(u)) /\ Cardinality(BroughtIn(u)') \in Nat
    BY FiniteLoads, FS_Subset, FS_CardinalityType
  <1>2. Cardinality(OpenBy(u)') <= Cardinality(OpenBy(u)) /\ Cardinality(OpenBy(u)') \in Nat
    BY FiniteLoads, FS_Subset, FS_CardinalityType
  <1> QED
    BY <1>1, <1>2, FiniteLoads DEF Load

(* What the data have to keep for the quotas.                              *)
KeepsQuota ==
    /\ Past \subseteq Past'
    /\ \A u \in Past : Unbounded(u) => Unbounded(u)'
    /\ NoneLate' /\ Loads'

LEMMA SameKeeps ==
    ASSUME NoneLate, Loads, UNCHANGED <<user, gone, invited>> PROVE KeepsQuota
  BY DEF KeepsQuota, Past, Unbounded, NoneLate, Loads, Load, BroughtIn, OpenBy

LEMMA UpdateKeeps ==
    ASSUME Typed, NoneLate, Loads, NEW u, NEW x \in BOOLEAN, SetDisabled(u, x) \/ SetAdmin(u, TRUE) PROVE KeepsQuota
  <1>1. /\ DOMAIN user' = DOMAIN user /\ UNCHANGED <<gone, invited>>
        /\ \A y \in DOMAIN user : user'[y].by = user[y].by /\ (user[y].admin => user'[y].admin)
    BY RowsTyped DEF SetDisabled, SetAdmin, Update, User
  <1>2. \A y : BroughtIn(y)' = BroughtIn(y) /\ OpenBy(y)' = OpenBy(y)
    BY <1>1 DEF BroughtIn, OpenBy
  <1>3. \A y : Load(y)' = Load(y)
    BY <1>2 DEF Load
  <1>4. Loads'
    BY <1>1, <1>3 DEF Loads
  <1> QED
    BY <1>1, <1>4 DEF KeepsQuota, Past, Unbounded, NoneLate

(* Whoever was invited takes the place of the invitation.                  *)
LEMMA CreateKeeps ==
    ASSUME Typed, Typed', Tables, NoneLate, Loads, NEW u \in Users, NEW e \in Addresses, NEW x, NEW y,
           CreateUser(u, e, x, y)
    PROVE  KeepsQuota
  <1> DEFINE row == [email |-> e, admin |-> x, disabled |-> FALSE, password |-> y, by |-> BroughtInBy(e)]
  <1>1. u \notin DOMAIN user \cup gone /\ gone' = gone /\ user' = With(user, u, row) /\ invited' = Without(invited, {e})
    BY DEF CreateUser
  <1>2. row.by = BroughtInBy(e) /\ BroughtInBy(e) \in DOMAIN user \cup {None}
    BY DEF BroughtInBy, Tables
  <1> HIDE DEF row
  <1>3. /\ DOMAIN user' = DOMAIN user \cup {u} /\ user'[u] = row
        /\ \A z \in DOMAIN user : user'[z] = user[z]
    BY <1>1 DEF With
  <1>4. /\ DOMAIN invited' = DOMAIN invited \ {e}
        /\ \A z \in DOMAIN invited' : invited'[z] = invited[z]
    BY <1>1 DEF Without
  <1>5. u # None
    BY AccountIds
  <1>6. ASSUME NEW z \in DOMAIN user PROVE Load(z)' <= Load(z)
    <2>1. CASE BroughtInBy(e) # z
      <3>1. BroughtIn(z)' = BroughtIn(z)
        BY <1>1, <1>2, <1>3, <2>1 DEF BroughtIn
      <3>2. OpenBy(z)' \subseteq OpenBy(z)
        BY <1>4 DEF OpenBy
      <3> QED
        BY <3>1, <3>2, LighterLoad
    <2>2. CASE BroughtInBy(e) = z
      <3>1. e \in OpenBy(z)
        BY <1>6, <2>2, RowsTyped, AccountIds DEF BroughtInBy, OpenBy, NoneLate
      <3>2. BroughtIn(z)' = BroughtIn(z) \cup {u} /\ u \notin BroughtIn(z)
        BY <1>1, <1>2, <1>3, <2>2 DEF BroughtIn
      <3>3. OpenBy(z)' = OpenBy(z) \ {e}
        BY <1>4 DEF OpenBy
      <3>4. Cardinality(BroughtIn(z)') = Cardinality(BroughtIn(z)) + 1
        BY <3>2, FiniteLoads, FS_AddElement
      <3>5. Cardinality(OpenBy(z)') = Cardinality(OpenBy(z)) - 1
        BY <3>1, <3>3, FiniteLoads, FS_RemoveElement
      <3> QED
        BY <3>4, <3>5, FiniteLoads DEF Load
    <2> QED
      BY <2>1, <2>2
  <1>7. Load(u)' = 0
    <2>1. BroughtIn(u)' = {}
      BY <1>1, <1>2, <1>3, <1>5 DEF BroughtIn, Tables, TablesFit
    <2>2. OpenBy(u)' = {}
      <3>1. \A z \in DOMAIN invited : invited[z].by # u
        BY <1>1, <1>5 DEF Tables
      <3> QED
        BY <1>4, <3>1 DEF OpenBy
    <2> QED
      BY <2>1, <2>2, FS_EmptySet DEF Load
  <1>8. Loads'
    <2>1. \A z : Load(z) \in Nat /\ Load(z)' \in Nat
      BY LoadIsNumber
    <2> QED
      BY <1>3, <1>6, <1>7, <2>1, QuotaIsNumber DEF Loads
  <1>9. NoneLate'
    BY <1>4 DEF NoneLate
  <1> QED
    BY <1>1, <1>3, <1>5, <1>8, <1>9 DEF KeepsQuota, Past, Unbounded

LEMMA DeleteKeeps ==
    ASSUME Typed, Typed', NoneLate, Loads, NEW u, DeleteUser(u) PROVE KeepsQuota
  <1>1. /\ DOMAIN user' = DOMAIN user \ {u} /\ gone' = gone \cup ({u} \cap DOMAIN user)
        /\ \A x \in DOMAIN user' :
              /\ user'[x].admin = user[x].admin
              /\ user'[x].by = IF user[x].by = u THEN None ELSE user[x].by
    BY RowsTyped DEF DeleteUser, User
  <1>2. /\ DOMAIN invited' = DOMAIN invited
        /\ \A e \in DOMAIN invited' :
              /\ invited'[e].by = IF invited[e].by = u THEN None ELSE invited[e].by
              /\ invited'[e].late = invited[e].late
    BY RowsTyped DEF DeleteUser, Invitation
  <1>3. None \notin DOMAIN user
    BY AccountIds, RowsTyped
  <1>4. ASSUME NEW z \in DOMAIN user' PROVE Load(z)' <= Load(z)
    <2>1. z # None
      BY <1>1, <1>3
    <2>2. BroughtIn(z)' \subseteq BroughtIn(z)
      BY <1>1, <2>1 DEF BroughtIn
    <2>3. OpenBy(z)' \subseteq OpenBy(z)
      BY <1>2, <2>1 DEF OpenBy
    <2> QED
      BY <2>2, <2>3, LighterLoad
  <1>5. Loads'
    BY <1>1, <1>4, LoadIsNumber, QuotaIsNumber DEF Loads
  <1>6. NoneLate'
    BY <1>2 DEF NoneLate
  <1> QED
    BY <1>1, <1>5, <1>6 DEF KeepsQuota, Past, Unbounded

LEMMA InviteKeeps ==
    ASSUME Typed, Typed', NoneLate, Loads, NEW e, NEW by, NEW admin, Invite(e, by, admin),
           Unbounded(by) \/ WithinQuotaOf(by, e)
    PROVE  KeepsQuota
  <1>1. /\ DOMAIN invited' = DOMAIN invited \cup {e} /\ invited'[e].by = by /\ invited'[e].late = FALSE
        /\ \A x \in DOMAIN invited \ {e} : invited'[x] = invited[x]
        /\ UNCHANGED <<user, gone>>
    BY DEF Invite, With
  <1>2. \A z : BroughtIn(z)' = BroughtIn(z)
    BY <1>1 DEF BroughtIn
  <1>3. ASSUME NEW z, z # by PROVE Load(z)' <= Load(z)
    <2>1. OpenBy(z)' \subseteq OpenBy(z)
      BY <1>1, <1>3 DEF OpenBy
    <2> QED
      BY <1>2, <2>1, LighterLoad
  <1>4. ASSUME WithinQuotaOf(by, e) PROVE Load(by)' <= Quota
    <2> DEFINE others == OpenBy(by) \ {e}
    <2>1. OpenBy(by)' = others \cup {e} /\ e \notin others
      BY <1>1 DEF OpenBy
    <2>2. IsFiniteSet(others) /\ Cardinality(others) \in Nat
      BY FiniteLoads, FS_Subset, FS_CardinalityType
    <2> HIDE DEF others
    <2>3. Cardinality(OpenBy(by)') = Cardinality(others) + 1
      BY <2>1, <2>2, FS_AddElement
    <2>4. Cardinality(BroughtIn(by)) + Cardinality(others) < Quota
      BY <1>4 DEF WithinQuotaOf, InvitedBy, others
    <2> QED
      BY <1>2, <2>2, <2>3, <2>4, FiniteLoads, QuotaIsNumber DEF Load
  <1>5. Loads'
    <2>1. ASSUME NEW z \in DOMAIN user, ~user[z].admin PROVE Load(z)' <= Quota
      <3>1. CASE z # by
        BY <1>3, <2>1, <3>1, LoadIsNumber, QuotaIsNumber DEF Loads
      <3>2. CASE z = by
        BY <1>4, <2>1, <3>2 DEF Unbounded
      <3> QED
        BY <3>1, <3>2
    <2> QED
      BY <1>1, <2>1 DEF Loads
  <1>6. NoneLate'
    BY <1>1 DEF NoneLate
  <1> QED
    BY <1>1, <1>5, <1>6 DEF KeepsQuota, Past, Unbounded

LEMMA UninviteKeeps ==
    ASSUME Typed, Typed', NoneLate, Loads, NEW e, invited' = Without(invited, {e}), UNCHANGED <<user, gone>>
    PROVE  KeepsQuota
  <1>1. /\ DOMAIN invited' = DOMAIN invited \ {e} /\ \A x \in DOMAIN invited' : invited'[x] = invited[x]
    BY DEF Without
  <1>2. ASSUME NEW z PROVE Load(z)' <= Load(z)
    BY <1>1, LighterLoad DEF BroughtIn, OpenBy
  <1>3. Loads'
    BY <1>2, LoadIsNumber, QuotaIsNumber DEF Loads
  <1> QED
    BY <1>1, <1>3 DEF KeepsQuota, Past, Unbounded, NoneLate

(* A step of a request keeps the quotas if it keeps the data, and reads    *)
(* what it may write.                                                      *)
LEMMA QuotaStep ==
    ASSUME QuotaInv, NEW q \in Requests, UNCHANGED scene, \A p \in Requests \ {q} : run'[p] = run[p],
           Counted => KeepsQuota /\ Asking(run[q])'
    PROVE  QuotaInv'
  <1> SUFFICES ASSUME Counted PROVE NoneLate' /\ Loads' /\ \A p \in Requests : Asking(run[p])'
    BY DEF QuotaInv, Counted
  <1>1. \A u \in Past : u \in Past' /\ (Unbounded(u) => Unbounded(u)')
    BY DEF KeepsQuota
  <1>2. ASSUME NEW p \in Requests \ {q} PROVE Asking(run[p])'
    <2>1. Asking(run[p])
      BY DEF QuotaInv
    <2> QED
      BY <1>1, <2>1 DEF Asking
  <1> QED
    BY <1>2 DEF KeepsQuota

Unasked == {"idle", "second", "finish", "logout", "withdraw", "register", "off", "mark", "on", "entry", "drop", "going"}

LEMMA QuotaUnasked ==
    ASSUME QuotaInv, NEW q \in Requests, UNCHANGED scene, \A p \in Requests \ {q} : run'[p] = run[p],
           run'[q].at \in Unasked, Counted => KeepsQuota
    PROVE  QuotaInv'
  <1>1. Asking(run[q])'
    BY DEF Asking, Unasked, Signing
  <1> QED
    BY <1>1, QuotaStep

(* The next step of a sign-in, with the claims it has.                     *)
LEMMA QuotaSigning ==
    ASSUME QuotaInv, NEW q \in Requests, UNCHANGED scene, \A p \in Requests \ {q} : run'[p] = run[p],
           run[q].at \in Signing, run'[q].claim = run[q].claim, run'[q].at \in Signing,
           Counted => KeepsQuota /\ run'[q].at # "count" /\ (run'[q].at = "right" => ~run'[q].admin)
    PROVE  QuotaInv'
  <1>1. Counted => Asking(run[q])
    BY DEF QuotaInv
  <1>2. Counted => Asking(run[q])'
    BY <1>1 DEF Asking, Signing
  <1> QED
    BY <1>2, QuotaStep

LEMMA OverMoves ==
    ASSUME Typed, NEW q \in Requests, Over(q)
    PROVE  run'[q].at \in Unasked /\ \A p \in Requests \ {q} : run'[p] = run[p]
  BY TypeParts DEF Typed, Over, Goes, Fresh, Unasked

LEMMA ThenMoves ==
    ASSUME Typed, NEW q \in Requests, NEW at, Then(q, at)
    PROVE  /\ run'[q].at = at /\ run'[q].claim = run[q].claim /\ run'[q].admin = run[q].admin
           /\ \A p \in Requests \ {q} : run'[p] = run[p]
  BY TypeParts DEF Typed, Then, Goes, Run

LEMMA ProviderQuota ==
    ASSUME Typed, Typed', Tables, QuotaInv, NEW q \in Requests, ThroughProvider(q), UNCHANGED scene PROVE QuotaInv'
  <1>a. run \in [Requests -> Run] /\ run[q] \in Run /\ Shape(run[q])
    BY RunTyped, TypeParts DEF Typed
  <1>b. Counted => NoneLate /\ Loads /\ Asking(run[q])
    BY DEF QuotaInv
  <1>c. UNCHANGED <<user, gone, invited>> => (Counted => KeepsQuota)
    BY <1>b, SameKeeps
  <1>1. ASSUME Signin(q) PROVE QuotaInv'
    <2>1. PICK f \in started, c \in scene.claims : Goes(q, [Fresh EXCEPT !.at = "identity", !.flow = f, !.claim = c])
      BY <1>1 DEF Signin
    <2>2. run'[q].at = "identity" /\ run'[q].claim = c /\ \A p \in Requests \ {q} : run'[p] = run[p]
      BY <1>a, <2>1 DEF Goes, Fresh
    <2>3. Asking(run[q])'
      BY <2>2 DEF Asking, Signing
    <2>4. UNCHANGED <<user, gone, invited>>
      BY <1>1 DEF Signin
    <2> QED
      BY <1>c, <2>2, <2>3, <2>4, QuotaStep
  <1>2. ASSUME AccountFor(q) PROVE QuotaInv'
    <2>1. run[q].at = "identity" /\ UNCHANGED data
      BY <1>2 DEF AccountFor
    <2>2. /\ run'[q].at \in {"session", "link", "signup"} /\ run'[q].claim = run[q].claim
          /\ \A p \in Requests \ {q} : run'[p] = run[p]
      <3>1. \/ \E u, at : at \in {"session", "link"} /\ Goes(q, [run[q] EXCEPT !.at = at, !.who = u, !.admin = user[u].admin])
            \/ \E admin : Goes(q, [run[q] EXCEPT !.at = "signup", !.admin = admin])
        BY <1>2 DEF AccountFor
      <3>2. ASSUME NEW u, NEW at \in {"session", "link"}, NEW x, Goes(q, [run[q] EXCEPT !.at = at, !.who = u, !.admin = x])
            PROVE  run'[q].at = at /\ run'[q].claim = run[q].claim /\ \A p \in Requests \ {q} : run'[p] = run[p]
        BY <1>a, <3>2 DEF Goes, Run
      <3>3. ASSUME NEW x, Goes(q, [run[q] EXCEPT !.at = "signup", !.admin = x])
            PROVE  run'[q].at = "signup" /\ run'[q].claim = run[q].claim /\ \A p \in Requests \ {q} : run'[p] = run[p]
        BY <1>a, <3>3 DEF Goes, Run
      <3> QED
        BY <3>1, <3>2, <3>3
    <2>3. UNCHANGED <<user, gone, invited>>
      BY <2>1 DEF data
    <2> QED
      BY <1>c, <2>1, <2>2, <2>3, QuotaSigning DEF Signing
  <1>3. ASSUME LinkSso(q) \/ LinkFirst(q) \/ ClaimEntry(q) PROVE QuotaInv'
    <2>1. /\ run[q].at \in Signing /\ UNCHANGED <<user, gone, invited>>
          /\ \E at \in {"session", "claim", "undo"} : Then(q, at)
      BY <1>3 DEF LinkSso, LinkFirst, ClaimEntry, Signing
    <2>2. /\ run'[q].at \in {"session", "claim", "undo"} /\ run'[q].claim = run[q].claim
          /\ \A p \in Requests \ {q} : run'[p] = run[p]
      BY <2>1, ThenMoves
    <2> QED
      BY <1>c, <2>1, <2>2, QuotaSigning DEF Signing
  <1>4. ASSUME SignUp(q) PROVE QuotaInv'
    <2>1. PICK u \in Users : CreateUser(u, run[q].claim.email, run[q].admin, FALSE)
                             /\ Goes(q, [run[q] EXCEPT !.at = "first", !.who = u])
      BY <1>4 DEF SignUp
    <2>2. run[q].at \in Signing /\ run[q].claim.email \in Addresses
      BY <1>a, <1>4 DEF SignUp, Shape, Signing, Claim
    <2>3. run'[q].at = "first" /\ run'[q].claim = run[q].claim /\ \A p \in Requests \ {q} : run'[p] = run[p]
      BY <1>a, <2>1 DEF Goes, Run
    <2>4. Counted => KeepsQuota
      BY <1>b, <2>1, <2>2, CreateKeeps
    <2> QED
      BY <2>2, <2>3, <2>4, QuotaSigning DEF Signing
  <1>5. ASSUME Undo(q) PROVE QuotaInv'
    <2>1. Counted => KeepsQuota
      BY <1>b, <1>5, DeleteKeeps DEF Undo
    <2> QED
      BY <1>5, <2>1, OverMoves, QuotaUnasked DEF Undo
  <1>6. ASSUME StartSession(q) PROVE QuotaInv'
    <2> DEFINE c == run[q].claim
    <2>1. /\ run[q].at = "session" /\ UNCHANGED <<user, gone, invited>>
          /\ Then(q, IF c.right = "given" /\ ~run[q].admin THEN "right"
                     ELSE IF c.right = "taken" /\ run[q].admin THEN "count" ELSE "code")
      BY <1>6 DEF StartSession
    <2>2. Counted => c.right # "taken"
      BY <1>b, <2>1 DEF Asking, Counted, Signing
    <2>3. /\ run'[q].claim = run[q].claim /\ \A p \in Requests \ {q} : run'[p] = run[p]
          /\ run'[q].at \in {"right", "count", "code"}
          /\ run'[q].at = "count" => c.right = "taken"
          /\ run'[q].at = "right" => ~run'[q].admin
      BY <2>1, ThenMoves
    <2> QED
      BY <1>c, <2>1, <2>2, <2>3, QuotaSigning DEF Signing
  <1>7. ASSUME CountAdmins(q) PROVE QuotaInv'
    <2>1. ~Counted
      BY <1>b, <1>7 DEF CountAdmins, Asking
    <2> QED
      BY <2>1 DEF QuotaInv, Counted
  <1>8. ASSUME FollowAdminRight(q) PROVE QuotaInv'
    <2>1. run[q].at = "right" /\ SetAdmin(run[q].who, ~run[q].admin) /\ Then(q, "code")
      BY <1>8 DEF FollowAdminRight
    <2>2. Counted => SetAdmin(run[q].who, TRUE)
      <3>1. Counted => (~run[q].admin) = TRUE
        BY <1>b, <2>1 DEF Asking
      <3> QED
        BY <2>1, <3>1
    <2>3. Counted => KeepsQuota
      BY <1>b, <2>2, UpdateKeeps
    <2>4. run'[q].at = "code" /\ run'[q].claim = run[q].claim /\ \A p \in Requests \ {q} : run'[p] = run[p]
      BY <2>1, ThenMoves
    <2> QED
      BY <2>1, <2>3, <2>4, QuotaSigning DEF Signing
  <1>9. ASSUME PutCode(q) \/ FinishLogin(q) \/ BackChannelLogout(q) PROVE QuotaInv'
    <2>1. Over(q) /\ UNCHANGED <<user, gone, invited>>
      BY <1>9 DEF PutCode, FinishLogin, BackChannelLogout
    <2> QED
      BY <1>c, <2>1, OverMoves, QuotaUnasked
  <1>10. ASSUME TakeSsoCode(q) PROVE QuotaInv'
    <2>1. Then(q, "finish") /\ UNCHANGED <<user, gone, invited>>
      BY <1>10 DEF TakeSsoCode
    <2>2. run'[q].at \in Unasked /\ \A p \in Requests \ {q} : run'[p] = run[p]
      BY <2>1, ThenMoves DEF Unasked
    <2> QED
      BY <1>c, <2>1, <2>2, QuotaUnasked
  <1>11. ASSUME ReadCode(q) \/ FindSession(q) PROVE QuotaInv'
    <2>1. UNCHANGED <<user, gone, invited>>
      BY <1>11 DEF ReadCode, FindSession, data
    <2>2. run'[q].at \in Unasked /\ \A p \in Requests \ {q} : run'[p] = run[p]
      <3>1. CASE ReadCode(q)
        BY <1>a, <3>1 DEF ReadCode, Fresh, Goes, Unasked
      <3>2. CASE FindSession(q)
        BY <1>a, <3>2 DEF FindSession, Fresh, Goes, Unasked
      <3> QED
        BY <1>11, <3>1, <3>2
    <2> QED
      BY <1>c, <2>1, <2>2, QuotaUnasked
  <1> QED
    BY <1>1, <1>2, <1>3, <1>4, <1>5, <1>6, <1>7, <1>8, <1>9, <1>10, <1>11 DEF ThroughProvider

LEMMA InvitationsQuota ==
    ASSUME Typed, Typed', Tables, QuotaInv, NEW q \in Requests, Invitations(q), UNCHANGED scene PROVE QuotaInv'
  <1>a. run \in [Requests -> Run] /\ run[q] \in Run /\ Shape(run[q])
    BY RunTyped, TypeParts DEF Typed
  <1>b. Counted => NoneLate /\ Loads /\ Asking(run[q])
    BY DEF QuotaInv
  <1>c. UNCHANGED <<user, gone, invited>> => (Counted => KeepsQuota)
    BY <1>b, SameKeeps
  <1>1. ASSUME AskToInvite(q) PROVE QuotaInv'
    <2>1. PICK u \in DOMAIN user, e \in Addresses :
             Goes(q, [Fresh EXCEPT !.at = "invite", !.who = u, !.email = e, !.admin = user[u].admin])
      BY <1>1 DEF AskToInvite
    <2>2. /\ run'[q].at = "invite" /\ run'[q].who = u /\ run'[q].admin = user[u].admin
          /\ \A p \in Requests \ {q} : run'[p] = run[p]
      BY <1>a, <2>1 DEF Goes, Fresh
    <2>3. UNCHANGED <<user, gone, invited>>
      BY <1>1 DEF AskToInvite, data
    <2>4. Asking(run[q])'
      BY <2>2, <2>3 DEF Asking, Signing, Past, Unbounded
    <2> QED
      BY <1>c, <2>2, <2>3, <2>4, QuotaStep
  <1>2. ASSUME InviteWithin(q) PROVE QuotaInv'
    <2>1. Invite(run[q].email, run[q].who, FALSE) /\ WithinQuotaOf(run[q].who, run[q].email) /\ Over(q)
      BY <1>2 DEF InviteWithin
    <2>2. Counted => KeepsQuota
      BY <1>b, <2>1, InviteKeeps
    <2> QED
      BY <2>1, <2>2, OverMoves, QuotaUnasked
  <1>3. ASSUME AskAsAdmin(q) PROVE QuotaInv'
    <2>1. UNCHANGED <<user, gone, invited>>
      BY <1>3 DEF AskAsAdmin, data
    <2>2. CASE /\ run[q].at = "invite" /\ run[q].admin
               /\ Goes(q, [run[q] EXCEPT !.at = "checked", !.by = run[q].who, !.admin = FALSE])
      <3>1. run'[q].at = "checked" /\ run'[q].by = run[q].who /\ \A p \in Requests \ {q} : run'[p] = run[p]
        BY <1>a, <2>2 DEF Goes, Run
      <3>2. Counted => run[q].who \in Past /\ Unbounded(run[q].who)
        BY <1>b, <2>2 DEF Asking
      <3>3. Counted => Asking(run[q])'
        BY <2>1, <3>1, <3>2 DEF Asking, Signing, Past, Unbounded
      <3> QED
        BY <1>c, <2>1, <3>1, <3>3, QuotaStep
    <2>3. ASSUME NEW u \in DOMAIN user, NEW e, NEW admin, user[u].admin,
                 Goes(q, [Fresh EXCEPT !.at = "checked", !.email = e, !.by = u, !.admin = admin])
          PROVE  QuotaInv'
      <3>1. run'[q].at = "checked" /\ run'[q].by = u /\ \A p \in Requests \ {q} : run'[p] = run[p]
        BY <1>a, <2>3 DEF Goes, Fresh
      <3>2. Asking(run[q])'
        BY <2>1, <2>3, <3>1 DEF Asking, Signing, Past, Unbounded
      <3> QED
        BY <1>c, <2>1, <3>1, <3>2, QuotaStep
    <2> QED
      BY <1>3, <2>2, <2>3 DEF AskAsAdmin
  <1>4. ASSUME InviteChecked(q) PROVE QuotaInv'
    <2>1. run[q].at = "checked" /\ Invite(run[q].email, run[q].by, run[q].admin) /\ Over(q)
      BY <1>4 DEF InviteChecked
    <2>2. Counted => Unbounded(run[q].by)
      BY <1>b, <2>1 DEF Asking
    <2>3. Counted => KeepsQuota
      BY <1>b, <2>1, <2>2, InviteKeeps
    <2> QED
      BY <2>1, <2>3, OverMoves, QuotaUnasked
  <1>5. ASSUME AskForMail(q) \/ MailAgain(q) PROVE QuotaInv'
    <2>1. ~Counted
      BY <1>b, <1>5 DEF AskForMail, MailAgain, Asking, Asked, Counted
    <2> QED
      BY <2>1 DEF QuotaInv, Counted
  <1>6. ASSUME AskToWithdraw(q) \/ ReadInvitation(q) PROVE QuotaInv'
    <2>1. UNCHANGED <<user, gone, invited>>
      BY <1>6 DEF AskToWithdraw, ReadInvitation, data
    <2>2. run'[q].at \in Unasked /\ \A p \in Requests \ {q} : run'[p] = run[p]
      <3>1. CASE AskToWithdraw(q)
        BY <1>a, <3>1 DEF AskToWithdraw, Fresh, Goes, Unasked
      <3>2. CASE ReadInvitation(q)
        BY <1>a, <3>2 DEF ReadInvitation, Fresh, Goes, Unasked
      <3> QED
        BY <1>6, <3>1, <3>2
    <2> QED
      BY <1>c, <2>1, <2>2, QuotaUnasked
  <1>7. ASSUME Uninvite(q) PROVE QuotaInv'
    <2>1. Counted => KeepsQuota
      BY <1>b, <1>7, UninviteKeeps DEF Uninvite
    <2> QED
      BY <1>7, <2>1, OverMoves, QuotaUnasked DEF Uninvite
  <1>8. ASSUME Register(q) PROVE QuotaInv'
    <2>1. run[q].email \in Addresses
      BY <1>a, <1>8 DEF Register, Shape
    <2>2. Counted => KeepsQuota
      BY <1>b, <1>8, <2>1, CreateKeeps DEF Register
    <2> QED
      BY <1>8, <2>2, OverMoves, QuotaUnasked DEF Register
  <1> QED
    BY <1>1, <1>2, <1>3, <1>4, <1>5, <1>6, <1>7, <1>8 DEF Invitations

LEMMA AdministrationQuota ==
    ASSUME Typed, Typed', QuotaInv, NEW q \in Requests, Administration(q), UNCHANGED scene PROVE QuotaInv'
  <1>a. run \in [Requests -> Run] /\ run[q] \in Run /\ Shape(run[q])
    BY RunTyped, TypeParts DEF Typed
  <1>b. Counted => NoneLate /\ Loads /\ Asking(run[q])
    BY DEF QuotaInv
  <1>c. UNCHANGED <<user, gone, invited>> => (Counted => KeepsQuota)
    BY <1>b, SameKeeps
  <1>1. ASSUME ReadPerson(q) \/ ReadOwnEntry(q) \/ AskForEntry(q) \/ AskToGo(q) PROVE QuotaInv'
    <2>1. UNCHANGED <<user, gone, invited>>
      BY <1>1 DEF ReadPerson, ReadOwnEntry, AskForEntry, AskToGo, data
    <2>2. run'[q].at \in Unasked /\ \A p \in Requests \ {q} : run'[p] = run[p]
      <3>1. CASE ReadPerson(q)
        <4>1. PICK u \in DOMAIN user, at \in {"off", "on", "going"} : Goes(q, [Fresh EXCEPT !.at = at, !.who = u])
          BY <3>1 DEF ReadPerson
        <4> QED
          BY <1>a, <4>1 DEF Fresh, Goes, Unasked
      <3>2. CASE ReadOwnEntry(q)
        BY <1>a, <3>2 DEF ReadOwnEntry, Fresh, Goes, Unasked
      <3>4. CASE AskForEntry(q)
        BY <1>a, <3>4 DEF AskForEntry, Fresh, Goes, Unasked
      <3>3. CASE AskToGo(q)
        BY <1>a, <3>3 DEF AskToGo, Fresh, Goes, Unasked
      <3> QED
        BY <1>1, <3>1, <3>2, <3>3, <3>4
    <2> QED
      BY <1>c, <2>1, <2>2, QuotaUnasked
  <1>2. ASSUME LeavesGroup(q) \/ LeftAdminGroup(q) \/ ReadTarget(q) \/ UserAction(q) PROVE QuotaInv'
    <2>1. ~Counted
      BY <1>b, <1>2 DEF LeavesGroup, LeftAdminGroup, ReadTarget, UserAction, Asking, Asked, Counted
    <2> QED
      BY <2>1 DEF QuotaInv, Counted
  <1>3. ASSUME Disable(q) PROVE QuotaInv'
    <2>1. Counted => KeepsQuota
      BY <1>b, <1>3, UpdateKeeps DEF Disable
    <2>2. run'[q].at \in Unasked /\ \A p \in Requests \ {q} : run'[p] = run[p]
      BY <1>3, ThenMoves DEF Disable, Unasked
    <2> QED
      BY <2>1, <2>2, QuotaUnasked
  <1>4. ASSUME Enable(q) PROVE QuotaInv'
    <2>1. Counted => KeepsQuota
      BY <1>b, <1>4, UpdateKeeps DEF Enable
    <2> QED
      BY <1>4, <2>1, OverMoves, QuotaUnasked DEF Enable
  <1>5. ASSUME MarkDisabled(q) \/ PutEntry(q) \/ DropEntry(q) PROVE QuotaInv'
    <2>1. Over(q) /\ UNCHANGED <<user, gone, invited>>
      BY <1>5 DEF MarkDisabled, PutEntry, DropEntry
    <2> QED
      BY <1>c, <2>1, OverMoves, QuotaUnasked
  <1>6. ASSUME ReadEntry(q) PROVE QuotaInv'
    <2>1. UNCHANGED <<user, gone, invited>> /\ run[q] = Fresh
      BY <1>6 DEF ReadEntry, Free
    <2>2. \/ UNCHANGED run
          \/ run'[q].at \in {"entry", "drop"} /\ \A p \in Requests \ {q} : run'[p] = run[p]
      BY <1>a, <1>6 DEF ReadEntry, Fresh, Goes
    <2>3. run'[q].at \in Unasked /\ \A p \in Requests \ {q} : run'[p] = run[p]
      BY <2>1, <2>2 DEF Fresh, Unasked
    <2> QED
      BY <1>c, <2>1, <2>3, QuotaUnasked
  <1>7. ASSUME DeleteAccount(q) PROVE QuotaInv'
    <2>1. Counted => KeepsQuota
      BY <1>b, <1>7, DeleteKeeps DEF DeleteAccount
    <2> QED
      BY <1>7, <2>1, OverMoves, QuotaUnasked DEF DeleteAccount
  <1> QED
    BY <1>1, <1>2, <1>3, <1>4, <1>5, <1>6, <1>7 DEF Administration

LEMMA InitQuota == Init => QuotaInv
  <1> SUFFICES ASSUME Init, Counted PROVE NoneLate /\ Loads /\ \A q \in Requests : Asking(run[q])
    BY DEF QuotaInv
  <1>1. NoneLate
    BY ScenesFit DEF Init, NoneLate
  <1>2. \A q \in Requests : Asking(run[q])
    BY DEF Init, Asking, Fresh, Signing
  <1>3. ASSUME NEW u \in DOMAIN user, ~user[u].admin PROVE Load(u) <= Quota
    <2>1. scene \in Scenes /\ user = scene.user /\ invited = scene.invited
      BY DEF Init
    <2>2. Cardinality({x \in DOMAIN user : user[x].by = u}) + Cardinality({e \in DOMAIN invited : invited[e].by = u}) <= Quota
      BY <1>3, <2>1, ScenesFit
    <2>3. OpenBy(u) = {e \in DOMAIN invited : invited[e].by = u}
      BY <1>1 DEF OpenBy, NoneLate
    <2> QED
      BY <2>2, <2>3 DEF Load, BroughtIn
  <1> QED
    BY <1>1, <1>2, <1>3 DEF Loads

LEMMA NextQuota == Typed /\ Typed' /\ Tables /\ QuotaInv /\ [Next]_vars => QuotaInv'
  <1> SUFFICES ASSUME Typed, Typed', Tables, QuotaInv, [Next]_vars PROVE QuotaInv'
    OBVIOUS
  <1>1. CASE UNCHANGED vars
    <2>1. UNCHANGED <<scene, user, gone, invited, run>>
      BY <1>1 DEF vars, data
    <2> QED
      BY <2>1 DEF QuotaInv, Counted, NoneLate, Loads, Load, BroughtIn, OpenBy, Asking, Past, Unbounded
  <1>2. ASSUME NEW e \in Addresses, RunsOut(e), UNCHANGED scene PROVE QuotaInv'
    <2>1. ~Counted
      BY <1>2 DEF RunsOut, Asked, Counted
    <2> QED
      BY <1>2, <2>1 DEF QuotaInv, Counted
  <1>3. ASSUME NEW q \in Requests, Ends(q), UNCHANGED scene PROVE QuotaInv'
    <2>1. Over(q) /\ UNCHANGED <<user, gone, invited>>
      BY <1>3 DEF Ends, Refuses, data
    <2>2. Counted => KeepsQuota
      BY <2>1, SameKeeps DEF QuotaInv
    <2> QED
      BY <1>3, <2>1, <2>2, OverMoves, QuotaUnasked
  <1> QED
    BY <1>1, <1>2, <1>3, ProviderQuota, InvitationsQuota, AdministrationQuota DEF Next

(***************************************************************************)
(* The theorems                                                            *)
(***************************************************************************)
LEMMA InitIInv == Init => IInv
  BY InitTyped, InitTables, InitOnce, InitAlone, InitQuota DEF IInv

LEMMA NextIInv == IInv /\ [Next]_vars => IInv'
  BY NextTyped, NextTables, NextOnce, NextAlone, NextQuota DEF IInv

LEMMA Invariance == Spec => []IInv
  BY InitIInv, NextIInv, PTL DEF Spec

(* Whatever sign-ins, invitations, SCIM and administrators do between one  *)
(* another's steps: accounts have one address, one login at the provider   *)
(* and one entry each, nothing names an account that is gone, and a code   *)
(* and a logout token of the provider count once.                          *)
THEOREM AccountsFit == Spec => []AccountsInv
  <1>1. IInv => AccountsInv
    BY DEF IInv, Typed, Tables, Once, AccountsInv, CountsOnce
  <1> QED
    BY <1>1, Invariance, PTL

(* While one request follows the other, some admin who can log in is left, *)
(* whichever way the right, the account or its being enabled is taken.     *)
THEOREM AdminStays == Spec => []AnAdminStays
  <1>1. IInv => AnAdminStays
    <2> SUFFICES ASSUME IInv, scene.alone PROVE AdminCount > 0
      BY DEF AnAdminStays
    <2>1. Admins # {} /\ Admins \subseteq Users
      BY RowsTyped DEF IInv, OneByOne, Admins
    <2>2. IsFiniteSet(Admins)
      BY <2>1, AccountIds, FS_Subset
    <2>3. Cardinality(Admins) # 0 /\ Cardinality(Admins) \in Nat
      BY <2>1, <2>2, FS_EmptySet, FS_CardinalityType
    <2> QED
      BY <2>3 DEF AdminCount, Admins
  <1> QED
    BY <1>1, Invariance, PTL

(* Nobody but an admin brings in more people, by invitations that are open *)
(* and accounts made with them, than invitations_per_user allows.          *)
THEOREM QuotaKept == Spec => []WithinQuota
  <1>1. IInv => WithinQuota
    BY DEF IInv, QuotaInv, Counted, Loads, Load, WithinQuota
  <1> QED
    BY <1>1, Invariance, PTL
=============================================================================
