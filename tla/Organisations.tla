--------------------------- MODULE Organisations ---------------------------
(***************************************************************************)
(* Families: their members from invitation to confirmation, collections,  *)
(* what each member reaches, and the items in them.  A request reads who   *)
(* asks and what it is about, awaits, and then writes in one transaction   *)
(* of the store that checks what has to hold across the change; what it    *)
(* read before may be old by then.                                         *)
(*                                                                         *)
(* Organisations that are more than a family (groups, policies, admins)    *)
(* cannot be managed and are left out, and so are the keys, that members   *)
(* hide passwords or manage collections, and the mails.  Travel mode is in *)
(* VaultStore, the storage an organisation's files take in Files.          *)
(***************************************************************************)
EXTENDS Integers, FiniteSets

CONSTANTS
    Accounts, Addresses,
    Orgs, Collections, Items,    \* ids, each used once
    MaxRows,                     \* bound: rows of org_members, each with an id of its own
    Requests,                    \* how many requests are on their way at once
    None,
    Home,                        \* the address of each account at the start
    Scenes,                      \* what is there at the start, and what is asked
    Seats, MostOwned             \* max_members and per_user of the settings

\* max_members is from 2 to 50 (settings.rs).
ASSUME FamilyBounds == {MaxRows, MostOwned} \subseteq Nat /\ Seats \in Nat \ {0}

\* Ids of each kind are of that kind only, and none is None.
ASSUME FamilyIds == Accounts \cap Orgs = {} /\ None \notin Accounts \cup Addresses \cup Orgs \cup Items

Rows == 1..MaxRows
Access == {"none", "read", "write"}
Kinds == {"owner", "user"}
Statuses == {"invited", "accepted", "confirmed"}
Asks == {"create", "invite", "confirm", "update", "remove", "rename", "delete", "save", "close",
         "accept", "leave", "decline", "item", "edit", "move", "bulk", "share", "file",
         "address", "takeover", "going", "scim"}

Row == [status : Statuses, org : Orgs, user : Accounts \cup {None}, email : Addresses \cup {None},
        kind : Kinds]
Item == [of : Accounts \cup Orgs, content : BOOLEAN, trash : BOOLEAN, in : SUBSET Collections]

\* One organisation, its members' rows in the order of their ids, its collections, and items.
Member == [who : Accounts, status : Statuses, kind : Kinds, reach : [Collections -> Access]]

\* The maps hold what there is: an id that is not in one was not used yet, or is in gone.
IsMap(f, keys, values) == DOMAIN f \subseteq keys /\ f \in [DOMAIN f -> values]

ASSUME HomeAssumption ==
    Home \in [Accounts -> Addresses] /\ \A a, b \in Accounts : Home[a] = Home[b] => a = b
ASSUME FamilyScenes ==
    \A s \in Scenes :
       /\ DOMAIN s = {"org", "members", "open", "items", "asks"}
       /\ s.org \in Orgs /\ s.open \subseteq Collections /\ s.asks \subseteq Asks
       /\ IsMap(s.members, Rows, Member) /\ IsMap(s.items, Items, Item)
       /\ Cardinality(DOMAIN s.members) <= Seats
       /\ \A r, x \in DOMAIN s.members : s.members[r].who = s.members[x].who => r = x
       /\ \A r \in DOMAIN s.members :
             /\ s.members[r].kind = "owner" /\ s.members[r].status = "confirmed" => MostOwned > 0
             /\ \A c \in Collections : s.members[r].reach[c] # "none" => c \in s.open
       /\ \A i \in DOMAIN s.items : IF s.items[i].of \in Accounts THEN s.items[i].in = {}
                                  ELSE s.items[i].of = s.org /\ s.items[i].in \subseteq s.open

VARIABLES
    scene,
    email,         \* of the accounts there are
    gone,          \* ids that were deleted: none comes back
    org,           \* names of the organisations there are
    row,           \* org_members, by the id of the row
    reach,         \* collection_members: how each row reaches each collection
    collection,    \* of which organisation, and its name
    item,
    filed,         \* cipher_preferences
    moved,         \* accounts whose revision the last step moved
    run            \* the requests

data == <<email, gone, org, row, reach, collection, item, filed>>
vars == <<scene, email, gone, org, row, reach, collection, item, filed, moved, run>>

NoItem == [of |-> None]
Run == [at : {"idle", "owner", "accept", "member", "into", "edit", "move", "moving", "bulk", "share", "file", "going"},
        who : Accounts \cup {None}, org : Orgs \cup {None}, row : Rows \cup {0},
        email : Addresses \cup {None}, item : Items \cup {None},
        read : Item \cup {NoItem}, file : BOOLEAN, into : SUBSET Collections]

TypeOK ==
    /\ scene \in Scenes
    /\ IsMap(email, Accounts, Addresses)
    /\ gone \subseteq Accounts \cup Orgs \cup Collections \cup Items \cup Rows
    /\ IsMap(org, Orgs, BOOLEAN)
    /\ IsMap(row, Rows, Row)
    /\ reach \in [Rows -> [Collections -> Access]]
    /\ IsMap(collection, Collections, [org : Orgs, name : BOOLEAN])
    /\ IsMap(item, Items, Item)
    /\ filed \subseteq Items \X Accounts
    /\ moved \subseteq Accounts
    /\ run \in [Requests -> Run]

Fresh == [at |-> "idle", who |-> None, org |-> None, row |-> 0, email |-> None, item |-> None,
          read |-> NoItem, file |-> FALSE, into |-> {}]

Init ==
    /\ scene \in Scenes
    /\ email = Home
    /\ gone = {}
    /\ org = [o \in {scene.org} |-> FALSE]
    /\ row = [r \in DOMAIN scene.members |->
                LET m == scene.members[r]
                    in == m.status # "invited"
                IN  [status |-> m.status, org |-> scene.org, kind |-> m.kind,
                     user |-> IF in THEN m.who ELSE None, email |-> IF in THEN None ELSE Home[m.who]]]
    /\ reach = [r \in Rows |-> IF r \in DOMAIN scene.members THEN scene.members[r].reach
                               ELSE [c \in Collections |-> "none"]]
    /\ collection = [c \in scene.open |-> [org |-> scene.org, name |-> FALSE]]
    /\ item = scene.items
    /\ filed = {}
    /\ moved = {}
    /\ run = [q \in Requests |-> Fresh]

-----------------------------------------------------------------------------
(* Reading.                                                                *)

Without(f, S) == [x \in DOMAIN f \ S |-> f[x]]
With(f, x, v) == [y \in DOMAIN f \cup {x} |-> IF y = x THEN v ELSE f[y]]
New(ids, f) == ids \ (DOMAIN f \cup gone)

RowsOf(o) == {r \in DOMAIN row : row[r].org = o}
ItemsOf(o) == {i \in DOMAIN item : item[i].of = o}
CollectionsOf(o) == {c \in DOMAIN collection : collection[c].org = o}

\* member_users, in the rows as they are after a change.
MemberUsersBefore(rows, o) ==
    {row[r].user : r \in {r \in DOMAIN row : row[r].org = o /\ row[r].status = "confirmed"}}

MemberUsers(rows, o) ==
    {rows[r].user : r \in {r \in DOMAIN rows : rows[r].org = o /\ rows[r].status = "confirmed"}}

Owners(rows, o) ==
    {r \in DOMAIN rows : rows[r].org = o /\ rows[r].kind = "owner" /\ rows[r].status = "confirmed"}

OtherOwnersInvited(r) == {x \in RowsOf(row[r].org) : row[x].kind = "owner"} \ {r}

OtherOwners(r) == Owners(row, row[r].org) \ {r}

Owned(a) == {r \in DOMAIN row : row[r].user = a /\ row[r].kind = "owner" /\ row[r].status = "confirmed"}

\* org_membership, memberships: an account has at most one row of an organisation.
RowOf(a, o) == {r \in RowsOf(o) : row[r].user = a}

\* reachable: an owner everything, others what they were given; nobody before they are confirmed.
Reachable(r) ==
    IF row[r].status # "confirmed" THEN [c \in Collections |-> "none"]
    ELSE IF row[r].kind = "owner" THEN [c \in Collections |-> IF c \in CollectionsOf(row[r].org) THEN "write" ELSE "none"]
    ELSE reach[r]

\* access_to: an owner sees items in no collection too; else the most of the collections it is in.
AccessTo(r, C) ==
    LET have == {Reachable(r)[c] : c \in C}
    IN  IF row[r].status # "confirmed" THEN "none"
        ELSE IF row[r].kind = "owner" \/ "write" \in have THEN "write"
        ELSE IF "read" \in have THEN "read" ELSE "none"

\* org_cipher: how account a sees item i.
Sees(a, i) ==
    LET mine == {AccessTo(r, item[i].in) : r \in RowOf(a, item[i].of)}
    IN  IF "write" \in mine THEN "write" ELSE IF "read" \in mine THEN "read" ELSE "none"

WritableCollections(a, o) == {c \in Collections : \E r \in RowOf(a, o) : Reachable(r)[c] = "write"}

-----------------------------------------------------------------------------
(* What the transactions are made of.                                      *)

Goes(q, r) == run' = [run EXCEPT ![q] = r]
Over(q) == Goes(q, Fresh)

\* bump_revision, for accounts there are.
Bump(A) == moved' = A \cap DOMAIN email
BumpOrg(rows, o) == Bump(MemberUsers(rows, o))

Refused(q) == Over(q) /\ moved' = {} /\ UNCHANGED data

SetReachAny(R, o, given) == [r \in Rows |-> IF r \in R THEN given ELSE reach[r]]

\* set_member_collections: only collections of the organisation count.
SetReach(R, o, given) ==
    [r \in Rows |-> IF r \in R THEN [c \in Collections |-> IF c \in CollectionsOf(o) THEN given[c] ELSE "none"]
                    ELSE reach[r]]

\* Rows, items and collections that go take along what refers to them.
Unreached(R, C) ==
    [r \in Rows |-> IF r \in R THEN [c \in Collections |-> "none"]
                    ELSE [c \in Collections |-> IF c \in C THEN "none" ELSE reach[r][c]]]
Unfiled(I, A) == {p \in filed : p[1] \notin I /\ p[2] \notin A}

\* An organisation that goes, with everything in it (ON DELETE CASCADE), and account A's own.
Cascade(O, A) ==
    LET R == {r \in DOMAIN row : row[r].org \in O \/ row[r].user \in A}
        C == {c \in DOMAIN collection : collection[c].org \in O}
        I == {i \in DOMAIN item : item[i].of \in O \cup A}
    IN  /\ org' = Without(org, O)
        /\ row' = Without(row, R)
        /\ collection' = Without(collection, C)
        /\ item' = Without(item, I)
        /\ reach' = Unreached(R, C)
        /\ filed' = Unfiled(I, A)
        /\ email' = Without(email, A)
        /\ gone' = gone \cup O \cup A \cup R \cup C \cup I

-----------------------------------------------------------------------------
(* The owner's side.                                                       *)

Asked(what) == what \in scene.asks

\* as_owner: a confirmed owner asks; what follows does not look again.
AsOwner(q) ==
    /\ run[q] = Fresh
    /\ \E a \in DOMAIN email : \E o \in DOMAIN org :
          /\ \E r \in RowOf(a, o) : row[r].status = "confirmed" /\ row[r].kind = "owner"
          /\ Goes(q, [Fresh EXCEPT !.at = "owner", !.who = a, !.org = o])
    /\ moved' = {} /\ UNCHANGED data

Managing(q, what) == run[q].at = "owner" /\ Asked(what) /\ run[q].org \in DOMAIN org

\* Refused for the form of what it brings, or by a check of the transaction: nothing changes.
GivesUp(q) == run[q] # Fresh /\ Refused(q)

Invitation(o, e, kind) == [status |-> "invited", org |-> o, user |-> None, email |-> e, kind |-> kind]

Known(o, e) == \E r \in RowsOf(o) : row[r].email = e \/ \E a \in DOMAIN email : email[a] = e /\ row[r].user = a

Seat(o, n) == Cardinality(RowsOf(o)) + n <= Seats

Lowest(R) == {r \in R : \A x \in R : r <= x}

\* Ids for as many as E, none skipped.
Ids(E, R) ==
    {f \in [E -> R] : /\ \A d, e \in E : f[d] = f[e] => d = e
                      /\ \A e \in E, x \in R : x < f[e] => \E d \in E : f[d] = x}

InviteMembers(q) ==
    LET o == run[q].org IN
    /\ Managing(q, "invite")
    /\ \E E \in SUBSET Addresses, kind \in Kinds, given \in [Collections -> Access] :
       \E id \in Ids(E, New(Rows, row)) :
          /\ E # {} /\ Seat(o, Cardinality(E)) /\ \A e \in E : ~Known(o, e)
          /\ row' = [r \in DOMAIN row \cup {id[e] : e \in E} |->
                       IF r \in DOMAIN row THEN row[r] ELSE Invitation(o, CHOOSE e \in E : id[e] = r, kind)]
          /\ reach' = IF kind = "user" THEN SetReach({id[e] : e \in E}, o, given) ELSE reach
    /\ Over(q) /\ moved' = {}
    /\ UNCHANGED <<email, gone, org, collection, item, filed>>

MayOwn(a) == Cardinality(Owned(a)) < MostOwned

ConfirmMember(q) ==
    /\ Managing(q, "confirm")
    /\ \E r \in RowsOf(run[q].org) :
          /\ row[r].status = "accepted"
          /\ row[r].kind = "owner" => MayOwn(row[r].user)
          /\ LET rows == [row EXCEPT ![r].status = "confirmed"] IN row' = rows /\ BumpOrg(rows, run[q].org)
    /\ Over(q)
    /\ UNCHANGED <<email, gone, org, reach, collection, item, filed>>

\* A member's role and collections; the last confirmed owner stays one.
UpdateMember(q) ==
    /\ Managing(q, "update")
    /\ \E r \in RowsOf(run[q].org), kind \in Kinds :
          /\ (row[r].kind = "owner" /\ kind # "owner") => OtherOwners(r) # {}
          /\ (row[r].kind # "owner" /\ kind = "owner" /\ row[r].user # None) => MayOwn(row[r].user)
          /\ row' = [row EXCEPT ![r].kind = kind]
          /\ \/ UNCHANGED reach
             \/ \E given \in [Collections -> Access] : reach' = SetReach({r}, run[q].org, given)
          /\ Bump(MemberUsers(row, run[q].org) \cup {row[r].user})
    /\ Over(q)
    /\ UNCHANGED <<email, gone, org, collection, item, filed>>

\* remove: the row, and the member's own filing of the organisation's items.
Remove(r) ==
    LET a == row[r].user
        o == row[r].org
    IN  /\ row' = Without(row, {r})
        /\ reach' = Unreached({r}, {})
        /\ filed' = filed \ (ItemsOf(o) \X {a})
        /\ gone' = gone \cup {r}
        /\ Bump(MemberUsers(row, o) \cup {a})
        /\ UNCHANGED <<email, org, collection, item>>

Stays(r) == row[r].kind = "owner" /\ row[r].status = "confirmed" /\ OtherOwners(r) = {}

RemoveMember(q) ==
    /\ Managing(q, "remove")
    /\ \E r \in RowsOf(run[q].org) : ~Stays(r) /\ Remove(r)
    /\ Over(q)

RenameOrganization(q) ==
    /\ Managing(q, "rename")
    /\ org' = [org EXCEPT ![run[q].org] = ~@]
    /\ BumpOrg(row, run[q].org)
    /\ Over(q)
    /\ UNCHANGED <<email, gone, row, reach, collection, item, filed>>

\* By an owner or an admin, with the master password.
DeleteOrganization(q) ==
    /\ Managing(q, "delete")
    /\ Cascade({run[q].org}, {})
    /\ Bump({row[r].user : r \in RowsOf(run[q].org)})
    /\ Over(q)

\* A new collection or a new name, and, when given, who reaches it.
SaveCollection(q) ==
    LET o == run[q].org IN
    /\ Managing(q, "save")
    /\ \E c \in CollectionsOf(o) \cup New(Collections, collection), name \in BOOLEAN :
          /\ collection' = With(collection, c, [org |-> o, name |-> name])
          /\ \/ UNCHANGED reach
             \/ \E R \in SUBSET RowsOf(o), how \in {"read", "write"} :
                   reach' = [r \in Rows |-> [reach[r] EXCEPT ![c] = IF r \in R THEN how ELSE "none"]]
    /\ BumpOrg(row, o)
    /\ Over(q)
    /\ UNCHANGED <<email, gone, org, row, item, filed>>

\* The items of a collection that goes stay in the organisation.
DeleteCollections(q) ==
    /\ Managing(q, "close")
    /\ \E C \in SUBSET CollectionsOf(run[q].org) :
          /\ C # {}
          /\ collection' = Without(collection, C)
          /\ reach' = Unreached({}, C)
          /\ item' = [i \in DOMAIN item |-> [item[i] EXCEPT !.in = @ \ C]]
          /\ gone' = gone \cup C
    /\ BumpOrg(row, run[q].org)
    /\ Over(q)
    /\ UNCHANGED <<email, org, row, filed>>

-----------------------------------------------------------------------------
(* The member's side.                                                      *)

CreateOrganization(a) ==
    /\ Asked("create") /\ a \in DOMAIN email
    /\ MayOwn(a)
    /\ \E o \in New(Orgs, org) : \E r \in Lowest(New(Rows, row)) :
          /\ org' = With(org, o, FALSE)
          /\ row' = With(row, r, [status |-> "confirmed", org |-> o, user |-> a, email |-> None, kind |-> "owner"])
          /\ \/ UNCHANGED collection
             \/ \E c \in New(Collections, collection) :
                   collection' = With(collection, c, [org |-> o, name |-> FALSE])
    /\ moved' = {a}
    /\ UNCHANGED <<email, gone, reach, item, filed, run>>

\* An account accepts with the address its session was read with.
ReadSession(q) ==
    /\ run[q] = Fresh /\ Asked("accept")
    /\ \E a \in DOMAIN email : Goes(q, [Fresh EXCEPT !.at = "accept", !.who = a, !.email = email[a]])
    /\ moved' = {} /\ UNCHANGED data

InByAddress(a, o) == \E r \in RowsOf(o) : row[r].email = email[a] /\ row[r].status # "invited"

In(a, o) == RowOf(a, o) # {}

AcceptMember(q) ==
    LET a == run[q].who IN
    /\ run[q].at = "accept" /\ a \in DOMAIN email
    /\ \E r \in DOMAIN row :
          /\ row[r].status = "invited" /\ row[r].email = run[q].email
          /\ ~In(a, row[r].org)
          /\ row' = [row EXCEPT ![r].status = "accepted", ![r].user = a, ![r].email = None]
    /\ Bump({a})
    /\ Over(q)
    /\ UNCHANGED <<email, gone, org, reach, collection, item, filed>>

\* leave and decline look for the row first, and take it out afterwards, whatever it is by then.
FindRow(q) ==
    /\ run[q] = Fresh
    /\ \E r \in DOMAIN row, a \in DOMAIN email :
          /\ \/ Asked("leave") /\ row[r].user = a
             \/ Asked("decline") /\ row[r].status = "invited" /\ row[r].email = email[a]
          /\ Goes(q, [Fresh EXCEPT !.at = "member", !.who = a, !.row = r])
    /\ moved' = {} /\ UNCHANGED data

LeaveOrDecline(q) ==
    /\ run[q].at = "member" /\ run[q].row \in DOMAIN row
    /\ ~Stays(run[q].row) /\ Remove(run[q].row)
    /\ Over(q)

\* leave_organizations, for an emergency contact that takes the account over.
LeaveOrganizations(a) ==
    LET R == {r \in DOMAIN row : row[r].user = a /\ row[r].kind # "owner"}
        rows == Without(row, R)
    IN  /\ Asked("takeover") /\ a \in DOMAIN email
        /\ row' = rows /\ reach' = Unreached(R, {}) /\ gone' = gone \cup R
        /\ Bump({a} \cup UNION {MemberUsers(rows, row[r].org) : r \in R})
        /\ UNCHANGED <<email, org, collection, item, filed, run>>

\* The address of an account changes to one nobody has.
ChangeEmail(a) ==
    /\ Asked("address") /\ a \in DOMAIN email
    /\ \E e \in Addresses :
          /\ \A b \in DOMAIN email : email[b] # e
          /\ email' = [email EXCEPT ![a] = e]
    /\ moved' = {a}
    /\ UNCHANGED <<gone, org, row, reach, collection, item, filed, run>>

\* sole_owner_of: none that others are in as well.
SoleOwnerOf(a) ==
    {o \in DOMAIN org : /\ \E r \in RowOf(a, o) : row[r].kind = "owner" /\ row[r].status = "confirmed"
                        /\ \A r \in Owners(row, o) : row[r].user = a
                        /\ \E r \in RowsOf(o) : row[r].user # a}

\* An account is deleted by itself or by an admin, who look first ...
CheckSoleOwner(q) ==
    /\ run[q] = Fresh /\ Asked("going")
    /\ \E a \in DOMAIN email : SoleOwnerOf(a) = {} /\ Goes(q, [Fresh EXCEPT !.at = "going", !.who = a])
    /\ moved' = {} /\ UNCHANGED data

\* ... with the organisations nobody else is in.
AloneIn(a) == {o \in DOMAIN org : RowOf(a, o) # {} /\ RowsOf(o) = RowOf(a, o)}

DeleteUser(q) ==
    /\ run[q].at = "going" /\ run[q].who \in DOMAIN email
    /\ Cascade(AloneIn(run[q].who), {run[q].who})
    /\ moved' = {}
    /\ Over(q)

\* The provider's SCIM client deletes an account without a look.
ScimDelete(a) ==
    /\ Asked("scim") /\ a \in DOMAIN email
    /\ Cascade(AloneIn(a), {a})
    /\ moved' = {} /\ UNCHANGED run

-----------------------------------------------------------------------------
(* Items.                                                                  *)

\* check_collections: at least one, and all of them writable.
CheckCollections(q) ==
    /\ run[q] = Fresh /\ Asked("item")
    /\ \E a \in DOMAIN email, o \in DOMAIN org, C \in SUBSET Collections :
          /\ C # {} /\ C \subseteq WritableCollections(a, o)
          /\ Goes(q, [Fresh EXCEPT !.at = "into", !.who = a, !.org = o, !.into = C])
    /\ moved' = {} /\ UNCHANGED data

\* set_preference: nothing is kept of an account or an item that is not there.
SetPreference(a, i, on) ==
    /\ on => a \in DOMAIN email
    /\ filed' = IF on THEN filed \cup {<<i, a>>} ELSE filed \ {<<i, a>>}

\* save_org_cipher: the whole row as the request has it, made again if it is gone meanwhile; the
\* collections only when they were given, and only those of the organisation.
SaveOrgCipher(q, i, content, trash, C, on) ==
    LET o == run[q].org IN
    /\ o \in DOMAIN org
    /\ item' = With(item, i, [of |-> o, content |-> content, trash |-> trash, in |-> C])
    /\ gone' = gone \ {i}
    /\ SetPreference(run[q].who, i, on)
    /\ BumpOrg(row, o)
    /\ Over(q)
    /\ UNCHANGED <<email, org, row, reach, collection>>

OfOrg(C, o) == C \cap CollectionsOf(o)

CreateItem(q) ==
    /\ run[q].at = "into"
    /\ \E i \in New(Items, item), on \in BOOLEAN :
          SaveOrgCipher(q, i, FALSE, FALSE, OfOrg(run[q].into, run[q].org), on)

Looking(q, a, i, at) ==
    Goes(q, [Fresh EXCEPT !.at = at, !.who = a, !.org = item[i].of, !.item = i, !.read = item[i],
                          !.file = <<i, a>> \in filed])

\* org_cipher and, for everything but filing, that the account may change it.
FindItem(q) ==
    /\ run[q] = Fresh
    /\ \E a \in DOMAIN email, i \in DOMAIN item :
          \/ /\ Sees(a, i) = "write"
             /\ \E at \in {"edit", "move", "bulk"} : Asked(at) /\ Looking(q, a, i, at)
          \/ /\ Sees(a, i) # "none"
             /\ Asked("file") /\ Looking(q, a, i, "file")
    /\ moved' = {} /\ UNCHANGED data

UpdateItem(q) ==
    LET i == run[q].item IN
    /\ run[q].at = "edit"
    /\ \E content, on \in BOOLEAN :
          SaveOrgCipher(q, i, content, run[q].read.trash, IF i \in DOMAIN item THEN item[i].in ELSE {}, on)

\* change_collections: what the account cannot write stays, what it can, it chooses.
ChooseCollections(q) ==
    LET r == run[q]
        mine == WritableCollections(r.who, r.org)
    IN  /\ r.at = "move"
        /\ \E C \in SUBSET mine :
              /\ C \cup (r.read.in \ mine) # {}
              /\ Goes(q, [r EXCEPT !.at = "moving", !.into = C \cup (r.read.in \ mine)])
        /\ moved' = {} /\ UNCHANGED data

ChangeCollections(q) ==
    LET r == run[q] IN
    /\ r.at = "moving"
    /\ SaveOrgCipher(q, r.item, r.read.content, r.read.trash, OfOrg(r.into, r.org), r.file)

\* org_bulk: to the trash and back, or gone.
OrgBulk(q) ==
    LET i == run[q].item IN
    /\ run[q].at = "bulk" /\ i \in DOMAIN item
    /\ \/ /\ \E trash \in BOOLEAN : item' = [item EXCEPT ![i].trash = trash]
          /\ UNCHANGED <<gone, filed>>
       \/ /\ item' = Without(item, {i}) /\ gone' = gone \cup {i} /\ filed' = Unfiled({i}, {})
    /\ BumpOrg(row, run[q].org)
    /\ Over(q)
    /\ UNCHANGED <<email, org, row, reach, collection>>

\* share_one: an item of the account's own, into collections it may write.
FindOwn(q) ==
    /\ run[q] = Fresh /\ Asked("share")
    /\ \E a \in DOMAIN email, i \in DOMAIN item, o \in DOMAIN org, C \in SUBSET Collections :
          /\ item[i].of = a /\ C # {} /\ C \subseteq WritableCollections(a, o)
          /\ Goes(q, [Fresh EXCEPT !.at = "share", !.who = a, !.org = o, !.item = i, !.into = C])
    /\ moved' = {} /\ UNCHANGED data

\* share_cipher: still theirs; the organisation's from now on, filed for the account as it was.
ShareCipher(q) ==
    LET a == run[q].who
        i == run[q].item
        o == run[q].org
    IN  /\ run[q].at = "share" /\ i \in DOMAIN item /\ item[i].of = a /\ o \in DOMAIN org
        /\ \E content, on \in BOOLEAN :
              /\ item' = [item EXCEPT ![i].of = o, ![i].content = content, ![i].in = OfOrg(run[q].into, o)]
              /\ SetPreference(a, i, on)
        /\ Bump({a} \cup MemberUsers(row, o))
        /\ Over(q)
        /\ UNCHANGED <<email, gone, org, row, reach, collection>>

SetOrgPreference(q) ==
    /\ run[q].at = "file"
    /\ \E on \in BOOLEAN :
          /\ on => run[q].item \in DOMAIN item
          /\ SetPreference(run[q].who, run[q].item, on)
    /\ Bump({run[q].who})
    /\ Over(q)
    /\ UNCHANGED <<email, gone, org, row, reach, collection, item>>

-----------------------------------------------------------------------------

ByOwner(q) ==
    \/ AsOwner(q) \/ InviteMembers(q) \/ ConfirmMember(q) \/ UpdateMember(q) \/ RemoveMember(q)
    \/ RenameOrganization(q) \/ DeleteOrganization(q) \/ SaveCollection(q) \/ DeleteCollections(q)

ByMember(q) ==
    \/ ReadSession(q) \/ AcceptMember(q) \/ FindRow(q) \/ LeaveOrDecline(q)
    \/ CheckSoleOwner(q) \/ DeleteUser(q)

OnItems(q) ==
    \/ CheckCollections(q) \/ CreateItem(q) \/ FindItem(q) \/ UpdateItem(q) \/ ChooseCollections(q)
    \/ ChangeCollections(q) \/ OrgBulk(q) \/ FindOwn(q) \/ ShareCipher(q) \/ SetOrgPreference(q)

AtOnce(a) == CreateOrganization(a) \/ LeaveOrganizations(a) \/ ChangeEmail(a) \/ ScimDelete(a)

Next ==
    /\ \/ \E q \in Requests : ByOwner(q) \/ ByMember(q) \/ OnItems(q) \/ GivesUp(q)
       \/ \E a \in Accounts : AtOnce(a)
    /\ UNCHANGED scene

Spec == Init /\ [][Next]_vars

-----------------------------------------------------------------------------
(* Properties.                                                             *)

\* Everything belongs together: items are in collections of their organisation, rows reach
\* collections of theirs, an account is named once the row is accepted, and nothing refers to
\* what is gone, whatever order the requests wrote in.
BelongsTogether ==
    /\ \A i \in DOMAIN item :
          IF item[i].of \in Accounts THEN item[i].of \in DOMAIN email /\ item[i].in = {}
          ELSE item[i].of \in DOMAIN org /\ item[i].in \subseteq CollectionsOf(item[i].of)
    /\ \A r \in Rows, c \in Collections :
          reach[r][c] # "none" => r \in DOMAIN row /\ c \in CollectionsOf(row[r].org)
    /\ \A r \in DOMAIN row :
          /\ row[r].org \in DOMAIN org
          /\ IF row[r].status = "invited" THEN row[r].user = None /\ row[r].email # None
             ELSE row[r].user \in DOMAIN email /\ row[r].email = None
    /\ \A c \in DOMAIN collection : collection[c].org \in DOMAIN org
    /\ \A p \in filed : p[1] \in DOMAIN item /\ p[2] \in DOMAIN email

FamiliesInv == TypeOK /\ BelongsTogether

\* The limits hold across every change: the seats, invited members too, the families an account
\* owns however it came to own them, and one row of an organisation for an account, by whatever
\* address it was invited (invite_members, accept_member, confirm_member, update_member).
WithinLimits ==
    /\ \A o \in DOMAIN org : Cardinality(RowsOf(o)) <= Seats
    /\ \A a \in Accounts : Cardinality(Owned(a)) <= MostOwned
    /\ \A a \in Accounts, o \in Orgs : Cardinality(RowOf(a, o)) <= 1

\* Owners leave, are removed and step down in any order: only an account that is deleted takes
\* the last confirmed owner of an organisation along (remove_member, update_member).
OnlyGoingTakesTheOwner ==
    [][\A o \in DOMAIN org \cap DOMAIN org' :
          (Owners(row, o) # {} /\ Owners(row', o) = {}) => DOMAIN email' # DOMAIN email]_vars

\* What an account's sync shows of its organisations; the name once it is confirmed.
MembershipsOf(a) ==
    {<<row[r].org, row[r].status, row[r].kind, row[r].status = "confirmed" /\ org[row[r].org]>> :
        r \in {r \in DOMAIN row : row[r].user = a}}
CollectionsSeen(a) ==
    UNION {{<<c, collection[c].name, Reachable(r)[c]>> : c \in {c \in DOMAIN collection : Reachable(r)[c] # "none"}} :
        r \in {r \in DOMAIN row : row[r].user = a}}
ItemsSeen(a) ==
    {<<i, item[i], Sees(a, i), <<i, a>> \in filed>> : i \in {i \in DOMAIN item : Sees(a, i) # "none"}}

SyncOf(a) == <<MembershipsOf(a), CollectionsSeen(a), ItemsSeen(a)>>

\* Whose revision moves is everybody who sees a difference in their sync (org_management.rs:5-8):
\* members, and those who were members until then.
SyncsWhatChanges ==
    [][\A a \in DOMAIN email \cap DOMAIN email' : SyncOf(a)' # SyncOf(a) => a \in moved']_vars

\* What the code does not hold: an organisation always keeps an owner.
KeepsAnOwner == \A o \in DOMAIN org : Owners(row, o) # {}

=============================================================================
