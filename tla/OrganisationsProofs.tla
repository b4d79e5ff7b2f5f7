------------------------- MODULE OrganisationsProofs -------------------------
(***************************************************************************)
(* Proofs about Organisations: its inductive invariant, that families     *)
(* fit together and stay within their limits, that only an account that is *)
(* deleted takes the last owner along, and that everybody whose sync       *)
(* changes has a new revision.                                             *)
(***************************************************************************)
EXTENDS Organisations, FiniteSetTheorems, TLAPS

(***************************************************************************)
(* The inductive invariant                                                 *)
(***************************************************************************)
OnItem == {"edit", "move", "moving", "bulk", "file"}
OfOrgs == {"owner", "into", "share"} \cup OnItem

(* What each step of a request has read.                                   *)
Shape(r) ==
    /\ r \in Run
    /\ r.at # "idle" => r.who \in Accounts
    /\ r.at \in OfOrgs => r.org \in Orgs
    /\ r.at = "accept" => r.email \in Addresses
    /\ r.at = "member" => r.row \in Rows
    /\ r.at \in OnItem \cup {"share"} => r.item \in Items
    /\ r.at \in OnItem => r.read \in Item

Asking == run \in [Requests -> Run] /\ \A q \in Requests : Shape(run[q])

(* What a request on an item found is the organisation the item is of, as  *)
(* long as it is there, and when it is made again.                         *)
Settled ==
    /\ \A q \in Requests : run[q].at \in OnItem =>
          /\ run[q].item \in DOMAIN item \cup gone
          /\ run[q].item \in DOMAIN item => item[run[q].item].of = run[q].org
    /\ \A p, q \in Requests :
          run[p].at \in OnItem /\ run[q].at \in OnItem /\ run[p].item = run[q].item => run[p].org = run[q].org


(* The parts of the invariants.                                            *)
DataTyped ==
    /\ IsMap(email, Accounts, Addresses)
    /\ gone \subseteq Accounts \cup Orgs \cup Collections \cup Items \cup Rows
    /\ IsMap(org, Orgs, BOOLEAN)
    /\ IsMap(row, Rows, Row)
    /\ reach \in [Rows -> [Collections -> Access]]
    /\ IsMap(collection, Collections, [org : Orgs, name : BOOLEAN])
    /\ IsMap(item, Items, Item)
    /\ filed \subseteq Items \X Accounts

ItemsFit ==
    \A i \in DOMAIN item :
       IF item[i].of \in Accounts THEN item[i].of \in DOMAIN email /\ item[i].in = {}
       ELSE item[i].of \in DOMAIN org /\ item[i].in \subseteq CollectionsOf(item[i].of)
ReachFits ==
    \A r \in Rows, c \in Collections :
       reach[r][c] # "none" => r \in DOMAIN row /\ c \in CollectionsOf(row[r].org)
RowFits(r) ==
    /\ row[r].org \in DOMAIN org
    /\ IF row[r].status = "invited" THEN row[r].user = None /\ row[r].email # None
       ELSE row[r].user \in DOMAIN email /\ row[r].email = None
RowsFit == \A r \in DOMAIN row : RowFits(r)
CollectionsFit == \A c \in DOMAIN collection : collection[c].org \in DOMAIN org
FiledFits == \A p \in filed : p[1] \in DOMAIN item /\ p[2] \in DOMAIN email

RowOfIn(rows, a, o) == {r \in DOMAIN rows : rows[r].user = a /\ rows[r].org = o}
OwnedIn(rows, a) ==
    {r \in DOMAIN rows : rows[r].user = a /\ rows[r].kind = "owner" /\ rows[r].status = "confirmed"}
RowsIn(rows, o) == {r \in DOMAIN rows : rows[r].org = o}

Limits(rows, O) ==
    /\ \A o \in O : Cardinality(RowsIn(rows, o)) <= Seats
    /\ \A a \in Accounts : Cardinality(OwnedIn(rows, a)) <= MostOwned
    /\ \A a \in Accounts, o \in Orgs : Cardinality(RowOfIn(rows, a, o)) <= 1

DataInv ==
    /\ DataTyped
    /\ ItemsFit /\ ReachFits /\ RowsFit /\ CollectionsFit /\ FiledFits
    /\ Limits(row, DOMAIN org)

IInv == DataInv /\ Asking /\ Settled /\ moved \subseteq Accounts /\ scene \in Scenes

LEMMA LimitsAre ==
    Limits(row, DOMAIN org) <=> WithinLimits
  <1>1. \A o \in Orgs \cup DOMAIN org : RowsOf(o) = RowsIn(row, o)
    BY DEF RowsOf, RowsIn
  <1>2. \A a \in Accounts : Owned(a) = OwnedIn(row, a)
    BY DEF Owned, OwnedIn
  <1>3. \A a \in Accounts, o \in Orgs : RowOf(a, o) = RowOfIn(row, a, o)
    BY DEF RowOf, RowsOf, RowOfIn
  <1> QED
    BY <1>1, <1>2, <1>3 DEF Limits, WithinLimits

LEMMA IInvHolds ==
    ASSUME IInv PROVE FamiliesInv /\ WithinLimits
  <1>1. BelongsTogether
    BY DEF IInv, DataInv, BelongsTogether, ItemsFit, ReachFits, RowsFit, RowFits, CollectionsFit, FiledFits
  <1>2. TypeOK
    BY DEF IInv, DataInv, DataTyped, Asking, TypeOK
  <1> QED
    BY <1>1, <1>2, LimitsAre DEF IInv, DataInv, FamiliesInv

(***************************************************************************)
(* Maps                                                                    *)
(***************************************************************************)
LEMMA WithMap ==
    ASSUME NEW K, NEW V, NEW f, NEW x \in K, NEW v \in V, IsMap(f, K, V)
    PROVE  IsMap(With(f, x, v), K, V)
  BY DEF With, IsMap

LEMMA WithoutMap ==
    ASSUME NEW K, NEW V, NEW f, NEW S, IsMap(f, K, V)
    PROVE  IsMap(Without(f, S), K, V)
  BY DEF Without, IsMap

LEMMA ExceptMap ==
    ASSUME NEW K, NEW V, NEW f, NEW x \in DOMAIN f, NEW v \in V, IsMap(f, K, V)
    PROVE  /\ IsMap([f EXCEPT ![x] = v], K, V)
           /\ DOMAIN [f EXCEPT ![x] = v] = DOMAIN f
           /\ [f EXCEPT ![x] = v][x] = v
           /\ \A y \in DOMAIN f \ {x} : [f EXCEPT ![x] = v][y] = f[y]
  BY DEF IsMap

(***************************************************************************)
(* Rows                                                                    *)
(***************************************************************************)
LEMMA RowIs ==
    ASSUME NEW rows, IsMap(rows, Rows, Row), NEW r \in DOMAIN rows
    PROVE  /\ r \in Rows /\ rows[r] \in Row /\ DOMAIN rows[r] = {"status", "org", "user", "email", "kind"}
           /\ rows[r].status \in Statuses /\ rows[r].org \in Orgs /\ rows[r].kind \in Kinds
           /\ rows[r].user \in Accounts \cup {None} /\ rows[r].email \in Addresses \cup {None}
  BY DEF IsMap, Row

LEMMA RowsFinite ==
    ASSUME NEW rows, IsMap(rows, Rows, Row)
    PROVE  \A R \in SUBSET DOMAIN rows : IsFiniteSet(R) /\ Cardinality(R) \in Nat
  <1>1. IsFiniteSet(Rows)
    <2>1. 1 \in Int /\ MaxRows \in Int
      BY FamilyBounds
    <2> QED
      BY <2>1, FS_Interval DEF Rows
  <1>2. IsFiniteSet(DOMAIN rows)
    BY <1>1, FS_Subset DEF IsMap
  <1> QED
    BY <1>2, FS_Subset, FS_CardinalityType

LEMMA Fewer ==
    ASSUME NEW S, NEW R \in SUBSET S, IsFiniteSet(S), NEW n \in Nat, Cardinality(S) <= n
    PROVE  Cardinality(R) <= n
  <1>1. Cardinality(R) <= Cardinality(S) /\ Cardinality(R) \in Nat /\ Cardinality(S) \in Nat
    BY FS_Subset, FS_CardinalityType
  <1> QED
    BY <1>1

LEMMA AtMostOne ==
    ASSUME NEW S, IsFiniteSet(S)
    PROVE  Cardinality(S) <= 1 <=> \A x, y \in S : x = y
  <1>1. CASE S = {}
    BY <1>1, FS_EmptySet
  <1>2. CASE S # {}
    <2>1. PICK x \in S : TRUE
      BY <1>2
    <2>2. IsFiniteSet(S \ {x}) /\ Cardinality(S \ {x}) = Cardinality(S) - 1
      BY <2>1, FS_RemoveElement
    <2>3. Cardinality(S) \in Nat /\ Cardinality(S \ {x}) \in Nat
      BY <2>2, FS_CardinalityType
    <2>4. Cardinality(S \ {x}) = 0 <=> S \ {x} = {}
      BY <2>2, FS_EmptySet
    <2>5. Cardinality(S) <= 1 <=> Cardinality(S \ {x}) = 0
      BY <2>2, <2>3
    <2> QED
      BY <2>1, <2>4, <2>5
  <1> QED
    BY <1>1, <1>2

(* At most one row of an account in an organisation.                       *)
Single(rows) ==
    \A q, r \in DOMAIN rows :
       rows[q].user \in Accounts /\ rows[q].user = rows[r].user /\ rows[q].org = rows[r].org => q = r

LEMMA OneRowIs ==
    ASSUME NEW rows, IsMap(rows, Rows, Row)
    PROVE  (\A a \in Accounts, o \in Orgs : Cardinality(RowOfIn(rows, a, o)) <= 1) <=> Single(rows)
  <1>1. \A a \in Accounts, o \in Orgs : RowOfIn(rows, a, o) \in SUBSET DOMAIN rows
    BY DEF RowOfIn
  <1>2. \A a \in Accounts, o \in Orgs :
           Cardinality(RowOfIn(rows, a, o)) <= 1 <=> \A x, y \in RowOfIn(rows, a, o) : x = y
    BY <1>1, RowsFinite, AtMostOne
  <1>3. \A r \in DOMAIN rows : rows[r].org \in Orgs
    BY RowIs
  <1>4. (\A a \in Accounts, o \in Orgs : \A x, y \in RowOfIn(rows, a, o) : x = y) <=> Single(rows)
    BY <1>3 DEF RowOfIn, Single
  <1> QED
    BY <1>2, <1>4

(* Rows that go, and no more organisations, keep to the limits.            *)
LEMMA FewerRows ==
    ASSUME NEW rows, NEW left, NEW O, NEW P \in SUBSET O, IsMap(rows, Rows, Row), Limits(rows, O),
           DOMAIN left \subseteq DOMAIN rows, \A r \in DOMAIN left : left[r] = rows[r]
    PROVE  Limits(left, P)
  <1>1. \A o : RowsIn(left, o) \in SUBSET RowsIn(rows, o) /\ IsFiniteSet(RowsIn(rows, o))
    BY RowsFinite DEF RowsIn
  <1>2. \A a : OwnedIn(left, a) \in SUBSET OwnedIn(rows, a) /\ IsFiniteSet(OwnedIn(rows, a))
    BY RowsFinite DEF OwnedIn
  <1>3. \A a, o : RowOfIn(left, a, o) \in SUBSET RowOfIn(rows, a, o) /\ IsFiniteSet(RowOfIn(rows, a, o))
    BY RowsFinite DEF RowOfIn
  <1>4. \A o \in P : Cardinality(RowsIn(left, o)) <= Seats
    BY <1>1, Fewer, FamilyBounds DEF Limits
  <1>5. \A a \in Accounts : Cardinality(OwnedIn(left, a)) <= MostOwned
    BY <1>2, Fewer, FamilyBounds DEF Limits
  <1>6. \A a \in Accounts, o \in Orgs : Cardinality(RowOfIn(left, a, o)) <= 1
    BY <1>3, Fewer DEF Limits
  <1> QED
    BY <1>4, <1>5, <1>6 DEF Limits

(***************************************************************************)
(* What each transaction keeps                                             *)
(***************************************************************************)
LEMMA NoneIs == None \notin Accounts /\ None \notin Addresses /\ None \notin Orgs /\ None \notin Items
                /\ \A o \in Orgs : o \notin Accounts
  BY FamilyIds

LEMMA NewRows ==
    ASSUME DataInv, NEW E, NEW id \in Ids(E, New(Rows, row)), NEW new, new = {id[e] : e \in E}
    PROVE  /\ new \cap DOMAIN row = {} /\ new \subseteq Rows
           /\ IsFiniteSet(E) /\ IsFiniteSet(new) /\ Cardinality(new) <= Cardinality(E)
           /\ Cardinality(E) \in Nat /\ Cardinality(new) \in Nat
  <1>1. id \in [E -> New(Rows, row)] /\ \A d, e \in E : id[d] = id[e] => d = e
    BY DEF Ids
  <1>2. new \cap DOMAIN row = {} /\ new \subseteq Rows
    BY <1>1 DEF New
  <1>3. id \in Surjection(E, new) /\ id \in Injection(E, new)
    <2>1. id \in [E -> new] /\ \A t \in new : \E e \in E : id[e] = t
      BY <1>1
    <2> QED
      BY <1>1, <2>1 DEF Surjection, Injection, IsInjective
  <1>4. IsFiniteSet(Rows)
    <2>1. 1 \in Int /\ MaxRows \in Int
      BY FamilyBounds
    <2> QED
      BY <2>1, FS_Interval DEF Rows
  <1>5. IsFiniteSet(new)
    BY <1>2, <1>4, FS_Subset
  <1>6. IsFiniteSet(E)
    BY <1>3, <1>5, FS_Injection
  <1>7. Cardinality(new) <= Cardinality(E)
    BY <1>3, <1>6, FS_Surjection
  <1> QED
    BY <1>2, <1>5, <1>6, <1>7, FS_CardinalityType

LEMMA Invited ==
    ASSUME DataInv, NEW q, InviteMembers(q), run[q].org \in Orgs
    PROVE  \E E \in SUBSET Addresses, new \in SUBSET (Rows \ DOMAIN row) :
              /\ DOMAIN row' = DOMAIN row \cup new
              /\ \A r \in DOMAIN row : row'[r] = row[r]
              /\ \A r \in new : /\ row'[r] \in Row /\ row'[r].status = "invited" /\ row'[r].org = run[q].org
                                /\ row'[r].user = None /\ row'[r].email # None
              /\ row' \in [DOMAIN row' -> Row]
              /\ reach' \in [Rows -> [Collections -> Access]]
              /\ \A r \in Rows \ new : reach'[r] = reach[r]
              /\ \A r \in new, c \in Collections : reach'[r][c] # "none" => c \in CollectionsOf(run[q].org)
              /\ Cardinality(RowsIn(row, run[q].org)) + Cardinality(E) <= Seats
              /\ IsFiniteSet(new) /\ Cardinality(new) <= Cardinality(E)
              /\ Cardinality(E) \in Nat /\ Cardinality(new) \in Nat
  <1> DEFINE o == run[q].org
  <1>1. PICK E \in SUBSET Addresses, kind \in Kinds, given \in [Collections -> Access] :
        \E id \in Ids(E, New(Rows, row)) :
          /\ E # {} /\ Seat(o, Cardinality(E)) /\ \A e \in E : ~Known(o, e)
          /\ row' = [r \in DOMAIN row \cup {id[e] : e \in E} |->
                       IF r \in DOMAIN row THEN row[r] ELSE Invitation(o, CHOOSE e \in E : id[e] = r, kind)]
          /\ reach' = IF kind = "user" THEN SetReach({id[e] : e \in E}, o, given) ELSE reach
    BY Zenon DEF InviteMembers
  <1>2. PICK id \in Ids(E, New(Rows, row)) :
          /\ E # {} /\ Seat(o, Cardinality(E)) /\ \A e \in E : ~Known(o, e)
          /\ row' = [r \in DOMAIN row \cup {id[e] : e \in E} |->
                       IF r \in DOMAIN row THEN row[r] ELSE Invitation(o, CHOOSE e \in E : id[e] = r, kind)]
          /\ reach' = IF kind = "user" THEN SetReach({id[e] : e \in E}, o, given) ELSE reach
    BY <1>1
  <1>n. PICK new : new = {id[e] : e \in E}
    OBVIOUS
  <1>3. /\ new \cap DOMAIN row = {} /\ new \subseteq Rows
        /\ IsFiniteSet(new) /\ Cardinality(new) <= Cardinality(E)
        /\ Cardinality(E) \in Nat /\ Cardinality(new) \in Nat
    BY <1>n, NewRows
  <1>4. DOMAIN row' = DOMAIN row \cup new /\ \A r \in DOMAIN row : row'[r] = row[r]
    BY <1>2, <1>n
  <1>5. ASSUME NEW r \in new
        PROVE  /\ row'[r] \in Row /\ row'[r].status = "invited" /\ row'[r].org = o
               /\ row'[r].user = None /\ row'[r].email # None
    <2>1. PICK e \in E : e = CHOOSE d \in E : id[d] = r
      BY <1>5, <1>n
    <2>2. row'[r] = Invitation(o, e, kind)
      BY <1>2, <1>3, <1>n, <2>1
    <2> QED
      BY <2>2, NoneIs DEF Invitation, Row, Statuses
  <1>6. \A r \in DOMAIN row : row[r] \in Row
    BY RowIs DEF DataInv, DataTyped
  <1>7. row' \in [DOMAIN row' -> Row]
    <2>1. row' = [r \in DOMAIN row' |-> row'[r]]
      BY <1>2, <1>4
    <2>2. \A r \in DOMAIN row' : row'[r] \in Row
      BY <1>4, <1>5, <1>6
    <2> QED
      BY <2>1, <2>2
  <1>8. reach \in [Rows -> [Collections -> Access]]
        /\ \A r \in new, c \in Collections : reach[r][c] = "none"
    BY <1>3 DEF DataInv, DataTyped, ReachFits
  <1>9. /\ reach' \in [Rows -> [Collections -> Access]]
        /\ \A r \in Rows \ new : reach'[r] = reach[r]
        /\ \A r \in new, c \in Collections : reach'[r][c] # "none" => c \in CollectionsOf(o)
    <2>1. CASE kind = "user"
      <3>1. reach' = SetReach(new, o, given)
        BY <1>2, <1>n, <2>1
      <3> DEFINE have == [c \in Collections |-> IF c \in CollectionsOf(o) THEN given[c] ELSE "none"]
      <3>2. have \in [Collections -> Access] /\ \A c \in Collections : have[c] # "none" => c \in CollectionsOf(o)
        BY DEF Access
      <3>3. reach' = [r \in Rows |-> IF r \in new THEN have ELSE reach[r]]
        BY <3>1 DEF SetReach
      <3> HIDE DEF have
      <3> QED
        BY <1>3, <1>8, <3>2, <3>3
    <2>2. CASE kind # "user"
      BY <1>2, <1>8, <2>2
    <2> QED
      BY <2>1, <2>2
  <1>10. Cardinality(RowsIn(row, o)) + Cardinality(E) <= Seats
    BY <1>2 DEF Seat, RowsOf, RowsIn
  <1>11. new \in SUBSET (Rows \ DOMAIN row)
    BY <1>3
  <1> QED
    BY <1>3, <1>4, <1>5, <1>7, <1>9, <1>10, <1>11

LEMMA InviteFits ==
    ASSUME DataInv, NEW q, InviteMembers(q), run[q].org \in Orgs
    PROVE  DataInv'
  <1> DEFINE o == run[q].org
  <1>1. PICK E \in SUBSET Addresses, new \in SUBSET (Rows \ DOMAIN row) :
              /\ DOMAIN row' = DOMAIN row \cup new
              /\ \A r \in DOMAIN row : row'[r] = row[r]
              /\ \A r \in new : /\ row'[r] \in Row /\ row'[r].status = "invited" /\ row'[r].org = o
                                /\ row'[r].user = None /\ row'[r].email # None
              /\ row' \in [DOMAIN row' -> Row]
              /\ reach' \in [Rows -> [Collections -> Access]]
              /\ \A r \in Rows \ new : reach'[r] = reach[r]
              /\ \A r \in new, c \in Collections : reach'[r][c] # "none" => c \in CollectionsOf(o)
              /\ Cardinality(RowsIn(row, o)) + Cardinality(E) <= Seats
              /\ IsFiniteSet(new) /\ Cardinality(new) <= Cardinality(E)
              /\ Cardinality(E) \in Nat /\ Cardinality(new) \in Nat
    BY Invited
  <1>2. UNCHANGED <<email, gone, org, collection, item, filed>> /\ o \in DOMAIN org
    BY DEF InviteMembers, Managing
  <1>3. DataTyped /\ ItemsFit /\ ReachFits /\ RowsFit /\ CollectionsFit /\ FiledFits /\ Limits(row, DOMAIN org)
    BY DEF DataInv
  <1>4. DataTyped'
    BY <1>1, <1>2, <1>3 DEF DataTyped, IsMap
  <1>5. (ItemsFit /\ CollectionsFit /\ FiledFits)'
    BY <1>2, <1>3 DEF ItemsFit, CollectionsFit, FiledFits, CollectionsOf
  <1>6. ReachFits'
    BY <1>1, <1>2, <1>3 DEF ReachFits, CollectionsOf
  <1>7. RowsFit'
    BY <1>1, <1>2, <1>3 DEF RowsFit, RowFits
  <1>8. IsMap(row, Rows, Row) /\ IsMap(row', Rows, Row)
    BY <1>3, <1>4 DEF DataTyped
  <1>9. \A a \in Accounts : OwnedIn(row', a) = OwnedIn(row, a) /\ \A x \in Orgs : RowOfIn(row', a, x) = RowOfIn(row, a, x)
    BY <1>1, NoneIs DEF OwnedIn, RowOfIn
  <1>10. \A x : x # o => RowsIn(row', x) = RowsIn(row, x)
    BY <1>1 DEF RowsIn
  <1>11. RowsIn(row', o) = RowsIn(row, o) \cup new
    BY <1>1 DEF RowsIn
  <1>12. Cardinality(RowsIn(row', o)) <= Seats
    <2>1. IsFiniteSet(RowsIn(row, o)) /\ Cardinality(RowsIn(row, o)) \in Nat
      BY <1>8, RowsFinite DEF RowsIn
    <2>2. RowsIn(row, o) \cap new = {}
      BY DEF RowsIn
    <2>3. Cardinality(RowsIn(row', o)) = Cardinality(RowsIn(row, o)) + Cardinality(new)
      <3>1. Cardinality(RowsIn(row', o))
               = Cardinality(RowsIn(row, o)) + Cardinality(new) - Cardinality(RowsIn(row, o) \cap new)
        BY <1>1, <1>11, <2>1, FS_Union
      <3>2. Cardinality(RowsIn(row, o) \cap new) = 0
        BY <2>2, FS_EmptySet
      <3> QED
        BY <1>1, <2>1, <3>1, <3>2
    <2> QED
      BY <1>1, <2>1, <2>3, FamilyBounds
  <1>13. Limits(row', DOMAIN org')
    BY <1>2, <1>3, <1>9, <1>10, <1>12 DEF Limits
  <1> QED
    BY <1>4, <1>5, <1>6, <1>7, <1>13 DEF DataInv

(* One more, at most.                                                      *)
LEMMA OneMore ==
    ASSUME NEW S, NEW T, NEW x, IsFiniteSet(S), T \subseteq S \cup {x}, NEW n \in Nat, Cardinality(S) < n
    PROVE  Cardinality(T) <= n
  <1>1. IsFiniteSet(S \cup {x}) /\ Cardinality(S \cup {x}) = IF x \in S THEN Cardinality(S) ELSE Cardinality(S) + 1
    BY FS_AddElement
  <1>2. Cardinality(S) \in Nat
    BY FS_CardinalityType
  <1>3. Cardinality(S \cup {x}) <= n
    BY <1>1, <1>2
  <1> QED
    BY <1>1, <1>3, Fewer

(* One row changes, in the same organisation.                              *)
LEMMA ChangedRow ==
    ASSUME NEW rows, NEW next, NEW O, NEW r \in DOMAIN rows, IsMap(rows, Rows, Row), IsMap(next, Rows, Row),
           Limits(rows, O), DOMAIN next = DOMAIN rows, \A x \in DOMAIN rows \ {r} : next[x] = rows[x],
           next[r].org = rows[r].org,
           next[r].user = rows[r].user \/ RowOfIn(rows, next[r].user, next[r].org) = {},
           (next[r].kind = "owner" /\ next[r].status = "confirmed")
              => \/ r \in OwnedIn(rows, next[r].user)
                 \/ Cardinality(OwnedIn(rows, next[r].user)) < MostOwned
    PROVE  Limits(next, O)
  <1>1. \A o : RowsIn(next, o) = RowsIn(rows, o)
    BY DEF RowsIn
  <1>2. ASSUME NEW a \in Accounts PROVE Cardinality(OwnedIn(next, a)) <= MostOwned
    <2>1. IsFiniteSet(OwnedIn(rows, a)) /\ Cardinality(OwnedIn(rows, a)) <= MostOwned /\ MostOwned \in Nat
      BY RowsFinite, FamilyBounds DEF OwnedIn, Limits
    <2>2. CASE OwnedIn(next, a) \subseteq OwnedIn(rows, a)
      BY <2>1, <2>2, Fewer
    <2>3. CASE ~(OwnedIn(next, a) \subseteq OwnedIn(rows, a))
      <3>1. r \in OwnedIn(next, a) /\ r \notin OwnedIn(rows, a) /\ OwnedIn(next, a) \subseteq OwnedIn(rows, a) \cup {r}
        BY <2>3 DEF OwnedIn
      <3>2. Cardinality(OwnedIn(rows, a)) < MostOwned
        BY <3>1 DEF OwnedIn
      <3> QED
        BY <2>1, <3>1, <3>2, OneMore
    <2> QED
      BY <2>2, <2>3
  <1>3. Single(rows)
    BY OneRowIs DEF Limits
  <1>4. Single(next)
    <2> SUFFICES ASSUME NEW q \in DOMAIN next, NEW x \in DOMAIN next, next[q].user \in Accounts,
                        next[q].user = next[x].user, next[q].org = next[x].org, q # x
                 PROVE  FALSE
      BY DEF Single
    <2>1. CASE q # r /\ x # r
      BY <1>3, <2>1 DEF Single
    <2>2. ASSUME NEW y \in DOMAIN rows, y # r, next[y].user = next[r].user, next[y].org = next[r].org,
                 next[r].user \in Accounts
          PROVE  FALSE
      <3>1. y \in RowOfIn(rows, next[r].user, next[r].org)
        BY <2>2 DEF RowOfIn
      <3> QED
        BY <1>3, <2>2, <3>1 DEF Single
    <2> QED
      BY <2>1, <2>2
  <1>5. \A a \in Accounts, o \in Orgs : Cardinality(RowOfIn(next, a, o)) <= 1
    BY <1>4, OneRowIs
  <1> QED
    BY <1>1, <1>2, <1>5 DEF Limits

(* A row in an organisation of its own.                                    *)
LEMMA AddedRow ==
    ASSUME NEW rows, NEW next, NEW O, NEW o, NEW r \in Rows, IsMap(rows, Rows, Row), IsMap(next, Rows, Row),
           Limits(rows, O), r \notin DOMAIN rows, DOMAIN next = DOMAIN rows \cup {r},
           \A x \in DOMAIN rows : next[x] = rows[x] /\ rows[x].org # o, next[r].org = o,
           Cardinality(OwnedIn(rows, next[r].user)) < MostOwned
    PROVE  Limits(next, O \cup {o})
  <1>1. \A x \in O \ {o} : RowsIn(next, x) = RowsIn(rows, x)
    BY DEF RowsIn
  <1>2. RowsIn(next, o) = {r}
    BY DEF RowsIn
  <1>3. Cardinality({r}) = 1 /\ 1 <= Seats
    <2>1. 1 <= Seats
      BY FamilyBounds
    <2> QED
      BY <2>1, FS_Singleton
  <1>4. ASSUME NEW a \in Accounts PROVE Cardinality(OwnedIn(next, a)) <= MostOwned
    <2>1. IsFiniteSet(OwnedIn(rows, a)) /\ Cardinality(OwnedIn(rows, a)) <= MostOwned /\ MostOwned \in Nat
      BY RowsFinite, FamilyBounds DEF OwnedIn, Limits
    <2>2. CASE a = next[r].user
      <3>1. OwnedIn(next, a) \subseteq OwnedIn(rows, a) \cup {r}
        BY DEF OwnedIn
      <3> QED
        BY <2>1, <2>2, <3>1, OneMore
    <2>3. CASE a # next[r].user
      <3>1. OwnedIn(next, a) = OwnedIn(rows, a)
        BY <2>3 DEF OwnedIn
      <3> QED
        BY <2>1, <3>1
    <2> QED
      BY <2>2, <2>3
  <1>5. Single(rows)
    BY OneRowIs DEF Limits
  <1>6. Single(next)
    BY <1>5 DEF Single
  <1>7. \A a \in Accounts, x \in Orgs : Cardinality(RowOfIn(next, a, x)) <= 1
    BY <1>6, OneRowIs
  <1> QED
    BY <1>1, <1>2, <1>3, <1>4, <1>7 DEF Limits

LEMMA SameOwned == \A a : Owned(a) = OwnedIn(row, a)
  BY DEF Owned, OwnedIn

LEMMA RowStatus ==
    ASSUME NEW v \in Row, NEW s \in Statuses, NEW w, w = [v EXCEPT !.status = s]
    PROVE  /\ w \in Row /\ w.status = s /\ w.org = v.org /\ w.user = v.user /\ w.kind = v.kind
           /\ w.email = v.email
  BY DEF Row

LEMMA RowKind ==
    ASSUME NEW v \in Row, NEW k \in Kinds, NEW w, w = [v EXCEPT !.kind = k]
    PROVE  /\ w \in Row /\ w.kind = k /\ w.org = v.org /\ w.user = v.user /\ w.status = v.status
           /\ w.email = v.email
  BY DEF Row

LEMMA ConfirmFits ==
    ASSUME DataInv, NEW q, ConfirmMember(q)
    PROVE  /\ DataInv'
           /\ \E r \in DOMAIN row : /\ row[r].status = "accepted" /\ row[r].org = run[q].org
                                    /\ row' = [row EXCEPT ![r].status = "confirmed"]
                                    /\ moved' = MemberUsers(row', run[q].org) \cap DOMAIN email
  <1>1. PICK r \in RowsOf(run[q].org) :
           /\ row[r].status = "accepted"
           /\ row[r].kind = "owner" => MayOwn(row[r].user)
           /\ LET rows == [row EXCEPT ![r].status = "confirmed"] IN row' = rows /\ BumpOrg(rows, run[q].org)
    BY DEF ConfirmMember
  <1>2. UNCHANGED <<email, gone, org, reach, collection, item, filed>>
    BY DEF ConfirmMember
  <1>3. DataTyped /\ ItemsFit /\ ReachFits /\ RowsFit /\ CollectionsFit /\ FiledFits /\ Limits(row, DOMAIN org)
        /\ IsMap(row, Rows, Row)
    BY DEF DataInv, DataTyped
  <1>4. r \in DOMAIN row /\ row[r].org = run[q].org /\ row[r] \in Row
        /\ DOMAIN row[r] = {"status", "org", "user", "email", "kind"}
    BY <1>1, <1>3, RowIs DEF RowsOf
  <1>6. PICK v \in Row : /\ v = [row[r] EXCEPT !.status = "confirmed"] /\ v.status = "confirmed"
                         /\ v.org = row[r].org /\ v.user = row[r].user /\ v.kind = row[r].kind /\ v.email = row[r].email
    <2> DEFINE w == [row[r] EXCEPT !.status = "confirmed"]
    <2>1. /\ w \in Row /\ w.status = "confirmed" /\ w.org = row[r].org /\ w.user = row[r].user
          /\ w.kind = row[r].kind /\ w.email = row[r].email
      BY <1>4, RowStatus DEF Statuses
    <2> HIDE DEF w
    <2> QED
      BY <2>1 DEF w
  <1>7. /\ IsMap(row', Rows, Row) /\ DOMAIN row' = DOMAIN row /\ row'[r] = v
        /\ \A x \in DOMAIN row \ {r} : row'[x] = row[x]
    <2>1. row' = [row EXCEPT ![r] = v]
      BY <1>1, <1>6
    <2> QED
      BY <1>3, <1>4, <2>1, ExceptMap
  <1>8. DataTyped'
    BY <1>2, <1>3, <1>7 DEF DataTyped
  <1>9. (ItemsFit /\ CollectionsFit /\ FiledFits)'
    BY <1>2, <1>3 DEF ItemsFit, CollectionsFit, FiledFits, CollectionsOf
  <1>10. ReachFits'
    BY <1>2, <1>3, <1>4, <1>6, <1>7 DEF ReachFits, CollectionsOf
  <1>11. RowsFit'
    BY <1>1, <1>2, <1>3, <1>4, <1>6, <1>7 DEF RowsFit, RowFits
  <1>12. v.kind = "owner" => Cardinality(OwnedIn(row, v.user)) < MostOwned
    BY <1>1, <1>6, SameOwned DEF MayOwn
  <1>13. Limits(row', DOMAIN org')
    BY <1>2, <1>3, <1>4, <1>6, <1>7, <1>12, ChangedRow
  <1> QED
    BY <1>1, <1>4, <1>8, <1>9, <1>10, <1>11, <1>13 DEF DataInv, BumpOrg, Bump

LEMMA UpdateFits ==
    ASSUME DataInv, NEW q, UpdateMember(q)
    PROVE  /\ DataInv'
           /\ \E r \in DOMAIN row, kind \in Kinds :
                 /\ row[r].org = run[q].org
                 /\ (row[r].kind = "owner" /\ kind # "owner") => OtherOwners(r) # {}
                 /\ row' = [row EXCEPT ![r].kind = kind]
                 /\ \A x \in Rows \ {r} : reach'[x] = reach[x]
                 /\ moved' = (MemberUsers(row, run[q].org) \cup {row[r].user}) \cap DOMAIN email
  <1>1. PICK r \in RowsOf(run[q].org), kind \in Kinds :
          /\ (row[r].kind = "owner" /\ kind # "owner") => OtherOwners(r) # {}
          /\ (row[r].kind # "owner" /\ kind = "owner" /\ row[r].user # None) => MayOwn(row[r].user)
          /\ row' = [row EXCEPT ![r].kind = kind]
          /\ \/ UNCHANGED reach
             \/ \E given \in [Collections -> Access] : reach' = SetReach({r}, run[q].org, given)
          /\ Bump(MemberUsers(row, run[q].org) \cup {row[r].user})
    BY DEF UpdateMember
  <1>2. UNCHANGED <<email, gone, org, collection, item, filed>>
    BY DEF UpdateMember
  <1>3. DataTyped /\ ItemsFit /\ ReachFits /\ RowsFit /\ CollectionsFit /\ FiledFits /\ Limits(row, DOMAIN org)
        /\ IsMap(row, Rows, Row)
    BY DEF DataInv, DataTyped
  <1>4. r \in DOMAIN row /\ r \in Rows /\ row[r].org = run[q].org /\ row[r] \in Row
    BY <1>1, <1>3, RowIs DEF RowsOf
  <1>6. PICK v \in Row : /\ v = [row[r] EXCEPT !.kind = kind] /\ v.kind = kind
                         /\ v.org = row[r].org /\ v.user = row[r].user /\ v.status = row[r].status
                         /\ v.email = row[r].email
    <2> DEFINE w == [row[r] EXCEPT !.kind = kind]
    <2>1. /\ w \in Row /\ w.kind = kind /\ w.org = row[r].org /\ w.user = row[r].user
          /\ w.status = row[r].status /\ w.email = row[r].email
      BY <1>1, <1>4, RowKind
    <2> HIDE DEF w
    <2> QED
      BY <2>1 DEF w
  <1>7. /\ IsMap(row', Rows, Row) /\ DOMAIN row' = DOMAIN row /\ row'[r] = v
        /\ \A x \in DOMAIN row \ {r} : row'[x] = row[x]
    <2>1. row' = [row EXCEPT ![r] = v]
      BY <1>1, <1>6
    <2> QED
      BY <1>3, <1>4, <2>1, ExceptMap
  <1> DEFINE Given(f) == /\ f \in [Rows -> [Collections -> Access]]
                         /\ \A x \in Rows \ {r} : f[x] = reach[x]
                         /\ \A c \in Collections : f[r][c] # "none" => c \in CollectionsOf(run[q].org)
  <1>8. Given(reach')
    <2>1. reach \in [Rows -> [Collections -> Access]]
          /\ \A c \in Collections : reach[r][c] # "none" => c \in CollectionsOf(run[q].org)
      BY <1>3, <1>4 DEF DataTyped, ReachFits
    <2>2. CASE UNCHANGED reach
      BY <2>1, <2>2
    <2>3. ASSUME NEW given \in [Collections -> Access], reach' = SetReach({r}, run[q].org, given)
          PROVE  Given(reach')
      <3> DEFINE have == [c \in Collections |-> IF c \in CollectionsOf(run[q].org) THEN given[c] ELSE "none"]
      <3>1. have \in [Collections -> Access]
            /\ \A c \in Collections : have[c] # "none" => c \in CollectionsOf(run[q].org)
        BY DEF Access
      <3>2. reach' = [x \in Rows |-> IF x \in {r} THEN have ELSE reach[x]]
        BY <2>3 DEF SetReach
      <3> HIDE DEF have
      <3> QED
        BY <1>4, <2>1, <3>1, <3>2
    <2> QED
      BY <1>1, <2>2, <2>3
  <1>9. DataTyped'
    BY <1>2, <1>3, <1>7, <1>8 DEF DataTyped
  <1>10. (ItemsFit /\ CollectionsFit /\ FiledFits)'
    BY <1>2, <1>3 DEF ItemsFit, CollectionsFit, FiledFits, CollectionsOf
  <1>11. ReachFits'
    <2>1. \A x : CollectionsOf(x)' = CollectionsOf(x)
      BY <1>2 DEF CollectionsOf
    <2>2. \A x \in DOMAIN row : row'[x].org = row[x].org
      BY <1>6, <1>7
    <2> QED
      BY <1>3, <1>4, <1>7, <1>8, <2>1, <2>2 DEF ReachFits
  <1>12. RowsFit'
    <2>1. \A x \in DOMAIN row : /\ row'[x].org = row[x].org /\ row'[x].status = row[x].status
                                /\ row'[x].user = row[x].user /\ row'[x].email = row[x].email
      BY <1>6, <1>7
    <2> QED
      BY <1>2, <1>3, <1>7, <2>1 DEF RowsFit, RowFits
  <1>13. (v.kind = "owner" /\ v.status = "confirmed")
            => r \in OwnedIn(row, v.user) \/ Cardinality(OwnedIn(row, v.user)) < MostOwned
    <2> SUFFICES ASSUME v.kind = "owner", v.status = "confirmed"
                 PROVE  r \in OwnedIn(row, v.user) \/ Cardinality(OwnedIn(row, v.user)) < MostOwned
      OBVIOUS
    <2>1. CASE row[r].kind = "owner"
      BY <1>4, <1>6, <2>1 DEF OwnedIn
    <2>2. CASE row[r].kind # "owner"
      <3>1. row[r].user # None
        BY <1>3, <1>4, <1>6, NoneIs DEF RowsFit, RowFits, DataTyped, IsMap
      <3> QED
        BY <1>1, <1>6, <2>2, <3>1, SameOwned DEF MayOwn
    <2> QED
      BY <2>1, <2>2
  <1>14. Limits(row', DOMAIN org')
    BY <1>2, <1>3, <1>4, <1>6, <1>7, <1>13, ChangedRow
  <1>15. DataInv'
    BY <1>9, <1>10, <1>11, <1>12, <1>14 DEF DataInv
  <1> QED
    BY <1>1, <1>4, <1>8, <1>15 DEF Bump

LEMMA AcceptFits ==
    ASSUME DataInv, NEW q, AcceptMember(q)
    PROVE  /\ DataInv' /\ run[q].who \in DOMAIN email
           /\ \E r \in DOMAIN row :
                 /\ row[r].status = "invited"
                 /\ row' = [row EXCEPT ![r].status = "accepted", ![r].user = run[q].who, ![r].email = None]
                 /\ moved' = {run[q].who} \cap DOMAIN email
  <1> DEFINE a == run[q].who
  <1>1. PICK r \in DOMAIN row :
          /\ row[r].status = "invited" /\ row[r].email = run[q].email
          /\ ~In(a, row[r].org)
          /\ row' = [row EXCEPT ![r].status = "accepted", ![r].user = a, ![r].email = None]
    BY DEF AcceptMember
  <1>2. UNCHANGED <<email, gone, org, reach, collection, item, filed>> /\ a \in DOMAIN email /\ Bump({a})
    BY DEF AcceptMember
  <1>3. DataTyped /\ ItemsFit /\ ReachFits /\ RowsFit /\ CollectionsFit /\ FiledFits /\ Limits(row, DOMAIN org)
        /\ IsMap(row, Rows, Row) /\ a \in Accounts
    BY <1>2 DEF DataInv, DataTyped, IsMap
  <1>4. r \in Rows /\ row[r] \in Row
    BY <1>3, RowIs
  <1>5. PICK v \in Row : /\ v = [row[r] EXCEPT !.status = "accepted", !.user = a, !.email = None]
                         /\ v.status = "accepted" /\ v.org = row[r].org /\ v.user = a /\ v.kind = row[r].kind
                         /\ v.email = None
    <2>1. PICK u \in Row, b \in Accounts : u = row[r] /\ b = a
      BY <1>3, <1>4
    <2>2. PICK w : w = [u EXCEPT !.status = "accepted", !.user = b, !.email = None]
      OBVIOUS
    <2>3. /\ w \in Row /\ w.status = "accepted" /\ w.org = u.org /\ w.user = b /\ w.kind = u.kind
          /\ w.email = None
      BY <2>2 DEF Row, Statuses
    <2> QED
      BY <2>1, <2>2, <2>3
  <1>7. /\ IsMap(row', Rows, Row) /\ DOMAIN row' = DOMAIN row /\ row'[r] = v
        /\ \A x \in DOMAIN row \ {r} : row'[x] = row[x]
    <2>1. row' = [row EXCEPT ![r] = v]
      BY <1>1, <1>5
    <2> QED
      BY <1>3, <2>1, ExceptMap
  <1>8. DataTyped'
    BY <1>2, <1>3, <1>7 DEF DataTyped
  <1>9. (ItemsFit /\ CollectionsFit /\ FiledFits)'
    BY <1>2, <1>3 DEF ItemsFit, CollectionsFit, FiledFits, CollectionsOf
  <1>10. ReachFits'
    <2>1. \A x : CollectionsOf(x)' = CollectionsOf(x)
      BY <1>2 DEF CollectionsOf
    <2>2. \A x \in DOMAIN row : row'[x].org = row[x].org
      BY <1>5, <1>7
    <2> QED
      BY <1>2, <1>3, <1>7, <2>1, <2>2 DEF ReachFits
  <1>11. RowsFit'
    BY <1>1, <1>2, <1>3, <1>4, <1>5, <1>7 DEF RowsFit, RowFits
  <1>12. RowOfIn(row, v.user, v.org) = {}
    BY <1>1, <1>5 DEF In, RowOf, RowsOf, RowOfIn
  <1>13. Limits(row', DOMAIN org')
    BY <1>2, <1>3, <1>5, <1>7, <1>12, ChangedRow
  <1>14. DataInv'
    BY <1>8, <1>9, <1>10, <1>11, <1>13 DEF DataInv
  <1> QED
    BY <1>1, <1>2, <1>14 DEF Bump

LEMMA CreateFits ==
    ASSUME DataInv, NEW a \in Accounts, CreateOrganization(a)
    PROVE  /\ DataInv'
           /\ \E o \in Orgs \ DOMAIN org, r \in Rows \ DOMAIN row :
                 /\ org' = With(org, o, FALSE)
                 /\ DOMAIN row' = DOMAIN row \cup {r} /\ row'[r].user = a
                 /\ \A x \in DOMAIN row : row'[x] = row[x]
                 /\ DOMAIN collection \subseteq DOMAIN collection'
                 /\ \A c \in DOMAIN collection : collection'[c] = collection[c]
                 /\ \A c \in DOMAIN collection' \ DOMAIN collection : collection'[c].org = o
  <1>1. PICK o \in New(Orgs, org) : \E r \in Lowest(New(Rows, row)) :
          /\ org' = With(org, o, FALSE)
          /\ row' = With(row, r, [status |-> "confirmed", org |-> o, user |-> a, email |-> None, kind |-> "owner"])
          /\ \/ UNCHANGED collection
             \/ \E c \in New(Collections, collection) :
                   collection' = With(collection, c, [org |-> o, name |-> FALSE])
    BY DEF CreateOrganization
  <1>2. PICK r \in Lowest(New(Rows, row)) :
          /\ org' = With(org, o, FALSE)
          /\ row' = With(row, r, [status |-> "confirmed", org |-> o, user |-> a, email |-> None, kind |-> "owner"])
          /\ \/ UNCHANGED collection
             \/ \E c \in New(Collections, collection) :
                   collection' = With(collection, c, [org |-> o, name |-> FALSE])
    BY <1>1
  <1>3. /\ UNCHANGED <<email, gone, reach, item, filed, run>> /\ a \in DOMAIN email /\ MayOwn(a)
    BY DEF CreateOrganization
  <1>4. DataTyped /\ ItemsFit /\ ReachFits /\ RowsFit /\ CollectionsFit /\ FiledFits /\ Limits(row, DOMAIN org)
        /\ IsMap(row, Rows, Row) /\ IsMap(org, Orgs, BOOLEAN)
        /\ IsMap(collection, Collections, [org : Orgs, name : BOOLEAN])
    BY DEF DataInv, DataTyped
  <1>5. o \in Orgs /\ o \notin DOMAIN org /\ r \in Rows /\ r \notin DOMAIN row
    BY <1>1, <1>2 DEF New, Lowest
  <1>6. PICK v \in Row : v = [status |-> "confirmed", org |-> o, user |-> a, email |-> None, kind |-> "owner"]
    BY <1>5 DEF Row, Statuses, Kinds
  <1>7. IsMap(org', Orgs, BOOLEAN) /\ DOMAIN org' = DOMAIN org \cup {o}
    <2>1. DOMAIN org' = DOMAIN org \cup {o}
      BY <1>2 DEF With
    <2> QED
      BY <1>2, <1>4, <1>5, <2>1, WithMap
  <1>8. /\ IsMap(row', Rows, Row) /\ DOMAIN row' = DOMAIN row \cup {r} /\ row'[r] = v
        /\ \A x \in DOMAIN row : row'[x] = row[x]
    <2>1. row' = With(row, r, v)
      BY <1>2, <1>6
    <2>2. IsMap(row', Rows, Row)
      BY <1>4, <1>5, <2>1, WithMap
    <2> QED
      BY <1>5, <2>1, <2>2 DEF With
  <1> DEFINE Added(f) == /\ IsMap(f, Collections, [org : Orgs, name : BOOLEAN])
                         /\ DOMAIN collection \subseteq DOMAIN f
                         /\ \A c \in DOMAIN collection : f[c] = collection[c]
                         /\ \A c \in DOMAIN f \ DOMAIN collection : f[c].org = o
  <1>9. Added(collection')
    <2>1. CASE UNCHANGED collection
      BY <1>4, <2>1
    <2>2. ASSUME NEW c \in New(Collections, collection), collection' = With(collection, c, [org |-> o, name |-> FALSE])
          PROVE  Added(collection')
      <3>1. c \in Collections /\ c \notin DOMAIN collection
        BY <2>2 DEF New
      <3>2. [org |-> o, name |-> FALSE] \in [org : Orgs, name : BOOLEAN] /\ [org |-> o, name |-> FALSE].org = o
        BY <1>5
      <3>3. PICK w : w = [org |-> o, name |-> FALSE]
        OBVIOUS
      <3>4. collection' = With(collection, c, w) /\ w \in [org : Orgs, name : BOOLEAN] /\ w.org = o
        BY <2>2, <3>2, <3>3
      <3>5. IsMap(collection', Collections, [org : Orgs, name : BOOLEAN])
        BY <1>4, <3>1, <3>4, WithMap
      <3> QED
        BY <3>1, <3>4, <3>5 DEF With
    <2> QED
      BY <1>2, <2>1, <2>2
  <1>10. DataTyped'
    BY <1>3, <1>4, <1>7, <1>8, <1>9 DEF DataTyped
  <1>11. \A x \in DOMAIN org : CollectionsOf(x)' = CollectionsOf(x)
    BY <1>5, <1>9 DEF CollectionsOf
  <1>12. ItemsFit'
    BY <1>3, <1>4, <1>7, <1>11 DEF ItemsFit
  <1>13. CollectionsFit' /\ FiledFits'
    BY <1>3, <1>4, <1>7, <1>9 DEF CollectionsFit, FiledFits
  <1>14. ReachFits'
    <2>1. \A x \in DOMAIN row : row[x].org \in DOMAIN org
      BY <1>4 DEF RowsFit, RowFits
    <2> QED
      BY <1>3, <1>4, <1>8, <1>11, <2>1 DEF ReachFits
  <1>15. RowsFit'
    BY <1>3, <1>4, <1>6, <1>7, <1>8 DEF RowsFit, RowFits
  <1>16. Limits(row', DOMAIN org')
    <2>1. \A x \in DOMAIN row : row'[x] = row[x] /\ row[x].org # o
      BY <1>4, <1>5, <1>8 DEF RowsFit, RowFits
    <2>2. Cardinality(OwnedIn(row, row'[r].user)) < MostOwned /\ row'[r].org = o
      BY <1>3, <1>6, <1>8, SameOwned DEF MayOwn
    <2> QED
      <3>1. Limits(row', DOMAIN org \cup {o})
        BY <1>4, <1>5, <1>8, <2>1, <2>2, AddedRow
      <3> QED
        BY <1>7, <3>1
  <1>17. DataInv'
    BY <1>10, <1>12, <1>13, <1>14, <1>15, <1>16 DEF DataInv
  <1>18. row'[r].user = a
    BY <1>6, <1>8
  <1> QED
    BY <1>2, <1>5, <1>8, <1>9, <1>17, <1>18

(* Rows that go, with what they reach.                                     *)
LEMMA RowsGo ==
    ASSUME DataInv, NEW R \in SUBSET DOMAIN row, row' = Without(row, R), reach' = Unreached(R, {}),
           gone' = gone \cup R, UNCHANGED <<email, org, collection, item>>, filed' \subseteq filed
    PROVE  DataInv'
  <1>1. DataTyped /\ ItemsFit /\ ReachFits /\ RowsFit /\ CollectionsFit /\ FiledFits /\ Limits(row, DOMAIN org)
        /\ IsMap(row, Rows, Row)
    BY DEF DataInv, DataTyped
  <1>2. DOMAIN row' = DOMAIN row \ R /\ \A r \in DOMAIN row' : row'[r] = row[r]
    BY DEF Without
  <1>3. IsMap(row', Rows, Row)
    BY <1>1, WithoutMap
  <1>4. /\ reach' \in [Rows -> [Collections -> Access]]
        /\ \A r \in Rows \ R : reach'[r] = reach[r]
        /\ \A r \in R, c \in Collections : reach'[r][c] = "none"
    <2>1. reach \in [Rows -> [Collections -> Access]] /\ R \subseteq Rows
      BY <1>1 DEF DataTyped, IsMap
    <2>2. reach' = [r \in Rows |-> IF r \in R THEN [c \in Collections |-> "none"]
                                   ELSE [c \in Collections |-> reach[r][c]]]
      BY DEF Unreached
    <2>3. \A r \in Rows : [c \in Collections |-> reach[r][c]] = reach[r]
      BY <2>1
    <2> QED
      BY <2>1, <2>2, <2>3 DEF Access
  <1>5. gone' \subseteq Accounts \cup Orgs \cup Collections \cup Items \cup Rows
    BY <1>1 DEF DataTyped, IsMap
  <1>6. DataTyped'
    BY <1>1, <1>3, <1>4, <1>5 DEF DataTyped
  <1>7. (ItemsFit /\ CollectionsFit /\ FiledFits)'
    BY <1>1 DEF ItemsFit, CollectionsFit, FiledFits, CollectionsOf
  <1>8. ReachFits'
    BY <1>1, <1>2, <1>4 DEF ReachFits, CollectionsOf
  <1>9. RowsFit'
    BY <1>1, <1>2 DEF RowsFit, RowFits
  <1>10. Limits(row', DOMAIN org')
    BY <1>1, <1>2, FewerRows
  <1> QED
    BY <1>6, <1>7, <1>8, <1>9, <1>10 DEF DataInv

LEMMA RemoveFits ==
    ASSUME DataInv, NEW r \in DOMAIN row, Remove(r)
    PROVE  DataInv'
  <1>1. {r} \in SUBSET DOMAIN row
    OBVIOUS
  <1> QED
    BY <1>1, RowsGo DEF Remove

LEMMA LeaveFits ==
    ASSUME DataInv, NEW a, LeaveOrganizations(a)
    PROVE  DataInv'
  <1>1. PICK R \in SUBSET DOMAIN row : R = {r \in DOMAIN row : row[r].user = a /\ row[r].kind # "owner"}
    OBVIOUS
  <1>2. row' = Without(row, R) /\ reach' = Unreached(R, {}) /\ gone' = gone \cup R
        /\ UNCHANGED <<email, org, collection, item, filed>>
    BY <1>1 DEF LeaveOrganizations
  <1> QED
    BY <1>2, RowsGo

(* What a cascade leaves.                                                  *)
OrgsGo(O) == DOMAIN org' = DOMAIN org \ O /\ \A o \in DOMAIN org' : org'[o] = org[o]
AccountsGo(A) == DOMAIN email' = DOMAIN email \ A /\ \A a \in DOMAIN email' : email'[a] = email[a]
RowsGone(O, A) ==
    /\ DOMAIN row' = {r \in DOMAIN row : row[r].org \notin O /\ row[r].user \notin A}
    /\ \A r \in DOMAIN row' : row'[r] = row[r]
CollectionsGo(O) ==
    /\ DOMAIN collection' = {c \in DOMAIN collection : collection[c].org \notin O}
    /\ \A c \in DOMAIN collection' : collection'[c] = collection[c]
ItemsGo(O, A) ==
    /\ DOMAIN item' = {i \in DOMAIN item : item[i].of \notin O /\ item[i].of \notin A}
    /\ \A i \in DOMAIN item' : item'[i] = item[i]
FiledGo(O, A) ==
    \A p : p \in filed' <=> /\ p \in filed /\ p[2] \notin A
                            /\ ~(p[1] \in DOMAIN item /\ item[p[1]].of \in O \cup A)
ReachGoes(O, A) ==
    reach' = [r \in Rows |-> [c \in Collections |->
                IF \/ r \in DOMAIN row /\ (row[r].org \in O \/ row[r].user \in A)
                   \/ c \in DOMAIN collection /\ collection[c].org \in O
                THEN "none" ELSE reach[r][c]]]

LEMMA CascadeLeaves ==
    ASSUME NEW O, NEW A, Cascade(O, A)
    PROVE  /\ OrgsGo(O) /\ AccountsGo(A) /\ RowsGone(O, A) /\ CollectionsGo(O) /\ ItemsGo(O, A)
           /\ FiledGo(O, A) /\ ReachGoes(O, A)
           /\ gone' \subseteq gone \cup O \cup A \cup DOMAIN row \cup DOMAIN collection \cup DOMAIN item
           /\ DOMAIN item \ DOMAIN item' \subseteq gone' /\ gone \subseteq gone'
  <1>1. OrgsGo(O)
    BY DEF Cascade, Without, OrgsGo
  <1>2. AccountsGo(A)
    BY DEF Cascade, Without, AccountsGo
  <1>3. RowsGone(O, A)
    BY DEF Cascade, Without, RowsGone
  <1>4. CollectionsGo(O)
    BY DEF Cascade, Without, CollectionsGo
  <1>5. ItemsGo(O, A)
    BY DEF Cascade, Without, ItemsGo
  <1>6. FiledGo(O, A)
    BY DEF Cascade, Unfiled, FiledGo
  <1>7. ReachGoes(O, A)
    <2>1. PICK R, C : R = {x \in DOMAIN row : row[x].org \in O \/ row[x].user \in A}
                      /\ C = {x \in DOMAIN collection : collection[x].org \in O}
      OBVIOUS
    <2>2. reach' = Unreached(R, C)
      BY <2>1 DEF Cascade
    <2>3. reach' = [r \in Rows |-> IF r \in R THEN [c \in Collections |-> "none"]
                                   ELSE [c \in Collections |-> IF c \in C THEN "none" ELSE reach[r][c]]]
      BY <2>2 DEF Unreached
    <2>4. ASSUME NEW r \in Rows
          PROVE  reach'[r] = [c \in Collections |->
                                IF \/ r \in DOMAIN row /\ (row[r].org \in O \/ row[r].user \in A)
                                   \/ c \in DOMAIN collection /\ collection[c].org \in O
                                THEN "none" ELSE reach[r][c]]
      BY <2>1, <2>3
    <2> QED
      BY <2>3, <2>4 DEF ReachGoes
  <1>8. gone' \subseteq gone \cup O \cup A \cup DOMAIN row \cup DOMAIN collection \cup DOMAIN item
        /\ gone \subseteq gone'
    BY DEF Cascade
  <1>9. DOMAIN item \ DOMAIN item' \subseteq gone'
    BY <1>5 DEF Cascade, ItemsGo
  <1> QED
    BY <1>1, <1>2, <1>3, <1>4, <1>5, <1>6, <1>7, <1>8, <1>9

LEMMA CascadeFits ==
    ASSUME DataInv, NEW O \in SUBSET DOMAIN org, NEW A \in SUBSET DOMAIN email, Cascade(O, A)
    PROVE  DataInv'
  <1>1. DataTyped /\ ItemsFit /\ ReachFits /\ RowsFit /\ CollectionsFit /\ FiledFits /\ Limits(row, DOMAIN org)
        /\ IsMap(row, Rows, Row) /\ A \in SUBSET Accounts /\ O \in SUBSET Orgs
    BY DEF DataInv, DataTyped, IsMap
  <1>2. /\ IsMap(email', Accounts, Addresses) /\ IsMap(org', Orgs, BOOLEAN) /\ IsMap(row', Rows, Row)
        /\ IsMap(collection', Collections, [org : Orgs, name : BOOLEAN]) /\ IsMap(item', Items, Item)
    BY <1>1, WithoutMap DEF Cascade, DataTyped
  <1>c. /\ OrgsGo(O) /\ AccountsGo(A) /\ RowsGone(O, A) /\ CollectionsGo(O) /\ ItemsGo(O, A)
        /\ FiledGo(O, A) /\ ReachGoes(O, A)
        /\ gone' \subseteq gone \cup O \cup A \cup DOMAIN row \cup DOMAIN collection \cup DOMAIN item
    BY CascadeLeaves
  <1>3. reach' \in [Rows -> [Collections -> Access]]
    <2>1. reach \in [Rows -> [Collections -> Access]]
      BY <1>1 DEF DataTyped
    <2> QED
      BY <1>c, <2>1 DEF ReachGoes, Access
  <1>4. filed' \subseteq Items \X Accounts
    BY <1>1, <1>c DEF DataTyped, FiledGo
  <1>5. gone' \subseteq Accounts \cup Orgs \cup Collections \cup Items \cup Rows
    BY <1>1, <1>c DEF DataTyped, IsMap
  <1>6. DataTyped'
    BY <1>2, <1>3, <1>4, <1>5 DEF DataTyped
  <1>7. \A o : o \notin O => CollectionsOf(o)' = CollectionsOf(o)
    BY <1>c DEF CollectionsOf, CollectionsGo
  <1>8. ItemsFit'
    BY <1>1, <1>7, <1>c DEF ItemsFit, ItemsGo, OrgsGo, AccountsGo
  <1>9. CollectionsFit'
    BY <1>1, <1>c DEF CollectionsFit, CollectionsGo, OrgsGo
  <1>10. FiledFits'
    BY <1>1, <1>c DEF FiledFits, FiledGo, ItemsGo, AccountsGo
  <1>11. RowsFit'
    BY <1>1, <1>c DEF RowsFit, RowFits, RowsGone, OrgsGo, AccountsGo
  <1>12. ReachFits'
    <2> SUFFICES ASSUME NEW r \in Rows, NEW c \in Collections, reach'[r][c] # "none"
                 PROVE  r \in DOMAIN row' /\ c \in DOMAIN collection' /\ collection'[c].org = row'[r].org
      BY DEF ReachFits, CollectionsOf
    <2>1. /\ reach'[r][c] = reach[r][c] /\ ~(r \in DOMAIN row /\ (row[r].org \in O \/ row[r].user \in A))
          /\ ~(c \in DOMAIN collection /\ collection[c].org \in O)
      BY <1>c DEF ReachGoes
    <2>2. r \in DOMAIN row /\ c \in DOMAIN collection /\ collection[c].org = row[r].org
      BY <1>1, <2>1 DEF ReachFits, CollectionsOf
    <2> QED
      BY <1>c, <2>1, <2>2 DEF RowsGone, CollectionsGo
  <1>13. Limits(row', DOMAIN org')
    <2>1. DOMAIN row' \subseteq DOMAIN row /\ (\A r \in DOMAIN row' : row'[r] = row[r])
          /\ DOMAIN org' \in SUBSET DOMAIN org
      BY <1>c DEF RowsGone, OrgsGo
    <2> QED
      BY <1>1, <2>1, FewerRows
  <1> QED
    BY <1>6, <1>8, <1>9, <1>10, <1>11, <1>12, <1>13 DEF DataInv

LEMMA RenameFits ==
    ASSUME DataInv, NEW q, RenameOrganization(q)
    PROVE  DataInv' /\ DOMAIN org' = DOMAIN org /\ \A o \in DOMAIN org \ {run[q].org} : org'[o] = org[o]
  <1>1. UNCHANGED <<email, gone, row, reach, collection, item, filed>>
        /\ run[q].org \in DOMAIN org /\ org' = [org EXCEPT ![run[q].org] = ~@]
    BY DEF RenameOrganization, Managing
  <1>2. DataTyped /\ ItemsFit /\ ReachFits /\ RowsFit /\ CollectionsFit /\ FiledFits /\ Limits(row, DOMAIN org)
    BY DEF DataInv
  <1>3. DOMAIN org' = DOMAIN org /\ \A o \in DOMAIN org \ {run[q].org} : org'[o] = org[o]
    BY <1>1
  <1>4. IsMap(org', Orgs, BOOLEAN)
    <2>1. IsMap(org, Orgs, BOOLEAN) /\ (~org[run[q].org]) \in BOOLEAN
      BY <1>2 DEF DataTyped
    <2> QED
      BY <1>1, <2>1 DEF IsMap
  <1>5. DataTyped'
    BY <1>1, <1>2, <1>4 DEF DataTyped
  <1>6. (ItemsFit /\ ReachFits /\ CollectionsFit /\ FiledFits)'
    BY <1>1, <1>2, <1>3 DEF ItemsFit, ReachFits, CollectionsFit, FiledFits, CollectionsOf
  <1>7. RowsFit' /\ Limits(row', DOMAIN org')
    BY <1>1, <1>2, <1>3 DEF RowsFit, RowFits
  <1> QED
    BY <1>3, <1>5, <1>6, <1>7 DEF DataInv

LEMMA AddressFits ==
    ASSUME DataInv, NEW a, ChangeEmail(a)
    PROVE  DataInv'
  <1>1. PICK e \in Addresses : email' = [email EXCEPT ![a] = e]
    BY DEF ChangeEmail
  <1>2. a \in DOMAIN email /\ UNCHANGED <<gone, org, row, reach, collection, item, filed>>
    BY DEF ChangeEmail
  <1>3. DataTyped /\ ItemsFit /\ ReachFits /\ RowsFit /\ CollectionsFit /\ FiledFits /\ Limits(row, DOMAIN org)
    BY DEF DataInv
  <1>4. IsMap(email', Accounts, Addresses) /\ DOMAIN email' = DOMAIN email
    BY <1>1, <1>2, <1>3 DEF DataTyped, IsMap
  <1>5. DataTyped'
    BY <1>2, <1>3, <1>4 DEF DataTyped
  <1>6. (ItemsFit /\ ReachFits /\ CollectionsFit /\ FiledFits)'
    BY <1>2, <1>3, <1>4 DEF ItemsFit, ReachFits, CollectionsFit, FiledFits, CollectionsOf
  <1>7. RowsFit' /\ Limits(row', DOMAIN org')
    BY <1>2, <1>3, <1>4 DEF RowsFit, RowFits
  <1> QED
    BY <1>5, <1>6, <1>7 DEF DataInv

(* What happens in an organisation stays there: nothing of another one,    *)
(* and no item, row or way to a collection of another, is different.       *)
Within(o) ==
    /\ \A x \in DOMAIN org \ {o} : x \in DOMAIN org' /\ org'[x] = org[x]
    /\ \A c \in DOMAIN collection \cup DOMAIN collection' :
          \/ /\ c \in DOMAIN collection \cap DOMAIN collection' /\ collection'[c] = collection[c]
          \/ /\ c \in DOMAIN collection => collection[c].org = o
             /\ c \in DOMAIN collection' => collection'[c].org = o
    /\ \A r \in DOMAIN row : row[r].org # o => reach'[r] = reach[r]
    /\ \A i \in DOMAIN item \cup DOMAIN item' :
          \/ /\ i \in DOMAIN item \cap DOMAIN item' /\ item'[i] = item[i]
             /\ \A a \in Accounts : <<i, a>> \in filed' <=> <<i, a>> \in filed
          \/ /\ i \in DOMAIN item => item[i].of \in {o} \cup Accounts
             /\ i \in DOMAIN item' => item'[i].of = o

LEMMA SaveFits ==
    ASSUME DataInv, NEW q, SaveCollection(q)
    PROVE  DataInv' /\ Within(run[q].org) /\ row' = row /\ run[q].org \in Orgs
  <1> DEFINE o == run[q].org
  <1>1. PICK c \in CollectionsOf(o) \cup New(Collections, collection), name \in BOOLEAN :
          /\ collection' = With(collection, c, [org |-> o, name |-> name])
          /\ \/ UNCHANGED reach
             \/ \E R \in SUBSET RowsOf(o), how \in {"read", "write"} :
                   reach' = [r \in Rows |-> [reach[r] EXCEPT ![c] = IF r \in R THEN how ELSE "none"]]
    BY DEF SaveCollection
  <1>2. UNCHANGED <<email, gone, org, row, item, filed>> /\ o \in DOMAIN org
    BY DEF SaveCollection, Managing
  <1>3. DataTyped /\ ItemsFit /\ ReachFits /\ RowsFit /\ CollectionsFit /\ FiledFits /\ Limits(row, DOMAIN org)
        /\ o \in Orgs /\ IsMap(collection, Collections, [org : Orgs, name : BOOLEAN])
    BY <1>2 DEF DataInv, DataTyped, IsMap
  <1>4. c \in Collections /\ (c \in DOMAIN collection => collection[c].org = o)
    BY <1>1, <1>3 DEF CollectionsOf, New, IsMap
  <1>5. /\ DOMAIN collection' = DOMAIN collection \cup {c} /\ collection'[c].org = o
        /\ \A d \in DOMAIN collection \ {c} : collection'[d] = collection[d]
    BY <1>1 DEF With
  <1>6. IsMap(collection', Collections, [org : Orgs, name : BOOLEAN])
    <2>1. [org |-> o, name |-> name] \in [org : Orgs, name : BOOLEAN]
      BY <1>3
    <2> QED
      BY <1>1, <1>3, <1>4, <2>1, WithMap
  <1> DEFINE Given(f) == /\ f \in [Rows -> [Collections -> Access]]
                         /\ \A r \in Rows, d \in Collections : d # c => f[r][d] = reach[r][d]
                         /\ \A r \in Rows : f[r][c] # "none" => r \in DOMAIN row /\ row[r].org = o
  <1>7. Given(reach')
    <2>1. reach \in [Rows -> [Collections -> Access]]
      BY <1>3 DEF DataTyped
    <2>2. CASE UNCHANGED reach
      <3>1. \A r \in Rows : reach[r][c] # "none" => r \in DOMAIN row /\ row[r].org = o
        BY <1>3, <1>4 DEF ReachFits, CollectionsOf
      <3> QED
        BY <2>1, <2>2, <3>1
    <2>3. ASSUME NEW R \in SUBSET RowsOf(o), NEW how \in {"read", "write"},
                 reach' = [r \in Rows |-> [reach[r] EXCEPT ![c] = IF r \in R THEN how ELSE "none"]]
          PROVE  Given(reach')
      <3>1. \A r \in R : r \in DOMAIN row /\ row[r].org = o
        BY DEF RowsOf
      <3>2. ASSUME NEW r \in Rows
            PROVE  /\ reach'[r] \in [Collections -> Access]
                   /\ reach'[r][c] # "none" => r \in R
                   /\ \A d \in Collections : d # c => reach'[r][d] = reach[r][d]
        <4>1. PICK g \in [Collections -> Access] : g = reach[r]
          BY <2>1
        <4>2. PICK x \in Access : x = (IF r \in R THEN how ELSE "none") /\ (x # "none" => r \in R)
          BY DEF Access
        <4>3. reach'[r] = [g EXCEPT ![c] = x]
          BY <2>3, <4>1, <4>2
        <4> QED
          BY <1>4, <4>1, <4>2, <4>3
      <3>3. reach' \in [Rows -> [Collections -> Access]]
        <4>1. \A r \in Rows : reach'[r] \in [Collections -> Access]
          BY <3>2
        <4>2. reach' = [r \in Rows |-> reach'[r]]
          BY <2>3
        <4> QED
          BY <4>1, <4>2
      <3> QED
        BY <3>1, <3>2, <3>3
    <2> QED
      BY <1>1, <2>2, <2>3
  <1>8. DataTyped'
    BY <1>2, <1>3, <1>6, <1>7 DEF DataTyped
  <1>9. \A x \in DOMAIN org : CollectionsOf(x) \subseteq CollectionsOf(x)' /\ (x # o => CollectionsOf(x)' = CollectionsOf(x))
    BY <1>4, <1>5 DEF CollectionsOf
  <1>10. ItemsFit'
    BY <1>2, <1>3, <1>9 DEF ItemsFit
  <1>11. CollectionsFit' /\ FiledFits'
    BY <1>2, <1>3, <1>4, <1>5 DEF CollectionsFit, FiledFits
  <1>12. ReachFits'
    BY <1>2, <1>3, <1>4, <1>5, <1>7 DEF ReachFits, CollectionsOf
  <1>13. RowsFit' /\ Limits(row', DOMAIN org')
    BY <1>2, <1>3 DEF RowsFit, RowFits
  <1>14. Within(o)
    <2>1. \A r \in DOMAIN row : row[r].org # o => reach'[r] = reach[r]
      <3> SUFFICES ASSUME NEW r \in DOMAIN row, row[r].org # o PROVE reach'[r] = reach[r]
        OBVIOUS
      <3>1. r \in Rows /\ reach[r] \in [Collections -> Access] /\ reach'[r] \in [Collections -> Access]
        BY <1>3, <1>7 DEF DataTyped, IsMap
      <3>2. reach'[r][c] = "none" /\ reach[r][c] = "none"
        BY <1>3, <1>4, <1>7, <3>1 DEF ReachFits, CollectionsOf
      <3>3. \A d \in Collections : reach'[r][d] = reach[r][d]
        BY <1>7, <3>1, <3>2
      <3> QED
        BY <3>1, <3>3
    <2>2. \A d \in DOMAIN collection \cup DOMAIN collection' :
             \/ d \in DOMAIN collection \cap DOMAIN collection' /\ collection'[d] = collection[d]
             \/ (d \in DOMAIN collection => collection[d].org = o) /\ (d \in DOMAIN collection' => collection'[d].org = o)
      BY <1>4, <1>5
    <2> QED
      BY <1>2, <2>1, <2>2 DEF Within
  <1>15. DataInv'
    BY <1>8, <1>10, <1>11, <1>12, <1>13 DEF DataInv
  <1> QED
    BY <1>2, <1>3, <1>14, <1>15

LEMMA CloseFits ==
    ASSUME DataInv, NEW q, DeleteCollections(q)
    PROVE  DataInv' /\ Within(run[q].org) /\ row' = row /\ run[q].org \in Orgs
           /\ DOMAIN item' = DOMAIN item /\ (\A i \in DOMAIN item : item'[i].of = item[i].of) /\ gone \subseteq gone'
  <1> DEFINE o == run[q].org
  <1>1. PICK C \in SUBSET CollectionsOf(o) :
          /\ collection' = Without(collection, C)
          /\ reach' = Unreached({}, C)
          /\ item' = [i \in DOMAIN item |-> [item[i] EXCEPT !.in = @ \ C]]
          /\ gone' = gone \cup C
    BY DEF DeleteCollections
  <1>2. UNCHANGED <<email, org, row, filed>> /\ o \in DOMAIN org
    BY DEF DeleteCollections, Managing
  <1>3. DataTyped /\ ItemsFit /\ ReachFits /\ RowsFit /\ CollectionsFit /\ FiledFits /\ Limits(row, DOMAIN org)
        /\ o \in Orgs /\ IsMap(collection, Collections, [org : Orgs, name : BOOLEAN]) /\ IsMap(item, Items, Item)
    BY <1>2 DEF DataInv, DataTyped, IsMap
  <1>4. /\ DOMAIN collection' = DOMAIN collection \ C /\ \A d \in DOMAIN collection' : collection'[d] = collection[d]
        /\ IsMap(collection', Collections, [org : Orgs, name : BOOLEAN])
    BY <1>1, <1>3, WithoutMap DEF Without
  <1>5. \A d \in C : d \in DOMAIN collection /\ collection[d].org = o /\ d \in Collections
    BY <1>1, <1>3 DEF CollectionsOf, IsMap
  <1>6. /\ reach' \in [Rows -> [Collections -> Access]]
        /\ \A r \in Rows, d \in Collections : reach'[r][d] = IF d \in C THEN "none" ELSE reach[r][d]
    <2>1. reach \in [Rows -> [Collections -> Access]]
      BY <1>3 DEF DataTyped
    <2>2. reach' = [r \in Rows |-> [d \in Collections |-> IF d \in C THEN "none" ELSE reach[r][d]]]
      BY <1>1 DEF Unreached
    <2> QED
      BY <2>1, <2>2 DEF Access
  <1>7. ASSUME NEW i \in DOMAIN item
        PROVE  /\ item'[i] \in Item /\ item'[i].of = item[i].of /\ item'[i].in = item[i].in \ C
               /\ item[i].in \cap C = {} => item'[i] = item[i]
    <2>1. PICK v \in Item : v = item[i]
      BY <1>3 DEF IsMap
    <2>2. item'[i] = [v EXCEPT !.in = v.in \ C]
      BY <1>1, <2>1
    <2>3. v.in \cap C = {} => v.in \ C = v.in
      OBVIOUS
    <2> QED
      BY <2>1, <2>2, <2>3 DEF Item
  <1>8. DOMAIN item' = DOMAIN item /\ IsMap(item', Items, Item)
    BY <1>1, <1>3, <1>7 DEF IsMap
  <1>9. DataTyped'
    BY <1>1, <1>2, <1>3, <1>4, <1>5, <1>6, <1>8 DEF DataTyped
  <1>10. \A x : CollectionsOf(x)' = CollectionsOf(x) \ C
    BY <1>4 DEF CollectionsOf
  <1>11. ItemsFit'
    BY <1>2, <1>3, <1>7, <1>8, <1>10 DEF ItemsFit
  <1>12. CollectionsFit' /\ FiledFits'
    BY <1>2, <1>3, <1>4, <1>8 DEF CollectionsFit, FiledFits
  <1>13. ReachFits'
    BY <1>2, <1>3, <1>6, <1>10 DEF ReachFits
  <1>14. RowsFit' /\ Limits(row', DOMAIN org')
    BY <1>2, <1>3 DEF RowsFit, RowFits
  <1>15. Within(o)
    <2>1. \A r \in DOMAIN row : row[r].org # o => reach'[r] = reach[r]
      <3> SUFFICES ASSUME NEW r \in DOMAIN row, row[r].org # o PROVE reach'[r] = reach[r]
        OBVIOUS
      <3>1. r \in Rows /\ reach[r] \in [Collections -> Access] /\ reach'[r] \in [Collections -> Access]
        BY <1>3, <1>6 DEF DataTyped, IsMap
      <3>2. \A d \in C : reach[r][d] = "none"
        BY <1>3, <1>5, <3>1 DEF ReachFits, CollectionsOf
      <3>3. \A d \in Collections : reach'[r][d] = reach[r][d]
        BY <1>6, <3>1, <3>2
      <3> QED
        BY <3>1, <3>3
    <2>2. \A d \in DOMAIN collection \cup DOMAIN collection' :
             \/ d \in DOMAIN collection \cap DOMAIN collection' /\ collection'[d] = collection[d]
             \/ (d \in DOMAIN collection => collection[d].org = o) /\ (d \in DOMAIN collection' => collection'[d].org = o)
      BY <1>4, <1>5
    <2>3. \A i \in DOMAIN item \cup DOMAIN item' :
          \/ /\ i \in DOMAIN item \cap DOMAIN item' /\ item'[i] = item[i]
             /\ \A a \in Accounts : <<i, a>> \in filed' <=> <<i, a>> \in filed
          \/ /\ i \in DOMAIN item => item[i].of \in {o} \cup Accounts
             /\ i \in DOMAIN item' => item'[i].of = o
      <3> SUFFICES ASSUME NEW i \in DOMAIN item, item[i].of # o PROVE item'[i] = item[i]
        BY <1>2, <1>7, <1>8
      <3>1. item[i].in \cap C = {}
        BY <1>3, <1>5 DEF ItemsFit, CollectionsOf
      <3> QED
        BY <1>7, <3>1
    <2> QED
      BY <1>2, <2>1, <2>2, <2>3 DEF Within
  <1>16. DataInv'
    BY <1>9, <1>11, <1>12, <1>13, <1>14 DEF DataInv
  <1> QED
    BY <1>1, <1>2, <1>3, <1>7, <1>8, <1>15, <1>16

(* An item of an organisation as a request writes it.                      *)
Written(q, i) ==
    \E content, trash, on \in BOOLEAN : \E C \in SUBSET CollectionsOf(run[q].org) :
       SaveOrgCipher(q, i, content, trash, C, on)

LEMMA WriteFits ==
    ASSUME DataInv, NEW q, NEW i \in Items, Written(q, i), run[q].who \in Accounts,
           i \in DOMAIN item => item[i].of = run[q].org
    PROVE  /\ DataInv' /\ Within(run[q].org) /\ row' = row /\ run[q].org \in Orgs
           /\ DOMAIN item' = DOMAIN item \cup {i} /\ item'[i].of = run[q].org
           /\ \A j \in DOMAIN item \ {i} : item'[j] = item[j]
           /\ gone \subseteq gone' \cup {i}
           /\ BumpOrg(row, run[q].org) /\ Over(q)
  <1>0. PICK content \in BOOLEAN, trash \in BOOLEAN, on \in BOOLEAN, C \in SUBSET CollectionsOf(run[q].org) :
           SaveOrgCipher(q, i, content, trash, C, on)
    BY DEF Written
  <1> DEFINE o == run[q].org
             a == run[q].who
  <1>1. /\ o \in DOMAIN org
        /\ item' = With(item, i, [of |-> o, content |-> content, trash |-> trash, in |-> C])
        /\ gone' = gone \ {i}
        /\ UNCHANGED <<email, org, row, reach, collection>> /\ BumpOrg(row, o) /\ Over(q)
    BY <1>0 DEF SaveOrgCipher
  <1>2. /\ on => a \in DOMAIN email
        /\ filed' = IF on THEN filed \cup {<<i, a>>} ELSE filed \ {<<i, a>>}
    BY <1>0 DEF SaveOrgCipher, SetPreference
  <1>3. DataTyped /\ ItemsFit /\ ReachFits /\ RowsFit /\ CollectionsFit /\ FiledFits /\ Limits(row, DOMAIN org)
        /\ o \in Orgs /\ IsMap(item, Items, Item)
    BY <1>1 DEF DataInv, DataTyped, IsMap
  <1>4. C \subseteq Collections
    BY <1>3 DEF CollectionsOf, DataTyped, IsMap
  <1>5. PICK v \in Item : /\ v = [of |-> o, content |-> content, trash |-> trash, in |-> C]
                          /\ v.of = o /\ v.in = C
    <2>1. [of |-> o, content |-> content, trash |-> trash, in |-> C] \in Item
      BY <1>3, <1>4 DEF Item
    <2> QED
      BY <2>1
  <1>6. item' = With(item, i, v)
    BY <1>1, <1>5
  <1>7. DOMAIN item' = DOMAIN item \cup {i} /\ item'[i] = v /\ \A j \in DOMAIN item \ {i} : item'[j] = item[j]
    BY <1>6 DEF With
  <1>8. IsMap(item', Items, Item)
    BY <1>3, <1>6, WithMap
  <1>9. filed' \subseteq Items \X Accounts
    BY <1>2, <1>3 DEF DataTyped
  <1>10. DataTyped'
    BY <1>1, <1>3, <1>8, <1>9 DEF DataTyped
  <1>11. ItemsFit'
    <2>1. o \notin Accounts
      BY <1>3, NoneIs
    <2>2. \A x : CollectionsOf(x)' = CollectionsOf(x)
      BY <1>1 DEF CollectionsOf
    <2> QED
      BY <1>1, <1>3, <1>5, <1>7, <2>1, <2>2 DEF ItemsFit
  <1>12. (ReachFits /\ RowsFit /\ CollectionsFit)' /\ Limits(row', DOMAIN org')
    BY <1>1, <1>3 DEF ReachFits, RowsFit, RowFits, CollectionsFit, CollectionsOf
  <1>13. FiledFits'
    BY <1>1, <1>2, <1>3, <1>7 DEF FiledFits
  <1>14. DataInv'
    BY <1>10, <1>11, <1>12, <1>13 DEF DataInv
  <1>15. Within(o)
    <2>1. \A j \in DOMAIN item \cup DOMAIN item' :
          \/ /\ j \in DOMAIN item \cap DOMAIN item' /\ item'[j] = item[j]
             /\ \A b \in Accounts : <<j, b>> \in filed' <=> <<j, b>> \in filed
          \/ /\ j \in DOMAIN item => item[j].of \in {o} \cup Accounts
             /\ j \in DOMAIN item' => item'[j].of = o
      <3> SUFFICES ASSUME NEW j \in DOMAIN item \cup DOMAIN item', j # i
                   PROVE  /\ j \in DOMAIN item \cap DOMAIN item' /\ item'[j] = item[j]
                          /\ \A b \in Accounts : <<j, b>> \in filed' <=> <<j, b>> \in filed
        BY <1>5, <1>7
      <3> QED
        BY <1>2, <1>7
    <2> QED
      BY <1>1, <2>1 DEF Within
  <1> QED
    BY <1>1, <1>3, <1>5, <1>7, <1>14, <1>15

LEMMA BulkFits ==
    ASSUME DataInv, NEW q, OrgBulk(q), run[q].org \in Orgs,
           run[q].item \in DOMAIN item => item[run[q].item].of = run[q].org
    PROVE  /\ DataInv' /\ Within(run[q].org) /\ row' = row
           /\ DOMAIN item \ DOMAIN item' \subseteq gone' /\ DOMAIN item' \subseteq DOMAIN item
           /\ (\A i \in DOMAIN item' : item'[i].of = item[i].of) /\ gone \subseteq gone'
  <1> DEFINE o == run[q].org
  <1>1. PICK i \in DOMAIN item : i = run[q].item /\ item[i].of = o
    BY DEF OrgBulk
  <1>2. UNCHANGED <<email, org, row, reach, collection>>
    BY DEF OrgBulk
  <1>3. DataTyped /\ ItemsFit /\ ReachFits /\ RowsFit /\ CollectionsFit /\ FiledFits /\ Limits(row, DOMAIN org)
        /\ IsMap(item, Items, Item)
    BY DEF DataInv, DataTyped
  <1>4. (ReachFits /\ RowsFit /\ CollectionsFit)' /\ Limits(row', DOMAIN org')
        /\ \A x : CollectionsOf(x)' = CollectionsOf(x)
    BY <1>2, <1>3 DEF ReachFits, RowsFit, RowFits, CollectionsFit, CollectionsOf
  <1>5. CASE \E trash \in BOOLEAN : item' = [item EXCEPT ![i].trash = trash] /\ UNCHANGED <<gone, filed>>
    <2>1. PICK trash \in BOOLEAN : item' = [item EXCEPT ![i].trash = trash] /\ UNCHANGED <<gone, filed>>
      BY <1>5
    <2>2. PICK u \in Item : u = item[i]
      BY <1>3 DEF IsMap
    <2>3. PICK v \in Item : v = [u EXCEPT !.trash = trash] /\ v.of = u.of /\ v.in = u.in
      <3>1. [u EXCEPT !.trash = trash] \in Item /\ DOMAIN u = {"of", "content", "trash", "in"}
        BY DEF Item
      <3> QED
        BY <3>1
    <2>4. item' = [item EXCEPT ![i] = v]
      BY <2>1, <2>2, <2>3
    <2>5. IsMap(item', Items, Item) /\ DOMAIN item' = DOMAIN item /\ item'[i] = v
          /\ \A j \in DOMAIN item \ {i} : item'[j] = item[j]
      BY <1>3, <2>4, ExceptMap
    <2>6. DataTyped'
      BY <1>2, <1>3, <2>1, <2>5 DEF DataTyped
    <2>7. ItemsFit'
      BY <1>2, <1>3, <1>4, <2>2, <2>3, <2>5 DEF ItemsFit
    <2>8. FiledFits'
      BY <1>2, <1>3, <2>1, <2>5 DEF FiledFits
    <2>9. Within(o)
      BY <1>1, <1>2, <2>1, <2>2, <2>3, <2>5 DEF Within
    <2> QED
      BY <1>2, <1>4, <2>1, <2>2, <2>3, <2>5, <2>6, <2>7, <2>8, <2>9 DEF DataInv
  <1>6. CASE item' = Without(item, {i}) /\ gone' = gone \cup {i} /\ filed' = Unfiled({i}, {})
    <2>1. DOMAIN item' = DOMAIN item \ {i} /\ \A j \in DOMAIN item' : item'[j] = item[j]
      BY <1>6 DEF Without
    <2>2. IsMap(item', Items, Item)
      BY <1>3, <1>6, WithoutMap
    <2>3. \A p : p \in filed' <=> p \in filed /\ p[1] # i
      BY <1>6 DEF Unfiled
    <2>4. DataTyped'
      BY <1>2, <1>3, <1>6, <2>2, <2>3 DEF DataTyped, IsMap
    <2>5. ItemsFit'
      BY <1>2, <1>3, <1>4, <2>1 DEF ItemsFit
    <2>6. FiledFits'
      BY <1>2, <1>3, <2>1, <2>3 DEF FiledFits
    <2>7. Within(o)
      BY <1>1, <1>2, <2>1, <2>3 DEF Within
    <2> QED
      BY <1>2, <1>4, <1>6, <2>1, <2>4, <2>5, <2>6, <2>7 DEF DataInv
  <1> QED
    BY <1>1, <1>5, <1>6 DEF OrgBulk

LEMMA ShareFits ==
    ASSUME DataInv, NEW q, ShareCipher(q), run[q].who \in Accounts
    PROVE  /\ DataInv' /\ Within(run[q].org) /\ row' = row /\ run[q].org \in Orgs
           /\ run[q].item \in DOMAIN item /\ item[run[q].item].of = run[q].who
           /\ DOMAIN item' = DOMAIN item
           /\ \A i \in DOMAIN item \ {run[q].item} : item'[i] = item[i]
           /\ gone' = gone
  <1> DEFINE o == run[q].org
             a == run[q].who
  <1>1. PICK i \in DOMAIN item : i = run[q].item /\ item[i].of = a
    BY DEF ShareCipher
  <1>2. UNCHANGED <<email, gone, org, row, reach, collection>> /\ o \in DOMAIN org
    BY DEF ShareCipher
  <1>3. DataTyped /\ ItemsFit /\ ReachFits /\ RowsFit /\ CollectionsFit /\ FiledFits /\ Limits(row, DOMAIN org)
        /\ IsMap(item, Items, Item) /\ o \in Orgs /\ i \in Items
    BY <1>2 DEF DataInv, DataTyped, IsMap
  <1>4. PICK content \in BOOLEAN, on \in BOOLEAN :
              /\ item' = [item EXCEPT ![i].of = o, ![i].content = content, ![i].in = OfOrg(run[q].into, o)]
              /\ SetPreference(a, i, on)
    BY <1>1 DEF ShareCipher
  <1>5. (ReachFits /\ RowsFit /\ CollectionsFit)' /\ Limits(row', DOMAIN org')
        /\ \A x : CollectionsOf(x)' = CollectionsOf(x)
    BY <1>2, <1>3 DEF ReachFits, RowsFit, RowFits, CollectionsFit, CollectionsOf
  <1>6. PICK u \in Item, C \in SUBSET Collections : u = item[i] /\ C = OfOrg(run[q].into, o) /\ C \subseteq CollectionsOf(o)
    <2>1. OfOrg(run[q].into, o) \subseteq CollectionsOf(o) /\ CollectionsOf(o) \subseteq Collections
      BY <1>3 DEF OfOrg, CollectionsOf, DataTyped, IsMap
    <2> QED
      BY <1>3, <2>1 DEF IsMap
  <1>7. PICK v \in Item : v = [u EXCEPT !.of = o, !.content = content, !.in = C] /\ v.of = o /\ v.in = C
    <2>1. [u EXCEPT !.of = o, !.content = content, !.in = C] \in Item /\ DOMAIN u = {"of", "content", "trash", "in"}
      BY <1>3 DEF Item
    <2> QED
      BY <2>1
  <1>8. item' = [item EXCEPT ![i] = v]
    BY <1>4, <1>6, <1>7
  <1>9. IsMap(item', Items, Item) /\ DOMAIN item' = DOMAIN item /\ item'[i] = v
        /\ \A j \in DOMAIN item \ {i} : item'[j] = item[j]
    BY <1>3, <1>8, ExceptMap
  <1>10. /\ on => a \in DOMAIN email
         /\ filed' = IF on THEN filed \cup {<<i, a>>} ELSE filed \ {<<i, a>>}
    BY <1>4 DEF SetPreference
  <1>11. DataTyped'
    BY <1>2, <1>3, <1>9, <1>10 DEF DataTyped
  <1>12. ItemsFit'
    <2>1. o \notin Accounts
      BY <1>3, NoneIs
    <2> QED
      BY <1>2, <1>3, <1>5, <1>6, <1>7, <1>9, <2>1 DEF ItemsFit
  <1>13. FiledFits'
    BY <1>2, <1>3, <1>9, <1>10 DEF FiledFits
  <1>14. Within(o)
    <2>1. \A j \in DOMAIN item \cup DOMAIN item' :
          \/ /\ j \in DOMAIN item \cap DOMAIN item' /\ item'[j] = item[j]
             /\ \A b \in Accounts : <<j, b>> \in filed' <=> <<j, b>> \in filed
          \/ /\ j \in DOMAIN item => item[j].of \in {o} \cup Accounts
             /\ j \in DOMAIN item' => item'[j].of = o
      <3> SUFFICES ASSUME NEW j \in DOMAIN item \cup DOMAIN item', j # i
                   PROVE  /\ j \in DOMAIN item \cap DOMAIN item' /\ item'[j] = item[j]
                          /\ \A b \in Accounts : <<j, b>> \in filed' <=> <<j, b>> \in filed
        BY <1>1, <1>7, <1>9
      <3> QED
        BY <1>9, <1>10
    <2> QED
      BY <1>2, <2>1 DEF Within
  <1>15. DataInv'
    BY <1>5, <1>11, <1>12, <1>13 DEF DataInv
  <1> QED
    BY <1>1, <1>2, <1>3, <1>9, <1>14, <1>15

LEMMA FileFits ==
    ASSUME DataInv, NEW q, SetOrgPreference(q), run[q].who \in Accounts, run[q].item \in Items
    PROVE  /\ DataInv'
           /\ \A a \in Accounts \ {run[q].who}, i \in Items : <<i, a>> \in filed' <=> <<i, a>> \in filed
  <1>1. PICK on \in BOOLEAN : /\ on => run[q].item \in DOMAIN item
                              /\ SetPreference(run[q].who, run[q].item, on)
    BY DEF SetOrgPreference
  <1>2. UNCHANGED <<email, gone, org, row, reach, collection, item>>
    BY DEF SetOrgPreference
  <1>3. DataTyped /\ ItemsFit /\ ReachFits /\ RowsFit /\ CollectionsFit /\ FiledFits /\ Limits(row, DOMAIN org)
    BY DEF DataInv
  <1>4. /\ on => run[q].who \in DOMAIN email
        /\ filed' = IF on THEN filed \cup {<<run[q].item, run[q].who>>} ELSE filed \ {<<run[q].item, run[q].who>>}
    BY <1>1 DEF SetPreference
  <1>5. DataTyped'
    BY <1>2, <1>3, <1>4 DEF DataTyped
  <1>6. (ItemsFit /\ ReachFits /\ RowsFit /\ CollectionsFit)' /\ Limits(row', DOMAIN org')
    BY <1>2, <1>3 DEF ItemsFit, ReachFits, RowsFit, RowFits, CollectionsFit, CollectionsOf
  <1>7. FiledFits'
    BY <1>1, <1>2, <1>3, <1>4 DEF FiledFits
  <1> QED
    BY <1>4, <1>5, <1>6, <1>7 DEF DataInv

(***************************************************************************)
(* What the requests have read                                             *)
(***************************************************************************)
Steady ==
    \A p \in Requests : run[p].at \in OnItem =>
       /\ run[p].item \in DOMAIN item' \cup gone'
       /\ run[p].item \in DOMAIN item' => item'[run[p].item].of = run[p].org

LEMMA FreshShape == Shape(Fresh) /\ Fresh.at \notin OnItem /\ Fresh.at = "idle"
  BY DEF Shape, Fresh, Run, OnItem, OfOrgs, NoItem

LEMMA GoesOn ==
    ASSUME Asking, Settled, NEW q \in Requests, NEW r, Goes(q, r), Shape(r), Steady,
           r.at \in OnItem =>
              /\ r.item \in DOMAIN item' \cup gone'
              /\ r.item \in DOMAIN item' => item'[r.item].of = r.org
              /\ \A p \in Requests : run[p].at \in OnItem /\ run[p].item = r.item => run[p].org = r.org
    PROVE  Asking' /\ Settled'
  <1>1. run'[q] = r /\ \A p \in Requests \ {q} : run'[p] = run[p]
    BY DEF Goes, Asking
  <1>2. Asking'
    BY <1>1 DEF Goes, Asking, Shape
  <1>3. \A p \in Requests : run'[p].at \in OnItem =>
          /\ run'[p].item \in DOMAIN item' \cup gone'
          /\ run'[p].item \in DOMAIN item' => item'[run'[p].item].of = run'[p].org
    BY <1>1 DEF Steady
  <1>4. \A p, x \in Requests :
          run'[p].at \in OnItem /\ run'[x].at \in OnItem /\ run'[p].item = run'[x].item => run'[p].org = run'[x].org
    BY <1>1 DEF Settled
  <1> QED
    BY <1>2, <1>3, <1>4 DEF Settled

LEMMA OverGoesOn ==
    ASSUME Asking, Settled, NEW q \in Requests, Over(q), Steady
    PROVE  Asking' /\ Settled'
  BY GoesOn, FreshShape DEF Over

LEMMA SameGoesOn ==
    ASSUME Asking, Settled, run' = run, Steady
    PROVE  Asking' /\ Settled'
  BY DEF Asking, Settled, Steady

(* Items that go are gone, and those that stay are of who they were.       *)
LEMMA GoingSteady ==
    ASSUME Settled, DOMAIN item' \subseteq DOMAIN item, \A i \in DOMAIN item' : item'[i].of = item[i].of,
           DOMAIN item \ DOMAIN item' \subseteq gone', gone \subseteq gone'
    PROVE  Steady
  BY DEF Settled, Steady

LEMMA SameSteady ==
    ASSUME Settled, item' = item, gone \subseteq gone'
    PROVE  Steady
  BY GoingSteady

LEMMA QuietData ==
    ASSUME DataInv, UNCHANGED data
    PROVE  DataInv'
  <1>1. UNCHANGED <<email, gone, org, row, reach, collection, item, filed>>
    BY DEF data
  <1>2. DataTyped /\ ItemsFit /\ ReachFits /\ RowsFit /\ CollectionsFit /\ FiledFits /\ Limits(row, DOMAIN org)
    BY DEF DataInv
  <1>3. DataTyped'
    BY <1>1, <1>2 DEF DataTyped
  <1>4. (ItemsFit /\ ReachFits /\ RowsFit /\ CollectionsFit /\ FiledFits)' /\ Limits(row', DOMAIN org')
    BY <1>1, <1>2 DEF ItemsFit, ReachFits, RowsFit, RowFits, CollectionsFit, FiledFits, CollectionsOf
  <1> QED
    BY <1>3, <1>4 DEF DataInv

LEMMA QuietGoesOn ==
    ASSUME DataInv, Asking, Settled, NEW q \in Requests, NEW r, Goes(q, r), Shape(r), UNCHANGED data,
           r.at \in OnItem =>
              /\ r.item \in DOMAIN item \cup gone
              /\ r.item \in DOMAIN item => item[r.item].of = r.org
              /\ \A p \in Requests : run[p].at \in OnItem /\ run[p].item = r.item => run[p].org = r.org
    PROVE  DataInv' /\ Asking' /\ Settled'
  <1>1. UNCHANGED <<item, gone>>
    BY DEF data
  <1>2. Steady
    BY <1>1, SameSteady
  <1>3. r.at \in OnItem =>
              /\ r.item \in DOMAIN item' \cup gone'
              /\ r.item \in DOMAIN item' => item'[r.item].of = r.org
              /\ \A p \in Requests : run[p].at \in OnItem /\ run[p].item = r.item => run[p].org = r.org
    BY <1>1
  <1> QED
    BY <1>2, <1>3, GoesOn, QuietData

(* A request that only reads.                                              *)
Reading(q) ==
    \/ AsOwner(q) \/ ReadSession(q) \/ FindRow(q) \/ CheckSoleOwner(q)
    \/ CheckCollections(q) \/ FindItem(q) \/ ChooseCollections(q) \/ FindOwn(q) \/ GivesUp(q)

LEMMA SeesIs ==
    ASSUME DataInv, NEW a, NEW i \in DOMAIN item, Sees(a, i) # "none"
    PROVE  \E r \in DOMAIN row : row[r].user = a /\ row[r].org = item[i].of /\ row[r].status = "confirmed"
  <1>1. PICK r \in RowOf(a, item[i].of) : AccessTo(r, item[i].in) # "none"
    BY DEF Sees
  <1>2. row[r].status = "confirmed"
    BY <1>1 DEF AccessTo
  <1> QED
    BY <1>1, <1>2 DEF RowOf, RowsOf

LEMMA ReadingKeeps ==
    ASSUME DataInv, Asking, Settled, NEW q \in Requests, Reading(q)
    PROVE  DataInv' /\ Asking' /\ Settled' /\ UNCHANGED data /\ moved' = {}
  <1>0. UNCHANGED data /\ moved' = {}
    BY DEF Reading, AsOwner, ReadSession, FindRow, CheckSoleOwner, CheckCollections, FindItem, ChooseCollections,
           FindOwn, GivesUp, Refused
  <1>a. DOMAIN email \subseteq Accounts /\ DOMAIN org \subseteq Orgs /\ DOMAIN row \subseteq Rows
        /\ DOMAIN item \subseteq Items /\ (\A i \in DOMAIN item : item[i] \in Item)
        /\ \A b \in DOMAIN email : email[b] \in Addresses
    BY DEF DataInv, DataTyped, IsMap
  <1>1. CASE AsOwner(q)
    <2>1. PICK b \in DOMAIN email, o \in DOMAIN org : Goes(q, [Fresh EXCEPT !.at = "owner", !.who = b, !.org = o])
      BY <1>1 DEF AsOwner
    <2> DEFINE r == [Fresh EXCEPT !.at = "owner", !.who = b, !.org = o]
    <2>2. Shape(r) /\ r.at \notin OnItem
      BY <1>a, <2>1 DEF Shape, Fresh, Run, OnItem, OfOrgs, NoItem
    <2> HIDE DEF r
    <2> QED
      BY <1>0, <2>1, <2>2, QuietGoesOn DEF r
  <1>2. CASE ReadSession(q)
    <2>1. PICK b \in DOMAIN email : Goes(q, [Fresh EXCEPT !.at = "accept", !.who = b, !.email = email[b]])
      BY <1>2 DEF ReadSession
    <2> DEFINE r == [Fresh EXCEPT !.at = "accept", !.who = b, !.email = email[b]]
    <2>2. Shape(r) /\ r.at \notin OnItem
      BY <1>a, <2>1 DEF Shape, Fresh, Run, OnItem, OfOrgs, NoItem
    <2> HIDE DEF r
    <2> QED
      BY <1>0, <2>1, <2>2, QuietGoesOn DEF r
  <1>3. CASE FindRow(q)
    <2>1. PICK x \in DOMAIN row, b \in DOMAIN email : Goes(q, [Fresh EXCEPT !.at = "member", !.who = b, !.row = x])
      BY <1>3 DEF FindRow
    <2> DEFINE r == [Fresh EXCEPT !.at = "member", !.who = b, !.row = x]
    <2>2. Shape(r) /\ r.at \notin OnItem
      BY <1>a, <2>1 DEF Shape, Fresh, Run, OnItem, OfOrgs, NoItem
    <2> HIDE DEF r
    <2> QED
      BY <1>0, <2>1, <2>2, QuietGoesOn DEF r
  <1>4. CASE CheckSoleOwner(q)
    <2>1. PICK b \in DOMAIN email : Goes(q, [Fresh EXCEPT !.at = "going", !.who = b])
      BY <1>4 DEF CheckSoleOwner
    <2> DEFINE r == [Fresh EXCEPT !.at = "going", !.who = b]
    <2>2. Shape(r) /\ r.at \notin OnItem
      BY <1>a, <2>1 DEF Shape, Fresh, Run, OnItem, OfOrgs, NoItem
    <2> HIDE DEF r
    <2> QED
      BY <1>0, <2>1, <2>2, QuietGoesOn DEF r
  <1>5. CASE CheckCollections(q)
    <2>1. PICK b \in DOMAIN email, o \in DOMAIN org, C \in SUBSET Collections :
             Goes(q, [Fresh EXCEPT !.at = "into", !.who = b, !.org = o, !.into = C])
      BY <1>5 DEF CheckCollections
    <2> DEFINE r == [Fresh EXCEPT !.at = "into", !.who = b, !.org = o, !.into = C]
    <2>2. Shape(r) /\ r.at \notin OnItem
      BY <1>a, <2>1 DEF Shape, Fresh, Run, OnItem, OfOrgs, NoItem
    <2> HIDE DEF r
    <2> QED
      BY <1>0, <2>1, <2>2, QuietGoesOn DEF r
  <1>6. CASE FindItem(q)
    <2>1. PICK b \in DOMAIN email, i \in DOMAIN item, at \in OnItem : Sees(b, i) # "none" /\ Looking(q, b, i, at)
      <3>1. PICK b \in DOMAIN email, i \in DOMAIN item :
              \/ Sees(b, i) = "write" /\ \E at \in {"edit", "move", "bulk"} : Asked(at) /\ Looking(q, b, i, at)
              \/ Sees(b, i) # "none" /\ Asked("file") /\ Looking(q, b, i, "file")
        BY <1>6 DEF FindItem
      <3> QED
        BY <3>1 DEF OnItem
    <2>2. item[i].of \in Orgs
      <3>1. PICK x \in DOMAIN row : row[x].org = item[i].of
        BY <2>1, SeesIs
      <3> QED
        BY <3>1, RowIs DEF DataInv, DataTyped
    <2> DEFINE f == (<<i, b>> \in filed)
    <2>f. f \in BOOLEAN
      OBVIOUS
    <2>3. Goes(q, [Fresh EXCEPT !.at = at, !.who = b, !.org = item[i].of, !.item = i, !.read = item[i], !.file = f])
      BY <2>1 DEF Looking
    <2> HIDE DEF f
    <2> DEFINE r == [Fresh EXCEPT !.at = at, !.who = b, !.org = item[i].of, !.item = i, !.read = item[i], !.file = f]
    <2>4. Shape(r) /\ r.item = i /\ r.org = item[i].of
      BY <1>a, <2>1, <2>2, <2>f DEF Shape, Fresh, Run, OnItem, OfOrgs, NoItem
    <2> HIDE DEF r
    <2>5. \A p \in Requests : run[p].at \in OnItem /\ run[p].item = r.item => run[p].org = r.org
      BY <2>4 DEF Settled
    <2>6. r.item \in DOMAIN item \cup gone /\ item[r.item].of = r.org
      BY <2>4
    <2> QED
      BY <1>0, <2>3, <2>4, <2>5, <2>6, QuietGoesOn DEF r
  <1>7. CASE ChooseCollections(q)
    <2>1. PICK u \in Run : u = run[q] /\ Shape(u) /\ u.at = "move"
      BY <1>7 DEF Asking, ChooseCollections
    <2>2. PICK C \in SUBSET WritableCollections(u.who, u.org) :
             Goes(q, [u EXCEPT !.at = "moving", !.into = C \cup (u.read.in \ WritableCollections(u.who, u.org))])
      BY <1>7, <2>1 DEF ChooseCollections
    <2>3. PICK D \in SUBSET Collections : Goes(q, [u EXCEPT !.at = "moving", !.into = D])
      <3>1. u.read.in \subseteq Collections
        BY <2>1 DEF Shape, OnItem, Item
      <3>2. WritableCollections(u.who, u.org) \subseteq Collections
        BY DEF WritableCollections
      <3> QED
        BY <2>2, <3>1, <3>2
    <2> DEFINE r == [u EXCEPT !.at = "moving", !.into = D]
    <2>4. DOMAIN u = {"at", "who", "org", "row", "email", "item", "read", "file", "into"}
      BY DEF Run
    <2>5. r \in Run
      BY <2>1, <2>3 DEF Run
    <2>6. r.at = "moving" /\ r.item = u.item /\ r.org = u.org /\ r.who = u.who /\ r.read = u.read
      BY <2>4
    <2> HIDE DEF r
    <2>7. Shape(r)
      BY <2>1, <2>5, <2>6 DEF Shape, OnItem, OfOrgs
    <2>8. /\ r.item \in DOMAIN item \cup gone
          /\ r.item \in DOMAIN item => item[r.item].of = r.org
          /\ \A p \in Requests : run[p].at \in OnItem /\ run[p].item = r.item => run[p].org = r.org
      BY <2>1, <2>6 DEF Settled, OnItem
    <2> QED
      BY <1>0, <2>3, <2>7, <2>8, QuietGoesOn DEF r
  <1>8. CASE FindOwn(q)
    <2>1. PICK b \in DOMAIN email, i \in DOMAIN item, o \in DOMAIN org, C \in SUBSET Collections :
             Goes(q, [Fresh EXCEPT !.at = "share", !.who = b, !.org = o, !.item = i, !.into = C])
      BY <1>8 DEF FindOwn
    <2> DEFINE r == [Fresh EXCEPT !.at = "share", !.who = b, !.org = o, !.item = i, !.into = C]
    <2>2. Shape(r) /\ r.at \notin OnItem
      BY <1>a, <2>1 DEF Shape, Fresh, Run, OnItem, OfOrgs, NoItem
    <2> HIDE DEF r
    <2> QED
      BY <1>0, <2>1, <2>2, QuietGoesOn DEF r
  <1>9. CASE GivesUp(q)
    <2>1. Goes(q, Fresh)
      BY <1>9 DEF GivesUp, Refused, Over
    <2> QED
      BY <1>0, <2>1, FreshShape, QuietGoesOn
  <1> QED
    BY <1>1, <1>2, <1>3, <1>4, <1>5, <1>6, <1>7, <1>8, <1>9 DEF Reading

(* An item is written: the other requests about it are of the same         *)
(* organisation.                                                           *)
LEMMA WriteSteady ==
    ASSUME Settled, NEW i, NEW o, DOMAIN item' = DOMAIN item \cup {i}, item'[i].of = o,
           \A j \in DOMAIN item \ {i} : item'[j] = item[j], gone \subseteq gone' \cup {i},
           \A p \in Requests : run[p].at \in OnItem /\ run[p].item = i => run[p].org = o
    PROVE  Steady
  BY DEF Settled, Steady

LEMMA RequestKeeps ==
    ASSUME IInv, NEW q \in Requests, ByOwner(q) \/ ByMember(q) \/ OnItems(q) \/ GivesUp(q)
    PROVE  DataInv' /\ Asking' /\ Settled' /\ moved' \subseteq Accounts
  <1>a. /\ DataInv /\ Asking /\ Settled /\ Shape(run[q])
        /\ DOMAIN email \subseteq Accounts /\ DOMAIN org \subseteq Orgs
        /\ \A i \in DOMAIN item : i \in Items /\ item[i] \in Item
    BY DEF IInv, Asking, DataInv, DataTyped, IsMap
  <1>b. \A A : Bump(A) => moved' \subseteq Accounts
    BY <1>a DEF Bump
  <1>1. CASE Reading(q)
    BY <1>1, <1>a, ReadingKeeps
  <1>2. CASE InviteMembers(q)
    <2>1. Over(q) /\ UNCHANGED <<item, gone>> /\ moved' = {}
      BY <1>2 DEF InviteMembers
    <2>2. run[q].org \in Orgs
      BY <1>2, <1>a DEF InviteMembers, Managing
    <2> QED
      BY <1>2, <1>a, <2>1, <2>2, InviteFits, SameSteady, OverGoesOn
  <1>3. CASE ConfirmMember(q)
    <2>1. Over(q) /\ UNCHANGED <<item, gone>>
      BY <1>3 DEF ConfirmMember
    <2>2. moved' \subseteq Accounts
      BY <1>3, <1>a, ConfirmFits
    <2> QED
      BY <1>3, <1>a, <2>1, <2>2, ConfirmFits, SameSteady, OverGoesOn
  <1>4. CASE UpdateMember(q)
    <2>1. Over(q) /\ UNCHANGED <<item, gone>>
      BY <1>4 DEF UpdateMember
    <2>2. moved' \subseteq Accounts
      BY <1>4, <1>a, UpdateFits
    <2> QED
      BY <1>4, <1>a, <2>1, <2>2, UpdateFits, SameSteady, OverGoesOn
  <1>5. CASE RemoveMember(q) \/ LeaveOrDecline(q)
    <2>1. PICK r \in DOMAIN row : Remove(r)
      BY <1>5 DEF RemoveMember, LeaveOrDecline, RowsOf
    <2>2. Over(q)
      BY <1>5 DEF RemoveMember, LeaveOrDecline
    <2>3. item' = item /\ gone \subseteq gone' /\ moved' \subseteq Accounts
      BY <1>b, <2>1 DEF Remove
    <2> QED
      BY <1>a, <2>1, <2>2, <2>3, RemoveFits, SameSteady, OverGoesOn
  <1>6. CASE RenameOrganization(q)
    <2>1. Over(q) /\ UNCHANGED <<item, gone>> /\ moved' \subseteq Accounts
      BY <1>6, <1>b DEF RenameOrganization, BumpOrg
    <2> QED
      BY <1>6, <1>a, <2>1, RenameFits, SameSteady, OverGoesOn
  <1>7. ASSUME NEW O \in SUBSET DOMAIN org, NEW A \in SUBSET DOMAIN email, Cascade(O, A), Over(q)
        PROVE  DataInv' /\ Asking' /\ Settled'
    <2>1. Steady
      <3>1. ItemsGo(O, A) /\ DOMAIN item \ DOMAIN item' \subseteq gone' /\ gone \subseteq gone'
        BY <1>7, CascadeLeaves
      <3> QED
        BY <1>a, <3>1, GoingSteady DEF ItemsGo
    <2> QED
      BY <1>7, <1>a, <2>1, CascadeFits, OverGoesOn
  <1>8. CASE DeleteOrganization(q)
    <2>1. {run[q].org} \in SUBSET DOMAIN org /\ {} \in SUBSET DOMAIN email
          /\ Cascade({run[q].org}, {}) /\ Over(q) /\ moved' \subseteq Accounts
      BY <1>8, <1>b DEF DeleteOrganization, Managing
    <2> QED
      BY <1>7, <2>1
  <1>9. CASE DeleteUser(q)
    <2>1. AloneIn(run[q].who) \in SUBSET DOMAIN org /\ {run[q].who} \in SUBSET DOMAIN email
          /\ Cascade(AloneIn(run[q].who), {run[q].who}) /\ Over(q) /\ moved' = {}
      BY <1>9 DEF DeleteUser, AloneIn
    <2> QED
      BY <1>7, <2>1
  <1>10. CASE SaveCollection(q)
    <2>1. Over(q) /\ UNCHANGED <<item, gone>> /\ moved' \subseteq Accounts
      BY <1>10, <1>b DEF SaveCollection, BumpOrg
    <2> QED
      BY <1>10, <1>a, <2>1, SaveFits, SameSteady, OverGoesOn
  <1>11. CASE DeleteCollections(q)
    <2>1. Over(q) /\ moved' \subseteq Accounts
      BY <1>11, <1>b DEF DeleteCollections, BumpOrg
    <2>2. Steady
      BY <1>11, <1>a, CloseFits, GoingSteady
    <2> QED
      BY <1>11, <1>a, <2>1, <2>2, CloseFits, OverGoesOn
  <1>12. CASE AcceptMember(q)
    <2>1. Over(q) /\ UNCHANGED <<item, gone>> /\ moved' \subseteq Accounts
      BY <1>12, <1>b DEF AcceptMember
    <2> QED
      BY <1>12, <1>a, <2>1, AcceptFits, SameSteady, OverGoesOn
  <1>13. ASSUME NEW i \in Items, Written(q, i), run[q].who \in Accounts, i \in DOMAIN item => item[i].of = run[q].org,
                \A p \in Requests : run[p].at \in OnItem /\ run[p].item = i => run[p].org = run[q].org
         PROVE  DataInv' /\ Asking' /\ Settled' /\ moved' \subseteq Accounts
    <2>1. /\ DataInv' /\ DOMAIN item' = DOMAIN item \cup {i} /\ item'[i].of = run[q].org
          /\ \A j \in DOMAIN item \ {i} : item'[j] = item[j]
          /\ gone \subseteq gone' \cup {i}
          /\ BumpOrg(row, run[q].org) /\ Over(q)
      BY <1>13, <1>a, WriteFits
    <2>2. Steady
      BY <1>13, <1>a, <2>1, WriteSteady
    <2>3. moved' \subseteq Accounts
      BY <1>b, <2>1 DEF BumpOrg
    <2> QED
      BY <1>a, <2>1, <2>2, <2>3, OverGoesOn
  <1>14. CASE CreateItem(q)
    <2>1. PICK i \in New(Items, item), on \in BOOLEAN :
             SaveOrgCipher(q, i, FALSE, FALSE, OfOrg(run[q].into, run[q].org), on)
      BY <1>14 DEF CreateItem
    <2>2. i \in Items /\ i \notin DOMAIN item /\ i \notin gone
      BY <2>1 DEF New
    <2>3. run[q].who \in Accounts
      BY <1>14, <1>a DEF CreateItem, Shape
    <2>4. \A p \in Requests : run[p].at \in OnItem => run[p].item # i
      BY <1>a, <2>2 DEF Settled
    <2>5. OfOrg(run[q].into, run[q].org) \in SUBSET CollectionsOf(run[q].org)
      BY DEF OfOrg
    <2>6. Written(q, i)
      BY <2>1, <2>5 DEF Written
    <2> QED
      BY <1>13, <2>2, <2>3, <2>4, <2>6
  <1>15. CASE UpdateItem(q)
    <2>1. /\ run[q].at \in OnItem /\ run[q].item \in Items /\ run[q].who \in Accounts /\ run[q].read \in Item
          /\ run[q].item \in DOMAIN item => item[run[q].item].of = run[q].org
          /\ \A p \in Requests : run[p].at \in OnItem /\ run[p].item = run[q].item => run[p].org = run[q].org
      BY <1>15, <1>a DEF UpdateItem, Shape, OnItem, Settled
    <2>2. run[q].read.trash \in BOOLEAN
      BY <2>1 DEF Item
    <2>3. PICK C : C = (IF run[q].item \in DOMAIN item THEN item[run[q].item].in ELSE {})
      OBVIOUS
    <2>4. C \in SUBSET CollectionsOf(run[q].org)
      <3>1. CASE run[q].item \in DOMAIN item
        <4>1. item[run[q].item].of \notin Accounts
          BY <1>15, <1>a, <2>1, <3>1, NoneIs DEF Shape, OfOrgs
        <4> QED
          BY <1>a, <2>1, <2>3, <3>1, <4>1 DEF DataInv, ItemsFit
      <3> QED
        BY <2>3, <3>1
    <2>5. PICK content \in BOOLEAN, on \in BOOLEAN :
             SaveOrgCipher(q, run[q].item, content, run[q].read.trash, C, on)
      BY <1>15, <2>3 DEF UpdateItem
    <2>6. Written(q, run[q].item)
      BY <2>2, <2>4, <2>5 DEF Written
    <2> QED
      BY <1>13, <2>1, <2>6
  <1>16. CASE ChangeCollections(q)
    <2>1. /\ run[q].at \in OnItem /\ run[q].item \in Items /\ run[q].who \in Accounts /\ run[q].read \in Item
          /\ run[q].item \in DOMAIN item => item[run[q].item].of = run[q].org
          /\ \A p \in Requests : run[p].at \in OnItem /\ run[p].item = run[q].item => run[p].org = run[q].org
      BY <1>16, <1>a DEF ChangeCollections, Shape, OnItem, Settled
    <2>2. run[q].read.trash \in BOOLEAN /\ run[q].read.content \in BOOLEAN /\ run[q].file \in BOOLEAN
      BY <1>a, <2>1 DEF Item, Shape, Run
    <2>3. PICK C : C = OfOrg(run[q].into, run[q].org) /\ C \in SUBSET CollectionsOf(run[q].org)
      BY DEF OfOrg
    <2>4. SaveOrgCipher(q, run[q].item, run[q].read.content, run[q].read.trash, C, run[q].file)
      BY <1>16, <2>3 DEF ChangeCollections
    <2>5. Written(q, run[q].item)
      BY <2>1, <2>2, <2>3, <2>4 DEF Written
    <2> QED
      BY <1>13, <2>1, <2>5
  <1>17. CASE OrgBulk(q)
    <2>1. run[q].org \in Orgs /\ (run[q].item \in DOMAIN item => item[run[q].item].of = run[q].org)
      BY <1>17, <1>a DEF OrgBulk, Shape, OfOrgs, OnItem, Settled
    <2>2. Over(q) /\ moved' \subseteq Accounts
      BY <1>17, <1>b DEF OrgBulk, BumpOrg
    <2>3. DataInv' /\ Steady
      BY <1>17, <1>a, <2>1, BulkFits, GoingSteady
    <2> QED
      BY <1>a, <2>2, <2>3, OverGoesOn
  <1>18. CASE ShareCipher(q)
    <2>1. run[q].who \in Accounts /\ run[q].at = "share"
      BY <1>18, <1>a DEF ShareCipher, Shape
    <2>2. /\ DataInv' /\ run[q].item \in DOMAIN item /\ item[run[q].item].of = run[q].who
          /\ DOMAIN item' = DOMAIN item /\ gone' = gone
          /\ \A i \in DOMAIN item \ {run[q].item} : item'[i] = item[i]
      BY <1>18, <1>a, <2>1, ShareFits
    <2>3. Steady
      <3>1. \A p \in Requests : run[p].at \in OnItem => run[p].item # run[q].item
        BY <1>a, <2>1, <2>2, NoneIs DEF Asking, Shape, OfOrgs, Settled
      <3> QED
        BY <1>a, <2>2, <3>1 DEF Settled, Steady
    <2>4. Over(q) /\ moved' \subseteq Accounts
      BY <1>18, <1>b DEF ShareCipher
    <2> QED
      BY <1>a, <2>2, <2>3, <2>4, OverGoesOn
  <1>19. CASE SetOrgPreference(q)
    <2>1. run[q].who \in Accounts /\ run[q].item \in Items
      BY <1>19, <1>a DEF SetOrgPreference, Shape, OnItem
    <2>2. Over(q) /\ moved' \subseteq Accounts /\ UNCHANGED <<item, gone>>
      BY <1>19, <1>b DEF SetOrgPreference
    <2> QED
      BY <1>19, <1>a, <2>1, <2>2, FileFits, SameSteady, OverGoesOn
  <1> QED
    BY <1>1, <1>2, <1>3, <1>4, <1>5, <1>6, <1>8, <1>9, <1>10, <1>11, <1>12, <1>14, <1>15, <1>16, <1>17, <1>18, <1>19
       DEF ByOwner, ByMember, OnItems, Reading

LEMMA AtOnceKeeps ==
    ASSUME IInv, NEW a \in Accounts, AtOnce(a)
    PROVE  DataInv' /\ Asking' /\ Settled' /\ moved' \subseteq Accounts
  <1>a. DataInv /\ Asking /\ Settled /\ DOMAIN email \subseteq Accounts
    BY DEF IInv, DataInv, DataTyped, IsMap
  <1>1. run' = run /\ moved' \subseteq Accounts
    BY <1>a DEF AtOnce, CreateOrganization, LeaveOrganizations, ChangeEmail, ScimDelete, Bump
  <1>2. CASE CreateOrganization(a)
    <2>1. item' = item /\ gone \subseteq gone'
      BY <1>2 DEF CreateOrganization
    <2> QED
      BY <1>1, <1>2, <1>a, <2>1, CreateFits, SameSteady, SameGoesOn
  <1>3. CASE LeaveOrganizations(a)
    <2>1. item' = item /\ gone \subseteq gone'
      BY <1>3 DEF LeaveOrganizations
    <2> QED
      BY <1>1, <1>3, <1>a, <2>1, LeaveFits, SameSteady, SameGoesOn
  <1>4. CASE ChangeEmail(a)
    <2>1. item' = item /\ gone \subseteq gone'
      BY <1>4 DEF ChangeEmail
    <2> QED
      BY <1>1, <1>4, <1>a, <2>1, AddressFits, SameSteady, SameGoesOn
  <1>5. CASE ScimDelete(a)
    <2>1. AloneIn(a) \in SUBSET DOMAIN org /\ {a} \in SUBSET DOMAIN email /\ Cascade(AloneIn(a), {a})
      BY <1>5 DEF ScimDelete, AloneIn
    <2>2. ItemsGo(AloneIn(a), {a}) /\ DOMAIN item \ DOMAIN item' \subseteq gone' /\ gone \subseteq gone'
      BY <2>1, CascadeLeaves
    <2>3. Steady
      BY <1>a, <2>2, GoingSteady DEF ItemsGo
    <2> QED
      BY <1>1, <1>a, <2>1, <2>3, CascadeFits, SameGoesOn
  <1> QED
    BY <1>2, <1>3, <1>4, <1>5 DEF AtOnce

LEMMA NextKeeps ==
    ASSUME IInv, [Next]_vars PROVE IInv'
  <1>1. CASE Next
    <2>1. DataInv' /\ Asking' /\ Settled' /\ moved' \subseteq Accounts
      BY <1>1, RequestKeeps, AtOnceKeeps DEF Next
    <2> QED
      BY <1>1, <2>1 DEF Next, IInv
  <1>2. CASE UNCHANGED vars
    <2>1. UNCHANGED data /\ UNCHANGED <<scene, moved, run, item, gone>>
      BY <1>2 DEF vars, data
    <2>2. DataInv'
      BY <2>1, QuietData DEF IInv
    <2> QED
      BY <2>1, <2>2 DEF IInv, Asking, Shape, Settled
  <1> QED
    BY <1>1, <1>2


(***************************************************************************)
(* What families start with                                                *)
(***************************************************************************)
LEMMA SceneIs ==
    ASSUME NEW s \in Scenes
    PROVE  /\ s.org \in Orgs /\ s.open \subseteq Collections
           /\ IsMap(s.members, Rows, Member) /\ IsMap(s.items, Items, Item)
           /\ Cardinality(DOMAIN s.members) <= Seats
           /\ \A r, x \in DOMAIN s.members : s.members[r].who = s.members[x].who => r = x
           /\ \A r \in DOMAIN s.members :
                 /\ s.members[r].kind = "owner" /\ s.members[r].status = "confirmed" => MostOwned > 0
                 /\ \A c \in Collections : s.members[r].reach[c] # "none" => c \in s.open
           /\ \A i \in DOMAIN s.items : IF s.items[i].of \in Accounts THEN s.items[i].in = {}
                                      ELSE s.items[i].of = s.org /\ s.items[i].in \subseteq s.open
  BY FamilyScenes

(* The rows of a scene keep to the limits.                                 *)
LEMMA FirstLimits ==
    ASSUME NEW rows, NEW M, IsMap(rows, Rows, Row), DOMAIN rows = DOMAIN M, NEW o \in Orgs,
           Cardinality(DOMAIN M) <= Seats, \A r, x \in DOMAIN M : M[r].who = M[x].who => r = x,
           \A r \in DOMAIN M : rows[r].user \in {M[r].who, None},
           \A r \in DOMAIN M : rows[r].kind = "owner" /\ rows[r].status = "confirmed" => MostOwned > 0
    PROVE  Limits(rows, {o})
  <1>1. Cardinality(RowsIn(rows, o)) <= Seats
    <2>1. RowsIn(rows, o) \in SUBSET DOMAIN rows /\ IsFiniteSet(DOMAIN rows)
      BY RowsFinite DEF RowsIn
    <2> QED
      BY <2>1, Fewer, FamilyBounds
  <1>2. Single(rows)
    BY NoneIs DEF Single
  <1>3. ASSUME NEW a \in Accounts PROVE Cardinality(OwnedIn(rows, a)) <= MostOwned
    <2>1. OwnedIn(rows, a) \in SUBSET DOMAIN rows /\ IsFiniteSet(OwnedIn(rows, a)) /\ MostOwned \in Nat
          /\ Cardinality(OwnedIn(rows, a)) \in Nat
      BY RowsFinite, FamilyBounds DEF OwnedIn
    <2>2. \A x, y \in OwnedIn(rows, a) : x = y
      BY NoneIs DEF OwnedIn
    <2>3. Cardinality(OwnedIn(rows, a)) <= 1
      BY <2>1, <2>2, AtMostOne
    <2>4. CASE OwnedIn(rows, a) = {}
      BY <2>1, <2>4, FS_EmptySet
    <2>5. CASE OwnedIn(rows, a) # {}
      <3>1. MostOwned > 0
        BY <2>5 DEF OwnedIn
      <3> QED
        BY <2>1, <2>3, <3>1
    <2> QED
      BY <2>4, <2>5
  <1> QED
    BY <1>1, <1>2, <1>3, OneRowIs DEF Limits

LEMMA InitHolds ==
    ASSUME Init PROVE IInv
  <1>1. PICK s \in Scenes : s = scene
    BY DEF Init
  <1>2. /\ s.org \in Orgs /\ s.open \subseteq Collections
        /\ IsMap(s.members, Rows, Member) /\ IsMap(s.items, Items, Item)
        /\ Cardinality(DOMAIN s.members) <= Seats
        /\ \A r, x \in DOMAIN s.members : s.members[r].who = s.members[x].who => r = x
        /\ \A r \in DOMAIN s.members :
              /\ s.members[r].kind = "owner" /\ s.members[r].status = "confirmed" => MostOwned > 0
              /\ \A c \in Collections : s.members[r].reach[c] # "none" => c \in s.open
        /\ \A i \in DOMAIN s.items : IF s.items[i].of \in Accounts THEN s.items[i].in = {}
                                   ELSE s.items[i].of = s.org /\ s.items[i].in \subseteq s.open
    BY SceneIs
  <1>3. /\ email \in [Accounts -> Addresses] /\ gone = {} /\ item = s.items /\ filed = {} /\ moved = {}
        /\ org = [o \in {s.org} |-> FALSE] /\ collection = [c \in s.open |-> [org |-> s.org, name |-> FALSE]]
        /\ run = [q \in Requests |-> Fresh]
    BY <1>1, HomeAssumption DEF Init
  <1>4. PICK M : M = s.members
    OBVIOUS
  <1>5. /\ \A r \in DOMAIN M : /\ r \in Rows /\ M[r].who \in Accounts /\ M[r].status \in Statuses
                               /\ M[r].kind \in Kinds /\ M[r].reach \in [Collections -> Access]
    BY <1>2, <1>4 DEF IsMap, Member
  <1>6. row = [r \in DOMAIN M |->
                 [status |-> M[r].status, org |-> s.org, kind |-> M[r].kind,
                  user |-> IF M[r].status # "invited" THEN M[r].who ELSE None,
                  email |-> IF M[r].status # "invited" THEN None ELSE Home[M[r].who]]]
    BY <1>1, <1>4 DEF Init
  <1>7. ASSUME NEW r \in DOMAIN M
        PROVE  /\ row[r] \in Row /\ row[r].org = s.org /\ row[r].kind = M[r].kind /\ row[r].status = M[r].status
               /\ IF M[r].status = "invited" THEN row[r].user = None /\ row[r].email # None
                  ELSE row[r].user = M[r].who /\ row[r].email = None
    <2>1. Home[M[r].who] \in Addresses /\ Home[M[r].who] # None
      BY <1>5, HomeAssumption, NoneIs
    <2>2. PICK u \in Accounts \cup {None}, e \in Addresses \cup {None} :
             /\ u = (IF M[r].status # "invited" THEN M[r].who ELSE None)
             /\ e = (IF M[r].status # "invited" THEN None ELSE Home[M[r].who])
      BY <1>5, <2>1
    <2>3. row[r] = [status |-> M[r].status, org |-> s.org, kind |-> M[r].kind, user |-> u, email |-> e]
      BY <1>6, <2>2
    <2> QED
      BY <1>2, <1>5, <2>1, <2>2, <2>3 DEF Row
  <1>8. DOMAIN row = DOMAIN M /\ IsMap(row, Rows, Row)
    BY <1>5, <1>6, <1>7 DEF IsMap
  <1>9. /\ reach \in [Rows -> [Collections -> Access]]
        /\ \A r \in Rows, c \in Collections : reach[r][c] # "none" => r \in DOMAIN M /\ c \in s.open
    <2>1. reach = [r \in Rows |-> IF r \in DOMAIN M THEN M[r].reach ELSE [c \in Collections |-> "none"]]
      BY <1>1, <1>4 DEF Init
    <2> QED
      BY <1>2, <1>4, <1>5, <2>1 DEF Access
  <1>10. DataTyped
    <2>1. IsMap(collection, Collections, [org : Orgs, name : BOOLEAN]) /\ IsMap(org, Orgs, BOOLEAN)
          /\ IsMap(email, Accounts, Addresses)
      BY <1>2, <1>3 DEF IsMap
    <2> QED
      BY <1>2, <1>3, <1>8, <1>9, <2>1 DEF DataTyped
  <1>11. DOMAIN email = Accounts /\ DOMAIN org = {s.org} /\ DOMAIN collection = s.open
         /\ \A c \in s.open : collection[c].org = s.org
    BY <1>3
  <1>12. CollectionsOf(s.org) = s.open
    BY <1>11 DEF CollectionsOf
  <1>13. ItemsFit /\ FiledFits /\ CollectionsFit
    BY <1>2, <1>3, <1>11, <1>12 DEF ItemsFit, FiledFits, CollectionsFit
  <1>14. ReachFits
    BY <1>7, <1>8, <1>9, <1>12 DEF ReachFits
  <1>15. RowsFit
    BY <1>5, <1>7, <1>8, <1>11 DEF RowsFit, RowFits
  <1>16. Limits(row, DOMAIN org)
    <2>1. \A r \in DOMAIN M : row[r].user \in {M[r].who, None}
      BY <1>7
    <2>2. \A r \in DOMAIN M : row[r].kind = "owner" /\ row[r].status = "confirmed" => MostOwned > 0
      BY <1>2, <1>4, <1>7
    <2>3. Cardinality(DOMAIN M) <= Seats /\ \A r, x \in DOMAIN M : M[r].who = M[x].who => r = x
      BY <1>2, <1>4
    <2> QED
      BY <1>2, <1>8, <1>11, <2>1, <2>2, <2>3, FirstLimits
  <1>17. Asking /\ Settled
    BY <1>3, FreshShape DEF Asking, Settled, Shape
  <1> QED
    BY <1>1, <1>3, <1>10, <1>13, <1>14, <1>15, <1>16, <1>17 DEF IInv, DataInv

(***************************************************************************)
(* Families fit together and keep to their limits                          *)
(***************************************************************************)
LEMMA AlwaysIInv == Spec => []IInv
  <1>1. IInv /\ [Next]_vars => IInv'
    BY NextKeeps
  <1> QED
    BY <1>1, InitHolds, PTL DEF Spec

(* Whatever order the requests write in, items are in collections of their *)
(* organisation, rows reach collections of theirs, an account is named by  *)
(* a row once it is accepted, and nothing refers to what is gone           *)
(* (org_management.rs, org_ciphers.rs).                                    *)
THEOREM FamiliesFit == Spec => []FamiliesInv
  BY AlwaysIInv, IInvHolds, PTL

(* No family has more members than its seats, no account owns more than    *)
(* it may, and none is in a family twice (invite_members, accept_member,   *)
(* confirm_member, update_member, create_organization).                    *)
THEOREM LimitsHold == Spec => []WithinLimits
  BY AlwaysIInv, IInvHolds, PTL

(***************************************************************************)
(* Who owns                                                                *)
(***************************************************************************)
LEMMA OwnerKept ==
    ASSUME NEW rows, NEW next, NEW o, NEW x \in Owners(rows, o), x \in DOMAIN next,
           next[x].org = rows[x].org, next[x].kind = "owner", next[x].status = "confirmed"
    PROVE  Owners(next, o) # {}
  BY DEF Owners

LEMMA RemoveKeepsOwner ==
    ASSUME NEW o, NEW r \in DOMAIN row, Remove(r), ~Stays(r), Owners(row, o) # {}
    PROVE  Owners(row', o) # {}
  <1>1. DOMAIN row' = DOMAIN row \ {r} /\ \A x \in DOMAIN row' : row'[x] = row[x]
    BY DEF Remove, Without
  <1>2. PICK x \in Owners(row, o) : x # r
    <2>1. PICK y \in Owners(row, o) : TRUE
      OBVIOUS
    <2>2. CASE y = r
      <3>1. PICK z \in Owners(row, row[r].org) : z # r
        BY <2>1, <2>2 DEF Stays, OtherOwners, Owners
      <3>2. row[r].org = o
        BY <2>1, <2>2 DEF Owners
      <3> QED
        BY <3>1, <3>2
    <2> QED
      BY <2>1, <2>2
  <1>3. x \in DOMAIN row /\ row[x].kind = "owner" /\ row[x].status = "confirmed"
    BY DEF Owners
  <1> QED
    BY <1>1, <1>2, <1>3, OwnerKept

(* A cascade without accounts leaves the owners of what stays.             *)
LEMMA CascadeKeepsOwner ==
    ASSUME NEW O, NEW A, Cascade(O, A), A \subseteq DOMAIN email, DOMAIN email' = DOMAIN email,
           NEW o \in DOMAIN org', Owners(row, o) # {}
    PROVE  Owners(row', o) # {}
  <1>1. OrgsGo(O) /\ AccountsGo(A) /\ RowsGone(O, A)
    BY CascadeLeaves
  <1>2. A = {} /\ o \notin O
    BY <1>1 DEF AccountsGo, OrgsGo
  <1>3. PICK x \in Owners(row, o) : TRUE
    OBVIOUS
  <1>4. x \in DOMAIN row /\ row[x].org = o /\ row[x].kind = "owner" /\ row[x].status = "confirmed"
    BY <1>3 DEF Owners
  <1>5. x \in DOMAIN row' /\ row'[x] = row[x]
    BY <1>1, <1>2, <1>4 DEF RowsGone
  <1> QED
    BY <1>3, <1>4, <1>5, OwnerKept

LEMMA OwnersStay ==
    ASSUME IInv, Next, NEW o \in DOMAIN org, o \in DOMAIN org', Owners(row, o) # {}, DOMAIN email' = DOMAIN email
    PROVE  Owners(row', o) # {}
  <1>a. DataInv /\ Asking /\ DOMAIN org \subseteq Orgs /\ IsMap(row, Rows, Row)
    BY DEF IInv, DataInv, DataTyped, IsMap
  <1>x. PICK x \in Owners(row, o) : TRUE
    OBVIOUS
  <1>b. x \in DOMAIN row /\ row[x].org = o /\ row[x].kind = "owner" /\ row[x].status = "confirmed"
        /\ row[x] \in Row
    BY <1>a, <1>x, RowIs DEF Owners
  <1>1. CASE row' = row
    BY <1>1
  <1>2. ASSUME x \in DOMAIN row', row'[x] = row[x] PROVE Owners(row', o) # {}
    BY <1>b, <1>2, OwnerKept
  <1>3. ASSUME NEW q \in Requests, InviteMembers(q) PROVE Owners(row', o) # {}
    <2>1. run[q].org \in Orgs
      BY <1>3, <1>a DEF InviteMembers, Managing
    <2>2. DOMAIN row \subseteq DOMAIN row' /\ \A r \in DOMAIN row : row'[r] = row[r]
      BY <1>3, <1>a, <2>1, Invited
    <2> QED
      BY <1>2, <1>b, <2>2
  <1>4. ASSUME NEW q \in Requests, ConfirmMember(q) PROVE Owners(row', o) # {}
    <2>1. PICK r \in DOMAIN row : row[r].status = "accepted" /\ row' = [row EXCEPT ![r].status = "confirmed"]
      BY <1>4, <1>a, ConfirmFits
    <2>2. x # r
      BY <1>b, <2>1
    <2> QED
      BY <1>2, <1>b, <2>1, <2>2
  <1>5. ASSUME NEW q \in Requests, UpdateMember(q) PROVE Owners(row', o) # {}
    <2>1. PICK r \in DOMAIN row, kind \in Kinds :
             /\ (row[r].kind = "owner" /\ kind # "owner") => OtherOwners(r) # {}
             /\ row' = [row EXCEPT ![r].kind = kind]
      BY <1>5, <1>a, UpdateFits
    <2>2. CASE x # r
      BY <1>2, <1>b, <2>1, <2>2
    <2>3. CASE x = r /\ kind = "owner"
      <3>1. row'[x] = [row[x] EXCEPT !.kind = "owner"] /\ x \in DOMAIN row'
        BY <1>b, <2>1, <2>3
      <3>2. row'[x].kind = "owner" /\ row'[x].org = row[x].org /\ row'[x].status = "confirmed"
        BY <1>b, <3>1, RowKind DEF Kinds
      <3>3. x \in Owners(row', o)
        BY <1>b, <3>1, <3>2 DEF Owners
      <3> QED
        BY <3>3
    <2>4. CASE x = r /\ kind # "owner"
      <3>1. PICK y \in Owners(row, o) : y # r
        BY <1>b, <2>1, <2>4 DEF OtherOwners
      <3>2. y \in DOMAIN row /\ row[y].kind = "owner" /\ row[y].status = "confirmed"
        BY <3>1 DEF Owners
      <3>3. y \in DOMAIN row' /\ row'[y] = row[y]
        BY <2>1, <3>1, <3>2
      <3> QED
        BY <3>1, <3>2, <3>3, OwnerKept
    <2> QED
      BY <2>2, <2>3, <2>4
  <1>6. ASSUME NEW q \in Requests, RemoveMember(q) \/ LeaveOrDecline(q) PROVE Owners(row', o) # {}
    <2>1. PICK r \in DOMAIN row : Remove(r) /\ ~Stays(r)
      BY <1>6 DEF RemoveMember, LeaveOrDecline, RowsOf
    <2> QED
      BY <2>1, RemoveKeepsOwner
  <1>7. ASSUME NEW q \in Requests, DeleteOrganization(q) PROVE Owners(row', o) # {}
    <2>1. Cascade({run[q].org}, {})
      BY <1>7 DEF DeleteOrganization
    <2> QED
      BY <2>1, CascadeKeepsOwner
  <1>8. ASSUME NEW q \in Requests, DeleteUser(q) PROVE Owners(row', o) # {}
    <2>1. Cascade(AloneIn(run[q].who), {run[q].who}) /\ {run[q].who} \subseteq DOMAIN email
      BY <1>8 DEF DeleteUser
    <2> QED
      BY <2>1, CascadeKeepsOwner
  <1>9. ASSUME NEW a \in Accounts, ScimDelete(a) PROVE Owners(row', o) # {}
    <2>1. Cascade(AloneIn(a), {a}) /\ {a} \subseteq DOMAIN email
      BY <1>9 DEF ScimDelete
    <2> QED
      BY <2>1, CascadeKeepsOwner
  <1>10. ASSUME NEW q \in Requests, AcceptMember(q) PROVE Owners(row', o) # {}
    <2>1. PICK r \in DOMAIN row : /\ row[r].status = "invited"
             /\ row' = [row EXCEPT ![r].status = "accepted", ![r].user = run[q].who, ![r].email = None]
      BY <1>10, <1>a, AcceptFits
    <2>2. x # r
      BY <1>b, <2>1
    <2> QED
      BY <1>2, <1>b, <2>1, <2>2
  <1>11. ASSUME NEW a \in Accounts, CreateOrganization(a) PROVE Owners(row', o) # {}
    <2>1. DOMAIN row \subseteq DOMAIN row' /\ \A r \in DOMAIN row : row'[r] = row[r]
      BY <1>11, <1>a, CreateFits
    <2> QED
      BY <1>2, <1>b, <2>1
  <1>12. ASSUME NEW a \in Accounts, LeaveOrganizations(a) PROVE Owners(row', o) # {}
    <2>1. row' = Without(row, {r \in DOMAIN row : row[r].user = a /\ row[r].kind # "owner"})
      BY <1>12 DEF LeaveOrganizations
    <2> QED
      BY <1>2, <1>b, <2>1 DEF Without
  <1>13. ASSUME NEW q \in Requests, Reading(q) PROVE row' = row
    BY <1>13, <1>a, ReadingKeeps DEF IInv, data
  <1>14. ASSUME NEW q \in Requests,
                RenameOrganization(q) \/ SaveCollection(q) \/ DeleteCollections(q) \/ CreateItem(q) \/ UpdateItem(q)
                \/ ChangeCollections(q) \/ OrgBulk(q) \/ ShareCipher(q) \/ SetOrgPreference(q)
         PROVE  row' = row
    BY <1>14 DEF RenameOrganization, SaveCollection, DeleteCollections, CreateItem, UpdateItem, ChangeCollections,
                 SaveOrgCipher, OrgBulk, ShareCipher, SetOrgPreference
  <1>15. ASSUME NEW a \in Accounts, ChangeEmail(a) PROVE row' = row
    BY <1>15 DEF ChangeEmail
  <1>16. ASSUME NEW q \in Requests, ByOwner(q) \/ ByMember(q) \/ OnItems(q) \/ GivesUp(q)
         PROVE  Owners(row', o) # {}
    BY <1>1, <1>3, <1>4, <1>5, <1>6, <1>7, <1>8, <1>10, <1>13, <1>14, <1>16 DEF ByOwner, ByMember, OnItems, Reading
  <1>17. ASSUME NEW a \in Accounts, AtOnce(a) PROVE Owners(row', o) # {}
    BY <1>1, <1>9, <1>11, <1>12, <1>15, <1>17 DEF AtOnce
  <1> QED
    BY <1>16, <1>17 DEF Next

(* Owners leave, are removed and step down in any order: only an account   *)
(* that is deleted takes the last confirmed owner of an organisation along *)
(* (remove_member, update_member).                                         *)
THEOREM OwnersGoTogether == Spec => OnlyGoingTakesTheOwner
  <1>1. IInv /\ [Next]_vars =>
          [\A o \in DOMAIN org \cap DOMAIN org' :
             (Owners(row, o) # {} /\ Owners(row', o) = {}) => DOMAIN email' # DOMAIN email]_vars
    <2> SUFFICES ASSUME IInv, Next
                 PROVE  \A o \in DOMAIN org \cap DOMAIN org' :
                          (Owners(row, o) # {} /\ Owners(row', o) = {}) => DOMAIN email' # DOMAIN email
      OBVIOUS
    <2> QED
      BY OwnersStay
  <1> QED
    BY <1>1, AlwaysIInv, PTL DEF Spec, OnlyGoingTakesTheOwner

(***************************************************************************)
(* What a sync shows                                                       *)
(***************************************************************************)
RowsOfAccount(a) == {r \in DOMAIN row : row[r].user = a}
Shows(r) == {<<c, collection[c].name, Reachable(r)[c]>> : c \in {c \in DOMAIN collection : Reachable(r)[c] # "none"}}

(* For account a, nothing of organisation o is different.                  *)
SameOrg(a, o) ==
    /\ org'[o] = org[o]
    /\ \A c \in DOMAIN collection \cup DOMAIN collection' :
          \/ c \in DOMAIN collection \cap DOMAIN collection' /\ collection'[c] = collection[c]
          \/ /\ c \in DOMAIN collection => collection[c].org # o
             /\ c \in DOMAIN collection' => collection'[c].org # o
    /\ \A i \in DOMAIN item \cup DOMAIN item' :
          \/ /\ i \in DOMAIN item \cap DOMAIN item' /\ item'[i] = item[i]
             /\ <<i, a>> \in filed' <=> <<i, a>> \in filed
          \/ /\ i \in DOMAIN item => item[i].of # o
             /\ i \in DOMAIN item' => item'[i].of # o

SameRows(a) ==
    /\ \A r \in DOMAIN row \cup DOMAIN row' :
          \/ r \in DOMAIN row \cap DOMAIN row' /\ row'[r] = row[r]
          \/ (r \in DOMAIN row => row[r].user # a) /\ (r \in DOMAIN row' => row'[r].user # a)

LEMMA SeesIsThen ==
    ASSUME NEW a, NEW i, Sees(a, i)' # "none"
    PROVE  \E r \in DOMAIN row' : row'[r].user = a /\ row'[r].org = item'[i].of /\ row'[r].status = "confirmed"
  <1>1. PICK C, o : C = item'[i].in /\ o = item'[i].of
    OBVIOUS
  <1>2. PICK r \in RowOf(a, o)' : AccessTo(r, C)' # "none"
    BY <1>1 DEF Sees
  <1>3. row'[r].status = "confirmed"
    BY <1>2 DEF AccessTo
  <1> QED
    BY <1>1, <1>2, <1>3 DEF RowOf, RowsOf

LEMMA SameReach ==
    ASSUME DataInv, NEW a, NEW r \in DOMAIN row, row[r].user = a, SameRows(a), DOMAIN collection' \subseteq Collections,
           row[r].status = "confirmed" => SameOrg(a, row[r].org) /\ reach'[r] = reach[r]
    PROVE  r \in DOMAIN row' /\ row'[r] = row[r] /\ Reachable(r)' = Reachable(r) /\ Shows(r)' = Shows(r)
  <1>1. r \in DOMAIN row' /\ row'[r] = row[r]
    BY DEF SameRows
  <1>2. PICK o : o = row[r].org
    OBVIOUS
  <1>3. row[r].status = "confirmed" => \A c : c \in CollectionsOf(o)' <=> c \in CollectionsOf(o)
    BY <1>2 DEF SameOrg, CollectionsOf
  <1>4. Reachable(r)' = Reachable(r)
    <2>1. CASE row[r].status # "confirmed"
      BY <1>1, <2>1 DEF Reachable
    <2>2. CASE row[r].status = "confirmed" /\ row[r].kind = "owner"
      BY <1>1, <1>2, <1>3, <2>2 DEF Reachable
    <2>3. CASE row[r].status = "confirmed" /\ row[r].kind # "owner"
      BY <1>1, <2>3 DEF Reachable
    <2> QED
      BY <2>1, <2>2, <2>3
  <1>5. ASSUME NEW c \in DOMAIN collection \cup DOMAIN collection', Reachable(r)[c] # "none"
        PROVE  c \in DOMAIN collection \cap DOMAIN collection' /\ collection'[c] = collection[c]
    <2>1. c \in Collections /\ r \in Rows
      BY DEF DataInv, DataTyped, IsMap
    <2>2. row[r].status = "confirmed"
      BY <1>5, <2>1 DEF Reachable
    <2>3. c \in CollectionsOf(o)
      <3>1. CASE row[r].kind = "owner"
        BY <1>2, <1>5, <2>1, <2>2, <3>1 DEF Reachable
      <3>2. CASE row[r].kind # "owner"
        BY <1>2, <1>5, <2>1, <2>2, <3>2 DEF Reachable, DataInv, ReachFits
      <3> QED
        BY <3>1, <3>2
    <2> QED
      BY <1>2, <2>2, <2>3 DEF SameOrg, CollectionsOf
  <1>6. PICK f : f = Reachable(r)
    OBVIOUS
  <1>7. Shows(r) = {<<c, collection[c].name, f[c]>> : c \in {c \in DOMAIN collection : f[c] # "none"}}
    BY <1>6 DEF Shows
  <1>8. Shows(r)' = {<<c, collection'[c].name, f[c]>> : c \in {c \in DOMAIN collection' : f[c] # "none"}}
    BY <1>4, <1>6 DEF Shows
  <1>9. Shows(r)' = Shows(r)
    BY <1>5, <1>6, <1>7, <1>8
  <1> QED
    BY <1>1, <1>4, <1>9

View(a) ==
    /\ SameRows(a)
    /\ \A r \in DOMAIN row :
          row[r].user = a /\ row[r].status = "confirmed" => SameOrg(a, row[r].org) /\ reach'[r] = reach[r]

LEMMA SameMemberships ==
    ASSUME DataInv, NEW a \in Accounts, View(a)
    PROVE  MembershipsOf(a)' = MembershipsOf(a)
  <1>1. PICK R : R = RowsOfAccount(a)
    OBVIOUS
  <1>2. RowsOfAccount(a)' = R /\ \A r \in R : row'[r] = row[r]
    BY <1>1 DEF View, SameRows, RowsOfAccount
  <1>3. \A r \in R : (row[r].status = "confirmed" /\ org'[row[r].org]) <=> (row[r].status = "confirmed" /\ org[row[r].org])
    BY <1>1 DEF View, SameOrg, RowsOfAccount
  <1>4. MembershipsOf(a) = {<<row[r].org, row[r].status, row[r].kind, row[r].status = "confirmed" /\ org[row[r].org]>> : r \in R}
    BY <1>1 DEF MembershipsOf, RowsOfAccount
  <1>5. MembershipsOf(a)' = {<<row'[r].org, row'[r].status, row'[r].kind, row'[r].status = "confirmed" /\ org'[row'[r].org]>> : r \in R}
    BY <1>2 DEF MembershipsOf, RowsOfAccount
  <1>6. \A r \in R : <<row'[r].org, row'[r].status, row'[r].kind, row'[r].status = "confirmed" /\ org'[row'[r].org]>>
                     = <<row[r].org, row[r].status, row[r].kind, row[r].status = "confirmed" /\ org[row[r].org]>>
    BY <1>2, <1>3
  <1> QED
    BY <1>4, <1>5, <1>6

LEMMA SameCollections ==
    ASSUME DataInv, NEW a \in Accounts, View(a), DOMAIN collection' \subseteq Collections
    PROVE  CollectionsSeen(a)' = CollectionsSeen(a)
  <1>1. PICK R : R = RowsOfAccount(a)
    OBVIOUS
  <1>2. RowsOfAccount(a)' = R
    BY <1>1 DEF View, SameRows, RowsOfAccount
  <1>3. \A r \in R : Shows(r)' = Shows(r)
    BY <1>1, SameReach DEF View, RowsOfAccount
  <1>4. CollectionsSeen(a) = UNION {Shows(r) : r \in R}
    BY <1>1 DEF CollectionsSeen, Shows, RowsOfAccount
  <1>5. CollectionsSeen(a)' = UNION {Shows(r)' : r \in R}
    BY <1>2 DEF CollectionsSeen, Shows, RowsOfAccount
  <1> QED
    BY <1>3, <1>4, <1>5

LEMMA SameSees ==
    ASSUME DataInv, NEW a \in Accounts, View(a), DOMAIN collection' \subseteq Collections,
           NEW i \in DOMAIN item, item'[i] = item[i]
    PROVE  Sees(a, i)' = Sees(a, i)
  <1>1. PICK o, C : o = item[i].of /\ C = item[i].in
    OBVIOUS
  <1>2. RowOf(a, o)' = RowOf(a, o)
    BY DEF View, SameRows, RowOf, RowsOf
  <1>3. PICK R : R = RowOf(a, o)
    OBVIOUS
  <1>4. ASSUME NEW r \in R PROVE AccessTo(r, C)' = AccessTo(r, C)
    <2>1. r \in DOMAIN row /\ row[r].user = a
      BY <1>3, <1>4 DEF RowOf, RowsOf
    <2>2. row'[r] = row[r] /\ Reachable(r)' = Reachable(r)
      BY <2>1, SameReach DEF View
    <2>3. PICK f : f = Reachable(r)
      OBVIOUS
    <2> QED
      BY <2>2, <2>3 DEF AccessTo
  <1>5. PICK S : S = {AccessTo(r, C) : r \in R}
    OBVIOUS
  <1>6. {AccessTo(r, C)' : r \in R} = S
    BY <1>4, <1>5
  <1>7. Sees(a, i) = IF "write" \in S THEN "write" ELSE IF "read" \in S THEN "read" ELSE "none"
    BY <1>1, <1>3, <1>5 DEF Sees
  <1>8. Sees(a, i)' = IF "write" \in S THEN "write" ELSE IF "read" \in S THEN "read" ELSE "none"
    BY <1>1, <1>2, <1>3, <1>6 DEF Sees
  <1> QED
    BY <1>7, <1>8

LEMMA SameItems ==
    ASSUME DataInv, NEW a \in Accounts, View(a), DOMAIN collection' \subseteq Collections
    PROVE  ItemsSeen(a)' = ItemsSeen(a)
  <1>1. ASSUME NEW i \in DOMAIN item, Sees(a, i) # "none"
        PROVE  i \in DOMAIN item' /\ item'[i] = item[i] /\ (<<i, a>> \in filed' <=> <<i, a>> \in filed)
    <2>1. PICK r \in DOMAIN row : row[r].user = a /\ row[r].org = item[i].of /\ row[r].status = "confirmed"
      BY <1>1, SeesIs
    <2> QED
      BY <2>1 DEF View, SameOrg
  <1>2. ASSUME NEW i \in DOMAIN item', Sees(a, i)' # "none"
        PROVE  i \in DOMAIN item /\ item'[i] = item[i] /\ (<<i, a>> \in filed' <=> <<i, a>> \in filed)
    <2>1. PICK r \in DOMAIN row' : row'[r].user = a /\ row'[r].org = item'[i].of /\ row'[r].status = "confirmed"
      BY <1>2, SeesIsThen
    <2>2. r \in DOMAIN row /\ row'[r] = row[r]
      BY <2>1 DEF View, SameRows
    <2> QED
      BY <2>1, <2>2 DEF View, SameOrg
  <1>3. PICK I : I = {i \in DOMAIN item : Sees(a, i) # "none"}
    OBVIOUS
  <1>4. \A i \in I : item'[i] = item[i] /\ Sees(a, i)' = Sees(a, i) /\ (<<i, a>> \in filed' <=> <<i, a>> \in filed)
    BY <1>1, <1>3, SameSees
  <1>5. I = {i \in DOMAIN item' : Sees(a, i)' # "none"}
    BY <1>1, <1>2, <1>3, SameSees
  <1>6. ItemsSeen(a) = {<<i, item[i], Sees(a, i), <<i, a>> \in filed>> : i \in I}
    BY <1>3 DEF ItemsSeen
  <1>7. ItemsSeen(a)' = {<<i, item'[i], Sees(a, i)', <<i, a>> \in filed'>> : i \in I}
    BY <1>5 DEF ItemsSeen
  <1>8. \A i \in I : <<i, item'[i], Sees(a, i)', <<i, a>> \in filed'>> = <<i, item[i], Sees(a, i), <<i, a>> \in filed>>
    BY <1>4
  <1>9. {<<i, item'[i], Sees(a, i)', <<i, a>> \in filed'>> : i \in I}
           = {<<i, item[i], Sees(a, i), <<i, a>> \in filed>> : i \in I}
    BY <1>8, Zenon
  <1> QED
    BY <1>6, <1>7, <1>9

(* Who sees no difference in their rows and in the organisations they are  *)
(* confirmed in sees none in a sync.                                       *)
LEMMA SameView ==
    ASSUME DataInv, DataInv', NEW a \in Accounts, View(a)
    PROVE  SyncOf(a)' = SyncOf(a)
  <1>1. DOMAIN collection' \subseteq Collections
    BY DEF DataInv, DataTyped, IsMap
  <1> QED
    BY <1>1, SameMemberships, SameCollections, SameItems DEF SyncOf

LEMMA RowsView ==
    ASSUME NEW a, SameRows(a), UNCHANGED <<org, collection, item>>, \A i : <<i, a>> \in filed' <=> <<i, a>> \in filed,
           \A r \in DOMAIN row : row[r].user = a => reach'[r] = reach[r]
    PROVE  View(a)
  BY DEF View, SameOrg

LEMMA WithinView ==
    ASSUME DataInv, NEW a \in Accounts, NEW o, Within(o), row' = row,
           \A r \in DOMAIN row : row[r].user = a /\ row[r].org = o => row[r].status # "confirmed"
    PROVE  View(a)
  <1>1. SameRows(a)
    BY DEF SameRows
  <1>2. ASSUME NEW r \in DOMAIN row, row[r].user = a, row[r].status = "confirmed"
        PROVE  SameOrg(a, row[r].org) /\ reach'[r] = reach[r]
    <2>1. PICK x : x = row[r].org /\ x # o /\ x \in DOMAIN org /\ x \notin Accounts
      <3>1. row[r].org \in DOMAIN org /\ row[r].org \in Orgs
        BY RowIs DEF DataInv, DataTyped, RowsFit, RowFits
      <3> QED
        BY <1>2, <3>1, NoneIs
    <2>2. org'[x] = org[x] /\ reach'[r] = reach[r]
      BY <2>1 DEF Within
    <2>3. \A c \in DOMAIN collection \cup DOMAIN collection' :
            \/ c \in DOMAIN collection \cap DOMAIN collection' /\ collection'[c] = collection[c]
            \/ /\ c \in DOMAIN collection => collection[c].org # x
               /\ c \in DOMAIN collection' => collection'[c].org # x
      BY <2>1 DEF Within
    <2>4. \A i \in DOMAIN item \cup DOMAIN item' :
            \/ /\ i \in DOMAIN item \cap DOMAIN item' /\ item'[i] = item[i]
               /\ <<i, a>> \in filed' <=> <<i, a>> \in filed
            \/ /\ i \in DOMAIN item => item[i].of # x
               /\ i \in DOMAIN item' => item'[i].of # x
      BY <2>1 DEF Within
    <2> QED
      BY <2>1, <2>2, <2>3, <2>4 DEF SameOrg
  <1> QED
    BY <1>1, <1>2 DEF View

LEMMA CascadeView ==
    ASSUME DataInv, NEW a \in Accounts, NEW O \in SUBSET DOMAIN org, NEW A \in SUBSET Accounts, Cascade(O, A), a \notin A,
           \A r \in DOMAIN row : row[r].user = a => row[r].org \notin O
    PROVE  View(a)
  <1>1. /\ OrgsGo(O) /\ RowsGone(O, A) /\ CollectionsGo(O) /\ ItemsGo(O, A) /\ FiledGo(O, A) /\ ReachGoes(O, A)
    BY CascadeLeaves
  <1>2. SameRows(a)
    BY <1>1 DEF SameRows, RowsGone
  <1>3. ASSUME NEW r \in DOMAIN row, row[r].user = a
        PROVE  SameOrg(a, row[r].org) /\ reach'[r] = reach[r]
    <2>1. PICK x : x = row[r].org /\ x \notin O /\ x \in DOMAIN org /\ x \notin Accounts
      <3>1. row[r].org \in DOMAIN org /\ row[r].org \in Orgs
        BY RowIs DEF DataInv, DataTyped, RowsFit, RowFits
      <3> QED
        BY <1>3, <3>1, NoneIs
    <2>2. org'[x] = org[x]
      BY <1>1, <2>1 DEF OrgsGo
    <2>3. \A c \in DOMAIN collection \cup DOMAIN collection' :
            \/ c \in DOMAIN collection \cap DOMAIN collection' /\ collection'[c] = collection[c]
            \/ /\ c \in DOMAIN collection => collection[c].org # x
               /\ c \in DOMAIN collection' => collection'[c].org # x
      BY <1>1, <2>1 DEF CollectionsGo
    <2>4. \A i \in DOMAIN item \cup DOMAIN item' :
            \/ /\ i \in DOMAIN item \cap DOMAIN item' /\ item'[i] = item[i]
               /\ <<i, a>> \in filed' <=> <<i, a>> \in filed
            \/ /\ i \in DOMAIN item => item[i].of # x
               /\ i \in DOMAIN item' => item'[i].of # x
      <3> SUFFICES ASSUME NEW i \in DOMAIN item, item[i].of = x
                   PROVE  i \in DOMAIN item' /\ item'[i] = item[i] /\ (<<i, a>> \in filed' <=> <<i, a>> \in filed)
        BY <1>1 DEF ItemsGo
      <3>1. item[i].of \notin O /\ item[i].of \notin A
        BY <2>1
      <3> QED
        BY <1>1, <3>1 DEF ItemsGo, FiledGo
    <2>5. reach'[r] = reach[r]
      <3>1. r \in Rows /\ reach[r] \in [Collections -> Access]
        BY DEF DataInv, DataTyped, IsMap
      <3>2. ASSUME NEW c \in Collections, c \in DOMAIN collection, collection[c].org \in O
            PROVE  reach[r][c] = "none"
        BY <2>1, <3>1, <3>2 DEF DataInv, ReachFits, CollectionsOf
      <3>3. row[r].org \notin O /\ row[r].user \notin A
        BY <1>3
      <3>4. reach'[r] = [c \in Collections |-> IF c \in DOMAIN collection /\ collection[c].org \in O
                                               THEN "none" ELSE reach[r][c]]
        BY <1>1, <3>1, <3>3 DEF ReachGoes
      <3> QED
        BY <3>1, <3>2, <3>4
    <2> QED
      BY <2>1, <2>2, <2>3, <2>4, <2>5 DEF SameOrg
  <1> QED
    BY <1>2, <1>3 DEF View

(* An account whose revision an organisation's members' bump leaves is no  *)
(* member of it.                                                           *)
LEMMA NoMember ==
    ASSUME NEW a \in DOMAIN email, NEW o, NEW A, Bump(MemberUsers(row, o) \cup A), a \notin moved'
    PROVE  a \notin A /\ \A r \in DOMAIN row : row[r].user = a /\ row[r].org = o => row[r].status # "confirmed"
  BY DEF Bump, MemberUsers

LEMMA NoMemberOrg ==
    ASSUME NEW a \in DOMAIN email, NEW o, BumpOrg(row, o), a \notin moved'
    PROVE  \A r \in DOMAIN row : row[r].user = a /\ row[r].org = o => row[r].status # "confirmed"
  BY DEF BumpOrg, Bump, MemberUsers

(* What an owner's and a member's requests leave for everybody else.       *)
LEMMA MembersView ==
    ASSUME DataInv, Asking, NEW q \in Requests,
           InviteMembers(q) \/ ConfirmMember(q) \/ UpdateMember(q) \/ RemoveMember(q) \/ LeaveOrDecline(q) \/ AcceptMember(q),
           NEW a \in DOMAIN email, a \notin moved', a \in Accounts
    PROVE  View(a)
  <1>1. CASE InviteMembers(q)
    <2>1. run[q].org \in Orgs
      BY <1>1 DEF InviteMembers, Managing, DataInv, DataTyped, IsMap
    <2>2. PICK new \in SUBSET (Rows \ DOMAIN row) :
             /\ DOMAIN row' = DOMAIN row \cup new
             /\ \A r \in DOMAIN row : row'[r] = row[r]
             /\ \A r \in new : row'[r].user = None
             /\ \A r \in Rows \ new : reach'[r] = reach[r]
      BY <1>1, <2>1, Invited
    <2>3. SameRows(a)
      BY <2>2, NoneIs DEF SameRows
    <2>4. UNCHANGED <<org, collection, item, filed>>
      BY <1>1 DEF InviteMembers
    <2>5. \A r \in DOMAIN row : reach'[r] = reach[r]
      BY <2>2 DEF DataInv, DataTyped, IsMap
    <2> QED
      BY <2>3, <2>4, <2>5, RowsView
  <1>2. CASE ConfirmMember(q)
    <2>1. UNCHANGED <<org, collection, item, filed, reach>>
      BY <1>2 DEF ConfirmMember
    <2>2. PICK r \in DOMAIN row : /\ row[r].org = run[q].org /\ row' = [row EXCEPT ![r].status = "confirmed"]
                                  /\ moved' = MemberUsers(row', run[q].org) \cap DOMAIN email
      BY <1>2, ConfirmFits
    <2>3. row'[r].user = row[r].user /\ row'[r].status = "confirmed" /\ row'[r].org = row[r].org
      <3>1. row[r] \in Row /\ row'[r] = [row[r] EXCEPT !.status = "confirmed"]
        BY <2>2, RowIs DEF DataInv, DataTyped
      <3> QED
        BY <3>1, RowStatus DEF Statuses
    <2>4. row[r].user # a
      BY <2>2, <2>3 DEF MemberUsers
    <2>5. SameRows(a)
      BY <2>2, <2>3, <2>4 DEF SameRows
    <2> QED
      BY <2>1, <2>5, RowsView
  <1>3. CASE UpdateMember(q)
    <2>1. UNCHANGED <<org, collection, item, filed>>
      BY <1>3 DEF UpdateMember
    <2>2. PICK r \in DOMAIN row, kind \in Kinds :
                 /\ row' = [row EXCEPT ![r].kind = kind]
                 /\ \A x \in Rows \ {r} : reach'[x] = reach[x]
                 /\ moved' = (MemberUsers(row, run[q].org) \cup {row[r].user}) \cap DOMAIN email
      BY <1>3, UpdateFits
    <2>3. row'[r].user = row[r].user
      <3>1. row[r] \in Row /\ row'[r] = [row[r] EXCEPT !.kind = kind]
        BY <2>2, RowIs DEF DataInv, DataTyped
      <3> QED
        BY <3>1, RowKind
    <2>4. row[r].user # a
      BY <2>2
    <2>5. SameRows(a)
      BY <2>2, <2>3, <2>4 DEF SameRows
    <2>6. \A x \in DOMAIN row : row[x].user = a => reach'[x] = reach[x]
      BY <2>2, <2>4 DEF DataInv, DataTyped, IsMap
    <2> QED
      BY <2>1, <2>5, <2>6, RowsView
  <1>4. CASE RemoveMember(q) \/ LeaveOrDecline(q)
    <2>1. PICK r \in DOMAIN row : Remove(r)
      BY <1>4 DEF RemoveMember, LeaveOrDecline, RowsOf
    <2>2. UNCHANGED <<org, collection, item>> /\ row' = Without(row, {r}) /\ reach' = Unreached({r}, {})
          /\ filed' = filed \ (ItemsOf(row[r].org) \X {row[r].user})
      BY <2>1 DEF Remove
    <2>3. row[r].user # a
      BY <2>1 DEF Remove, Bump
    <2>4. SameRows(a)
      BY <2>2, <2>3 DEF SameRows, Without
    <2>5. \A i : <<i, a>> \in filed' <=> <<i, a>> \in filed
      BY <2>2, <2>3
    <2>6. ASSUME NEW x \in DOMAIN row, row[x].user = a PROVE reach'[x] = reach[x]
      <3>1. x \in Rows /\ reach[x] \in [Collections -> Access]
        BY DEF DataInv, DataTyped, IsMap
      <3>2. reach'[x] = [c \in Collections |-> reach[x][c]]
        BY <2>2, <2>3, <2>6, <3>1 DEF Unreached
      <3> QED
        BY <3>1, <3>2
    <2> QED
      BY <2>2, <2>4, <2>5, <2>6, RowsView
  <1>5. CASE AcceptMember(q)
    <2>1. UNCHANGED <<org, collection, item, filed, reach>>
      BY <1>5 DEF AcceptMember
    <2>2. PICK r \in DOMAIN row :
                 /\ row[r].status = "invited"
                 /\ row' = [row EXCEPT ![r].status = "accepted", ![r].user = run[q].who, ![r].email = None]
                 /\ moved' = {run[q].who} \cap DOMAIN email
      BY <1>5, AcceptFits
    <2>3. a # run[q].who
      BY <2>2
    <2>4. row[r].user # a
      BY <2>2, NoneIs DEF DataInv, RowsFit, RowFits
    <2>5. row'[r].user # a
      <3>1. PICK u, b : u \in Row /\ u = row[r] /\ b = run[q].who
        BY RowIs DEF DataInv, DataTyped
      <3>2. row'[r] = [u EXCEPT !.status = "accepted", !.user = b, !.email = None]
        BY <2>2, <3>1
      <3>3. row'[r].user = b
        BY <3>1, <3>2 DEF Row
      <3> QED
        BY <2>3, <3>1, <3>3
    <2>6. SameRows(a)
      BY <2>2, <2>4, <2>5 DEF SameRows
    <2> QED
      BY <2>1, <2>6, RowsView
  <1> QED
    BY <1>1, <1>2, <1>3, <1>4, <1>5

LEMMA OrganisationsView ==
    ASSUME DataInv, Asking, Settled, NEW q \in Requests,
           \/ RenameOrganization(q) \/ SaveCollection(q) \/ DeleteCollections(q) \/ CreateItem(q) \/ UpdateItem(q)
           \/ ChangeCollections(q) \/ OrgBulk(q) \/ ShareCipher(q) \/ SetOrgPreference(q),
           NEW a \in DOMAIN email, a \notin moved', a \in Accounts
    PROVE  View(a)
  <1>1. ASSUME Within(run[q].org), row' = row, BumpOrg(row, run[q].org) PROVE View(a)
    <2>1. \A r \in DOMAIN row : row[r].user = a /\ row[r].org = run[q].org => row[r].status # "confirmed"
      BY <1>1, NoMemberOrg
    <2> QED
      BY <1>1, <2>1, WithinView
  <1>2. CASE RenameOrganization(q)
    <2>1. UNCHANGED <<row, reach, collection, item, filed>> /\ BumpOrg(row, run[q].org)
      BY <1>2 DEF RenameOrganization
    <2>2. Within(run[q].org)
      BY <1>2, <2>1, RenameFits DEF Within
    <2> QED
      BY <1>1, <2>1, <2>2
  <1>3. CASE SaveCollection(q)
    <2>1. Within(run[q].org) /\ row' = row
      BY <1>3, SaveFits
    <2> QED
      BY <1>1, <1>3, <2>1 DEF SaveCollection
  <1>4. CASE DeleteCollections(q)
    <2>1. Within(run[q].org) /\ row' = row
      BY <1>4, CloseFits
    <2> QED
      BY <1>1, <1>4, <2>1 DEF DeleteCollections
  <1>5. ASSUME NEW i \in Items, Written(q, i), run[q].who \in Accounts, i \in DOMAIN item => item[i].of = run[q].org
        PROVE  View(a)
    <2>1. Within(run[q].org) /\ row' = row /\ BumpOrg(row, run[q].org)
      BY <1>5, WriteFits
    <2> QED
      BY <1>1, <2>1
  <1>6. CASE CreateItem(q)
    <2>1. PICK i \in New(Items, item), on \in BOOLEAN :
             SaveOrgCipher(q, i, FALSE, FALSE, OfOrg(run[q].into, run[q].org), on)
      BY <1>6 DEF CreateItem
    <2>2. i \in Items /\ i \notin DOMAIN item
      BY <2>1 DEF New
    <2>3. run[q].who \in Accounts
      BY <1>6 DEF CreateItem, Asking, Shape
    <2>4. OfOrg(run[q].into, run[q].org) \in SUBSET CollectionsOf(run[q].org)
      BY DEF OfOrg
    <2>5. Written(q, i)
      BY <2>1, <2>4 DEF Written
    <2> QED
      BY <1>5, <2>2, <2>3, <2>5
  <1>7. CASE UpdateItem(q)
    <2>1. /\ run[q].item \in Items /\ run[q].who \in Accounts /\ run[q].read \in Item /\ run[q].org \notin Accounts
          /\ run[q].item \in DOMAIN item => item[run[q].item].of = run[q].org
      BY <1>7, NoneIs DEF UpdateItem, Asking, Shape, OnItem, OfOrgs, Settled
    <2>2. run[q].read.trash \in BOOLEAN
      BY <2>1 DEF Item
    <2>3. PICK C : C = (IF run[q].item \in DOMAIN item THEN item[run[q].item].in ELSE {})
      OBVIOUS
    <2>4. C \in SUBSET CollectionsOf(run[q].org)
      BY <2>1, <2>3 DEF DataInv, ItemsFit
    <2>5. PICK content \in BOOLEAN, on \in BOOLEAN :
             SaveOrgCipher(q, run[q].item, content, run[q].read.trash, C, on)
      BY <1>7, <2>3 DEF UpdateItem
    <2>6. Written(q, run[q].item)
      BY <2>2, <2>4, <2>5 DEF Written
    <2> QED
      BY <1>5, <2>1, <2>6
  <1>8. CASE ChangeCollections(q)
    <2>1. /\ run[q].item \in Items /\ run[q].who \in Accounts /\ run[q].read \in Item /\ run[q].file \in BOOLEAN
          /\ run[q].item \in DOMAIN item => item[run[q].item].of = run[q].org
      BY <1>8 DEF ChangeCollections, Asking, Shape, OnItem, Settled, Run
    <2>2. run[q].read.trash \in BOOLEAN /\ run[q].read.content \in BOOLEAN
      BY <2>1 DEF Item
    <2>3. PICK C : C = OfOrg(run[q].into, run[q].org) /\ C \in SUBSET CollectionsOf(run[q].org)
      BY DEF OfOrg
    <2>4. SaveOrgCipher(q, run[q].item, run[q].read.content, run[q].read.trash, C, run[q].file)
      BY <1>8, <2>3 DEF ChangeCollections
    <2>5. Written(q, run[q].item)
      BY <2>1, <2>2, <2>3, <2>4 DEF Written
    <2> QED
      BY <1>5, <2>1, <2>5
  <1>9. CASE OrgBulk(q)
    <2>1. run[q].org \in Orgs /\ (run[q].item \in DOMAIN item => item[run[q].item].of = run[q].org)
      BY <1>9 DEF OrgBulk, Asking, Shape, OfOrgs, OnItem, Settled
    <2>2. Within(run[q].org) /\ row' = row
      BY <1>9, <2>1, BulkFits
    <2> QED
      BY <1>1, <1>9, <2>2 DEF OrgBulk
  <1>10. CASE ShareCipher(q)
    <2>1. run[q].who \in Accounts
      BY <1>10 DEF ShareCipher, Asking, Shape
    <2>2. Within(run[q].org) /\ row' = row
      BY <1>10, <2>1, ShareFits
    <2>3. \A r \in DOMAIN row : row[r].user = a /\ row[r].org = run[q].org => row[r].status # "confirmed"
      BY <1>10 DEF ShareCipher, Bump, MemberUsers
    <2> QED
      BY <2>2, <2>3, WithinView
  <1>11. CASE SetOrgPreference(q)
    <2>1. UNCHANGED <<org, row, reach, collection, item>> /\ a # run[q].who
      BY <1>11 DEF SetOrgPreference, Bump
    <2>2. \A i : <<i, a>> \in filed' <=> <<i, a>> \in filed
      BY <1>11, <2>1 DEF SetOrgPreference, SetPreference
    <2>3. SameRows(a)
      BY <2>1 DEF SameRows
    <2> QED
      BY <2>1, <2>2, <2>3, RowsView
  <1> QED
    BY <1>2, <1>3, <1>4, <1>6, <1>7, <1>8, <1>9, <1>10, <1>11

LEMMA GoingView ==
    ASSUME DataInv, NEW b \in DOMAIN email, Cascade(AloneIn(b), {b}), NEW a \in DOMAIN email', a \in Accounts
    PROVE  View(a)
  <1>1. AloneIn(b) \in SUBSET DOMAIN org /\ {b} \in SUBSET Accounts
    BY DEF AloneIn, DataInv, DataTyped, IsMap
  <1>2. a # b
    <2>1. AccountsGo({b})
      BY CascadeLeaves
    <2> QED
      BY <2>1 DEF AccountsGo
  <1>3. \A r \in DOMAIN row : row[r].user = a => row[r].org \notin AloneIn(b)
    BY <1>2 DEF AloneIn, RowOf, RowsOf
  <1> QED
    BY <1>1, <1>2, <1>3, CascadeView

LEMMA OthersView ==
    ASSUME IInv, Next, NEW a \in DOMAIN email, a \in DOMAIN email', a \notin moved'
    PROVE  View(a)
  <1>a. DataInv /\ Asking /\ Settled /\ a \in Accounts
    BY DEF IInv, DataInv, DataTyped, IsMap
  <1>1. ASSUME NEW q \in Requests, Reading(q) PROVE View(a)
    <2>1. UNCHANGED data
      BY <1>1, <1>a, ReadingKeeps
    <2>2. SameRows(a)
      BY <2>1 DEF SameRows, data
    <2> QED
      BY <2>1, <2>2, RowsView DEF data
  <1>2. ASSUME NEW q \in Requests, DeleteOrganization(q) PROVE View(a)
    <2>1. Cascade({run[q].org}, {}) /\ {run[q].org} \in SUBSET DOMAIN org
          /\ Bump({row[r].user : r \in RowsOf(run[q].org)})
      BY <1>2 DEF DeleteOrganization, Managing
    <2>2. \A r \in DOMAIN row : row[r].user = a => row[r].org # run[q].org
      BY <2>1 DEF Bump, RowsOf
    <2> QED
      BY <1>a, <2>1, <2>2, CascadeView
  <1>3. ASSUME NEW q \in Requests, DeleteUser(q) PROVE View(a)
    BY <1>3, <1>a, GoingView DEF DeleteUser
  <1>4. ASSUME NEW b \in Accounts, ScimDelete(b) PROVE View(a)
    BY <1>4, <1>a, GoingView DEF ScimDelete
  <1>5. ASSUME NEW b \in Accounts, ChangeEmail(b) PROVE View(a)
    <2>1. UNCHANGED <<org, row, reach, collection, item, filed>>
      BY <1>5 DEF ChangeEmail
    <2>2. SameRows(a)
      BY <2>1 DEF SameRows
    <2> QED
      BY <2>1, <2>2, RowsView
  <1>6. ASSUME NEW b \in Accounts, LeaveOrganizations(b) PROVE View(a)
    <2>1. PICK R : R = {r \in DOMAIN row : row[r].user = b /\ row[r].kind # "owner"}
      OBVIOUS
    <2>2. /\ row' = Without(row, R) /\ reach' = Unreached(R, {}) /\ UNCHANGED <<org, collection, item, filed>>
          /\ b \in moved'
      BY <1>6, <2>1 DEF LeaveOrganizations, Bump
    <2>3. \A r \in R : row[r].user # a
      BY <2>1, <2>2
    <2>4. SameRows(a)
      BY <2>2, <2>3 DEF SameRows, Without
    <2>5. ASSUME NEW x \in DOMAIN row, row[x].user = a PROVE reach'[x] = reach[x]
      <3>1. x \in Rows /\ x \notin R /\ reach[x] \in [Collections -> Access]
        BY <1>a, <2>3, <2>5 DEF DataInv, DataTyped, IsMap
      <3>2. reach'[x] = [c \in Collections |-> reach[x][c]]
        BY <2>2, <3>1 DEF Unreached
      <3> QED
        BY <3>1, <3>2
    <2> QED
      BY <2>2, <2>4, <2>5, RowsView
  <1>7. ASSUME NEW b \in Accounts, CreateOrganization(b) PROVE View(a)
    <2>1. PICK o \in Orgs \ DOMAIN org, r \in Rows \ DOMAIN row :
                 /\ org' = With(org, o, FALSE)
                 /\ DOMAIN row' = DOMAIN row \cup {r} /\ row'[r].user = b
                 /\ \A x \in DOMAIN row : row'[x] = row[x]
                 /\ DOMAIN collection \subseteq DOMAIN collection'
                 /\ \A c \in DOMAIN collection : collection'[c] = collection[c]
                 /\ \A c \in DOMAIN collection' \ DOMAIN collection : collection'[c].org = o
      BY <1>7, <1>a, CreateFits
    <2>2. UNCHANGED <<reach, item, filed>> /\ a # b
      BY <1>7 DEF CreateOrganization
    <2>3. SameRows(a)
      BY <2>1, <2>2 DEF SameRows
    <2>4. ASSUME NEW x \in DOMAIN row PROVE SameOrg(a, row[x].org)
      <3>1. row[x].org \in DOMAIN org /\ row[x].org # o
        BY <1>a, <2>1 DEF DataInv, RowsFit, RowFits
      <3>2. org'[row[x].org] = org[row[x].org]
        BY <2>1, <3>1 DEF With
      <3> QED
        BY <2>1, <2>2, <3>1, <3>2 DEF SameOrg
    <2> QED
      BY <2>2, <2>3, <2>4 DEF View
  <1>8. ASSUME NEW q \in Requests, ByOwner(q) \/ ByMember(q) \/ OnItems(q) \/ GivesUp(q)
        PROVE  View(a)
    BY <1>a, <1>1, <1>2, <1>3, <1>8, MembersView, OrganisationsView DEF ByOwner, ByMember, OnItems, Reading
  <1>9. ASSUME NEW b \in Accounts, AtOnce(b) PROVE View(a)
    BY <1>4, <1>5, <1>6, <1>7, <1>9 DEF AtOnce
  <1> QED
    BY <1>8, <1>9 DEF Next

(* Everybody whose sync shows a difference has a new revision, and so      *)
(* syncs: members, and those who were members until then, whatever a       *)
(* request read before it wrote (org_management.rs:5-8).                   *)
THEOREM SyncsFollow == Spec => SyncsWhatChanges
  <1>1. IInv /\ IInv' /\ [Next]_vars =>
          [\A a \in DOMAIN email \cap DOMAIN email' : SyncOf(a)' # SyncOf(a) => a \in moved']_vars
    <2> SUFFICES ASSUME IInv, IInv', Next, NEW a \in DOMAIN email \cap DOMAIN email', a \notin moved'
                 PROVE  SyncOf(a)' = SyncOf(a)
      OBVIOUS
    <2>1. View(a)
      BY OthersView
    <2>2. DataInv /\ DataInv' /\ a \in Accounts
      BY DEF IInv, DataInv, DataTyped, IsMap
    <2> QED
      BY <2>1, <2>2, SameView
  <1> QED
    BY <1>1, AlwaysIInv, PTL DEF Spec, SyncsWhatChanges
=============================================================================
