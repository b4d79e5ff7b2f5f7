------------------------------ MODULE SuiteProofs ------------------------------
(***************************************************************************)
(* Proofs about Suite: the rows are what they are declared as, a page      *)
(* lacks nothing below its cursor, and a new key brings every record.      *)
(***************************************************************************)
EXTENDS Suite, FiniteSetTheorems, WellFoundedInduction, TLAPS

(***************************************************************************)
(* The inductive invariant                                                 *)
(***************************************************************************)
(* What the parts below read of the server.                                *)
Now == [space |-> space, rec |-> rec, number |-> number, pruned |-> pruned, drawn |-> drawn]

(* A record of the server as somebody may have it: what it is, or older.   *)
Past(f, s) ==
    /\ IsMap(f, Ids, Record)
    /\ \A r \in DOMAIN f :
          /\ f[r].seq <= s.number /\ f[r].key <= s.drawn
          /\ r \in DOMAIN s.rec => f[r].seq <= s.rec[r].seq /\ (f[r].seq = s.rec[r].seq => f[r] = s.rec[r])

ServerOf(s) ==
    /\ s.drawn \in 0..MaxIds
    /\ s.space \in {None} \cup [id : 1..s.drawn, epoch : 0..MaxNumber]
    /\ Past(s.rec, s) /\ s.number \in 0..MaxNumber /\ s.pruned \in 0..s.number
    /\ \A r \in DOMAIN s.rec : s.rec[r].seq \in 1..s.number
    /\ \A q, r \in DOMAIN s.rec : s.rec[q].seq = s.rec[r].seq => q = r
    /\ IsFiniteSet(DOMAIN s.rec) /\ Cardinality(DOMAIN s.rec) <= Quota
    /\ s.space = None => DOMAIN s.rec = {}

(* Sealed records, and those of them that are not for the space d.         *)
Envelope == [id : Ids, base : 0..MaxNumber, key : 1..MaxIds, read : 0..MaxNumber, gone : BOOLEAN]

Envelopes(sealed, s) == sealed \in Seq(Envelope) /\ \A i \in DOMAIN sealed : sealed[i].key <= s.drawn

AppOf(a, s) ==
    a # None =>
       /\ DOMAIN a = {"id", "rekey", "recs", "sealed"}
       /\ Past(a.recs, s) /\ Envelopes(a.sealed, s)

Fields == {"status", "cursor", "id", "held", "shown", "wants", "at", "fresh", "making", "round", "again",
           "found", "answer", "batch", "submits", "link", "drops", "said", "astray"}

BatchShape(c) == DOMAIN c = {"at", "todo", "target", "read", "sealed", "named", "took"}
AnswerShape(a) == DOMAIN a = {"reset", "recs", "cursor", "more"}
HeldShape(h) == DOMAIN h = {"id", "recs"}

(* What is in a page is of its kind, and none of it is newer than the server. *)
HeldOf(h, s) == h # None => HeldShape(h) /\ h.id \in 1..s.drawn /\ Past(h.recs, s)
AnswerOf(a, s) == AnswerShape(a) /\ a.cursor \in 0..s.number /\ Past(a.recs, s)
BatchOf(c, s) == BatchShape(c) /\ c.read \in 0..MaxNumber /\ Envelopes(c.sealed, s) /\ Past(c.took, s)
ShownOf(f) == DOMAIN f \subseteq Ids /\ \A r \in DOMAIN f : f[r] \in 0..MaxNumber

(* Who reads, saves or makes a space has one open.                         *)
Opened(p) ==
    p.status = "open" \/ p.at \in {"put", "pull", "page", "show"} \/ p.batch.at # "none" \/ p.id # 0 =>
       p.held # None

PageFits(p, s) ==
    /\ DOMAIN p = Fields
    /\ p.cursor \in 0..s.number /\ p.found \in 0..s.drawn
    /\ HeldOf(p.held, s) /\ AnswerOf(p.answer, s) /\ BatchOf(p.batch, s) /\ ShownOf(p.shown)
    /\ Opened(p)

(* Complete, of a server.                                                  *)
CompleteAt(s, recs, cursor) ==
    /\ \A r \in DOMAIN s.rec : s.rec[r].seq <= cursor => r \in DOMAIN recs /\ recs[r] = s.rec[r]
    /\ \A r \in DOMAIN recs \ DOMAIN s.rec : recs[r].gone \/ recs[r].key # s.space.id \/ cursor < s.pruned

Shares(p, s) == p.held # None /\ s.space # None /\ p.held.id = s.space.id

(* What it holds is right at its cursor; with the answer that is on its    *)
(* way, at the answer's; and the answer to a push brings nothing back.     *)
HeldRight(p, s) == Shares(p, s) /\ ~p.astray => CompleteAt(s, p.held.recs, p.cursor)

Awaits(p) == p.at = "page" /\ ~p.answer.reset

AnswerRight(p, s) ==
    /\ Awaits(p) /\ p.answer.more => p.cursor < p.answer.cursor
    /\ Awaits(p) /\ Shares(p, s) /\ ~p.astray =>
          CompleteAt(s, Taken(p.held.recs, p.answer.recs), p.answer.cursor)

Stays(took, s) ==
    s.space # None => \A r \in DOMAIN took \ DOMAIN s.rec : took[r].gone \/ took[r].key # s.space.id

PageOf(p, s) == PageFits(p, s) /\ HeldRight(p, s) /\ AnswerRight(p, s) /\ Stays(p.batch.took, s)

(* The id of a space that is being made is nobody else's, and nothing that *)
(* could come to the server is sealed for it but what names it.            *)
Clean(f, d) == \A r \in DOMAIN f : f[r].key # d
CleanAll(sealed, d) == \A i \in DOMAIN sealed : sealed[i].key # d

Apart(p, d) ==
    /\ p.held # None => Clean(p.held.recs, d)
    /\ Clean(p.answer.recs, d) /\ Clean(p.batch.took, d) /\ p.found # d

Elsewhere(p, d) == (p.held # None => p.held.id # d) /\ CleanAll(p.batch.sealed, d)

Named(p, d) == p.batch.at = "sent" /\ p.batch.named # d => CleanAll(p.batch.sealed, d)

ServerApart(s, a, d) ==
    /\ s.space # None => s.space.id # d
    /\ Clean(s.rec, d)
    /\ a # None => CleanAll(a.sealed, d)

Alone(b, d) ==
    /\ ServerApart(Now, app, d)
    /\ \A c \in Browsers : Apart(page[c], d) /\ (c # b => Elsewhere(page[c], d))
    /\ Named(page[b], d)

IInv ==
    /\ scene \in Scenes /\ DOMAIN page = Browsers
    /\ ServerOf(Now)
    /\ AppOf(app, Now)
    /\ \A b \in Browsers : PageOf(page[b], Now)
    /\ \A b \in Browsers : page[b].at = "put" => Alone(b, page[b].held.id)

(***************************************************************************)
(* Numbers                                                                 *)
(***************************************************************************)
USE SuiteNumbers

(* A set of numbers has a least one, and a largest if it has a bound.      *)
LEMMA Least ==
    ASSUME NEW S \in SUBSET Nat, S # {}
    PROVE  \E x \in S : \A y \in S : x <= y
<1> DEFINE R == OpToRel(<, Nat)
<1>1. IsWellFoundedOn(R, Nat)
  BY NatLessThanWellFounded
<1>2. \A x, y \in Nat : y < x => <<y, x>> \in R
  BY DEF OpToRel
<1> HIDE DEF R
<1>3. PICK x \in S : \A y \in S : ~(<<y, x>> \in R)
  BY <1>1, WFMin
<1>4. \A y \in S : ~(y < x)
  BY <1>2, <1>3
<1> QED
  BY <1>4

LEMMA Largest ==
    ASSUME NEW S \in SUBSET Nat, S # {}, NEW n \in Nat, \A x \in S : x <= n
    PROVE  \E x \in S : \A y \in S : y <= x
<1> DEFINE T == {n - x : x \in S}
<1>1. T \in SUBSET Nat
  OBVIOUS
<1>2. T # {}
  <2>1. PICK x \in S : TRUE
    OBVIOUS
  <2>2. n - x \in T
    BY <2>1
  <2> QED
    BY <2>2
<1>3. PICK t \in T : \A u \in T : t <= u
  <2> HIDE DEF T
  <2> QED
    BY <1>1, <1>2, Least
<1>4. PICK x \in S : t = n - x
  OBVIOUS
<1>5. \A y \in S : y <= x
  <2> TAKE y \in S
  <2>1. t <= n - y
    BY <1>3
  <2> QED
    BY <2>1, <1>4
<1> QED
  BY <1>5

(* The numbers a finite set is counted with.                               *)
LEMMA SealedFinite ==
    ASSUME NEW sealed \in Seq(Envelope)
    PROVE  /\ IsFiniteSet(DOMAIN sealed) /\ IsFiniteSet(IdsOf(sealed)) /\ IdsOf(sealed) \subseteq Ids
           /\ DOMAIN sealed \subseteq Nat
<1>1. IsFiniteSet(DOMAIN sealed) /\ DOMAIN sealed \subseteq Nat
  <2>1. DOMAIN sealed = 1..Len(sealed) /\ Len(sealed) \in Int /\ 1 \in Int
    OBVIOUS
  <2>2. IsFiniteSet(1..Len(sealed))
    BY <2>1, FS_Interval
  <2> QED
    BY <2>1, <2>2
<1>2. IdsOf(sealed) \subseteq Ids
  <2>1. \A i \in DOMAIN sealed : sealed[i] \in Envelope
    OBVIOUS
  <2>2. \A i \in DOMAIN sealed : sealed[i].id \in Ids
    BY <2>1 DEF Envelope
  <2> QED
    BY <2>2 DEF IdsOf
<1>3. IsFiniteSet(IdsOf(sealed))
  <2> DEFINE f == [i \in DOMAIN sealed |-> sealed[i].id]
  <2>1. f \in Surjection(DOMAIN sealed, IdsOf(sealed))
    BY DEF Surjection, IdsOf
  <2> HIDE DEF f
  <2> QED
    BY <1>1, <2>1, FS_Surjection
<1> QED
  BY <1>1, <1>2, <1>3

(***************************************************************************)
(* Records that somebody has                                               *)
(***************************************************************************)
LEMMA EmptyPast ==
    ASSUME NEW s
    PROVE  Past(Empty, s) /\ DOMAIN Empty = {}
<1>1. DOMAIN Empty = {}
  BY DEF Empty
<1>2. Empty \in [DOMAIN Empty -> Record]
  BY <1>1 DEF Empty
<1> QED
  BY <1>1, <1>2 DEF Past, IsMap

LEMMA OnlyPast ==
    ASSUME NEW f, NEW s, NEW S, Past(f, s)
    PROVE  /\ Past(Only(f, S), s) /\ DOMAIN Only(f, S) = DOMAIN f \cap S
           /\ \A r \in DOMAIN f \cap S : Only(f, S)[r] = f[r]
<1>1. DOMAIN Only(f, S) = DOMAIN f \cap S /\ \A r \in DOMAIN f \cap S : Only(f, S)[r] = f[r]
  BY DEF Only
<1>2. IsMap(Only(f, S), Ids, Record)
  <2>1. \A r \in DOMAIN f : f[r] \in Record
    BY DEF Past, IsMap
  <2>2. Only(f, S) \in [DOMAIN f \cap S -> Record]
    BY <2>1 DEF Only
  <2> QED
    BY <1>1, <2>2 DEF IsMap, Past
<1> QED
  BY <1>1, <1>2 DEF Past

LEMMA TakenIs ==
    ASSUME NEW f, NEW g
    PROVE  /\ DOMAIN Taken(f, g) = DOMAIN f \cup DOMAIN g
           /\ \A r \in DOMAIN f \cup DOMAIN g :
                 Taken(f, g)[r] = IF r \in DOMAIN g /\ (r \in DOMAIN f => g[r].seq > f[r].seq) THEN g[r] ELSE f[r]
BY DEF Taken, TakesNewer

LEMMA TakenPast ==
    ASSUME NEW f, NEW g, NEW s, Past(f, s), Past(g, s)
    PROVE  Past(Taken(f, g), s)
<1>1. /\ DOMAIN Taken(f, g) = DOMAIN f \cup DOMAIN g
      /\ \A r \in DOMAIN Taken(f, g) :
            \/ r \in DOMAIN f /\ Taken(f, g)[r] = f[r]
            \/ r \in DOMAIN g /\ Taken(f, g)[r] = g[r]
  <2>1. DOMAIN Taken(f, g) = DOMAIN f \cup DOMAIN g
    BY TakenIs
  <2>2. \A r \in DOMAIN f \cup DOMAIN g :
           Taken(f, g)[r] = IF r \in DOMAIN g /\ (r \in DOMAIN f => g[r].seq > f[r].seq) THEN g[r] ELSE f[r]
    BY TakenIs
  <2> QED
    BY <2>1, <2>2
<1>2. \A r \in DOMAIN Taken(f, g) : Taken(f, g)[r] \in Record
  BY <1>1 DEF Past, IsMap
<1>3. Taken(f, g) = [r \in DOMAIN Taken(f, g) |-> Taken(f, g)[r]]
  BY DEF Taken
<1>4. IsMap(Taken(f, g), Ids, Record)
  BY <1>1, <1>2, <1>3 DEF Past, IsMap
<1> QED
  BY <1>1, <1>4 DEF Past

LEMMA PastFacts ==
    ASSUME NEW f, NEW s, Past(f, s)
    PROVE  /\ DOMAIN f \subseteq Ids
           /\ \A r \in DOMAIN f :
                 /\ f[r] \in Record /\ f[r].seq \in 0..MaxNumber /\ f[r].key \in 1..MaxIds
                 /\ f[r].write \in 0..MaxNumber /\ f[r].read \in 0..MaxNumber /\ f[r].gone \in BOOLEAN
                 /\ f[r].seq <= s.number /\ f[r].key <= s.drawn
                 /\ r \in DOMAIN s.rec =>
                       f[r].seq <= s.rec[r].seq /\ (f[r].seq = s.rec[r].seq => f[r] = s.rec[r])
<1>1. DOMAIN f \subseteq Ids /\ \A r \in DOMAIN f : f[r] \in Record
  BY DEF Past, IsMap
<1> QED
  BY <1>1 DEF Past, Record

(***************************************************************************)
(* Steps of the server                                                     *)
(***************************************************************************)
(* Numbers and ids grow; what is there is as it was, or has a new number.  *)
Grows(s, t) ==
    /\ s.number <= t.number /\ s.drawn <= t.drawn /\ s.pruned <= t.pruned
    /\ \A r \in DOMAIN t.rec : t.rec[r].seq > s.number \/ (r \in DOMAIN s.rec /\ t.rec[r] = s.rec[r])

SameSpace(s, t) == s.space # None /\ t.space # None /\ s.space.id = t.space.id

(* And what goes while the space stays was deleted, and is forgotten.      *)
Follows(s, t) ==
    /\ Grows(s, t)
    /\ SameSpace(s, t) => \A r \in DOMAIN s.rec \ DOMAIN t.rec : s.rec[r].gone /\ s.rec[r].seq <= t.pruned

(* A page that is left alone: nothing it has is of the new space, and no   *)
(* answer of a push shows what is forgotten.                               *)
Untouched(p, s, t) ==
    /\ t.space # None /\ ~SameSpace(s, t) =>
          (p.held # None => p.held.id # t.space.id) /\ Clean(p.batch.took, t.space.id)
    /\ SameSpace(s, t) =>
          \A r \in DOMAIN p.batch.took \cap (DOMAIN s.rec \ DOMAIN t.rec) : p.batch.took[r].gone

LEMMA ServerFacts ==
    ASSUME NEW s, ServerOf(s)
    PROVE  /\ s.number \in Nat /\ s.pruned \in Nat /\ s.drawn \in Nat
           /\ s.number <= MaxNumber /\ s.drawn <= MaxIds /\ s.pruned <= s.number
           /\ s.space # None => s.space.id \in 1..s.drawn /\ s.space.epoch \in 0..MaxNumber
           /\ \A r \in DOMAIN s.rec : s.rec[r].seq \in Nat /\ s.rec[r].seq >= 1 /\ s.rec[r].seq <= s.number
BY DEF ServerOf

LEMMA PastGrows ==
    ASSUME NEW f, NEW s, NEW t, Past(f, s), ServerOf(s), ServerOf(t), Grows(s, t)
    PROVE  Past(f, t)
<1>1. s.number \in Nat /\ t.number \in Nat /\ s.drawn \in Nat /\ t.drawn \in Nat
  BY ServerFacts
<1>2. ASSUME NEW r \in DOMAIN f
      PROVE  /\ f[r].seq <= t.number /\ f[r].key <= t.drawn
             /\ r \in DOMAIN t.rec => f[r].seq <= t.rec[r].seq /\ (f[r].seq = t.rec[r].seq => f[r] = t.rec[r])
  <2>1. /\ f[r].seq \in Nat /\ f[r].key \in Nat /\ f[r].seq <= s.number /\ f[r].key <= s.drawn
        /\ r \in DOMAIN s.rec => f[r].seq <= s.rec[r].seq /\ (f[r].seq = s.rec[r].seq => f[r] = s.rec[r])
    BY PastFacts
  <2>2. r \in DOMAIN t.rec => t.rec[r].seq \in Nat
    BY ServerFacts
  <2> QED
    BY <1>1, <2>1, <2>2 DEF Grows
<1> QED
  BY <1>2 DEF Past

(***************************************************************************)
(* A page stays right while the server goes on                             *)
(***************************************************************************)
LEMMA CompleteFollows ==
    ASSUME NEW s, NEW t, ServerOf(s), ServerOf(t), Follows(s, t), SameSpace(s, t),
           NEW recs, NEW cursor \in Nat, cursor <= s.number, CompleteAt(s, recs, cursor)
    PROVE  CompleteAt(t, recs, cursor)
<1>1. s.number \in Nat /\ t.pruned \in Nat /\ s.pruned \in Nat
  BY ServerFacts
<1>2. ASSUME NEW r \in DOMAIN t.rec, t.rec[r].seq <= cursor
      PROVE  r \in DOMAIN recs /\ recs[r] = t.rec[r]
  <2>1. t.rec[r].seq \in Nat
    BY ServerFacts
  <2>2. r \in DOMAIN s.rec /\ t.rec[r] = s.rec[r]
    BY <1>1, <1>2, <2>1 DEF Follows, Grows
  <2> QED
    BY <1>2, <2>2 DEF CompleteAt
<1>3. ASSUME NEW r \in DOMAIN recs \ DOMAIN t.rec
      PROVE  recs[r].gone \/ recs[r].key # t.space.id \/ cursor < t.pruned
  <2>1. CASE r \in DOMAIN s.rec
    <3>1. s.rec[r].gone /\ s.rec[r].seq <= t.pruned /\ s.rec[r].seq \in Nat
      BY <1>3, <2>1, ServerFacts DEF Follows
    <3>2. s.rec[r].seq <= cursor => recs[r] = s.rec[r]
      BY <2>1 DEF CompleteAt
    <3> QED
      BY <1>1, <3>1, <3>2
  <2>2. CASE r \notin DOMAIN s.rec
    <3>1. recs[r].gone \/ recs[r].key # s.space.id \/ cursor < s.pruned
      BY <1>3, <2>2 DEF CompleteAt
    <3>2. s.pruned <= t.pruned
      BY DEF Follows, Grows
    <3> QED
      BY <1>1, <3>1, <3>2 DEF SameSpace
  <2> QED
    BY <2>1, <2>2
<1> QED
  BY <1>2, <1>3 DEF CompleteAt

LEMMA FitsGrows ==
    ASSUME NEW p, NEW s, NEW t, ServerOf(s), ServerOf(t), Grows(s, t), PageFits(p, s)
    PROVE  PageFits(p, t)
<1>1. s.number \in Nat /\ t.number \in Nat /\ s.drawn \in Nat /\ t.drawn \in Nat
      /\ s.number <= t.number /\ s.drawn <= t.drawn
  BY ServerFacts DEF Grows
<1>2. HeldOf(p.held, t)
  <2>1. p.held # None => Past(p.held.recs, t)
    BY PastGrows DEF PageFits, HeldOf
  <2> QED
    BY <1>1, <2>1 DEF PageFits, HeldOf
<1>3. AnswerOf(p.answer, t)
  <2>1. Past(p.answer.recs, t)
    BY PastGrows DEF PageFits, AnswerOf
  <2> QED
    BY <1>1, <2>1 DEF PageFits, AnswerOf
<1>4. BatchOf(p.batch, t)
  <2>1. Past(p.batch.took, t)
    BY PastGrows DEF PageFits, BatchOf
  <2>2. Envelopes(p.batch.sealed, s)
    BY DEF PageFits, BatchOf
  <2>3. \A i \in DOMAIN p.batch.sealed : p.batch.sealed[i].key \in Nat
    <3>1. \A i \in DOMAIN p.batch.sealed : p.batch.sealed[i] \in Envelope
      BY <2>2 DEF Envelopes
    <3> QED
      BY <3>1 DEF Envelope
  <2>4. \A i \in DOMAIN p.batch.sealed : p.batch.sealed[i].key <= t.drawn
    <3> TAKE i \in DOMAIN p.batch.sealed
    <3>1. PICK k \in Nat : k = p.batch.sealed[i].key
      BY <2>3
    <3>2. k <= s.drawn
      BY <2>2, <3>1 DEF Envelopes
    <3> QED
      BY <1>1, <3>1, <3>2
  <2>5. Envelopes(p.batch.sealed, t)
    BY <2>2, <2>4 DEF Envelopes
  <2> QED
    BY <2>1, <2>5 DEF PageFits, BatchOf
<1>5. p.cursor \in 0..t.number /\ p.found \in 0..t.drawn
  BY <1>1 DEF PageFits
<1> QED
  BY <1>2, <1>3, <1>4, <1>5 DEF PageFits

LEMMA PageFollows ==
    ASSUME NEW p, NEW s, NEW t, ServerOf(s), ServerOf(t), Follows(s, t), Untouched(p, s, t), PageOf(p, s)
    PROVE  PageOf(p, t)
<1>1. PageFits(p, t)
  BY FitsGrows DEF Follows, PageOf
<1>2. p.cursor \in Nat /\ p.cursor <= s.number /\ p.answer.cursor \in Nat /\ p.answer.cursor <= s.number
  BY ServerFacts DEF PageOf, PageFits, AnswerOf
<1>3. Shares(p, t) => SameSpace(s, t) /\ Shares(p, s)
  BY DEF Shares, Untouched, SameSpace
<1>4. HeldRight(p, t)
  <2>1. ASSUME Shares(p, t), ~p.astray PROVE CompleteAt(t, p.held.recs, p.cursor)
    <3>1. CompleteAt(s, p.held.recs, p.cursor)
      BY <1>3, <2>1 DEF PageOf, HeldRight
    <3> QED
      BY <1>2, <1>3, <2>1, <3>1, CompleteFollows
  <2> QED
    BY <2>1 DEF HeldRight
<1>5. AnswerRight(p, t)
  <2>1. ASSUME Awaits(p), Shares(p, t), ~p.astray
        PROVE  CompleteAt(t, Taken(p.held.recs, p.answer.recs), p.answer.cursor)
    <3>1. CompleteAt(s, Taken(p.held.recs, p.answer.recs), p.answer.cursor)
      BY <1>3, <2>1 DEF PageOf, AnswerRight
    <3> QED
      BY <1>2, <1>3, <2>1, <3>1, CompleteFollows
  <2> QED
    BY <2>1 DEF AnswerRight, PageOf
<1>6. Stays(p.batch.took, t)
  <2>1. ASSUME t.space # None, NEW r \in DOMAIN p.batch.took \ DOMAIN t.rec
        PROVE  p.batch.took[r].gone \/ p.batch.took[r].key # t.space.id
    <3>1. CASE ~SameSpace(s, t)
      BY <2>1, <3>1 DEF Untouched, Clean
    <3>2. CASE SameSpace(s, t)
      <4>1. CASE r \in DOMAIN s.rec
        BY <2>1, <3>2, <4>1 DEF Untouched
      <4>2. CASE r \notin DOMAIN s.rec
        BY <2>1, <3>2, <4>2 DEF PageOf, Stays, SameSpace
      <4> QED
        BY <4>1, <4>2
    <3> QED
      BY <3>1, <3>2
  <2> QED
    BY <2>1 DEF Stays
<1> QED
  BY <1>1, <1>4, <1>5, <1>6 DEF PageOf

(* The page that makes a space: there are no records yet.                  *)
LEMMA MakesSpace ==
    ASSUME NEW p, NEW s, NEW t, ServerOf(s), ServerOf(t), Follows(s, t), PageOf(p, s), p.at = "put",
           s.space = None, t.space # None, t.space.id = p.held.id, t.rec = s.rec,
           Clean(p.held.recs, t.space.id), Clean(p.batch.took, t.space.id)
    PROVE  PageOf(p, t)
<1>1. PageFits(p, t)
  BY FitsGrows DEF Follows, PageOf
<1>2. DOMAIN t.rec = {}
  BY DEF ServerOf
<1>3. HeldRight(p, t)
  BY <1>2 DEF HeldRight, CompleteAt, Clean
<1>4. AnswerRight(p, t)
  BY DEF AnswerRight, Awaits
<1>5. Stays(p.batch.took, t)
  BY <1>2 DEF Stays, Clean
<1> QED
  BY <1>1, <1>3, <1>4, <1>5 DEF PageOf

(***************************************************************************)
(* A page that goes on by itself                                           *)
(***************************************************************************)
(* What somebody who makes a space may rely on.                            *)
Inherits(p, q, s) ==
    /\ \A d : d # 0 /\ Apart(p, d) /\ Clean(s.rec, d) /\ (s.space # None => s.space.id # d) =>
                 Apart(q, d) /\ (Elsewhere(p, d) => Elsewhere(q, d))
    /\ q.at = "put" => p.at = "put" /\ q.held.id = p.held.id /\ (Named(p, p.held.id) => Named(q, q.held.id))

LEMMA ClientKeeps ==
    ASSUME IInv, NEW b \in Browsers, NEW q, page' = [page EXCEPT ![b] = q],
           UNCHANGED <<scene, server, drawn, app>>, PageOf(q, Now), Inherits(page[b], q, Now)
    PROVE  IInv'
<1>1. Now' = Now /\ app' = app /\ scene' = scene
  BY DEF Now, server
<1>2. /\ DOMAIN page' = Browsers /\ page'[b] = q
      /\ \A c \in Browsers : c # b => page'[c] = page[c]
  BY DEF IInv
<1>3. \A c \in Browsers : PageOf(page'[c], Now)
  BY <1>2 DEF IInv
<1>4. ASSUME NEW c \in Browsers, page'[c].at = "put"
      PROVE  Alone(c, page[c].held.id)'
  <2>0. PICK d : d = page'[c].held.id
    OBVIOUS
  <2>1. page[c].at = "put" /\ page[c].held.id = d
    BY <1>2, <1>4, <2>0 DEF Inherits
  <2>2. Alone(c, d)
    <3>1. Alone(c, page[c].held.id)
      BY <2>1 DEF IInv
    <3> QED
      BY <2>1, <3>1
  <2>7. d # 0
    <3>1. PageFits(page[c], Now)
      BY DEF IInv, PageOf
    <3>2. page[c].held # None
      BY <2>1, <3>1 DEF PageFits, Opened
    <3>3. page[c].held.id \in 1..Now.drawn /\ Now.drawn \in Nat
      BY <3>1, <3>2, ServerFacts DEF PageFits, HeldOf, IInv
    <3> QED
      BY <2>1, <3>3
  <2>3. ServerApart(Now, app, d)
    BY <2>2 DEF Alone
  <2>4. \A e \in Browsers : Apart(page'[e], d) /\ (e # c => Elsewhere(page'[e], d))
    <3> TAKE e \in Browsers
    <3>1. Apart(page[e], d) /\ (e # c => Elsewhere(page[e], d))
      BY <2>2 DEF Alone
    <3>2. CASE e # b
      BY <1>2, <3>1, <3>2
    <3>3. CASE e = b
      <4>1. Clean(Now.rec, d) /\ (Now.space # None => Now.space.id # d)
        BY <2>3 DEF ServerApart
      <4>2. Apart(q, d) /\ (Elsewhere(page[b], d) => Elsewhere(q, d))
        BY <2>7, <3>1, <3>3, <4>1 DEF Inherits
      <4> QED
        BY <1>2, <3>1, <3>3, <4>2
    <3> QED
      BY <3>2, <3>3
  <2>5. Named(page'[c], d)
    <3>1. Named(page[c], d)
      BY <2>2 DEF Alone
    <3>2. CASE c # b
      BY <1>2, <3>1, <3>2
    <3>3. CASE c = b
      <4>1. q.at = "put" /\ q.held.id = d
        BY <1>2, <1>4, <2>0, <3>3
      <4>2. Named(q, q.held.id)
        BY <2>1, <3>1, <3>3, <4>1 DEF Inherits
      <4> QED
        BY <1>2, <3>3, <4>1, <4>2
    <3> QED
      BY <3>2, <3>3
  <2>6. ServerApart(Now', app', d)
    BY <1>1, <2>3
  <2> QED
    BY <2>0, <2>4, <2>5, <2>6 DEF Alone
<1>5. scene' \in Scenes /\ ServerOf(Now') /\ AppOf(app', Now')
  BY <1>1 DEF IInv
<1>6. \A c \in Browsers : PageOf(page'[c], Now')
  BY <1>1, <1>3
<1> QED
  BY <1>2, <1>4, <1>5, <1>6 DEF IInv

(* A lower cursor is right too.                                            *)
LEMMA CompleteDown ==
    ASSUME NEW s, ServerOf(s), NEW recs, NEW c \in Nat, NEW d \in Nat, d <= c, CompleteAt(s, recs, c)
    PROVE  CompleteAt(s, recs, d)
<1>1. s.pruned \in Nat /\ \A r \in DOMAIN s.rec : s.rec[r].seq \in Nat
  BY ServerFacts
<1> QED
  BY <1>1 DEF CompleteAt

(* Steps that leave what is held, and end a pull or are not about one.     *)
LEMMA OffPage ==
    ASSUME NEW p, NEW q, NEW s, ServerOf(s), PageOf(p, s), DOMAIN q = Fields,
           q.held = p.held, q.batch = p.batch, q.astray = p.astray,
           q.cursor \in {0, p.cursor}, q.shown = p.shown,
           q.found \in {0, p.found}, q.answer \in {p.answer, Nothing},
           q.at \in {"idle", "pull", "show", "list", "listed"}, Opened(q)
    PROVE  PageOf(q, s) /\ Inherits(p, q, s)
<1>1. p.cursor \in Nat /\ p.cursor <= s.number /\ s.number \in Nat /\ s.drawn \in Nat
  BY ServerFacts DEF PageOf, PageFits
<1>2. AnswerOf(q.answer, s)
  <2>1. AnswerOf(Nothing, s)
    <3>1. /\ DOMAIN Nothing = {"reset", "recs", "cursor", "more"}
          /\ Nothing.recs = Empty /\ Nothing.cursor = 0
      BY DEF Nothing
    <3>2. Past(Nothing.recs, s)
      BY <3>1, EmptyPast
    <3> QED
      BY <1>1, <3>1, <3>2 DEF AnswerOf, AnswerShape
  <2> QED
    BY <2>1 DEF PageOf, PageFits
<1>3. PageFits(q, s)
  <2>1. q.cursor \in 0..s.number /\ q.found \in 0..s.drawn
    BY <1>1 DEF PageOf, PageFits
  <2> QED
    BY <1>2, <2>1 DEF PageOf, PageFits
<1>4. HeldRight(q, s)
  <2>1. ASSUME Shares(q, s), ~q.astray PROVE CompleteAt(s, q.held.recs, q.cursor)
    <3>1. CompleteAt(s, p.held.recs, p.cursor)
      BY <2>1 DEF PageOf, HeldRight, Shares
    <3>2. CASE q.cursor = p.cursor
      BY <3>1, <3>2
    <3>3. CASE q.cursor = 0
      <4>1. CompleteAt(s, p.held.recs, 0)
        BY <1>1, <3>1, CompleteDown
      <4> QED
        BY <3>3, <4>1
    <3> QED
      BY <3>2, <3>3
  <2> QED
    BY <2>1 DEF HeldRight
<1>5. AnswerRight(q, s)
  BY DEF AnswerRight, Awaits
<1>6. Stays(q.batch.took, s)
  BY DEF PageOf
<1>7. Inherits(p, q, s)
  <2>1. ASSUME NEW d, d # 0, Apart(p, d), Clean(s.rec, d), s.space # None => s.space.id # d
        PROVE  Apart(q, d) /\ (Elsewhere(p, d) => Elsewhere(q, d))
    <3>1. Clean(q.answer.recs, d)
      <4>1. Nothing.recs = Empty /\ DOMAIN Empty = {}
        BY DEF Nothing, Empty
      <4> QED
        BY <2>1, <4>1 DEF Apart, Clean
    <3>2. q.found # d
      BY <2>1 DEF Apart
    <3> QED
      BY <2>1, <3>1, <3>2 DEF Apart, Elsewhere
  <2> QED
    BY <2>1 DEF Inherits
<1> QED
  BY <1>3, <1>4, <1>5, <1>6, <1>7 DEF PageOf

LEMMA PageHas ==
    ASSUME IInv, NEW b \in Browsers
    PROVE  /\ PageOf(page[b], Now) /\ ServerOf(Now) /\ DOMAIN page[b] = Fields /\ Opened(page[b])
           /\ Now.space = space /\ Now.rec = rec /\ Now.number = number /\ Now.pruned = pruned /\ Now.drawn = drawn
BY DEF IInv, PageOf, PageFits, Now

LEMMA OffPageKeeps ==
    ASSUME IInv, NEW b \in Browsers, NEW q, Becomes(b, q), UNCHANGED <<scene, server, drawn, app>>,
           DOMAIN q = Fields,
           q.held = page[b].held, q.batch = page[b].batch, q.astray = page[b].astray,
           q.cursor \in {0, page[b].cursor}, q.shown = page[b].shown,
           q.found \in {0, page[b].found}, q.answer \in {page[b].answer, Nothing},
           q.at \in {"idle", "pull", "show", "list", "listed"}, Opened(q)
    PROVE  IInv'
<1>1. PageOf(page[b], Now) /\ ServerOf(Now)
  BY PageHas
<1>2. PageOf(q, Now) /\ Inherits(page[b], q, Now)
  BY <1>1, OffPage
<1> QED
  BY <1>2, ClientKeeps DEF Becomes

LEMMA EndedIs ==
    ASSUME NEW p, DOMAIN p = Fields
    PROVE  /\ DOMAIN Ended(p) = Fields /\ DOMAIN Failed(p) = Fields /\ DOMAIN Pulling(p) = Fields
           /\ Ended(p).at = "idle" /\ Failed(p).at = "idle" /\ Pulling(p).at = "pull"
           /\ Ended(p).found = 0 /\ Failed(p).found = 0 /\ Pulling(p).found = 0
           /\ Ended(p).answer = Nothing /\ Failed(p).answer = Nothing /\ Pulling(p).answer = Nothing
           /\ Ended(p).held = p.held /\ Failed(p).held = p.held /\ Pulling(p).held = p.held
           /\ Ended(p).batch = p.batch /\ Failed(p).batch = p.batch /\ Pulling(p).batch = p.batch
           /\ Ended(p).astray = p.astray /\ Failed(p).astray = p.astray /\ Pulling(p).astray = p.astray
           /\ Ended(p).cursor = p.cursor /\ Failed(p).cursor = p.cursor /\ Pulling(p).cursor = p.cursor
           /\ Ended(p).shown = p.shown /\ Failed(p).shown = p.shown /\ Pulling(p).shown = p.shown
           /\ Ended(p).id = p.id /\ Failed(p).id = p.id /\ Pulling(p).id = p.id
           /\ Ended(p).status = p.status /\ Failed(p).status = "error" /\ Pulling(p).status = p.status
BY DEF Ended, Failed, Pulling, Fields

LEMMA BeginLoads ==
    ASSUME IInv, NEW b \in Browsers, Begin(b), UNCHANGED drawn
    PROVE  IInv'
<1>1. PICK work \in page[b].wants :
        Becomes(b, IF work = "load" /\ [page[b] EXCEPT !.wants = @ \ {work}, !.said = FALSE].status = "open"
                   THEN Pulling([page[b] EXCEPT !.wants = @ \ {work}, !.said = FALSE])
                   ELSE [[page[b] EXCEPT !.wants = @ \ {work}, !.said = FALSE]
                            EXCEPT !.at = "list", !.fresh = work = "fresh"])
  <2>1. drawn \in Nat
    BY PageHas, ServerFacts
  <2>2. drawn' # drawn + 1
    BY <2>1
  <2> QED
    BY <2>2 DEF Begin
<1> DEFINE p == [page[b] EXCEPT !.wants = @ \ {work}, !.said = FALSE]
           q == [p EXCEPT !.at = "list", !.fresh = work = "fresh"]
<1>2. DOMAIN page[b] = Fields /\ Opened(page[b]) /\ page[b].at = "idle"
  BY PageHas DEF Begin
<1>3. UNCHANGED <<scene, server, drawn, app>>
  BY DEF Begin
<1>4. /\ DOMAIN p = Fields /\ p.held = page[b].held /\ p.batch = page[b].batch /\ p.astray = page[b].astray
      /\ p.cursor = page[b].cursor /\ p.shown = page[b].shown /\ p.found = page[b].found
      /\ p.answer = page[b].answer /\ p.id = page[b].id /\ p.status = page[b].status
  BY <1>2 DEF Fields
<1>5. CASE work = "load" /\ p.status = "open"
  <2> HIDE DEF p
  <2>1. Becomes(b, Pulling(p))
    BY <1>1, <1>5 DEF p
  <2> DEFINE r == Pulling(p)
  <2>2. /\ DOMAIN r = Fields /\ r.held = page[b].held /\ r.batch = page[b].batch /\ r.astray = page[b].astray
        /\ r.cursor = page[b].cursor /\ r.shown = page[b].shown /\ r.found = 0 /\ r.answer = Nothing
        /\ r.at = "pull" /\ r.id = page[b].id /\ r.status = page[b].status
    BY <1>4, EndedIs
  <2> HIDE DEF r
  <2>3. Opened(r)
    BY <1>2, <1>4, <1>5, <2>2 DEF Opened
  <2> QED
    BY <1>3, <2>1, <2>2, <2>3, OffPageKeeps DEF r
<1>6. CASE ~(work = "load" /\ p.status = "open")
  <2>1. Becomes(b, q)
    BY <1>1, <1>6
  <2> HIDE DEF p
  <2>2. /\ DOMAIN q = Fields /\ q.held = page[b].held /\ q.batch = page[b].batch /\ q.astray = page[b].astray
        /\ q.cursor = page[b].cursor /\ q.shown = page[b].shown /\ q.found = page[b].found
        /\ q.answer = page[b].answer /\ q.at = "list" /\ q.id = page[b].id /\ q.status = page[b].status
    BY <1>4 DEF Fields
  <2> HIDE DEF q
  <2>3. Opened(q)
    BY <1>2, <2>2 DEF Opened
  <2> QED
    BY <1>3, <2>1, <2>2, <2>3, OffPageKeeps
<1> QED
  BY <1>5, <1>6

LEMMA ListingKeeps ==
    ASSUME IInv, NEW b \in Browsers, Listing(b)
    PROVE  IInv'
<1> DEFINE p == page[b]
           found == IF space = None THEN 0 ELSE space.id
           q == [p EXCEPT !.at = "listed", !.found = found]
<1>1. /\ DOMAIN p = Fields /\ Opened(p) /\ PageOf(p, Now) /\ ServerOf(Now) /\ Now.space = space
      /\ Becomes(b, q) /\ UNCHANGED <<scene, server, drawn, app>> /\ p.at = "list"
  BY PageHas DEF Listing
<1>2. found \in 0..Now.drawn
  BY <1>1, ServerFacts
<1> HIDE DEF found
<1>3. /\ DOMAIN q = Fields /\ q.held = p.held /\ q.batch = p.batch /\ q.astray = p.astray
      /\ q.cursor = p.cursor /\ q.shown = p.shown /\ q.found = found
      /\ q.answer = p.answer /\ q.at = "listed" /\ q.id = p.id /\ q.status = p.status
  BY <1>1 DEF Fields
<1> HIDE DEF p, q
<1>4. Opened(q)
  BY <1>1, <1>3 DEF Opened
<1>5. PageOf(q, Now)
  <2>1. PageFits(q, Now)
    BY <1>1, <1>2, <1>3, <1>4 DEF PageOf, PageFits
  <2>2. HeldRight(q, Now) /\ Stays(q.batch.took, Now)
    BY <1>1, <1>3 DEF PageOf, HeldRight, Shares
  <2>3. AnswerRight(q, Now)
    BY <1>3 DEF AnswerRight, Awaits
  <2> QED
    BY <2>1, <2>2, <2>3 DEF PageOf
<1>6. Inherits(p, q, Now)
  <2>1. \A d : d # 0 /\ (Now.space # None => Now.space.id # d) => q.found # d
    BY <1>1, <1>3 DEF found
  <2> QED
    BY <1>3, <2>1 DEF Inherits, Apart, Elsewhere
<1> QED
  BY <1>1, <1>5, <1>6, ClientKeeps DEF Becomes, p

LEMMA PuttingOnKeeps ==
    ASSUME IInv, NEW b \in Browsers, page[b].at = "put",
           Becomes(b, [page[b] EXCEPT !.at = "list", !.fresh = TRUE]), UNCHANGED <<scene, server, drawn, app>>
    PROVE  IInv'
<1> DEFINE q == [page[b] EXCEPT !.at = "list", !.fresh = TRUE]
<1>1. DOMAIN page[b] = Fields /\ Opened(page[b])
  BY PageHas
<1>2. /\ DOMAIN q = Fields /\ q.held = page[b].held /\ q.batch = page[b].batch /\ q.astray = page[b].astray
      /\ q.cursor = page[b].cursor /\ q.shown = page[b].shown /\ q.found = page[b].found
      /\ q.answer = page[b].answer /\ q.at = "list" /\ q.id = page[b].id /\ q.status = page[b].status
  BY <1>1 DEF Fields
<1>3. Becomes(b, q)
  OBVIOUS
<1> HIDE DEF q
<1>4. Opened(q)
  BY <1>1, <1>2 DEF Opened
<1> QED
  BY <1>2, <1>3, <1>4, OffPageKeeps

(* A pull that is given up, and a request that is lost.                    *)
LEMMA FailedKeeps ==
    ASSUME IInv, NEW b \in Browsers, Becomes(b, Failed(page[b])), UNCHANGED <<scene, server, drawn, app>>
    PROVE  IInv'
<1> DEFINE q == Failed(page[b])
<1>1. DOMAIN page[b] = Fields /\ Opened(page[b])
  BY PageHas
<1>2. /\ DOMAIN q = Fields /\ q.held = page[b].held /\ q.batch = page[b].batch /\ q.astray = page[b].astray
      /\ q.cursor = page[b].cursor /\ q.shown = page[b].shown /\ q.found = 0
      /\ q.answer = Nothing /\ q.at = "idle" /\ q.id = page[b].id /\ q.status = "error"
  BY <1>1, EndedIs
<1>3. Becomes(b, q)
  OBVIOUS
<1> HIDE DEF q
<1>4. Opened(q)
  BY <1>1, <1>2 DEF Opened
<1> QED
  BY <1>2, <1>3, <1>4, OffPageKeeps

LEMMA GivenUpKeeps ==
    ASSUME IInv, NEW b \in Browsers, Becomes(b, [Ended(page[b]) EXCEPT !.said = TRUE]),
           UNCHANGED <<scene, server, drawn, app>>
    PROVE  IInv'
<1> DEFINE e == Ended(page[b])
           q == [e EXCEPT !.said = TRUE]
<1>1. DOMAIN page[b] = Fields /\ Opened(page[b])
  BY PageHas
<1>2. /\ DOMAIN e = Fields /\ e.held = page[b].held /\ e.batch = page[b].batch /\ e.astray = page[b].astray
      /\ e.cursor = page[b].cursor /\ e.shown = page[b].shown /\ e.found = 0
      /\ e.answer = Nothing /\ e.at = "idle" /\ e.id = page[b].id /\ e.status = page[b].status
  BY <1>1, EndedIs
<1>3. Becomes(b, q)
  OBVIOUS
<1> HIDE DEF e
<1>4. /\ DOMAIN q = Fields /\ q.held = page[b].held /\ q.batch = page[b].batch /\ q.astray = page[b].astray
      /\ q.cursor = page[b].cursor /\ q.shown = page[b].shown /\ q.found = 0
      /\ q.answer = Nothing /\ q.at = "idle" /\ q.id = page[b].id /\ q.status = page[b].status
  BY <1>2 DEF Fields
<1> HIDE DEF q
<1>5. Opened(q)
  BY <1>1, <1>4 DEF Opened
<1> QED
  BY <1>3, <1>4, <1>5, OffPageKeeps

(* Steps that change what the invariant does not read.                     *)
LEMMA AsideKeeps ==
    ASSUME IInv, NEW b \in Browsers, NEW q, Becomes(b, q), UNCHANGED <<scene, server, drawn, app>>,
           DOMAIN q = Fields,
           q.held = page[b].held, q.batch = page[b].batch, q.astray = page[b].astray,
           q.cursor = page[b].cursor, q.shown = page[b].shown, q.found = page[b].found,
           q.answer = page[b].answer, q.at = page[b].at, q.id = page[b].id, q.status = page[b].status
    PROVE  IInv'
<1> DEFINE p == page[b]
<1>1. PageOf(p, Now) /\ Opened(p)
  BY PageHas
<1> HIDE DEF p
<1>2. /\ q.held = p.held /\ q.batch = p.batch /\ q.astray = p.astray /\ q.cursor = p.cursor /\ q.shown = p.shown
      /\ q.found = p.found /\ q.answer = p.answer /\ q.at = p.at /\ q.id = p.id /\ q.status = p.status
  BY DEF p
<1>3. PageOf(q, Now)
  <2>1. PageFits(q, Now)
    BY <1>1, <1>2 DEF PageOf, PageFits, Opened
  <2>2. HeldRight(q, Now) /\ Stays(q.batch.took, Now)
    BY <1>1, <1>2 DEF PageOf, HeldRight, Shares
  <2>3. AnswerRight(q, Now)
    BY <1>1, <1>2 DEF PageOf, AnswerRight, Awaits, Shares
  <2> QED
    BY <2>1, <2>2, <2>3 DEF PageOf
<1>4. Inherits(p, q, Now)
  BY <1>2 DEF Inherits, Apart, Elsewhere, Named
<1> QED
  BY <1>3, <1>4, ClientKeeps DEF Becomes, p

(***************************************************************************)
(* What a pull brings                                                      *)
(***************************************************************************)
LEMMA AboveFinite ==
    ASSUME ServerOf(Now), NEW since \in Nat
    PROVE  IsFiniteSet(Above(since)) /\ Above(since) \subseteq DOMAIN rec
<1>1. Above(since) \in SUBSET DOMAIN rec
  BY DEF Above
<1>2. IsFiniteSet(DOMAIN rec)
  BY DEF ServerOf, Now
<1> QED
  BY <1>1, <1>2, FS_Subset

(* What is before a record of the page is in it too.                       *)
LEMMA FirstOfDown ==
    ASSUME ServerOf(Now), NEW since \in Nat, NEW r \in FirstOf(since), NEW q \in Above(since),
           rec[q].seq <= rec[r].seq
    PROVE  q \in FirstOf(since)
<1> DEFINE U(x) == {y \in Above(since) : rec[y].seq <= rec[x].seq}
<1>1. r \in Above(since) /\ Cardinality(U(r)) <= Page
  BY DEF FirstOf
<1>2. \A x \in DOMAIN rec : rec[x].seq \in Nat
  BY ServerFacts DEF Now
<1>3. IsFiniteSet(Above(since)) /\ Above(since) \subseteq DOMAIN rec
  BY AboveFinite
<1>4. U(q) \in SUBSET U(r) /\ U(r) \in SUBSET Above(since)
  BY <1>1, <1>2, <1>3
<1>5. IsFiniteSet(U(r))
  BY <1>3, <1>4, FS_Subset
<1>6. Cardinality(U(q)) <= Cardinality(U(r)) /\ IsFiniteSet(U(q))
  <2> HIDE DEF U
  <2> QED
    BY <1>4, <1>5, FS_Subset
<1>7. Cardinality(U(q)) \in Nat /\ Cardinality(U(r)) \in Nat
  <2> HIDE DEF U
  <2> QED
    BY <1>5, <1>6, FS_CardinalityType
<1>8. Cardinality(U(q)) <= Page
  <2> HIDE DEF U
  <2> QED
    BY <1>1, <1>6, <1>7
<1> QED
  BY <1>8 DEF FirstOf

(* A page is empty only when there is nothing above.                       *)
LEMMA FirstOfSome ==
    ASSUME ServerOf(Now), NEW since \in Nat, Above(since) # {}
    PROVE  FirstOf(since) # {}
<1> DEFINE S == {rec[r].seq : r \in Above(since)}
<1>1. IsFiniteSet(Above(since)) /\ Above(since) \subseteq DOMAIN rec
  BY AboveFinite
<1>2. \A x \in DOMAIN rec : rec[x].seq \in Nat
  BY ServerFacts DEF Now
<1>3. S \in SUBSET Nat
  BY <1>1, <1>2
<1>4. S # {}
  OBVIOUS
<1>5. PICK n \in S : \A m \in S : n <= m
  <2> HIDE DEF S
  <2> QED
    BY <1>3, <1>4, Least
<1>6. PICK r \in Above(since) : n = rec[r].seq
  OBVIOUS
<1>7. {y \in Above(since) : rec[y].seq <= rec[r].seq} = {r}
  <2>1. ASSUME NEW y \in Above(since), rec[y].seq <= rec[r].seq PROVE y = r
    <3>1. rec[r].seq <= rec[y].seq
      BY <1>5, <1>6
    <3>2. rec[r].seq = rec[y].seq
      BY <1>1, <1>2, <2>1, <3>1
    <3> QED
      BY <1>1, <3>2 DEF ServerOf, Now
  <2>2. rec[r].seq <= rec[r].seq
    BY <1>1, <1>2
  <2> QED
    BY <2>1, <2>2
<1>8. Cardinality({r}) = 1
  BY FS_Singleton
<1>9. 1 <= Page
  OBVIOUS
<1>10. r \in FirstOf(since)
  BY <1>7, <1>8, <1>9 DEF FirstOf
<1> QED
  BY <1>10

LEMMA LastNumberIs ==
    ASSUME ServerOf(Now), NEW since \in Nat, FirstOf(since) # {}
    PROVE  /\ \E r \in FirstOf(since) : LastNumber(since, FirstOf(since)) = rec[r].seq
           /\ \A r \in FirstOf(since) : rec[r].seq <= LastNumber(since, FirstOf(since))
<1> DEFINE F == FirstOf(since)
           S == {rec[r].seq : r \in F}
<1>1. F \subseteq DOMAIN rec
  BY DEF FirstOf, Above
<1>2. \A x \in DOMAIN rec : rec[x].seq \in Nat /\ rec[x].seq <= number
  BY ServerFacts DEF Now
<1>3. number \in Nat
  BY ServerFacts DEF Now
<1> HIDE DEF F
<1>4. S \in SUBSET Nat /\ \A x \in S : x <= number
  BY <1>1, <1>2
<1>5. S # {}
  BY DEF F
<1>6. PICK n \in S : \A m \in S : m <= n
  <2> HIDE DEF S
  <2> QED
    BY <1>3, <1>4, <1>5, Largest
<1>7. \A r \in F : rec[r].seq <= n
  BY <1>6
<1>8. \E m \in S : \A r \in F : rec[r].seq <= m
  BY <1>7
<1> DEFINE L == CHOOSE m \in S : \A r \in F : rec[r].seq <= m
<1>9. L \in S /\ \A r \in F : rec[r].seq <= L
  <2> HIDE DEF S
  <2> QED
    BY <1>8
<1>10. LastNumber(since, F) = L
  BY DEF LastNumber, F
<1> HIDE DEF L
<1> QED
  BY <1>9, <1>10 DEF F

(* The answer to a pull.                                                   *)
Brings(s, since, a) ==
    /\ since = 0 \/ s.pruned <= since
    /\ since <= a.cursor
    /\ \A r \in DOMAIN a.recs : r \in DOMAIN s.rec /\ a.recs[r] = s.rec[r]
    /\ \A r \in DOMAIN s.rec : since < s.rec[r].seq /\ s.rec[r].seq <= a.cursor => r \in DOMAIN a.recs

LEMMA PullIs ==
    ASSUME ServerOf(Now), NEW since \in 0..number, space # None
    PROVE  LET a == SuitePull(since)
           IN  /\ AnswerOf(a, Now)
               /\ \A d : Clean(rec, d) => Clean(a.recs, d)
               /\ ~a.reset => Brings(Now, since, a) /\ (a.more => since < a.cursor)
<1> DEFINE a == SuitePull(since)
           F == FirstOf(since)
<1>0. number \in Nat /\ pruned \in Nat /\ Now.rec = rec /\ Now.number = number /\ Now.pruned = pruned
  BY ServerFacts DEF Now
<1>1. CASE FromBefore(since)
  <2>1. /\ DOMAIN a = {"reset", "recs", "cursor", "more"} /\ a.reset = TRUE
        /\ a.recs = Empty /\ a.cursor = since
    BY <1>1 DEF SuitePull, Nothing
  <2>2. Past(Empty, Now) /\ DOMAIN Empty = {}
    BY EmptyPast
  <2> HIDE DEF a
  <2>3. AnswerOf(a, Now)
    BY <1>0, <2>1, <2>2 DEF AnswerOf, AnswerShape
  <2> QED
    BY <2>1, <2>2, <2>3 DEF Clean, a
<1>2. CASE ~FromBefore(since)
  <2>1. a = [reset |-> FALSE, recs |-> Only(rec, F), cursor |-> LastNumber(since, F), more |-> F # Above(since)]
    BY <1>2 DEF SuitePull
  <2>2. since = 0 \/ pruned <= since
    BY <1>0, <1>2 DEF FromBefore
  <2>3. F \subseteq Above(since) /\ Above(since) \subseteq DOMAIN rec
    BY DEF FirstOf, Above
  <2>4. Past(rec, Now)
    BY DEF ServerOf, Now
  <2>5. /\ Past(Only(rec, F), Now) /\ DOMAIN Only(rec, F) = DOMAIN rec \cap F
        /\ \A r \in DOMAIN rec \cap F : Only(rec, F)[r] = rec[r]
    BY <2>4, OnlyPast
  <2>6. \A r \in DOMAIN rec : rec[r].seq \in Nat /\ rec[r].seq <= number
    BY <1>0, ServerFacts
  <2>7. CASE F = {}
    <3>1. Above(since) = {}
      BY <2>7, FirstOfSome
    <3>2. a.cursor = since /\ a.recs = Only(rec, F) /\ a.more = FALSE /\ a.reset = FALSE
          /\ DOMAIN a = {"reset", "recs", "cursor", "more"}
      <4>1. LastNumber(since, F) = since
        BY <2>7 DEF LastNumber
      <4> HIDE DEF a, F
      <4> QED
        BY <2>1, <2>7, <3>1, <4>1
    <3> HIDE DEF a, F
    <3>3. AnswerOf(a, Now)
      BY <1>0, <2>5, <3>2 DEF AnswerOf, AnswerShape
    <3>4. \A r \in DOMAIN rec : ~(since < rec[r].seq)
      BY <2>6, <3>1 DEF Above
    <3>5. Brings(Now, since, a)
      BY <1>0, <2>2, <2>5, <3>2, <3>4 DEF Brings
    <3>6. \A d : Clean(rec, d) => Clean(a.recs, d)
      BY <2>5, <3>2 DEF Clean
    <3> QED
      BY <3>2, <3>3, <3>5, <3>6 DEF a
  <2>8. CASE F # {}
    <3>1. /\ \E r \in F : LastNumber(since, F) = rec[r].seq
          /\ \A r \in F : rec[r].seq <= LastNumber(since, F)
      BY <2>8, LastNumberIs
    <3>2. PICK l \in F : LastNumber(since, F) = rec[l].seq
      BY <3>1
    <3>3. a.cursor = rec[l].seq /\ a.recs = Only(rec, F) /\ a.reset = FALSE
          /\ DOMAIN a = {"reset", "recs", "cursor", "more"}
      BY <2>1, <3>2
    <3>4. since < rec[l].seq /\ rec[l].seq <= number /\ rec[l].seq \in Nat
      BY <2>3, <2>6 DEF Above
    <3>5. ASSUME NEW r \in DOMAIN rec, since < rec[r].seq, rec[r].seq <= rec[l].seq
          PROVE  r \in F
      BY <3>5, FirstOfDown DEF Above
    <3> HIDE DEF a, F
    <3>6. AnswerOf(a, Now)
      BY <1>0, <2>5, <3>3, <3>4 DEF AnswerOf, AnswerShape
    <3>7. Brings(Now, since, a)
      BY <1>0, <2>2, <2>5, <3>3, <3>4, <3>5 DEF Brings
    <3>8. \A d : Clean(rec, d) => Clean(a.recs, d)
      BY <2>5, <3>3 DEF Clean
    <3> QED
      BY <3>3, <3>4, <3>6, <3>7, <3>8 DEF a
  <2> QED
    BY <2>7, <2>8
<1> QED
  BY <1>1, <1>2

(* It brings what is between the two cursors.                              *)
LEMMA CompletePull ==
    ASSUME NEW s, ServerOf(s), NEW f, Past(f, s), NEW since \in Nat, NEW a, Brings(s, since, a), a.cursor \in Nat,
           CompleteAt(s, f, since),
           since = 0 => \A r \in DOMAIN f \ DOMAIN s.rec : f[r].gone \/ f[r].key # s.space.id
    PROVE  CompleteAt(s, Taken(f, a.recs), a.cursor)
<1>1. /\ s.pruned \in Nat
      /\ \A r \in DOMAIN s.rec : s.rec[r].seq \in Nat
      /\ \A r \in DOMAIN f : /\ f[r].seq \in Nat
                             /\ r \in DOMAIN s.rec => f[r].seq <= s.rec[r].seq /\ (f[r].seq = s.rec[r].seq => f[r] = s.rec[r])
  BY ServerFacts, PastFacts
<1> DEFINE T == Taken(f, a.recs)
<1>2. DOMAIN T = DOMAIN f \cup DOMAIN a.recs
  BY TakenIs
<1>3. \A r \in DOMAIN f \cup DOMAIN a.recs :
         T[r] = IF r \in DOMAIN a.recs /\ (r \in DOMAIN f => a.recs[r].seq > f[r].seq) THEN a.recs[r] ELSE f[r]
  BY TakenIs
<1> HIDE DEF T
<1>4. ASSUME NEW r \in DOMAIN s.rec, s.rec[r].seq <= a.cursor
      PROVE  r \in DOMAIN T /\ T[r] = s.rec[r]
  <2>1. CASE s.rec[r].seq <= since
    <3>1. r \in DOMAIN f /\ f[r] = s.rec[r]
      BY <2>1 DEF CompleteAt
    <3>2. r \in DOMAIN a.recs => a.recs[r] = s.rec[r]
      BY DEF Brings
    <3> QED
      BY <1>1, <1>2, <1>3, <3>1, <3>2
  <2>2. CASE since < s.rec[r].seq
    <3>1. r \in DOMAIN a.recs /\ a.recs[r] = s.rec[r]
      BY <1>4, <2>2 DEF Brings
    <3> QED
      BY <1>1, <1>2, <1>3, <3>1
  <2> QED
    BY <1>1, <2>1, <2>2
<1>5. ASSUME NEW r \in DOMAIN T \ DOMAIN s.rec
      PROVE  T[r].gone \/ T[r].key # s.space.id \/ a.cursor < s.pruned
  <2>1. r \notin DOMAIN a.recs
    BY <1>5 DEF Brings
  <2>2. r \in DOMAIN f /\ T[r] = f[r]
    BY <1>2, <1>3, <1>5, <2>1
  <2>3. f[r].gone \/ f[r].key # s.space.id \/ since < s.pruned
    BY <1>5, <2>2 DEF CompleteAt
  <2>4. since = 0 \/ s.pruned <= since
    BY DEF Brings
  <2> QED
    BY <1>1, <1>5, <2>2, <2>3, <2>4
<1> QED
  BY <1>4, <1>5 DEF CompleteAt, T

LEMMA NewlyOpen ==
    ASSUME NEW i \in Nat
    PROVE  [id |-> i, recs |-> Empty] # None
<1>1. Empty \in [{} -> Record]
  BY DEF Empty
<1>2. Empty \in Records
  BY <1>1 DEF Records
<1> QED
  BY <1>2, NoneAssumption

LEMMA ReadableIs ==
    ASSUME NEW h, NEW s, Past(h.recs, s)
    PROVE  ShownOf(Readable(h))
<1>1. DOMAIN Readable(h) \subseteq DOMAIN h.recs /\ \A r \in DOMAIN Readable(h) : Readable(h)[r] = h.recs[r].write
  BY DEF Readable
<1>2. DOMAIN h.recs \subseteq Ids /\ \A r \in DOMAIN h.recs : h.recs[r].write \in 0..MaxNumber
  BY PastFacts
<1> QED
  BY <1>1, <1>2 DEF ShownOf

LEMMA ShowKeeps ==
    ASSUME IInv, NEW b \in Browsers, Show(b)
    PROVE  IInv'
<1> DEFINE p == page[b]
           e == Ended(p)
           q == [e EXCEPT !.status = "open", !.shown = Readable(p.held)]
<1>1. /\ DOMAIN p = Fields /\ Opened(p) /\ PageOf(p, Now) /\ ServerOf(Now)
      /\ Becomes(b, q) /\ UNCHANGED <<scene, server, drawn, app>> /\ p.at = "show"
  BY PageHas DEF Show
<1>2. /\ DOMAIN e = Fields /\ e.held = p.held /\ e.batch = p.batch /\ e.astray = p.astray
      /\ e.cursor = p.cursor /\ e.found = 0 /\ e.answer = Nothing /\ e.at = "idle" /\ e.id = p.id
  BY <1>1, EndedIs
<1> HIDE DEF e, p
<1>3. /\ DOMAIN q = Fields /\ q.held = p.held /\ q.batch = p.batch /\ q.astray = p.astray
      /\ q.cursor = p.cursor /\ q.shown = Readable(p.held) /\ q.found = 0 /\ q.answer = Nothing
      /\ q.at = "idle" /\ q.id = p.id /\ q.status = "open"
  BY <1>2 DEF Fields
<1> HIDE DEF q
<1>4. p.held # None /\ Opened(q)
  BY <1>1, <1>3 DEF Opened
<1>5. ShownOf(q.shown)
  BY <1>1, <1>3, <1>4, ReadableIs DEF PageOf, PageFits, HeldOf
<1>6. AnswerOf(Nothing, Now) /\ Nothing.recs = Empty /\ DOMAIN Empty = {}
  <2>1. Nothing.recs = Empty /\ Nothing.cursor = 0 /\ AnswerShape(Nothing)
    BY DEF Nothing, AnswerShape
  <2>2. Now.number \in Nat
    BY <1>1, ServerFacts
  <2> QED
    BY <2>1, <2>2, EmptyPast DEF AnswerOf
<1>7. PageOf(q, Now)
  <2>1. 0 \in 0..Now.drawn
    BY <1>1, ServerFacts
  <2>2. PageFits(q, Now)
    BY <1>1, <1>3, <1>4, <1>5, <1>6, <2>1 DEF PageOf, PageFits
  <2>3. HeldRight(q, Now) /\ Stays(q.batch.took, Now)
    BY <1>1, <1>3 DEF PageOf, HeldRight, Shares
  <2>4. AnswerRight(q, Now)
    BY <1>3 DEF AnswerRight, Awaits
  <2> QED
    BY <2>2, <2>3, <2>4 DEF PageOf
<1>8. Inherits(p, q, Now)
  BY <1>3, <1>6 DEF Inherits, Apart, Elsewhere, Clean
<1> QED
  BY <1>1, <1>7, <1>8, ClientKeeps DEF Becomes, p

LEMMA CompleteEmpty ==
    ASSUME NEW s, ServerOf(s)
    PROVE  CompleteAt(s, Empty, 0)
<1>1. \A r \in DOMAIN s.rec : ~(s.rec[r].seq <= 0)
  BY ServerFacts
<1>2. DOMAIN Empty = {}
  BY DEF Empty
<1> QED
  BY <1>1, <1>2 DEF CompleteAt

LEMMA ListedKeeps ==
    ASSUME IInv, NEW b \in Browsers, Listed(b)
    PROVE  IInv'
<1> DEFINE p == page[b]
           fresh == p.fresh \/ p.found # p.id
           e == Ended(p)
           o == Pulling(p)
<1>1. /\ DOMAIN p = Fields /\ Opened(p) /\ PageOf(p, Now) /\ ServerOf(Now)
      /\ UNCHANGED <<scene, server, drawn, app>> /\ p.at = "listed"
  BY PageHas DEF Listed
<1>2. CASE p.found = 0
  <2> DEFINE q == [e EXCEPT !.status = "none", !.cursor = 0]
  <2>1. Becomes(b, q)
    BY <1>2 DEF Listed
  <2>2. /\ DOMAIN e = Fields /\ e.held = p.held /\ e.batch = p.batch /\ e.astray = p.astray
        /\ e.shown = p.shown /\ e.found = 0 /\ e.answer = Nothing /\ e.at = "idle" /\ e.id = p.id
    BY <1>1, EndedIs
  <2> HIDE DEF e
  <2>3. /\ DOMAIN q = Fields /\ q.held = p.held /\ q.batch = p.batch /\ q.astray = p.astray
        /\ q.cursor = 0 /\ q.shown = p.shown /\ q.found = 0 /\ q.answer = Nothing
        /\ q.at = "idle" /\ q.id = p.id /\ q.status = "none"
    BY <2>2 DEF Fields
  <2> HIDE DEF q
  <2>4. Opened(q)
    BY <1>1, <2>3 DEF Opened
  <2> QED
    BY <1>1, <2>1, <2>3, <2>4, OffPageKeeps
<1>3. CASE p.found # 0
  <2> DEFINE held == OpenSpace(p.held, p.found, fresh)
             astray == ~fresh /\ (p.astray \/ p.held.id # p.found)
             q == [o EXCEPT !.held = held, !.id = p.found, !.cursor = IF fresh THEN 0 ELSE p.cursor, !.astray = astray]
  <2>1. Becomes(b, q)
    BY <1>3 DEF Listed
  <2>2. /\ DOMAIN o = Fields /\ o.batch = p.batch /\ o.cursor = p.cursor
        /\ o.shown = p.shown /\ o.found = 0 /\ o.answer = Nothing /\ o.at = "pull"
    BY <1>1, EndedIs
  <2>3. fresh \in BOOLEAN
    OBVIOUS
  <2>4. held = IF p.held # None /\ p.held.id = p.found /\ ~fresh THEN p.held ELSE [id |-> p.found, recs |-> Empty]
    BY DEF OpenSpace
  <2>5. ~fresh => p.held # None
    BY <1>1, <1>3 DEF Opened
  <2> HIDE DEF held, astray, fresh, o
  <2>6. /\ DOMAIN q = Fields /\ q.held = held /\ q.batch = p.batch /\ q.astray = astray
        /\ q.cursor = (IF fresh THEN 0 ELSE p.cursor) /\ q.shown = p.shown /\ q.found = 0 /\ q.answer = Nothing
        /\ q.at = "pull" /\ q.id = p.found
    BY <2>2 DEF Fields
  <2> HIDE DEF q
  <2>7. /\ p.found \in 1..Now.drawn /\ Now.number \in Nat /\ Now.drawn \in Nat
        /\ p.cursor \in Nat /\ p.cursor <= Now.number
    BY <1>1, <1>3, ServerFacts DEF PageOf, PageFits
  <2>8. Past(Empty, Now) /\ DOMAIN Empty = {}
    BY EmptyPast
  <2>9. HeldOf(held, Now) /\ held # None /\ held.id = p.found
    <3>1. CASE held = p.held /\ p.held # None /\ p.held.id = p.found
      BY <1>1, <3>1 DEF PageOf, PageFits
    <3>2. CASE held = [id |-> p.found, recs |-> Empty]
      <4>1. held # None
        BY <2>7, <3>2, NewlyOpen
      <4> QED
        BY <2>7, <2>8, <3>2, <4>1 DEF HeldOf, HeldShape
    <3> QED
      BY <2>4, <3>1, <3>2
  <2>10. AnswerOf(Nothing, Now) /\ Nothing.recs = Empty
    <3>1. Nothing.recs = Empty /\ Nothing.cursor = 0 /\ AnswerShape(Nothing)
      BY DEF Nothing, AnswerShape
    <3> QED
      BY <2>7, <2>8, <3>1 DEF AnswerOf
  <2>11. PageFits(q, Now)
    <3>1. q.cursor \in 0..Now.number /\ q.found \in 0..Now.drawn
      BY <2>6, <2>7
    <3>2. Opened(q)
      BY <2>6, <2>9 DEF Opened
    <3> QED
      BY <1>1, <2>6, <2>9, <2>10, <3>1, <3>2 DEF PageOf, PageFits
  <2>12. HeldRight(q, Now)
    <3>1. ASSUME Shares(q, Now), ~q.astray PROVE CompleteAt(Now, q.held.recs, q.cursor)
      <4>1. CASE fresh
        <5>1. q.held.recs = Empty /\ q.cursor = 0
          BY <2>4, <2>6, <4>1
        <5> QED
          BY <1>1, <5>1, CompleteEmpty
      <4>2. CASE ~fresh
        <5>1. ~p.astray /\ p.held.id = p.found
          BY <2>6, <3>1, <4>2 DEF astray
        <5>2. q.held = p.held /\ q.cursor = p.cursor
          BY <2>4, <2>5, <2>6, <4>2, <5>1
        <5> QED
          BY <1>1, <3>1, <5>1, <5>2 DEF PageOf, HeldRight, Shares
      <4> QED
        BY <4>1, <4>2
    <3> QED
      BY <3>1 DEF HeldRight
  <2>13. AnswerRight(q, Now) /\ Stays(q.batch.took, Now)
    BY <1>1, <2>6 DEF AnswerRight, Awaits, PageOf
  <2>14. Inherits(p, q, Now)
    <3>1. ASSUME NEW d, d # 0, Apart(p, d) PROVE Apart(q, d) /\ (Elsewhere(p, d) => Elsewhere(q, d))
      <4>1. Clean(held.recs, d)
        BY <2>4, <2>8, <3>1 DEF Apart, Clean
      <4>2. held.id # d
        BY <2>9, <3>1 DEF Apart
      <4> QED
        BY <2>6, <2>8, <2>10, <3>1, <4>1, <4>2 DEF Apart, Elsewhere, Clean
    <3> QED
      BY <2>6, <3>1 DEF Inherits
  <2>15. PageOf(q, Now)
    BY <2>11, <2>12, <2>13 DEF PageOf
  <2> QED
    BY <1>1, <2>1, <2>14, <2>15, ClientKeeps DEF Becomes
<1> QED
  BY <1>2, <1>3

LEMMA HeldIsNotNone ==
    ASSUME NEW i \in Nat, NEW f, NEW s, Past(f, s)
    PROVE  [id |-> i, recs |-> f] # None
<1>1. f \in Records
  BY DEF Past, IsMap, Records
<1>2. [id |-> i, recs |-> f] \in [id : Nat, recs : Records]
  BY <1>1
<1> QED
  BY <1>2, NoneAssumption

LEMMA WithRecsIs ==
    ASSUME NEW s, ServerOf(s), NEW h, HeldOf(h, s), h # None, NEW f, Past(f, s)
    PROVE  LET k == [h EXCEPT !.recs = f] IN HeldOf(k, s) /\ k # None /\ k.id = h.id /\ k.recs = f
<1> DEFINE k == [h EXCEPT !.recs = f]
<1>1. HeldShape(h) /\ h.id \in 1..s.drawn /\ s.drawn \in Nat
  BY ServerFacts DEF HeldOf
<1>2. DOMAIN k = {"id", "recs"} /\ k.id = h.id /\ k.recs = f
  BY <1>1 DEF HeldShape
<1>3. k = [id |-> h.id, recs |-> f]
  BY <1>1 DEF HeldShape
<1>4. k # None
  BY <1>1, <1>3, HeldIsNotNone
<1> QED
  BY <1>1, <1>2, <1>4 DEF HeldOf, HeldShape

LEMMA PullKeeps ==
    ASSUME IInv, NEW b \in Browsers, Pull(b)
    PROVE  IInv'
<1> DEFINE p == page[b]
           a == SuitePull(p.cursor)
           astray == p.astray \/ (p.cursor = 0 /\ KeepsForgotten(p))
           q == [p EXCEPT !.at = "page", !.answer = a, !.astray = astray]
<1>1. /\ DOMAIN p = Fields /\ Opened(p) /\ PageOf(p, Now) /\ ServerOf(Now)
      /\ UNCHANGED <<scene, server, drawn, app>> /\ p.at = "pull"
      /\ Now.space = space /\ Now.rec = rec /\ Now.number = number
  BY PageHas DEF Pull
<1>2. CASE p.round = MaxRounds \/ space = None
  BY <1>1, <1>2, FailedKeeps DEF Pull
<1>3. CASE ~(p.round = MaxRounds \/ space = None)
  <2>1. Becomes(b, q)
    BY <1>3 DEF Pull
  <2>2. /\ DOMAIN q = Fields /\ q.held = p.held /\ q.batch = p.batch /\ q.astray = astray /\ q.id = p.id
        /\ q.cursor = p.cursor /\ q.shown = p.shown /\ q.found = p.found /\ q.answer = a /\ q.at = "page"
    <3> HIDE DEF a, astray, p
    <3> QED
      BY <1>1 DEF Fields
  <2>3. p.cursor \in 0..number /\ p.held # None /\ HeldOf(p.held, Now)
    BY <1>1 DEF PageOf, PageFits, Opened
  <2>4. /\ AnswerOf(a, Now)
        /\ \A d : Clean(rec, d) => Clean(a.recs, d)
        /\ ~a.reset => Brings(Now, p.cursor, a) /\ (a.more => p.cursor < a.cursor)
    BY <1>1, <1>3, <2>3, PullIs
  <2> HIDE DEF p, a, q
  <2>5. PageFits(q, Now)
    <3>1. Opened(q)
      BY <2>2, <2>3 DEF Opened
    <3> QED
      BY <1>1, <2>2, <2>4, <3>1 DEF PageOf, PageFits
  <2>6. HeldRight(q, Now) /\ Stays(q.batch.took, Now)
    BY <1>1, <2>2 DEF PageOf, HeldRight, Shares, astray
  <2>7. AnswerRight(q, Now)
    <3>1. ASSUME ~a.reset, Shares(q, Now), ~astray
          PROVE  CompleteAt(Now, Taken(p.held.recs, a.recs), a.cursor)
      <4>1. CompleteAt(Now, p.held.recs, p.cursor)
        BY <1>1, <2>2, <3>1 DEF PageOf, HeldRight, Shares, astray
      <4>2. p.cursor = 0 =>
               \A r \in DOMAIN p.held.recs \ DOMAIN Now.rec : p.held.recs[r].gone \/ p.held.recs[r].key # Now.space.id
        BY <1>1, <2>2, <3>1 DEF astray, KeepsForgotten, Shares
      <4>3. a.cursor \in Nat /\ p.cursor \in Nat /\ Past(p.held.recs, Now)
        BY <2>3, <2>4 DEF AnswerOf, HeldOf
      <4> QED
        BY <1>1, <2>4, <3>1, <4>1, <4>2, <4>3, CompletePull
    <3> QED
      BY <2>2, <2>4, <3>1 DEF AnswerRight, Awaits
  <2>8. Inherits(p, q, Now)
    BY <1>1, <2>2, <2>4 DEF Inherits, Apart, Elsewhere
  <2>9. PageOf(q, Now)
    BY <2>5, <2>6, <2>7 DEF PageOf
  <2> QED
    BY <1>1, <2>1, <2>8, <2>9, ClientKeeps DEF Becomes, p
<1> QED
  BY <1>2, <1>3

(* A page that holds something else, and reads on or shows it.             *)
LEMMA HoldsKeeps ==
    ASSUME IInv, NEW b \in Browsers, NEW q, Becomes(b, q), UNCHANGED <<scene, server, drawn, app>>,
           page[b].held # None, page[b].at = "page",
           DOMAIN q = Fields, HeldOf(q.held, Now), q.held # None, q.held.id = page[b].held.id,
           \A d : Apart(page[b], d) => Clean(q.held.recs, d),
           q.batch = page[b].batch, q.shown = page[b].shown, q.found = page[b].found, q.answer = Nothing,
           q.cursor \in 0..Now.number, q.at \in {"pull", "show"},
           HeldRight(q, Now)
    PROVE  IInv'
<1> DEFINE p == page[b]
<1>1. PageOf(p, Now) /\ ServerOf(Now)
  BY PageHas
<1> HIDE DEF p
<1>2. q.batch = p.batch /\ q.shown = p.shown /\ q.found = p.found
  BY DEF p
<1>3. AnswerOf(Nothing, Now) /\ Nothing.recs = Empty /\ DOMAIN Empty = {}
  <2>1. Nothing.recs = Empty /\ Nothing.cursor = 0 /\ AnswerShape(Nothing)
    BY DEF Nothing, AnswerShape
  <2>2. Now.number \in Nat
    BY <1>1, ServerFacts
  <2> QED
    BY <2>1, <2>2, EmptyPast DEF AnswerOf
<1>4. PageFits(q, Now)
  BY <1>1, <1>2, <1>3 DEF PageOf, PageFits, Opened
<1>5. AnswerRight(q, Now) /\ Stays(q.batch.took, Now)
  BY <1>1, <1>2 DEF AnswerRight, Awaits, PageOf
<1>6. Inherits(p, q, Now)
  <2>1. \A d : Apart(p, d) => Apart(q, d)
    BY <1>2, <1>3 DEF Apart, Clean, p
  <2>2. \A d : Elsewhere(p, d) => Elsewhere(q, d)
    BY <1>2 DEF Elsewhere, p
  <2> QED
    BY <2>1, <2>2 DEF Inherits
<1>7. PageOf(q, Now)
  BY <1>4, <1>5 DEF PageOf
<1> QED
  BY <1>6, <1>7, ClientKeeps DEF Becomes, p

LEMMA TakenClean ==
    ASSUME NEW f, NEW g, NEW d, Clean(f, d), Clean(g, d)
    PROVE  Clean(Taken(f, g), d)
<1>1. DOMAIN Taken(f, g) = DOMAIN f \cup DOMAIN g
  BY TakenIs
<1>2. \A r \in DOMAIN f \cup DOMAIN g :
         Taken(f, g)[r] = IF r \in DOMAIN g /\ (r \in DOMAIN f => g[r].seq > f[r].seq) THEN g[r] ELSE f[r]
  BY TakenIs
<1> QED
  BY <1>1, <1>2 DEF Clean

LEMMA PageTakenKeeps ==
    ASSUME IInv, NEW b \in Browsers, PageTaken(b)
    PROVE  IInv'
<1> DEFINE p == page[b]
           a == p.answer
           q0 == [p EXCEPT !.answer = Nothing, !.round = @ + 1, !.at = "pull"]
<1>1. /\ DOMAIN p = Fields /\ Opened(p) /\ PageOf(p, Now) /\ ServerOf(Now)
      /\ UNCHANGED <<scene, server, drawn, app>> /\ p.at = "page"
  BY PageHas DEF PageTaken
<1>2. p.held # None /\ HeldOf(p.held, Now) /\ AnswerOf(a, Now)
  BY <1>1 DEF Opened, PageOf, PageFits
<1>3. /\ DOMAIN q0 = Fields /\ q0.held = p.held /\ q0.batch = p.batch /\ q0.shown = p.shown
      /\ q0.found = p.found /\ q0.answer = Nothing /\ q0.at = "pull"
  <2> HIDE DEF p
  <2> QED
    BY <1>1 DEF Fields
<1>4. CASE a.reset /\ p.again
  BY <1>1, <1>4, FailedKeeps DEF PageTaken
<1>5. CASE a.reset /\ ~p.again
  <2> DEFINE k == [p.held EXCEPT !.recs = Empty]
             q == [q0 EXCEPT !.again = TRUE, !.held = k, !.cursor = 0, !.astray = FALSE]
  <2>1. Becomes(b, q)
    <3>1. [q0 EXCEPT !.again = TRUE, !.held.recs = Empty, !.cursor = 0, !.astray = FALSE] = q
      <4> HIDE DEF q0, p
      <4>1. [q0.held EXCEPT !.recs = Empty] = [p.held EXCEPT !.recs = Empty]
        BY <1>3
      <4> QED
        BY <1>3, <4>1 DEF Fields
    <3> QED
      BY <1>5, <3>1 DEF PageTaken
  <2>2. Past(Empty, Now) /\ DOMAIN Empty = {}
    BY EmptyPast
  <2>3. HeldOf(k, Now) /\ k # None /\ k.id = p.held.id /\ k.recs = Empty
    BY <1>1, <1>2, <2>2, WithRecsIs
  <2> HIDE DEF k, q0
  <2>4. /\ DOMAIN q = Fields /\ q.held = k /\ q.batch = p.batch /\ q.shown = p.shown /\ q.cursor = 0
        /\ q.found = p.found /\ q.answer = Nothing /\ q.at = "pull"
    BY <1>3 DEF Fields
  <2> HIDE DEF q
  <2>5. HeldRight(q, Now)
    BY <1>1, <2>3, <2>4, CompleteEmpty DEF HeldRight
  <2>6. \A d : Clean(q.held.recs, d)
    BY <2>2, <2>3, <2>4 DEF Clean
  <2>7. 0 \in 0..Now.number
    BY <1>1, ServerFacts
  <2> QED
    BY <1>1, <1>2, <2>1, <2>3, <2>4, <2>5, <2>6, <2>7, HoldsKeeps
<1>6. CASE ~a.reset
  <2> DEFINE k == Merged(p.held, a.recs)
             at == IF a.more THEN "pull" ELSE "show"
             q == [q0 EXCEPT !.again = FALSE, !.held = k, !.cursor = a.cursor, !.at = at]
  <2>1. a.more => p.cursor < a.cursor
    BY <1>1, <1>6 DEF PageOf, AnswerRight, Awaits
  <2>2. p.cursor \in Nat /\ a.cursor \in Nat /\ a.cursor \in 0..Now.number /\ Past(a.recs, Now) /\ Past(p.held.recs, Now)
    BY <1>1, <1>2, ServerFacts DEF PageOf, PageFits, AnswerOf, HeldOf
  <2>3. ~(a.more /\ a.cursor <= p.cursor)
    BY <2>1, <2>2
  <2>4. Becomes(b, q)
    BY <1>6, <2>3 DEF PageTaken
  <2>5. Past(Taken(p.held.recs, a.recs), Now)
    BY <2>2, TakenPast
  <2>6. HeldOf(k, Now) /\ k # None /\ k.id = p.held.id /\ k.recs = Taken(p.held.recs, a.recs)
    BY <1>1, <1>2, <2>5, WithRecsIs DEF Merged
  <2> HIDE DEF k, q0, at
  <2>7. /\ DOMAIN q = Fields /\ q.held = k /\ q.batch = p.batch /\ q.shown = p.shown /\ q.cursor = a.cursor
        /\ q.found = p.found /\ q.answer = Nothing /\ q.at = at /\ q.astray = p.astray
    <3>1. q0.astray = p.astray
      <4> HIDE DEF p
      <4> QED
        BY <1>1 DEF q0, Fields
    <3> QED
      BY <1>3, <3>1 DEF Fields
  <2> HIDE DEF q
  <2>8. HeldRight(q, Now)
    <3>1. AnswerRight(p, Now) /\ Awaits(p)
      BY <1>1, <1>6 DEF PageOf, Awaits
    <3>2. Shares(q, Now) => Shares(p, Now)
      BY <1>2, <2>6, <2>7 DEF Shares
    <3>3. ASSUME Shares(q, Now), ~q.astray PROVE CompleteAt(Now, q.held.recs, q.cursor)
      <4>1. CompleteAt(Now, Taken(p.held.recs, p.answer.recs), p.answer.cursor)
        BY <2>7, <3>1, <3>2, <3>3 DEF AnswerRight
      <4> QED
        BY <2>6, <2>7, <4>1
    <3> QED
      BY <3>3 DEF HeldRight
  <2>9. \A d : Apart(p, d) => Clean(q.held.recs, d)
    BY <1>2, <2>6, <2>7, TakenClean DEF Apart
  <2>10. q.at \in {"pull", "show"}
    BY <2>7 DEF at
  <2> QED
    BY <1>1, <1>2, <2>2, <2>4, <2>6, <2>7, <2>8, <2>9, <2>10, HoldsKeeps
<1> QED
  BY <1>4, <1>5, <1>6

(***************************************************************************)
(* A save, up to its push                                                  *)
(***************************************************************************)
LEMMA BatchIs ==
    /\ NoBatch.at = "none" /\ NoBatch.sealed = <<>> /\ NoBatch.took = Empty /\ NoBatch.read = 0 /\ NoBatch.named = 0
    /\ DOMAIN NoBatch = {"at", "todo", "target", "read", "sealed", "named", "took"}
    /\ \A s : ServerOf(s) => BatchOf(NoBatch, s) /\ Stays(NoBatch.took, s)
    /\ \A d : Clean(NoBatch.took, d) /\ CleanAll(NoBatch.sealed, d)
<1>1. /\ NoBatch.at = "none" /\ NoBatch.sealed = <<>> /\ NoBatch.took = Empty /\ NoBatch.read = 0 /\ NoBatch.named = 0
      /\ DOMAIN NoBatch = {"at", "todo", "target", "read", "sealed", "named", "took"}
  BY DEF NoBatch
<1>2. ASSUME NEW s, ServerOf(s) PROVE BatchOf(NoBatch, s) /\ Stays(NoBatch.took, s)
  <2>1. Past(Empty, s) /\ DOMAIN Empty = {}
    BY EmptyPast
  <2>2. Envelopes(<<>>, s)
    BY DEF Envelopes
  <2> QED
    BY <1>1, <2>1, <2>2 DEF BatchOf, BatchShape, Stays
<1>3. \A d : Clean(NoBatch.took, d) /\ CleanAll(NoBatch.sealed, d)
  BY <1>1 DEF Clean, CleanAll, Empty
<1> QED
  BY <1>1, <1>2, <1>3

(* A step of a batch that leaves the rest of the page, but for what stands *)
(* in line and what is told.                                               *)
LEMMA BatchKeeps ==
    ASSUME IInv, NEW b \in Browsers, NEW q, Becomes(b, q), UNCHANGED <<scene, server, drawn, app>>,
           DOMAIN q = Fields,
           q.held = page[b].held, q.astray = page[b].astray, q.cursor = page[b].cursor, q.shown = page[b].shown,
           q.found = page[b].found, q.answer = page[b].answer, q.at = page[b].at, q.id = page[b].id,
           q.status = page[b].status,
           BatchOf(q.batch, Now), q.batch.took \in {Empty, page[b].batch.took}, q.batch.at # "none" => page[b].held # None,
           \A d : Elsewhere(page[b], d) => CleanAll(q.batch.sealed, d),
           Named(page[b], page[b].held.id) => Named(q, page[b].held.id)
    PROVE  IInv'
<1> DEFINE p == page[b]
<1>1. PageOf(p, Now) /\ Opened(p)
  BY PageHas
<1> HIDE DEF p
<1>2. /\ q.held = p.held /\ q.astray = p.astray /\ q.cursor = p.cursor /\ q.shown = p.shown
      /\ q.found = p.found /\ q.answer = p.answer /\ q.at = p.at /\ q.id = p.id /\ q.status = p.status
  BY DEF p
<1>3. PageFits(q, Now)
  BY <1>1, <1>2 DEF PageOf, PageFits, Opened, p
<1>4. HeldRight(q, Now)
  BY <1>1, <1>2 DEF PageOf, HeldRight, Shares
<1>5. AnswerRight(q, Now)
  BY <1>1, <1>2 DEF PageOf, AnswerRight, Awaits, Shares
<1>6. q.batch.took = p.batch.took \/ DOMAIN q.batch.took = {}
  BY DEF Empty, p
<1>7. Stays(q.batch.took, Now)
  BY <1>1, <1>6 DEF Stays, PageOf
<1>8. Inherits(p, q, Now)
  BY <1>2, <1>6 DEF Inherits, Apart, Elsewhere, Clean, p
<1>9. PageOf(q, Now)
  BY <1>3, <1>4, <1>5, <1>7 DEF PageOf
<1> QED
  BY <1>8, <1>9, ClientKeeps DEF Becomes, p

LEMMA SubmitKeeps ==
    ASSUME IInv, NEW b \in Browsers, Submit(b)
    PROVE  IInv'
<1> DEFINE p == page[b]
<1>1. /\ DOMAIN p = Fields /\ Opened(p) /\ PageOf(p, Now) /\ ServerOf(Now)
      /\ UNCHANGED <<scene, server, drawn, app>> /\ p.status = "open"
  BY PageHas DEF Submit
<1>2. PICK plan \in scene.saves :
        \E t \in IF plan[Len(plan)] = "add" THEN {None} ELSE DOMAIN p.shown :
           Becomes(b, [p EXCEPT !.submits = @ + 1,
                                !.batch = [NoBatch EXCEPT !.at = "seal", !.todo = plan, !.target = t,
                                                          !.read = IF t = None THEN 0 ELSE p.shown[t]]])
  BY DEF Submit
<1>3. PICK t \in IF plan[Len(plan)] = "add" THEN {None} ELSE DOMAIN p.shown :
           Becomes(b, [p EXCEPT !.submits = @ + 1,
                                !.batch = [NoBatch EXCEPT !.at = "seal", !.todo = plan, !.target = t,
                                                          !.read = IF t = None THEN 0 ELSE p.shown[t]]])
  BY <1>2
<1> DEFINE read == IF t = None THEN 0 ELSE p.shown[t]
           c == [NoBatch EXCEPT !.at = "seal", !.todo = plan, !.target = t, !.read = read]
           q == [p EXCEPT !.submits = @ + 1, !.batch = c]
<1>4. read \in 0..MaxNumber
  <2>1. CASE t = None
    BY <2>1
  <2>2. CASE t # None
    <3>1. t \in DOMAIN p.shown
      BY <1>3, <2>2
    <3>2. ShownOf(p.shown)
      BY <1>1 DEF PageOf, PageFits
    <3> QED
      BY <2>2, <3>1, <3>2 DEF ShownOf
  <2> QED
    BY <2>1, <2>2
<1>5. Becomes(b, q)
  BY <1>3
<1> HIDE DEF read, p
<1>6. c.sealed = <<>> /\ c.took = Empty /\ c.at = "seal" /\ c.read = read
      /\ DOMAIN c = {"at", "todo", "target", "read", "sealed", "named", "took"}
  BY BatchIs
<1> HIDE DEF c
<1>7. BatchOf(c, Now)
  <2>1. Past(Empty, Now)
    BY EmptyPast
  <2>2. Envelopes(<<>>, Now)
    BY DEF Envelopes
  <2> QED
    BY <1>4, <1>6, <2>1, <2>2 DEF BatchOf, BatchShape
<1>8. /\ DOMAIN q = Fields /\ q.held = p.held /\ q.astray = p.astray /\ q.cursor = p.cursor /\ q.shown = p.shown
      /\ q.found = p.found /\ q.answer = p.answer /\ q.at = p.at /\ q.id = p.id /\ q.status = p.status
      /\ q.batch = c
  BY <1>1 DEF Fields
<1> HIDE DEF q
<1>9. p.held # None
  BY <1>1 DEF Opened
<1>10. \A d : CleanAll(q.batch.sealed, d)
  BY <1>6, <1>8 DEF CleanAll
<1>11. \A d : Named(q, d)
  BY <1>6, <1>8 DEF Named
<1> QED
  BY <1>1, <1>5, <1>6, <1>7, <1>8, <1>9, <1>10, <1>11, BatchKeeps DEF p

(* One more sealed for the space that is open.                             *)
LEMMA SealedKeeps ==
    ASSUME IInv, NEW b \in Browsers, NEW e \in Envelope, page[b].batch.at = "seal",
           e.key = page[b].held.id, page[b].held # None,
           UNCHANGED <<scene, server, drawn, app>>, NEW rest, NEW at \in {"seal", "ask"},
           Becomes(b, [page[b] EXCEPT !.batch.sealed = Append(@, e), !.batch.todo = rest, !.batch.at = at])
    PROVE  IInv'
<1> DEFINE p == page[b]
           c == [p.batch EXCEPT !.sealed = Append(@, e), !.todo = rest, !.at = at]
           q == [p EXCEPT !.batch = c]
<1>1. /\ DOMAIN p = Fields /\ PageOf(p, Now) /\ ServerOf(Now)
  BY PageHas
<1>2. BatchOf(p.batch, Now) /\ HeldOf(p.held, Now)
  BY <1>1 DEF PageOf, PageFits
<1>3. Becomes(b, q)
  <2>1. [p EXCEPT !.batch.sealed = Append(@, e), !.batch.todo = rest, !.batch.at = at] = q
    <3> HIDE DEF p
    <3> QED
      BY <1>1, <1>2 DEF Fields, BatchOf, BatchShape
  <2> QED
    BY <2>1
<1> HIDE DEF p
<1>4. /\ c.sealed = Append(p.batch.sealed, e) /\ c.at = at /\ c.took = p.batch.took /\ c.read = p.batch.read
      /\ DOMAIN c = {"at", "todo", "target", "read", "sealed", "named", "took"}
  BY <1>2 DEF BatchOf, BatchShape
<1> HIDE DEF c
<1>5. p.batch.sealed \in Seq(Envelope)
  BY <1>2 DEF BatchOf, Envelopes
<1>6. /\ Append(p.batch.sealed, e) \in Seq(Envelope)
      /\ DOMAIN Append(p.batch.sealed, e) = DOMAIN p.batch.sealed \cup {Len(p.batch.sealed) + 1}
      /\ \A i \in DOMAIN p.batch.sealed : Append(p.batch.sealed, e)[i] = p.batch.sealed[i]
      /\ Append(p.batch.sealed, e)[Len(p.batch.sealed) + 1] = e
  <2>1. PICK sealed \in Seq(Envelope) : sealed = p.batch.sealed
    BY <1>5
  <2>2. Append(sealed, e) \in Seq(Envelope)
    OBVIOUS
  <2>3. Len(sealed) \in Nat /\ DOMAIN sealed = 1..Len(sealed) /\ DOMAIN Append(sealed, e) = 1..(Len(sealed) + 1)
    OBVIOUS
  <2>4. DOMAIN Append(sealed, e) = DOMAIN sealed \cup {Len(sealed) + 1}
    BY <2>3
  <2>5. \A i \in 1..Len(sealed) : Append(sealed, e)[i] = sealed[i]
    OBVIOUS
  <2>6. Append(sealed, e)[Len(sealed) + 1] = e
    OBVIOUS
  <2> QED
    BY <2>1, <2>2, <2>3, <2>4, <2>5, <2>6
<1>7. BatchOf(c, Now)
  <2>1. e.key <= Now.drawn
    BY <1>1, <1>2, ServerFacts DEF HeldOf, p
  <2>2. Envelopes(c.sealed, Now)
    BY <1>2, <1>4, <1>6, <2>1 DEF BatchOf, Envelopes
  <2> QED
    BY <1>2, <1>4, <2>2 DEF BatchOf, BatchShape
<1>8. /\ DOMAIN q = Fields /\ q.held = p.held /\ q.astray = p.astray /\ q.cursor = p.cursor /\ q.shown = p.shown
      /\ q.found = p.found /\ q.answer = p.answer /\ q.at = p.at /\ q.id = p.id /\ q.status = p.status
      /\ q.batch = c
  BY <1>1 DEF Fields
<1> HIDE DEF q
<1>9. \A d : Elsewhere(p, d) => CleanAll(q.batch.sealed, d)
  <2> SUFFICES ASSUME NEW d, Elsewhere(p, d), NEW i \in DOMAIN c.sealed PROVE c.sealed[i].key # d
    BY <1>8 DEF CleanAll
  <2>1. e.key # d
    BY DEF Elsewhere, p
  <2>2. \A j \in DOMAIN p.batch.sealed : p.batch.sealed[j].key # d
    BY DEF Elsewhere, CleanAll
  <2>3. CASE i \in DOMAIN p.batch.sealed
    <3>1. c.sealed[i] = p.batch.sealed[i]
      BY <1>4, <1>6, <2>3
    <3> QED
      BY <2>2, <2>3, <3>1
  <2>4. CASE i = Len(p.batch.sealed) + 1
    <3>1. c.sealed[i] = e
      BY <1>4, <1>6, <2>4
    <3> QED
      BY <2>1, <3>1
  <2>5. i \in DOMAIN p.batch.sealed \/ i = Len(p.batch.sealed) + 1
    BY <1>4, <1>6
  <2> QED
    BY <2>3, <2>4, <2>5
<1>10. \A d : Named(q, d)
  BY <1>4, <1>8 DEF Named
<1> QED
  BY <1>3, <1>4, <1>7, <1>8, <1>9, <1>10, BatchKeeps DEF p

LEMMA FailedSaveKeeps ==
    ASSUME IInv, NEW b \in Browsers, NEW w, UNCHANGED <<scene, server, drawn, app>>,
           Becomes(b, [FailedSave(page[b]) EXCEPT !.wants = w])
    PROVE  IInv'
<1> DEFINE p == page[b]
           q == [FailedSave(p) EXCEPT !.wants = w]
<1>1. DOMAIN p = Fields /\ ServerOf(Now)
  BY PageHas
<1>2. Becomes(b, q)
  OBVIOUS
<1> HIDE DEF p
<1>3. /\ DOMAIN q = Fields /\ q.held = p.held /\ q.astray = p.astray /\ q.cursor = p.cursor /\ q.shown = p.shown
      /\ q.found = p.found /\ q.answer = p.answer /\ q.at = p.at /\ q.id = p.id /\ q.status = p.status
      /\ q.batch = NoBatch
  BY <1>1 DEF Fields, FailedSave, Over
<1> HIDE DEF q
<1>4. \A d : Named(q, d) /\ CleanAll(q.batch.sealed, d)
  BY <1>3, BatchIs DEF Named
<1>5. BatchOf(q.batch, Now) /\ q.batch.took = Empty /\ q.batch.at = "none"
  BY <1>1, <1>3, BatchIs
<1> QED
  BY <1>2, <1>3, <1>4, <1>5, BatchKeeps DEF p

LEMMA SealKeeps ==
    ASSUME IInv, NEW b \in Browsers, Seal(b)
    PROVE  IInv'
<1> DEFINE p == page[b]
           t == p.batch.target
           op == Head(p.batch.todo)
           rest == Tail(p.batch.todo)
           at == IF rest = <<>> THEN "ask" ELSE "seal"
           sealed(e) == [p EXCEPT !.batch.sealed = Append(@, e), !.batch.todo = rest, !.batch.at = at]
           on(gone) == [id |-> t, base |-> p.held.recs[t].seq, key |-> p.held.id, read |-> p.batch.read, gone |-> gone]
           new == [id |-> NewId, base |-> 0, key |-> p.held.id, read |-> 0, gone |-> FALSE]
<1>1. /\ DOMAIN p = Fields /\ Opened(p) /\ PageOf(p, Now) /\ ServerOf(Now)
      /\ UNCHANGED <<scene, server, drawn, app>> /\ p.batch.at = "seal"
  BY PageHas DEF Seal
<1>2. p.held # None /\ HeldOf(p.held, Now) /\ BatchOf(p.batch, Now)
  BY <1>1 DEF Opened, PageOf, PageFits
<1>3. p.held.id \in 1..MaxIds /\ p.batch.read \in 0..MaxNumber /\ Past(p.held.recs, Now)
  BY <1>1, <1>2, ServerFacts DEF HeldOf, BatchOf
<1>4. at \in {"seal", "ask"}
  OBVIOUS
<1>5. CASE HasNew /\ Becomes(b, sealed(new))
  <2>1. NewId \in Ids
    BY <1>5 DEF HasNew, NewId
  <2>2. new \in Envelope /\ new.key = p.held.id
    BY <1>3, <2>1 DEF Envelope
  <2> HIDE DEF new, at, rest
  <2> QED
    BY <1>1, <1>2, <1>4, <1>5, <2>2, SealedKeeps
<1>6. CASE Known(p, t) /\ Becomes(b, sealed(on(op = "remove")))
  <2> DEFINE e == on(op = "remove")
  <2>1. t \in DOMAIN p.held.recs
    BY <1>6 DEF Known
  <2>2. t \in Ids /\ p.held.recs[t].seq \in 0..MaxNumber
    BY <1>3, <2>1, PastFacts
  <2>3. e \in Envelope /\ e.key = p.held.id
    BY <1>3, <2>2 DEF Envelope
  <2> HIDE DEF e, at, rest
  <2>4. Becomes(b, [page[b] EXCEPT !.batch.sealed = Append(@, e), !.batch.todo = rest, !.batch.at = at])
    BY <1>6 DEF e
  <2> QED
    BY <1>1, <1>2, <1>4, <2>3, <2>4, SealedKeeps
<1>7. CASE Becomes(b, FailedSave(p))
  <2>1. FailedSave(p) = [FailedSave(p) EXCEPT !.wants = p.wants]
    <3> HIDE DEF p
    <3> QED
      BY <1>1 DEF FailedSave, Over, Fields
  <2> QED
    BY <1>1, <1>7, <2>1, FailedSaveKeeps
<1>8. \/ HasNew /\ Becomes(b, sealed(new))
      \/ Known(p, t) /\ Becomes(b, sealed(on(op = "remove")))
      \/ Becomes(b, FailedSave(p))
  BY DEF Seal
<1> QED
  BY <1>5, <1>6, <1>7, <1>8

LEMMA AskKeeps ==
    ASSUME IInv, NEW b \in Browsers, Ask(b)
    PROVE  IInv'
<1> DEFINE p == page[b]
           c == [p.batch EXCEPT !.at = "sent", !.named = p.held.id, !.target = None, !.read = 0]
           q == [p EXCEPT !.batch = c]
<1>1. /\ DOMAIN p = Fields /\ Opened(p) /\ PageOf(p, Now) /\ ServerOf(Now)
      /\ UNCHANGED <<scene, server, drawn, app>> /\ p.batch.at = "ask"
      /\ Becomes(b, [p EXCEPT !.batch.at = "sent", !.batch.named = p.held.id, !.batch.target = None, !.batch.read = 0])
  BY PageHas DEF Ask
<1>2. p.held # None /\ BatchOf(p.batch, Now)
  BY <1>1 DEF Opened, PageOf, PageFits
<1>3. Becomes(b, q)
  <2>1. [p EXCEPT !.batch.at = "sent", !.batch.named = p.held.id, !.batch.target = None, !.batch.read = 0] = q
    <3> HIDE DEF p
    <3> QED
      BY <1>1, <1>2 DEF Fields, BatchOf, BatchShape
  <2> QED
    BY <1>1, <2>1
<1> HIDE DEF p
<1>4. /\ c.sealed = p.batch.sealed /\ c.at = "sent" /\ c.took = p.batch.took /\ c.read = 0 /\ c.named = p.held.id
      /\ DOMAIN c = {"at", "todo", "target", "read", "sealed", "named", "took"}
  BY <1>2 DEF BatchOf, BatchShape
<1> HIDE DEF c
<1>5. /\ DOMAIN q = Fields /\ q.held = p.held /\ q.astray = p.astray /\ q.cursor = p.cursor /\ q.shown = p.shown
      /\ q.found = p.found /\ q.answer = p.answer /\ q.at = p.at /\ q.id = p.id /\ q.status = p.status
      /\ q.batch = c
  BY <1>1 DEF Fields
<1> HIDE DEF q
<1>6. BatchOf(c, Now)
  BY <1>2, <1>4 DEF BatchOf, BatchShape
<1>7. Named(q, p.held.id) /\ \A d : Elsewhere(p, d) => CleanAll(q.batch.sealed, d)
  BY <1>4, <1>5 DEF Named, Elsewhere
<1> QED
  BY <1>1, <1>2, <1>3, <1>4, <1>5, <1>6, <1>7, BatchKeeps DEF p

(* What the server answered to a push brings nothing back and undoes       *)
(* nothing: not in what is held, and not in what the next page brings.     *)
LEMMA CompleteTook ==
    ASSUME NEW s, ServerOf(s), s.space # None, NEW f, Past(f, s), NEW t, Past(t, s), Stays(t, s),
           NEW c, CompleteAt(s, f, c)
    PROVE  CompleteAt(s, Taken(f, t), c)
<1>1. /\ DOMAIN Taken(f, t) = DOMAIN f \cup DOMAIN t
  BY TakenIs
<1>2. \A r \in DOMAIN f \cup DOMAIN t :
         Taken(f, t)[r] = IF r \in DOMAIN t /\ (r \in DOMAIN f => t[r].seq > f[r].seq) THEN t[r] ELSE f[r]
  BY TakenIs
<1>3. ASSUME NEW r \in DOMAIN s.rec, s.rec[r].seq <= c
      PROVE  r \in DOMAIN Taken(f, t) /\ Taken(f, t)[r] = s.rec[r]
  <2>1. r \in DOMAIN f /\ f[r] = s.rec[r]
    BY <1>3 DEF CompleteAt
  <2>2. s.rec[r].seq \in Nat
    BY ServerFacts
  <2>3. r \in DOMAIN t => t[r].seq <= s.rec[r].seq /\ t[r].seq \in Nat
    BY PastFacts
  <2> QED
    BY <1>1, <1>2, <2>1, <2>2, <2>3
<1>4. ASSUME NEW r \in DOMAIN Taken(f, t) \ DOMAIN s.rec
      PROVE  Taken(f, t)[r].gone \/ Taken(f, t)[r].key # s.space.id \/ c < s.pruned
  <2>1. (r \in DOMAIN t /\ Taken(f, t)[r] = t[r]) \/ (r \in DOMAIN f /\ Taken(f, t)[r] = f[r])
    BY <1>1, <1>2
  <2> QED
    BY <1>4, <2>1 DEF CompleteAt, Stays
<1> QED
  BY <1>3, <1>4 DEF CompleteAt

LEMMA CompleteTookBefore ==
    ASSUME NEW s, ServerOf(s), s.space # None, NEW f, Past(f, s), NEW t, Past(t, s), Stays(t, s), NEW a, Past(a, s),
           NEW c, CompleteAt(s, Taken(f, a), c)
    PROVE  CompleteAt(s, Taken(Taken(f, t), a), c)
<1> DEFINE A == Taken(f, a)
           T == Taken(f, t)
           B == Taken(T, a)
<1>1. DOMAIN A = DOMAIN f \cup DOMAIN a /\ DOMAIN T = DOMAIN f \cup DOMAIN t
  BY TakenIs
<1>2. \A r \in DOMAIN f \cup DOMAIN a :
         A[r] = IF r \in DOMAIN a /\ (r \in DOMAIN f => a[r].seq > f[r].seq) THEN a[r] ELSE f[r]
  BY TakenIs
<1>3. \A r \in DOMAIN f \cup DOMAIN t :
         T[r] = IF r \in DOMAIN t /\ (r \in DOMAIN f => t[r].seq > f[r].seq) THEN t[r] ELSE f[r]
  BY TakenIs
<1> HIDE DEF A, T
<1>4. DOMAIN B = DOMAIN T \cup DOMAIN a
  BY TakenIs
<1>5. \A r \in DOMAIN T \cup DOMAIN a :
         B[r] = IF r \in DOMAIN a /\ (r \in DOMAIN T => a[r].seq > T[r].seq) THEN a[r] ELSE T[r]
  BY TakenIs
<1> HIDE DEF B
<1>6. /\ \A r \in DOMAIN f : f[r].seq \in Nat
      /\ \A r \in DOMAIN t : t[r].seq \in Nat
      /\ \A r \in DOMAIN a : a[r].seq \in Nat
  BY PastFacts
<1>7. CompleteAt(s, A, c)
  BY DEF A
<1>8. ASSUME NEW r \in DOMAIN s.rec, s.rec[r].seq <= c
      PROVE  r \in DOMAIN B /\ B[r] = s.rec[r]
  <2>1. r \in DOMAIN A /\ A[r] = s.rec[r]
    BY <1>7, <1>8 DEF CompleteAt
  <2>2. s.rec[r].seq \in Nat
    BY ServerFacts
  <2>3. /\ r \in DOMAIN f => f[r].seq <= s.rec[r].seq /\ (f[r].seq = s.rec[r].seq => f[r] = s.rec[r])
        /\ r \in DOMAIN t => t[r].seq <= s.rec[r].seq /\ (t[r].seq = s.rec[r].seq => t[r] = s.rec[r])
        /\ r \in DOMAIN a => a[r].seq <= s.rec[r].seq /\ (a[r].seq = s.rec[r].seq => a[r] = s.rec[r])
    BY PastFacts
  <2>4. r \in DOMAIN T => T[r].seq \in Nat /\ T[r].seq <= s.rec[r].seq /\ (T[r].seq = s.rec[r].seq => T[r] = s.rec[r])
    BY <1>1, <1>3, <1>6, <2>3
  <2>5. CASE r \in DOMAIN a /\ a[r] = s.rec[r]
    BY <1>4, <1>5, <2>2, <2>4, <2>5
  <2>6. CASE ~(r \in DOMAIN a /\ a[r] = s.rec[r])
    <3>1. r \in DOMAIN f /\ f[r] = s.rec[r]
      BY <1>1, <1>2, <2>1, <2>6
    <3>2. r \in DOMAIN T /\ T[r] = s.rec[r]
      BY <1>1, <1>3, <1>6, <2>2, <2>3, <3>1
    <3> QED
      BY <1>4, <1>5, <1>6, <2>2, <2>3, <3>2
  <2> QED
    BY <2>5, <2>6
<1>9. ASSUME NEW r \in DOMAIN B \ DOMAIN s.rec
      PROVE  B[r].gone \/ B[r].key # s.space.id \/ c < s.pruned
  <2>1. r \in DOMAIN A => A[r].gone \/ A[r].key # s.space.id \/ c < s.pruned
    BY <1>7, <1>9 DEF CompleteAt
  <2>2. r \in DOMAIN t => t[r].gone \/ t[r].key # s.space.id
    BY <1>9 DEF Stays
  <2>3. CASE r \in DOMAIN t /\ B[r] = t[r]
    BY <2>2, <2>3
  <2>4. CASE ~(r \in DOMAIN t /\ B[r] = t[r])
    <3>1. CASE r \in DOMAIN a /\ (r \in DOMAIN T => a[r].seq > T[r].seq)
      <4>1. B[r] = a[r]
        BY <1>5, <3>1
      <4>2. r \in DOMAIN f => a[r].seq > f[r].seq
        BY <1>1, <1>3, <1>6, <3>1
      <4>3. r \in DOMAIN A /\ A[r] = a[r]
        BY <1>1, <1>2, <3>1, <4>2
      <4> QED
        BY <2>1, <4>1, <4>3
    <3>2. CASE ~(r \in DOMAIN a /\ (r \in DOMAIN T => a[r].seq > T[r].seq))
      <4>1. r \in DOMAIN T /\ B[r] = T[r]
        BY <1>4, <1>5, <1>9, <3>2
      <4>2. r \in DOMAIN f /\ T[r] = f[r]
        BY <1>1, <1>3, <2>4, <4>1
      <4>3. A[r] = f[r] /\ r \in DOMAIN A
        BY <1>1, <1>2, <3>2, <4>1, <4>2
      <4> QED
        BY <2>1, <4>1, <4>2, <4>3
    <3> QED
      BY <3>1, <3>2
  <2> QED
    BY <2>3, <2>4
<1>10. CompleteAt(s, B, c)
  BY <1>8, <1>9 DEF CompleteAt
<1> QED
  BY <1>10 DEF B, T

LEMMA AppliedKeeps ==
    ASSUME IInv, NEW b \in Browsers, Applied(b)
    PROVE  IInv'
<1> DEFINE p == page[b]
           took == p.batch.took
           k == Merged(p.held, took)
           w == p.wants \cup {"load"}
           q == [p EXCEPT !.held = k, !.shown = Readable(k), !.status = "open", !.batch = NoBatch, !.wants = w]
<1>1. /\ DOMAIN p = Fields /\ Opened(p) /\ PageOf(p, Now) /\ ServerOf(Now)
      /\ UNCHANGED <<scene, server, drawn, app>> /\ p.batch.at = "answered"
      /\ Becomes(b, Queued([p EXCEPT !.held = k, !.shown = Readable(k), !.status = "open", !.batch = NoBatch], "load"))
  BY PageHas DEF Applied
<1>2. Becomes(b, q)
  <2>1. Queued([p EXCEPT !.held = k, !.shown = Readable(k), !.status = "open", !.batch = NoBatch], "load") = q
    <3> HIDE DEF p, k
    <3> QED
      BY <1>1 DEF Queued, Fields
  <2> QED
    BY <1>1, <2>1
<1>3. p.held # None /\ HeldOf(p.held, Now) /\ Past(p.held.recs, Now) /\ Past(took, Now) /\ Stays(took, Now)
      /\ Past(p.answer.recs, Now)
  BY <1>1 DEF Opened, PageOf, PageFits, HeldOf, BatchOf, AnswerOf
<1>4. Past(Taken(p.held.recs, took), Now)
  BY <1>3, TakenPast
<1>5. HeldOf(k, Now) /\ k # None /\ k.id = p.held.id /\ k.recs = Taken(p.held.recs, took)
  BY <1>1, <1>3, <1>4, WithRecsIs DEF Merged
<1>6. ShownOf(Readable(k))
  BY <1>4, <1>5, ReadableIs
<1> HIDE DEF p, took, k, w
<1>7. /\ DOMAIN q = Fields /\ q.held = k /\ q.astray = p.astray /\ q.cursor = p.cursor /\ q.shown = Readable(k)
      /\ q.found = p.found /\ q.answer = p.answer /\ q.at = p.at /\ q.id = p.id /\ q.status = "open"
      /\ q.batch = NoBatch
  BY <1>1 DEF Fields
<1> HIDE DEF q
<1>8. BatchOf(NoBatch, Now) /\ Stays(NoBatch.took, Now) /\ NoBatch.at = "none"
      /\ \A d : Clean(NoBatch.took, d) /\ CleanAll(NoBatch.sealed, d)
  BY <1>1, BatchIs
<1>9. PageFits(q, Now)
  BY <1>1, <1>5, <1>6, <1>7, <1>8 DEF PageOf, PageFits, Opened
<1>10. Shares(q, Now) => Shares(p, Now) /\ Now.space # None
  BY <1>3, <1>5, <1>7 DEF Shares
<1>11. HeldRight(q, Now)
  <2>1. ASSUME Shares(q, Now), ~q.astray PROVE CompleteAt(Now, q.held.recs, q.cursor)
    <3>1. CompleteAt(Now, p.held.recs, p.cursor)
      BY <1>1, <1>7, <1>10, <2>1 DEF PageOf, HeldRight
    <3>2. CompleteAt(Now, Taken(p.held.recs, took), p.cursor)
      BY <1>1, <1>3, <1>10, <2>1, <3>1, CompleteTook
    <3> QED
      BY <1>5, <1>7, <3>2
  <2> QED
    BY <2>1 DEF HeldRight
<1>12. AnswerRight(q, Now)
  <2>1. ASSUME Awaits(q), Shares(q, Now), ~q.astray
        PROVE  CompleteAt(Now, Taken(q.held.recs, q.answer.recs), q.answer.cursor)
    <3>1. CompleteAt(Now, Taken(p.held.recs, p.answer.recs), p.answer.cursor)
      BY <1>1, <1>7, <1>10, <2>1 DEF PageOf, AnswerRight, Awaits
    <3>2. CompleteAt(Now, Taken(Taken(p.held.recs, took), p.answer.recs), p.answer.cursor)
      BY <1>1, <1>3, <1>10, <2>1, <3>1, CompleteTookBefore
    <3> QED
      BY <1>5, <1>7, <3>2
  <2>2. Awaits(q) /\ q.answer.more => q.cursor < q.answer.cursor
    BY <1>1, <1>7 DEF PageOf, AnswerRight, Awaits
  <2> QED
    BY <2>1, <2>2 DEF AnswerRight
<1>13. PageOf(q, Now)
  BY <1>7, <1>8, <1>9, <1>11, <1>12 DEF PageOf
<1>14. Inherits(p, q, Now)
  <2>1. ASSUME NEW d, Apart(p, d) PROVE Apart(q, d) /\ (Elsewhere(p, d) => Elsewhere(q, d))
    <3>1. Clean(k.recs, d)
      BY <1>3, <1>5, <2>1, TakenClean DEF Apart, took
    <3> QED
      BY <1>3, <1>5, <1>7, <1>8, <2>1, <3>1 DEF Apart, Elsewhere
  <2>2. Named(q, q.held.id)
    BY <1>7, <1>8 DEF Named
  <2> QED
    BY <1>5, <1>7, <2>1, <2>2 DEF Inherits
<1> QED
  BY <1>1, <1>2, <1>13, <1>14, ClientKeeps DEF Becomes, p

(***************************************************************************)
(* What the server does                                                    *)
(***************************************************************************)
LEMMA SceneFits ==
    ASSUME scene \in Scenes
    PROVE  scene.most \in Nat /\ scene.most <= MaxNumber
BY SuiteScenes

(* Who is counted off gets a number of their own.                          *)
LEMMA CountedOff ==
    ASSUME NEW A \in SUBSET Nat, IsFiniteSet(A)
    PROVE  /\ Cardinality(A) \in Nat
           /\ \A i \in A : Cardinality({j \in A : j <= i}) \in 1..Cardinality(A)
           /\ \A i, k \in A : Cardinality({j \in A : j <= i}) = Cardinality({j \in A : j <= k}) => i = k
<1> DEFINE U(i) == {j \in A : j <= i}
<1>1. Cardinality(A) \in Nat
  BY FS_CardinalityType
<1>2. ASSUME NEW i \in A
      PROVE  IsFiniteSet(U(i)) /\ Cardinality(U(i)) \in 1..Cardinality(A)
  <2>1. U(i) \in SUBSET A /\ i \in U(i)
    OBVIOUS
  <2> HIDE DEF U
  <2>2. IsFiniteSet(U(i)) /\ Cardinality(U(i)) <= Cardinality(A)
    BY <2>1, FS_Subset
  <2>3. Cardinality(U(i)) \in Nat /\ Cardinality(U(i)) # 0
    BY <2>1, <2>2, FS_CardinalityType, FS_EmptySet
  <2> QED
    BY <1>1, <2>2, <2>3
<1>3. ASSUME NEW i \in A, NEW k \in A, Cardinality(U(i)) = Cardinality(U(k)), i <= k
      PROVE  i = k
  <2>0. \A j \in A : j \in Nat
    OBVIOUS
  <2>1. U(i) \in SUBSET U(k) /\ k \in U(k)
    <3>1. i \in Nat /\ k \in Nat
      BY <2>0
    <3>2. \A j \in Nat : j <= i => j <= k
      BY <1>3, <3>1
    <3>3. k <= k
      BY <3>1
    <3> QED
      BY <2>0, <3>2, <3>3
  <2>2. U(i) = U(k)
    <3> HIDE DEF U
    <3> QED
      BY <1>2, <1>3, <2>1, FS_Subset
  <2>3. k \in U(i)
    BY <2>1, <2>2
  <2> QED
    BY <1>3, <2>0, <2>3
<1>4. ASSUME NEW i \in A, NEW k \in A, Cardinality(U(i)) = Cardinality(U(k))
      PROVE  i = k
  <2>1. i <= k \/ k <= i
    OBVIOUS
  <2> HIDE DEF U
  <2> QED
    BY <1>3, <1>4, <2>1
<1> QED
  BY <1>1, <1>2, <1>4

LEMMA WrittenIs ==
    ASSUME ServerOf(Now), NEW sealed, Envelopes(sealed, Now),
           number + Cardinality(Accepted(sealed)) <= MaxNumber
    PROVE  LET new == Written(sealed)
           IN  /\ Cardinality(Accepted(sealed)) \in Nat
               /\ DOMAIN new \subseteq IdsOf(sealed)
               /\ IdsOf(sealed) \ DOMAIN rec \subseteq DOMAIN new
               /\ \A r \in DOMAIN new :
                     /\ new[r] \in Record /\ new[r].key <= drawn
                     /\ new[r].seq > number /\ new[r].seq <= number + Cardinality(Accepted(sealed))
               /\ \A q, r \in DOMAIN new : new[q].seq = new[r].seq => q = r
               /\ \A d : CleanAll(sealed, d) => Clean(new, d)
<1> DEFINE A == Accepted(sealed)
           new == Written(sealed)
           K(i) == Cardinality({j \in A : j <= i})
<1>0. sealed \in Seq(Envelope) /\ number \in Nat /\ drawn \in Nat /\ MaxNumber \in Nat
  BY ServerFacts DEF Envelopes, Now
<1>1. A \in SUBSET Nat /\ IsFiniteSet(A) /\ A \in SUBSET DOMAIN sealed
  <2>1. A \in SUBSET DOMAIN sealed
    BY DEF Accepted
  <2>2. IsFiniteSet(DOMAIN sealed) /\ DOMAIN sealed \subseteq Nat
    BY <1>0, SealedFinite
  <2> HIDE DEF A
  <2> QED
    BY <2>1, <2>2, FS_Subset
<1>2. /\ Cardinality(A) \in Nat
      /\ \A i \in A : K(i) \in 1..Cardinality(A)
      /\ \A i, k \in A : K(i) = K(k) => i = k
  <2> HIDE DEF A
  <2> QED
    BY <1>1, CountedOff
<1>3. \A i \in A : NextSeq(sealed, i) = number + K(i)
  BY DEF NextSeq
<1> DEFINE at(r) == CHOOSE i \in A : sealed[i].id = r
<1>4. DOMAIN new = {sealed[i].id : i \in A}
  BY DEF Written
<1>5. \A r \in DOMAIN new :
         new[r] = [seq |-> NextSeq(sealed, at(r)), key |-> sealed[at(r)].key, write |-> NextSeq(sealed, at(r)),
                   read |-> sealed[at(r)].read, gone |-> sealed[at(r)].gone]
  BY DEF Written
<1>6. \A r \in DOMAIN new : at(r) \in A /\ sealed[at(r)].id = r
  BY <1>4
<1>7. \A i \in DOMAIN sealed : sealed[i] \in Envelope /\ sealed[i].key <= drawn
  BY <1>0 DEF Envelopes, Now
<1>8. IdsOf(sealed) = {sealed[i].id : i \in DOMAIN sealed}
  BY DEF IdsOf
<1>9. \A i \in DOMAIN sealed : sealed[i].id \notin DOMAIN rec => i \in A
  BY DEF Accepted, Takes
<1> HIDE DEF A, new, K, at
<1>10. ASSUME NEW r \in DOMAIN new
       PROVE  /\ new[r] \in Record /\ new[r].key <= drawn
              /\ new[r].seq > number /\ new[r].seq <= number + Cardinality(A)
              /\ new[r].seq = number + K(at(r)) /\ new[r].key = sealed[at(r)].key
  <2>1. at(r) \in A /\ at(r) \in DOMAIN sealed /\ K(at(r)) \in 1..Cardinality(A)
    BY <1>1, <1>2, <1>6
  <2>2. sealed[at(r)] \in Envelope /\ sealed[at(r)].key <= drawn
    BY <1>7, <2>1
  <2>3. NextSeq(sealed, at(r)) = number + K(at(r))
    BY <1>3, <2>1
  <2>4. number + K(at(r)) \in 0..MaxNumber /\ number + K(at(r)) > number
        /\ number + K(at(r)) <= number + Cardinality(A)
    BY <1>0, <1>2, <2>1 DEF A
  <2>5. new[r] = [seq |-> number + K(at(r)), key |-> sealed[at(r)].key, write |-> number + K(at(r)),
                  read |-> sealed[at(r)].read, gone |-> sealed[at(r)].gone]
    BY <1>5, <2>3
  <2>6. new[r] \in Record
    BY <2>2, <2>4, <2>5 DEF Record, Envelope
  <2> QED
    BY <2>2, <2>4, <2>5, <2>6
<1>11. DOMAIN new \subseteq IdsOf(sealed) /\ IdsOf(sealed) \ DOMAIN rec \subseteq DOMAIN new
  BY <1>1, <1>4, <1>8, <1>9
<1>12. ASSUME NEW q \in DOMAIN new, NEW r \in DOMAIN new, new[q].seq = new[r].seq
       PROVE  q = r
  <2>1. at(q) \in A /\ at(r) \in A /\ K(at(q)) \in Nat /\ K(at(r)) \in Nat
    BY <1>2, <1>6
  <2>2. K(at(q)) = K(at(r))
    BY <1>0, <1>10, <1>12, <2>1
  <2> QED
    BY <1>2, <1>6, <2>1, <2>2
<1>13. \A d : CleanAll(sealed, d) => Clean(new, d)
  BY <1>1, <1>6, <1>10 DEF CleanAll, Clean
<1> QED
  BY <1>2, <1>10, <1>11, <1>12, <1>13 DEF A, new

LEMMA PushIs ==
    ASSUME ServerOf(Now), scene \in Scenes, NEW sealed, Envelopes(sealed, Now), space # None,
           Fits(sealed), SuitePush(sealed), drawn' = drawn
    PROVE  /\ ServerOf(Now') /\ Follows(Now, Now')
           /\ space' = space /\ DOMAIN rec \subseteq DOMAIN rec'
           /\ \A d : Clean(rec, d) /\ CleanAll(sealed, d) => Clean(rec', d)
           /\ Past(Answered(sealed), Now') /\ DOMAIN Answered(sealed) \subseteq DOMAIN rec'
           /\ \A r \in DOMAIN Answered(sealed) : Answered(sealed)[r] = rec'[r]
<1> DEFINE new == Written(sealed)
           n == Cardinality(Accepted(sealed))
<1>1. /\ number \in Nat /\ number' = number + n /\ number + n <= scene.most
      /\ rec' = [r \in DOMAIN rec \cup DOMAIN new |-> IF r \in DOMAIN new THEN new[r] ELSE rec[r]]
      /\ UNCHANGED <<space, pruned, tombs>>
  BY ServerFacts DEF SuitePush, Now
<1>2. number + n <= MaxNumber
  <2>1. CASE n \in Nat
    BY <1>1, <2>1, SceneFits
  <2>2. n \in Nat
    <3>1. sealed \in Seq(Envelope) /\ Accepted(sealed) \in SUBSET DOMAIN sealed
      BY DEF Envelopes, Accepted
    <3>2. IsFiniteSet(DOMAIN sealed)
      BY <3>1, SealedFinite
    <3>3. IsFiniteSet(Accepted(sealed))
      BY <3>1, <3>2, FS_Subset
    <3> QED
      BY <3>3, FS_CardinalityType
  <2> QED
    BY <2>1, <2>2
<1>3. /\ n \in Nat /\ DOMAIN new \subseteq IdsOf(sealed) /\ IdsOf(sealed) \ DOMAIN rec \subseteq DOMAIN new
      /\ \A r \in DOMAIN new :
            /\ new[r] \in Record /\ new[r].key <= drawn
            /\ new[r].seq > number /\ new[r].seq <= number + n
      /\ \A q, r \in DOMAIN new : new[q].seq = new[r].seq => q = r
      /\ \A d : CleanAll(sealed, d) => Clean(new, d)
  BY <1>2, WrittenIs
<1> HIDE DEF new, n
<1>4. /\ DOMAIN rec' = DOMAIN rec \cup DOMAIN new
      /\ \A r \in DOMAIN rec \cup DOMAIN new : rec'[r] = IF r \in DOMAIN new THEN new[r] ELSE rec[r]
  BY <1>1
<1>5. /\ DOMAIN rec \subseteq Ids /\ pruned \in 0..number
      /\ \A r \in DOMAIN rec : rec[r] \in Record /\ rec[r].seq \in 1..number /\ rec[r].key <= drawn
  BY PastFacts DEF ServerOf, Now
<1>6. IdsOf(sealed) \subseteq Ids /\ IsFiniteSet(IdsOf(sealed))
  BY SealedFinite DEF Envelopes
<1>7. Now' = [space |-> space, rec |-> rec', number |-> number + n, pruned |-> pruned, drawn |-> drawn]
  BY <1>1 DEF Now
<1>8. IsMap(rec', Ids, Record)
  <2>1. \A r \in DOMAIN rec' : rec'[r] \in Record
    BY <1>3, <1>4, <1>5
  <2>2. rec' = [r \in DOMAIN rec' |-> rec'[r]]
    BY <1>1, <1>4
  <2> QED
    BY <1>3, <1>4, <1>5, <1>6, <2>1, <2>2 DEF IsMap
<1>9. \A r \in DOMAIN rec' : rec'[r].seq \in 1..(number + n) /\ rec'[r].key <= drawn
  <2>1. \A r \in DOMAIN new : new[r].seq \in Nat
    BY <1>3 DEF Record
  <2> QED
    BY <1>1, <1>3, <1>4, <1>5, <2>1
<1>10. \A q, r \in DOMAIN rec' : rec'[q].seq = rec'[r].seq => q = r
  <2>1. \A q, r \in DOMAIN rec : rec[q].seq = rec[r].seq => q = r
    BY DEF ServerOf, Now
  <2>2. \A r \in DOMAIN new : new[r].seq \in Nat
    BY <1>3 DEF Record
  <2> QED
    BY <1>1, <1>3, <1>4, <1>5, <2>1, <2>2
<1>11. IsFiniteSet(DOMAIN rec') /\ Cardinality(DOMAIN rec') <= Quota
  <2>1. IsFiniteSet(DOMAIN rec) /\ Cardinality(DOMAIN rec) <= Quota
    BY DEF ServerOf, Now
  <2>2. CASE New(sealed) = {}
    <3>1. DOMAIN rec' = DOMAIN rec
      BY <1>3, <1>4, <2>2 DEF New
    <3> QED
      BY <2>1, <3>1
  <2>3. CASE New(sealed) # {}
    <3>1. Cardinality(DOMAIN rec \cup New(sealed)) <= Quota
      BY <2>3 DEF Fits
    <3>2. New(sealed) \in SUBSET IdsOf(sealed)
      BY DEF New
    <3>3. IsFiniteSet(New(sealed))
      BY <1>6, <3>2, FS_Subset
    <3>4. IsFiniteSet(DOMAIN rec \cup New(sealed))
      BY <2>1, <3>3, FS_Union
    <3>5. DOMAIN rec' \in SUBSET (DOMAIN rec \cup New(sealed))
      BY <1>3, <1>4 DEF New
    <3>6. IsFiniteSet(DOMAIN rec') /\ Cardinality(DOMAIN rec') <= Cardinality(DOMAIN rec \cup New(sealed))
      BY <3>4, <3>5, FS_Subset
    <3>7. Cardinality(DOMAIN rec') \in Nat /\ Cardinality(DOMAIN rec \cup New(sealed)) \in Nat
      BY <3>4, <3>6, FS_CardinalityType
    <3> QED
      BY <3>1, <3>6, <3>7
  <2> QED
    BY <2>2, <2>3
<1>12. ServerOf(Now')
  <2>1. Past(rec', Now')
    BY <1>7, <1>8, <1>9 DEF Past
  <2>2. /\ drawn \in 0..MaxIds /\ space \in {None} \cup [id : 1..drawn, epoch : 0..MaxNumber]
    BY DEF ServerOf, Now
  <2>3. number + n \in 0..MaxNumber /\ pruned \in 0..(number + n)
    BY <1>1, <1>2, <1>3, <1>5
  <2> QED
    BY <1>7, <1>9, <1>10, <1>11, <2>1, <2>2, <2>3 DEF ServerOf
<1>13. Follows(Now, Now')
  <2>1. Grows(Now, Now')
    <3>1. /\ number <= number + n /\ drawn <= drawn /\ pruned <= pruned
      BY <1>1, <1>3, <1>5, ServerFacts DEF Now
    <3>2. \A r \in DOMAIN rec' : rec'[r].seq > number \/ (r \in DOMAIN rec /\ rec'[r] = rec[r])
      BY <1>3, <1>4
    <3> QED
      BY <1>7, <3>1, <3>2 DEF Grows, Now
  <2> QED
    BY <1>4, <1>7, <2>1 DEF Follows, Now
<1>14. \A d : Clean(rec, d) /\ CleanAll(sealed, d) => Clean(rec', d)
  BY <1>3, <1>4 DEF Clean
<1>15. /\ DOMAIN Answered(sealed) = IdsOf(sealed) /\ IdsOf(sealed) \subseteq DOMAIN rec'
       /\ \A r \in IdsOf(sealed) : Answered(sealed)[r] = rec'[r]
  BY <1>3, <1>4 DEF Answered, new
<1>16. Past(Answered(sealed), Now')
  <2>1. Answered(sealed) = Only(rec', IdsOf(sealed))
    BY <1>15 DEF Answered, Only
  <2>2. Past(rec', Now')
    BY <1>7, <1>12 DEF ServerOf
  <2>3. PICK f, s : f = rec' /\ s = Now'
    OBVIOUS
  <2>4. Past(Only(f, IdsOf(sealed)), s)
    BY <2>2, <2>3, OnlyPast
  <2> QED
    BY <2>1, <2>3, <2>4
<1> QED
  BY <1>1, <1>4, <1>12, <1>13, <1>14, <1>15, <1>16

LEMMA RowIsNotNone ==
    ASSUME NEW i \in Nat, NEW e \in Nat
    PROVE  [id |-> i, epoch |-> e] # None
<1>1. [id |-> i, epoch |-> e] \in [id : Nat, epoch : Nat]
  OBVIOUS
<1> QED
  BY <1>1, NoneAssumption

(* What the records of the server are, field by field.                     *)
LEMMA RecIs ==
    ASSUME ServerOf(Now)
    PROVE  /\ number \in Nat /\ pruned \in Nat /\ drawn \in Nat
           /\ number <= MaxNumber /\ drawn <= MaxIds /\ pruned <= number
           /\ Past(rec, Now) /\ IsMap(rec, Ids, Record) /\ DOMAIN rec \subseteq Ids
           /\ IsFiniteSet(DOMAIN rec) /\ Cardinality(DOMAIN rec) <= Quota
           /\ \A r \in DOMAIN rec : rec[r] \in Record /\ rec[r].seq \in Nat /\ rec[r].seq \in 1..number /\ rec[r].key <= drawn
           /\ \A q, r \in DOMAIN rec : rec[q].seq = rec[r].seq => q = r
           /\ space = None => DOMAIN rec = {}
           /\ space # None => space \in [id : 1..drawn, epoch : 0..MaxNumber]
<1>1. Now = [space |-> space, rec |-> rec, number |-> number, pruned |-> pruned, drawn |-> drawn]
  BY DEF Now
<1>2. /\ number \in Nat /\ pruned \in Nat /\ drawn \in Nat
      /\ number <= MaxNumber /\ drawn <= MaxIds /\ pruned <= number
  BY <1>1, ServerFacts
<1>3. /\ Past(rec, Now) /\ IsFiniteSet(DOMAIN rec) /\ Cardinality(DOMAIN rec) <= Quota
      /\ \A q, r \in DOMAIN rec : rec[q].seq = rec[r].seq => q = r
      /\ space = None => DOMAIN rec = {}
      /\ space # None => space \in [id : 1..drawn, epoch : 0..MaxNumber]
      /\ \A r \in DOMAIN rec : rec[r].seq \in 1..number
  BY <1>1 DEF ServerOf
<1>4. /\ IsMap(rec, Ids, Record) /\ DOMAIN rec \subseteq Ids
      /\ \A r \in DOMAIN rec : rec[r] \in Record /\ rec[r].key <= drawn
  BY <1>1, <1>3, PastFacts DEF Past
<1> QED
  BY <1>2, <1>3, <1>4

(* A state of the server where the records are some of those there were.   *)
LEMMA FewerRecords ==
    ASSUME ServerOf(Now), NEW t,
           t = [space |-> t.space, rec |-> t.rec, number |-> t.number, pruned |-> t.pruned, drawn |-> t.drawn],
           NEW S, t.rec = Only(rec, S),
           t.number \in number..MaxNumber, t.pruned \in pruned..t.number, t.drawn \in drawn..MaxIds,
           t.space \in {None} \cup [id : 1..t.drawn, epoch : 0..MaxNumber],
           t.space = None => DOMAIN t.rec = {},
           t.space # None /\ space # None /\ t.space.id = space.id =>
              \A r \in DOMAIN rec \ S : rec[r].gone /\ rec[r].seq <= t.pruned
    PROVE  ServerOf(t) /\ Follows(Now, t) /\ \A d : Clean(rec, d) => Clean(t.rec, d)
<1>1. /\ number \in Nat /\ pruned \in Nat /\ drawn \in Nat
      /\ number <= MaxNumber /\ drawn <= MaxIds /\ pruned <= number
      /\ Past(rec, Now) /\ IsFiniteSet(DOMAIN rec) /\ Cardinality(DOMAIN rec) <= Quota
      /\ \A r \in DOMAIN rec : rec[r].seq \in 1..number /\ rec[r].key <= drawn /\ rec[r] \in Record
      /\ \A q, r \in DOMAIN rec : rec[q].seq = rec[r].seq => q = r
  BY RecIs
<1>2. /\ Past(t.rec, Now) /\ DOMAIN t.rec = DOMAIN rec \cap S
      /\ \A r \in DOMAIN rec \cap S : t.rec[r] = rec[r]
  <2>1. PICK f, s : f = rec /\ s = Now
    OBVIOUS
  <2>2. Past(f, s)
    BY <1>1, <2>1
  <2>3. Past(Only(f, S), s)
    BY <2>2, OnlyPast
  <2>4. DOMAIN Only(f, S) = DOMAIN f \cap S /\ \A r \in DOMAIN f \cap S : Only(f, S)[r] = f[r]
    BY <2>2, OnlyPast
  <2> QED
    BY <2>1, <2>3, <2>4
<1>3. IsFiniteSet(DOMAIN t.rec) /\ Cardinality(DOMAIN t.rec) <= Quota
  <2>1. DOMAIN t.rec \in SUBSET DOMAIN rec
    BY <1>2
  <2>2. IsFiniteSet(DOMAIN t.rec) /\ Cardinality(DOMAIN t.rec) <= Cardinality(DOMAIN rec)
    BY <1>1, <2>1, FS_Subset
  <2>3. Cardinality(DOMAIN t.rec) \in Nat /\ Cardinality(DOMAIN rec) \in Nat
    BY <1>1, <2>2, FS_CardinalityType
  <2> QED
    BY <1>1, <2>2, <2>3
<1>4. Past(t.rec, t)
  <2>1. IsMap(t.rec, Ids, Record)
    BY <1>2 DEF Past
  <2>2. \A r \in DOMAIN t.rec : t.rec[r].seq <= t.number /\ t.rec[r].key <= t.drawn
    <3>1. \A r \in DOMAIN rec : rec[r].seq \in Nat /\ rec[r].key \in Nat
      BY <1>1 DEF Record
    <3> QED
      BY <1>1, <1>2, <3>1
  <2>3. \A r \in DOMAIN t.rec : t.rec[r].seq <= t.rec[r].seq
    BY <1>1, <1>2
  <2> QED
    BY <2>1, <2>2, <2>3 DEF Past
<1>5. ServerOf(t)
  <2>1. \A r \in DOMAIN t.rec : t.rec[r].seq \in 1..t.number
    BY <1>1, <1>2
  <2>2. \A q, r \in DOMAIN t.rec : t.rec[q].seq = t.rec[r].seq => q = r
    BY <1>1, <1>2
  <2>3. t.drawn \in 0..MaxIds /\ t.number \in 0..MaxNumber /\ t.pruned \in 0..t.number
    BY <1>1
  <2> QED
    BY <1>3, <1>4, <2>1, <2>2, <2>3 DEF ServerOf
<1>6. Follows(Now, t)
  <2>1. Now.space = space /\ Now.rec = rec /\ Now.number = number /\ Now.pruned = pruned /\ Now.drawn = drawn
    BY DEF Now
  <2>2. Grows(Now, t)
    BY <1>1, <1>2, <2>1 DEF Grows
  <2> QED
    BY <1>2, <2>1, <2>2 DEF Follows, SameSpace
<1> QED
  BY <1>2, <1>5, <1>6 DEF Clean

LEMMA CreateIs ==
    ASSUME ServerOf(Now), scene \in Scenes, NEW id \in Nat, CreateSpace(id), drawn' \in drawn..MaxIds, id \in 1..drawn'
    PROVE  /\ ServerOf(Now') /\ Follows(Now, Now') /\ rec' = rec
           /\ space = None /\ space' # None /\ space'.id = id
<1>1. /\ space = None /\ number < scene.most /\ number' = number + 1 /\ space' = [id |-> id, epoch |-> 0]
      /\ UNCHANGED <<rec, pruned, tombs>>
  BY DEF CreateSpace
<1>2. number \in Nat /\ drawn \in Nat /\ pruned \in Nat /\ pruned <= number /\ MaxNumber \in Nat /\ DOMAIN rec = {}
      /\ scene.most \in Nat /\ scene.most <= MaxNumber
  BY <1>1, RecIs, SceneFits
<1>3. rec' = Only(rec, DOMAIN rec)
  <2>1. rec = [r \in DOMAIN rec |-> rec[r]]
    BY RecIs DEF IsMap
  <2> QED
    BY <1>1, <2>1 DEF Only
<1>4. space' # None /\ space' \in [id : 1..drawn', epoch : 0..MaxNumber] /\ space'.id = id
  BY <1>1, <1>2, RowIsNotNone
<1>5. PICK t : t = Now'
  OBVIOUS
<1>6. /\ t = [space |-> t.space, rec |-> t.rec, number |-> t.number, pruned |-> t.pruned, drawn |-> t.drawn]
      /\ t.space = space' /\ t.rec = rec' /\ t.number = number + 1 /\ t.pruned = pruned /\ t.drawn = drawn'
  BY <1>1, <1>5 DEF Now
<1>7. ServerOf(t) /\ Follows(Now, t)
  <2>1. t.number \in number..MaxNumber /\ t.pruned \in pruned..t.number /\ t.drawn \in drawn..MaxIds
    BY <1>1, <1>2, <1>6
  <2>2. t.space \in {None} \cup [id : 1..t.drawn, epoch : 0..MaxNumber] /\ t.space # None
    BY <1>4, <1>6
  <2>3. t.rec = Only(rec, DOMAIN rec)
    BY <1>3, <1>6
  <2> QED
    BY <1>1, <1>6, <2>1, <2>2, <2>3, FewerRecords
<1> QED
  BY <1>1, <1>4, <1>5, <1>7

LEMMA DeleteIs ==
    ASSUME ServerOf(Now), DeleteSpace
    PROVE  ServerOf(Now') /\ Follows(Now, Now') /\ space' = None /\ \A d : Clean(rec', d)
<1>1. space' = None /\ rec' = Empty /\ UNCHANGED <<number, pruned, drawn>>
  BY DEF DeleteSpace
<1>2. rec' = Only(rec, {}) /\ DOMAIN rec' = {}
  BY <1>1 DEF Only, Empty
<1>3. PICK t : t = Now'
  OBVIOUS
<1>4. /\ t = [space |-> t.space, rec |-> t.rec, number |-> t.number, pruned |-> t.pruned, drawn |-> t.drawn]
      /\ t.space = None /\ t.rec = rec' /\ t.number = number /\ t.pruned = pruned /\ t.drawn = drawn
  BY <1>1, <1>3 DEF Now
<1>5. ServerOf(t) /\ Follows(Now, t)
  <2>1. t.number \in number..MaxNumber /\ t.pruned \in pruned..t.number /\ t.drawn \in drawn..MaxIds
    BY <1>4, RecIs
  <2>2. DOMAIN t.rec = {} /\ t.rec = Only(rec, {})
    BY <1>2, <1>4
  <2> QED
    BY <1>4, <2>1, <2>2, FewerRecords
<1> QED
  BY <1>1, <1>2, <1>3, <1>5 DEF Clean

LEMMA VaultIs ==
    ASSUME ServerOf(Now), scene \in Scenes, VaultDeletes
    PROVE  ServerOf(Now') /\ Follows(Now, Now') /\ space' = space /\ rec' = rec
<1>1. number < scene.most /\ number' = number + 1 /\ UNCHANGED <<space, rec, pruned, drawn>>
  BY DEF VaultDeletes
<1>2. number \in Nat /\ drawn \in Nat /\ drawn <= MaxIds /\ pruned \in Nat /\ pruned <= number /\ MaxNumber \in Nat
      /\ scene.most \in Nat /\ scene.most <= MaxNumber
      /\ (space # None => space \in [id : 1..drawn, epoch : 0..MaxNumber]) /\ (space = None => DOMAIN rec = {})
  BY RecIs, SceneFits
<1>3. rec' = Only(rec, DOMAIN rec)
  <2>1. rec = [r \in DOMAIN rec |-> rec[r]]
    BY RecIs DEF IsMap
  <2> QED
    BY <1>1, <2>1 DEF Only
<1>4. PICK t : t = Now'
  OBVIOUS
<1>5. /\ t = [space |-> t.space, rec |-> t.rec, number |-> t.number, pruned |-> t.pruned, drawn |-> t.drawn]
      /\ t.space = space /\ t.rec = rec' /\ t.rec = rec /\ t.number = number + 1 /\ t.pruned = pruned /\ t.drawn = drawn
  BY <1>1, <1>4 DEF Now
<1>6. ServerOf(t) /\ Follows(Now, t)
  <2>1. t.number \in number..MaxNumber /\ t.pruned \in pruned..t.number /\ t.drawn \in drawn..MaxIds
    <3>1. number + 1 <= MaxNumber
      BY <1>1, <1>2
    <3>2. pruned <= number + 1
      BY <1>2
    <3> QED
      BY <1>2, <1>5, <3>1, <3>2
  <2>2. t.space \in {None} \cup [id : 1..t.drawn, epoch : 0..MaxNumber] /\ (t.space = None => DOMAIN t.rec = {})
    BY <1>2, <1>5
  <2>3. t.rec = Only(rec, DOMAIN rec)
    BY <1>3, <1>5
  <2> QED
    BY <1>5, <2>1, <2>2, <2>3, FewerRecords
<1> QED
  BY <1>1, <1>4, <1>6

LEMMA PruneIs ==
    ASSUME ServerOf(Now), PruneTombstones
    PROVE  /\ ServerOf(Now') /\ Follows(Now, Now') /\ space' = space
           /\ \A d : Clean(rec, d) => Clean(rec', d)
           /\ \A b \in Browsers : \A r \in DOMAIN page[b].batch.took \cap (DOMAIN rec \ DOMAIN rec') :
                 page[b].batch.took[r].gone
<1>1. PICK n \in 1..number :
        /\ LongAgo(n) /\ pruned' = (IF n > pruned THEN n ELSE pruned)
        /\ rec' = Only(rec, DOMAIN rec \ Old(n))
  BY DEF PruneTombstones
<1>2. UNCHANGED <<space, number, drawn>>
  BY DEF PruneTombstones
<1>3. number \in Nat /\ number <= MaxNumber /\ drawn \in Nat /\ drawn <= MaxIds /\ pruned \in Nat /\ pruned <= number
      /\ (space # None => space \in [id : 1..drawn, epoch : 0..MaxNumber]) /\ (space = None => DOMAIN rec = {})
      /\ \A r \in DOMAIN rec : rec[r].seq \in Nat
  BY RecIs
<1>4. n \in Nat /\ n <= number /\ pruned' \in pruned..number /\ n <= pruned'
  BY <1>1, <1>3
<1>5. DOMAIN rec' = DOMAIN rec \ Old(n)
  BY <1>1 DEF Only
<1>6. PICK t : t = Now'
  OBVIOUS
<1>7. /\ t = [space |-> t.space, rec |-> t.rec, number |-> t.number, pruned |-> t.pruned, drawn |-> t.drawn]
      /\ t.space = space /\ t.rec = rec' /\ t.number = number /\ t.pruned = pruned' /\ t.drawn = drawn
  BY <1>2, <1>6 DEF Now
<1>8. ServerOf(t) /\ Follows(Now, t) /\ \A d : Clean(rec, d) => Clean(t.rec, d)
  <2>1. t.number \in number..MaxNumber /\ t.pruned \in pruned..t.number /\ t.drawn \in drawn..MaxIds
    BY <1>3, <1>4, <1>7
  <2>2. t.space \in {None} \cup [id : 1..t.drawn, epoch : 0..MaxNumber] /\ (t.space = None => DOMAIN t.rec = {})
    BY <1>3, <1>5, <1>7
  <2>3. t.rec = Only(rec, DOMAIN rec \ Old(n))
    BY <1>1, <1>7
  <2>4. \A r \in DOMAIN rec \ (DOMAIN rec \ Old(n)) : rec[r].gone /\ rec[r].seq <= t.pruned
    BY <1>3, <1>4, <1>7 DEF Old
  <2> QED
    BY <1>7, <2>1, <2>2, <2>3, <2>4, FewerRecords
<1>9. \A b \in Browsers : \A r \in DOMAIN page[b].batch.took \cap (DOMAIN rec \ DOMAIN rec') :
         page[b].batch.took[r].gone
  BY <1>1, <1>5 DEF LongAgo
<1> QED
  BY <1>2, <1>6, <1>7, <1>8, <1>9

(* A new key: every record there is gets it, a number of its own, and stays what it is. *)
LEMMA RekeyIs ==
    ASSUME ServerOf(Now), scene \in Scenes, NEW recs, Past(recs, Now), drawn < MaxIds,
           RekeySpace(drawn + 1, recs), drawn' = drawn + 1
    PROVE  /\ ServerOf(Now') /\ Follows(Now, Now')
           /\ space # None /\ space' # None /\ space'.id = drawn + 1
           /\ DOMAIN rec' = DOMAIN rec
           /\ \A r \in DOMAIN rec : rec'[r].key = drawn + 1 /\ rec'[r].write = rec[r].write
<1> DEFINE n == Cardinality(DOMAIN recs)
<1>1. /\ space # None /\ DOMAIN recs = DOMAIN rec /\ number + n < scene.most
      /\ number' = number + n + 1 /\ space' = [id |-> drawn + 1, epoch |-> number']
      /\ UNCHANGED <<pruned, tombs>>
      /\ \A r \in DOMAIN recs : recs[r].seq = rec[r].seq
  BY DEF RekeySpace, MayRekey, SomeStale
<1>2. PICK order \in [DOMAIN recs -> 1..n] :
        /\ \A q, r \in DOMAIN recs : order[q] = order[r] => q = r
        /\ rec' = [r \in DOMAIN rec |-> IF r \in DOMAIN recs THEN [recs[r] EXCEPT !.seq = number + order[r], !.key = drawn + 1]
                                        ELSE rec[r]]
  BY DEF RekeySpace
<1>3. /\ number \in Nat /\ pruned \in Nat /\ drawn \in Nat
      /\ number <= MaxNumber /\ drawn <= MaxIds /\ pruned <= number
      /\ IsFiniteSet(DOMAIN rec) /\ Cardinality(DOMAIN rec) <= Quota /\ DOMAIN rec \subseteq Ids
      /\ \A r \in DOMAIN rec : rec[r] \in Record /\ rec[r].seq \in Nat /\ rec[r].seq \in 1..number /\ rec[r].key <= drawn
      /\ space # None => space \in [id : 1..drawn, epoch : 0..MaxNumber]
      /\ scene.most \in Nat /\ scene.most <= MaxNumber /\ MaxNumber \in Nat /\ MaxIds \in Nat
  BY RecIs, SceneFits
<1>4. n \in Nat
  BY <1>1, <1>3, FS_CardinalityType
<1>5. \A r \in DOMAIN rec : recs[r] = rec[r]
  <2>1. Now.rec = rec
    BY DEF Now
  <2> QED
    BY <1>1, <2>1 DEF Past
<1> HIDE DEF n
<1>6. /\ DOMAIN rec' = DOMAIN rec
      /\ \A r \in DOMAIN rec : rec'[r] = [rec[r] EXCEPT !.seq = number + order[r], !.key = drawn + 1]
  BY <1>1, <1>2, <1>5
<1>7. ASSUME NEW r \in DOMAIN rec
      PROVE  /\ rec'[r] \in Record /\ rec'[r].key = drawn + 1 /\ rec'[r].write = rec[r].write
             /\ rec'[r].seq = number + order[r] /\ order[r] \in 1..n
  <2>1. order[r] \in 1..n
    BY <1>1, <1>2
  <2>2. number + order[r] \in 0..MaxNumber /\ drawn + 1 \in 1..MaxIds
    BY <1>1, <1>3, <1>4, <2>1
  <2>3. rec[r] \in Record
    BY <1>3
  <2>4. [rec[r] EXCEPT !.seq = number + order[r], !.key = drawn + 1] \in Record
    BY <2>2, <2>3 DEF Record
  <2>5. /\ [rec[r] EXCEPT !.seq = number + order[r], !.key = drawn + 1].seq = number + order[r]
        /\ [rec[r] EXCEPT !.seq = number + order[r], !.key = drawn + 1].key = drawn + 1
        /\ [rec[r] EXCEPT !.seq = number + order[r], !.key = drawn + 1].write = rec[r].write
    BY <2>3 DEF Record
  <2> QED
    BY <1>6, <2>1, <2>4, <2>5
<1>8. PICK t : t = Now'
  OBVIOUS
<1>9. /\ t.space = space' /\ t.rec = rec' /\ t.number = number + n + 1 /\ t.pruned = pruned /\ t.drawn = drawn + 1
      /\ number + n + 1 <= MaxNumber
  BY <1>1, <1>3, <1>4, <1>8 DEF Now
<1>10. space' # None /\ space'.id = drawn + 1 /\ space' \in [id : 1..(drawn + 1), epoch : 0..MaxNumber]
  <2>1. number' = number + n + 1 /\ number' \in Nat /\ number' \in 0..MaxNumber
    BY <1>1, <1>3, <1>4, <1>9
  <2>2. space' = [id |-> drawn + 1, epoch |-> number']
    BY <1>1
  <2>3. drawn + 1 \in Nat /\ drawn + 1 \in 1..(drawn + 1)
    BY <1>3
  <2> QED
    BY <2>1, <2>2, <2>3, RowIsNotNone
<1>11. IsMap(t.rec, Ids, Record)
  <2>1. rec' = [r \in DOMAIN rec |-> rec'[r]]
    BY <1>2, <1>6
  <2> QED
    BY <1>3, <1>6, <1>7, <1>9, <2>1 DEF IsMap
<1>12. \A r \in DOMAIN t.rec : t.rec[r].seq \in 1..t.number /\ t.rec[r].key <= t.drawn /\ t.rec[r].seq > number
  <2> TAKE r \in DOMAIN t.rec
  <2>1. r \in DOMAIN rec /\ t.rec[r] = rec'[r]
    BY <1>6, <1>9
  <2>2. t.rec[r].seq = number + order[r] /\ order[r] \in 1..n /\ t.rec[r].key = drawn + 1
    BY <1>7, <2>1
  <2> QED
    BY <1>3, <1>4, <1>9, <2>2
<1>13. \A q, r \in DOMAIN t.rec : t.rec[q].seq = t.rec[r].seq => q = r
  <2> TAKE q, r \in DOMAIN t.rec
  <2>1. /\ q \in DOMAIN rec /\ t.rec[q].seq = number + order[q] /\ order[q] \in 1..n
        /\ r \in DOMAIN rec /\ t.rec[r].seq = number + order[r] /\ order[r] \in 1..n
    BY <1>6, <1>7, <1>9
  <2>2. t.rec[q].seq = t.rec[r].seq => order[q] = order[r]
    BY <1>3, <1>4, <2>1
  <2> QED
    BY <1>1, <1>2, <2>1, <2>2
<1>14. ServerOf(t)
  <2>1. Past(t.rec, t)
    <3>1. \A r \in DOMAIN t.rec : t.rec[r].seq <= t.rec[r].seq /\ t.rec[r].seq <= t.number
      BY <1>3, <1>4, <1>9, <1>12
    <3> QED
      BY <1>11, <1>12, <3>1 DEF Past
  <2>2. t.drawn \in 0..MaxIds /\ t.number \in 0..MaxNumber /\ t.pruned \in 0..t.number
    BY <1>3, <1>4, <1>9
  <2>3. IsFiniteSet(DOMAIN t.rec) /\ Cardinality(DOMAIN t.rec) <= Quota
    BY <1>3, <1>6, <1>9
  <2> QED
    BY <1>9, <1>10, <1>12, <1>13, <2>1, <2>2, <2>3 DEF ServerOf
<1>15. Follows(Now, t)
  <2>1. Now.space = space /\ Now.rec = rec /\ Now.number = number /\ Now.pruned = pruned /\ Now.drawn = drawn
    BY DEF Now
  <2>2. Grows(Now, t)
    BY <1>3, <1>4, <1>9, <1>12, <2>1 DEF Grows
  <2> QED
    BY <1>6, <1>9, <2>1, <2>2 DEF Follows
<1> QED
  BY <1>1, <1>6, <1>7, <1>8, <1>10, <1>14, <1>15

(***************************************************************************)
(* Steps that the pages take together                                      *)
(***************************************************************************)
(* One page is as another, but for what no part of the invariant reads.    *)
Alike(p, q) ==
    /\ DOMAIN q = Fields
    /\ q.held = p.held /\ q.batch = p.batch /\ q.astray = p.astray /\ q.cursor = p.cursor /\ q.shown = p.shown
    /\ q.found = p.found /\ q.answer = p.answer /\ q.at = p.at /\ q.id = p.id /\ q.status = p.status

LEMMA AlikeIs ==
    ASSUME NEW p, NEW q, NEW s, Alike(p, q), PageOf(p, s)
    PROVE  /\ PageOf(q, s)
           /\ \A d : (Apart(p, d) => Apart(q, d)) /\ (Elsewhere(p, d) => Elsewhere(q, d)) /\ (Named(p, d) => Named(q, d))
<1>1. PageFits(q, s)
  BY DEF Alike, PageOf, PageFits, Opened
<1>2. HeldRight(q, s) /\ Stays(q.batch.took, s)
  BY DEF Alike, PageOf, HeldRight, Shares
<1>3. AnswerRight(q, s)
  BY DEF Alike, PageOf, AnswerRight, Awaits, Shares
<1>4. \A d : (Apart(p, d) => Apart(q, d)) /\ (Elsewhere(p, d) => Elsewhere(q, d)) /\ (Named(p, d) => Named(q, d))
  BY DEF Alike, Apart, Elsewhere, Named
<1> QED
  BY <1>1, <1>2, <1>3, <1>4 DEF PageOf

(* Who is told, has something more in line.                                *)
LEMMA TellIs ==
    ASSUME NEW pages, DOMAIN pages = Browsers, \A b \in Browsers : DOMAIN pages[b] = Fields, NEW acting
    PROVE  /\ DOMAIN Tell(pages, acting) = Browsers
           /\ \A b \in Browsers : Alike(pages[b], Tell(pages, acting)[b])
           /\ acting \in Browsers => Tell(pages, acting)[acting] = pages[acting]
<1>1. ASSUME NEW b \in Browsers
      PROVE  Alike(pages[b], Tell(pages, acting)[b])
  <2> DEFINE p == pages[b]
  <2>1. Tell(pages, acting)[b] = IF b # acting /\ p.link = "up" THEN [p EXCEPT !.wants = @ \cup {"load"}] ELSE p
    BY DEF Tell
  <2>2. DOMAIN p = Fields
    OBVIOUS
  <2> HIDE DEF p
  <2>3. Alike(p, p) /\ Alike(p, [p EXCEPT !.wants = @ \cup {"load"}])
    BY <2>2 DEF Alike, Fields
  <2> QED
    BY <2>1, <2>3 DEF p
<1> QED
  BY <1>1 DEF Tell

(* Whoever makes a space has drawn its id, and nobody else has it.         *)
LEMMA MakerHas ==
    ASSUME IInv, NEW b \in Browsers, page[b].at = "put"
    PROVE  /\ page[b].held # None /\ HeldOf(page[b].held, Now)
           /\ page[b].held.id \in 1..drawn /\ page[b].held.id \in Nat /\ page[b].held.id <= drawn
           /\ Alone(b, page[b].held.id)
<1>1. PageOf(page[b], Now) /\ ServerOf(Now) /\ Now.drawn = drawn
  BY PageHas
<1>2. page[b].held # None /\ HeldOf(page[b].held, Now)
  BY <1>1 DEF PageOf, PageFits, Opened
<1>3. page[b].held.id \in 1..drawn /\ drawn \in Nat
  BY <1>1, <1>2, ServerFacts DEF HeldOf
<1> QED
  BY <1>2, <1>3 DEF IInv

LEMMA StepKeeps ==
    ASSUME IInv, scene' = scene, DOMAIN page' = Browsers, ServerOf(Now'), AppOf(app', Now'),
           \A c \in Browsers : PageOf(page'[c], Now'),
           \A c \in Browsers : page'[c].at = "put" => page[c].at = "put" /\ page'[c].held.id = page[c].held.id,
           \A c \in Browsers : page'[c].at = "put" =>
              /\ ServerApart(Now', app', page[c].held.id)
              /\ \A e \in Browsers : Apart(page'[e], page[c].held.id) /\ (e # c => Elsewhere(page'[e], page[c].held.id))
              /\ Named(page'[c], page[c].held.id)
    PROVE  IInv'
<1>1. ASSUME NEW c \in Browsers, page'[c].at = "put"
      PROVE  Alone(c, page[c].held.id)'
  <2>1. PICK d : d = page'[c].held.id
    OBVIOUS
  <2>2. d = page[c].held.id
    BY <1>1, <2>1
  <2>3. /\ ServerApart(Now', app', d)
        /\ \A e \in Browsers : Apart(page'[e], d) /\ (e # c => Elsewhere(page'[e], d))
        /\ Named(page'[c], d)
    BY <1>1, <2>2
  <2> QED
    BY <2>1, <2>3 DEF Alone
<1> QED
  BY <1>1 DEF IInv

(* A step of the server that the pages are only told of.                   *)
LEMMA ToldKeeps ==
    ASSUME IInv, scene' = scene, DOMAIN page' = Browsers, ServerOf(Now'), Follows(Now, Now'), AppOf(app', Now'),
           \A c \in Browsers : Alike(page[c], page'[c]) /\ Untouched(page[c], Now, Now'),
           \A c \in Browsers : page[c].at = "put" => ServerApart(Now', app', page[c].held.id)
    PROVE  IInv'
<1>1. ASSUME NEW c \in Browsers
      PROVE  /\ PageOf(page'[c], Now') /\ page'[c].at = page[c].at /\ page'[c].held = page[c].held
             /\ \A d : /\ Apart(page[c], d) => Apart(page'[c], d)
                       /\ Elsewhere(page[c], d) => Elsewhere(page'[c], d)
                       /\ Named(page[c], d) => Named(page'[c], d)
  <2>1. PICK s, q : s = Now' /\ q = page'[c]
    OBVIOUS
  <2>2. PageOf(page[c], Now) /\ ServerOf(Now) /\ ServerOf(s) /\ Follows(Now, s) /\ Untouched(page[c], Now, s) /\ Alike(page[c], q)
    BY <2>1, PageHas
  <2>3. PageOf(page[c], s)
    BY <2>2, PageFollows
  <2>4. /\ PageOf(q, s)
        /\ \A d : /\ Apart(page[c], d) => Apart(q, d)
                  /\ Elsewhere(page[c], d) => Elsewhere(q, d)
                  /\ Named(page[c], d) => Named(q, d)
    BY <2>2, <2>3, AlikeIs
  <2>5. q.at = page[c].at /\ q.held = page[c].held
    BY <2>2 DEF Alike
  <2> QED
    BY <2>1, <2>4, <2>5
<1>2. ASSUME NEW c \in Browsers, page'[c].at = "put"
      PROVE  /\ ServerApart(Now', app', page[c].held.id)
             /\ \A e \in Browsers : Apart(page'[e], page[c].held.id) /\ (e # c => Elsewhere(page'[e], page[c].held.id))
             /\ Named(page'[c], page[c].held.id)
  <2>1. page[c].at = "put"
    BY <1>1, <1>2
  <2>2. Alone(c, page[c].held.id)
    BY <2>1, MakerHas
  <2> QED
    BY <1>1, <2>1, <2>2 DEF Alone
<1> QED
  BY <1>1, <1>2, StepKeeps

(***************************************************************************)
(* What others do                                                          *)
(***************************************************************************)
LEMMA EnvelopesGrow ==
    ASSUME NEW sealed, NEW s, NEW t, ServerOf(s), ServerOf(t), Grows(s, t), Envelopes(sealed, s)
    PROVE  Envelopes(sealed, t)
<1>1. s.drawn \in Nat /\ t.drawn \in Nat /\ s.drawn <= t.drawn
  BY ServerFacts DEF Grows
<1>2. ASSUME NEW i \in DOMAIN sealed PROVE sealed[i].key <= t.drawn
  <2>1. sealed \in Seq(Envelope) /\ sealed[i].key <= s.drawn
    BY DEF Envelopes
  <2>2. sealed[i] \in Envelope
    BY <2>1
  <2>3. sealed[i].key \in Nat
    BY <2>2 DEF Envelope
  <2> QED
    BY <1>1, <2>1, <2>3
<1> QED
  BY <1>2 DEF Envelopes

LEMMA AppGrows ==
    ASSUME NEW a, NEW s, NEW t, ServerOf(s), ServerOf(t), Grows(s, t), AppOf(a, s)
    PROVE  AppOf(a, t)
<1>1. a # None => Past(a.recs, t)
  BY PastGrows DEF AppOf
<1>2. a # None => Envelopes(a.sealed, t)
  BY EnvelopesGrow DEF AppOf
<1> QED
  BY <1>1, <1>2 DEF AppOf

LEMMA SelfAlike ==
    ASSUME IInv, page' = page
    PROVE  DOMAIN page' = Browsers /\ \A c \in Browsers : Alike(page[c], page'[c])
<1>1. \A c \in Browsers : DOMAIN page[c] = Fields
  BY PageHas
<1> QED
  BY <1>1 DEF IInv, Alike

LEMMA ToldAlike ==
    ASSUME IInv, page' = Tell(page, None)
    PROVE  DOMAIN page' = Browsers /\ \A c \in Browsers : Alike(page[c], page'[c])
<1>1. DOMAIN page = Browsers /\ \A c \in Browsers : DOMAIN page[c] = Fields
  BY PageHas DEF IInv
<1> QED
  BY <1>1, TellIs

(* The space stays what it is, or goes: nobody needs to care.              *)
LEMMA UntouchedIs ==
    ASSUME NEW p, NEW s, NEW t, t.space # None => t.space = s.space,
           \A r \in DOMAIN p.batch.took \cap (DOMAIN s.rec \ DOMAIN t.rec) : t.space = None \/ p.batch.took[r].gone
    PROVE  Untouched(p, s, t)
BY DEF Untouched, SameSpace

LEMMA DeleteKeeps ==
    ASSUME IInv, DeleteSpace
    PROVE  IInv'
<1>1. ServerOf(Now) /\ scene \in Scenes /\ AppOf(app, Now)
  BY DEF IInv
<1>2. space' = None /\ rec' = Empty /\ page' = Tell(page, None) /\ app' = app /\ scene' = scene
  BY DEF DeleteSpace
<1>3. ServerOf(Now') /\ Follows(Now, Now')
  BY <1>1, DeleteIs
<1>4. DOMAIN page' = Browsers /\ \A c \in Browsers : Alike(page[c], page'[c])
  BY <1>2, ToldAlike
<1>5. PICK t : t = Now'
  OBVIOUS
<1>6. t.space = None /\ t.rec = Empty
  BY <1>2, <1>5 DEF Now
<1>7. \A c \in Browsers : Untouched(page[c], Now, t)
  BY <1>6 DEF Untouched, SameSpace
<1>8. AppOf(app, t)
  BY <1>1, <1>3, <1>5, AppGrows DEF Follows
<1>9. ASSUME NEW c \in Browsers, page[c].at = "put"
      PROVE  ServerApart(t, app, page[c].held.id)
  <2>1. ServerApart(Now, app, page[c].held.id)
    BY <1>9, MakerHas DEF Alone
  <2> QED
    BY <1>6, <2>1, EmptyPast DEF ServerApart, Clean
<1> QED
  BY <1>2, <1>3, <1>4, <1>5, <1>7, <1>8, <1>9, ToldKeeps

LEMMA VaultKeeps ==
    ASSUME IInv, VaultDeletes
    PROVE  IInv'
<1>1. ServerOf(Now) /\ scene \in Scenes /\ AppOf(app, Now)
  BY DEF IInv
<1>2. page' = page /\ app' = app /\ scene' = scene
  BY DEF VaultDeletes
<1>3. ServerOf(Now') /\ Follows(Now, Now') /\ space' = space /\ rec' = rec
  BY <1>1, VaultIs
<1>4. DOMAIN page' = Browsers /\ \A c \in Browsers : Alike(page[c], page'[c])
  BY <1>2, SelfAlike
<1>5. PICK t : t = Now'
  OBVIOUS
<1>6. t.space = Now.space /\ t.rec = Now.rec
  BY <1>3, <1>5 DEF Now
<1>7. \A c \in Browsers : Untouched(page[c], Now, t)
  BY <1>6, UntouchedIs
<1>8. AppOf(app, t)
  BY <1>1, <1>3, <1>5, AppGrows DEF Follows
<1>9. ASSUME NEW c \in Browsers, page[c].at = "put"
      PROVE  ServerApart(t, app, page[c].held.id)
  <2>1. ServerApart(Now, app, page[c].held.id)
    BY <1>9, MakerHas DEF Alone
  <2> QED
    BY <1>6, <2>1 DEF ServerApart
<1> QED
  BY <1>2, <1>3, <1>4, <1>5, <1>7, <1>8, <1>9, ToldKeeps

LEMMA PruneKeeps ==
    ASSUME IInv, PruneTombstones
    PROVE  IInv'
<1>1. ServerOf(Now) /\ scene \in Scenes /\ AppOf(app, Now) /\ Now.rec = rec /\ Now.space = space
  BY DEF IInv, Now
<1>2. page' = page /\ app' = app /\ scene' = scene
  BY DEF PruneTombstones
<1>3. /\ ServerOf(Now') /\ Follows(Now, Now') /\ space' = space
      /\ \A d : Clean(rec, d) => Clean(rec', d)
      /\ \A b \in Browsers : \A r \in DOMAIN page[b].batch.took \cap (DOMAIN rec \ DOMAIN rec') :
            page[b].batch.took[r].gone
  BY <1>1, PruneIs
<1>4. DOMAIN page' = Browsers /\ \A c \in Browsers : Alike(page[c], page'[c])
  BY <1>2, SelfAlike
<1>5. PICK t : t = Now'
  OBVIOUS
<1>6. t.space = Now.space /\ t.rec = rec'
  BY <1>1, <1>3, <1>5 DEF Now
<1>7. \A c \in Browsers : Untouched(page[c], Now, t)
  BY <1>1, <1>3, <1>6, UntouchedIs
<1>8. AppOf(app, t)
  BY <1>1, <1>3, <1>5, AppGrows DEF Follows
<1>9. ASSUME NEW c \in Browsers, page[c].at = "put"
      PROVE  ServerApart(t, app, page[c].held.id)
  <2>1. ServerApart(Now, app, page[c].held.id)
    BY <1>9, MakerHas DEF Alone
  <2> QED
    BY <1>1, <1>3, <1>6, <2>1 DEF ServerApart
<1> QED
  BY <1>2, <1>3, <1>4, <1>5, <1>7, <1>8, <1>9, ToldKeeps

LEMMA StandsStill ==
    ASSUME ServerOf(Now), UNCHANGED <<server, drawn>>
    PROVE  /\ Now' = Now /\ ServerOf(Now') /\ Follows(Now, Now')
           /\ \A p : Untouched(p, Now, Now')
<1>1. Now' = Now
  BY DEF Now, server
<1>2. Follows(Now, Now)
  BY ServerFacts DEF Follows, Grows
<1>3. \A p : Untouched(p, Now, Now)
  BY DEF Untouched, SameSpace
<1> QED
  BY <1>1, <1>2, <1>3

(* An id that is drawn is nobody's.                                        *)
LEMMA DrawnIsNew ==
    ASSUME IInv
    PROVE  /\ ServerApart(Now, app, drawn + 1)
           /\ \A c \in Browsers : /\ Apart(page[c], drawn + 1) /\ Elsewhere(page[c], drawn + 1)
                                  /\ Named(page[c], drawn + 1)
<1>1. ServerOf(Now) /\ AppOf(app, Now) /\ Now.drawn = drawn
  BY DEF IInv, Now
<1>2. drawn \in Nat
  BY <1>1, ServerFacts
<1>3. \A f : Past(f, Now) => Clean(f, drawn + 1)
  <2> SUFFICES ASSUME NEW f, Past(f, Now), NEW r \in DOMAIN f PROVE f[r].key # drawn + 1
    BY DEF Clean
  <2>1. f[r].key \in Nat /\ f[r].key <= drawn
    BY <1>1, PastFacts
  <2> QED
    BY <1>2, <2>1
<1>4. \A f : Envelopes(f, Now) => CleanAll(f, drawn + 1)
  <2> SUFFICES ASSUME NEW f, Envelopes(f, Now), NEW i \in DOMAIN f PROVE f[i].key # drawn + 1
    BY DEF CleanAll
  <2>1. f \in Seq(Envelope) /\ f[i].key <= drawn
    BY <1>1 DEF Envelopes
  <2>2. f[i] \in Envelope
    BY <2>1
  <2>3. f[i].key \in Nat
    BY <2>2 DEF Envelope
  <2> QED
    BY <1>2, <2>1, <2>3
<1>5. ServerApart(Now, app, drawn + 1)
  <2>1. Now.space # None => Now.space.id # drawn + 1
    BY <1>1, <1>2, ServerFacts
  <2>2. Past(Now.rec, Now)
    BY <1>1 DEF ServerOf
  <2> QED
    BY <1>1, <1>3, <1>4, <2>1, <2>2 DEF ServerApart, AppOf
<1>6. ASSUME NEW c \in Browsers
      PROVE  Apart(page[c], drawn + 1) /\ Elsewhere(page[c], drawn + 1)
  <2>1. PageFits(page[c], Now)
    BY DEF IInv, PageOf
  <2>2. page[c].found # drawn + 1 /\ (page[c].held # None => page[c].held.id # drawn + 1)
    BY <1>1, <1>2, <2>1 DEF PageFits, HeldOf
  <2>3. /\ page[c].held # None => Past(page[c].held.recs, Now)
        /\ Past(page[c].answer.recs, Now) /\ Past(page[c].batch.took, Now) /\ Envelopes(page[c].batch.sealed, Now)
    BY <2>1 DEF PageFits, HeldOf, AnswerOf, BatchOf
  <2> QED
    BY <1>3, <1>4, <2>2, <2>3 DEF Apart, Elsewhere
<1>7. \A c \in Browsers : Named(page[c], drawn + 1)
  BY <1>6 DEF Named, Elsewhere
<1> QED
  BY <1>5, <1>6, <1>7

(* A space that was not there, and that no page has anything of.           *)
LEMMA UntouchedByNew ==
    ASSUME NEW p, NEW s, NEW t, ~SameSpace(s, t), t.space # None, Apart(p, t.space.id), Elsewhere(p, t.space.id)
    PROVE  Untouched(p, s, t)
BY DEF Untouched, Apart, Elsewhere

LEMMA AppCreatesKeeps ==
    ASSUME IInv, AppCreates
    PROVE  IInv'
<1>1. ServerOf(Now) /\ scene \in Scenes /\ AppOf(app, Now) /\ Now.space = space /\ Now.rec = rec
  BY DEF IInv, Now
<1>2. /\ CreateSpace(drawn + 1) /\ drawn' = drawn + 1 /\ drawn < MaxIds
      /\ page' = Tell(page, None) /\ app' = app /\ scene' = scene
  BY DEF AppCreates
<1>3. drawn \in Nat /\ drawn + 1 \in drawn..MaxIds /\ drawn + 1 \in 1..(drawn + 1) /\ drawn + 1 \in Nat
  BY <1>1, <1>2, RecIs
<1>4. ServerOf(Now') /\ Follows(Now, Now') /\ rec' = rec /\ space = None /\ space' # None /\ space'.id = drawn + 1
  BY <1>1, <1>2, <1>3, CreateIs
<1>5. DOMAIN page' = Browsers /\ \A c \in Browsers : Alike(page[c], page'[c])
  BY <1>2, ToldAlike
<1>6. PICK t : t = Now'
  OBVIOUS
<1>7. t.space # None /\ t.space.id = drawn + 1 /\ t.rec = rec
  BY <1>4, <1>6 DEF Now
<1>8. \A c \in Browsers : Untouched(page[c], Now, t)
  BY <1>1, <1>4, <1>7, DrawnIsNew, UntouchedByNew DEF SameSpace
<1>9. AppOf(app, t)
  BY <1>1, <1>4, <1>6, AppGrows DEF Follows
<1>10. ASSUME NEW c \in Browsers, page[c].at = "put"
       PROVE  ServerApart(t, app, page[c].held.id)
  <2>1. ServerApart(Now, app, page[c].held.id) /\ page[c].held.id \in Nat /\ page[c].held.id <= drawn
    BY <1>10, MakerHas DEF Alone
  <2>2. page[c].held.id # drawn + 1
    BY <1>3, <2>1
  <2> QED
    BY <1>1, <1>7, <2>1, <2>2 DEF ServerApart
<1> QED
  BY <1>2, <1>4, <1>5, <1>6, <1>8, <1>9, <1>10, ToldKeeps

(* What the app has in mind changes, and nothing else.                     *)
LEMMA AppMindKeeps ==
    ASSUME IInv, UNCHANGED <<scene, server, drawn, page>>, AppOf(app', Now),
           space # None /\ app' # None => \A d : d # space.id => CleanAll(app'.sealed, d),
           space = None => app' = None
    PROVE  IInv'
<1>1. ServerOf(Now) /\ Now.space = space
  BY DEF IInv, Now
<1>2. Now' = Now /\ ServerOf(Now') /\ Follows(Now, Now') /\ \A p : Untouched(p, Now, Now')
  BY <1>1, StandsStill
<1>3. DOMAIN page' = Browsers /\ \A c \in Browsers : Alike(page[c], page'[c])
  BY SelfAlike
<1>4. ASSUME NEW c \in Browsers, page[c].at = "put"
      PROVE  ServerApart(Now, app', page[c].held.id)
  <2>1. ServerApart(Now, app, page[c].held.id)
    BY <1>4, MakerHas DEF Alone
  <2> QED
    BY <1>1, <2>1 DEF ServerApart
<1> QED
  BY <1>2, <1>3, <1>4, ToldKeeps

LEMMA AppReadsKeeps ==
    ASSUME IInv, AppReads
    PROVE  IInv'
<1>1. ServerOf(Now) /\ Now.drawn = drawn
  BY DEF IInv, Now
<1>2. space # None /\ UNCHANGED <<scene, server, drawn, page>>
  BY DEF AppReads
<1>3. /\ drawn \in Nat /\ drawn <= MaxIds /\ MaxIds \in Nat /\ MaxNumber \in Nat /\ Past(rec, Now) /\ DOMAIN rec \subseteq Ids
      /\ \A r \in DOMAIN rec : rec[r] \in Record /\ rec[r].seq \in 0..MaxNumber /\ rec[r].write \in 0..MaxNumber
      /\ space.id \in 1..drawn /\ space.id \in 1..MaxIds
  <2>1. space.id \in 1..drawn /\ drawn \in Nat /\ drawn <= MaxIds /\ Past(rec, Now) /\ DOMAIN rec \subseteq Ids
    BY <1>1, <1>2, RecIs
  <2>2. \A r \in DOMAIN rec : rec[r] \in Record /\ rec[r].seq \in 0..MaxNumber /\ rec[r].write \in 0..MaxNumber
    BY <2>1, PastFacts
  <2>3. space.id \in 1..MaxIds
    BY <2>1
  <2> QED
    BY <2>1, <2>2, <2>3
<1>4. ASSUME NEW r \in DOMAIN rec \cup (IF HasNew THEN {NewId} ELSE {}), NEW gone \in BOOLEAN,
             app' = [id |-> space.id, rekey |-> FALSE, recs |-> Only(rec, {r}),
                     sealed |-> <<[id |-> r, base |-> IF r \in DOMAIN rec THEN rec[r].seq ELSE 0, key |-> space.id,
                                   read |-> IF r \in DOMAIN rec THEN rec[r].write ELSE 0, gone |-> gone]>>]
      PROVE  IInv'
  <2> DEFINE e == [id |-> r, base |-> IF r \in DOMAIN rec THEN rec[r].seq ELSE 0, key |-> space.id,
                   read |-> IF r \in DOMAIN rec THEN rec[r].write ELSE 0, gone |-> gone]
  <2>1. r \in Ids
    BY <1>3 DEF HasNew, NewId
  <2>2. e \in Envelope
    <3>1. /\ (IF r \in DOMAIN rec THEN rec[r].seq ELSE 0) \in 0..MaxNumber
          /\ (IF r \in DOMAIN rec THEN rec[r].write ELSE 0) \in 0..MaxNumber
      BY <1>3
    <3> QED
      BY <1>3, <2>1, <3>1 DEF Envelope
  <2>3. e.key = space.id
    OBVIOUS
  <2>4. app' = [id |-> space.id, rekey |-> FALSE, recs |-> Only(rec, {r}), sealed |-> <<e>>]
    BY <1>4
  <2> HIDE DEF e
  <2>5. <<e>> \in Seq(Envelope) /\ \A i \in DOMAIN <<e>> : <<e>>[i] = e
    BY <2>2
  <2>6. Envelopes(<<e>>, Now) /\ \A d : d # space.id => CleanAll(<<e>>, d)
    <3>1. space.id <= drawn
      BY <1>3
    <3> QED
      BY <1>1, <2>3, <2>5, <3>1 DEF Envelopes, CleanAll
  <2>7. Past(Only(rec, {r}), Now)
    <3>1. PICK f : f = rec
      OBVIOUS
    <3>2. Past(Only(f, {r}), Now)
      BY <1>3, <3>1, OnlyPast
    <3> QED
      BY <3>1, <3>2
  <2>8. PICK a : a = app'
    OBVIOUS
  <2>9. /\ DOMAIN a = {"id", "rekey", "recs", "sealed"}
        /\ a.recs = Only(rec, {r}) /\ a.sealed = <<e>>
    BY <2>4, <2>8
  <2>10. AppOf(a, Now) /\ \A d : d # space.id => CleanAll(a.sealed, d)
    BY <2>6, <2>7, <2>9 DEF AppOf
  <2> QED
    BY <1>2, <2>8, <2>10, AppMindKeeps
<1>5. ASSUME app' = [id |-> space.id, rekey |-> TRUE, recs |-> rec, sealed |-> <<>>]
      PROVE  IInv'
  <2>1. PICK a : a = app'
    OBVIOUS
  <2>2. DOMAIN a = {"id", "rekey", "recs", "sealed"} /\ a.recs = rec /\ a.sealed = <<>>
    BY <1>5, <2>1
  <2>3. Envelopes(<<>>, Now) /\ \A d : CleanAll(<<>>, d)
    BY DEF Envelopes, CleanAll
  <2>4. AppOf(a, Now) /\ \A d : d # space.id => CleanAll(a.sealed, d)
    BY <1>3, <2>2, <2>3 DEF AppOf
  <2> QED
    BY <1>2, <2>1, <2>4, AppMindKeeps
<1> QED
  BY <1>4, <1>5 DEF AppReads

(* What the app has written goes, and so does what it had in mind.         *)
LEMMA AppGone ==
    ASSUME NEW t
    PROVE  AppOf(None, t)
BY DEF AppOf

LEMMA AppPushesKeeps ==
    ASSUME IInv, AppPushes
    PROVE  IInv'
<1>1. ServerOf(Now) /\ scene \in Scenes /\ AppOf(app, Now) /\ Now.space = space /\ Now.rec = rec
  BY DEF IInv, Now
<1>2. app # None /\ app' = None /\ scene' = scene /\ drawn' = drawn /\ page' = IF rec' # rec THEN Tell(page, None) ELSE page
  BY DEF AppPushes
<1>3. DOMAIN page' = Browsers /\ \A c \in Browsers : Alike(page[c], page'[c])
  BY <1>2, ToldAlike, SelfAlike
<1>4. PICK t : t = Now'
  OBVIOUS
<1>5. t.space = space' /\ t.rec = rec'
  BY <1>4 DEF Now
<1> DEFINE Right == /\ ServerOf(t) /\ Follows(Now, t) /\ (\A c \in Browsers : Untouched(page[c], Now, t))
                    /\ space' = space /\ (\A d : Clean(rec, d) /\ CleanAll(app.sealed, d) => Clean(rec', d))
<1>6. Right
  <2>1. ASSUME UNCHANGED server PROVE Right
    BY <1>1, <1>2, <1>4, <2>1, StandsStill DEF server
  <2>2. ASSUME NEW named, MayPush(app.sealed, named), SuitePush(app.sealed) PROVE Right
    <3>1. Envelopes(app.sealed, Now) /\ space # None /\ Fits(app.sealed)
      BY <1>1, <1>2, <2>2 DEF AppOf, MayPush
    <3>2. /\ ServerOf(Now') /\ Follows(Now, Now')
          /\ space' = space /\ DOMAIN rec \subseteq DOMAIN rec'
          /\ \A d : Clean(rec, d) /\ CleanAll(app.sealed, d) => Clean(rec', d)
      BY <1>1, <1>2, <2>2, <3>1, PushIs
    <3>3. \A c \in Browsers : Untouched(page[c], Now, t)
      BY <1>1, <1>5, <3>2, UntouchedIs
    <3> QED
      BY <1>4, <3>2, <3>3
  <2> QED
    <3> HIDE DEF Right
    <3> QED
      BY <2>1, <2>2 DEF AppPushes
<1>7. ASSUME NEW c \in Browsers, page[c].at = "put"
      PROVE  ServerApart(t, None, page[c].held.id)
  <2>1. ServerApart(Now, app, page[c].held.id)
    BY <1>7, MakerHas DEF Alone
  <2> QED
    BY <1>1, <1>2, <1>5, <1>6, <2>1 DEF ServerApart
<1> QED
  BY <1>2, <1>3, <1>4, <1>6, <1>7, AppGone, ToldKeeps

LEMMA AppRekeysKeeps ==
    ASSUME IInv, AppRekeys
    PROVE  IInv'
<1>1. /\ ServerOf(Now) /\ scene \in Scenes /\ AppOf(app, Now)
      /\ Now.space = space /\ Now.rec = rec /\ Now.drawn = drawn
  BY DEF IInv, Now
<1>2. app # None /\ app' = None /\ scene' = scene /\ drawn \in Nat
  BY <1>1, RecIs DEF AppRekeys
<1>3. PICK t : t = Now'
  OBVIOUS
<1>4. t.space = space' /\ t.rec = rec'
  BY <1>3 DEF Now
<1>5. CASE UNCHANGED <<server, drawn, page>>
  <2>1. DOMAIN page' = Browsers /\ \A c \in Browsers : Alike(page[c], page'[c])
    BY <1>5, SelfAlike
  <2>2. Now' = Now /\ ServerOf(Now') /\ Follows(Now, Now') /\ \A p : Untouched(p, Now, Now')
    BY <1>1, <1>5, StandsStill
  <2>3. ASSUME NEW c \in Browsers, page[c].at = "put"
        PROVE  ServerApart(Now, None, page[c].held.id)
    <3>1. ServerApart(Now, app, page[c].held.id)
      BY <2>3, MakerHas DEF Alone
    <3> QED
      BY <3>1 DEF ServerApart
  <2> QED
    BY <1>2, <2>1, <2>2, <2>3, AppGone, ToldKeeps
<1>6. CASE drawn < MaxIds /\ RekeySpace(drawn + 1, app.recs) /\ drawn' = drawn + 1 /\ page' = Tell(page, None)
  <2>1. Past(app.recs, Now)
    BY <1>1, <1>2 DEF AppOf
  <2>2. /\ ServerOf(t) /\ Follows(Now, t)
        /\ space # None /\ space' # None /\ space'.id = drawn + 1
        /\ DOMAIN rec' = DOMAIN rec
        /\ \A r \in DOMAIN rec : rec'[r].key = drawn + 1
    BY <1>1, <1>3, <1>6, <2>1, RekeyIs
  <2>3. DOMAIN page' = Browsers /\ \A c \in Browsers : Alike(page[c], page'[c])
    BY <1>6, ToldAlike
  <2>4. ~SameSpace(Now, t)
    BY <1>1, <1>2, <1>4, <2>2, ServerFacts DEF SameSpace
  <2>5. \A c \in Browsers : Untouched(page[c], Now, t)
    BY <1>4, <2>2, <2>4, DrawnIsNew, UntouchedByNew
  <2>6. ASSUME NEW c \in Browsers, page[c].at = "put"
        PROVE  ServerApart(t, None, page[c].held.id)
    <3>1. page[c].held.id \in Nat /\ page[c].held.id <= drawn
      BY <2>6, MakerHas
    <3>2. page[c].held.id # drawn + 1
      BY <1>2, <3>1
    <3> QED
      BY <1>4, <2>2, <3>2 DEF ServerApart, Clean
  <2> QED
    BY <1>2, <1>3, <2>2, <2>3, <2>5, <2>6, AppGone, ToldKeeps
<1> QED
  BY <1>5, <1>6 DEF AppRekeys

(***************************************************************************)
(* A page that acts on the server                                          *)
(***************************************************************************)
LEMMA ToldBesides ==
    ASSUME IInv, NEW b \in Browsers, NEW q, DOMAIN q = Fields,
           page' = Tell([page EXCEPT ![b] = q], b) \/ page' = [page EXCEPT ![b] = q]
    PROVE  DOMAIN page' = Browsers /\ page'[b] = q /\ \A c \in Browsers : c # b => Alike(page[c], page'[c])
<1>1. DOMAIN page = Browsers /\ \A c \in Browsers : DOMAIN page[c] = Fields
  BY PageHas DEF IInv
<1>2. PICK f : f = [page EXCEPT ![b] = q]
  OBVIOUS
<1>3. DOMAIN f = Browsers /\ f[b] = q /\ \A c \in Browsers : c # b => f[c] = page[c]
  BY <1>1, <1>2
<1>4. \A c \in Browsers : DOMAIN f[c] = Fields
  BY <1>1, <1>3
<1>5. CASE page' = f
  BY <1>1, <1>3, <1>5 DEF Alike
<1>6. CASE page' = Tell(f, b)
  <2>1. /\ DOMAIN Tell(f, b) = Browsers /\ Tell(f, b)[b] = f[b]
        /\ \A c \in Browsers : Alike(f[c], Tell(f, b)[c])
    BY <1>3, <1>4, TellIs
  <2> QED
    BY <1>3, <1>6, <2>1
<1> QED
  BY <1>2, <1>5, <1>6

LEMMA ActsKeeps ==
    ASSUME IInv, NEW b \in Browsers, NEW q, DOMAIN q = Fields, scene' = scene, app' = app,
           page' = Tell([page EXCEPT ![b] = q], b) \/ page' = [page EXCEPT ![b] = q],
           ServerOf(Now'), Follows(Now, Now'), PageOf(q, Now'),
           \A c \in Browsers : c # b => Untouched(page[c], Now, Now'),
           q.at = "put" => page[b].at = "put" /\ q.held.id = page[b].held.id /\ Named(q, page[b].held.id),
           \A c \in Browsers : page[c].at = "put" /\ (c = b => q.at = "put") =>
              /\ ServerApart(Now', app, page[c].held.id)
              /\ Apart(q, page[c].held.id) /\ (c # b => Elsewhere(q, page[c].held.id))
    PROVE  IInv'
<1>1. DOMAIN page' = Browsers /\ page'[b] = q /\ \A c \in Browsers : c # b => Alike(page[c], page'[c])
  BY ToldBesides
<1>2. AppOf(app, Now) /\ ServerOf(Now)
  BY DEF IInv
<1>3. AppOf(app', Now')
  <2>1. PICK t : t = Now'
    OBVIOUS
  <2>2. ServerOf(t) /\ Grows(Now, t)
    BY <2>1 DEF Follows
  <2> QED
    BY <1>2, <2>1, <2>2, AppGrows
<1>4. ASSUME NEW c \in Browsers, c # b
      PROVE  /\ PageOf(page'[c], Now') /\ page'[c].at = page[c].at /\ page'[c].held = page[c].held
             /\ \A d : /\ Apart(page[c], d) => Apart(page'[c], d)
                       /\ Elsewhere(page[c], d) => Elsewhere(page'[c], d)
                       /\ Named(page[c], d) => Named(page'[c], d)
  <2>1. PICK s, r : s = Now' /\ r = page'[c]
    OBVIOUS
  <2>2. PageOf(page[c], Now) /\ ServerOf(Now) /\ ServerOf(s) /\ Follows(Now, s) /\ Untouched(page[c], Now, s) /\ Alike(page[c], r)
    BY <1>1, <1>4, <2>1, PageHas
  <2>3. PageOf(page[c], s)
    BY <2>2, PageFollows
  <2>4. /\ PageOf(r, s)
        /\ \A d : /\ Apart(page[c], d) => Apart(r, d)
                  /\ Elsewhere(page[c], d) => Elsewhere(r, d)
                  /\ Named(page[c], d) => Named(r, d)
    BY <2>2, <2>3, AlikeIs
  <2>5. r.at = page[c].at /\ r.held = page[c].held
    BY <2>2 DEF Alike
  <2> QED
    BY <2>1, <2>4, <2>5
<1>5. \A c \in Browsers : PageOf(page'[c], Now')
  BY <1>1, <1>4
<1>6. \A c \in Browsers : page'[c].at = "put" => page[c].at = "put" /\ page'[c].held.id = page[c].held.id
  BY <1>1, <1>4
<1>7. ASSUME NEW c \in Browsers, page'[c].at = "put"
      PROVE  /\ ServerApart(Now', app', page[c].held.id)
             /\ \A e \in Browsers : Apart(page'[e], page[c].held.id) /\ (e # c => Elsewhere(page'[e], page[c].held.id))
             /\ Named(page'[c], page[c].held.id)
  <2>1. page[c].at = "put" /\ (c = b => q.at = "put")
    BY <1>1, <1>6, <1>7
  <2>2. Alone(c, page[c].held.id)
    BY <2>1, MakerHas
  <2>3. /\ ServerApart(Now', app, page[c].held.id)
        /\ Apart(q, page[c].held.id) /\ (c # b => Elsewhere(q, page[c].held.id))
    BY <2>1
  <2>4. \A e \in Browsers : Apart(page'[e], page[c].held.id) /\ (e # c => Elsewhere(page'[e], page[c].held.id))
    BY <1>1, <1>4, <2>2, <2>3 DEF Alone
  <2>5. Named(page'[c], page[c].held.id)
    BY <1>1, <1>4, <2>1, <2>2 DEF Alone
  <2> QED
    BY <2>3, <2>4, <2>5
<1> QED
  BY <1>1, <1>3, <1>5, <1>6, <1>7, StepKeeps

(* The space that is made has the id its maker drew.                       *)
LEMMA CreatedKeeps ==
    ASSUME IInv, NEW b \in Browsers, page[b].at = "put", CreateSpace(page[b].held.id), NEW q,
           page' = Tell([page EXCEPT ![b] = q], b), UNCHANGED <<scene, drawn, app>>,
           DOMAIN q = Fields,
           q.held = page[b].held, q.batch = page[b].batch, q.astray = page[b].astray,
           q.cursor \in {0, page[b].cursor}, q.shown = page[b].shown,
           q.found \in {0, page[b].found}, q.answer \in {page[b].answer, Nothing},
           q.at \in {"idle", "list"}, Opened(q)
    PROVE  IInv'
<1>1. PICK d : d = page[b].held.id
  OBVIOUS
<1>2. /\ ServerOf(Now) /\ scene \in Scenes /\ PageOf(page[b], Now)
      /\ Now.space = space /\ Now.rec = rec
  BY PageHas DEF IInv
<1>3. d \in 1..drawn /\ d \in Nat /\ d # 0 /\ Alone(b, d)
  BY <1>1, MakerHas
<1>4. drawn' = drawn /\ drawn' \in drawn..MaxIds /\ d \in 1..drawn'
  BY <1>2, <1>3, RecIs
<1>5. ServerOf(Now') /\ Follows(Now, Now') /\ rec' = rec /\ space = None /\ space' # None /\ space'.id = d
  BY <1>1, <1>2, <1>3, <1>4, CreateIs
<1>6. PICK t : t = Now'
  OBVIOUS
<1>7. t.space # None /\ t.space.id = d /\ t.rec = rec
  BY <1>5, <1>6 DEF Now
<1>8. ~SameSpace(Now, t)
  BY <1>2, <1>5 DEF SameSpace
<1>9. \A c \in Browsers : Apart(page[c], d) /\ (c # b => Elsewhere(page[c], d))
  BY <1>3 DEF Alone
<1>10. PageOf(page[b], t)
  <2>1. page[b].held # None
    BY <1>1, MakerHas
  <2>2. Clean(page[b].held.recs, d) /\ Clean(page[b].batch.took, d)
    BY <1>9, <2>1 DEF Apart
  <2> QED
    BY <1>1, <1>2, <1>5, <1>6, <1>7, <2>2, MakesSpace
<1>11. PageOf(q, t) /\ Inherits(page[b], q, t)
  BY <1>5, <1>6, <1>10, OffPage
<1>12. \A c \in Browsers : c # b => Untouched(page[c], Now, t)
  BY <1>7, <1>8, <1>9, UntouchedByNew
<1>13. ASSUME NEW c \in Browsers, c # b, page[c].at = "put"
       PROVE  /\ ServerApart(t, app, page[c].held.id)
              /\ Apart(q, page[c].held.id) /\ Elsewhere(q, page[c].held.id)
  <2>1. PICK e : e = page[c].held.id
    OBVIOUS
  <2>2. Alone(c, e) /\ e \in Nat /\ e \in 1..drawn /\ e # 0 /\ page[c].held # None
    BY <1>13, <2>1, MakerHas
  <2>3. e # d
    BY <1>9, <1>13, <2>1, <2>2 DEF Elsewhere
  <2>4. ServerApart(t, app, e)
    BY <1>2, <1>7, <2>2, <2>3 DEF Alone, ServerApart
  <2>5. Apart(page[b], e) /\ Elsewhere(page[b], e)
    BY <1>13, <2>2 DEF Alone
  <2>6. Clean(t.rec, e) /\ (t.space # None => t.space.id # e)
    BY <2>4 DEF ServerApart
  <2> QED
    BY <1>11, <2>1, <2>2, <2>4, <2>5, <2>6 DEF Inherits
<1>14. q.at # "put"
  OBVIOUS
<1> QED
  BY <1>5, <1>6, <1>11, <1>12, <1>13, <1>14, ActsKeeps

LEMMA PuttingKeeps ==
    ASSUME IInv, NEW b \in Browsers, Putting(b)
    PROVE  IInv'
<1> DEFINE q == [page[b] EXCEPT !.at = "list", !.fresh = TRUE]
<1>1. DOMAIN page[b] = Fields /\ Opened(page[b]) /\ page[b].at = "put" /\ UNCHANGED <<scene, drawn, app>>
  BY PageHas DEF Putting
<1>2. /\ DOMAIN q = Fields /\ q.held = page[b].held /\ q.batch = page[b].batch /\ q.astray = page[b].astray
      /\ q.cursor = page[b].cursor /\ q.shown = page[b].shown /\ q.found = page[b].found
      /\ q.answer = page[b].answer /\ q.at = "list" /\ q.id = page[b].id /\ q.status = page[b].status
  BY <1>1 DEF Fields
<1>3. \/ CreateSpace(page[b].held.id) /\ page' = Tell([page EXCEPT ![b] = q], b)
      \/ Becomes(b, q) /\ UNCHANGED server
  BY DEF Putting
<1>4. CASE Becomes(b, q) /\ UNCHANGED server
  BY <1>1, <1>4, PuttingOnKeeps
<1>5. CASE CreateSpace(page[b].held.id) /\ page' = Tell([page EXCEPT ![b] = q], b)
  <2> HIDE DEF q
  <2>1. Opened(q)
    BY <1>1, <1>2 DEF Opened
  <2> QED
    BY <1>1, <1>2, <1>5, <2>1, CreatedKeeps
<1> QED
  BY <1>3, <1>4, <1>5

LEMMA LostKeeps ==
    ASSUME IInv, NEW b \in Browsers, Lost(b)
    PROVE  IInv'
<1> DEFINE e == Ended(page[b])
           q == [e EXCEPT !.said = TRUE]
<1>1. DOMAIN page[b] = Fields /\ Opened(page[b]) /\ UNCHANGED <<scene, drawn, app>>
  BY PageHas DEF Lost
<1>2. \/ Becomes(b, Failed(page[b])) /\ UNCHANGED server
      \/ Becomes(b, q) /\ UNCHANGED server
      \/ page[b].at = "put" /\ CreateSpace(page[b].held.id) /\ page' = Tell([page EXCEPT ![b] = q], b)
  BY DEF Lost
<1>3. CASE Becomes(b, Failed(page[b])) /\ UNCHANGED server
  BY <1>1, <1>3, FailedKeeps
<1>4. CASE Becomes(b, q) /\ UNCHANGED server
  BY <1>1, <1>4, GivenUpKeeps
<1>5. CASE page[b].at = "put" /\ CreateSpace(page[b].held.id) /\ page' = Tell([page EXCEPT ![b] = q], b)
  <2>1. /\ DOMAIN e = Fields /\ e.held = page[b].held /\ e.batch = page[b].batch /\ e.astray = page[b].astray
        /\ e.cursor = page[b].cursor /\ e.shown = page[b].shown /\ e.found = 0
        /\ e.answer = Nothing /\ e.at = "idle" /\ e.id = page[b].id /\ e.status = page[b].status
    BY <1>1, EndedIs
  <2> HIDE DEF e
  <2>2. /\ DOMAIN q = Fields /\ q.held = page[b].held /\ q.batch = page[b].batch /\ q.astray = page[b].astray
        /\ q.cursor = page[b].cursor /\ q.shown = page[b].shown /\ q.found = 0
        /\ q.answer = Nothing /\ q.at = "idle" /\ q.id = page[b].id /\ q.status = page[b].status
    BY <2>1 DEF Fields
  <2> HIDE DEF q
  <2>3. Opened(q)
    BY <1>1, <2>2 DEF Opened
  <2> QED
    BY <1>1, <1>5, <2>2, <2>3, CreatedKeeps
<1> QED
  BY <1>2, <1>3, <1>4, <1>5

(* A push that is taken: what the page has on its way is right, and for    *)
(* no space that is being made.                                            *)
LEMMA TakenPushKeeps ==
    ASSUME IInv, NEW b \in Browsers, page[b].batch.at = "sent", UNCHANGED <<scene, drawn, app>>,
           MayPush(page[b].batch.sealed, page[b].batch.named), SuitePush(page[b].batch.sealed), NEW q,
           page' = Tell([page EXCEPT ![b] = q], b) \/ page' = [page EXCEPT ![b] = q],
           DOMAIN q = Fields,
           q.held = page[b].held, q.astray = page[b].astray, q.cursor = page[b].cursor, q.shown = page[b].shown,
           q.found = page[b].found, q.answer = page[b].answer, q.at = page[b].at, q.id = page[b].id,
           q.status = page[b].status,
           BatchShape(q.batch), q.batch.at # "sent", q.batch.read = 0, q.batch.sealed = <<>>,
           q.batch.took \in {Empty, Answered(page[b].batch.sealed)}
    PROVE  IInv'
<1> DEFINE p == page[b]
           sealed == page[b].batch.sealed
<1>1. /\ ServerOf(Now) /\ scene \in Scenes /\ PageOf(p, Now) /\ Opened(p)
      /\ Now.space = space /\ Now.rec = rec
  BY PageHas DEF IInv
<1>2. Envelopes(sealed, Now) /\ p.held # None
  BY <1>1 DEF PageOf, PageFits, BatchOf, Opened
<1>3. space # None /\ Fits(sealed) /\ (p.batch.named # 0 => p.batch.named = space.id)
  BY DEF MayPush
<1>4. /\ ServerOf(Now') /\ Follows(Now, Now')
      /\ space' = space /\ DOMAIN rec \subseteq DOMAIN rec'
      /\ \A d : Clean(rec, d) /\ CleanAll(sealed, d) => Clean(rec', d)
      /\ Past(Answered(sealed), Now') /\ DOMAIN Answered(sealed) \subseteq DOMAIN rec'
      /\ \A r \in DOMAIN Answered(sealed) : Answered(sealed)[r] = rec'[r]
  BY <1>1, <1>2, <1>3, PushIs
<1>5. PICK t : t = Now'
  OBVIOUS
<1>6. t.space = space /\ t.rec = rec'
  BY <1>4, <1>5 DEF Now
<1>7. \A c \in Browsers : Untouched(page[c], Now, t)
  BY <1>1, <1>4, <1>6, UntouchedIs
<1>8. PageOf(p, t)
  BY <1>1, <1>4, <1>5, <1>7, PageFollows
<1>9. PICK took : took = q.batch.took
  OBVIOUS
<1>10. /\ Past(took, t) /\ Stays(took, t)
       /\ \A d : Clean(rec, d) /\ CleanAll(sealed, d) => Clean(took, d)
  <2>1. CASE took = Empty
    BY <2>1, EmptyPast DEF Stays, Clean
  <2>2. CASE took = Answered(sealed)
    BY <1>4, <1>5, <1>6, <2>2 DEF Stays, Clean
  <2> QED
    BY <1>9, <2>1, <2>2
<1> HIDE DEF p, sealed
<1>11. /\ q.held = p.held /\ q.astray = p.astray /\ q.cursor = p.cursor /\ q.shown = p.shown
       /\ q.found = p.found /\ q.answer = p.answer /\ q.at = p.at /\ q.id = p.id /\ q.status = p.status
  BY DEF p
<1>12. PageOf(q, t)
  <2>1. BatchOf(q.batch, t)
    <3>1. Envelopes(<<>>, t)
      BY DEF Envelopes
    <3> QED
      BY <1>9, <1>10, <3>1 DEF BatchOf
  <2>2. PageFits(q, t)
    BY <1>2, <1>8, <1>11, <2>1 DEF PageOf, PageFits, Opened
  <2>3. HeldRight(q, t)
    BY <1>8, <1>11 DEF PageOf, HeldRight, Shares
  <2>4. AnswerRight(q, t)
    BY <1>8, <1>11 DEF PageOf, AnswerRight, Awaits, Shares
  <2>5. Stays(q.batch.took, t)
    BY <1>9, <1>10
  <2> QED
    BY <2>2, <2>3, <2>4, <2>5 DEF PageOf
<1>13. ASSUME NEW c \in Browsers, page[c].at = "put"
       PROVE  /\ ServerApart(t, app, page[c].held.id)
              /\ Apart(q, page[c].held.id) /\ (c # b => Elsewhere(q, page[c].held.id))
  <2>1. PICK e : e = page[c].held.id
    OBVIOUS
  <2>2. Alone(c, e) /\ e \in Nat /\ e # 0
    BY <1>13, <2>1, MakerHas
  <2>3. ServerApart(Now, app, e) /\ Apart(p, e) /\ (c # b => Elsewhere(p, e)) /\ (c = b => Named(p, e))
    BY <2>2 DEF Alone, p
  <2>4. CleanAll(sealed, e)
    <3>1. CASE c # b
      BY <2>3, <3>1 DEF Elsewhere, p, sealed
    <3>2. CASE c = b
      <4>1. p.batch.named # e /\ p.batch.at = "sent"
        BY <1>1, <1>3, <2>2, <2>3 DEF ServerApart, p
      <4> QED
        BY <2>3, <3>2, <4>1 DEF Named, p, sealed
    <3> QED
      BY <3>1, <3>2
  <2>5. Clean(rec, e)
    BY <1>1, <2>3 DEF ServerApart
  <2>6. Clean(rec', e) /\ Clean(took, e)
    BY <1>4, <1>10, <2>4, <2>5
  <2>7. ServerApart(t, app, e)
    BY <1>1, <1>6, <2>3, <2>6 DEF ServerApart
  <2>8. Apart(q, e)
    BY <1>9, <1>11, <2>3, <2>6 DEF Apart
  <2>9. c # b => Elsewhere(q, e)
    BY <1>11, <2>3 DEF Elsewhere, CleanAll
  <2> QED
    BY <2>1, <2>7, <2>8, <2>9
<1>14. q.at = "put" => page[b].at = "put" /\ q.held.id = page[b].held.id /\ Named(q, page[b].held.id)
  BY DEF Named
<1> QED
  BY <1>4, <1>5, <1>7, <1>12, <1>13, <1>14, ActsKeeps

LEMMA PushedKeeps ==
    ASSUME IInv, NEW b \in Browsers, Pushed(b)
    PROVE  IInv'
<1> DEFINE p == page[b]
           sealed == p.batch.sealed
           c == [NoBatch EXCEPT !.at = "answered", !.took = Answered(sealed)]
           q == [p EXCEPT !.batch = c]
           e == [p EXCEPT !.batch = NoBatch, !.said = TRUE]
           told(r) == page' = Tell([page EXCEPT ![b] = r], b) \/ page' = [page EXCEPT ![b] = r]
<1>1. DOMAIN p = Fields /\ UNCHANGED <<scene, drawn, app>> /\ p.batch.at = "sent"
  BY PageHas DEF Pushed
<1>2. FailedSave(p) = e
  <2> HIDE DEF p
  <2> QED
    BY <1>1 DEF FailedSave, Over, Fields
<1>3. \/ MayPush(sealed, p.batch.named) /\ SuitePush(sealed) /\ told(q)
      \/ MayPush(sealed, p.batch.named) /\ SuitePush(sealed) /\ told(FailedSave(p))
      \/ /\ UNCHANGED server
         /\ Becomes(b, IF space # None /\ space.id # p.batch.named THEN Queued(FailedSave(p), "fresh") ELSE FailedSave(p))
  BY DEF Pushed
<1>4. CASE MayPush(sealed, p.batch.named) /\ SuitePush(sealed) /\ told(q)
  <2>1. BatchShape(c) /\ c.at = "answered" /\ c.read = 0 /\ c.sealed = <<>> /\ c.took = Answered(sealed)
    BY BatchIs DEF BatchShape
  <2> HIDE DEF c
  <2>2. /\ DOMAIN q = Fields /\ q.held = p.held /\ q.astray = p.astray /\ q.cursor = p.cursor /\ q.shown = p.shown
        /\ q.found = p.found /\ q.answer = p.answer /\ q.at = p.at /\ q.id = p.id /\ q.status = p.status
        /\ q.batch = c
    <3> HIDE DEF p
    <3> QED
      BY <1>1 DEF Fields
  <2>3. page' = Tell([page EXCEPT ![b] = q], b) \/ page' = [page EXCEPT ![b] = q]
    BY <1>4
  <2> HIDE DEF q
  <2> QED
    BY <1>1, <1>4, <2>1, <2>2, <2>3, TakenPushKeeps
<1>5. CASE MayPush(sealed, p.batch.named) /\ SuitePush(sealed) /\ told(FailedSave(p))
  <2>1. BatchShape(NoBatch) /\ NoBatch.at = "none" /\ NoBatch.read = 0 /\ NoBatch.sealed = <<>> /\ NoBatch.took = Empty
    BY BatchIs DEF BatchShape
  <2>2. /\ DOMAIN e = Fields /\ e.held = p.held /\ e.astray = p.astray /\ e.cursor = p.cursor /\ e.shown = p.shown
        /\ e.found = p.found /\ e.answer = p.answer /\ e.at = p.at /\ e.id = p.id /\ e.status = p.status
        /\ e.batch = NoBatch
    <3> HIDE DEF p
    <3> QED
      BY <1>1 DEF Fields
  <2>3. page' = Tell([page EXCEPT ![b] = e], b) \/ page' = [page EXCEPT ![b] = e]
    BY <1>2, <1>5
  <2> HIDE DEF e
  <2> QED
    BY <1>1, <1>5, <2>1, <2>2, <2>3, TakenPushKeeps
<1>6. CASE /\ UNCHANGED server
           /\ Becomes(b, IF space # None /\ space.id # p.batch.named THEN Queued(FailedSave(p), "fresh") ELSE FailedSave(p))
  <2>1. FailedSave(p) = [FailedSave(p) EXCEPT !.wants = p.wants]
        /\ Queued(FailedSave(p), "fresh") = [FailedSave(p) EXCEPT !.wants = p.wants \cup {"fresh"}]
    <3>1. DOMAIN e = Fields /\ e.wants = p.wants
      <4> HIDE DEF p
      <4> QED
        BY <1>1 DEF Fields
    <3>2. e = [e EXCEPT !.wants = p.wants]
      <4> HIDE DEF p
      <4> QED
        BY <1>1 DEF Fields
    <3> HIDE DEF e
    <3>3. Queued(e, "fresh") = [e EXCEPT !.wants = p.wants \cup {"fresh"}]
      BY <3>1 DEF Queued, Fields
    <3> QED
      BY <1>2, <3>2, <3>3
  <2>2. \/ Becomes(b, [FailedSave(p) EXCEPT !.wants = p.wants])
        \/ Becomes(b, [FailedSave(p) EXCEPT !.wants = p.wants \cup {"fresh"}])
    BY <1>6, <2>1
  <2> QED
    BY <1>1, <1>6, <2>2, FailedSaveKeeps
<1> QED
  BY <1>3, <1>4, <1>5, <1>6

(***************************************************************************)
(* The making of a space begins                                            *)
(***************************************************************************)
LEMMA DrawsIs ==
    ASSUME ServerOf(Now), UNCHANGED server, drawn < MaxIds, drawn' = drawn + 1
    PROVE  /\ ServerOf(Now') /\ Follows(Now, Now') /\ Now'.space = space /\ Now'.rec = rec /\ Now'.drawn = drawn + 1
           /\ \A p : Untouched(p, Now, Now')
<1>1. PICK t : t = Now'
  OBVIOUS
<1>2. /\ t = [space |-> t.space, rec |-> t.rec, number |-> t.number, pruned |-> t.pruned, drawn |-> t.drawn]
      /\ t.space = space /\ t.rec = rec /\ t.number = number /\ t.pruned = pruned /\ t.drawn = drawn + 1
  BY <1>1 DEF Now, server
<1>3. number \in Nat /\ number <= MaxNumber /\ drawn \in Nat /\ pruned \in Nat /\ pruned <= number
      /\ (space # None => space \in [id : 1..drawn, epoch : 0..MaxNumber]) /\ (space = None => DOMAIN rec = {})
  BY RecIs
<1>4. ServerOf(t) /\ Follows(Now, t)
  <2>1. t.number \in number..MaxNumber /\ t.pruned \in pruned..t.number /\ t.drawn \in drawn..MaxIds
    BY <1>2, <1>3
  <2>2. t.space \in {None} \cup [id : 1..t.drawn, epoch : 0..MaxNumber] /\ (t.space = None => DOMAIN t.rec = {})
    BY <1>2, <1>3
  <2>3. t.rec = Only(rec, DOMAIN rec)
    <3>1. rec = [r \in DOMAIN rec |-> rec[r]]
      BY RecIs DEF IsMap
    <3> QED
      BY <1>2, <3>1 DEF Only
  <2> QED
    BY <1>2, <2>1, <2>2, <2>3, FewerRecords
<1>5. \A p : Untouched(p, Now, t)
  BY <1>2, UntouchedIs DEF Now
<1> QED
  BY <1>1, <1>2, <1>4, <1>5

LEMMA BeginMakes ==
    ASSUME IInv, NEW b \in Browsers, Begin(b), drawn' # drawn
    PROVE  IInv'
<1> DEFINE d == drawn + 1
<1>1. PICK w, n :
        /\ drawn < MaxIds /\ drawn' = drawn + 1 /\ n = drawn + 1
        /\ Becomes(b, [[page[b] EXCEPT !.wants = w, !.said = FALSE]
                          EXCEPT !.at = "put", !.making = TRUE, !.held = [id |-> n, recs |-> Empty]])
  BY DEF Begin
<1>2. UNCHANGED <<scene, server, app>>
  BY DEF Begin
<1>3. /\ ServerOf(Now) /\ AppOf(app, Now) /\ scene \in Scenes /\ PageOf(page[b], Now) /\ DOMAIN page[b] = Fields
      /\ Now.space = space /\ Now.rec = rec /\ drawn \in Nat /\ Now.drawn = drawn
  BY PageHas, RecIs DEF IInv
<1>4. /\ ServerOf(Now') /\ Follows(Now, Now') /\ Now'.space = space /\ Now'.rec = rec /\ Now'.drawn = n
      /\ \A p : Untouched(p, Now, Now')
  BY <1>1, <1>2, <1>3, DrawsIs
<1>5. PICK t : t = Now'
  OBVIOUS
<1> DEFINE h == [id |-> n, recs |-> Empty]
           p == page[b]
           q == [[p EXCEPT !.wants = w, !.said = FALSE] EXCEPT !.at = "put", !.making = TRUE, !.held = h]
<1>6. Becomes(b, q)
  BY <1>1
<1>7. h # None /\ HeldShape(h) /\ h.id = n /\ h.recs = Empty /\ n \in 1..n /\ n \in Nat
  <2>1. n \in Nat /\ n \in 1..n
    BY <1>1, <1>3
  <2> QED
    BY <2>1, NewlyOpen DEF HeldShape
<1> HIDE DEF h
<1>8. /\ DOMAIN q = Fields /\ q.held = h /\ q.batch = p.batch /\ q.astray = p.astray /\ q.cursor = p.cursor
      /\ q.shown = p.shown /\ q.found = p.found /\ q.answer = p.answer /\ q.at = "put" /\ q.id = p.id /\ q.status = p.status
  <2> HIDE DEF p
  <2> QED
    BY <1>3 DEF Fields, p
<1> HIDE DEF q
<1>9. DOMAIN page' = Browsers /\ page'[b] = q /\ \A c \in Browsers : c # b => page'[c] = page[c]
  BY <1>6 DEF Becomes, IInv
<1>10. \A c \in Browsers : PageOf(page[c], t)
  BY <1>3, <1>4, <1>5, PageHas, PageFollows
<1>11. PageOf(q, t)
  <2>1. PageOf(p, t)
    BY <1>10
  <2> HIDE DEF p
  <2>2. HeldOf(h, t)
    BY <1>4, <1>5, <1>7, EmptyPast DEF HeldOf
  <2>3. PageFits(q, t)
    BY <1>7, <1>8, <2>1, <2>2 DEF PageOf, PageFits, Opened
  <2>4. ~Shares(q, t)
    <3>1. t.space # None => t.space.id \in 1..drawn
      BY <1>3, <1>4, <1>5, ServerFacts
    <3>2. q.held.id = drawn + 1
      BY <1>1, <1>7, <1>8
    <3> QED
      BY <1>3, <3>1, <3>2 DEF Shares
  <2>5. HeldRight(q, t) /\ AnswerRight(q, t)
    BY <1>8, <2>4 DEF HeldRight, AnswerRight, Awaits
  <2>6. Stays(q.batch.took, t)
    BY <1>8, <2>1 DEF PageOf
  <2> QED
    BY <2>3, <2>5, <2>6 DEF PageOf
<1>12. AppOf(app, t)
  BY <1>3, <1>4, <1>5, AppGrows DEF Follows
<1>13. \A e : Apart(p, e) => Apart(q, e)
  BY <1>7, <1>8, EmptyPast DEF Apart, Clean
<1>14. \A e : e # n /\ Elsewhere(p, e) => Elsewhere(q, e)
  BY <1>7, <1>8 DEF Elsewhere
<1>15. \A e : Named(p, e) => Named(q, e)
  BY <1>8 DEF Named
<1>16. \A e : ServerApart(Now, app, e) => ServerApart(t, app, e)
  BY <1>3, <1>4, <1>5 DEF ServerApart
<1> HIDE DEF p
<1>17. ASSUME NEW c \in Browsers, page'[c].at = "put"
       PROVE  Alone(c, page[c].held.id)'
  <2>1. PICK e : e = page'[c].held.id
    OBVIOUS
  <2> SUFFICES /\ ServerApart(t, app, e)
               /\ \A x \in Browsers : Apart(page'[x], e) /\ (x # c => Elsewhere(page'[x], e))
               /\ Named(page'[c], e)
    BY <1>2, <1>5, <2>1 DEF Alone
  <2>2. CASE c = b
    <3>1. e = n /\ n = drawn + 1
      BY <1>1, <1>7, <1>8, <1>9, <2>1, <2>2
    <3>2. /\ ServerApart(Now, app, e)
          /\ \A x \in Browsers : Apart(page[x], e) /\ Elsewhere(page[x], e) /\ Named(page[x], e)
      BY <3>1, DrawnIsNew
    <3> QED
      BY <1>9, <1>13, <1>15, <1>16, <2>2, <3>2 DEF p
  <2>3. CASE c # b
    <3>1. page[c].at = "put" /\ e = page[c].held.id
      BY <1>9, <1>17, <2>1, <2>3
    <3>2. Alone(c, e) /\ e \in Nat /\ e <= drawn
      BY <3>1, MakerHas
    <3>3. e # n
      BY <1>1, <1>3, <3>2
    <3> QED
      BY <1>9, <1>13, <1>14, <1>16, <2>3, <3>2, <3>3 DEF p, Alone
  <2> QED
    BY <2>2, <2>3
<1> QED
  BY <1>2, <1>3, <1>4, <1>5, <1>9, <1>10, <1>11, <1>12, <1>17 DEF IInv

(***************************************************************************)
(* The page: connected, clicked                                            *)
(***************************************************************************)
LEMMA WantsKeep ==
    ASSUME IInv, NEW b \in Browsers, UNCHANGED <<scene, server, drawn, app>>, NEW link, NEW wants, NEW drops,
           Becomes(b, [page[b] EXCEPT !.link = link, !.wants = wants, !.drops = drops])
    PROVE  IInv'
<1> DEFINE p == page[b]
           q == [p EXCEPT !.link = link, !.wants = wants, !.drops = drops]
<1>1. DOMAIN p = Fields
  BY PageHas
<1>2. /\ DOMAIN q = Fields /\ q.held = p.held /\ q.batch = p.batch /\ q.astray = p.astray /\ q.cursor = p.cursor
      /\ q.shown = p.shown /\ q.found = p.found /\ q.answer = p.answer /\ q.at = p.at /\ q.id = p.id /\ q.status = p.status
  <2> HIDE DEF p
  <2> QED
    BY <1>1 DEF Fields
<1>3. Becomes(b, q)
  OBVIOUS
<1> HIDE DEF q
<1> QED
  BY <1>2, <1>3, AsideKeeps

LEMMA ClickKeeps ==
    ASSUME IInv, NEW b \in Browsers, Connect(b) \/ Drop(b) \/ Retry(b) \/ Create(b)
    PROVE  IInv'
<1> DEFINE p == page[b]
<1>1. DOMAIN p = Fields /\ UNCHANGED <<scene, server, drawn, app>>
  BY PageHas DEF Connect, Drop, Retry, Create
<1> HIDE DEF p
<1>3. CASE Connect(b)
  <2>1. PICK w : Becomes(b, [p EXCEPT !.link = "up", !.wants = w])
    BY <1>3 DEF Connect, p
  <2>2. [p EXCEPT !.link = "up", !.wants = w] = [p EXCEPT !.link = "up", !.wants = w, !.drops = p.drops]
    BY <1>1 DEF Fields
  <2>3. PICK x, y, z : Becomes(b, [page[b] EXCEPT !.link = x, !.wants = y, !.drops = z])
    BY <2>1, <2>2 DEF p
  <2> QED
    BY <1>1, <2>3, WantsKeep
<1>4. CASE Drop(b)
  <2>1. Becomes(b, [p EXCEPT !.link = "down", !.drops = p.drops + 1])
    BY <1>4 DEF Drop, p
  <2>2. [p EXCEPT !.link = "down", !.drops = p.drops + 1] = [p EXCEPT !.link = "down", !.wants = p.wants, !.drops = p.drops + 1]
    BY <1>1 DEF Fields
  <2>3. PICK x, y, z : Becomes(b, [page[b] EXCEPT !.link = x, !.wants = y, !.drops = z])
    BY <2>1, <2>2 DEF p
  <2> QED
    BY <1>1, <2>3, WantsKeep
<1>5. CASE Retry(b) \/ Create(b)
  <2>1. PICK w : Becomes(b, [p EXCEPT !.wants = w])
    BY <1>5 DEF Retry, Create, Queued, p
  <2>2. [p EXCEPT !.wants = w] = [p EXCEPT !.link = p.link, !.wants = w, !.drops = p.drops]
    BY <1>1 DEF Fields
  <2>3. PICK x, y, z : Becomes(b, [page[b] EXCEPT !.link = x, !.wants = y, !.drops = z])
    BY <2>1, <2>2 DEF p
  <2> QED
    BY <1>1, <2>3, WantsKeep
<1> QED
  BY <1>3, <1>4, <1>5

LEMMA BeginKeeps ==
    ASSUME IInv, NEW b \in Browsers, Begin(b)
    PROVE  IInv'
<1>1. CASE drawn' = drawn
  BY <1>1, BeginLoads
<1>2. CASE drawn' # drawn
  BY <1>2, BeginMakes
<1> QED
  BY <1>1, <1>2

LEMMA StutterKeeps ==
    ASSUME IInv, UNCHANGED vars
    PROVE  IInv'
<1>1. Now' = Now /\ page' = page /\ app' = app /\ scene' = scene
  BY DEF vars, server, Now
<1>2. \A b \in Browsers : page[b].at = "put" => Alone(b, page[b].held.id)'
  <2> TAKE b \in Browsers
  <2>1. page[b].at = "put" => Alone(b, page[b].held.id)
    BY DEF IInv
  <2> QED
    BY <1>1, <2>1 DEF Alone
<1> QED
  BY <1>1, <1>2 DEF IInv

(***************************************************************************)
(* The start                                                               *)
(***************************************************************************)
RecordsOf(s) ==
    [r \in {s.records[i] : i \in DOMAIN s.records} |->
        LET n == 1 + CHOOSE i \in DOMAIN s.records : s.records[i] = r
        IN  [seq |-> n, key |-> 1, write |-> n, read |-> 0, gone |-> FALSE]]

LEMMA RecordsAtStart ==
    ASSUME NEW s \in Scenes, s.made, NEW f, f = RecordsOf(s)
    PROVE  /\ Len(s.records) \in Nat /\ 1 + Len(s.records) <= MaxNumber /\ MaxIds > 0
           /\ IsMap(f, Ids, Record)
           /\ \A r \in DOMAIN f : f[r].seq \in 1..(1 + Len(s.records)) /\ f[r].key = 1
           /\ \A q, r \in DOMAIN f : f[q].seq = f[r].seq => q = r
           /\ IsFiniteSet(DOMAIN f) /\ Cardinality(DOMAIN f) <= Quota
<1> DEFINE l == s.records
           at(r) == CHOOSE i \in DOMAIN l : l[i] = r
<1>1. /\ l \in Seq(Ids) /\ Len(l) \in Nat /\ DOMAIN l = 1..Len(l) /\ Len(l) <= Quota /\ Len(l) < s.most
      /\ s.most \in Nat /\ s.most <= MaxNumber /\ MaxIds > 0 /\ MaxNumber \in Nat
  <2>1. l \in Seq(Ids) /\ Len(l) <= Quota /\ Len(l) < s.most /\ s.most \in 0..MaxNumber /\ MaxIds > 0
    BY SuiteScenes
  <2> QED
    BY <2>1
<1>2. DOMAIN f = {l[i] : i \in DOMAIN l}
  BY DEF RecordsOf
<1>3. \A r \in DOMAIN f : f[r] = [seq |-> 1 + at(r), key |-> 1, write |-> 1 + at(r), read |-> 0, gone |-> FALSE]
  BY DEF RecordsOf
<1>4. \A r \in DOMAIN f : at(r) \in DOMAIN l /\ l[at(r)] = r
  BY <1>2
<1>5. f = [r \in DOMAIN f |-> f[r]]
  BY DEF RecordsOf
<1> HIDE DEF at, l
<1>6. ASSUME NEW r \in DOMAIN f
      PROVE  f[r] \in Record /\ f[r].seq = 1 + at(r) /\ f[r].key = 1 /\ at(r) \in 1..Len(l) /\ r \in Ids
             /\ f[r].seq \in 1..(1 + Len(l))
  <2>1. at(r) \in 1..Len(l) /\ r \in Ids
    <3>1. at(r) \in DOMAIN l /\ l[at(r)] = r
      BY <1>4
    <3>2. DOMAIN l = 1..Len(l) /\ l \in Seq(Ids)
      BY <1>1
    <3>3. at(r) \in 1..Len(l)
      BY <3>1, <3>2
    <3>4. l[at(r)] \in Ids
      BY <3>1, <3>2
    <3> QED
      BY <3>1, <3>3, <3>4
  <2>2. 1 + at(r) \in 0..MaxNumber /\ 1 \in 1..MaxIds /\ 0 \in 0..MaxNumber /\ 1 + at(r) \in 1..(1 + Len(l))
    BY <1>1, <2>1
  <2>3. f[r] = [seq |-> 1 + at(r), key |-> 1, write |-> 1 + at(r), read |-> 0, gone |-> FALSE]
    BY <1>3
  <2> QED
    BY <2>1, <2>2, <2>3 DEF Record
<1>7. IsMap(f, Ids, Record)
  BY <1>5, <1>6 DEF IsMap
<1>8. \A q, r \in DOMAIN f : f[q].seq = f[r].seq => q = r
  <2> TAKE q, r \in DOMAIN f
  <2>1. f[q].seq = f[r].seq => at(q) = at(r)
    <3>1. f[q].seq = 1 + at(q) /\ f[r].seq = 1 + at(r) /\ at(q) \in 1..Len(l) /\ at(r) \in 1..Len(l)
      BY <1>6
    <3> HIDE DEF at
    <3> QED
      BY <1>1, <3>1
  <2> QED
    BY <1>4, <2>1
<1>9. IsFiniteSet(DOMAIN f) /\ Cardinality(DOMAIN f) <= Quota
  <2> DEFINE g == [i \in 1..Len(l) |-> l[i]]
  <2>1. g \in Surjection(1..Len(l), DOMAIN f)
    BY <1>1, <1>2 DEF Surjection
  <2> HIDE DEF g
  <2>2. IsFiniteSet(1..Len(l)) /\ Cardinality(1..Len(l)) = Len(l)
    <3>1. Len(l) \in Int /\ 1 \in Int /\ Len(l) \in Nat
      BY <1>1
    <3>2. IsFiniteSet(1..Len(l)) /\ Cardinality(1..Len(l)) = (IF 1 > Len(l) THEN 0 ELSE Len(l) - 1 + 1)
      BY <3>1, FS_Interval
    <3> QED
      BY <3>1, <3>2
  <2>3. IsFiniteSet(DOMAIN f) /\ Cardinality(DOMAIN f) <= Cardinality(1..Len(l))
    BY <2>1, <2>2, FS_Surjection
  <2>4. Cardinality(DOMAIN f) \in Nat
    BY <2>3, FS_CardinalityType
  <2> QED
    BY <1>1, <2>2, <2>3, <2>4
<1>10. 1 + Len(l) <= MaxNumber
  BY <1>1
<1>11. \A r \in DOMAIN f : f[r].seq \in 1..(1 + Len(l)) /\ f[r].key = 1
  BY <1>6
<1> QED
  BY <1>1, <1>7, <1>8, <1>9, <1>10, <1>11 DEF l

LEMMA ServerAtStart ==
    ASSUME Init
    PROVE  ServerOf(Now)
<1>1. /\ scene \in Scenes
      /\ space = (IF scene.made THEN [id |-> 1, epoch |-> 0] ELSE None)
      /\ number = (IF scene.made THEN 1 + Len(scene.records) ELSE 0)
      /\ rec = [r \in {scene.records[i] : i \in DOMAIN scene.records} |->
                 LET n == 1 + CHOOSE i \in DOMAIN scene.records : scene.records[i] = r
                 IN  [seq |-> n, key |-> 1, write |-> n, read |-> 0, gone |-> FALSE]]
      /\ pruned = 0 /\ drawn = (IF scene.made THEN 1 ELSE 0)
  BY DEF Init
<1>2. PICK t : t = Now
  OBVIOUS
<1>3. t.space = space /\ t.rec = rec /\ t.number = number /\ t.pruned = pruned /\ t.drawn = drawn
  BY <1>2 DEF Now
<1>4. CASE scene.made
  <2>1. /\ Len(scene.records) \in Nat /\ 1 + Len(scene.records) <= MaxNumber /\ MaxIds > 0
        /\ IsMap(rec, Ids, Record)
        /\ \A r \in DOMAIN rec : rec[r].seq \in 1..(1 + Len(scene.records)) /\ rec[r].key = 1
        /\ \A q, r \in DOMAIN rec : rec[q].seq = rec[r].seq => q = r
        /\ IsFiniteSet(DOMAIN rec) /\ Cardinality(DOMAIN rec) <= Quota
    <3>1. PICK s, f : s = scene /\ f = rec
      OBVIOUS
    <3>2. s \in Scenes /\ s.made /\ f = RecordsOf(s)
      BY <1>1, <1>4, <3>1 DEF RecordsOf
    <3>3. /\ Len(s.records) \in Nat /\ 1 + Len(s.records) <= MaxNumber /\ MaxIds > 0
          /\ IsMap(f, Ids, Record)
          /\ \A r \in DOMAIN f : f[r].seq \in 1..(1 + Len(s.records)) /\ f[r].key = 1
          /\ \A q, r \in DOMAIN f : f[q].seq = f[r].seq => q = r
          /\ IsFiniteSet(DOMAIN f) /\ Cardinality(DOMAIN f) <= Quota
      BY <3>2, RecordsAtStart
    <3> QED
      BY <3>1, <3>3
  <2>2. t.drawn = 1 /\ t.number = 1 + Len(scene.records) /\ t.pruned = 0 /\ t.space = [id |-> 1, epoch |-> 0] /\ t.rec = rec
    BY <1>1, <1>3, <1>4
  <2>3. t.space # None /\ t.space \in [id : 1..1, epoch : 0..MaxNumber]
    BY <2>2, RowIsNotNone
  <2>4. Past(t.rec, t)
    <3>1. \A r \in DOMAIN rec : rec[r].seq <= rec[r].seq /\ rec[r].seq <= 1 + Len(scene.records) /\ rec[r].key <= 1
      BY <2>1
    <3> QED
      BY <2>1, <2>2, <3>1 DEF Past
  <2>5. t.drawn \in 0..MaxIds /\ t.number \in 0..MaxNumber /\ t.pruned \in 0..t.number
    BY <2>1, <2>2
  <2> QED
    BY <1>2, <2>1, <2>2, <2>3, <2>4, <2>5 DEF ServerOf
<1>5. CASE ~scene.made
  <2>1. scene.records = <<>>
    BY <1>1, <1>5, SuiteScenes
  <2>2. DOMAIN rec = {} /\ rec = Empty
    BY <1>1, <2>1 DEF Empty
  <2>3. t.drawn = 0 /\ t.number = 0 /\ t.pruned = 0 /\ t.space = None /\ t.rec = rec
    BY <1>1, <1>3, <1>5
  <2>4. Past(t.rec, t)
    BY <2>2, <2>3, EmptyPast
  <2>5. IsFiniteSet(DOMAIN rec) /\ Cardinality(DOMAIN rec) <= Quota
    BY <2>2, FS_EmptySet
  <2> QED
    BY <1>2, <2>2, <2>3, <2>4, <2>5 DEF ServerOf
<1> QED
  BY <1>4, <1>5

LEMMA InitIInv ==
    ASSUME Init
    PROVE  IInv
<1>1. ServerOf(Now) /\ scene \in Scenes
  BY ServerAtStart DEF Init
<1>2. DOMAIN page = Browsers /\ app = None
  BY DEF Init
<1>3. AppOf(app, Now)
  BY <1>2 DEF AppOf
<1>4. ASSUME NEW b \in Browsers
      PROVE  PageOf(page[b], Now) /\ page[b].at # "put"
  <2>1. PICK link : page[b] = [Loading EXCEPT !.link = link]
    BY DEF Init
  <2> DEFINE q == [Loading EXCEPT !.link = link]
  <2>2. /\ DOMAIN q = Fields /\ q.held = None /\ q.batch = NoBatch /\ q.cursor = 0 /\ q.shown = Empty
        /\ q.found = 0 /\ q.answer = Nothing /\ q.at = "idle" /\ q.id = 0 /\ q.status = "loading"
    BY DEF Loading, Fields
  <2> HIDE DEF q
  <2>3. AnswerOf(Nothing, Now)
    <3>1. Nothing.recs = Empty /\ Nothing.cursor = 0 /\ AnswerShape(Nothing)
      BY DEF Nothing, AnswerShape
    <3> QED
      BY <1>1, <3>1, EmptyPast, ServerFacts DEF AnswerOf
  <2>4. BatchOf(NoBatch, Now) /\ Stays(NoBatch.took, Now) /\ NoBatch.at = "none"
    BY <1>1, BatchIs
  <2>5. ShownOf(Empty)
    BY EmptyPast DEF ShownOf
  <2>6. 0 \in 0..Now.number /\ 0 \in 0..Now.drawn
    BY <1>1, ServerFacts
  <2>7. PageFits(q, Now)
    BY <2>2, <2>3, <2>4, <2>5, <2>6 DEF PageFits, HeldOf, Opened
  <2>8. HeldRight(q, Now) /\ AnswerRight(q, Now)
    BY <2>2 DEF HeldRight, AnswerRight, Shares, Awaits
  <2> QED
    BY <2>1, <2>2, <2>4, <2>7, <2>8 DEF PageOf, q
<1> QED
  BY <1>1, <1>2, <1>3, <1>4 DEF IInv

(***************************************************************************)
(* The theorems                                                            *)
(***************************************************************************)
LEMMA NextIInv ==
    ASSUME IInv, [Next]_vars
    PROVE  IInv'
<1>1. CASE DeleteSpace \/ AppCreates \/ VaultDeletes \/ PruneTombstones \/ AppReads \/ AppPushes \/ AppRekeys
  BY <1>1, DeleteKeeps, AppCreatesKeeps, VaultKeeps, PruneKeeps, AppReadsKeeps, AppPushesKeeps, AppRekeysKeeps
<1>2. ASSUME NEW b \in Browsers, Queue(b)
      PROVE  IInv'
  BY <1>2, BeginKeeps, ListingKeeps, ListedKeeps, PuttingKeeps, PullKeeps, PageTakenKeeps, ShowKeeps DEF Queue
<1>3. ASSUME NEW b \in Browsers, Save(b)
      PROVE  IInv'
  BY <1>3, SealKeeps, AskKeeps, PushedKeeps, AppliedKeeps DEF Save
<1>4. ASSUME NEW b \in Browsers, Lost(b) \/ Submit(b)
      PROVE  IInv'
  BY <1>4, LostKeeps, SubmitKeeps
<1>5. ASSUME NEW b \in Browsers, Connect(b) \/ Drop(b) \/ Retry(b) \/ Create(b)
      PROVE  IInv'
  BY <1>5, ClickKeeps
<1>6. CASE UNCHANGED vars
  BY <1>6, StutterKeeps
<1> QED
  BY <1>1, <1>2, <1>3, <1>4, <1>5, <1>6 DEF Next

LEMMA AlwaysIInv == Spec => []IInv
<1>1. Init => IInv
  BY InitIInv
<1>2. IInv /\ [Next]_vars => IInv'
  BY NextIInv
<1> QED
  BY <1>1, <1>2, PTL DEF Spec

(* The rows are what they are declared as, two records never have one     *)
(* number, and the account keeps no more records than it may, however     *)
(* pushes, new keys, deletions and prunings follow each other             *)
(* (suite_push, rekey_suite_space, prune_tombstones).                     *)
THEOREM SuiteCorrect == Spec => []SuiteInv
<1>1. IInv => SuiteInv
  <2> SUFFICES ASSUME IInv PROVE SuiteInv
    OBVIOUS
  <2>1. ServerOf(Now) /\ Now.space = space /\ Now.rec = rec /\ Now.number = number /\ Now.pruned = pruned /\ Now.drawn = drawn
    BY DEF IInv, Now
  <2>2. /\ IsMap(rec, Ids, Record) /\ number \in 0..MaxNumber /\ pruned \in 0..number
        /\ \A r \in DOMAIN rec : rec[r].seq \in 1..number
        /\ \A q, r \in DOMAIN rec : rec[q].seq = rec[r].seq => q = r
        /\ Cardinality(DOMAIN rec) <= Quota
    BY <2>1, RecIs DEF ServerOf
  <2>3. space \in {None} \cup [id : 1..MaxIds, epoch : 0..MaxNumber]
    <3>1. drawn \in Nat /\ drawn <= MaxIds /\ (space # None => space \in [id : 1..drawn, epoch : 0..MaxNumber])
      BY <2>1, RecIs
    <3>2. 1..drawn \subseteq 1..MaxIds
      BY <3>1
    <3> QED
      BY <3>1, <3>2
  <2> QED
    BY <2>2, <2>3 DEF SuiteInv
<1> QED
  BY <1>1, AlwaysIInv, PTL

(* As long as a page has the space open that there is, it lacks no record *)
(* below its cursor and keeps none that has gone, but where its cursor is *)
(* not about what it holds: merged pages, saves that are applied between  *)
(* them, resets, new keys and spaces that are made anew lose no change    *)
(* (pull, save and open of the web vault's suite module).                 *)
THEOREM NothingIsMissed == Spec => []NothingBelowIsMissed
<1>1. IInv => NothingBelowIsMissed
  <2> SUFFICES ASSUME IInv, NEW b \in Browsers, HasTheSpace(page[b]), ~page[b].astray
               PROVE  Complete(page[b].held.recs, page[b].cursor)
    BY DEF NothingBelowIsMissed
  <2>1. PageOf(page[b], Now) /\ Now.space = space /\ Now.rec = rec /\ Now.pruned = pruned
    BY PageHas
  <2>2. Shares(page[b], Now)
    BY <2>1 DEF HasTheSpace, Shares
  <2>3. CompleteAt(Now, page[b].held.recs, page[b].cursor)
    BY <2>1, <2>2 DEF PageOf, HeldRight
  <2> QED
    BY <2>1, <2>3 DEF CompleteAt, Complete
<1> QED
  BY <1>1, AlwaysIInv, PTL

(* A new key brings every record along as it was: none is left under the  *)
(* old key, none is lost, and no write the app had not read is undone     *)
(* (rekey_suite_space).                                                   *)
THEOREM RekeyCorrect == Spec => RekeyBringsAll
<1> DEFINE Brought == space # None /\ space' # None /\ space'.id # space.id =>
                        /\ DOMAIN rec' = DOMAIN rec
                        /\ \A r \in DOMAIN rec : rec'[r].key = space'.id /\ rec'[r].write = rec[r].write
<1>1. IInv /\ [Next]_vars => Brought \/ UNCHANGED vars
  <2> SUFFICES ASSUME IInv, Next, space # None, space' # None, space'.id # space.id
               PROVE  /\ DOMAIN rec' = DOMAIN rec
                      /\ \A r \in DOMAIN rec : rec'[r].key = space'.id /\ rec'[r].write = rec[r].write
    OBVIOUS
  <2>1. AppRekeys /\ space' # space
    <3> SUFFICES ASSUME ~(AppRekeys /\ space' # space) PROVE FALSE
      OBVIOUS
    <3>1. ~(DeleteSpace \/ AppCreates)
      BY DEF DeleteSpace, AppCreates, CreateSpace
    <3>2. ~(VaultDeletes \/ PruneTombstones \/ AppReads)
      BY DEF VaultDeletes, PruneTombstones, AppReads, server
    <3>3. ~AppPushes
      BY DEF AppPushes, SuitePush, server
    <3>4. ASSUME NEW b \in Browsers PROVE ~(Queue(b) \/ Lost(b))
      <4>1. ~(Begin(b) \/ Listing(b) \/ Listed(b) \/ Show(b))
        BY DEF Begin, Listing, Listed, Show, server
      <4>2. ~(Putting(b) \/ Lost(b))
        BY DEF Putting, Lost, CreateSpace, server
      <4>3. ~(Pull(b) \/ PageTaken(b))
        BY DEF Pull, PageTaken, server
      <4> QED
        BY <4>1, <4>2, <4>3 DEF Queue
    <3>5. ASSUME NEW b \in Browsers PROVE ~Save(b)
      BY DEF Save, Seal, Ask, Pushed, Applied, SuitePush, server
    <3>6. ASSUME NEW b \in Browsers
          PROVE  ~(Submit(b) \/ Connect(b) \/ Drop(b) \/ Retry(b) \/ Create(b))
      BY DEF Submit, Connect, Drop, Retry, Create, server
    <3>7. ~AppRekeys
      BY DEF AppRekeys, server
    <3> QED
      BY <3>1, <3>2, <3>3, <3>4, <3>5, <3>6, <3>7 DEF Next
  <2>2. drawn < MaxIds /\ RekeySpace(drawn + 1, app.recs) /\ drawn' = drawn + 1 /\ app # None
    BY <2>1 DEF AppRekeys, server
  <2>3. ServerOf(Now) /\ scene \in Scenes /\ Past(app.recs, Now)
    BY <2>2 DEF IInv, AppOf
  <2> QED
    BY <2>2, <2>3, RekeyIs
<1> QED
  BY <1>1, AlwaysIInv, PTL DEF Spec, RekeyBringsAll
================================================================================
