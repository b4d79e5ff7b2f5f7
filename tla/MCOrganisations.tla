--------------------------- MODULE MCOrganisations ---------------------------
EXTENDS Organisations, TLC

CONSTANTS nyu, mio, ren, o1, o2, c1, c2, i1, i2, q1, q2, free

MCHome == nyu :> nyu @@ mio :> mio @@ ren :> ren

Reaches(r, w) == [c \in Collections |-> IF c \in w THEN "write" ELSE IF c \in r THEN "read" ELSE "none"]
Owner(a) == [who |-> a, status |-> "confirmed", kind |-> "owner", reach |-> Reaches({}, {})]
User(a, status, r, w) == [who |-> a, status |-> status, kind |-> "user", reach |-> Reaches(r, w)]
Holds(o, C) == [of |-> o, content |-> FALSE, trash |-> FALSE, in |-> C]

Has(members, open, items, asks) ==
    [org |-> o1, members |-> members, open |-> open, items |-> items, asks |-> asks]
Empty == [x \in {} |-> x]

MCScenes ==
    { \* Who is in, from an invitation to leaving.
      Has(<<Owner(nyu), User(mio, "confirmed", {}, {})>>, {}, Empty,
          {"invite", "accept", "confirm", "update", "remove", "leave"}),
      Has(<<Owner(nyu), User(mio, "invited", {}, {}), User(ren, "invited", {}, {})>>, {}, Empty,
          {"accept", "address", "decline"}),
      Has(<<Owner(nyu), [Owner(mio) EXCEPT !.status = "accepted"], User(ren, "confirmed", {}, {})>>, {}, Empty,
          {"create", "confirm", "update"}),
      Has(<<Owner(nyu), User(mio, "confirmed", {}, {})>>, {}, Empty, {"update", "leave", "going", "scim", "delete"}),
      \* What they reach.
      Has(<<Owner(nyu), User(mio, "confirmed", {c1}, {})>>, {c1}, i1 :> Holds(o1, {c1}), {"create", "update"}),
      Has(<<Owner(nyu), User(mio, "confirmed", {c1}, {})>>, {c1}, i1 :> Holds(o1, {c1}),
          {"save", "close", "rename", "takeover"}),
      \* Their items.
      Has(<<Owner(nyu), User(mio, "confirmed", {c1}, {c2})>>, {c1, c2}, i1 :> Holds(o1, {c1, c2}), {"edit", "move", "close"}),
      Has(<<Owner(nyu), User(mio, "confirmed", {}, {c1})>>, {c1}, i1 :> Holds(o1, {c1}), {"edit", "bulk", "file", "delete"}),
      Has(<<Owner(nyu), User(mio, "confirmed", {}, {c1})>>, {c1}, i1 :> Holds(mio, {}), {"share", "item", "remove"}) }

MCSymmetry == Permutations(Requests)

=============================================================================
