----------------------------- MODULE MCAccounts -----------------------------
EXTENDS Accounts, TLC

CONSTANTS nyu, mio, ren, ana, bob, cat, s1, s2, n1, n2, f1, f2, q1, q2

Person(e) == [email |-> e, admin |-> FALSE, disabled |-> FALSE, password |-> TRUE, by |-> None]
Admin(e) == [Person(e) EXCEPT !.admin = TRUE]
By(u, admin) == [by |-> u, admin |-> admin, late |-> FALSE]
Pushed(e) == [email |-> e, user |-> None, active |-> TRUE]
Says(s, e, right) == [subject |-> s, email |-> e, right |-> right]
Empty == [x \in {} |-> x]

Has(people, invitations, pushed, claims, asks) ==
    [user |-> people, invited |-> invitations, entry |-> pushed, claims |-> claims, open |-> FALSE,
     alone |-> FALSE, asks |-> asks]
Alone(people, claims, asks) == [Has(people, Empty, Empty, claims, asks) EXCEPT !.open = TRUE, !.alone = TRUE]

MCScenes ==
    { \* Two sign-ins of one login, and of two logins for one address.
      Has(Empty, bob :> By(None, FALSE), Empty, {Says(s1, bob, "unsaid")}, {"signin", "grant", "delete"}),
      Has(nyu :> Person(bob), Empty, Empty, {Says(s1, bob, "unsaid"), Says(s2, bob, "unsaid")}, {"signin", "grant"}),
      Has(nyu :> Person(bob), Empty, Empty, {Says(s1, bob, "unsaid")}, {"signin", "grant", "logout", "delete"}),
      \* People SCIM pushed, who sign up meanwhile.
      Has(nyu :> Admin(ana), Empty, n1 :> Pushed(bob), {Says(s1, bob, "given")}, {"signin", "scim", "scimCreate"}),
      Has(nyu :> Person(ana), Empty, n1 :> Pushed(bob), {Says(s1, bob, "unsaid")}, {"signin", "scimDelete"}),
      \* A quota.
      Has(nyu :> Admin(ana) @@ mio :> Person(bob), Empty, Empty, {}, {"invite", "family", "withdraw", "register"}),
      Has(nyu :> Admin(ana), cat :> By(nyu, TRUE), Empty, {}, {"adminInvite", "resend", "register"}),
      Has(nyu :> Person(ana), cat :> By(nyu, FALSE), Empty, {}, {"invite", "resend", "expire", "withdraw", "register"}),
      Has(nyu :> Admin(ana) @@ mio :> Person(bob), Empty, Empty, {}, {"invite", "register", "delete"}),
      Has(nyu :> Admin(ana) @@ mio :> Admin(bob), Empty, Empty, {}, {"portal", "scim"}),
      \* Who is an admin, one request after the other.
      Alone(nyu :> Admin(ana) @@ mio :> Admin(bob), {Says(s1, ana, "taken"), Says(s2, bob, "given")},
            {"signin", "scim", "scimDelete", "group", "portal", "delete"}) }

MCSymmetry == Permutations(Requests)

=============================================================================
