------------------------------ MODULE MCSuite ------------------------------
(* Suite on small instances.                                               *)
EXTENDS Suite

CONSTANTS b1, r1, r2, r3

Has(records, asks, saves, most) ==
    [made |-> TRUE, records |-> records, up |-> TRUE, asks |-> asks, saves |-> saves, most |-> most]
Late(records, asks, saves, most) == [Has(records, asks, saves, most) EXCEPT !.up = FALSE]
Without(asks, saves, most) == [Has(<<>>, asks, saves, most) EXCEPT !.made = FALSE]

MCScenes ==
    { \* Writes of an app meet pages and saves.
      Has(<<r1, r2>>, {"app"}, {<<"edit">>, <<"remove">>}, 5),
      Has(<<r1>>, {"app", "drop"}, {<<"edit">>}, 4),
      Has(<<r1>>, {"app", "lose"}, {<<"add", "edit">>, <<"add", "add">>}, 5),
      Has(<<r1, r2>>, {"app", "retry", "lose"}, {<<"edit">>}, 4),
      \* A new key.
      Has(<<r1, r2>>, {"app", "rekey"}, {<<"edit">>}, 7),
      Has(<<r1>>, {"old", "rekey"}, {<<"add">>, <<"add", "edit">>}, 5),
      \* What is deleted is forgotten.
      Has(<<r1>>, {"app", "prune"}, {<<"remove">>}, 4),
      Late(<<r1>>, {"prune", "vault"}, {<<"remove">>}, 4),
      \* The space goes, and comes.
      Has(<<r1>>, {"app", "delete", "retry"}, {<<"edit">>}, 4),
      Without({"app", "create", "lose"}, {}, 3),
      Has(<<>>, {"app", "prune"}, {<<"add">>}, 4),
      Without({"create", "lose"}, {<<"add">>}, 3) }

=============================================================================
