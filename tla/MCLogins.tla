------------------------------- MODULE MCLogins -------------------------------
EXTENDS Logins, TLC

CONSTANTS h1, h2, h3, d1, d2, n1, n2, k1, k2

Meets(on, remembered, legacy, guesses, asks) ==
    [on |-> on, remembered |-> remembered, legacy |-> legacy, guesses |-> guesses, asks |-> asks]

MCScenes ==
    { Meets({}, {d1}, FALSE, TRUE, {"login", "refill"}),
      Meets({"totp"}, {}, FALSE, FALSE, {"login", "activate", "delete", "time"}),
      Meets({"mail"}, {}, FALSE, TRUE, {"login", "code", "late", "refill"}),
      Meets({"key"}, {}, FALSE, FALSE, {"login", "enroll", "key", "unkey"}),
      Meets({"totp"}, {d1}, FALSE, FALSE, {"login", "disable", "setup", "mail", "travel", "late"}),
      Meets({}, {}, TRUE, FALSE, {"login", "ask", "answer", "password", "late"}) }

MCSymmetry == Permutations(Handlers)
=============================================================================
