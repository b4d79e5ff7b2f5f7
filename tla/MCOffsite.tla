------------------------------ MODULE MCOffsite ------------------------------
EXTENDS OffsiteBackup, TLC

CONSTANTS d1, d2, f, g, c1, c2, c3

MCContent == (f :> {c3}) @@ (g :> {c2})
MCChunks == (d1 :> {c1}) @@ (d2 :> {c1, c2})

(* Days of two runs, and the newest of the last two days. *)
MCRules == {<<1, 2>>}
==============================================================================
