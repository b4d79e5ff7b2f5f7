------------------------------- MODULE MCFiles -------------------------------
EXTENDS Files, TLC

CONSTANTS a1, a2, s1, f1, f2, u1, u2, h1, h2

MCFilesOf == (u1 :> {f1}) @@ (u2 :> {f2})
MCOneFile == u1 :> {f1}

(* Each by itself, and a submission whose file is taken into the item.     *)
MCScenes == {{s1}, {a1, a2}, {u1, u2}, {a1, u1}, {a1, u2}}
MCFew == {{s1}, {a1, u1}}

(* The handlers may change places, and the submissions with their files.   *)
HandlerSymmetry == Permutations({h1, h2})
MCSymmetry == HandlerSymmetry \cup
    {(u1 :> u2) @@ (u2 :> u1) @@ (f1 :> f2) @@ (f2 :> f1) @@ s : s \in HandlerSymmetry}
==============================================================================
