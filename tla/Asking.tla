-------------------------------- MODULE Asking --------------------------------
(***************************************************************************)
(* What several parts share: requests that run at once, each a record of   *)
(* what it is at, and a scene, which bounds what is asked for in one       *)
(* behaviour.                                                              *)
(***************************************************************************)
EXTENDS Naturals

CONSTANTS Requests, None

VARIABLES
    scene,
    asked,     \* counted: what was asked for
    request    \* what each request is at

Ready == [at |-> "idle"]
Asks(what) == what \in scene.asks /\ asked < scene.most /\ asked' = asked + 1
Does(r, step) == request' = [request EXCEPT ![r] = step]
=============================================================================
