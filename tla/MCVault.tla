------------------------------- MODULE MCVault -------------------------------
(* Three parts of a vault on small instances, each by itself: an account   *)
(* whose database is put back from a backup (DeltaSync), one whose items   *)
(* change and get a new key (Items), and one that is connected to UwUMail  *)
(* (Masked).                                                               *)
EXTENDS DeltaSync, Items, Masked, TLC

CONSTANTS c1, c2, q1, q2

VARIABLE part

shared == <<scene, request, asked>>
ofItems == <<kept, rule, userKey, mailing, sweep, now, texts, keys, made, replaced, ghosts>>
ofMasked == <<harm, allowed, store, pending, backingOff, codes, lock, uwumail, unanswered>>

MCRules == {[perItem |-> n, days |-> d, paused |-> FALSE] : <<n, d>> \in {<<1, 0>>, <<2, 1>>}}
           \cup {[perItem |-> 1, days |-> 1, paused |-> TRUE]}

MCItemScenes == {[asks |-> a, most |-> 4] :
                  a \in {{"update", "rule", "forget"}, {"update", "partial", "restore", "bulk"},
                         {"rotate", "create", "restore"}, {"update", "delete", "purge", "import"}}}
              \cup {[asks |-> a, most |-> 3] : a \in {{"update", "rotate"}, {"remind", "update"}}}

Away(asks, most, harm_) == [asks |-> asks, most |-> most, harm |-> harm_]

MCMaskedScenes ==
    {Away({"create", "generate"}, 3, {"out", "lost", "signed out", "hang up"}),
     Away({"create", "change"}, 3, {"out", "scope"}),
     Away({"connect", "callback", "generate"}, 5, {"out"}),
     Away({"connect", "callback", "create"}, 4, {"lost", "age"}),
     Away({"create", "generate", "connect"}, 3, {"limited", "out"}),
     Away({"connect", "callback"}, 4, {"limited", "age", "signed out"}),
     Away({"connect", "callback", "disconnect"}, 4, {"hang up"}),
     Away({"create"}, 2, {"signed out", "age", "out"}),
     Away({"connect", "callback", "going"}, 3, {"lost"}),
     Away({"generate", "going"}, 2, {"out", "lost"}),
     Away({"create", "disconnect"}, 3, {"out", "unlisted", "stop"})}

(* What takes no part stays as it was in the beginning: no item is there.  *)
NoItems ==
    /\ row = [c \in Items |-> None] /\ versions = EmptyMap /\ replaced = EmptyMap
    /\ reminder = None /\ mailing = Ready /\ sweep = None /\ rule = None
    /\ userKey = 1 /\ keys = 1 /\ texts = 1 /\ made = 0 /\ now = 1
    /\ strays = {} /\ surprised = FALSE /\ sent = {}

NoMasked ==
    /\ harm = {} /\ allowed = FALSE /\ account = FALSE /\ connection = None /\ links = {}
    /\ client = None /\ pending = {} /\ backingOff = FALSE /\ codes = 0 /\ lock = None
    /\ grants = <<>> /\ clients = {} /\ addresses = <<>> /\ reused = {} /\ unanswered = {}

VaultInit ==
    /\ Init
    /\ \/ /\ part = "restore" /\ NoItems /\ NoMasked
          /\ scene = None /\ request = [r \in Requests |-> Ready] /\ asked = 0
       \/ part = "items" /\ ItemsInit /\ NoMasked
       \/ part = "masked" /\ MaskedInit /\ NoItems

RestorePart == part = "restore" /\ Next /\ UNCHANGED <<part, shared, ofItems, ofMasked>>
ItemsPart == part = "items" /\ ItemsNext /\ UNCHANGED <<part, vars, ofMasked>>
MaskedPart == part = "masked" /\ MaskedNext /\ UNCHANGED <<part, vars, ofItems>>

VaultSpec ==
    VaultInit /\ [][RestorePart \/ ItemsPart \/ MaskedPart]_<<part, vars, shared, ofItems, ofMasked>>

MCSymmetry == {s @@ t : s \in Permutations({q1, q2}), t \in Permutations({c1, c2})}
=============================================================================
