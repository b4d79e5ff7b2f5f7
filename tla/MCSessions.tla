----------------------------- MODULE MCSessions -----------------------------
(* What the server keeps of others, in memory and beside the database, on  *)
(* small instances and each part by itself: who a request is from          *)
(* (Sessions), answers about breaches (Breaches), lists (Mirrors) and      *)
(* icons (Icons).                                                          *)
EXTENDS Sessions, Breaches, Mirrors, Icons

CONSTANTS a1, a2, x1, x2

VARIABLE part

Away(asks, most, harm_) == [asks |-> asks, most |-> most, harm |-> harm_]

MCBreachScenes ==
    {Away({"xon"}, 3, {"hang up"}), Away({"xon"}, 2, {"stop", "off"}),
     Away({"hibp", "page"}, 2, {"off"}), Away({"emails"}, 2, {"429", "hang up"}),
     Away({"emails", "agree"}, 2, {"off"}), Away({"emails"}, 3, {}), Away({"emails"}, 2, {"stop"})}

MCMirrorScenes ==
    {Away({"sites"}, 3, {"failed"}), Away({"sites"}, 3, {"hang up"}),
     Away({"sites", "daily"}, 3, {"publish", "failed"}), Away({"sites", "daily"}, 3, {"stop", "publish"}),
     Away({"twofa", "daily"}, 3, {"failed", "publish"}), Away({"library", "daily"}, 3, {"hang up", "publish"}),
     Away({"update"}, 3, {"stop", "publish", "failed"}), Away({"update", "switch", "forget"}, 4, {"stop"})}

MCIconScenes ==
    {Away({"site"}, 2, {"hang up"}), Away({"site"}, 2, {"full"}), Away({"site", "drawn"}, 3, {}),
     Away({"site", "daily"}, 2, {}), Away({"site", "clear"}, 2, {}),
     Away({"drawn", "daily"}, 3, {"hang up"}), Away({"library"}, 2, {"hang up"}),
     Away({"site", "library"}, 2, {"stop"}), Away({"own", "share", "extras", "delete"}, 4, {"hang up"})}

away == <<scene, asked, harm, clock, request>>   \* of the last three
ofBreaches == <<on, questions, agreed, answers, told, unpaid>>
ofMirrors == <<edition, file, copy, lock, failed, began, mixed, geoip>>
ofIcons == <<disk, book, locks, fetches, eviction, clearing, overlap, item>>

(* What takes no part stays empty.                                         *)
NoBreaches ==
    /\ on = FALSE /\ tries = AllTries /\ kept = {} /\ xonQueue = <<>> /\ waiting = [a \in Accounts |-> 0] /\ next = 0
    /\ mailQueue = <<>> /\ last = None /\ counted = {} /\ blockedUntil = 0
    /\ agreed = None /\ answers = None /\ told = <<>> /\ unpaid = FALSE

NoMirrors ==
    /\ edition = 0 /\ file = None /\ copy = [l \in Lists |-> None] /\ lock = None /\ failed = None
    /\ switch = FALSE /\ geo = NoFiles /\ opened = None /\ download = NotRunning /\ forgetting = None
    /\ began = <<>> /\ mixed = {}

NoIcons ==
    /\ disk = None /\ book = None /\ locks = None /\ fetches = 0 /\ eviction = Ready
    /\ clearing = FALSE /\ overlap = FALSE /\ item = [shared |-> FALSE, own |-> None, raced |-> FALSE]

Nowhere ==
    /\ scene = Away({}, 0, {}) /\ asked = 0 /\ harm = {} /\ clock = 0
    /\ request = [r \in Requests |-> Ready]

MemoryInit ==
    /\ Init
    /\ \/ part = "sessions" /\ NoBreaches /\ NoMirrors /\ NoIcons /\ Nowhere
       \/ part = "breaches" /\ BreachesInit /\ NoMirrors /\ NoIcons
       \/ part = "mirrors" /\ MirrorsInit /\ NoBreaches /\ NoIcons
       \/ part = "icons" /\ IconsInit /\ NoBreaches /\ NoMirrors

SessionsPart == part = "sessions" /\ Next /\ UNCHANGED <<part, away, ofBreaches, ofMirrors, ofIcons>>
BreachesPart == part = "breaches" /\ BreachesNext /\ UNCHANGED <<part, vars, ofMirrors, ofIcons>>
MirrorsPart == part = "mirrors" /\ MirrorsNext /\ UNCHANGED <<part, vars, ofBreaches, ofIcons>>
IconsPart == part = "icons" /\ IconsNext /\ UNCHANGED <<part, vars, ofBreaches, ofMirrors>>

MemorySpec ==
    MemoryInit /\ [][SessionsPart \/ BreachesPart \/ MirrorsPart \/ IconsPart]_
                      <<part, vars, away, ofBreaches, ofMirrors, ofIcons>>

MemorySymmetry == {r @@ s @@ t : r \in Permutations(Requests), s \in Permutations({a1, a2}),
                                 t \in Permutations({x1, x2})}
=============================================================================
