---------------------------- MODULE MCZoneLocks ----------------------------
(* Two managements and the zones "9", "10" and "11".                       *)
EXTENDS ZoneLocks

CONSTANTS m1, m2, z9, z10, z11, j1, j2, j3, j4, j5

(* Object.keys puts integers first, by value; sort() compares strings.     *)
ByValue  == [z \in Zone |-> CASE z = z9 -> 1 [] z = z10 -> 2 [] z = z11 -> 3]
ByString == [z \in Zone |-> CASE z = z10 -> 1 [] z = z11 -> 2 [] z = z9 -> 3]

(* The jobs' own Sets: each of the two that lock pairs has its own order.  *)
AsBuilt == [j \in Job |-> IF j = j1 THEN ByValue
                          ELSE [z \in Zone |-> CASE z = z11 -> 1 [] z = z9 -> 2 [] z = z10 -> 3]]

(* j1, j2 and j5 run in m1, j3 and j4 in m2.                               *)
TwoEach == [j \in Job |-> IF j \in {j1, j2, j5} THEN m1 ELSE m2]

(* A global job in each management, the others over zones.                 *)
MixedKinds == [j \in Job |-> IF j \in {j2, j4} THEN "global" ELSE "zones"]

(* Pairs of zones and a single one.                                        *)
ThreeWants == [j \in Job |-> CASE j = j1 -> {z9, z11} [] j = j3 -> {z10, z11, z9}
                                 [] j = j5 -> {z11} [] OTHER -> {}]

(* "11" is new: m1 hears of it when one of its own jobs locks it.          *)
NewZone == [m \in Mgmt |-> IF m = m1 THEN {z9, z10} ELSE Zone]
=============================================================================
