---------------------------- MODULE MCZoneLock ----------------------------
(* Two managements, m1 and m2, that ask for the lock of one zone.          *)
EXTENDS ZoneLock

CONSTANTS m1, m2, r1, r2, r3, r4

(* r1 and r2 are made by m1, r3 and r4 by m2.                              *)
TwoEach == [r \in Req |-> IF r \in {r3, r4} THEN m2 ELSE m1]

(* Only r3 is made by m2.                                                  *)
OneInM2 == [r \in Req |-> IF r = r3 THEN m2 ELSE m1]
=============================================================================
