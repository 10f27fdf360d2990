--------------------------- MODULE MCVolumeStatus ---------------------------
EXTENDS VolumeStatus, TLC
CONSTANTS m1, m2, p1, p2, s1, s2, s3, r1, r2, r3

MCPRaidOf == s1 :> p1 @@ s2 :> p1 @@ s3 :> p2

Is(status)   == [status |-> status, isDead |-> status = "dead"]
Down(status) == [status |-> status, isDead |-> TRUE]

Of(p, n, token, major, minor, segments) ==
    [pRaid |-> p, n |-> n, token |-> token, major |-> major, minor |-> minor,
     term |-> 1, segments |-> segments]

(* A segment of a mirror dies, and the other one goes down with the status *)
(* it has; a single one is rebuilt.                                        *)
MCContent ==
    r1 :> Of(p1, 1, 0, 1, 1, s1 :> Is("normal") @@ s2 :> Is("dead"))
    @@ r2 :> Of(p1, 2, 0, 2, 0, s1 :> Down("normal"))
    @@ r3 :> Of(p2, 1, 1, 1, 1, s3 :> Is("under_recovery"))

ASSUME ContentAssumption == SentInOrder
=============================================================================
