----------------------------- MODULE ZoneTurns -----------------------------
(***************************************************************************)
(* What the lock of one zone is to those who use it: the users of a        *)
(* management take turns, one of them asks for the lock of the zone at a   *)
(* time, and the management of one of them holds it.  This is as much as   *)
(* jobs that lock several zones see of the lock of each, and as much as    *)
(* the lock shows of its document, counters, boots and heartbeats.         *)
(***************************************************************************)
EXTENDS Sequences

CONSTANTS Mgmt, NoMgmt, User, MgmtOf

VARIABLES holder,   \* the management that holds the lock, or NoMgmt
          overdue,  \* may it be taken from the holder?
          waiting,  \* is a user of the management at work?
          queue,    \* the users that wait for their turn
          place     \* where each user is: "out", "queued", "timer" (dequeued, for
                    \* later), "asking", "in", "leaving"

lockVars  == <<holder, overdue>>
queueVars == <<waiting, queue>>
vars      == <<lockVars, queueVars, place>>

Init == /\ holder = NoMgmt
        /\ overdue = FALSE
        /\ waiting = [m \in Mgmt |-> FALSE]
        /\ queue = [m \in Mgmt |-> <<>>]
        /\ place = [u \in User |-> "out"]

(* A user waits for its turn, or has it.                                   *)
Ask(u) ==
    LET m == MgmtOf[u] IN
    /\ place[u] \in {"out", "timer"}
    /\ \/ /\ waiting[m]
          /\ queue' = [queue EXCEPT ![m] = Append(@, u)]
          /\ place' = [place EXCEPT ![u] = "queued"]
          /\ UNCHANGED waiting
       \/ /\ ~waiting[m]
          /\ waiting' = [waiting EXCEPT ![m] = TRUE]
          /\ place' = [place EXCEPT ![u] = "asking"]
          /\ UNCHANGED queue
    /\ UNCHANGED lockVars

Take(u) ==
    /\ place[u] = "asking"
    /\ holder = NoMgmt \/ overdue
    /\ holder' = MgmtOf[u]
    /\ overdue' \in BOOLEAN
    /\ place' = [place EXCEPT ![u] = "in"]
    /\ UNCHANGED queueVars

(* Only what the management still holds is freed.                          *)
Give(u) ==
    /\ place[u] = "in"
    /\ \/ holder = MgmtOf[u] /\ holder' = NoMgmt /\ overdue' = FALSE
       \/ holder # MgmtOf[u] /\ UNCHANGED lockVars
    /\ place' = [place EXCEPT ![u] = "leaving"]
    /\ UNCHANGED queueVars

(* The next in the queue has its turn, now or after a timer.               *)
Leave(u) ==
    LET m == MgmtOf[u] IN
    /\ place[u] = "leaving"
    /\ \/ /\ queue[m] = <<>>
          /\ waiting' = [waiting EXCEPT ![m] = FALSE]
          /\ place' = [place EXCEPT ![u] = "out"]
          /\ UNCHANGED queue
       \/ \E soon \in BOOLEAN :
          /\ queue[m] # <<>>
          /\ waiting' = [waiting EXCEPT ![m] = soon]
          /\ queue' = [queue EXCEPT ![m] = Tail(@)]
          /\ place' = [place EXCEPT ![u] = "out",
                                    ![Head(queue[m])] = IF soon THEN "asking" ELSE "timer"]
    /\ UNCHANGED lockVars

(* A management is gone with its users, and its lock may be taken.         *)
Crash(m) ==
    /\ place' = [u \in User |-> IF MgmtOf[u] = m THEN "out" ELSE place[u]]
    /\ waiting' = [waiting EXCEPT ![m] = FALSE]
    /\ queue' = [queue EXCEPT ![m] = <<>>]
    /\ overdue' = (overdue \/ holder = m)
    /\ UNCHANGED holder

(* The holder was silent for too long.                                     *)
Silence ==
    /\ holder # NoMgmt
    /\ overdue' = TRUE
    /\ UNCHANGED <<holder, queueVars, place>>

Next == \/ \E u \in User : Ask(u) \/ Take(u) \/ Give(u) \/ Leave(u)
        \/ \E m \in Mgmt : Crash(m)
        \/ Silence

Spec == Init /\ [][Next]_vars
=============================================================================
