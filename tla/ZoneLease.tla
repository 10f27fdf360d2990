----------------------------- MODULE ZoneLease -----------------------------
(***************************************************************************)
(* What the zone lock promises, without managements, queues or a database: *)
(* a lease that one client has at a time.  Every grant has a new epoch.  A *)
(* lease ends when its holder leaves, or is granted over the head of a     *)
(* holder that lapsed: one that crashed, or of which nothing was heard for *)
(* too long.  A client whose lease was taken over leaves without freeing   *)
(* the lease of its successor.                                             *)
(***************************************************************************)
EXTENDS Naturals

CONSTANT Client

VARIABLES epoch,   \* the number of the last grant
          held,    \* is the lease granted?
          ticket,  \* the epoch each client entered under, 0 outside
          lapsed   \* the epochs whose holder lapsed

vars == <<epoch, held, ticket, lapsed>>

Init == /\ epoch = 1
        /\ held = FALSE
        /\ ticket = [c \in Client |-> 0]
        /\ lapsed = {}

Enter(c) == /\ ticket[c] = 0
            /\ held => epoch \in lapsed
            /\ epoch' = epoch + 1
            /\ held' = TRUE
            /\ ticket' = [ticket EXCEPT ![c] = epoch + 1]
            /\ lapsed' = lapsed \/ lapsed' = lapsed \cup {epoch + 1}

Leave(c) == /\ ticket[c] # 0
            /\ ticket' = [ticket EXCEPT ![c] = 0]
            /\ held' = (held /\ ticket[c] # epoch)
            /\ UNCHANGED <<epoch, lapsed>>

(* A grant nobody hears of, and its return.                                *)
EnterNobody == /\ held => epoch \in lapsed
               /\ epoch' = epoch + 1
               /\ held' = TRUE
               /\ lapsed' = lapsed \/ lapsed' = lapsed \cup {epoch + 1}
               /\ UNCHANGED ticket

ReturnNobody == /\ held
                /\ \A c \in Client : ticket[c] # epoch
                /\ held' = FALSE
                /\ UNCHANGED <<epoch, ticket, lapsed>>

(* Clients are gone without leaving.  If the holder is among them its      *)
(* lease lapses; it may have been returned before.                         *)
Vanish(C) == /\ ticket' = [c \in Client |-> IF c \in C THEN 0 ELSE ticket[c]]
             /\ \/ lapsed' = lapsed \cup {epoch}
                \/ lapsed' = lapsed /\ \A c \in C : ticket[c] # epoch
             /\ \/ held' = held
                \/ held' = FALSE /\ \E c \in C : ticket[c] = epoch
             /\ UNCHANGED epoch

(* Nothing is heard of the holder, who may not know.                       *)
Silence == /\ held
           /\ lapsed' = lapsed \cup {epoch}
           /\ UNCHANGED <<epoch, held, ticket>>

Next == \/ \E c \in Client : Enter(c) \/ Leave(c)
        \/ \E C \in SUBSET Client : Vanish(C)
        \/ EnterNobody \/ ReturnNobody \/ Silence

Spec == Init /\ [][Next]_vars
=============================================================================
