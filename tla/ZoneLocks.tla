----------------------------- MODULE ZoneLocks -----------------------------
(***************************************************************************)
(* Jobs that need the locks of several zones: acquireLockByZones,          *)
(* acquireGlobalLock and their releases, of                                *)
(* src/modules/lock.js, over one Lock object per management and zone.      *)
(*                                                                         *)
(* A job takes its zones one after the other, holding what it has, and     *)
(* releases them one after the other.  The document of a zone is reduced   *)
(* to the management that holds it: how it is read, compared and updated   *)
(* is the subject of module ZoneLock, and so are crashes, heartbeats and   *)
(* errors.                                                                 *)
(***************************************************************************)
EXTENDS Integers, Sequences, FiniteSets

CONSTANTS
    Mgmt, NoMgmt,  \* the managements, and the holder of an unlocked document
    Zone,          \* the zones
    Job, MgmtOf,   \* the jobs, and the management each runs in
    Kind,          \* how each job locks: "zones" or "global"
    Wants,         \* the zones each job locks (all that are known if "global")
    Built,         \* the place of each zone in the Set that the job locks
    Sorted,        \* its place in the order of Array.prototype.sort
    Keys,          \* its place in the order of Object.keys
    Known          \* the zones of zonesLocks when each management starts

Kinds == {"zones", "global"}

ASSUME NoMgmtAssumption == NoMgmt \notin Mgmt
ASSUME JobAssumption    == /\ MgmtOf \in [Job -> Mgmt]
                           /\ Kind \in [Job -> Kinds]
                           /\ Wants \in [Job -> SUBSET Zone]
ASSUME OrderAssumption  == \A order \in {Sorted, Keys} \cup {Built[j] : j \in Job} :
                              /\ order \in [Zone -> Nat]
                              /\ \A y, z \in Zone : order[y] = order[z] => y = z
ASSUME KnownAssumption  == Known \in [Mgmt -> SUBSET Zone]

VARIABLES
    zonesLocks,      \* the keys of zonesLocks, per management
    holder,          \* handledBy of each zone's locked document, or NoMgmt
    waitingForLock,  \* Lock.waitingForLock, per management and zone
    lockingQueue,    \* Lock.lockingQueue, per management and zone
    pc,              \* where each job is
    todo,            \* the zones it still has to acquire, or to release
    have,            \* the zones it takes for locked by itself
    stray            \* history: the zones whose lock a global release gave away
                     \* without having it, until nobody uses their locks

vars == <<zonesLocks, holder, waitingForLock, lockingQueue, pc, todo, have, stray>>

PCs == {"idle", "queued",  \* in the queue of the first zone of todo
        "timer",           \* dequeued by releaseLock, for later
        "asking",          \* after the document of the first zone of todo
        "section",
        "releasing", "released",    \* releaseLock, its callback
        "done"}

Init == /\ zonesLocks = Known
        /\ holder = [z \in Zone |-> NoMgmt]
        /\ waitingForLock = [m \in Mgmt |-> [z \in Zone |-> FALSE]]
        /\ lockingQueue = [m \in Mgmt |-> [z \in Zone |-> <<>>]]
        /\ pc = [j \in Job |-> "idle"]
        /\ todo = [j \in Job |-> {}]
        /\ have = [j \in Job |-> {}]
        /\ stray = {}

-----------------------------------------------------------------------------
(* acquireLockByZones sorts, releaseLockByZones takes the Set as it is,    *)
(* and execPerZone takes the keys as they come.                            *)
(* Variant: nobody sorts.                                                  *)
Releases(j) == pc[j] \in {"releasing", "released"}

NotSorted(j) == IF Kind[j] = "global" THEN Keys ELSE Built[j]
OrderOf(j) == IF Kind[j] = "global" THEN Keys ELSE IF Releases(j) THEN Built[j] ELSE Sorted

FirstOf(j, zones) == CHOOSE z \in zones : \A y \in zones : OrderOf(j)[z] <= OrderOf(j)[y]

(* The zone that a job is about to acquire or to release.                  *)
First(j) == FirstOf(j, todo[j])

ToAcquire(j) == IF Kind[j] = "global" THEN zonesLocks[MgmtOf[j]] ELSE Wants[j]

(* releaseGlobalLock releases the zones that are known now.                *)
(* Variant: everybody does.                                                *)
ReleaseKnown(j) == zonesLocks[MgmtOf[j]]
ToRelease(j) == IF Kind[j] = "global" THEN zonesLocks[MgmtOf[j]] ELSE Wants[j]

(* acquireLock of one zone.                                                *)
AskFor(j, z) ==
    LET m == MgmtOf[j] IN
    /\ zonesLocks' = [zonesLocks EXCEPT ![m] = @ \cup {z}]
    /\ \/ /\ waitingForLock[m][z]
          /\ lockingQueue' = [lockingQueue EXCEPT ![m][z] = Append(@, j)]
          /\ pc' = [pc EXCEPT ![j] = "queued"]
          /\ UNCHANGED waitingForLock
       \/ /\ ~waitingForLock[m][z]
          /\ waitingForLock' = [waitingForLock EXCEPT ![m][z] = TRUE]
          /\ pc' = [pc EXCEPT ![j] = "asking"]
          /\ UNCHANGED lockingQueue

(* The next of the zones that are left, or the work.                       *)
Acquire(j, zones) ==
    /\ todo' = [todo EXCEPT ![j] = zones]
    /\ \/ /\ zones # {}
          /\ AskFor(j, FirstOf(j, zones))
       \/ /\ zones = {}
          /\ pc' = [pc EXCEPT ![j] = "section"]
          /\ UNCHANGED <<zonesLocks, waitingForLock, lockingQueue>>

Start(j) ==
    /\ pc[j] = "idle"
    /\ Acquire(j, ToAcquire(j))
    /\ UNCHANGED <<holder, have>>

DeferredAcquire(j) ==
    /\ pc[j] = "timer"
    /\ AskFor(j, First(j))
    /\ UNCHANGED <<holder, todo, have>>

Free(j, z) == holder[z] = NoMgmt

TakeLock(j) ==
    /\ pc[j] = "asking"
    /\ Free(j, First(j))
    /\ holder' = [holder EXCEPT ![First(j)] = MgmtOf[j]]
    /\ have' = [have EXCEPT ![j] = @ \cup {First(j)}]
    /\ Acquire(j, todo[j] \ {First(j)})

-----------------------------------------------------------------------------
(* releaseLock's updateOne: it succeeds whoever in this management holds   *)
(* the lock.                                                               *)
Unlock(j) == holder' = [holder EXCEPT ![First(j)] = IF @ = MgmtOf[j] THEN NoMgmt ELSE @]

(* The job is finished with its work.                                      *)
Release(j) ==
    /\ pc[j] = "section"
    /\ pc' = [pc EXCEPT ![j] = IF ToRelease(j) = {} THEN "done" ELSE "releasing"]
    /\ todo' = [todo EXCEPT ![j] = ToRelease(j)]
    /\ UNCHANGED <<zonesLocks, holder, waitingForLock, lockingQueue, have>>

ReleaseLock(j) ==
    /\ pc[j] = "releasing"
    /\ Unlock(j)
    /\ have' = [have EXCEPT ![j] = @ \ {First(j)}]
    /\ pc' = [pc EXCEPT ![j] = "released"]
    /\ UNCHANGED <<zonesLocks, waitingForLock, lockingQueue, todo>>

(* The end of the series.                                                  *)
AfterRelease(j) == IF todo[j] = {First(j)} THEN "done" ELSE "releasing"

(* releaseLock's callback: the flag, the next in the queue of the zone -   *)
(* now or after a timer - and the caller goes on.                          *)
(* Variants: nobody, the last of the queue.                                *)
NoQueue(m, z) == <<>>
LastFirst(m, z) == LET q == lockingQueue[m][z] IN [k \in 1..Len(q) |-> q[Len(q) + 1 - k]]
QueueOf(m, z) == lockingQueue[m][z]

ReleaseCallback(j) ==
    LET m == MgmtOf[j]
        z == First(j)
        q == QueueOf(m, z)
    IN
    /\ pc[j] = "released"
    /\ zonesLocks' = [zonesLocks EXCEPT ![m] = @ \cup {z}]
    /\ todo' = [todo EXCEPT ![j] = @ \ {z}]
    /\ \/ /\ q = <<>>
          /\ waitingForLock' = [waitingForLock EXCEPT ![m][z] = FALSE]
          /\ pc' = [pc EXCEPT ![j] = AfterRelease(j)]
          /\ UNCHANGED lockingQueue
       \/ \E soon \in BOOLEAN :
          /\ q # <<>>
          /\ lockingQueue' = [lockingQueue EXCEPT ![m][z] = Tail(q)]
          /\ waitingForLock' = [waitingForLock EXCEPT ![m][z] = soon]
          /\ pc' = [pc EXCEPT ![j] = AfterRelease(j),
                             ![Head(q)] = IF soon THEN "asking" ELSE "timer"]
    /\ UNCHANGED <<holder, have>>

-----------------------------------------------------------------------------
(* A job uses the lock of a zone from the time it asks for the document    *)
(* until the callback of its release.                                      *)
Uses(j, z) == \/ z \in have[j]
              \/ pc[j] \in {"asking", "released"} /\ z = First(j)

(* What a global job releases although it does not have it.                *)
GivesAway(j) == IF pc[j] = "releasing" /\ pc'[j] = "released" /\ Kind[j] = "global"
                THEN {First(j)} \ have[j] ELSE {}

Follow(j) == stray' = {z \in stray \cup GivesAway(j) : \E i \in Job : Uses(i, z)'}

Step(j) == \/ DeferredAcquire(j) \/ TakeLock(j) \/ Release(j)
           \/ ReleaseLock(j) \/ ReleaseCallback(j)

Next == \E j \in Job : (Start(j) \/ Step(j)) /\ Follow(j)
Spec == Init /\ [][Next]_vars

(* The database answers, timers fire, jobs end, acquireLock retries.       *)
Fairness == \A j \in Job : WF_vars(Step(j) /\ Follow(j))
FairSpec == Spec /\ Fairness

-----------------------------------------------------------------------------
TypeOK == /\ zonesLocks \in [Mgmt -> SUBSET Zone]
          /\ holder \in [Zone -> Mgmt \cup {NoMgmt}]
          /\ waitingForLock \in [Mgmt -> [Zone -> BOOLEAN]]
          /\ lockingQueue \in [Mgmt -> [Zone -> Seq(Job)]]
          /\ pc \in [Job -> PCs]
          /\ todo \in [Job -> SUBSET Zone]
          /\ have \in [Job -> SUBSET Zone]
          /\ stray \in SUBSET Zone
          /\ \A j \in Job : pc[j] \in {"queued", "timer", "asking", "releasing", "released"}
                                => todo[j] # {}

(* No zone is taken for locked by two jobs, of one management or of two:   *)
(* whatever it acquires or releases, a job never gives away a zone that    *)
(* another one works in - but for the one way in which the code does:      *)
(* releaseGlobalLock releases every zone that is known by then             *)
(* (lock.js:471), those too that became known, and locked, since           *)
(* acquireGlobalLock.  Such a zone is stray until all who use it are gone. *)
ZoneHasOneJob == \A i, j \in Job : i # j => have[i] \cap have[j] \subseteq stray

(* Each zone by itself: the lock of module ZoneTurns.                      *)
PlaceOf(j, z) ==
    IF z \in have[j] THEN "in"
    ELSE IF pc[j] \in {"queued", "timer", "asking", "released"} /\ z = First(j)
         THEN IF pc[j] = "released" THEN "leaving" ELSE pc[j]
         ELSE "out"

FlagsAt(z)  == [m \in Mgmt |-> waitingForLock[m][z]]
QueuesAt(z) == [m \in Mgmt |-> lockingQueue[m][z]]
PlacesAt(z) == [j \in Job |-> PlaceOf(j, z)]

Turns(z) == INSTANCE ZoneTurns WITH
    User    <- Job,
    holder  <- holder[z],
    overdue <- FALSE,
    waiting <- FlagsAt(z),
    queue   <- QueuesAt(z),
    place   <- PlacesAt(z)

(* What the jobs do to each zone that is not stray (see ZoneHasOneJob) is  *)
(* what the users of one lock may do, in its order: they release what they *)
(* have and nothing else, and go through the queue of each zone as if      *)
(* there were no other.                                                    *)
UsesLocks ==
    /\ \A z \in Zone : Turns(z)!Init
    /\ [][\A z \in Zone : \/ z \in stray \cup stray'
                         \/ Turns(z)!Next \/ UNCHANGED Turns(z)!vars]_vars

(* Jobs of which each waits for a zone that another of them has.           *)
WaitsFor(i, k) == pc[i] \in {"queued", "timer", "asking"} /\ First(i) \in have[k]
Stuck(jobs) == jobs # {} /\ \A i \in jobs : \E k \in jobs : WaitsFor(i, k)

(* "order zones to prevent dead-locks" (lock.js:363): as far as it goes.   *)
(* Jobs that sort their zones never wait for each other in a circle, nor   *)
(* do the global ones; a circle has jobs of both kinds, for the order of   *)
(* sort() and the one of Object.keys (lock.js:498) are two.                *)
CirclesAreMixed ==
    \A jobs \in SUBSET Job :
       IsFiniteSet(jobs) /\ Stuck(jobs) => \A kind \in Kinds : \E j \in jobs : Kind[j] = kind

(* Every job that asked for its zones gets them all, works, and ends, and  *)
(* nobody is forgotten in a queue, stray zones or not; unless it waits for *)
(* ever with others that wait for each other (see CirclesAreMixed).        *)
EveryJobEnds ==
    \A j \in Job : \/ pc[j] # "idle" ~> pc[j] = "done"
                   \/ <>[](\E jobs \in SUBSET Job : j \in jobs /\ Stuck(jobs))
=============================================================================
