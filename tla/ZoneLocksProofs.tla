-------------------------- MODULE ZoneLocksProofs --------------------------
(***************************************************************************)
(* Jobs that need several zones are well typed, keep out of each other's   *)
(* zones but for those that a global release gave away, and wait in a      *)
(* circle only if they are of both kinds: for any zones, orders of zones,  *)
(* managements and jobs.                                                   *)
(***************************************************************************)
EXTENDS ZoneLocks, WellFoundedInduction, TLAPS

(* Who is in the queue of a zone waits for it, and is there once.          *)
Waiting(m, z) == {j \in Job : pc[j] = "queued" /\ MgmtOf[j] = m /\ First(j) = z}

QueueIsRight(m, z) ==
    /\ \A k \in 1..Len(lockingQueue[m][z]) : lockingQueue[m][z][k] \in Waiting(m, z)
    /\ \A k, l \in 1..Len(lockingQueue[m][z]) :
          lockingQueue[m][z][k] = lockingQueue[m][z][l] => k = l

QueueInv == \A m \in Mgmt, z \in Zone : QueueIsRight(m, z)

TypeInv == TypeOK /\ QueueInv

-----------------------------------------------------------------------------
(* What a job has, and has still to do, for each place where it may be.    *)
(* What it has comes before what it still waits for.  A job over zones     *)
(* releases what it has; a global one may know more zones by then.         *)
Asking == {"queued", "timer", "asking"}

PlanOf(j) ==
    /\ todo[j] \subseteq ToRelease(j) /\ have[j] \subseteq ToRelease(j)
    /\ pc[j] \in {"idle", "section", "done"} => todo[j] = {}
    /\ pc[j] \in {"idle", "done"} => have[j] = {}
    /\ pc[j] \in Asking => \A y \in have[j], z \in todo[j] : OrderOf(j)[y] < OrderOf(j)[z]
    /\ pc[j] = "releasing" => have[j] \subseteq todo[j]
    /\ pc[j] = "released" => have[j] \subseteq todo[j] \ {First(j)}
    /\ Kind[j] = "zones" =>
          /\ pc[j] \in Asking => Wants[j] \subseteq have[j] \cup todo[j]
          /\ pc[j] = "section" => Wants[j] \subseteq have[j]
          /\ pc[j] = "releasing" => todo[j] \subseteq have[j]
          /\ pc[j] = "released" => todo[j] \ {First(j)} \subseteq have[j]

PlanInv == \A j \in Job : PlanOf(j)

(* The lock of a zone that is not stray.                                   *)
FlagAt(z) == \A j \in Job : Uses(j, z) => waitingForLock[MgmtOf[j]][z]

SerialAt(z) == \A i, j \in Job :
                  i # j /\ MgmtOf[i] = MgmtOf[j] => ~(Uses(i, z) /\ Uses(j, z))

HolderAt(z) == \A j \in Job : z \in have[j] => holder[z] = MgmtOf[j]

LockAt(z) == FlagAt(z) /\ SerialAt(z) /\ HolderAt(z)

LockInv == \A z \in Zone \ stray : LockAt(z)

IInv == TypeInv /\ PlanInv /\ LockInv

-----------------------------------------------------------------------------
LEMMA OrderType ==
    ASSUME NEW j \in Job
    PROVE  /\ OrderOf(j) \in [Zone -> Nat]
           /\ \A y, z \in Zone : OrderOf(j)[y] = OrderOf(j)[z] => y = z
BY OrderAssumption DEF OrderOf

(* The first zone in an order is one of the zones, and before the others.  *)
LEMMA FirstIn ==
    ASSUME NEW j \in Job, NEW zones \in SUBSET Zone, zones # {}
    PROVE  /\ FirstOf(j, zones) \in zones
           /\ \A y \in zones \ {FirstOf(j, zones)} :
                 OrderOf(j)[FirstOf(j, zones)] < OrderOf(j)[y]
<1> DEFINE order == OrderOf(j)
           places == {order[z] : z \in zones}
<1>1. /\ order \in [Zone -> Nat]
      /\ \A y, z \in Zone : order[y] = order[z] => y = z
  BY OrderType
<1>2. places \subseteq Nat /\ places # {}
  BY <1>1
<1> HIDE DEF places
<1>3. PICK least \in places : \A k \in places : <<k, least>> \notin OpToRel(<, Nat)
  BY <1>2, WFMin, NatLessThanWellFounded, Zenon
<1>4. \A k \in places : ~(k < least)
  BY <1>2, <1>3, Zenon DEF OpToRel
<1>5. \E z \in zones : \A y \in zones : order[z] <= order[y]
  <2>1. PICK z \in zones : order[z] = least
    BY DEF places
  <2>2. \A y \in zones : ~(order[y] < order[z])
    BY <1>4, <2>1 DEF places
  <2>3. \A y \in zones : order[y] \in Nat
    BY <1>1
  <2> HIDE DEF order
  <2>4. \A y \in zones : order[z] <= order[y]
    BY <2>2, <2>3
  <2> QED
    BY <2>4
<1>6. /\ FirstOf(j, zones) \in zones
      /\ \A y \in zones : order[FirstOf(j, zones)] <= order[y]
  BY <1>5 DEF FirstOf
<1>7. \A y \in zones : order[y] \in Nat
  BY <1>1
<1>8. \A y, z \in zones : order[y] = order[z] => y = z
  BY <1>1
<1> HIDE DEF order
<1>9. ASSUME NEW y \in zones \ {FirstOf(j, zones)}
      PROVE  order[FirstOf(j, zones)] < order[y]
  BY <1>6, <1>7, <1>8
<1> QED
  BY <1>6, <1>9 DEF order

LEMMA FirstIsToDo ==
    ASSUME TypeOK, NEW j \in Job, todo[j] # {}
    PROVE  First(j) \in todo[j] /\ First(j) \in Zone
BY FirstIn DEF First, TypeOK

(* The zone that a job is at follows from its zones, as long as it does    *)
(* not turn from acquiring to releasing.                                   *)
LEMMA FirstAfter ==
    ASSUME NEW j \in Job, NEW zones, todo'[j] = zones, Releases(j)' = Releases(j)
    PROVE  First(j)' = FirstOf(j, zones)
<1>1. OrderOf(j)' = OrderOf(j)
  BY DEF OrderOf
<1> QED
  BY <1>1 DEF First, FirstOf

LEMMA SameFirst ==
    ASSUME NEW j \in Job, todo'[j] = todo[j], Releases(j)' = Releases(j)
    PROVE  First(j)' = First(j)
<1>1. OrderOf(j)' = OrderOf(j)
  BY DEF OrderOf
<1> QED
  BY <1>1 DEF First, FirstOf

LEMMA OthersStay ==
    ASSUME NEW j \in Job, pc'[j] = pc[j], todo'[j] = todo[j]
    PROVE  First(j)' = First(j)
BY SameFirst DEF Releases

LEMMA SamePlan ==
    ASSUME NEW j \in Job, PlanOf(j), ToRelease(j) \subseteq ToRelease(j)',
           pc'[j] = pc[j], todo'[j] = todo[j], have'[j] = have[j]
    PROVE  PlanOf(j)'
<1>1. First(j)' = First(j) /\ OrderOf(j)' = OrderOf(j)
  BY OthersStay DEF OrderOf, Releases
<1> QED
  BY <1>1 DEF PlanOf, Asking

LEMMA ReleaseGrows ==
    ASSUME TypeOK, \A m \in Mgmt : zonesLocks[m] \subseteq zonesLocks'[m], NEW j \in Job
    PROVE  ToRelease(j) \subseteq ToRelease(j)'
BY JobAssumption DEF ToRelease

LEMMA ToReleaseType ==
    ASSUME TypeOK, NEW j \in Job
    PROVE  ToRelease(j) \in SUBSET Zone /\ ToAcquire(j) = ToRelease(j)
BY JobAssumption DEF ToRelease, ToAcquire, TypeOK

(* What becomes stray are zones.                                           *)
LEMMA FollowType ==
    ASSUME TypeOK, NEW j \in Job, Follow(j)
    PROVE  stray' \in SUBSET Zone
<1>1. GivesAway(j) \subseteq Zone
  <2>1. CASE pc[j] = "releasing"
    BY <2>1, FirstIsToDo DEF GivesAway, TypeOK
  <2>2. CASE pc[j] # "releasing"
    BY <2>2 DEF GivesAway
  <2> QED
    BY <2>1, <2>2
<1> QED
  BY <1>1 DEF Follow, TypeOK

LEMMA InitType == Init => TypeInv
<1> SUFFICES ASSUME Init
             PROVE  TypeInv
  OBVIOUS
<1> USE DEF Init
<1>1. TypeOK
  BY NoMgmtAssumption, KnownAssumption DEF TypeOK, PCs
<1>2. QueueInv
  BY DEF QueueInv, QueueIsRight
<1> QED
  BY <1>1, <1>2 DEF TypeInv

LEMMA InitInv == Init => IInv
<1> SUFFICES ASSUME Init
             PROVE  IInv
  OBVIOUS
<1> USE DEF Init
<1>1. TypeInv
  BY InitType
<1>2. PlanInv
  BY DEF PlanInv, PlanOf, Asking
<1>3. LockInv
  BY DEF LockInv, LockAt, FlagAt, SerialAt, HolderAt, Uses
<1> QED
  BY <1>1, <1>2, <1>3 DEF IInv

-----------------------------------------------------------------------------
(* What a request for a zone does to flags and queues.                     *)
LEMMA AskForType ==
    ASSUME TypeOK, NEW j \in Job, NEW z \in Zone, AskFor(j, z)
    PROVE  /\ zonesLocks' \in [Mgmt -> SUBSET Zone]
           /\ waitingForLock' \in [Mgmt -> [Zone -> BOOLEAN]]
           /\ lockingQueue' \in [Mgmt -> [Zone -> Seq(Job)]]
           /\ pc' \in [Job -> PCs]
           /\ pc'[j] \in {"queued", "asking"}
           /\ \A i \in Job \ {j} : pc'[i] = pc[i]
<1> USE DEF TypeOK, AskFor, PCs
<1> DEFINE m == MgmtOf[j]
<1>1. m \in Mgmt
  BY JobAssumption
<1>2. zonesLocks' \in [Mgmt -> SUBSET Zone]
  BY <1>1
<1>3. waitingForLock' \in [Mgmt -> [Zone -> BOOLEAN]]
  <2>1. CASE waitingForLock' = waitingForLock
    BY <2>1
  <2>2. CASE waitingForLock' = [waitingForLock EXCEPT ![m][z] = TRUE]
    BY <1>1, <2>2
  <2> QED
    BY <2>1, <2>2
<1>4. Append(lockingQueue[m][z], j) \in Seq(Job)
  BY <1>1
<1>5. lockingQueue' \in [Mgmt -> [Zone -> Seq(Job)]]
  <2>1. CASE lockingQueue' = lockingQueue
    BY <2>1
  <2>2. CASE lockingQueue' = [lockingQueue EXCEPT ![m][z] = Append(@, j)]
    BY <1>1, <1>4, <2>2
  <2> QED
    BY <2>1, <2>2
<1> QED
  BY <1>2, <1>3, <1>5

LEMMA AskForGrows ==
    ASSUME TypeOK, NEW j \in Job, NEW z \in Zone, AskFor(j, z)
    PROVE  \A m \in Mgmt : zonesLocks[m] \subseteq zonesLocks'[m]
BY JobAssumption DEF AskFor, TypeOK

(* Queues stay right when neither they change nor the jobs in them.        *)
LEMMA QueueKept ==
    ASSUME TypeOK, QueueInv, NEW j \in Job, pc[j] # "queued",
           lockingQueue' = lockingQueue,
           \A i \in Job \ {j} : pc'[i] = pc[i] /\ First(i)' = First(i)
    PROVE  QueueInv'
<1> SUFFICES ASSUME NEW m \in Mgmt, NEW z \in Zone
             PROVE  QueueIsRight(m, z)'
  BY DEF QueueInv
<1>1. lockingQueue[m][z] \in Seq(Job) /\ QueueIsRight(m, z)
  BY DEF TypeOK, QueueInv
<1>2. Waiting(m, z) \subseteq Waiting(m, z)'
  BY DEF Waiting
<1> QED
  BY <1>1, <1>2 DEF QueueIsRight

(* A job that asks for a zone waits in its queue, unless nobody has it.    *)
LEMMA AskForQueue ==
    ASSUME TypeOK, QueueInv,
           NEW j \in Job, NEW z \in Zone, AskFor(j, z), pc[j] # "queued",
           First(j)' = z, \A i \in Job \ {j} : First(i)' = First(i)
    PROVE  QueueInv'
<1> DEFINE m == MgmtOf[j]
           q == lockingQueue[m][z]
<1>1. m \in Mgmt /\ q \in Seq(Job)
  BY JobAssumption DEF TypeOK
<1>2. \A i \in Job \ {j} : pc'[i] = pc[i]
  BY AskForType
<1>3. CASE /\ pc'[j] = "queued"
           /\ lockingQueue' = [lockingQueue EXCEPT ![m][z] = Append(q, j)]
  <2>1. SUFFICES ASSUME NEW n \in Mgmt, NEW y \in Zone
                 PROVE  QueueIsRight(n, y)'
    BY DEF QueueInv
  <2>2. \A k \in 1..Len(lockingQueue[n][y]) :
           lockingQueue[n][y][k] # j /\ lockingQueue[n][y][k] \in Waiting(n, y)'
    <3>1. j \notin Waiting(n, y) /\ Waiting(n, y) \subseteq Waiting(n, y)'
      BY <1>2 DEF Waiting
    <3> QED
      BY <3>1 DEF QueueInv, QueueIsRight
  <2>3. \A k, l \in 1..Len(lockingQueue[n][y]) :
           lockingQueue[n][y][k] = lockingQueue[n][y][l] => k = l
    BY DEF QueueInv, QueueIsRight
  <2>4. CASE n = m /\ y = z
    <3>1. lockingQueue'[n][y] = Append(q, j)
      BY <1>1, <1>3, <2>4 DEF TypeOK
    <3>2. /\ Len(Append(q, j)) = Len(q) + 1
          /\ \A k \in 1..Len(q) : Append(q, j)[k] = q[k]
          /\ Append(q, j)[Len(q) + 1] = j
      BY <1>1
    <3>3. \A k \in 1..Len(Append(q, j)) : k \in 1..Len(q) \/ k = Len(q) + 1
      BY <1>1, <3>2
    <3>4. j \in Waiting(n, y)'
      BY <1>3, <2>4 DEF Waiting
    <3>5. \A k \in 1..Len(Append(q, j)) : Append(q, j)[k] \in Waiting(n, y)'
      BY <2>2, <2>4, <3>2, <3>3, <3>4
    <3>6. \A k, l \in 1..Len(Append(q, j)) : Append(q, j)[k] = Append(q, j)[l] => k = l
      <4> SUFFICES ASSUME NEW k \in 1..Len(Append(q, j)), NEW l \in 1..Len(Append(q, j)),
                          Append(q, j)[k] = Append(q, j)[l]
                   PROVE  k = l
        OBVIOUS
      <4>1. \A i \in 1..Len(q) : Append(q, j)[i] # j
        BY <2>2, <2>4, <3>2
      <4>2. CASE k \in 1..Len(q) /\ l \in 1..Len(q)
        BY <2>3, <2>4, <3>2, <4>2
      <4>3. CASE k = Len(q) + 1 \/ l = Len(q) + 1
        BY <3>2, <3>3, <4>1, <4>3
      <4> QED
        BY <3>3, <4>2, <4>3
    <3> QED
      BY <3>1, <3>5, <3>6 DEF QueueIsRight
  <2>5. CASE ~(n = m /\ y = z)
    <3>1. lockingQueue'[n][y] = lockingQueue[n][y]
      BY <1>1, <1>3, <2>5 DEF TypeOK
    <3> QED
      BY <2>2, <2>3, <3>1 DEF QueueIsRight
  <2> QED
    BY <2>4, <2>5
<1>4. CASE lockingQueue' = lockingQueue
  BY <1>2, <1>4, QueueKept
<1> QED
  BY <1>3, <1>4 DEF AskFor, TypeOK

-----------------------------------------------------------------------------
(* Types: one lemma per action.                                            *)
LEMMA AcquireType ==
    ASSUME TypeInv, NEW j \in Job, NEW zones \in SUBSET Zone, Acquire(j, zones),
           pc[j] \in {"idle", "asking"}
    PROVE  /\ zonesLocks' \in [Mgmt -> SUBSET Zone]
           /\ waitingForLock' \in [Mgmt -> [Zone -> BOOLEAN]]
           /\ lockingQueue' \in [Mgmt -> [Zone -> Seq(Job)]]
           /\ pc' \in [Job -> PCs]
           /\ todo' \in [Job -> SUBSET Zone]
           /\ todo'[j] = zones /\ \A i \in Job \ {j} : pc'[i] = pc[i] /\ todo'[i] = todo[i]
           /\ pc'[j] \in Asking <=> zones # {}
           /\ pc'[j] = "section" <=> zones = {}
           /\ pc'[j] \in {"queued", "asking", "section"}
           /\ \A m \in Mgmt : zonesLocks[m] \subseteq zonesLocks'[m]
           /\ zones # {} => AskFor(j, FirstOf(j, zones)) /\ FirstOf(j, zones) \in zones
           /\ zones # {} => First(j)' = FirstOf(j, zones)
           /\ QueueInv'
<1>1. TypeOK /\ QueueInv
  BY DEF TypeInv
<1>2. /\ todo' = [todo EXCEPT ![j] = zones]
      /\ \/ zones # {} /\ AskFor(j, FirstOf(j, zones))
         \/ /\ zones = {} /\ pc' = [pc EXCEPT ![j] = "section"]
            /\ UNCHANGED <<zonesLocks, waitingForLock, lockingQueue>>
  BY DEF Acquire
<1>3. todo' \in [Job -> SUBSET Zone]
  BY <1>1, <1>2 DEF TypeOK
<1>4. todo'[j] = zones /\ \A i \in Job \ {j} : todo'[i] = todo[i]
  BY <1>1, <1>2 DEF TypeOK
<1>5. CASE zones # {} /\ AskFor(j, FirstOf(j, zones))
  <2>1. PICK z \in zones : z = FirstOf(j, zones)
    BY <1>5, FirstIn
  <2>2. z \in Zone /\ AskFor(j, z)
    BY <1>5, <2>1
  <2>3. /\ pc' \in [Job -> PCs] /\ pc'[j] \in {"queued", "asking"}
        /\ \A i \in Job \ {j} : pc'[i] = pc[i]
    BY <1>1, <2>2, AskForType
  <2>4. First(j)' = z
    BY <1>4, <2>1, <2>3, FirstAfter DEF Releases
  <2>5. \A i \in Job \ {j} : First(i)' = First(i)
    BY <1>4, <2>3, OthersStay
  <2>6. QueueInv'
    BY <1>1, <2>2, <2>4, <2>5, AskForQueue
  <2>7. \A m \in Mgmt : zonesLocks[m] \subseteq zonesLocks'[m]
    BY <1>1, <2>2, AskForGrows
  <2>8. /\ zonesLocks' \in [Mgmt -> SUBSET Zone]
        /\ waitingForLock' \in [Mgmt -> [Zone -> BOOLEAN]]
        /\ lockingQueue' \in [Mgmt -> [Zone -> Seq(Job)]]
    BY <1>1, <2>2, AskForType
  <2> QED
    BY <1>3, <1>4, <1>5, <2>1, <2>2, <2>3, <2>4, <2>6, <2>7, <2>8 DEF Asking
<1>6. CASE /\ zones = {} /\ pc' = [pc EXCEPT ![j] = "section"]
           /\ UNCHANGED <<zonesLocks, waitingForLock, lockingQueue>>
  <2>1. /\ pc' \in [Job -> PCs] /\ pc'[j] = "section"
        /\ \A i \in Job \ {j} : pc'[i] = pc[i]
    BY <1>1, <1>6 DEF TypeOK, PCs
  <2>2. \A i \in Job \ {j} : First(i)' = First(i)
    BY <1>4, <2>1, OthersStay
  <2>3. QueueInv'
    BY <1>1, <1>6, <2>1, <2>2, QueueKept
  <2> QED
    BY <1>1, <1>3, <1>4, <1>6, <2>1, <2>3 DEF TypeOK, Asking
<1> QED
  BY <1>2, <1>5, <1>6

LEMMA StartType ==
    ASSUME TypeInv, NEW j \in Job, Start(j), Follow(j)
    PROVE  TypeInv'
<1>1. TypeOK /\ QueueInv
  BY DEF TypeInv
<1>2. PICK zones \in SUBSET Zone : zones = ToAcquire(j)
  BY <1>1, ToReleaseType
<1>3. pc[j] = "idle" /\ Acquire(j, zones) /\ UNCHANGED <<holder, have>>
  BY <1>2 DEF Start
<1>4. /\ zonesLocks' \in [Mgmt -> SUBSET Zone]
      /\ waitingForLock' \in [Mgmt -> [Zone -> BOOLEAN]]
      /\ lockingQueue' \in [Mgmt -> [Zone -> Seq(Job)]]
      /\ pc' \in [Job -> PCs] /\ todo' \in [Job -> SUBSET Zone]
      /\ todo'[j] = zones /\ \A i \in Job \ {j} : pc'[i] = pc[i] /\ todo'[i] = todo[i]
      /\ pc'[j] = "section" <=> zones = {}
      /\ pc'[j] \in {"queued", "asking", "section"}
      /\ QueueInv'
  BY <1>3, AcquireType
<1>5. stray' \in SUBSET Zone
  BY <1>1, FollowType
<1>6. TypeOK'
  BY <1>1, <1>3, <1>4, <1>5 DEF TypeOK
<1> QED
  BY <1>4, <1>6 DEF TypeInv

LEMMA DeferredAcquireType ==
    ASSUME TypeInv, NEW j \in Job, DeferredAcquire(j), Follow(j)
    PROVE  TypeInv'
<1>1. TypeOK /\ QueueInv
  BY DEF TypeInv
<1>2. PICK z \in Zone : z = First(j)
  BY <1>1, FirstIsToDo DEF TypeOK, DeferredAcquire
<1>3. pc[j] = "timer" /\ AskFor(j, z) /\ UNCHANGED <<holder, todo, have>>
  BY <1>2 DEF DeferredAcquire
<1>4. /\ pc' \in [Job -> PCs] /\ pc'[j] \in {"queued", "asking"}
      /\ \A i \in Job \ {j} : pc'[i] = pc[i]
  BY <1>1, <1>3, AskForType
<1>5. \A i \in Job \ {j} : First(i)' = First(i)
  BY <1>3, <1>4, OthersStay
<1>6. First(j)' = z
  BY <1>2, <1>3, <1>4, SameFirst DEF Releases
<1>7. QueueInv'
  BY <1>1, <1>3, <1>5, <1>6, AskForQueue
<1>8. stray' \in SUBSET Zone
  BY <1>1, FollowType
<1>9. TypeOK'
  BY <1>1, <1>3, <1>4, <1>8, AskForType DEF TypeOK
<1> QED
  BY <1>7, <1>9 DEF TypeInv

LEMMA TakeLockType ==
    ASSUME TypeInv, NEW j \in Job, TakeLock(j), Follow(j)
    PROVE  TypeInv'
<1>1. TypeOK /\ QueueInv
  BY DEF TypeInv
<1>2. PICK z \in Zone : z = First(j)
  BY <1>1, FirstIsToDo DEF TypeOK, TakeLock
<1>3. PICK rest \in SUBSET Zone : rest = todo[j] \ {z}
  BY <1>1 DEF TypeOK
<1>4. /\ pc[j] = "asking"
      /\ holder' = [holder EXCEPT ![z] = MgmtOf[j]]
      /\ have' = [have EXCEPT ![j] = @ \cup {z}]
      /\ Acquire(j, rest)
  BY <1>2, <1>3 DEF TakeLock
<1>5. holder' \in [Zone -> Mgmt \cup {NoMgmt}] /\ have' \in [Job -> SUBSET Zone]
  BY <1>1, <1>4, JobAssumption DEF TypeOK
<1>6. /\ zonesLocks' \in [Mgmt -> SUBSET Zone]
      /\ waitingForLock' \in [Mgmt -> [Zone -> BOOLEAN]]
      /\ lockingQueue' \in [Mgmt -> [Zone -> Seq(Job)]]
      /\ pc' \in [Job -> PCs] /\ todo' \in [Job -> SUBSET Zone]
      /\ todo'[j] = rest /\ \A i \in Job \ {j} : pc'[i] = pc[i] /\ todo'[i] = todo[i]
      /\ pc'[j] = "section" <=> rest = {}
      /\ pc'[j] \in {"queued", "asking", "section"}
      /\ QueueInv'
  BY <1>4, AcquireType
<1>7. stray' \in SUBSET Zone
  BY <1>1, FollowType
<1>8. TypeOK'
  BY <1>1, <1>5, <1>6, <1>7 DEF TypeOK
<1> QED
  BY <1>6, <1>8 DEF TypeInv

LEMMA ReleaseType ==
    ASSUME TypeInv, NEW j \in Job, Release(j), Follow(j)
    PROVE  TypeInv'
<1>1. TypeOK /\ QueueInv
  BY DEF TypeInv
<1>2. /\ pc[j] = "section"
      /\ pc' = [pc EXCEPT ![j] = IF ToRelease(j) = {} THEN "done" ELSE "releasing"]
      /\ todo' = [todo EXCEPT ![j] = ToRelease(j)]
      /\ UNCHANGED <<zonesLocks, holder, waitingForLock, lockingQueue, have>>
  BY DEF Release
<1>3. ToRelease(j) \in SUBSET Zone
  BY <1>1, ToReleaseType
<1>4. /\ todo'[j] = ToRelease(j)
      /\ pc'[j] = IF ToRelease(j) = {} THEN "done" ELSE "releasing"
      /\ \A i \in Job \ {j} : pc'[i] = pc[i] /\ todo'[i] = todo[i]
  BY <1>1, <1>2 DEF TypeOK
<1>5. \A i \in Job \ {j} : First(i)' = First(i)
  BY <1>4, OthersStay
<1>6. stray' \in SUBSET Zone
  BY <1>1, FollowType
<1>7. TypeOK'
  BY <1>1, <1>2, <1>3, <1>4, <1>6 DEF TypeOK, PCs
<1>8. QueueInv'
  BY <1>1, <1>2, <1>4, <1>5, QueueKept
<1> QED
  BY <1>7, <1>8 DEF TypeInv

LEMMA ReleaseLockType ==
    ASSUME TypeInv, NEW j \in Job, ReleaseLock(j), Follow(j)
    PROVE  TypeInv'
<1>1. TypeOK /\ QueueInv
  BY DEF TypeInv
<1>2. PICK z \in Zone : z = First(j)
  BY <1>1, FirstIsToDo DEF TypeOK, ReleaseLock
<1>3. /\ pc[j] = "releasing" /\ pc' = [pc EXCEPT ![j] = "released"]
      /\ holder' = [holder EXCEPT ![z] = IF @ = MgmtOf[j] THEN NoMgmt ELSE @]
      /\ have' = [have EXCEPT ![j] = @ \ {z}]
      /\ UNCHANGED <<zonesLocks, waitingForLock, lockingQueue, todo>>
  BY <1>2 DEF ReleaseLock, Unlock
<1>4. pc'[j] = "released" /\ \A i \in Job \ {j} : pc'[i] = pc[i]
  BY <1>1, <1>3 DEF TypeOK
<1>5. \A i \in Job \ {j} : First(i)' = First(i)
  BY <1>3, <1>4, OthersStay
<1>6. stray' \in SUBSET Zone
  BY <1>1, FollowType
<1>7. TypeOK'
  <2>1. holder' \in [Zone -> Mgmt \cup {NoMgmt}] /\ have' \in [Job -> SUBSET Zone]
    BY <1>1, <1>3 DEF TypeOK
  <2> QED
    BY <1>1, <1>3, <1>4, <1>6, <2>1 DEF TypeOK, PCs
<1>8. QueueInv'
  BY <1>1, <1>3, <1>4, <1>5, QueueKept
<1> QED
  BY <1>7, <1>8 DEF TypeInv

(* The callback of a release: the next job of the queue, if there is one,  *)
(* has its zones, and is in no queue any more.                             *)
LEMMA ReleaseCallbackType ==
    ASSUME TypeInv, NEW j \in Job, ReleaseCallback(j), Follow(j)
    PROVE  TypeInv'
<1> DEFINE m == MgmtOf[j]
           z == First(j)
           q == lockingQueue[m][z]
           end == AfterRelease(j)
<1>1. TypeOK /\ QueueInv
  BY DEF TypeInv
<1>2. /\ pc[j] = "released"
      /\ zonesLocks' = [zonesLocks EXCEPT ![m] = @ \cup {z}]
      /\ todo' = [todo EXCEPT ![j] = @ \ {z}]
      /\ UNCHANGED <<holder, have>>
      /\ \/ /\ q = <<>>
            /\ waitingForLock' = [waitingForLock EXCEPT ![m][z] = FALSE]
            /\ pc' = [pc EXCEPT ![j] = end]
            /\ lockingQueue' = lockingQueue
         \/ \E soon \in BOOLEAN :
            /\ q # <<>>
            /\ lockingQueue' = [lockingQueue EXCEPT ![m][z] = Tail(q)]
            /\ waitingForLock' = [waitingForLock EXCEPT ![m][z] = soon]
            /\ pc' = [pc EXCEPT ![j] = end,
                               ![Head(q)] = IF soon THEN "asking" ELSE "timer"]
  BY DEF ReleaseCallback, QueueOf
<1>3. m \in Mgmt /\ z \in todo[j] /\ z \in Zone /\ q \in Seq(Job)
  <2>1. m \in Mgmt /\ todo[j] # {} /\ todo[j] \in SUBSET Zone
    BY <1>1, <1>2, JobAssumption DEF TypeOK
  <2>2. z \in todo[j] /\ z \in Zone
    BY <1>1, <2>1, FirstIsToDo
  <2> QED
    BY <1>1, <2>1, <2>2 DEF TypeOK
<1>4. todo'[j] = todo[j] \ {z} /\ \A i \in Job \ {j} : todo'[i] = todo[i]
  BY <1>1, <1>2 DEF TypeOK
<1>5. /\ end \in {"done", "releasing"}
      /\ end = "done" <=> todo[j] \ {z} = {}
  BY <1>3 DEF AfterRelease
<1> HIDE DEF z, end
<1>6. zonesLocks' \in [Mgmt -> SUBSET Zone] /\ todo' \in [Job -> SUBSET Zone]
  BY <1>1, <1>2, <1>3 DEF TypeOK
<1>7. stray' \in SUBSET Zone
  BY <1>1, FollowType
<1>8. CASE /\ q = <<>>
           /\ waitingForLock' = [waitingForLock EXCEPT ![m][z] = FALSE]
           /\ pc' = [pc EXCEPT ![j] = end]
           /\ lockingQueue' = lockingQueue
  <2>1. pc'[j] = end /\ \A i \in Job \ {j} : pc'[i] = pc[i]
    BY <1>1, <1>8 DEF TypeOK
  <2>2. \A i \in Job \ {j} : First(i)' = First(i)
    BY <1>4, <2>1, OthersStay
  <2>3. QueueInv'
    BY <1>1, <1>2, <1>8, <2>1, <2>2, QueueKept
  <2>4. waitingForLock' \in [Mgmt -> [Zone -> BOOLEAN]]
    BY <1>1, <1>3, <1>8 DEF TypeOK
  <2>5. pc' \in [Job -> PCs]
    BY <1>1, <1>5, <1>8 DEF TypeOK, PCs
  <2>6. ASSUME NEW i \in Job,
               pc'[i] \in {"queued", "timer", "asking", "releasing", "released"}
        PROVE  todo'[i] # {}
    BY <1>1, <1>4, <1>5, <2>1, <2>6 DEF TypeOK
  <2>7. TypeOK'
    BY <1>1, <1>2, <1>6, <1>7, <1>8, <2>4, <2>5, <2>6 DEF TypeOK
  <2> QED
    BY <2>3, <2>7 DEF TypeInv
<1>9. ASSUME NEW soon \in BOOLEAN, q # <<>>,
              lockingQueue' = [lockingQueue EXCEPT ![m][z] = Tail(q)],
              waitingForLock' = [waitingForLock EXCEPT ![m][z] = soon],
              pc' = [pc EXCEPT ![j] = end,
                               ![Head(q)] = IF soon THEN "asking" ELSE "timer"]
       PROVE  TypeInv'
  <2>1. PICK h \in Job :
        /\ h = Head(q) /\ h = q[1] /\ Tail(q) \in Seq(Job)
        /\ Len(Tail(q)) = Len(q) - 1
        /\ \A k \in 1..Len(Tail(q)) : Tail(q)[k] = q[k + 1] /\ k + 1 \in 1..Len(q)
        /\ 1 \in 1..Len(q)
    BY <1>3, <1>9
  <2>2. QueueIsRight(m, z)
    BY <1>1, <1>3 DEF QueueInv
  <2>3. pc[h] = "queued" /\ MgmtOf[h] = m /\ First(h) = z
    BY <2>1, <2>2 DEF QueueIsRight, Waiting
  <2>4. h # j
    BY <1>2, <2>3
  <2>5. /\ pc'[j] = end /\ pc'[h] = (IF soon THEN "asking" ELSE "timer")
        /\ \A i \in Job \ {h, j} : pc'[i] = pc[i]
    BY <1>1, <1>9, <2>1, <2>4 DEF TypeOK
  <2>6. QueueInv'
    <3> SUFFICES ASSUME NEW n \in Mgmt, NEW y \in Zone
                 PROVE  QueueIsRight(n, y)'
      BY DEF QueueInv
    <3>1. QueueIsRight(n, y) /\ lockingQueue[n][y] \in Seq(Job)
      BY <1>1 DEF QueueInv, TypeOK
    <3>2. Waiting(n, y) \ {h} \subseteq Waiting(n, y)'
      <4>1. \A i \in Job \ {h, j} : First(i)' = First(i)
        BY <1>4, <2>5, OthersStay
      <4> QED
        BY <1>2, <2>5, <4>1 DEF Waiting
    <3>3. CASE n = m /\ y = z
      <4>1. lockingQueue'[n][y] = Tail(q)
        BY <1>1, <1>3, <1>9, <3>3 DEF TypeOK
      <4>2. \A k \in 1..Len(Tail(q)) : Tail(q)[k] \in Waiting(n, y) \ {h}
        BY <1>3, <2>1, <2>2, <3>3 DEF QueueIsRight
      <4>3. ASSUME NEW k \in 1..Len(Tail(q)), NEW l \in 1..Len(Tail(q)),
                   Tail(q)[k] = Tail(q)[l]
            PROVE  k = l
        <5>1. q[k + 1] = q[l + 1] /\ k + 1 \in 1..Len(q) /\ l + 1 \in 1..Len(q)
          BY <2>1, <4>3
        <5>2. k + 1 = l + 1
          BY <2>2, <5>1 DEF QueueIsRight
        <5> QED
          BY <5>2
      <4>4. \A k \in 1..Len(Tail(q)) : Tail(q)[k] \in Waiting(n, y)'
        BY <3>2, <4>2
      <4> QED
        BY <4>1, <4>3, <4>4 DEF QueueIsRight
    <3>4. CASE ~(n = m /\ y = z)
      <4>1. lockingQueue'[n][y] = lockingQueue[n][y]
        BY <1>1, <1>3, <1>9, <3>4 DEF TypeOK
      <4>2. h \notin Waiting(n, y)
        BY <2>3, <3>4 DEF Waiting
      <4> QED
        BY <3>1, <3>2, <4>1, <4>2 DEF QueueIsRight
    <3> QED
      BY <3>3, <3>4
  <2>7. TypeOK'
    <3>1. waitingForLock' \in [Mgmt -> [Zone -> BOOLEAN]]
      BY <1>1, <1>3, <1>9 DEF TypeOK
    <3>2. lockingQueue' \in [Mgmt -> [Zone -> Seq(Job)]]
      BY <1>1, <1>3, <1>9, <2>1 DEF TypeOK
    <3>3. pc' \in [Job -> PCs]
      BY <1>1, <1>5, <1>9, <2>1 DEF TypeOK, PCs
    <3>4. ASSUME NEW i \in Job,
                 pc'[i] \in {"queued", "timer", "asking", "releasing", "released"}
          PROVE  todo'[i] # {}
      BY <1>1, <1>4, <1>5, <2>1, <2>3, <2>4, <2>5, <3>4 DEF TypeOK
    <3> QED
      BY <1>1, <1>2, <1>6, <1>7, <3>1, <3>2, <3>3, <3>4 DEF TypeOK
  <2> QED
    BY <2>6, <2>7 DEF TypeInv
<1> QED
  BY <1>2, <1>8, <1>9

-----------------------------------------------------------------------------
(* What each job has and has to do: one lemma per action.                  *)
LEMMA OthersPlan ==
    ASSUME TypeOK, PlanInv, NEW j \in Job, PlanOf(j)',
           \A m \in Mgmt : zonesLocks[m] \subseteq zonesLocks'[m],
           \A i \in Job \ {j} : pc'[i] = pc[i] /\ todo'[i] = todo[i] /\ have'[i] = have[i]
    PROVE  PlanInv'
<1>1. ASSUME NEW i \in Job \ {j}
      PROVE  PlanOf(i)'
  <2>1. PlanOf(i) /\ ToRelease(i) \subseteq ToRelease(i)'
    BY ReleaseGrows DEF PlanInv
  <2> QED
    BY <2>1, SamePlan
<1> QED
  BY <1>1 DEF PlanInv

LEMMA AcquirePlan ==
    ASSUME TypeInv, PlanInv, NEW j \in Job, NEW zones \in SUBSET Zone, Acquire(j, zones),
           pc[j] \in {"idle", "asking"},
           have'[j] \cup zones \subseteq ToRelease(j),
           \A y \in have'[j], z \in zones : OrderOf(j)[y] < OrderOf(j)[z],
           Kind[j] = "zones" => Wants[j] \subseteq have'[j] \cup zones,
           \A i \in Job \ {j} : have'[i] = have[i]
    PROVE  PlanInv'
<1>1. /\ todo'[j] = zones /\ \A i \in Job \ {j} : pc'[i] = pc[i] /\ todo'[i] = todo[i]
      /\ pc'[j] \in Asking <=> zones # {}
      /\ pc'[j] = "section" <=> zones = {}
      /\ pc'[j] \in {"queued", "asking", "section"}
      /\ \A m \in Mgmt : zonesLocks[m] \subseteq zonesLocks'[m]
  BY AcquireType
<1>2. TypeOK
  BY DEF TypeInv
<1>3. ToRelease(j) \subseteq ToRelease(j)'
  BY <1>1, <1>2, ReleaseGrows
<1>4. OrderOf(j)' = OrderOf(j)
  BY <1>1 DEF OrderOf, Releases
<1>5. PlanOf(j)'
  BY <1>1, <1>3, <1>4 DEF PlanOf, Asking
<1> QED
  BY <1>1, <1>2, <1>5, OthersPlan

LEMMA StartPlan ==
    ASSUME TypeInv, PlanInv, NEW j \in Job, Start(j)
    PROVE  PlanInv'
<1>1. TypeOK /\ PlanOf(j)
  BY DEF TypeInv, PlanInv
<1>2. PICK zones \in SUBSET Zone : zones = ToAcquire(j) /\ zones = ToRelease(j)
  BY <1>1, ToReleaseType
<1>3. pc[j] = "idle" /\ Acquire(j, zones) /\ have' = have
  BY <1>2 DEF Start
<1>4. have'[j] = {}
  BY <1>1, <1>3 DEF PlanOf
<1>5. Kind[j] = "zones" => Wants[j] = zones
  BY <1>2 DEF ToRelease
<1> QED
  BY <1>2, <1>3, <1>4, <1>5, AcquirePlan

LEMMA DeferredAcquirePlan ==
    ASSUME TypeInv, PlanInv, NEW j \in Job, DeferredAcquire(j)
    PROVE  PlanInv'
<1>1. TypeOK /\ PlanOf(j)
  BY DEF TypeInv, PlanInv
<1>2. PICK z \in Zone : z = First(j)
  BY <1>1, FirstIsToDo DEF TypeOK, DeferredAcquire
<1>3. pc[j] = "timer" /\ AskFor(j, z) /\ UNCHANGED <<todo, have>>
  BY <1>2 DEF DeferredAcquire
<1>4. /\ pc'[j] \in {"queued", "asking"} /\ \A i \in Job \ {j} : pc'[i] = pc[i]
      /\ \A m \in Mgmt : zonesLocks[m] \subseteq zonesLocks'[m]
  BY <1>1, <1>3, AskForType, AskForGrows
<1>5. ToRelease(j) \subseteq ToRelease(j)' /\ OrderOf(j)' = OrderOf(j)
  BY <1>1, <1>3, <1>4, ReleaseGrows DEF OrderOf, Releases
<1>6. PlanOf(j)'
  BY <1>1, <1>3, <1>4, <1>5 DEF PlanOf, Asking
<1> QED
  BY <1>1, <1>3, <1>4, <1>6, OthersPlan

LEMMA TakeLockPlan ==
    ASSUME TypeInv, PlanInv, NEW j \in Job, TakeLock(j)
    PROVE  PlanInv'
<1>1. TypeOK /\ PlanOf(j)
  BY DEF TypeInv, PlanInv
<1>2. PICK z \in todo[j] : z = First(j) /\ z \in Zone
  BY <1>1, FirstIsToDo DEF TypeOK, TakeLock
<1>3. PICK rest \in SUBSET Zone : rest = todo[j] \ {z}
  BY <1>1 DEF TypeOK
<1>4. /\ pc[j] = "asking"
      /\ have' = [have EXCEPT ![j] = @ \cup {z}]
      /\ Acquire(j, rest)
  BY <1>2, <1>3 DEF TakeLock
<1>5. have'[j] = have[j] \cup {z} /\ \A i \in Job \ {j} : have'[i] = have[i]
  BY <1>1, <1>4 DEF TypeOK
<1>6. have'[j] \cup rest \subseteq ToRelease(j)
  BY <1>1, <1>3, <1>5 DEF PlanOf
<1>7. \A y \in have'[j], x \in rest : OrderOf(j)[y] < OrderOf(j)[x]
  <2>1. \A x \in todo[j] \ {z} : OrderOf(j)[z] < OrderOf(j)[x]
    BY <1>1, <1>2, FirstIn DEF First, TypeOK
  <2>2. \A y \in have[j], x \in todo[j] : OrderOf(j)[y] < OrderOf(j)[x]
    BY <1>1, <1>4 DEF PlanOf, Asking
  <2> QED
    BY <1>3, <1>5, <2>1, <2>2
<1>8. Kind[j] = "zones" => Wants[j] \subseteq have'[j] \cup rest
  BY <1>1, <1>3, <1>4, <1>5 DEF PlanOf, Asking
<1> QED
  BY <1>4, <1>5, <1>6, <1>7, <1>8, AcquirePlan

LEMMA ReleasePlan ==
    ASSUME TypeInv, PlanInv, NEW j \in Job, Release(j)
    PROVE  PlanInv'
<1>1. TypeOK /\ PlanOf(j)
  BY DEF TypeInv, PlanInv
<1>2. /\ pc[j] = "section" /\ UNCHANGED <<zonesLocks, have>>
      /\ pc' = [pc EXCEPT ![j] = IF ToRelease(j) = {} THEN "done" ELSE "releasing"]
      /\ todo' = [todo EXCEPT ![j] = ToRelease(j)]
  BY DEF Release
<1>3. /\ todo'[j] = ToRelease(j)
      /\ pc'[j] = IF ToRelease(j) = {} THEN "done" ELSE "releasing"
      /\ \A i \in Job \ {j} : pc'[i] = pc[i] /\ todo'[i] = todo[i]
  BY <1>1, <1>2 DEF TypeOK
<1>4. ToRelease(j)' = ToRelease(j)
  BY <1>2 DEF ToRelease
<1>5. Kind[j] = "zones" => ToRelease(j) = Wants[j]
  BY DEF ToRelease
<1>6. PlanOf(j)'
  <2>1. have'[j] = have[j] /\ have[j] \subseteq ToRelease(j)
    BY <1>1, <1>2 DEF PlanOf
  <2>2. Kind[j] = "zones" => ToRelease(j) \subseteq have[j]
    BY <1>1, <1>2, <1>5 DEF PlanOf
  <2> QED
    BY <1>3, <1>4, <2>1, <2>2 DEF PlanOf, Asking
<1> QED
  BY <1>1, <1>2, <1>3, <1>6, OthersPlan

LEMMA ReleaseLockPlan ==
    ASSUME TypeInv, PlanInv, NEW j \in Job, ReleaseLock(j)
    PROVE  PlanInv'
<1>1. TypeOK /\ PlanOf(j)
  BY DEF TypeInv, PlanInv
<1>2. PICK z \in todo[j] : z = First(j) /\ z \in Zone
  BY <1>1, FirstIsToDo DEF TypeOK, ReleaseLock
<1>3. /\ pc[j] = "releasing" /\ pc' = [pc EXCEPT ![j] = "released"]
      /\ have' = [have EXCEPT ![j] = @ \ {z}]
      /\ UNCHANGED <<zonesLocks, todo>>
  BY <1>2 DEF ReleaseLock
<1>4. /\ pc'[j] = "released" /\ have'[j] = have[j] \ {z}
      /\ \A i \in Job \ {j} : pc'[i] = pc[i] /\ have'[i] = have[i]
  BY <1>1, <1>3 DEF TypeOK
<1>5. First(j)' = z
  BY <1>2, <1>3, <1>4, SameFirst DEF Releases
<1>6. ToRelease(j)' = ToRelease(j) /\ todo'[j] = todo[j]
  BY <1>3 DEF ToRelease
<1>7. PlanOf(j)'
  BY <1>1, <1>3, <1>4, <1>5, <1>6 DEF PlanOf, Asking
<1> QED
  BY <1>1, <1>3, <1>4, <1>7, OthersPlan

(* The callback of a release: what it does to the zone z of the job and to *)
(* the next of its queue.                                                  *)
CallbackAt(j, z) ==
    LET m == MgmtOf[j] IN
    /\ z = First(j) /\ z \in todo[j] /\ pc[j] = "released"
    /\ todo'[j] = todo[j] \ {z} /\ UNCHANGED <<holder, have>>
    /\ \A i \in Job \ {j} : todo'[i] = todo[i]
    /\ pc'[j] \in {"done", "releasing"} /\ (pc'[j] = "done" <=> todo'[j] = {})
    /\ \A n \in Mgmt : zonesLocks[n] \subseteq zonesLocks'[n]
    /\ \A n \in Mgmt, y \in Zone :
          ~(n = m /\ y = z) => waitingForLock'[n][y] = waitingForLock[n][y]
    /\ \/ \A i \in Job \ {j} : pc'[i] = pc[i]
       \/ \E h \in Job \ {j} :
          /\ pc[h] = "queued" /\ MgmtOf[h] = m /\ First(h) = z /\ First(h)' = z
          /\ pc'[h] \in {"asking", "timer"} /\ (pc'[h] = "asking" => waitingForLock'[m][z])
          /\ \A i \in Job \ {h, j} : pc'[i] = pc[i]

LEMMA CallbackDoes ==
    ASSUME TypeInv, NEW j \in Job, ReleaseCallback(j)
    PROVE  \E z \in Zone : CallbackAt(j, z)
<1> DEFINE m == MgmtOf[j]
<1>1. TypeOK /\ QueueInv
  BY DEF TypeInv
<1>2. PICK z \in todo[j] : z = First(j) /\ z \in Zone
  BY <1>1, FirstIsToDo DEF TypeOK, ReleaseCallback
<1> DEFINE q == lockingQueue[m][z]
           end == AfterRelease(j)
<1>3. /\ pc[j] = "released"
      /\ zonesLocks' = [zonesLocks EXCEPT ![m] = @ \cup {z}]
      /\ todo' = [todo EXCEPT ![j] = @ \ {z}]
      /\ UNCHANGED <<holder, have>>
      /\ \/ /\ q = <<>>
            /\ waitingForLock' = [waitingForLock EXCEPT ![m][z] = FALSE]
            /\ pc' = [pc EXCEPT ![j] = end]
         \/ \E soon \in BOOLEAN :
            /\ q # <<>>
            /\ waitingForLock' = [waitingForLock EXCEPT ![m][z] = soon]
            /\ pc' = [pc EXCEPT ![j] = end,
                               ![Head(q)] = IF soon THEN "asking" ELSE "timer"]
  BY <1>2 DEF ReleaseCallback, QueueOf
<1>4. m \in Mgmt /\ q \in Seq(Job)
  <2>1. m \in Mgmt
    BY JobAssumption
  <2> QED
    BY <1>1, <1>2, <2>1 DEF TypeOK
<1>5. /\ todo'[j] = todo[j] \ {z} /\ \A i \in Job \ {j} : todo'[i] = todo[i]
      /\ \A n \in Mgmt : zonesLocks[n] \subseteq zonesLocks'[n]
  BY <1>1, <1>3, <1>4 DEF TypeOK
<1>6. end \in {"done", "releasing"} /\ (end = "done" <=> todo'[j] = {})
  BY <1>2, <1>5 DEF AfterRelease
<1>7. \A f : waitingForLock' = [waitingForLock EXCEPT ![m][z] = f]
             => /\ waitingForLock'[m][z] = f
                /\ \A n \in Mgmt, y \in Zone :
                      ~(n = m /\ y = z) => waitingForLock'[n][y] = waitingForLock[n][y]
  BY <1>1, <1>2, <1>4 DEF TypeOK
<1> HIDE DEF q, end
<1>8. CASE /\ waitingForLock' = [waitingForLock EXCEPT ![m][z] = FALSE]
           /\ pc' = [pc EXCEPT ![j] = end]
  <2>1. pc'[j] = end /\ \A i \in Job \ {j} : pc'[i] = pc[i]
    BY <1>1, <1>8 DEF TypeOK
  <2> QED
    BY <1>2, <1>3, <1>5, <1>6, <1>7, <1>8, <2>1 DEF CallbackAt
<1>9. ASSUME NEW soon \in BOOLEAN, q # <<>>,
             waitingForLock' = [waitingForLock EXCEPT ![m][z] = soon],
             pc' = [pc EXCEPT ![j] = end,
                              ![Head(q)] = IF soon THEN "asking" ELSE "timer"]
      PROVE  CallbackAt(j, z)
  <2>1. PICK h \in Job : h = Head(q) /\ h = q[1] /\ 1 \in 1..Len(q)
    BY <1>4, <1>9
  <2>2. pc[h] = "queued" /\ MgmtOf[h] = m /\ First(h) = z
    BY <1>1, <1>2, <1>4, <2>1 DEF QueueInv, QueueIsRight, Waiting, q
  <2>3. h # j
    BY <1>3, <2>2
  <2>4. /\ pc'[j] = end /\ pc'[h] = (IF soon THEN "asking" ELSE "timer")
        /\ \A i \in Job \ {h, j} : pc'[i] = pc[i]
    BY <1>1, <1>9, <2>1, <2>3 DEF TypeOK
  <2>5. First(h)' = z
    BY <1>5, <2>2, <2>3, <2>4, SameFirst DEF Releases
  <2>6. waitingForLock'[m][z] = soon
    BY <1>7, <1>9
  <2>7. pc'[h] \in {"asking", "timer"} /\ (pc'[h] = "asking" => waitingForLock'[m][z])
    BY <2>4, <2>6
  <2>8. \A n \in Mgmt, y \in Zone :
           ~(n = m /\ y = z) => waitingForLock'[n][y] = waitingForLock[n][y]
    BY <1>7, <1>9
  <2>9. pc'[j] \in {"done", "releasing"} /\ (pc'[j] = "done" <=> todo'[j] = {})
    BY <1>6, <2>4
  <2> QED
    BY <1>2, <1>3, <1>5, <2>2, <2>3, <2>4, <2>5, <2>7, <2>8, <2>9 DEF CallbackAt
<1> QED
  BY <1>2, <1>3, <1>8, <1>9

LEMMA ReleaseCallbackPlan ==
    ASSUME TypeInv, PlanInv, NEW j \in Job, ReleaseCallback(j)
    PROVE  PlanInv'
<1>1. TypeOK /\ PlanOf(j)
  BY DEF TypeInv, PlanInv
<1>2. PICK z \in Zone : CallbackAt(j, z)
  BY CallbackDoes
<1>3. \A i \in Job : ToRelease(i) \subseteq ToRelease(i)'
  BY <1>1, <1>2, ReleaseGrows DEF CallbackAt
<1>4. PlanOf(j)'
  <2>1. /\ have'[j] = have[j] /\ todo'[j] = todo[j] \ {z}
        /\ pc'[j] \in {"done", "releasing"} /\ (pc'[j] = "done" <=> todo'[j] = {})
    BY <1>2 DEF CallbackAt
  <2>2. /\ todo[j] \subseteq ToRelease(j) /\ have[j] \subseteq todo[j] \ {z}
        /\ Kind[j] = "zones" => todo[j] \ {z} \subseteq have[j]
    BY <1>1, <1>2 DEF PlanOf, CallbackAt
  <2> QED
    BY <1>3, <2>1, <2>2 DEF PlanOf, Asking
<1>5. ASSUME NEW i \in Job \ {j}, pc'[i] = pc[i]
      PROVE  PlanOf(i)'
  BY <1>2, <1>3, <1>5, SamePlan DEF PlanInv, CallbackAt
<1>6. ASSUME NEW h \in Job \ {j}, pc[h] = "queued", pc'[h] \in {"asking", "timer"}
      PROVE  PlanOf(h)'
  <2>1. PlanOf(h) /\ todo'[h] = todo[h] /\ have'[h] = have[h]
    BY <1>2 DEF PlanInv, CallbackAt
  <2>2. OrderOf(h)' = OrderOf(h)
    BY <1>6 DEF OrderOf, Releases
  <2> QED
    BY <1>3, <1>6, <2>1, <2>2 DEF PlanOf, Asking
<1> QED
  BY <1>2, <1>4, <1>5, <1>6 DEF PlanInv, CallbackAt

-----------------------------------------------------------------------------
(* The lock of one zone: one lemma per action.                             *)
(* A job that asks for a zone, and uses no other zone that it did not use, *)
(* is the only one of its management that uses it, or does not use it yet. *)
LEMMA AskForAt ==
    ASSUME TypeOK, NEW j \in Job, NEW z \in Zone, AskFor(j, z), First(j)' = z,
           NEW x \in Zone, FlagAt(x), SerialAt(x),
           x \in have'[j] => Uses(j, x),
           \A i \in Job \ {j} : First(i)' = First(i) /\ have'[i] = have[i]
    PROVE  FlagAt(x)' /\ SerialAt(x)'
<1> DEFINE m == MgmtOf[j]
<1>1. m \in Mgmt
  BY JobAssumption DEF TypeOK
<1>2. /\ pc'[j] \in {"queued", "asking"}
      /\ \A i \in Job \ {j} : pc'[i] = pc[i]
  BY AskForType
<1>3. \A i \in Job \ {j} : Uses(i, x)' = Uses(i, x)
  BY <1>2 DEF Uses
<1>4. CASE waitingForLock[m][z] \/ x # z
  <2>1. Uses(j, x)' => Uses(j, x)
    <3>1. waitingForLock[m][z] => pc'[j] = "queued"
      BY DEF AskFor, TypeOK
    <3> QED
      BY <1>2, <1>4, <3>1 DEF Uses
  <2>2. \A n \in Mgmt : waitingForLock[n][x] => waitingForLock'[n][x]
    <3>1. CASE waitingForLock' = waitingForLock
      BY <3>1
    <3>2. CASE waitingForLock' = [waitingForLock EXCEPT ![m][z] = TRUE]
      BY <1>1, <3>2 DEF TypeOK
    <3> QED
      BY <3>1, <3>2 DEF AskFor
  <2>3. \A i \in Job : Uses(i, x)' => Uses(i, x)
    BY <1>3, <2>1
  <2> QED
    BY <2>2, <2>3, JobAssumption DEF FlagAt, SerialAt
<1>5. CASE ~waitingForLock[m][z] /\ x = z
  <2>1. waitingForLock' = [waitingForLock EXCEPT ![m][z] = TRUE]
    BY <1>5 DEF AskFor, TypeOK
  <2>2. \A n \in Mgmt : waitingForLock'[n][x] <=> waitingForLock[n][x] \/ n = m
    BY <1>1, <1>5, <2>1 DEF TypeOK
  <2>3. \A i \in Job : MgmtOf[i] = m => ~Uses(i, x)
    BY <1>5 DEF FlagAt
  <2>4. FlagAt(x)'
    BY <1>3, <2>2, JobAssumption DEF FlagAt
  <2>5. SerialAt(x)'
    BY <1>3, <2>3 DEF SerialAt
  <2> QED
    BY <2>4, <2>5
<1> QED
  BY <1>4, <1>5

(* Who uses no zone that it did not use does no harm.                      *)
LEMMA NoNewUse ==
    ASSUME NEW x \in Zone, FlagAt(x), SerialAt(x), waitingForLock' = waitingForLock,
           \A i \in Job : Uses(i, x)' => Uses(i, x)
    PROVE  FlagAt(x)' /\ SerialAt(x)'
BY DEF FlagAt, SerialAt

LEMMA AcquireAt ==
    ASSUME TypeInv, NEW j \in Job, NEW zones \in SUBSET Zone, Acquire(j, zones),
           pc[j] \in {"idle", "asking"},
           NEW x \in Zone, FlagAt(x), SerialAt(x), x \in have'[j] => Uses(j, x),
           \A i \in Job \ {j} : have'[i] = have[i]
    PROVE  FlagAt(x)' /\ SerialAt(x)'
<1>1. TypeOK
  BY DEF TypeInv
<1>2. /\ \A i \in Job \ {j} : pc'[i] = pc[i] /\ todo'[i] = todo[i]
      /\ pc'[j] = "section" <=> zones = {}
      /\ zones # {} => AskFor(j, FirstOf(j, zones)) /\ FirstOf(j, zones) \in zones
      /\ zones # {} => First(j)' = FirstOf(j, zones)
  BY AcquireType
<1>3. \A i \in Job \ {j} : First(i)' = First(i)
  BY <1>2, OthersStay
<1>4. CASE zones # {}
  <2>1. PICK z \in zones : z = FirstOf(j, zones)
    BY <1>2, <1>4
  <2> QED
    BY <1>1, <1>2, <1>3, <1>4, <2>1, AskForAt
<1>5. CASE zones = {}
  <2>1. waitingForLock' = waitingForLock /\ pc'[j] = "section"
    BY <1>2, <1>5 DEF Acquire
  <2>2. \A i \in Job : Uses(i, x)' => Uses(i, x)
    BY <1>2, <1>3, <2>1 DEF Uses
  <2> QED
    BY <2>1, <2>2, NoNewUse
<1> QED
  BY <1>4, <1>5

LEMMA StartAt ==
    ASSUME IInv, NEW j \in Job, Start(j), NEW x \in Zone, LockAt(x)
    PROVE  LockAt(x)'
<1>1. TypeInv /\ TypeOK /\ PlanOf(j)
  BY DEF IInv, TypeInv, PlanInv
<1>2. PICK zones \in SUBSET Zone : zones = ToAcquire(j)
  BY <1>1, ToReleaseType
<1>3. pc[j] = "idle" /\ Acquire(j, zones) /\ UNCHANGED <<holder, have>>
  BY <1>2 DEF Start
<1>4. FlagAt(x)' /\ SerialAt(x)'
  BY <1>1, <1>3, AcquireAt DEF LockAt, Uses
<1>5. HolderAt(x)'
  BY <1>3 DEF LockAt, HolderAt
<1> QED
  BY <1>4, <1>5 DEF LockAt

LEMMA DeferredAcquireAt ==
    ASSUME IInv, NEW j \in Job, DeferredAcquire(j), NEW x \in Zone, LockAt(x)
    PROVE  LockAt(x)'
<1>1. TypeInv /\ TypeOK
  BY DEF IInv, TypeInv
<1>2. PICK z \in Zone : z = First(j)
  BY <1>1, FirstIsToDo DEF TypeOK, DeferredAcquire
<1>3. pc[j] = "timer" /\ AskFor(j, z) /\ UNCHANGED <<holder, todo, have>>
  BY <1>2 DEF DeferredAcquire
<1>4. pc'[j] \in {"queued", "asking"} /\ \A i \in Job \ {j} : pc'[i] = pc[i]
  BY <1>1, <1>3, AskForType
<1>5. First(j)' = z /\ \A i \in Job \ {j} : First(i)' = First(i)
  BY <1>2, <1>3, <1>4, SameFirst, OthersStay DEF Releases
<1>6. FlagAt(x)' /\ SerialAt(x)'
  BY <1>1, <1>3, <1>5, AskForAt DEF LockAt, Uses
<1>7. HolderAt(x)'
  BY <1>3 DEF LockAt, HolderAt
<1> QED
  BY <1>6, <1>7 DEF LockAt

LEMMA TakeLockAt ==
    ASSUME IInv, NEW j \in Job, TakeLock(j), NEW x \in Zone, LockAt(x)
    PROVE  LockAt(x)'
<1>1. TypeInv /\ TypeOK /\ PlanOf(j)
  BY DEF IInv, TypeInv, PlanInv
<1>2. PICK z \in todo[j] : z = First(j) /\ z \in Zone
  BY <1>1, FirstIsToDo DEF TypeOK, TakeLock
<1>3. PICK rest \in SUBSET Zone : rest = todo[j] \ {z}
  BY <1>1 DEF TypeOK
<1>4. /\ pc[j] = "asking" /\ holder[z] = NoMgmt
      /\ holder' = [holder EXCEPT ![z] = MgmtOf[j]]
      /\ have' = [have EXCEPT ![j] = @ \cup {z}]
      /\ Acquire(j, rest)
  BY <1>2, <1>3 DEF TakeLock, Free
<1>5. have'[j] = have[j] \cup {z} /\ \A i \in Job \ {j} : have'[i] = have[i]
  BY <1>1, <1>4 DEF TypeOK
<1>6. x \in have'[j] => Uses(j, x)
  BY <1>2, <1>4, <1>5 DEF Uses
<1>7. FlagAt(x)' /\ SerialAt(x)'
  BY <1>1, <1>4, <1>5, <1>6, AcquireAt DEF LockAt
<1>8. HolderAt(x)'
  <2>1. x = z => \A i \in Job : x \notin have[i]
    BY <1>4, NoMgmtAssumption, JobAssumption DEF LockAt, HolderAt
  <2>2. /\ x = z => holder'[x] = MgmtOf[j]
        /\ x # z => holder'[x] = holder[x]
    BY <1>1, <1>2, <1>4 DEF TypeOK
  <2> QED
    BY <1>5, <2>1, <2>2 DEF LockAt, HolderAt
<1> QED
  BY <1>7, <1>8 DEF LockAt

LEMMA ReleaseAt ==
    ASSUME IInv, NEW j \in Job, Release(j), NEW x \in Zone, LockAt(x)
    PROVE  LockAt(x)'
<1>1. TypeOK
  BY DEF IInv, TypeInv
<1>2. /\ pc[j] = "section"
      /\ pc' = [pc EXCEPT ![j] = IF ToRelease(j) = {} THEN "done" ELSE "releasing"]
      /\ todo' = [todo EXCEPT ![j] = ToRelease(j)]
      /\ UNCHANGED <<holder, waitingForLock, have>>
  BY DEF Release
<1>3. /\ pc'[j] \in {"done", "releasing"}
      /\ \A i \in Job \ {j} : pc'[i] = pc[i] /\ todo'[i] = todo[i]
  BY <1>1, <1>2 DEF TypeOK
<1>4. \A i \in Job \ {j} : First(i)' = First(i)
  BY <1>3, OthersStay
<1>5. \A i \in Job : Uses(i, x)' => Uses(i, x)
  BY <1>2, <1>3, <1>4 DEF Uses
<1>6. FlagAt(x)' /\ SerialAt(x)'
  BY <1>2, <1>5, NoNewUse DEF LockAt
<1>7. HolderAt(x)'
  BY <1>2 DEF LockAt, HolderAt
<1> QED
  BY <1>6, <1>7 DEF LockAt

(* A job releases a zone that it has, or another zone than x.              *)
LEMMA ReleaseLockAt ==
    ASSUME IInv, NEW j \in Job, ReleaseLock(j), NEW x \in Zone, LockAt(x),
           x = First(j) => x \in have[j]
    PROVE  LockAt(x)'
<1>1. TypeOK
  BY DEF IInv, TypeInv
<1>2. PICK z \in todo[j] : z = First(j) /\ z \in Zone
  BY <1>1, FirstIsToDo DEF TypeOK, ReleaseLock
<1>3. /\ pc[j] = "releasing" /\ pc' = [pc EXCEPT ![j] = "released"]
      /\ holder' = [holder EXCEPT ![z] = IF @ = MgmtOf[j] THEN NoMgmt ELSE @]
      /\ have' = [have EXCEPT ![j] = @ \ {z}]
      /\ UNCHANGED <<waitingForLock, todo>>
  BY <1>2 DEF ReleaseLock, Unlock
<1>4. /\ pc'[j] = "released" /\ have'[j] = have[j] \ {z}
      /\ \A i \in Job \ {j} : pc'[i] = pc[i] /\ have'[i] = have[i]
  BY <1>1, <1>3 DEF TypeOK
<1>5. First(j)' = z /\ \A i \in Job \ {j} : First(i)' = First(i)
  BY <1>2, <1>3, <1>4, SameFirst, OthersStay DEF Releases
<1>6. \A i \in Job : Uses(i, x)' => Uses(i, x)
  BY <1>2, <1>4, <1>5 DEF Uses
<1>7. FlagAt(x)' /\ SerialAt(x)'
  BY <1>3, <1>6, NoNewUse DEF LockAt
<1>8. HolderAt(x)'
  <2>1. CASE x # z
    BY <1>1, <1>3, <1>4, <2>1 DEF TypeOK, LockAt, HolderAt
  <2>2. CASE x = z
    <3>1. SUFFICES ASSUME NEW i \in Job, x \in have'[i]
                   PROVE  holder'[x] = MgmtOf[i]
      BY DEF HolderAt
    <3>2. i # j /\ x \in have[i] /\ x \in have[j]
      BY <1>2, <1>4, <2>2, <3>1
    <3>3. FALSE
      BY <3>2 DEF LockAt, HolderAt, SerialAt, Uses
    <3> QED
      BY <3>3
  <2> QED
    BY <2>1, <2>2
<1> QED
  BY <1>7, <1>8 DEF LockAt

LEMMA ReleaseCallbackAt ==
    ASSUME IInv, NEW j \in Job, ReleaseCallback(j), NEW x \in Zone, LockAt(x)
    PROVE  LockAt(x)'
<1> DEFINE m == MgmtOf[j]
<1>1. TypeInv /\ TypeOK /\ PlanOf(j)
  BY DEF IInv, TypeInv, PlanInv
<1>2. PICK z \in Zone : CallbackAt(j, z)
  BY <1>1, CallbackDoes
<1>3. /\ z = First(j) /\ pc[j] = "released" /\ have' = have /\ holder' = holder
      /\ \A i \in Job \ {j} : todo'[i] = todo[i]
      /\ pc'[j] \in {"done", "releasing"}
      /\ \A n \in Mgmt, y \in Zone :
            ~(n = m /\ y = z) => waitingForLock'[n][y] = waitingForLock[n][y]
  BY <1>2 DEF CallbackAt
<1>4. z \notin have[j]
  BY <1>1, <1>3 DEF PlanOf
<1>5. Uses(j, x)' => Uses(j, x) /\ x # z
  BY <1>3, <1>4 DEF Uses
<1>6. HolderAt(x)'
  BY <1>3 DEF LockAt, HolderAt
<1>7. x = z => \A i \in Job \ {j} : MgmtOf[i] = m => ~Uses(i, x)
  BY <1>3 DEF LockAt, SerialAt, Uses
<1>8. ASSUME NEW i \in Job \ {j}, pc'[i] = pc[i]
      PROVE  Uses(i, x)' = Uses(i, x)
  BY <1>3, <1>8, OthersStay DEF Uses
<1>9. CASE \A i \in Job \ {j} : pc'[i] = pc[i]
  <2>1. \A i \in Job : Uses(i, x)' => Uses(i, x) /\ ~(MgmtOf[i] = m /\ x = z)
    BY <1>5, <1>7, <1>8, <1>9
  <2> QED
    BY <1>3, <1>6, <2>1, JobAssumption DEF LockAt, FlagAt, SerialAt
<1>10. ASSUME NEW h \in Job \ {j}, pc[h] = "queued", MgmtOf[h] = m,
              First(h) = z, First(h)' = z, pc'[h] \in {"asking", "timer"},
              pc'[h] = "asking" => waitingForLock'[m][z],
              \A i \in Job \ {h, j} : pc'[i] = pc[i]
       PROVE  FlagAt(x)' /\ SerialAt(x)'
  <2>1. \A i \in Job \ {h} : Uses(i, x)' => Uses(i, x) /\ ~(MgmtOf[i] = m /\ x = z)
    BY <1>5, <1>7, <1>8, <1>10
  <2>2. Uses(h, x)' => \/ Uses(h, x) /\ x # z
                       \/ x = z /\ waitingForLock'[m][z]
    BY <1>3, <1>7, <1>10 DEF Uses
  <2>3. FlagAt(x)'
    BY <1>3, <1>10, <2>1, <2>2, JobAssumption DEF LockAt, FlagAt
  <2>4. SerialAt(x)'
    BY <1>10, <2>1, <2>2 DEF LockAt, SerialAt
  <2> QED
    BY <2>3, <2>4
<1> QED
  BY <1>2, <1>6, <1>9, <1>10 DEF CallbackAt, LockAt

-----------------------------------------------------------------------------
LEMMA TypeStep == TypeInv /\ [Next]_vars => TypeInv'
<1> SUFFICES ASSUME TypeInv, [Next]_vars
             PROVE  TypeInv'
  OBVIOUS
<1>1. CASE UNCHANGED vars
  <2>1. \A m \in Mgmt, z \in Zone : Waiting(m, z)' = Waiting(m, z)
    BY <1>1, OthersStay DEF vars, Waiting
  <2>2. TypeOK'
    BY <1>1 DEF vars, TypeInv, TypeOK
  <2>3. QueueInv'
    BY <1>1, <2>1 DEF vars, TypeInv, QueueInv, QueueIsRight
  <2> QED
    BY <2>2, <2>3 DEF TypeInv
<1>2. ASSUME NEW j \in Job, Start(j) \/ Step(j), Follow(j)
      PROVE  TypeInv'
  BY <1>2, StartType, DeferredAcquireType, TakeLockType, ReleaseType, ReleaseLockType,
     ReleaseCallbackType DEF Step
<1> QED
  BY <1>1, <1>2 DEF Next

(* What a job over zones releases it has; a global one gives away the rest *)
(* and makes it stray.                                                     *)
LEMMA ReleasesOwn ==
    ASSUME IInv, NEW j \in Job, ReleaseLock(j), Follow(j), NEW x \in Zone,
           x = First(j), x \notin have[j]
    PROVE  x \in GivesAway(j)
<1>1. TypeOK /\ PlanOf(j)
  BY DEF IInv, TypeInv, PlanInv
<1>2. First(j) \in todo[j] /\ pc[j] = "releasing" /\ pc'[j] = "released"
  BY <1>1, FirstIsToDo DEF ReleaseLock, TypeOK
<1>3. Kind[j] = "global"
  BY <1>1, <1>2, JobAssumption DEF PlanOf, Kinds
<1> QED
  BY <1>2, <1>3 DEF GivesAway

LEMMA LockStep ==
    ASSUME IInv, NEW j \in Job, Start(j) \/ Step(j), Follow(j)
    PROVE  LockInv'
<1> SUFFICES ASSUME NEW x \in Zone, x \notin stray'
             PROVE  LockAt(x)'
  BY DEF LockInv
<1>1. CASE x \in stray \cup GivesAway(j)
  <2>1. \A i \in Job : ~Uses(i, x)'
    BY <1>1 DEF Follow
  <2>2. \A i \in Job : x \notin have'[i]
    BY <2>1 DEF Uses
  <2> QED
    BY <2>1, <2>2 DEF LockAt, FlagAt, SerialAt, HolderAt
<1>2. CASE x \notin stray \cup GivesAway(j)
  <2>1. LockAt(x)
    BY <1>2 DEF IInv, LockInv
  <2>2. ASSUME ReleaseLock(j)
        PROVE  LockAt(x)'
    BY <1>2, <2>1, <2>2, ReleaseLockAt, ReleasesOwn
  <2> QED
    BY <2>1, <2>2, StartAt, DeferredAcquireAt, TakeLockAt, ReleaseAt, ReleaseCallbackAt
       DEF Step
<1> QED
  BY <1>1, <1>2

LEMMA InductiveStep == IInv /\ [Next]_vars => IInv'
<1> SUFFICES ASSUME IInv, [Next]_vars
             PROVE  IInv'
  OBVIOUS
<1>1. TypeInv'
  BY TypeStep DEF IInv
<1>2. CASE UNCHANGED vars
  <2>1. \A j \in Job : First(j)' = First(j) /\ ToRelease(j)' = ToRelease(j)
    BY <1>2, OthersStay DEF vars, ToRelease
  <2>2. PlanInv'
    BY <1>2, <2>1, SamePlan DEF vars, IInv, PlanInv
  <2>3. \A j \in Job, x \in Zone : Uses(j, x)' = Uses(j, x)
    BY <1>2, <2>1 DEF vars, Uses
  <2>4. LockInv'
    BY <1>2, <2>3 DEF vars, IInv, LockInv, LockAt, FlagAt, SerialAt, HolderAt
  <2> QED
    BY <1>1, <2>2, <2>4 DEF IInv
<1>3. ASSUME NEW j \in Job, Start(j) \/ Step(j), Follow(j)
      PROVE  IInv'
  <2>1. PlanInv'
    BY <1>3, StartPlan, DeferredAcquirePlan, TakeLockPlan, ReleasePlan, ReleaseLockPlan,
       ReleaseCallbackPlan DEF Step, IInv
  <2>2. LockInv'
    BY <1>3, LockStep
  <2> QED
    BY <1>1, <2>1, <2>2 DEF IInv
<1> QED
  BY <1>2, <1>3 DEF Next

-----------------------------------------------------------------------------
(* The types of every variable, and that a job which waits for or releases *)
(* a zone has one (acquireLockByZones, releaseLockByZones), for any zones, *)
(* managements and jobs.                                                   *)
THEOREM TypeCorrect == Spec => []TypeOK
<1>1. TypeInv => TypeOK
  BY DEF TypeInv
<1> QED
  BY <1>1, InitType, TypeStep, PTL DEF Spec

(* Two jobs never take the same zone for locked, of one management or of   *)
(* two, unless a global release (lock.js:471) gave the zone away without   *)
(* having it and its lock was in use ever since: the flag and the queue of *)
(* Lock.acquireLock and Lock.releaseLock serve one job of a management at  *)
(* a time, and the document of the zone one management.                    *)
THEOREM JobsAreApart == Spec => []ZoneHasOneJob
<1>1. IInv => ZoneHasOneJob
  <2> SUFFICES ASSUME IInv, NEW i \in Job, NEW j \in Job, i # j,
                      NEW z \in have[i] \cap have[j], z \notin stray
               PROVE  FALSE
    BY DEF ZoneHasOneJob
  <2>1. LockAt(z)
    BY DEF IInv, TypeInv, TypeOK, LockInv
  <2>2. MgmtOf[i] = MgmtOf[j]
    BY <2>1 DEF LockAt, HolderAt
  <2> QED
    BY <2>1, <2>2 DEF LockAt, SerialAt, Uses
<1>2. IInv /\ [Next]_vars => IInv'
  BY InductiveStep
<1> QED
  BY <1>1, <1>2, InitInv, PTL DEF Spec

-----------------------------------------------------------------------------
(* Finitely many numbers have an upper bound: there is no least n for      *)
(* which some n of them have none.                                         *)
LEMMA Bounded == \A n \in Nat : \A f \in [1..n -> Nat] :
                    \E b \in Nat : \A k \in 1..n : f[k] <= b
<1> DEFINE IsBounded(n) == \A f \in [1..n -> Nat] : \E b \in Nat : \A k \in 1..n : f[k] <= b
           bad == {n \in Nat : ~IsBounded(n)}
<1>1. SUFFICES ASSUME bad # {}
               PROVE  FALSE
  OBVIOUS
<1>2. bad \subseteq Nat
  OBVIOUS
<1> HIDE DEF bad
<1>3. PICK n \in bad : \A k \in bad : <<k, n>> \notin OpToRel(<, Nat)
  BY <1>1, <1>2, WFMin, NatLessThanWellFounded, Zenon
<1>4. n \in Nat /\ \A k \in bad : ~(k < n)
  BY <1>2, <1>3, Zenon DEF OpToRel
<1>5. PICK f \in [1..n -> Nat] : \A b \in Nat : \E k \in 1..n : ~(f[k] <= b)
  BY <1>3 DEF bad
<1>6. n # 0
  BY <1>5
<1>7. n - 1 \in Nat /\ n - 1 < n
  BY <1>4, <1>6
<1>8. IsBounded(n - 1)
  BY <1>4, <1>7 DEF bad
<1> DEFINE g == [k \in 1..(n - 1) |-> f[k]]
<1>9. g \in [1..(n - 1) -> Nat]
  BY <1>4
<1>10. PICK b \in Nat : \A k \in 1..(n - 1) : g[k] <= b
  BY <1>8, <1>9
<1>11. f[n] \in Nat /\ \A k \in 1..n : f[k] \in Nat
  BY <1>4, <1>6
<1>12. \A k \in 1..n : f[k] <= b + f[n]
  <2> TAKE k \in 1..n
  <2>1. CASE k = n
    BY <1>11, <2>1
  <2>2. CASE k # n
    <3>1. k \in 1..(n - 1)
      BY <1>4, <2>2
    <3>2. f[k] <= b
      BY <1>10, <3>1
    <3> QED
      BY <1>11, <3>2
  <2> QED
    BY <2>1, <2>2
<1>13. b + f[n] \in Nat
  BY <1>11
<1> QED
  BY <1>5, <1>12, <1>13

(* Of finitely many things with numbers, one has the greatest.             *)
LEMMA Greatest ==
    ASSUME NEW S, IsFiniteSet(S), S # {}, NEW rank \in [S -> Nat]
    PROVE  \E s \in S : \A r \in S : rank[r] <= rank[s]
<1>1. PICK seq \in Seq(S) : \A s \in S : \E n \in 1..Len(seq) : seq[n] = s
  BY DEF IsFiniteSet
<1> DEFINE f == [k \in 1..Len(seq) |-> rank[seq[k]]]
<1>2. f \in [1..Len(seq) -> Nat] /\ Len(seq) \in Nat
  OBVIOUS
<1>3. PICK b \in Nat : \A k \in 1..Len(seq) : f[k] <= b
  <2> HIDE DEF f
  <2> QED
    BY <1>2, Bounded
<1>4. \A s \in S : rank[s] <= b
  BY <1>1, <1>3
<1> DEFINE below == {b - rank[s] : s \in S}
<1>5. below \subseteq Nat /\ below # {}
  BY <1>4
<1> HIDE DEF below
<1>6. PICK least \in below : \A k \in below : <<k, least>> \notin OpToRel(<, Nat)
  BY <1>5, WFMin, NatLessThanWellFounded, Zenon
<1>7. \A k \in below : ~(k < least)
  BY <1>5, <1>6, Zenon DEF OpToRel
<1>8. PICK s \in S : least = b - rank[s]
  BY DEF below
<1>9. ASSUME NEW r \in S
      PROVE  rank[r] <= rank[s]
  <2>1. ~(b - rank[r] < b - rank[s])
    BY <1>7, <1>8 DEF below
  <2>2. rank[r] \in Nat /\ rank[s] \in Nat
    OBVIOUS
  <2> QED
    BY <2>1, <2>2
<1> QED
  BY <1>9

(* Jobs wait for each other in a circle only if some of them lock zones    *)
(* and others everything: among jobs that lock in one order, be it sort()  *)
(* (lock.js:363) or Object.keys (lock.js:498), whoever waits for the last  *)
(* zone that any of them waits for waits for nobody of them.               *)
THEOREM CirclesAreOfBoth == Spec => []CirclesAreMixed
<1>1. IInv => CirclesAreMixed
  <2> SUFFICES ASSUME IInv, NEW jobs \in SUBSET Job, IsFiniteSet(jobs), Stuck(jobs),
                      NEW kind \in Kinds, \A j \in jobs : Kind[j] # kind
               PROVE  FALSE
    BY DEF CirclesAreMixed
  <2>1. TypeOK /\ PlanInv
    BY DEF IInv, TypeInv
  <2>2. \A j \in jobs : pc[j] \in Asking /\ ~Releases(j)
    BY DEF Stuck, WaitsFor, Asking, Releases
  <2>3. PICK order \in [Zone -> Nat] : \A j \in jobs : OrderOf(j) = order
    <3>1. CASE kind = "global"
      BY <2>2, <3>1, OrderAssumption DEF OrderOf
    <3>2. CASE kind = "zones"
      BY <2>2, <3>2, OrderAssumption, JobAssumption DEF OrderOf, Kinds
    <3> QED
      BY <3>1, <3>2 DEF Kinds
  <2>4. \A j \in jobs : First(j) \in Zone /\ First(j) \in todo[j]
    BY <2>1, <2>2, FirstIsToDo DEF TypeOK, Asking
  <2> DEFINE rank == [j \in jobs |-> order[First(j)]]
  <2>5. rank \in [jobs -> Nat]
    BY <2>4
  <2>6. PICK i \in jobs : \A k \in jobs : rank[k] <= rank[i]
    <3> HIDE DEF rank
    <3> QED
      BY <2>5, Greatest DEF Stuck
  <2>7. PICK k \in jobs : First(i) \in have[k]
    BY DEF Stuck, WaitsFor
  <2>8. order[First(i)] < order[First(k)]
    BY <2>1, <2>2, <2>3, <2>4, <2>7 DEF PlanInv, PlanOf
  <2>9. order[First(k)] <= order[First(i)]
    BY <2>6
  <2>10. order[First(i)] \in Nat /\ order[First(k)] \in Nat
    BY <2>4
  <2> QED
    BY <2>8, <2>9, <2>10
<1>2. IInv /\ [Next]_vars => IInv'
  BY InductiveStep
<1> QED
  BY <1>1, <1>2, InitInv, PTL DEF Spec

-----------------------------------------------------------------------------
(* Turns.  What the jobs do to a zone x, seen from x.                      *)
LEMMA SamePlace ==
    ASSUME NEW i \in Job, NEW x, pc'[i] = pc[i], todo'[i] = todo[i], have'[i] = have[i]
    PROVE  PlaceOf(i, x)' = PlaceOf(i, x)
BY OthersStay DEF PlaceOf

LEMMA OneMoves ==
    ASSUME NEW j \in Job, NEW x, NEW p, PlaceOf(j, x)' = p,
           \A i \in Job \ {j} : pc'[i] = pc[i] /\ todo'[i] = todo[i] /\ have'[i] = have[i]
    PROVE  /\ PlacesAt(x)' = [PlacesAt(x) EXCEPT ![j] = p]
           /\ PlaceOf(j, x) = p => PlacesAt(x)' = PlacesAt(x)
<1>1. \A i \in Job \ {j} : PlaceOf(i, x)' = PlaceOf(i, x)
  BY SamePlace
<1> QED
  BY <1>1 DEF PlacesAt

LEMMA FlagsSet ==
    ASSUME TypeOK, NEW m \in Mgmt, NEW z \in Zone, NEW x \in Zone, NEW f,
           waitingForLock' = [waitingForLock EXCEPT ![m][z] = f]
    PROVE  FlagsAt(x)' = IF x = z THEN [FlagsAt(x) EXCEPT ![m] = f] ELSE FlagsAt(x)
BY DEF TypeOK, FlagsAt

LEMMA QueuesSet ==
    ASSUME TypeOK, NEW m \in Mgmt, NEW z \in Zone, NEW x \in Zone, NEW q,
           lockingQueue' = [lockingQueue EXCEPT ![m][z] = q]
    PROVE  QueuesAt(x)' = IF x = z THEN [QueuesAt(x) EXCEPT ![m] = q] ELSE QueuesAt(x)
BY DEF TypeOK, QueuesAt

(* acquireLock of the zone z, seen from z and from the others.             *)
LEMMA AskForPlace ==
    ASSUME TypeOK, NEW j \in Job, NEW z \in Zone, AskFor(j, z), NEW x \in Zone,
           First(j)' = z, z \notin have'[j]
    PROVE  PlaceOf(j, x)' = IF x = z THEN pc'[j] ELSE IF x \in have'[j] THEN "in" ELSE "out"
<1>1. pc'[j] \in {"queued", "asking"}
  BY AskForType
<1> QED
  BY <1>1 DEF PlaceOf

LEMMA AskForElse ==
    ASSUME TypeOK, NEW j \in Job, NEW z \in Zone, AskFor(j, z), NEW x \in Zone, x # z,
           First(j)' = z, z \notin have'[j]
    PROVE  /\ UNCHANGED <<FlagsAt(x), QueuesAt(x)>>
           /\ PlaceOf(j, x)' = IF x \in have'[j] THEN "in" ELSE "out"
<1> DEFINE m == MgmtOf[j]
<1>1. m \in Mgmt
  BY JobAssumption
<1>2. PlaceOf(j, x)' = IF x \in have'[j] THEN "in" ELSE "out"
  BY AskForPlace
<1>3. FlagsAt(x)' = FlagsAt(x)
  <2>1. CASE waitingForLock' = waitingForLock
    BY <2>1 DEF FlagsAt
  <2>2. CASE waitingForLock' = [waitingForLock EXCEPT ![m][z] = TRUE]
    BY <1>1, <2>2, FlagsSet
  <2> QED
    BY <2>1, <2>2 DEF AskFor
<1>4. QueuesAt(x)' = QueuesAt(x)
  <2>1. CASE lockingQueue' = lockingQueue
    BY <2>1 DEF QueuesAt
  <2>2. CASE lockingQueue' = [lockingQueue EXCEPT ![m][z] = Append(@, j)]
    <3> DEFINE q == Append(lockingQueue[m][z], j)
    <3>1. lockingQueue' = [lockingQueue EXCEPT ![m][z] = q]
      BY <2>2
    <3> HIDE DEF q
    <3> QED
      BY <1>1, <3>1, QueuesSet
  <2> QED
    BY <2>1, <2>2 DEF AskFor
<1> QED
  BY <1>2, <1>3, <1>4

LEMMA AskForTurn ==
    ASSUME TypeOK, NEW j \in Job, NEW z \in Zone, AskFor(j, z),
           First(j)' = z, z \notin have'[j],
           PlaceOf(j, z) \in {"out", "timer"}, holder'[z] = holder[z],
           \A i \in Job \ {j} : todo'[i] = todo[i] /\ have'[i] = have[i]
    PROVE  Turns(z)!Ask(j)
<1> DEFINE m == MgmtOf[j]
           q == Append(lockingQueue[m][z], j)
<1>1. m \in Mgmt
  BY JobAssumption
<1>2. ASSUME NEW p \in {"queued", "asking"}, pc' = [pc EXCEPT ![j] = p]
      PROVE  PlacesAt(z)' = [PlacesAt(z) EXCEPT ![j] = p]
  <2>1. pc'[j] = p /\ \A i \in Job \ {j} : pc'[i] = pc[i]
    BY <1>2 DEF TypeOK
  <2>2. PlaceOf(j, z)' = p
    BY <2>1, AskForPlace
  <2> QED
    BY <2>1, <2>2, OneMoves
<1>3. PlacesAt(z)[j] = PlaceOf(j, z) /\ QueuesAt(z)[m] = lockingQueue[m][z]
      /\ FlagsAt(z)[m] = waitingForLock[m][z]
  BY <1>1 DEF PlacesAt, QueuesAt, FlagsAt
<1>4. CASE /\ waitingForLock[m][z]
           /\ lockingQueue' = [lockingQueue EXCEPT ![m][z] = q]
           /\ pc' = [pc EXCEPT ![j] = "queued"]
           /\ waitingForLock' = waitingForLock
  <2> HIDE DEF m, q
  <2>1. QueuesAt(z)' = [QueuesAt(z) EXCEPT ![m] = q]
    BY <1>1, <1>4, QueuesSet
  <2>2. FlagsAt(z)' = FlagsAt(z)
    BY <1>4 DEF FlagsAt
  <2>3. PlacesAt(z)' = [PlacesAt(z) EXCEPT ![j] = "queued"]
    BY <1>2, <1>4
  <2> QED
    BY <1>3, <1>4, <2>1, <2>2, <2>3 DEF Turns!Ask, Turns!lockVars, m, q
<1>5. CASE /\ ~waitingForLock[m][z]
           /\ waitingForLock' = [waitingForLock EXCEPT ![m][z] = TRUE]
           /\ pc' = [pc EXCEPT ![j] = "asking"]
           /\ lockingQueue' = lockingQueue
  <2> HIDE DEF m
  <2>1. FlagsAt(z)' = [FlagsAt(z) EXCEPT ![m] = TRUE]
    BY <1>1, <1>5, FlagsSet
  <2>2. QueuesAt(z)' = QueuesAt(z)
    BY <1>5 DEF QueuesAt
  <2>3. PlacesAt(z)' = [PlacesAt(z) EXCEPT ![j] = "asking"]
    BY <1>2, <1>5
  <2> QED
    BY <1>3, <1>5, <2>1, <2>2, <2>3 DEF Turns!Ask, Turns!lockVars, m
<1> QED
  BY <1>4, <1>5 DEF AskFor, TypeOK

LEMMA Stutter ==
    ASSUME NEW j \in Job, NEW x \in Zone,
           holder'[x] = holder[x], UNCHANGED <<FlagsAt(x), QueuesAt(x)>>,
           PlaceOf(j, x)' = PlaceOf(j, x),
           \A i \in Job \ {j} : pc'[i] = pc[i] /\ todo'[i] = todo[i] /\ have'[i] = have[i]
    PROVE  UNCHANGED Turns(x)!vars
<1>1. PlacesAt(x)' = PlacesAt(x)
  BY OneMoves
<1> QED
  BY <1>1 DEF Turns!vars, Turns!lockVars, Turns!queueVars

(* Acquire asks for the first of the zones, if there is one, and leaves    *)
(* the others alone.                                                       *)
LEMMA AcquireTurn ==
    ASSUME TypeInv, NEW j \in Job, NEW zones \in SUBSET Zone, Acquire(j, zones),
           pc[j] \in {"idle", "asking"}, zones \cap have'[j] = {},
           NEW x \in Zone, x \in zones => PlaceOf(j, x) = "out" /\ holder'[x] = holder[x],
           \A i \in Job \ {j} : have'[i] = have[i]
    PROVE  \/ Turns(x)!Ask(j)
           \/ /\ UNCHANGED <<FlagsAt(x), QueuesAt(x)>>
              /\ PlaceOf(j, x)' = IF x \in have'[j] THEN "in" ELSE "out"
<1>1. TypeOK
  BY DEF TypeInv
<1>2. /\ \A i \in Job \ {j} : todo'[i] = todo[i]
      /\ pc'[j] = "section" <=> zones = {}
      /\ zones # {} => AskFor(j, FirstOf(j, zones)) /\ FirstOf(j, zones) \in zones
      /\ zones # {} => First(j)' = FirstOf(j, zones)
  BY AcquireType
<1>3. CASE zones # {}
  <2>1. PICK z \in zones : z = FirstOf(j, zones)
    BY <1>2, <1>3
  <2>2. z \in Zone /\ AskFor(j, z) /\ First(j)' = z /\ z \notin have'[j]
    BY <1>2, <1>3, <2>1
  <2>3. CASE x = z
    BY <1>1, <1>2, <2>2, <2>3, AskForTurn
  <2>4. CASE x # z
    BY <1>1, <1>2, <2>2, <2>4, AskForElse
  <2> QED
    BY <2>3, <2>4
<1>4. CASE zones = {}
  <2>1. pc'[j] = "section" /\ UNCHANGED <<waitingForLock, lockingQueue>>
    BY <1>2, <1>4 DEF Acquire
  <2> QED
    BY <2>1 DEF PlaceOf, FlagsAt, QueuesAt
<1> QED
  BY <1>3, <1>4

LEMMA AcquireElse ==
    ASSUME TypeInv, NEW j \in Job, NEW zones \in SUBSET Zone, Acquire(j, zones),
           pc[j] \in {"idle", "asking"}, zones \cap have'[j] = {},
           NEW x \in Zone, x \notin zones
    PROVE  UNCHANGED <<FlagsAt(x), QueuesAt(x)>>
<1>1. TypeOK
  BY DEF TypeInv
<1>2. /\ zones # {} => AskFor(j, FirstOf(j, zones)) /\ FirstOf(j, zones) \in zones
      /\ zones # {} => First(j)' = FirstOf(j, zones)
  BY AcquireType
<1>3. CASE zones # {}
  <2>1. PICK z \in zones : z = FirstOf(j, zones)
    BY <1>2, <1>3
  <2> QED
    BY <1>1, <1>2, <1>3, <2>1, AskForElse
<1>4. CASE zones = {}
  BY <1>4 DEF Acquire, FlagsAt, QueuesAt
<1> QED
  BY <1>3, <1>4

(* Nobody waits for what it has.                                           *)
LEMMA WaitsForOther ==
    ASSUME TypeOK, NEW j \in Job, PlanOf(j), pc[j] \in Asking
    PROVE  \A y \in todo[j] : y \notin have[j]
<1>1. \A y \in have[j], z \in todo[j] : OrderOf(j)[y] < OrderOf(j)[z]
  BY DEF PlanOf
<1>2. \A y \in todo[j] : OrderOf(j)[y] \in Nat
  BY OrderType DEF TypeOK
<1> QED
  BY <1>1, <1>2

LEMMA StartTurn ==
    ASSUME IInv, NEW j \in Job, Start(j), NEW x \in Zone
    PROVE  Turns(x)!Ask(j) \/ UNCHANGED Turns(x)!vars
<1>1. TypeInv /\ TypeOK /\ PlanOf(j)
  BY DEF IInv, TypeInv, PlanInv
<1>2. PICK zones \in SUBSET Zone : zones = ToAcquire(j)
  BY <1>1, ToReleaseType
<1>3. pc[j] = "idle" /\ Acquire(j, zones) /\ UNCHANGED <<holder, have>>
  BY <1>2 DEF Start
<1>4. \A i \in Job \ {j} : pc'[i] = pc[i] /\ todo'[i] = todo[i]
  BY <1>1, <1>3, AcquireType
<1>5. have[j] = {} /\ PlaceOf(j, x) = "out"
  BY <1>1, <1>3 DEF PlanOf, PlaceOf
<1>6. \/ Turns(x)!Ask(j)
      \/ /\ UNCHANGED <<FlagsAt(x), QueuesAt(x)>>
         /\ PlaceOf(j, x)' = IF x \in have'[j] THEN "in" ELSE "out"
  BY <1>1, <1>3, <1>5, AcquireTurn
<1> QED
  BY <1>3, <1>4, <1>5, <1>6, Stutter

LEMMA DeferredAcquireTurn ==
    ASSUME IInv, NEW j \in Job, DeferredAcquire(j), NEW x \in Zone
    PROVE  Turns(x)!Ask(j) \/ UNCHANGED Turns(x)!vars
<1>1. TypeOK /\ PlanOf(j)
  BY DEF IInv, TypeInv, PlanInv
<1>2. PICK z \in todo[j] : z = First(j) /\ z \in Zone
  BY <1>1, FirstIsToDo DEF TypeOK, DeferredAcquire
<1>3. pc[j] = "timer" /\ AskFor(j, z) /\ UNCHANGED <<holder, todo, have>>
  BY <1>2 DEF DeferredAcquire
<1>4. pc'[j] \in {"queued", "asking"} /\ \A i \in Job \ {j} : pc'[i] = pc[i]
  BY <1>1, <1>2, <1>3, AskForType
<1>5. First(j)' = z
  BY <1>2, <1>3, <1>4, SameFirst DEF Releases
<1>6. z \notin have[j]
  BY <1>1, <1>3, WaitsForOther DEF Asking
<1>7. /\ PlaceOf(j, z) = "timer"
      /\ x # z => PlaceOf(j, x) = IF x \in have[j] THEN "in" ELSE "out"
  BY <1>2, <1>3, <1>6 DEF PlaceOf
<1>8. CASE x = z
  BY <1>1, <1>2, <1>3, <1>5, <1>6, <1>7, <1>8, AskForTurn
<1>9. CASE x # z
  <2>1. /\ UNCHANGED <<FlagsAt(x), QueuesAt(x)>>
        /\ PlaceOf(j, x)' = IF x \in have'[j] THEN "in" ELSE "out"
    BY <1>1, <1>2, <1>3, <1>5, <1>6, <1>9, AskForElse
  <2> QED
    BY <1>3, <1>4, <1>7, <1>9, <2>1, Stutter
<1> QED
  BY <1>8, <1>9

LEMMA TakeLockTurn ==
    ASSUME IInv, NEW j \in Job, TakeLock(j), NEW x \in Zone
    PROVE  Turns(x)!Ask(j) \/ Turns(x)!Take(j) \/ UNCHANGED Turns(x)!vars
<1>1. TypeInv /\ TypeOK /\ PlanOf(j)
  BY DEF IInv, TypeInv, PlanInv
<1>2. PICK z \in todo[j] : z = First(j) /\ z \in Zone
  BY <1>1, FirstIsToDo DEF TypeOK, TakeLock
<1>3. PICK rest \in SUBSET Zone : rest = todo[j] \ {z}
  BY <1>1 DEF TypeOK
<1>4. /\ pc[j] = "asking" /\ holder[z] = NoMgmt
      /\ holder' = [holder EXCEPT ![z] = MgmtOf[j]]
      /\ have' = [have EXCEPT ![j] = @ \cup {z}]
      /\ Acquire(j, rest)
  BY <1>2, <1>3 DEF TakeLock, Free
<1>5. \A y \in todo[j] : y \notin have[j]
  BY <1>1, <1>4, WaitsForOther DEF Asking
<1>6. /\ have'[j] = have[j] \cup {z} /\ \A i \in Job \ {j} : have'[i] = have[i]
      /\ holder'[z] = MgmtOf[j] /\ \A v \in Zone \ {z} : holder'[v] = holder[v]
  BY <1>1, <1>2, <1>4 DEF TypeOK
<1>7. \A i \in Job \ {j} : pc'[i] = pc[i] /\ todo'[i] = todo[i]
  BY <1>1, <1>4, AcquireType
<1>8. /\ PlaceOf(j, z) = "asking"
      /\ \A v \in Zone \ {z} : PlaceOf(j, v) = IF v \in have[j] THEN "in" ELSE "out"
  BY <1>2, <1>4, <1>5 DEF PlaceOf
<1>9. \A v \in rest : PlaceOf(j, v) = "out" /\ holder'[v] = holder[v]
  BY <1>3, <1>5, <1>6, <1>8
<1>10. rest \cap have'[j] = {}
  BY <1>3, <1>5, <1>6
<1>11. CASE x = z
  <2>1. PlaceOf(j, z)' = "in"
    BY <1>6 DEF PlaceOf
  <2>2. UNCHANGED <<FlagsAt(z), QueuesAt(z)>>
    BY <1>1, <1>2, <1>3, <1>4, <1>10, AcquireElse
  <2>3. PlacesAt(z)' = [PlacesAt(z) EXCEPT ![j] = "in"] /\ PlacesAt(z)[j] = "asking"
    <3>1. PlacesAt(z)[j] = "asking"
      BY <1>8 DEF PlacesAt
    <3> QED
      BY <1>6, <1>7, <2>1, <3>1, OneMoves
  <2> QED
    BY <1>4, <1>6, <1>11, <2>2, <2>3 DEF Turns!Take, Turns!queueVars
<1>12. CASE x # z
  <2>1. \/ Turns(x)!Ask(j)
        \/ /\ UNCHANGED <<FlagsAt(x), QueuesAt(x)>>
           /\ PlaceOf(j, x)' = IF x \in have'[j] THEN "in" ELSE "out"
    BY <1>1, <1>4, <1>6, <1>9, <1>10, AcquireTurn
  <2> QED
    BY <1>6, <1>7, <1>8, <1>12, <2>1, Stutter
<1> QED
  BY <1>11, <1>12

LEMMA ReleaseTurn ==
    ASSUME IInv, NEW j \in Job, Release(j), NEW x \in Zone
    PROVE  UNCHANGED Turns(x)!vars
<1>1. /\ pc[j] = "section" /\ pc'[j] \in {"done", "releasing"}
      /\ \A i \in Job \ {j} : pc'[i] = pc[i] /\ todo'[i] = todo[i]
      /\ UNCHANGED <<holder, waitingForLock, lockingQueue, have>>
  BY DEF Release, IInv, TypeInv, TypeOK
<1>2. PlaceOf(j, x)' = PlaceOf(j, x)
  BY <1>1 DEF PlaceOf
<1>3. UNCHANGED <<FlagsAt(x), QueuesAt(x)>>
  BY <1>1 DEF FlagsAt, QueuesAt
<1> QED
  BY <1>1, <1>2, <1>3, Stutter

LEMMA ReleaseLockTurn ==
    ASSUME IInv, NEW j \in Job, ReleaseLock(j), NEW x \in Zone, LockAt(x),
           x = First(j) => x \in have[j]
    PROVE  Turns(x)!Give(j) \/ UNCHANGED Turns(x)!vars
<1>1. TypeOK /\ PlanOf(j)
  BY DEF IInv, TypeInv, PlanInv
<1>2. PICK z \in todo[j] : z = First(j) /\ z \in Zone
  BY <1>1, FirstIsToDo DEF TypeOK, ReleaseLock
<1>3. /\ pc[j] = "releasing"
      /\ holder' = [holder EXCEPT ![z] = IF @ = MgmtOf[j] THEN NoMgmt ELSE @]
      /\ have' = [have EXCEPT ![j] = @ \ {z}]
      /\ pc' = [pc EXCEPT ![j] = "released"]
      /\ UNCHANGED <<waitingForLock, lockingQueue, todo>>
  BY <1>2 DEF ReleaseLock, Unlock
<1>4. x = z => z \in have[j] /\ holder[z] = MgmtOf[j]
  BY <1>2 DEF LockAt, HolderAt
<1>5. /\ have'[j] = have[j] \ {z} /\ pc'[j] = "released"
      /\ \A i \in Job \ {j} : pc'[i] = pc[i] /\ have'[i] = have[i]
      /\ x = z => holder'[z] = NoMgmt
      /\ \A v \in Zone \ {z} : holder'[v] = holder[v]
  BY <1>1, <1>2, <1>3, <1>4 DEF TypeOK
<1>6. First(j)' = z
  BY <1>2, <1>3, <1>5, SameFirst DEF Releases
<1>7. x = z => PlaceOf(j, z) = "in" /\ PlaceOf(j, z)' = "leaving"
  BY <1>4, <1>5, <1>6 DEF PlaceOf
<1>8. x # z => PlaceOf(j, x)' = PlaceOf(j, x)
  BY <1>2, <1>3, <1>5, <1>6 DEF PlaceOf
<1>9. UNCHANGED <<FlagsAt(x), QueuesAt(x)>>
  BY <1>3 DEF FlagsAt, QueuesAt
<1>10. CASE x = z
  <2>1. PlacesAt(z)' = [PlacesAt(z) EXCEPT ![j] = "leaving"] /\ PlacesAt(z)[j] = "in"
    <3>1. PlacesAt(z)[j] = "in"
      BY <1>7, <1>10 DEF PlacesAt
    <3> QED
      BY <1>3, <1>5, <1>7, <1>10, <3>1, OneMoves
  <2> QED
    BY <1>4, <1>5, <1>9, <1>10, <2>1 DEF Turns!Give, Turns!queueVars
<1>11. CASE x # z
  BY <1>3, <1>5, <1>8, <1>9, <1>11, Stutter
<1> QED
  BY <1>10, <1>11

LEMMA ReleaseCallbackTurn ==
    ASSUME IInv, NEW j \in Job, ReleaseCallback(j), NEW x \in Zone
    PROVE  Turns(x)!Leave(j) \/ UNCHANGED Turns(x)!vars
<1> DEFINE m == MgmtOf[j]
<1>1. TypeOK /\ PlanInv /\ QueueInv
  BY DEF IInv, TypeInv
<1>2. PICK z \in todo[j] : z = First(j) /\ z \in Zone
  BY <1>1, FirstIsToDo DEF TypeOK, ReleaseCallback
<1> DEFINE q == lockingQueue[m][z]
           end == AfterRelease(j)
<1>3. /\ pc[j] = "released"
      /\ todo' = [todo EXCEPT ![j] = @ \ {z}]
      /\ UNCHANGED <<holder, have>>
      /\ \/ /\ q = <<>>
            /\ waitingForLock' = [waitingForLock EXCEPT ![m][z] = FALSE]
            /\ pc' = [pc EXCEPT ![j] = end]
            /\ lockingQueue' = lockingQueue
         \/ \E soon \in BOOLEAN :
            /\ q # <<>>
            /\ lockingQueue' = [lockingQueue EXCEPT ![m][z] = Tail(q)]
            /\ waitingForLock' = [waitingForLock EXCEPT ![m][z] = soon]
            /\ pc' = [pc EXCEPT ![j] = end,
                               ![Head(q)] = IF soon THEN "asking" ELSE "timer"]
  BY <1>2 DEF ReleaseCallback, QueueOf
<1>4. m \in Mgmt /\ z \in Zone /\ q \in Seq(Job)
  <2>1. m \in Mgmt
    BY JobAssumption
  <2> QED
    BY <1>1, <1>2, <2>1 DEF TypeOK
<1>5. z \notin have[j]
  BY <1>1, <1>2, <1>3 DEF PlanInv, PlanOf
<1>6. \A i \in Job \ {j} : todo'[i] = todo[i]
  BY <1>1, <1>3 DEF TypeOK
<1>7. end \in {"done", "releasing"}
  BY DEF AfterRelease
<1>8. /\ PlaceOf(j, z) = "leaving"
      /\ \A v \in Zone \ {z} : PlaceOf(j, v) = IF v \in have[j] THEN "in" ELSE "out"
  BY <1>2, <1>3, <1>5 DEF PlaceOf
<1> HIDE DEF m, q, end
<1>9. ASSUME pc'[j] = end
      PROVE  \A v \in Zone : PlaceOf(j, v)' = IF v = z THEN "out" ELSE PlaceOf(j, v)
  <2>1. \A v \in Zone : PlaceOf(j, v)' = IF v \in have[j] THEN "in" ELSE "out"
    BY <1>3, <1>7, <1>9 DEF PlaceOf
  <2> QED
    BY <1>5, <1>8, <2>1
<1>10. FlagsAt(z)[m] = waitingForLock[m][z] /\ QueuesAt(z)[m] = q
  BY <1>4 DEF FlagsAt, QueuesAt, q
<1>11. PlacesAt(z)[j] = "leaving"
  BY <1>8 DEF PlacesAt
<1>12. CASE /\ q = <<>>
            /\ waitingForLock' = [waitingForLock EXCEPT ![m][z] = FALSE]
            /\ pc' = [pc EXCEPT ![j] = end]
            /\ lockingQueue' = lockingQueue
  <2>1. pc'[j] = end /\ \A i \in Job \ {j} : pc'[i] = pc[i]
    BY <1>1, <1>12 DEF TypeOK
  <2>2. FlagsAt(x)' = IF x = z THEN [FlagsAt(x) EXCEPT ![m] = FALSE] ELSE FlagsAt(x)
    BY <1>1, <1>4, <1>12, FlagsSet
  <2>3. QueuesAt(x)' = QueuesAt(x)
    BY <1>12 DEF QueuesAt
  <2>4. CASE x = z
    <3>1. PlacesAt(z)' = [PlacesAt(z) EXCEPT ![j] = "out"]
      BY <1>3, <1>4, <1>6, <1>9, <2>1, OneMoves
    <3> QED
      BY <1>3, <1>10, <1>11, <1>12, <2>2, <2>3, <2>4, <3>1
         DEF Turns!Leave, Turns!lockVars, m
  <2>5. CASE x # z
    BY <1>3, <1>6, <1>9, <2>1, <2>2, <2>3, <2>5, Stutter
  <2> QED
    BY <2>4, <2>5
<1>13. ASSUME NEW soon \in BOOLEAN, q # <<>>,
              lockingQueue' = [lockingQueue EXCEPT ![m][z] = Tail(q)],
              waitingForLock' = [waitingForLock EXCEPT ![m][z] = soon],
              pc' = [pc EXCEPT ![j] = end,
                               ![Head(q)] = IF soon THEN "asking" ELSE "timer"]
       PROVE  Turns(x)!Leave(j) \/ UNCHANGED Turns(x)!vars
  <2> DEFINE next == IF soon THEN "asking" ELSE "timer"
  <2>1. PICK h \in Job : h = Head(q) /\ h = q[1] /\ 1 \in 1..Len(q)
    BY <1>4, <1>13
  <2>2. pc[h] = "queued" /\ First(h) = z
    BY <1>1, <1>4, <2>1 DEF QueueInv, QueueIsRight, Waiting, q
  <2>3. h # j
    BY <1>3, <2>2
  <2>4. z \notin have[h]
    <3>1. PlanOf(h) /\ First(h) \in todo[h]
      BY <1>1, <2>2, FirstIsToDo DEF PlanInv, TypeOK
    <3> QED
      BY <1>1, <2>2, <3>1, WaitsForOther DEF Asking
  <2>5. /\ pc'[j] = end /\ pc'[h] = next
        /\ \A i \in Job \ {h, j} : pc'[i] = pc[i]
    BY <1>1, <1>13, <2>1, <2>3 DEF TypeOK
  <2>6. FlagsAt(x)' = IF x = z THEN [FlagsAt(x) EXCEPT ![m] = soon] ELSE FlagsAt(x)
    BY <1>1, <1>4, <1>13, FlagsSet
  <2> DEFINE tail == Tail(q)
  <2>7. QueuesAt(x)' = IF x = z THEN [QueuesAt(x) EXCEPT ![m] = tail] ELSE QueuesAt(x)
    <3>1. lockingQueue' = [lockingQueue EXCEPT ![m][z] = tail]
      BY <1>13
    <3> HIDE DEF tail
    <3> QED
      BY <1>1, <1>4, <3>1, QueuesSet
  <2>8. /\ PlaceOf(h, z)' = next
        /\ \A v \in Zone \ {z} : PlaceOf(h, v)' = PlaceOf(h, v)
    <3>1. First(h)' = z /\ have' = have
      BY <1>3, <1>6, <2>2, <2>3, <2>5, SameFirst DEF Releases
    <3>2. pc'[h] \in {"asking", "timer"} /\ pc'[h] = next
      BY <2>5
    <3> HIDE DEF next
    <3>3. PlaceOf(h, z)' = next
      BY <2>4, <3>1, <3>2 DEF PlaceOf
    <3>4. \A v \in Zone \ {z} : PlaceOf(h, v)' = PlaceOf(h, v)
      BY <2>2, <3>1, <3>2 DEF PlaceOf
    <3> QED
      BY <3>3, <3>4
  <2>9. \A i \in Job \ {h, j} : PlaceOf(i, x)' = PlaceOf(i, x)
    BY <1>3, <1>6, <2>5, SamePlace
  <2> HIDE DEF next
  <2>10. CASE x = z
    <3>1. PlacesAt(z)' = [PlacesAt(z) EXCEPT ![j] = "out", ![h] = next]
      BY <1>4, <1>9, <2>3, <2>5, <2>8, <2>9, <2>10 DEF PlacesAt
    <3> QED
      BY <1>3, <1>10, <1>11, <1>13, <2>1, <2>6, <2>7, <2>10, <3>1
         DEF Turns!Leave, Turns!lockVars, m, next
  <2>11. CASE x # z
    <3>1. PlacesAt(x)' = PlacesAt(x)
      BY <1>9, <2>5, <2>8, <2>9, <2>11 DEF PlacesAt
    <3> QED
      BY <1>3, <2>6, <2>7, <2>11, <3>1 DEF Turns!vars, Turns!lockVars, Turns!queueVars
  <2> QED
    BY <2>10, <2>11
<1> QED
  BY <1>3, <1>12, <1>13

LEMMA InitTurns ==
    ASSUME Init, NEW x \in Zone
    PROVE  Turns(x)!Init
<1>1. PlacesAt(x) = [j \in Job |-> "out"]
  BY DEF Init, PlacesAt, PlaceOf
<1> QED
  BY <1>1 DEF Init, Turns!Init, FlagsAt, QueuesAt

LEMMA StepTurns ==
    ASSUME IInv, Next, NEW x \in Zone, x \notin stray \cup stray'
    PROVE  Turns(x)!Next \/ UNCHANGED Turns(x)!vars
<1>1. LockAt(x)
  BY DEF IInv, LockInv
<1>2. ASSUME NEW j \in Job, Start(j) \/ Step(j), Follow(j)
      PROVE  \/ Turns(x)!Ask(j) \/ Turns(x)!Take(j) \/ Turns(x)!Give(j) \/ Turns(x)!Leave(j)
             \/ UNCHANGED Turns(x)!vars
  <2>1. ASSUME ReleaseLock(j)
        PROVE  Turns(x)!Give(j) \/ UNCHANGED Turns(x)!vars
    <3>1. x \in GivesAway(j) => x \in stray'
      <4>1. ASSUME x \in GivesAway(j)
            PROVE  Uses(j, x)'
        <5>1. x = First(j) /\ pc'[j] = "released" /\ todo'[j] = todo[j] /\ pc[j] = "releasing"
          BY <2>1, <4>1 DEF GivesAway, ReleaseLock
        <5>2. First(j)' = x
          BY <5>1, SameFirst DEF Releases
        <5> QED
          BY <5>1, <5>2 DEF Uses
      <4> QED
        BY <1>2, <4>1 DEF Follow
    <3>2. x = First(j) => x \in have[j]
      BY <1>2, <2>1, <3>1, ReleasesOwn
    <3> QED
      BY <1>1, <2>1, <3>2, ReleaseLockTurn
  <2> QED
    BY <1>2, <2>1, StartTurn, DeferredAcquireTurn, TakeLockTurn, ReleaseTurn,
       ReleaseCallbackTurn DEF Step
<1> QED
  BY <1>2 DEF Next, Turns!Next

(* acquireLockByZones, acquireGlobalLock and their releases use the lock   *)
(* of each zone in the way of module ZoneTurns, whatever they do to the    *)
(* other zones in between, and except while the zone is stray (lock.js:471 *)
(* gave it away): so what is reduced to a holder in this module is what    *)
(* module ZoneLock shows the lock of a zone to be.                         *)
THEOREM JobsUseLocks == Spec => UsesLocks
<1>1. Init => \A z \in Zone : Turns(z)!Init
  BY InitTurns
<1>2. IInv /\ [Next]_vars =>
        [\A z \in Zone : \/ z \in stray \cup stray'
                        \/ Turns(z)!Next \/ UNCHANGED Turns(z)!vars]_vars
  BY StepTurns
<1>3. IInv /\ [Next]_vars => IInv'
  BY InductiveStep
<1> QED
  BY <1>1, <1>2, <1>3, InitInv, PTL DEF Spec, UsesLocks
=============================================================================
