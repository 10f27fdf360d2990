------------------------------ MODULE ZoneLock ------------------------------
(***************************************************************************)
(* The lock of one zone: class Lock of src/modules/lock.js, the queue of   *)
(* src/queue.js and the document of the zone in the Mongo collection       *)
(* "lock", shared by several management processes.                         *)
(*                                                                         *)
(* A request is one call of acquireLockByZone with its callback.  Inside a *)
(* management the requests are serialised by waitingForLock and the FIFO   *)
(* lockingQueue; between managements the document is taken by compare and  *)
(* swap on lockCounter, and taken over from a management whose heartbeat   *)
(* (managementCluster.dateModified) is too old or whose bootVersion has    *)
(* passed.  Every call to the database is a step of its own: what a        *)
(* request read may be stale when it acts on it.                           *)
(***************************************************************************)
EXTENDS Integers, Sequences

CONSTANTS
    Mgmt,          \* the management processes, by managementId
    Req,           \* the requests for the lock, each made once
    MgmtOf,        \* the management that makes each request
    NoMgmt,        \* handledBy of a document that nobody has locked yet
    ReleaseLimit,  \* lockReleaseSetTimeoutCounter (25 in the code)
    CanStall,      \* may a running management miss its heartbeats?
    MaxBoot,       \* bound: the boots of one management
    MaxErrors      \* bound: the database errors of one behaviour

ASSUME MgmtOfAssumption  == MgmtOf \in [Req -> Mgmt]
ASSUME NoMgmtAssumption  == NoMgmt \notin Mgmt
ASSUME LimitAssumption   == ReleaseLimit \in Nat \ {0}
ASSUME StallAssumption   == CanStall \in BOOLEAN
ASSUME BoundsAssumption  == MaxBoot \in Nat \ {0} /\ MaxErrors \in Nat

VARIABLES
    lockDoc,         \* the document of the zone in the collection "lock"
    fresh,           \* is dateModified younger than MANAGEMENT_TIMED_OUT_INTERVAL?
    up,              \* is the process of the management running?
    bootVersion,     \* configurationVersion.managements[m].bootVersion
    waitingForLock,  \* Lock.waitingForLock, per management
    lockingQueue,    \* Lock.lockingQueue, per management
    releaseCounter,  \* Lock.releaseCounter, per management
    pc,              \* where each request is
    oldLock,         \* the document the request last read (oldLock, lock)
    errors,          \* database errors so far
    lapsed           \* history: lockCounters whose holder crashed, went silent or
                     \* passed for dead by an error

dbVars   == <<lockDoc, lapsed>>
procVars == <<up, bootVersion, fresh>>
memVars  == <<waitingForLock, lockingQueue, releaseCounter>>
vars     == <<lockDoc, fresh, up, bootVersion, waitingForLock, lockingQueue,
              releaseCounter, pc, oldLock, errors, lapsed>>

-----------------------------------------------------------------------------
(* A lockCounter of 0 stands for a document that does not exist.           *)
LockDoc == [lockCounter : Nat, status : {"absent", "unlocked", "locked"},
            managementId : Mgmt \cup {NoMgmt}, bootVersion : Nat]

Absent  == [lockCounter |-> 0, status |-> "absent",
            managementId |-> NoMgmt, bootVersion |-> 0]

(* What initialLockCreation inserts, and what it hands to createLock.      *)
InitialLock == [Absent EXCEPT !.lockCounter = 1, !.status = "unlocked"]

PCs == {"idle",       \* not called yet
        "queued",     \* in lockingQueue
        "deferred",   \* dequeued, its acquireLock waits for a timer
        "find",       \* lockCollection.findOne in flight
        "checkAlive", \* managementCluster.findOne in flight
        "initial",    \* initialLockCreation in flight
        "update",     \* createLock's findOneAndUpdate in flight
        "retry",      \* acquireLock(cb, true) waits for a timer
        "locked",     \* called back without error: the critical section
        "failed",     \* called back with an error
        "released",   \* releaseLock's updateOne executed, its callback pending
        "done",       \* finished
        "lost"}       \* gone with its process

(* The request its management is working on: all others of it must wait.   *)
AtWork == {"find", "checkAlive", "initial", "update", "retry", "locked", "failed",
           "released"}
Active(r) == pc[r] \in AtWork

InSection(r) == pc[r] = "locked"

(* The lockCounter under which r got the lock.                             *)
Ticket(r) == oldLock[r].lockCounter + 1

LockedBy(m) == lockDoc.status = "locked" /\ lockDoc.managementId = m

Holds(r) == /\ LockedBy(MgmtOf[r])
            /\ lockDoc.bootVersion = bootVersion[MgmtOf[r]]
            /\ lockDoc.lockCounter = Ticket(r)

Init == /\ lockDoc = Absent
        /\ fresh = [m \in Mgmt |-> TRUE]
        /\ up = [m \in Mgmt |-> TRUE]
        /\ bootVersion = [m \in Mgmt |-> 1]
        /\ waitingForLock = [m \in Mgmt |-> FALSE]
        /\ lockingQueue = [m \in Mgmt |-> <<>>]
        /\ releaseCounter = [m \in Mgmt |-> 0]
        /\ pc = [r \in Req |-> "idle"]
        /\ oldLock = [r \in Req |-> Absent]
        /\ errors = 0
        /\ lapsed = {}

-----------------------------------------------------------------------------
(* acquireLock's first test.  The variant looks at the queue instead.      *)
MustWaitIfQueue(m) == lockingQueue[m] # <<>>
MustWait(m) == waitingForLock[m]

(* acquireLock(cb, false) of a request that is at `from`: enqueue behind   *)
(* the request at work, or set the flag and go to the database.            *)
AcquireLock(r, from) ==
    LET m == MgmtOf[r] IN
    /\ pc[r] = from
    /\ up[m]
    /\ \/ /\ MustWait(m)
          /\ lockingQueue' = [lockingQueue EXCEPT ![m] = Append(@, r)]
          /\ pc' = [pc EXCEPT ![r] = "queued"]
          /\ UNCHANGED waitingForLock
       \/ /\ ~MustWait(m)
          /\ waitingForLock' = [waitingForLock EXCEPT ![m] = TRUE]
          /\ pc' = [pc EXCEPT ![r] = "find"]
          /\ UNCHANGED lockingQueue
    /\ UNCHANGED <<dbVars, procVars, releaseCounter, oldLock, errors>>

(* acquireLockByZone, and the timer of releaseLock for a dequeued entry.   *)
AcquireLockByZone(r) == AcquireLock(r, "idle")
DeferredAcquire(r)   == AcquireLock(r, "deferred")

(* Step of a request that touches nothing but its own place and memory.    *)
GoTo(r, from, to, lock) ==
    /\ pc[r] = from
    /\ pc' = [pc EXCEPT ![r] = to]
    /\ oldLock' = [oldLock EXCEPT ![r] = lock]

(* acquireLock's findOne and the decision of its callback.                 *)
FindLock(r) ==
    LET m == MgmtOf[r] IN
    /\ \/ lockDoc.status = "absent"   /\ GoTo(r, "find", "initial", lockDoc)
       \/ lockDoc.status = "unlocked" /\ GoTo(r, "find", "update", lockDoc)
       \/ /\ LockedBy(m) /\ lockDoc.bootVersion < bootVersion[m]
          /\ GoTo(r, "find", "update", lockDoc)
       \/ /\ LockedBy(m) /\ ~(lockDoc.bootVersion < bootVersion[m])
          /\ GoTo(r, "find", "retry", lockDoc)
       \/ /\ lockDoc.status = "locked" /\ lockDoc.managementId # m
          /\ GoTo(r, "find", "checkAlive", lockDoc)
    /\ UNCHANGED <<dbVars, procVars, memVars, errors>>

(* checkIfRemoteManagementIsAlive for the holder that was read: the lock   *)
(* may have changed hands since.  Variant: nobody ever passes for dead.    *)
HolderRead(r) == oldLock[r].managementId

IsAliveForever(m) == TRUE
IsAlive(m) == fresh[m]

CheckAlive(r) ==
    /\ GoTo(r, "checkAlive", IF IsAlive(HolderRead(r)) THEN "retry" ELSE "update",
            oldLock[r])
    /\ UNCHANGED <<dbVars, procVars, memVars, errors>>

(* initialLockCreation: an upsert with $setOnInsert.  Variant: with $set.  *)
UpsertOverwriting == InitialLock
Upsert == IF lockDoc.status = "absent" THEN InitialLock ELSE lockDoc

InitialLockCreation(r) ==
    /\ GoTo(r, "initial", "update", InitialLock)
    /\ lockDoc' = Upsert
    /\ UNCHANGED <<procVars, memVars, errors, lapsed>>

(* The document after findOneAndUpdate of management m, and the history of *)
(* silent holders: m may itself be silent when it takes the lock.          *)
TakeLock(m) ==
    /\ lockDoc' = [lockCounter |-> lockDoc.lockCounter + 1, status |-> "locked",
                   managementId |-> m, bootVersion |-> bootVersion[m]]
    /\ lapsed' = IF fresh[m] THEN lapsed ELSE lapsed \cup {lockDoc.lockCounter + 1}

(* The filter of createLock: the counter that was read, and no status.     *)
(* Variant: any document of the zone will do.                              *)
Exists(r) == lockDoc.lockCounter # 0
Unchanged(r) == lockDoc.lockCounter = oldLock[r].lockCounter

(* createLock's findOneAndUpdate: locked, or somebody was faster.          *)
CreateLock(r) ==
    /\ \/ /\ Unchanged(r)
          /\ TakeLock(MgmtOf[r])
          /\ GoTo(r, "update", "locked", oldLock[r])
       \/ /\ ~Unchanged(r)
          /\ GoTo(r, "update", "retry", oldLock[r])
          /\ UNCHANGED dbVars
    /\ UNCHANGED <<procVars, memVars, errors>>

(* The timer of acquireLock(cb, true).                                     *)
RetryAcquire(r) ==
    /\ GoTo(r, "retry", "find", oldLock[r])
    /\ UNCHANGED <<dbVars, procVars, memVars, errors>>

(* releaseLock's updateOne: it asks for the management, not for the boot   *)
(* or the counter under which the lock was taken.  Variant: it asks for no *)
(* one.                                                                    *)
UnlockAnyHolder(r) ==
    /\ lockDoc' = IF lockDoc.status = "locked" THEN [lockDoc EXCEPT !.status = "unlocked"]
                                               ELSE lockDoc
    /\ UNCHANGED lapsed

Unlock(r) ==
    /\ lockDoc' = IF LockedBy(MgmtOf[r]) THEN [lockDoc EXCEPT !.status = "unlocked"]
                                         ELSE lockDoc
    /\ UNCHANGED lapsed

ReleaseLock(r) ==
    /\ GoTo(r, "locked", "released", oldLock[r])
    /\ Unlock(r)
    /\ UNCHANGED <<procVars, memVars, errors>>

(* The callback of updateOne: clear the flag and start the next in the     *)
(* queue, every ReleaseLimit-th of them only after a timer.  Variants: the *)
(* flag stays set while somebody is queued; the counter is not reset.      *)
Soon(m) == releaseCounter[m] + 1 < ReleaseLimit

FlagWhileQueued(m) == lockingQueue[m] # <<>>
FlagAfterRelease(m) == lockingQueue[m] # <<>> /\ Soon(m)

CountOn(m) == releaseCounter[m] + 1
CountAfterRelease(m) == IF Soon(m) THEN releaseCounter[m] + 1 ELSE 0

ReleaseCallback(r) ==
    LET m == MgmtOf[r]
        q == lockingQueue[m]
    IN
    /\ pc[r] = "released"
    /\ waitingForLock' = [waitingForLock EXCEPT ![m] = FlagAfterRelease(m)]
    /\ \/ /\ q = <<>>
          /\ pc' = [pc EXCEPT ![r] = "done"]
          /\ UNCHANGED <<lockingQueue, releaseCounter>>
       \/ /\ q # <<>>
          /\ lockingQueue' = [lockingQueue EXCEPT ![m] = Tail(q)]
          /\ releaseCounter' = [releaseCounter EXCEPT ![m] = CountAfterRelease(m)]
          /\ pc' = [pc EXCEPT ![r] = "done",
                              ![Head(q)] = IF Soon(m) THEN "find" ELSE "deferred"]
    /\ UNCHANGED <<dbVars, procVars, oldLock, errors>>

-----------------------------------------------------------------------------
(* The environment: processes and heartbeats.                              *)

(* The memory of a process that stopped: its calls are gone with it.       *)
ForgetProcess(m) ==
    /\ up' = [up EXCEPT ![m] = FALSE]
    /\ waitingForLock' = [waitingForLock EXCEPT ![m] = FALSE]
    /\ lockingQueue' = [lockingQueue EXCEPT ![m] = <<>>]
    /\ releaseCounter' = [releaseCounter EXCEPT ![m] = 0]
    /\ pc' = [r \in Req |-> IF MgmtOf[r] = m /\ pc[r] \notin {"idle", "done"}
                              THEN "lost" ELSE pc[r]]
    /\ UNCHANGED <<fresh, bootVersion, oldLock>>

(* The current lockCounter when m holds the lock: its holder went silent.  *)
HeldBy(m) == IF LockedBy(m) THEN {lockDoc.lockCounter} ELSE {}

Crash(m) ==
    /\ up[m]
    /\ bootVersion[m] < MaxBoot
    /\ ForgetProcess(m)
    /\ lapsed' = lapsed \cup HeldBy(m)
    /\ UNCHANGED <<lockDoc, errors>>

(* bootstrap: the next bootVersion, then the heartbeat document.           *)
Restart(m) ==
    /\ ~up[m]
    /\ up' = [up EXCEPT ![m] = TRUE]
    /\ bootVersion' = [bootVersion EXCEPT ![m] = @ + 1]
    /\ fresh' = [fresh EXCEPT ![m] = TRUE]
    /\ UNCHANGED <<dbVars, memVars, pc, oldLock, errors>>

(* MANAGEMENT_TIMED_OUT_INTERVAL passes without a heartbeat of m.          *)
HeartbeatExpires(m) ==
    /\ fresh[m]
    /\ ~up[m] \/ CanStall
    /\ fresh' = [fresh EXCEPT ![m] = FALSE]
    /\ lapsed' = lapsed \cup HeldBy(m)
    /\ UNCHANGED <<lockDoc, up, bootVersion, memVars, pc, oldLock, errors>>

(* updateOrInsertManagementToCluster of a management that was late.        *)
Heartbeat(m) ==
    /\ up[m]
    /\ ~fresh[m]
    /\ fresh' = [fresh EXCEPT ![m] = TRUE]
    /\ UNCHANGED <<dbVars, up, bootVersion, memVars, pc, oldLock, errors>>

-----------------------------------------------------------------------------
(* Errors of the database.                                                 *)
DBError == errors < MaxErrors /\ errors' = errors + 1

(* findOne failed: lock is undefined, so createLock starts from scratch.   *)
FindLockError(r) ==
    /\ DBError
    /\ GoTo(r, "find", "initial", oldLock[r])
    /\ UNCHANGED <<dbVars, procVars, memVars>>

(* A holder whose heartbeat cannot be read passes for dead: if it still is *)
(* the holder, its lease lapses by this error.                             *)
CheckAliveError(r) ==
    /\ DBError
    /\ GoTo(r, "checkAlive", "update", oldLock[r])
    /\ lapsed' = lapsed \cup IF Unchanged(r) /\ lockDoc.status = "locked"
                               THEN {lockDoc.lockCounter} ELSE {}
    /\ UNCHANGED <<lockDoc, procVars, memVars>>

(* initialLockCreation does not look at its error.                         *)
InitialCreationError(r) ==
    /\ DBError
    /\ GoTo(r, "initial", "update", InitialLock)
    /\ UNCHANGED <<dbVars, procVars, memVars>>

(* createLock calls back with the error; the write may have been applied.  *)
CreateLockError(r) ==
    /\ DBError
    /\ GoTo(r, "update", "failed", oldLock[r])
    /\ \/ Unchanged(r) /\ TakeLock(MgmtOf[r])
       \/ UNCHANGED dbVars
    /\ UNCHANGED <<procVars, memVars>>

(* The callers: some give up, which leaves waitingForLock set; others do   *)
(* not look at the error, or release what they did not get.                *)
GiveUp(r) ==
    /\ GoTo(r, "failed", "done", oldLock[r])
    /\ UNCHANGED <<dbVars, procVars, memVars, errors>>

ReleaseFailed(r) ==
    /\ GoTo(r, "failed", "released", oldLock[r])
    /\ Unlock(r)
    /\ UNCHANGED <<procVars, memVars, errors>>

(* releaseLock reads modifiedCount of a result it does not have: the       *)
(* exception ends the process, whether the write was applied or not.       *)
ReleaseLockError(r) ==
    /\ DBError
    /\ InSection(r)
    /\ bootVersion[MgmtOf[r]] < MaxBoot
    /\ ForgetProcess(MgmtOf[r])
    /\ lapsed' = lapsed \cup HeldBy(MgmtOf[r])
    /\ \/ UNCHANGED lockDoc
       \/ LockedBy(MgmtOf[r]) /\ lockDoc' = [lockDoc EXCEPT !.status = "unlocked"]

-----------------------------------------------------------------------------
(* What one request does by itself once it was made.                       *)
Progress(r) == \/ DeferredAcquire(r)     \/ FindLock(r)   \/ CheckAlive(r)
               \/ InitialLockCreation(r) \/ CreateLock(r) \/ RetryAcquire(r)
               \/ ReleaseCallback(r)

Environment(m) == \/ Crash(m) \/ Restart(m) \/ HeartbeatExpires(m) \/ Heartbeat(m)

Errors(r) == \/ FindLockError(r)   \/ CheckAliveError(r) \/ InitialCreationError(r)
             \/ CreateLockError(r) \/ GiveUp(r)          \/ ReleaseFailed(r)
             \/ ReleaseLockError(r)

Next == \/ \E r \in Req : AcquireLockByZone(r) \/ Progress(r) \/ ReleaseLock(r)
        \/ \E m \in Mgmt : Environment(m)

Spec == Init /\ [][Next]_vars

(* With a database that fails.                                             *)
FaultSpec == Init /\ [][Next \/ \E r \in Req : Errors(r)]_vars

(* Timers fire, the database answers, callers release in their epilogue,   *)
(* a dead management's heartbeat grows old.  Nobody need ask for the lock, *)
(* crash or restart.                                                       *)
Fairness == /\ \A r \in Req : WF_vars(Progress(r)) /\ WF_vars(ReleaseLock(r))
            /\ \A m \in Mgmt : WF_vars(~up[m] /\ HeartbeatExpires(m))
FairSpec == Spec /\ Fairness

-----------------------------------------------------------------------------
TypeOK == /\ lockDoc \in LockDoc
          /\ fresh \in [Mgmt -> BOOLEAN]
          /\ up \in [Mgmt -> BOOLEAN]
          /\ bootVersion \in [Mgmt -> Nat]
          /\ waitingForLock \in [Mgmt -> BOOLEAN]
          /\ lockingQueue \in [Mgmt -> Seq(Req)]
          /\ releaseCounter \in [Mgmt -> 0..(ReleaseLimit - 1)]
          /\ pc \in [Req -> PCs]
          /\ oldLock \in [Req -> LockDoc]
          /\ errors \in Nat
          /\ lapsed \subseteq Nat

(* Two requests, of one management or of two, are in the critical section  *)
(* of the zone together only if the heartbeat of one of them has lapsed    *)
(* since it took the lock: crashes, restarts, takeovers and the window     *)
(* between reading the lock and updating it never give it away twice.      *)
ExclusiveUnlessLapsed ==
    \A r, s \in Req : InSection(r) /\ InSection(s) /\ r # s
        => Ticket(r) \in lapsed \/ Ticket(s) \in lapsed

(* When running managements keep their heartbeats, at most one request of  *)
(* the cluster is in the critical section, whatever crashes and restarts.  *)
MutualExclusion ==
    ~CanStall => \A r, s \in Req : InSection(r) /\ InSection(s) => r = s

(* A request in the critical section is the holder the document names,     *)
(* under the current boot, until its heartbeat lapses: no release of       *)
(* another request and no takeover removes the lock from under it.         *)
SectionHoldsLock == \A r \in Req : InSection(r) => Holds(r) \/ Ticket(r) \in lapsed

(* waitingForLock serialises a management: while one request is at work no  *)
(* other of it is, also when the deferred entry of releaseLock and a new   *)
(* request arrive together, and whatever the database answers.             *)
SerialInManagement ==
    \A r \in Req : Active(r)
        => /\ waitingForLock[MgmtOf[r]]
           /\ \A s \in Req : Active(s) /\ MgmtOf[s] = MgmtOf[r] => s = r

(* lockingQueue holds every queued request once, and a management that     *)
(* waits or has a queue has somebody left to dequeue it: a request at      *)
(* work, or a deferred one.                                                *)
NoLostWakeup ==
    \A m \in Mgmt :
        LET q == lockingQueue[m] IN
           /\ \A i, j \in DOMAIN q : q[i] = q[j] => i = j
           /\ \A r \in Req : MgmtOf[r] = m /\ pc[r] = "queued"
                               <=> \E i \in DOMAIN q : q[i] = r
           /\ waitingForLock[m] => \E r \in Req : MgmtOf[r] = m /\ Active(r)
           /\ q # <<>> => \E r \in Req : MgmtOf[r] = m /\ (Active(r) \/ pc[r] = "deferred")

(* "I'm stealing the lock from a dead mgmt" (lock.js:157): a lock is only  *)
(* taken from a holder that crashed or went silent while it held it.       *)
StealOnlyFromDead ==
    [][ lockDoc.status = "locked" /\ lockDoc'.lockCounter # lockDoc.lockCounter
        => lockDoc.lockCounter \in lapsed ]_vars

(* The lease this lock implements.                                         *)
Lease == INSTANCE ZoneLease WITH
    Client <- Req,
    epoch  <- IF lockDoc.lockCounter = 0 THEN 1 ELSE lockDoc.lockCounter,
    held   <- lockDoc.status = "locked",
    ticket <- [r \in Req |-> IF InSection(r) THEN Ticket(r) ELSE 0]

(* The zone lock is a lease: what a request does to the document, queued,  *)
(* retried or raced by others, is a grant, a release or nothing.           *)
ImplementsLease == Lease!Spec

(* The lock as those see it who use it, such as the jobs of ZoneLocks.     *)
Holder == IF lockDoc.status = "locked" THEN lockDoc.managementId ELSE NoMgmt

Overdue == lockDoc.status = "locked" /\ lockDoc.lockCounter \in lapsed

PlaceAt(step) ==
    CASE step \in {"idle", "done", "lost"} -> "out"
      [] step = "queued"   -> "queued"
      [] step = "deferred" -> "timer"
      [] step = "locked"   -> "in"
      [] step = "released" -> "leaving"
      [] OTHER             -> "asking"

Turns == INSTANCE ZoneTurns WITH
    User    <- Req,
    holder  <- Holder,
    overdue <- Overdue,
    waiting <- waitingForLock,
    queue   <- lockingQueue,
    place   <- [r \in Req |-> PlaceAt(pc[r])]

(* Requests take turns: within a management one at a time, in the order of *)
(* the queue; between managements by the document, which goes from one     *)
(* that released it, crashed or went silent to the next, and is not freed  *)
(* for a holder by the release of another.                                 *)
ImplementsTurns == Turns!Spec

Waiting(r) == pc[r] \in {"queued", "deferred", "find", "checkAlive", "initial",
                         "update", "retry"}

(* The lock of a process that is gone, under the name of one that is back. *)
HeldByOldBoot == \E m \in Mgmt : /\ LockedBy(m)
                                 /\ up[m] /\ lockDoc.bootVersion < bootVersion[m]

(* Every waiting request is served, or its process stops - or the lock     *)
(* stays with the earlier boot of a management that is back: its heartbeat *)
(* is fresh again, so the others wait until it asks for the lock itself.   *)
ServedUnlessOldBoot == \A r \in Req : Waiting(r) ~> ~Waiting(r) \/ HeldByOldBoot
=============================================================================
