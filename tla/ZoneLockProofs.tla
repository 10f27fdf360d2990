--------------------------- MODULE ZoneLockProofs ---------------------------
(***************************************************************************)
(* The zone lock is exclusive, implements the lease of ZoneLease, and      *)
(* forgets no request in its queue, for any number of managements,         *)
(* requests, boots, missed heartbeats and (except exclusion itself and the *)
(* queue) database errors.                                                 *)
(***************************************************************************)
EXTENDS ZoneLock, TLAPS

USE MgmtOfAssumption

LEMMA AcquireLockType ==
    ASSUME TypeOK, NEW r \in Req, NEW from, AcquireLock(r, from)
    PROVE  TypeOK'
<1> DEFINE m == MgmtOf[r]
<1>1. m \in Mgmt
    OBVIOUS
<1>2. lockingQueue' \in [Mgmt -> Seq(Req)]
    <2>1. lockingQueue[m] \in Seq(Req)
        BY <1>1 DEF TypeOK
    <2>2. Append(lockingQueue[m], r) \in Seq(Req)
        BY <2>1
    <2> QED BY <1>1, <2>2 DEF TypeOK, AcquireLock
<1>3. waitingForLock' \in [Mgmt -> BOOLEAN]
    BY <1>1 DEF TypeOK, AcquireLock
<1>4. pc' \in [Req -> PCs]
    BY <1>1 DEF TypeOK, AcquireLock, PCs
<1> QED BY <1>2, <1>3, <1>4 DEF TypeOK, AcquireLock, dbVars, procVars

LEMMA ReleaseCallbackType ==
    ASSUME TypeOK, NEW r \in Req, ReleaseCallback(r)
    PROVE  TypeOK'
<1> DEFINE m == MgmtOf[r]
           q == lockingQueue[m]
<1>1. m \in Mgmt /\ q \in Seq(Req)
    BY DEF TypeOK
<1>2. q # <<>> => Head(q) \in Req /\ Tail(q) \in Seq(Req)
    BY <1>1
<1>3. lockingQueue' \in [Mgmt -> Seq(Req)]
    BY <1>1, <1>2 DEF TypeOK, ReleaseCallback
<1>4. waitingForLock' \in [Mgmt -> BOOLEAN]
    BY <1>1 DEF TypeOK, ReleaseCallback, FlagAfterRelease, Soon
<1>5. pc' \in [Req -> PCs]
    BY <1>1, <1>2 DEF TypeOK, ReleaseCallback, PCs
<1>6. releaseCounter' \in [Mgmt -> 0..(ReleaseLimit - 1)]
    <2>1. CountAfterRelease(m) \in 0..(ReleaseLimit - 1)
        BY <1>1, LimitAssumption DEF TypeOK, CountAfterRelease, Soon
    <2> QED BY <1>1, <2>1 DEF TypeOK, ReleaseCallback
<1> QED BY <1>3, <1>4, <1>5, <1>6 DEF TypeOK, ReleaseCallback, dbVars, procVars

(* A step that moves one request and reads or keeps one document.          *)
LEMMA GoToType ==
    ASSUME TypeOK, NEW r \in Req, NEW from, NEW to \in PCs, NEW lock \in LockDoc,
           GoTo(r, from, to, lock)
    PROVE  pc' \in [Req -> PCs] /\ oldLock' \in [Req -> LockDoc]
BY DEF TypeOK, GoTo

LEMMA ProgressType ==
    ASSUME TypeOK, NEW r \in Req, Progress(r)
    PROVE  TypeOK'
<1> USE DEF dbVars, procVars, memVars
<1>0. lockDoc \in LockDoc /\ oldLock[r] \in LockDoc /\ InitialLock \in LockDoc
      /\ MgmtOf[r] \in Mgmt /\ bootVersion[MgmtOf[r]] \in Nat
    BY DEF TypeOK, LockDoc, InitialLock, Absent
<1>1. CASE DeferredAcquire(r)
    BY <1>1, AcquireLockType DEF DeferredAcquire
<1>2. CASE FindLock(r)
    BY <1>0, <1>2, GoToType DEF FindLock, TypeOK, PCs
<1>3. CASE CheckAlive(r)
    BY <1>0, <1>3, GoToType DEF CheckAlive, TypeOK, PCs
<1>4. CASE InitialLockCreation(r)
    BY <1>0, <1>4, GoToType DEF InitialLockCreation, Upsert, TypeOK, PCs
<1>5. CASE CreateLock(r)
    <2>1. pc' \in [Req -> PCs] /\ oldLock' \in [Req -> LockDoc]
        BY <1>0, <1>5, GoToType DEF CreateLock, PCs
    <2>2. CASE UNCHANGED dbVars
        BY <1>5, <2>1, <2>2 DEF CreateLock, TypeOK
    <2>3. CASE TakeLock(MgmtOf[r])
        <3>1. lockDoc.lockCounter + 1 \in Nat
            BY <1>0 DEF LockDoc
        <3>2. lockDoc' \in LockDoc /\ lapsed' \subseteq Nat
            BY <1>0, <2>3, <3>1 DEF TakeLock, LockDoc, TypeOK
        <3> QED BY <1>5, <2>1, <3>2 DEF CreateLock, TypeOK
    <2> QED BY <1>5, <2>2, <2>3 DEF CreateLock
<1>6. CASE RetryAcquire(r)
    BY <1>0, <1>6, GoToType DEF RetryAcquire, TypeOK, PCs
<1>7. CASE ReleaseCallback(r)
    BY <1>7, ReleaseCallbackType
<1> QED BY <1>1, <1>2, <1>3, <1>4, <1>5, <1>6, <1>7 DEF Progress

(* The document after releaseLock's update.                                *)
LEMMA UnlockType ==
    ASSUME lockDoc \in LockDoc, NEW r \in Req, Unlock(r)
    PROVE  lockDoc' \in LockDoc
BY DEF Unlock, LockDoc

(* The memory of a process that stopped.                                   *)
LEMMA ForgetType ==
    ASSUME TypeOK, NEW m \in Mgmt, ForgetProcess(m)
    PROVE  /\ pc' \in [Req -> PCs] /\ lockingQueue' \in [Mgmt -> Seq(Req)]
           /\ releaseCounter' \in [Mgmt -> 0..(ReleaseLimit - 1)]
           /\ up' \in [Mgmt -> BOOLEAN] /\ waitingForLock' \in [Mgmt -> BOOLEAN]
           /\ UNCHANGED <<fresh, bootVersion, oldLock>>
<1>1. pc' \in [Req -> PCs]
    BY DEF ForgetProcess, TypeOK, PCs
<1>2. lockingQueue' \in [Mgmt -> Seq(Req)]
    BY DEF ForgetProcess, TypeOK
<1>3. releaseCounter' \in [Mgmt -> 0..(ReleaseLimit - 1)]
    BY LimitAssumption DEF ForgetProcess, TypeOK
<1>4. up' \in [Mgmt -> BOOLEAN] /\ waitingForLock' \in [Mgmt -> BOOLEAN]
    BY DEF ForgetProcess, TypeOK
<1> QED BY <1>1, <1>2, <1>3, <1>4 DEF ForgetProcess

LEMMA EnvironmentType ==
    ASSUME TypeOK, NEW m \in Mgmt, Environment(m)
    PROVE  TypeOK'
<1> USE DEF dbVars, memVars
<1>1. HeldBy(m) \subseteq Nat
    BY DEF HeldBy, TypeOK, LockDoc
<1>2. CASE Crash(m)
    BY <1>1, <1>2, ForgetType DEF Crash, TypeOK
<1>3. CASE Restart(m)
    BY <1>3 DEF Restart, TypeOK
<1>4. CASE HeartbeatExpires(m)
    BY <1>1, <1>4 DEF HeartbeatExpires, TypeOK
<1>5. CASE Heartbeat(m)
    BY <1>5 DEF Heartbeat, TypeOK
<1> QED BY <1>2, <1>3, <1>4, <1>5 DEF Environment

(* Every step keeps the types, releaseCounter below its limit included.    *)
LEMMA TypeStep == TypeOK /\ [Next]_vars => TypeOK'
<1> SUFFICES ASSUME TypeOK, [Next]_vars PROVE TypeOK'
    OBVIOUS
<1>1. ASSUME NEW r \in Req, AcquireLockByZone(r) PROVE TypeOK'
    BY <1>1, AcquireLockType DEF AcquireLockByZone
<1>2. ASSUME NEW r \in Req, Progress(r) PROVE TypeOK'
    BY <1>2, ProgressType
<1>3. ASSUME NEW r \in Req, ReleaseLock(r) PROVE TypeOK'
    <2>1. pc' \in [Req -> PCs] /\ oldLock' \in [Req -> LockDoc]
        BY <1>3, GoToType DEF ReleaseLock, TypeOK, PCs
    <2>2. lockDoc' \in LockDoc
        BY <1>3, UnlockType DEF ReleaseLock, TypeOK
    <2> QED BY <1>3, <2>1, <2>2 DEF ReleaseLock, Unlock, TypeOK, procVars, memVars
<1>4. ASSUME NEW m \in Mgmt, Environment(m) PROVE TypeOK'
    BY <1>4, EnvironmentType
<1>5. CASE UNCHANGED vars
    BY <1>5 DEF vars, TypeOK
<1> QED BY <1>1, <1>2, <1>3, <1>4, <1>5 DEF Next

-----------------------------------------------------------------------------

(* lockingQueue holds requests of its own management that wait, each once. *)
QueueOf(m) ==
    LET q == lockingQueue[m] IN
    /\ \A i \in 1..Len(q) : MgmtOf[q[i]] = m /\ pc[q[i]] = "queued"
    /\ \A i, j \in 1..Len(q) : q[i] = q[j] => i = j

QueueInv == \A m \in Mgmt : QueueOf(m)

(* Only running processes have requests at work.                           *)
UpInv == \A r \in Req : Active(r) => up[MgmtOf[r]]

(* The document, and the holders known to have lapsed.                     *)
DocInv ==
    /\ lockDoc.status = "absent" <=> lockDoc.lockCounter = 0
    /\ lockDoc.status = "locked" =>
          /\ lockDoc.lockCounter >= 2
          /\ lockDoc.managementId \in Mgmt
    /\ \A m \in Mgmt :
          LockedBy(m) /\ ~(fresh[m] /\ up[m] /\ lockDoc.bootVersion = bootVersion[m])
              => lockDoc.lockCounter \in lapsed
    /\ \A n \in lapsed : n <= lockDoc.lockCounter

(* What a request read is not newer than the document, unless it took the  *)
(* first counter for inserted and the insertion had failed.  If the        *)
(* counter is still the same, a lock that is held now was held then, by    *)
(* the same one; who is about to update a held lock has a lapsed holder.   *)
ReadInv ==
    \A r \in Req :
        /\ pc[r] \in {"checkAlive", "update"} =>
              /\ 1 <= oldLock[r].lockCounter
              /\ oldLock[r].lockCounter = 1 \/ oldLock[r].lockCounter <= lockDoc.lockCounter
        /\ pc[r] = "checkAlive" =>
              /\ oldLock[r].managementId \in Mgmt
              /\ (Unchanged(r) /\ lockDoc.status = "locked")
                     => lockDoc.managementId = oldLock[r].managementId
        /\ pc[r] = "update" =>
              ((Unchanged(r) /\ lockDoc.status = "locked")
                     => lockDoc.lockCounter \in lapsed)

(* Whoever is in the section holds the lock, unless its lease lapsed.      *)
TicketInv ==
    \A r \in Req : InSection(r) =>
        /\ Ticket(r) <= lockDoc.lockCounter
        /\ Holds(r) \/ Ticket(r) \in lapsed

(* With heartbeats and a database that never fail, no lease lapses under a *)
(* live request.                                                           *)
StallInv ==
    ~CanStall /\ errors = 0 =>
                 /\ \A m \in Mgmt : up[m] => fresh[m]
                 /\ \A r \in Req : InSection(r) => Ticket(r) \notin lapsed

IInv == TypeOK /\ QueueInv /\ SerialInManagement /\ UpInv /\ DocInv
        /\ ReadInv /\ TicketInv /\ StallInv

-----------------------------------------------------------------------------
(* A queue that a step leaves alone, with those who wait in it.            *)
LEMMA QueueKept ==
    ASSUME TypeOK, QueueInv, NEW n \in Mgmt, lockingQueue'[n] = lockingQueue[n],
           \A s \in Req : pc[s] = "queued" /\ MgmtOf[s] = n => pc'[s] = "queued"
    PROVE  QueueOf(n)'
<1> DEFINE q == lockingQueue[n]
<1>1. q \in Seq(Req)
    BY DEF TypeOK
<1>2. QueueOf(n)
    BY DEF QueueInv
<1>3. ASSUME NEW i \in 1..Len(q)
      PROVE  MgmtOf[q[i]] = n /\ pc'[q[i]] = "queued"
    <2>1. q[i] \in Req
        BY <1>1
    <2>2. MgmtOf[q[i]] = n /\ pc[q[i]] = "queued"
        BY <1>2 DEF QueueOf
    <2> QED BY <2>1, <2>2
<1>4. \A i, j \in 1..Len(q) : q[i] = q[j] => i = j
    BY <1>2 DEF QueueOf
<1> HIDE DEF q
<1>5. lockingQueue'[n] = q
    BY DEF q
<1> QED BY <1>3, <1>4, <1>5 DEF QueueOf

(* A queue that a step empties.                                            *)
LEMMA QueueEmptied ==
    ASSUME NEW n \in Mgmt, lockingQueue'[n] = <<>>
    PROVE  QueueOf(n)'
<1>1. \A i \in 1..Len(lockingQueue'[n]) : FALSE
    <2>1. Len(lockingQueue'[n]) = 0
        OBVIOUS
    <2> QED BY <2>1
<1> QED BY <1>1 DEF QueueOf

(* The queue, the flag and the process, for a step that moves a request    *)
(* at work and leaves the memory of its management alone.                  *)
LEMMA MoveInv ==
    ASSUME TypeOK, QueueInv, SerialInManagement, UpInv,
           NEW r \in Req, NEW from \in AtWork, NEW to \in AtWork, NEW lock,
           GoTo(r, from, to, lock), UNCHANGED memVars, UNCHANGED up
    PROVE  QueueInv' /\ SerialInManagement' /\ UpInv'
<1>1. /\ pc[r] = from /\ pc'[r] = to /\ \A s \in Req \ {r} : pc'[s] = pc[s]
      /\ waitingForLock' = waitingForLock /\ lockingQueue' = lockingQueue
    BY DEF GoTo, TypeOK, memVars
<1>2. \A s \in Req : Active(s)' <=> Active(s)
    BY <1>1 DEF Active
<1>3. SerialInManagement' /\ UpInv'
    BY <1>1, <1>2 DEF SerialInManagement, UpInv
<1>4. QueueInv'
    <2>1. from # "queued"
        BY DEF AtWork
    <2>2. \A s \in Req : pc[s] = "queued" => pc'[s] = "queued"
        BY <1>1, <2>1
    <2>3. \A n \in Mgmt : QueueOf(n)'
        BY <1>1, <2>2, QueueKept
    <2> QED BY <2>3 DEF QueueInv
<1> QED BY <1>3, <1>4

LEMMA AcquireLockMemory ==
    ASSUME TypeOK, QueueInv, SerialInManagement, UpInv,
           NEW r \in Req, NEW from \in {"idle", "deferred"}, AcquireLock(r, from)
    PROVE  QueueInv' /\ SerialInManagement' /\ UpInv'
<1> DEFINE m == MgmtOf[r]
           q == lockingQueue[m]
<1>0. m \in Mgmt /\ q \in Seq(Req) /\ up' = up /\ up[m] /\ pc[r] = from
      /\ ~Active(r)
    BY DEF TypeOK, AcquireLock, procVars, Active, AtWork
<1>1. ASSUME NEW n \in Mgmt, NEW i \in 1..Len(lockingQueue[n])
      PROVE  lockingQueue[n][i] \in Req /\ lockingQueue[n][i] # r
    <2>1. lockingQueue[n][i] \in Req
        BY <1>1 DEF TypeOK
    <2>2. pc[lockingQueue[n][i]] = "queued"
        BY <1>1 DEF QueueInv, QueueOf
    <2> QED BY <1>0, <2>1, <2>2
<1>2. CASE MustWait(m)
    <2>1. /\ lockingQueue' = [lockingQueue EXCEPT ![m] = Append(q, r)]
          /\ pc' = [pc EXCEPT ![r] = "queued"]
          /\ waitingForLock' = waitingForLock
        BY <1>2 DEF AcquireLock
    <2>2. \A s \in Req : Active(s)' <=> Active(s)
        BY <1>0, <2>1 DEF Active, AtWork, TypeOK
    <2>3. SerialInManagement' /\ UpInv'
        BY <1>0, <2>1, <2>2 DEF SerialInManagement, UpInv
    <2>4. ASSUME NEW n \in Mgmt
          PROVE  QueueOf(n)'
        <3>1. CASE n # m
            <4>1. lockingQueue'[n] = lockingQueue[n]
                BY <2>1, <3>1 DEF TypeOK
            <4>2. \A s \in Req : pc[s] = "queued" => pc'[s] = "queued"
                BY <1>0, <2>1 DEF TypeOK
            <4> QED BY <4>1, <4>2, QueueKept
        <3>2. CASE n = m
            <4>1. /\ lockingQueue'[n] = Append(q, r)
                  /\ Len(Append(q, r)) = Len(q) + 1
                  /\ \A i \in 1..Len(q) : Append(q, r)[i] = q[i]
                  /\ Append(q, r)[Len(q) + 1] = r
                BY <1>0, <2>1, <3>2 DEF TypeOK
            <4>2. \A i \in 1..Len(q) : q[i] \in Req /\ q[i] # r
                BY <1>0, <1>1
            <4>3. \A i \in 1..Len(q) : MgmtOf[q[i]] = m /\ pc[q[i]] = "queued"
                BY <1>0 DEF QueueInv, QueueOf
            <4>4. \A i, j \in 1..Len(q) : q[i] = q[j] => i = j
                BY <1>0 DEF QueueInv, QueueOf
            <4>5. pc'[r] = "queued" /\ \A s \in Req \ {r} : pc'[s] = pc[s]
                BY <2>1 DEF TypeOK
            <4>6. Len(q) \in Nat
                BY <1>0
            <4>7. \A i \in 1..(Len(q) + 1) : i \in 1..Len(q) \/ i = Len(q) + 1
                BY <4>6
            <4>8. \A i \in 1..(Len(q) + 1) : /\ MgmtOf[Append(q, r)[i]] = m
                                            /\ pc'[Append(q, r)[i]] = "queued"
                BY <4>1, <4>2, <4>3, <4>5, <4>7
            <4>9. \A i, j \in 1..(Len(q) + 1) : Append(q, r)[i] = Append(q, r)[j] => i = j
                BY <4>1, <4>2, <4>4, <4>7
            <4> HIDE DEF q
            <4>10. lockingQueue'[n] = Append(q, r) /\ Len(lockingQueue'[n]) = Len(q) + 1
                BY <4>1
            <4> QED BY <3>2, <4>8, <4>9, <4>10 DEF QueueOf
        <3> QED BY <3>1, <3>2
    <2>5. QueueInv'
        BY <2>4 DEF QueueInv
    <2> QED BY <2>3, <2>5
<1>3. CASE ~MustWait(m)
    <2>1. /\ lockingQueue' = lockingQueue
          /\ pc' = [pc EXCEPT ![r] = "find"]
          /\ waitingForLock' = [waitingForLock EXCEPT ![m] = TRUE]
        BY <1>3 DEF AcquireLock
    <2>2. \A s \in Req : Active(s)' <=> Active(s) \/ s = r
        BY <2>1 DEF Active, AtWork, TypeOK
    <2>3. \A s \in Req : Active(s) => MgmtOf[s] # m
        BY <1>3 DEF SerialInManagement, MustWait
    <2>4. \A n \in Mgmt : waitingForLock'[n] = (waitingForLock[n] \/ n = m)
        BY <1>0, <2>1 DEF TypeOK
    <2>5. SerialInManagement' /\ UpInv'
        BY <1>0, <2>2, <2>3, <2>4 DEF SerialInManagement, UpInv
    <2>6. \A s \in Req : pc[s] = "queued" => pc'[s] = "queued"
        BY <1>0, <2>1 DEF TypeOK
    <2>7. \A n \in Mgmt : QueueOf(n)'
        BY <2>1, <2>6, QueueKept
    <2>8. QueueInv'
        BY <2>7 DEF QueueInv
    <2> QED BY <2>5, <2>8
<1> QED BY <1>2, <1>3

LEMMA ReleaseCallbackMemory ==
    ASSUME TypeOK, QueueInv, SerialInManagement, UpInv,
           NEW r \in Req, ReleaseCallback(r)
    PROVE  /\ QueueInv' /\ SerialInManagement' /\ UpInv'
           /\ \A s \in Req : pc'[s] # pc[s] => pc'[s] \in {"done", "find", "deferred"}
<1> DEFINE m == MgmtOf[r]
           q == lockingQueue[m]
<1>0. /\ m \in Mgmt /\ q \in Seq(Req) /\ up' = up /\ pc[r] = "released" /\ Active(r)
      /\ waitingForLock' = [waitingForLock EXCEPT ![m] = FlagAfterRelease(m)]
    BY DEF TypeOK, ReleaseCallback, procVars, Active, AtWork
<1>1. up[m]
    BY <1>0 DEF UpInv
<1>2. \A s \in Req : Active(s) /\ MgmtOf[s] = m => s = r
    BY <1>0 DEF SerialInManagement
<1>3. ASSUME NEW n \in Mgmt, NEW i \in 1..Len(lockingQueue[n])
      PROVE  lockingQueue[n][i] \in Req /\ lockingQueue[n][i] # r
    <2>1. lockingQueue[n][i] \in Req
        BY <1>3 DEF TypeOK
    <2>2. pc[lockingQueue[n][i]] = "queued"
        BY <1>3 DEF QueueInv, QueueOf
    <2> QED BY <1>0, <2>1, <2>2
<1>4. CASE q = <<>>
    <2>1. /\ lockingQueue' = lockingQueue
          /\ pc' = [pc EXCEPT ![r] = "done"]
        BY <1>4 DEF ReleaseCallback
    <2>2. \A s \in Req : Active(s)' <=> Active(s) /\ s # r
        BY <2>1 DEF Active, AtWork, TypeOK
    <2>3. \A n \in Mgmt \ {m} : waitingForLock'[n] = waitingForLock[n]
        BY <1>0 DEF TypeOK
    <2>4. SerialInManagement' /\ UpInv'
        BY <1>0, <1>2, <2>2, <2>3 DEF SerialInManagement, UpInv
    <2>5. \A s \in Req : pc[s] = "queued" => pc'[s] = "queued"
        BY <1>0, <2>1 DEF TypeOK
    <2>6. \A n \in Mgmt : QueueOf(n)'
        BY <2>1, <2>5, QueueKept
    <2>7. QueueInv'
        BY <2>6 DEF QueueInv
    <2>8. \A s \in Req : pc'[s] # pc[s] => pc'[s] = "done"
        BY <2>1 DEF TypeOK
    <2> QED BY <2>4, <2>7, <2>8
<1>5. CASE q # <<>>
    <2>0. PICK h \in Req : h = Head(q)
        BY <1>0, <1>5
    <2>1. /\ lockingQueue' = [lockingQueue EXCEPT ![m] = Tail(q)]
          /\ pc' = [pc EXCEPT ![r] = "done", ![h] = IF Soon(m) THEN "find" ELSE "deferred"]
        BY <1>5, <2>0 DEF ReleaseCallback
    <2>10. Soon(m) => waitingForLock'[m]
        BY <1>0, <1>5, Zenon DEF FlagAfterRelease, TypeOK
    <2>2. Len(q) \in Nat /\ Len(q) >= 1 /\ h = q[1]
        BY <1>0, <1>5, <2>0
    <2>3. h \in Req /\ h # r /\ MgmtOf[h] = m /\ pc[h] = "queued"
        BY <1>0, <1>3, <2>2 DEF QueueInv, QueueOf
    <2>4. /\ pc'[r] = "done"
          /\ Soon(m) => pc'[h] = "find"
          /\ ~Soon(m) => pc'[h] = "deferred"
          /\ \A s \in Req \ {r, h} : pc'[s] = pc[s]
        BY <2>1, <2>3 DEF TypeOK
    <2>5. /\ \A s \in Req \ {r, h} : Active(s)' <=> Active(s)
          /\ ~Active(r)'
          /\ Active(h)' => Soon(m)
        <3>1. \A s \in Req \ {r, h} : Active(s)' <=> Active(s)
            BY <2>4 DEF Active
        <3>2. ~Active(r)'
            BY <2>4 DEF Active, AtWork
        <3>3. ~Soon(m) => ~(pc'[h] \in AtWork)
            BY <2>4 DEF AtWork
        <3> QED BY <3>1, <3>2, <3>3 DEF Active
    <2>6. \A n \in Mgmt \ {m} : waitingForLock'[n] = waitingForLock[n]
        BY <1>0 DEF TypeOK
    <2>7. SerialInManagement' /\ UpInv'
        BY <1>0, <1>1, <1>2, <2>3, <2>5, <2>6, <2>10 DEF SerialInManagement, UpInv
    <2>8. ASSUME NEW n \in Mgmt
          PROVE  QueueOf(n)'
        <3>1. CASE n # m
            <4>1. lockingQueue'[n] = lockingQueue[n]
                BY <2>1, <3>1 DEF TypeOK
            <4>2. ASSUME NEW s \in Req, pc[s] = "queued", MgmtOf[s] = n
                  PROVE  pc'[s] = "queued"
                <5>1. s \in Req \ {r, h}
                    BY <1>0, <2>3, <3>1, <4>2
                <5> QED BY <2>4, <4>2, <5>1
            <4> QED BY <4>1, <4>2, QueueKept
        <3>2. CASE n = m
            <4>1. /\ lockingQueue'[n] = Tail(q)
                  /\ Len(Tail(q)) = Len(q) - 1
                  /\ \A i \in 1..(Len(q) - 1) : Tail(q)[i] = q[i + 1]
                BY <1>0, <1>5, <2>1, <3>2 DEF TypeOK
            <4>2. \A i, j \in 1..Len(q) : q[i] = q[j] => i = j
                BY <1>0 DEF QueueInv, QueueOf
            <4>3. \A i \in 1..(Len(q) - 1) : i + 1 \in 1..Len(q) /\ i + 1 # 1
                BY <2>2
            <4>4. \A i \in 1..(Len(q) - 1) : q[i + 1] \in Req \ {r, h}
                BY <1>0, <1>3, <2>2, <4>2, <4>3
            <4>5. \A i \in 1..Len(q) : MgmtOf[q[i]] = m /\ pc[q[i]] = "queued"
                BY <1>0 DEF QueueInv, QueueOf
            <4>6. \A i \in 1..(Len(q) - 1) :
                     MgmtOf[q[i + 1]] = m /\ pc'[q[i + 1]] = "queued"
                BY <2>4, <4>3, <4>4, <4>5
            <4>7. ASSUME NEW i \in 1..(Len(q) - 1), NEW j \in 1..(Len(q) - 1),
                         q[i + 1] = q[j + 1]
                  PROVE  i = j
                <5>1. i + 1 \in 1..Len(q) /\ j + 1 \in 1..Len(q)
                    BY <4>3
                <5>2. i + 1 = j + 1
                    BY <4>2, <4>7, <5>1
                <5> QED BY <2>2, <5>2
            <4> HIDE DEF q
            <4>8. \A i \in 1..(Len(q) - 1) : Tail(q)[i] = q[i + 1]
                BY <4>1
            <4> QED BY <3>2, <4>1, <4>6, <4>7, <4>8 DEF QueueOf
        <3> QED BY <3>1, <3>2
    <2>9. QueueInv'
        BY <2>8 DEF QueueInv
    <2> QED BY <2>4, <2>7, <2>9
<1> QED BY <1>4, <1>5

LEMMA ForgetMemory ==
    ASSUME TypeOK, QueueInv, SerialInManagement, UpInv,
           NEW m \in Mgmt, ForgetProcess(m)
    PROVE  QueueInv' /\ SerialInManagement' /\ UpInv'
<1>1. /\ up' = [up EXCEPT ![m] = FALSE]
      /\ waitingForLock' = [waitingForLock EXCEPT ![m] = FALSE]
      /\ lockingQueue' = [lockingQueue EXCEPT ![m] = <<>>]
      /\ \A s \in Req : MgmtOf[s] # m => pc'[s] = pc[s]
      /\ \A s \in Req : MgmtOf[s] = m => pc'[s] \in {"idle", "done", "lost"}
    BY DEF ForgetProcess, TypeOK
<1>2. \A s \in Req : Active(s)' <=> Active(s) /\ MgmtOf[s] # m
    BY <1>1 DEF Active, AtWork
<1>3. SerialInManagement' /\ UpInv'
    BY <1>1, <1>2 DEF SerialInManagement, UpInv, TypeOK
<1>4. QueueOf(m)'
    <2>1. lockingQueue'[m] = <<>>
        BY <1>1 DEF TypeOK
    <2> QED BY <2>1, QueueEmptied
<1>5. ASSUME NEW n \in Mgmt, n # m PROVE QueueOf(n)'
    <2>1. lockingQueue'[n] = lockingQueue[n]
        BY <1>1, <1>5 DEF TypeOK
    <2>2. \A s \in Req : pc[s] = "queued" /\ MgmtOf[s] = n => pc'[s] = "queued"
        BY <1>1, <1>5
    <2> QED BY <2>1, <2>2, QueueKept
<1> QED BY <1>3, <1>4, <1>5 DEF QueueInv

LEMMA EnvironmentMemory ==
    ASSUME TypeOK, QueueInv, SerialInManagement, UpInv,
           NEW m \in Mgmt, Environment(m)
    PROVE  QueueInv' /\ SerialInManagement' /\ UpInv'
<1>2. CASE Crash(m)
    BY <1>2, ForgetMemory DEF Crash
<1>3. CASE Restart(m) \/ HeartbeatExpires(m) \/ Heartbeat(m)
    <2>1. /\ waitingForLock' = waitingForLock /\ lockingQueue' = lockingQueue
          /\ pc' = pc /\ \A n \in Mgmt : up[n] => up'[n]
        BY <1>3 DEF Restart, HeartbeatExpires, Heartbeat, memVars, TypeOK
    <2>2. SerialInManagement' /\ UpInv'
        BY <2>1 DEF SerialInManagement, UpInv, Active
    <2>3. \A n \in Mgmt : QueueOf(n)'
        BY <2>1, QueueKept
    <2> QED BY <2>2, <2>3 DEF QueueInv
<1> QED BY <1>2, <1>3 DEF Environment

-----------------------------------------------------------------------------
(* The document, the leases and what the requests read of them.            *)
DataInv == DocInv /\ ReadInv /\ TicketInv /\ StallInv

(* A step that leaves the document and the processes alone, and takes      *)
(* requests nowhere but to places where nothing that was read matters.     *)
LEMMA QuietData ==
    ASSUME TypeOK, DataInv, UNCHANGED <<dbVars, procVars>>, errors' = 0 => errors = 0,
           \A s \in Req : \/ pc'[s] = pc[s] /\ oldLock'[s] = oldLock[s]
                          \/ pc'[s] \notin {"checkAlive", "update", "locked"}
    PROVE  DataInv'
<1>1. /\ lockDoc' = lockDoc /\ lapsed' = lapsed /\ fresh' = fresh
      /\ up' = up /\ bootVersion' = bootVersion
    BY DEF dbVars, procVars
<1>2. DocInv'
    BY <1>1 DEF DataInv, DocInv, LockedBy
<1>3. ReadInv'
    BY <1>1 DEF DataInv, ReadInv, Unchanged
<1>4. \A r \in Req : InSection(r)' => InSection(r) /\ oldLock'[r] = oldLock[r]
    BY DEF InSection
<1>5. TicketInv'
    BY <1>1, <1>4 DEF DataInv, TicketInv, Ticket, Holds, LockedBy
<1>6. StallInv'
    BY <1>1, <1>4 DEF DataInv, StallInv, Ticket
<1> QED BY <1>2, <1>3, <1>5, <1>6 DEF DataInv

LEMMA GoToFacts ==
    ASSUME TypeOK, NEW r \in Req, NEW from, NEW to, NEW lock, GoTo(r, from, to, lock)
    PROVE  /\ pc[r] = from /\ pc'[r] = to /\ oldLock'[r] = lock
           /\ \A s \in Req \ {r} : pc'[s] = pc[s] /\ oldLock'[s] = oldLock[s]
BY DEF TypeOK, GoTo

(* findOne: the lock is free, or of an earlier boot and so lapsed, or of   *)
(* a management to be looked up.                                           *)
LEMMA FindLockData ==
    ASSUME TypeOK, DataInv, UpInv, NEW r \in Req, FindLock(r)
    PROVE  DataInv'
<1> DEFINE m == MgmtOf[r]
<1>0. m \in Mgmt /\ UNCHANGED <<dbVars, procVars>> /\ errors' = errors /\ lockDoc.lockCounter \in Nat
    BY DEF FindLock, TypeOK, LockDoc
<1>1. PICK to \in {"initial", "retry", "update", "checkAlive"} :
        /\ GoTo(r, "find", to, lockDoc)
        /\ to = "update" => \/ lockDoc.status = "unlocked"
                            \/ LockedBy(m) /\ lockDoc.bootVersion < bootVersion[m]
        /\ to = "checkAlive" => lockDoc.status = "locked"
    <2>1. CASE GoTo(r, "find", "initial", lockDoc)
        BY <2>1
    <2>2. CASE GoTo(r, "find", "retry", lockDoc)
        BY <2>2
    <2>3. CASE /\ GoTo(r, "find", "update", lockDoc)
               /\ \/ lockDoc.status = "unlocked"
                  \/ LockedBy(m) /\ lockDoc.bootVersion < bootVersion[m]
        BY <2>3
    <2>4. CASE GoTo(r, "find", "checkAlive", lockDoc) /\ lockDoc.status = "locked"
        BY <2>4
    <2> QED BY <2>1, <2>2, <2>3, <2>4 DEF FindLock
<1>2. /\ pc'[r] = to /\ oldLock'[r] = lockDoc
      /\ \A s \in Req \ {r} : pc'[s] = pc[s] /\ oldLock'[s] = oldLock[s]
    BY <1>1, GoToFacts
<1>3. CASE to \in {"initial", "retry"}
    BY <1>0, <1>2, <1>3, QuietData
<1>4. CASE to \in {"update", "checkAlive"}
    <2>1. /\ lockDoc' = lockDoc /\ lapsed' = lapsed /\ fresh' = fresh
          /\ up' = up /\ bootVersion' = bootVersion /\ errors' = errors
        BY <1>0 DEF dbVars, procVars
    <2>2. DocInv'
        BY <2>1 DEF DataInv, DocInv, LockedBy
    <2>3. TicketInv' /\ StallInv'
        BY <1>2, <1>4, <2>1
           DEF DataInv, TicketInv, StallInv, InSection, Ticket, Holds, LockedBy
    <2>4. to = "update" /\ lockDoc.status = "locked" => lockDoc.lockCounter \in lapsed
        <3>1. bootVersion[m] \in Nat /\ lockDoc.bootVersion \in Nat
            BY <1>0 DEF TypeOK, LockDoc
        <3> QED BY <1>0, <1>1, <3>1 DEF DataInv, DocInv
    <2>5. to = "checkAlive" => lockDoc.managementId \in Mgmt
        BY <1>1 DEF DataInv, DocInv
    <2>6. lockDoc.lockCounter >= 1
        BY <1>0, <1>1, <1>4 DEF DataInv, DocInv, LockedBy
    <2>7. ReadInv'
        BY <1>0, <1>2, <1>4, <2>1, <2>4, <2>5, <2>6 DEF DataInv, ReadInv, Unchanged
    <2> QED BY <2>2, <2>3, <2>7 DEF DataInv
<1> QED BY <1>1, <1>3, <1>4

(* A management that passes for dead has lapsed, if it still holds.        *)
LEMMA CheckAliveData ==
    ASSUME TypeOK, DataInv, NEW r \in Req, CheckAlive(r)
    PROVE  DataInv'
<1>0. UNCHANGED <<dbVars, procVars>> /\ errors' = errors
    BY DEF CheckAlive
<1>1. PICK to \in {"retry", "update"} :
        /\ GoTo(r, "checkAlive", to, oldLock[r])
        /\ to = "update" => ~fresh[oldLock[r].managementId]
    BY DEF CheckAlive, IsAlive, HolderRead
<1>2. /\ pc[r] = "checkAlive" /\ pc'[r] = to /\ oldLock'[r] = oldLock[r]
      /\ \A s \in Req \ {r} : pc'[s] = pc[s] /\ oldLock'[s] = oldLock[s]
    BY <1>1, GoToFacts
<1>3. CASE to = "retry"
    BY <1>0, <1>2, <1>3, QuietData
<1>4. CASE to = "update"
    <2>1. /\ lockDoc' = lockDoc /\ lapsed' = lapsed /\ fresh' = fresh
          /\ up' = up /\ bootVersion' = bootVersion /\ errors' = errors
        BY <1>0 DEF dbVars, procVars
    <2>2. DocInv'
        BY <2>1 DEF DataInv, DocInv, LockedBy
    <2>3. TicketInv' /\ StallInv'
        BY <1>2, <1>4, <2>1
           DEF DataInv, TicketInv, StallInv, InSection, Ticket, Holds, LockedBy
    <2>4. Unchanged(r) /\ lockDoc.status = "locked" => lockDoc.lockCounter \in lapsed
        BY <1>1, <1>2, <1>4 DEF DataInv, DocInv, ReadInv, LockedBy
    <2>5. ReadInv'
        BY <1>2, <1>4, <2>1, <2>4 DEF DataInv, ReadInv, Unchanged
    <2> QED BY <2>2, <2>3, <2>5 DEF DataInv
<1> QED BY <1>1, <1>3, <1>4

(* The upsert makes a free document with the first counter, or nothing.    *)
LEMMA InitialLockCreationData ==
    ASSUME TypeOK, DataInv, NEW r \in Req, InitialLockCreation(r)
    PROVE  DataInv'
<1>0. /\ lapsed' = lapsed /\ fresh' = fresh /\ up' = up /\ bootVersion' = bootVersion
      /\ errors' = errors
      /\ lockDoc' = IF lockDoc.status = "absent" THEN InitialLock ELSE lockDoc
    BY DEF InitialLockCreation, procVars, Upsert
<1>1. /\ pc'[r] = "update" /\ oldLock'[r] = InitialLock
      /\ \A s \in Req \ {r} : pc'[s] = pc[s] /\ oldLock'[s] = oldLock[s]
    BY GoToFacts DEF InitialLockCreation
<1>2. /\ InitialLock.status = "unlocked" /\ InitialLock.lockCounter = 1
      /\ lockDoc.lockCounter \in Nat
      /\ \A s \in Req : oldLock[s].lockCounter \in Nat
    BY DEF InitialLock, Absent, TypeOK, LockDoc
<1>3. CASE lockDoc.status = "absent"
    <2>1. lockDoc' = InitialLock /\ lockDoc.lockCounter = 0
        BY <1>0, <1>3 DEF DataInv, DocInv
    <2>2. \A n \in lapsed : n <= 1
        BY <2>1 DEF DataInv, DocInv, TypeOK
    <2>3. DocInv'
        BY <1>0, <1>2, <2>1, <2>2 DEF DocInv, LockedBy
    <2>4. ReadInv'
        BY <1>1, <1>2, <2>1 DEF DataInv, ReadInv, Unchanged
    <2>5. TicketInv' /\ StallInv'
        BY <1>0, <1>1, <1>2, <1>3, <2>1
           DEF DataInv, TicketInv, StallInv, InSection, Ticket, Holds, LockedBy
    <2> QED BY <2>3, <2>4, <2>5 DEF DataInv
<1>4. CASE lockDoc.status # "absent"
    <2>1. lockDoc' = lockDoc /\ lockDoc.lockCounter >= 1
        BY <1>0, <1>2, <1>4 DEF DataInv, DocInv
    <2>2. DocInv'
        BY <1>0, <2>1 DEF DataInv, DocInv, LockedBy
    <2>3. lockDoc.status = "locked" => lockDoc.lockCounter # 1
        BY <1>2 DEF DataInv, DocInv
    <2>4. ReadInv'
        BY <1>0, <1>1, <1>2, <2>1, <2>3 DEF DataInv, ReadInv, Unchanged
    <2>5. TicketInv' /\ StallInv'
        BY <1>0, <1>1, <2>1
           DEF DataInv, TicketInv, StallInv, InSection, Ticket, Holds, LockedBy
    <2> QED BY <2>2, <2>4, <2>5 DEF DataInv
<1> QED BY <1>3, <1>4

(* The compare and swap: it succeeds on a free lock or on a lapsed lease,  *)
(* so whoever is in the section meanwhile has lapsed.                      *)
LEMMA TakeLockData ==
    ASSUME TypeOK, DataInv, UpInv, NEW r \in Req, NEW to \in {"locked", "failed"},
           GoTo(r, "update", to, oldLock[r]), Unchanged(r), TakeLock(MgmtOf[r]),
           UNCHANGED procVars, errors' = errors \/ (to = "failed" /\ errors' # 0)
    PROVE  DataInv'
<1> DEFINE m == MgmtOf[r]
           c == lockDoc.lockCounter
<1>0. /\ m \in Mgmt /\ fresh' = fresh /\ up' = up /\ bootVersion' = bootVersion
      /\ lockDoc.lockCounter \in Nat /\ bootVersion[m] \in Nat
      /\ \A s \in Req : oldLock[s].lockCounter \in Nat
    BY DEF procVars, TypeOK, LockDoc
<1>1. /\ pc[r] = "update" /\ pc'[r] = to /\ oldLock'[r] = oldLock[r]
      /\ \A s \in Req \ {r} : pc'[s] = pc[s] /\ oldLock'[s] = oldLock[s]
    BY GoToFacts
<1>2. /\ lockDoc'.lockCounter = c + 1 /\ lockDoc'.status = "locked"
      /\ lockDoc'.managementId = m /\ lockDoc'.bootVersion = bootVersion[m]
      /\ lapsed \subseteq lapsed' /\ lapsed' \subseteq lapsed \cup {c + 1}
      /\ ~fresh[m] => c + 1 \in lapsed'
      /\ fresh[m] => lapsed' = lapsed
    BY DEF TakeLock
<1>3. up[m] /\ oldLock[r].lockCounter = c
    BY <1>1 DEF UpInv, Active, AtWork, Unchanged
<1>4. c >= 1
    BY <1>0, <1>1, <1>3 DEF DataInv, ReadInv
<1>5. \A n \in lapsed : n \in Nat /\ n <= c
    BY DEF DataInv, DocInv, TypeOK
<1>6. DocInv'
    BY <1>0, <1>2, <1>3, <1>4, <1>5 DEF DocInv, LockedBy
<1>7. \A s \in Req : pc[s] \in {"checkAlive", "update"} => oldLock[s].lockCounter <= c
    BY <1>0, <1>4 DEF DataInv, ReadInv
<1>8. ReadInv'
    BY <1>0, <1>1, <1>2, <1>7 DEF DataInv, ReadInv, Unchanged
<1>9. ASSUME NEW s \in Req, s # r, InSection(s)
      PROVE  Ticket(s) <= c /\ Ticket(s) \in lapsed
    <2>1. Ticket(s) <= c /\ (Holds(s) \/ Ticket(s) \in lapsed)
        BY <1>9 DEF DataInv, TicketInv
    <2>2. Holds(s) => lockDoc.status = "locked" /\ Ticket(s) = c
        BY DEF Holds, LockedBy
    <2>3. lockDoc.status = "locked" => c \in lapsed
        BY <1>1 DEF DataInv, ReadInv
    <2> QED BY <2>1, <2>2, <2>3
<1>10. ASSUME NEW s \in Req, InSection(s)'
       PROVE  /\ Ticket(s)' <= lockDoc'.lockCounter
              /\ Holds(s)' \/ Ticket(s)' \in lapsed'
    <2>1. CASE s = r
        BY <1>0, <1>1, <1>2, <1>3, <2>1 DEF Ticket, Holds, LockedBy
    <2>2. CASE s # r
        <3>1. InSection(s) /\ Ticket(s)' = Ticket(s) /\ Ticket(s) \in Nat
            BY <1>0, <1>1, <1>10, <2>2 DEF InSection, Ticket
        <3> QED BY <1>0, <1>2, <1>9, <2>2, <3>1
    <2> QED BY <2>1, <2>2
<1>11. TicketInv'
    BY <1>10 DEF TicketInv
<1>12. StallInv'
    <2> SUFFICES ASSUME ~CanStall, errors = 0 PROVE StallInv'
        <3>1. errors' = 0 => errors = 0
            OBVIOUS
        <3> QED BY <3>1 DEF StallInv
    <2>1. fresh[m] /\ lapsed' = lapsed
        BY <1>0, <1>2, <1>3 DEF DataInv, StallInv
    <2>2. ASSUME NEW s \in Req, InSection(s)' PROVE Ticket(s)' \notin lapsed'
        <3>1. CASE s = r
            BY <1>0, <1>1, <1>3, <1>5, <2>1, <3>1 DEF Ticket
        <3>2. CASE s # r
            BY <1>1, <2>1, <2>2, <3>2 DEF DataInv, StallInv, InSection, Ticket
        <3> QED BY <3>1, <3>2
    <2> QED BY <1>0, <2>2 DEF DataInv, StallInv
<1> QED BY <1>6, <1>8, <1>11, <1>12 DEF DataInv

LEMMA CreateLockData ==
    ASSUME TypeOK, DataInv, UpInv, NEW r \in Req, CreateLock(r)
    PROVE  DataInv'
<1>1. CASE ~Unchanged(r)
    BY <1>1, GoToFacts, QuietData DEF CreateLock
<1>2. CASE Unchanged(r)
    BY <1>2, TakeLockData DEF CreateLock
<1> QED BY <1>1, <1>2

(* A release frees the document of this management, and no other request   *)
(* of this management can be the holder.                                   *)
LEMMA UnlockData ==
    ASSUME TypeOK, DataInv, SerialInManagement,
           NEW r \in Req, NEW from \in {"locked", "failed"},
           GoTo(r, from, "released", oldLock[r]), Unlock(r), UNCHANGED <<procVars, errors>>
    PROVE  DataInv'
<1> DEFINE m == MgmtOf[r]
<1>0. /\ lapsed' = lapsed /\ fresh' = fresh /\ up' = up /\ bootVersion' = bootVersion
      /\ errors' = errors
      /\ lockDoc' = IF LockedBy(m) THEN [lockDoc EXCEPT !.status = "unlocked"] ELSE lockDoc
    BY DEF Unlock, procVars
<1>1. /\ pc[r] = from /\ pc'[r] = "released"
      /\ \A s \in Req \ {r} : pc'[s] = pc[s] /\ oldLock'[s] = oldLock[s]
    BY GoToFacts
<1>2. CASE ~LockedBy(m)
    BY <1>0, <1>1, <1>2, QuietData DEF dbVars, procVars
<1>3. CASE LockedBy(m)
    <2>1. /\ lockDoc'.lockCounter = lockDoc.lockCounter /\ lockDoc'.status = "unlocked"
          /\ lockDoc.lockCounter >= 2 /\ lockDoc.lockCounter \in Nat
        BY <1>0, <1>3 DEF DataInv, DocInv, TypeOK, LockDoc, LockedBy
    <2>2. DocInv'
        BY <1>0, <2>1 DEF DataInv, DocInv, LockedBy
    <2>3. ReadInv'
        BY <1>1, <2>1 DEF DataInv, ReadInv, Unchanged
    <2>4. ASSUME NEW s \in Req, s # r, InSection(s) PROVE Ticket(s) \in lapsed
        <3>1. MgmtOf[s] # m
            BY <1>1, <2>4 DEF SerialInManagement, Active, AtWork, InSection
        <3>2. ~Holds(s)
            BY <1>3, <3>1 DEF Holds, LockedBy
        <3> QED BY <2>4, <3>2 DEF DataInv, TicketInv
    <2>5. \A s \in Req : InSection(s)' => s # r /\ InSection(s) /\ Ticket(s)' = Ticket(s)
        BY <1>1 DEF InSection, Ticket
    <2>6. TicketInv'
        BY <1>0, <2>1, <2>4, <2>5 DEF DataInv, TicketInv
    <2>7. StallInv'
        BY <1>0, <2>5 DEF DataInv, StallInv
    <2> QED BY <2>2, <2>3, <2>6, <2>7 DEF DataInv
<1> QED BY <1>2, <1>3

(* A holder that crashes or goes silent lapses.                            *)
LEMMA EnvironmentData ==
    ASSUME TypeOK, DataInv, UpInv, NEW m \in Mgmt, Environment(m)
    PROVE  DataInv'
<1>0. /\ lockDoc' = lockDoc /\ oldLock' = oldLock /\ lockDoc.lockCounter \in Nat
      /\ errors' = errors
      /\ \A s \in Req : InSection(s)' => InSection(s)
      /\ \A s \in Req : pc'[s] \in {"checkAlive", "update"} => pc'[s] = pc[s]
    <2>1. lockDoc' = lockDoc /\ oldLock' = oldLock /\ errors' = errors
        BY DEF Environment, Crash, Restart, HeartbeatExpires, Heartbeat, ForgetProcess, dbVars
    <2>2. lockDoc.lockCounter \in Nat
        BY DEF TypeOK, LockDoc
    <2>3. \A s \in Req : pc'[s] = pc[s] \/ pc'[s] = "lost"
        <3>1. CASE Crash(m)
            BY <3>1 DEF Crash, ForgetProcess
        <3>2. CASE Restart(m) \/ HeartbeatExpires(m) \/ Heartbeat(m)
            BY <3>2 DEF Restart, HeartbeatExpires, Heartbeat
        <3> QED BY <3>1, <3>2 DEF Environment
    <2> QED BY <2>1, <2>2, <2>3 DEF InSection
<1>1. CASE Crash(m) \/ HeartbeatExpires(m)
    <2>1. /\ lapsed' = lapsed \cup HeldBy(m) /\ bootVersion' = bootVersion
          /\ \A n \in Mgmt \ {m} : up'[n] = up[n] /\ fresh'[n] = fresh[n]
          /\ ~CanStall => ~up'[m] /\ (\A s \in Req : InSection(s)' => MgmtOf[s] # m)
        <3>1. CASE Crash(m)
            BY <3>1 DEF Crash, ForgetProcess, InSection, TypeOK
        <3>2. CASE HeartbeatExpires(m)
            BY <3>2 DEF HeartbeatExpires, InSection, UpInv, Active, AtWork, TypeOK
        <3> QED BY <1>1, <3>1, <3>2
    <2>2. \A n \in HeldBy(m) : LockedBy(m) /\ n = lockDoc.lockCounter
        BY DEF HeldBy
    <2>3. LockedBy(m) => lockDoc.lockCounter \in lapsed'
        BY <2>1 DEF HeldBy
    <2>4. ASSUME NEW n \in Mgmt, LockedBy(n),
                 ~(fresh'[n] /\ up'[n] /\ lockDoc.bootVersion = bootVersion[n])
          PROVE  lockDoc.lockCounter \in lapsed'
        BY <2>1, <2>3, <2>4 DEF DataInv, DocInv
    <2>5. \A n \in lapsed' : n <= lockDoc.lockCounter
        BY <1>0, <2>1, <2>2 DEF DataInv, DocInv
    <2>6. DocInv'
        BY <1>0, <2>1, <2>4, <2>5 DEF DataInv, DocInv, LockedBy
    <2>7. ReadInv'
        BY <1>0, <2>1 DEF DataInv, ReadInv, Unchanged
    <2>8. TicketInv'
        BY <1>0, <2>1 DEF DataInv, TicketInv, Ticket, Holds, LockedBy
    <2>9. ASSUME ~CanStall, errors = 0, NEW s \in Req, InSection(s)'
          PROVE  Ticket(s)' \notin lapsed'
        <3>1. Ticket(s) \notin lapsed /\ Holds(s) /\ MgmtOf[s] # m
            BY <1>0, <2>1, <2>9 DEF DataInv, StallInv, TicketInv
        <3> QED BY <1>0, <2>1, <2>2, <3>1 DEF Ticket, Holds, LockedBy
    <2>10. StallInv'
        BY <1>0, <2>1, <2>9 DEF DataInv, StallInv
    <2> QED BY <2>6, <2>7, <2>8, <2>10 DEF DataInv
<1>2. CASE Restart(m)
    <2>1. /\ lapsed' = lapsed /\ pc' = pc /\ ~up[m]
          /\ up'[m] /\ fresh'[m] /\ bootVersion'[m] = bootVersion[m] + 1
          /\ \A n \in Mgmt \ {m} : /\ up'[n] = up[n] /\ fresh'[n] = fresh[n]
                                   /\ bootVersion'[n] = bootVersion[n]
        BY <1>2 DEF Restart, dbVars, TypeOK
    <2>2. DocInv'
        BY <1>0, <2>1 DEF DataInv, DocInv, LockedBy
    <2>3. ReadInv'
        BY <1>0, <2>1 DEF DataInv, ReadInv, Unchanged
    <2>4. \A s \in Req : InSection(s) => MgmtOf[s] # m
        BY <2>1 DEF UpInv, InSection, Active, AtWork
    <2>5. TicketInv'
        BY <1>0, <2>1, <2>4 DEF DataInv, TicketInv, Ticket, Holds, LockedBy
    <2>6. StallInv'
        BY <1>0, <2>1 DEF DataInv, StallInv, Ticket
    <2> QED BY <2>2, <2>3, <2>5, <2>6 DEF DataInv
<1>3. CASE Heartbeat(m)
    <2>1. /\ lapsed' = lapsed /\ pc' = pc /\ up' = up /\ bootVersion' = bootVersion
          /\ \A n \in Mgmt : fresh[n] => fresh'[n]
        BY <1>3 DEF Heartbeat, dbVars, TypeOK
    <2>2. DocInv'
        BY <1>0, <2>1 DEF DataInv, DocInv, LockedBy
    <2>3. ReadInv'
        BY <1>0, <2>1 DEF DataInv, ReadInv, Unchanged
    <2>4. TicketInv' /\ StallInv'
        BY <1>0, <2>1 DEF DataInv, TicketInv, StallInv, Ticket, Holds, LockedBy
    <2> QED BY <2>2, <2>3, <2>4 DEF DataInv
<1> QED BY <1>1, <1>2, <1>3 DEF Environment

-----------------------------------------------------------------------------
LEMMA InitInv == Init => IInv
<1> SUFFICES ASSUME Init PROVE IInv
    OBVIOUS
<1>1. TypeOK
    BY LimitAssumption DEF Init, TypeOK, LockDoc, PCs, Absent
<1>2. QueueInv
    <2>1. \A m \in Mgmt : lockingQueue[m] = <<>> /\ Len(lockingQueue[m]) = 0
        BY DEF Init
    <2>2. \A i \in 1..0 : FALSE
        OBVIOUS
    <2>3. \A m \in Mgmt : \A i \in 1..Len(lockingQueue[m]) : FALSE
        BY <2>1, <2>2
    <2> QED BY <2>3 DEF QueueInv, QueueOf
<1>3. SerialInManagement /\ UpInv /\ ReadInv
    BY DEF Init, SerialInManagement, UpInv, ReadInv, Active, AtWork
<1>4. DocInv
    BY DEF Init, DocInv, Absent, LockedBy
<1>5. TicketInv /\ StallInv
    BY DEF Init, TicketInv, StallInv, InSection
<1> QED BY <1>1, <1>2, <1>3, <1>4, <1>5 DEF IInv

LEMMA InductiveStep == IInv /\ [Next]_vars => IInv'
<1> SUFFICES ASSUME IInv, [Next]_vars PROVE IInv'
    OBVIOUS
<1>0. TypeOK /\ QueueInv /\ SerialInManagement /\ UpInv /\ DataInv /\ TypeOK'
    BY TypeStep DEF IInv, DataInv
<1> DEFINE Memory == QueueInv /\ SerialInManagement /\ UpInv
<1>1. ASSUME NEW r \in Req, NEW from \in {"idle", "deferred"}, AcquireLock(r, from)
      PROVE  Memory' /\ DataInv'
    <2>0. pc \in [Req -> PCs] /\ oldLock' = oldLock
          /\ \/ pc' = [pc EXCEPT ![r] = "queued"]
             \/ pc' = [pc EXCEPT ![r] = "find"]
        BY <1>0, <1>1 DEF AcquireLock, TypeOK
    <2>1. \A s \in Req : \/ pc'[s] = pc[s] /\ oldLock'[s] = oldLock[s]
                        \/ pc'[s] \notin {"checkAlive", "update", "locked"}
        BY <2>0
    <2>2. UNCHANGED <<dbVars, procVars>> /\ errors' = errors
        BY <1>1 DEF AcquireLock
    <2> QED BY <1>0, <1>1, <2>1, <2>2, AcquireLockMemory, QuietData
<1>2. ASSUME NEW r \in Req, Progress(r) PROVE Memory' /\ DataInv'
    <2> USE DEF AtWork, procVars
    <2>1. CASE DeferredAcquire(r)
        BY <1>1, <2>1 DEF DeferredAcquire
    <2>2. CASE FindLock(r)
        BY <1>0, <2>2, FindLockData, MoveInv DEF FindLock
    <2>3. CASE CheckAlive(r)
        BY <1>0, <2>3, CheckAliveData, MoveInv DEF CheckAlive
    <2>4. CASE InitialLockCreation(r)
        BY <1>0, <2>4, InitialLockCreationData, MoveInv DEF InitialLockCreation
    <2>5. CASE CreateLock(r)
        BY <1>0, <2>5, CreateLockData, MoveInv DEF CreateLock
    <2>6. CASE RetryAcquire(r)
        <3>1. GoTo(r, "retry", "find", oldLock[r])
            BY <2>6 DEF RetryAcquire
        <3>2. \A s \in Req : \/ pc'[s] = pc[s] /\ oldLock'[s] = oldLock[s]
                            \/ pc'[s] \notin {"checkAlive", "update", "locked"}
            BY <1>0, <3>1, GoToFacts
        <3> QED BY <1>0, <2>6, <3>1, <3>2, QuietData, MoveInv DEF RetryAcquire
    <2>7. CASE ReleaseCallback(r)
        <3>1. oldLock' = oldLock /\ errors' = errors /\ UNCHANGED <<dbVars, procVars>>
            BY <2>7 DEF ReleaseCallback
        <3> QED BY <1>0, <2>7, <3>1, ReleaseCallbackMemory, QuietData
    <2> QED BY <1>2, <2>1, <2>2, <2>3, <2>4, <2>5, <2>6, <2>7 DEF Progress
<1>3. ASSUME NEW r \in Req, ReleaseLock(r) PROVE Memory' /\ DataInv'
    BY <1>0, <1>3, UnlockData, MoveInv DEF ReleaseLock, AtWork, procVars
<1>4. ASSUME NEW m \in Mgmt, Environment(m) PROVE Memory' /\ DataInv'
    BY <1>0, <1>4, EnvironmentMemory, EnvironmentData
<1>5. ASSUME UNCHANGED vars PROVE Memory' /\ DataInv'
    <2>1. Memory'
        <3>1. pc' = pc /\ waitingForLock' = waitingForLock /\ up' = up
              /\ lockingQueue' = lockingQueue
            BY <1>5 DEF vars
        <3>2. SerialInManagement' /\ UpInv'
            BY <1>0, <3>1 DEF SerialInManagement, UpInv, Active
        <3>3. \A n \in Mgmt : QueueOf(n)'
            BY <1>0, <3>1, QueueKept
        <3> QED BY <3>2, <3>3 DEF QueueInv
    <2>2. DataInv'
        BY <1>0, <1>5, QuietData DEF vars, dbVars, procVars
    <2> QED BY <2>1, <2>2
<1>6. Memory' /\ DataInv'
    BY <1>1, <1>2, <1>3, <1>4, <1>5 DEF Next, AcquireLockByZone
<1> QED BY <1>0, <1>6 DEF IInv, DataInv

-----------------------------------------------------------------------------
(* The errors of the database.                                             *)
FaultNext == Next \/ \E r \in Req : Errors(r)

LEMMA FaultType ==
    ASSUME TypeOK, NEW r \in Req, Errors(r)
    PROVE  TypeOK'
<1> DEFINE m == MgmtOf[r]
<1> USE DEF dbVars, procVars, memVars
<1>0. /\ lockDoc \in LockDoc /\ oldLock[r] \in LockDoc /\ InitialLock \in LockDoc
      /\ m \in Mgmt /\ errors \in Nat /\ lockDoc.lockCounter \in Nat
    BY DEF TypeOK, LockDoc, InitialLock, Absent
<1>1. CASE FindLockError(r)
    <2>1. pc' \in [Req -> PCs] /\ oldLock' \in [Req -> LockDoc]
        BY <1>0, <1>1, GoToType DEF FindLockError, PCs
    <2> QED BY <1>0, <1>1, <2>1 DEF FindLockError, DBError, TypeOK
<1>2. CASE CheckAliveError(r)
    <2>1. lapsed' \subseteq Nat
        <3>1. lapsed \subseteq Nat
            BY DEF TypeOK
        <3>2. lapsed' = lapsed \/ lapsed' = lapsed \cup {lockDoc.lockCounter}
            BY <1>2 DEF CheckAliveError
        <3> QED BY <1>0, <3>1, <3>2
    <2>2. pc' \in [Req -> PCs] /\ oldLock' \in [Req -> LockDoc]
        BY <1>0, <1>2, GoToType DEF CheckAliveError, PCs
    <2> QED BY <1>0, <1>2, <2>1, <2>2 DEF CheckAliveError, DBError, TypeOK
<1>3. CASE InitialCreationError(r)
    <2>1. pc' \in [Req -> PCs] /\ oldLock' \in [Req -> LockDoc]
        BY <1>0, <1>3, GoToType DEF InitialCreationError, PCs
    <2> QED BY <1>0, <1>3, <2>1 DEF InitialCreationError, DBError, TypeOK
<1>4. CASE CreateLockError(r)
    <2>1. pc' \in [Req -> PCs] /\ oldLock' \in [Req -> LockDoc]
        BY <1>0, <1>4, GoToType DEF CreateLockError, PCs
    <2>2. lockDoc' \in LockDoc /\ lapsed' \subseteq Nat
        <3>1. CASE UNCHANGED dbVars
            BY <3>1 DEF TypeOK
        <3>2. CASE TakeLock(m)
            <4>1. lockDoc.lockCounter + 1 \in Nat /\ bootVersion[m] \in Nat
                BY <1>0 DEF TypeOK
            <4> QED BY <1>0, <3>2, <4>1 DEF TakeLock, LockDoc, TypeOK
        <3> QED BY <1>4, <3>1, <3>2 DEF CreateLockError
    <2> QED BY <1>0, <1>4, <2>1, <2>2 DEF CreateLockError, DBError, TypeOK
<1>5. CASE GiveUp(r)
    BY <1>0, <1>5, GoToType DEF GiveUp, TypeOK, PCs
<1>6. CASE ReleaseFailed(r)
    <2>1. pc' \in [Req -> PCs] /\ oldLock' \in [Req -> LockDoc]
        BY <1>0, <1>6, GoToType DEF ReleaseFailed, PCs
    <2>2. lockDoc' \in LockDoc /\ lapsed' = lapsed
        BY <1>0, <1>6, UnlockType DEF ReleaseFailed, Unlock
    <2> QED BY <1>6, <2>1, <2>2 DEF ReleaseFailed, TypeOK
<1>7. CASE ReleaseLockError(r)
    <2>1. lapsed' \subseteq Nat
        BY <1>0, <1>7 DEF ReleaseLockError, HeldBy, TypeOK
    <2>2. lockDoc' \in LockDoc
        BY <1>0, <1>7 DEF ReleaseLockError, LockDoc
    <2>3. errors' \in Nat
        BY <1>0, <1>7 DEF ReleaseLockError, DBError
    <2> QED BY <1>0, <1>7, <2>1, <2>2, <2>3, ForgetType DEF ReleaseLockError, TypeOK
<1> QED BY <1>1, <1>2, <1>3, <1>4, <1>5, <1>6, <1>7 DEF Errors

(* The flag stays set behind a request that gives up.                      *)
LEMMA GiveUpMemory ==
    ASSUME TypeOK, QueueInv, SerialInManagement, UpInv, NEW r \in Req, GiveUp(r)
    PROVE  QueueInv' /\ SerialInManagement' /\ UpInv'
<1>1. /\ pc[r] = "failed" /\ pc'[r] = "done" /\ \A s \in Req \ {r} : pc'[s] = pc[s]
      /\ waitingForLock' = waitingForLock /\ lockingQueue' = lockingQueue /\ up' = up
    BY GoToFacts DEF GiveUp, memVars, procVars
<1>2. \A s \in Req : Active(s)' => Active(s)
    BY <1>1 DEF Active, AtWork
<1>3. SerialInManagement' /\ UpInv'
    BY <1>1, <1>2 DEF SerialInManagement, UpInv
<1>4. \A s \in Req : pc[s] = "queued" => pc'[s] = "queued"
    BY <1>1
<1>5. \A n \in Mgmt : QueueOf(n)'
    BY <1>1, <1>4, QueueKept
<1> QED BY <1>3, <1>5 DEF QueueInv

LEMMA FaultMemory ==
    ASSUME TypeOK, QueueInv, SerialInManagement, UpInv, NEW r \in Req, Errors(r)
    PROVE  QueueInv' /\ SerialInManagement' /\ UpInv'
<1> USE DEF AtWork, procVars
<1>1. CASE FindLockError(r)
    BY <1>1, MoveInv DEF FindLockError
<1>2. CASE CheckAliveError(r)
    BY <1>2, MoveInv DEF CheckAliveError
<1>3. CASE InitialCreationError(r)
    BY <1>3, MoveInv DEF InitialCreationError
<1>4. CASE CreateLockError(r)
    BY <1>4, MoveInv DEF CreateLockError
<1>5. CASE GiveUp(r)
    BY <1>5, GiveUpMemory
<1>6. CASE ReleaseFailed(r)
    BY <1>6, MoveInv DEF ReleaseFailed
<1>7. CASE ReleaseLockError(r)
    BY <1>7, ForgetMemory DEF ReleaseLockError
<1> QED BY <1>1, <1>2, <1>3, <1>4, <1>5, <1>6, <1>7 DEF Errors

(* A holder that passes for dead by an error lapses by it.                 *)
LEMMA CheckAliveErrorData ==
    ASSUME TypeOK, DataInv, NEW r \in Req, CheckAliveError(r)
    PROVE  DataInv'
<1>0. /\ lockDoc' = lockDoc /\ fresh' = fresh /\ up' = up /\ bootVersion' = bootVersion
      /\ errors' # 0 /\ lapsed \subseteq lapsed' /\ lockDoc.lockCounter \in Nat
      /\ \A n \in lapsed' : n \in lapsed \/ n = lockDoc.lockCounter
      /\ Unchanged(r) /\ lockDoc.status = "locked" => lockDoc.lockCounter \in lapsed'
    BY DEF CheckAliveError, DBError, procVars, TypeOK, LockDoc
<1>1. /\ pc[r] = "checkAlive" /\ pc'[r] = "update" /\ oldLock'[r] = oldLock[r]
      /\ \A s \in Req \ {r} : pc'[s] = pc[s] /\ oldLock'[s] = oldLock[s]
    BY GoToFacts DEF CheckAliveError
<1>2. DocInv'
    BY <1>0 DEF DataInv, DocInv, LockedBy
<1>3. ReadInv'
    BY <1>0, <1>1 DEF DataInv, ReadInv, Unchanged
<1>4. \A s \in Req : InSection(s)' => InSection(s) /\ oldLock'[s] = oldLock[s]
    BY <1>1 DEF InSection
<1>5. TicketInv'
    BY <1>0, <1>4 DEF DataInv, TicketInv, Ticket, Holds, LockedBy
<1>6. StallInv'
    BY <1>0 DEF StallInv
<1> QED BY <1>2, <1>3, <1>5, <1>6 DEF DataInv

(* The document may still be absent when its insertion passes for done.    *)
LEMMA InitialCreationErrorData ==
    ASSUME TypeOK, DataInv, NEW r \in Req, InitialCreationError(r)
    PROVE  DataInv'
<1>0. /\ lockDoc' = lockDoc /\ lapsed' = lapsed /\ fresh' = fresh /\ up' = up
      /\ bootVersion' = bootVersion /\ errors' # 0 /\ lockDoc.lockCounter \in Nat
    BY DEF InitialCreationError, DBError, dbVars, procVars, TypeOK, LockDoc
<1>1. /\ pc'[r] = "update" /\ oldLock'[r] = InitialLock
      /\ \A s \in Req \ {r} : pc'[s] = pc[s] /\ oldLock'[s] = oldLock[s]
    BY GoToFacts DEF InitialCreationError
<1>2. InitialLock.lockCounter = 1
    BY DEF InitialLock, Absent
<1>3. DocInv'
    BY <1>0 DEF DataInv, DocInv, LockedBy
<1>4. lockDoc.status = "locked" => lockDoc.lockCounter # 1
    BY <1>0 DEF DataInv, DocInv
<1>5. ReadInv'
    BY <1>0, <1>1, <1>2, <1>4 DEF DataInv, ReadInv, Unchanged
<1>6. \A s \in Req : InSection(s)' => InSection(s) /\ oldLock'[s] = oldLock[s]
    BY <1>1 DEF InSection
<1>7. TicketInv'
    BY <1>0, <1>6 DEF DataInv, TicketInv, Ticket, Holds, LockedBy
<1>8. StallInv'
    BY <1>0 DEF StallInv
<1> QED BY <1>3, <1>5, <1>7, <1>8 DEF DataInv

(* The process ends over its release, which may have been applied: then    *)
(* whoever is in the section elsewhere had lapsed before.                  *)
LEMMA ReleaseLockErrorData ==
    ASSUME TypeOK, DataInv, NEW r \in Req, ReleaseLockError(r)
    PROVE  DataInv'
<1> DEFINE m == MgmtOf[r]
<1>0. /\ bootVersion' = bootVersion /\ fresh' = fresh /\ oldLock' = oldLock
      /\ errors' # 0 /\ lockDoc.lockCounter \in Nat /\ m \in Mgmt
      /\ lapsed' = lapsed \cup HeldBy(m)
      /\ \A n \in Mgmt \ {m} : up'[n] = up[n]
    BY DEF ReleaseLockError, ForgetProcess, DBError, TypeOK, LockDoc
<1>1. /\ \A s \in Req : pc'[s] \in {"checkAlive", "update"} => pc'[s] = pc[s]
      /\ \A s \in Req : InSection(s)' => InSection(s) /\ MgmtOf[s] # m
    BY DEF ReleaseLockError, ForgetProcess, InSection
<1>2. /\ LockedBy(m) => lockDoc.lockCounter \in lapsed'
      /\ \A n \in lapsed' : n <= lockDoc.lockCounter
    BY <1>0 DEF HeldBy, DataInv, DocInv
<1>3. StallInv'
    BY <1>0 DEF StallInv
<1>4. CASE UNCHANGED lockDoc
    <2>1. DocInv'
        BY <1>0, <1>2, <1>4 DEF DataInv, DocInv, LockedBy
    <2>2. ReadInv'
        BY <1>0, <1>1, <1>4 DEF DataInv, ReadInv, Unchanged
    <2>3. TicketInv'
        BY <1>0, <1>1, <1>4 DEF DataInv, TicketInv, Ticket, Holds, LockedBy
    <2> QED BY <1>3, <2>1, <2>2, <2>3 DEF DataInv
<1>5. CASE LockedBy(m) /\ lockDoc' = [lockDoc EXCEPT !.status = "unlocked"]
    <2>1. /\ lockDoc'.lockCounter = lockDoc.lockCounter /\ lockDoc'.status = "unlocked"
          /\ lockDoc.lockCounter >= 2
        BY <1>5 DEF DataInv, DocInv, TypeOK, LockDoc, LockedBy
    <2>2. DocInv'
        BY <1>0, <1>2, <2>1 DEF DocInv, LockedBy
    <2>3. ReadInv'
        BY <1>0, <1>1, <2>1 DEF DataInv, ReadInv, Unchanged
    <2>4. ASSUME NEW s \in Req, InSection(s)' PROVE Ticket(s) \in lapsed
        <3>1. InSection(s) /\ ~Holds(s)
            BY <1>1, <1>5, <2>4 DEF Holds, LockedBy
        <3> QED BY <3>1 DEF DataInv, TicketInv
    <2>5. TicketInv'
        BY <1>0, <1>1, <2>1, <2>4 DEF DataInv, TicketInv, Ticket
    <2> QED BY <1>3, <2>2, <2>3, <2>5 DEF DataInv
<1> QED BY <1>4, <1>5 DEF ReleaseLockError

LEMMA FaultData ==
    ASSUME TypeOK, DataInv, UpInv, SerialInManagement, NEW r \in Req, Errors(r)
    PROVE  DataInv'
<1>0. DBError => errors' # 0
    BY DEF DBError, TypeOK
<1>1. CASE FindLockError(r)
    <2>1. /\ pc'[r] = "initial"
          /\ \A s \in Req \ {r} : pc'[s] = pc[s] /\ oldLock'[s] = oldLock[s]
        BY <1>1, GoToFacts DEF FindLockError
    <2>2. \A s \in Req : \/ pc'[s] = pc[s] /\ oldLock'[s] = oldLock[s]
                        \/ pc'[s] \notin {"checkAlive", "update", "locked"}
        BY <2>1
    <2>3. UNCHANGED <<dbVars, procVars>> /\ errors' # 0
        BY <1>0, <1>1 DEF FindLockError
    <2> QED BY <2>2, <2>3, QuietData
<1>2. CASE CheckAliveError(r)
    BY <1>2, CheckAliveErrorData
<1>3. CASE InitialCreationError(r)
    BY <1>3, InitialCreationErrorData
<1>4. CASE CreateLockError(r)
    <2>1. /\ GoTo(r, "update", "failed", oldLock[r])
          /\ UNCHANGED procVars /\ errors' # 0
        BY <1>0, <1>4 DEF CreateLockError
    <2>2. CASE Unchanged(r) /\ TakeLock(MgmtOf[r])
        BY <2>1, <2>2, TakeLockData
    <2>3. CASE UNCHANGED dbVars
        <3>1. \A s \in Req : \/ pc'[s] = pc[s] /\ oldLock'[s] = oldLock[s]
                            \/ pc'[s] \notin {"checkAlive", "update", "locked"}
            BY <2>1, GoToFacts
        <3> QED BY <2>1, <2>3, <3>1, QuietData
    <2> QED BY <1>4, <2>2, <2>3 DEF CreateLockError
<1>5. CASE GiveUp(r)
    <2>1. \A s \in Req : \/ pc'[s] = pc[s] /\ oldLock'[s] = oldLock[s]
                        \/ pc'[s] \notin {"checkAlive", "update", "locked"}
        BY <1>5, GoToFacts DEF GiveUp
    <2>2. UNCHANGED <<dbVars, procVars>> /\ errors' = errors
        BY <1>5 DEF GiveUp
    <2> QED BY <2>1, <2>2, QuietData
<1>6. CASE ReleaseFailed(r)
    BY <1>6, UnlockData DEF ReleaseFailed
<1>7. CASE ReleaseLockError(r)
    BY <1>7, ReleaseLockErrorData
<1> QED BY <1>1, <1>2, <1>3, <1>4, <1>5, <1>6, <1>7 DEF Errors

LEMMA FaultStep == IInv /\ [FaultNext]_vars => IInv'
<1> SUFFICES ASSUME IInv, NEW r \in Req, Errors(r) PROVE IInv'
    BY InductiveStep DEF FaultNext
<1>1. TypeOK /\ QueueInv /\ SerialInManagement /\ UpInv /\ DataInv
    BY DEF IInv, DataInv
<1>2. TypeOK'
    BY <1>1, FaultType
<1>3. QueueInv' /\ SerialInManagement' /\ UpInv'
    BY <1>1, FaultMemory
<1>4. DataInv'
    BY <1>1, FaultData
<1> QED BY <1>2, <1>3, <1>4 DEF IInv, DataInv

LEMMA Inductive == FaultSpec => []IInv
<1>1. FaultSpec => Init /\ [][FaultNext]_vars
    BY DEF FaultSpec, FaultNext
<1> QED BY <1>1, InitInv, FaultStep, PTL

(* A behaviour without errors is one with errors.                          *)
LEMMA SpecIsFaultSpec == Spec => FaultSpec
<1>1. [Next]_vars => [Next \/ \E r \in Req : Errors(r)]_vars
    OBVIOUS
<1> QED BY <1>1, PTL DEF Spec, FaultSpec

NoErrorYet == errors = 0

LEMMA NoErrors == Spec => []NoErrorYet
<1>1. Init => NoErrorYet
    BY DEF Init, NoErrorYet
<1>2. NoErrorYet /\ [Next]_vars => NoErrorYet'
    <2> SUFFICES ASSUME [Next]_vars PROVE errors' = errors
        BY DEF NoErrorYet
    <2>1. ASSUME NEW r \in Req, AcquireLockByZone(r) \/ Progress(r) \/ ReleaseLock(r)
          PROVE  errors' = errors
        BY <2>1 DEF AcquireLockByZone, AcquireLock, Progress, DeferredAcquire, FindLock,
               CheckAlive, InitialLockCreation, CreateLock, RetryAcquire, ReleaseCallback,
               ReleaseLock
    <2>2. ASSUME NEW m \in Mgmt, Environment(m) PROVE errors' = errors
        BY <2>2 DEF Environment, Crash, Restart, HeartbeatExpires, Heartbeat
    <2>3. CASE UNCHANGED vars
        BY <2>3 DEF vars
    <2> QED BY <2>1, <2>2, <2>3 DEF Next
<1> QED BY <1>1, <1>2, PTL DEF Spec

(* Type correctness of the zone lock, with a database that fails.          *)
THEOREM TypeCorrect == FaultSpec => []TypeOK
<1>1. IInv => TypeOK
    BY DEF IInv
<1> QED BY <1>1, Inductive, PTL

(* Two requests are in the critical section of a zone together only if the *)
(* heartbeat of one of them lapsed since it took the lock.                 *)
THEOREM LeaseIsExclusive == FaultSpec => []ExclusiveUnlessLapsed
<1>1. IInv => ExclusiveUnlessLapsed
    BY DEF IInv, ExclusiveUnlessLapsed, TicketInv, Holds, LockedBy, SerialInManagement,
           Active, AtWork, InSection
<1> QED BY <1>1, Inductive, PTL

(* When running managements keep their heartbeats, one request at most is  *)
(* in the critical section of a zone.                                      *)
THEOREM LockIsExclusive == Spec => []MutualExclusion
<1>1. IInv /\ NoErrorYet => MutualExclusion
    BY DEF NoErrorYet, IInv, MutualExclusion, StallInv, TicketInv, Holds, LockedBy,
           SerialInManagement, Active, AtWork, InSection
<1> QED BY <1>1, Inductive, SpecIsFaultSpec, NoErrors, PTL

(* A request in the critical section is the holder the document names,     *)
(* until its heartbeat lapses.                                             *)
THEOREM SectionIsHeld == FaultSpec => []SectionHoldsLock
<1>1. IInv => SectionHoldsLock
    BY DEF IInv, SectionHoldsLock, TicketInv
<1> QED BY <1>1, Inductive, PTL

(* A management works on one request at a time.                            *)
THEOREM ManagementIsSerial == FaultSpec => []SerialInManagement
<1>1. IInv => SerialInManagement
    BY DEF IInv
<1> QED BY <1>1, Inductive, PTL

(* A lock is only taken from a holder that crashed or went silent.         *)
THEOREM StealsOnlyLapsed == FaultSpec => StealOnlyFromDead
<1> DEFINE Stolen == lockDoc.status = "locked" /\ lockDoc'.lockCounter # lockDoc.lockCounter
<1>1. ASSUME IInv, [FaultNext]_vars, Stolen PROVE lockDoc.lockCounter \in lapsed
    <2>0. lockDoc \in LockDoc
        BY <1>1 DEF IInv, TypeOK
    <2>1. ASSUME NEW r \in Req, CreateLock(r) \/ CreateLockError(r), Unchanged(r)
          PROVE  lockDoc.lockCounter \in lapsed
        <3>1. pc[r] = "update"
            BY <2>1 DEF CreateLock, CreateLockError, GoTo
        <3> QED BY <1>1, <2>1, <3>1 DEF IInv, ReadInv
    <2>2. ASSUME NEW r \in Req, AcquireLockByZone(r) \/ Progress(r) \/ ReleaseLock(r),
                 ~(CreateLock(r) /\ Unchanged(r))
          PROVE  FALSE
        BY <1>1, <2>0, <2>2
           DEF AcquireLockByZone, AcquireLock, Progress, DeferredAcquire, FindLock, CheckAlive,
               InitialLockCreation, Upsert, CreateLock, RetryAcquire, ReleaseCallback,
               ReleaseLock, Unlock, dbVars, LockDoc
    <2>3. ASSUME NEW m \in Mgmt, Environment(m) PROVE FALSE
        BY <1>1, <2>3 DEF Environment, Crash, Restart, HeartbeatExpires, Heartbeat, dbVars
    <2>4. CASE UNCHANGED vars
        BY <1>1, <2>4 DEF vars
    <2>5. ASSUME NEW r \in Req, Errors(r), ~(CreateLockError(r) /\ Unchanged(r))
          PROVE  FALSE
        BY <1>1, <2>0, <2>5
           DEF Errors, FindLockError, CheckAliveError, InitialCreationError, CreateLockError,
               GiveUp, ReleaseFailed, Unlock, ReleaseLockError, dbVars, LockDoc
    <2>6. CASE Next
        BY <2>1, <2>2, <2>3, <2>6 DEF Next, Progress
    <2> QED BY <1>1, <2>1, <2>4, <2>5, <2>6 DEF FaultNext
<1>2. IInv /\ [FaultNext]_vars => [Stolen => lockDoc.lockCounter \in lapsed]_vars
    BY <1>1
<1>3. FaultSpec => [][FaultNext]_vars
    BY DEF FaultSpec, FaultNext
<1> QED BY <1>2, <1>3, Inductive, PTL DEF StealOnlyFromDead

-----------------------------------------------------------------------------
(* Wake-ups.  What QueueInv leaves open: a queued request is in the queue, *)
(* and somebody is left to dequeue it.                                     *)
InQueue(m, r) == \E i \in 1..Len(lockingQueue[m]) : lockingQueue[m][i] = r

Waker(m) == \E r \in Req : MgmtOf[r] = m /\ Active(r)
DeferredWaker(m) == \E r \in Req : MgmtOf[r] = m /\ pc[r] = "deferred"

WakeInv ==
    /\ \A r \in Req : pc[r] = "queued" => InQueue(MgmtOf[r], r)
    /\ \A m \in Mgmt : /\ waitingForLock[m] => Waker(m)
                       /\ lockingQueue[m] # <<>> => Waker(m) \/ DeferredWaker(m)

LEMMA WakeIsNoLostWakeup ==
    ASSUME TypeOK, QueueInv, WakeInv
    PROVE  NoLostWakeup
<1> SUFFICES ASSUME NEW m \in Mgmt
             PROVE  LET q == lockingQueue[m] IN
                    /\ \A i, j \in DOMAIN q : q[i] = q[j] => i = j
                    /\ \A r \in Req : MgmtOf[r] = m /\ pc[r] = "queued"
                                        <=> \E i \in DOMAIN q : q[i] = r
                    /\ waitingForLock[m] => \E r \in Req : MgmtOf[r] = m /\ Active(r)
                    /\ q # <<>> => \E r \in Req : /\ MgmtOf[r] = m
                                                  /\ Active(r) \/ pc[r] = "deferred"
    BY DEF NoLostWakeup
<1> DEFINE q == lockingQueue[m]
<1>1. DOMAIN q = 1..Len(q)
    <2>1. q \in Seq(Req)
        BY DEF TypeOK
    <2> QED BY <2>1
<1>2. \A i, j \in DOMAIN q : q[i] = q[j] => i = j
    BY <1>1 DEF QueueInv, QueueOf
<1>3. ASSUME NEW r \in Req, MgmtOf[r] = m, pc[r] = "queued"
      PROVE  \E i \in DOMAIN q : q[i] = r
    BY <1>1, <1>3 DEF WakeInv, InQueue
<1>4. ASSUME NEW r \in Req, NEW i \in DOMAIN q, q[i] = r
      PROVE  MgmtOf[r] = m /\ pc[r] = "queued"
    BY <1>1, <1>4 DEF QueueInv, QueueOf
<1>5. waitingForLock[m] => \E r \in Req : MgmtOf[r] = m /\ Active(r)
    BY DEF WakeInv, Waker
<1>6. q # <<>> => \E r \in Req : MgmtOf[r] = m /\ (Active(r) \/ pc[r] = "deferred")
    BY DEF WakeInv, Waker, DeferredWaker
<1> QED BY <1>2, <1>3, <1>4, <1>5, <1>6

(* A step that leaves queues, flags, the queued and the deferred alone,    *)
(* and whose requests stay at work.                                        *)
LEMMA WakeKept ==
    ASSUME WakeInv, UNCHANGED <<waitingForLock, lockingQueue>>,
           \A s \in Req : /\ pc'[s] = "queued" => pc[s] = "queued"
                          /\ pc[s] = "deferred" => pc'[s] = "deferred"
                          /\ Active(s) => Active(s)'
    PROVE  WakeInv'
<1>1. \A m \in Mgmt : /\ Waker(m) => Waker(m)'
                      /\ DeferredWaker(m) => DeferredWaker(m)'
    BY DEF Waker, DeferredWaker
<1>2. \A r \in Req : InQueue(MgmtOf[r], r)' <=> InQueue(MgmtOf[r], r)
    BY DEF InQueue
<1> QED BY <1>1, <1>2 DEF WakeInv

LEMMA MoveWake ==
    ASSUME TypeOK, WakeInv, NEW r \in Req, NEW from \in AtWork, NEW to \in AtWork, NEW lock,
           GoTo(r, from, to, lock), UNCHANGED memVars
    PROVE  WakeInv'
<1>1. /\ pc[r] = from /\ pc'[r] = to /\ \A s \in Req \ {r} : pc'[s] = pc[s]
      /\ UNCHANGED <<waitingForLock, lockingQueue>>
    BY DEF GoTo, TypeOK, memVars
<1>2. from # "queued" /\ to # "queued" /\ from # "deferred"
    BY DEF AtWork
<1>3. \A s \in Req : Active(s) => Active(s)'
    BY <1>1 DEF Active
<1> QED BY <1>1, <1>2, <1>3, WakeKept

(* A request that comes is queued behind one at work, or is at work.       *)
LEMMA AcquireLockWake ==
    ASSUME TypeOK, WakeInv, NEW r \in Req, NEW from \in {"idle", "deferred"},
           AcquireLock(r, from)
    PROVE  WakeInv'
<1> DEFINE m == MgmtOf[r]
           q == lockingQueue[m]
<1>0. m \in Mgmt /\ q \in Seq(Req) /\ pc[r] = from /\ ~Active(r)
    BY DEF TypeOK, AcquireLock, Active, AtWork
<1>1. CASE MustWait(m)
    <2>1. /\ lockingQueue' = [lockingQueue EXCEPT ![m] = Append(q, r)]
          /\ pc' = [pc EXCEPT ![r] = "queued"]
          /\ waitingForLock' = waitingForLock /\ waitingForLock[m]
        BY <1>1 DEF AcquireLock, MustWait
    <2>2. pc'[r] = "queued" /\ \A s \in Req \ {r} : pc'[s] = pc[s]
        BY <2>1 DEF TypeOK
    <2>3. \A s \in Req : Active(s) => Active(s)'
        BY <1>0, <2>2 DEF Active
    <2>4. \A n \in Mgmt : Waker(n) => Waker(n)'
        BY <2>3 DEF Waker
    <2>5. \A n \in Mgmt \ {m} : DeferredWaker(n) => DeferredWaker(n)'
        BY <2>2 DEF DeferredWaker
    <2>6. Waker(m)
        BY <1>0, <2>1 DEF WakeInv
    <2>7. \A n \in Mgmt \ {m} : lockingQueue'[n] = lockingQueue[n]
        BY <2>1 DEF TypeOK
    <2>8. ASSUME NEW s \in Req, pc'[s] = "queued" PROVE InQueue(MgmtOf[s], s)'
        <3>1. lockingQueue'[m] = Append(q, r)
            BY <1>0, <2>1 DEF TypeOK
        <3>2. /\ Len(Append(q, r)) = Len(q) + 1 /\ Len(q) \in Nat
              /\ \A i \in 1..Len(q) : Append(q, r)[i] = q[i]
              /\ Append(q, r)[Len(q) + 1] = r
            BY <1>0
        <3>3. CASE s = r
            <4>1. Len(q) + 1 \in 1..Len(lockingQueue'[m])
                BY <3>1, <3>2
            <4>2. lockingQueue'[m][Len(q) + 1] = r
                BY <3>1, <3>2
            <4> QED BY <3>3, <4>1, <4>2 DEF InQueue
        <3>4. CASE s # r /\ MgmtOf[s] = m
            <4>1. PICK i \in 1..Len(q) : q[i] = s
                BY <2>2, <2>8, <3>4 DEF WakeInv, InQueue
            <4>2. i \in 1..Len(lockingQueue'[m])
                BY <3>1, <3>2
            <4>3. lockingQueue'[m][i] = s
                BY <3>1, <3>2, <4>1
            <4> QED BY <3>4, <4>2, <4>3 DEF InQueue
        <3>5. CASE MgmtOf[s] # m
            <4>1. s # r /\ MgmtOf[s] \in Mgmt \ {m}
                BY <3>5
            <4>2. InQueue(MgmtOf[s], s)
                BY <2>2, <2>8, <4>1 DEF WakeInv
            <4> QED BY <2>7, <4>1, <4>2 DEF InQueue
        <3> QED BY <3>3, <3>4, <3>5
    <2>9. ASSUME NEW n \in Mgmt
          PROVE  /\ waitingForLock'[n] => Waker(n)'
                 /\ lockingQueue'[n] # <<>> => Waker(n)' \/ DeferredWaker(n)'
        BY <2>1, <2>4, <2>5, <2>6, <2>7 DEF WakeInv
    <2> QED BY <2>8, <2>9 DEF WakeInv
<1>2. CASE ~MustWait(m)
    <2>1. /\ lockingQueue' = lockingQueue
          /\ waitingForLock' = [waitingForLock EXCEPT ![m] = TRUE]
          /\ pc'[r] = "find" /\ \A s \in Req \ {r} : pc'[s] = pc[s]
        BY <1>2 DEF AcquireLock, TypeOK
    <2>2. Active(r)' /\ \A s \in Req : Active(s) => Active(s)'
        BY <1>0, <2>1 DEF Active, AtWork
    <2>3. Waker(m)' /\ \A n \in Mgmt : Waker(n) => Waker(n)'
        BY <2>2 DEF Waker
    <2>4. \A n \in Mgmt \ {m} : DeferredWaker(n) => DeferredWaker(n)'
        BY <2>1 DEF DeferredWaker
    <2>5. \A n \in Mgmt \ {m} : waitingForLock'[n] = waitingForLock[n]
        BY <2>1 DEF TypeOK
    <2>6. \A s \in Req : pc'[s] = "queued" => InQueue(MgmtOf[s], s)'
        BY <2>1 DEF WakeInv, InQueue
    <2>7. \A n \in Mgmt : /\ waitingForLock'[n] => Waker(n)'
                          /\ lockingQueue'[n] # <<>> => Waker(n)' \/ DeferredWaker(n)'
        BY <2>1, <2>3, <2>4, <2>5 DEF WakeInv
    <2> QED BY <2>6, <2>7 DEF WakeInv
<1> QED BY <1>1, <1>2

(* Who is done makes the first of the queue its successor, at work or      *)
(* behind a timer.                                                         *)
LEMMA ReleaseCallbackWake ==
    ASSUME TypeOK, QueueInv, SerialInManagement, WakeInv, NEW r \in Req, ReleaseCallback(r)
    PROVE  WakeInv'
<1> DEFINE m == MgmtOf[r]
           q == lockingQueue[m]
<1>0. /\ m \in Mgmt /\ q \in Seq(Req) /\ pc[r] = "released"
      /\ waitingForLock' = [waitingForLock EXCEPT ![m] = FlagAfterRelease(m)]
    BY DEF TypeOK, ReleaseCallback
<1>1. \A n \in Mgmt \ {m} : waitingForLock'[n] = waitingForLock[n]
    BY <1>0 DEF TypeOK
<1>2. waitingForLock'[m] => q # <<>> /\ Soon(m)
    BY <1>0, Zenon DEF FlagAfterRelease, TypeOK
<1>3. CASE q = <<>>
    <2>1. /\ lockingQueue' = lockingQueue
          /\ pc'[r] = "done" /\ \A s \in Req \ {r} : pc'[s] = pc[s]
        BY <1>3 DEF ReleaseCallback, TypeOK
    <2>2. \A n \in Mgmt \ {m} : /\ Waker(n) => Waker(n)'
                                /\ DeferredWaker(n) => DeferredWaker(n)'
        BY <2>1 DEF Waker, DeferredWaker, Active
    <2>3. \A s \in Req : pc'[s] = "queued" => InQueue(MgmtOf[s], s)'
        BY <2>1 DEF WakeInv, InQueue
    <2>4. \A n \in Mgmt : /\ waitingForLock'[n] => Waker(n)'
                          /\ lockingQueue'[n] # <<>> => Waker(n)' \/ DeferredWaker(n)'
        BY <1>1, <1>2, <1>3, <2>1, <2>2 DEF WakeInv
    <2> QED BY <2>3, <2>4 DEF WakeInv
<1>4. CASE q # <<>>
    <2>1. PICK h \in Req : h = Head(q)
        BY <1>0, <1>4
    <2>2. /\ lockingQueue' = [lockingQueue EXCEPT ![m] = Tail(q)]
          /\ pc' = [pc EXCEPT ![r] = "done", ![h] = IF Soon(m) THEN "find" ELSE "deferred"]
        BY <1>4, <2>1 DEF ReleaseCallback
    <2>3. Len(q) \in Nat /\ Len(q) >= 1 /\ h = q[1] /\ 1 \in 1..Len(q)
        BY <1>0, <1>4, <2>1
    <2>4. MgmtOf[h] = m /\ pc[h] = "queued"
        BY <1>0, <2>3 DEF QueueInv, QueueOf
    <2>5. h # r
        BY <1>0, <2>4
    <2>6. /\ pc'[r] = "done"
          /\ Soon(m) => pc'[h] = "find"
          /\ ~Soon(m) => pc'[h] = "deferred"
          /\ \A s \in Req \ {r, h} : pc'[s] = pc[s]
        BY <2>2, <2>5 DEF TypeOK
    <2>7. Soon(m) => Waker(m)'
        BY <2>4, <2>6 DEF Waker, Active, AtWork
    <2>8. ~Soon(m) => DeferredWaker(m)'
        BY <2>4, <2>6 DEF DeferredWaker
    <2>9. \A n \in Mgmt \ {m} : /\ Waker(n) => Waker(n)'
                                /\ DeferredWaker(n) => DeferredWaker(n)'
        BY <2>4, <2>6 DEF Waker, DeferredWaker, Active
    <2>10. lockingQueue'[m] = Tail(q) /\ \A n \in Mgmt \ {m} : lockingQueue'[n] = lockingQueue[n]
        BY <1>0, <2>2 DEF TypeOK
    <2>11. ASSUME NEW s \in Req, pc'[s] = "queued" PROVE InQueue(MgmtOf[s], s)'
        <3>1. s \in Req \ {r, h} /\ pc[s] = "queued"
            <4>1. s # r
                BY <2>6, <2>11
            <4>2. s # h
                BY <2>6, <2>11
            <4> QED BY <2>6, <2>11, <4>1, <4>2
        <3>2. InQueue(MgmtOf[s], s)
            BY <3>1 DEF WakeInv
        <3>3. CASE MgmtOf[s] # m
            <4>1. lockingQueue'[MgmtOf[s]] = lockingQueue[MgmtOf[s]]
                BY <2>10, <3>3
            <4> QED BY <3>2, <4>1 DEF InQueue
        <3>4. CASE MgmtOf[s] = m
            <4>1. PICK i \in 1..Len(q) : q[i] = s
                BY <3>2, <3>4 DEF InQueue
            <4>2. i # 1
                BY <2>3, <3>1, <4>1
            <4>3. i - 1 \in 1..(Len(q) - 1)
                BY <2>3, <4>2
            <4>4. Len(Tail(q)) = Len(q) - 1 /\ Tail(q)[i - 1] = q[i]
                BY <1>0, <1>4, <4>3
            <4>5. i - 1 \in 1..Len(lockingQueue'[m]) /\ lockingQueue'[m][i - 1] = s
                BY <2>10, <4>1, <4>3, <4>4
            <4> QED BY <3>4, <4>5 DEF InQueue
        <3> QED BY <3>3, <3>4
    <2>12. ASSUME NEW n \in Mgmt
           PROVE  /\ waitingForLock'[n] => Waker(n)'
                  /\ lockingQueue'[n] # <<>> => Waker(n)' \/ DeferredWaker(n)'
        <3>1. CASE n = m
            BY <1>2, <2>7, <2>8, <3>1
        <3>2. CASE n # m
            BY <1>1, <2>9, <2>10, <3>2 DEF WakeInv
        <3> QED BY <3>1, <3>2
    <2> QED BY <2>11, <2>12 DEF WakeInv
<1> QED BY <1>3, <1>4

LEMMA EnvironmentWake ==
    ASSUME TypeOK, WakeInv, NEW m \in Mgmt, Environment(m)
    PROVE  WakeInv'
<1>1. CASE Crash(m)
    <2>1. /\ waitingForLock' = [waitingForLock EXCEPT ![m] = FALSE]
          /\ lockingQueue' = [lockingQueue EXCEPT ![m] = <<>>]
          /\ \A s \in Req : MgmtOf[s] # m => pc'[s] = pc[s]
          /\ \A s \in Req : MgmtOf[s] = m => pc'[s] \in {"idle", "done", "lost"}
        BY <1>1 DEF Crash, ForgetProcess, TypeOK
    <2>2. /\ ~waitingForLock'[m] /\ lockingQueue'[m] = <<>>
          /\ \A n \in Mgmt \ {m} : /\ waitingForLock'[n] = waitingForLock[n]
                                   /\ lockingQueue'[n] = lockingQueue[n]
        BY <2>1 DEF TypeOK
    <2>3. \A n \in Mgmt \ {m} : /\ Waker(n) => Waker(n)'
                                /\ DeferredWaker(n) => DeferredWaker(n)'
        BY <2>1 DEF Waker, DeferredWaker, Active
    <2>4. ASSUME NEW s \in Req, pc'[s] = "queued" PROVE InQueue(MgmtOf[s], s)'
        <3>1. MgmtOf[s] \in Mgmt \ {m}
            BY <2>1, <2>4
        <3>2. pc[s] = "queued"
            BY <2>1, <2>4, <3>1
        <3> QED BY <2>2, <3>1, <3>2 DEF WakeInv, InQueue
    <2>5. \A n \in Mgmt : /\ waitingForLock'[n] => Waker(n)'
                          /\ lockingQueue'[n] # <<>> => Waker(n)' \/ DeferredWaker(n)'
        BY <2>2, <2>3 DEF WakeInv
    <2> QED BY <2>4, <2>5 DEF WakeInv
<1>2. CASE Restart(m) \/ HeartbeatExpires(m) \/ Heartbeat(m)
    <2>1. UNCHANGED <<waitingForLock, lockingQueue, pc>>
        BY <1>2 DEF Restart, HeartbeatExpires, Heartbeat, memVars
    <2> QED BY <2>1, WakeKept DEF Active
<1> QED BY <1>1, <1>2 DEF Environment

LEMMA WakeStep == IInv /\ WakeInv /\ [Next]_vars => WakeInv'
<1> SUFFICES ASSUME IInv, WakeInv, [Next]_vars PROVE WakeInv'
    OBVIOUS
<1>0. TypeOK /\ QueueInv /\ SerialInManagement
    BY DEF IInv
<1>1. ASSUME NEW r \in Req, AcquireLockByZone(r) PROVE WakeInv'
    BY <1>0, <1>1, AcquireLockWake DEF AcquireLockByZone
<1>2. ASSUME NEW r \in Req, Progress(r) PROVE WakeInv'
    <2> USE DEF AtWork
    <2>1. CASE DeferredAcquire(r)
        BY <1>0, <2>1, AcquireLockWake DEF DeferredAcquire
    <2>2. CASE FindLock(r)
        BY <1>0, <2>2, MoveWake DEF FindLock
    <2>3. CASE CheckAlive(r)
        BY <1>0, <2>3, MoveWake DEF CheckAlive
    <2>4. CASE InitialLockCreation(r)
        BY <1>0, <2>4, MoveWake DEF InitialLockCreation
    <2>5. CASE CreateLock(r)
        BY <1>0, <2>5, MoveWake DEF CreateLock
    <2>6. CASE RetryAcquire(r)
        BY <1>0, <2>6, MoveWake DEF RetryAcquire
    <2>7. CASE ReleaseCallback(r)
        BY <1>0, <2>7, ReleaseCallbackWake
    <2> QED BY <1>2, <2>1, <2>2, <2>3, <2>4, <2>5, <2>6, <2>7 DEF Progress
<1>3. ASSUME NEW r \in Req, ReleaseLock(r) PROVE WakeInv'
    BY <1>0, <1>3, MoveWake DEF ReleaseLock, AtWork
<1>4. ASSUME NEW m \in Mgmt, Environment(m) PROVE WakeInv'
    BY <1>0, <1>4, EnvironmentWake
<1>5. CASE UNCHANGED vars
    BY <1>5, WakeKept DEF vars, Active
<1> QED BY <1>1, <1>2, <1>3, <1>4, <1>5 DEF Next

(* No wake-up is lost (lock.js): the queue holds every queued request of   *)
(* its management once, and while anybody waits there is a request at      *)
(* work, or one behind the timer of releaseLock, that will dequeue it.     *)
THEOREM NoWakeupIsLost == Spec => []NoLostWakeup
<1>1. Init => WakeInv
    BY DEF Init, WakeInv
<1>2. IInv /\ WakeInv => NoLostWakeup
    BY WakeIsNoLostWakeup DEF IInv
<1>3. Spec => []IInv
    BY SpecIsFaultSpec, Inductive, PTL
<1>4. Spec => []WakeInv
    BY <1>1, <1>3, WakeStep, PTL DEF Spec
<1> QED BY <1>2, <1>3, <1>4, PTL

-----------------------------------------------------------------------------
(* The zone lock implements the lease of module ZoneLease.                 *)

(* The management of a request in the section has the lock only by that    *)
(* request: neither does the document name it with a later counter, nor is *)
(* it free while the counter is still that of the request.                 *)
OwnTicketInv ==
    \A r \in Req : InSection(r) =>
        (LockedBy(MgmtOf[r]) <=> Ticket(r) = lockDoc.lockCounter)

LInv == IInv /\ OwnTicketInv

(* What this module uses of the invariants of ZoneLockProofs.              *)
LEMMA Facts ==
    ASSUME IInv
    PROVE  /\ TypeOK /\ SerialInManagement
           /\ lockDoc.lockCounter \in Nat
           /\ lockDoc.status = "absent" <=> lockDoc.lockCounter = 0
           /\ lockDoc.status = "locked" => lockDoc.lockCounter >= 2
           /\ \A r \in Req : /\ oldLock[r].lockCounter \in Nat
                             /\ Ticket(r) \in Nat /\ Ticket(r) >= 1
                             /\ InSection(r) => Ticket(r) <= lockDoc.lockCounter
                             /\ pc[r] = "update" => oldLock[r].lockCounter >= 1
  <1>1. TypeOK /\ DocInv /\ ReadInv /\ TicketInv /\ SerialInManagement
    BY DEF IInv
  <1>2. lockDoc \in LockDoc /\ \A r \in Req : oldLock[r] \in LockDoc
    BY <1>1 DEF TypeOK
  <1>3. lockDoc.lockCounter \in Nat /\ \A r \in Req : oldLock[r].lockCounter \in Nat
    BY <1>2 DEF LockDoc
  <1> QED BY <1>1, <1>3 DEF DocInv, ReadInv, TicketInv, Ticket

(* Two requests at work are of different managements.                      *)
LEMMA Apart ==
    ASSUME SerialInManagement, NEW r \in Req, NEW s \in Req, s # r, Active(r), InSection(s)
    PROVE  MgmtOf[s] # MgmtOf[r]
  BY DEF SerialInManagement, Active, AtWork, InSection

(* A step that leaves the document and the requests in the section alone.  *)
Quiet == /\ UNCHANGED dbVars
         /\ \A s \in Req : \/ pc'[s] = pc[s] /\ oldLock'[s] = oldLock[s]
                           \/ ~InSection(s) /\ ~InSection(s)'

LEMMA QuietOwn == ASSUME LInv, Quiet PROVE OwnTicketInv'
  BY DEF LInv, Quiet, OwnTicketInv, InSection, LockedBy, Ticket, dbVars

LEMMA QuietLease == ASSUME Quiet PROVE UNCHANGED Lease!vars
  <1>1. \A s \in Req : (IF InSection(s) THEN Ticket(s) ELSE 0)'
                       = IF InSection(s) THEN Ticket(s) ELSE 0
    BY DEF Quiet, InSection, Ticket
  <1>2. UNCHANGED <<lockDoc, lapsed>>
    BY DEF Quiet, dbVars
  <1> QED BY <1>1, <1>2 DEF Lease!vars

LEMMA QuietSteps ==
    ASSUME IInv,
           \/ UNCHANGED vars
           \/ \E r \in Req : \/ AcquireLockByZone(r) \/ DeferredAcquire(r) \/ FindLock(r)
                             \/ CheckAlive(r) \/ RetryAcquire(r) \/ ReleaseCallback(r)
                             \/ CreateLock(r) /\ ~Unchanged(r)
           \/ \E m \in Mgmt : Restart(m) \/ Heartbeat(m)
    PROVE  Quiet
  <1>0. TypeOK /\ QueueInv /\ SerialInManagement /\ UpInv
    BY DEF IInv
  <1>1. CASE UNCHANGED vars
    BY <1>1 DEF vars, Quiet, dbVars
  <1>2. ASSUME NEW r \in Req, AcquireLockByZone(r) \/ DeferredAcquire(r) PROVE Quiet
    BY <1>0, <1>2 DEF AcquireLockByZone, DeferredAcquire, AcquireLock, Quiet, InSection, TypeOK
  <1>3. ASSUME NEW r \in Req, NEW from \in PCs \ {"locked"}, NEW to \in PCs \ {"locked"},
               NEW lock, GoTo(r, from, to, lock), UNCHANGED dbVars
        PROVE  Quiet
    BY <1>0, <1>3 DEF GoTo, Quiet, InSection, TypeOK
  <1>4. ASSUME NEW r \in Req, \/ FindLock(r) \/ CheckAlive(r) \/ RetryAcquire(r)
                              \/ CreateLock(r) /\ ~Unchanged(r)
        PROVE  Quiet
    <2>1. CASE FindLock(r)
      BY <1>3, <2>1 DEF FindLock, PCs
    <2>2. CASE CheckAlive(r)
      BY <1>3, <2>2 DEF CheckAlive, PCs
    <2>3. CASE RetryAcquire(r)
      BY <1>3, <2>3 DEF RetryAcquire, PCs
    <2>4. CASE CreateLock(r) /\ ~Unchanged(r)
      BY <1>3, <2>4 DEF CreateLock, PCs
    <2> QED BY <1>4, <2>1, <2>2, <2>3, <2>4
  <1>5. ASSUME NEW r \in Req, ReleaseCallback(r) PROVE Quiet
    <2>1. UNCHANGED <<dbVars, oldLock>>
      BY <1>5 DEF ReleaseCallback
    <2>2. \A s \in Req : pc'[s] # pc[s] => ~InSection(s) /\ ~InSection(s)'
      <3>1. \A s \in Req : pc'[s] # pc[s] => pc'[s] \in {"done", "find", "deferred"}
        BY <1>0, <1>5, ReleaseCallbackMemory
      <3>2. \A s \in Req : pc'[s] # pc[s] => ~InSection(s)
        <4> DEFINE q == lockingQueue[MgmtOf[r]]
        <4>1. q # <<>> => /\ Head(q) = q[1] /\ 1 \in 1..Len(q)
          <5>1. q \in Seq(Req)
            BY <1>0 DEF TypeOK
          <5> QED BY <5>1
        <4>2. \A i \in 1..Len(q) : pc[q[i]] = "queued"
          BY <1>0 DEF QueueInv, QueueOf
        <4>3. \A s \in Req : pc'[s] # pc[s] => s = r \/ (q # <<>> /\ s = Head(q))
          BY <1>0, <1>5 DEF ReleaseCallback, TypeOK
        <4>4. pc[r] = "released"
          BY <1>5 DEF ReleaseCallback
        <4> QED BY <4>1, <4>2, <4>3, <4>4 DEF InSection
      <3> QED BY <3>1, <3>2 DEF InSection
    <2> QED BY <2>1, <2>2 DEF Quiet
  <1>6. ASSUME NEW m \in Mgmt, Restart(m) \/ Heartbeat(m) PROVE Quiet
    BY <1>6 DEF Restart, Heartbeat, Quiet
  <1> QED BY <1>1, <1>2, <1>4, <1>5, <1>6

-----------------------------------------------------------------------------
(* The steps that change the document, and what they are to the lease.     *)
LEMMA InitialCreationLease ==
    ASSUME LInv, NEW r \in Req, InitialLockCreation(r)
    PROVE  OwnTicketInv' /\ UNCHANGED Lease!vars
  <1>1. IInv
    BY DEF LInv
  <1>2. \/ Quiet
        \/ lockDoc.status = "absent" /\ lockDoc' = InitialLock /\ UNCHANGED lapsed
    <2>1. \A s \in Req : \/ pc'[s] = pc[s] /\ oldLock'[s] = oldLock[s]
                         \/ ~InSection(s) /\ ~InSection(s)'
      BY <1>1, Facts DEF InitialLockCreation, GoTo, InSection, TypeOK
    <2>2. lockDoc' = IF lockDoc.status = "absent" THEN InitialLock ELSE lockDoc
      BY DEF InitialLockCreation, Upsert
    <2>3. UNCHANGED lapsed
      BY DEF InitialLockCreation
    <2> QED BY <2>1, <2>2, <2>3 DEF Quiet, dbVars
  <1>3. CASE lockDoc.status = "absent" /\ lockDoc' = InitialLock /\ UNCHANGED lapsed
    <2>1. lockDoc.lockCounter = 0 /\ lockDoc'.lockCounter = 1
          /\ lockDoc.status # "locked" /\ lockDoc'.status # "locked"
      BY <1>1, <1>3, Facts DEF InitialLock, Absent
    <2>2. \A s \in Req : ~InSection(s)
      BY <1>1, <2>1, Facts
    <2>3. \A s \in Req : ~InSection(s)'
      BY <1>1, <2>2, Facts DEF InitialLockCreation, GoTo, InSection, TypeOK
    <2>4. UNCHANGED Lease!vars
      BY <1>3, <2>1, <2>2, <2>3 DEF Lease!vars
    <2> QED BY <2>3, <2>4 DEF OwnTicketInv
  <1> QED BY <1>2, <1>3, QuietOwn, QuietLease

LEMMA CreateLockLease ==
    ASSUME LInv, NEW r \in Req, CreateLock(r), Unchanged(r)
    PROVE  OwnTicketInv' /\ Lease!Enter(r)
  <1> DEFINE m == MgmtOf[r]
  <1>1. IInv
    BY DEF LInv
  <1>2. /\ TypeOK /\ SerialInManagement /\ Active(r) /\ ~InSection(r)
        /\ lockDoc.lockCounter \in Nat /\ lockDoc.lockCounter >= 1
        /\ oldLock[r].lockCounter = lockDoc.lockCounter
    BY <1>1, Facts DEF CreateLock, GoTo, Unchanged, Active, AtWork, InSection
  <1>3. TakeLock(m) /\ GoTo(r, "update", "locked", oldLock[r])
    BY DEF CreateLock
  <1>4. /\ lockDoc'.lockCounter = lockDoc.lockCounter + 1 /\ lockDoc'.status = "locked"
        /\ lockDoc'.managementId = m
        /\ \/ lapsed' = lapsed
           \/ lapsed' = lapsed \cup {lockDoc.lockCounter + 1}
    BY <1>3 DEF TakeLock
  <1>5. /\ InSection(r)' /\ Ticket(r)' = lockDoc.lockCounter + 1
        /\ \A s \in Req \ {r} : InSection(s)' = InSection(s) /\ Ticket(s)' = Ticket(s)
    BY <1>2, <1>3 DEF GoTo, TypeOK, InSection, Ticket
  <1>6. OwnTicketInv'
    <2>1. ASSUME NEW s \in Req, InSection(s)', s # r
          PROVE  ~LockedBy(MgmtOf[s])' /\ Ticket(s)' # lockDoc'.lockCounter
      <3>1. InSection(s) /\ MgmtOf[s] # m
        BY <1>2, <1>5, <2>1, Apart
      <3>2. Ticket(s) \in Nat /\ Ticket(s) <= lockDoc.lockCounter
        BY <1>1, <3>1, Facts
      <3> QED BY <1>2, <1>4, <1>5, <2>1, <3>1, <3>2 DEF LockedBy
    <2>2. LockedBy(m)' /\ Ticket(r)' = lockDoc'.lockCounter
      BY <1>4, <1>5 DEF LockedBy
    <2> QED BY <2>1, <2>2 DEF OwnTicketInv
  <1>7. lockDoc.status = "locked" => lockDoc.lockCounter \in lapsed
    BY <1>1, <1>3 DEF IInv, ReadInv, GoTo
  <1>8. [s \in Req |-> IF InSection(s) THEN Ticket(s) ELSE 0]'
        = [[s \in Req |-> IF InSection(s) THEN Ticket(s) ELSE 0]
             EXCEPT ![r] = lockDoc.lockCounter + 1]
    BY <1>5
  <1>9. lockDoc.lockCounter # 0 /\ lockDoc'.lockCounter # 0
    BY <1>2, <1>4
  <1>10. Lease!Enter(r)
    BY <1>2, <1>4, <1>7, <1>8, <1>9 DEF Lease!Enter
  <1> QED BY <1>6, <1>10

LEMMA ReleaseLockLease ==
    ASSUME LInv, NEW r \in Req, ReleaseLock(r)
    PROVE  OwnTicketInv' /\ Lease!Leave(r)
  <1> DEFINE m == MgmtOf[r]
  <1>1. IInv /\ OwnTicketInv
    BY DEF LInv
  <1>2. /\ TypeOK /\ SerialInManagement /\ Active(r) /\ InSection(r)
        /\ lockDoc.lockCounter \in Nat /\ lockDoc.lockCounter >= 1
        /\ Ticket(r) \in Nat /\ Ticket(r) >= 1
    BY <1>1, Facts DEF ReleaseLock, GoTo, Active, AtWork, InSection
  <1>3. /\ lockDoc'.lockCounter = lockDoc.lockCounter /\ lapsed' = lapsed
        /\ lockDoc'.managementId = lockDoc.managementId
        /\ lockDoc'.status = IF LockedBy(m) THEN "unlocked" ELSE lockDoc.status
    BY <1>2 DEF ReleaseLock, Unlock, TypeOK, LockDoc
  <1>4. /\ ~InSection(r)'
        /\ \A s \in Req \ {r} : InSection(s)' = InSection(s) /\ Ticket(s)' = Ticket(s)
    BY <1>2 DEF ReleaseLock, GoTo, TypeOK, InSection, Ticket
  <1>5. OwnTicketInv'
    <2>1. ASSUME NEW s \in Req, InSection(s)' PROVE InSection(s) /\ MgmtOf[s] # m
      BY <1>2, <1>4, <2>1, Apart
    <2>2. \A s \in Req : InSection(s)' => (LockedBy(MgmtOf[s])' <=> LockedBy(MgmtOf[s]))
      BY <1>3, <2>1 DEF LockedBy
    <2> QED BY <1>1, <1>3, <1>4, <2>1, <2>2 DEF OwnTicketInv
  <1>6. lockDoc'.status = "locked"
        <=> (lockDoc.status = "locked" /\ Ticket(r) # lockDoc.lockCounter)
    BY <1>1, <1>2, <1>3 DEF OwnTicketInv, LockedBy
  <1>7. [s \in Req |-> IF InSection(s) THEN Ticket(s) ELSE 0]'
        = [[s \in Req |-> IF InSection(s) THEN Ticket(s) ELSE 0] EXCEPT ![r] = 0]
    BY <1>4
  <1>8. Lease!Leave(r)
    BY <1>2, <1>3, <1>6, <1>7 DEF Lease!Leave
  <1> QED BY <1>5, <1>8

(* The requests of a management that crashes vanish; if it has the lock    *)
(* the lease lapses.                                                       *)
LEMMA CrashLease ==
    ASSUME LInv, NEW m \in Mgmt, Crash(m)
    PROVE  OwnTicketInv' /\ Lease!Next
  <1> DEFINE C == {r \in Req : MgmtOf[r] = m /\ InSection(r)}
  <1>1. IInv /\ OwnTicketInv /\ TypeOK
    BY Facts DEF LInv
  <1>2. /\ lockDoc' = lockDoc /\ oldLock' = oldLock /\ lapsed' = lapsed \cup HeldBy(m)
        /\ pc' = [r \in Req |-> IF MgmtOf[r] = m /\ pc[r] \notin {"idle", "done"}
                                  THEN "lost" ELSE pc[r]]
    BY DEF Crash, ForgetProcess
  <1>3. \A r \in Req : /\ InSection(r)' <=> (InSection(r) /\ r \notin C)
                       /\ Ticket(r)' = Ticket(r)
    BY <1>2 DEF InSection, Ticket
  <1>4. OwnTicketInv'
    BY <1>1, <1>2, <1>3 DEF OwnTicketInv, LockedBy
  <1>5. [r \in Req |-> IF InSection(r) THEN Ticket(r) ELSE 0]'
        = [r \in Req |-> IF r \in C THEN 0
             ELSE [s \in Req |-> IF InSection(s) THEN Ticket(s) ELSE 0][r]]
    BY <1>3
  <1>6. LockedBy(m) => lapsed' = lapsed \cup {lockDoc.lockCounter} /\ lockDoc.lockCounter # 0
    BY <1>1, <1>2, Facts DEF HeldBy, LockedBy
  <1>7. ~LockedBy(m) =>
            /\ lapsed' = lapsed
            /\ \A r \in C : Ticket(r) # lockDoc.lockCounter /\ lockDoc.lockCounter # 0
    <2>1. HeldBy(m) = {} => lapsed' = lapsed
      BY <1>2
    <2>2. ~LockedBy(m) => \A r \in C : Ticket(r) # lockDoc.lockCounter
      BY <1>1 DEF OwnTicketInv
    <2>3. \A r \in C : lockDoc.lockCounter # 0
      BY <1>1, Facts
    <2> QED BY <2>1, <2>2, <2>3 DEF HeldBy
  <1>8. Lease!Vanish(C)
    BY <1>2, <1>5, <1>6, <1>7 DEF Lease!Vanish
  <1>9. C \in SUBSET Req
    OBVIOUS
  <1>10. Lease!Next
    BY <1>8, <1>9 DEF Lease!Next
  <1> QED BY <1>4, <1>10

LEMMA HeartbeatExpiresLease ==
    ASSUME LInv, NEW m \in Mgmt, HeartbeatExpires(m)
    PROVE  OwnTicketInv' /\ (Lease!Next \/ UNCHANGED Lease!vars)
  <1>1. IInv /\ OwnTicketInv
    BY DEF LInv
  <1>2. UNCHANGED <<lockDoc, pc, oldLock>> /\ lapsed' = lapsed \cup HeldBy(m)
    BY DEF HeartbeatExpires
  <1>3. OwnTicketInv'
    BY <1>1, <1>2 DEF OwnTicketInv, LockedBy, InSection, Ticket
  <1>4. [r \in Req |-> IF InSection(r) THEN Ticket(r) ELSE 0]'
        = [r \in Req |-> IF InSection(r) THEN Ticket(r) ELSE 0]
    BY <1>2 DEF InSection, Ticket
  <1>5. CASE LockedBy(m)
    <2>1. Lease!Silence
      BY <1>1, <1>2, <1>4, <1>5, Facts DEF Lease!Silence, HeldBy, LockedBy
    <2> QED BY <1>3, <2>1 DEF Lease!Next
  <1>6. CASE ~LockedBy(m)
    BY <1>2, <1>3, <1>4, <1>6 DEF Lease!vars, HeldBy
  <1> QED BY <1>5, <1>6

-----------------------------------------------------------------------------
(* Errors of the database: a lock that its request does not know of is a   *)
(* grant to nobody, its release a return by nobody.                        *)
LEMMA QuietErrors ==
    ASSUME IInv, NEW r \in Req,
           \/ FindLockError(r) \/ InitialCreationError(r) \/ GiveUp(r)
           \/ CreateLockError(r) /\ UNCHANGED dbVars
    PROVE  Quiet
  <1>0. TypeOK
    BY DEF IInv
  <1>1. PICK from, to, lock : /\ {from, to} \subseteq PCs \ {"locked"}
                              /\ GoTo(r, from, to, lock)
    BY DEF FindLockError, InitialCreationError, GiveUp, CreateLockError, PCs
  <1>2. UNCHANGED dbVars
    BY DEF FindLockError, InitialCreationError, GiveUp
  <1> QED BY <1>0, <1>1, <1>2 DEF GoTo, Quiet, InSection, TypeOK

LEMMA CheckAliveErrorLease ==
    ASSUME LInv, NEW r \in Req, CheckAliveError(r)
    PROVE  OwnTicketInv' /\ (Lease!Next \/ UNCHANGED Lease!vars)
  <1>1. IInv /\ OwnTicketInv /\ TypeOK
    BY DEF LInv, IInv
  <1>2. /\ lockDoc' = lockDoc
        /\ \/ lapsed' = lapsed
           \/ lockDoc.status = "locked" /\ lapsed' = lapsed \cup {lockDoc.lockCounter}
    BY DEF CheckAliveError
  <1>3. \A s \in Req : InSection(s)' = InSection(s) /\ Ticket(s)' = Ticket(s)
    BY <1>1 DEF CheckAliveError, GoTo, InSection, Ticket, TypeOK
  <1>4. OwnTicketInv'
    BY <1>1, <1>2, <1>3 DEF OwnTicketInv, LockedBy
  <1>5. [s \in Req |-> IF InSection(s) THEN Ticket(s) ELSE 0]'
        = [s \in Req |-> IF InSection(s) THEN Ticket(s) ELSE 0]
    BY <1>3
  <1>6. CASE lapsed' = lapsed
    BY <1>2, <1>4, <1>5, <1>6 DEF Lease!vars
  <1>7. CASE lockDoc.status = "locked" /\ lapsed' = lapsed \cup {lockDoc.lockCounter}
    <2>1. Lease!Silence
      BY <1>1, <1>2, <1>5, <1>7, Facts DEF Lease!Silence
    <2> QED BY <1>4, <2>1 DEF Lease!Next
  <1> QED BY <1>2, <1>6, <1>7

LEMMA CreateLockErrorLease ==
    ASSUME LInv, NEW r \in Req, CreateLockError(r), Unchanged(r), TakeLock(MgmtOf[r])
    PROVE  OwnTicketInv' /\ Lease!Next
  <1> DEFINE m == MgmtOf[r]
  <1>1. IInv /\ TypeOK
    BY DEF LInv, IInv
  <1>2. GoTo(r, "update", "failed", oldLock[r])
    BY DEF CreateLockError
  <1>3. /\ SerialInManagement /\ Active(r) /\ ~InSection(r)
        /\ lockDoc.lockCounter \in Nat /\ lockDoc.lockCounter >= 1
    BY <1>1, <1>2, Facts DEF GoTo, Unchanged, Active, AtWork, InSection
  <1>4. /\ lockDoc'.lockCounter = lockDoc.lockCounter + 1 /\ lockDoc'.status = "locked"
        /\ lockDoc'.managementId = m
        /\ lapsed' = lapsed \/ lapsed' = lapsed \cup {lockDoc.lockCounter + 1}
    BY DEF TakeLock
  <1>5. \A s \in Req : InSection(s)' = InSection(s) /\ Ticket(s)' = Ticket(s)
    BY <1>1, <1>2 DEF GoTo, TypeOK, InSection, Ticket
  <1>6. ASSUME NEW s \in Req, InSection(s)'
        PROVE  ~LockedBy(MgmtOf[s])' /\ Ticket(s)' # lockDoc'.lockCounter
    <2>1. InSection(s) /\ s # r
      BY <1>3, <1>5, <1>6
    <2>2. MgmtOf[s] # m
      BY <1>3, <2>1, Apart
    <2>3. Ticket(s) \in Nat /\ Ticket(s) <= lockDoc.lockCounter
      BY <1>1, <2>1, Facts
    <2> QED BY <1>3, <1>4, <1>5, <2>2, <2>3 DEF LockedBy
  <1>7. OwnTicketInv'
    BY <1>6 DEF OwnTicketInv
  <1>8. lockDoc.status = "locked" => lockDoc.lockCounter \in lapsed
    BY <1>1, <1>2 DEF IInv, ReadInv, GoTo
  <1>9. [s \in Req |-> IF InSection(s) THEN Ticket(s) ELSE 0]'
        = [s \in Req |-> IF InSection(s) THEN Ticket(s) ELSE 0]
    BY <1>5
  <1>10. lockDoc.lockCounter # 0 /\ lockDoc'.lockCounter # 0
    BY <1>3, <1>4
  <1>11. Lease!EnterNobody
    BY <1>4, <1>8, <1>9, <1>10 DEF Lease!EnterNobody
  <1> QED BY <1>7, <1>11 DEF Lease!Next

LEMMA ReleaseFailedLease ==
    ASSUME LInv, NEW r \in Req, ReleaseFailed(r)
    PROVE  OwnTicketInv' /\ (Lease!Next \/ UNCHANGED Lease!vars)
  <1> DEFINE m == MgmtOf[r]
  <1>1. IInv /\ OwnTicketInv /\ TypeOK
    BY DEF LInv, IInv
  <1>2. GoTo(r, "failed", "released", oldLock[r])
    BY DEF ReleaseFailed
  <1>3. /\ SerialInManagement /\ Active(r) /\ ~InSection(r)
        /\ lockDoc.lockCounter \in Nat /\ m \in Mgmt
    BY <1>1, <1>2, Facts DEF GoTo, Active, AtWork, InSection
  <1>4. /\ lockDoc'.lockCounter = lockDoc.lockCounter /\ lapsed' = lapsed
        /\ lockDoc'.managementId = lockDoc.managementId
        /\ lockDoc'.status = IF LockedBy(m) THEN "unlocked" ELSE lockDoc.status
    BY <1>1 DEF ReleaseFailed, Unlock, TypeOK, LockDoc
  <1>5. \A s \in Req : InSection(s)' = InSection(s) /\ Ticket(s)' = Ticket(s)
    BY <1>1, <1>2 DEF GoTo, TypeOK, InSection, Ticket
  <1>6. ASSUME NEW s \in Req, InSection(s) PROVE MgmtOf[s] # m
    <2>1. s # r
      BY <1>3, <1>6
    <2> QED BY <1>3, <1>6, <2>1, Apart
  <1>7. OwnTicketInv'
    <2>1. \A s \in Req : InSection(s) => (LockedBy(MgmtOf[s])' <=> LockedBy(MgmtOf[s]))
      BY <1>4, <1>6 DEF LockedBy
    <2> QED BY <1>1, <1>4, <1>5, <2>1 DEF OwnTicketInv
  <1>8. [s \in Req |-> IF InSection(s) THEN Ticket(s) ELSE 0]'
        = [s \in Req |-> IF InSection(s) THEN Ticket(s) ELSE 0]
    BY <1>5
  <1>9. CASE LockedBy(m)
    <2>1. \A s \in Req : InSection(s) => Ticket(s) # lockDoc.lockCounter
      BY <1>1, <1>6, <1>9 DEF OwnTicketInv, LockedBy
    <2>2. lockDoc.lockCounter # 0 /\ lockDoc.status = "locked"
      BY <1>1, <1>9, Facts DEF LockedBy
    <2>3. \A s \in Req : [t \in Req |-> IF InSection(t) THEN Ticket(t) ELSE 0][s]
                            # lockDoc.lockCounter
      BY <2>1, <2>2
    <2>4. Lease!ReturnNobody
      BY <1>4, <1>8, <1>9, <2>2, <2>3 DEF Lease!ReturnNobody
    <2> QED BY <1>7, <2>4 DEF Lease!Next
  <1>10. CASE ~LockedBy(m)
    BY <1>4, <1>7, <1>8, <1>10 DEF Lease!vars
  <1> QED BY <1>9, <1>10

(* The process that ends over its release vanishes with its lease, or      *)
(* after it was returned.                                                  *)
LEMMA ReleaseLockErrorLease ==
    ASSUME LInv, NEW r \in Req, ReleaseLockError(r)
    PROVE  OwnTicketInv' /\ Lease!Next
  <1> DEFINE m == MgmtOf[r]
             C == {s \in Req : MgmtOf[s] = m /\ InSection(s)}
  <1>1. IInv /\ OwnTicketInv /\ TypeOK
    BY Facts DEF LInv
  <1>2. /\ oldLock' = oldLock /\ lapsed' = lapsed \cup HeldBy(m) /\ r \in C
        /\ pc' = [s \in Req |-> IF MgmtOf[s] = m /\ pc[s] \notin {"idle", "done"}
                                  THEN "lost" ELSE pc[s]]
    BY DEF ReleaseLockError, ForgetProcess
  <1>3. /\ lockDoc'.lockCounter = lockDoc.lockCounter
        /\ lockDoc'.managementId = lockDoc.managementId
        /\ \/ lockDoc'.status = lockDoc.status
           \/ LockedBy(m) /\ lockDoc'.status = "unlocked"
    BY <1>1 DEF ReleaseLockError, TypeOK, LockDoc
  <1>4. \A s \in Req : /\ InSection(s)' <=> (InSection(s) /\ s \notin C)
                       /\ Ticket(s)' = Ticket(s)
    BY <1>2 DEF InSection, Ticket
  <1>5. \A s \in Req : InSection(s)' => MgmtOf[s] # m
    BY <1>4
  <1>6. OwnTicketInv'
    <2>1. \A s \in Req : InSection(s)' => (LockedBy(MgmtOf[s])' <=> LockedBy(MgmtOf[s]))
      BY <1>3, <1>5 DEF LockedBy
    <2> QED BY <1>1, <1>3, <1>4, <2>1 DEF OwnTicketInv
  <1>7. [s \in Req |-> IF InSection(s) THEN Ticket(s) ELSE 0]'
        = [s \in Req |-> IF s \in C THEN 0
             ELSE [t \in Req |-> IF InSection(t) THEN Ticket(t) ELSE 0][s]]
    BY <1>4
  <1>8. LockedBy(m) => /\ lapsed' = lapsed \cup {lockDoc.lockCounter}
                       /\ lockDoc.lockCounter # 0 /\ lockDoc.status = "locked"
                       /\ Ticket(r) = lockDoc.lockCounter
    BY <1>1, <1>2, Facts DEF HeldBy, LockedBy, OwnTicketInv
  <1>9. ~LockedBy(m) =>
            /\ lapsed' = lapsed
            /\ \A s \in C : Ticket(s) # lockDoc.lockCounter /\ lockDoc.lockCounter # 0
    <2>1. HeldBy(m) = {} => lapsed' = lapsed
      BY <1>2
    <2>2. ~LockedBy(m) => \A s \in C : Ticket(s) # lockDoc.lockCounter
      BY <1>1 DEF OwnTicketInv
    <2>3. \A s \in C : lockDoc.lockCounter # 0
      BY <1>1, Facts
    <2> QED BY <2>1, <2>2, <2>3 DEF HeldBy
  <1>10. r \in C /\ InSection(r)
    BY <1>2
  <1>11. Lease!Vanish(C)
    <2>1. CASE LockedBy(m)
      <3>1. [t \in Req |-> IF InSection(t) THEN Ticket(t) ELSE 0][r] = lockDoc.lockCounter
        BY <1>8, <1>10, <2>1
      <3> QED BY <1>3, <1>7, <1>8, <1>10, <2>1, <3>1 DEF Lease!Vanish
    <2>2. CASE ~LockedBy(m)
      BY <1>3, <1>7, <1>9, <2>2 DEF Lease!Vanish
    <2> QED BY <2>1, <2>2
  <1>12. C \in SUBSET Req
    OBVIOUS
  <1>13. Lease!Next
    BY <1>11, <1>12 DEF Lease!Next
  <1> QED BY <1>6, <1>13

LEMMA ErrorLease ==
    ASSUME LInv, NEW r \in Req, Errors(r)
    PROVE  OwnTicketInv' /\ (Lease!Next \/ UNCHANGED Lease!vars)
  <1>1. IInv
    BY DEF LInv
  <1>2. CASE \/ FindLockError(r) \/ InitialCreationError(r) \/ GiveUp(r)
             \/ CreateLockError(r) /\ UNCHANGED dbVars
    BY <1>1, <1>2, QuietErrors, QuietOwn, QuietLease
  <1>3. CASE CreateLockError(r) /\ ~UNCHANGED dbVars
    <2>1. Unchanged(r) /\ TakeLock(MgmtOf[r])
      BY <1>3 DEF CreateLockError
    <2> QED BY <1>3, <2>1, CreateLockErrorLease
  <1>4. CASE CheckAliveError(r)
    BY <1>4, CheckAliveErrorLease
  <1>5. CASE ReleaseFailed(r)
    BY <1>5, ReleaseFailedLease
  <1>6. CASE ReleaseLockError(r)
    BY <1>6, ReleaseLockErrorLease
  <1> QED BY <1>2, <1>3, <1>4, <1>5, <1>6 DEF Errors

-----------------------------------------------------------------------------
LEMMA LeaseInit == Init => LInv /\ Lease!Init
  <1> SUFFICES ASSUME Init PROVE LInv /\ Lease!Init
    OBVIOUS
  <1>1. \A r \in Req : ~InSection(r)
    BY DEF Init, InSection
  <1>2. [r \in Req |-> IF InSection(r) THEN Ticket(r) ELSE 0] = [r \in Req |-> 0]
    BY <1>1
  <1>3. Lease!Init
    BY <1>2 DEF Init, Absent, Lease!Init
  <1> QED BY <1>1, <1>3, InitInv DEF LInv, OwnTicketInv

LEMMA LeaseStep ==
    ASSUME LInv, [Next]_vars
    PROVE  OwnTicketInv' /\ (Lease!Next \/ UNCHANGED Lease!vars)
  <1>1. IInv
    BY DEF LInv
  <1>2. CASE Quiet
    BY <1>2, QuietOwn, QuietLease
  <1>3. ASSUME NEW r \in Req, InitialLockCreation(r)
        PROVE  OwnTicketInv' /\ UNCHANGED Lease!vars
    BY <1>3, InitialCreationLease
  <1>4. ASSUME NEW r \in Req, CreateLock(r), Unchanged(r) PROVE OwnTicketInv' /\ Lease!Next
    BY <1>4, CreateLockLease DEF Lease!Next
  <1>5. ASSUME NEW r \in Req, ReleaseLock(r) PROVE OwnTicketInv' /\ Lease!Next
    BY <1>5, ReleaseLockLease DEF Lease!Next
  <1>6. ASSUME NEW m \in Mgmt, Crash(m) \/ HeartbeatExpires(m)
        PROVE  OwnTicketInv' /\ (Lease!Next \/ UNCHANGED Lease!vars)
    BY <1>6, CrashLease, HeartbeatExpiresLease
  <1> QED BY <1>1, <1>2, <1>3, <1>4, <1>5, <1>6, QuietSteps DEF Next, Progress, Environment

(* The zone lock implements the lease (acquireLock, createLock and         *)
(* releaseLock of lock.js): what a request does to the document, queued,   *)
(* retried, raced by others or overtaken, is a grant, a release or         *)
(* nothing.                                                                *)
THEOREM LockImplementsLease == FaultSpec => ImplementsLease
  <1>1. LInv /\ [FaultNext]_vars => OwnTicketInv' /\ [Lease!Next]_Lease!vars
    <2> SUFFICES ASSUME LInv, [FaultNext]_vars
                 PROVE  OwnTicketInv' /\ (Lease!Next \/ UNCHANGED Lease!vars)
      OBVIOUS
    <2>1. ASSUME NEW r \in Req, Errors(r)
          PROVE  OwnTicketInv' /\ (Lease!Next \/ UNCHANGED Lease!vars)
      BY <2>1, ErrorLease
    <2>2. CASE [Next]_vars
      BY <2>2, LeaseStep
    <2> QED BY <2>1, <2>2 DEF FaultNext
  <1>2. LInv /\ [FaultNext]_vars => LInv'
    BY <1>1, FaultStep DEF LInv
  <1>3. FaultSpec => Init /\ [][FaultNext]_vars
    BY DEF FaultSpec, FaultNext
  <1> QED BY LeaseInit, <1>1, <1>2, <1>3, PTL DEF ImplementsLease, Lease!Spec

-----------------------------------------------------------------------------
(* Turns.  The places of the requests, as the users of the lock see them.  *)
Places == [r \in Req |-> PlaceAt(pc[r])]

AskingSteps == {"find", "checkAlive", "initial", "update", "retry"}

LEMMA PlacesAt ==
    /\ \A step \in {"idle", "done", "lost"} : PlaceAt(step) = "out"
    /\ \A step \in AskingSteps : PlaceAt(step) = "asking"
    /\ PlaceAt("queued") = "queued" /\ PlaceAt("deferred") = "timer"
    /\ PlaceAt("locked") = "in" /\ PlaceAt("released") = "leaving"
BY DEF PlaceAt, AskingSteps

LEMMA OneMoves ==
    ASSUME TypeOK, NEW r \in Req, NEW to, pc' = [pc EXCEPT ![r] = to]
    PROVE  Places[r] = PlaceAt(pc[r]) /\ Places' = [Places EXCEPT ![r] = PlaceAt(to)]
BY DEF TypeOK, Places

LEMMA TurnsInit == Init => Turns!Init
<1> SUFFICES ASSUME Init PROVE Turns!Init
    OBVIOUS
<1>1. Places = [r \in Req |-> "out"]
    BY PlacesAt DEF Init, Places
<1> QED BY <1>1 DEF Init, Absent, Turns!Init, Places, Holder, Overdue

LEMMA AskTurns ==
    ASSUME TypeOK, NEW r \in Req, AcquireLock(r, "idle") \/ AcquireLock(r, "deferred")
    PROVE  Turns!Ask(r)
<1>1. /\ Places[r] \in {"out", "timer"}
      /\ UNCHANGED <<Holder, Overdue>>
    BY PlacesAt DEF AcquireLock, Places, Holder, Overdue, dbVars
<1>2. CASE MustWait(MgmtOf[r])
    <2>1. Places' = [Places EXCEPT ![r] = "queued"]
        BY <1>2, OneMoves, PlacesAt DEF AcquireLock
    <2> QED BY <1>1, <1>2, <2>1 DEF AcquireLock, MustWait, Turns!Ask, Turns!lockVars, Places
<1>3. CASE ~MustWait(MgmtOf[r])
    <2>1. Places' = [Places EXCEPT ![r] = "asking"]
        BY <1>3, OneMoves, PlacesAt DEF AcquireLock, AskingSteps
    <2> QED BY <1>1, <1>3, <2>1 DEF AcquireLock, MustWait, Turns!Ask, Turns!lockVars, Places
<1> QED BY <1>2, <1>3

(* Between its turn and the lock a request changes nothing its users see.  *)
LEMMA AskingTurns ==
    ASSUME TypeOK, NEW r \in Req,
           \/ FindLock(r) \/ CheckAlive(r) \/ InitialLockCreation(r) \/ RetryAcquire(r)
           \/ CreateLock(r) /\ ~Unchanged(r)
    PROVE  UNCHANGED Turns!vars
<1>1. PICK from, to, lock : {from, to} \subseteq AskingSteps /\ GoTo(r, from, to, lock)
    BY DEF FindLock, CheckAlive, InitialLockCreation, RetryAcquire, CreateLock, AskingSteps
<1>2. Places' = Places
    <2>1. Places' = [Places EXCEPT ![r] = "asking"] /\ Places[r] = "asking"
        BY <1>1, OneMoves, PlacesAt DEF GoTo, Places
    <2> QED BY <2>1 DEF Places
<1>3. UNCHANGED <<Holder, Overdue>>
    <2>1. \/ lockDoc' = lockDoc /\ lapsed' = lapsed
          \/ lockDoc.status = "absent" /\ lockDoc'.status = "unlocked"
        BY DEF FindLock, CheckAlive, InitialLockCreation, RetryAcquire, CreateLock, Upsert,
               InitialLock, Absent, dbVars
    <2> QED BY <2>1 DEF Holder, Overdue
<1>4. UNCHANGED <<waitingForLock, lockingQueue>>
    BY DEF FindLock, CheckAlive, InitialLockCreation, RetryAcquire, CreateLock, memVars
<1> QED BY <1>2, <1>3, <1>4 DEF Places, Turns!vars, Turns!lockVars, Turns!queueVars

LEMMA TakeTurns ==
    ASSUME IInv, NEW r \in Req, CreateLock(r), Unchanged(r)
    PROVE  Turns!Take(r)
<1>1. TypeOK /\ pc[r] = "update" /\ TakeLock(MgmtOf[r]) /\ pc' = [pc EXCEPT ![r] = "locked"]
    BY DEF CreateLock, GoTo, IInv
<1>2. lockDoc.status = "locked" => lockDoc.lockCounter \in lapsed
    BY <1>1 DEF IInv, ReadInv
<1>3. Places[r] = "asking" /\ Places' = [Places EXCEPT ![r] = "in"]
    <2>1. Places[r] = PlaceAt("update") /\ Places' = [Places EXCEPT ![r] = PlaceAt("locked")]
        BY <1>1, OneMoves, Zenon
    <2> QED BY <2>1, PlacesAt DEF AskingSteps
<1>4. Holder = NoMgmt \/ Overdue
    BY <1>2 DEF Holder, Overdue
<1>5. Holder' = MgmtOf[r] /\ Overdue' \in BOOLEAN
    BY <1>1 DEF TakeLock, Holder, Overdue
<1>6. UNCHANGED <<waitingForLock, lockingQueue>>
    BY DEF CreateLock, memVars
<1> QED BY <1>3, <1>4, <1>5, <1>6 DEF Places, Turns!Take, Turns!queueVars

LEMMA GiveTurns ==
    ASSUME TypeOK, NEW r \in Req, ReleaseLock(r)
    PROVE  Turns!Give(r)
<1>0. pc[r] = "locked" /\ pc' = [pc EXCEPT ![r] = "released"]
    BY DEF ReleaseLock, GoTo
<1>1. Places[r] = "in" /\ Places' = [Places EXCEPT ![r] = "leaving"]
    <2>1. Places[r] = PlaceAt("locked") /\ Places' = [Places EXCEPT ![r] = PlaceAt("released")]
        BY <1>0, OneMoves, Zenon
    <2> QED BY <2>1, PlacesAt
<1>2. \/ Holder = MgmtOf[r] /\ Holder' = NoMgmt /\ Overdue' = FALSE
      \/ Holder # MgmtOf[r] /\ UNCHANGED <<Holder, Overdue>>
    <2>1. CASE LockedBy(MgmtOf[r])
        BY <2>1 DEF ReleaseLock, Unlock, LockedBy, Holder, Overdue, TypeOK, LockDoc
    <2>2. CASE ~LockedBy(MgmtOf[r])
        <3>1. lockDoc' = lockDoc /\ lapsed' = lapsed
            BY <2>2 DEF ReleaseLock, Unlock
        <3>2. MgmtOf[r] # NoMgmt
            BY MgmtOfAssumption, NoMgmtAssumption
        <3> QED BY <2>2, <3>1, <3>2 DEF LockedBy, Holder, Overdue
    <2> QED BY <2>1, <2>2
<1>3. UNCHANGED <<waitingForLock, lockingQueue>>
    BY DEF ReleaseLock, memVars
<1> QED BY <1>1, <1>2, <1>3 DEF Places, Turns!Give, Turns!lockVars, Turns!queueVars

LEMMA LeaveTurns ==
    ASSUME TypeOK, QueueInv, NEW r \in Req, ReleaseCallback(r)
    PROVE  Turns!Leave(r)
<1> DEFINE m == MgmtOf[r]
           q == lockingQueue[m]
<1>1. pc[r] = "released" /\ Places[r] = "leaving" /\ UNCHANGED <<Holder, Overdue>>
    BY PlacesAt DEF ReleaseCallback, Places, Holder, Overdue, dbVars
<1>2. CASE q = <<>>
    <2>1. Places' = [Places EXCEPT ![r] = "out"]
        BY <1>2, OneMoves, PlacesAt DEF ReleaseCallback
    <2>2. /\ waitingForLock' = [waitingForLock EXCEPT ![m] = FALSE]
          /\ UNCHANGED lockingQueue
        BY <1>2 DEF ReleaseCallback, FlagAfterRelease
    <2> QED BY <1>1, <1>2, <2>1, <2>2 DEF Places, Turns!Leave, Turns!lockVars
<1>3. CASE q # <<>>
    <2>1. PICK h \in Req : h = Head(q) /\ h # r
        <3>1. m \in Mgmt /\ q \in Seq(Req)
            BY MgmtOfAssumption DEF TypeOK
        <3>2. 1 \in 1..Len(q) /\ Head(q) = q[1] /\ Head(q) \in Req
            BY <1>3, <3>1
        <3>3. pc[q[1]] = "queued"
            BY <3>1, <3>2 DEF QueueInv, QueueOf
        <3> QED BY <1>1, <3>2, <3>3
    <2> DEFINE soon == Soon(m)
    <2>2. /\ waitingForLock' = [waitingForLock EXCEPT ![m] = soon]
          /\ lockingQueue' = [lockingQueue EXCEPT ![m] = Tail(q)]
          /\ pc' = [pc EXCEPT ![r] = "done", ![h] = IF soon THEN "find" ELSE "deferred"]
        <3>1. FlagAfterRelease(m) = soon
            BY <1>3 DEF FlagAfterRelease, Soon
        <3> QED BY <1>3, <2>1, <3>1 DEF ReleaseCallback
    <2>3. Places' = [Places EXCEPT ![r] = "out", ![h] = IF soon THEN "asking" ELSE "timer"]
        BY <2>1, <2>2, PlacesAt DEF Places, TypeOK, AskingSteps
    <2>4. soon \in BOOLEAN
        BY DEF Soon
    <2> HIDE DEF soon
    <2> QED BY <1>1, <1>3, <2>1, <2>2, <2>3, <2>4 DEF Places, Turns!Leave, Turns!lockVars
<1> QED BY <1>2, <1>3

LEMMA EnvironmentTurns ==
    ASSUME IInv, NEW m \in Mgmt, Environment(m)
    PROVE  Turns!Next \/ UNCHANGED Turns!vars
<1>1. TypeOK /\ DocInv /\ m # NoMgmt
    BY NoMgmtAssumption DEF IInv
<1>2. Holder = m <=> LockedBy(m)
    BY <1>1 DEF Holder, LockedBy
<1>3. CASE Crash(m)
    <2>1. Places' = [r \in Req |-> IF MgmtOf[r] = m THEN "out" ELSE Places[r]]
        BY <1>3, PlacesAt DEF Crash, ForgetProcess, Places
    <2>2. Holder' = Holder /\ Overdue' = (Overdue \/ Holder = m)
        BY <1>2, <1>3 DEF Crash, HeldBy, LockedBy, Holder, Overdue
    <2>3. Turns!Crash(m)
        BY <1>3, <2>1, <2>2 DEF Crash, ForgetProcess, Places, Turns!Crash
    <2> QED BY <2>3 DEF Turns!Next
<1>4. CASE Restart(m) \/ Heartbeat(m)
    BY <1>4 DEF Restart, Heartbeat, dbVars, memVars, Holder, Overdue,
                Turns!vars, Turns!lockVars, Turns!queueVars
<1>5. CASE HeartbeatExpires(m)
    <2>1. UNCHANGED <<lockDoc, waitingForLock, lockingQueue, pc>>
        BY <1>5 DEF HeartbeatExpires, memVars
    <2>2. CASE LockedBy(m)
        <3>1. Overdue' = TRUE /\ Holder' = Holder /\ Holder # NoMgmt
            BY <1>1, <1>2, <1>5, <2>1, <2>2 DEF HeartbeatExpires, HeldBy, LockedBy, Holder, Overdue
        <3>2. Turns!Silence
            BY <2>1, <3>1 DEF Turns!Silence, Turns!queueVars
        <3> QED BY <3>2 DEF Turns!Next
    <2>3. CASE ~LockedBy(m)
        BY <1>5, <2>1, <2>3 DEF HeartbeatExpires, HeldBy, Holder, Overdue,
                                Turns!vars, Turns!lockVars, Turns!queueVars
    <2> QED BY <2>2, <2>3
<1> QED BY <1>3, <1>4, <1>5 DEF Environment

LEMMA TurnsStep == IInv /\ [Next]_vars => [Turns!Next]_Turns!vars
<1> SUFFICES ASSUME IInv, [Next]_vars PROVE Turns!Next \/ UNCHANGED Turns!vars
    OBVIOUS
<1>0. TypeOK /\ QueueInv
    BY DEF IInv
<1>1. ASSUME NEW r \in Req, AcquireLockByZone(r) \/ DeferredAcquire(r)
      PROVE  Turns!Ask(r)
    BY <1>0, <1>1, AskTurns DEF AcquireLockByZone, DeferredAcquire
<1>2. ASSUME NEW r \in Req, Progress(r) PROVE Turns!Next \/ UNCHANGED Turns!vars
    <2>1. CASE DeferredAcquire(r)
        BY <1>1, <2>1 DEF Turns!Next
    <2>2. CASE CreateLock(r) /\ Unchanged(r)
        BY <2>2, TakeTurns DEF Turns!Next
    <2>3. CASE ReleaseCallback(r)
        BY <1>0, <2>3, LeaveTurns DEF Turns!Next
    <2> QED BY <1>0, <1>2, <2>1, <2>2, <2>3, AskingTurns DEF Progress
<1>3. ASSUME NEW r \in Req, ReleaseLock(r) PROVE Turns!Give(r)
    BY <1>0, <1>3, GiveTurns
<1>4. CASE UNCHANGED vars
    BY <1>4 DEF vars, Holder, Overdue, Turns!vars, Turns!lockVars, Turns!queueVars
<1>5. CASE Next
    BY <1>1, <1>2, <1>3, <1>5, EnvironmentTurns DEF Next, Turns!Next
<1> QED BY <1>4, <1>5

(* What the users of a lock rely on (ZoneTurns, the lock as ZoneLocks has  *)
(* it): requests take turns in their management, and managements in the    *)
(* zone, over crashes, missed heartbeats and takeovers.                    *)
THEOREM LockTakesTurns == Spec => ImplementsTurns
<1>1. Spec => []IInv
    BY SpecIsFaultSpec, Inductive, PTL
<1> QED BY <1>1, TurnsInit, TurnsStep, PTL DEF Spec, ImplementsTurns, Turns!Spec
=============================================================================
