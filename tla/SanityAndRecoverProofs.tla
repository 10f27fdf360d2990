----------------------- MODULE SanityAndRecoverProofs -----------------------
(***************************************************************************)
(* Theorems about module SanityAndRecover: its types, that the cluster     *)
(* document names the management that runs the recovery of its version,    *)
(* and that a run removes only what is stale.                              *)
(***************************************************************************)
EXTENDS SanityAndRecover, TLAPS

(* What a step does to the place and the memory of the poll.               *)
LEMMA MoveType ==
    ASSUME TypeOK, NEW m \in Mgmt, NEW from, NEW to \in PCs, NEW new \in Memory,
           Move(m, from, to, new)
    PROVE  pc' \in [Mgmt -> PCs] /\ memory' \in [Mgmt -> Memory]
  BY DEF TypeOK, Move

LEMMA StateType == TypeOK => State \in States
  <1> SUFFICES ASSUME TypeOK PROVE State \in States
    OBVIOUS
  <1>1. \A m \in Mgmt : cluster[m] \in Nat /\ fresh[m] \in BOOLEAN
    BY DEF TypeOK
  <1>2. Gone \in [bootVersion : Nat, isUp : BOOLEAN]
    BY DEF Gone
  <1> QED BY <1>1, <1>2 DEF State, States

LEMMA BlankType == Blank \in Memory /\ NoState \in States
  BY NoMgmtAssumption DEF Blank, Memory, HandlingOf, FirstVersionDoc, Handling, NoState, States

(* The steps of a poll and of the run it makes.                            *)
LEMMA PollType ==
    ASSUME TypeOK, NEW m \in Mgmt,
           Poll(m) \/ ReadCluster(m) \/ Acquire(m) \/ LoadPending(m) \/ Categorize(m)
    PROVE  TypeOK'
  <1> USE BlankType
  <1>1. memory[m] \in Memory
    BY DEF TypeOK
  <1>2. CASE Poll(m)
    <2>1. [Blank EXCEPT !.doc = HandlingOf(versionDoc)] \in Memory
      BY DEF TypeOK, VersionDoc, HandlingOf, Handling, Memory
    <2>2. pc' \in [Mgmt -> PCs] /\ memory' \in [Mgmt -> Memory]
      BY <1>2, <2>1, MoveType DEF Poll, PCs
    <2> QED BY <1>2, <2>2 DEF Poll, Environment, TypeOK
  <1>3. CASE ReadCluster(m)
    <2>1. [memory[m] EXCEPT !.state = State] \in Memory
      BY <1>1, StateType DEF Memory
    <2>2. pc' \in [Mgmt -> PCs] /\ memory' \in [Mgmt -> Memory]
      BY <1>3, <2>1, MoveType DEF ReadCluster, PCs
    <2> QED BY <1>3, <2>2 DEF ReadCluster, Environment, TypeOK
  <1>4. CASE Acquire(m)
    <2>1. /\ memory[m].state \in States /\ bootVersion[m] \in Nat
          /\ versionDoc.version \in Nat
      BY <1>1 DEF TypeOK, VersionDoc, Memory
    <2>2. versionDoc' \in VersionDoc
      <3>1. CASE Query(m)
        <4>1. versionDoc' = [mgmtClusterState |-> memory[m].state,
                             version |-> versionDoc.version + 1,
                             status |-> "handling",
                             managementId |-> m, bootVersion |-> bootVersion[m],
                             force |-> FALSE, aged |-> FALSE]
          BY <1>4, <3>1 DEF Acquire
        <4>2. versionDoc.version + 1 \in Nat
          BY <2>1
        <4> QED BY <2>1, <4>1, <4>2 DEF VersionDoc
      <3>2. CASE ~Query(m)
        BY <1>4, <3>2 DEF Acquire, TypeOK
      <3> QED BY <3>1, <3>2
    <2>3. [Blank EXCEPT !.version = versionDoc.version + 1] \in Memory
      BY <2>1 DEF Memory
    <2>4. pc' \in [Mgmt -> PCs] /\ memory' \in [Mgmt -> Memory]
      BY <1>4, <2>3, MoveType DEF Acquire, PCs
    <2> QED BY <1>4, <2>2, <2>4 DEF Acquire, Environment, TypeOK
  <1>5. CASE LoadPending(m)
    <2>1. [memory[m] EXCEPT !.found = {e \in Entity : entity[e].status = "pending"}] \in Memory
      BY <1>1 DEF Memory
    <2>2. pc' \in [Mgmt -> PCs] /\ memory' \in [Mgmt -> Memory]
      BY <1>5, <2>1, MoveType DEF LoadPending, PCs
    <2> QED BY <1>5, <2>2 DEF LoadPending, Environment, TypeOK
  <1>6. CASE Categorize(m)
    <2> DEFINE prev == {e \in memory[m].found : CreatedInPrevBoot(m, e)}
               dead == {e \in memory[m].found \ prev : CreatedByDeadMgmt(e) /\ entity[e].aged}
    <2>1. prev \cup dead \subseteq Entity
      BY <1>1 DEF Memory
    <2>2. [memory[m] EXCEPT !.found = prev \cup dead] \in Memory
      BY <1>1, <2>1 DEF Memory
    <2>3. pc' \in [Mgmt -> PCs] /\ memory' \in [Mgmt -> Memory]
      BY <1>6, <2>2, MoveType DEF Categorize, PCs
    <2> QED BY <1>6, <2>3 DEF Categorize, Environment, TypeOK
  <1> QED BY <1>2, <1>3, <1>4, <1>5, <1>6

LEMMA RunType ==
    ASSUME TypeOK, NEW m \in Mgmt,
           FindStale(m) \/ DeleteNext(m) \/ Remove(m) \/ ReleaseLock(m)
    PROVE  TypeOK'
  <1> USE BlankType
  <1>1. memory[m] \in Memory /\ memory[m].found \subseteq Entity
    BY DEF TypeOK, Memory
  <1>2. CASE FindStale(m)
    <2>1. [memory[m] EXCEPT !.found = StillPending(@)] \in Memory
      BY <1>1 DEF Memory, StillPending
    <2>2. pc' \in [Mgmt -> PCs] /\ memory' \in [Mgmt -> Memory]
      BY <1>2, <2>1, MoveType DEF FindStale, PCs
    <2> QED BY <1>2, <2>2 DEF FindStale, Environment, TypeOK
  <1>3. CASE DeleteNext(m)
    <2>1. \A e \in memory[m].found :
              /\ [memory[m] EXCEPT !.found = @ \ {e}, !.next = {e}] \in Memory
              /\ [memory[m] EXCEPT !.found = @ \ {e}] \in Memory
      BY <1>1 DEF Memory
    <2>2. StillPending(memory[m].found) \subseteq memory[m].found
      BY DEF StillPending
    <2>3. "delete" \in PCs /\ "remove" \in PCs /\ "release" \in PCs
      BY DEF PCs
    <2>4. PICK to \in PCs, new \in Memory : Move(m, "delete", to, new)
      <3>1. CASE \E e \in StillPending(memory[m].found) :
                    Move(m, "delete", "remove",
                         [memory[m] EXCEPT !.found = @ \ {e}, !.next = {e}])
        BY <2>1, <2>2, <2>3, <3>1
      <3>2. CASE \E e \in memory[m].found \ StillPending(memory[m].found) :
                    Move(m, "delete", "delete", [memory[m] EXCEPT !.found = @ \ {e}])
        BY <2>1, <2>3, <3>2
      <3>3. CASE Move(m, "delete", "release", memory[m])
        BY <1>1, <2>3, <3>3
      <3> QED BY <1>3, <3>1, <3>2, <3>3 DEF DeleteNext
    <2>5. pc' \in [Mgmt -> PCs] /\ memory' \in [Mgmt -> Memory]
      BY <2>4, MoveType
    <2> QED BY <1>3, <2>5 DEF DeleteNext, Environment, TypeOK
  <1>4. CASE Remove(m)
    <2>1. [memory[m] EXCEPT !.next = {}] \in Memory
      BY <1>1 DEF Memory
    <2>2. pc' \in [Mgmt -> PCs] /\ memory' \in [Mgmt -> Memory]
      BY <1>4, <2>1, MoveType DEF Remove, PCs
    <2>3. \A e \in Entity : [entity[e] EXCEPT !.status = "removed", !.aged = FALSE]
                               \in EntityDoc
      BY DEF TypeOK, EntityDoc
    <2>5. entity \in [Entity -> EntityDoc]
      BY DEF TypeOK
    <2>4. entity' \in [Entity -> EntityDoc]
      BY <1>4, <2>3, <2>5 DEF Remove
    <2> QED BY <1>4, <2>2, <2>4 DEF Remove, Environment, TypeOK
  <1>5. CASE ReleaseLock(m)
    <2>1. pc' \in [Mgmt -> PCs] /\ memory' \in [Mgmt -> Memory]
      BY <1>5, MoveType DEF ReleaseLock, PCs
    <2>2. versionDoc' \in VersionDoc
      BY <1>5 DEF ReleaseLock, TypeOK, VersionDoc
    <2> QED BY <1>5, <2>1, <2>2 DEF ReleaseLock, Environment, TypeOK
  <1> QED BY <1>2, <1>3, <1>4, <1>5

(* Processes and their documents in the cluster.                           *)
LEMMA ProcessType ==
    ASSUME TypeOK, NEW m \in Mgmt,
           Crash(m) \/ Restart(m) \/ DeleteOwnDocument(m) \/ Join(m) \/ Heartbeat(m)
    PROVE  TypeOK'
  <1> USE BlankType
  <1>1. bootVersion[m] \in Nat /\ cluster[m] \in Nat
    BY DEF TypeOK
  <1>2. CASE Crash(m)
    <2>1. pc' \in [Mgmt -> PCs] /\ memory' \in [Mgmt -> Memory]
      BY <1>2, MoveType DEF Crash, PCs
    <2>2. faults' \in 0..MaxFaults /\ up' \in [Mgmt -> BOOLEAN]
      BY <1>2, FaultsAssumption DEF Crash, Fault, TypeOK
    <2> QED BY <1>2, <2>1, <2>2 DEF Crash, TypeOK
  <1>3. CASE Restart(m)
    <2>1. pc' \in [Mgmt -> PCs] /\ memory' \in [Mgmt -> Memory]
      BY <1>3, MoveType DEF Restart, PCs
    <2>2. /\ bootVersion' \in [Mgmt -> Nat] /\ up' \in [Mgmt -> BOOLEAN]
          /\ \A n \in Mgmt : cluster[n] <= bootVersion'[n]
      BY <1>1, <1>3 DEF Restart, TypeOK
    <2> QED BY <1>3, <2>1, <2>2 DEF Restart, TypeOK
  <1>4. CASE DeleteOwnDocument(m)
    <2>1. pc' \in [Mgmt -> PCs] /\ memory' \in [Mgmt -> Memory]
      BY <1>4, MoveType DEF DeleteOwnDocument, PCs
    <2>2. cluster' \in [Mgmt -> Nat] /\ \A n \in Mgmt : cluster'[n] <= bootVersion[n]
      BY <1>1, <1>4 DEF DeleteOwnDocument, TypeOK
    <2> QED BY <1>4, <2>1, <2>2 DEF DeleteOwnDocument, procVars, TypeOK
  <1>5. Beat(m) => /\ cluster' \in [Mgmt -> Nat] /\ fresh' \in [Mgmt -> BOOLEAN]
                   /\ \A n \in Mgmt : cluster'[n] <= bootVersion[n]
    BY <1>1 DEF Beat, TypeOK
  <1>6. CASE Join(m)
    <2>1. pc' \in [Mgmt -> PCs] /\ memory' \in [Mgmt -> Memory]
      BY <1>6, MoveType DEF Join, PCs
    <2> QED BY <1>5, <1>6, <2>1 DEF Join, procVars, TypeOK
  <1>7. CASE Heartbeat(m)
    BY <1>5, <1>7 DEF Heartbeat, procVars, TypeOK
  <1> QED BY <1>2, <1>3, <1>4, <1>6, <1>7

(* Time, operators and creations.                                          *)
LEMMA EnvironmentType ==
    ASSUME TypeOK,
           \/ \E m \in Mgmt : HeartbeatExpires(m) \/ FindDead(m) \/ DeleteManagement(m)
           \/ \E m \in Mgmt, e \in Entity : Create(m, e) \/ Finish(m, e)
           \/ \E e \in Entity : EntityAges(e)
           \/ VersionDocAges \/ ForceSanityAndRecover
    PROVE  TypeOK'
  <1>1. ASSUME NEW m \in Mgmt, HeartbeatExpires(m) PROVE TypeOK'
    <2>1. Boot(m) \in Mgmt \X Nat
      BY DEF Boot, TypeOK
    <2>2. faults' \in 0..MaxFaults /\ lapsed' \subseteq Mgmt \X Nat
      BY <1>1, <2>1, FaultsAssumption DEF HeartbeatExpires, Fault, TypeOK
    <2> QED BY <1>1, <2>2 DEF HeartbeatExpires, procVars, TypeOK
  <1>2. ASSUME NEW m \in Mgmt, FindDead(m) PROVE TypeOK'
    <2>1. faults' \in 0..MaxFaults /\ doomed' \subseteq Mgmt
      BY <1>2, FaultsAssumption DEF FindDead, Fault, TypeOK
    <2> QED BY <1>2, <2>1 DEF FindDead, procVars, TypeOK
  <1>3. ASSUME NEW m \in Mgmt, DeleteManagement(m) PROVE TypeOK'
    <2>1. Boot(m) \in Mgmt \X Nat
      BY DEF Boot, TypeOK
    <2>2. cluster' \in [Mgmt -> Nat] /\ \A n \in Mgmt : cluster'[n] <= bootVersion[n]
      BY <1>3 DEF DeleteManagement, TypeOK
    <2>3. lapsed' \subseteq Mgmt \X Nat /\ doomed' \subseteq Mgmt
      BY <1>3, <2>1 DEF DeleteManagement, TypeOK
    <2> QED BY <1>3, <2>2, <2>3 DEF DeleteManagement, procVars, TypeOK
  <1>4. ASSUME NEW m \in Mgmt, NEW e \in Entity, Create(m, e) PROVE TypeOK'
    <2>1. bootVersion[m] \in Nat
      BY DEF TypeOK
    <2>2. [status |-> "pending", managementId |-> m, bootVersion |-> bootVersion[m],
           aged |-> FALSE] \in EntityDoc
      BY <2>1 DEF EntityDoc
    <2>3. entity' \in [Entity -> EntityDoc]
      BY <1>4, <2>2 DEF Create, TypeOK
    <2> QED BY <1>4, <2>3 DEF Create, Environment, TypeOK
  <1>5. ASSUME NEW m \in Mgmt, NEW e \in Entity, Finish(m, e) PROVE TypeOK'
    <2>1. entity[e] \in EntityDoc
      BY DEF TypeOK
    <2>2. [[entity[e] EXCEPT !.status = "ready"] EXCEPT !.aged = FALSE] \in EntityDoc
      BY <2>1 DEF EntityDoc
    <2>3. entity' = [entity EXCEPT ![e] = [[entity[e] EXCEPT !.status = "ready"]
                                              EXCEPT !.aged = FALSE]]
      BY <1>5, <2>1 DEF Finish, TypeOK
    <2>4. entity' \in [Entity -> EntityDoc]
      BY <2>2, <2>3 DEF TypeOK
    <2> QED BY <1>5, <2>4 DEF Finish, Environment, TypeOK
  <1>6. ASSUME NEW e \in Entity, EntityAges(e) PROVE TypeOK'
    <2>1. [entity[e] EXCEPT !.aged = TRUE] \in EntityDoc
      BY DEF TypeOK, EntityDoc
    <2>2. entity' = [entity EXCEPT ![e] = [entity[e] EXCEPT !.aged = TRUE]]
      BY <1>6 DEF EntityAges
    <2>3. entity' \in [Entity -> EntityDoc]
      BY <2>1, <2>2 DEF TypeOK
    <2> QED BY <1>6, <2>3 DEF EntityAges, Environment, TypeOK
  <1>7. CASE VersionDocAges
    <2>1. versionDoc' \in VersionDoc
      BY <1>7 DEF VersionDocAges, TypeOK, VersionDoc
    <2> QED BY <1>7, <2>1 DEF VersionDocAges, Environment, TypeOK
  <1>8. CASE ForceSanityAndRecover
    <2>1. versionDoc' \in VersionDoc
      BY <1>8 DEF ForceSanityAndRecover, TypeOK, VersionDoc
    <2>2. faults' \in 0..MaxFaults
      BY <1>8, FaultsAssumption DEF ForceSanityAndRecover, Fault, TypeOK
    <2> QED BY <1>8, <2>1, <2>2 DEF ForceSanityAndRecover, procVars, TypeOK
  <1> QED BY <1>1, <1>2, <1>3, <1>4, <1>5, <1>6, <1>7, <1>8

LEMMA TypeStep == TypeOK /\ [Next]_vars => TypeOK'
  <1> SUFFICES ASSUME TypeOK, [Next]_vars PROVE TypeOK'
    OBVIOUS
  <1>1. CASE UNCHANGED vars
    BY <1>1 DEF vars, TypeOK
  <1>2. ASSUME NEW m \in Mgmt, Step(m) \/ Heartbeat(m) \/ Crash(m) \/ Restart(m)
        PROVE  TypeOK'
    BY <1>2, PollType, RunType, ProcessType DEF Step
  <1> QED BY <1>1, <1>2, EnvironmentType DEF Next

LEMMA TypeInit == Init => TypeOK
  <1> SUFFICES ASSUME Init PROVE TypeOK
    OBVIOUS
  <1>1. FirstVersionDoc \in VersionDoc
    BY BlankType DEF FirstVersionDoc, VersionDoc
  <1>2. NoEntity \in EntityDoc
    BY DEF NoEntity, EntityDoc
  <1> QED BY <1>1, <1>2, BlankType, FaultsAssumption DEF Init, TypeOK, PCs

(* The types of all variables: a document of the cluster never names a     *)
(* boot that has not begun.                                                *)
THEOREM TypeCorrect == Spec => []TypeOK
  BY TypeInit, TypeStep, PTL DEF Spec

-----------------------------------------------------------------------------
(* A run has the version of the document, or an earlier one.               *)
VersionInv == \A m \in Mgmt : Running(m) => memory[m].version <= versionDoc.version

IInv == TypeOK /\ VersionInv /\ HandledByRunner

(* What a step leaves alone when nobody takes or ends a run by it.         *)
SameDoc == /\ versionDoc'.version = versionDoc.version
           /\ versionDoc'.status = versionDoc.status
           /\ versionDoc'.managementId = versionDoc.managementId
           /\ versionDoc'.bootVersion = versionDoc.bootVersion

SameRuns == \A n \in Mgmt : Running(n)' => /\ Running(n)
                                         /\ memory'[n].version = memory[n].version
                                         /\ bootVersion'[n] = bootVersion[n]

LEMMA QuietStep == IInv /\ SameDoc /\ SameRuns => VersionInv' /\ HandledByRunner'
  BY DEF IInv, SameDoc, SameRuns, VersionInv, HandledByRunner

(* The others go on as they were, whatever m does.                         *)
LEMMA MoveRuns ==
    ASSUME TypeOK, NEW m \in Mgmt, NEW from, NEW to \in PCs, NEW new,
           Move(m, from, to, new)
    PROVE  /\ \A n \in Mgmt \ {m} : /\ pc'[n] = pc[n] /\ memory'[n] = memory[n]
                                    /\ Running(n)' <=> Running(n)
           /\ pc[m] = from /\ pc'[m] = to /\ memory'[m] = new
  BY DEF TypeOK, Move, Running

RunPCs == {"load", "categorize", "find", "delete", "remove", "release"}

LEMMA MoveSameRuns ==
    ASSUME TypeOK, NEW m \in Mgmt, NEW from, NEW to \in PCs, NEW new,
           Move(m, from, to, new), UNCHANGED bootVersion,
           to \in RunPCs => from \in RunPCs /\ new.version = memory[m].version
    PROVE  SameRuns
  BY MoveRuns DEF SameRuns, Running, RunPCs

LEMMA PollQuiet ==
    ASSUME TypeOK, NEW m \in Mgmt,
           \/ Poll(m) \/ ReadCluster(m) \/ (Acquire(m) /\ ~Query(m)) \/ LoadPending(m)
           \/ Categorize(m) \/ FindStale(m) \/ DeleteNext(m) \/ Remove(m)
    PROVE  SameDoc /\ SameRuns
  <1>1. UNCHANGED <<versionDoc, bootVersion>>
    BY DEF Poll, ReadCluster, Acquire, LoadPending, Categorize, FindStale, DeleteNext,
           Remove, Environment
  <1>2. memory[m] \in Memory
    BY DEF TypeOK
  <1>3. CASE Poll(m)
    BY <1>1, <1>3, MoveSameRuns DEF Poll, PCs, RunPCs, SameDoc
  <1>4. CASE ReadCluster(m)
    BY <1>1, <1>4, MoveSameRuns DEF ReadCluster, PCs, RunPCs, SameDoc
  <1>5. CASE Acquire(m) /\ ~Query(m)
    BY <1>1, <1>5, MoveSameRuns DEF Acquire, PCs, RunPCs, SameDoc
  <1>6. CASE LoadPending(m)
    <2> DEFINE pending == {e \in Entity : entity[e].status = "pending"}
               new == [memory[m] EXCEPT !.found = pending]
    <2>1. new.version = memory[m].version
      BY <1>2 DEF Memory
    <2>2. Move(m, "load", "categorize", new)
      BY <1>6 DEF LoadPending
    <2> QED BY <1>1, <2>1, <2>2, MoveSameRuns DEF PCs, RunPCs, SameDoc
  <1>7. CASE Categorize(m)
    <2>1. PICK S : Move(m, "categorize", "find", [memory[m] EXCEPT !.found = S])
      BY <1>7 DEF Categorize
    <2>2. [memory[m] EXCEPT !.found = S].version = memory[m].version
      BY <1>2 DEF Memory
    <2> QED BY <1>1, <2>1, <2>2, MoveSameRuns DEF PCs, RunPCs, SameDoc
  <1>8. CASE FindStale(m)
    <2>1. PICK S : Move(m, "find", "delete", [memory[m] EXCEPT !.found = S])
      BY <1>8 DEF FindStale
    <2>2. [memory[m] EXCEPT !.found = S].version = memory[m].version
      BY <1>2 DEF Memory
    <2> QED BY <1>1, <2>1, <2>2, MoveSameRuns DEF PCs, RunPCs, SameDoc
  <1>9. CASE DeleteNext(m)
    <2>1. \A S, T : /\ [memory[m] EXCEPT !.found = S].version = memory[m].version
                    /\ [memory[m] EXCEPT !.found = S, !.next = T].version = memory[m].version
      BY <1>2 DEF Memory
    <2>2. CASE \E S, T : Move(m, "delete", "remove",
                             [memory[m] EXCEPT !.found = S, !.next = T])
      BY <1>1, <2>1, <2>2, MoveSameRuns DEF PCs, RunPCs, SameDoc
    <2>3. CASE \E S : Move(m, "delete", "delete", [memory[m] EXCEPT !.found = S])
      BY <1>1, <2>1, <2>3, MoveSameRuns DEF PCs, RunPCs, SameDoc
    <2>4. CASE Move(m, "delete", "release", memory[m])
      BY <1>1, <2>4, MoveSameRuns DEF PCs, RunPCs, SameDoc
    <2> QED BY <1>9, <2>2, <2>3, <2>4 DEF DeleteNext
  <1>10. CASE Remove(m)
    <2>1. [memory[m] EXCEPT !.next = {}].version = memory[m].version
      BY <1>2 DEF Memory
    <2> QED BY <1>1, <1>10, <2>1, MoveSameRuns DEF Remove, PCs, RunPCs, SameDoc
  <1> QED BY <1>3, <1>4, <1>5, <1>6, <1>7, <1>8, <1>9, <1>10

LEMMA ProcessQuiet ==
    ASSUME TypeOK, NEW m \in Mgmt,
           Crash(m) \/ Restart(m) \/ DeleteOwnDocument(m) \/ Join(m) \/ Heartbeat(m)
    PROVE  SameDoc /\ SameRuns
  <1>1. CASE Crash(m)
    BY <1>1, MoveSameRuns DEF Crash, PCs, RunPCs, SameDoc
  <1>2. CASE Restart(m)
    <2>1. \A n \in Mgmt \ {m} : bootVersion'[n] = bootVersion[n]
      BY <1>2 DEF Restart, TypeOK
    <2>2. pc'[m] = "boot"
      BY <1>2, MoveRuns DEF Restart, PCs
    <2>3. SameDoc
      BY <1>2 DEF Restart, SameDoc
    <2>4. "off" \in PCs /\ "boot" \in PCs
      BY DEF PCs
    <2>5. Move(m, "off", "boot", Blank)
      BY <1>2 DEF Restart
    <2>6. ~Running(m)'
      BY <2>2 DEF Running
    <2>7. \A n \in Mgmt \ {m} : pc'[n] = pc[n] /\ memory'[n] = memory[n]
      BY <2>4, <2>5, MoveRuns
    <2>8. \A n \in Mgmt \ {m} : Running(n)' <=> Running(n)
      BY <2>7 DEF Running
    <2> QED BY <2>1, <2>3, <2>6, <2>7, <2>8 DEF SameRuns
  <1>3. CASE DeleteOwnDocument(m)
    BY <1>3, MoveSameRuns DEF DeleteOwnDocument, procVars, PCs, RunPCs, SameDoc
  <1>4. CASE Join(m)
    BY <1>4, MoveSameRuns DEF Join, procVars, PCs, RunPCs, SameDoc
  <1>5. CASE Heartbeat(m)
    BY <1>5 DEF Heartbeat, procVars, Running, SameDoc, SameRuns
  <1> QED BY <1>1, <1>2, <1>3, <1>4, <1>5

LEMMA EnvironmentQuiet ==
    ASSUME TypeOK,
           \/ \E m \in Mgmt : HeartbeatExpires(m) \/ FindDead(m) \/ DeleteManagement(m)
           \/ \E m \in Mgmt, e \in Entity : Create(m, e) \/ Finish(m, e)
           \/ \E e \in Entity : EntityAges(e)
           \/ VersionDocAges \/ ForceSanityAndRecover
    PROVE  SameDoc /\ SameRuns
  <1>1. UNCHANGED <<bootVersion, pc, memory>>
    BY DEF HeartbeatExpires, FindDead, DeleteManagement, Create, Finish, EntityAges,
           VersionDocAges, ForceSanityAndRecover, procVars, Environment
  <1>2. SameDoc
    BY DEF HeartbeatExpires, FindDead, DeleteManagement, Create, Finish, EntityAges,
           VersionDocAges, ForceSanityAndRecover, TypeOK, VersionDoc, SameDoc
  <1> QED BY <1>1, <1>2 DEF SameRuns, Running

(* Taking the run gives the document a version that nobody has yet.        *)
LEMMA AcquireInv ==
    ASSUME IInv, NEW m \in Mgmt, Acquire(m), Query(m)
    PROVE  VersionInv' /\ HandledByRunner'
  <1>1. /\ versionDoc'.version = versionDoc.version + 1
        /\ versionDoc'.status = "handling"
        /\ versionDoc'.managementId = m /\ versionDoc'.bootVersion = bootVersion[m]
        /\ bootVersion' = bootVersion
    BY DEF Acquire, Environment
  <1>2. Move(m, "acquire", "load", [Blank EXCEPT !.version = versionDoc.version + 1])
    BY DEF Acquire
  <1>3. [Blank EXCEPT !.version = versionDoc.version + 1].version = versionDoc.version + 1
    BY DEF Blank
  <1>4. /\ \A n \in Mgmt \ {m} : /\ Running(n)' <=> Running(n)
                                 /\ memory'[n].version = memory[n].version
        /\ memory'[m].version = versionDoc.version + 1
    <2>1. TypeOK /\ "load" \in PCs
      BY DEF IInv, PCs
    <2> DEFINE new == [Blank EXCEPT !.version = versionDoc.version + 1]
    <2>2. /\ \A n \in Mgmt \ {m} : /\ memory'[n] = memory[n]
                                   /\ Running(n)' <=> Running(n)
          /\ memory'[m] = new
      BY <1>2, <2>1, MoveRuns
    <2> HIDE DEF new
    <2>3. new.version = versionDoc.version + 1
      BY <1>3 DEF new
    <2> QED BY <2>2, <2>3
  <1>5. /\ versionDoc.version \in Nat
        /\ \A n \in Mgmt : memory[n].version \in Nat
    BY DEF IInv, TypeOK, VersionDoc, Memory
  <1>6. \A n \in Mgmt \ {m} : Running(n)' => memory'[n].version < versionDoc'.version
    BY <1>1, <1>4, <1>5 DEF IInv, VersionInv
  <1>7. memory'[m].version <= versionDoc'.version
    BY <1>1, <1>4, <1>5
  <1>8. VersionInv'
    BY <1>1, <1>4, <1>5, <1>6, <1>7 DEF VersionInv
  <1>9. HandledByRunner'
    BY <1>1, <1>4, <1>5, <1>6 DEF HandledByRunner
  <1> QED BY <1>8, <1>9

(* Ending a run ends its own version: whoever else has that version would  *)
(* be named by the document as well.                                       *)
LEMMA ReleaseLockInv ==
    ASSUME IInv, NEW m \in Mgmt, ReleaseLock(m)
    PROVE  VersionInv' /\ HandledByRunner'
  <1>1. /\ \A n \in Mgmt \ {m} : /\ Running(n)' <=> Running(n)
                                 /\ memory'[n] = memory[n]
        /\ pc[m] = "release" /\ pc'[m] = "poll"
    BY MoveRuns DEF ReleaseLock, IInv, PCs
  <1>2. Running(m) /\ ~Running(m)'
    BY <1>1 DEF Running
  <1>3. bootVersion' = bootVersion
    BY DEF ReleaseLock, Environment
  <1>4. CASE OwnVersion(m)
    <2>1. versionDoc.managementId = m
      BY <1>2, <1>4 DEF OwnVersion, IInv, HandledByRunner
    <2>2. \A n \in Mgmt \ {m} : Running(n) => memory[n].version # versionDoc.version
      BY <2>1 DEF IInv, HandledByRunner
    <2>3. versionDoc'.version = versionDoc.version
      BY <1>4 DEF ReleaseLock, IInv, TypeOK, VersionDoc
    <2> QED BY <1>1, <1>2, <2>2, <2>3 DEF IInv, VersionInv, HandledByRunner
  <1>5. CASE ~OwnVersion(m)
    <2>1. versionDoc' = versionDoc
      BY <1>5 DEF ReleaseLock
    <2> QED BY <1>1, <1>2, <1>3, <2>1 DEF IInv, VersionInv, HandledByRunner
  <1> QED BY <1>4, <1>5

LEMMA InductiveStep == IInv /\ [Next]_vars => IInv'
  <1> SUFFICES ASSUME IInv, [Next]_vars PROVE IInv'
    OBVIOUS
  <1>1. TypeOK /\ TypeOK'
    BY TypeStep DEF IInv
  <1>2. CASE UNCHANGED vars
    BY <1>1, <1>2, QuietStep DEF IInv, vars, SameDoc, SameRuns, Running
  <1>3. ASSUME NEW m \in Mgmt, Step(m) \/ Heartbeat(m) \/ Crash(m) \/ Restart(m)
        PROVE  VersionInv' /\ HandledByRunner'
    BY <1>1, <1>3, QuietStep, PollQuiet, ProcessQuiet, AcquireInv, ReleaseLockInv DEF Step
  <1> QED BY <1>1, <1>2, <1>3, QuietStep, EnvironmentQuiet DEF Next, IInv

(* At any time, for any number of managements and faults: a run whose      *)
(* version the document has is the one that the document says is going on. *)
THEOREM RunIsHandled == Spec => []HandledByRunner
  <1>1. Init => TypeOK
    BY TypeInit
  <1>2. Init => VersionInv /\ HandledByRunner
    BY DEF Init, VersionInv, HandledByRunner, Running
  <1> QED BY <1>1, <1>2, InductiveStep, PTL DEF Spec, IInv

-----------------------------------------------------------------------------
(* Removals.  What the invariant of RemovesOnlyStale needs: no entity is   *)
(* of a boot that has not begun; a process that begins has a boot of its   *)
(* own; whoever serves without a document in the cluster, or without       *)
(* heartbeat, has its boot in lapsed; and what a run has found is stale    *)
(* from the categorization to the removal, whatever happens in between.    *)
CreatorBoot(e) == <<entity[e].managementId, entity[e].bootVersion>>

Stale(e) == /\ entity[e].status # "none"
            /\ Over(e) \/ CreatorBoot(e) \in lapsed

CreatorInv ==
    \A e \in Entity : entity[e].status # "none" =>
        /\ entity[e].managementId \in Mgmt
        /\ entity[e].bootVersion <= bootVersion[entity[e].managementId]

BootInv == \A m \in Mgmt : bootVersion[m] >= 1 /\ (pc[m] = "off" <=> ~up[m])

NewBootInv ==
    \A m \in Mgmt, e \in Entity :
        /\ pc[m] \in {"boot", "join"}
        /\ entity[e].status # "none"
        /\ entity[e].managementId = m
        => entity[e].bootVersion < bootVersion[m]

AbsentInv == \A m \in Mgmt : Serving(m) /\ (cluster[m] = 0 \/ ~fresh[m]) => Boot(m) \in lapsed

FoundAt(m) ==
    /\ pc[m] = "categorize" => \A e \in memory[m].found : entity[e].status # "none"
    /\ pc[m] \in {"find", "delete", "remove"} => \A e \in memory[m].found : Stale(e)
    /\ pc[m] = "remove" =>
          \A e \in memory[m].next : /\ Stale(e)
                                    /\ \/ entity[e].status \in {"pending", "removed"}
                                       \/ CreatorBoot(e) \in lapsed

FoundInv == \A m \in Mgmt : FoundAt(m)

RInv == TypeOK /\ CreatorInv /\ BootInv /\ NewBootInv /\ AbsentInv /\ FoundInv

(* Boots and lapses only grow, and an entity keeps its creator.            *)
ProcessesGrow ==
    /\ lapsed \subseteq lapsed'
    /\ \A m \in Mgmt : /\ bootVersion[m] <= bootVersion'[m]
                       /\ ~up[m] => ~up'[m] \/ bootVersion[m] < bootVersion'[m]

KeepsCreators ==
    \A e \in Entity : entity[e].status # "none" =>
        /\ entity'[e].status # "none"
        /\ entity'[e].managementId = entity[e].managementId
        /\ entity'[e].bootVersion = entity[e].bootVersion

KeepsPending ==
    \A e \in Entity : entity[e].status \in {"pending", "removed"} =>
        entity'[e].status \in {"pending", "removed"} \/ ~Over(e)

Grow == ProcessesGrow /\ KeepsCreators /\ KeepsPending

(* Once stale, an entity is stale for ever.                                *)
LEMMA StaleStable ==
    ASSUME TypeOK, TypeOK', CreatorInv, ProcessesGrow, KeepsCreators,
           NEW e \in Entity, Stale(e)
    PROVE  Stale(e)'
  <1> DEFINE m == entity[e].managementId
  <1>1. /\ m \in Mgmt /\ entity[e].bootVersion <= bootVersion[m]
        /\ entity[e].bootVersion \in Nat
        /\ bootVersion[m] \in Nat /\ bootVersion'[m] \in Nat
    BY DEF CreatorInv, Stale, TypeOK, EntityDoc
  <1>2. /\ entity'[e].status # "none" /\ entity'[e].managementId = m
        /\ entity'[e].bootVersion = entity[e].bootVersion
    BY DEF KeepsCreators, Stale
  <1>3. CASE CreatorBoot(e) \in lapsed
    <2>1. CreatorBoot(e)' = CreatorBoot(e)
      BY <1>2 DEF CreatorBoot
    <2> QED BY <1>2, <1>3, <2>1 DEF Stale, ProcessesGrow
  <1>4. CASE Over(e)
    <2>1. ~up[m] \/ entity[e].bootVersion < bootVersion[m]
      BY <1>4 DEF Over
    <2>2. ~up'[m] \/ entity[e].bootVersion < bootVersion'[m]
      BY <1>1, <2>1 DEF ProcessesGrow
    <2>3. Over(e)'
      BY <1>2, <2>2 DEF Over
    <2> QED BY <1>2, <2>3 DEF Stale
  <1> QED BY <1>3, <1>4 DEF Stale

(* A management that stays where it is keeps what it found.                *)
LEMMA FoundStable ==
    ASSUME TypeOK, TypeOK', CreatorInv, FoundInv, Grow, NEW m \in Mgmt,
           pc'[m] = pc[m], memory'[m] = memory[m]
    PROVE  FoundAt(m)'
  <1>1. memory[m].found \subseteq Entity /\ memory[m].next \subseteq Entity /\ FoundAt(m)
    BY DEF TypeOK, Memory, FoundInv
  <1>2. \A e \in Entity : Stale(e) => Stale(e)'
    BY StaleStable DEF Grow
  <1>3. pc'[m] = "categorize" => \A e \in memory'[m].found : entity'[e].status # "none"
    BY <1>1 DEF FoundAt, Grow, KeepsCreators
  <1>4. pc'[m] \in {"find", "delete", "remove"} => \A e \in memory'[m].found : Stale(e)'
    BY <1>1, <1>2 DEF FoundAt
  <1>5. ASSUME pc'[m] = "remove", NEW e \in memory'[m].next
        PROVE  /\ Stale(e)'
               /\ \/ entity'[e].status \in {"pending", "removed"}
                  \/ CreatorBoot(e)' \in lapsed'
    <2>1. e \in Entity /\ Stale(e) /\ Stale(e)'
      BY <1>1, <1>2, <1>5 DEF FoundAt
    <2>2. CASE CreatorBoot(e) \in lapsed
      <3>1. CreatorBoot(e)' = CreatorBoot(e)
        BY <2>1 DEF CreatorBoot, Grow, KeepsCreators, Stale
      <3> QED BY <2>1, <2>2, <3>1 DEF Grow, ProcessesGrow
    <2>3. CASE CreatorBoot(e) \notin lapsed
      <3>1. entity[e].status \in {"pending", "removed"} /\ Over(e)
        BY <1>1, <1>5, <2>1, <2>3 DEF FoundAt, Stale
      <3> QED BY <2>1, <3>1 DEF Grow, KeepsPending
    <2> QED BY <2>2, <2>3
  <1> QED BY <1>3, <1>4, <1>5 DEF FoundAt

(* The steps of a run leave boots, documents and lapses alone; Serving is  *)
(* as before.                                                              *)
RunStep(m) == \/ Poll(m) \/ ReadCluster(m) \/ Acquire(m) \/ LoadPending(m)
              \/ Categorize(m) \/ FindStale(m) \/ DeleteNext(m) \/ Remove(m)
              \/ ReleaseLock(m)

PollPCs == {"poll", "read", "acquire"} \cup RunPCs

LEMMA RunStepMoves ==
    ASSUME TypeOK, NEW m \in Mgmt, RunStep(m)
    PROVE  /\ UNCHANGED Environment
           /\ pc[m] \in PollPCs /\ pc'[m] \in PollPCs
           /\ \A n \in Mgmt \ {m} : pc'[n] = pc[n] /\ memory'[n] = memory[n]
           /\ pc[m] # "remove" => UNCHANGED entity
  <1>1. UNCHANGED Environment
    BY DEF RunStep, Poll, ReadCluster, Acquire, LoadPending, Categorize, FindStale,
           DeleteNext, Remove, ReleaseLock
  <1>2. PICK from, to, new : /\ from \in PollPCs /\ to \in PollPCs
                             /\ Move(m, from, to, new)
    <2> USE DEF PollPCs, RunPCs
    <2>1. CASE Poll(m) \/ ReadCluster(m) \/ Acquire(m) \/ LoadPending(m)
      BY <2>1 DEF Poll, ReadCluster, Acquire, LoadPending
    <2>2. CASE Categorize(m)
      BY <2>2 DEF Categorize
    <2>3. CASE FindStale(m) \/ Remove(m) \/ ReleaseLock(m)
      BY <2>3 DEF FindStale, Remove, ReleaseLock
    <2>4. CASE DeleteNext(m)
      BY <2>4 DEF DeleteNext
    <2> QED BY <2>1, <2>2, <2>3, <2>4 DEF RunStep
  <1>3. PollPCs \subseteq PCs
    BY DEF PollPCs, RunPCs, PCs
  <1>4. /\ pc[m] \in PollPCs /\ pc'[m] \in PollPCs
        /\ \A n \in Mgmt \ {m} : pc'[n] = pc[n] /\ memory'[n] = memory[n]
    <2>1. to \in PCs
      BY <1>2, <1>3
    <2> QED BY <1>2, <2>1, MoveRuns
  <1>5. ASSUME ~Remove(m) PROVE UNCHANGED entity
    BY <1>5 DEF RunStep, Poll, ReadCluster, Acquire, LoadPending, Categorize, FindStale,
           DeleteNext, ReleaseLock
  <1>6. Remove(m) => pc[m] = "remove"
    BY DEF Remove, Move
  <1> QED BY <1>1, <1>4, <1>5, <1>6

LEMMA RemoveGrows ==
    ASSUME TypeOK, NEW m \in Mgmt, RInv, Remove(m)
    PROVE  KeepsCreators /\ KeepsPending
  <1>1. ASSUME NEW e \in Entity
        PROVE  /\ entity'[e].managementId = entity[e].managementId
               /\ entity'[e].bootVersion = entity[e].bootVersion
               /\ entity'[e].status \in {entity[e].status, "removed"}
    <2>1. entity[e] \in EntityDoc
      BY DEF TypeOK
    <2>2. entity'[e] = IF e \in memory[m].next
                         THEN [entity[e] EXCEPT !.status = "removed", !.aged = FALSE]
                         ELSE entity[e]
      BY DEF Remove
    <2> QED BY <2>1, <2>2 DEF EntityDoc
  <1> QED BY <1>1 DEF KeepsCreators, KeepsPending

LEMMA RunStepGrows ==
    ASSUME RInv, NEW m \in Mgmt, RunStep(m)
    PROVE  Grow
  <1>1. TypeOK
    BY DEF RInv
  <1>2. UNCHANGED Environment /\ (pc[m] # "remove" => UNCHANGED entity)
    BY <1>1, RunStepMoves
  <1>3. ProcessesGrow
    BY <1>1, <1>2 DEF ProcessesGrow, Environment, TypeOK
  <1>4. KeepsCreators /\ KeepsPending
    <2>1. CASE Remove(m)
      BY <1>1, <2>1, RemoveGrows
    <2>2. CASE ~Remove(m)
      <3>1. UNCHANGED entity
        BY <2>2 DEF RunStep, Poll, ReadCluster, Acquire, LoadPending, Categorize, FindStale,
               DeleteNext, ReleaseLock
      <3> QED BY <3>1 DEF KeepsCreators, KeepsPending
    <2> QED BY <2>1, <2>2
  <1> QED BY <1>3, <1>4 DEF Grow

(* Who is down in the cluster, or was seen there with a later boot, has    *)
(* left nothing but stale entities.                                        *)
LEMMA CategorizedIsStale ==
    ASSUME RInv, NEW m \in Mgmt, NEW e \in Entity, entity[e].status # "none",
           CreatedInPrevBoot(m, e) \/ CreatedByDeadMgmt(e)
    PROVE  Stale(e)
  <1> DEFINE c == entity[e].managementId
  <1>1. /\ c \in Mgmt /\ entity[e].bootVersion <= bootVersion[c]
        /\ entity[e].bootVersion \in Nat /\ bootVersion[c] \in Nat
        /\ cluster[c] \in Nat /\ cluster[c] <= bootVersion[c]
    BY DEF RInv, CreatorInv, TypeOK, EntityDoc
  <1>2. State[c] = IF cluster[c] = 0 THEN Gone
                                     ELSE [bootVersion |-> cluster[c], isUp |-> fresh[c]]
    BY <1>1 DEF State
  <1>3. CASE CreatedByDeadMgmt(e)
    <2>1. State[c] = Gone \/ (~State[c].isUp /\ State[c].bootVersion = entity[e].bootVersion)
      BY <1>3 DEF CreatedByDeadMgmt
    <2>2. cluster[c] = 0 \/ ~fresh[c]
      BY <1>2, <2>1 DEF Gone
    <2>3. CASE ~up[c]
      BY <2>3 DEF Stale, Over
    <2>4. CASE up[c] /\ ~Serving(c)
      <3>1. pc[c] \in {"boot", "join"}
        BY <2>4 DEF Serving
      <3>2. entity[e].bootVersion < bootVersion[c]
        BY <1>1, <3>1 DEF RInv, NewBootInv
      <3> QED BY <3>2 DEF Stale, Over
    <2>5. CASE Serving(c)
      <3>1. Boot(c) \in lapsed
        BY <1>1, <2>2, <2>5 DEF RInv, AbsentInv
      <3>2. CASE entity[e].bootVersion = bootVersion[c]
        <4>1. CreatorBoot(e) = Boot(c)
          BY <3>2 DEF CreatorBoot, Boot
        <4> QED BY <3>1, <4>1 DEF Stale
      <3>3. CASE entity[e].bootVersion < bootVersion[c]
        BY <3>3 DEF Stale, Over
      <3> QED BY <1>1, <3>2, <3>3
    <2> QED BY <2>3, <2>4, <2>5 DEF Serving
  <1>4. CASE CreatedInPrevBoot(m, e) /\ ~CreatedByDeadMgmt(e)
    <2>1. \/ entity[e].bootVersion < bootVersion[c]
          \/ State[c].bootVersion > entity[e].bootVersion
      BY <1>4 DEF CreatedInPrevBoot
    <2>2. State[c].bootVersion = cluster[c]
      BY <1>2 DEF Gone
    <2>3. entity[e].bootVersion < bootVersion[c]
      BY <1>1, <2>1, <2>2
    <2> QED BY <2>3 DEF Stale, Over
  <1> QED BY <1>3, <1>4

(* What the run of m holds after one of its steps.                         *)
LEMMA RunStepFound ==
    ASSUME RInv, TypeOK', NEW m \in Mgmt, RunStep(m)
    PROVE  FoundAt(m)'
  <1>1. Grow /\ TypeOK /\ CreatorInv /\ FoundAt(m)
    BY RunStepGrows DEF RInv, FoundInv
  <1>2. \A e \in Entity : Stale(e) => Stale(e)'
    BY <1>1, StaleStable DEF Grow
  <1>3. memory[m] \in Memory /\ memory[m].found \subseteq Entity
    BY <1>1 DEF TypeOK, Memory
  <1>4. CASE Poll(m) \/ ReadCluster(m) \/ Acquire(m) \/ ReleaseLock(m)
    <2>1. pc'[m] \in {"poll", "read", "acquire", "load"}
      BY <1>1, <1>4 DEF Poll, ReadCluster, Acquire, ReleaseLock, Move, TypeOK
    <2> QED BY <2>1 DEF FoundAt
  <1>5. CASE LoadPending(m)
    <2> DEFINE pending == {e \in Entity : entity[e].status = "pending"}
    <2>1. Move(m, "load", "categorize", [memory[m] EXCEPT !.found = pending]) /\ UNCHANGED entity
      BY <1>5 DEF LoadPending
    <2>2. pc'[m] = "categorize" /\ memory'[m] = [memory[m] EXCEPT !.found = pending]
      BY <1>1, <2>1 DEF Move, TypeOK
    <2>3. memory'[m].found = pending
      BY <1>3, <2>2 DEF Memory
    <2> QED BY <2>1, <2>2, <2>3 DEF FoundAt
  <1>6. CASE Categorize(m)
    <2> DEFINE prev == {e \in memory[m].found : CreatedInPrevBoot(m, e)}
               dead == {e \in memory[m].found \ prev : CreatedByDeadMgmt(e) /\ entity[e].aged}
    <2>1. Move(m, "categorize", "find", [memory[m] EXCEPT !.found = prev \cup dead])
      BY <1>6 DEF Categorize
    <2>2. /\ pc[m] = "categorize" /\ pc'[m] = "find"
          /\ memory'[m] = [memory[m] EXCEPT !.found = prev \cup dead]
      BY <1>1, <2>1 DEF Move, TypeOK
    <2>3. memory'[m].found = prev \cup dead
      BY <1>3, <2>2 DEF Memory
    <2>4. \A e \in prev \cup dead : e \in Entity /\ entity[e].status # "none"
      BY <1>1, <1>3, <2>2 DEF FoundAt
    <2>5. \A e \in prev \cup dead : CreatedInPrevBoot(m, e) \/ CreatedByDeadMgmt(e)
      OBVIOUS
    <2>6. \A e \in prev \cup dead : Stale(e)
      BY <2>4, <2>5, CategorizedIsStale
    <2>7. \A e \in memory'[m].found : Stale(e)'
      BY <1>2, <2>3, <2>4, <2>6
    <2> QED BY <2>2, <2>7 DEF FoundAt
  <1>7. CASE FindStale(m)
    <2>1. Move(m, "find", "delete", [memory[m] EXCEPT !.found = StillPending(@)])
      BY <1>7 DEF FindStale
    <2>2. /\ pc[m] = "find" /\ pc'[m] = "delete"
          /\ memory'[m].found = StillPending(memory[m].found)
      BY <1>1, <1>3, <2>1 DEF Move, TypeOK, Memory
    <2>3. \A e \in memory'[m].found : e \in memory[m].found
      BY <2>2 DEF StillPending
    <2>4. \A e \in memory'[m].found : Stale(e)'
      BY <1>1, <1>2, <1>3, <2>2, <2>3 DEF FoundAt
    <2> QED BY <2>2, <2>4 DEF FoundAt
  <1>8. CASE DeleteNext(m)
    <2>0. pc[m] = "delete" /\ UNCHANGED entity
      BY <1>8 DEF DeleteNext, Move
    <2>1. \A e \in memory[m].found : e \in Entity /\ Stale(e) /\ Stale(e)'
      BY <1>1, <1>2, <1>3, <2>0 DEF FoundAt
    <2>2. ASSUME NEW e \in StillPending(memory[m].found),
                 Move(m, "delete", "remove", [memory[m] EXCEPT !.found = @ \ {e}, !.next = {e}])
          PROVE  FoundAt(m)'
      <3>1. e \in memory[m].found /\ entity[e].status = "pending"
        BY DEF StillPending
      <3>2. /\ pc'[m] = "remove"
            /\ memory'[m].found = memory[m].found \ {e} /\ memory'[m].next = {e}
        BY <1>1, <1>3, <2>2 DEF Move, TypeOK, Memory
      <3>3. entity'[e].status = "pending"
        BY <2>0, <3>1
      <3> QED BY <2>1, <3>1, <3>2, <3>3 DEF FoundAt
    <2>3. ASSUME NEW e \in memory[m].found,
                 Move(m, "delete", "delete", [memory[m] EXCEPT !.found = @ \ {e}])
          PROVE  FoundAt(m)'
      <3>1. pc'[m] = "delete" /\ memory'[m].found = memory[m].found \ {e}
        BY <1>1, <1>3, <2>3 DEF Move, TypeOK, Memory
      <3> QED BY <2>1, <3>1 DEF FoundAt
    <2>4. ASSUME Move(m, "delete", "release", memory[m]) PROVE FoundAt(m)'
      <3>1. pc'[m] = "release"
        BY <1>1, <2>4 DEF Move, TypeOK
      <3> QED BY <3>1 DEF FoundAt
    <2> QED BY <1>8, <2>2, <2>3, <2>4 DEF DeleteNext
  <1>9. CASE Remove(m)
    <2>1. Move(m, "remove", "delete", [memory[m] EXCEPT !.next = {}])
      BY <1>9 DEF Remove
    <2>2. /\ pc[m] = "remove" /\ pc'[m] = "delete"
          /\ memory'[m].found = memory[m].found
      BY <1>1, <1>3, <2>1 DEF Move, TypeOK, Memory
    <2>3. \A e \in memory'[m].found : Stale(e)'
      BY <1>1, <1>2, <1>3, <2>2 DEF FoundAt
    <2> QED BY <2>2, <2>3 DEF FoundAt
  <1> QED BY <1>4, <1>5, <1>6, <1>7, <1>8, <1>9 DEF RunStep

(* Boots: parts of the invariant that do not look at a run's memory.       *)
BootsInv == CreatorInv /\ BootInv /\ NewBootInv /\ AbsentInv

LEMMA RunStepBoots ==
    ASSUME RInv, TypeOK', NEW m \in Mgmt, RunStep(m)
    PROVE  BootsInv'
  <1>1. /\ UNCHANGED Environment
        /\ pc[m] \in PollPCs /\ pc'[m] \in PollPCs
        /\ \A n \in Mgmt \ {m} : pc'[n] = pc[n]
    BY RunStepMoves DEF RInv
  <1>2. \A n \in Mgmt : /\ pc'[n] = "off" <=> pc[n] = "off"
                        /\ pc'[n] \in {"boot", "join"} <=> pc[n] \in {"boot", "join"}
    BY <1>1 DEF PollPCs, RunPCs
  <1>3. ASSUME NEW e \in Entity
        PROVE  /\ entity'[e].managementId = entity[e].managementId
               /\ entity'[e].bootVersion = entity[e].bootVersion
               /\ entity'[e].status # "none" => entity[e].status # "none"
    <2>1. CASE Remove(m)
      <3>1. entity[e] \in EntityDoc
        BY DEF RInv, TypeOK
      <3>2. entity'[e] = IF e \in memory[m].next
                           THEN [entity[e] EXCEPT !.status = "removed", !.aged = FALSE]
                           ELSE entity[e]
        BY <2>1 DEF Remove
      <3>3. CASE e \in memory[m].next
        <4>1. pc[m] = "remove"
          BY <2>1 DEF Remove, Move
        <4>2. entity[e].status # "none"
          BY <3>3, <4>1 DEF RInv, FoundInv, FoundAt, Stale
        <4> QED BY <3>1, <3>2, <4>2 DEF EntityDoc
      <3> QED BY <3>2, <3>3
    <2>2. CASE ~Remove(m)
      BY <2>2 DEF RunStep, Poll, ReadCluster, Acquire, LoadPending, Categorize, FindStale,
             DeleteNext, ReleaseLock
    <2> QED BY <2>1, <2>2
  <1>4. UNCHANGED <<up, bootVersion, cluster, fresh, lapsed>>
    BY <1>1 DEF Environment
  <1>5. CreatorInv'
    BY <1>3, <1>4 DEF RInv, CreatorInv
  <1>6. BootInv'
    BY <1>2, <1>4 DEF RInv, BootInv
  <1>7. NewBootInv'
    BY <1>2, <1>3, <1>4 DEF RInv, NewBootInv
  <1>8. AbsentInv'
    BY <1>2, <1>4 DEF RInv, AbsentInv, Serving, Boot
  <1> QED BY <1>5, <1>6, <1>7, <1>8 DEF BootsInv

LEMMA RunStepInv ==
    ASSUME RInv, TypeOK', NEW m \in Mgmt, RunStep(m)
    PROVE  RInv'
  <1>1. TypeOK /\ CreatorInv /\ FoundInv /\ Grow
    BY RunStepGrows DEF RInv
  <1>2. \A n \in Mgmt \ {m} : FoundAt(n)'
    BY <1>1, RunStepMoves, FoundStable
  <1>3. FoundAt(m)'
    BY RunStepFound
  <1>4. BootsInv'
    BY RunStepBoots
  <1> QED BY <1>2, <1>3, <1>4 DEF RInv, BootsInv, FoundInv

(* When no run moves, the others find what they found: what is left are    *)
(* the boots, and the memory of a process that crashes or begins.          *)
LEMMA OthersInv ==
    ASSUME RInv, TypeOK', Grow, BootsInv', NEW m \in Mgmt,
           \A n \in Mgmt \ {m} : pc'[n] = pc[n] /\ memory'[n] = memory[n],
           \/ pc'[m] = pc[m] /\ memory'[m] = memory[m]
           \/ pc'[m] \in {"off", "boot", "join", "poll"}
    PROVE  RInv'
  <1>1. TypeOK /\ CreatorInv /\ FoundInv
    BY DEF RInv
  <1>2. \A n \in Mgmt \ {m} : FoundAt(n)'
    BY <1>1, FoundStable
  <1>3. FoundAt(m)'
    <2>1. CASE pc'[m] = pc[m] /\ memory'[m] = memory[m]
      BY <1>1, <2>1, FoundStable
    <2>2. CASE pc'[m] \in {"off", "boot", "join", "poll"}
      BY <2>2 DEF FoundAt
    <2> QED BY <2>1, <2>2
  <1> QED BY <1>2, <1>3 DEF RInv, BootsInv, FoundInv

(* Processes that end, begin, enter the cluster and beat.                  *)
LEMMA CrashInv ==
    ASSUME RInv, TypeOK', NEW m \in Mgmt, Crash(m)
    PROVE  RInv'
  <1>1. TypeOK /\ UNCHANGED <<bootVersion, cluster, fresh, entity, lapsed>>
    BY DEF RInv, Crash
  <1>2. /\ pc'[m] = "off" /\ ~up'[m]
        /\ \A n \in Mgmt \ {m} : pc'[n] = pc[n] /\ memory'[n] = memory[n] /\ up'[n] = up[n]
    BY <1>1 DEF Crash, Move, TypeOK
  <1>3. ProcessesGrow
    BY <1>1, <1>2 DEF ProcessesGrow, TypeOK
  <1>4. KeepsCreators /\ KeepsPending
    BY <1>1 DEF KeepsCreators, KeepsPending
  <1>5. CreatorInv'
    BY <1>1 DEF RInv, CreatorInv
  <1>6. BootInv'
    BY <1>1, <1>2 DEF RInv, BootInv
  <1>7. NewBootInv'
    BY <1>1, <1>2 DEF RInv, NewBootInv
  <1>8. AbsentInv'
    BY <1>1, <1>2 DEF RInv, AbsentInv, Serving, Boot
  <1> QED BY <1>2, <1>3, <1>4, <1>5, <1>6, <1>7, <1>8, OthersInv DEF Grow, BootsInv

(* A boot that begins is later than that of all entities there are.        *)
LEMMA RestartInv ==
    ASSUME RInv, TypeOK', NEW m \in Mgmt, Restart(m)
    PROVE  RInv'
  <1>1. TypeOK /\ UNCHANGED <<cluster, fresh, entity, lapsed>>
    BY DEF RInv, Restart
  <1>2. /\ pc'[m] = "boot" /\ up'[m]
        /\ bootVersion'[m] = bootVersion[m] + 1
        /\ \A n \in Mgmt \ {m} : /\ pc'[n] = pc[n] /\ memory'[n] = memory[n]
                                 /\ up'[n] = up[n] /\ bootVersion'[n] = bootVersion[n]
    BY <1>1 DEF Restart, Move, TypeOK
  <1>3. \A n \in Mgmt : bootVersion[n] \in Nat
    BY <1>1 DEF TypeOK
  <1>4. ProcessesGrow
    BY <1>1, <1>2, <1>3 DEF ProcessesGrow
  <1>5. KeepsCreators /\ KeepsPending
    BY <1>1 DEF KeepsCreators, KeepsPending
  <1>6. \A e \in Entity : entity[e].bootVersion \in Nat
    BY <1>1 DEF TypeOK, EntityDoc
  <1>7. CreatorInv'
    BY <1>1, <1>2, <1>3, <1>6 DEF RInv, CreatorInv
  <1>8. BootInv'
    BY <1>1, <1>2, <1>3 DEF RInv, BootInv
  <1>9. NewBootInv'
    BY <1>1, <1>2, <1>3, <1>6 DEF RInv, NewBootInv, CreatorInv
  <1>10. AbsentInv'
    BY <1>1, <1>2 DEF RInv, AbsentInv, Serving, Boot
  <1> QED BY <1>2, <1>4, <1>5, <1>7, <1>8, <1>9, <1>10, OthersInv DEF Grow, BootsInv

LEMMA ClusterStepInv ==
    ASSUME RInv, TypeOK', NEW m \in Mgmt,
           DeleteOwnDocument(m) \/ Join(m) \/ Heartbeat(m)
    PROVE  RInv'
  <1>1. TypeOK /\ UNCHANGED <<up, bootVersion, entity, lapsed>>
    BY DEF RInv, DeleteOwnDocument, Join, Heartbeat, procVars
  <1>2. /\ \A n \in Mgmt \ {m} : /\ pc'[n] = pc[n] /\ memory'[n] = memory[n]
                                 /\ cluster'[n] = cluster[n] /\ fresh'[n] = fresh[n]
        /\ \/ pc[m] = "boot" /\ pc'[m] = "join"
           \/ pc[m] = "join" /\ pc'[m] = "poll"
           \/ pc'[m] = pc[m] /\ memory'[m] = memory[m]
    BY <1>1 DEF DeleteOwnDocument, Join, Heartbeat, Beat, Move, TypeOK
  <1>3. Grow
    BY <1>1 DEF Grow, ProcessesGrow, KeepsCreators, KeepsPending, TypeOK
  <1>4. CreatorInv'
    BY <1>1 DEF RInv, CreatorInv
  <1>5. BootInv'
    BY <1>1, <1>2 DEF RInv, BootInv
  <1>6. NewBootInv'
    BY <1>1, <1>2 DEF RInv, NewBootInv
  <1>7. Serving(m)' => cluster'[m] # 0 /\ fresh'[m]
    <2>1. CASE DeleteOwnDocument(m)
      <3>1. pc'[m] = "join"
        BY <1>1, <2>1 DEF DeleteOwnDocument, Move, TypeOK
      <3> QED BY <3>1 DEF Serving
    <2>2. CASE Join(m) \/ Heartbeat(m)
      <3>1. Beat(m) /\ bootVersion[m] >= 1 /\ bootVersion[m] \in Nat
        BY <1>1, <2>2 DEF Join, Heartbeat, RInv, BootInv, TypeOK
      <3> QED BY <1>1, <3>1 DEF Beat, TypeOK
    <2> QED BY <2>1, <2>2
  <1>8. \A n \in Mgmt \ {m} : Serving(n)' <=> Serving(n)
    BY <1>1, <1>2 DEF Serving
  <1>9. AbsentInv'
    BY <1>1, <1>2, <1>7, <1>8 DEF RInv, AbsentInv, Boot
  <1> QED BY <1>2, <1>3, <1>4, <1>5, <1>6, <1>9, OthersInv DEF BootsInv

(* Time and operators: a boot that serves and is silent, or loses its      *)
(* document, is noted in lapsed.                                           *)
LEMMA AbsenceInv ==
    ASSUME RInv, TypeOK', NEW m \in Mgmt,
           HeartbeatExpires(m) \/ FindDead(m) \/ DeleteManagement(m)
    PROVE  RInv'
  <1>1. TypeOK /\ UNCHANGED <<up, bootVersion, entity, pc, memory>>
    BY DEF RInv, HeartbeatExpires, FindDead, DeleteManagement, procVars
  <1>2. lapsed \subseteq lapsed'
    BY DEF HeartbeatExpires, FindDead, DeleteManagement
  <1>3. Grow
    BY <1>1, <1>2 DEF Grow, ProcessesGrow, KeepsCreators, KeepsPending, TypeOK
  <1>4. CreatorInv' /\ BootInv' /\ NewBootInv'
    BY <1>1 DEF RInv, CreatorInv, BootInv, NewBootInv
  <1>5. \A n \in Mgmt \ {m} : cluster'[n] = cluster[n] /\ fresh'[n] = fresh[n]
    BY <1>1 DEF HeartbeatExpires, FindDead, DeleteManagement, TypeOK
  <1>6. Serving(m) /\ (cluster'[m] = 0 \/ ~fresh'[m]) => Boot(m) \in lapsed'
    <2>1. CASE HeartbeatExpires(m)
      BY <1>1, <2>1 DEF HeartbeatExpires
    <2>2. CASE FindDead(m)
      BY <2>2 DEF FindDead, RInv, AbsentInv
    <2>3. CASE DeleteManagement(m)
      BY <1>1, <2>3 DEF DeleteManagement
    <2> QED BY <2>1, <2>2, <2>3
  <1>7. AbsentInv'
    BY <1>1, <1>2, <1>5, <1>6 DEF RInv, AbsentInv, Serving, Boot
  <1> QED BY <1>1, <1>3, <1>4, <1>7, OthersInv DEF BootsInv

LEMMA DocumentInv ==
    ASSUME RInv, TypeOK', VersionDocAges \/ ForceSanityAndRecover \/ UNCHANGED vars
    PROVE  RInv'
  <1>1. TypeOK /\ UNCHANGED <<up, bootVersion, cluster, fresh, entity, pc, memory, lapsed>>
    BY DEF RInv, VersionDocAges, ForceSanityAndRecover, Environment, procVars, vars
  <1>2. Grow
    BY <1>1 DEF Grow, ProcessesGrow, KeepsCreators, KeepsPending, TypeOK
  <1>3. FoundInv'
    BY <1>1, <1>2, FoundStable DEF RInv, FoundInv
  <1>4. CreatorInv' /\ BootInv' /\ NewBootInv' /\ AbsentInv'
    BY <1>1 DEF RInv, CreatorInv, BootInv, NewBootInv, AbsentInv, Serving, Boot
  <1> QED BY <1>3, <1>4 DEF RInv

(* Creations: a new entity is of the boot that serves, and only that boot  *)
(* may end the creation.                                                   *)
LEMMA EntityInv ==
    ASSUME RInv, TypeOK', NEW e \in Entity,
           UNCHANGED <<up, bootVersion, cluster, fresh, pc, memory, lapsed>>,
           \A d \in Entity \ {e} : entity'[d] = entity[d],
           \/ /\ entity[e].status = "none"
              /\ entity'[e].managementId \in Mgmt
              /\ Serving(entity'[e].managementId)
              /\ entity'[e].bootVersion = bootVersion[entity'[e].managementId]
              /\ entity'[e].status # "none"
           \/ /\ entity'[e].managementId = entity[e].managementId
              /\ entity'[e].bootVersion = entity[e].bootVersion
              /\ entity'[e].status = "none" <=> entity[e].status = "none"
              /\ entity'[e].status # entity[e].status => ~Over(e)
    PROVE  RInv'
  <1>1. TypeOK
    BY DEF RInv
  <1>2. ProcessesGrow
    BY <1>1 DEF ProcessesGrow, TypeOK
  <1>3. KeepsCreators /\ KeepsPending
    BY DEF KeepsCreators, KeepsPending
  <1>4. FoundInv'
    BY <1>1, <1>2, <1>3, FoundStable DEF RInv, FoundInv, Grow
  <1>5. BootInv' /\ AbsentInv'
    BY DEF RInv, BootInv, AbsentInv, Serving, Boot
  <1>6. \A n \in Mgmt : bootVersion[n] \in Nat
    BY <1>1 DEF TypeOK
  <1>7. CreatorInv'
    BY <1>6 DEF RInv, CreatorInv
  <1>8. NewBootInv'
    BY <1>6 DEF RInv, NewBootInv, Serving
  <1> QED BY <1>4, <1>5, <1>7, <1>8 DEF RInv

LEMMA CreationInv ==
    ASSUME RInv, TypeOK',
           \/ \E m \in Mgmt, e \in Entity : Create(m, e) \/ Finish(m, e)
           \/ \E e \in Entity : EntityAges(e)
    PROVE  RInv'
  <1>1. ASSUME NEW m \in Mgmt, NEW e \in Entity, Create(m, e) PROVE RInv'
    <2>1. /\ UNCHANGED <<up, bootVersion, cluster, fresh, pc, memory, lapsed>>
          /\ Serving(m) /\ entity[e].status = "none"
      BY <1>1 DEF Create, Environment
    <2>2. /\ entity'[e].status = "pending" /\ entity'[e].managementId = m
          /\ entity'[e].bootVersion = bootVersion[m]
          /\ \A d \in Entity \ {e} : entity'[d] = entity[d]
      BY <1>1 DEF Create, RInv, TypeOK
    <2> QED BY <2>1, <2>2, EntityInv
  <1>2. ASSUME NEW m \in Mgmt, NEW e \in Entity, Finish(m, e) PROVE RInv'
    <2>1. /\ UNCHANGED <<up, bootVersion, cluster, fresh, pc, memory, lapsed>>
          /\ Serving(m) /\ entity[e].status = "pending"
          /\ entity[e].managementId = m /\ entity[e].bootVersion = bootVersion[m]
      BY <1>2 DEF Finish, Environment
    <2>2. /\ entity'[e].status = "ready"
          /\ entity'[e].managementId = entity[e].managementId
          /\ entity'[e].bootVersion = entity[e].bootVersion
          /\ \A d \in Entity \ {e} : entity'[d] = entity[d]
      BY <1>2 DEF Finish, RInv, TypeOK, EntityDoc
    <2>3. bootVersion[m] \in Nat /\ ~Over(e)
      BY <2>1 DEF Over, Serving, RInv, TypeOK
    <2> QED BY <2>1, <2>2, <2>3, EntityInv
  <1>3. ASSUME NEW e \in Entity, EntityAges(e) PROVE RInv'
    <2>1. UNCHANGED <<up, bootVersion, cluster, fresh, pc, memory, lapsed>>
      BY <1>3 DEF EntityAges, Environment
    <2>2. entity[e] \in EntityDoc
      BY DEF RInv, TypeOK
    <2>3. /\ entity'[e].status = entity[e].status
          /\ entity'[e].managementId = entity[e].managementId
          /\ entity'[e].bootVersion = entity[e].bootVersion
          /\ \A d \in Entity \ {e} : entity'[d] = entity[d]
      BY <1>3, <2>2 DEF EntityAges, RInv, TypeOK, EntityDoc
    <2> QED BY <2>1, <2>3, EntityInv
  <1> QED BY <1>1, <1>2, <1>3

LEMMA RemovalStep == RInv /\ [Next]_vars => RInv'
  <1> SUFFICES ASSUME RInv, [Next]_vars PROVE RInv'
    OBVIOUS
  <1>1. TypeOK'
    BY TypeStep DEF RInv
  <1>2. ASSUME NEW m \in Mgmt, Step(m) PROVE RInv'
    BY <1>1, <1>2, RunStepInv, ClusterStepInv DEF Step, RunStep
  <1>3. ASSUME NEW m \in Mgmt,
               \/ Heartbeat(m) \/ HeartbeatExpires(m) \/ Crash(m) \/ Restart(m)
               \/ FindDead(m) \/ DeleteManagement(m)
        PROVE  RInv'
    BY <1>1, <1>3, ClusterStepInv, AbsenceInv, CrashInv, RestartInv
  <1>4. CASE \/ \E m \in Mgmt, e \in Entity : Create(m, e) \/ Finish(m, e)
             \/ \E e \in Entity : EntityAges(e)
    BY <1>1, <1>4, CreationInv
  <1>5. CASE VersionDocAges \/ ForceSanityAndRecover \/ UNCHANGED vars
    BY <1>1, <1>5, DocumentInv
  <1> QED BY <1>2, <1>3, <1>4, <1>5 DEF Next

LEMMA RemovalInit == Init => RInv
  <1> SUFFICES ASSUME Init PROVE RInv
    OBVIOUS
  <1>1. TypeOK
    BY TypeInit
  <1>2. \A e \in Entity : entity[e].status = "none"
    BY DEF Init, NoEntity
  <1>3. \A m \in Mgmt : /\ pc[m] = "poll" /\ up[m] /\ bootVersion[m] = 1
                        /\ cluster[m] = 1 /\ fresh[m]
    BY DEF Init
  <1> QED BY <1>1, <1>2, <1>3
          DEF RInv, CreatorInv, BootInv, NewBootInv, AbsentInv, FoundInv, FoundAt

(* One step of the property.                                               *)
RemovesStale ==
    \A e \in Entity :
        entity[e].status # "removed" /\ entity'[e].status = "removed" =>
           \/ entity[e].status = "pending" /\ Over(e)
           \/ <<entity[e].managementId, entity[e].bootVersion>> \in lapsed

LEMMA RemovesStaleStep == RInv /\ [Next]_vars => RemovesStale
  <1> SUFFICES ASSUME RInv, [Next]_vars, NEW e \in Entity,
                      entity[e].status # "removed", entity'[e].status = "removed"
               PROVE  \/ entity[e].status = "pending" /\ Over(e)
                      \/ CreatorBoot(e) \in lapsed
    BY DEF RemovesStale, CreatorBoot
  <1>1. entity \in [Entity -> EntityDoc]
    BY DEF RInv, TypeOK
  <1>2. PICK m \in Mgmt : Remove(m)
    <2>1. entity' # entity
      OBVIOUS
    <2>2. ASSUME \/ \E m \in Mgmt, d \in Entity : Create(m, d) \/ Finish(m, d)
                 \/ \E d \in Entity : EntityAges(d)
          PROVE  FALSE
      <3>1. ASSUME NEW m \in Mgmt, NEW d \in Entity, Create(m, d) PROVE FALSE
        BY <1>1, <3>1 DEF Create, EntityDoc
      <3>2. ASSUME NEW m \in Mgmt, NEW d \in Entity, Finish(m, d) PROVE FALSE
        BY <1>1, <3>2 DEF Finish, EntityDoc
      <3>3. ASSUME NEW d \in Entity, EntityAges(d) PROVE FALSE
        BY <1>1, <3>3 DEF EntityAges, EntityDoc
      <3> QED BY <2>2, <3>1, <3>2, <3>3
    <2>3. ASSUME NEW m \in Mgmt, Step(m), ~Remove(m) PROVE FALSE
      BY <2>1, <2>3 DEF Step, Poll, ReadCluster, Acquire, LoadPending, Categorize,
             FindStale, DeleteNext, ReleaseLock, DeleteOwnDocument, Join
    <2>4. ASSUME NEW m \in Mgmt,
                 \/ Heartbeat(m) \/ HeartbeatExpires(m) \/ Crash(m) \/ Restart(m)
                 \/ FindDead(m) \/ DeleteManagement(m)
          PROVE  FALSE
      BY <2>1, <2>4 DEF Heartbeat, HeartbeatExpires, Crash, Restart, FindDead,
             DeleteManagement
    <2>5. ASSUME VersionDocAges \/ ForceSanityAndRecover PROVE FALSE
      BY <2>1, <2>5 DEF VersionDocAges, ForceSanityAndRecover
    <2>6. Next
      BY <2>1 DEF vars
    <2>7. CASE \E m \in Mgmt : \/ Step(m) \/ Heartbeat(m) \/ HeartbeatExpires(m)
                               \/ Crash(m) \/ Restart(m) \/ FindDead(m) \/ DeleteManagement(m)
      BY <2>3, <2>4, <2>7
    <2> QED BY <2>2, <2>5, <2>6, <2>7 DEF Next
  <1>3. pc[m] = "remove" /\ e \in memory[m].next
    BY <1>2 DEF Remove, Move
  <1>4. /\ Over(e) \/ CreatorBoot(e) \in lapsed
        /\ entity[e].status \in {"pending", "removed"} \/ CreatorBoot(e) \in lapsed
    BY <1>3 DEF RInv, FoundInv, FoundAt, Stale
  <1> QED BY <1>4

(* For any number of managements, entities and faults: a run removes only  *)
(* entities in creation whose creator's boot is over, or those of a boot   *)
(* that had been silent or deleted while it ran.                           *)
THEOREM OnlyStaleIsRemoved == Spec => RemovesOnlyStale
  <1>1. Init => RInv
    BY RemovalInit
  <1>2. RInv /\ [Next]_vars => RInv'
    BY RemovalStep
  <1>3. RInv /\ [Next]_vars => [RemovesStale]_vars
    BY RemovesStaleStep
  <1>4. Spec => [][RemovesStale]_vars
    BY <1>1, <1>2, <1>3, PTL DEF Spec
  <1> QED BY <1>4 DEF RemovesOnlyStale, RemovesStale
=============================================================================
