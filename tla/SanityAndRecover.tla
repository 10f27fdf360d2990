-------------------------- MODULE SanityAndRecover --------------------------
(***************************************************************************)
(* Which management runs "sanity and recover", and which entities a run    *)
(* may remove: tryToAcquireLock, releaseLock, checkAndRemovePendingVolumes *)
(* and categorizeStaleEntities of src/modules/sanityAndRecover.js, called  *)
(* by the poll of src/modules/managementCluster.js.                        *)
(*                                                                         *)
(* The managements share two documents: the collection managementCluster,  *)
(* where every one leaves its bootVersion and heartbeat, and the cluster   *)
(* document of configurationVersion, where the one that notices a change   *)
(* of the cluster's state takes the run by compare and swap.  A run loads  *)
(* the entities that are pending, looks at the cluster once more, and      *)
(* removes those whose creator is gone.  Each call to the database is one  *)
(* step.                                                                   *)
(***************************************************************************)
EXTENDS Naturals, FiniteSets

CONSTANTS
    Mgmt,      \* the managements
    Entity,    \* the entities that are created as pending, each once
    NoMgmt,    \* handledBy of a document that was never handled
    Faults,    \* what may go wrong: some of "crash", "lapse", "force", "delete"
    MaxFaults  \* bound: how often something goes wrong

ASSUME NoMgmtAssumption == NoMgmt \notin Mgmt
ASSUME FaultsAssumption == /\ Faults \subseteq {"crash", "lapse", "force", "delete"}
                           /\ MaxFaults \in Nat

VARIABLES
    up,           \* is the process running?
    bootVersion,  \* its bootVersion, also in the cluster document
    cluster,      \* bootVersion in managementCluster, 0 if not there
    fresh,        \* is dateModified there recent?
    versionDoc,   \* the cluster document
    entity,       \* the pending entities, e.g. volumes in creation
    pc,           \* where the poll of each management is
    memory,       \* what it read and holds
    doomed,       \* managements that an operator's delete found dead
    faults,       \* how many faults there were so far
    lapsed        \* history: boots that were silent, or deleted, while they ran

procVars == <<up, bootVersion>>
vars == <<up, bootVersion, cluster, fresh, versionDoc, entity, pc, memory, doomed,
          faults, lapsed>>

-----------------------------------------------------------------------------
(* utils.getMgmtClusterState: who is in the cluster, which boot, up or     *)
(* down.  The hash of a state stands for the state.                        *)
Gone  == [bootVersion |-> 0, isUp |-> FALSE]
State == [m \in Mgmt |-> IF cluster[m] = 0 THEN Gone
                         ELSE [bootVersion |-> cluster[m], isUp |-> fresh[m]]]

States == [Mgmt -> [bootVersion : Nat, isUp : BOOLEAN]]

(* No run was ever made: no hash is stored.                                *)
NoState == [m \in Mgmt |-> [bootVersion |-> 0, isUp |-> TRUE]]

VersionDoc == [mgmtClusterState : States, version : Nat,
               status : {"none", "handling", "finished"},
               managementId : Mgmt \cup {NoMgmt}, bootVersion : Nat,
               force : BOOLEAN, aged : BOOLEAN]

FirstVersionDoc == [mgmtClusterState |-> NoState, version |-> 0, status |-> "none",
                    managementId |-> NoMgmt, bootVersion |-> 0,
                    force |-> FALSE, aged |-> TRUE]

EntityDoc == [status : {"none", "pending", "ready", "removed"},
              managementId : Mgmt \cup {NoMgmt}, bootVersion : Nat, aged : BOOLEAN]

NoEntity == [status |-> "none", managementId |-> NoMgmt, bootVersion |-> 0, aged |-> FALSE]

PCs == {"off", "boot", "join",  \* not running, before deleteMany, before the upsert
        "poll",                 \* the timer of the poll
        "read",                 \* managementCluster.find of tryToAcquireLock
        "acquire",              \* its findOneAndUpdate
        "load",                 \* the run: loadCollection of the pending entities
        "categorize",           \* categorizeStaleEntities
        "find",                 \* the query of deleteVolumesByQuery
        "delete",               \* forceDeleteVolume, for one entity after the other
        "remove",               \* forceDeleteVolume after its validation
        "release"}              \* releaseLock

Running(m) == pc[m] \in {"load", "categorize", "find", "delete", "remove", "release"}

(* What tryToAcquireLock uses of the document that the poll read.          *)
Handling == [version : Nat, status : {"none", "handling", "finished"},
             managementId : Mgmt \cup {NoMgmt}, bootVersion : Nat]

HandlingOf(doc) == [version |-> doc.version, status |-> doc.status,
                    managementId |-> doc.managementId, bootVersion |-> doc.bootVersion]

Memory == [doc : Handling, state : States, version : Nat, found : SUBSET Entity,
           next : SUBSET Entity]

Blank == [doc |-> HandlingOf(FirstVersionDoc), state |-> NoState, version |-> 0,
          found |-> {}, next |-> {}]

Init == /\ up = [m \in Mgmt |-> TRUE]
        /\ bootVersion = [m \in Mgmt |-> 1]
        /\ cluster = [m \in Mgmt |-> 1]
        /\ fresh = [m \in Mgmt |-> TRUE]
        /\ versionDoc = FirstVersionDoc
        /\ entity = [e \in Entity |-> NoEntity]
        /\ pc = [m \in Mgmt |-> "poll"]
        /\ memory = [m \in Mgmt |-> Blank]
        /\ doomed = {}
        /\ faults = 0
        /\ lapsed = {}

Fault(kind) == kind \in Faults /\ faults < MaxFaults /\ faults' = faults + 1

Boot(m) == <<m, bootVersion[m]>>

(* The boot that created e is over.                                        *)
Over(e) == LET m == entity[e].managementId IN
           ~up[m] \/ entity[e].bootVersion < bootVersion[m]

-----------------------------------------------------------------------------
Move(m, from, to, new) ==
    /\ pc[m] = from
    /\ pc' = [pc EXCEPT ![m] = to]
    /\ memory' = [memory EXCEPT ![m] = new]

Environment == <<up, bootVersion, cluster, fresh, doomed, faults, lapsed>>

(* getStaleOrReadyCluster: the cluster document, if it has not been        *)
(* modified for a while.                                                   *)
Poll(m) ==
    /\ versionDoc.aged
    /\ Move(m, "poll", "read", [Blank EXCEPT !.doc = HandlingOf(versionDoc)])
    /\ UNCHANGED <<Environment, versionDoc, entity>>

ReadCluster(m) ==
    /\ IF \A n \in Mgmt : cluster[n] = 0
         THEN Move(m, "read", "poll", Blank)
         ELSE Move(m, "read", "acquire", [memory[m] EXCEPT !.state = State])
    /\ UNCHANGED <<Environment, versionDoc, entity>>

(* Variant of Query: nobody takes over from a run that crashed.            *)
QueryFinished(m) ==
    /\ versionDoc.mgmtClusterState # memory[m].state \/ versionDoc.force
    /\ versionDoc.version = memory[m].doc.version
    /\ versionDoc.status \in {"none", "finished"}

(* The query of tryToAcquireLock.  If the document that was read says that *)
(* a run is going on, its handler must still be the one that was read -    *)
(* provided that it was found dead; otherwise nothing more is asked.       *)
Query(m) ==
    LET doc   == memory[m].doc
        h     == doc.managementId
        state == memory[m].state
        ThisCrashed == h = m /\ doc.bootVersion < bootVersion[m]
        HandlerDown == \/ state[h] = Gone
                       \/ ~state[h].isUp /\ state[h].bootVersion = doc.bootVersion
    IN
    /\ versionDoc.mgmtClusterState # state \/ versionDoc.force
    /\ versionDoc.version = memory[m].doc.version
    /\ doc.status # "handling" => versionDoc.status \in {"none", "finished"}
    /\ (doc.status = "handling" /\ (ThisCrashed \/ HandlerDown)) =>
          /\ versionDoc.managementId = h
          /\ versionDoc.bootVersion = doc.bootVersion

Acquire(m) ==
    \/ /\ Query(m)
       /\ versionDoc' = [mgmtClusterState |-> memory[m].state,
                         version |-> versionDoc.version + 1,
                         status |-> "handling",
                         managementId |-> m, bootVersion |-> bootVersion[m],
                         force |-> FALSE, aged |-> FALSE]
       /\ Move(m, "acquire", "load", [Blank EXCEPT !.version = versionDoc.version + 1])
       /\ UNCHANGED <<Environment, entity>>
    \/ /\ ~Query(m)
       /\ Move(m, "acquire", "poll", Blank)
       /\ UNCHANGED <<Environment, versionDoc, entity>>

(* checkAndRemovePendingVolumes: the entities that are pending now.        *)
LoadPending(m) ==
    /\ Move(m, "load", "categorize",
            [memory[m] EXCEPT !.found = {e \in Entity : entity[e].status = "pending"}])
    /\ UNCHANGED <<Environment, versionDoc, entity>>

(* categorizeStaleEntities.  Variant: the boots are not compared.          *)
CreatedByDeadMgmt(e) ==
    LET s == State[entity[e].managementId] IN
    s = Gone \/ (~s.isUp /\ s.bootVersion = entity[e].bootVersion)

CreatedUnderAnyBoot(m, e) == entity[e].managementId # m
CreatedInPrevBoot(m, e) ==
    \/ entity[e].managementId = m /\ entity[e].bootVersion < bootVersion[m]
    \/ ~CreatedByDeadMgmt(e)
       /\ State[entity[e].managementId].bootVersion > entity[e].bootVersion

(* getStaleEntitiesQuery, in the same step: what an earlier boot created,  *)
(* and what a dead management created and was not modified lately.         *)
Categorize(m) ==
    LET found == memory[m].found
        prev  == {e \in found : CreatedInPrevBoot(m, e)}
        dead  == {e \in found \ prev : CreatedByDeadMgmt(e) /\ entity[e].aged}
    IN
    /\ Move(m, "categorize", "find", [memory[m] EXCEPT !.found = prev \cup dead])
    /\ UNCHANGED <<Environment, versionDoc, entity>>

StillPending(S) == {e \in S : entity[e].status = "pending"}

(* deleteVolumesByQuery finds them in one query.                           *)
FindStale(m) ==
    /\ Move(m, "find", "delete", [memory[m] EXCEPT !.found = StillPending(@)])
    /\ UNCHANGED <<Environment, versionDoc, entity>>

(* One after the other: forceDeleteVolume repeats the query for it.  The   *)
(* lock of the zone, which it takes before, is left out here.              *)
DeleteNext(m) ==
    /\ \/ \E e \in StillPending(memory[m].found) :
             Move(m, "delete", "remove", [memory[m] EXCEPT !.found = @ \ {e}, !.next = {e}])
       \/ \E e \in memory[m].found \ StillPending(memory[m].found) :
             Move(m, "delete", "delete", [memory[m] EXCEPT !.found = @ \ {e}])
       \/ memory[m].found = {} /\ Move(m, "delete", "release", memory[m])
    /\ UNCHANGED <<Environment, versionDoc, entity>>

(* forceDeleteVolume.                                                      *)
Remove(m) ==
    /\ Move(m, "remove", "delete", [memory[m] EXCEPT !.next = {}])
    /\ entity' = [e \in Entity |-> IF e \in memory[m].next
                                   THEN [entity[e] EXCEPT !.status = "removed", !.aged = FALSE]
                                   ELSE entity[e]]
    /\ UNCHANGED <<Environment, versionDoc>>

(* releaseLock of the version that was acquired.  Variant: of any.         *)
FinishAny(m) == TRUE
OwnVersion(m) == versionDoc.version = memory[m].version

ReleaseLock(m) ==
    /\ Move(m, "release", "poll", Blank)
    /\ versionDoc' = IF OwnVersion(m)
                       THEN [versionDoc EXCEPT !.status = "finished", !.aged = FALSE]
                       ELSE versionDoc
    /\ UNCHANGED <<Environment, entity>>

-----------------------------------------------------------------------------
(* The environment: processes, heartbeats, creations, time and operators.  *)
Serving(m) == up[m] /\ pc[m] \notin {"boot", "join"}

Create(m, e) ==
    /\ Serving(m)
    /\ entity[e].status = "none"
    /\ entity' = [entity EXCEPT ![e] = [status |-> "pending", managementId |-> m,
                                       bootVersion |-> bootVersion[m], aged |-> FALSE]]
    /\ UNCHANGED <<Environment, versionDoc, pc, memory>>

(* The creation ends, under the boot that began it.                        *)
Finish(m, e) ==
    /\ Serving(m)
    /\ entity[e].status = "pending"
    /\ entity[e].managementId = m /\ entity[e].bootVersion = bootVersion[m]
    /\ entity' = [entity EXCEPT ![e].status = "ready", ![e].aged = FALSE]
    /\ UNCHANGED <<Environment, versionDoc, pc, memory>>

Crash(m) ==
    /\ up[m]
    /\ Fault("crash")
    /\ up' = [up EXCEPT ![m] = FALSE]
    /\ Move(m, pc[m], "off", Blank)
    /\ UNCHANGED <<bootVersion, cluster, fresh, versionDoc, entity, doomed, lapsed>>

(* objectNotifier.init takes the next bootVersion.                         *)
Restart(m) ==
    /\ Move(m, "off", "boot", Blank)
    /\ up' = [up EXCEPT ![m] = TRUE]
    /\ bootVersion' = [bootVersion EXCEPT ![m] = @ + 1]
    /\ UNCHANGED <<cluster, fresh, versionDoc, entity, doomed, faults, lapsed>>

(* insertThisManagementToCluster: for a moment it is not in the cluster.   *)
DeleteOwnDocument(m) ==
    /\ Move(m, "boot", "join", Blank)
    /\ cluster' = [cluster EXCEPT ![m] = 0]
    /\ UNCHANGED <<procVars, fresh, versionDoc, entity, doomed, faults, lapsed>>

(* updateOrInsertManagementToCluster; an upsert does not change the boot   *)
(* of a document that is there.  Variant: it writes the next boot.         *)
BeatNextBoot(m) ==
    /\ cluster' = [cluster EXCEPT ![m] = IF @ = 0 THEN bootVersion[m] + 1 ELSE @]
    /\ fresh' = [fresh EXCEPT ![m] = TRUE]

Beat(m) == /\ cluster' = [cluster EXCEPT ![m] = IF @ = 0 THEN bootVersion[m] ELSE @]
           /\ fresh' = [fresh EXCEPT ![m] = TRUE]

Join(m) ==
    /\ Move(m, "join", "poll", Blank)
    /\ Beat(m)
    /\ UNCHANGED <<procVars, versionDoc, entity, doomed, faults, lapsed>>

Heartbeat(m) ==
    /\ Serving(m)
    /\ cluster[m] = 0 \/ ~fresh[m]
    /\ Beat(m)
    /\ UNCHANGED <<procVars, versionDoc, entity, pc, memory, doomed, faults, lapsed>>

(* MANAGEMENT_TIMED_OUT_INTERVAL without a heartbeat.  It is longer than   *)
(* connectTimeoutMS: what a stopped process created has aged by then.      *)
HeartbeatExpires(m) ==
    /\ cluster[m] # 0 /\ fresh[m]
    /\ \/ /\ ~Serving(m)
          /\ \A e \in Entity : entity[e].managementId = m => entity[e].aged
          /\ UNCHANGED <<faults, lapsed>>
       \/ /\ Serving(m)
          /\ Fault("lapse")
          /\ lapsed' = lapsed \cup {Boot(m)}
    /\ fresh' = [fresh EXCEPT ![m] = FALSE]
    /\ UNCHANGED <<procVars, cluster, versionDoc, entity, pc, memory, doomed>>

(* deleteManagementsFromCluster: the heartbeat is checked, then the        *)
(* document deleted, whoever is back in between.                           *)
FindDead(m) ==
    /\ Fault("delete")
    /\ cluster[m] # 0 /\ ~fresh[m]
    /\ doomed' = doomed \cup {m}
    /\ UNCHANGED <<procVars, cluster, fresh, versionDoc, entity, pc, memory, lapsed>>

DeleteManagement(m) ==
    /\ m \in doomed
    /\ doomed' = doomed \ {m}
    /\ cluster' = [cluster EXCEPT ![m] = 0]
    /\ lapsed' = IF Serving(m) THEN lapsed \cup {Boot(m)} ELSE lapsed
    /\ UNCHANGED <<procVars, fresh, versionDoc, entity, pc, memory, faults>>

(* A message could not be sent to Kafka.                                   *)
ForceSanityAndRecover ==
    /\ Fault("force")
    /\ versionDoc' = [versionDoc EXCEPT !.force = TRUE]
    /\ UNCHANGED <<procVars, cluster, fresh, entity, pc, memory, doomed, lapsed>>

(* Twice the outOfSyncInterval, and connectTimeoutMS.                      *)
VersionDocAges ==
    /\ ~versionDoc.aged
    /\ versionDoc' = [versionDoc EXCEPT !.aged = TRUE]
    /\ UNCHANGED <<Environment, entity, pc, memory>>

EntityAges(e) ==
    /\ entity[e].status = "pending" /\ ~entity[e].aged
    /\ entity' = [entity EXCEPT ![e].aged = TRUE]
    /\ UNCHANGED <<Environment, versionDoc, pc, memory>>

-----------------------------------------------------------------------------
Step(m) == \/ Poll(m) \/ ReadCluster(m) \/ Acquire(m) \/ LoadPending(m)
           \/ Categorize(m) \/ FindStale(m) \/ DeleteNext(m) \/ Remove(m) \/ ReleaseLock(m)
           \/ DeleteOwnDocument(m) \/ Join(m)

Next == \/ \E m \in Mgmt : \/ Step(m) \/ Heartbeat(m) \/ HeartbeatExpires(m)
                          \/ Crash(m) \/ Restart(m) \/ FindDead(m) \/ DeleteManagement(m)
        \/ \E m \in Mgmt, e \in Entity : Create(m, e) \/ Finish(m, e)
        \/ \E e \in Entity : EntityAges(e)
        \/ VersionDocAges \/ ForceSanityAndRecover

Spec == Init /\ [][Next]_vars

(* Running managements poll, run and beat; time passes.                    *)
Fairness == /\ \A m \in Mgmt : /\ WF_vars(Step(m)) /\ WF_vars(Heartbeat(m))
                               /\ WF_vars(~up[m] /\ HeartbeatExpires(m))
            /\ WF_vars(VersionDocAges)
            /\ \A e \in Entity : WF_vars(EntityAges(e))
FairSpec == Spec /\ Fairness

-----------------------------------------------------------------------------
TypeOK == /\ up \in [Mgmt -> BOOLEAN]
          /\ bootVersion \in [Mgmt -> Nat]
          /\ cluster \in [Mgmt -> Nat]
          /\ \A m \in Mgmt : cluster[m] <= bootVersion[m]
          /\ fresh \in [Mgmt -> BOOLEAN]
          /\ versionDoc \in VersionDoc
          /\ entity \in [Entity -> EntityDoc]
          /\ pc \in [Mgmt -> PCs]
          /\ memory \in [Mgmt -> Memory]
          /\ doomed \subseteq Mgmt
          /\ faults \in 0..MaxFaults
          /\ lapsed \subseteq Mgmt \X Nat

(* The document says "finished" only when the run of its version is over,  *)
(* and names its handler while it goes on: a run that was overtaken does   *)
(* not end the run of its successor.                                       *)
HandledByRunner ==
    \A m \in Mgmt : Running(m) /\ memory[m].version = versionDoc.version
        => /\ versionDoc.status = "handling"
           /\ versionDoc.managementId = m /\ versionDoc.bootVersion = bootVersion[m]

(* "This ensures that only entities created by this management (in a       *)
(* previous boot) or by a different management that is now down are        *)
(* modified" (sanityAndRecover.js:159): an entity in creation is not       *)
(* removed while the boot that creates it goes on, nor one that is ready,  *)
(* unless that boot had been silent or deleted.                            *)
RemovesOnlyStale ==
    [][ \A e \in Entity :
          entity[e].status # "removed" /\ entity'[e].status = "removed" =>
             \/ entity[e].status = "pending" /\ Over(e)
             \/ <<entity[e].managementId, entity[e].bootVersion>> \in lapsed ]_vars

(* An entity whose creator crashed is removed in the end, crashes of those *)
(* that run the removal included, as long as some management runs and none *)
(* goes silent.  But not while the creator is absent from the cluster: if  *)
(* it crashes again between its deleteMany and its upsert, the run for     *)
(* that state spares what was created a moment ago, and no other follows.  *)
Absent(m) == ~up[m] /\ cluster[m] = 0

StaleEntityRemoved ==
    \A e \in Entity :
        entity[e].status = "pending" /\ Over(e) /\ lapsed = {}
            ~> \/ entity[e].status # "pending" \/ lapsed # {}
               \/ (\A m \in Mgmt : ~up[m]) \/ Absent(entity[e].managementId)
=============================================================================
