---------------------------- MODULE TargetUpdates ----------------------------
(***************************************************************************)
(* How TOMA gets to know the targets of a zone: setZone and deleteTarget   *)
(* of src/modules/target.js, handleTargetUpdateInZone of                   *)
(* src/modules/zone.js, and what the recovery does for them in             *)
(* src/modules/sanityAndRecover.js.                                        *)
(*                                                                         *)
(* The lock document of a zone has the set of its targets and a sequence   *)
(* number, and the last update until its message is sent.  A handler       *)
(* updates the set and the number in one compare and swap, and tells the   *)
(* update with its number to the leader of the zone.  A handler that finds *)
(* the update of another one sends its message first.  Setting a zone and  *)
(* deleting a target hold the lock of the zone while they do so; the       *)
(* recovery, and the deletion of a target that had no zone when its        *)
(* request came, do not.                                                   *)
(*                                                                         *)
(* There is one zone, zone 1, which is never deleted.  Each job runs in a  *)
(* process of its own.  A target that is deleted does not come back, and   *)
(* TOMA does not run on it.                                                *)
(***************************************************************************)
EXTENDS Integers, FiniteSets, Sequences

CONSTANTS
    Target,
    Setter,     \* calls of setZone
    Deleter,    \* calls of deleteTargets
    Recovery,   \* the run of the recovery
    NoJob,
    TargetsOf,  \* the targets that each call is for
    Events,     \* some of "crash", "send", "pending"
    MaxEvents   \* bound: how many of them happen

Job == Setter \cup Deleter \cup {Recovery}

ASSUME JobAssumption ==
    /\ NoJob \notin Job
    /\ Setter \cap Deleter = {} /\ Recovery \notin Setter \cup Deleter
ASSUME TargetsAssumption ==
    /\ TargetsOf \in [Setter \cup Deleter -> SUBSET Target]
    /\ \A j \in Deleter : \E t \in Target : TargetsOf[j] = {t}
ASSUME BoundsAssumption == MaxEvents \in Nat /\ IsFiniteSet(Target)

VARIABLES
    zone,           \* the lock document: targetsInZone, targetUpdatesSequence
                    \* and lastTargetUpdate
    server,         \* the documents of the targets
    lockedBy,       \* the job that holds the lock of the zone
    pc,             \* per job
    handler,        \* per job and target: handleTargetUpdateInZone
    seen,           \* what the recovery read
    wanted,         \* is the recovery to run?
    topic,          \* the updates that were sent to the leader of the zone
    events,
    (* history *)
    log,            \* the updates by their number, and the targets after each
    cleared,        \* the numbers of updates that the handler of another cleared
    dropped,        \* the updates with their number whose handler ended before its message
    missed          \* what went wrong

jobVars == <<lockedBy, pc>>
history == <<log, cleared, dropped, missed>>
vars == <<zone, server, jobVars, handler, seen, wanted, topic, events, history>>

-----------------------------------------------------------------------------
Add(t)    == [type |-> "add", target |-> t]
Remove(t) == [type |-> "remove", target |-> t]
Update    == [type : {"add", "remove"}, target : Target]
NoUpdate  == [type |-> "none"]

OwnUpdate(j, t) == IF j \in Deleter THEN Remove(t) ELSE Add(t)

(* A document of a target that is pending, until it is set a zone.         *)
Pending == [exists |-> TRUE, inZone |-> FALSE, isTargetUpdateSequenceInc |-> FALSE,
            addTargetMessageRequired |-> FALSE, sequence |-> 0]
Deleted == [Pending EXCEPT !.exists = FALSE]

Unread == [members |-> {}, counted |-> {}]

(* A handler that is not at work has done nothing or failed.               *)
Resting(j, t, result) ==
    [step |-> result, own |-> OwnUpdate(j, t), update |-> OwnUpdate(j, t),
     members |-> {}, sequence |-> 0, updated |-> FALSE]

Init == /\ zone = [members |-> {}, sequence |-> 0, last |-> NoUpdate]
        /\ server = [t \in Target |-> Pending]
        /\ lockedBy = NoJob
        /\ pc = [j \in Job |-> "idle"]
        /\ handler = [j \in Job |-> [t \in Target |-> Resting(j, t, "none")]]
        /\ seen = Unread
        /\ wanted = FALSE
        /\ topic = {}
        /\ events = 0
        /\ log = <<>>
        /\ cleared = {}
        /\ dropped = {}
        /\ missed = {}

Event(kind) == kind \in Events /\ events < MaxEvents /\ events' = events + 1

Goto(j, from, to) == pc[j] = from /\ pc' = [pc EXCEPT ![j] = to]

-----------------------------------------------------------------------------
(* handleTargetUpdateInZone, step by step.                                 *)
At(j, t, step) == handler[j][t].step = step

Set(j, t, h) == handler' = [handler EXCEPT ![j][t] = h]

Anew(h) == [h EXCEPT !.step = "find", !.update = h.own, !.members = {}, !.sequence = 0,
                     !.updated = FALSE]

FindZoneLock(j, t) ==
    /\ At(j, t, "find")
    /\ LET unfinished == zone.last # NoUpdate
           update == IF unfinished THEN zone.last ELSE handler[j][t].own
           shouldUpdateZone == update.type = "add" <=> update.target \notin zone.members
       IN  Set(j, t, [handler[j][t] EXCEPT
                        !.step = IF shouldUpdateZone THEN "updateZone" ELSE "count",
                        !.update = update, !.members = zone.members,
                        !.sequence = zone.sequence, !.updated = unfinished])
    /\ UNCHANGED <<zone, server, jobVars, seen, wanted, topic, events, history>>

(* What the update asks of the zone.  Variant: nothing.                    *)
AnyState(h)  == TRUE
SameState(h) == zone.sequence = h.sequence

WithUpdate(members, update) ==
    IF update.type = "add" THEN members \cup {update.target}
                           ELSE members \ {update.target}

UpdateZoneLock(j, t) ==
    /\ At(j, t, "updateZone")
    /\ LET h == handler[j][t]
           members == WithUpdate(zone.members, h.update)
       IN  IF SameState(h)
           THEN /\ zone' = [members |-> members, sequence |-> zone.sequence + 1,
                            last |-> h.update]
                /\ log' = Append(log, [update |-> h.update, members |-> members])
                /\ Set(j, t, [h EXCEPT !.step = "count", !.members = members,
                                       !.sequence = zone.sequence + 1, !.updated = TRUE])
           ELSE /\ Set(j, t, Anew([h EXCEPT !.own = h.update]))
                /\ UNCHANGED <<zone, log>>
    /\ UNCHANGED <<server, jobVars, seen, wanted, topic, events, cleared, dropped, missed>>

(* Without a document the message cannot be made: the process ends.        *)
SetIsTargetUpdateSequenceInc(j, t) ==
    /\ At(j, t, "count")
    /\ LET target == handler[j][t].update.target
       IN  /\ server[target].exists
           /\ server' = [server EXCEPT ![target].isTargetUpdateSequenceInc = TRUE]
    /\ Set(j, t, [handler[j][t] EXCEPT !.step = "send"])
    /\ UNCHANGED <<zone, jobVars, seen, wanted, topic, events, history>>

(* The message tells how many targets the zone had before the update.      *)
(* Variant: the one added for a removal.                                   *)
BeforeSwapped(h) ==
    IF ~h.updated THEN Cardinality(h.members)
    ELSE IF h.update.type = "add" THEN Cardinality(h.members) + 1
    ELSE Cardinality(h.members) - 1
Before(h) ==
    IF ~h.updated THEN Cardinality(h.members)
    ELSE IF h.update.type = "add" THEN Cardinality(h.members) - 1
    ELSE Cardinality(h.members) + 1

Message(h) == [update |-> h.update, targetsInZone |-> Before(h), sequence |-> h.sequence]

SendMessages(j, t) ==
    /\ At(j, t, "send")
    /\ topic' = topic \cup {Message(handler[j][t])}
    /\ Set(j, t, [handler[j][t] EXCEPT !.step = "clear", !.members = {}, !.updated = FALSE])
    /\ UNCHANGED <<zone, server, jobVars, seen, wanted, events, history>>

(* The updates of the zone that the handlers of a job are about to tell.   *)
Telling(j, t) == handler[j][t].step \in {"count", "send"}
Untold(j, targets) == {<<handler[j][t].sequence, handler[j][t].update>> :
                          t \in {u \in targets : Telling(j, u)}}

(* An error of the producer does not say whether Kafka has the message.    *)
SendFails(j, t) ==
    /\ At(j, t, "send")
    /\ Event("send")
    /\ topic' \in {topic, topic \cup {Message(handler[j][t])}}
    /\ Set(j, t, Resting(j, t, "failed"))
    /\ wanted' = TRUE
    /\ dropped' = dropped \cup Untold(j, {t})
    /\ UNCHANGED <<zone, server, jobVars, seen, log, cleared, missed>>

(* retryFlowForOriginalTargetIfNeeded compares the targets only.           *)
IsOriginal(h) == h.own.target = h.update.target

AfterUpdate(j, t) ==
    LET h == handler[j][t]
    IN  IF IsOriginal(h) THEN Resting(j, t, "done") ELSE Anew(h)

ClearLastTargetUpdateInLock(j, t) ==
    /\ At(j, t, "clear")
    /\ zone' = [zone EXCEPT !.last = NoUpdate]
    /\ cleared' = IF zone.last # NoUpdate /\ zone.sequence # handler[j][t].sequence
                  THEN cleared \cup {zone.sequence} ELSE cleared
    /\ Set(j, t, IF handler[j][t].update.type = "add"
                 THEN [handler[j][t] EXCEPT !.step = "finish"]
                 ELSE AfterUpdate(j, t))
    /\ UNCHANGED <<server, jobVars, seen, wanted, topic, events, log, dropped, missed>>

(* Variant: the target that the handler was called for is told.            *)
Called(h)  == h.own.target
Handled(h) == h.update.target

ClearAddMessageRequired(j, t) ==
    /\ At(j, t, "finish")
    /\ LET h == handler[j][t]
       IN  server' = [server EXCEPT ![Handled(h)] =
                         IF @.exists THEN [@ EXCEPT !.addTargetMessageRequired = FALSE,
                                                    !.sequence = h.sequence]
                                     ELSE @]
    /\ Set(j, t, AfterUpdate(j, t))
    /\ UNCHANGED <<zone, jobVars, seen, wanted, topic, events, history>>

(* newTargetsInZone and removeTargetsFromZone go on, whatever the outcome, *)
(* when a handler failed or all are done; the others go on by themselves.  *)
HandlersEnded(j) ==
    \/ \E t \in Target : At(j, t, "failed")
    \/ \A t \in Target : handler[j][t].step \in {"none", "done"}

AllRest(j) == [t \in Target |-> Resting(j, t, "none")]

StartHandlers(j, targets) ==
    handler' = [handler EXCEPT ![j] =
                  [t \in Target |-> Resting(j, t, IF t \in targets THEN "find" ELSE "none")]]

-----------------------------------------------------------------------------
(* setZone                                                                 *)
AcquireLock(j) ==
    /\ lockedBy = NoJob
    /\ lockedBy' = j
    /\ \/ j \in Setter /\ Goto(j, "idle", "filter")
       \/ j \in Deleter /\ Goto(j, "lock", "mark")
    /\ UNCHANGED <<zone, server, handler, seen, wanted, topic, events, history>>

ReleaseLock(j) ==
    /\ Goto(j, "release", "end")
    /\ lockedBy' = IF lockedBy = j THEN NoJob ELSE lockedBy
    /\ UNCHANGED <<zone, server, handler, seen, wanted, topic, events, history>>

FilterDoomedRequests(j) ==
    /\ j \in Setter
    /\ LET fit == {t \in TargetsOf[j] : server[t].exists /\ ~server[t].inZone}
       IN  /\ Goto(j, "filter", IF fit = {} THEN "release" ELSE "assign")
           /\ handler' = [handler EXCEPT ![j] =
                [t \in Target |-> Resting(j, t, IF t \in fit THEN "assign" ELSE "none")]]
    /\ UNCHANGED <<zone, server, lockedBy, seen, wanted, topic, events, history>>

(* An update that matches no document is as good as any.                   *)
AssignZone(j, t) ==
    /\ At(j, t, "assign")
    /\ server' = [server EXCEPT ![t] =
                    IF @.exists /\ ~@.inZone
                    THEN [@ EXCEPT !.inZone = TRUE, !.addTargetMessageRequired = TRUE,
                                   !.isTargetUpdateSequenceInc = FALSE]
                    ELSE @]
    /\ Set(j, t, Resting(j, t, "assigned"))
    /\ UNCHANGED <<zone, jobVars, seen, wanted, topic, events, history>>

NewTargetsInZone(j) ==
    /\ Goto(j, "assign", "update")
    /\ \A t \in Target : ~At(j, t, "assign")
    /\ StartHandlers(j, {t \in Target : At(j, t, "assigned")})
    /\ UNCHANGED <<zone, server, lockedBy, seen, wanted, topic, events, history>>

SetZoneEnds(j) ==
    /\ j \in Setter
    /\ HandlersEnded(j)
    /\ Goto(j, "update", "release")
    /\ UNCHANGED <<zone, server, lockedBy, handler, seen, wanted, topic, events, history>>

-----------------------------------------------------------------------------
(* deleteTargets and deleteTarget.  A target without a zone is deleted     *)
(* without a lock; whether it has one by then is read anew.                *)
TargetOf(j) == CHOOSE t \in Target : t \in TargetsOf[j]

GetTargetZone(j) ==
    /\ j \in Deleter
    /\ \/ /\ server[TargetOf(j)].inZone
          /\ Goto(j, "idle", "lock")
          /\ UNCHANGED events
       \/ /\ ~server[TargetOf(j)].inZone
          /\ Event("pending")
          /\ Goto(j, "idle", "mark")
    /\ UNCHANGED <<zone, server, lockedBy, handler, seen, wanted, topic, history>>

MarkForDeletion(j) ==
    /\ j \in Deleter
    /\ LET target == server[TargetOf(j)]
       IN  /\ Goto(j, "mark", IF target.inZone THEN "update" ELSE "delete")
           /\ StartHandlers(j, IF target.inZone THEN {TargetOf(j)} ELSE {})
    /\ UNCHANGED <<zone, server, lockedBy, seen, wanted, topic, events, history>>

DeleteTarget(j) ==
    /\ j \in Deleter
    /\ \/ Goto(j, "update", "release") /\ HandlersEnded(j)
       \/ Goto(j, "delete", "release")
    /\ server' = [server EXCEPT ![TargetOf(j)] = Deleted]
    /\ UNCHANGED <<zone, lockedBy, handler, seen, wanted, topic, events, history>>

-----------------------------------------------------------------------------
(* checkForZonesCounters: the targets of the zone become those whose       *)
(* documents count, if nothing changed since they were read and no update  *)
(* is left.                                                                *)
StartRecovery ==
    /\ wanted
    /\ wanted' = FALSE
    /\ \A t \in Target : handler[Recovery][t].step \in {"none", "done", "failed"}
    /\ Goto(Recovery, "idle", "read")
    /\ handler' = [handler EXCEPT ![Recovery] = AllRest(Recovery)]
    /\ UNCHANGED <<zone, server, lockedBy, seen, topic, events, history>>

ReadZone ==
    /\ Goto(Recovery, "read", "count")
    /\ seen' = [Unread EXCEPT !.members = zone.members]
    /\ UNCHANGED <<zone, server, lockedBy, handler, wanted, topic, events, history>>

CountTargets ==
    /\ Goto(Recovery, "count", "repair")
    /\ seen' = [seen EXCEPT !.counted = {t \in Target : /\ server[t].exists
                                                        /\ server[t].inZone
                                                        /\ server[t].isTargetUpdateSequenceInc}]
    /\ UNCHANGED <<zone, server, lockedBy, handler, wanted, topic, events, history>>

RepairZone ==
    /\ \/ /\ seen.counted = {}
          /\ Goto(Recovery, "repair", "required")
          /\ UNCHANGED <<zone, missed>>
       \/ /\ seen.counted # {} /\ zone.members = seen.members /\ zone.last = NoUpdate
          /\ Goto(Recovery, "repair", "required")
          /\ zone' = [zone EXCEPT !.members = seen.counted]
          /\ missed' = IF seen.counted # zone.members THEN missed \cup {"repair"} ELSE missed
       \/ /\ seen.counted # {} /\ ~(zone.members = seen.members /\ zone.last = NoUpdate)
          /\ Goto(Recovery, "repair", "read")
          /\ UNCHANGED <<zone, missed>>
    /\ seen' = Unread
    /\ UNCHANGED <<server, lockedBy, handler, wanted, topic, events, log, cleared, dropped>>

(* checkForTargetAddition.  Variant: those the recovery counted.           *)
RequiredCounted == {t \in Target : /\ server[t].exists /\ server[t].addTargetMessageRequired
                                   /\ server[t].isTargetUpdateSequenceInc}
Required == {t \in Target : server[t].exists /\ server[t].addTargetMessageRequired}

CheckForTargetAddition ==
    /\ Goto(Recovery, "required", "update")
    /\ StartHandlers(Recovery, Required)
    /\ UNCHANGED <<zone, server, lockedBy, seen, wanted, topic, events, history>>

RecoveryEnds ==
    /\ HandlersEnded(Recovery)
    /\ Goto(Recovery, "update", "idle")
    /\ UNCHANGED <<zone, server, lockedBy, handler, seen, wanted, topic, events, history>>

-----------------------------------------------------------------------------
(* A process ends.  Its lock gets free when its heartbeat is too old, and  *)
(* the change of the cluster starts the recovery, in another one.          *)
Ends(j) ==
    /\ pc' = [pc EXCEPT ![j] = IF j = Recovery THEN "idle" ELSE "dead"]
    /\ handler' = [handler EXCEPT ![j] = AllRest(j)]
    /\ lockedBy' = IF lockedBy = j THEN NoJob ELSE lockedBy
    /\ seen' = IF j = Recovery THEN Unread ELSE seen
    /\ wanted' = TRUE
    /\ dropped' = dropped \cup Untold(j, Target)
    /\ UNCHANGED <<zone, server, topic, log, cleared>>

Crash(j) ==
    /\ pc[j] \notin {"idle", "dead"}
    /\ Event("crash")
    /\ Ends(j)
    /\ UNCHANGED missed

HandlerThrows(j, t) ==
    /\ At(j, t, "count")
    /\ ~server[handler[j][t].update.target].exists
    /\ Ends(j)
    /\ missed' = missed \cup {"thrown"}
    /\ UNCHANGED events

-----------------------------------------------------------------------------
Handler(j, t) ==
    \/ FindZoneLock(j, t) \/ UpdateZoneLock(j, t) \/ SetIsTargetUpdateSequenceInc(j, t)
    \/ SendMessages(j, t) \/ ClearLastTargetUpdateInLock(j, t)
    \/ ClearAddMessageRequired(j, t) \/ HandlerThrows(j, t)

JobStep(j) ==
    \/ FilterDoomedRequests(j) \/ (\E t \in Target : AssignZone(j, t)) \/ NewTargetsInZone(j)
    \/ SetZoneEnds(j) \/ MarkForDeletion(j) \/ DeleteTarget(j) \/ ReleaseLock(j)

RecoveryStep == \/ StartRecovery \/ ReadZone \/ CountTargets \/ RepairZone
                \/ CheckForTargetAddition \/ RecoveryEnds

Next == \/ \E j \in Job : \/ \E t \in Target : Handler(j, t) \/ SendFails(j, t)
                          \/ Crash(j)
        \/ \E j \in Setter \cup Deleter : AcquireLock(j) \/ GetTargetZone(j) \/ JobStep(j)
        \/ RecoveryStep

Spec == Init /\ [][Next]_vars

(* The database and Kafka answer, and the recovery runs when the cluster   *)
(* changed or a message could not be sent.  Nobody has to ask for a zone.  *)
Work == \E j \in Job : \/ \E t \in Target : Handler(j, t)
                       \/ JobStep(j)
                       \/ pc[j] = "lock" /\ AcquireLock(j)

Fairness == WF_vars(Work) /\ WF_vars(RecoveryStep)
FairSpec == Spec /\ Fairness

-----------------------------------------------------------------------------
Steps == {"none", "assign", "assigned", "find", "updateZone", "count", "send", "clear",
          "finish", "done", "failed"}

TypeOK ==
    /\ zone \in [members : SUBSET Target, sequence : Nat, last : Update \cup {NoUpdate}]
    /\ server \in [Target -> [exists : BOOLEAN, inZone : BOOLEAN,
                              isTargetUpdateSequenceInc : BOOLEAN,
                              addTargetMessageRequired : BOOLEAN, sequence : Nat]]
    /\ lockedBy \in Job \cup {NoJob}
    /\ pc \in [Job -> {"idle", "lock", "filter", "assign", "mark", "update", "delete",
                       "release", "read", "count", "repair", "required", "end", "dead"}]
    /\ handler \in [Job -> [Target -> [step : Steps, own : Update, update : Update,
                                       members : SUBSET Target, sequence : Nat,
                                       updated : BOOLEAN]]]
    /\ seen \in [members : SUBSET Target, counted : SUBSET Target]
    /\ wanted \in BOOLEAN
    /\ topic \subseteq [update : Update, targetsInZone : Nat, sequence : Nat]
    /\ events \in 0..MaxEvents
    /\ log \in Seq([update : Update, members : SUBSET Target])
    /\ cleared \subseteq Nat /\ dropped \subseteq Nat \X Update
    /\ missed \subseteq {"repair", "thrown"}

(* The targets of the zone after the update with the number n.             *)
MembersAt(n) == IF n = 0 THEN {} ELSE log[n].members

(* Whatever handlers overtake each other, repeat the update of another one *)
(* or come late: a message tells of the zone what was so at its number,    *)
(* whether it has the target and how many there were, without it ("each    *)
(* target get an updated msg with a different targetUpdatesSequence and    *)
(* targetsInZone", test/testTargets.js:655).  Unless the recovery          *)
(* overwrote the targets.                                                  *)
IsTrue(m) ==
    /\ m.sequence \in 0..Len(log)
    /\ (m.update.type = "add" <=> m.update.target \in MembersAt(m.sequence))
    /\ IF m.sequence > 0 /\ log[m.sequence].update = m.update
       THEN m.targetsInZone \in {Cardinality(MembersAt(m.sequence - 1)),
                                 Cardinality(MembersAt(m.sequence))}
       ELSE m.targetsInZone = Cardinality(MembersAt(m.sequence))

MessagesAreTrue == "repair" \in missed \/ \A m \in topic : IsTrue(m)

(* No update is lost: it was told, or is the one that is left for the next *)
(* handler.  Only the handler of another update may clear it before that.  *)
(* Then its own handler is still about to tell it, or ended before it did, *)
(* by a crash or a failed send.  A target that was to be added is then     *)
(* added again, unless it is gone or was removed before, by a deletion     *)
(* that overtook the handler.  Nothing in the code makes up for a removal  *)
(* that is cleared and whose handler ends: that one is not told.           *)
Told(update, n) == \E m \in topic : m.update = update /\ m.sequence >= n

BeingTold(n) == \E j \in Job, t \in Target :
                   /\ Telling(j, t) /\ handler[j][t].sequence = n
                   /\ handler[j][t].update = log[n].update

RemovedBefore(n, t) == \E k \in 1..(n - 1) : log[k].update = Remove(t)

AddedAgain(n) == LET t == log[n].update.target
                 IN  \/ t \in Required \/ ~server[t].exists \/ RemovedBefore(n, t)
                     \/ "repair" \in missed

NoUpdateIsLost ==
    \A n \in 1..Len(log) :
       LET update == log[n].update
       IN  \/ Told(update, n)
           \/ n = zone.sequence /\ zone.last = update
           \/ /\ n \in cleared
              /\ BeingTold(n) \/ <<n, update>> \in dropped
              /\ update.type = "add" => AddedAgain(n)

(* Every target that has been set a zone gets told, unless it is deleted   *)
(* or handlers throw, or an update is left in the zone for ever: the       *)
(* recovery then waits for somebody to clear it.                           *)
AllTold == \A t \in Target : server[t].inZone => Told(Add(t), 0) \/ "thrown" \in missed

EveryTargetIsTold == <>[](zone.last # NoUpdate) \/ []<>AllTold
=============================================================================
