---------------------------- MODULE VolumeStatus ----------------------------
(***************************************************************************)
(* How the statuses that TOMA reports for the segments of a volume get     *)
(* into the database, and how the status and the action of the volume are  *)
(* calculated from them: handlePRaidStatusMessage and                      *)
(* calculateAndUpdateVolumeStatus of src/modules/volume.js.                *)
(*                                                                         *)
(* A report is stored without a lock, as the pending statuses of segments. *)
(* A calculation reads the volume, makes the pending statuses the statuses *)
(* and writes the result if nothing changed meanwhile; if something did it *)
(* starts anew.  A process runs one calculation of a volume at a time.     *)
(* The commands of src/modules/volumeEncryption.js change the action in    *)
(* the same way, but pass on the volume they wrote.                        *)
(*                                                                         *)
(* There is one volume.  A report is of one pRaid, without deprecated      *)
(* segments.                                                               *)
(***************************************************************************)
EXTENDS Integers, FiniteSets

CONSTANTS
    Mgmt,
    PRaid,
    Segment,
    PRaidOf,            \* the pRaid of each segment
    MaxTolerableFaults, \* how many segments of a pRaid may fail
    Report,             \* the reports that TOMA sends
    Content,            \* what each one says, and its place in the order sent
    Events,             \* some of "crash", "error", "redelivery", "command"
    MaxEvents           \* bound: how many of them happen

SegmentStatus == {"normal", "dead", "under_recovery", "booting"}
State == [status : SegmentStatus, isDead : BOOLEAN]

ASSUME PRaidAssumption == PRaidOf \in [Segment -> PRaid]
ASSUME BoundsAssumption == MaxEvents \in Nat
ASSUME ReportAssumption ==
    \A r \in Report :
       /\ Content[r].n \in Nat \ {0}
       /\ Content[r].pRaid \in PRaid
       /\ {Content[r].token, Content[r].major, Content[r].minor, Content[r].term} \subseteq Nat
       /\ DOMAIN Content[r].segments \subseteq {s \in Segment : PRaidOf[s] = Content[r].pRaid}
       /\ \A s \in DOMAIN Content[r].segments : Content[r].segments[s] \in State
ASSUME DistinctAssumption ==
    \A r1, r2 \in Report :
       Content[r1].pRaid = Content[r2].pRaid /\ Content[r1].n = Content[r2].n => r1 = r2
ASSUME JobAssumption == Report \cap {"command", "response"} = {}

VARIABLES
    volume,     \* the volume in the database
    rank,       \* version, term and token of each pRaid in the database
    phase,      \* per management: where its calculation waits
    snapshot,   \* per management: the volume its calculation read
    callbacks,  \* per management: what its calculation is for
    next,       \* pendingCalculation: what the next one is for
    timers,     \* per management: calculations that are about to start again
    toDeliver,  \* the reports that Kafka will deliver
    events,
    (* history *)
    done,       \* the reports and the like whose handler ended
    latest,     \* the last report that was stored of each pRaid
    overwritten,    \* segments whose vitality a calculation took from an older report
    behind,     \* per management: did another calculation write since its read?
    lost,       \* reports whose calculation a crash ended, until they come again
    missed      \* how an update of the status was missed

calcVars  == <<phase, snapshot, callbacks, next, timers, behind>>
dbVars    == <<volume, rank, latest, overwritten>>
history  == <<done, lost, missed>>
vars == <<dbVars, calcVars, toDeliver, events, history>>

-----------------------------------------------------------------------------
NoPending == [status |-> "none", isDead |-> FALSE]

SegmentDoc == [now : State, pending : State \cup {NoPending}]
Volume == [segments : [Segment -> SegmentDoc],
           status   : {"online", "degraded", "offline"},
           action   : {"none", "booting", "rotating", "rebuilding"},
           command  : {"executed", "pending", "sent"}]

Normal == [status |-> "normal", isDead |-> FALSE]

FirstVolume == [segments |-> [s \in Segment |-> [now |-> Normal, pending |-> NoPending]],
                status |-> "online", action |-> "none", command |-> "executed"]

(* A pRaid without a token has none of the versions yet.                   *)
FirstRank == [token |-> 0, major |-> 0, minor |-> 0, term |-> 0]

Job == Report \cup {"command", "response"}

Init == /\ volume = FirstVolume
        /\ rank = [p \in PRaid |-> FirstRank]
        /\ phase = [m \in Mgmt |-> "idle"]
        /\ snapshot = [m \in Mgmt |-> FirstVolume]
        /\ callbacks = [m \in Mgmt |-> {}]
        /\ next = [m \in Mgmt |-> {}]
        /\ timers = [m \in Mgmt |-> {}]
        /\ behind = [m \in Mgmt |-> FALSE]
        /\ toDeliver = Report
        /\ events = 0
        /\ done = {}
        /\ latest = [p \in PRaid |-> 0]
        /\ overwritten = {}
        /\ lost = {}
        /\ missed = {}

Event(kind) == kind \in Events /\ events < MaxEvents /\ events' = events + 1

(* What a process works at.                                                *)
InWork(m) == callbacks[m] \cup next[m] \cup UNION timers[m]

-----------------------------------------------------------------------------
(* getPRaidUpdateQuery: is the report newer than what is stored?  One that *)
(* is as new counts if its only segment differs from what is stored in the *)
(* pRaid, or if it has several.  Variant: the major version is forgotten.  *)
SegmentsIn(p) == {s \in Segment : PRaidOf[s] = p}

Single(r) == Cardinality(DOMAIN Content[r].segments) = 1

StatusChanges(r) ==
    Single(r) => \E s \in SegmentsIn(Content[r].pRaid), t \in DOMAIN Content[r].segments :
                    LET reported == Content[r].segments[t].status
                        stored   == volume.segments[s].now
                    IN  stored.status # reported \/ (reported = "normal" /\ stored.isDead)

NewerMinor(r, k)   == k.minor < Content[r].minor
NewerVersion(r, k) == \/ k.major < Content[r].major
                      \/ k.major = Content[r].major /\ k.minor < Content[r].minor

Newer(r, k) == NewerVersion(r, k) \/ k.term < Content[r].term

SameVersion(r, k) == k.major = Content[r].major /\ k.minor = Content[r].minor

Accepts(r) ==
    LET k == rank[Content[r].pRaid]
        current == Newer(r, k) \/ (SameVersion(r, k) /\ StatusChanges(r))
    IN  IF Content[r].token > 0
        THEN k.token < Content[r].token \/ (k.token = Content[r].token /\ current)
        ELSE current

(* calculateAndUpdateVolumeStatus.  While a calculation is in progress the *)
(* request waits for the next one.                                         *)
Calculate(m, jobs) ==
    IF phase[m] # "idle"
    THEN /\ next' = [next EXCEPT ![m] = @ \cup jobs]
         /\ UNCHANGED <<phase, snapshot, callbacks, behind>>
    ELSE /\ callbacks' = [callbacks EXCEPT ![m] = jobs]
         /\ phase' = [phase EXCEPT ![m] = "fetch"]
         /\ UNCHANGED <<next, snapshot, behind>>

(* What an accepted report sets.                                           *)
Store(r) ==
    /\ volume' = [volume EXCEPT !.segments =
                     [s \in Segment |-> IF s \in DOMAIN Content[r].segments
                                        THEN [@[s] EXCEPT !.pending = Content[r].segments[s]]
                                        ELSE @[s]]]
    /\ rank' = [rank EXCEPT ![Content[r].pRaid] =
                   [token |-> IF Content[r].token > 0 THEN Content[r].token ELSE @.token,
                    major |-> Content[r].major, minor |-> Content[r].minor,
                    term  |-> Content[r].term]]
    /\ latest' = [latest EXCEPT ![Content[r].pRaid] = Content[r].n]
    /\ overwritten' = overwritten \ DOMAIN Content[r].segments

(* updatePRaidWithoutDeprecations.  Kafka delivers a report until its      *)
(* handler has ended, to any management and in any order.                  *)
Receive(m, r) == /\ r \in toDeliver \ InWork(m)
                 /\ toDeliver' = toDeliver \ {r}
                 /\ lost' = lost \ {r}

IsLatest(r) == latest[Content[r].pRaid] = Content[r].n

UpdatePRaid(m, r) ==
    /\ Receive(m, r)
    /\ \/ /\ Accepts(r)
          /\ Store(r)
          /\ Calculate(m, {r})
          /\ UNCHANGED <<done, missed>>
       \/ /\ ~Accepts(r)
          /\ done' = done \cup {r}
          /\ missed' = IF r \in lost /\ IsLatest(r) /\ ~StatusChanges(r)
                       THEN missed \cup {"report"} ELSE missed
          /\ UNCHANGED <<dbVars, phase, snapshot, callbacks, next, behind>>
    /\ UNCHANGED <<timers, events>>

(* An error of the database is logged and the report counts as skipped.    *)
UpdatePRaidFails(m, r) ==
    /\ Receive(m, r)
    /\ Event("error")
    /\ done' = done \cup {r}
    /\ missed' = missed \cup {"error"}
    /\ UNCHANGED <<dbVars, calcVars>>

(* The partition moves before the offset of the report is committed.       *)
Redeliver(r) ==
    /\ r \notin toDeliver
    /\ Event("redelivery")
    /\ toDeliver' = toDeliver \cup {r}
    /\ UNCHANGED <<dbVars, calcVars, history>>

-----------------------------------------------------------------------------
(* calculateVolumeStatus                                                   *)
Effective(doc) == IF doc.pending # NoPending THEN doc.pending ELSE doc.now

States(v, p) == {<<s, Effective(v.segments[s])>> : s \in SegmentsIn(p)}

NonFunctional(state) == state.isDead \/ state.status # "normal"

PRaidStatus(v, p) ==
    LET failed == Cardinality({x \in States(v, p) : NonFunctional(x[2])})
    IN  CASE failed = 0                      -> "online"
          [] failed \in 1..MaxTolerableFaults -> "degraded"
          [] OTHER                           -> "offline"

PRaidAction(v, p) ==
    LET statuses == {x[2].status : x \in States(v, p)}
        hasDead  == \E x \in States(v, p) :
                       (x[2].isDead /\ x[2].status # "booting") \/ x[2].status = "dead"
    IN  IF "booting" \in statuses /\ ~hasDead THEN "booting"
        ELSE IF "under_recovery" \in statuses THEN "rebuilding"
        ELSE "none"

VolumeStatusOf(v) ==
    LET statuses == {PRaidStatus(v, p) : p \in PRaid}
    IN  IF "offline" \in statuses THEN "offline"
        ELSE IF "degraded" \in statuses THEN "degraded"
        ELSE "online"

(* Variant: no action at all is left undefined.                            *)
Undefined == "undefined"
NoAction  == "none"

VolumeActionOf(v) ==
    LET actions == {PRaidAction(v, p) : p \in PRaid}
    IN  IF "booting" \in actions THEN "booting"
        ELSE IF v.command # "executed" THEN "rotating"
        ELSE IF "rebuilding" \in actions THEN "rebuilding"
        ELSE NoAction

-----------------------------------------------------------------------------
CalculateAgain(m, jobs) ==
    /\ jobs \in timers[m]
    /\ timers' = [timers EXCEPT ![m] = @ \ {jobs}]
    /\ Calculate(m, jobs)
    /\ UNCHANGED <<dbVars, toDeliver, events, history>>

FetchVolume(m) ==
    /\ phase[m] = "fetch"
    /\ phase' = [phase EXCEPT ![m] = "update"]
    /\ snapshot' = [snapshot EXCEPT ![m] = volume]
    /\ behind' = [behind EXCEPT ![m] = FALSE]
    /\ UNCHANGED <<dbVars, callbacks, next, timers, toDeliver, events, history>>

(* What the update asks of a segment that had a pending status.  Variant:  *)
(* nothing.                                                                *)
AnyPending(doc, read)  == TRUE
SamePending(doc, read) == /\ doc.pending # NoPending
                          /\ doc.pending.status = read.pending.status
                          /\ doc.now.status = read.now.status

WithPending(v) == {s \in Segment : v.segments[s].pending # NoPending}

Matches(read) ==
    /\ volume.action = read.action
    /\ \A s \in WithPending(read) : SamePending(volume.segments[s], read.segments[s])

Applying(read) ==
    [volume EXCEPT
       !.status = VolumeStatusOf(read),
       !.action = VolumeActionOf(read),
       !.segments = [s \in Segment |->
                       IF s \in WithPending(read)
                       THEN [now |-> read.segments[s].pending, pending |-> NoPending]
                       ELSE @[s]]]

(* The update compares statuses, and says nothing of vitality.             *)
VitalityDiffers(doc, read) == /\ doc.pending.status = read.pending.status
                              /\ doc.pending.isDead # read.pending.isDead

Overwriting(read) ==
    {s \in WithPending(read) : VitalityDiffers(volume.segments[s], read.segments[s])}

(* endOfWaterfall: a calculation that is to be retried is for the same     *)
(* requests and those that came meanwhile.  Variants: only the latter; and *)
(* those that came meanwhile are answered with it.                         *)
NotItsOwn(m)  == {}
ItsOwn(m)     == callbacks[m]

Dropped(m)  == {}
Meanwhile(m) == next[m]

EndOfCalculation(m, retry) ==
    LET again == (IF retry THEN ItsOwn(m) ELSE {}) \cup Meanwhile(m)
    IN  /\ timers' = [timers EXCEPT ![m] = IF retry \/ again # {} THEN @ \cup {again} ELSE @]
        /\ done' = IF retry THEN done ELSE done \cup callbacks[m]
        /\ phase' = [phase EXCEPT ![m] = "idle"]
        /\ snapshot' = [snapshot EXCEPT ![m] = FirstVolume]
        /\ callbacks' = [callbacks EXCEPT ![m] = {}]
        /\ next' = [next EXCEPT ![m] = {}]

UpdateVolume(m) ==
    /\ phase[m] = "update"
    /\ IF Matches(snapshot[m])
       THEN /\ volume' = Applying(snapshot[m])
            /\ overwritten' = overwritten \cup Overwriting(snapshot[m])
            /\ EndOfCalculation(m, FALSE)
            /\ behind' = [o \in Mgmt |-> o # m /\ (behind[o] \/ phase[o] = "update")]
            /\ missed' = IF behind[m] THEN missed \cup {"stale"} ELSE missed
       ELSE /\ EndOfCalculation(m, TRUE)
            /\ behind' = [behind EXCEPT ![m] = FALSE]
            /\ UNCHANGED <<volume, overwritten, missed>>
    /\ UNCHANGED <<rank, latest, toDeliver, events, lost>>

(* An error of the database ends the calculation without a retry.          *)
CalculationFails(m) ==
    /\ phase[m] # "idle"
    /\ Event("error")
    /\ EndOfCalculation(m, FALSE)
    /\ behind' = [behind EXCEPT ![m] = FALSE]
    /\ missed' = missed \cup {"error"}
    /\ UNCHANGED <<dbVars, toDeliver, lost>>

-----------------------------------------------------------------------------
(* setEncryptionCommand, and the response of TOMA to it.  The calculation  *)
(* gets the volume that was written, unless one is in progress: then that  *)
(* volume is not used.                                                     *)
EncryptionChanges(m, job, from, to) ==
    /\ volume.command = from
    /\ volume' = [volume EXCEPT !.command = to]
    /\ IF phase[m] # "idle"
         THEN Calculate(m, {job})
         ELSE /\ callbacks' = [callbacks EXCEPT ![m] = {job}]
              /\ phase' = [phase EXCEPT ![m] = "update"]
              /\ snapshot' = [snapshot EXCEPT ![m] = volume']
              /\ UNCHANGED <<next, behind>>
    /\ UNCHANGED <<rank, latest, overwritten, timers, toDeliver, history>>

SetEncryptionCommand(m) ==
    /\ Event("command")
    /\ EncryptionChanges(m, "command", "executed", "pending")

(* TOMA gets the command after its calculation.                            *)
SendEncryptionCommand ==
    /\ "command" \in done
    /\ volume' = [volume EXCEPT !.command = "sent"]
    /\ done' = done \ {"command"}
    /\ UNCHANGED <<rank, latest, overwritten, calcVars, toDeliver, events, lost,
                   missed>>

EncryptionResponse(m) ==
    /\ EncryptionChanges(m, "response", "sent", "executed")
    /\ UNCHANGED events

(* A process ends and another takes its place.  The reports it worked at   *)
(* come again unless they are done.  Missed are the changes of an          *)
(* encryption command, and a last report that does not come again.         *)
ReportsOf(m) == InWork(m) \cap Report

Crash(m) ==
    /\ InWork(m) # {}
    /\ Event("crash")
    /\ phase' = [phase EXCEPT ![m] = "idle"]
    /\ snapshot' = [snapshot EXCEPT ![m] = FirstVolume]
    /\ callbacks' = [callbacks EXCEPT ![m] = {}]
    /\ next' = [next EXCEPT ![m] = {}]
    /\ timers' = [timers EXCEPT ![m] = {}]
    /\ behind' = [behind EXCEPT ![m] = FALSE]
    /\ toDeliver' = toDeliver \cup (ReportsOf(m) \ done)
    /\ lost' = lost \cup (ReportsOf(m) \ done)
    /\ missed' = missed
         \cup (IF InWork(m) \ Report # {} THEN {"command"} ELSE {})
         \cup (IF \E r \in ReportsOf(m) \cap done : IsLatest(r) THEN {"report"} ELSE {})
    /\ UNCHANGED <<dbVars, done>>

-----------------------------------------------------------------------------
Next == \/ \E r \in Report : Redeliver(r)
        \/ SendEncryptionCommand
        \/ \E m \in Mgmt :
             \/ \E r \in Report : UpdatePRaid(m, r) \/ UpdatePRaidFails(m, r)
             \/ \E jobs \in timers[m] : CalculateAgain(m, jobs)
             \/ FetchVolume(m) \/ UpdateVolume(m) \/ CalculationFails(m)
             \/ SetEncryptionCommand(m) \/ EncryptionResponse(m)
             \/ Crash(m)

Spec == Init /\ [][Next]_vars

(* Kafka delivers each report, the database answers, timers fire.          *)
Fairness == /\ \A r \in Report : WF_vars(\E m \in Mgmt : UpdatePRaid(m, r))
            /\ \A m \in Mgmt :
                 /\ WF_vars(\E jobs \in timers[m] : CalculateAgain(m, jobs))
                 /\ WF_vars(FetchVolume(m)) /\ WF_vars(UpdateVolume(m))
FairSpec == Spec /\ Fairness

-----------------------------------------------------------------------------
TypeOK == /\ volume \in Volume
          /\ rank \in [PRaid -> [token : Nat, major : Nat, minor : Nat, term : Nat]]
          /\ phase \in [Mgmt -> {"idle", "fetch", "update"}]
          /\ snapshot \in [Mgmt -> Volume]
          /\ callbacks \in [Mgmt -> SUBSET Job]
          /\ next \in [Mgmt -> SUBSET Job]
          /\ timers \in [Mgmt -> SUBSET SUBSET Job]
          /\ behind \in [Mgmt -> BOOLEAN]
          /\ toDeliver \subseteq Report
          /\ events \in 0..MaxEvents
          /\ done \subseteq Job
          /\ latest \in [PRaid -> Nat]
          /\ overwritten \subseteq Segment
          /\ lost \subseteq Report
          /\ missed \subseteq {"error", "stale", "command", "report"}

(* TOMA's reports come in order: the version of a pRaid grows with each    *)
(* one, and its token and term do not shrink.                              *)
SentInOrder ==
    /\ \A r \in Report : Content[r].major > 0
    /\ \A r1, r2 \in Report :
          Content[r1].pRaid = Content[r2].pRaid /\ Content[r1].n < Content[r2].n =>
             /\ \/ Content[r1].major < Content[r2].major
                \/ Content[r1].major = Content[r2].major /\ Content[r1].minor < Content[r2].minor
             /\ Content[r1].token <= Content[r2].token
             /\ Content[r1].term <= Content[r2].term

(* However the reports of a pRaid are reordered and repeated, what is      *)
(* stored is never older than one that was handled ("probably another      *)
(* report updated the db in between", volume.js:1238), if TOMA sends them  *)
(* in order and the database works.                                        *)
NewestWins ==
    "error" \in missed \/ \A r \in done \cap Report : latest[Content[r].pRaid] >= Content[r].n

(* Whatever calculations do meanwhile, each segment is, or is about to be, *)
(* in the status that the last stored report of its pRaid says.  It is as  *)
(* dead or alive as that report says, too, unless a calculation that read  *)
(* a report of the same status before it put that one's vitality back: the *)
(* update compares the statuses of what it overwrites (volume.js:1450) and *)
(* not isDead, which it sets as well (volume.js:1479).                     *)
SegmentsAreOfLatest ==
    \A r \in Report : IsLatest(r) =>
       \A s \in DOMAIN Content[r].segments :
          LET is == Effective(volume.segments[s])
          IN  /\ is.status = Content[r].segments[s].status
              /\ s \in overwritten \/ is = Content[r].segments[s]

(* When nobody works at the volume any more no pending status is left, and *)
(* its status and action are those of its segments: no last report goes    *)
(* without a calculation.  Except after an error, a process that ended at  *)
(* an encryption command or at a last report which, when it comes again,   *)
(* finds its one segment in the status that it reports, and a calculation  *)
(* that overwrote a later one.                                             *)
Quiet == /\ \A m \in Mgmt : InWork(m) = {}
         /\ \A r \in toDeliver : ~IsLatest(r)

SettledWhenQuiet ==
    Quiet /\ missed = {} => /\ WithPending(volume) = {}
                            /\ volume.status = VolumeStatusOf(volume)
                            /\ volume.action = VolumeActionOf(volume)

(* The handler of each report ends, and its offset can be committed.       *)
EveryReportEnds == <>[](Report \subseteq done)
=============================================================================
