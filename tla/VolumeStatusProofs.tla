-------------------------- MODULE VolumeStatusProofs --------------------------
(***************************************************************************)
(* What is stored of a volume follows the last report of each pRaid, and   *)
(* when nobody works at the volume any more its status and action are      *)
(* those of its segments, for any managements, pRaids, segments and        *)
(* reports, and whatever fails how often.                                  *)
(***************************************************************************)
EXTENDS VolumeStatus, FiniteSetTheorems, TLAPS

VolumeType == /\ volume \in Volume
              /\ snapshot \in [Mgmt -> Volume]

JobType == /\ callbacks \in [Mgmt -> SUBSET Job]
           /\ next \in [Mgmt -> SUBSET Job]
           /\ timers \in [Mgmt -> SUBSET SUBSET Job]
           /\ done \subseteq Job
           /\ toDeliver \subseteq Report
           /\ lost \subseteq Report

RankType == /\ rank \in [PRaid -> [token : Nat, major : Nat, minor : Nat, term : Nat]]
            /\ latest \in [PRaid -> Nat]
            /\ overwritten \subseteq Segment

StepType == /\ phase \in [Mgmt -> {"idle", "fetch", "update"}]
            /\ behind \in [Mgmt -> BOOLEAN]
            /\ missed \subseteq {"error", "stale", "command", "report"}

EventType == events \in 0..MaxEvents

LEMMA TypeParts == TypeOK <=> VolumeType /\ JobType /\ RankType /\ StepType /\ EventType
BY DEF TypeOK, VolumeType, JobType, RankType, StepType, EventType

LEMMA TypePartsPrime ==
    VolumeType' /\ JobType' /\ RankType' /\ StepType' /\ EventType' => TypeOK'
BY DEF TypeOK, VolumeType, JobType, RankType, StepType, EventType

-----------------------------------------------------------------------------
(* The strengthening.  What is stored of a pRaid is the rank of its last   *)
(* report.                                                                 *)
RankOf(r) == [token |-> Content[r].token, major |-> Content[r].major,
              minor |-> Content[r].minor, term |-> Content[r].term]

RankIsOfLatest ==
    \A p \in PRaid : \/ latest[p] = 0 /\ rank[p] = FirstRank
                     \/ \E r \in Report : /\ Content[r].pRaid = p
                                          /\ latest[p] = Content[r].n
                                          /\ rank[p] = RankOf(r)

(* What is worked at was stored, and it or something newer still is.       *)
Old == {r \in Report : latest[Content[r].pRaid] >= Content[r].n}

WorkIsOld == \A m \in Mgmt : InWork(m) \cap Report \subseteq Old

SegmentsInv == TypeOK /\ SegmentsAreOfLatest
OrderInv    == TypeOK /\ RankIsOfLatest /\ WorkIsOld /\ NewestWins

-----------------------------------------------------------------------------
(* Types of what the actions write.                                        *)
LEMMA StateHasNoNoPending == NoPending \notin State
<1>1. NoPending.status = "none"
    BY DEF NoPending
<1>2. \A x \in State : x.status \in SegmentStatus
    BY DEF State
<1>3. "none" \notin SegmentStatus
    BY DEF SegmentStatus
<1> QED BY <1>1, <1>2, <1>3

LEMMA CalculatedTypes ==
    ASSUME NEW v
    PROVE  /\ VolumeStatusOf(v) \in {"online", "degraded", "offline"}
           /\ VolumeActionOf(v) \in {"none", "booting", "rotating", "rebuilding"}
BY DEF VolumeStatusOf, VolumeActionOf, NoAction

LEMMA FirstVolumeType == FirstVolume \in Volume
<1>1. Normal \in State /\ Normal # NoPending
    BY DEF Normal, State, SegmentStatus, NoPending
<1>2. [now |-> Normal, pending |-> NoPending] \in SegmentDoc
    BY <1>1 DEF SegmentDoc
<1> QED BY <1>2 DEF FirstVolume, Volume

(* A volume with other segments, or another command.                       *)
LEMMA VolumeWith ==
    ASSUME NEW v \in Volume, NEW segments \in [Segment -> SegmentDoc],
           NEW command \in {"executed", "pending", "sent"}
    PROVE  /\ [v EXCEPT !.segments = segments] \in Volume
           /\ [v EXCEPT !.command = command] \in Volume
<1>1. v.segments \in [Segment -> SegmentDoc] /\ v.command \in {"executed", "pending", "sent"}
    BY DEF Volume
<1> QED BY <1>1 DEF Volume

LEMMA StoredType ==
    ASSUME NEW v \in Volume, NEW r \in Report
    PROVE  [s \in Segment |-> IF s \in DOMAIN Content[r].segments
                              THEN [v.segments[s] EXCEPT !.pending = Content[r].segments[s]]
                              ELSE v.segments[s]] \in [Segment -> SegmentDoc]
<1> SUFFICES ASSUME NEW s \in Segment
             PROVE  (IF s \in DOMAIN Content[r].segments
                     THEN [v.segments[s] EXCEPT !.pending = Content[r].segments[s]]
                     ELSE v.segments[s]) \in SegmentDoc
    OBVIOUS
<1>1. v.segments[s] \in SegmentDoc
    BY DEF Volume
<1>2. s \in DOMAIN Content[r].segments => Content[r].segments[s] \in State
    BY ReportAssumption
<1> QED BY <1>1, <1>2 DEF SegmentDoc

LEMMA ApplyingType ==
    ASSUME volume \in Volume, NEW read \in Volume
    PROVE  Applying(read) \in Volume
<1> DEFINE segs == [s \in Segment |->
                      IF s \in WithPending(read)
                      THEN [now |-> read.segments[s].pending, pending |-> NoPending]
                      ELSE volume.segments[s]]
<1>1. ASSUME NEW s \in Segment
      PROVE  segs[s] \in SegmentDoc
    <2>1. volume.segments[s] \in SegmentDoc /\ read.segments[s] \in SegmentDoc
        BY DEF Volume
    <2>2. CASE s \in WithPending(read)
        <3>1. read.segments[s].pending \in State
            BY <2>1, <2>2 DEF WithPending, SegmentDoc
        <3> QED BY <2>2, <3>1 DEF SegmentDoc
    <2>3. CASE s \notin WithPending(read)
        BY <2>1, <2>3
    <2> QED BY <2>2, <2>3
<1>2. segs \in [Segment -> SegmentDoc]
    BY <1>1
<1>3. Applying(read) = [volume EXCEPT !.status = VolumeStatusOf(read),
                                      !.action = VolumeActionOf(read),
                                      !.segments = segs]
    BY DEF Applying
<1>4. /\ VolumeStatusOf(read) \in {"online", "degraded", "offline"}
      /\ VolumeActionOf(read) \in {"none", "booting", "rotating", "rebuilding"}
    BY CalculatedTypes
<1>5. ASSUME NEW st \in {"online", "degraded", "offline"},
             NEW ac \in {"none", "booting", "rotating", "rebuilding"}
      PROVE  [volume EXCEPT !.status = st, !.action = ac, !.segments = segs] \in Volume
    BY <1>2 DEF Volume
<1> HIDE DEF segs
<1>6. [volume EXCEPT !.status = VolumeStatusOf(read), !.action = VolumeActionOf(read),
                     !.segments = segs] \in Volume
    BY <1>4, <1>5
<1> QED BY <1>3, <1>6

LEMMA InWorkType ==
    ASSUME JobType, NEW m \in Mgmt
    PROVE  InWork(m) \subseteq Job /\ callbacks[m] \subseteq Job /\ next[m] \subseteq Job
BY DEF JobType, InWork

LEMMA EventStep ==
    ASSUME EventType, NEW kind, Event(kind)
    PROVE  EventType'
BY BoundsAssumption DEF EventType, Event

LEMMA EventSame ==
    ASSUME EventType, events' = events
    PROVE  EventType'
BY DEF EventType

LEMMA CalculateType ==
    ASSUME JobType, StepType, NEW m \in Mgmt, NEW jobs \in SUBSET Job, Calculate(m, jobs)
    PROVE  /\ callbacks' \in [Mgmt -> SUBSET Job]
           /\ next' \in [Mgmt -> SUBSET Job]
           /\ phase' \in [Mgmt -> {"idle", "fetch", "update"}]
           /\ UNCHANGED <<snapshot, behind>>
<1>1. CASE phase[m] # "idle"
    BY <1>1 DEF Calculate, JobType, StepType
<1>2. CASE phase[m] = "idle"
    BY <1>2 DEF Calculate, JobType, StepType
<1> QED BY <1>1, <1>2

LEMMA EndOfCalculationType ==
    ASSUME VolumeType, JobType, StepType, toDeliver' = toDeliver, lost' = lost,
           NEW m \in Mgmt, NEW retry, EndOfCalculation(m, retry)
    PROVE  /\ JobType'
           /\ phase' \in [Mgmt -> {"idle", "fetch", "update"}]
           /\ snapshot' \in [Mgmt -> Volume]
<1> DEFINE again == (IF retry THEN ItsOwn(m) ELSE {}) \cup Meanwhile(m)
<1>1. again \subseteq Job /\ callbacks[m] \subseteq Job
    BY InWorkType DEF ItsOwn, Meanwhile
<1>2. timers' = [timers EXCEPT ![m] = IF retry \/ again # {} THEN @ \cup {again} ELSE @]
    BY DEF EndOfCalculation
<1>3. timers' \in [Mgmt -> SUBSET SUBSET Job]
    <2> HIDE DEF again
    <2>1. timers \in [Mgmt -> SUBSET SUBSET Job]
        BY DEF JobType
    <2> QED BY <1>1, <1>2, <2>1
<1>4. done' \subseteq Job
    BY <1>1 DEF EndOfCalculation, JobType
<1>5. /\ callbacks' \in [Mgmt -> SUBSET Job]
      /\ next' \in [Mgmt -> SUBSET Job]
    BY DEF EndOfCalculation, JobType
<1>6. phase' \in [Mgmt -> {"idle", "fetch", "update"}]
    BY DEF EndOfCalculation, StepType
<1>7. snapshot' \in [Mgmt -> Volume]
    BY FirstVolumeType DEF EndOfCalculation, VolumeType
<1>8. toDeliver' \subseteq Report /\ lost' \subseteq Report
    BY DEF JobType
<1> QED BY <1>3, <1>4, <1>5, <1>6, <1>7, <1>8 DEF JobType

LEMMA RankSame ==
    ASSUME RankType, UNCHANGED <<rank, latest, overwritten>>
    PROVE  RankType'
BY DEF RankType

-----------------------------------------------------------------------------
(* Each action keeps the types.                                            *)
LEMMA InitType == Init => TypeOK
<1> SUFFICES ASSUME Init PROVE TypeOK
    OBVIOUS
<1>1. VolumeType
    BY FirstVolumeType DEF Init, VolumeType
<1>2. JobType
    BY DEF Init, JobType
<1>3. RankType
    BY DEF Init, RankType, FirstRank
<1>4. StepType
    BY DEF Init, StepType
<1>5. EventType
    BY BoundsAssumption DEF Init, EventType
<1> QED BY <1>1, <1>2, <1>3, <1>4, <1>5, TypeParts

LEMMA StoreType ==
    ASSUME VolumeType, RankType, NEW r \in Report, Store(r)
    PROVE  volume' \in Volume /\ RankType'
<1> DEFINE segs == [s \in Segment |->
                      IF s \in DOMAIN Content[r].segments
                      THEN [volume.segments[s] EXCEPT !.pending = Content[r].segments[s]]
                      ELSE volume.segments[s]]
           p == Content[r].pRaid
           k == [token |-> IF Content[r].token > 0 THEN Content[r].token ELSE rank[p].token,
                 major |-> Content[r].major, minor |-> Content[r].minor,
                 term  |-> Content[r].term]
<1>1. segs \in [Segment -> SegmentDoc]
    BY StoredType DEF VolumeType
<1>2. volume' = [volume EXCEPT !.segments = segs]
    BY DEF Store
<1>3. volume' \in Volume
    <2> HIDE DEF segs
    <2>1. volume.command \in {"executed", "pending", "sent"}
        BY DEF VolumeType, Volume
    <2> QED BY <1>1, <1>2, <2>1, VolumeWith DEF VolumeType
<1>4. p \in PRaid /\ Content[r].n \in Nat
      /\ Content[r].token \in Nat /\ Content[r].major \in Nat
      /\ Content[r].minor \in Nat /\ Content[r].term \in Nat
    BY ReportAssumption
<1>5. rank[p].token \in Nat
    BY <1>4 DEF RankType
<1>6. k \in [token : Nat, major : Nat, minor : Nat, term : Nat]
    BY <1>4, <1>5
<1>7. rank' = [rank EXCEPT ![p] = k]
    BY <1>4 DEF Store, RankType
<1>8. latest' = [latest EXCEPT ![p] = Content[r].n]
    BY DEF Store
<1>9. overwritten' \subseteq Segment
    BY DEF Store, RankType
<1>10. RankType'
    <2> HIDE DEF p, k
    <2> QED BY <1>4, <1>6, <1>7, <1>8, <1>9 DEF RankType
<1> QED BY <1>3, <1>10

LEMMA UpdatePRaidType ==
    ASSUME TypeOK, NEW m \in Mgmt, NEW r \in Report, UpdatePRaid(m, r)
    PROVE  TypeOK'
<1>1. VolumeType /\ JobType /\ RankType /\ StepType /\ EventType
    BY TypeParts
<1>2. /\ toDeliver' \subseteq Report /\ lost' \subseteq Report
      /\ UNCHANGED <<timers, events>>
    BY <1>1 DEF UpdatePRaid, Receive, JobType
<1>3. CASE Accepts(r) /\ Store(r) /\ Calculate(m, {r}) /\ UNCHANGED <<done, missed>>
    <2>1. {r} \in SUBSET Job
        BY DEF Job
    <2>2. /\ callbacks' \in [Mgmt -> SUBSET Job]
          /\ next' \in [Mgmt -> SUBSET Job]
          /\ phase' \in [Mgmt -> {"idle", "fetch", "update"}]
          /\ UNCHANGED <<snapshot, behind>>
        BY <1>1, <1>3, <2>1, CalculateType
    <2>3. JobType'
        BY <1>1, <1>2, <1>3, <2>2 DEF JobType
    <2>4. StepType'
        BY <1>1, <1>3, <2>2 DEF StepType
    <2>5. volume' \in Volume /\ RankType'
        BY <1>1, <1>3, StoreType
    <2>6. VolumeType'
        BY <1>1, <2>2, <2>5 DEF VolumeType
    <2>7. EventType'
        BY <1>1, <1>2, EventSame
    <2> QED BY <2>3, <2>4, <2>5, <2>6, <2>7, TypePartsPrime
<1>4. CASE /\ done' = done \cup {r}
           /\ missed' = IF r \in lost /\ IsLatest(r) /\ ~StatusChanges(r)
                        THEN missed \cup {"report"} ELSE missed
           /\ UNCHANGED <<dbVars, phase, snapshot, callbacks, next, behind>>
    <2>1. r \in Job
        BY DEF Job
    <2>2. UNCHANGED <<volume, rank, latest, overwritten,
                      phase, snapshot, callbacks, next, behind>>
        BY <1>4 DEF dbVars
    <2>3. JobType'
        BY <1>1, <1>2, <1>4, <2>1, <2>2 DEF JobType
    <2>4. VolumeType' /\ RankType' /\ EventType'
        BY <1>1, <1>2, <2>2 DEF VolumeType, RankType, EventType
    <2>5. missed' \subseteq {"error", "stale", "command", "report"}
        BY <1>1, <1>4 DEF StepType
    <2>6. StepType'
        BY <1>1, <2>2, <2>5 DEF StepType
    <2> QED BY <2>3, <2>4, <2>6, TypePartsPrime
<1> QED BY <1>3, <1>4 DEF UpdatePRaid

LEMMA UpdatePRaidFailsType ==
    ASSUME TypeOK, NEW m \in Mgmt, NEW r \in Report, UpdatePRaidFails(m, r)
    PROVE  TypeOK'
<1>1. VolumeType /\ JobType /\ RankType /\ StepType /\ EventType
    BY TypeParts
<1>2. /\ toDeliver' \subseteq Report /\ lost' \subseteq Report /\ r \in Job
      /\ done' = done \cup {r} /\ missed' = missed \cup {"error"}
      /\ UNCHANGED <<volume, rank, latest, overwritten,
                     phase, snapshot, callbacks, next, timers, behind>>
    BY <1>1 DEF UpdatePRaidFails, Receive, JobType, Job, dbVars, calcVars
<1>3. JobType'
    BY <1>1, <1>2 DEF JobType
<1>4. VolumeType' /\ RankType' /\ StepType'
    BY <1>1, <1>2 DEF VolumeType, RankType, StepType
<1>5. EventType'
    BY <1>1, EventStep DEF UpdatePRaidFails
<1> QED BY <1>3, <1>4, <1>5, TypePartsPrime

LEMMA RedeliverType ==
    ASSUME TypeOK, NEW r \in Report, Redeliver(r)
    PROVE  TypeOK'
<1>1. VolumeType /\ JobType /\ RankType /\ StepType /\ EventType
    BY TypeParts
<1>2. /\ toDeliver' = toDeliver \cup {r} /\ UNCHANGED <<done, lost, missed>>
      /\ UNCHANGED <<volume, rank, latest, overwritten,
                     phase, snapshot, callbacks, next, timers, behind>>
    BY DEF Redeliver, dbVars, calcVars, history
<1>3. JobType'
    BY <1>1, <1>2 DEF JobType
<1>4. VolumeType' /\ RankType' /\ StepType'
    BY <1>1, <1>2 DEF VolumeType, RankType, StepType
<1>5. EventType'
    BY <1>1, EventStep DEF Redeliver
<1> QED BY <1>3, <1>4, <1>5, TypePartsPrime

LEMMA CalculateAgainType ==
    ASSUME TypeOK, NEW m \in Mgmt, NEW jobs \in timers[m], CalculateAgain(m, jobs)
    PROVE  TypeOK'
<1>1. VolumeType /\ JobType /\ RankType /\ StepType /\ EventType
    BY TypeParts
<1>2. /\ Calculate(m, jobs)
      /\ timers' = [timers EXCEPT ![m] = @ \ {jobs}]
      /\ UNCHANGED <<volume, rank, latest, overwritten,
                     toDeliver, events, done, lost, missed>>
    BY DEF CalculateAgain, dbVars, history
<1>3. timers \in [Mgmt -> SUBSET SUBSET Job]
    BY <1>1 DEF JobType
<1>4. timers[m] \in SUBSET SUBSET Job
    BY <1>3
<1>5. jobs \in SUBSET Job
    BY <1>4
<1>6. timers' \in [Mgmt -> SUBSET SUBSET Job]
    BY <1>2, <1>3, <1>4
<1>7. /\ callbacks' \in [Mgmt -> SUBSET Job]
      /\ next' \in [Mgmt -> SUBSET Job]
      /\ phase' \in [Mgmt -> {"idle", "fetch", "update"}]
      /\ UNCHANGED <<snapshot, behind>>
    BY <1>1, <1>2, <1>5, CalculateType
<1>8. JobType'
    BY <1>1, <1>2, <1>6, <1>7 DEF JobType
<1>9. VolumeType' /\ RankType' /\ StepType' /\ EventType'
    BY <1>1, <1>2, <1>7 DEF VolumeType, RankType, StepType, EventType
<1> QED BY <1>8, <1>9, TypePartsPrime

LEMMA FetchVolumeType ==
    ASSUME TypeOK, NEW m \in Mgmt, FetchVolume(m)
    PROVE  TypeOK'
<1>1. VolumeType /\ JobType /\ RankType /\ StepType /\ EventType
    BY TypeParts
<1>2. UNCHANGED <<volume, rank, latest, overwritten,
                  callbacks, next, timers, toDeliver, events,
                  done, lost, missed>>
    BY DEF FetchVolume, dbVars, history
<1>3. JobType' /\ RankType' /\ EventType'
    BY <1>1, <1>2 DEF JobType, RankType, EventType
<1>4. VolumeType'
    BY <1>1, <1>2 DEF FetchVolume, VolumeType
<1>5. StepType'
    BY <1>1, <1>2 DEF FetchVolume, StepType
<1> QED BY <1>3, <1>4, <1>5, TypePartsPrime

LEMMA UpdateVolumeType ==
    ASSUME TypeOK, NEW m \in Mgmt, UpdateVolume(m)
    PROVE  TypeOK'
<1>1. VolumeType /\ JobType /\ RankType /\ StepType /\ EventType
    BY TypeParts
<1>2. UNCHANGED <<rank, latest, toDeliver, events, lost>>
    BY DEF UpdateVolume
<1>3. PICK retry \in BOOLEAN : EndOfCalculation(m, retry)
    BY DEF UpdateVolume
<1>4. /\ JobType'
      /\ phase' \in [Mgmt -> {"idle", "fetch", "update"}]
      /\ snapshot' \in [Mgmt -> Volume]
    BY <1>1, <1>2, <1>3, EndOfCalculationType
<1>5. volume' \in Volume
    <2>1. volume \in Volume /\ snapshot[m] \in Volume
        BY <1>1 DEF VolumeType
    <2>2. Applying(snapshot[m]) \in Volume
        BY <2>1, ApplyingType
    <2> QED BY <2>1, <2>2 DEF UpdateVolume
<1>6. behind' \in [Mgmt -> BOOLEAN]
    <2>1. behind \in [Mgmt -> BOOLEAN]
        BY <1>1 DEF StepType
    <2>2. CASE behind' = [o \in Mgmt |-> o # m /\ (behind[o] \/ phase[o] = "update")]
        <3>1. \A o \in Mgmt : (o # m /\ (behind[o] \/ phase[o] = "update")) \in BOOLEAN
            OBVIOUS
        <3> QED BY <2>2, <3>1
    <2>3. CASE behind' = [behind EXCEPT ![m] = FALSE]
        BY <2>1, <2>3
    <2> QED BY <2>2, <2>3 DEF UpdateVolume
<1>7. missed' \subseteq {"error", "stale", "command", "report"}
    BY <1>1 DEF UpdateVolume, StepType
<1>8. VolumeType' /\ StepType'
    BY <1>4, <1>5, <1>6, <1>7 DEF VolumeType, StepType
<1>9. RankType' /\ EventType'
    <2>1. overwritten' \subseteq Segment
        BY <1>1 DEF UpdateVolume, RankType, Overwriting, WithPending
    <2> QED BY <1>1, <1>2, <2>1, EventSame DEF RankType
<1> QED BY <1>4, <1>8, <1>9, TypePartsPrime

LEMMA CalculationFailsType ==
    ASSUME TypeOK, NEW m \in Mgmt, CalculationFails(m)
    PROVE  TypeOK'
<1>1. VolumeType /\ JobType /\ RankType /\ StepType /\ EventType
    BY TypeParts
<1>2. UNCHANGED <<volume, rank, latest, overwritten,
                  toDeliver, lost>> /\ EndOfCalculation(m, FALSE)
    BY DEF CalculationFails, dbVars
<1>3. /\ JobType'
      /\ phase' \in [Mgmt -> {"idle", "fetch", "update"}]
      /\ snapshot' \in [Mgmt -> Volume]
    BY <1>1, <1>2, EndOfCalculationType
<1>4. behind' \in [Mgmt -> BOOLEAN]
    BY <1>1 DEF CalculationFails, StepType
<1>5. missed' \subseteq {"error", "stale", "command", "report"}
    BY <1>1 DEF CalculationFails, StepType
<1>6. VolumeType' /\ StepType'
    BY <1>1, <1>2, <1>3, <1>4, <1>5 DEF VolumeType, StepType
<1>7. EventType'
    BY <1>1, EventStep DEF CalculationFails
<1>8. RankType'
    BY <1>1, <1>2, RankSame
<1> QED BY <1>3, <1>6, <1>7, <1>8, TypePartsPrime

LEMMA EncryptionChangesType ==
    ASSUME VolumeType, JobType, RankType, StepType, NEW m \in Mgmt,
           NEW job \in Job, NEW from, NEW to \in {"executed", "pending", "sent"},
           EncryptionChanges(m, job, from, to)
    PROVE  VolumeType' /\ JobType' /\ RankType' /\ StepType'
<1>1. /\ volume' = [volume EXCEPT !.command = to]
      /\ UNCHANGED <<rank, latest, overwritten, timers, toDeliver, done, lost, missed>>
    BY DEF EncryptionChanges, history
<1>2. volume' \in Volume
    <2>1. volume \in Volume /\ volume.segments \in [Segment -> SegmentDoc]
        BY DEF VolumeType, Volume
    <2> QED BY <1>1, <2>1, VolumeWith
<1>3. {job} \in SUBSET Job
    OBVIOUS
<1>4. CASE phase[m] # "idle"
    <2>1. Calculate(m, {job})
        BY <1>4 DEF EncryptionChanges
    <2>2. /\ callbacks' \in [Mgmt -> SUBSET Job]
          /\ next' \in [Mgmt -> SUBSET Job]
          /\ phase' \in [Mgmt -> {"idle", "fetch", "update"}]
          /\ UNCHANGED <<snapshot, behind>>
        BY <1>3, <2>1, CalculateType
    <2> QED BY <1>1, <1>2, <2>2 DEF VolumeType, JobType, RankType, StepType
<1>5. CASE phase[m] = "idle"
    <2>1. /\ callbacks' = [callbacks EXCEPT ![m] = {job}]
          /\ phase' = [phase EXCEPT ![m] = "update"]
          /\ snapshot' = [snapshot EXCEPT ![m] = volume']
          /\ UNCHANGED <<next, behind>>
        BY <1>5 DEF EncryptionChanges
    <2>2. VolumeType'
        BY <1>2, <2>1 DEF VolumeType
    <2>3. JobType'
        BY <1>1, <1>3, <2>1 DEF JobType
    <2>4. StepType' /\ RankType'
        BY <1>1, <2>1 DEF StepType, RankType
    <2> QED BY <2>2, <2>3, <2>4
<1> QED BY <1>4, <1>5

LEMMA EncryptionType ==
    ASSUME TypeOK, NEW m \in Mgmt,
           SetEncryptionCommand(m) \/ EncryptionResponse(m)
    PROVE  TypeOK'
<1>1. VolumeType /\ JobType /\ RankType /\ StepType /\ EventType
    BY TypeParts
<1>2. "command" \in Job /\ "response" \in Job
    BY DEF Job
<1>3. CASE SetEncryptionCommand(m)
    <2>1. EncryptionChanges(m, "command", "executed", "pending")
        BY <1>3 DEF SetEncryptionCommand
    <2>2. EventType'
        BY <1>1, <1>3, EventStep DEF SetEncryptionCommand
    <2> QED BY <1>1, <1>2, <2>1, <2>2, EncryptionChangesType, TypePartsPrime
<1>4. CASE EncryptionResponse(m)
    <2>1. EncryptionChanges(m, "response", "sent", "executed") /\ UNCHANGED events
        BY <1>4 DEF EncryptionResponse
    <2>2. EventType'
        BY <1>1, <2>1, EventSame
    <2> QED BY <1>1, <1>2, <2>1, <2>2, EncryptionChangesType, TypePartsPrime
<1> QED BY <1>3, <1>4

LEMMA SendEncryptionCommandType ==
    ASSUME TypeOK, SendEncryptionCommand
    PROVE  TypeOK'
<1>1. VolumeType /\ JobType /\ RankType /\ StepType /\ EventType
    BY TypeParts
<1>2. /\ volume' = [volume EXCEPT !.command = "sent"]
      /\ done' = done \ {"command"}
      /\ UNCHANGED <<rank, latest, overwritten,
                     phase, snapshot, callbacks, next, timers, behind,
                     toDeliver, events, lost, missed>>
    BY DEF SendEncryptionCommand, calcVars
<1>3. volume' \in Volume
    <2>1. volume \in Volume /\ volume.segments \in [Segment -> SegmentDoc]
        BY <1>1 DEF VolumeType, Volume
    <2> QED BY <1>2, <2>1, VolumeWith
<1>4. VolumeType' /\ RankType' /\ StepType' /\ EventType'
    BY <1>1, <1>2, <1>3 DEF VolumeType, RankType, StepType, EventType
<1>5. JobType'
    BY <1>1, <1>2 DEF JobType
<1> QED BY <1>4, <1>5, TypePartsPrime

LEMMA CrashType ==
    ASSUME TypeOK, NEW m \in Mgmt, Crash(m)
    PROVE  TypeOK'
<1>1. VolumeType /\ JobType /\ RankType /\ StepType /\ EventType
    BY TypeParts
<1>2. UNCHANGED <<volume, rank, latest, overwritten, done>>
    BY DEF Crash, dbVars
<1>3. /\ callbacks' \in [Mgmt -> SUBSET Job]
      /\ next' \in [Mgmt -> SUBSET Job]
    BY <1>1 DEF Crash, JobType
<1>4. /\ timers' \in [Mgmt -> SUBSET SUBSET Job]
      /\ toDeliver' \subseteq Report /\ lost' \subseteq Report
    BY <1>1 DEF Crash, JobType, ReportsOf
<1>5. snapshot' \in [Mgmt -> Volume]
    BY <1>1, FirstVolumeType DEF Crash, VolumeType
<1>6. /\ phase' \in [Mgmt -> {"idle", "fetch", "update"}]
      /\ behind' \in [Mgmt -> BOOLEAN]
    BY <1>1 DEF Crash, StepType
<1>7. missed' \subseteq {"error", "stale", "command", "report"}
    BY <1>1 DEF Crash, StepType
<1>8. VolumeType' /\ JobType' /\ RankType' /\ StepType'
    BY <1>1, <1>2, <1>3, <1>4, <1>5, <1>6, <1>7
       DEF VolumeType, JobType, RankType, StepType
<1>9. EventType'
    BY <1>1, EventStep DEF Crash
<1> QED BY <1>8, <1>9, TypePartsPrime

LEMMA NextType == TypeOK /\ [Next]_vars => TypeOK'
<1> SUFFICES ASSUME TypeOK, [Next]_vars PROVE TypeOK'
    OBVIOUS
<1>1. CASE UNCHANGED vars
    BY <1>1 DEF TypeOK, vars, dbVars, calcVars, history
<1>2. CASE \E r \in Report : Redeliver(r)
    BY <1>2, RedeliverType
<1>3. CASE SendEncryptionCommand
    BY <1>3, SendEncryptionCommandType
<1>4. ASSUME NEW m \in Mgmt, \E r \in Report : UpdatePRaid(m, r) \/ UpdatePRaidFails(m, r)
      PROVE  TypeOK'
    BY <1>4, UpdatePRaidType, UpdatePRaidFailsType
<1>5. ASSUME NEW m \in Mgmt, \E jobs \in timers[m] : CalculateAgain(m, jobs)
      PROVE  TypeOK'
    BY <1>5, CalculateAgainType
<1>6. ASSUME NEW m \in Mgmt, FetchVolume(m) \/ UpdateVolume(m) \/ CalculationFails(m)
      PROVE  TypeOK'
    BY <1>6, FetchVolumeType, UpdateVolumeType, CalculationFailsType
<1>7. ASSUME NEW m \in Mgmt,
             SetEncryptionCommand(m) \/ EncryptionResponse(m) \/ Crash(m)
      PROVE  TypeOK'
    BY <1>7, EncryptionType, CrashType
<1> QED BY <1>1, <1>2, <1>3, <1>4, <1>5, <1>6, <1>7 DEF Next

(* The values of the variables are those that their comments say.          *)
THEOREM TypeCorrect == Spec => []TypeOK
BY InitType, NextType, PTL DEF Spec

-----------------------------------------------------------------------------
(* Where what is stored of the segments comes from.                        *)
Applies(m) == /\ Matches(snapshot[m])
              /\ volume' = Applying(snapshot[m])
              /\ latest' = latest

AppliesOver(m) == Applies(m) /\ overwritten' = overwritten \cup Overwriting(snapshot[m])

LEMMA SegmentsSource ==
    ASSUME TypeOK, [Next]_vars
    PROVE  \/ \E r \in Report : Accepts(r) /\ Store(r)
           \/ \E m \in Mgmt : AppliesOver(m)
           \/ volume'.segments = volume.segments /\ UNCHANGED <<latest, overwritten>>
<1> DEFINE Same == volume'.segments = volume.segments /\ UNCHANGED <<latest, overwritten>>
<1>1. ASSUME UNCHANGED vars PROVE Same
    BY <1>1 DEF vars, dbVars
<1>2. ASSUME NEW r \in Report, Redeliver(r) PROVE Same
    BY <1>2 DEF Redeliver, dbVars
<1>3. ASSUME NEW to, volume' = [volume EXCEPT !.command = to],
             UNCHANGED <<latest, overwritten>>
      PROVE  Same
    <2>1. volume \in Volume
        BY DEF TypeOK
    <2> QED BY <1>3, <2>1 DEF Volume
<1>4. ASSUME SendEncryptionCommand PROVE Same
    BY <1>3, <1>4 DEF SendEncryptionCommand
<1>5. ASSUME NEW m \in Mgmt, NEW r \in Report, UpdatePRaid(m, r)
      PROVE  (Accepts(r) /\ Store(r)) \/ Same
    BY <1>5 DEF UpdatePRaid, dbVars
<1>6. ASSUME NEW m \in Mgmt, NEW r \in Report, UpdatePRaidFails(m, r) PROVE Same
    BY <1>6 DEF UpdatePRaidFails, dbVars
<1>7. ASSUME NEW m \in Mgmt, NEW jobs \in timers[m], CalculateAgain(m, jobs) PROVE Same
    BY <1>7 DEF CalculateAgain, dbVars
<1>8. ASSUME NEW m \in Mgmt, FetchVolume(m) \/ CalculationFails(m) \/ Crash(m) PROVE Same
    BY <1>8 DEF FetchVolume, CalculationFails, Crash, dbVars
<1>9. ASSUME NEW m \in Mgmt, UpdateVolume(m) PROVE AppliesOver(m) \/ Same
    <2>1. latest' = latest
        BY <1>9 DEF UpdateVolume
    <2> QED BY <1>9, <2>1 DEF UpdateVolume, Applies, AppliesOver
<1>10. ASSUME NEW m \in Mgmt, SetEncryptionCommand(m) \/ EncryptionResponse(m) PROVE Same
    BY <1>3, <1>10 DEF SetEncryptionCommand, EncryptionResponse, EncryptionChanges
<1> HIDE DEF Same
<1>11. ASSUME Next PROVE \/ \E r \in Report : Accepts(r) /\ Store(r)
                         \/ \E m \in Mgmt : AppliesOver(m)
                         \/ Same
    BY <1>2, <1>4, <1>5, <1>6, <1>7, <1>8, <1>9, <1>10, <1>11 DEF Next
<1> QED BY <1>1, <1>11 DEF Same

-----------------------------------------------------------------------------
(* Segments.                                                               *)
LEMMA StoredSegments ==
    ASSUME TypeOK, NEW r \in Report, Store(r), NEW s \in Segment
    PROVE  /\ s \in DOMAIN Content[r].segments =>
                /\ volume'.segments[s].pending = Content[r].segments[s]
                /\ Content[r].segments[s] # NoPending
           /\ s \notin DOMAIN Content[r].segments =>
                volume'.segments[s] = volume.segments[s]
<1> DEFINE segs == [x \in Segment |->
                      IF x \in DOMAIN Content[r].segments
                      THEN [volume.segments[x] EXCEPT !.pending = Content[r].segments[x]]
                      ELSE volume.segments[x]]
<1>1. volume \in Volume
    BY DEF TypeOK
<1>2. volume' = [volume EXCEPT !.segments = segs]
    BY DEF Store
<1>3. volume'.segments = segs
    <2> HIDE DEF segs
    <2> QED BY <1>1, <1>2 DEF Volume
<1>4. volume.segments[s] \in SegmentDoc
    BY <1>1 DEF Volume
<1>5. s \in DOMAIN Content[r].segments => Content[r].segments[s] \in State
    BY ReportAssumption
<1>6. CASE s \in DOMAIN Content[r].segments
    <2>1. volume'.segments[s] = [volume.segments[s] EXCEPT !.pending = Content[r].segments[s]]
        BY <1>3, <1>6
    <2>2. volume'.segments[s].pending = Content[r].segments[s]
        BY <1>4, <2>1 DEF SegmentDoc
    <2>3. Content[r].segments[s] # NoPending
        BY <1>5, <1>6, StateHasNoNoPending
    <2> QED BY <1>6, <2>2, <2>3
<1>7. CASE s \notin DOMAIN Content[r].segments
    BY <1>3, <1>7
<1> QED BY <1>6, <1>7

LEMMA AppliedSegments ==
    ASSUME TypeOK, NEW m \in Mgmt, Applies(m), NEW s \in Segment
    PROVE  \/ /\ s \in WithPending(snapshot[m])
              /\ volume'.segments[s].now = snapshot[m].segments[s].pending
              /\ volume'.segments[s].pending = NoPending
           \/ /\ s \notin WithPending(snapshot[m])
              /\ volume'.segments[s] = volume.segments[s]
<1> DEFINE read == snapshot[m]
           segs == [x \in Segment |->
                      IF x \in WithPending(read)
                      THEN [now |-> read.segments[x].pending, pending |-> NoPending]
                      ELSE volume.segments[x]]
<1>1. volume \in Volume
    BY DEF TypeOK
<1>2. volume' = [volume EXCEPT !.status = VolumeStatusOf(read),
                               !.action = VolumeActionOf(read), !.segments = segs]
    BY DEF Applies, Applying
<1>3. volume'.segments = segs
    <2> HIDE DEF segs, read
    <2> QED BY <1>1, <1>2 DEF Volume
<1> QED BY <1>3

(* What the property says of a segment.                                    *)
Follows(s, state) == /\ Effective(volume.segments[s]).status = state.status
                     /\ s \in overwritten \/ Effective(volume.segments[s]) = state

LEMMA SegmentsStep ==
    ASSUME SegmentsInv, [Next]_vars
    PROVE  SegmentsAreOfLatest'
<1>1. TypeOK
    BY DEF SegmentsInv
<1> SUFFICES ASSUME NEW r \in Report, latest'[Content[r].pRaid] = Content[r].n,
                    NEW s \in DOMAIN Content[r].segments
             PROVE  Follows(s, Content[r].segments[s])'
    BY DEF SegmentsAreOfLatest, IsLatest, Follows
<1> DEFINE p == Content[r].pRaid
<1>2. /\ p \in PRaid /\ s \in Segment /\ PRaidOf[s] = p
      /\ latest \in [PRaid -> Nat]
    BY <1>1, ReportAssumption DEF TypeOK
<1>3. latest[p] = Content[r].n => Follows(s, Content[r].segments[s])
    BY DEF SegmentsInv, SegmentsAreOfLatest, IsLatest, Follows
<1>4. ASSUME NEW q \in Report, Store(q)
      PROVE  Follows(s, Content[r].segments[s])'
    <2>1. /\ latest' = [latest EXCEPT ![Content[q].pRaid] = Content[q].n]
          /\ overwritten' = overwritten \ DOMAIN Content[q].segments
        BY <1>4 DEF Store
    <2>2. CASE Content[q].pRaid = p
        <3>1. latest'[p] = Content[q].n
            BY <1>2, <2>1, <2>2
        <3>2. q = r
            BY <2>2, <3>1, DistinctAssumption
        <3>3. /\ volume'.segments[s].pending = Content[r].segments[s]
              /\ Content[r].segments[s] # NoPending
            BY <1>1, <1>2, <1>4, <3>2, StoredSegments
        <3> QED BY <3>3 DEF Effective, Follows
    <2>3. CASE Content[q].pRaid # p
        <3>1. latest'[p] = latest[p]
            BY <1>2, <2>1, <2>3
        <3>2. s \notin DOMAIN Content[q].segments
            BY <1>2, <2>3, ReportAssumption
        <3>3. /\ volume'.segments[s] = volume.segments[s]
              /\ s \in overwritten => s \in overwritten'
            BY <1>1, <1>2, <1>4, <2>1, <3>2, StoredSegments
        <3> QED BY <1>3, <3>1, <3>3 DEF Follows
    <2> QED BY <2>2, <2>3
<1>5. ASSUME NEW m \in Mgmt, AppliesOver(m)
      PROVE  Follows(s, Content[r].segments[s])'
    <2> DEFINE read == snapshot[m]
    <2>1. /\ Follows(s, Content[r].segments[s])
          /\ overwritten' = overwritten \cup Overwriting(read)
        BY <1>3, <1>5 DEF Applies, AppliesOver
    <2>2. CASE s \in WithPending(read)
        <3>1. /\ volume'.segments[s].now = read.segments[s].pending
              /\ volume'.segments[s].pending = NoPending
            BY <1>1, <1>2, <1>5, <2>2, AppliedSegments DEF AppliesOver
        <3>2. /\ volume.segments[s].pending # NoPending
              /\ volume.segments[s].pending.status = read.segments[s].pending.status
            BY <1>5, <2>2 DEF AppliesOver, Applies, Matches, SamePending
        <3>3. /\ Effective(volume.segments[s]) = volume.segments[s].pending
              /\ Effective(volume.segments[s])' = read.segments[s].pending
            BY <3>1, <3>2 DEF Effective
        <3>4. CASE volume.segments[s].pending = read.segments[s].pending
            BY <2>1, <3>3, <3>4 DEF Follows
        <3>5. CASE volume.segments[s].pending # read.segments[s].pending
            <4>1. volume.segments[s].pending \in State /\ read.segments[s].pending \in State
                BY <1>1, <1>2, <2>2, <3>2 DEF TypeOK, Volume, SegmentDoc, WithPending
            <4>2. volume.segments[s].pending.isDead # read.segments[s].pending.isDead
                BY <3>2, <3>5, <4>1 DEF State
            <4>3. s \in overwritten'
                BY <2>1, <2>2, <3>2, <4>2 DEF Overwriting, VitalityDiffers
            <4> QED BY <2>1, <3>2, <3>3, <4>3 DEF Follows
        <3> QED BY <3>4, <3>5
    <2>3. CASE s \notin WithPending(read)
        <3>1. volume'.segments[s] = volume.segments[s]
            BY <1>1, <1>2, <1>5, <2>3, AppliedSegments DEF AppliesOver
        <3> QED BY <2>1, <3>1 DEF Follows
    <2> QED BY <2>2, <2>3
<1>6. CASE volume'.segments = volume.segments /\ UNCHANGED <<latest, overwritten>>
    BY <1>3, <1>6 DEF Follows
<1> QED BY <1>1, <1>4, <1>5, <1>6, SegmentsSource

(* Whatever is written meanwhile and by whom, each segment is in the       *)
(* status that the last stored report of its pRaid says, or about to be,   *)
(* and as dead or alive, unless a calculation that read an older report of *)
(* the same status put that one's vitality back.                           *)
THEOREM SegmentsFollowReports == Spec => []SegmentsAreOfLatest
<1>1. Init => SegmentsInv
    <2> SUFFICES ASSUME Init PROVE SegmentsInv
        OBVIOUS
    <2>1. SegmentsAreOfLatest
        BY ReportAssumption DEF Init, SegmentsAreOfLatest, IsLatest
    <2> QED BY <2>1, InitType DEF SegmentsInv
<1>2. SegmentsInv /\ [Next]_vars => SegmentsInv'
    BY NextType, SegmentsStep DEF SegmentsInv
<1>3. SegmentsInv => SegmentsAreOfLatest
    BY DEF SegmentsInv
<1> QED BY <1>1, <1>2, <1>3, PTL DEF Spec

-----------------------------------------------------------------------------
(* Order.                                                                  *)
LEMMA ContentType ==
    ASSUME NEW r \in Report
    PROVE  /\ Content[r].n \in Nat /\ Content[r].n > 0 /\ Content[r].pRaid \in PRaid
           /\ Content[r].token \in Nat /\ Content[r].major \in Nat
           /\ Content[r].minor \in Nat /\ Content[r].term \in Nat
BY ReportAssumption

LEMMA RankOfFields ==
    ASSUME NEW r
    PROVE  /\ RankOf(r).token = Content[r].token /\ RankOf(r).major = Content[r].major
           /\ RankOf(r).minor = Content[r].minor /\ RankOf(r).term = Content[r].term
BY DEF RankOf

(* A report is accepted if and only if it is not older than what is stored,*)
(* one that is as new excepted.                                            *)
LEMMA AcceptsNewer ==
    ASSUME SentInOrder, NEW q \in Report, NEW r \in Report,
           Content[q].pRaid = Content[r].pRaid,
           rank[Content[r].pRaid] = RankOf(q)
    PROVE  /\ Content[q].n < Content[r].n => Accepts(r)
           /\ Content[r].n < Content[q].n => ~Accepts(r)
<1> DEFINE k == RankOf(q)
<1>1. /\ k.token = Content[q].token /\ k.major = Content[q].major
      /\ k.minor = Content[q].minor /\ k.term = Content[q].term
    BY RankOfFields
<1>2. /\ Content[q].token \in Nat /\ Content[q].major \in Nat
      /\ Content[q].minor \in Nat /\ Content[q].term \in Nat
      /\ Content[r].token \in Nat /\ Content[r].major \in Nat
      /\ Content[r].minor \in Nat /\ Content[r].term \in Nat
    BY ContentType
<1> DEFINE current == Newer(r, k) \/ (SameVersion(r, k) /\ StatusChanges(r))
<1>3. Accepts(r) <=> IF Content[r].token > 0
                     THEN k.token < Content[r].token \/ (k.token = Content[r].token /\ current)
                     ELSE current
    BY DEF Accepts
<1> HIDE DEF k
<1>4. ASSUME Content[q].n < Content[r].n PROVE Accepts(r)
    <2>1. /\ \/ Content[q].major < Content[r].major
             \/ Content[q].major = Content[r].major /\ Content[q].minor < Content[r].minor
          /\ Content[q].token <= Content[r].token
        BY <1>4 DEF SentInOrder
    <2>2. current
        BY <1>1, <2>1 DEF Newer, NewerVersion
    <2>3. k.token < Content[r].token \/ k.token = Content[r].token
        BY <1>1, <1>2, <2>1
    <2> QED BY <1>3, <2>2, <2>3
<1>5. ASSUME Content[r].n < Content[q].n PROVE ~Accepts(r)
    <2>1. /\ \/ Content[r].major < Content[q].major
             \/ Content[r].major = Content[q].major /\ Content[r].minor < Content[q].minor
          /\ Content[r].token <= Content[q].token /\ Content[r].term <= Content[q].term
        BY <1>5 DEF SentInOrder
    <2>2. ~NewerVersion(r, k) /\ ~SameVersion(r, k)
        BY <1>1, <1>2, <2>1 DEF NewerVersion, SameVersion
    <2>3. ~(k.term < Content[r].term) /\ ~(k.token < Content[r].token)
        BY <1>1, <1>2, <2>1
    <2>4. ~current
        BY <2>2, <2>3 DEF Newer
    <2> QED BY <1>3, <2>3, <2>4
<1> QED BY <1>4, <1>5

LEMMA AcceptsFirst ==
    ASSUME SentInOrder, NEW r \in Report, rank[Content[r].pRaid] = FirstRank
    PROVE  Accepts(r)
<1>1. /\ FirstRank.token = 0 /\ FirstRank.major = 0
    BY DEF FirstRank
<1>2. Content[r].major > 0 /\ Content[r].token \in Nat
    BY ContentType DEF SentInOrder
<1>3. Newer(r, FirstRank)
    BY <1>1, <1>2 DEF Newer, NewerVersion
<1> QED BY <1>1, <1>2, <1>3 DEF Accepts

LEMMA AcceptedIsNotOlder ==
    ASSUME SentInOrder, TypeOK, RankIsOfLatest, NEW r \in Report, Accepts(r)
    PROVE  latest[Content[r].pRaid] <= Content[r].n
<1> DEFINE p == Content[r].pRaid
<1>1. p \in PRaid /\ Content[r].n \in Nat
    BY ContentType
<1>2. CASE latest[p] = 0
    BY <1>1, <1>2
<1>3. CASE \E q \in Report : Content[q].pRaid = p /\ latest[p] = Content[q].n /\ rank[p] = RankOf(q)
    <2>1. PICK q \in Report : Content[q].pRaid = p /\ latest[p] = Content[q].n /\ rank[p] = RankOf(q)
        BY <1>3
    <2>2. ~(Content[r].n < Content[q].n)
        BY <2>1, AcceptsNewer
    <2>3. Content[q].n \in Nat
        BY ContentType
    <2> QED BY <1>1, <2>1, <2>2, <2>3
<1> QED BY <1>1, <1>2, <1>3 DEF RankIsOfLatest

LEMMA SkippedIsOld ==
    ASSUME SentInOrder, TypeOK, RankIsOfLatest, NEW r \in Report, ~Accepts(r)
    PROVE  r \in Old
<1> DEFINE p == Content[r].pRaid
<1>1. p \in PRaid /\ Content[r].n \in Nat
    BY ContentType
<1>2. rank[p] # FirstRank
    BY AcceptsFirst
<1>3. PICK q \in Report : Content[q].pRaid = p /\ latest[p] = Content[q].n /\ rank[p] = RankOf(q)
    BY <1>1, <1>2 DEF RankIsOfLatest
<1>4. ~(Content[q].n < Content[r].n) /\ Content[q].n \in Nat
    BY <1>3, AcceptsNewer, ContentType
<1> QED BY <1>1, <1>3, <1>4 DEF Old

LEMMA StoredRank ==
    ASSUME SentInOrder, TypeOK, RankIsOfLatest, NEW r \in Report, Accepts(r), Store(r)
    PROVE  /\ rank' = [rank EXCEPT ![Content[r].pRaid] = RankOf(r)]
           /\ latest' = [latest EXCEPT ![Content[r].pRaid] = Content[r].n]
<1> DEFINE p == Content[r].pRaid
           token == IF Content[r].token > 0 THEN Content[r].token ELSE rank[p].token
<1>1. p \in PRaid /\ Content[r].n \in Nat /\ Content[r].token \in Nat
    BY ContentType
<1>2. /\ rank' = [rank EXCEPT ![p] = [token |-> token, major |-> Content[r].major,
                                      minor |-> Content[r].minor, term |-> Content[r].term]]
      /\ latest' = [latest EXCEPT ![p] = Content[r].n]
    BY <1>1 DEF Store, TypeOK
<1>3. CASE Content[r].token > 0
    BY <1>2, <1>3 DEF RankOf
<1>4. CASE ~(Content[r].token > 0)
    <2>1. Content[r].token = 0
        BY <1>1, <1>4
    <2>2. CASE rank[p] = FirstRank
        <3>1. rank[p].token = 0
            BY <2>2 DEF FirstRank
        <3> QED BY <1>2, <1>4, <2>1, <3>1 DEF RankOf
    <2>3. CASE rank[p] # FirstRank
        <3>1. PICK q \in Report : Content[q].pRaid = p /\ latest[p] = Content[q].n
                                  /\ rank[p] = RankOf(q)
            BY <1>1, <2>3 DEF RankIsOfLatest
        <3>2. Content[q].n <= Content[r].n
            BY <3>1, AcceptedIsNotOlder
        <3>3. Content[q].n \in Nat /\ Content[q].token \in Nat
            BY ContentType
        <3>4. Content[q].n = Content[r].n \/ Content[q].n < Content[r].n
            BY <1>1, <3>2, <3>3
        <3>5. CASE Content[q].n = Content[r].n
            <4>1. q = r
                BY <3>1, <3>5, DistinctAssumption
            <4>2. rank[p].token = Content[r].token
                BY <3>1, <4>1, RankOfFields
            <4> QED BY <1>2, <1>4, <4>2 DEF RankOf
        <3>6. CASE Content[q].n < Content[r].n
            <4>1. Content[q].token <= Content[r].token
                BY <3>1, <3>6 DEF SentInOrder
            <4>2. rank[p].token = 0
                BY <2>1, <3>1, <3>3, <4>1, RankOfFields
            <4> QED BY <1>2, <1>4, <2>1, <4>2 DEF RankOf
        <3> QED BY <3>4, <3>5, <3>6
    <2> QED BY <2>2, <2>3
<1> QED BY <1>2, <1>3, <1>4

LEMMA RankSource ==
    ASSUME [Next]_vars
    PROVE  \/ \E r \in Report : Accepts(r) /\ Store(r)
           \/ UNCHANGED <<rank, latest>>
<1> DEFINE Same == UNCHANGED <<rank, latest>>
<1>1. ASSUME UNCHANGED vars PROVE Same
    BY <1>1 DEF vars, dbVars
<1>2. ASSUME NEW r \in Report, Redeliver(r) PROVE Same
    BY <1>2 DEF Redeliver, dbVars
<1>3. ASSUME SendEncryptionCommand PROVE Same
    BY <1>3 DEF SendEncryptionCommand
<1>4. ASSUME NEW m \in Mgmt, NEW r \in Report, UpdatePRaid(m, r)
      PROVE  (Accepts(r) /\ Store(r)) \/ Same
    BY <1>4 DEF UpdatePRaid, dbVars
<1>5. ASSUME NEW m \in Mgmt, NEW r \in Report, UpdatePRaidFails(m, r) PROVE Same
    BY <1>5 DEF UpdatePRaidFails, dbVars
<1>6. ASSUME NEW m \in Mgmt, NEW jobs \in timers[m], CalculateAgain(m, jobs) PROVE Same
    BY <1>6 DEF CalculateAgain, dbVars
<1>7. ASSUME NEW m \in Mgmt, FetchVolume(m) \/ CalculationFails(m) \/ Crash(m) PROVE Same
    BY <1>7 DEF FetchVolume, CalculationFails, Crash, dbVars
<1>8. ASSUME NEW m \in Mgmt, UpdateVolume(m) PROVE Same
    BY <1>8 DEF UpdateVolume
<1>9. ASSUME NEW m \in Mgmt, SetEncryptionCommand(m) \/ EncryptionResponse(m) PROVE Same
    BY <1>9 DEF SetEncryptionCommand, EncryptionResponse, EncryptionChanges
<1> HIDE DEF Same
<1>10. ASSUME Next PROVE (\E r \in Report : Accepts(r) /\ Store(r)) \/ Same
    BY <1>2, <1>3, <1>4, <1>5, <1>6, <1>7, <1>8, <1>9, <1>10 DEF Next
<1> QED BY <1>1, <1>10 DEF Same

LEMMA RankStep ==
    ASSUME SentInOrder, TypeOK, RankIsOfLatest, [Next]_vars
    PROVE  RankIsOfLatest' /\ Old \subseteq Old'
<1>1. /\ rank \in [PRaid -> [token : Nat, major : Nat, minor : Nat, term : Nat]]
      /\ latest \in [PRaid -> Nat]
    BY DEF TypeOK
<1>2. CASE UNCHANGED <<rank, latest>>
    BY <1>2 DEF RankIsOfLatest, Old
<1>3. ASSUME NEW r \in Report, Accepts(r), Store(r)
      PROVE  RankIsOfLatest' /\ Old \subseteq Old'
    <2> DEFINE p == Content[r].pRaid
    <2>1. /\ rank' = [rank EXCEPT ![p] = RankOf(r)]
          /\ latest' = [latest EXCEPT ![p] = Content[r].n]
        BY <1>3, StoredRank
    <2>2. p \in PRaid /\ Content[r].n \in Nat /\ latest[p] <= Content[r].n
        BY <1>3, ContentType, AcceptedIsNotOlder
    <2>3. RankIsOfLatest'
        <3> SUFFICES ASSUME NEW q \in PRaid
                     PROVE  \/ latest'[q] = 0 /\ rank'[q] = FirstRank
                            \/ \E x \in Report : /\ Content[x].pRaid = q
                                                 /\ latest'[q] = Content[x].n
                                                 /\ rank'[q] = RankOf(x)
            BY DEF RankIsOfLatest, RankOf, FirstRank
        <3>1. CASE q = p
            <4>1. latest'[q] = Content[r].n /\ rank'[q] = RankOf(r)
                BY <1>1, <2>1, <2>2, <3>1
            <4> QED BY <3>1, <4>1
        <3>2. CASE q # p
            <4>1. latest'[q] = latest[q] /\ rank'[q] = rank[q]
                BY <1>1, <2>1, <3>2
            <4> QED BY <4>1 DEF RankIsOfLatest
        <3> QED BY <3>1, <3>2
    <2>4. ASSUME NEW x \in Old PROVE x \in Old'
        <3>1. /\ x \in Report /\ Content[x].n \in Nat /\ Content[x].pRaid \in PRaid
              /\ latest[Content[x].pRaid] >= Content[x].n
            BY ContentType DEF Old
        <3>2. CASE Content[x].pRaid = p
            BY <1>1, <2>1, <2>2, <3>1, <3>2 DEF Old
        <3>3. CASE Content[x].pRaid # p
            BY <1>1, <2>1, <3>1, <3>3 DEF Old
        <3> QED BY <3>2, <3>3
    <2> QED BY <2>3, <2>4
<1> QED BY <1>2, <1>3, RankSource

-----------------------------------------------------------------------------
(* Where the work and the ends of handlers come from.                      *)
DoneIsOld == "error" \in missed \/ done \cap Report \subseteq Old

LEMMA NewestWinsIsDone == NewestWins <=> DoneIsOld
BY DEF NewestWins, DoneIsOld, Old

LEMMA CalculateWork ==
    ASSUME JobType, NEW m \in Mgmt, NEW jobs, Calculate(m, jobs),
           timers' = timers \/ timers' = [timers EXCEPT ![m] = @ \ {jobs}]
    PROVE  /\ \A o \in Mgmt : InWork(o)' \subseteq InWork(o) \cup jobs
           /\ \A o \in Mgmt : o # m => InWork(o)' \subseteq InWork(o)
<1> SUFFICES ASSUME NEW o \in Mgmt
             PROVE  InWork(o)' \subseteq InWork(o) \cup (IF o = m THEN jobs ELSE {})
    BY Zenon
<1>1. timers'[o] \subseteq timers[o]
    BY DEF JobType
<1>2. UNION timers'[o] \subseteq UNION timers[o]
    BY <1>1
<1>3. /\ callbacks'[o] \subseteq callbacks[o] \cup (IF o = m THEN jobs ELSE {})
      /\ next'[o] \subseteq next[o] \cup (IF o = m THEN jobs ELSE {})
    <2>1. CASE phase[m] # "idle"
        BY <2>1 DEF Calculate, JobType
    <2>2. CASE phase[m] = "idle"
        BY <2>2 DEF Calculate, JobType
    <2> QED BY <2>1, <2>2
<1> QED BY <1>2, <1>3 DEF InWork

LEMMA EndWork ==
    ASSUME JobType, NEW m \in Mgmt, NEW retry, EndOfCalculation(m, retry)
    PROVE  /\ \A o \in Mgmt : InWork(o)' \subseteq InWork(o)
           /\ done' \subseteq done \cup InWork(m)
<1> DEFINE again == (IF retry THEN ItsOwn(m) ELSE {}) \cup Meanwhile(m)
<1>1. again \subseteq InWork(m)
    BY DEF ItsOwn, Meanwhile, InWork
<1>2. timers' = [timers EXCEPT ![m] = IF retry \/ again # {} THEN @ \cup {again} ELSE @]
    BY DEF EndOfCalculation
<1>3. ASSUME NEW o \in Mgmt PROVE InWork(o)' \subseteq InWork(o)
    <2>1. timers'[o] \subseteq timers[o] \cup (IF o = m THEN {again} ELSE {})
        <3> HIDE DEF again
        <3>1. timers \in [Mgmt -> SUBSET SUBSET Job]
            BY DEF JobType
        <3> QED BY <1>2, <3>1
    <2>2. UNION timers'[o] \subseteq InWork(o)
        <3> HIDE DEF again
        <3>1. UNION timers[o] \subseteq InWork(o)
            BY DEF InWork
        <3> QED BY <1>1, <2>1, <3>1
    <2>3. callbacks'[o] \subseteq InWork(o) /\ next'[o] \subseteq InWork(o)
        BY DEF EndOfCalculation, JobType, InWork
    <2> QED BY <2>2, <2>3 DEF InWork
<1>4. done' \subseteq done \cup InWork(m)
    BY DEF EndOfCalculation, InWork
<1> QED BY <1>3, <1>4

LEMMA SameWork ==
    ASSUME UNCHANGED <<callbacks, next, timers>>
    PROVE  \A o \in Mgmt : InWork(o)' = InWork(o)
BY DEF InWork

(* Work that goes on, and handlers that end: nothing that is newer.        *)
LEMMA GoesOn ==
    ASSUME WorkIsOld, DoneIsOld, Old \subseteq Old',
           "error" \in missed => "error" \in missed',
           \A o \in Mgmt : InWork(o)' \cap Report \subseteq InWork(o) \cup Old',
           \/ "error" \in missed'
           \/ \E m \in Mgmt : done' \cap Report \subseteq done \cup InWork(m) \cup Old'
           \/ done' \subseteq done
    PROVE  WorkIsOld' /\ DoneIsOld'
BY DEF WorkIsOld, DoneIsOld

LEMMA WorkStep ==
    ASSUME SentInOrder, OrderInv, [Next]_vars
    PROVE  WorkIsOld' /\ DoneIsOld'
<1>1. TypeOK /\ RankIsOfLatest /\ WorkIsOld /\ DoneIsOld
    BY NewestWinsIsDone DEF OrderInv
<1>2. Old \subseteq Old' /\ JobType
    BY <1>1, RankStep, TypeParts
<1> DEFINE Goal == WorkIsOld' /\ DoneIsOld'
<1>3. ASSUME UNCHANGED vars PROVE Goal
    BY <1>1, <1>2, <1>3, GoesOn, SameWork DEF vars, calcVars, history
<1>4. ASSUME NEW r \in Report, Redeliver(r) PROVE Goal
    BY <1>1, <1>2, <1>4, GoesOn, SameWork DEF Redeliver, calcVars, history
<1>5. ASSUME SendEncryptionCommand PROVE Goal
    <2>1. done' \subseteq done /\ missed' = missed
        BY <1>5 DEF SendEncryptionCommand
    <2> QED BY <1>1, <1>2, <1>5, <2>1, GoesOn, SameWork DEF SendEncryptionCommand, calcVars
<1>6. ASSUME NEW m \in Mgmt, NEW r \in Report, UpdatePRaid(m, r) PROVE Goal
    <2>0. ("error" \in missed => "error" \in missed') /\ timers' = timers
        BY <1>6 DEF UpdatePRaid
    <2>1. CASE Accepts(r) /\ Store(r) /\ Calculate(m, {r}) /\ UNCHANGED done
        <3>1. latest' = [latest EXCEPT ![Content[r].pRaid] = Content[r].n]
            BY <2>1 DEF Store
        <3>2. latest'[Content[r].pRaid] >= Content[r].n
            BY <1>1, <3>1, ContentType DEF TypeOK
        <3>3. r \in Old'
            BY <3>2 DEF Old
        <3>4. \A o \in Mgmt : InWork(o)' \subseteq InWork(o) \cup {r}
            BY <1>2, <2>0, <2>1, CalculateWork
        <3> QED BY <1>1, <1>2, <2>0, <2>1, <3>3, <3>4, GoesOn
    <2>2. CASE /\ ~Accepts(r) /\ done' = done \cup {r}
               /\ UNCHANGED <<dbVars, phase, snapshot, callbacks, next, behind>>
        <3>1. r \in Old'
            BY <1>1, <1>2, <2>2, SkippedIsOld
        <3>2. \A o \in Mgmt : InWork(o)' = InWork(o)
            BY <2>0, <2>2, SameWork
        <3>3. done' \cap Report \subseteq done \cup InWork(m) \cup Old'
            BY <2>2, <3>1
        <3> QED BY <1>1, <1>2, <2>0, <3>2, <3>3, GoesOn
    <2> QED BY <1>6, <2>1, <2>2 DEF UpdatePRaid
<1>7. ASSUME NEW m \in Mgmt, NEW r \in Report, UpdatePRaidFails(m, r) PROVE Goal
    <2>1. "error" \in missed'
        BY <1>7 DEF UpdatePRaidFails
    <2>2. \A o \in Mgmt : InWork(o)' = InWork(o)
        BY <1>7, SameWork DEF UpdatePRaidFails, calcVars
    <2> QED BY <1>1, <1>2, <2>1, <2>2, GoesOn
<1>8. ASSUME NEW m \in Mgmt, NEW jobs \in timers[m], CalculateAgain(m, jobs) PROVE Goal
    <2>1. /\ Calculate(m, jobs) /\ timers' = [timers EXCEPT ![m] = @ \ {jobs}]
          /\ missed' = missed /\ done' = done
        BY <1>8 DEF CalculateAgain, history
    <2>2. jobs \subseteq InWork(m)
        BY DEF InWork
    <2>3. \A o \in Mgmt : InWork(o)' \subseteq InWork(o)
        BY <1>2, <2>1, <2>2, CalculateWork
    <2> QED BY <1>1, <1>2, <2>1, <2>3, GoesOn
<1>9. ASSUME NEW m \in Mgmt, FetchVolume(m) PROVE Goal
    BY <1>1, <1>2, <1>9, GoesOn, SameWork DEF FetchVolume, history
<1>10. ASSUME NEW m \in Mgmt, UpdateVolume(m) \/ CalculationFails(m) PROVE Goal
    <2>1. "error" \in missed => "error" \in missed'
        BY <1>10 DEF UpdateVolume, CalculationFails
    <2>2. EndOfCalculation(m, TRUE) \/ EndOfCalculation(m, FALSE)
        BY <1>10 DEF UpdateVolume, CalculationFails
    <2>3. /\ \A o \in Mgmt : InWork(o)' \subseteq InWork(o)
          /\ done' \subseteq done \cup InWork(m)
        BY <1>2, <2>2, EndWork
    <2> QED BY <1>1, <1>2, <2>1, <2>3, GoesOn
<1>11. ASSUME NEW m \in Mgmt, SetEncryptionCommand(m) \/ EncryptionResponse(m) PROVE Goal
    <2>1. PICK job \in {"command", "response"} : \E from, to : EncryptionChanges(m, job, from, to)
        BY <1>11 DEF SetEncryptionCommand, EncryptionResponse
    <2>2. missed' = missed /\ done' = done /\ timers' = timers
        BY <2>1 DEF EncryptionChanges, history
    <2>3. \A o \in Mgmt : InWork(o)' \subseteq InWork(o) \cup {job}
        <3>1. CASE Calculate(m, {job})
            BY <1>2, <2>2, <3>1, CalculateWork
        <3>2. CASE callbacks' = [callbacks EXCEPT ![m] = {job}] /\ next' = next
            BY <1>2, <2>2, <3>2 DEF InWork, JobType
        <3> QED BY <2>1, <3>1, <3>2 DEF EncryptionChanges
    <2>4. job \notin Report
        BY JobAssumption
    <2>5. \A o \in Mgmt : InWork(o)' \cap Report \subseteq InWork(o)
        BY <2>3, <2>4
    <2> QED BY <1>1, <1>2, <2>2, <2>5, GoesOn
<1>12. ASSUME NEW m \in Mgmt, Crash(m) PROVE Goal
    <2>1. done' = done /\ ("error" \in missed => "error" \in missed')
        BY <1>12 DEF Crash
    <2>2. \A o \in Mgmt : InWork(o)' \subseteq InWork(o)
        BY <1>2, <1>12 DEF Crash, InWork, JobType
    <2> QED BY <1>1, <1>2, <2>1, <2>2, GoesOn
<1> HIDE DEF Goal
<1>13. ASSUME Next PROVE Goal
    BY <1>4, <1>5, <1>6, <1>7, <1>8, <1>9, <1>10, <1>11, <1>12, <1>13 DEF Next
<1> QED BY <1>3, <1>13 DEF Goal

(* However reports are reordered, repeated and handled at once, none of    *)
(* those that were handled is newer than what is stored of its pRaid.      *)
THEOREM NewestReportWins ==
    ASSUME SentInOrder
    PROVE  Spec => []NewestWins
<1>1. Init => OrderInv
    <2> SUFFICES ASSUME Init PROVE OrderInv
        OBVIOUS
    <2>1. RankIsOfLatest /\ NewestWins
        BY DEF Init, RankIsOfLatest, NewestWins
    <2>2. \A m \in Mgmt : InWork(m) = {}
        BY DEF Init, InWork
    <2> QED BY <2>1, <2>2, InitType DEF OrderInv, WorkIsOld
<1>2. OrderInv /\ [Next]_vars => OrderInv'
    <2> SUFFICES ASSUME OrderInv, [Next]_vars PROVE OrderInv'
        OBVIOUS
    <2>1. TypeOK /\ RankIsOfLatest
        BY DEF OrderInv
    <2>2. TypeOK' /\ RankIsOfLatest'
        BY <2>1, NextType, RankStep
    <2>3. WorkIsOld' /\ DoneIsOld'
        BY WorkStep
    <2>4. NewestWins'
        BY <2>3 DEF NewestWins, DoneIsOld, Old
    <2> QED BY <2>2, <2>3, <2>4 DEF OrderInv
<1>3. OrderInv => NewestWins
    BY DEF OrderInv
<1> QED BY <1>1, <1>2, <1>3, PTL DEF Spec

-----------------------------------------------------------------------------
(* Settled.  A calculation that has not read the volume yet, or has to     *)
(* read it again, is ahead; another one is reading, and is as good for a   *)
(* pRaid as long as no report changed the segments it read.                *)
Due(m) == phase[m] = "fetch" \/ behind[m]

Ahead(m) == next[m] \cup (UNION timers[m]) \cup (IF Due(m) THEN callbacks[m] ELSE {})

Reading(m) == phase[m] = "update" /\ ~behind[m]

SameAt(m, p) == \A s \in SegmentsIn(p) : snapshot[m].segments[s] = volume.segments[s]

Executed(v) == v.command = "executed"

SameCommand(m) == Executed(snapshot[m]) <=> Executed(volume)

(* The last report of a pRaid covers it while somebody is to calculate the *)
(* volume for it, or it is to come again.                                  *)
HeldAt(m, r, p) == r \in Ahead(m) \/ (Reading(m) /\ SameAt(m, p) /\ r \in callbacks[m])

Covers(r, p) == r \in lost \/ \E m \in Mgmt : HeldAt(m, r, p)

Covered(p) == \E r \in Report : Content[r].pRaid = p /\ IsLatest(r) /\ Covers(r, p)

Commands == {"command", "response"}

CommandAt(m, x) == x \in Ahead(m) \/ (Reading(m) /\ SameCommand(m) /\ x \in callbacks[m])

CommandCovered == \E m \in Mgmt, x \in Commands : CommandAt(m, x)

(* A calculation that waits is for somebody, and one that does not is for  *)
(* nobody.                                                                 *)
CalcAt(m) == /\ phase[m] = "idle" => callbacks[m] = {} /\ next[m] = {}
             /\ phase[m] # "idle" => callbacks[m] # {}
             /\ {} \notin timers[m]
             /\ behind[m] => phase[m] = "update"

CalcInv == (\A m \in Mgmt : CalcAt(m)) /\ lost \subseteq toDeliver

(* There is one command at a time, until it is sent.                       *)
Once(m) == /\ ~("command" \in callbacks[m] /\ "command" \in next[m])
           /\ \A jobs \in timers[m] :
                 "command" \in jobs => "command" \notin callbacks[m] \cup next[m]
           /\ \A some, jobs \in timers[m] : "command" \in some \cap jobs => some = jobs

Holds(m) == "command" \in InWork(m)

CommandInv ==
    /\ \A m \in Mgmt : Once(m)
    /\ \A m, o \in Mgmt : Holds(m) /\ Holds(o) => m = o
    /\ "command" \in done => \A m \in Mgmt : ~Holds(m)
    /\ volume.command # "pending" => "command" \notin done /\ \A m \in Mgmt : ~Holds(m)

NoPendingAt(p) == \A s \in SegmentsIn(p) : volume.segments[s].pending = NoPending

StatusOK == volume.status = VolumeStatusOf(volume) /\ volume.action = VolumeActionOf(volume)

(* What is written by a calculation that is reading is right, or somebody  *)
(* is to calculate again; so is what is stored.                            *)
ReadsRight(m) == Reading(m) => /\ \A p \in PRaid : SameAt(m, p) \/ Covered(p)
                               /\ SameCommand(m) \/ CommandCovered

PendingIsCovered == \A p \in PRaid : NoPendingAt(p) \/ Covered(p)

StatusIsCovered == StatusOK \/ CommandCovered \/ \E p \in PRaid : Covered(p)

AllCovered == (\A m \in Mgmt : ReadsRight(m)) /\ PendingIsCovered /\ StatusIsCovered

(* What is stored of a pRaid is the version of its last report: when that  *)
(* one comes again, it is skipped only if it has nothing to change.        *)
VersionOf(r) ==
    /\ rank[Content[r].pRaid].major = Content[r].major
    /\ rank[Content[r].pRaid].minor = Content[r].minor
    /\ Content[r].token > 0 => rank[Content[r].pRaid].token = Content[r].token

VersionInv == \A r \in Report : IsLatest(r) => VersionOf(r)

SettledInv == TypeOK /\ CalcInv /\ CommandInv /\ VersionInv /\ (missed = {} => AllCovered)

LEMMA VersionStep ==
    ASSUME TypeOK, VersionInv, [Next]_vars
    PROVE  VersionInv'
<1>1. /\ rank \in [PRaid -> [token : Nat, major : Nat, minor : Nat, term : Nat]]
      /\ latest \in [PRaid -> Nat]
    BY DEF TypeOK
<1>2. CASE UNCHANGED <<rank, latest>>
    BY <1>2 DEF VersionInv, VersionOf, IsLatest
<1>3. ASSUME NEW r \in Report, Store(r) PROVE VersionInv'
    <2> DEFINE p == Content[r].pRaid
               token == IF Content[r].token > 0 THEN Content[r].token ELSE rank[p].token
    <2>1. p \in PRaid
        BY ContentType
    <2>2. /\ latest'[p] = Content[r].n
          /\ rank'[p] = [token |-> token, major |-> Content[r].major,
                         minor |-> Content[r].minor, term |-> Content[r].term]
          /\ \A q \in PRaid : q # p => latest'[q] = latest[q] /\ rank'[q] = rank[q]
        BY <1>1, <1>3, <2>1 DEF Store
    <2>3. /\ rank'[p].major = Content[r].major /\ rank'[p].minor = Content[r].minor
          /\ Content[r].token > 0 => rank'[p].token = Content[r].token
        BY <2>2
    <2>4. SUFFICES ASSUME NEW x \in Report, IsLatest(x)' PROVE VersionOf(x)'
        BY DEF VersionInv
    <2>5. CASE Content[x].pRaid = p
        <3>1. x = r
            BY <2>2, <2>4, <2>5, DistinctAssumption DEF IsLatest
        <3> QED BY <2>3, <3>1 DEF VersionOf
    <2>6. CASE Content[x].pRaid # p
        <3>1. Content[x].pRaid \in PRaid
            BY ContentType
        <3> QED BY <2>2, <2>4, <2>6, <3>1 DEF VersionInv, VersionOf, IsLatest
    <2> QED BY <2>5, <2>6
<1> QED BY <1>2, <1>3, RankSource

LEMMA SkippedHasNothing ==
    ASSUME VersionInv, NEW r \in Report, IsLatest(r), ~Accepts(r)
    PROVE  ~StatusChanges(r)
<1>1. VersionOf(r)
    BY DEF VersionInv
<1>2. SameVersion(r, rank[Content[r].pRaid])
    BY <1>1 DEF VersionOf, SameVersion
<1> QED BY <1>1, <1>2 DEF VersionOf, Accepts

LEMMA QuietIsSettled == ASSUME SettledInv PROVE SettledWhenQuiet
<1> SUFFICES ASSUME Quiet, missed = {}
             PROVE  /\ WithPending(volume) = {}
                    /\ volume.status = VolumeStatusOf(volume)
                    /\ volume.action = VolumeActionOf(volume)
    BY DEF SettledWhenQuiet
<1>1. AllCovered /\ CalcInv
    BY DEF SettledInv
<1>2. ASSUME NEW m \in Mgmt PROVE Ahead(m) = {} /\ callbacks[m] = {}
    <2>1. InWork(m) = {}
        BY DEF Quiet
    <2> QED BY <2>1 DEF InWork, Ahead
<1>3. ASSUME NEW p \in PRaid PROVE ~Covered(p)
    <2> SUFFICES ASSUME NEW r \in Report, IsLatest(r), Covers(r, p) PROVE FALSE
        BY DEF Covered
    <2>1. r \notin lost
        BY <1>1 DEF CalcInv, Quiet
    <2>2. \A m \in Mgmt : ~HeldAt(m, r, p)
        BY <1>2 DEF HeldAt
    <2> QED BY <2>1, <2>2 DEF Covers
<1>4. ~CommandCovered
    BY <1>2 DEF CommandCovered, CommandAt
<1>5. \A p \in PRaid : NoPendingAt(p)
    BY <1>1, <1>3 DEF AllCovered, PendingIsCovered
<1>6. StatusOK
    BY <1>1, <1>3, <1>4 DEF AllCovered, StatusIsCovered
<1>7. WithPending(volume) = {}
    BY <1>5, PRaidAssumption DEF NoPendingAt, SegmentsIn, WithPending
<1> QED BY <1>6, <1>7 DEF StatusOK

-----------------------------------------------------------------------------
(* What the steps of a calculation do.                                     *)
Same(o) == /\ callbacks'[o] = callbacks[o] /\ next'[o] = next[o] /\ timers'[o] = timers[o]
           /\ phase'[o] = phase[o] /\ snapshot'[o] = snapshot[o] /\ behind'[o] = behind[o]

SameButBehind(o) ==
    /\ callbacks'[o] = callbacks[o] /\ next'[o] = next[o] /\ timers'[o] = timers[o]
    /\ phase'[o] = phase[o] /\ snapshot'[o] = snapshot[o]

LEMMA CalculateParts ==
    ASSUME TypeOK, NEW m \in Mgmt, NEW jobs, Calculate(m, jobs)
    PROVE  /\ phase[m] # "idle" => /\ next'[m] = next[m] \cup jobs
                                   /\ callbacks'[m] = callbacks[m] /\ phase'[m] = phase[m]
           /\ phase[m] = "idle" => /\ callbacks'[m] = jobs /\ next'[m] = next[m]
                                   /\ phase'[m] = "fetch"
           /\ snapshot' = snapshot /\ behind' = behind
           /\ \A o \in Mgmt : o # m => /\ callbacks'[o] = callbacks[o]
                                       /\ next'[o] = next[o] /\ phase'[o] = phase[o]
<1>1. CASE phase[m] # "idle"
    BY <1>1 DEF Calculate, TypeOK
<1>2. CASE phase[m] = "idle"
    BY <1>2 DEF Calculate, TypeOK
<1> QED BY <1>1, <1>2

Again(m, retry) == (IF retry THEN callbacks[m] ELSE {}) \cup next[m]

LEMMA EndParts ==
    ASSUME TypeOK, NEW m \in Mgmt, NEW retry \in BOOLEAN, EndOfCalculation(m, retry)
    PROVE  /\ callbacks'[m] = {} /\ next'[m] = {} /\ phase'[m] = "idle"
           /\ timers'[m] = IF retry \/ Again(m, retry) # {}
                           THEN timers[m] \cup {Again(m, retry)} ELSE timers[m]
           /\ done' = IF retry THEN done ELSE done \cup callbacks[m]
           /\ \A o \in Mgmt : o # m => SameButBehind(o)
<1>1. /\ timers' = [timers EXCEPT ![m] = IF retry \/ Again(m, retry) # {}
                                         THEN @ \cup {Again(m, retry)} ELSE @]
      /\ done' = IF retry THEN done ELSE done \cup callbacks[m]
      /\ phase' = [phase EXCEPT ![m] = "idle"]
      /\ snapshot' = [snapshot EXCEPT ![m] = FirstVolume]
      /\ callbacks' = [callbacks EXCEPT ![m] = {}]
      /\ next' = [next EXCEPT ![m] = {}]
    BY DEF EndOfCalculation, ItsOwn, Meanwhile, Again
<1>2. /\ timers \in [Mgmt -> SUBSET SUBSET Job] /\ phase \in [Mgmt -> {"idle", "fetch", "update"}]
      /\ snapshot \in [Mgmt -> Volume] /\ callbacks \in [Mgmt -> SUBSET Job]
      /\ next \in [Mgmt -> SUBSET Job]
    BY DEF TypeOK
<1>3. timers'[m] = IF retry \/ Again(m, retry) # {}
                   THEN timers[m] \cup {Again(m, retry)} ELSE timers[m]
    BY <1>1, <1>2
<1>4. \A o \in Mgmt : o # m => timers'[o] = timers[o]
    BY <1>1, <1>2
<1>5. callbacks'[m] = {} /\ next'[m] = {} /\ phase'[m] = "idle"
    BY <1>1, <1>2
<1>6. \A o \in Mgmt : o # m => /\ callbacks'[o] = callbacks[o] /\ next'[o] = next[o]
                               /\ phase'[o] = phase[o] /\ snapshot'[o] = snapshot[o]
    BY <1>1, <1>2
<1> QED BY <1>1, <1>3, <1>4, <1>5, <1>6 DEF SameButBehind

LEMMA CrashParts ==
    ASSUME TypeOK, NEW m \in Mgmt, Crash(m)
    PROVE  /\ callbacks'[m] = {} /\ next'[m] = {} /\ phase'[m] = "idle"
           /\ timers'[m] = {} /\ ~behind'[m]
           /\ \A o \in Mgmt : o # m => Same(o)
BY DEF Crash, TypeOK, Same
LEMMA SameCalc ==
    ASSUME UNCHANGED calcVars
    PROVE  \A o \in Mgmt : Same(o)
BY DEF calcVars, Same

LEMMA EncryptionParts ==
    ASSUME TypeOK, NEW m \in Mgmt, NEW job, NEW from, NEW to,
           EncryptionChanges(m, job, from, to)
    PROVE  /\ phase[m] # "idle" => /\ next'[m] = next[m] \cup {job}
                                   /\ callbacks'[m] = callbacks[m] /\ phase'[m] = phase[m]
                                   /\ snapshot'[m] = snapshot[m]
           /\ phase[m] = "idle" => /\ callbacks'[m] = {job} /\ next'[m] = next[m]
                                   /\ phase'[m] = "update" /\ snapshot'[m] = volume'
           /\ timers'[m] = timers[m] /\ behind'[m] = behind[m]
           /\ \A o \in Mgmt : o # m => Same(o)
<1>0. timers' = timers
    BY DEF EncryptionChanges
<1>1. CASE phase[m] # "idle"
    <2>1. Calculate(m, {job})
        BY <1>1 DEF EncryptionChanges
    <2>2. /\ next'[m] = next[m] \cup {job}
          /\ callbacks'[m] = callbacks[m] /\ phase'[m] = phase[m]
          /\ snapshot' = snapshot /\ behind' = behind
          /\ \A o \in Mgmt : o # m => /\ callbacks'[o] = callbacks[o]
                                      /\ next'[o] = next[o] /\ phase'[o] = phase[o]
        BY <1>1, <2>1, CalculateParts
    <2> QED BY <1>0, <1>1, <2>2 DEF Same
<1>2. CASE phase[m] = "idle"
    <2>1. /\ callbacks' = [callbacks EXCEPT ![m] = {job}]
          /\ phase' = [phase EXCEPT ![m] = "update"]
          /\ snapshot' = [snapshot EXCEPT ![m] = volume']
          /\ next' = next /\ behind' = behind
        BY <1>2 DEF EncryptionChanges
    <2>2. /\ callbacks'[m] = {job} /\ phase'[m] = "update" /\ snapshot'[m] = volume'
          /\ \A o \in Mgmt : o # m => /\ callbacks'[o] = callbacks[o]
                                      /\ phase'[o] = phase[o] /\ snapshot'[o] = snapshot[o]
        BY <2>1 DEF TypeOK
    <2> QED BY <1>0, <1>2, <2>1, <2>2 DEF Same
<1> QED BY <1>1, <1>2

LEMMA EncryptionSteps ==
    ASSUME NEW m \in Mgmt, SetEncryptionCommand(m) \/ EncryptionResponse(m)
    PROVE  \/ EncryptionChanges(m, "command", "executed", "pending")
           \/ EncryptionChanges(m, "response", "sent", "executed")
BY DEF SetEncryptionCommand, EncryptionResponse

(* A request for a calculation, from a report or from a timer.             *)
Requests(m, jobs) ==
    \/ \E r \in Report : /\ UpdatePRaid(m, r) /\ Accepts(r)
                         /\ Calculate(m, {r}) /\ timers' = timers
                         /\ jobs = {r} /\ Store(r)
    \/ CalculateAgain(m, jobs) /\ Calculate(m, jobs)

LEMMA RequestParts ==
    ASSUME TypeOK, NEW m \in Mgmt, NEW jobs, Requests(m, jobs)
    PROVE  /\ timers'[m] = timers[m] \/ (jobs \in timers[m] /\ timers'[m] = timers[m] \ {jobs})
           /\ behind'[m] = behind[m] /\ snapshot'[m] = snapshot[m]
           /\ \A o \in Mgmt : o # m => Same(o)
<1>1. Calculate(m, jobs)
    BY DEF Requests
<1>2. \/ timers' = timers
      \/ jobs \in timers[m] /\ timers' = [timers EXCEPT ![m] = @ \ {jobs}]
    <2>1. timers' = timers \/ CalculateAgain(m, jobs)
        BY DEF Requests
    <2> QED BY <2>1 DEF CalculateAgain
<1>3. /\ timers'[m] = timers[m] \/ (jobs \in timers[m] /\ timers'[m] = timers[m] \ {jobs})
      /\ \A o \in Mgmt : o # m => timers'[o] = timers[o]
    BY <1>2 DEF TypeOK
<1>4. /\ snapshot' = snapshot /\ behind' = behind
      /\ \A o \in Mgmt : o # m => /\ callbacks'[o] = callbacks[o]
                                  /\ next'[o] = next[o] /\ phase'[o] = phase[o]
    BY <1>1, CalculateParts
<1> QED BY <1>3, <1>4 DEF Same

(* Which of these a step is.                                               *)
Idles   == \/ UNCHANGED vars
           \/ \E r \in Report : Redeliver(r)
           \/ SendEncryptionCommand
           \/ \E m \in Mgmt, r \in Report :
                 \/ UpdatePRaid(m, r) /\ ~Accepts(r) /\ UNCHANGED calcVars
                 \/ UpdatePRaidFails(m, r)
Asks(m) == \E jobs : Requests(m, jobs)
Ends(m) == UpdateVolume(m) \/ CalculationFails(m)
Encrypts(m) == SetEncryptionCommand(m) \/ EncryptionResponse(m)

LEMMA StepKinds ==
    ASSUME [Next]_vars
    PROVE  \/ Idles
           \/ \E m \in Mgmt : Asks(m) \/ FetchVolume(m) \/ Ends(m) \/ Encrypts(m) \/ Crash(m)
<1> DEFINE Goal == \/ Idles
                   \/ \E m \in Mgmt : Asks(m) \/ FetchVolume(m) \/ Ends(m) \/ Encrypts(m)
                                      \/ Crash(m)
<1>1. ASSUME NEW m \in Mgmt, NEW r \in Report, UpdatePRaid(m, r) PROVE Goal
    <2>1. CASE Accepts(r)
        <3>1. Store(r) /\ Calculate(m, {r}) /\ timers' = timers
            BY <1>1, <2>1 DEF UpdatePRaid
        <3>2. Requests(m, {r})
            BY <1>1, <2>1, <3>1 DEF Requests
        <3> QED BY <3>2 DEF Asks
    <2>2. CASE ~Accepts(r)
        <3>1. UNCHANGED calcVars
            BY <1>1, <2>2 DEF UpdatePRaid, calcVars
        <3> QED BY <1>1, <2>2, <3>1 DEF Idles
    <2> QED BY <2>1, <2>2
<1>2. ASSUME NEW m \in Mgmt, NEW jobs \in timers[m], CalculateAgain(m, jobs) PROVE Goal
    <2>1. Requests(m, jobs)
        BY <1>2 DEF Requests, CalculateAgain
    <2> QED BY <2>1 DEF Asks
<1>3. ASSUME UNCHANGED vars \/ SendEncryptionCommand \/ \E r \in Report : Redeliver(r)
      PROVE  Goal
    BY <1>3 DEF Idles
<1>4. ASSUME NEW m \in Mgmt, NEW r \in Report, UpdatePRaidFails(m, r) PROVE Goal
    BY <1>4 DEF Idles
<1>5. ASSUME NEW m \in Mgmt,
             \/ FetchVolume(m) \/ UpdateVolume(m) \/ CalculationFails(m)
             \/ SetEncryptionCommand(m) \/ EncryptionResponse(m) \/ Crash(m)
      PROVE  Goal
    BY <1>5 DEF Ends, Encrypts
<1> HIDE DEF Goal
<1>6. ASSUME Next PROVE Goal
    BY <1>1, <1>2, <1>3, <1>4, <1>5, <1>6 DEF Next
<1> QED BY <1>3, <1>6 DEF Goal

LEMMA IdlesSame ==
    ASSUME Idles
    PROVE  \A o \in Mgmt : Same(o)
<1>1. UNCHANGED calcVars
    BY DEF Idles, vars, Redeliver, SendEncryptionCommand, UpdatePRaidFails
<1> QED BY <1>1, SameCalc

LEMMA FetchParts ==
    ASSUME TypeOK, NEW m \in Mgmt, FetchVolume(m)
    PROVE  /\ phase[m] = "fetch" /\ phase'[m] = "update" /\ snapshot'[m] = volume
           /\ ~behind'[m] /\ callbacks'[m] = callbacks[m] /\ next'[m] = next[m]
           /\ timers'[m] = timers[m]
           /\ \A o \in Mgmt : o # m => Same(o)
BY DEF FetchVolume, TypeOK, Same

LEMMA EndsParts ==
    ASSUME TypeOK, NEW m \in Mgmt, Ends(m)
    PROVE  /\ phase[m] # "idle" /\ ~behind'[m]
           /\ \E retry \in BOOLEAN : EndOfCalculation(m, retry)
           /\ \A o \in Mgmt : o # m => \/ behind'[o] = behind[o]
                                       \/ behind'[o] = (behind[o] \/ phase[o] = "update")
<1>1. CASE UpdateVolume(m)
    <2>1. phase[m] # "idle" /\ \E retry \in BOOLEAN : EndOfCalculation(m, retry)
        BY <1>1 DEF UpdateVolume
    <2>2. CASE behind' = [o \in Mgmt |-> o # m /\ (behind[o] \/ phase[o] = "update")]
        BY <2>1, <2>2
    <2>3. CASE behind' = [behind EXCEPT ![m] = FALSE]
        BY <2>1, <2>3 DEF TypeOK
    <2> QED BY <1>1, <2>2, <2>3 DEF UpdateVolume
<1>2. CASE CalculationFails(m)
    BY <1>2 DEF CalculationFails, TypeOK
<1> QED BY <1>1, <1>2 DEF Ends
-----------------------------------------------------------------------------
(* Calculations are for somebody.                                          *)
LEMMA RequestJobs ==
    ASSUME TypeOK, CalcInv, NEW m \in Mgmt, NEW jobs, Requests(m, jobs)
    PROVE  jobs # {} /\ (jobs \in timers[m] \/ \E r \in Report : jobs = {r})
BY DEF Requests, CalculateAgain, CalcInv, CalcAt

LEMMA CalcAtStep ==
    ASSUME TypeOK, CalcInv, [Next]_vars, NEW o \in Mgmt
    PROVE  CalcAt(o)'
<1>1. CalcAt(o) /\ (\A m \in Mgmt : CalcAt(m)) /\ behind[o] \in BOOLEAN
    BY DEF CalcInv, TypeOK
<1>2. ASSUME Same(o) PROVE CalcAt(o)'
    BY <1>1, <1>2 DEF Same, CalcAt
<1>3. ASSUME NEW m \in Mgmt, Asks(m) PROVE CalcAt(o)'
    <2>1. PICK jobs : Requests(m, jobs)
        BY <1>3 DEF Asks
    <2>2. jobs # {} /\ Calculate(m, jobs)
        BY <2>1, RequestJobs DEF Requests
    <2>3. /\ timers'[m] \subseteq timers[m] /\ behind'[m] = behind[m]
          /\ \A x \in Mgmt : x # m => Same(x)
        BY <2>1, RequestParts
    <2>4. /\ phase[m] # "idle" => callbacks'[m] = callbacks[m] /\ phase'[m] = phase[m]
          /\ phase[m] = "idle" => callbacks'[m] = jobs /\ phase'[m] = "fetch"
        BY <2>2, CalculateParts
    <2>5. CASE o = m
        BY <1>1, <2>2, <2>3, <2>4, <2>5 DEF CalcAt
    <2> QED BY <1>2, <2>3, <2>5
<1>4. ASSUME NEW m \in Mgmt, FetchVolume(m) PROVE CalcAt(o)'
    <2>1. CASE o = m
        BY <1>1, <1>4, <2>1, FetchParts DEF CalcAt
    <2> QED BY <1>2, <1>4, <2>1, FetchParts
<1>5. ASSUME NEW m \in Mgmt, Ends(m) PROVE CalcAt(o)'
    <2>1. /\ phase[m] # "idle" /\ ~behind'[m]
          /\ o # m => \/ behind'[o] = behind[o]
                      \/ behind'[o] = (behind[o] \/ phase[o] = "update")
        BY <1>5, EndsParts
    <2>2. PICK retry \in BOOLEAN : EndOfCalculation(m, retry)
        BY <1>5, EndsParts
    <2>3. /\ callbacks'[m] = {} /\ next'[m] = {} /\ phase'[m] = "idle"
          /\ timers'[m] = IF retry \/ Again(m, retry) # {}
                          THEN timers[m] \cup {Again(m, retry)} ELSE timers[m]
          /\ \A x \in Mgmt : x # m => SameButBehind(x)
        BY <2>2, EndParts
    <2>4. CASE o = m
        <3>1. retry => Again(m, retry) # {}
            BY <1>1, <2>1 DEF Again, CalcAt
        <3>2. {} \notin timers'[m]
            BY <1>1, <2>3, <3>1 DEF CalcAt
        <3> QED BY <2>1, <2>3, <2>4, <3>2 DEF CalcAt
    <2>5. CASE o # m
        <3>1. SameButBehind(o)
            BY <2>3, <2>5
        <3> QED BY <1>1, <2>1, <2>5, <3>1 DEF CalcAt, SameButBehind
    <2> QED BY <2>4, <2>5
<1>6. ASSUME NEW m \in Mgmt, Encrypts(m) PROVE CalcAt(o)'
    <2>1. PICK job, from, to : EncryptionChanges(m, job, from, to)
        BY <1>6, EncryptionSteps DEF Encrypts
    <2>2. /\ phase[m] # "idle" => callbacks'[m] = callbacks[m] /\ phase'[m] = phase[m]
          /\ phase[m] = "idle" => callbacks'[m] = {job} /\ phase'[m] = "update"
          /\ timers'[m] = timers[m] /\ behind'[m] = behind[m]
          /\ \A x \in Mgmt : x # m => Same(x)
        BY <2>1, EncryptionParts
    <2>3. CASE o = m
        BY <1>1, <2>2, <2>3 DEF CalcAt
    <2> QED BY <1>2, <2>2, <2>3
<1>7. ASSUME NEW m \in Mgmt, Crash(m) PROVE CalcAt(o)'
    <2>1. CASE o = m
        BY <1>7, <2>1, CrashParts DEF CalcAt
    <2> QED BY <1>2, <1>7, <2>1, CrashParts
<1>8. ASSUME Idles PROVE CalcAt(o)'
    BY <1>2, <1>8, IdlesSame
<1> QED BY <1>3, <1>4, <1>5, <1>6, <1>7, <1>8, StepKinds

LEMMA LostStep ==
    ASSUME TypeOK, lost \subseteq toDeliver, [Next]_vars
    PROVE  lost' \subseteq toDeliver'
<1> DEFINE Goal == lost' \subseteq toDeliver'
<1>1. ASSUME UNCHANGED vars PROVE Goal
    BY <1>1 DEF vars, history
<1>2. ASSUME NEW r \in Report, Redeliver(r) PROVE Goal
    BY <1>2 DEF Redeliver, history
<1>3. ASSUME SendEncryptionCommand PROVE Goal
    BY <1>3 DEF SendEncryptionCommand
<1>4. ASSUME NEW m \in Mgmt, NEW r \in Report, UpdatePRaid(m, r) \/ UpdatePRaidFails(m, r)
      PROVE  Goal
    BY <1>4 DEF UpdatePRaid, UpdatePRaidFails, Receive
<1>5. ASSUME NEW m \in Mgmt, NEW jobs \in timers[m], CalculateAgain(m, jobs) PROVE Goal
    BY <1>5 DEF CalculateAgain, history
<1>6. ASSUME NEW m \in Mgmt, FetchVolume(m) \/ UpdateVolume(m) \/ CalculationFails(m)
      PROVE  Goal
    BY <1>6 DEF FetchVolume, UpdateVolume, CalculationFails, history
<1>7. ASSUME NEW m \in Mgmt, SetEncryptionCommand(m) \/ EncryptionResponse(m) PROVE Goal
    BY <1>7, EncryptionSteps DEF EncryptionChanges, history
<1>8. ASSUME NEW m \in Mgmt, Crash(m) PROVE Goal
    BY <1>8 DEF Crash
<1> HIDE DEF Goal
<1>9. ASSUME Next PROVE Goal
    BY <1>2, <1>3, <1>4, <1>5, <1>6, <1>7, <1>8, <1>9 DEF Next
<1> QED BY <1>1, <1>9 DEF Goal

LEMMA CalcStep == ASSUME TypeOK, CalcInv, [Next]_vars PROVE CalcInv'
<1>1. lost' \subseteq toDeliver'
    BY LostStep DEF CalcInv
<1> QED BY <1>1, CalcAtStep DEF CalcInv

-----------------------------------------------------------------------------
(* One command at a time.                                                  *)
LEMMA SameOnce ==
    ASSUME NEW o \in Mgmt, Same(o) \/ SameButBehind(o)
    PROVE  (Holds(o)' <=> Holds(o)) /\ (Once(o)' <=> Once(o))
BY DEF Same, SameButBehind, Holds, Once, InWork

LEMMA HoldsWhere ==
    ASSUME NEW o \in Mgmt
    PROVE  Holds(o) <=> \/ "command" \in callbacks[o] \/ "command" \in next[o]
                        \/ \E jobs \in timers[o] : "command" \in jobs
BY DEF Holds, InWork

LEMMA HoldsWhereNext ==
    ASSUME NEW o \in Mgmt
    PROVE  Holds(o)' <=> \/ "command" \in callbacks'[o] \/ "command" \in next'[o]
                         \/ \E jobs \in timers'[o] : "command" \in jobs
BY DEF Holds, InWork

LEMMA AsksOnce ==
    ASSUME TypeOK, CalcInv, NEW m \in Mgmt, Asks(m), Once(m)
    PROVE  Once(m)' /\ (Holds(m)' => Holds(m))
<1>1. PICK jobs : Requests(m, jobs)
    BY DEF Asks
<1>2. jobs \in timers[m] \/ \E r \in Report : jobs = {r}
    BY <1>1, RequestJobs
<1>3. "command" \in jobs => jobs \in timers[m]
    BY <1>2, JobAssumption
<1>4. CalcAt(m) /\ Calculate(m, jobs)
    BY <1>1 DEF CalcInv, Requests
<1>5. /\ phase[m] # "idle" => /\ next'[m] = next[m] \cup jobs /\ callbacks'[m] = callbacks[m]
      /\ phase[m] = "idle" => /\ callbacks'[m] = jobs /\ next'[m] = next[m]
    BY <1>4, CalculateParts
<1>6. timers'[m] = timers[m] \/ timers'[m] = timers[m] \ {jobs}
    BY <1>1, RequestParts
<1>7. "command" \in jobs => timers'[m] = timers[m] \ {jobs}
    <2>1. ASSUME "command" \in jobs PROVE CalculateAgain(m, jobs)
        <3>1. ~\E r \in Report : jobs = {r}
            BY <2>1, JobAssumption
        <3> QED BY <1>1, <3>1 DEF Requests
    <2> QED BY <2>1 DEF CalculateAgain, TypeOK
<1>8. Once(m)'
    <2>1. CASE "command" \in jobs
        <3>1. /\ "command" \notin callbacks[m] \cup next[m]
              /\ \A some \in timers[m] : "command" \in some => some = jobs
            BY <1>3, <2>1 DEF Once
        <3>2. \A some \in timers'[m] : "command" \notin some
            BY <1>7, <2>1, <3>1
        <3>3. ~("command" \in callbacks'[m] /\ "command" \in next'[m])
            BY <1>5, <3>1
        <3> QED BY <3>2, <3>3 DEF Once
    <2>2. CASE "command" \notin jobs
        <3>1. /\ "command" \in callbacks'[m] => "command" \in callbacks[m]
              /\ "command" \in next'[m] => "command" \in next[m]
              /\ timers'[m] \subseteq timers[m]
            BY <1>5, <1>6, <2>2
        <3> QED BY <3>1 DEF Once
    <2> QED BY <2>1, <2>2
<1>9. Holds(m)' => Holds(m)
    BY <1>3, <1>5, <1>6, HoldsWhere, HoldsWhereNext
<1> QED BY <1>8, <1>9

LEMMA EndsOnce ==
    ASSUME TypeOK, CalcInv, NEW m \in Mgmt, Ends(m), Once(m)
    PROVE  /\ Once(m)' /\ (Holds(m)' => Holds(m))
           /\ "command" \in done' => "command" \in done \/ (Holds(m) /\ ~Holds(m)')
<1>1. PICK retry \in BOOLEAN : EndOfCalculation(m, retry)
    BY EndsParts
<1>2. /\ callbacks'[m] = {} /\ next'[m] = {}
      /\ timers'[m] = timers[m] \/ timers'[m] = timers[m] \cup {Again(m, retry)}
      /\ done' = IF retry THEN done ELSE done \cup callbacks[m]
    BY <1>1, EndParts
<1>3. "command" \in Again(m, retry) => "command" \in callbacks[m] \cup next[m]
    BY DEF Again
<1>4. Once(m)'
    BY <1>2, <1>3 DEF Once
<1>5. Holds(m)' => Holds(m)
    BY <1>2, <1>3, HoldsWhere, HoldsWhereNext
<1>6. ASSUME "command" \in done', "command" \notin done PROVE Holds(m) /\ ~Holds(m)'
    <2>1. "command" \in callbacks[m] /\ ~retry
        BY <1>2, <1>6
    <2>2. "command" \notin next[m] /\ \A jobs \in timers[m] : "command" \notin jobs
        BY <2>1 DEF Once
    <2>3. "command" \notin Again(m, retry)
        BY <2>1, <2>2 DEF Again
    <2> QED BY <1>2, <2>1, <2>2, <2>3, HoldsWhere, HoldsWhereNext
<1> QED BY <1>4, <1>5, <1>6

LEMMA EncryptsOnce ==
    ASSUME TypeOK, CalcInv, NEW m \in Mgmt, NEW job, NEW from, NEW to, Once(m),
           EncryptionChanges(m, job, from, to), job = "command" => ~Holds(m)
    PROVE  Once(m)' /\ (Holds(m)' => Holds(m) \/ job = "command")
<1>1. CalcAt(m)
    BY DEF CalcInv
<1>2. /\ phase[m] # "idle" => next'[m] = next[m] \cup {job} /\ callbacks'[m] = callbacks[m]
      /\ phase[m] = "idle" => callbacks'[m] = {job} /\ next'[m] = next[m]
      /\ timers'[m] = timers[m]
    BY EncryptionParts
<1>3. /\ job = "command" => /\ "command" \notin callbacks[m] /\ "command" \notin next[m]
                            /\ \A jobs \in timers[m] : "command" \notin jobs
    BY HoldsWhere
<1>4. Once(m)'
    <2>1. CASE job = "command"
        <3>1. \A jobs \in timers'[m] : "command" \notin jobs
            BY <1>2, <1>3, <2>1
        <3>2. ~("command" \in callbacks'[m] /\ "command" \in next'[m])
            BY <1>2, <1>3, <2>1
        <3> QED BY <3>1, <3>2 DEF Once
    <2>2. CASE job # "command"
        <3>1. /\ "command" \in callbacks'[m] => "command" \in callbacks[m]
              /\ "command" \in next'[m] => "command" \in next[m]
            BY <1>2, <2>2
        <3> QED BY <1>2, <3>1 DEF Once
    <2> QED BY <2>1, <2>2
<1>5. Holds(m)' => Holds(m) \/ job = "command"
    BY <1>2, HoldsWhere, HoldsWhereNext
<1> QED BY <1>4, <1>5
LEMMA PlainVolume ==
    ASSUME TypeOK, NEW m \in Mgmt, Asks(m) \/ FetchVolume(m) \/ Ends(m) \/ Crash(m)
    PROVE  volume'.command = volume.command
<1>0. volume \in Volume
    BY DEF TypeOK
<1>1. ASSUME NEW r \in Report, Store(r) PROVE volume'.command = volume.command
    BY <1>0, <1>1 DEF Store, Volume
<1>2. ASSUME volume' = Applying(snapshot[m]) PROVE volume'.command = volume.command
    BY <1>0, <1>2 DEF Applying, Volume
<1>3. CASE Asks(m)
    <2>1. PICK jobs : Requests(m, jobs)
        BY <1>3 DEF Asks
    <2>2. (\E r \in Report : Store(r)) \/ UNCHANGED volume
        BY <2>1 DEF Requests, CalculateAgain, dbVars
    <2> QED BY <1>1, <2>2
<1>4. CASE FetchVolume(m) \/ Ends(m) \/ Crash(m)
    <2>1. volume' = Applying(snapshot[m]) \/ UNCHANGED volume
        BY <1>4 DEF FetchVolume, Ends, UpdateVolume, CalculationFails, Crash, dbVars
    <2> QED BY <1>2, <2>1
<1> QED BY <1>3, <1>4

LEMMA DoneSame ==
    ASSUME TypeOK, NEW m \in Mgmt,
           Asks(m) \/ FetchVolume(m) \/ Encrypts(m) \/ Crash(m)
    PROVE  "command" \in done' => "command" \in done
<1>1. ASSUME Asks(m) PROVE done' = done
    <2>1. PICK jobs : Requests(m, jobs)
        BY <1>1 DEF Asks
    <2>2. CASE CalculateAgain(m, jobs)
        BY <2>2 DEF CalculateAgain, history
    <2>3. ASSUME NEW r \in Report, UpdatePRaid(m, r), Accepts(r) PROVE done' = done
        BY <2>3 DEF UpdatePRaid
    <2> QED BY <2>1, <2>2, <2>3 DEF Requests
<1>2. ASSUME FetchVolume(m) \/ Crash(m) PROVE done' = done
    BY <1>2 DEF FetchVolume, Crash, history
<1>3. ASSUME Encrypts(m) PROVE done' = done
    BY <1>3, EncryptionSteps DEF Encrypts, EncryptionChanges, history
<1> QED BY <1>1, <1>2, <1>3

LEMMA CommandStep ==
    ASSUME TypeOK, CalcInv, CommandInv, [Next]_vars
    PROVE  CommandInv'
<1>0. /\ \A m \in Mgmt : Once(m)
      /\ \A m, o \in Mgmt : Holds(m) /\ Holds(o) => m = o
      /\ "command" \in done => \A m \in Mgmt : ~Holds(m)
      /\ volume.command # "pending" => "command" \notin done /\ \A m \in Mgmt : ~Holds(m)
    BY DEF CommandInv
(* Nobody gets it but the one that asks for it. *)
<1>1. ASSUME \A m \in Mgmt : Once(m)' /\ (Holds(m)' => Holds(m)),
             "command" \in done' => \/ "command" \in done
                                    \/ \E m \in Mgmt : Holds(m) /\ ~Holds(m)',
             volume'.command = volume.command
      PROVE  CommandInv'
    <2>1. \A m, o \in Mgmt : Holds(m)' /\ Holds(o)' => m = o
        BY <1>0, <1>1
    <2>2. "command" \in done' => \A m \in Mgmt : ~Holds(m)'
        BY <1>0, <1>1
    <2>3. volume'.command # "pending" => "command" \notin done' /\ \A m \in Mgmt : ~Holds(m)'
        BY <1>0, <1>1
    <2> QED BY <1>1, <2>1, <2>2, <2>3 DEF CommandInv
<1>2. ASSUME NEW m \in Mgmt, \A o \in Mgmt : o # m => Same(o) \/ SameButBehind(o),
             Once(m)', Holds(m)' => Holds(m)
      PROVE  \A o \in Mgmt : Once(o)' /\ (Holds(o)' => Holds(o))
    BY <1>0, <1>2, SameOnce
<1>3. CASE SendEncryptionCommand
    <2>1. \A m \in Mgmt : Same(m)
        BY <1>3, IdlesSame DEF Idles
    <2>2. \A m \in Mgmt : Once(m)' /\ (Holds(m)' <=> Holds(m))
        BY <1>0, <2>1, SameOnce
    <2>3. "command" \in done /\ done' = done \ {"command"}
        BY <1>3 DEF SendEncryptionCommand
    <2>4. \A m \in Mgmt : ~Holds(m)'
        BY <1>0, <2>2, <2>3
    <2> QED BY <2>2, <2>3, <2>4 DEF CommandInv
<1>4. CASE ~SendEncryptionCommand /\ Idles
    <2>1. \A m \in Mgmt : Same(m)
        BY <1>4, IdlesSame
    <2>2. \A m \in Mgmt : Once(m)' /\ (Holds(m)' => Holds(m))
        BY <1>0, <2>1, SameOnce
    <2>3. "command" \in done' => "command" \in done
        BY <1>4, JobAssumption DEF Idles, vars, history, Redeliver, UpdatePRaid, UpdatePRaidFails
    <2>4. volume'.command = volume.command
        <3>1. ASSUME NEW r \in Report, Store(r) PROVE volume'.command = volume.command
            BY <3>1 DEF Store, TypeOK, Volume
        <3> QED BY <1>4, <3>1 DEF Idles, vars, dbVars, Redeliver, UpdatePRaid, UpdatePRaidFails
    <2> QED BY <1>1, <2>2, <2>3, <2>4
<1>5. ASSUME NEW m \in Mgmt, Asks(m) \/ FetchVolume(m) \/ Ends(m) \/ Crash(m)
      PROVE  volume'.command = volume.command
    BY <1>5, PlainVolume
<1>6. ASSUME NEW m \in Mgmt, Asks(m) PROVE CommandInv'
    <2>1. Once(m)' /\ (Holds(m)' => Holds(m))
        BY <1>0, <1>6, AsksOnce
    <2>2. \A o \in Mgmt : o # m => Same(o)
        BY <1>6, RequestParts DEF Asks
    <2>3. "command" \in done' => "command" \in done
        BY <1>6, DoneSame
    <2>4. \A o \in Mgmt : Once(o)' /\ (Holds(o)' => Holds(o))
        BY <1>2, <2>1, <2>2
    <2> QED BY <1>1, <1>5, <1>6, <2>3, <2>4
<1>7. ASSUME NEW m \in Mgmt, FetchVolume(m) PROVE CommandInv'
    <2>1. /\ callbacks'[m] = callbacks[m] /\ next'[m] = next[m] /\ timers'[m] = timers[m]
          /\ \A o \in Mgmt : o # m => Same(o)
        BY <1>7, FetchParts
    <2>2. Once(m)' /\ (Holds(m)' => Holds(m))
        BY <1>0, <2>1 DEF Once, Holds, InWork
    <2>3. "command" \in done' => "command" \in done
        BY <1>7, DoneSame
    <2>4. \A o \in Mgmt : Once(o)' /\ (Holds(o)' => Holds(o))
        BY <1>2, <2>1, <2>2
    <2> QED BY <1>1, <1>5, <1>7, <2>3, <2>4
<1>8. ASSUME NEW m \in Mgmt, Ends(m) PROVE CommandInv'
    <2>1. /\ Once(m)' /\ (Holds(m)' => Holds(m))
          /\ "command" \in done' => "command" \in done \/ (Holds(m) /\ ~Holds(m)')
        BY <1>0, <1>8, EndsOnce
    <2>2. \A o \in Mgmt : o # m => SameButBehind(o)
        BY <1>8, EndsParts, EndParts
    <2>3. \A o \in Mgmt : Once(o)' /\ (Holds(o)' => Holds(o))
        BY <1>2, <2>1, <2>2
    <2> QED BY <1>1, <1>5, <1>8, <2>1, <2>3
<1>9. ASSUME NEW m \in Mgmt, Crash(m) PROVE CommandInv'
    <2>1. /\ callbacks'[m] = {} /\ next'[m] = {} /\ timers'[m] = {}
          /\ \A o \in Mgmt : o # m => Same(o)
        BY <1>9, CrashParts
    <2>2. Once(m)' /\ ~Holds(m)'
        BY <2>1, HoldsWhereNext DEF Once
    <2>3. "command" \in done' => "command" \in done
        BY <1>9, DoneSame
    <2>4. \A o \in Mgmt : Once(o)' /\ (Holds(o)' => Holds(o))
        BY <1>2, <2>1, <2>2
    <2> QED BY <1>1, <1>5, <1>9, <2>3, <2>4
<1>10. ASSUME NEW m \in Mgmt, Encrypts(m) PROVE CommandInv'
    <2>0. \A job, from, to : EncryptionChanges(m, job, from, to) =>
             /\ volume.command = from /\ volume'.command = to
             /\ \A o \in Mgmt : o # m => Same(o)
        <3> SUFFICES ASSUME NEW job, NEW from, NEW to, EncryptionChanges(m, job, from, to)
                     PROVE  /\ volume.command = from /\ volume'.command = to
                            /\ \A o \in Mgmt : o # m => Same(o)
            OBVIOUS
        <3>1. volume.command = from /\ volume' = [volume EXCEPT !.command = to]
            BY DEF EncryptionChanges
        <3>2. volume'.command = to
            BY <3>1 DEF TypeOK, Volume
        <3> QED BY <3>1, <3>2, EncryptionParts
    <2>1. \A o \in Mgmt : ~Holds(o)
        <3>1. volume.command # "pending"
            BY <1>10, <2>0, EncryptionSteps DEF Encrypts
        <3> QED BY <1>0, <3>1
    <2>2. "command" \notin done'
        <3>1. "command" \notin done
            BY <1>0, <1>10, <2>0, EncryptionSteps DEF Encrypts
        <3> QED BY <1>10, <3>1, DoneSame
    <2>3. Once(m)'
        BY <1>0, <1>10, <2>1, EncryptsOnce, EncryptionSteps DEF Encrypts
    <2>4. \A o \in Mgmt : o # m => Once(o)' /\ ~Holds(o)'
        BY <1>0, <1>10, <2>0, <2>1, SameOnce, EncryptionSteps DEF Encrypts
    <2>5. Holds(m)' => volume'.command = "pending"
        <3>1. CASE EncryptionChanges(m, "command", "executed", "pending")
            BY <2>0, <3>1
        <3>2. CASE EncryptionChanges(m, "response", "sent", "executed")
            BY <1>0, <2>1, <3>2, EncryptsOnce
        <3> QED BY <1>10, <3>1, <3>2, EncryptionSteps DEF Encrypts
    <2>6. \A o \in Mgmt : Once(o)'
        BY <2>3, <2>4
    <2>7. \A o, q \in Mgmt : Holds(o)' /\ Holds(q)' => o = q
        BY <2>4
    <2>8. volume'.command # "pending" => \A o \in Mgmt : ~Holds(o)'
        BY <2>4, <2>5
    <2> QED BY <2>2, <2>6, <2>7, <2>8 DEF CommandInv
<1> QED BY <1>3, <1>4, <1>6, <1>7, <1>8, <1>9, <1>10, StepKinds
-----------------------------------------------------------------------------
(* What a step leaves of the work of a management, and of what it read.    *)
Kept(o, x) ==
    /\ x \in Ahead(o) => \/ x \in Ahead(o)'
                         \/ Reading(o)' /\ snapshot'[o] = volume' /\ x \in callbacks'[o]
    /\ Reading(o) /\ x \in callbacks[o] =>
          \/ x \in Ahead(o)'
          \/ Reading(o)' /\ snapshot'[o] = snapshot[o] /\ x \in callbacks'[o]

ReadsOn(o) == Reading(o)' => \/ Reading(o) /\ snapshot'[o] = snapshot[o]
                             \/ snapshot'[o] = volume'

Fine(o) == (\A x \in Job : Kept(o, x)) /\ ReadsOn(o)

LEMMA AheadWhere ==
    ASSUME NEW o \in Mgmt, NEW x
    PROVE  x \in Ahead(o) <=> \/ x \in next[o] \/ \E jobs \in timers[o] : x \in jobs
                              \/ Due(o) /\ x \in callbacks[o]
<1>1. x \in UNION timers[o] <=> \E jobs \in timers[o] : x \in jobs
    OBVIOUS
<1>2. x \in (IF Due(o) THEN callbacks[o] ELSE {}) <=> Due(o) /\ x \in callbacks[o]
    OBVIOUS
<1>3. x \in Ahead(o) <=> \/ x \in next[o] \/ x \in UNION timers[o]
                         \/ x \in (IF Due(o) THEN callbacks[o] ELSE {})
    BY DEF Ahead
<1> QED BY <1>1, <1>2, <1>3

LEMMA AheadWhereNext ==
    ASSUME NEW o \in Mgmt, NEW x
    PROVE  x \in Ahead(o)' <=> \/ x \in next'[o] \/ \E jobs \in timers'[o] : x \in jobs
                               \/ Due(o)' /\ x \in callbacks'[o]
<1>1. x \in UNION timers'[o] <=> \E jobs \in timers'[o] : x \in jobs
    OBVIOUS
<1>2. x \in (IF Due(o)' THEN callbacks'[o] ELSE {}) <=> Due(o)' /\ x \in callbacks'[o]
    OBVIOUS
<1>3. x \in Ahead(o)' <=> \/ x \in next'[o] \/ x \in UNION timers'[o]
                          \/ x \in (IF Due(o)' THEN callbacks'[o] ELSE {})
    BY DEF Ahead
<1> QED BY <1>1, <1>2, <1>3

LEMMA SameFine ==
    ASSUME NEW o \in Mgmt, Same(o)
    PROVE  Fine(o)
<1>1. Ahead(o)' = Ahead(o) /\ (Reading(o)' <=> Reading(o))
    BY DEF Same, Ahead, Due, Reading
<1> QED BY <1>1 DEF Same, Fine, Kept, ReadsOn

LEMMA BehindFine ==
    ASSUME TypeOK, NEW o \in Mgmt, SameButBehind(o),
           behind'[o] = behind[o] \/ behind'[o] = (behind[o] \/ phase[o] = "update")
    PROVE  Fine(o)
<1>0. behind[o] \in BOOLEAN
    BY DEF TypeOK
<1>1. Ahead(o) \subseteq Ahead(o)'
    BY <1>0 DEF SameButBehind, Ahead, Due
<1>2. Reading(o)' => Reading(o)
    BY <1>0 DEF SameButBehind, Reading
<1>3. Reading(o) => Reading(o)' \/ callbacks[o] \subseteq Ahead(o)'
    BY <1>0, AheadWhereNext DEF SameButBehind, Reading, Due
<1> QED BY <1>1, <1>2, <1>3 DEF SameButBehind, Fine, Kept, ReadsOn

LEMMA AsksFine ==
    ASSUME TypeOK, CalcInv, NEW m \in Mgmt, Asks(m)
    PROVE  /\ \A o \in Mgmt : Fine(o)
           /\ \E jobs : Requests(m, jobs) /\ jobs \subseteq Ahead(m)'
<1>1. PICK jobs : Requests(m, jobs)
    BY DEF Asks
<1>2. CalcAt(m) /\ Calculate(m, jobs) /\ phase[m] \in {"idle", "fetch", "update"}
    BY <1>1 DEF CalcInv, Requests, TypeOK
<1>3. /\ phase[m] # "idle" => /\ next'[m] = next[m] \cup jobs
                              /\ callbacks'[m] = callbacks[m] /\ phase'[m] = phase[m]
      /\ phase[m] = "idle" => /\ callbacks'[m] = jobs /\ next'[m] = next[m]
                              /\ phase'[m] = "fetch"
    BY <1>2, CalculateParts
<1>4. /\ timers'[m] = timers[m] \/ (jobs \in timers[m] /\ timers'[m] = timers[m] \ {jobs})
      /\ behind'[m] = behind[m] /\ snapshot'[m] = snapshot[m]
      /\ \A o \in Mgmt : o # m => Same(o)
    BY <1>1, RequestParts
<1>5. jobs \subseteq Ahead(m)'
    BY <1>3, AheadWhereNext DEF Due
<1>6. ASSUME NEW x, \E some \in timers[m] : x \in some PROVE x \in Ahead(m)'
    <2>1. PICK some \in timers[m] : x \in some
        BY <1>6
    <2>2. CASE some = jobs
        BY <1>5, <2>1, <2>2
    <2>3. CASE some # jobs
        BY <1>4, <2>1, <2>3, AheadWhereNext
    <2> QED BY <2>2, <2>3
<1>7. ASSUME NEW x \in next[m] PROVE x \in Ahead(m)'
    BY <1>3, <1>7, AheadWhereNext
<1>8. ASSUME Due(m), NEW x \in callbacks[m] PROVE x \in Ahead(m)'
    <2>1. phase[m] # "idle"
        BY <1>2, <1>8 DEF Due, CalcAt
    <2>2. Due(m)' /\ x \in callbacks'[m]
        BY <1>3, <1>4, <1>8, <2>1 DEF Due
    <2> QED BY <2>2, AheadWhereNext
<1>10. Ahead(m) \subseteq Ahead(m)'
    BY <1>6, <1>7, <1>8, AheadWhere
<1>11. Reading(m) => Reading(m)' /\ callbacks'[m] = callbacks[m]
    BY <1>3, <1>4 DEF Reading
<1>12. Reading(m)' => Reading(m)
    BY <1>2, <1>3, <1>4 DEF Reading
<1>13. Fine(m)
    BY <1>4, <1>10, <1>11, <1>12 DEF Fine, Kept, ReadsOn
<1>14. \A o \in Mgmt : Fine(o)
    BY <1>4, <1>13, SameFine
<1> QED BY <1>1, <1>5, <1>14

LEMMA FetchFine ==
    ASSUME TypeOK, CalcInv, NEW m \in Mgmt, FetchVolume(m)
    PROVE  \A o \in Mgmt : Fine(o)
<1>1. /\ phase[m] = "fetch" /\ phase'[m] = "update" /\ snapshot'[m] = volume
      /\ ~behind'[m] /\ callbacks'[m] = callbacks[m] /\ next'[m] = next[m]
      /\ timers'[m] = timers[m] /\ volume' = volume
      /\ \A o \in Mgmt : o # m => Same(o)
    BY FetchParts DEF FetchVolume, dbVars
<1>2. Reading(m)' /\ ~Reading(m) /\ snapshot'[m] = volume'
    BY <1>1 DEF Reading
<1>3. Ahead(m) \subseteq Ahead(m)' \cup callbacks'[m]
    BY <1>1, AheadWhere, AheadWhereNext DEF Due
<1>4. Fine(m)
    BY <1>2, <1>3 DEF Fine, Kept, ReadsOn
<1> QED BY <1>1, <1>4, SameFine

LEMMA EncryptsFine ==
    ASSUME TypeOK, CalcInv, NEW m \in Mgmt, NEW job, NEW from, NEW to,
           EncryptionChanges(m, job, from, to)
    PROVE  /\ \A o \in Mgmt : Fine(o)
           /\ \/ job \in Ahead(m)'
              \/ Reading(m)' /\ snapshot'[m] = volume' /\ job \in callbacks'[m]
<1>1. CalcAt(m) /\ phase[m] \in {"idle", "fetch", "update"}
    BY DEF CalcInv, TypeOK
<1>2. /\ phase[m] # "idle" => /\ next'[m] = next[m] \cup {job}
                              /\ callbacks'[m] = callbacks[m] /\ phase'[m] = phase[m]
                              /\ snapshot'[m] = snapshot[m]
      /\ phase[m] = "idle" => /\ callbacks'[m] = {job} /\ next'[m] = next[m]
                              /\ phase'[m] = "update" /\ snapshot'[m] = volume'
      /\ timers'[m] = timers[m] /\ behind'[m] = behind[m]
      /\ \A o \in Mgmt : o # m => Same(o)
    BY EncryptionParts
<1>3. Ahead(m) \subseteq Ahead(m)'
    BY <1>1, <1>2, AheadWhere, AheadWhereNext DEF Due, CalcAt
<1>4. Reading(m) => Reading(m)' /\ callbacks'[m] = callbacks[m] /\ snapshot'[m] = snapshot[m]
    BY <1>2 DEF Reading
<1>5. ReadsOn(m)
    BY <1>1, <1>2 DEF ReadsOn, Reading
<1>6. Fine(m)
    BY <1>3, <1>4, <1>5 DEF Fine, Kept
<1>7. \/ job \in Ahead(m)'
      \/ Reading(m)' /\ snapshot'[m] = volume' /\ job \in callbacks'[m]
    <2>1. CASE phase[m] # "idle"
        BY <1>2, <2>1 DEF Ahead
    <2>2. CASE phase[m] = "idle"
        <3>1. ~behind'[m]
            BY <1>1, <1>2, <2>2 DEF CalcAt
        <3> QED BY <1>2, <2>2, <3>1 DEF Reading
    <2> QED BY <2>1, <2>2
<1> QED BY <1>2, <1>6, <1>7, SameFine

LEMMA RetryFine ==
    ASSUME TypeOK, CalcInv, NEW m \in Mgmt, Ends(m), EndOfCalculation(m, TRUE)
    PROVE  \A o \in Mgmt : Fine(o)
<1>1. /\ callbacks'[m] = {} /\ next'[m] = {} /\ phase'[m] = "idle"
      /\ timers'[m] = timers[m] \cup {Again(m, TRUE)}
      /\ \A o \in Mgmt : o # m => SameButBehind(o)
    BY EndParts
<1>2. Again(m, TRUE) = callbacks[m] \cup next[m]
    BY DEF Again
<1>3. Again(m, TRUE) \in timers'[m] /\ timers[m] \subseteq timers'[m]
    BY <1>1
<1>4. Ahead(m) \cup callbacks[m] \subseteq Ahead(m)'
    BY <1>2, <1>3, AheadWhere, AheadWhereNext
<1>5. ~Reading(m)'
    BY <1>1 DEF Reading
<1>6. Fine(m)
    BY <1>4, <1>5 DEF Fine, Kept, ReadsOn
<1>7. \A o \in Mgmt : o # m => Fine(o)
    BY <1>1, EndsParts, BehindFine
<1> QED BY <1>6, <1>7
-----------------------------------------------------------------------------
(* Covers last.                                                            *)
LEMMA HeldLasts ==
    ASSUME NEW p \in PRaid, NEW r \in Report, NEW o \in Mgmt, HeldAt(o, r, p), Kept(o, r),
           \A s \in SegmentsIn(p) : volume'.segments[s] = volume.segments[s]
    PROVE  HeldAt(o, r, p)'
<1>1. SameAt(o, p) /\ snapshot'[o] = snapshot[o] => SameAt(o, p)'
    BY DEF SameAt, SegmentsIn
<1>2. snapshot'[o] = volume' => SameAt(o, p)'
    BY DEF SameAt
<1>3. CASE r \in Ahead(o)
    BY <1>2, <1>3 DEF Kept, HeldAt
<1>4. CASE Reading(o) /\ SameAt(o, p) /\ r \in callbacks[o]
    BY <1>1, <1>4 DEF Kept, HeldAt
<1> QED BY <1>3, <1>4 DEF HeldAt

LEMMA CoverLasts ==
    ASSUME NEW p \in PRaid, Covered(p), latest'[p] = latest[p],
           \A r \in Report : IsLatest(r) /\ r \in lost => r \in lost',
           \A r \in Report, o \in Mgmt :
              IsLatest(r) /\ HeldAt(o, r, p) => HeldAt(o, r, p)' \/ r \in lost'
    PROVE  Covered(p)'
<1>1. PICK r \in Report : Content[r].pRaid = p /\ IsLatest(r) /\ Covers(r, p)
    BY DEF Covered
<1>2. IsLatest(r)'
    BY <1>1 DEF IsLatest
<1>3. Covers(r, p)'
    <2>1. CASE r \in lost
        BY <1>1, <2>1 DEF Covers
    <2>2. ASSUME NEW o \in Mgmt, HeldAt(o, r, p) PROVE Covers(r, p)'
        <3>1. HeldAt(o, r, p)' \/ r \in lost'
            BY <1>1, <2>2
        <3> QED BY <3>1 DEF Covers
    <2> QED BY <1>1, <2>1, <2>2 DEF Covers
<1> QED BY <1>1, <1>2, <1>3 DEF Covered

LEMMA CommandLasts ==
    ASSUME CommandCovered, Executed(volume') <=> Executed(volume),
           \A o \in Mgmt, x \in Commands : CommandAt(o, x) => Kept(o, x)
    PROVE  CommandCovered'
<1>1. PICK o \in Mgmt, x \in Commands : CommandAt(o, x)
    BY DEF CommandCovered
<1>2. Kept(o, x)
    BY <1>1
<1>3. snapshot'[o] = volume' => SameCommand(o)'
    BY DEF SameCommand
<1>4. SameCommand(o) /\ snapshot'[o] = snapshot[o] => SameCommand(o)'
    BY DEF SameCommand
<1>5. CommandAt(o, x)'
    BY <1>1, <1>2, <1>3, <1>4 DEF Kept, CommandAt
<1> QED BY <1>5 DEF CommandCovered

(* The status is that of the segments and of the command.                  *)
LEMMA SameStatus ==
    ASSUME NEW v, NEW w, \A s \in Segment : Effective(v.segments[s]) = Effective(w.segments[s])
    PROVE  /\ VolumeStatusOf(v) = VolumeStatusOf(w)
           /\ (Executed(v) <=> Executed(w)) => VolumeActionOf(v) = VolumeActionOf(w)
<1>1. \A p \in PRaid : States(v, p) = States(w, p)
    BY DEF States, SegmentsIn
<1>2. \A p \in PRaid : PRaidStatus(v, p) = PRaidStatus(w, p)
    BY <1>1 DEF PRaidStatus
<1>3. \A p \in PRaid : PRaidAction(v, p) = PRaidAction(w, p)
    BY <1>1 DEF PRaidAction
<1>4. {PRaidStatus(v, p) : p \in PRaid} = {PRaidStatus(w, p) : p \in PRaid}
    BY <1>2
<1>5. {PRaidAction(v, p) : p \in PRaid} = {PRaidAction(w, p) : p \in PRaid}
    BY <1>3
<1>6. VolumeStatusOf(v) = VolumeStatusOf(w)
    BY <1>4 DEF VolumeStatusOf
<1>7. ASSUME Executed(v) <=> Executed(w) PROVE VolumeActionOf(v) = VolumeActionOf(w)
    BY <1>5, <1>7 DEF VolumeActionOf, Executed
<1> QED BY <1>6, <1>7

LEMMA SegmentsOf == \A s \in Segment : \E p \in PRaid : s \in SegmentsIn(p)
BY PRaidAssumption DEF SegmentsIn

(* A step that changes neither the segments nor whether a command is in    *)
(* work, and stores no status.                                             *)
LEMMA NothingNew ==
    ASSUME TypeOK, AllCovered, volume'.segments = volume.segments,
           volume'.status = volume.status, volume'.action = volume.action,
           Executed(volume') <=> Executed(volume),
           \A p \in PRaid : Covered(p) => Covered(p)',
           CommandCovered => CommandCovered',
           \A o \in Mgmt : ReadsOn(o)
    PROVE  AllCovered'
<1>1. (\A m \in Mgmt : ReadsRight(m)) /\ PendingIsCovered /\ StatusIsCovered
    BY DEF AllCovered
<1>2. ASSUME NEW o \in Mgmt PROVE ReadsRight(o)'
    <2> SUFFICES ASSUME Reading(o)'
                 PROVE  /\ \A p \in PRaid : SameAt(o, p)' \/ Covered(p)'
                        /\ SameCommand(o)' \/ CommandCovered'
        BY DEF ReadsRight
    <2>1. CASE snapshot'[o] = volume'
        BY <2>1 DEF SameAt, SameCommand
    <2>2. CASE Reading(o) /\ snapshot'[o] = snapshot[o]
        <3>1. \A p \in PRaid : SameAt(o, p) \/ Covered(p)
            BY <1>1, <2>2 DEF ReadsRight
        <3>2. \A p \in PRaid : SameAt(o, p) => SameAt(o, p)'
            BY <2>2 DEF SameAt, SegmentsIn
        <3>3. SameCommand(o) \/ CommandCovered
            BY <1>1, <2>2 DEF ReadsRight
        <3>4. SameCommand(o) => SameCommand(o)'
            BY <2>2 DEF SameCommand
        <3> QED BY <3>1, <3>2, <3>3, <3>4
    <2> QED BY <2>1, <2>2 DEF ReadsOn
<1>3. PendingIsCovered'
    <2>1. \A p \in PRaid : NoPendingAt(p) => NoPendingAt(p)'
        BY DEF NoPendingAt, SegmentsIn
    <2> QED BY <1>1, <2>1 DEF PendingIsCovered
<1>4. StatusOK => StatusOK'
    BY SameStatus DEF StatusOK
<1>5. StatusIsCovered'
    BY <1>1, <1>4 DEF StatusIsCovered
<1> QED BY <1>2, <1>3, <1>5 DEF AllCovered

LEMMA FineStep ==
    ASSUME TypeOK, AllCovered, volume'.segments = volume.segments,
           volume'.status = volume.status, volume'.action = volume.action,
           Executed(volume') <=> Executed(volume), latest' = latest,
           \A r \in Report : IsLatest(r) /\ r \in lost => r \in lost',
           \A o \in Mgmt : Fine(o)
    PROVE  AllCovered'
<1>1. Report \subseteq Job /\ Commands \subseteq Job
    BY DEF Job, Commands
<1>2. \A o \in Mgmt, x \in Job : Kept(o, x)
    BY DEF Fine
<1>3. ASSUME NEW p \in PRaid, Covered(p) PROVE Covered(p)'
    <2>1. \A r \in Report, o \in Mgmt : HeldAt(o, r, p) => HeldAt(o, r, p)'
        BY <1>1, <1>2, HeldLasts
    <2> QED BY <1>3, <2>1, CoverLasts
<1>4. CommandCovered => CommandCovered'
    BY <1>1, <1>2, CommandLasts
<1>5. \A o \in Mgmt : ReadsOn(o)
    BY DEF Fine
<1> QED BY <1>3, <1>4, <1>5, NothingNew
-----------------------------------------------------------------------------
(* The steps.                                                              *)
LEMMA MissedLasts == ASSUME [Next]_vars PROVE missed \subseteq missed'
<1> DEFINE Goal == missed \subseteq missed'
<1>1. ASSUME missed' = missed PROVE Goal
    BY <1>1
<1>2. CASE Idles
    BY <1>2 DEF Idles, vars, history, Redeliver, SendEncryptionCommand, UpdatePRaid,
                UpdatePRaidFails
<1>3. ASSUME NEW m \in Mgmt, Asks(m) PROVE Goal
    <2>1. PICK jobs : Requests(m, jobs)
        BY <1>3 DEF Asks
    <2>2. CASE CalculateAgain(m, jobs)
        BY <2>2 DEF CalculateAgain, history
    <2>3. ASSUME NEW r \in Report, UpdatePRaid(m, r) PROVE Goal
        BY <2>3 DEF UpdatePRaid
    <2> QED BY <2>1, <2>2, <2>3 DEF Requests
<1>4. ASSUME NEW m \in Mgmt, FetchVolume(m) \/ Ends(m) \/ Crash(m) PROVE Goal
    BY <1>4 DEF FetchVolume, Ends, UpdateVolume, CalculationFails, Crash, history
<1>5. ASSUME NEW m \in Mgmt, Encrypts(m) PROVE Goal
    BY <1>5, EncryptionSteps DEF Encrypts, EncryptionChanges, history
<1> HIDE DEF Goal
<1> QED BY <1>2, <1>3, <1>4, <1>5, StepKinds DEF Goal

LEMMA IdlesStep ==
    ASSUME TypeOK, AllCovered, CommandInv, VersionInv, Idles, missed' = {}
    PROVE  AllCovered'
<1>1. \A o \in Mgmt : Fine(o)
    BY IdlesSame, SameFine
<1>2. CASE SendEncryptionCommand
    <2>1. volume' = [volume EXCEPT !.command = "sent"] /\ UNCHANGED <<latest, lost>>
        BY <1>2 DEF SendEncryptionCommand
    <2>2. volume.command = "pending"
        BY <1>2 DEF SendEncryptionCommand, CommandInv
    <2>3. /\ volume'.segments = volume.segments /\ volume'.status = volume.status
          /\ volume'.action = volume.action /\ (Executed(volume') <=> Executed(volume))
        BY <2>1, <2>2 DEF Executed, TypeOK, Volume
    <2> QED BY <1>1, <2>1, <2>3, FineStep
<1>3. CASE UNCHANGED vars \/ \E r \in Report : Redeliver(r)
    <2>1. UNCHANGED <<volume, latest, lost>>
        BY <1>3 DEF vars, dbVars, history, Redeliver
    <2> QED BY <1>1, <2>1, FineStep
<1>4. ASSUME NEW m \in Mgmt, NEW r \in Report, UpdatePRaid(m, r), ~Accepts(r)
      PROVE  AllCovered'
    <2>1. UNCHANGED <<volume, latest>> /\ lost' = lost \ {r}
        BY <1>4 DEF UpdatePRaid, Receive, dbVars
    <2>2. ~(r \in lost /\ IsLatest(r))
        BY <1>4, SkippedHasNothing DEF UpdatePRaid
    <2>3. \A q \in Report : IsLatest(q) /\ q \in lost => q \in lost'
        BY <2>1, <2>2
    <2> QED BY <1>1, <2>1, <2>3, FineStep
<1>5. ASSUME NEW m \in Mgmt, NEW r \in Report, UpdatePRaidFails(m, r) PROVE FALSE
    BY <1>5 DEF UpdatePRaidFails
<1> QED BY <1>2, <1>3, <1>4, <1>5 DEF Idles

LEMMA StoreStep ==
    ASSUME TypeOK, CalcInv, AllCovered, NEW m \in Mgmt, NEW r \in Report,
           UpdatePRaid(m, r), Store(r), Asks(m), r \in Ahead(m)'
    PROVE  AllCovered'
<1> DEFINE q == Content[r].pRaid
<1>1. q \in PRaid /\ \A s \in DOMAIN Content[r].segments : s \in SegmentsIn(q)
    BY ReportAssumption DEF SegmentsIn
<1>2. latest' = [latest EXCEPT ![q] = Content[r].n] /\ latest \in [PRaid -> Nat]
    BY DEF Store, TypeOK
<1>3. lost' = lost \ {r}
    BY DEF UpdatePRaid, Receive
<1>4. \A o \in Mgmt, x \in Job : Kept(o, x)
    BY AsksFine DEF Fine
<1>5. \A o \in Mgmt : ReadsOn(o)
    BY AsksFine DEF Fine
<1>6. Covered(q)'
    <2>1. IsLatest(r)'
        BY <1>1, <1>2 DEF IsLatest
    <2>2. HeldAt(m, r, q)'
        BY DEF HeldAt
    <2> QED BY <2>1, <2>2 DEF Covered, Covers
<1>7. ASSUME NEW p \in PRaid, p # q, NEW s \in SegmentsIn(p)
      PROVE  volume'.segments[s] = volume.segments[s]
    <2>1. s \in Segment /\ s \notin DOMAIN Content[r].segments
        BY <1>1, <1>7 DEF SegmentsIn
    <2> QED BY <2>1, StoredSegments
<1>8. ASSUME NEW p \in PRaid, Covered(p) PROVE Covered(p)'
    <2>1. CASE p = q
        BY <1>6, <2>1
    <2>2. CASE p # q
        <3>1. latest'[p] = latest[p]
            BY <1>2, <2>2
        <3>2. PICK x \in Report : Content[x].pRaid = p /\ IsLatest(x) /\ Covers(x, p)
            BY <1>8 DEF Covered
        <3>3. x # r /\ x \in Job
            BY <2>2, <3>2 DEF Job
        <3>4. IsLatest(x)'
            BY <3>1, <3>2 DEF IsLatest
        <3>5. \A o \in Mgmt : HeldAt(o, x, p) => HeldAt(o, x, p)'
            BY <1>4, <1>7, <2>2, <3>3, HeldLasts
        <3>6. Covers(x, p)'
            BY <1>3, <3>2, <3>3, <3>5 DEF Covers
        <3> QED BY <3>2, <3>4, <3>6 DEF Covered
    <2> QED BY <2>1, <2>2
<1>9. volume'.command = volume.command
    BY PlainVolume
<1>10. CommandCovered => CommandCovered'
    BY <1>4, <1>9, CommandLasts DEF Executed, Commands, Job
<1>11. (\A o \in Mgmt : ReadsRight(o)) /\ PendingIsCovered
    BY DEF AllCovered
<1>12. ASSUME NEW o \in Mgmt PROVE ReadsRight(o)'
    <2> SUFFICES ASSUME Reading(o)'
                 PROVE  /\ \A p \in PRaid : SameAt(o, p)' \/ Covered(p)'
                        /\ SameCommand(o)' \/ CommandCovered'
        BY DEF ReadsRight
    <2>1. CASE snapshot'[o] = volume'
        BY <2>1 DEF SameAt, SameCommand
    <2>2. CASE Reading(o) /\ snapshot'[o] = snapshot[o]
        <3>1. \A p \in PRaid : SameAt(o, p) \/ Covered(p)
            BY <1>11, <2>2 DEF ReadsRight
        <3>2. \A p \in PRaid : p # q /\ SameAt(o, p) => SameAt(o, p)'
            BY <1>7, <2>2 DEF SameAt, SegmentsIn
        <3>3. \A p \in PRaid : SameAt(o, p)' \/ Covered(p)'
            BY <1>6, <1>8, <3>1, <3>2
        <3>4. SameCommand(o) \/ CommandCovered
            BY <1>11, <2>2 DEF ReadsRight
        <3>5. SameCommand(o) => SameCommand(o)'
            BY <1>9, <2>2 DEF SameCommand, Executed
        <3> QED BY <1>10, <3>3, <3>4, <3>5
    <2> QED BY <1>5, <2>1, <2>2 DEF ReadsOn
<1>13. PendingIsCovered'
    <2>1. \A p \in PRaid : p # q /\ NoPendingAt(p) => NoPendingAt(p)'
        BY <1>7 DEF NoPendingAt, SegmentsIn
    <2> QED BY <1>6, <1>8, <1>11, <2>1 DEF PendingIsCovered
<1>14. StatusIsCovered'
    BY <1>1, <1>6 DEF StatusIsCovered
<1> QED BY <1>12, <1>13, <1>14 DEF AllCovered

LEMMA AsksStep ==
    ASSUME TypeOK, CalcInv, AllCovered, NEW m \in Mgmt, Asks(m)
    PROVE  AllCovered'
<1>1. PICK jobs : Requests(m, jobs) /\ jobs \subseteq Ahead(m)'
    BY AsksFine
<1>2. CASE CalculateAgain(m, jobs)
    <2>1. UNCHANGED <<volume, latest, lost>>
        BY <1>2 DEF CalculateAgain, dbVars, history
    <2> QED BY <2>1, AsksFine, FineStep
<1>3. ASSUME NEW r \in Report, UpdatePRaid(m, r), Store(r), jobs = {r} PROVE AllCovered'
    BY <1>1, <1>3, StoreStep
<1> QED BY <1>1, <1>2, <1>3 DEF Requests

LEMMA FetchStep ==
    ASSUME TypeOK, CalcInv, AllCovered, NEW m \in Mgmt, FetchVolume(m)
    PROVE  AllCovered'
<1>1. UNCHANGED <<volume, latest, lost>>
    BY DEF FetchVolume, dbVars, history
<1> QED BY <1>1, FetchFine, FineStep

LEMMA EncryptsStep ==
    ASSUME TypeOK, CalcInv, AllCovered, NEW m \in Mgmt, NEW job \in Commands,
           NEW from, NEW to, EncryptionChanges(m, job, from, to)
    PROVE  AllCovered'
<1>1. volume' = [volume EXCEPT !.command = to] /\ UNCHANGED <<latest, lost>>
    BY DEF EncryptionChanges, history
<1>2. volume'.segments = volume.segments
    BY <1>1 DEF TypeOK, Volume
<1>3. \A o \in Mgmt, x \in Job : Kept(o, x)
    BY EncryptsFine DEF Fine
<1>4. \A o \in Mgmt : ReadsOn(o)
    BY EncryptsFine DEF Fine
<1>5. CommandCovered'
    <2>1. \/ job \in Ahead(m)'
          \/ Reading(m)' /\ snapshot'[m] = volume' /\ job \in callbacks'[m]
        BY EncryptsFine
    <2>2. CommandAt(m, job)'
        BY <2>1 DEF CommandAt, SameCommand
    <2> QED BY <2>2 DEF CommandCovered
<1>6. ASSUME NEW p \in PRaid, Covered(p) PROVE Covered(p)'
    <2>1. \A r \in Report, o \in Mgmt : HeldAt(o, r, p) => HeldAt(o, r, p)'
        BY <1>2, <1>3, HeldLasts DEF Job
    <2> QED BY <1>1, <1>6, <2>1, CoverLasts
<1>7. (\A o \in Mgmt : ReadsRight(o)) /\ PendingIsCovered
    BY DEF AllCovered
<1>8. ASSUME NEW o \in Mgmt PROVE ReadsRight(o)'
    <2> SUFFICES ASSUME Reading(o)', NEW p \in PRaid PROVE SameAt(o, p)' \/ Covered(p)'
        BY <1>5 DEF ReadsRight
    <2>1. CASE snapshot'[o] = volume'
        BY <2>1 DEF SameAt
    <2>2. CASE Reading(o) /\ snapshot'[o] = snapshot[o]
        <3>1. SameAt(o, p) \/ Covered(p)
            BY <1>7, <2>2 DEF ReadsRight
        <3>2. SameAt(o, p) => SameAt(o, p)'
            BY <1>2, <2>2 DEF SameAt
        <3> QED BY <1>6, <3>1, <3>2
    <2> QED BY <1>4, <2>1, <2>2 DEF ReadsOn
<1>9. PendingIsCovered'
    <2>1. \A p \in PRaid : NoPendingAt(p) => NoPendingAt(p)'
        BY <1>2 DEF NoPendingAt
    <2> QED BY <1>6, <1>7, <2>1 DEF PendingIsCovered
<1>10. StatusIsCovered'
    BY <1>5 DEF StatusIsCovered
<1> QED BY <1>8, <1>9, <1>10 DEF AllCovered
(* A calculation that was reading, and writes.                             *)
Writes(m) ==
    /\ Reading(m) /\ Matches(snapshot[m]) /\ volume' = Applying(snapshot[m])
    /\ EndOfCalculation(m, FALSE)
    /\ behind' = [o \in Mgmt |-> o # m /\ (behind[o] \/ phase[o] = "update")]
    /\ UNCHANGED <<latest, lost>>

LEMMA EndsKinds ==
    ASSUME TypeOK, NEW m \in Mgmt, Ends(m), missed' = {}
    PROVE  \/ EndOfCalculation(m, TRUE) /\ UNCHANGED <<volume, latest, lost>>
           \/ Writes(m)
<1>1. UpdateVolume(m)
    BY DEF Ends, CalculationFails
<1>2. phase[m] = "update" /\ UNCHANGED <<latest, lost>>
    BY <1>1 DEF UpdateVolume
<1>3. CASE Matches(snapshot[m])
    <2>1. ~behind[m]
        BY <1>1, <1>3 DEF UpdateVolume
    <2> QED BY <1>1, <1>2, <1>3, <2>1 DEF UpdateVolume, Writes, Reading
<1>4. CASE ~Matches(snapshot[m])
    BY <1>1, <1>2, <1>4 DEF UpdateVolume
<1> QED BY <1>3, <1>4

LEMMA WriteParts ==
    ASSUME TypeOK, CalcInv, NEW m \in Mgmt, Writes(m)
    PROVE  /\ Ahead(m) \subseteq Ahead(m)'
           /\ \A o \in Mgmt : ~Reading(o)'
           /\ \A o \in Mgmt : o # m => /\ Ahead(o) \subseteq Ahead(o)'
                                       /\ Reading(o) => callbacks[o] \subseteq Ahead(o)'
<1>1. /\ callbacks'[m] = {} /\ next'[m] = {} /\ phase'[m] = "idle"
      /\ timers'[m] = IF Again(m, FALSE) # {} THEN timers[m] \cup {Again(m, FALSE)}
                      ELSE timers[m]
      /\ \A o \in Mgmt : o # m => SameButBehind(o)
    BY EndParts DEF Writes
<1>2. Again(m, FALSE) = next[m]
    BY DEF Again
<1>3. \A o \in Mgmt : behind'[o] = (o # m /\ (behind[o] \/ phase[o] = "update"))
    BY DEF Writes
<1>4. ~Due(m)
    BY DEF Writes, Reading, Due
<1>5. ASSUME NEW x \in Ahead(m) PROVE x \in Ahead(m)'
    <2>1. x \in next[m] \/ \E jobs \in timers[m] : x \in jobs
        BY <1>4, <1>5, AheadWhere
    <2>2. \E jobs \in timers'[m] : x \in jobs
        BY <1>1, <1>2, <2>1
    <2> QED BY <2>2, AheadWhereNext
<1>6. \A o \in Mgmt : ~Reading(o)'
    BY <1>1, <1>3 DEF Reading, SameButBehind
<1>7. ASSUME NEW o \in Mgmt, o # m
      PROVE  Ahead(o) \subseteq Ahead(o)' /\ (Reading(o) => callbacks[o] \subseteq Ahead(o)')
    <2>1. SameButBehind(o) /\ behind'[o] = (behind[o] \/ phase[o] = "update")
        BY <1>1, <1>3, <1>7
    <2>2. Ahead(o) \subseteq Ahead(o)'
        BY <2>1, AheadWhere, AheadWhereNext DEF SameButBehind, Due
    <2>3. Reading(o) => Due(o)'
        BY <2>1 DEF Reading, Due
    <2>4. Reading(o) => callbacks[o] \subseteq Ahead(o)'
        BY <2>1, <2>3, AheadWhereNext DEF SameButBehind
    <2> QED BY <2>2, <2>4
<1> QED BY <1>5, <1>6, <1>7

LEMMA WriteStep ==
    ASSUME TypeOK, CalcInv, AllCovered, NEW m \in Mgmt, Writes(m)
    PROVE  AllCovered'
<1> DEFINE read == snapshot[m]
<1>1. /\ Ahead(m) \subseteq Ahead(m)'
      /\ \A o \in Mgmt : ~Reading(o)'
      /\ \A o \in Mgmt : o # m => /\ Ahead(o) \subseteq Ahead(o)'
                                  /\ Reading(o) => callbacks[o] \subseteq Ahead(o)'
    BY WriteParts
<1>2. UNCHANGED <<latest, lost>> /\ Applies(m) /\ volume' = Applying(read)
    BY DEF Writes, Applies
<1>3. ASSUME NEW p \in PRaid, Covered(p) PROVE SameAt(m, p) \/ Covered(p)'
    <2> SUFFICES ASSUME ~SameAt(m, p) PROVE Covered(p)'
        OBVIOUS
    <2>1. ASSUME NEW r \in Report, NEW o \in Mgmt, HeldAt(o, r, p) PROVE HeldAt(o, r, p)'
        <3>1. r \in Ahead(o)'
            BY <1>1, <2>1 DEF HeldAt
        <3> QED BY <3>1 DEF HeldAt
    <2> QED BY <1>2, <1>3, <2>1, CoverLasts
<1>4. ASSUME CommandCovered, ~SameCommand(m) PROVE CommandCovered'
    <2>1. PICK o \in Mgmt, x \in Commands : CommandAt(o, x)
        BY <1>4 DEF CommandCovered
    <2>2. x \in Ahead(o)'
        BY <1>1, <1>4, <2>1 DEF CommandAt
    <2>3. CommandAt(o, x)'
        BY <2>2 DEF CommandAt
    <2> QED BY <2>3 DEF CommandCovered
<1>5. Reading(m) /\ ReadsRight(m)
    BY DEF AllCovered, Writes
<1>6. \A p \in PRaid : SameAt(m, p) \/ Covered(p)'
    BY <1>3, <1>5 DEF ReadsRight
<1>7. SameCommand(m) \/ CommandCovered'
    BY <1>4, <1>5 DEF ReadsRight
<1>8. ASSUME NEW p \in PRaid, SameAt(m, p), NEW s \in SegmentsIn(p)
      PROVE  /\ volume'.segments[s].pending = NoPending
             /\ Effective(volume'.segments[s]) = Effective(read.segments[s])
    <2>1. s \in Segment /\ read.segments[s] = volume.segments[s]
        BY <1>8 DEF SegmentsIn, SameAt
    <2>2. CASE s \in WithPending(read)
        <3>1. /\ volume'.segments[s].now = read.segments[s].pending
              /\ volume'.segments[s].pending = NoPending
            BY <1>2, <2>1, <2>2, AppliedSegments
        <3>2. read.segments[s].pending # NoPending
            BY <2>2 DEF WithPending
        <3> QED BY <3>1, <3>2 DEF Effective
    <2>3. CASE s \notin WithPending(read)
        <3>1. volume'.segments[s] = read.segments[s]
            BY <1>2, <2>1, <2>3, AppliedSegments
        <3>2. read.segments[s].pending = NoPending
            BY <2>1, <2>3 DEF WithPending
        <3> QED BY <3>1, <3>2
    <2> QED BY <2>2, <2>3
<1>9. PendingIsCovered'
    BY <1>6, <1>8 DEF PendingIsCovered, NoPendingAt, SegmentsIn
<1>10. StatusIsCovered'
    <2>1. CASE SameCommand(m) /\ \A p \in PRaid : SameAt(m, p)
        <3>1. \A s \in Segment : Effective(volume'.segments[s]) = Effective(read.segments[s])
            BY <1>8, <2>1, SegmentsOf
        <3>2. /\ volume'.status = VolumeStatusOf(read) /\ volume'.action = VolumeActionOf(read)
              /\ volume'.command = volume.command
            BY <1>2 DEF Applying, TypeOK, Volume
        <3>3. Executed(volume') <=> Executed(read)
            BY <2>1, <3>2 DEF SameCommand, Executed
        <3>4. /\ VolumeStatusOf(volume') = VolumeStatusOf(read)
              /\ VolumeActionOf(volume') = VolumeActionOf(read)
            BY <3>1, <3>3, SameStatus
        <3>5. StatusOK'
            BY <3>2, <3>4 DEF StatusOK
        <3> QED BY <3>5 DEF StatusIsCovered
    <2>2. CASE ~SameCommand(m)
        BY <1>7, <2>2 DEF StatusIsCovered
    <2>3. CASE \E p \in PRaid : ~SameAt(m, p)
        BY <1>6, <2>3 DEF StatusIsCovered
    <2> QED BY <2>1, <2>2, <2>3
<1>11. \A o \in Mgmt : ReadsRight(o)'
    BY <1>1 DEF ReadsRight
<1> QED BY <1>9, <1>10, <1>11 DEF AllCovered

LEMMA EndsStep ==
    ASSUME TypeOK, CalcInv, AllCovered, NEW m \in Mgmt, Ends(m), missed' = {}
    PROVE  AllCovered'
<1>1. CASE EndOfCalculation(m, TRUE) /\ UNCHANGED <<volume, latest, lost>>
    BY <1>1, RetryFine, FineStep
<1>2. CASE Writes(m)
    BY <1>2, WriteStep
<1> QED BY <1>1, <1>2, EndsKinds

LEMMA CrashStep ==
    ASSUME TypeOK, CalcInv, AllCovered, NEW m \in Mgmt, Crash(m), missed' = {}
    PROVE  AllCovered'
<1>1. /\ callbacks'[m] = {} /\ next'[m] = {} /\ phase'[m] = "idle"
      /\ timers'[m] = {} /\ ~behind'[m]
      /\ \A o \in Mgmt : o # m => Same(o)
    BY CrashParts
<1>2. UNCHANGED <<volume, latest>> /\ lost' = lost \cup (ReportsOf(m) \ done)
    BY DEF Crash, dbVars
<1>3. InWork(m) \subseteq Report /\ \A r \in ReportsOf(m) \cap done : ~IsLatest(r)
    BY DEF Crash
<1>4. \A x : x \in Ahead(m) \/ x \in callbacks[m] => x \in InWork(m)
    BY DEF Ahead, InWork
<1>5. \A o \in Mgmt : o # m => Fine(o)
    BY <1>1, SameFine
<1>6. \A o \in Mgmt : ReadsOn(o)
    <2>1. ReadsOn(m)
        BY <1>1 DEF ReadsOn, Reading
    <2> QED BY <1>5, <2>1 DEF Fine
<1>7. ASSUME NEW p \in PRaid, Covered(p) PROVE Covered(p)'
    <2>1. ASSUME NEW r \in Report, NEW o \in Mgmt, IsLatest(r), HeldAt(o, r, p)
          PROVE  HeldAt(o, r, p)' \/ r \in lost'
        <3>1. CASE o = m
            <4>1. r \in ReportsOf(m)
                BY <1>4, <2>1, <3>1 DEF HeldAt, ReportsOf
            <4> QED BY <1>2, <1>3, <2>1, <4>1
        <3>2. CASE o # m
            <4>1. Kept(o, r)
                BY <1>5, <3>2 DEF Fine, Job
            <4> QED BY <1>2, <2>1, <4>1, HeldLasts
        <3> QED BY <3>1, <3>2
    <2> QED BY <1>2, <1>7, <2>1, CoverLasts
<1>8. CommandCovered => CommandCovered'
    <2>1. ASSUME NEW o \in Mgmt, NEW x \in Commands, CommandAt(o, x) PROVE Kept(o, x)
        <3>1. CASE o = m
            <4>1. x \in InWork(m)
                BY <1>4, <2>1, <3>1 DEF CommandAt
            <4> QED BY <1>3, <4>1, JobAssumption DEF Commands
        <3>2. CASE o # m
            BY <1>5, <3>2 DEF Fine, Job, Commands
        <3> QED BY <3>1, <3>2
    <2> QED BY <1>2, <2>1, CommandLasts
<1> QED BY <1>2, <1>6, <1>7, <1>8, NothingNew

LEMMA CoveredStep ==
    ASSUME SettledInv, [Next]_vars, missed' = {}
    PROVE  AllCovered'
<1>1. TypeOK /\ CalcInv /\ CommandInv /\ VersionInv /\ AllCovered
    BY MissedLasts DEF SettledInv
<1>2. ASSUME NEW m \in Mgmt, Encrypts(m) PROVE AllCovered'
    <2>1. "command" \in Commands /\ "response" \in Commands
        BY DEF Commands
    <2> QED BY <1>1, <1>2, <2>1, EncryptionSteps, EncryptsStep DEF Encrypts
<1>3. CASE Idles
    BY <1>1, <1>3, IdlesStep
<1>4. ASSUME NEW m \in Mgmt, Asks(m) PROVE AllCovered'
    BY <1>1, <1>4, AsksStep
<1>5. ASSUME NEW m \in Mgmt, FetchVolume(m) PROVE AllCovered'
    BY <1>1, <1>5, FetchStep
<1>6. ASSUME NEW m \in Mgmt, Ends(m) PROVE AllCovered'
    BY <1>1, <1>6, EndsStep
<1>7. ASSUME NEW m \in Mgmt, Crash(m) PROVE AllCovered'
    BY <1>1, <1>7, CrashStep
<1> QED BY <1>2, <1>3, <1>4, <1>5, <1>6, <1>7, StepKinds

LEMMA InitSettled == Init => SettledInv
<1> SUFFICES ASSUME Init PROVE SettledInv
    OBVIOUS
<1>1. /\ volume = FirstVolume /\ phase = [m \in Mgmt |-> "idle"]
      /\ callbacks = [m \in Mgmt |-> {}] /\ next = [m \in Mgmt |-> {}]
      /\ timers = [m \in Mgmt |-> {}] /\ behind = [m \in Mgmt |-> FALSE]
      /\ done = {} /\ lost = {}
    BY DEF Init
<1>2. CalcInv
    BY <1>1 DEF CalcInv, CalcAt
<1>3. \A m \in Mgmt : InWork(m) = {}
    BY <1>1 DEF InWork
<1>4. CommandInv
    BY <1>1, <1>3 DEF CommandInv, Once, Holds
<1>5. \A s \in Segment : volume.segments[s] = [now |-> Normal, pending |-> NoPending]
    BY <1>1 DEF FirstVolume
<1>6. PendingIsCovered
    BY <1>5 DEF PendingIsCovered, NoPendingAt, SegmentsIn
<1>7. StatusOK
    <2>1. \A p \in PRaid : \A x \in States(volume, p) : x[2] = Normal
        BY <1>5 DEF States, SegmentsIn, Effective
    <2>2. \A p \in PRaid : {x \in States(volume, p) : NonFunctional(x[2])} = {}
        BY <2>1 DEF NonFunctional, Normal
    <2>3. \A p \in PRaid : PRaidStatus(volume, p) = "online"
        <3>1. Cardinality({}) = 0
            BY FS_EmptySet
        <3> QED BY <2>2, <3>1 DEF PRaidStatus
    <2>4. \A p \in PRaid : PRaidAction(volume, p) = "none"
        <3> SUFFICES ASSUME NEW p \in PRaid PROVE PRaidAction(volume, p) = "none"
            OBVIOUS
        <3>1. \A y \in {x[2].status : x \in States(volume, p)} : y = "normal"
            BY <2>1 DEF Normal
        <3> QED BY <3>1 DEF PRaidAction
    <2>5. VolumeStatusOf(volume) = "online"
        BY <2>3 DEF VolumeStatusOf
    <2>6. VolumeActionOf(volume) = "none"
        <3>1. volume.command = "executed"
            BY <1>1 DEF FirstVolume
        <3> QED BY <2>4, <3>1 DEF VolumeActionOf, NoAction
    <2>7. volume.status = "online" /\ volume.action = "none"
        BY <1>1 DEF FirstVolume
    <2> QED BY <2>5, <2>6, <2>7 DEF StatusOK
<1>8. \A m \in Mgmt : ReadsRight(m)
    BY <1>1 DEF ReadsRight, Reading
<1>9. VersionInv
    <2>1. \A r \in Report : latest[Content[r].pRaid] = 0 /\ Content[r].n # 0
        BY ContentType DEF Init
    <2> QED BY <2>1 DEF VersionInv, IsLatest
<1> QED BY <1>2, <1>4, <1>6, <1>7, <1>8, <1>9, InitType
        DEF SettledInv, AllCovered, StatusIsCovered

(* No last report goes without a calculation that reads it: when nobody    *)
(* works at the volume any more its status and action are those of its     *)
(* segments, for any managements, pRaids, segments and reports, wherever   *)
(* processes crash and however reports are repeated.  TOMA need not even   *)
(* send them in order.                                                     *)
THEOREM QuietVolumeIsSettled == Spec => []SettledWhenQuiet
<1>1. Init => SettledInv
    BY InitSettled
<1>2. SettledInv /\ [Next]_vars => SettledInv'
    <2> SUFFICES ASSUME SettledInv, [Next]_vars PROVE SettledInv'
        OBVIOUS
    <2>1. TypeOK /\ CalcInv /\ CommandInv /\ VersionInv
        BY DEF SettledInv
    <2>2. TypeOK' /\ CalcInv' /\ CommandInv' /\ VersionInv'
        BY <2>1, NextType, CalcStep, CommandStep, VersionStep
    <2>3. missed' = {} => AllCovered'
        BY CoveredStep
    <2> QED BY <2>2, <2>3 DEF SettledInv
<1>3. SettledInv => SettledWhenQuiet
    BY QuietIsSettled
<1> QED BY <1>1, <1>2, <1>3, PTL DEF Spec
=============================================================================
