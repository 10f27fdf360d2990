------------------------ MODULE TargetUpdatesProofs ------------------------
(***************************************************************************)
(* What TOMA is told of a zone is true of the zone at the number of the    *)
(* message, and it is known of every update who told it, is to tell it or  *)
(* ended before, for any number of targets, calls, crashes and failed      *)
(* sends.                                                                  *)
(***************************************************************************)
EXTENDS TargetUpdates, FiniteSetTheorems, TLAPS

USE JobAssumption, TargetsAssumption, BoundsAssumption

HandlerRecord == [step : Steps, own : Update, update : Update, members : SUBSET Target,
                  sequence : Nat, updated : BOOLEAN]
HandlerType == handler \in [Job -> [Target -> HandlerRecord]]

LogEntry == [update : Update, members : SUBSET Target]

ZoneType ==
    /\ zone \in [members : SUBSET Target, sequence : Nat, last : Update \cup {NoUpdate}]
    /\ topic \subseteq [update : Update, targetsInZone : Nat, sequence : Nat]
    /\ log \in Seq(LogEntry)
    /\ cleared \subseteq Nat

Server == [exists : BOOLEAN, inZone : BOOLEAN, isTargetUpdateSequenceInc : BOOLEAN,
           addTargetMessageRequired : BOOLEAN, sequence : Nat]
PC == {"idle", "lock", "filter", "assign", "mark", "update", "delete",
       "release", "read", "count", "repair", "required", "end", "dead"}

JobType ==
    /\ server \in [Target -> Server]
    /\ lockedBy \in Job \cup {NoJob}
    /\ pc \in [Job -> PC]
    /\ seen \in [members : SUBSET Target, counted : SUBSET Target]
    /\ wanted \in BOOLEAN
    /\ events \in 0..MaxEvents
    /\ missed \subseteq {"repair", "thrown"}

Typed == HandlerType /\ ZoneType /\ JobType

-----------------------------------------------------------------------------
(* How the handlers change.                                                *)
LEMMA RestingType ==
    ASSUME NEW j \in Job, NEW t \in Target, NEW step \in Steps
    PROVE  Resting(j, t, step) \in HandlerRecord
<1>1. OwnUpdate(j, t) \in Update
    BY DEF OwnUpdate, Add, Remove, Update
<1> QED BY <1>1 DEF Resting, HandlerRecord

LEMMA AnewType ==
    ASSUME NEW h \in HandlerRecord
    PROVE  Anew(h) \in HandlerRecord /\ Anew(h).step = "find"
BY DEF Anew, HandlerRecord, Steps

LEMMA SetType ==
    ASSUME HandlerType, NEW j \in Job, NEW t \in Target, NEW h \in HandlerRecord, Set(j, t, h)
    PROVE  /\ HandlerType'
           /\ \A k \in Job, u \in Target :
                 handler'[k][u] = IF k = j /\ u = t THEN h ELSE handler[k][u]
BY DEF HandlerType, Set

LEMMA SetAllType ==
    ASSUME HandlerType, NEW j \in Job, NEW f \in [Target -> HandlerRecord],
           handler' = [handler EXCEPT ![j] = f]
    PROVE  /\ HandlerType'
           /\ \A k \in Job, u \in Target :
                 handler'[k][u] = IF k = j THEN f[u] ELSE handler[k][u]
BY DEF HandlerType

(* A handler that is at work on what it read of the zone.                  *)
Busy(h) == h.step \in {"updateZone", "count", "send"}

Counted(h, h1) ==
    /\ h.step = "count" /\ h1.step = "send"
    /\ h1.update = h.update /\ h1.members = h.members
    /\ h1.sequence = h.sequence /\ h1.updated = h.updated

StartsQuiet == \A k \in Job, u \in Target : \/ handler'[k][u] = handler[k][u]
                                           \/ ~Busy(handler'[k][u])
                                           \/ Counted(handler[k][u], handler'[k][u])

LEMMA SetQuiet ==
    ASSUME HandlerType, NEW j \in Job, NEW t \in Target, NEW h \in HandlerRecord, Set(j, t, h),
           ~Busy(h)
    PROVE  HandlerType' /\ StartsQuiet
BY SetType DEF StartsQuiet

LEMMA SetAllQuiet ==
    ASSUME HandlerType, NEW j \in Job, NEW f \in [Target -> HandlerRecord],
           handler' = [handler EXCEPT ![j] = f], \A t \in Target : ~Busy(f[t])
    PROVE  HandlerType' /\ StartsQuiet
<1>1. /\ HandlerType'
      /\ \A k \in Job, u \in Target : handler'[k][u] = IF k = j THEN f[u] ELSE handler[k][u]
    BY SetAllType
<1> QED BY <1>1 DEF StartsQuiet

LEMMA RestingQuiet ==
    ASSUME NEW j \in Job, NEW t \in Target, NEW step
    PROVE  ~Busy(Resting(j, t, step)) <=> step \notin {"updateZone", "count", "send"}
BY DEF Busy, Resting

LEMMA StartQuiet ==
    ASSUME HandlerType, NEW j \in Job, NEW targets, StartHandlers(j, targets)
    PROVE  HandlerType' /\ StartsQuiet
<1> DEFINE f == [t \in Target |-> Resting(j, t, IF t \in targets THEN "find" ELSE "none")]
<1>1. \A t \in Target : f[t] \in HandlerRecord /\ ~Busy(f[t])
    BY RestingType, RestingQuiet DEF Steps
<1>2. f \in [Target -> HandlerRecord]
    BY <1>1
<1>3. handler' = [handler EXCEPT ![j] = f]
    BY DEF StartHandlers
<1> HIDE DEF f
<1> QED BY <1>1, <1>2, <1>3, SetAllQuiet

LEMMA RestQuiet ==
    ASSUME HandlerType, NEW j \in Job, handler' = [handler EXCEPT ![j] = AllRest(j)]
    PROVE  HandlerType' /\ StartsQuiet
<1>1. \A t \in Target : AllRest(j)[t] \in HandlerRecord /\ ~Busy(AllRest(j)[t])
    BY RestingType, RestingQuiet DEF Steps, AllRest
<1>2. AllRest(j) \in [Target -> HandlerRecord]
    BY <1>1 DEF AllRest
<1> QED BY <1>1, <1>2, SetAllQuiet

-----------------------------------------------------------------------------
(* What an update that is left, or that a handler sends, did to the zone.  *)
Added(update, members) == update.type = "add" => update.target \in members

HandlerAdded(h) == h.step \in {"count", "send"} /\ h.updated => Added(h.update, h.members)

AddedInv == /\ Added(zone.last, zone.members)
            /\ \A j \in Job, t \in Target : HandlerAdded(handler[j][t])

(* Unless the recovery overwrote the targets of the zone, the log tells    *)
(* what they are, and what each update made of them.                       *)
LogInv ==
    /\ zone.sequence = Len(log)
    /\ zone.members = MembersAt(Len(log))
    /\ \A n \in 1..Len(log) :
          /\ log[n].members = WithUpdate(MembersAt(n - 1), log[n].update)
          /\ log[n].update.type = "add" <=> log[n].update.target \notin MembersAt(n - 1)

LastInv == zone.last # NoUpdate => Len(log) > 0 /\ log[Len(log)].update = zone.last

(* A handler knows the zone as it was at its number: before its update, or *)
(* after it.                                                               *)
HandlerTrue(h) ==
    /\ Busy(h) => h.sequence \in 0..Len(log) /\ h.members = MembersAt(h.sequence)
    /\ h.step = "updateZone" => (h.update.type = "add" <=> h.update.target \notin h.members)
    /\ h.step \in {"count", "send"} =>
          /\ h.update.type = "add" <=> h.update.target \in h.members
          /\ h.updated => h.sequence > 0 /\ log[h.sequence].update = h.update

TopicInv == \A m \in topic : IsTrue(m)

TrueInv == /\ LogInv /\ LastInv /\ TopicInv
           /\ \A j \in Job, t \in Target : HandlerTrue(handler[j][t])

Overwritten == "repair" \in missed

IInv == Typed /\ AddedInv /\ (Overwritten \/ TrueInv)

-----------------------------------------------------------------------------
(* The set of the targets after n updates.                                 *)
LEMMA MembersType ==
    ASSUME ZoneType, NEW n \in 0..Len(log)
    PROVE  MembersAt(n) \in SUBSET Target
<1>1. CASE n = 0
    BY <1>1 DEF MembersAt
<1>2. CASE n # 0
    <2>1. log[n] \in LogEntry
        BY <1>2 DEF ZoneType
    <2> QED BY <1>2, <2>1 DEF MembersAt, LogEntry
<1> QED BY <1>1, <1>2

LEMMA Finite ==
    ASSUME NEW S \in SUBSET Target
    PROVE  IsFiniteSet(S) /\ Cardinality(S) \in Nat
BY FS_Subset, FS_CardinalityType

LEMMA OneMore ==
    ASSUME NEW S, IsFiniteSet(S), NEW x, x \notin S
    PROVE  Cardinality(S \cup {x}) = Cardinality(S) + 1
BY FS_AddElement

LEMMA OneLess ==
    ASSUME NEW S, IsFiniteSet(S), NEW x, x \in S
    PROVE  Cardinality(S \ {x}) = Cardinality(S) - 1
BY FS_RemoveElement

(* What is true with a log stays true when the log grows.                  *)
LEMMA Grows ==
    ASSUME ZoneType, NEW e \in LogEntry, log' = Append(log, e)
    PROVE  /\ Len(log') = Len(log) + 1 /\ log'[Len(log) + 1] = e
           /\ \A n \in 1..Len(log) : log'[n] = log[n]
           /\ \A n \in 0..Len(log) : MembersAt(n)' = MembersAt(n)
           /\ \A n : n = Len(log) + 1 => MembersAt(n)' = e.members
<1>1. Len(log) \in Nat
    BY DEF ZoneType
<1>2. /\ Len(log') = Len(log) + 1 /\ log'[Len(log) + 1] = e
      /\ \A n \in 1..Len(log) : log'[n] = log[n]
    BY DEF ZoneType
<1>3. \A n \in 0..Len(log) : MembersAt(n)' = MembersAt(n)
    <2>1. \A n \in 0..Len(log) : n = 0 \/ n \in 1..Len(log)
        BY <1>1
    <2> QED BY <1>2, <2>1 DEF MembersAt
<1>4. ASSUME NEW n, n = Len(log) + 1
      PROVE  MembersAt(n)' = e.members
    <2>1. n # 0
        BY <1>1, <1>4
    <2> QED BY <1>2, <1>4, <2>1 DEF MembersAt
<1> QED BY <1>2, <1>3, <1>4

LEMMA GrowsTrue ==
    ASSUME ZoneType, NEW e \in LogEntry, log' = Append(log, e), NEW m, IsTrue(m)
    PROVE  IsTrue(m)'
<1>1. Len(log) \in Nat /\ m.sequence \in 0..Len(log)
    BY DEF ZoneType, IsTrue
<1>2. /\ Len(log') = Len(log) + 1
      /\ MembersAt(m.sequence)' = MembersAt(m.sequence)
      /\ m.sequence > 0 => /\ log'[m.sequence] = log[m.sequence]
                           /\ MembersAt(m.sequence - 1)' = MembersAt(m.sequence - 1)
    BY <1>1, Grows
<1>3. m.sequence \in 0..Len(log')
    BY <1>1, <1>2
<1> QED BY <1>2, <1>3 DEF IsTrue

LEMMA GrowsHandler ==
    ASSUME ZoneType, NEW e \in LogEntry, log' = Append(log, e),
           NEW j \in Job, NEW t \in Target, HandlerType, HandlerTrue(handler[j][t]),
           handler'[j][t] = handler[j][t]
    PROVE  HandlerTrue(handler[j][t])'
<1> DEFINE h == handler[j][t]
<1>1. CASE ~Busy(h)
    BY <1>1 DEF HandlerTrue, Busy
<1>2. CASE Busy(h)
    <2>1. Len(log) \in Nat /\ h.sequence \in 0..Len(log)
        BY <1>2 DEF HandlerTrue, ZoneType
    <2>2. /\ Len(log') = Len(log) + 1
          /\ MembersAt(h.sequence)' = MembersAt(h.sequence)
          /\ h.sequence > 0 => log'[h.sequence] = log[h.sequence]
        BY <2>1, Grows
    <2>3. h.sequence \in 0..Len(log')
        BY <2>1, <2>2
    <2> QED BY <2>2, <2>3 DEF HandlerTrue, Busy
<1> QED BY <1>1, <1>2

-----------------------------------------------------------------------------
(* Steps in which no handler begins to be busy and the log stays, the zone *)
(* too, but for the last update that may be cleared, and what is sent is   *)
(* true.                                                                   *)
ZoneKept == /\ zone'.members = zone.members /\ zone'.sequence = zone.sequence
            /\ zone'.last \in {zone.last, NoUpdate}

LEMMA NoUpdateAdded == ASSUME NEW members PROVE Added(NoUpdate, members)
    BY DEF Added, NoUpdate

LEMMA QuietStep ==
    ASSUME HandlerType, HandlerType', AddedInv, Overwritten \/ TrueInv,
           StartsQuiet, ZoneKept, log' = log, missed \subseteq missed',
           \A m \in topic' : m \in topic \/ (TrueInv => IsTrue(m))
    PROVE  AddedInv' /\ (Overwritten' \/ TrueInv')
<1>1. AddedInv'
    <2>1. Added(zone'.last, zone'.members)
        BY NoUpdateAdded DEF AddedInv, ZoneKept
    <2>2. \A j \in Job, t \in Target : HandlerAdded(handler'[j][t])
        BY DEF AddedInv, StartsQuiet, HandlerAdded, Busy, Counted
    <2> QED BY <2>1, <2>2 DEF AddedInv, Added, HandlerAdded
<1>2. CASE Overwritten
    BY <1>1, <1>2 DEF Overwritten
<1>3. CASE TrueInv
    <2>1. \A n : MembersAt(n)' = MembersAt(n)
        BY DEF MembersAt
    <2>2. LogInv'
        BY <1>3, <2>1 DEF TrueInv, LogInv, ZoneKept, WithUpdate
    <2>3. LastInv'
        BY <1>3 DEF TrueInv, LastInv, ZoneKept
    <2>4. TopicInv'
        <3>1. \A m \in topic' : IsTrue(m)
            BY <1>3 DEF TrueInv, TopicInv
        <3> QED BY <2>1, <3>1 DEF TopicInv, IsTrue
    <2>5. ASSUME NEW j \in Job, NEW t \in Target
          PROVE  HandlerTrue(handler[j][t])'
        <3>1. CASE handler'[j][t] = handler[j][t]
            <4>1. HandlerTrue(handler[j][t])
                BY <1>3 DEF TrueInv
            <4> QED BY <2>1, <3>1, <4>1 DEF HandlerTrue, Busy
        <3>2. CASE ~Busy(handler'[j][t])
            BY <3>2 DEF HandlerTrue, Busy
        <3>3. CASE Counted(handler[j][t], handler'[j][t])
            <4>1. HandlerTrue(handler[j][t])
                BY <1>3 DEF TrueInv
            <4> QED BY <2>1, <3>3, <4>1 DEF HandlerTrue, Busy, Counted
        <3> QED BY <3>1, <3>2, <3>3 DEF StartsQuiet
    <2> QED BY <1>1, <2>2, <2>3, <2>4, <2>5 DEF TrueInv
<1> QED BY <1>2, <1>3

LEMMA RecordOf ==
    ASSUME HandlerType, NEW j \in Job, NEW t \in Target
    PROVE  handler[j][t] \in HandlerRecord
BY DEF HandlerType

LEMMA UpdateType ==
    ASSUME NEW u \in Update
    PROVE  /\ u.type \in {"add", "remove"} /\ u.target \in Target
           /\ u # NoUpdate
           /\ \A members \in SUBSET Target : WithUpdate(members, u) \in SUBSET Target
<1>1. u.type \in {"add", "remove"} /\ u.target \in Target
    BY DEF Update
<1>2. u # NoUpdate
    <2>1. NoUpdate.type = "none"
        BY DEF NoUpdate
    <2> QED BY <1>1, <2>1
<1>3. \A members \in SUBSET Target : WithUpdate(members, u) \in SUBSET Target
    BY <1>1 DEF WithUpdate
<1> QED BY <1>1, <1>2, <1>3

(* The steps of one handler.                                               *)
LEMMA FindStep ==
    ASSUME IInv, NEW j \in Job, NEW t \in Target, FindZoneLock(j, t)
    PROVE  IInv'
<1> DEFINE unfinished == zone.last # NoUpdate
           update == IF unfinished THEN zone.last ELSE handler[j][t].own
           shouldUpdateZone == update.type = "add" <=> update.target \notin zone.members
           h == [handler[j][t] EXCEPT
                   !.step = IF shouldUpdateZone THEN "updateZone" ELSE "count",
                   !.update = update, !.members = zone.members,
                   !.sequence = zone.sequence, !.updated = unfinished]
<1>1. HandlerType /\ ZoneType /\ JobType /\ AddedInv /\ (Overwritten \/ TrueInv)
    BY DEF Typed, IInv
<1>2. Set(j, t, h)
    BY DEF FindZoneLock
<1>3. /\ zone' = zone /\ log' = log /\ topic' = topic /\ missed' = missed
      /\ cleared' = cleared
    BY DEF FindZoneLock, history
<1>4. update \in Update
    BY <1>1, RecordOf DEF ZoneType, HandlerRecord
<1>5. /\ h \in HandlerRecord
      /\ h.step = IF shouldUpdateZone THEN "updateZone" ELSE "count"
      /\ h.update = update /\ h.members = zone.members
      /\ h.sequence = zone.sequence /\ h.updated = unfinished
    <2> DEFINE step == IF shouldUpdateZone THEN "updateZone" ELSE "count"
    <2>1. step \in Steps
        BY DEF Steps
    <2>2. unfinished \in BOOLEAN
        OBVIOUS
    <2>3. zone.members \in SUBSET Target /\ zone.sequence \in Nat
        BY <1>1 DEF ZoneType
    <2>4. handler[j][t] \in HandlerRecord
        BY <1>1, RecordOf
    <2> HIDE DEF step, unfinished, update
    <2>5. h = [handler[j][t] EXCEPT !.step = step, !.update = update, !.members = zone.members,
                                    !.sequence = zone.sequence, !.updated = unfinished]
        BY DEF step
    <2>6. /\ h \in HandlerRecord
          /\ h.step = step /\ h.update = update /\ h.members = zone.members
          /\ h.sequence = zone.sequence /\ h.updated = unfinished
        <3> HIDE DEF h
        <3> QED BY <1>4, <2>1, <2>2, <2>3, <2>4, <2>5 DEF HandlerRecord
    <2> QED BY <2>6 DEF step
<1> HIDE DEF h
<1>6. /\ HandlerType'
      /\ \A k \in Job, u \in Target :
            handler'[k][u] = IF k = j /\ u = t THEN h ELSE handler[k][u]
    BY <1>1, <1>2, <1>5, SetType
<1>7. Typed'
    <2>1. ZoneType'
        BY <1>1, <1>3 DEF ZoneType
    <2>2. JobType'
        BY <1>1 DEF FindZoneLock, JobType, jobVars, history
    <2> QED BY <1>6, <2>1, <2>2 DEF Typed
<1>8. AddedInv'
    <2>1. HandlerAdded(h)
        BY <1>1, <1>5 DEF AddedInv, HandlerAdded
    <2>2. \A k \in Job, u \in Target : HandlerAdded(handler'[k][u])
        BY <1>1, <1>6, <2>1 DEF AddedInv
    <2> QED BY <1>1, <1>3, <2>2 DEF AddedInv, Added, HandlerAdded
<1>9. CASE Overwritten
    BY <1>3, <1>7, <1>8, <1>9 DEF IInv, Overwritten
<1>10. CASE TrueInv
    <2>1. \A n : MembersAt(n)' = MembersAt(n)
        BY <1>3 DEF MembersAt
    <2>2. LogInv' /\ LastInv' /\ TopicInv'
        BY <1>3, <1>10, <2>1 DEF TrueInv, LogInv, LastInv, TopicInv, IsTrue, WithUpdate
    <2>3. HandlerTrue(h)
        <3>1. /\ zone.sequence = Len(log) /\ zone.members = MembersAt(Len(log))
              /\ Len(log) \in Nat
            BY <1>1, <1>10 DEF TrueInv, LogInv, ZoneType
        <3>2. h.step \in {"count", "send"}
                 => (h.update.type = "add" <=> h.update.target \in h.members)
            BY <1>5
        <3>3. h.updated => h.sequence > 0 /\ log[h.sequence].update = h.update
            BY <1>5, <1>10, <3>1 DEF TrueInv, LastInv
        <3>4. h.step = "updateZone"
                 => (h.update.type = "add" <=> h.update.target \notin h.members)
            BY <1>5
        <3>5. h.sequence \in 0..Len(log) /\ h.members = MembersAt(h.sequence)
            BY <1>5, <3>1
        <3> QED BY <3>2, <3>3, <3>4, <3>5 DEF HandlerTrue
    <2>4. ASSUME NEW k \in Job, NEW u \in Target
          PROVE  HandlerTrue(handler[k][u])'
        <3>1. HandlerTrue(handler'[k][u])
            BY <1>6, <1>10, <2>3 DEF TrueInv
        <3> QED BY <1>3, <2>1, <3>1 DEF HandlerTrue, Busy
    <2> QED BY <1>7, <1>8, <2>2, <2>4 DEF IInv, TrueInv
<1> QED BY <1>1, <1>9, <1>10

(* An update that changes the zone: its number, the targets after it and   *)
(* the log agree.                                                          *)
LEMMA UpdatedZone ==
    ASSUME ZoneType, LogInv, NEW u \in Update, NEW members \in SUBSET Target,
           members = WithUpdate(zone.members, u),
           u.type = "add" <=> u.target \notin zone.members,
           zone' = [members |-> members, sequence |-> zone.sequence + 1, last |-> u],
           log' = Append(log, [update |-> u, members |-> members])
    PROVE  LogInv' /\ LastInv'
<1> DEFINE e == [update |-> u, members |-> members]
           N == Len(log)
<1>1. e \in LogEntry /\ e.update = u /\ e.members = members
    BY DEF LogEntry
<1> HIDE DEF e
<1>2. log' = Append(log, e)
    BY DEF e
<1>3. N \in Nat /\ zone.sequence = N /\ zone.members = MembersAt(N)
    BY DEF ZoneType, LogInv
<1> HIDE DEF N
<1>4. /\ Len(log') = N + 1 /\ log'[N + 1] = e
      /\ \A n \in 1..N : log'[n] = log[n]
      /\ \A n \in 0..N : MembersAt(n)' = MembersAt(n)
      /\ \A n : n = N + 1 => MembersAt(n)' = members
    BY <1>1, <1>2, Grows DEF N
<1>5. zone'.sequence = Len(log') /\ zone'.members = members /\ zone'.last = u
    BY <1>3, <1>4
<1>6. \A n : n = Len(log') => MembersAt(n)' = zone'.members
    BY <1>4, <1>5
<1>7. zone'.members = MembersAt(Len(log))'
    BY <1>6 DEF MembersAt
<1>8. ASSUME NEW n \in 1..Len(log')
      PROVE  /\ log'[n].members = WithUpdate(MembersAt(n - 1)', log'[n].update)
             /\ log'[n].update.type = "add" <=> log'[n].update.target \notin MembersAt(n - 1)'
    <2>1. CASE n = N + 1
        <3>1. n - 1 = N /\ n - 1 \in 0..N
            BY <1>3, <2>1
        <3>2. MembersAt(n - 1)' = zone.members
            BY <1>3, <1>4, <3>1
        <3>3. log'[n] = e
            BY <1>4, <2>1
        <3> QED BY <1>1, <3>2, <3>3
    <2>2. CASE n \in 1..N
        <3>1. n - 1 \in 0..N
            BY <1>3, <2>2
        <3>2. MembersAt(n - 1)' = MembersAt(n - 1) /\ log'[n] = log[n]
            BY <1>4, <2>2, <3>1
        <3> QED BY <2>2, <3>2 DEF LogInv, N
    <2> QED BY <1>3, <1>4, <2>1, <2>2
<1>9. LogInv'
    BY <1>5, <1>7, <1>8 DEF LogInv, WithUpdate
<1>10. LastInv'
    BY <1>1, <1>3, <1>4, <1>5 DEF LastInv
<1> QED BY <1>9, <1>10

(* What a handler sends.                                                   *)
MessageType == [update : Update, targetsInZone : Nat, sequence : Nat]

LEMMA MessageTyped ==
    ASSUME NEW h \in HandlerRecord, HandlerAdded(h), h.step \in {"count", "send"}
    PROVE  Message(h) \in MessageType
<1>1. h.members \in SUBSET Target /\ h.update \in Update /\ h.sequence \in Nat
    BY DEF HandlerRecord
<1>2. IsFiniteSet(h.members) /\ Cardinality(h.members) \in Nat
    BY <1>1, Finite
<1>3. ASSUME h.updated, h.update.type = "add"
      PROVE  Cardinality(h.members) # 0
    BY <1>2, <1>3, FS_EmptySet DEF HandlerAdded, Added
<1>4. Before(h) \in Nat
    BY <1>2, <1>3 DEF Before
<1> QED BY <1>1, <1>4 DEF Message, MessageType

LEMMA MessageTrue ==
    ASSUME ZoneType, LogInv, NEW h \in HandlerRecord, HandlerTrue(h),
           h.step \in {"count", "send"}
    PROVE  IsTrue(Message(h))
<1>1. /\ h.members \in SUBSET Target /\ h.update \in Update
      /\ h.sequence \in 0..Len(log) /\ h.members = MembersAt(h.sequence)
      /\ h.update.type = "add" <=> h.update.target \in h.members
      /\ h.updated => h.sequence > 0 /\ log[h.sequence].update = h.update
    BY DEF HandlerRecord, HandlerTrue, Busy
<1>2. /\ Message(h).update = h.update /\ Message(h).sequence = h.sequence
      /\ Message(h).targetsInZone = Before(h)
    BY DEF Message
<1>3. CASE ~h.updated
    <2>1. Before(h) = Cardinality(MembersAt(h.sequence))
        BY <1>1, <1>3 DEF Before
    <2> QED BY <1>1, <1>2, <2>1 DEF IsTrue
<1>4. CASE h.updated
    <2> DEFINE before == MembersAt(h.sequence - 1)
    <2>1. Len(log) \in Nat /\ h.sequence \in 1..Len(log) /\ h.sequence - 1 \in 0..Len(log)
        BY <1>1, <1>4 DEF ZoneType
    <2>2. before \in SUBSET Target
        BY <2>1, MembersType
    <2>3. IsFiniteSet(before) /\ Cardinality(before) \in Nat
        BY <2>2, Finite
    <2>4. /\ h.members = WithUpdate(before, h.update)
          /\ h.update.type = "add" <=> h.update.target \notin before
        <3>1. h.members = log[h.sequence].members
            BY <1>1, <2>1 DEF MembersAt
        <3> QED BY <1>1, <1>4, <2>1, <3>1 DEF LogInv
    <2> HIDE DEF before
    <2>5. Before(h) = Cardinality(before)
        <3>1. CASE h.update.type = "add"
            <4>1. Cardinality(h.members) = Cardinality(before) + 1
                <5>1. h.members = before \cup {h.update.target} /\ h.update.target \notin before
                    BY <2>4, <3>1 DEF WithUpdate
                <5>2. Cardinality(before \cup {h.update.target}) = Cardinality(before) + 1
                    BY <2>3, <5>1, OneMore
                <5> QED BY <5>1, <5>2
            <4> QED BY <1>4, <2>3, <3>1, <4>1 DEF Before
        <3>2. CASE h.update.type # "add"
            <4>1. Cardinality(h.members) = Cardinality(before) - 1
                <5>1. h.members = before \ {h.update.target} /\ h.update.target \in before
                    BY <2>4, <3>2 DEF WithUpdate
                <5>2. Cardinality(before \ {h.update.target}) = Cardinality(before) - 1
                    BY <2>3, <5>1, OneLess
                <5> QED BY <5>1, <5>2
            <4> QED BY <1>4, <2>3, <3>2, <4>1 DEF Before
        <3> QED BY <3>1, <3>2
    <2>6. Before(h) = Cardinality(MembersAt(h.sequence - 1))
        BY <2>5 DEF before
    <2> QED BY <1>1, <1>2, <1>4, <2>1, <2>6 DEF IsTrue
<1> QED BY <1>3, <1>4

LEMMA EventType ==
    ASSUME events \in 0..MaxEvents, NEW kind, Event(kind)
    PROVE  events' \in 0..MaxEvents
<1>1. MaxEvents \in Nat
    BY DEF BoundsAssumption
<1> QED BY <1>1 DEF Event

LEMMA CountStep ==
    ASSUME IInv, NEW j \in Job, NEW t \in Target, SetIsTargetUpdateSequenceInc(j, t)
    PROVE  IInv'
<1> DEFINE h0 == handler[j][t]
           h == [h0 EXCEPT !.step = "send"]
<1>1. HandlerType /\ ZoneType /\ JobType /\ AddedInv /\ (Overwritten \/ TrueInv)
    BY DEF Typed, IInv
<1>2. h0 \in HandlerRecord /\ h0.step = "count"
    BY <1>1, RecordOf DEF SetIsTargetUpdateSequenceInc, At
<1>3. h \in HandlerRecord /\ Counted(h0, h)
    BY <1>2 DEF HandlerRecord, Counted, Steps
<1>4. Set(j, t, h)
    BY DEF SetIsTargetUpdateSequenceInc
<1> HIDE DEF h
<1>5. HandlerType' /\ StartsQuiet
    BY <1>1, <1>3, <1>4, SetType DEF StartsQuiet
<1>6. zone' = zone /\ log' = log /\ topic' = topic /\ missed' = missed /\ cleared' = cleared
    BY DEF SetIsTargetUpdateSequenceInc, history
<1>7. Typed'
    <2>1. ZoneType'
        BY <1>1, <1>6 DEF ZoneType
    <2>2. server' \in [Target -> Server]
        <3>1. h0.update.target \in Target
            BY <1>2, UpdateType DEF HandlerRecord
        <3>2. server \in [Target -> Server]
            BY <1>1 DEF JobType
        <3>3. \A s \in Server : [s EXCEPT !.isTargetUpdateSequenceInc = TRUE] \in Server
            BY DEF Server
        <3> QED BY <3>1, <3>2, <3>3 DEF SetIsTargetUpdateSequenceInc
    <2>3. JobType'
        BY <1>1, <2>2 DEF SetIsTargetUpdateSequenceInc, JobType, jobVars, history
    <2> QED BY <1>5, <2>1, <2>3 DEF Typed
<1> QED BY <1>1, <1>5, <1>6, <1>7, QuietStep DEF IInv, ZoneKept

LEMMA SendStep ==
    ASSUME IInv, NEW j \in Job, NEW t \in Target, SendMessages(j, t) \/ SendFails(j, t)
    PROVE  IInv'
<1> DEFINE h0 == handler[j][t]
           h == [h0 EXCEPT !.step = "clear", !.members = {}, !.updated = FALSE]
<1>1. HandlerType /\ ZoneType /\ JobType /\ AddedInv /\ (Overwritten \/ TrueInv)
    BY DEF Typed, IInv
<1>2. h0 \in HandlerRecord /\ h0.step = "send"
    BY <1>1, RecordOf DEF SendMessages, SendFails, At
<1>3. h \in HandlerRecord /\ ~Busy(h)
    BY <1>2 DEF HandlerRecord, Steps, Busy
<1>4. Resting(j, t, "failed") \in HandlerRecord /\ ~Busy(Resting(j, t, "failed"))
    BY RestingType, RestingQuiet DEF Steps
<1>5. Set(j, t, h) \/ Set(j, t, Resting(j, t, "failed"))
    BY DEF SendMessages, SendFails
<1> HIDE DEF h
<1>6. HandlerType' /\ StartsQuiet
    BY <1>1, <1>3, <1>4, <1>5, SetQuiet
<1>7. zone' = zone /\ log' = log /\ missed' = missed /\ cleared' = cleared
    BY DEF SendMessages, SendFails, history
<1>8. topic' \in {topic, topic \cup {Message(h0)}}
    BY DEF SendMessages, SendFails
<1>9. Typed'
    <2>1. Message(h0) \in MessageType
        BY <1>1, <1>2, MessageTyped DEF AddedInv
    <2>2. ZoneType'
        BY <1>1, <1>7, <1>8, <2>1 DEF ZoneType, MessageType
    <2>3. events' \in 0..MaxEvents /\ wanted' \in BOOLEAN
        BY <1>1, EventType DEF SendMessages, SendFails, JobType
    <2>4. JobType'
        BY <1>1, <2>3 DEF SendMessages, SendFails, JobType, jobVars, history
    <2> QED BY <1>6, <2>2, <2>4 DEF Typed
<1>10. \A m \in topic' : m \in topic \/ (TrueInv => IsTrue(m))
    <2>1. TrueInv => IsTrue(Message(h0))
        BY <1>1, <1>2, MessageTrue DEF TrueInv
    <2> QED BY <1>8, <2>1
<1> QED BY <1>1, <1>6, <1>7, <1>9, <1>10, QuietStep DEF IInv, ZoneKept

LEMMA UpdateStep ==
    ASSUME IInv, NEW j \in Job, NEW t \in Target, UpdateZoneLock(j, t)
    PROVE  IInv'
<1> DEFINE h0 == handler[j][t]
           members == WithUpdate(zone.members, h0.update)
           h == [h0 EXCEPT !.step = "count", !.members = members,
                           !.sequence = zone.sequence + 1, !.updated = TRUE]
           retry == Anew([h0 EXCEPT !.own = h0.update])
           e == [update |-> h0.update, members |-> members]
<1>1. HandlerType /\ ZoneType /\ JobType /\ AddedInv /\ (Overwritten \/ TrueInv)
    BY DEF Typed, IInv
<1>2. h0 \in HandlerRecord /\ h0.step = "updateZone" /\ h0.update \in Update
    BY <1>1, RecordOf DEF UpdateZoneLock, At, HandlerRecord
<1>3. members \in SUBSET Target /\ zone.sequence \in Nat
    BY <1>1, <1>2, UpdateType DEF ZoneType
<1>4. missed' = missed /\ cleared' = cleared /\ topic' = topic
    BY DEF UpdateZoneLock
<1>5. JobType'
    BY <1>1 DEF UpdateZoneLock, JobType, jobVars
<1>6. CASE SameState(h0)
    <2>1. /\ zone' = [members |-> members, sequence |-> zone.sequence + 1, last |-> h0.update]
          /\ log' = Append(log, e)
          /\ Set(j, t, h)
        BY <1>6 DEF UpdateZoneLock
    <2>2. /\ h \in HandlerRecord /\ h.step = "count" /\ h.update = h0.update
          /\ h.members = members /\ h.sequence = zone.sequence + 1
        <3> DEFINE n == zone.sequence + 1
        <3>1. n \in Nat
            BY <1>3
        <3> HIDE DEF members, n
        <3>2. h = [h0 EXCEPT !.step = "count", !.members = members, !.sequence = n,
                             !.updated = TRUE]
            BY DEF n
        <3> HIDE DEF h, h0
        <3>3. /\ h \in HandlerRecord /\ h.step = "count" /\ h.update = h0.update
              /\ h.members = members /\ h.sequence = n
            BY <1>2, <1>3, <3>1, <3>2 DEF HandlerRecord, Steps
        <3> QED BY <3>3 DEF n
    <2>3. e \in LogEntry /\ e.members = members /\ e.update = h0.update
        BY <1>2, <1>3 DEF LogEntry
    <2>4. Added(h0.update, members)
        BY DEF Added, WithUpdate
    <2> HIDE DEF h, e
    <2>5. /\ HandlerType'
          /\ \A k \in Job, u \in Target :
                handler'[k][u] = IF k = j /\ u = t THEN h ELSE handler[k][u]
        BY <1>1, <2>1, <2>2, SetType
    <2>6. zone'.members = members /\ zone'.last = h0.update
        BY <2>1
    <2>7. Typed'
        <3>1. zone' \in [members : SUBSET Target, sequence : Nat, last : Update \cup {NoUpdate}]
            BY <1>2, <1>3, <2>1
        <3>2. log' \in Seq(LogEntry)
            BY <1>1, <2>1, <2>3 DEF ZoneType
        <3>3. ZoneType'
            BY <1>1, <1>4, <3>1, <3>2 DEF ZoneType
        <3> QED BY <1>5, <2>5, <3>3 DEF Typed
    <2>8. AddedInv'
        <3>1. \A k \in Job, u \in Target : HandlerAdded(handler'[k][u])
            BY <1>1, <2>2, <2>4, <2>5 DEF AddedInv, HandlerAdded
        <3>2. Added(zone'.last, zone'.members)
            BY <2>4, <2>6
        <3> QED BY <3>1, <3>2 DEF AddedInv, Added, HandlerAdded
    <2>9. CASE Overwritten
        BY <1>4, <2>7, <2>8, <2>9 DEF IInv, Overwritten
    <2>10. CASE TrueInv
        <3>1. HandlerTrue(h0) /\ LogInv
            BY <2>10 DEF TrueInv
        <3>2. /\ zone.members = h0.members
              /\ h0.update.type = "add" <=> h0.update.target \notin zone.members
            BY <1>2, <1>6, <3>1 DEF HandlerTrue, Busy, LogInv, SameState
        <3>3. LogInv' /\ LastInv'
            BY <1>1, <1>2, <1>3, <2>1, <3>1, <3>2, UpdatedZone DEF e
        <3>4. TopicInv'
            <4>1. \A m \in topic' : IsTrue(m)'
                BY <1>1, <1>4, <2>1, <2>3, <2>10, GrowsTrue DEF TrueInv, TopicInv
            <4> QED BY <4>1 DEF TopicInv
        <3>5. ASSUME NEW k \in Job, NEW u \in Target
              PROVE  HandlerTrue(handler[k][u])'
            <4>1. CASE k = j /\ u = t
                <5>1. handler'[k][u] = h
                    BY <2>5, <4>1
                <5>2. /\ Len(log) \in Nat /\ zone.sequence = Len(log)
                      /\ Len(log') = Len(log) + 1 /\ log'[Len(log) + 1] = e
                      /\ \A n : n = Len(log) + 1 => MembersAt(n)' = members
                    BY <1>1, <2>1, <2>3, <3>1, Grows DEF ZoneType, LogInv
                <5>3. h.sequence = Len(log) + 1 /\ h.sequence \in 0..Len(log') /\ h.sequence > 0
                    BY <2>2, <5>2
                <5>4. MembersAt(handler[k][u].sequence)' = members
                    BY <5>1, <5>2, <5>3 DEF MembersAt
                <5>5. h.update.type = "add" <=> h.update.target \in h.members
                    BY <1>2, <2>2, UpdateType DEF WithUpdate
                <5>6. log'[h.sequence].update = h.update
                    BY <2>2, <2>3, <5>2, <5>3
                <5> QED BY <2>2, <5>1, <5>3, <5>4, <5>5, <5>6 DEF HandlerTrue, Busy
            <4>2. CASE ~(k = j /\ u = t)
                <5>1. handler'[k][u] = handler[k][u]
                    BY <2>5, <4>2
                <5>2. HandlerTrue(handler[k][u])
                    BY <2>10 DEF TrueInv
                <5> QED BY <1>1, <2>1, <2>3, <5>1, <5>2, GrowsHandler
            <4> QED BY <4>1, <4>2
        <3> QED BY <2>7, <2>8, <3>3, <3>4, <3>5 DEF IInv, TrueInv
    <2> QED BY <1>1, <2>9, <2>10
<1>7. CASE ~SameState(h0)
    <2>1. Set(j, t, retry) /\ zone' = zone /\ log' = log
        BY <1>7 DEF UpdateZoneLock
    <2>2. [h0 EXCEPT !.own = h0.update] \in HandlerRecord
        BY <1>2 DEF HandlerRecord
    <2>3. retry \in HandlerRecord /\ ~Busy(retry)
        BY <2>2, AnewType DEF Busy
    <2> HIDE DEF retry
    <2>4. HandlerType' /\ StartsQuiet
        BY <1>1, <2>1, <2>3, SetQuiet
    <2>5. ZoneType'
        BY <1>1, <1>4, <2>1 DEF ZoneType
    <2> QED BY <1>1, <1>4, <1>5, <2>1, <2>4, <2>5, QuietStep DEF Typed, IInv, ZoneKept
<1> QED BY <1>6, <1>7

LEMMA AfterType ==
    ASSUME HandlerType, NEW j \in Job, NEW t \in Target
    PROVE  AfterUpdate(j, t) \in HandlerRecord /\ ~Busy(AfterUpdate(j, t))
<1>1. Resting(j, t, "done") \in HandlerRecord /\ ~Busy(Resting(j, t, "done"))
    BY RestingType, RestingQuiet DEF Steps
<1>2. Anew(handler[j][t]) \in HandlerRecord /\ ~Busy(Anew(handler[j][t]))
    BY RecordOf, AnewType DEF Busy
<1> QED BY <1>1, <1>2 DEF AfterUpdate

LEMMA ClearStep ==
    ASSUME IInv, NEW j \in Job, NEW t \in Target, ClearLastTargetUpdateInLock(j, t)
    PROVE  IInv'
<1> DEFINE h0 == handler[j][t]
           finish == [h0 EXCEPT !.step = "finish"]
<1>1. HandlerType /\ ZoneType /\ JobType /\ AddedInv /\ (Overwritten \/ TrueInv)
    BY DEF Typed, IInv
<1>2. finish \in HandlerRecord /\ ~Busy(finish)
    BY <1>1, RecordOf DEF HandlerRecord, Steps, Busy
<1>3. Set(j, t, finish) \/ Set(j, t, AfterUpdate(j, t))
    BY DEF ClearLastTargetUpdateInLock
<1> HIDE DEF finish
<1>4. HandlerType' /\ StartsQuiet
    BY <1>1, <1>2, <1>3, AfterType, SetQuiet
<1>5. /\ zone' = [zone EXCEPT !.last = NoUpdate]
      /\ log' = log /\ topic' = topic /\ missed' = missed
      /\ cleared' \in {cleared, cleared \cup {zone.sequence}}
    BY DEF ClearLastTargetUpdateInLock
<1>6. /\ zone' \in [members : SUBSET Target, sequence : Nat, last : Update \cup {NoUpdate}]
      /\ zone'.members = zone.members /\ zone'.sequence = zone.sequence
      /\ zone'.last = NoUpdate
    BY <1>1, <1>5 DEF ZoneType
<1>7. ZoneType'
    <2>1. zone.sequence \in Nat
        BY <1>1 DEF ZoneType
    <2> QED BY <1>1, <1>5, <1>6, <2>1 DEF ZoneType
<1>8. JobType'
    BY <1>1 DEF ClearLastTargetUpdateInLock, JobType, jobVars
<1> QED BY <1>1, <1>4, <1>5, <1>6, <1>7, <1>8, QuietStep DEF Typed, IInv, ZoneKept

(* Steps that leave the zone, its log and its topic alone.                 *)
LEMMA ZoneUnchanged ==
    ASSUME IInv, HandlerType', StartsQuiet, JobType', missed \subseteq missed',
           zone' = zone, log' = log, topic' = topic, cleared' = cleared
    PROVE  IInv'
<1>1. HandlerType /\ ZoneType /\ AddedInv /\ (Overwritten \/ TrueInv)
    BY DEF Typed, IInv
<1>2. ZoneType'
    BY <1>1 DEF ZoneType
<1> QED BY <1>1, <1>2, QuietStep DEF Typed, IInv, ZoneKept

LEMMA FinishStep ==
    ASSUME IInv, NEW j \in Job, NEW t \in Target, ClearAddMessageRequired(j, t)
    PROVE  IInv'
<1> DEFINE h0 == handler[j][t]
<1>1. HandlerType /\ JobType
    BY DEF Typed, IInv
<1>2. HandlerType' /\ StartsQuiet
    BY <1>1, AfterType, SetQuiet DEF ClearAddMessageRequired
<1>3. server' \in [Target -> Server]
    <2>1. Handled(h0) \in Target /\ h0.sequence \in Nat
        BY <1>1, RecordOf, UpdateType DEF HandlerRecord, Handled
    <2>2. \A s \in Server : [s EXCEPT !.addTargetMessageRequired = FALSE,
                                      !.sequence = h0.sequence] \in Server
        BY <2>1 DEF Server
    <2> HIDE DEF h0
    <2>3. server \in [Target -> Server]
        BY <1>1 DEF JobType
    <2> QED BY <2>1, <2>2, <2>3 DEF ClearAddMessageRequired, h0
<1>4. JobType'
    BY <1>1, <1>3 DEF ClearAddMessageRequired, JobType, jobVars, history
<1> QED BY <1>2, <1>4, ZoneUnchanged DEF ClearAddMessageRequired, history

-----------------------------------------------------------------------------
(* The steps of the jobs.                                                  *)
LEMMA GotoType ==
    ASSUME pc \in [Job -> PC], NEW j \in Job, NEW from, NEW to \in PC, Goto(j, from, to)
    PROVE  pc' \in [Job -> PC]
BY DEF Goto

LEMMA HandlersSame ==
    ASSUME HandlerType, handler' = handler
    PROVE  HandlerType' /\ StartsQuiet
BY DEF HandlerType, StartsQuiet

LEMMA SetZoneSteps ==
    ASSUME IInv, NEW j \in Setter \cup Deleter,
           AcquireLock(j) \/ ReleaseLock(j) \/ SetZoneEnds(j) \/ NewTargetsInZone(j)
    PROVE  IInv'
<1>1. HandlerType /\ JobType /\ j \in Job
    BY DEF Typed, IInv, Job
<1>2. HandlerType' /\ StartsQuiet
    BY <1>1, HandlersSame, StartQuiet
       DEF AcquireLock, ReleaseLock, SetZoneEnds, NewTargetsInZone
<1>3. pc' \in [Job -> PC]
    BY <1>1, GotoType
       DEF JobType, PC, AcquireLock, ReleaseLock, SetZoneEnds, NewTargetsInZone
<1>4. lockedBy' \in Job \cup {NoJob}
    BY <1>1 DEF JobType, AcquireLock, ReleaseLock, SetZoneEnds, NewTargetsInZone
<1>5. /\ zone' = zone /\ log' = log /\ topic' = topic /\ cleared' = cleared /\ missed' = missed
      /\ server' = server /\ seen' = seen /\ wanted' = wanted /\ events' = events
    BY DEF AcquireLock, ReleaseLock, SetZoneEnds, NewTargetsInZone, history
<1>6. JobType'
    BY <1>1, <1>3, <1>4, <1>5 DEF JobType
<1> QED BY <1>2, <1>5, <1>6, ZoneUnchanged

LEMMA FilterStep ==
    ASSUME IInv, NEW j \in Setter \cup Deleter, FilterDoomedRequests(j)
    PROVE  IInv'
<1> DEFINE fit == {t \in TargetsOf[j] : server[t].exists /\ ~server[t].inZone}
           f == [t \in Target |-> Resting(j, t, IF t \in fit THEN "assign" ELSE "none")]
<1>1. HandlerType /\ JobType /\ j \in Job
    BY DEF Typed, IInv, Job
<1>2. handler' = [handler EXCEPT ![j] = f] /\ pc' = [pc EXCEPT ![j] = pc'[j]]
      /\ pc'[j] \in {"release", "assign"}
    BY <1>1 DEF FilterDoomedRequests, Goto, JobType
<1>3. \A t \in Target : f[t] \in HandlerRecord /\ ~Busy(f[t])
    <2> HIDE DEF fit
    <2> QED BY <1>1, RestingType, RestingQuiet DEF Steps
<1>4. f \in [Target -> HandlerRecord]
    BY <1>3
<1> HIDE DEF f, fit
<1>5. HandlerType' /\ StartsQuiet
    BY <1>1, <1>2, <1>3, <1>4, SetAllQuiet
<1>6. JobType'
    BY <1>1, <1>2 DEF JobType, FilterDoomedRequests, history, PC
<1> QED BY <1>5, <1>6, ZoneUnchanged DEF FilterDoomedRequests, history

LEMMA AssignStep ==
    ASSUME IInv, NEW j \in Setter \cup Deleter, NEW t \in Target, AssignZone(j, t)
    PROVE  IInv'
<1>1. HandlerType /\ JobType /\ j \in Job
    BY DEF Typed, IInv, Job
<1>2. HandlerType' /\ StartsQuiet
    BY <1>1, RestingType, RestingQuiet, SetQuiet DEF AssignZone, Steps
<1>3. server' \in [Target -> Server]
    <2>1. \A s \in Server : [s EXCEPT !.inZone = TRUE, !.addTargetMessageRequired = TRUE,
                                      !.isTargetUpdateSequenceInc = FALSE] \in Server
        BY DEF Server
    <2>2. server \in [Target -> Server]
        BY <1>1 DEF JobType
    <2> QED BY <2>1, <2>2 DEF AssignZone
<1>4. JobType'
    BY <1>1, <1>3 DEF JobType, AssignZone, jobVars, history
<1> QED BY <1>2, <1>4, ZoneUnchanged DEF AssignZone, history

LEMMA TargetOfType == ASSUME NEW j \in Deleter PROVE TargetOf(j) \in Target
<1>1. \E t \in Target : t \in TargetsOf[j]
    <2>1. PICK t \in Target : TargetsOf[j] = {t}
        BY DEF TargetsAssumption
    <2> QED BY <2>1
<1> QED BY <1>1 DEF TargetOf

LEMMA DeleteSteps ==
    ASSUME IInv, NEW j \in Setter \cup Deleter,
           GetTargetZone(j) \/ MarkForDeletion(j) \/ DeleteTarget(j)
    PROVE  IInv'
<1>1. HandlerType /\ JobType /\ j \in Job /\ j \in Deleter
    BY DEF Typed, IInv, Job, GetTargetZone, MarkForDeletion, DeleteTarget
<1>2. HandlerType' /\ StartsQuiet
    BY <1>1, HandlersSame, StartQuiet DEF GetTargetZone, MarkForDeletion, DeleteTarget
<1>3. pc' \in [Job -> PC]
    BY <1>1, GotoType DEF JobType, PC, GetTargetZone, MarkForDeletion, DeleteTarget
<1>4. server' \in [Target -> Server]
    <2>1. Deleted \in Server
        BY DEF Deleted, Pending, Server
    <2> QED BY <1>1, <2>1, TargetOfType
            DEF JobType, GetTargetZone, MarkForDeletion, DeleteTarget
<1>5. events' \in 0..MaxEvents
    BY <1>1, EventType DEF JobType, GetTargetZone, MarkForDeletion, DeleteTarget
<1>6. /\ zone' = zone /\ log' = log /\ topic' = topic /\ cleared' = cleared /\ missed' = missed
      /\ lockedBy' = lockedBy /\ seen' = seen /\ wanted' = wanted
    BY DEF GetTargetZone, MarkForDeletion, DeleteTarget, history
<1>7. JobType'
    BY <1>1, <1>3, <1>4, <1>5, <1>6 DEF JobType
<1> QED BY <1>2, <1>6, <1>7, ZoneUnchanged

-----------------------------------------------------------------------------
(* The steps of the recovery, and the ends of processes.                   *)
LEMMA RecoveryReads ==
    ASSUME IInv,
           StartRecovery \/ ReadZone \/ CountTargets \/ CheckForTargetAddition \/ RecoveryEnds
    PROVE  IInv'
<1>1. HandlerType /\ ZoneType /\ JobType /\ Recovery \in Job
    BY DEF Typed, IInv, Job
<1>2. HandlerType' /\ StartsQuiet
    BY <1>1, HandlersSame, StartQuiet, RestQuiet
       DEF StartRecovery, ReadZone, CountTargets, CheckForTargetAddition, RecoveryEnds
<1>3. pc' \in [Job -> PC]
    <2>1. {"idle", "read", "count", "repair", "required", "update"} \subseteq PC
        BY DEF PC
    <2>2. CASE StartRecovery
        BY <1>1, <2>1, <2>2, GotoType DEF JobType, StartRecovery
    <2>3. CASE ReadZone
        BY <1>1, <2>1, <2>3, GotoType DEF JobType, ReadZone
    <2>4. CASE CountTargets
        BY <1>1, <2>1, <2>4, GotoType DEF JobType, CountTargets
    <2>5. CASE CheckForTargetAddition
        BY <1>1, <2>1, <2>5, GotoType DEF JobType, CheckForTargetAddition
    <2>6. CASE RecoveryEnds
        BY <1>1, <2>1, <2>6, GotoType DEF JobType, RecoveryEnds
    <2> QED BY <2>2, <2>3, <2>4, <2>5, <2>6
<1>4. seen' \in [members : SUBSET Target, counted : SUBSET Target] /\ wanted' \in BOOLEAN
    <2>1. CASE ReadZone
        BY <1>1, <2>1 DEF JobType, ZoneType, ReadZone, Unread
    <2>2. CASE CountTargets
        <3>1. \A S : S \subseteq Target => [seen EXCEPT !.counted = S]
                         \in [members : SUBSET Target, counted : SUBSET Target]
            BY <1>1 DEF JobType
        <3> QED BY <1>1, <2>2, <3>1 DEF JobType, CountTargets
    <2>3. CASE ~ReadZone /\ ~CountTargets
        BY <1>1, <2>3 DEF JobType, StartRecovery, CheckForTargetAddition, RecoveryEnds
    <2> QED BY <2>1, <2>2, <2>3
<1>5. /\ zone' = zone /\ log' = log /\ topic' = topic /\ cleared' = cleared /\ missed' = missed
      /\ lockedBy' = lockedBy /\ server' = server /\ events' = events
    BY DEF StartRecovery, ReadZone, CountTargets, CheckForTargetAddition, RecoveryEnds, history
<1>6. JobType'
    BY <1>1, <1>3, <1>4, <1>5 DEF JobType
<1> QED BY <1>2, <1>5, <1>6, ZoneUnchanged

(* The recovery leaves the zone as it is, or overwrites its targets while  *)
(* no update is left.                                                      *)
LEMMA RepairStep ==
    ASSUME IInv, RepairZone
    PROVE  IInv'
<1>1. HandlerType /\ ZoneType /\ JobType /\ AddedInv /\ (Overwritten \/ TrueInv)
    BY DEF Typed, IInv
<1>2. HandlerType' /\ StartsQuiet
    BY <1>1, HandlersSame DEF RepairZone
<1>3. JobType'
    <2>1. pc' \in [Job -> PC]
        <3>1. "read" \in PC /\ "required" \in PC
            BY DEF PC
        <3>2. CASE Goto(Recovery, "repair", "required")
            BY <1>1, <3>1, <3>2 DEF JobType, Goto
        <3>3. CASE Goto(Recovery, "repair", "read")
            BY <1>1, <3>1, <3>3 DEF JobType, Goto
        <3> QED BY <3>2, <3>3 DEF RepairZone
    <2>2. seen' \in [members : SUBSET Target, counted : SUBSET Target]
        BY DEF RepairZone, Unread
    <2>3. missed' \subseteq {"repair", "thrown"}
        BY <1>1 DEF RepairZone, JobType
    <2> QED BY <1>1, <2>1, <2>2, <2>3 DEF RepairZone, JobType
<1>4. log' = log /\ topic' = topic /\ cleared' = cleared /\ missed \subseteq missed'
    BY DEF RepairZone
<1>5. CASE zone' = zone
    BY <1>2, <1>3, <1>4, <1>5, ZoneUnchanged
<1>6. CASE zone' # zone
    <2>1. zone' = [zone EXCEPT !.members = seen.counted] /\ zone.last = NoUpdate
        BY <1>6 DEF RepairZone
    <2>2. seen.counted # zone.members
        BY <1>1, <1>6, <2>1 DEF ZoneType
    <2>3. "repair" \in missed'
        BY <1>6, <2>2 DEF RepairZone
    <2>4. seen.counted \in SUBSET Target
        BY <1>1 DEF JobType
    <2>5. /\ zone' \in [members : SUBSET Target, sequence : Nat, last : Update \cup {NoUpdate}]
          /\ zone'.last = NoUpdate
        BY <1>1, <2>1, <2>4 DEF ZoneType
    <2>6. ZoneType'
        BY <1>1, <1>4, <2>5 DEF ZoneType
    <2>7. AddedInv'
        <3>1. Added(zone'.last, zone'.members)
            BY <2>5, NoUpdateAdded
        <3>2. handler' = handler
            BY DEF RepairZone
        <3> QED BY <1>1, <3>1, <3>2 DEF AddedInv, Added, HandlerAdded
    <2> QED BY <1>2, <1>3, <2>3, <2>6, <2>7 DEF Typed, IInv, Overwritten
<1> QED BY <1>5, <1>6

LEMMA EndStep ==
    ASSUME IInv, NEW j \in Job, Ends(j), events' \in 0..MaxEvents,
           missed \subseteq missed', missed' \subseteq {"repair", "thrown"}
    PROVE  IInv'
<1>1. HandlerType /\ JobType
    BY DEF Typed, IInv
<1>2. HandlerType' /\ StartsQuiet
    BY <1>1, RestQuiet DEF Ends
<1>3. JobType'
    BY <1>1 DEF Ends, JobType, PC, Unread
<1> QED BY <1>2, <1>3, ZoneUnchanged DEF Ends

LEMMA EndSteps ==
    ASSUME IInv, NEW j \in Job, Crash(j) \/ \E t \in Target : HandlerThrows(j, t)
    PROVE  IInv'
<1>1. events \in 0..MaxEvents /\ missed \subseteq {"repair", "thrown"}
    BY DEF Typed, IInv, JobType
<1>2. events' \in 0..MaxEvents /\ missed \subseteq missed' /\ missed' \subseteq {"repair", "thrown"}
    BY <1>1, EventType DEF Crash, HandlerThrows
<1>3. Ends(j)
    BY DEF Crash, HandlerThrows
<1> QED BY <1>2, <1>3, EndStep

-----------------------------------------------------------------------------
LEMMA InitInv == Init => IInv
<1> SUFFICES ASSUME Init PROVE IInv
    OBVIOUS
<1>1. \A j \in Job, t \in Target : handler[j][t] = Resting(j, t, "none")
    BY DEF Init
<1>2. HandlerType
    <2>1. \A j \in Job, t \in Target : Resting(j, t, "none") \in HandlerRecord
        BY RestingType DEF Steps
    <2> QED BY <2>1 DEF Init, HandlerType
<1>3. zone.last = NoUpdate /\ zone.members = {} /\ zone.sequence = 0
    BY DEF Init
<1>4. ZoneType
    BY DEF Init, ZoneType
<1>5. JobType
    <2>1. MaxEvents \in Nat
        BY DEF BoundsAssumption
    <2>2. server \in [Target -> Server]
        BY DEF Init, Pending, Server
    <2>3. pc \in [Job -> PC] /\ seen \in [members : SUBSET Target, counted : SUBSET Target]
        BY DEF Init, PC, Unread
    <2>4. events \in 0..MaxEvents
        BY <2>1 DEF Init
    <2> QED BY <2>2, <2>3, <2>4 DEF Init, JobType
<1>6. \A j \in Job, t \in Target : ~Busy(handler[j][t])
    BY <1>1, RestingQuiet
<1>7. AddedInv
    BY <1>3, <1>6, NoUpdateAdded DEF AddedInv, HandlerAdded, Busy
<1>8. TrueInv
    <2>1. log = <<>> /\ Len(log) = 0 /\ topic = {}
        BY DEF Init
    <2>2. LogInv /\ LastInv /\ TopicInv
        BY <1>3, <2>1 DEF LogInv, LastInv, TopicInv, MembersAt
    <2> QED BY <1>6, <2>2 DEF TrueInv, HandlerTrue, Busy
<1> QED BY <1>2, <1>4, <1>5, <1>7, <1>8 DEF Typed, IInv

LEMMA InductiveStep == IInv /\ [Next]_vars => IInv'
<1> SUFFICES ASSUME IInv, [Next]_vars PROVE IInv'
    OBVIOUS
<1>1. ASSUME NEW j \in Job, NEW t \in Target, Handler(j, t) \/ SendFails(j, t)
      PROVE  IInv'
    BY <1>1, FindStep, UpdateStep, CountStep, SendStep, ClearStep, FinishStep, EndSteps
       DEF Handler
<1>2. ASSUME NEW j \in Job, Crash(j)
      PROVE  IInv'
    BY <1>2, EndSteps
<1>3. ASSUME NEW j \in Setter \cup Deleter, AcquireLock(j) \/ GetTargetZone(j) \/ JobStep(j)
      PROVE  IInv'
    BY <1>3, SetZoneSteps, FilterStep, AssignStep, DeleteSteps DEF JobStep
<1>4. CASE RecoveryStep
    BY <1>4, RecoveryReads, RepairStep DEF RecoveryStep
<1>5. CASE UNCHANGED vars
    <2>1. HandlerType /\ JobType
        BY DEF Typed, IInv
    <2>2. HandlerType' /\ StartsQuiet
        BY <1>5, <2>1, HandlersSame DEF vars
    <2>3. JobType'
        BY <1>5, <2>1 DEF vars, jobVars, history, JobType
    <2> QED BY <1>5, <2>2, <2>3, ZoneUnchanged DEF vars, history
<1> QED BY <1>1, <1>2, <1>3, <1>4, <1>5 DEF Next

LEMMA Inductive == Spec => []IInv
BY InitInv, InductiveStep, PTL DEF Spec

(* handleTargetUpdateInZone tells the truth: a message tells of the zone   *)
(* what was so at its number, however many handlers work on it, whoever    *)
(* sends the update of another one, and whatever crashes or fails, unless  *)
(* the recovery overwrote the targets.                                     *)
THEOREM TruthIsSent == Spec => []MessagesAreTrue
<1>1. IInv => MessagesAreTrue
    BY DEF IInv, Overwritten, TrueInv, TopicInv, MessagesAreTrue
<1> QED BY <1>1, Inductive, PTL

-----------------------------------------------------------------------------
(* No update is lost.  A target that has a zone, or has a document no more *)
(* (and gets none again), is known: only those are told of.                *)
Known(t, s) == s[t].exists => s[t].inZone
KnownUpdate(u, s) == u.type = "add" => Known(u.target, s)

Sent(u, n, messages) == \E m \in messages : m.update = u /\ m.sequence = n

Active == {"find", "updateZone", "count", "send", "clear", "finish"}

(* A handler that is to change the zone read it without an update that is  *)
(* left, one that tells an update has the number of it, and what it clears *)
(* or finishes was sent.                                                   *)
HandlerFair(h, t, z, messages, s) ==
    /\ h.step = "updateZone" => /\ h.sequence <= z.sequence
                                /\ h.sequence = z.sequence => z.last = NoUpdate
    /\ h.step \in {"count", "send", "clear"} =>
          /\ h.sequence <= z.sequence
          /\ h.sequence = z.sequence => z.last \in {NoUpdate, h.update}
    /\ h.step \in {"clear", "finish"} => Sent(h.update, h.sequence, messages)
    /\ h.step = "finish" => h.update.type = "add"
    /\ h.step = "assigned" => Known(t, s)
    /\ h.step \in Active => KnownUpdate(h.own, s) /\ KnownUpdate(h.update, s)

(* The message to add a target is required from the moment it has a zone   *)
(* until one is sent.                                                      *)
ServerFair(t, s, messages) ==
    /\ s[t].addTargetMessageRequired => s[t].inZone
    /\ s[t].exists /\ s[t].inZone =>
          s[t].addTargetMessageRequired \/ \E m \in messages : m.update = Add(t)

Applied(z) ==
    z.last # NoUpdate => (z.last.type = "add" <=> z.last.target \in z.members)

ZoneFair ==
    /\ zone.sequence = Len(log)
    /\ LastInv
    /\ Applied(zone)
    /\ KnownUpdate(zone.last, server)

(* An update is told, or left, or cleared by the handler of another.       *)
Accounted(n) ==
    \/ Told(log[n].update, n)
    \/ n = zone.sequence /\ zone.last = log[n].update
    \/ n \in cleared

(* An addition is told, or the target is added again, gone, or removed.    *)
Repeated(n) ==
    log[n].update.type = "add" =>
        \/ Told(log[n].update, n)
        \/ log[n].update.target \in Required
        \/ ~server[log[n].update.target].exists
        \/ RemovedBefore(n, log[n].update.target)

(* A target leaves the zone by a removal.                                  *)
RemovedIn(l, n, t) == \E k \in 1..n : l[k].update = Remove(t)

LeavesByRemoval ==
    \A n \in 0..Len(log) : \A s \in 0..n : \A t \in MembersAt(s) :
        t \in MembersAt(n) \/ RemovedIn(log, n, t)

HandlersFair == \A j \in Job, t \in Target : HandlerFair(handler[j][t], t, zone, topic, server)
ServersFair  == \A t \in Target : ServerFair(t, server, topic)
AllAccounted == \A n \in 1..Len(log) : Accounted(n)
AllRepeated  == LeavesByRemoval /\ \A n \in 1..Len(log) : Repeated(n)

FairInv ==
    /\ ZoneFair
    /\ HandlersFair
    /\ ServersFair
    /\ AllAccounted
    /\ Overwritten \/ AllRepeated

(* What no step takes back.                                                *)
ServersKept == \A t \in Target : /\ Known(t, server) => Known(t, server')
                                 /\ ~server[t].exists => ~server'[t].exists
RequiredKept == \A t \in Required : t \in Required' \/ ~server'[t].exists

LEMMA KnownKept ==
    ASSUME ServersKept, NEW u \in Update \cup {NoUpdate}, KnownUpdate(u, server)
    PROVE  KnownUpdate(u, server')
<1>1. CASE u.type = "add"
    <2>1. u # NoUpdate
        BY <1>1 DEF NoUpdate
    <2>2. u.target \in Target
        BY <2>1, UpdateType
    <2> QED BY <2>2 DEF ServersKept, KnownUpdate
<1>2. CASE u.type # "add"
    BY <1>2 DEF KnownUpdate
<1> QED BY <1>1, <1>2

(* A handler that stays as it is.                                          *)
LEMMA HandlerKept ==
    ASSUME NEW h \in HandlerRecord, NEW t \in Target, ServersKept, topic \subseteq topic',
           zone'.sequence = zone.sequence, zone'.last \in {zone.last, NoUpdate},
           HandlerFair(h, t, zone, topic, server)
    PROVE  HandlerFair(h, t, zone', topic', server')
<1>1. h.own \in Update /\ h.update \in Update
    BY DEF HandlerRecord
<1>2. h.step \in Active => KnownUpdate(h.own, server') /\ KnownUpdate(h.update, server')
    BY <1>1, KnownKept DEF HandlerFair
<1>3. h.step = "assigned" => Known(t, server')
    BY DEF HandlerFair, ServersKept
<1>4. h.step \in {"clear", "finish"} => Sent(h.update, h.sequence, topic')
    BY DEF HandlerFair, Sent
<1> QED BY <1>2, <1>3, <1>4 DEF HandlerFair

(* A handler at rest, or before its first step.                            *)
LEMMA RestFair ==
    ASSUME NEW j \in Job, NEW t \in Target, NEW step, NEW z, NEW messages, NEW s,
           step \notin Active \cup {"assigned"}
    PROVE  HandlerFair(Resting(j, t, step), t, z, messages, s)
BY DEF HandlerFair, Resting, Active

LEMMA BeginFair ==
    ASSUME NEW j \in Job, NEW t \in Target, NEW step \in {"find", "assigned"},
           NEW z, NEW messages, NEW s, j \in Deleter \/ Known(t, s),
           step = "assigned" => Known(t, s)
    PROVE  HandlerFair(Resting(j, t, step), t, z, messages, s)
<1>1. KnownUpdate(OwnUpdate(j, t), s)
    BY DEF OwnUpdate, Add, Remove, KnownUpdate
<1> QED BY <1>1 DEF HandlerFair, Resting, Active

(* Steps that leave the zone and its log alone.                            *)
LEMMA LogKept ==
    ASSUME ZoneFair, AllAccounted, ZoneType, ServersKept,
           zone' = zone, log' = log, cleared' = cleared, topic \subseteq topic'
    PROVE  ZoneFair' /\ AllAccounted'
<1>1. KnownUpdate(zone.last, server')
    BY KnownKept DEF ZoneFair, ZoneType
<1>2. ZoneFair'
    BY <1>1 DEF ZoneFair, LastInv, Applied
<1>3. AllAccounted'
    BY DEF AllAccounted, Accounted, Told
<1> QED BY <1>2, <1>3

LEMMA RepeatedKept ==
    ASSUME ZoneType, NEW n \in 1..Len(log), Repeated(n), log' = log,
           topic \subseteq topic', ServersKept, RequiredKept
    PROVE  Repeated(n)'
<1>1. CASE log[n].update.type # "add"
    BY <1>1 DEF Repeated
<1>2. CASE log[n].update.type = "add"
    <2> DEFINE t == log[n].update.target
    <2>1. t \in Target
        <3>1. log[n] \in LogEntry
            BY DEF ZoneType
        <3> QED BY <3>1, UpdateType DEF LogEntry
    <2>2. CASE Told(log[n].update, n)
        BY <2>2 DEF Repeated, Told
    <2>3. CASE t \in Required \/ ~server[t].exists
        BY <2>1, <2>3 DEF ServersKept, RequiredKept, Repeated
    <2>4. CASE RemovedBefore(n, t)
        BY <2>4 DEF RemovedBefore, Repeated
    <2> QED BY <1>2, <2>2, <2>3, <2>4 DEF Repeated
<1> QED BY <1>1, <1>2

LEMMA FairKept ==
    ASSUME ZoneType, FairInv,
           zone' = zone, log' = log, cleared' = cleared, topic \subseteq topic',
           missed \subseteq missed', ServersKept, RequiredKept, ServersFair', HandlersFair'
    PROVE  FairInv'
<1>1. ZoneFair' /\ AllAccounted'
    BY LogKept DEF FairInv
<1>2. CASE Overwritten
    <2>1. Overwritten'
        BY <1>2 DEF Overwritten
    <2> QED BY <1>1, <2>1 DEF FairInv
<1>3. CASE AllRepeated
    <2>1. LeavesByRemoval'
        BY <1>3 DEF AllRepeated, LeavesByRemoval, MembersAt
    <2>2. \A n \in 1..Len(log) : Repeated(n)'
        BY <1>3, RepeatedKept DEF AllRepeated
    <2>3. AllRepeated'
        BY <2>1, <2>2 DEF AllRepeated
    <2> QED BY <1>1, <2>3 DEF FairInv
<1> QED BY <1>2, <1>3 DEF FairInv

(* The servers stay.                                                       *)
LEMMA SameServers ==
    ASSUME server' = server, topic \subseteq topic', ServersFair
    PROVE  ServersKept /\ RequiredKept /\ ServersFair'
<1>1. ServersKept
    BY DEF ServersKept
<1>2. RequiredKept
    BY DEF RequiredKept, Required
<1>3. ServersFair'
    BY DEF ServersFair, ServerFair
<1> QED BY <1>1, <1>2, <1>3

(* Handlers that do not move.                                              *)
LEMMA OneStays ==
    ASSUME HandlerType, HandlersFair, ServersKept, topic \subseteq topic',
           zone'.sequence = zone.sequence, zone'.last \in {zone.last, NoUpdate},
           NEW k \in Job, NEW u \in Target
    PROVE  HandlerFair(handler[k][u], u, zone', topic', server')
<1>1. handler[k][u] \in HandlerRecord /\ HandlerFair(handler[k][u], u, zone, topic, server)
    BY RecordOf DEF HandlersFair
<1> QED BY <1>1, HandlerKept

(* One handler moves, the others stay.                                     *)
LEMMA OneMoves ==
    ASSUME HandlerType, HandlersFair, ServersKept, topic \subseteq topic',
           zone'.sequence = zone.sequence, zone'.last \in {zone.last, NoUpdate},
           NEW j \in Job, NEW t \in Target, NEW h \in HandlerRecord, Set(j, t, h),
           HandlerFair(h, t, zone', topic', server')
    PROVE  HandlersFair'
<1>1. ASSUME NEW k \in Job, NEW u \in Target
      PROVE  HandlerFair(handler'[k][u], u, zone', topic', server')
    <2>1. handler'[k][u] = IF k = j /\ u = t THEN h ELSE handler[k][u]
        BY SetType
    <2>2. HandlerFair(handler[k][u], u, zone', topic', server')
        BY OneStays
    <2> QED BY <2>1, <2>2
<1> QED BY <1>1 DEF HandlersFair

(* The handlers of one job move.                                           *)
LEMMA JobMoves ==
    ASSUME HandlerType, HandlersFair, ServersKept, topic \subseteq topic',
           zone'.sequence = zone.sequence, zone'.last \in {zone.last, NoUpdate},
           NEW j \in Job, NEW f \in [Target -> HandlerRecord],
           handler' = [handler EXCEPT ![j] = f],
           \A t \in Target : HandlerFair(f[t], t, zone', topic', server')
    PROVE  HandlersFair'
<1>1. /\ HandlerType'
      /\ \A k \in Job, u \in Target : handler'[k][u] = IF k = j THEN f[u] ELSE handler[k][u]
    BY SetAllType
<1>2. ASSUME NEW k \in Job, NEW u \in Target
      PROVE  HandlerFair(handler'[k][u], u, zone', topic', server')
    <2>1. HandlerFair(handler[k][u], u, zone', topic', server')
        BY OneStays
    <2> QED BY <1>1, <2>1
<1> QED BY <1>2 DEF HandlersFair

(* No handler moves.                                                       *)
LEMMA NoneMoves ==
    ASSUME HandlerType, HandlersFair, ServersKept, topic \subseteq topic',
           zone'.sequence = zone.sequence, zone'.last \in {zone.last, NoUpdate},
           handler' = handler
    PROVE  HandlersFair'
<1>1. ASSUME NEW k \in Job, NEW u \in Target
      PROVE  HandlerFair(handler'[k][u], u, zone', topic', server')
    BY OneStays
<1> QED BY <1>1 DEF HandlersFair

-----------------------------------------------------------------------------
(* The steps of one handler.                                               *)
LEMMA FindFair ==
    ASSUME IInv, FairInv, NEW j \in Job, NEW t \in Target, FindZoneLock(j, t)
    PROVE  FairInv'
<1> DEFINE h0 == handler[j][t]
           update == IF zone.last # NoUpdate THEN zone.last ELSE h0.own
           h == handler'[j][t]
<1>1. HandlerType /\ ZoneType /\ HandlersFair /\ ServersFair /\ ZoneFair
    BY DEF Typed, IInv, FairInv
<1>2. h0 \in HandlerRecord /\ h0.step = "find" /\ HandlerFair(h0, t, zone, topic, server)
    BY <1>1, RecordOf DEF FindZoneLock, At, HandlersFair
<1>3. /\ zone' = zone /\ log' = log /\ topic' = topic /\ missed' = missed
      /\ cleared' = cleared /\ server' = server
    BY DEF FindZoneLock, history
<1>4. /\ Set(j, t, h)
      /\ h.step = IF update.type = "add" <=> update.target \notin zone.members
                  THEN "updateZone" ELSE "count"
      /\ h.own = h0.own /\ h.update = update /\ h.sequence = zone.sequence
    BY <1>1, <1>2 DEF FindZoneLock, Set, HandlerType, HandlerRecord
<1>5. HandlerType' /\ h \in HandlerRecord
    <2>1. HandlerType'
        BY FindStep DEF Typed, IInv
    <2> QED BY <2>1 DEF HandlerType
<1>6. /\ ServersKept /\ RequiredKept /\ ServersFair'
    BY <1>1, <1>3, SameServers
<1>7. KnownUpdate(h0.own, server) /\ KnownUpdate(update, server)
    BY <1>1, <1>2 DEF HandlerFair, Active, ZoneFair
<1>8. h.step = "updateZone" => zone.last = NoUpdate
    BY <1>1, <1>4 DEF ZoneFair, Applied
<1>9. zone.sequence \in Nat
    BY <1>1 DEF ZoneType
<1>10. h.step \in {"updateZone", "count"}
    BY <1>4
<1>11. h.update = zone.last \/ zone.last = NoUpdate
    BY <1>4
<1> HIDE DEF h, update, h0
<1>12. HandlerFair(h, t, zone, topic, server)
    BY <1>4, <1>7, <1>8, <1>9, <1>10, <1>11 DEF HandlerFair
<1>13. HandlersFair'
    BY <1>1, <1>3, <1>4, <1>5, <1>6, <1>12, OneMoves
<1> QED BY <1>1, <1>3, <1>6, <1>13, FairKept

LEMMA CountFair ==
    ASSUME IInv, FairInv, NEW j \in Job, NEW t \in Target,
           SetIsTargetUpdateSequenceInc(j, t)
    PROVE  FairInv'
<1> DEFINE h0 == handler[j][t]
           h == [h0 EXCEPT !.step = "send"]
<1>1. HandlerType /\ ZoneType /\ JobType /\ HandlersFair /\ ServersFair
    BY DEF Typed, IInv, FairInv
<1>2. h0 \in HandlerRecord /\ h0.step = "count" /\ HandlerFair(h0, t, zone, topic, server)
    BY <1>1, RecordOf DEF SetIsTargetUpdateSequenceInc, At, HandlersFair
<1>3. /\ zone' = zone /\ log' = log /\ topic' = topic /\ missed' = missed
      /\ cleared' = cleared
    BY DEF SetIsTargetUpdateSequenceInc, history
<1>4. \A u \in Target : /\ server'[u].exists = server[u].exists
                        /\ server'[u].inZone = server[u].inZone
                        /\ server'[u].addTargetMessageRequired
                              = server[u].addTargetMessageRequired
    BY <1>1 DEF SetIsTargetUpdateSequenceInc, JobType, Server
<1>5. ServersKept /\ RequiredKept
    BY <1>4 DEF ServersKept, Known, RequiredKept, Required
<1>6. ServersFair'
    BY <1>1, <1>3, <1>4 DEF ServersFair, ServerFair
<1>7. Set(j, t, h) /\ h \in HandlerRecord
    BY <1>2 DEF SetIsTargetUpdateSequenceInc, HandlerRecord, Steps
<1>8. /\ h.step = "send" /\ h.own = h0.own /\ h.update = h0.update
      /\ h.sequence = h0.sequence
    BY <1>2 DEF HandlerRecord
<1> HIDE DEF h, h0
<1>9. HandlerFair(h, t, zone, topic, server)
    BY <1>2, <1>8 DEF HandlerFair, Active
<1>10. HandlerFair(h, t, zone', topic', server')
    BY <1>3, <1>5, <1>7, <1>9, HandlerKept
<1>11. HandlersFair'
    BY <1>1, <1>3, <1>5, <1>7, <1>10, OneMoves
<1> QED BY <1>1, <1>3, <1>5, <1>6, <1>11, FairKept

LEMMA SendFair ==
    ASSUME IInv, FairInv, NEW j \in Job, NEW t \in Target,
           SendMessages(j, t) \/ SendFails(j, t)
    PROVE  FairInv'
<1> DEFINE h0 == handler[j][t]
           h == [h0 EXCEPT !.step = "clear", !.members = {}, !.updated = FALSE]
           rest == Resting(j, t, "failed")
<1>1. HandlerType /\ ZoneType /\ HandlersFair /\ ServersFair
    BY DEF Typed, IInv, FairInv
<1>2. h0 \in HandlerRecord /\ h0.step = "send" /\ HandlerFair(h0, t, zone, topic, server)
    BY <1>1, RecordOf DEF SendMessages, SendFails, At, HandlersFair
<1>3. /\ zone' = zone /\ log' = log /\ missed' = missed /\ cleared' = cleared
      /\ server' = server /\ topic \subseteq topic'
    BY DEF SendMessages, SendFails, history
<1>4. /\ ServersKept /\ RequiredKept /\ ServersFair'
    BY <1>1, <1>3, SameServers
<1>5. CASE SendMessages(j, t)
    <2>1. /\ Message(h0) \in topic'
          /\ Message(h0).update = h0.update /\ Message(h0).sequence = h0.sequence
        BY <1>5 DEF SendMessages, Message
    <2>2. Set(j, t, h) /\ h \in HandlerRecord
        BY <1>2, <1>5 DEF SendMessages, HandlerRecord, Steps
    <2>3. /\ h.step = "clear" /\ h.own = h0.own /\ h.update = h0.update
          /\ h.sequence = h0.sequence
        BY <1>2 DEF HandlerRecord
    <2> HIDE DEF h, h0
    <2>4. Sent(h.update, h.sequence, topic')
        BY <2>1, <2>3 DEF Sent
    <2>5. HandlerFair(h, t, zone, topic', server)
        BY <1>2, <2>3, <2>4 DEF HandlerFair, Active
    <2>6. HandlersFair'
        BY <1>1, <1>3, <1>4, <2>2, <2>5, OneMoves
    <2> QED BY <1>1, <1>3, <1>4, <2>6, FairKept
<1>6. CASE SendFails(j, t)
    <2>1. Set(j, t, rest) /\ rest \in HandlerRecord
        BY <1>6, RestingType DEF SendFails, Steps
    <2>2. HandlerFair(rest, t, zone', topic', server')
        BY RestFair DEF Active
    <2> HIDE DEF rest
    <2>3. HandlersFair'
        BY <1>1, <1>3, <1>4, <2>1, <2>2, OneMoves
    <2> QED BY <1>1, <1>3, <1>4, <2>3, FairKept
<1> QED BY <1>5, <1>6

(* A handler that goes on with its own update, or ends.                    *)
LEMMA AfterFair ==
    ASSUME HandlerType, NEW j \in Job, NEW t \in Target,
           NEW z, NEW messages, NEW s, KnownUpdate(handler[j][t].own, s)
    PROVE  /\ HandlerFair(AfterUpdate(j, t), t, z, messages, s)
           /\ AfterUpdate(j, t) \in HandlerRecord
<1>1. handler[j][t] \in HandlerRecord
    BY RecordOf
<1>2. HandlerFair(Anew(handler[j][t]), t, z, messages, s)
    BY <1>1 DEF HandlerFair, Anew, HandlerRecord, Active
<1>3. HandlerFair(Resting(j, t, "done"), t, z, messages, s)
    BY RestFair DEF Active
<1> QED BY <1>2, <1>3, AfterType DEF AfterUpdate

LEMMA ClearFair ==
    ASSUME IInv, FairInv, NEW j \in Job, NEW t \in Target, ClearLastTargetUpdateInLock(j, t)
    PROVE  FairInv'
<1> DEFINE h0 == handler[j][t]
           finish == [h0 EXCEPT !.step = "finish"]
<1>1. /\ HandlerType /\ ZoneType /\ HandlersFair /\ ServersFair /\ ZoneFair
      /\ AllAccounted /\ (Overwritten \/ AllRepeated)
    BY DEF Typed, IInv, FairInv
<1>2. h0 \in HandlerRecord /\ h0.step = "clear" /\ HandlerFair(h0, t, zone, topic, server)
    BY <1>1, RecordOf DEF ClearLastTargetUpdateInLock, At, HandlersFair
<1>3. log' = log /\ topic' = topic /\ missed' = missed /\ server' = server
    BY DEF ClearLastTargetUpdateInLock
<1>4. /\ zone'.sequence = zone.sequence /\ zone'.members = zone.members
      /\ zone'.last = NoUpdate
    BY <1>1 DEF ClearLastTargetUpdateInLock, ZoneType
<1>5. /\ ServersKept /\ RequiredKept /\ ServersFair'
    BY <1>1, <1>3, SameServers
<1>6. /\ KnownUpdate(h0.own, server) /\ KnownUpdate(h0.update, server)
      /\ Sent(h0.update, h0.sequence, topic)
      /\ h0.sequence = zone.sequence => zone.last \in {NoUpdate, h0.update}
    BY <1>2 DEF HandlerFair, Active
<1>7. HandlersFair'
    <2>1. /\ AfterUpdate(j, t) \in HandlerRecord
          /\ HandlerFair(AfterUpdate(j, t), t, zone', topic', server')
        BY <1>1, <1>3, <1>6, AfterFair
    <2>2. /\ finish \in HandlerRecord
          /\ finish.step = "finish" /\ finish.own = h0.own /\ finish.update = h0.update
          /\ finish.sequence = h0.sequence
        BY <1>2 DEF HandlerRecord, Steps
    <2>3. \/ Set(j, t, AfterUpdate(j, t))
          \/ Set(j, t, finish) /\ h0.update.type = "add"
        BY DEF ClearLastTargetUpdateInLock
    <2> HIDE DEF finish, h0
    <2>4. CASE Set(j, t, AfterUpdate(j, t))
        BY <1>1, <1>3, <1>4, <1>5, <2>1, <2>4, OneMoves
    <2>5. CASE Set(j, t, finish) /\ h0.update.type = "add"
        <3>1. HandlerFair(finish, t, zone', topic', server')
            BY <1>3, <1>6, <2>2, <2>5 DEF HandlerFair
        <3> QED BY <1>1, <1>3, <1>4, <1>5, <2>2, <2>5, <3>1, OneMoves
    <2> QED BY <2>3, <2>4, <2>5
<1>8. ZoneFair'
    <2>1. KnownUpdate(NoUpdate, server')
        BY DEF KnownUpdate, NoUpdate
    <2> QED BY <1>1, <1>3, <1>4, <2>1 DEF ZoneFair, LastInv, Applied
<1>9. ASSUME NEW n \in 1..Len(log)
      PROVE  Told(log[n].update, n) \/ n \in cleared'
    <2>1. Accounted(n) /\ cleared \subseteq cleared'
        BY <1>1 DEF AllAccounted, ClearLastTargetUpdateInLock
    <2>2. CASE n = zone.sequence /\ zone.last = log[n].update
        <3>1. zone.last # NoUpdate
            <4>1. log[n] \in LogEntry
                BY <1>1 DEF ZoneType
            <4> QED BY <2>2, <4>1, UpdateType DEF LogEntry
        <3>2. CASE zone.sequence # h0.sequence
            BY <2>2, <3>1, <3>2 DEF ClearLastTargetUpdateInLock
        <3>3. CASE zone.sequence = h0.sequence
            <4>1. Sent(log[n].update, n, topic)
                BY <1>6, <2>2, <3>1, <3>3
            <4> QED BY <4>1 DEF Sent, Told
        <3> QED BY <3>2, <3>3
    <2> QED BY <2>1, <2>2 DEF Accounted
<1>10. AllAccounted'
    BY <1>3, <1>9 DEF AllAccounted, Accounted, Told
<1>11. Overwritten' \/ AllRepeated'
    <2>1. CASE Overwritten
        BY <1>3, <2>1 DEF Overwritten
    <2>2. CASE AllRepeated
        <3>1. LeavesByRemoval'
            BY <1>3, <2>2 DEF AllRepeated, LeavesByRemoval, MembersAt
        <3>2. \A n \in 1..Len(log) : Repeated(n)'
            BY <1>1, <1>3, <1>5, <2>2, RepeatedKept DEF AllRepeated
        <3> QED BY <1>3, <3>1, <3>2 DEF AllRepeated
    <2> QED BY <1>1, <2>1, <2>2
<1> QED BY <1>5, <1>7, <1>8, <1>10, <1>11 DEF FairInv

(* A finished addition was told, by a message that is true: an addition of *)
(* the same target with a later number follows a removal.                  *)
LEMMA SentLater ==
    ASSUME IInv, TrueInv, LeavesByRemoval, NEW n \in 1..Len(log),
           NEW t \in Target, log[n].update = Add(t), NEW m \in topic, m.update = Add(t)
    PROVE  Told(Add(t), n) \/ RemovedBefore(n, t)
<1>1. ZoneType /\ Len(log) \in Nat
    BY DEF Typed, IInv, ZoneType
<1>2. /\ m.sequence \in 0..Len(log)
      /\ t \in MembersAt(m.sequence)
    BY DEF TrueInv, TopicInv, IsTrue, Add
<1>3. t \notin MembersAt(n - 1)
    BY DEF TrueInv, LogInv, Add
<1>4. CASE m.sequence >= n
    BY <1>4 DEF Told
<1>5. CASE m.sequence < n
    <2>1. n - 1 \in 0..Len(log) /\ m.sequence \in 0..(n - 1)
        BY <1>1, <1>2, <1>5
    <2>2. t \in MembersAt(n - 1) \/ RemovedIn(log, n - 1, t)
        BY <1>2, <2>1 DEF LeavesByRemoval
    <2> QED BY <1>3, <2>1, <2>2 DEF RemovedIn, RemovedBefore
<1> QED BY <1>1, <1>2, <1>4, <1>5

LEMMA FinishFair ==
    ASSUME IInv, FairInv, NEW j \in Job, NEW t \in Target, ClearAddMessageRequired(j, t)
    PROVE  FairInv'
<1> DEFINE h0 == handler[j][t]
           v == h0.update.target
<1>1. /\ HandlerType /\ ZoneType /\ JobType /\ HandlersFair /\ ServersFair /\ ZoneFair
      /\ AllAccounted /\ (Overwritten \/ AllRepeated) /\ (Overwritten \/ TrueInv)
    BY DEF Typed, IInv, FairInv
<1>2. h0 \in HandlerRecord /\ h0.step = "finish" /\ HandlerFair(h0, t, zone, topic, server)
    BY <1>1, RecordOf DEF ClearAddMessageRequired, At, HandlersFair
<1>3. /\ zone' = zone /\ log' = log /\ topic' = topic /\ missed' = missed
      /\ cleared' = cleared
    BY DEF ClearAddMessageRequired, history
<1>4. /\ KnownUpdate(h0.own, server) /\ h0.update.type = "add"
      /\ Sent(h0.update, h0.sequence, topic)
    BY <1>2 DEF HandlerFair, Active
<1>5. v \in Target /\ h0.update = Add(v)
    BY <1>2, <1>4, UpdateType DEF HandlerRecord, Update, Add
<1>6. PICK m \in topic : m.update = Add(v)
    BY <1>4, <1>5 DEF Sent
<1>7. \A u \in Target : /\ server'[u].exists = server[u].exists
                        /\ server'[u].inZone = server[u].inZone
                        /\ \/ u = v
                           \/ server'[u].addTargetMessageRequired
                                 = server[u].addTargetMessageRequired
                        /\ server'[u].addTargetMessageRequired
                              => server[u].addTargetMessageRequired
    <2>1. server' = [server EXCEPT ![v] =
                       IF server[v].exists
                       THEN [server[v] EXCEPT !.addTargetMessageRequired = FALSE,
                                              !.sequence = h0.sequence]
                       ELSE server[v]]
        BY DEF ClearAddMessageRequired, Handled
    <2>2. server \in [Target -> Server]
        BY <1>1 DEF JobType
    <2> HIDE DEF h0, v
    <2> QED BY <1>5, <2>1, <2>2 DEF Server
<1>8. Set(j, t, AfterUpdate(j, t))
    BY DEF ClearAddMessageRequired
<1> HIDE DEF h0, v
<1>9. ServersKept
    BY <1>7 DEF ServersKept, Known
<1>10. ServersFair'
    <2>1. ASSUME NEW u \in Target PROVE ServerFair(u, server', topic')
        <3>1. ServerFair(u, server, topic)
            BY <1>1 DEF ServersFair
        <3> QED BY <1>3, <1>6, <1>7, <3>1 DEF ServerFair
    <2> QED BY <2>1 DEF ServersFair
<1>11. HandlersFair'
    <2>1. KnownUpdate(h0.own, server')
        BY <1>2, <1>4, <1>9, KnownKept DEF HandlerRecord
    <2>2. /\ AfterUpdate(j, t) \in HandlerRecord
          /\ HandlerFair(AfterUpdate(j, t), t, zone', topic', server')
        BY <1>1, <2>1, AfterFair DEF h0
    <2> QED BY <1>1, <1>3, <1>8, <1>9, <2>2, OneMoves
<1>12. ZoneFair' /\ AllAccounted'
    BY <1>1, <1>3, <1>9, LogKept
<1>13. CASE Overwritten
    <2>1. Overwritten'
        BY <1>3, <1>13 DEF Overwritten
    <2> QED BY <1>10, <1>11, <1>12, <2>1 DEF FairInv
<1>14. CASE AllRepeated /\ TrueInv
    <2>1. LeavesByRemoval'
        BY <1>3, <1>14 DEF AllRepeated, LeavesByRemoval, MembersAt
    <2>2. ASSUME NEW n \in 1..Len(log), log[n].update.type = "add"
          PROVE  Repeated(n)'
        <3> DEFINE u == log[n].update.target
        <3>1. log[n].update \in Update
            <4>1. log[n] \in LogEntry
                BY <1>1 DEF ZoneType
            <4> QED BY <4>1 DEF LogEntry
        <3>2. u \in Target /\ log[n].update = Add(u)
            BY <2>2, <3>1 DEF Update, Add
        <3> HIDE DEF u
        <3>3. Repeated(n)
            BY <1>14 DEF AllRepeated
        <3>4. \/ Told(Add(u), n) \/ u \in Required
              \/ ~server[u].exists \/ RemovedBefore(n, u)
            BY <2>2, <3>2, <3>3 DEF Repeated, u
        <3>5. CASE u = v
            <4>1. Told(Add(u), n) \/ RemovedBefore(n, u)
                BY <1>6, <1>14, <3>2, <3>5, SentLater DEF AllRepeated
            <4> QED BY <1>3, <3>2, <4>1 DEF Repeated, Told, RemovedBefore, u
        <3>6. CASE u # v
            <4>1. u \in Required => u \in Required'
                BY <1>7, <3>2, <3>6 DEF Required
            <4>2. ~server[u].exists => ~server'[u].exists
                BY <1>7, <3>2
            <4> QED BY <1>3, <3>2, <3>4, <4>1, <4>2 DEF Repeated, Told, RemovedBefore, u
        <3> QED BY <3>5, <3>6
    <2>3. \A n \in 1..Len(log) : Repeated(n)'
        <3>1. ASSUME NEW n \in 1..Len(log), log[n].update.type # "add"
              PROVE  Repeated(n)'
            BY <1>3, <3>1 DEF Repeated
        <3> QED BY <2>2, <3>1
    <2>4. AllRepeated'
        BY <1>3, <2>1, <2>3 DEF AllRepeated
    <2> QED BY <1>10, <1>11, <1>12, <2>4 DEF FairInv
<1> QED BY <1>1, <1>13, <1>14

(* The zone is changed: the update that was left was told or cleared, or   *)
(* there was none.                                                         *)
LEMMA LeavesStep ==
    ASSUME ZoneType, LeavesByRemoval, NEW u \in Update, NEW members,
           members = WithUpdate(MembersAt(Len(log)), u),
           log' = Append(log, [update |-> u, members |-> members]),
           members \in SUBSET Target
    PROVE  LeavesByRemoval'
<1> DEFINE N == Len(log)
           e == [update |-> u, members |-> members]
<1>1. N \in Nat /\ e \in LogEntry
    BY DEF ZoneType, LogEntry
<1>2. /\ Len(log') = N + 1 /\ log'[N + 1] = e
      /\ \A n \in 1..N : log'[n] = log[n]
      /\ \A n \in 0..N : MembersAt(n)' = MembersAt(n)
      /\ \A n : n = N + 1 => MembersAt(n)' = members
    BY <1>1, Grows
<1>3. u.type \in {"add", "remove"} /\ u.target \in Target
    BY UpdateType
<1>4. e.update = u
    OBVIOUS
<1> HIDE DEF N, e
<1>5. ASSUME NEW n \in 0..N, NEW s \in 0..n, NEW t \in MembersAt(s)
      PROVE  t \in MembersAt(n) \/ RemovedIn(log', n, t)
    <2>1. t \in MembersAt(n) \/ RemovedIn(log, n, t)
        BY <1>5 DEF LeavesByRemoval, N
    <2>2. CASE RemovedIn(log, n, t)
        <3>1. PICK k \in 1..n : log[k].update = Remove(t)
            BY <2>2 DEF RemovedIn
        <3>2. log'[k] = log[k]
            BY <1>1, <1>2
        <3> QED BY <3>1, <3>2 DEF RemovedIn
    <2> QED BY <2>1, <2>2
<1>6. ASSUME NEW s \in 0..N, NEW t \in MembersAt(s), t \notin members
      PROVE  RemovedIn(log', N + 1, t)
    <2>1. N \in 0..N /\ s \in 0..N
        BY <1>1
    <2>2. t \in MembersAt(N) \/ RemovedIn(log', N, t)
        BY <1>5, <2>1
    <2>3. CASE t \in MembersAt(N)
        <3>1. u.type # "add" /\ u.target = t
            BY <1>6, <2>3 DEF WithUpdate, N
        <3>2. u = Remove(t)
            BY <1>3, <3>1 DEF Remove, Update
        <3>3. log'[N + 1].update = Remove(t) /\ N + 1 \in 1..(N + 1)
            BY <1>1, <1>2, <1>4, <3>2
        <3> QED BY <3>3 DEF RemovedIn
    <2>4. CASE RemovedIn(log', N, t)
        <3>1. PICK k \in 1..N : log'[k].update = Remove(t)
            BY <2>4 DEF RemovedIn
        <3>2. k \in 1..(N + 1)
            BY <1>1
        <3> QED BY <3>1, <3>2 DEF RemovedIn
    <2> QED BY <2>2, <2>3, <2>4
<1>7. ASSUME NEW n \in 0..(N + 1), NEW s \in 0..n, NEW t \in MembersAt(s)'
      PROVE  t \in MembersAt(n)' \/ RemovedIn(log', n, t)
    <2>1. CASE n \in 0..N
        <3>1. s \in 0..N
            BY <1>1, <2>1
        <3>2. t \in MembersAt(s) /\ MembersAt(n)' = MembersAt(n)
            BY <1>2, <2>1, <3>1
        <3> QED BY <1>5, <2>1, <3>2
    <2>2. CASE n = N + 1
        <3>1. MembersAt(n)' = members
            BY <1>2, <2>2
        <3>2. CASE s = N + 1
            BY <1>2, <3>1, <3>2
        <3>3. CASE s \in 0..N
            <4>1. t \in MembersAt(s)
                BY <1>2, <3>3
            <4>2. t \in members \/ RemovedIn(log', N + 1, t)
                BY <1>6, <3>3, <4>1
            <4> QED BY <2>2, <3>1, <4>2
        <3> QED BY <1>1, <2>2, <3>2, <3>3
    <2> QED BY <1>1, <2>1, <2>2
<1> QED BY <1>2, <1>7 DEF LeavesByRemoval

(* An addition that changes the zone is of a target whose message is still *)
(* required, or was sent before a removal.                                 *)
LEMMA RequiredOrRemoved ==
    ASSUME IInv, FairInv, TrueInv, LeavesByRemoval, NEW t \in Target, t \notin zone.members,
           Known(t, server)
    PROVE  t \in Required \/ ~server[t].exists \/ RemovedIn(log, Len(log), t)
<1>1. Len(log) \in Nat /\ zone.members = MembersAt(Len(log))
    BY DEF Typed, IInv, ZoneType, TrueInv, LogInv
<1>2. ServerFair(t, server, topic)
    BY DEF FairInv, ServersFair
<1>3. CASE server[t].exists /\ ~server[t].addTargetMessageRequired
    <2>1. PICK m \in topic : m.update = Add(t)
        BY <1>2, <1>3 DEF ServerFair, Known
    <2>2. m.sequence \in 0..Len(log) /\ t \in MembersAt(m.sequence)
        BY <2>1 DEF TrueInv, TopicInv, IsTrue, Add
    <2>3. Len(log) \in 0..Len(log)
        BY <1>1
    <2> QED BY <1>1, <2>2, <2>3 DEF LeavesByRemoval
<1> QED BY <1>3 DEF Required

LEMMA UpdateFair ==
    ASSUME IInv, FairInv, NEW j \in Job, NEW t \in Target, UpdateZoneLock(j, t)
    PROVE  FairInv'
<1> DEFINE h0 == handler[j][t]
           u == h0.update
           members == WithUpdate(zone.members, u)
           e == [update |-> u, members |-> members]
           h == handler'[j][t]
           N == Len(log)
<1>1. /\ HandlerType /\ ZoneType /\ JobType /\ HandlersFair /\ ServersFair /\ ZoneFair
      /\ AllAccounted /\ (Overwritten \/ AllRepeated) /\ (Overwritten \/ TrueInv)
    BY DEF Typed, IInv, FairInv
<1>2. /\ h0 \in HandlerRecord /\ h0.step = "updateZone" /\ u \in Update
      /\ HandlerFair(h0, t, zone, topic, server)
    BY <1>1, RecordOf DEF UpdateZoneLock, At, HandlersFair, HandlerRecord
<1>3. /\ server' = server /\ topic' = topic /\ missed' = missed /\ cleared' = cleared
    BY DEF UpdateZoneLock
<1>4. /\ ServersKept /\ RequiredKept /\ ServersFair'
    BY <1>1, <1>3, SameServers
<1>5. KnownUpdate(h0.own, server) /\ KnownUpdate(u, server)
    BY <1>2 DEF HandlerFair, Active
<1>6. HandlerType'
    BY UpdateStep DEF Typed, IInv
<1>7. CASE ~SameState(h0)
    <2> DEFINE retry == Anew([h0 EXCEPT !.own = u])
    <2>1. Set(j, t, retry) /\ zone' = zone /\ log' = log
        BY <1>7 DEF UpdateZoneLock
    <2>2. /\ retry \in HandlerRecord /\ retry.step = "find"
          /\ retry.own = u /\ retry.update = u
        BY <1>2 DEF Anew, HandlerRecord, Steps
    <2> HIDE DEF retry, u, h0
    <2>3. HandlerFair(retry, t, zone', topic', server')
        BY <1>3, <1>5, <2>1, <2>2 DEF HandlerFair
    <2>4. HandlersFair'
        BY <1>1, <1>3, <1>4, <2>1, <2>2, <2>3, OneMoves
    <2> QED BY <1>1, <1>3, <1>4, <2>1, <2>4, FairKept
<1>8. CASE SameState(h0)
    <2>1. /\ zone' = [members |-> members, sequence |-> zone.sequence + 1, last |-> u]
          /\ log' = Append(log, e)
        BY <1>8 DEF UpdateZoneLock
    <2>2. /\ zone'.members = members /\ zone'.sequence = zone.sequence + 1
          /\ zone'.last = u
        BY <2>1
    <2>3. /\ h.step = "count" /\ h.own = h0.own /\ h.update = u
          /\ h.sequence = zone.sequence + 1
          /\ \A k \in Job, v \in Target : handler'[k][v] = IF k = j /\ v = t THEN h
                                                          ELSE handler[k][v]
        <3> DEFINE n == zone.sequence + 1
                   g == [h0 EXCEPT !.step = "count", !.members = members,
                                   !.sequence = n, !.updated = TRUE]
        <3>1. Set(j, t, g)
            BY <1>8 DEF UpdateZoneLock
        <3>2. members \in SUBSET Target /\ n \in Nat
            BY <1>1, <1>2, UpdateType DEF ZoneType
        <3> HIDE DEF members, n, u
        <3>3. /\ g \in HandlerRecord /\ g.step = "count" /\ g.own = h0.own
              /\ g.update = h0.update /\ g.sequence = n
            <4> HIDE DEF h0
            <4> QED BY <1>2, <3>2 DEF HandlerRecord, Steps
        <3> HIDE DEF g
        <3>4. \A k \in Job, v \in Target : handler'[k][v] = IF k = j /\ v = t THEN g
                                                             ELSE handler[k][v]
            BY <1>1, <3>1, <3>3, SetType
        <3>5. h = g
            BY <3>4
        <3> QED BY <3>3, <3>4, <3>5 DEF n, u
    <2>4. members \in SUBSET Target /\ e \in LogEntry /\ e.update = u
        BY <1>1, <1>2, UpdateType DEF ZoneType, LogEntry
    <2>5. N \in Nat /\ zone.sequence = N /\ zone.last = NoUpdate /\ u # NoUpdate
        BY <1>1, <1>2, <1>8, UpdateType DEF ZoneType, ZoneFair, HandlerFair, SameState
    <2> HIDE DEF h, e, N, members, u, h0
    <2>6. /\ Len(log') = N + 1 /\ log'[N + 1] = e
          /\ \A n \in 1..N : log'[n] = log[n]
        BY <1>1, <2>1, <2>4, Grows DEF N
    <2>7. HandlersFair'
        <3>1. ASSUME NEW k \in Job, NEW v \in Target
              PROVE  HandlerFair(handler'[k][v], v, zone', topic', server')
            <4>1. CASE k = j /\ v = t
                <5>1. HandlerFair(h, v, zone', topic', server')
                    BY <1>3, <1>5, <2>2, <2>3, <2>5 DEF HandlerFair
                <5> QED BY <2>3, <4>1, <5>1
            <4>2. CASE ~(k = j /\ v = t)
                <5> DEFINE g == handler[k][v]
                <5>1. handler'[k][v] = g /\ g.sequence \in Nat
                    BY <1>1, <2>3, <4>2, RecordOf DEF HandlerRecord
                <5>2. HandlerFair(g, v, zone, topic, server)
                    BY <1>1 DEF HandlersFair
                <5> HIDE DEF g
                <5>3. HandlerFair(g, v, zone', topic, server)
                    BY <2>2, <2>5, <5>1, <5>2 DEF HandlerFair
                <5> QED BY <1>3, <5>1, <5>3
            <4> QED BY <4>1, <4>2
        <3> QED BY <3>1 DEF HandlersFair
    <2>8. ZoneFair'
        <3>1. zone'.sequence = Len(log')
            BY <2>2, <2>5, <2>6
        <3>2. LastInv'
            BY <2>2, <2>4, <2>5, <2>6 DEF LastInv
        <3>3. Applied(zone')
            BY <2>2 DEF Applied, WithUpdate, members
        <3>4. KnownUpdate(zone'.last, server')
            BY <1>3, <1>5, <2>2
        <3> QED BY <3>1, <3>2, <3>3, <3>4 DEF ZoneFair
    <2>9. AllAccounted'
        <3>1. ASSUME NEW n \in 1..N PROVE Accounted(n)'
            <4>1. Accounted(n) /\ log'[n] = log[n]
                BY <1>1, <2>6, <3>1 DEF AllAccounted, N
            <4>2. log[n].update # NoUpdate
                <5>1. log[n] \in LogEntry
                    BY <1>1, <3>1 DEF ZoneType, N
                <5> QED BY <5>1, UpdateType DEF LogEntry
            <4>3. Told(log[n].update, n) \/ n \in cleared
                BY <2>5, <4>1, <4>2 DEF Accounted
            <4> QED BY <1>3, <4>1, <4>3 DEF Accounted, Told
        <3>2. ASSUME NEW n, n = N + 1 PROVE Accounted(n)'
            BY <2>2, <2>4, <2>5, <2>6, <3>2 DEF Accounted
        <3>3. \A n \in 1..(N + 1) : Accounted(n)'
            BY <2>5, <3>1, <3>2
        <3> QED BY <2>6, <3>3 DEF AllAccounted
    <2>10. CASE Overwritten
        <3>1. Overwritten'
            BY <1>3, <2>10 DEF Overwritten
        <3> QED BY <1>4, <2>7, <2>8, <2>9, <3>1 DEF FairInv
    <2>11. CASE AllRepeated /\ TrueInv
        <3>1. zone.members = MembersAt(Len(log))
            BY <2>11 DEF TrueInv, LogInv
        <3>2. LeavesByRemoval'
            BY <1>1, <1>2, <2>1, <2>4, <2>11, <3>1, LeavesStep DEF AllRepeated, e, members, u
        <3>3. ASSUME NEW n \in 1..N PROVE Repeated(n)'
            <4>1. Repeated(n) /\ log'[n] = log[n]
                BY <2>6, <2>11, <3>3 DEF AllRepeated, N
            <4>2. \A v : RemovedBefore(n, v) => RemovedBefore(n, v)'
                BY <2>5, <2>6 DEF RemovedBefore
            <4> QED BY <1>3, <4>1, <4>2 DEF Repeated, Told, Required
        <3>4. ASSUME NEW n, n = N + 1 PROVE Repeated(n)'
            <4>1. CASE u.type # "add"
                BY <2>4, <2>6, <3>4, <4>1 DEF Repeated
            <4>2. CASE u.type = "add"
                <5>0. PICK v \in Target : v = u.target
                    BY <1>2, UpdateType
                <5>1. v \in Target /\ Known(v, server)
                    BY <1>5, <4>2, <5>0 DEF KnownUpdate
                <5>2. v \notin zone.members
                    <6>1. HandlerTrue(h0)
                        BY <2>11 DEF TrueInv, h0
                    <6> QED BY <1>2, <1>8, <2>5, <2>11, <3>1, <4>2, <5>0, <6>1
                            DEF HandlerTrue, Busy, SameState, N, u
                <5>3. v \in Required \/ ~server[v].exists \/ RemovedIn(log, Len(log), v)
                    BY <2>11, <5>1, <5>2, RequiredOrRemoved DEF AllRepeated
                <5>4. RemovedIn(log, N, v) => RemovedBefore(n, v)'
                    BY <2>5, <2>6, <3>4 DEF RemovedIn, RemovedBefore
                <5>5. log'[n].update = u
                    BY <2>4, <2>6, <3>4
                <5> QED BY <1>3, <5>0, <5>3, <5>4, <5>5 DEF Repeated, Required, N
            <4> QED BY <4>1, <4>2
        <3>5. \A n \in 1..(N + 1) : Repeated(n)'
            BY <2>5, <3>3, <3>4
        <3>6. AllRepeated'
            BY <2>6, <3>2, <3>5 DEF AllRepeated
        <3> QED BY <1>4, <2>7, <2>8, <2>9, <3>6 DEF FairInv
    <2> QED BY <1>1, <2>10, <2>11
<1> QED BY <1>7, <1>8

-----------------------------------------------------------------------------
(* The steps of the jobs, the recovery and the ends of processes.          *)
LEMMA StartFair ==
    ASSUME HandlerType, HandlersFair, ServersKept, zone' = zone, topic' = topic,
           NEW j \in Job, NEW targets, StartHandlers(j, targets),
           \A t \in Target : t \in targets => j \in Deleter \/ Known(t, server')
    PROVE  HandlersFair'
<1> DEFINE f == [t \in Target |-> Resting(j, t, IF t \in targets THEN "find" ELSE "none")]
<1>1. \A t \in Target : f[t] = Resting(j, t, IF t \in targets THEN "find" ELSE "none")
    OBVIOUS
<1>2. f \in [Target -> HandlerRecord]
    BY RestingType DEF Steps
<1>3. handler' = [handler EXCEPT ![j] = f]
    BY DEF StartHandlers
<1> HIDE DEF f
<1>4. ASSUME NEW t \in Target
      PROVE  HandlerFair(f[t], t, zone', topic', server')
    <2>1. CASE t \in targets
        <3>1. HandlerFair(Resting(j, t, "find"), t, zone', topic', server')
            BY <2>1, BeginFair
        <3> QED BY <1>1, <2>1, <3>1
    <2>2. CASE t \notin targets
        <3>1. HandlerFair(Resting(j, t, "none"), t, zone', topic', server')
            BY RestFair DEF Active
        <3> QED BY <1>1, <2>2, <3>1
    <2> QED BY <2>1, <2>2
<1> QED BY <1>2, <1>3, <1>4, JobMoves

LEMMA RestAllFair ==
    ASSUME HandlerType, HandlersFair, ServersKept, zone' = zone, topic' = topic,
           NEW j \in Job, handler' = [handler EXCEPT ![j] = AllRest(j)]
    PROVE  HandlersFair'
<1>1. \A t \in Target : AllRest(j)[t] = Resting(j, t, "none")
    BY DEF AllRest
<1>2. AllRest(j) \in [Target -> HandlerRecord]
    BY RestingType DEF AllRest, Steps
<1>3. ASSUME NEW t \in Target
      PROVE  HandlerFair(AllRest(j)[t], t, zone', topic', server')
    BY <1>1, RestFair DEF Active
<1> QED BY <1>2, <1>3, JobMoves

(* Neither the zone nor the servers change.                                *)
LEMMA ServersStay ==
    ASSUME IInv, FairInv, server' = server, zone' = zone, topic' = topic, log' = log,
           cleared' = cleared, missed \subseteq missed', HandlersFair'
    PROVE  FairInv'
<1>1. ZoneType /\ ServersFair
    BY DEF Typed, IInv, FairInv
<1>2. /\ ServersKept /\ RequiredKept /\ ServersFair'
    BY <1>1, SameServers
<1> QED BY <1>1, <1>2, FairKept

LEMMA SetZoneFair ==
    ASSUME IInv, FairInv, NEW j \in Setter \cup Deleter,
           \/ AcquireLock(j) \/ ReleaseLock(j) \/ SetZoneEnds(j)
           \/ NewTargetsInZone(j) \/ FilterDoomedRequests(j)
    PROVE  FairInv'
<1>1. HandlerType /\ HandlersFair /\ ServersFair /\ j \in Job
    BY DEF Typed, IInv, FairInv, Job
<1>2. /\ zone' = zone /\ log' = log /\ topic' = topic /\ cleared' = cleared /\ missed' = missed
      /\ server' = server
    BY DEF AcquireLock, ReleaseLock, SetZoneEnds, NewTargetsInZone, FilterDoomedRequests, history
<1>3. ServersKept
    BY <1>1, <1>2, SameServers
<1>4. CASE AcquireLock(j) \/ ReleaseLock(j) \/ SetZoneEnds(j)
    <2>1. handler' = handler
        BY <1>4 DEF AcquireLock, ReleaseLock, SetZoneEnds
    <2>2. HandlersFair'
        BY <1>1, <1>2, <1>3, <2>1, NoneMoves
    <2> QED BY <1>2, <2>2, ServersStay
<1>5. CASE NewTargetsInZone(j)
    <2> DEFINE targets == {t \in Target : At(j, t, "assigned")}
    <2>1. \A t \in Target : t \in targets => Known(t, server')
        BY <1>1, <1>2 DEF At, HandlersFair, HandlerFair
    <2>2. StartHandlers(j, targets)
        BY <1>5 DEF NewTargetsInZone
    <2> HIDE DEF targets
    <2>3. HandlersFair'
        BY <1>1, <1>2, <1>3, <2>1, <2>2, StartFair
    <2> QED BY <1>2, <2>3, ServersStay
<1>6. CASE FilterDoomedRequests(j)
    <2> DEFINE fit == {t \in TargetsOf[j] : server[t].exists /\ ~server[t].inZone}
               f == [t \in Target |-> Resting(j, t, IF t \in fit THEN "assign" ELSE "none")]
    <2>1. handler' = [handler EXCEPT ![j] = f]
        BY <1>6 DEF FilterDoomedRequests
    <2> HIDE DEF fit
    <2>2. \A t \in Target : f[t] = Resting(j, t, "assign") \/ f[t] = Resting(j, t, "none")
        OBVIOUS
    <2>3. \A t \in Target : /\ HandlerFair(Resting(j, t, "assign"), t, zone', topic', server')
                            /\ HandlerFair(Resting(j, t, "none"), t, zone', topic', server')
        BY <1>1, RestFair DEF Active
    <2>4. f \in [Target -> HandlerRecord]
        BY <1>1, RestingType DEF Steps
    <2> HIDE DEF f
    <2>5. \A t \in Target : HandlerFair(f[t], t, zone', topic', server')
        BY <2>2, <2>3
    <2>6. HandlersFair'
        BY <1>1, <1>2, <1>3, <2>1, <2>4, <2>5, JobMoves
    <2> QED BY <1>2, <2>6, ServersStay
<1> QED BY <1>4, <1>5, <1>6

LEMMA AssignFair ==
    ASSUME IInv, FairInv, NEW j \in Setter \cup Deleter, NEW t \in Target, AssignZone(j, t)
    PROVE  FairInv'
<1>1. HandlerType /\ ZoneType /\ JobType /\ HandlersFair /\ ServersFair /\ j \in Job
    BY DEF Typed, IInv, FairInv, Job
<1>2. zone' = zone /\ log' = log /\ topic' = topic /\ cleared' = cleared /\ missed' = missed
    BY DEF AssignZone, history
<1>3. /\ Known(t, server')
      /\ \A u \in Target : \/ server'[u] = server[u]
                           \/ /\ server'[u].exists = server[u].exists
                              /\ server'[u].inZone /\ server'[u].addTargetMessageRequired
    BY <1>1 DEF AssignZone, JobType, Server, Known
<1>4. ServersKept /\ RequiredKept
    BY <1>3 DEF ServersKept, RequiredKept, Required, Known
<1>5. ServersFair'
    <2>1. ASSUME NEW u \in Target PROVE ServerFair(u, server', topic')
        <3>1. ServerFair(u, server, topic)
            BY <1>1 DEF ServersFair
        <3> QED BY <1>2, <1>3, <3>1 DEF ServerFair
    <2> QED BY <2>1 DEF ServersFair
<1>6. Set(j, t, Resting(j, t, "assigned")) /\ Resting(j, t, "assigned") \in HandlerRecord
    BY <1>1, RestingType DEF AssignZone, Steps
<1>7. HandlerFair(Resting(j, t, "assigned"), t, zone', topic', server')
    BY <1>1, <1>3, BeginFair
<1>8. HandlersFair'
    BY <1>1, <1>2, <1>4, <1>6, <1>7, OneMoves
<1> QED BY <1>1, <1>2, <1>4, <1>5, <1>8, FairKept

LEMMA DeleteFair ==
    ASSUME IInv, FairInv, NEW j \in Setter \cup Deleter,
           GetTargetZone(j) \/ MarkForDeletion(j) \/ DeleteTarget(j)
    PROVE  FairInv'
<1>1. HandlerType /\ ZoneType /\ JobType /\ HandlersFair /\ ServersFair
    BY DEF Typed, IInv, FairInv
<1>2. j \in Job /\ j \in Deleter
    BY DEF Job, GetTargetZone, MarkForDeletion, DeleteTarget
<1>3. zone' = zone /\ log' = log /\ topic' = topic /\ cleared' = cleared /\ missed' = missed
    BY DEF GetTargetZone, MarkForDeletion, DeleteTarget, history
<1>4. CASE GetTargetZone(j) \/ MarkForDeletion(j)
    <2>1. server' = server
        BY <1>4 DEF GetTargetZone, MarkForDeletion
    <2>2. ServersKept
        BY <1>1, <1>3, <2>1, SameServers
    <2>3. HandlersFair'
        <3>1. CASE GetTargetZone(j)
            BY <1>1, <1>3, <2>2, <3>1, NoneMoves DEF GetTargetZone
        <3>2. CASE MarkForDeletion(j)
            BY <1>1, <1>2, <1>3, <2>2, <3>2, StartFair DEF MarkForDeletion
        <3> QED BY <1>4, <3>1, <3>2
    <2> QED BY <1>3, <2>1, <2>3, ServersStay
<1>5. CASE DeleteTarget(j)
    <2>1. /\ server' = [server EXCEPT ![TargetOf(j)] = Deleted] /\ handler' = handler
          /\ TargetOf(j) \in Target
        BY <1>2, <1>5, TargetOfType DEF DeleteTarget
    <2>2. \A u \in Target : \/ server'[u] = server[u]
                            \/ /\ ~server'[u].exists /\ ~server'[u].inZone
                               /\ ~server'[u].addTargetMessageRequired
        BY <1>1, <2>1 DEF JobType, Deleted, Pending
    <2>3. ServersKept /\ RequiredKept
        BY <2>2 DEF ServersKept, RequiredKept, Required, Known
    <2>4. ServersFair'
        <3>1. ASSUME NEW u \in Target PROVE ServerFair(u, server', topic')
            <4>1. ServerFair(u, server, topic)
                BY <1>1 DEF ServersFair
            <4> QED BY <1>3, <2>2, <4>1 DEF ServerFair
        <3> QED BY <3>1 DEF ServersFair
    <2>5. HandlersFair'
        BY <1>1, <1>3, <2>1, <2>3, NoneMoves
    <2> QED BY <1>1, <1>3, <2>3, <2>4, <2>5, FairKept
<1> QED BY <1>4, <1>5

LEMMA RecoveryFair ==
    ASSUME IInv, FairInv,
           StartRecovery \/ ReadZone \/ CountTargets \/ CheckForTargetAddition \/ RecoveryEnds
    PROVE  FairInv'
<1>1. HandlerType /\ HandlersFair /\ ServersFair /\ Recovery \in Job
    BY DEF Typed, IInv, FairInv, Job
<1>2. /\ zone' = zone /\ log' = log /\ topic' = topic /\ cleared' = cleared /\ missed' = missed
      /\ server' = server
    BY DEF StartRecovery, ReadZone, CountTargets, CheckForTargetAddition, RecoveryEnds, history
<1>3. ServersKept
    BY <1>1, <1>2, SameServers
<1>4. HandlersFair'
    <2>1. CASE StartRecovery
        BY <1>1, <1>2, <1>3, <2>1, RestAllFair DEF StartRecovery
    <2>2. CASE CheckForTargetAddition
        <3>1. \A t \in Target : t \in Required => Known(t, server')
            BY <1>1, <1>2 DEF Required, ServersFair, ServerFair, Known
        <3> QED BY <1>1, <1>2, <1>3, <2>2, <3>1, StartFair DEF CheckForTargetAddition
    <2>3. CASE ReadZone \/ CountTargets \/ RecoveryEnds
        <3>1. handler' = handler
            BY <2>3 DEF ReadZone, CountTargets, RecoveryEnds
        <3> QED BY <1>1, <1>2, <1>3, <3>1, NoneMoves
    <2> QED BY <2>1, <2>2, <2>3
<1> QED BY <1>2, <1>4, ServersStay

LEMMA RepairFair ==
    ASSUME IInv, FairInv, RepairZone
    PROVE  FairInv'
<1>1. /\ HandlerType /\ ZoneType /\ HandlersFair /\ ServersFair /\ ZoneFair
      /\ AllAccounted
    BY DEF Typed, IInv, FairInv
<1>2. /\ log' = log /\ topic' = topic /\ cleared' = cleared /\ missed \subseteq missed'
      /\ server' = server /\ handler' = handler
    BY DEF RepairZone
<1>3. /\ ServersKept /\ RequiredKept /\ ServersFair'
    BY <1>1, <1>2, SameServers
<1>4. CASE zone' = zone
    <2>1. HandlersFair'
        BY <1>1, <1>2, <1>3, <1>4, NoneMoves
    <2> QED BY <1>2, <1>4, <2>1, ServersStay
<1>5. CASE zone' # zone
    <2>1. zone' = [zone EXCEPT !.members = seen.counted] /\ zone.last = NoUpdate
        BY <1>5 DEF RepairZone
    <2>2. zone'.sequence = zone.sequence /\ zone'.last = NoUpdate
        BY <1>1, <2>1 DEF ZoneType
    <2>3. "repair" \in missed'
        BY <1>1, <1>5, <2>1 DEF RepairZone, ZoneType
    <2>4. HandlersFair'
        BY <1>1, <1>2, <1>3, <2>2, NoneMoves
    <2>5. ZoneFair'
        <3>1. KnownUpdate(NoUpdate, server')
            BY DEF KnownUpdate, NoUpdate
        <3> QED BY <1>1, <1>2, <2>2, <3>1 DEF ZoneFair, LastInv, Applied
    <2>6. AllAccounted'
        BY <1>1, <1>2, <2>1, <2>2 DEF AllAccounted, Accounted, Told
    <2> QED BY <1>3, <2>3, <2>4, <2>5, <2>6 DEF FairInv, Overwritten
<1> QED BY <1>4, <1>5

LEMMA EndFair ==
    ASSUME IInv, FairInv, NEW j \in Job, Crash(j) \/ \E t \in Target : HandlerThrows(j, t)
    PROVE  FairInv'
<1>1. HandlerType /\ HandlersFair /\ ServersFair
    BY DEF Typed, IInv, FairInv
<1>2. Ends(j) /\ missed \subseteq missed'
    BY DEF Crash, HandlerThrows
<1>3. /\ zone' = zone /\ log' = log /\ topic' = topic /\ cleared' = cleared /\ server' = server
      /\ handler' = [handler EXCEPT ![j] = AllRest(j)]
    BY <1>2 DEF Ends
<1>4. ServersKept
    BY <1>1, <1>3, SameServers
<1>5. HandlersFair'
    BY <1>1, <1>3, <1>4, RestAllFair
<1> QED BY <1>2, <1>3, <1>5, ServersStay

-----------------------------------------------------------------------------
LEMMA InitFair == Init => FairInv
<1> SUFFICES ASSUME Init PROVE FairInv
    OBVIOUS
<1>1. /\ zone.last = NoUpdate /\ zone.sequence = 0 /\ log = <<>> /\ Len(log) = 0
      /\ \A t \in Target : server[t] = Pending
    BY DEF Init
<1>2. ZoneFair
    BY <1>1 DEF ZoneFair, LastInv, Applied, KnownUpdate, NoUpdate
<1>3. HandlersFair
    <2>1. \A j \in Job, t \in Target : handler[j][t] = Resting(j, t, "none")
        BY DEF Init
    <2>2. \A j \in Job, t \in Target :
             HandlerFair(Resting(j, t, "none"), t, zone, topic, server)
        BY RestFair DEF Active
    <2> QED BY <2>1, <2>2 DEF HandlersFair
<1>4. ServersFair
    BY <1>1 DEF ServersFair, ServerFair, Pending
<1>5. AllAccounted
    BY <1>1 DEF AllAccounted
<1>6. AllRepeated
    BY <1>1 DEF AllRepeated, LeavesByRemoval, MembersAt
<1> QED BY <1>2, <1>3, <1>4, <1>5, <1>6 DEF FairInv

LEMMA FairStep == IInv /\ FairInv /\ [Next]_vars => FairInv'
<1> SUFFICES ASSUME IInv, FairInv, [Next]_vars PROVE FairInv'
    OBVIOUS
<1>1. ASSUME NEW j \in Job, NEW t \in Target, Handler(j, t) \/ SendFails(j, t)
      PROVE  FairInv'
    BY <1>1, FindFair, UpdateFair, CountFair, SendFair, ClearFair, FinishFair, EndFair
       DEF Handler
<1>2. ASSUME NEW j \in Job, Crash(j)
      PROVE  FairInv'
    BY <1>2, EndFair
<1>3. ASSUME NEW j \in Setter \cup Deleter, AcquireLock(j) \/ GetTargetZone(j) \/ JobStep(j)
      PROVE  FairInv'
    BY <1>3, SetZoneFair, AssignFair, DeleteFair DEF JobStep
<1>4. CASE RecoveryStep
    BY <1>4, RecoveryFair, RepairFair DEF RecoveryStep
<1>5. CASE UNCHANGED vars
    <2>1. HandlerType /\ HandlersFair /\ ServersFair
        BY DEF Typed, IInv, FairInv
    <2>2. /\ zone' = zone /\ log' = log /\ topic' = topic /\ cleared' = cleared
          /\ missed' = missed /\ server' = server /\ handler' = handler
        BY <1>5 DEF vars, history
    <2>3. ServersKept
        BY <2>1, <2>2, SameServers
    <2>4. HandlersFair'
        BY <2>1, <2>2, <2>3, NoneMoves
    <2> QED BY <2>2, <2>4, ServersStay
<1> QED BY <1>1, <1>2, <1>3, <1>4, <1>5 DEF Next

-----------------------------------------------------------------------------
(* An update that was not told is being told, or was dropped.  It takes    *)
(* that no handler is overwritten while it is at work: the handlers of a   *)
(* job start once, and those of the recovery when none of it is at work.   *)
Unstarted(j) == /\ pc[j] \in {"idle", "lock", "filter", "assign", "mark", "read", "count",
                              "repair", "required"}
                /\ j = Recovery => pc[j] # "idle"

NotStarted == \A j \in Job, t \in Target : Unstarted(j) => handler[j][t].step \notin Active

Pursued(n) == \/ Told(log[n].update, n)
              \/ BeingTold(n)
              \/ <<n, log[n].update>> \in dropped

ToldInv == /\ dropped \subseteq Nat \X Update
           /\ NotStarted
           /\ \A n \in 1..Len(log) : Pursued(n)

(* What a step does to the handlers.                                       *)
StartedKept == \A k \in Job, u \in Target :
                  Unstarted(k)' => \/ handler'[k][u].step \notin Active
                                   \/ Unstarted(k) /\ handler[k][u].step \in Active

Passed(h, h1) == /\ h1.step \in {"count", "send"}
                 /\ h1.update = h.update /\ h1.sequence = h.sequence

TellersKept == \A k \in Job, u \in Target : Telling(k, u) =>
                  \/ Passed(handler[k][u], handler'[k][u])
                  \/ Sent(handler[k][u].update, handler[k][u].sequence, topic')
                  \/ <<handler[k][u].sequence, handler[k][u].update>> \in dropped'

LEMMA PursuedKept ==
    ASSUME TellersKept, topic \subseteq topic', dropped \subseteq dropped',
           NEW n \in Nat, log'[n] = log[n], Pursued(n)
    PROVE  Pursued(n)'
<1>1. CASE Told(log[n].update, n)
    BY <1>1 DEF Pursued, Told
<1>2. CASE <<n, log[n].update>> \in dropped
    BY <1>2 DEF Pursued
<1>3. CASE BeingTold(n)
    <2>1. PICK k \in Job, u \in Target : /\ Telling(k, u) /\ handler[k][u].sequence = n
                                         /\ handler[k][u].update = log[n].update
        BY <1>3 DEF BeingTold
    <2>2. CASE Passed(handler[k][u], handler'[k][u])
        BY <2>1, <2>2 DEF Passed, Pursued, BeingTold, Telling
    <2>3. CASE Sent(handler[k][u].update, handler[k][u].sequence, topic')
        <3>1. PICK m \in topic' : m.update = log[n].update /\ m.sequence = n
            BY <2>1, <2>3 DEF Sent
        <3>2. m.sequence >= n
            BY <3>1
        <3> QED BY <3>1, <3>2 DEF Pursued, Told
    <2>4. CASE <<handler[k][u].sequence, handler[k][u].update>> \in dropped'
        BY <2>1, <2>4 DEF Pursued
    <2> QED BY <2>1, <2>2, <2>3, <2>4 DEF TellersKept
<1> QED BY <1>1, <1>2, <1>3 DEF Pursued

LEMMA ToldKept ==
    ASSUME ToldInv, log' = log, topic \subseteq topic', dropped \subseteq dropped',
           dropped' \subseteq Nat \X Update, TellersKept, StartedKept
    PROVE  ToldInv'
<1>1. NotStarted'
    BY DEF ToldInv, NotStarted, StartedKept
<1>2. \A n \in 1..Len(log) : n \in Nat /\ log'[n] = log[n]
    OBVIOUS
<1>3. \A n \in 1..Len(log) : Pursued(n)'
    BY <1>2, PursuedKept DEF ToldInv
<1> QED BY <1>1, <1>3 DEF ToldInv

LEMMA UntoldType ==
    ASSUME HandlerType, NEW j \in Job, NEW targets \in SUBSET Target
    PROVE  Untold(j, targets) \subseteq Nat \X Update
BY RecordOf DEF Untold, HandlerRecord

(* One handler moves that was not telling, or handed its update over.      *)
LEMMA SetTellers ==
    ASSUME HandlerType, NEW j \in Job, NEW t \in Target, NEW h \in HandlerRecord, Set(j, t, h),
           \/ ~Telling(j, t)
           \/ Passed(handler[j][t], h)
           \/ Sent(handler[j][t].update, handler[j][t].sequence, topic')
           \/ <<handler[j][t].sequence, handler[j][t].update>> \in dropped'
    PROVE  TellersKept
<1>1. \A k \in Job, u \in Target : handler'[k][u] = IF k = j /\ u = t THEN h ELSE handler[k][u]
    BY SetType
<1>2. ASSUME NEW k \in Job, NEW u \in Target, Telling(k, u), ~(k = j /\ u = t)
      PROVE  Passed(handler[k][u], handler'[k][u])
    BY <1>1, <1>2 DEF Passed, Telling
<1>3. handler'[j][t] = h
    BY <1>1
<1> QED BY <1>2, <1>3 DEF TellersKept

LEMMA SetStarted ==
    ASSUME HandlerType, NEW j \in Job, NEW t \in Target, NEW h \in HandlerRecord, Set(j, t, h),
           pc' = pc, handler[j][t].step \in Active \/ h.step \notin Active
    PROVE  StartedKept
<1>1. \A k \in Job, u \in Target : handler'[k][u] = IF k = j /\ u = t THEN h ELSE handler[k][u]
    BY SetType
<1>2. \A k \in Job : Unstarted(k)' => Unstarted(k)
    BY DEF Unstarted
<1> QED BY <1>1, <1>2 DEF StartedKept

(* The handlers of a job start or end together, or do not move.            *)
LEMMA AllTellers ==
    ASSUME HandlerType, NEW j \in Job, NEW f \in [Target -> HandlerRecord],
           handler' = [handler EXCEPT ![j] = f],
           \A t \in Target : \/ ~Telling(j, t)
                             \/ <<handler[j][t].sequence, handler[j][t].update>> \in dropped'
    PROVE  TellersKept
<1>1. \A k \in Job, u \in Target : handler'[k][u] = IF k = j THEN f[u] ELSE handler[k][u]
    BY SetAllType
<1>2. ASSUME NEW k \in Job, NEW u \in Target, Telling(k, u), k # j
      PROVE  Passed(handler[k][u], handler'[k][u])
    BY <1>1, <1>2 DEF Passed, Telling
<1> QED BY <1>2 DEF TellersKept

LEMMA AllStarted ==
    ASSUME HandlerType, NEW j \in Job, NEW f \in [Target -> HandlerRecord],
           handler' = [handler EXCEPT ![j] = f], \A k \in Job : k # j => pc'[k] = pc[k],
           (\A t \in Target : f[t].step \notin Active) \/ ~Unstarted(j)'
    PROVE  StartedKept
<1>1. \A k \in Job, u \in Target : handler'[k][u] = IF k = j THEN f[u] ELSE handler[k][u]
    BY SetAllType
<1>2. \A k \in Job : k # j => (Unstarted(k)' => Unstarted(k))
    BY DEF Unstarted
<1> QED BY <1>1, <1>2 DEF StartedKept

LEMMA SameTellers ==
    ASSUME HandlerType, handler' = handler
    PROVE  TellersKept
BY DEF TellersKept, Passed, Telling

LEMMA GotoStarted ==
    ASSUME JobType, NEW j \in Job, NEW from, NEW to, Goto(j, from, to), handler' = handler,
           \/ Unstarted(j)
           \/ to \in {"update", "delete", "release", "end"}
           \/ j = Recovery /\ to = "idle"
    PROVE  StartedKept
<1>1. \A k \in Job : pc'[k] = IF k = j THEN to ELSE pc[k]
    BY DEF Goto, JobType
<1>2. \A k \in Job : Unstarted(k)' => Unstarted(k)
    BY <1>1 DEF Unstarted
<1> QED BY <1>2 DEF StartedKept

LEMMA StepTold ==
    ASSUME IInv, ToldInv, NEW j \in Job, NEW t \in Target,
           \/ FindZoneLock(j, t) \/ SetIsTargetUpdateSequenceInc(j, t)
           \/ ClearLastTargetUpdateInLock(j, t) \/ ClearAddMessageRequired(j, t)
           \/ j \in Setter \cup Deleter /\ AssignZone(j, t)
    PROVE  ToldInv'
<1> DEFINE h0 == handler[j][t]
           h == handler'[j][t]
<1>1. HandlerType /\ h0 \in HandlerRecord
    BY RecordOf DEF Typed, IInv
<1>2. log' = log /\ topic' = topic /\ dropped' = dropped /\ pc' = pc
    BY DEF FindZoneLock, SetIsTargetUpdateSequenceInc, ClearLastTargetUpdateInLock,
           ClearAddMessageRequired, AssignZone, history, jobVars
<1>3. HandlerType' /\ h \in HandlerRecord
    <2>1. IInv'
        BY FindStep, CountStep, ClearStep, FinishStep, AssignStep
    <2> QED BY <2>1 DEF Typed, IInv, HandlerType
<1>4. Set(j, t, h)
    BY <1>1 DEF FindZoneLock, SetIsTargetUpdateSequenceInc, ClearLastTargetUpdateInLock,
                ClearAddMessageRequired, AssignZone, Set, HandlerType
<1>5. h0.step \in Active \/ h.step \notin Active
    BY <1>1 DEF FindZoneLock, SetIsTargetUpdateSequenceInc, ClearLastTargetUpdateInLock,
                ClearAddMessageRequired, AssignZone, At, Active, Set, HandlerType, Resting
<1>6. ~Telling(j, t) \/ Passed(h0, h)
    <2>1. CASE SetIsTargetUpdateSequenceInc(j, t)
        BY <1>1, <2>1 DEF SetIsTargetUpdateSequenceInc, Set, HandlerType, HandlerRecord, Passed
    <2>2. CASE ~SetIsTargetUpdateSequenceInc(j, t)
        BY <2>2 DEF FindZoneLock, ClearLastTargetUpdateInLock, ClearAddMessageRequired,
                    AssignZone, At, Telling
    <2> QED BY <2>1, <2>2
<1> HIDE DEF h, h0
<1>7. TellersKept
    BY <1>1, <1>3, <1>4, <1>6, SetTellers DEF h0
<1>8. StartedKept
    BY <1>1, <1>2, <1>3, <1>4, <1>5, SetStarted DEF h0
<1> QED BY <1>2, <1>7, <1>8, ToldKept DEF ToldInv

LEMMA UpdateTold ==
    ASSUME IInv, FairInv, ToldInv, NEW j \in Job, NEW t \in Target, UpdateZoneLock(j, t)
    PROVE  ToldInv'
<1> DEFINE h0 == handler[j][t]
           h == handler'[j][t]
           N == Len(log)
<1>1. /\ HandlerType /\ h0 \in HandlerRecord /\ N \in Nat /\ zone.sequence = N
      /\ h0.step = "updateZone"
    BY RecordOf DEF Typed, IInv, FairInv, ZoneFair, ZoneType, UpdateZoneLock, At
<1>2. topic' = topic /\ dropped' = dropped /\ pc' = pc
    BY DEF UpdateZoneLock, jobVars
<1>3. HandlerType' /\ h \in HandlerRecord
    BY UpdateStep DEF Typed, IInv, HandlerType
<1>4. Set(j, t, h)
    BY <1>1 DEF UpdateZoneLock, Set, HandlerType
<1>5. TellersKept /\ StartedKept
    <2>1. ~Telling(j, t) /\ h0.step \in Active
        BY <1>1 DEF Telling, Active
    <2> HIDE DEF h, h0
    <2> QED BY <1>1, <1>2, <1>3, <1>4, <2>1, SetTellers, SetStarted DEF h0
<1>6. CASE ~SameState(h0)
    <2>1. log' = log
        BY <1>6 DEF UpdateZoneLock
    <2> QED BY <1>2, <1>5, <2>1, ToldKept DEF ToldInv
<1>7. CASE SameState(h0)
    <2> DEFINE members == WithUpdate(zone.members, h0.update)
               e == [update |-> h0.update, members |-> members]
    <2>1. log' = Append(log, e)
        BY <1>7 DEF UpdateZoneLock
    <2>2. e \in LogEntry /\ e.update = h0.update
        BY <1>1, UpdateType DEF Typed, IInv, ZoneType, LogEntry, HandlerRecord
    <2>3. h.step = "count" /\ h.update = h0.update /\ h.sequence = N + 1
        <3>1. members \in SUBSET Target /\ N + 1 \in Nat
            BY <1>1, UpdateType DEF Typed, IInv, ZoneType, HandlerRecord
        <3> DEFINE g == [h0 EXCEPT !.step = "count", !.members = members,
                                   !.sequence = N + 1, !.updated = TRUE]
        <3> HIDE DEF members, N
        <3>2. h = g
            BY <1>1, <1>7 DEF UpdateZoneLock, Set, HandlerType, members
        <3>3. g.step = "count" /\ g.update = h0.update /\ g.sequence = N + 1
            <4> HIDE DEF h0
            <4> QED BY <1>1 DEF HandlerRecord
        <3> QED BY <3>2, <3>3
    <2> HIDE DEF e, h, h0, N
    <2>4. /\ Len(log') = N + 1 /\ log'[N + 1] = e
          /\ \A n \in 1..N : log'[n] = log[n]
        BY <2>1, <2>2, Grows DEF N, Typed, IInv, ZoneType
    <2>5. ASSUME NEW n, n = N + 1 PROVE Pursued(n)'
        <3>1. log'[n].update = h.update /\ h.sequence = n
            BY <2>2, <2>3, <2>4, <2>5
        <3>2. BeingTold(n)'
            BY <2>3, <3>1 DEF BeingTold, Telling, h
        <3> QED BY <3>2 DEF Pursued
    <2>6. \A n \in 1..N : Pursued(n)'
        BY <1>1, <1>2, <1>5, <2>4, PursuedKept DEF ToldInv, N
    <2>7. \A n \in 1..(N + 1) : Pursued(n)'
        BY <1>1, <2>5, <2>6
    <2>8. NotStarted'
        BY <1>5 DEF ToldInv, NotStarted, StartedKept
    <2> QED BY <1>2, <2>4, <2>7, <2>8 DEF ToldInv
<1> QED BY <1>6, <1>7

LEMMA SendTold ==
    ASSUME IInv, ToldInv, NEW j \in Job, NEW t \in Target,
           SendMessages(j, t) \/ SendFails(j, t)
    PROVE  ToldInv'
<1> DEFINE h0 == handler[j][t]
           h == handler'[j][t]
<1>1. /\ HandlerType /\ h0 \in HandlerRecord /\ h0.step = "send"
      /\ Untold(j, {t}) \subseteq Nat \X Update
    BY RecordOf, UntoldType DEF Typed, IInv, SendMessages, SendFails, At
<1>2. /\ log' = log /\ topic \subseteq topic' /\ pc' = pc
      /\ dropped' = dropped \/ dropped' = dropped \cup Untold(j, {t})
    BY DEF SendMessages, SendFails, history, jobVars
<1>3. HandlerType' /\ h \in HandlerRecord
    BY SendStep DEF Typed, IInv, HandlerType
<1>4. Set(j, t, h)
    BY <1>1 DEF SendMessages, SendFails, Set, HandlerType
<1>5. \/ Sent(h0.update, h0.sequence, topic')
      \/ <<h0.sequence, h0.update>> \in dropped'
    <2>1. CASE SendMessages(j, t)
        <3>1. /\ Message(h0) \in topic'
              /\ Message(h0).update = h0.update /\ Message(h0).sequence = h0.sequence
            BY <2>1 DEF SendMessages, Message
        <3> QED BY <3>1 DEF Sent
    <2>2. CASE SendFails(j, t)
        <3>1. Telling(j, t)
            BY <1>1 DEF Telling
        <3> QED BY <2>2, <3>1 DEF SendFails, Untold
    <2> QED BY <2>1, <2>2
<1>6. h0.step \in Active
    BY <1>1 DEF Active
<1> HIDE DEF h, h0
<1>7. TellersKept /\ StartedKept
    BY <1>1, <1>2, <1>3, <1>4, <1>5, <1>6, SetTellers, SetStarted DEF h0
<1> QED BY <1>1, <1>2, <1>7, ToldKept DEF ToldInv

(* The handlers of a job start when none of them is at work.               *)
LEMMA StartTold ==
    ASSUME IInv, ToldInv, NEW j \in Job, NEW f \in [Target -> HandlerRecord],
           handler' = [handler EXCEPT ![j] = f],
           log' = log, topic' = topic, dropped' = dropped, pc' = [pc EXCEPT ![j] = pc'[j]],
           (\A t \in Target : f[t].step \notin Active) \/ ~Unstarted(j)',
           Unstarted(j) \/ \A t \in Target : handler[j][t].step \notin Active
    PROVE  ToldInv'
<1>1. HandlerType /\ pc \in [Job -> PC]
    BY DEF Typed, IInv, JobType
<1>2. \A t \in Target : ~Telling(j, t)
    BY DEF ToldInv, NotStarted, Telling, Active
<1>3. \A k \in Job : k # j => pc'[k] = pc[k]
    BY <1>1
<1>4. TellersKept /\ StartedKept
    BY <1>1, <1>2, <1>3, AllTellers, AllStarted
<1> QED BY <1>4, ToldKept DEF ToldInv

LEMMA StartsTold ==
    ASSUME IInv, ToldInv, NEW j \in Setter \cup Deleter,
           NewTargetsInZone(j) \/ MarkForDeletion(j) \/ FilterDoomedRequests(j)
    PROVE  ToldInv'
<1>1. /\ j \in Job /\ j # Recovery /\ pc \in [Job -> PC]
      /\ log' = log /\ topic' = topic /\ dropped' = dropped
    BY DEF Typed, IInv, JobType, Job, NewTargetsInZone, MarkForDeletion, FilterDoomedRequests,
           history
<1>2. Unstarted(j) /\ pc' = [pc EXCEPT ![j] = pc'[j]]
    BY <1>1 DEF NewTargetsInZone, MarkForDeletion, FilterDoomedRequests, Goto, Unstarted
<1>3. ASSUME NEW targets, StartHandlers(j, targets), ~Unstarted(j)'
      PROVE  ToldInv'
    <2> DEFINE f == [t \in Target |-> Resting(j, t, IF t \in targets THEN "find" ELSE "none")]
    <2>1. f \in [Target -> HandlerRecord]
        BY <1>1, RestingType DEF Steps
    <2>2. handler' = [handler EXCEPT ![j] = f]
        BY <1>3 DEF StartHandlers
    <2> HIDE DEF f
    <2> QED BY <1>1, <1>2, <1>3, <2>1, <2>2, StartTold
<1>4. CASE NewTargetsInZone(j)
    <2>1. ~Unstarted(j)'
        BY <1>1, <1>4 DEF NewTargetsInZone, Goto, Unstarted
    <2> QED BY <1>3, <1>4, <2>1 DEF NewTargetsInZone
<1>5. CASE MarkForDeletion(j)
    <2>1. ~Unstarted(j)'
        BY <1>1, <1>5 DEF MarkForDeletion, Goto, Unstarted
    <2> QED BY <1>3, <1>5, <2>1 DEF MarkForDeletion
<1>6. CASE FilterDoomedRequests(j)
    <2> DEFINE fit == {t \in TargetsOf[j] : server[t].exists /\ ~server[t].inZone}
               f == [t \in Target |-> Resting(j, t, IF t \in fit THEN "assign" ELSE "none")]
    <2>1. handler' = [handler EXCEPT ![j] = f]
        BY <1>6 DEF FilterDoomedRequests
    <2> HIDE DEF fit
    <2>2. f \in [Target -> HandlerRecord] /\ \A t \in Target : f[t].step \notin Active
        BY <1>1, RestingType DEF Steps, Resting, Active
    <2> HIDE DEF f
    <2> QED BY <1>1, <1>2, <2>1, <2>2, StartTold
<1> QED BY <1>4, <1>5, <1>6

LEMMA GoesTold ==
    ASSUME IInv, ToldInv, NEW j \in Setter \cup Deleter,
           AcquireLock(j) \/ ReleaseLock(j) \/ SetZoneEnds(j) \/ GetTargetZone(j) \/ DeleteTarget(j)
    PROVE  ToldInv'
<1>1. /\ HandlerType /\ JobType /\ j \in Job /\ j # Recovery
      /\ log' = log /\ topic' = topic /\ dropped' = dropped /\ handler' = handler
    BY DEF Typed, IInv, Job, AcquireLock, ReleaseLock, SetZoneEnds, GetTargetZone, DeleteTarget,
           history
<1>2. PICK from, to : /\ Goto(j, from, to)
                      /\ from \in {"idle", "lock"} \/ to \in {"release", "end"}
    BY DEF AcquireLock, ReleaseLock, SetZoneEnds, GetTargetZone, DeleteTarget
<1>3. Unstarted(j) \/ to \in {"release", "end"}
    BY <1>1, <1>2 DEF Goto, Unstarted
<1>4. TellersKept /\ StartedKept
    BY <1>1, <1>2, <1>3, SameTellers, GotoStarted
<1> QED BY <1>1, <1>4, ToldKept DEF ToldInv

LEMMA RecoveryTold ==
    ASSUME IInv, ToldInv, RecoveryStep
    PROVE  ToldInv'
<1>1. HandlerType /\ JobType /\ Recovery \in Job /\ pc \in [Job -> PC]
    BY DEF Typed, IInv, JobType, Job
<1>2. log' = log /\ topic' = topic /\ dropped' = dropped
    BY DEF RecoveryStep, StartRecovery, ReadZone, CountTargets, RepairZone,
           CheckForTargetAddition, RecoveryEnds, history
<1>3. CASE StartRecovery
    <2>1. /\ handler' = [handler EXCEPT ![Recovery] = AllRest(Recovery)]
          /\ \A t \in Target : handler[Recovery][t].step \notin Active
        BY <1>3 DEF StartRecovery, Active
    <2>2. pc' = [pc EXCEPT ![Recovery] = pc'[Recovery]]
        BY <1>1, <1>3 DEF StartRecovery, Goto
    <2>3. /\ AllRest(Recovery) \in [Target -> HandlerRecord]
          /\ \A t \in Target : AllRest(Recovery)[t].step \notin Active
        BY <1>1, RestingType DEF AllRest, Steps, Resting, Active
    <2> QED BY <1>1, <1>2, <2>1, <2>2, <2>3, StartTold
<1>4. CASE CheckForTargetAddition
    <2> DEFINE f == [t \in Target |->
                        Resting(Recovery, t, IF t \in Required THEN "find" ELSE "none")]
    <2>1. f \in [Target -> HandlerRecord]
        BY <1>1, RestingType DEF Steps
    <2>2. handler' = [handler EXCEPT ![Recovery] = f]
        BY <1>4 DEF CheckForTargetAddition, StartHandlers
    <2>3. /\ Unstarted(Recovery) /\ ~Unstarted(Recovery)'
          /\ pc' = [pc EXCEPT ![Recovery] = pc'[Recovery]]
        BY <1>1, <1>4 DEF CheckForTargetAddition, Goto, Unstarted
    <2> HIDE DEF f
    <2> QED BY <1>1, <1>2, <2>1, <2>2, <2>3, StartTold
<1>5. CASE ReadZone \/ CountTargets \/ RepairZone \/ RecoveryEnds
    <2>1. PICK from, to : /\ Goto(Recovery, from, to)
                          /\ from \in {"read", "count", "repair"} \/ to = "idle"
        BY <1>5 DEF ReadZone, CountTargets, RepairZone, RecoveryEnds
    <2>2. Unstarted(Recovery) \/ to = "idle"
        BY <2>1 DEF Goto, Unstarted
    <2>3. handler' = handler
        BY <1>5 DEF ReadZone, CountTargets, RepairZone, RecoveryEnds
    <2>4. TellersKept /\ StartedKept
        BY <1>1, <2>1, <2>2, <2>3, SameTellers, GotoStarted
    <2> QED BY <1>2, <2>4, ToldKept DEF ToldInv
<1> QED BY <1>3, <1>4, <1>5 DEF RecoveryStep

LEMMA EndTold ==
    ASSUME IInv, ToldInv, NEW j \in Job, Ends(j)
    PROVE  ToldInv'
<1>1. /\ HandlerType /\ pc \in [Job -> PC] /\ Untold(j, Target) \subseteq Nat \X Update
      /\ log' = log /\ topic' = topic /\ dropped' = dropped \cup Untold(j, Target)
      /\ handler' = [handler EXCEPT ![j] = AllRest(j)]
    BY UntoldType DEF Typed, IInv, JobType, Ends
<1>2. \A k \in Job : k # j => pc'[k] = pc[k]
    BY <1>1 DEF Ends
<1>3. /\ AllRest(j) \in [Target -> HandlerRecord]
      /\ \A t \in Target : AllRest(j)[t].step \notin Active
    BY <1>1, RestingType DEF AllRest, Steps, Resting, Active
<1>4. \A t \in Target : \/ ~Telling(j, t)
                        \/ <<handler[j][t].sequence, handler[j][t].update>> \in dropped'
    BY <1>1 DEF Untold
<1>5. TellersKept /\ StartedKept
    BY <1>1, <1>2, <1>3, <1>4, AllTellers, AllStarted
<1> QED BY <1>1, <1>5, ToldKept DEF ToldInv

LEMMA InitTold == Init => ToldInv
<1> SUFFICES ASSUME Init PROVE ToldInv
    OBVIOUS
<1>1. dropped = {} /\ Len(log) = 0
    BY DEF Init
<1>2. NotStarted
    BY DEF Init, NotStarted, Resting, Active
<1> QED BY <1>1, <1>2 DEF ToldInv

LEMMA ToldStep == IInv /\ FairInv /\ ToldInv /\ [Next]_vars => ToldInv'
<1> SUFFICES ASSUME IInv, FairInv, ToldInv, [Next]_vars PROVE ToldInv'
    OBVIOUS
<1>1. ASSUME NEW j \in Job, NEW t \in Target, Handler(j, t) \/ SendFails(j, t)
      PROVE  ToldInv'
    BY <1>1, StepTold, UpdateTold, SendTold, EndTold DEF Handler, HandlerThrows
<1>2. ASSUME NEW j \in Job, Crash(j)
      PROVE  ToldInv'
    BY <1>2, EndTold DEF Crash
<1>3. ASSUME NEW j \in Setter \cup Deleter, AcquireLock(j) \/ GetTargetZone(j) \/ JobStep(j)
      PROVE  ToldInv'
    <2>1. j \in Job
        BY DEF Job
    <2> QED BY <1>3, <2>1, StartsTold, GoesTold, StepTold DEF JobStep
<1>4. CASE RecoveryStep
    BY <1>4, RecoveryTold
<1>5. CASE UNCHANGED vars
    <2>1. /\ log' = log /\ topic' = topic /\ dropped' = dropped /\ handler' = handler /\ pc' = pc
        BY <1>5 DEF vars, history, jobVars
    <2>2. HandlerType
        BY DEF Typed, IInv
    <2>3. TellersKept /\ StartedKept
        BY <2>1, <2>2, SameTellers DEF StartedKept, Unstarted
    <2> QED BY <2>1, <2>3, ToldKept DEF ToldInv
<1> QED BY <1>1, <1>2, <1>3, <1>4, <1>5 DEF Next

LEMMA FairlyTold == Spec => [](IInv /\ FairInv /\ ToldInv)
<1>1. Init => IInv /\ FairInv /\ ToldInv
    BY InitInv, InitFair, InitTold
<1>2. IInv /\ FairInv /\ ToldInv /\ [Next]_vars => IInv' /\ FairInv' /\ ToldInv'
    BY InductiveStep, FairStep, ToldStep
<1> QED BY <1>1, <1>2, PTL DEF Spec

-----------------------------------------------------------------------------
(* The types of every variable, and counts in messages that are never      *)
(* negative.                                                               *)
THEOREM TypeCorrect == Spec => []TypeOK
<1>1. IInv /\ ToldInv => TypeOK
    BY DEF IInv, ToldInv, TypeOK, Typed, HandlerType, ZoneType, JobType, HandlerRecord, LogEntry,
           Server, PC
<1> QED BY <1>1, FairlyTold, PTL

(* No update of a zone is lost unless the handler of another one clears    *)
(* it.  Then its handler is about to tell it, or ended before it did, and  *)
(* an addition is made again, or its target is gone or was removed.  For a *)
(* removal that was cleared and whose handler ended nothing is promised.   *)
(* For any targets, calls and recoveries, however their handlers overtake  *)
(* each other and wherever they crash or fail.                             *)
THEOREM NoUpdateLost == Spec => []NoUpdateIsLost
<1>1. ASSUME IInv, FairInv, ToldInv PROVE NoUpdateIsLost
    <2> SUFFICES ASSUME NEW n \in 1..Len(log), ~Told(log[n].update, n),
                        ~(n = zone.sequence /\ zone.last = log[n].update)
                 PROVE  /\ n \in cleared
                        /\ BeingTold(n) \/ <<n, log[n].update>> \in dropped
                        /\ log[n].update.type = "add" => AddedAgain(n)
        BY DEF NoUpdateIsLost
    <2>1. Accounted(n) /\ (Overwritten \/ Repeated(n)) /\ Pursued(n)
        BY <1>1 DEF FairInv, AllAccounted, AllRepeated, ToldInv
    <2> QED BY <2>1 DEF Accounted, Repeated, Overwritten, AddedAgain, Pursued
<1> QED BY <1>1, FairlyTold, PTL
=============================================================================
