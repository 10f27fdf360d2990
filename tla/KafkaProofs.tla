----------------------------- MODULE KafkaProofs -----------------------------
(***************************************************************************)
(* The consumption of messages: none is lost, and the throttle caps what a *)
(* management works at (KafkaOffsets).  The consumer that does it: none    *)
(* but the one the application knows consumes (KafkaRecycle, in the last   *)
(* part).  For any managements, messages and topics, and whatever goes     *)
(* wrong how often.                                                        *)
(***************************************************************************)
EXTENDS KafkaOffsets, KafkaRecycle, FiniteSetTheorems, TLAPS

(* What the registry of a management knows: what is finished was handled,  *)
(* and so was what is missing below an offset that is there.               *)
RegSafe(reg, H) ==
    \A o \in Offset :
        /\ reg[o] = "done" => o \in H
        /\ \A p \in Offset : reg[o] = "absent" /\ o < p /\ reg[p] # "absent" => o \in H

(* A commit that is in flight covers handled offsets only.                 *)
CommitSafe(c, H) == c.state # "idle" => \A o \in Offset : o < c.offset => o \in H

(* What was delivered to the consumer is in the registry or was handled.   *)
PositionSafe ==
    \A m \in Mgmt : owner = m =>
        \A o \in Offset : o < position => offsets[m][o] # "absent" \/ o \in handled

HandledInv == /\ CommittedIsHandled
              /\ PositionSafe
              /\ \A m \in Mgmt : RegSafe(offsets[m], handled)
              /\ \A m \in Mgmt, n \in Slot : CommitSafe(commits[m][n], handled)

IInv == TypeOK /\ HandledInv

-----------------------------------------------------------------------------
(* The types that commitOffsets and its callers keep.                      *)
CommitsType == /\ commits \in [Mgmt -> [Slot -> Commit]]
               /\ commitInProgress \in [Mgmt -> BOOLEAN]
               /\ commitTimeout \in [Mgmt -> BOOLEAN]

ThrottleType == /\ isConsumerPaused \in [Mgmt -> BOOLEAN]
                /\ held \in [Mgmt -> BOOLEAN]

LEMMA CommitOffsetsType ==
    ASSUME CommitsType, NEW m \in Mgmt, NEW reg, CommitOffsets(m, reg)
    PROVE  /\ commits' \in [Mgmt -> [Slot -> Commit]]
           /\ commitInProgress' \in [Mgmt -> BOOLEAN]
<1>1. CASE Streak(reg) = {}
    BY <1>1 DEF CommitOffsets, CommitsType, Set
<1>2. CASE Streak(reg) # {}
    <2>1. PICK n \in Slot, last \in Streak(reg) :
             /\ commits' = [commits EXCEPT ![m][n] =
                              [offset |-> NextOffset(last), state |-> "sent"]]
             /\ Set(commitInProgress, m, TRUE)
        BY <1>2 DEF CommitOffsets
    <2>2. last \in Offset
        BY DEF Streak, Keys
    <2>3. NextOffset(last) \in 0..Length
        BY <2>2, LengthAssumption DEF NextOffset, Offset
    <2>4. [offset |-> NextOffset(last), state |-> "sent"] \in Commit
        BY <2>3 DEF Commit
    <2>5. commits' \in [Mgmt -> [Slot -> Commit]]
        BY <2>1, <2>4 DEF CommitsType
    <2> QED BY <2>1, <2>5 DEF CommitsType, Set
<1> QED BY <1>1, <1>2

LEMMA CommitSoonType ==
    ASSUME CommitsType, NEW m \in Mgmt, NEW reg, CommitSoon(m, reg)
    PROVE  CommitsType'
<1>1. CASE CommitOffsets(m, reg) /\ UNCHANGED commitTimeout
    BY <1>1, CommitOffsetsType DEF CommitsType
<1>2. CASE Set(commitTimeout, m, TRUE) /\ UNCHANGED <<commits, commitInProgress>>
    BY <1>2 DEF CommitsType, Set
<1> QED BY <1>1, <1>2 DEF CommitSoon

LEMMA PauseType ==
    ASSUME ThrottleType, NEW m \in Mgmt, NEW count, PauseConsumerIfNeeded(m, count)
    PROVE  ThrottleType'
BY DEF ThrottleType, PauseConsumerIfNeeded, Set, throttle

LEMMA ResumeType ==
    ASSUME ThrottleType, NEW m \in Mgmt, NEW count, ResumeConsumerIfNeeded(m, count)
    PROVE  ThrottleType'
BY DEF ThrottleType, ResumeConsumerIfNeeded, Set, throttle

(* A commit that starts covers handled offsets only, if the registry is    *)
(* safe: below the end of the streak an offset is finished or missing.     *)
LEMMA CommitOffsetsSafe ==
    ASSUME CommitsType, NEW m \in Mgmt, NEW reg, NEW H, RegSafe(reg, H),
           \A k \in Mgmt, n \in Slot : CommitSafe(commits[k][n], H),
           CommitOffsets(m, reg)
    PROVE  \A k \in Mgmt, n \in Slot : CommitSafe(commits'[k][n], H)
<1>1. CASE Streak(reg) = {}
    BY <1>1 DEF CommitOffsets
<1>2. CASE Streak(reg) # {}
    <2>1. PICK s \in Slot, last \in Streak(reg) :
             commits' = [commits EXCEPT ![m][s] =
                           [offset |-> NextOffset(last), state |-> "sent"]]
        BY <1>2 DEF CommitOffsets
    <2>2. /\ last \in Offset
          /\ reg[last] # "absent"
          /\ \A p \in Offset : reg[p] # "absent" /\ p <= last => reg[p] = "done"
        BY DEF Streak, Keys
    <2>3. \A o \in Offset : o < NextOffset(last) => o \in H
        <3> TAKE o \in Offset
        <3> HAVE o < NextOffset(last)
        <3>1. o <= last
            BY <2>2, LengthAssumption DEF NextOffset, Offset
        <3>2. CASE reg[o] = "absent"
            <4>1. o < last
                BY <3>1, <3>2, <2>2, LengthAssumption DEF Offset
            <4> QED BY <4>1, <3>2, <2>2 DEF RegSafe
        <3>3. CASE reg[o] # "absent"
            BY <3>1, <3>3, <2>2 DEF RegSafe
        <3> QED BY <3>2, <3>3
    <2>4. CommitSafe([offset |-> NextOffset(last), state |-> "sent"], H)
        BY <2>3 DEF CommitSafe
    <2> TAKE k \in Mgmt, n \in Slot
    <2>5. CASE k = m /\ n = s
        BY <2>1, <2>4, <2>5 DEF CommitsType
    <2>6. CASE ~(k = m /\ n = s)
        <3>1. commits'[k][n] = commits[k][n]
            BY <2>1, <2>6 DEF CommitsType
        <3> QED BY <3>1
    <2> QED BY <2>5, <2>6
<1> QED BY <1>1, <1>2

LEMMA CommitSoonSafe ==
    ASSUME CommitsType, NEW m \in Mgmt, NEW reg, NEW H, RegSafe(reg, H),
           \A k \in Mgmt, n \in Slot : CommitSafe(commits[k][n], H),
           CommitSoon(m, reg)
    PROVE  \A k \in Mgmt, n \in Slot : CommitSafe(commits'[k][n], H)
<1>1. CASE CommitOffsets(m, reg)
    BY <1>1, CommitOffsetsSafe
<1>2. CASE UNCHANGED <<commits, commitInProgress>>
    BY <1>2
<1> QED BY <1>1, <1>2 DEF CommitSoon

-----------------------------------------------------------------------------
(* Type correctness, one lemma per step that is more than an assignment.   *)
RegistryType == /\ offsets \in [Mgmt -> [Offset -> Entry]]
                /\ handlers \in [Mgmt -> [Offset -> Nat]]
                /\ messagesInProcess \in [Mgmt -> Int]

RestType == /\ owner \in Mgmt \cup {NoMgmt}
            /\ committed \in 0..Length
            /\ position \in 0..Length
            /\ up \in [Mgmt -> BOOLEAN]
            /\ handled \subseteq Offset
            /\ failed \subseteq Offset
            /\ faults \in [Faults -> Nat]

LEMMA TypeParts == TypeOK <=> RegistryType /\ ThrottleType /\ CommitsType /\ RestType
BY DEF TypeOK, RegistryType, ThrottleType, CommitsType, RestType

LEMMA TypePartsPrime == RegistryType' /\ ThrottleType' /\ CommitsType' /\ RestType' => TypeOK'
BY DEF TypeOK, RegistryType, ThrottleType, CommitsType, RestType

LEMMA FaultType ==
    ASSUME faults \in [Faults -> Nat], NEW kind, Fault(kind)
    PROVE  faults' \in [Faults -> Nat]
BY DEF Fault

LEMMA LeaveType ==
    ASSUME RestType, NEW m, Leave(m)
    PROVE  owner' \in Mgmt \cup {NoMgmt} /\ position' \in 0..Length
BY LengthAssumption DEF Leave, RestType

LEMMA ReceiveType ==
    ASSUME TypeOK, NEW m \in Mgmt, Receive(m)
    PROVE  TypeOK'
<1> DEFINE o == position
<1>1. RegistryType /\ ThrottleType /\ CommitsType /\ RestType
    BY TypeParts
<1>2. o \in Offset
    BY <1>1, LengthAssumption DEF Receive, Delivers, RestType, Offset
<1>3. position' \in 0..Length /\ UNCHANGED <<owner, committed, up, faults>>
    BY <1>2, LengthAssumption DEF Receive, Offset
<1> HIDE DEF o
<1>4. CASE UNCHANGED <<registry, throttle, commitment, history>>
    <2>1. RegistryType' /\ ThrottleType'
        BY <1>1, <1>4 DEF registry, throttle, RegistryType, ThrottleType
    <2>2. CommitsType' /\ RestType'
        BY <1>1, <1>3, <1>4 DEF commitment, history, CommitsType, RestType
    <2> QED BY <2>1, <2>2, TypePartsPrime
<1>5. CASE /\ offsets' = [offsets EXCEPT ![m][o] = "pending"]
           /\ handlers' = [handlers EXCEPT ![m][o] = @ + 1]
           /\ Set(messagesInProcess, m, messagesInProcess[m] + 1)
           /\ PauseConsumerIfNeeded(m, messagesInProcess[m] + 1)
           /\ UNCHANGED <<commitment, history>>
    <2>1. RegistryType'
        BY <1>1, <1>2, <1>5 DEF RegistryType, Entry, Set
    <2>2. ThrottleType'
        BY <1>1, <1>5, PauseType
    <2>3. CommitsType' /\ RestType'
        BY <1>1, <1>3, <1>5 DEF commitment, history, CommitsType, RestType
    <2> QED BY <2>1, <2>2, <2>3, TypePartsPrime
<1>6. CASE /\ offsets' = [offsets EXCEPT ![m][o] = "done"]
           /\ IF TooMany(messagesInProcess[m] + 1)
                THEN PauseConsumerIfNeeded(m, messagesInProcess[m] + 1)
                ELSE ResumeConsumerIfNeeded(m, messagesInProcess[m])
           /\ CommitSoon(m, offsets'[m])
           /\ handled' = handled \cup {o}
           /\ UNCHANGED <<handlers, messagesInProcess, failed>>
    <2>1. RegistryType'
        BY <1>1, <1>2, <1>6 DEF RegistryType, Entry
    <2>2. ThrottleType'
        BY <1>1, <1>6, PauseType, ResumeType
    <2>3. CommitsType'
        BY <1>1, <1>6, CommitSoonType
    <2>4. RestType'
        BY <1>1, <1>2, <1>3, <1>6 DEF RestType
    <2> QED BY <2>1, <2>2, <2>3, <2>4, TypePartsPrime
<1> USE DEF o
<1> QED BY <1>4, <1>5, <1>6 DEF Receive

LEMMA EndHandlerType ==
    ASSUME TypeOK, NEW m \in Mgmt, NEW o \in Offset, NEW entry \in Entry,
           EndHandler(m, o, entry)
    PROVE  RegistryType' /\ ThrottleType' /\ CommitsType'
<1>1. RegistryType /\ ThrottleType /\ CommitsType
    BY TypeParts
<1>2. handlers' \in [Mgmt -> [Offset -> Nat]]
    <2>1. handlers[m][o] \in Nat /\ handlers[m][o] > 0
        BY <1>1 DEF EndHandler, RegistryType
    <2> QED BY <1>1, <2>1 DEF EndHandler, RegistryType
<1>3. CASE offsets[m][o] = "absent"
    BY <1>1, <1>2, <1>3
       DEF EndHandler, RegistryType, ThrottleType, CommitsType, throttle, commitment
<1>4. CASE offsets[m][o] # "absent"
    <2>1. /\ Set(messagesInProcess, m, messagesInProcess[m] - 1)
          /\ ResumeConsumerIfNeeded(m, messagesInProcess[m] - 1)
          /\ offsets' = [offsets EXCEPT ![m][o] = entry]
          /\ CommitSoon(m, offsets'[m]) \/ UNCHANGED commitment
        BY <1>4 DEF EndHandler
    <2>2. RegistryType'
        BY <1>1, <1>2, <2>1 DEF RegistryType, Set
    <2>3. ThrottleType'
        BY <1>1, <2>1, ResumeType
    <2>4. CommitsType'
        BY <1>1, <2>1, CommitSoonType DEF CommitsType, commitment
    <2> QED BY <2>2, <2>3, <2>4
<1> QED BY <1>3, <1>4

LEMMA CommitReturnsType ==
    ASSUME TypeOK, NEW m \in Mgmt, NEW n \in Slot, CommitReturns(m, n)
    PROVE  TypeOK'
<1>1. RegistryType /\ ThrottleType /\ CommitsType /\ RestType
    BY TypeParts
<1>2. Idle \in Commit
    BY LengthAssumption DEF Idle, Commit
<1>3. CommitsType'
    BY <1>1, <1>2 DEF CommitReturns, SetCommit, Set, CommitsType
<1>4. offsets' \in [Mgmt -> [Offset -> Entry]]
    <2>1. offsets[m] \in [Offset -> Entry]
        BY <1>1 DEF RegistryType
    <2>2. AfterCommit(offsets[m], commits[m][n].offset) \in [Offset -> Entry]
        BY <2>1 DEF AfterCommit, Entry
    <2> QED BY <1>1, <2>2 DEF CommitReturns, Set, RegistryType
<1>5. RegistryType' /\ ThrottleType'
    BY <1>1, <1>4 DEF CommitReturns, RegistryType, ThrottleType, throttle
<1>6. RestType'
    BY <1>1 DEF CommitReturns, RestType, broker, history
<1> QED BY <1>3, <1>5, <1>6, TypePartsPrime

LEMMA RecycleType ==
    ASSUME TypeOK, NEW m \in Mgmt, Recycle(m)
    PROVE  TypeOK'
<1>1. RegistryType /\ ThrottleType /\ CommitsType /\ RestType
    BY TypeParts
<1>2. CommitsType'
    <2>1. commits[m] \in [Slot -> Commit]
        BY <1>1 DEF CommitsType
    <2>2. \A n \in Slot : [commits[m][n] EXCEPT !.state = "refused"] \in Commit
        BY <2>1 DEF Commit
    <2>3. commits'[m] \in [Slot -> Commit] /\ commits' = [commits EXCEPT ![m] = commits'[m]]
        BY <1>1, <2>1, <2>2 DEF Recycle, Set, CommitsType
    <2> QED BY <1>1, <2>3 DEF Recycle, CommitsType
<1>3. RegistryType'
    BY <1>1 DEF Recycle, registry, RegistryType
<1>4. ThrottleType'
    BY <1>1 DEF Recycle, Set, ThrottleType
<1>5. RestType'
    <2>1. owner' \in Mgmt \cup {NoMgmt} /\ position' \in 0..Length
        BY <1>1, LeaveType DEF Recycle
    <2>2. faults' \in [Faults -> Nat]
        BY <1>1, FaultType DEF Recycle, RestType
    <2> QED BY <1>1, <2>1, <2>2 DEF Recycle, RestType, history
<1> QED BY <1>2, <1>3, <1>4, <1>5, TypePartsPrime

LEMMA CrashType ==
    ASSUME TypeOK, NEW m \in Mgmt, Crash(m)
    PROVE  TypeOK'
<1>1. RegistryType /\ ThrottleType /\ CommitsType /\ RestType
    BY TypeParts
<1>2. NoOffsets \in [Offset -> Entry] /\ NoHandlers \in [Offset -> Nat]
    BY DEF NoOffsets, NoHandlers, Entry
<1>3. NoCommits \in [Slot -> Commit]
    BY LengthAssumption DEF NoCommits, Idle, Commit
<1>4. RegistryType'
    BY <1>1, <1>2 DEF Crash, Set, RegistryType
<1>5. ThrottleType'
    BY <1>1 DEF Crash, Set, ThrottleType
<1>6. CommitsType'
    BY <1>1, <1>3 DEF Crash, Set, CommitsType
<1>7. RestType'
    <2>1. owner' \in Mgmt \cup {NoMgmt} /\ position' \in 0..Length
        BY <1>1, LeaveType DEF Crash
    <2>2. faults' \in [Faults -> Nat]
        BY <1>1, FaultType DEF Crash, RestType
    <2> QED BY <1>1, <2>1, <2>2 DEF Crash, Set, RestType, history
<1> QED BY <1>4, <1>5, <1>6, <1>7, TypePartsPrime

LEMMA TypeInit == Init => TypeOK
<1> SUFFICES ASSUME Init PROVE TypeOK
    OBVIOUS
<1>1. RegistryType
    BY DEF Init, RegistryType, NoOffsets, NoHandlers, Entry
<1>2. Idle \in Commit
    BY LengthAssumption DEF Idle, Commit
<1>3. ThrottleType /\ CommitsType
    BY <1>2 DEF Init, ThrottleType, CommitsType, NoCommits
<1>4. RestType
    BY LengthAssumption DEF Init, RestType
<1> QED BY <1>1, <1>3, <1>4, TypeParts

LEMMA TypeStep ==
    ASSUME TypeOK, [Next]_vars
    PROVE  TypeOK'
<1>1. RegistryType /\ ThrottleType /\ CommitsType /\ RestType
    BY TypeParts
<1>2. ASSUME NEW m \in Mgmt, Receive(m) \/ Recycle(m) \/ Crash(m)
      PROVE  TypeOK'
    BY <1>2, ReceiveType, RecycleType, CrashType
<1>3. ASSUME NEW m \in Mgmt, NEW n \in Slot, CommitReturns(m, n)
      PROVE  TypeOK'
    BY <1>3, CommitReturnsType
<1>4. ASSUME NEW m \in Mgmt, NEW o \in Offset, Finish(m, o)
      PROVE  TypeOK'
    <2>1. "done" \in Entry
        BY DEF Entry
    <2>2. RegistryType' /\ ThrottleType' /\ CommitsType'
        BY <1>4, <2>1, EndHandlerType DEF Finish
    <2>3. RestType'
        BY <1>1, <1>4 DEF Finish, RestType, broker
    <2> QED BY <2>2, <2>3, TypePartsPrime
<1>5. ASSUME NEW m \in Mgmt, NEW o \in Offset, FinishWithError(m, o)
      PROVE  TypeOK'
    <2>1. EntryAfterError \in Entry
        BY DEF Entry, EntryAfterError
    <2>2. RegistryType' /\ ThrottleType' /\ CommitsType'
        BY <1>5, <2>1, EndHandlerType DEF FinishWithError
    <2>3. faults' \in [Faults -> Nat]
        BY <1>1, <1>5, FaultType DEF FinishWithError, RestType
    <2>4. RestType'
        BY <1>1, <1>5, <2>3 DEF FinishWithError, RestType, broker
    <2> QED BY <2>2, <2>4, TypePartsPrime
<1>6. ASSUME NEW m \in Mgmt, NEW o \in Offset, Throw(m, o)
      PROVE  TypeOK'
    <2>1. handlers[m][o] \in Nat /\ handlers[m][o] > 0
        BY <1>1, <1>6 DEF Throw, RegistryType
    <2>2. RegistryType' /\ ThrottleType' /\ CommitsType'
        BY <1>1, <1>6, <2>1
           DEF Throw, RegistryType, ThrottleType, CommitsType, throttle, commitment
    <2>3. faults' \in [Faults -> Nat]
        BY <1>1, <1>6, FaultType DEF Throw, RestType
    <2>4. RestType'
        BY <1>1, <1>6, <2>3 DEF Throw, RestType, broker
    <2> QED BY <2>2, <2>4, TypePartsPrime
<1>7. ASSUME NEW m \in Mgmt, CommitTimer(m)
      PROVE  TypeOK'
    <2>1. CommitsType'
        BY <1>1, <1>7, CommitOffsetsType DEF CommitTimer, CommitsType, Set
    <2>2. RegistryType' /\ ThrottleType'
        BY <1>1, <1>7 DEF CommitTimer, RegistryType, ThrottleType, registry, throttle
    <2>3. RestType'
        BY <1>1, <1>7 DEF CommitTimer, RestType, broker, history
    <2> QED BY <2>1, <2>2, <2>3, TypePartsPrime
<1>8. ASSUME NEW m \in Mgmt, NEW n \in Slot, ApplyCommit(m, n)
      PROVE  TypeOK'
    <2>1. commits[m][n] \in Commit
        BY <1>1 DEF CommitsType
    <2>2. /\ [commits[m][n] EXCEPT !.state = "applied"] \in Commit
          /\ commits[m][n].offset \in 0..Length
        BY <2>1 DEF Commit
    <2>3. CommitsType'
        BY <1>1, <1>8, <2>2 DEF ApplyCommit, SetCommit, CommitsType
    <2>4. RegistryType' /\ ThrottleType'
        BY <1>1, <1>8 DEF ApplyCommit, RegistryType, ThrottleType, registry, throttle
    <2>5. RestType'
        BY <1>1, <1>8, <2>2 DEF ApplyCommit, RestType, history
    <2> QED BY <2>3, <2>4, <2>5, TypePartsPrime
<1>9. ASSUME NEW m \in Mgmt, NEW n \in Slot, RefuseCommit(m, n)
      PROVE  TypeOK'
    <2>1. commits[m][n] \in Commit
        BY <1>1 DEF CommitsType
    <2>2. [commits[m][n] EXCEPT !.state = "refused"] \in Commit
        BY <2>1 DEF Commit
    <2>3. CommitsType'
        BY <1>1, <1>9, <2>2 DEF RefuseCommit, SetCommit, CommitsType
    <2>4. RegistryType' /\ ThrottleType'
        BY <1>1, <1>9 DEF RefuseCommit, RegistryType, ThrottleType, registry, throttle
    <2>5. faults' \in [Faults -> Nat]
        BY <1>1, <1>9, FaultType DEF RefuseCommit, RestType
    <2>6. RestType'
        BY <1>1, <1>9, <2>5 DEF RefuseCommit, RestType, broker, history
    <2> QED BY <2>3, <2>4, <2>6, TypePartsPrime
<1>10. ASSUME NEW m \in Mgmt, Assign(m) \/ Restart(m)
       PROVE  TypeOK'
    <2>1. RegistryType' /\ ThrottleType' /\ CommitsType'
        BY <1>1, <1>10
           DEF Assign, Restart, RegistryType, ThrottleType, CommitsType, registry, throttle,
               commitment
    <2>2. RestType'
        BY <1>1, <1>10 DEF Assign, Restart, Set, RestType, broker, history
    <2> QED BY <2>1, <2>2, TypePartsPrime
<1>11. ASSUME NEW m \in Mgmt, ConsumerForgets(m)
       PROVE  TypeOK'
    <2>1. owner' \in Mgmt \cup {NoMgmt} /\ position' \in 0..Length
        BY <1>1, <1>11, LeaveType DEF ConsumerForgets
    <2>2. faults' \in [Faults -> Nat]
        BY <1>1, <1>11, FaultType DEF ConsumerForgets, RestType
    <2>3. RegistryType' /\ ThrottleType' /\ CommitsType'
        BY <1>1, <1>11
           DEF ConsumerForgets, Set, RegistryType, ThrottleType, CommitsType, registry, commitment
    <2>4. RestType'
        BY <1>1, <1>11, <2>1, <2>2 DEF ConsumerForgets, RestType, history
    <2> QED BY <2>3, <2>4, TypePartsPrime
<1>12. ASSUME Rebalance
       PROVE  TypeOK'
    <2>1. faults' \in [Faults -> Nat]
        BY <1>1, <1>12, FaultType DEF Rebalance, RestType
    <2>2. RegistryType' /\ ThrottleType' /\ CommitsType'
        BY <1>1, <1>12
           DEF Rebalance, RegistryType, ThrottleType, CommitsType, registry, throttle, commitment
    <2>3. RestType'
        BY <1>1, <1>12, <2>1, LengthAssumption DEF Rebalance, RestType, history
    <2> QED BY <2>2, <2>3, TypePartsPrime
<1>13. CASE UNCHANGED vars
    BY <1>13 DEF vars, broker, registry, throttle, commitment, history, TypeOK
<1> QED
    BY <1>2, <1>3, <1>4, <1>5, <1>6, <1>7, <1>8, <1>9, <1>10, <1>11, <1>12, <1>13
       DEF Next, Work

(* Type correctness of the consumer, its registry and its commits.         *)
THEOREM TypeCorrect == Spec => []TypeOK
<1>1. Init => TypeOK
    BY TypeInit
<1>2. TypeOK /\ [Next]_vars => TypeOK'
    BY TypeStep
<1> QED BY <1>1, <1>2, PTL DEF Spec

-----------------------------------------------------------------------------
(* The history only grows, and what was safe stays safe.                   *)
LEMMA RegGrows ==
    ASSUME NEW reg, NEW H, NEW G, H \subseteq G, RegSafe(reg, H)
    PROVE  RegSafe(reg, G)
BY DEF RegSafe

LEMMA CommitGrows ==
    ASSUME NEW c, NEW H, NEW G, H \subseteq G, CommitSafe(c, H)
    PROVE  CommitSafe(c, G)
BY DEF CommitSafe

(* An entry that is there changes: nothing else does.                      *)
LEMMA EntryChanges ==
    ASSUME NEW reg \in [Offset -> Entry], NEW H, RegSafe(reg, H), NEW o \in Offset,
           NEW entry \in Entry, reg[o] # "absent", entry # "absent",
           entry = "done" => o \in H
    PROVE  RegSafe([reg EXCEPT ![o] = entry], H)
BY DEF RegSafe

(* A new entry: what is missing below it was handled.                      *)
LEMMA EntryAdded ==
    ASSUME NEW reg \in [Offset -> Entry], NEW H, RegSafe(reg, H), NEW o \in Offset,
           NEW entry \in {"pending", "done"}, entry = "done" => o \in H,
           \A p \in Offset : p < o => reg[p] # "absent" \/ p \in H
    PROVE  RegSafe([reg EXCEPT ![o] = entry], H)
BY LengthAssumption DEF RegSafe, Offset

(* The entries that a commit covers go, and they were handled.             *)
LEMMA EntriesGo ==
    ASSUME NEW reg \in [Offset -> Entry], NEW H, RegSafe(reg, H), NEW next,
           \A o \in Offset : o < next => o \in H
    PROVE  RegSafe(AfterCommit(reg, next), H)
<1> SUFFICES ASSUME NEW o \in Offset
             PROVE  /\ AfterCommit(reg, next)[o] = "done" => o \in H
                    /\ \A p \in Offset : /\ AfterCommit(reg, next)[o] = "absent" /\ o < p
                                         /\ AfterCommit(reg, next)[p] # "absent"
                                         => o \in H
    BY DEF RegSafe
<1>1. CASE o < next
    BY <1>1
<1>2. CASE ~(o < next)
    <2>1. AfterCommit(reg, next)[o] = reg[o]
        BY <1>2 DEF AfterCommit
    <2>2. \A p \in Offset : AfterCommit(reg, next)[p] # "absent" => reg[p] # "absent"
        BY DEF AfterCommit
    <2> QED BY <2>1, <2>2 DEF RegSafe
<1> QED BY <1>1, <1>2

LEMMA ReceiveSafe ==
    ASSUME IInv, NEW m \in Mgmt, Receive(m)
    PROVE  HandledInv'
<1> DEFINE o == position
<1>1. TypeOK /\ RegistryType /\ CommitsType /\ RestType
    BY TypeParts DEF IInv
<1>2. HandledInv
    BY DEF IInv
<1>3. o \in Offset /\ owner = m /\ offsets[m] \in [Offset -> Entry]
    BY <1>1, LengthAssumption DEF Receive, Delivers, RestType, RegistryType, Offset
<1>4. position' = o + 1 /\ UNCHANGED <<owner, committed>>
    BY DEF Receive
<1>5. \A p \in Offset : p < o => offsets[m][p] # "absent" \/ p \in handled
    BY <1>2, <1>3 DEF HandledInv, PositionSafe
<1>6. \A p \in Offset : p < o + 1 => p < o \/ p = o
    BY <1>3, LengthAssumption DEF Offset
<1> HIDE DEF o
<1>7. CASE offsets[m][o] # "absent" /\ UNCHANGED <<registry, throttle, commitment, history>>
    <2>1. UNCHANGED <<offsets, commits, handled>>
        BY <1>7 DEF registry, commitment, history
    <2>2. PositionSafe'
        BY <2>1, <1>3, <1>4, <1>5, <1>6, <1>7 DEF PositionSafe
    <2> QED BY <1>2, <1>4, <2>1, <2>2 DEF HandledInv, CommittedIsHandled
<1>8. CASE /\ offsets' = [offsets EXCEPT ![m][o] = "pending"]
           /\ UNCHANGED <<commitment, history>>
    <2>1. UNCHANGED <<commits, handled>>
        BY <1>8 DEF commitment, history
    <2>2. offsets' = [offsets EXCEPT ![m] = [offsets[m] EXCEPT ![o] = "pending"]]
        BY <1>8
    <2>3. RegSafe([offsets[m] EXCEPT ![o] = "pending"], handled)
        BY <1>2, <1>3, <1>5, EntryAdded DEF HandledInv
    <2>4. \A k \in Mgmt : RegSafe(offsets'[k], handled')
        BY <1>1, <1>2, <2>1, <2>2, <2>3 DEF HandledInv, RegistryType
    <2>5. PositionSafe'
        BY <2>1, <2>2, <1>1, <1>3, <1>4, <1>5, <1>6 DEF PositionSafe, RegistryType
    <2> QED BY <1>2, <1>4, <2>1, <2>4, <2>5 DEF HandledInv, CommittedIsHandled
<1>9. CASE /\ offsets' = [offsets EXCEPT ![m][o] = "done"]
           /\ CommitSoon(m, offsets'[m])
           /\ handled' = handled \cup {o}
    <2>1. offsets' = [offsets EXCEPT ![m] = [offsets[m] EXCEPT ![o] = "done"]]
        BY <1>9
    <2>2. offsets'[m] = [offsets[m] EXCEPT ![o] = "done"]
        BY <2>1, <1>1 DEF RegistryType
    <2>3. RegSafe(offsets[m], handled')
        <3>1. handled \subseteq handled' /\ RegSafe(offsets[m], handled)
            BY <1>2, <1>9 DEF HandledInv
        <3> QED BY <3>1, RegGrows
    <2>4. RegSafe(offsets'[m], handled')
        <3>1. o \in handled' /\ \A p \in Offset : p < o => offsets[m][p] # "absent" \/ p \in handled'
            BY <1>5, <1>9
        <3>2. RegSafe([offsets[m] EXCEPT ![o] = "done"], handled')
            BY <1>3, <2>3, <3>1, EntryAdded
        <3> QED BY <2>2, <3>2
    <2>5. \A k \in Mgmt : RegSafe(offsets'[k], handled')
        <3>1. \A k \in Mgmt : RegSafe(offsets[k], handled')
            <4>1. handled \subseteq handled' /\ \A k \in Mgmt : RegSafe(offsets[k], handled)
                BY <1>2, <1>9 DEF HandledInv
            <4> QED BY <4>1, RegGrows
        <3>2. \A k \in Mgmt : k # m => offsets'[k] = offsets[k]
            BY <1>1, <2>1 DEF RegistryType
        <3> QED BY <2>4, <3>1, <3>2
    <2>6. PositionSafe'
        BY <2>1, <1>1, <1>3, <1>4, <1>5, <1>6, <1>9 DEF PositionSafe, RegistryType
    <2>7. \A k \in Mgmt, n \in Slot : CommitSafe(commits[k][n], handled')
        <3>1. /\ handled \subseteq handled'
              /\ \A k \in Mgmt, n \in Slot : CommitSafe(commits[k][n], handled)
            BY <1>2, <1>9 DEF HandledInv
        <3> QED BY <3>1, CommitGrows
    <2>8. \A k \in Mgmt, n \in Slot : CommitSafe(commits'[k][n], handled')
        BY <1>1, <1>9, <2>4, <2>7, CommitSoonSafe
    <2>9. CommittedIsHandled'
        BY <1>2, <1>4, <1>9 DEF HandledInv, CommittedIsHandled
    <2> QED BY <2>5, <2>6, <2>8, <2>9 DEF HandledInv
<1> USE DEF o
<1> QED BY <1>7, <1>8, <1>9 DEF Receive

LEMMA EndHandlerSafe ==
    ASSUME IInv, NEW m \in Mgmt, NEW o \in Offset, NEW entry \in {"pending", "done"},
           EndHandler(m, o, entry), UNCHANGED broker,
           handled \subseteq handled', entry = "done" => o \in handled'
    PROVE  HandledInv'
<1>1. TypeOK /\ RegistryType /\ CommitsType
    BY TypeParts DEF IInv
<1>2. HandledInv
    BY DEF IInv
<1>3. UNCHANGED <<owner, committed, position>>
    BY DEF broker
<1>4. \A k \in Mgmt : RegSafe(offsets[k], handled')
    BY <1>2, RegGrows DEF HandledInv
<1>5. \A k \in Mgmt, n \in Slot : CommitSafe(commits[k][n], handled')
    BY <1>2, CommitGrows DEF HandledInv
<1>6. CommittedIsHandled'
    BY <1>2, <1>3 DEF HandledInv, CommittedIsHandled
<1>7. CASE offsets[m][o] = "absent"
    <2>1. UNCHANGED <<offsets, commits>>
        BY <1>7 DEF EndHandler, commitment
    <2>2. PositionSafe'
        BY <1>2, <1>3, <2>1 DEF HandledInv, PositionSafe
    <2> QED BY <1>4, <1>5, <1>6, <2>1, <2>2 DEF HandledInv
<1>8. CASE offsets[m][o] # "absent"
    <2>1. /\ offsets' = [offsets EXCEPT ![m][o] = entry]
          /\ CommitSoon(m, offsets'[m]) \/ UNCHANGED commits
        BY <1>8 DEF EndHandler, commitment
    <2>2. offsets' = [offsets EXCEPT ![m] = [offsets[m] EXCEPT ![o] = entry]]
        BY <2>1
    <2>3. offsets[m] \in [Offset -> Entry] /\ entry \in Entry
        BY <1>1 DEF RegistryType, Entry
    <2>4. RegSafe([offsets[m] EXCEPT ![o] = entry], handled')
        BY <1>4, <1>8, <2>3, EntryChanges
    <2>5. \A k \in Mgmt : RegSafe(offsets'[k], handled')
        BY <1>1, <1>4, <2>2, <2>4 DEF RegistryType
    <2>6. PositionSafe'
        <3>1. \A k \in Mgmt, p \in Offset : offsets[k][p] # "absent" => offsets'[k][p] # "absent"
            BY <1>1, <2>2, <2>3 DEF RegistryType
        <3>2. PositionSafe
            BY <1>2 DEF HandledInv
        <3> QED BY <1>3, <3>1, <3>2 DEF PositionSafe
    <2>7. \A k \in Mgmt, n \in Slot : CommitSafe(commits'[k][n], handled')
        BY <1>1, <1>5, <2>1, <2>5, CommitSoonSafe
    <2> QED BY <1>6, <2>5, <2>6, <2>7 DEF HandledInv
<1> QED BY <1>7, <1>8

LEMMA CommitReturnsSafe ==
    ASSUME IInv, NEW m \in Mgmt, NEW n \in Slot, CommitReturns(m, n)
    PROVE  HandledInv'
<1> DEFINE next == commits[m][n].offset
<1>1. TypeOK /\ RegistryType /\ CommitsType
    BY TypeParts DEF IInv
<1>2. HandledInv
    BY DEF IInv
<1>3. UNCHANGED <<owner, committed, position, handled>>
    BY DEF CommitReturns, broker, history
<1>4. CommitSafe(Idle, handled)
    BY DEF CommitSafe, Idle
<1>5. \A k \in Mgmt, s \in Slot : CommitSafe(commits'[k][s], handled')
    <2>1. commits' = [commits EXCEPT ![m][n] = Idle]
        BY DEF CommitReturns, SetCommit
    <2>2. \A k \in Mgmt, s \in Slot : commits'[k][s] \in {Idle, commits[k][s]}
        BY <1>1, <2>1 DEF CommitsType
    <2> QED BY <1>2, <1>3, <1>4, <2>2 DEF HandledInv
<1>6. CommittedIsHandled'
    BY <1>2, <1>3 DEF HandledInv, CommittedIsHandled
<1>7. CASE UNCHANGED offsets
    <2>1. PositionSafe'
        BY <1>2, <1>3, <1>7 DEF HandledInv, PositionSafe
    <2> QED BY <1>2, <1>3, <1>5, <1>6, <1>7, <2>1 DEF HandledInv
<1>8. CASE offsets' = [offsets EXCEPT ![m] = AfterCommit(offsets[m], next)]
    <2>1. \A o \in Offset : o < next => o \in handled
        BY <1>2 DEF CommitReturns, HandledInv, CommitSafe
    <2>2. offsets[m] \in [Offset -> Entry]
        BY <1>1 DEF RegistryType
    <2> HIDE DEF next
    <2>3. RegSafe(AfterCommit(offsets[m], next), handled)
        BY <1>2, <2>1, <2>2, EntriesGo DEF HandledInv
    <2>4. \A k \in Mgmt : RegSafe(offsets'[k], handled')
        BY <1>1, <1>2, <1>3, <1>8, <2>3 DEF HandledInv, RegistryType
    <2>5. PositionSafe'
        <3>1. \A o \in Offset : ~(o < next) =>
                 AfterCommit(offsets[m], next)[o] = offsets[m][o]
            BY DEF AfterCommit
        <3>2. \A k \in Mgmt, o \in Offset :
                 offsets[k][o] # "absent" => offsets'[k][o] # "absent" \/ o \in handled
            BY <1>1, <1>8, <2>1, <3>1 DEF RegistryType
        <3>3. PositionSafe
            BY <1>2 DEF HandledInv
        <3> QED BY <1>3, <3>2, <3>3 DEF PositionSafe
    <2> QED BY <1>5, <1>6, <2>4, <2>5 DEF HandledInv
<1>9. QED
    BY <1>7, <1>8 DEF CommitReturns, Set

(* A commit that changes its state only covers what it did before.         *)
LEMMA StateChanges ==
    ASSUME CommitsType, NEW m \in Mgmt, NEW n \in Slot, NEW st, NEW H,
           commits[m][n].state # "idle",
           commits' = [commits EXCEPT ![m][n] = [commits[m][n] EXCEPT !.state = st]],
           \A k \in Mgmt, s \in Slot : CommitSafe(commits[k][s], H)
    PROVE  \A k \in Mgmt, s \in Slot : CommitSafe(commits'[k][s], H)
<1>1. commits[m][n] \in Commit
    BY DEF CommitsType
<1>2. [commits[m][n] EXCEPT !.state = st].offset = commits[m][n].offset
    BY <1>1 DEF Commit
<1>3. CommitSafe([commits[m][n] EXCEPT !.state = st], H)
    BY <1>2 DEF CommitSafe
<1>4. \A k \in Mgmt, s \in Slot :
         commits'[k][s] \in {commits[k][s], [commits[m][n] EXCEPT !.state = st]}
    BY DEF CommitsType
<1> QED BY <1>3, <1>4

(* A consumer that leaves the group has received nothing since.            *)
LEMMA LeaveSafe ==
    ASSUME PositionSafe, NEW m \in Mgmt, Leave(m), UNCHANGED handled,
           \A k \in Mgmt : k # m => offsets'[k] = offsets[k]
    PROVE  PositionSafe'
BY NoMgmtAssumption DEF PositionSafe, Leave

LEMMA RecycleSafe ==
    ASSUME IInv, NEW m \in Mgmt, Recycle(m)
    PROVE  HandledInv'
<1>1. CommitsType
    BY TypeParts DEF IInv
<1>2. HandledInv
    BY DEF IInv
<1>3. UNCHANGED <<committed, offsets, handled>>
    BY DEF Recycle, registry, history
<1>4. PositionSafe'
    BY <1>2, <1>3, LeaveSafe DEF Recycle, HandledInv
<1>5. \A k \in Mgmt, s \in Slot : CommitSafe(commits'[k][s], handled')
    <2>1. \A s \in Slot : commits[m][s] \in Commit
        BY <1>1 DEF CommitsType
    <2>2. \A s \in Slot : commits[m][s].state = "sent" =>
             CommitSafe([commits[m][s] EXCEPT !.state = "refused"], handled)
        <3> SUFFICES ASSUME NEW s \in Slot, commits[m][s].state = "sent"
                     PROVE  CommitSafe([commits[m][s] EXCEPT !.state = "refused"], handled)
            OBVIOUS
        <3>1. [commits[m][s] EXCEPT !.state = "refused"].offset = commits[m][s].offset
            BY <2>1 DEF Commit
        <3>2. CommitSafe(commits[m][s], handled)
            BY <1>2 DEF HandledInv
        <3> QED BY <3>1, <3>2 DEF CommitSafe
    <2>3. commits' = [commits EXCEPT ![m] =
                        [n \in Slot |-> IF commits[m][n].state = "sent"
                                          THEN [commits[m][n] EXCEPT !.state = "refused"]
                                          ELSE commits[m][n]]]
        BY DEF Recycle, Set
    <2>4. \A k \in Mgmt, s \in Slot :
             \/ commits'[k][s] = commits[k][s]
             \/ /\ k = m /\ commits[m][s].state = "sent"
                /\ commits'[k][s] = [commits[m][s] EXCEPT !.state = "refused"]
        BY <1>1, <2>3 DEF CommitsType
    <2> QED BY <1>2, <1>3, <2>2, <2>4 DEF HandledInv
<1> QED BY <1>2, <1>3, <1>4, <1>5 DEF HandledInv, CommittedIsHandled

LEMMA CrashSafe ==
    ASSUME IInv, NEW m \in Mgmt, Crash(m)
    PROVE  HandledInv'
<1>1. CommitsType /\ RegistryType
    BY TypeParts DEF IInv
<1>2. HandledInv
    BY DEF IInv
<1>3. UNCHANGED <<committed, handled>>
    BY DEF Crash, history
<1>4. /\ offsets' = [offsets EXCEPT ![m] = NoOffsets]
      /\ commits' = [commits EXCEPT ![m] = NoCommits]
    BY DEF Crash, Set
<1>5. PositionSafe'
    BY <1>1, <1>2, <1>3, <1>4, LeaveSafe DEF Crash, HandledInv, RegistryType
<1>6. RegSafe(NoOffsets, handled)
    BY DEF RegSafe, NoOffsets
<1>7. \A s \in Slot : CommitSafe(NoCommits[s], handled)
    BY DEF CommitSafe, NoCommits, Idle
<1>8. \A k \in Mgmt : RegSafe(offsets'[k], handled')
    BY <1>1, <1>2, <1>3, <1>4, <1>6 DEF HandledInv, RegistryType
<1>9. \A k \in Mgmt, s \in Slot : CommitSafe(commits'[k][s], handled')
    BY <1>1, <1>2, <1>3, <1>4, <1>7 DEF HandledInv, CommitsType
<1> QED BY <1>2, <1>3, <1>5, <1>8, <1>9 DEF HandledInv, CommittedIsHandled

LEMMA SafeInit == Init => HandledInv
<1> SUFFICES ASSUME Init PROVE HandledInv
    OBVIOUS
<1>1. CommittedIsHandled
    BY LengthAssumption DEF Init, CommittedIsHandled, Offset
<1>2. PositionSafe
    BY NoMgmtAssumption DEF Init, PositionSafe
<1>3. \A m \in Mgmt : RegSafe(offsets[m], handled)
    BY DEF Init, RegSafe, NoOffsets
<1>4. \A m \in Mgmt, n \in Slot : CommitSafe(commits[m][n], handled)
    BY DEF Init, CommitSafe, NoCommits, Idle
<1> QED BY <1>1, <1>2, <1>3, <1>4 DEF HandledInv

LEMMA SafeStep ==
    ASSUME IInv, [Next]_vars
    PROVE  HandledInv'
<1>1. TypeOK /\ RegistryType /\ CommitsType /\ RestType
    BY TypeParts DEF IInv
<1>2. HandledInv
    BY DEF IInv
<1>3. /\ CommittedIsHandled
      /\ PositionSafe
      /\ \A m \in Mgmt : RegSafe(offsets[m], handled)
      /\ \A m \in Mgmt, n \in Slot : CommitSafe(commits[m][n], handled)
    BY <1>2 DEF HandledInv
<1>4. ASSUME NEW m \in Mgmt, Receive(m) \/ Recycle(m) \/ Crash(m)
      PROVE  HandledInv'
    BY <1>4, ReceiveSafe, RecycleSafe, CrashSafe
<1>5. ASSUME NEW m \in Mgmt, NEW n \in Slot, CommitReturns(m, n)
      PROVE  HandledInv'
    BY <1>5, CommitReturnsSafe
<1>6. ASSUME NEW m \in Mgmt, NEW o \in Offset, Finish(m, o)
      PROVE  HandledInv'
    BY <1>6, EndHandlerSafe DEF Finish
<1>7. ASSUME NEW m \in Mgmt, NEW o \in Offset, FinishWithError(m, o)
      PROVE  HandledInv'
    <2>1. /\ EndHandler(m, o, "pending")
          /\ UNCHANGED broker /\ handled \subseteq handled'
        BY <1>7 DEF FinishWithError, EntryAfterError
    <2> QED BY <2>1, EndHandlerSafe
<1>8. ASSUME NEW m \in Mgmt, NEW o \in Offset, Throw(m, o)
      PROVE  HandledInv'
    BY <1>3, <1>8 DEF Throw, broker, commitment, HandledInv, CommittedIsHandled, PositionSafe
<1>9. ASSUME NEW m \in Mgmt, CommitTimer(m)
      PROVE  HandledInv'
    <2>1. /\ UNCHANGED <<owner, committed, position, offsets, handled>>
          /\ CommitOffsets(m, offsets[m])
        BY <1>9 DEF CommitTimer, broker, registry, history
    <2>2. \A k \in Mgmt, n \in Slot : CommitSafe(commits'[k][n], handled)
        BY <1>1, <1>3, <2>1, CommitOffsetsSafe
    <2> QED BY <1>3, <2>1, <2>2 DEF HandledInv, CommittedIsHandled, PositionSafe
<1>10. ASSUME NEW m \in Mgmt, NEW n \in Slot, ApplyCommit(m, n)
       PROVE  HandledInv'
    <2>1. /\ UNCHANGED <<owner, position, offsets, handled>>
          /\ commits[m][n].state = "sent" /\ committed' = commits[m][n].offset
          /\ commits' = [commits EXCEPT ![m][n] = [commits[m][n] EXCEPT !.state = "applied"]]
        BY <1>10 DEF ApplyCommit, SetCommit, registry, history
    <2>2. \A k \in Mgmt, s \in Slot : CommitSafe(commits'[k][s], handled)
        BY <1>1, <1>3, <2>1, StateChanges
    <2>3. CommittedIsHandled'
        BY <1>3, <2>1 DEF CommittedIsHandled, CommitSafe
    <2>4. PositionSafe'
        BY <1>3, <2>1 DEF PositionSafe
    <2> QED BY <1>3, <2>1, <2>2, <2>3, <2>4 DEF HandledInv
<1>11. ASSUME NEW m \in Mgmt, NEW n \in Slot, RefuseCommit(m, n)
       PROVE  HandledInv'
    <2>1. /\ UNCHANGED <<owner, committed, position, offsets, handled>>
          /\ commits[m][n].state = "sent"
          /\ commits' = [commits EXCEPT ![m][n] = [commits[m][n] EXCEPT !.state = "refused"]]
        BY <1>11 DEF RefuseCommit, SetCommit, broker, registry, history
    <2>2. \A k \in Mgmt, s \in Slot : CommitSafe(commits'[k][s], handled)
        BY <1>1, <1>3, <2>1, StateChanges
    <2> QED BY <1>3, <2>1, <2>2 DEF HandledInv, CommittedIsHandled, PositionSafe
<1>12. ASSUME NEW m \in Mgmt, Assign(m)
       PROVE  HandledInv'
    <2>1. /\ UNCHANGED <<committed, offsets, commits, handled>>
          /\ owner' = m /\ position' = committed
        BY <1>12 DEF Assign, registry, commitment, history
    <2>2. PositionSafe'
        BY <1>3, <2>1 DEF PositionSafe, CommittedIsHandled
    <2> QED BY <1>3, <2>1, <2>2 DEF HandledInv, CommittedIsHandled
<1>13. ASSUME NEW m \in Mgmt, ConsumerForgets(m)
       PROVE  HandledInv'
    <2>1. UNCHANGED <<committed, offsets, commits, handled>> /\ Leave(m)
        BY <1>13 DEF ConsumerForgets, registry, commitment, history
    <2>2. PositionSafe'
        BY <1>3, <2>1, LeaveSafe
    <2> QED BY <1>3, <2>1, <2>2 DEF HandledInv, CommittedIsHandled
<1>14. ASSUME NEW m \in Mgmt, Restart(m)
       PROVE  HandledInv'
    <2>1. UNCHANGED <<owner, committed, position, offsets, commits, handled>>
        BY <1>14 DEF Restart, broker, registry, commitment, history
    <2> QED BY <1>3, <2>1 DEF HandledInv, CommittedIsHandled, PositionSafe
<1>15. ASSUME Rebalance
       PROVE  HandledInv'
    <2>1. UNCHANGED <<committed, offsets, commits, handled>> /\ owner' = NoMgmt
        BY <1>15 DEF Rebalance, registry, commitment, history
    <2>2. PositionSafe'
        BY <2>1, NoMgmtAssumption DEF PositionSafe
    <2> QED BY <1>3, <2>1, <2>2 DEF HandledInv, CommittedIsHandled
<1>16. CASE UNCHANGED vars
    <2>1. UNCHANGED <<owner, committed, position, offsets, commits, handled>>
        BY <1>16 DEF vars, broker, registry, commitment, history
    <2> QED BY <1>3, <2>1 DEF HandledInv, CommittedIsHandled, PositionSafe
<1> QED
    BY <1>4, <1>5, <1>6, <1>7, <1>8, <1>9, <1>10, <1>11, <1>12, <1>13, <1>14, <1>15, <1>16
       DEF Next, Work

(* No message is lost: a committed offset was handled, and so were all     *)
(* before it, however the handlers end, the commits overtake each other,   *)
(* the partition moves and the managements crash.                          *)
THEOREM NoMessageLost == Spec => []CommittedIsHandled
<1>1. Init => IInv
    BY TypeInit, SafeInit DEF IInv
<1>2. IInv /\ [Next]_vars => IInv'
    BY TypeStep, SafeStep DEF IInv
<1>3. IInv => CommittedIsHandled
    BY DEF IInv, HandledInv
<1> QED BY <1>1, <1>2, <1>3, PTL DEF Spec

-----------------------------------------------------------------------------
(* The handlers at work: one that starts is one more, one that ends is one *)
(* less.                                                                   *)
At(h) == UNION {{o} \X (1..h[o]) : o \in Offset}

LEMMA AtMember ==
    ASSUME NEW h, NEW w
    PROVE  w \in At(h) <=> \E o \in Offset : \E n \in 1..h[o] : w = <<o, n>>
<1>1. ASSUME w \in At(h)
      PROVE  \E o \in Offset : \E n \in 1..h[o] : w = <<o, n>>
    <2>1. PICK o \in Offset : w \in {o} \X (1..h[o])
        BY <1>1 DEF At
    <2>2. PICK a \in {o}, n \in 1..h[o] : w = <<a, n>>
        BY <2>1
    <2> QED BY <2>2
<1>2. ASSUME NEW o \in Offset, NEW n \in 1..h[o], w = <<o, n>>
      PROVE  w \in At(h)
    <2>1. w \in {o} \X (1..h[o])
        BY <1>2
    <2> QED BY <2>1 DEF At
<1> QED BY <1>1, <1>2

LEMMA AtGrows ==
    ASSUME NEW h \in [Offset -> Nat], NEW o \in Offset, IsFiniteSet(At(h)),
           NEW g, g[o] = h[o] + 1, \A p \in Offset : p # o => g[p] = h[p]
    PROVE  IsFiniteSet(At(g)) /\ Cardinality(At(g)) = Cardinality(At(h)) + 1
<1> DEFINE x == <<o, h[o] + 1>>
<1>1. h[o] \in Nat
    OBVIOUS
<1>2. x \notin At(h)
    <2> SUFFICES ASSUME x \in At(h) PROVE FALSE
        OBVIOUS
    <2>1. PICK p \in Offset : \E n \in 1..h[p] : x = <<p, n>>
        BY AtMember
    <2>2. PICK n \in 1..h[p] : x = <<p, n>>
        BY <2>1
    <2>3. p = o /\ n = h[o] + 1
        BY <2>2
    <2> QED BY <1>1, <2>3
<1>3. At(g) = At(h) \cup {x}
    <2>1. ASSUME NEW w \in At(g) PROVE w \in At(h) \cup {x}
        <3>1. PICK p \in Offset : \E n \in 1..g[p] : w = <<p, n>>
            BY AtMember
        <3>2. PICK n \in 1..g[p] : w = <<p, n>>
            BY <3>1
        <3>3. CASE p # o
            <4>1. n \in 1..h[p]
                BY <3>3
            <4> QED BY <3>2, <4>1, AtMember
        <3>4. CASE p = o
            <4>1. n \in 1..h[o] \/ n = h[o] + 1
                BY <1>1, <3>4
            <4> QED BY <3>2, <3>4, <4>1, AtMember
        <3> QED BY <3>3, <3>4
    <2>2. ASSUME NEW w \in At(h) PROVE w \in At(g)
        <3>1. PICK p \in Offset : \E n \in 1..h[p] : w = <<p, n>>
            BY AtMember
        <3>2. PICK n \in 1..h[p] : w = <<p, n>>
            BY <3>1
        <3>3. n \in 1..g[p]
            BY <1>1
        <3> QED BY <3>2, <3>3, AtMember
    <2>3. x \in At(g)
        <3>1. h[o] + 1 \in 1..g[o]
            BY <1>1
        <3> QED BY <3>1, AtMember
    <2> QED BY <2>1, <2>2, <2>3
<1> HIDE DEF x
<1>4. /\ IsFiniteSet(At(h) \cup {x})
      /\ Cardinality(At(h) \cup {x}) = Cardinality(At(h)) + 1
    BY <1>2, FS_AddElement
<1> QED BY <1>3, <1>4

LEMMA AtShrinks ==
    ASSUME NEW h \in [Offset -> Nat], NEW o \in Offset, h[o] > 0, IsFiniteSet(At(h)),
           NEW g, g[o] = h[o] - 1, \A p \in Offset : p # o => g[p] = h[p]
    PROVE  IsFiniteSet(At(g)) /\ Cardinality(At(g)) = Cardinality(At(h)) - 1
<1> DEFINE x == <<o, h[o]>>
<1>1. h[o] \in Nat \ {0}
    OBVIOUS
<1>2. x \in At(h)
    <2>1. h[o] \in 1..h[o]
        BY <1>1
    <2> QED BY <2>1, AtMember
<1>3. At(g) = At(h) \ {x}
    <2>1. ASSUME NEW w \in At(g) PROVE w \in At(h) \ {x}
        <3>1. PICK p \in Offset : \E n \in 1..g[p] : w = <<p, n>>
            BY AtMember
        <3>2. PICK n \in 1..g[p] : w = <<p, n>>
            BY <3>1
        <3>3. n \in 1..h[p] /\ (p = o => n # h[o])
            BY <1>1
        <3>4. w \in At(h)
            BY <3>2, <3>3, AtMember
        <3>5. w # x
            BY <3>2, <3>3
        <3> QED BY <3>4, <3>5
    <2>2. ASSUME NEW w \in At(h), w # x PROVE w \in At(g)
        <3>1. PICK p \in Offset : \E n \in 1..h[p] : w = <<p, n>>
            BY AtMember
        <3>2. PICK n \in 1..h[p] : w = <<p, n>>
            BY <3>1
        <3>3. CASE p # o
            <4>1. n \in 1..g[p]
                BY <3>3
            <4> QED BY <3>2, <4>1, AtMember
        <3>4. CASE p = o
            <4>1. n # h[o]
                BY <2>2, <3>2, <3>4
            <4>2. n \in 1..g[p]
                BY <1>1, <3>4, <4>1
            <4> QED BY <3>2, <4>2, AtMember
        <3> QED BY <3>3, <3>4
    <2> QED BY <2>1, <2>2
<1> HIDE DEF x
<1>4. /\ IsFiniteSet(At(h) \ {x})
      /\ Cardinality(At(h) \ {x}) = Cardinality(At(h)) - 1
    BY <1>2, FS_RemoveElement
<1> QED BY <1>3, <1>4

LEMMA AtNone == At(NoHandlers) = {}
<1>1. ASSUME NEW w \in At(NoHandlers) PROVE FALSE
    <2>1. PICK o \in Offset : \E n \in 1..NoHandlers[o] : w = <<o, n>>
        BY AtMember
    <2> QED BY <2>1 DEF NoHandlers
<1> QED BY <1>1

LEMMA LoadIsNat ==
    ASSUME NEW m, IsFiniteSet(At(handlers[m]))
    PROVE  Load(m) = Cardinality(At(handlers[m])) /\ Load(m) \in Nat
<1>1. AtWork(m) = At(handlers[m])
    BY DEF AtWork, At
<1> QED BY <1>1, FS_CardinalityType DEF Load

(* What holds of one management with the handlers H, the count c, the flag *)
(* p and the hold h of its consumer, after r recycles and f times that     *)
(* kafkajs forgot the pause: what works is counted, and the consumer is    *)
(* held when the handlers are as many as they may be.                      *)
Capped(H, c, p, h, r, f) ==
    /\ IsFiniteSet(At(H))
    /\ Cardinality(At(H)) <= c
    /\ \/ f > 0
       \/ /\ h <=> p
          /\ Cardinality(At(H)) <= MaxInProcess + 1 + r
          /\ ~h => Cardinality(At(H)) <= MaxInProcess + r

CappedAt(m) == Capped(handlers[m], messagesInProcess[m], isConsumerPaused[m], held[m],
                      Times("recycle"), Times("forget"))
LoadInv == \A m \in Mgmt : CappedAt(m)

(* One more handler, for a message that a consumer delivers.               *)
LEMMA CappedReceive ==
    ASSUME NEW H \in [Offset -> Nat], NEW o \in Offset, NEW c \in Int, NEW p \in BOOLEAN,
           NEW h \in BOOLEAN, NEW r \in Nat, NEW f \in Nat, Capped(H, c, p, h, r, f), ~h,
           NEW pp \in BOOLEAN, NEW hh \in BOOLEAN,
           \/ TooMany(c + 1) /\ pp /\ hh
           \/ (~TooMany(c + 1) \/ p) /\ pp = p /\ hh = h
    PROVE  Capped([H EXCEPT ![o] = @ + 1], c + 1, pp, hh, r, f)
<1> DEFINE g == [H EXCEPT ![o] = @ + 1]
<1>1. g[o] = H[o] + 1 /\ \A q \in Offset : q # o => g[q] = H[q]
    OBVIOUS
<1> HIDE DEF g
<1>2. IsFiniteSet(At(H)) /\ Cardinality(At(H)) <= c
    BY DEF Capped
<1>3. IsFiniteSet(At(g)) /\ Cardinality(At(g)) = Cardinality(At(H)) + 1
    BY <1>1, <1>2, AtGrows
<1>4. Cardinality(At(H)) \in Nat
    BY <1>2, FS_CardinalityType
<1>5. Capped(g, c + 1, pp, hh, r, f)
    BY <1>2, <1>3, <1>4, BoundsAssumption DEF Capped, TooMany
<1> QED BY <1>5 DEF g

(* One handler less, counted back (d = 1) or not (d = 0).                  *)
LEMMA CappedEnd ==
    ASSUME NEW H \in [Offset -> Nat], NEW o \in Offset, NEW c \in Int, NEW p \in BOOLEAN,
           NEW h \in BOOLEAN, NEW r \in Nat, NEW f \in Nat, Capped(H, c, p, h, r, f),
           H[o] > 0, NEW d \in {0, 1}
    PROVE  Capped([H EXCEPT ![o] = @ - 1], c - d, p, h, r, f)
<1> DEFINE g == [H EXCEPT ![o] = @ - 1]
<1>1. g[o] = H[o] - 1 /\ \A q \in Offset : q # o => g[q] = H[q]
    OBVIOUS
<1> HIDE DEF g
<1>2. IsFiniteSet(At(H)) /\ Cardinality(At(H)) <= c
    BY DEF Capped
<1>3. IsFiniteSet(At(g)) /\ Cardinality(At(g)) = Cardinality(At(H)) - 1
    BY <1>1, <1>2, AtShrinks
<1>4. Cardinality(At(H)) \in Nat
    BY <1>2, FS_CardinalityType
<1>5. Capped(g, c - d, p, h, r, f)
    BY <1>2, <1>3, <1>4, BoundsAssumption DEF Capped
<1> QED BY <1>5 DEF g

(* The consumer is paused, resumed, replaced, or forgets its pause.        *)
LEMMA CappedThrottle ==
    ASSUME NEW H, NEW c \in Int, NEW p \in BOOLEAN, NEW h \in BOOLEAN,
           NEW r \in Nat, NEW f \in Nat, Capped(H, c, p, h, r, f)
    PROVE  /\ Capped(H, c, TRUE, TRUE, r, f)
           /\ Few(c) => Capped(H, c, FALSE, FALSE, r, f)
           /\ Capped(H, c, FALSE, FALSE, r + 1, f)
           /\ Capped(H, c, p, FALSE, r, f + 1)
<1>1. Cardinality(At(H)) \in Nat
    BY FS_CardinalityType DEF Capped
<1>2. Capped(H, c, TRUE, TRUE, r, f)
    BY <1>1, BoundsAssumption DEF Capped
<1>3. ASSUME Few(c) PROVE Capped(H, c, FALSE, FALSE, r, f)
    <2>1. c < MaxInProcess
        BY <1>1, <1>3, BoundsAssumption DEF Few, Capped
    <2> QED BY <1>1, <2>1, BoundsAssumption DEF Capped
<1>4. Capped(H, c, FALSE, FALSE, r + 1, f)
    BY <1>1, BoundsAssumption DEF Capped
<1>5. Capped(H, c, p, FALSE, r, f + 1)
    BY <1>1 DEF Capped
<1> QED BY <1>2, <1>3, <1>4, <1>5

LEMMA CappedNone ==
    ASSUME NEW r \in Nat, NEW f \in Nat
    PROVE  Capped(NoHandlers, 0, FALSE, FALSE, r, f)
BY AtNone, FS_EmptySet, BoundsAssumption DEF Capped

LEMMA FaultTimes ==
    ASSUME faults \in [Faults -> Nat], NEW kind, Fault(kind), NEW k
    PROVE  Times(k)' = IF k = kind THEN Times(k) + 1 ELSE Times(k)
BY DEF Fault, Times

LEMMA TimesType ==
    ASSUME faults \in [Faults -> Nat], NEW k
    PROVE  Times(k) \in Nat
BY DEF Times

(* Neither fault is undone.                                                *)
LEMMA TimesGrow ==
    ASSUME faults \in [Faults -> Nat], UNCHANGED faults \/ \E kind : Fault(kind), NEW k
    PROVE  Times(k)' \in Nat /\ Times(k) \in Nat /\ Times(k) <= Times(k)'
<1>1. CASE UNCHANGED faults
    BY <1>1, TimesType DEF Times
<1>2. ASSUME NEW kind, Fault(kind)
      PROVE  Times(k)' \in Nat /\ Times(k) \in Nat /\ Times(k) <= Times(k)'
    BY <1>2, FaultTimes, TimesType
<1> QED BY <1>1, <1>2

LEMMA CappedLater ==
    ASSUME NEW H, NEW c, NEW p, NEW h, NEW r \in Nat, NEW f \in Nat, Capped(H, c, p, h, r, f),
           NEW rr \in Nat, NEW ff \in Nat, r <= rr, f <= ff
    PROVE  Capped(H, c, p, h, rr, ff)
<1>1. Cardinality(At(H)) \in Nat
    BY FS_CardinalityType DEF Capped
<1> QED BY <1>1, BoundsAssumption DEF Capped

(* It is enough to look at the management that moves.                      *)
LEMMA CappedStep ==
    ASSUME TypeOK, LoadInv, NEW m \in Mgmt,
           UNCHANGED faults \/ \E kind : Fault(kind),
           \A k \in Mgmt \ {m} :
               /\ handlers'[k] = handlers[k]
               /\ messagesInProcess'[k] = messagesInProcess[k]
               /\ isConsumerPaused'[k] = isConsumerPaused[k]
               /\ held'[k] = held[k],
           NEW r \in Nat, NEW f \in Nat,
           r <= Times("recycle")', f <= Times("forget")',
           Capped(handlers'[m], messagesInProcess'[m], isConsumerPaused'[m], held'[m], r, f)
    PROVE  LoadInv'
<1>1. faults \in [Faults -> Nat]
    BY DEF TypeOK
<1>2. \A k : Times(k)' \in Nat /\ Times(k) \in Nat /\ Times(k) <= Times(k)'
    BY <1>1, TimesGrow
<1> SUFFICES ASSUME NEW k \in Mgmt PROVE CappedAt(k)'
    BY DEF LoadInv
<1>3. CASE k = m
    <2>1. Capped(handlers'[m], messagesInProcess'[m], isConsumerPaused'[m], held'[m],
                 Times("recycle")', Times("forget")')
        BY <1>2, CappedLater
    <2> QED BY <1>3, <2>1 DEF CappedAt
<1>4. CASE k # m
    <2>1. Capped(handlers[k], messagesInProcess[k], isConsumerPaused[k], held[k],
                 Times("recycle"), Times("forget"))
        BY DEF LoadInv, CappedAt
    <2>2. Capped(handlers[k], messagesInProcess[k], isConsumerPaused[k], held[k],
                 Times("recycle")', Times("forget")')
        BY <1>2, <2>1, CappedLater
    <2>3. Capped(handlers'[k], messagesInProcess'[k], isConsumerPaused'[k], held'[k],
                 Times("recycle")', Times("forget")')
        BY <1>4, <2>2
    <2> QED BY <2>3 DEF CappedAt
<1> QED BY <1>3, <1>4

(* A step that moves nothing of what is counted, whatever fault it is.     *)
LEMMA CappedSame ==
    ASSUME TypeOK, LoadInv,
           UNCHANGED <<handlers, messagesInProcess, isConsumerPaused, held>>,
           UNCHANGED faults \/ \E kind : Fault(kind)
    PROVE  LoadInv'
<1>1. \A k : Times(k)' \in Nat /\ Times(k) \in Nat /\ Times(k) <= Times(k)'
    BY TimesGrow DEF TypeOK
<1> SUFFICES ASSUME NEW m \in Mgmt PROVE CappedAt(m)'
    BY DEF LoadInv
<1>2. Capped(handlers[m], messagesInProcess[m], isConsumerPaused[m], held[m],
             Times("recycle"), Times("forget"))
    BY DEF LoadInv, CappedAt
<1>3. Capped(handlers[m], messagesInProcess[m], isConsumerPaused[m], held[m],
             Times("recycle")', Times("forget")')
    BY <1>1, <1>2, CappedLater
<1>4. Capped(handlers'[m], messagesInProcess'[m], isConsumerPaused'[m], held'[m],
             Times("recycle")', Times("forget")')
    BY <1>3
<1> QED BY <1>4 DEF CappedAt

(* What pauseConsumerIfNeeded and resumeConsumerIfNeeded keep.             *)
LEMMA ResumeCapped ==
    ASSUME ThrottleType, NEW m \in Mgmt, NEW H, NEW c \in Int, NEW r \in Nat, NEW f \in Nat,
           Capped(H, c, isConsumerPaused[m], held[m], r, f),
           ResumeConsumerIfNeeded(m, c)
    PROVE  Capped(H, c, isConsumerPaused'[m], held'[m], r, f)
<1>1. isConsumerPaused[m] \in BOOLEAN /\ held[m] \in BOOLEAN
    BY DEF ThrottleType
<1>2. CASE isConsumerPaused[m] /\ Few(c)
    <2>1. isConsumerPaused'[m] = FALSE /\ held'[m] = FALSE
        BY <1>2 DEF ResumeConsumerIfNeeded, Set, ThrottleType
    <2>2. Capped(H, c, FALSE, FALSE, r, f)
        BY <1>1, <1>2, CappedThrottle
    <2> QED BY <2>1, <2>2
<1>3. CASE ~(isConsumerPaused[m] /\ Few(c))
    <2>1. isConsumerPaused' = isConsumerPaused /\ held' = held
        BY <1>3 DEF ResumeConsumerIfNeeded, throttle
    <2> QED BY <2>1
<1> QED BY <1>2, <1>3

LEMMA PauseCapped ==
    ASSUME ThrottleType, NEW m \in Mgmt, NEW H, NEW c \in Int, NEW r \in Nat, NEW f \in Nat,
           Capped(H, c, isConsumerPaused[m], held[m], r, f),
           NEW count, PauseConsumerIfNeeded(m, count)
    PROVE  Capped(H, c, isConsumerPaused'[m], held'[m], r, f)
<1>1. isConsumerPaused[m] \in BOOLEAN /\ held[m] \in BOOLEAN
    BY DEF ThrottleType
<1>2. CASE Set(isConsumerPaused, m, TRUE) /\ Set(held, m, TRUE)
    <2>1. isConsumerPaused'[m] = TRUE /\ held'[m] = TRUE
        BY <1>2 DEF Set, ThrottleType
    <2>2. Capped(H, c, TRUE, TRUE, r, f)
        BY <1>1, CappedThrottle
    <2> QED BY <2>1, <2>2
<1>3. CASE UNCHANGED throttle
    BY <1>3 DEF throttle
<1> QED BY <1>2, <1>3 DEF PauseConsumerIfNeeded

(* Neither touches another management.                                     *)
LEMMA ThrottleElsewhere ==
    ASSUME ThrottleType, NEW m \in Mgmt, NEW c,
           PauseConsumerIfNeeded(m, c) \/ ResumeConsumerIfNeeded(m, c)
    PROVE  \A k \in Mgmt \ {m} : /\ isConsumerPaused'[k] = isConsumerPaused[k]
                                 /\ held'[k] = held[k]
BY DEF ThrottleType, PauseConsumerIfNeeded, ResumeConsumerIfNeeded, Set, throttle

LEMMA ReceiveCapped ==
    ASSUME TypeOK, LoadInv, NEW m \in Mgmt, Receive(m)
    PROVE  LoadInv'
<1> DEFINE o == position
           r == Times("recycle")
           f == Times("forget")
           c == messagesInProcess[m]
<1>1. RegistryType /\ ThrottleType /\ RestType
    BY TypeParts
<1>2. o \in Offset /\ ~held[m]
    BY <1>1, LengthAssumption DEF Receive, Delivers, RestType, Offset
<1>3. UNCHANGED faults
    BY DEF Receive
<1>4. r \in Nat /\ f \in Nat /\ c \in Int /\ r <= Times("recycle")' /\ f <= Times("forget")'
    BY <1>1, <1>3, TimesGrow DEF RestType, RegistryType
<1>5. Capped(handlers[m], c, isConsumerPaused[m], held[m], r, f)
    BY DEF LoadInv, CappedAt
<1>6. isConsumerPaused[m] \in BOOLEAN /\ held[m] \in BOOLEAN /\ handlers[m] \in [Offset -> Nat]
    BY <1>1 DEF ThrottleType, RegistryType
<1> HIDE DEF o, r, f, c
<1>7. CASE UNCHANGED <<registry, throttle>>
    BY <1>1, <1>3, <1>7, CappedSame DEF registry, throttle, RestType
<1>8. CASE /\ handlers' = [handlers EXCEPT ![m][o] = @ + 1]
           /\ Set(messagesInProcess, m, c + 1)
           /\ PauseConsumerIfNeeded(m, c + 1)
    <2>1. /\ handlers'[m] = [handlers[m] EXCEPT ![o] = @ + 1]
          /\ messagesInProcess'[m] = c + 1
          /\ \A k \in Mgmt \ {m} : /\ handlers'[k] = handlers[k]
                                   /\ messagesInProcess'[k] = messagesInProcess[k]
        BY <1>1, <1>2, <1>8 DEF Set, RegistryType
    <2>2. isConsumerPaused'[m] \in BOOLEAN /\ held'[m] \in BOOLEAN
        BY <1>1, <1>8, PauseType DEF ThrottleType
    <2>3. \/ TooMany(c + 1) /\ isConsumerPaused'[m] /\ held'[m]
          \/ /\ ~TooMany(c + 1) \/ isConsumerPaused[m]
             /\ isConsumerPaused'[m] = isConsumerPaused[m] /\ held'[m] = held[m]
        BY <1>1, <1>8 DEF PauseConsumerIfNeeded, Set, throttle, ThrottleType
    <2>4. Capped([handlers[m] EXCEPT ![o] = @ + 1], c + 1,
                 isConsumerPaused'[m], held'[m], r, f)
        BY <1>2, <1>4, <1>5, <1>6, <2>2, <2>3, CappedReceive
    <2>5. Capped(handlers'[m], messagesInProcess'[m], isConsumerPaused'[m], held'[m], r, f)
        BY <2>1, <2>4
    <2>6. \A k \in Mgmt \ {m} : /\ isConsumerPaused'[k] = isConsumerPaused[k]
                                /\ held'[k] = held[k]
        BY <1>1, <1>8, ThrottleElsewhere
    <2> QED BY <1>3, <2>1, <2>5, <2>6, <1>4, CappedStep
<1>9. CASE /\ PauseConsumerIfNeeded(m, c + 1) \/ ResumeConsumerIfNeeded(m, c)
           /\ UNCHANGED <<handlers, messagesInProcess>>
    <2>1. Capped(handlers[m], c, isConsumerPaused'[m], held'[m], r, f)
        BY <1>1, <1>4, <1>5, <1>9, PauseCapped, ResumeCapped
    <2>2. \A k \in Mgmt \ {m} : /\ isConsumerPaused'[k] = isConsumerPaused[k]
                                /\ held'[k] = held[k]
        BY <1>1, <1>9, ThrottleElsewhere
    <2>3. Capped(handlers'[m], messagesInProcess'[m], isConsumerPaused'[m], held'[m], r, f)
        BY <1>9, <2>1 DEF c
    <2> QED BY <1>3, <1>9, <2>2, <2>3, <1>4, CappedStep
<1> QED BY <1>7, <1>8, <1>9 DEF Receive, o, c

LEMMA EndHandlerCapped ==
    ASSUME TypeOK, LoadInv, NEW m \in Mgmt, NEW o \in Offset, NEW entry \in Entry,
           EndHandler(m, o, entry), UNCHANGED faults \/ \E kind : Fault(kind)
    PROVE  LoadInv'
<1> DEFINE r == Times("recycle")
           f == Times("forget")
           c == messagesInProcess[m]
<1>1. RegistryType /\ ThrottleType /\ RestType
    BY TypeParts
<1>2. r \in Nat /\ f \in Nat /\ c \in Int /\ r <= Times("recycle")' /\ f <= Times("forget")'
    BY <1>1, TimesGrow DEF RestType, RegistryType
<1>3. Capped(handlers[m], c, isConsumerPaused[m], held[m], r, f)
    BY DEF LoadInv, CappedAt
<1>4. isConsumerPaused[m] \in BOOLEAN /\ held[m] \in BOOLEAN /\ handlers[m] \in [Offset -> Nat]
    BY <1>1 DEF ThrottleType, RegistryType
<1> HIDE DEF r, f, c
<1>5. /\ handlers[m][o] > 0
      /\ handlers'[m] = [handlers[m] EXCEPT ![o] = @ - 1]
      /\ \A k \in Mgmt \ {m} : handlers'[k] = handlers[k]
    BY <1>1 DEF EndHandler, RegistryType
<1>6. /\ Capped([handlers[m] EXCEPT ![o] = @ - 1], c - 0, isConsumerPaused[m], held[m], r, f)
      /\ Capped([handlers[m] EXCEPT ![o] = @ - 1], c - 1, isConsumerPaused[m], held[m], r, f)
    BY <1>2, <1>3, <1>4, <1>5, CappedEnd
<1>7. CASE UNCHANGED <<messagesInProcess, throttle>>
    <2>1. /\ messagesInProcess' = messagesInProcess /\ c - 0 = messagesInProcess[m]
          /\ isConsumerPaused' = isConsumerPaused /\ held' = held
        BY <1>2, <1>7 DEF throttle, c
    <2>2. Capped(handlers'[m], messagesInProcess'[m], isConsumerPaused'[m], held'[m], r, f)
        BY <1>5, <1>6, <2>1
    <2> QED BY <1>5, <2>1, <2>2, <1>2, CappedStep
<1>8. CASE /\ Set(messagesInProcess, m, c - 1)
           /\ ResumeConsumerIfNeeded(m, c - 1)
    <2>1. /\ messagesInProcess'[m] = c - 1
          /\ \A k \in Mgmt \ {m} : messagesInProcess'[k] = messagesInProcess[k]
        BY <1>1, <1>8 DEF Set, RegistryType
    <2>2. c - 1 \in Int
        BY <1>2
    <2>3. Capped([handlers[m] EXCEPT ![o] = @ - 1], c - 1,
                 isConsumerPaused'[m], held'[m], r, f)
        BY <1>1, <1>2, <1>6, <1>8, <2>2, ResumeCapped
    <2>4. Capped(handlers'[m], messagesInProcess'[m], isConsumerPaused'[m], held'[m], r, f)
        BY <1>5, <2>1, <2>3
    <2>5. \A k \in Mgmt \ {m} : /\ isConsumerPaused'[k] = isConsumerPaused[k]
                                /\ held'[k] = held[k]
        BY <1>1, <1>8, ThrottleElsewhere
    <2> QED BY <1>5, <2>1, <2>4, <2>5, <1>2, CappedStep
<1> QED BY <1>7, <1>8 DEF EndHandler, c


LEMMA ThrowCapped ==
    ASSUME TypeOK, LoadInv, NEW m \in Mgmt, NEW o \in Offset, Throw(m, o)
    PROVE  LoadInv'
<1> DEFINE r == Times("recycle")
           f == Times("forget")
           c == messagesInProcess[m]
<1>1. RegistryType /\ ThrottleType /\ RestType
    BY TypeParts
<1>2. UNCHANGED faults \/ \E kind : Fault(kind)
    BY DEF Throw
<1>3. r \in Nat /\ f \in Nat /\ c \in Int /\ r <= Times("recycle")' /\ f <= Times("forget")'
    BY <1>1, <1>2, TimesGrow DEF RestType, RegistryType
<1>4. Capped(handlers[m], c, isConsumerPaused[m], held[m], r, f)
    BY DEF LoadInv, CappedAt
<1>5. isConsumerPaused[m] \in BOOLEAN /\ held[m] \in BOOLEAN /\ handlers[m] \in [Offset -> Nat]
    BY <1>1 DEF ThrottleType, RegistryType
<1> HIDE DEF r, f
<1>6. /\ handlers[m][o] > 0
      /\ handlers'[m] = [handlers[m] EXCEPT ![o] = @ - 1]
      /\ \A k \in Mgmt \ {m} : handlers'[k] = handlers[k]
      /\ messagesInProcess' = messagesInProcess
      /\ isConsumerPaused' = isConsumerPaused /\ held' = held
    BY <1>1 DEF Throw, RegistryType, throttle
<1>7. Capped([handlers[m] EXCEPT ![o] = @ - 1], c - 0, isConsumerPaused[m], held[m], r, f)
    BY <1>3, <1>4, <1>5, <1>6, CappedEnd
<1>8. c - 0 = messagesInProcess[m]
    BY <1>3
<1>9. Capped(handlers'[m], messagesInProcess'[m], isConsumerPaused'[m], held'[m], r, f)
    BY <1>6, <1>7, <1>8
<1> QED BY <1>2, <1>3, <1>6, <1>9, CappedStep

(* The consumer is replaced, or starts again, or its process ends.         *)
LEMMA ConsumerCapped ==
    ASSUME TypeOK, LoadInv, NEW m \in Mgmt,
           Recycle(m) \/ ConsumerForgets(m) \/ Crash(m)
    PROVE  LoadInv'
<1> DEFINE r == Times("recycle")
           f == Times("forget")
           c == messagesInProcess[m]
<1>1. RegistryType /\ ThrottleType /\ faults \in [Faults -> Nat]
    BY TypeParts DEF RestType
<1>2. UNCHANGED faults \/ \E kind : Fault(kind)
    BY DEF Recycle, ConsumerForgets, Crash
<1>3. r \in Nat /\ f \in Nat /\ c \in Int /\ r <= Times("recycle")' /\ f <= Times("forget")'
    BY <1>1, <1>2, TimesGrow DEF RegistryType
<1>4. Capped(handlers[m], c, isConsumerPaused[m], held[m], r, f)
    BY DEF LoadInv, CappedAt
<1>5. isConsumerPaused[m] \in BOOLEAN /\ held[m] \in BOOLEAN
    BY <1>1 DEF ThrottleType
<1>6. CASE Recycle(m)
    <2>1. Times("recycle")' = r + 1
        BY <1>1, <1>6, FaultTimes DEF Recycle
    <2> HIDE DEF r, f
    <2>2. /\ handlers' = handlers /\ messagesInProcess' = messagesInProcess
          /\ isConsumerPaused'[m] = FALSE /\ held'[m] = FALSE
          /\ \A k \in Mgmt \ {m} : /\ isConsumerPaused'[k] = isConsumerPaused[k]
                                   /\ held'[k] = held[k]
        BY <1>1, <1>6 DEF Recycle, registry, Set, ThrottleType
    <2>3. Capped(handlers[m], c, FALSE, FALSE, r + 1, f)
        BY <1>3, <1>4, <1>5, CappedThrottle
    <2>4. Capped(handlers'[m], messagesInProcess'[m], isConsumerPaused'[m], held'[m], r + 1, f)
        BY <2>2, <2>3
    <2> QED BY <1>2, <1>3, <2>1, <2>2, <2>4, CappedStep
<1>7. CASE ConsumerForgets(m)
    <2>1. Times("forget")' = f + 1
        BY <1>1, <1>7, FaultTimes DEF ConsumerForgets
    <2> HIDE DEF r, f
    <2>2. /\ handlers' = handlers /\ messagesInProcess' = messagesInProcess
          /\ isConsumerPaused' = isConsumerPaused /\ held'[m] = FALSE
          /\ \A k \in Mgmt \ {m} : held'[k] = held[k]
        BY <1>1, <1>7 DEF ConsumerForgets, registry, Set, ThrottleType
    <2>3. Capped(handlers[m], c, isConsumerPaused[m], FALSE, r, f + 1)
        BY <1>3, <1>4, <1>5, CappedThrottle
    <2>4. Capped(handlers'[m], messagesInProcess'[m], isConsumerPaused'[m], held'[m], r, f + 1)
        BY <2>2, <2>3
    <2> QED BY <1>2, <1>3, <2>1, <2>2, <2>4, CappedStep
<1>8. CASE Crash(m)
    <2> HIDE DEF r, f
    <2>1. /\ handlers'[m] = NoHandlers /\ messagesInProcess'[m] = 0
          /\ isConsumerPaused'[m] = FALSE /\ held'[m] = FALSE
          /\ \A k \in Mgmt \ {m} : /\ handlers'[k] = handlers[k]
                                   /\ messagesInProcess'[k] = messagesInProcess[k]
                                   /\ isConsumerPaused'[k] = isConsumerPaused[k]
                                   /\ held'[k] = held[k]
        BY <1>1, <1>8 DEF Crash, Set, ThrottleType, RegistryType
    <2>2. Capped(handlers'[m], messagesInProcess'[m], isConsumerPaused'[m], held'[m], r, f)
        BY <1>3, <2>1, CappedNone
    <2> QED BY <1>2, <1>3, <2>1, <2>2, CappedStep
<1> QED BY <1>6, <1>7, <1>8

LEMMA LoadInit == Init => LoadInv
<1> SUFFICES ASSUME Init, NEW m \in Mgmt PROVE CappedAt(m)
    BY DEF LoadInv
<1>1. faults \in [Faults -> Nat]
    BY DEF Init
<1>2. Capped(NoHandlers, 0, FALSE, FALSE, Times("recycle"), Times("forget"))
    BY <1>1, TimesType, CappedNone
<1>3. /\ handlers[m] = NoHandlers /\ messagesInProcess[m] = 0
      /\ isConsumerPaused[m] = FALSE /\ held[m] = FALSE
    BY DEF Init
<1> QED BY <1>2, <1>3 DEF CappedAt

LEMMA LoadStep ==
    ASSUME TypeOK, LoadInv, [Next]_vars
    PROVE  LoadInv'
<1>1. ASSUME NEW m \in Mgmt, NEW o \in Offset, Finish(m, o) \/ FinishWithError(m, o)
      PROVE  LoadInv'
    <2>1. UNCHANGED faults \/ \E kind : Fault(kind)
        BY <1>1 DEF Finish, FinishWithError
    <2>2. EndHandler(m, o, "done") \/ EndHandler(m, o, "pending")
        BY <1>1 DEF Finish, FinishWithError, EntryAfterError
    <2>3. "done" \in Entry /\ "pending" \in Entry
        BY DEF Entry
    <2> QED BY <2>1, <2>2, <2>3, EndHandlerCapped
<1>2. ASSUME NEW m \in Mgmt, NEW n \in Slot,
             ApplyCommit(m, n) \/ CommitReturns(m, n) \/ RefuseCommit(m, n)
      PROVE  LoadInv'
    <2>1. /\ UNCHANGED <<handlers, messagesInProcess, isConsumerPaused, held>>
          /\ UNCHANGED faults \/ \E kind : Fault(kind)
        BY <1>2 DEF ApplyCommit, CommitReturns, RefuseCommit, registry, throttle
    <2> QED BY <2>1, CappedSame
<1>3. ASSUME NEW m \in Mgmt, CommitTimer(m) \/ Assign(m) \/ Restart(m)
      PROVE  LoadInv'
    <2>1. UNCHANGED <<handlers, messagesInProcess, isConsumerPaused, held, faults>>
        BY <1>3 DEF CommitTimer, Assign, Restart, registry, throttle
    <2> QED BY <2>1, CappedSame
<1>4. CASE Rebalance
    <2>1. /\ UNCHANGED <<handlers, messagesInProcess, isConsumerPaused, held>>
          /\ UNCHANGED faults \/ \E kind : Fault(kind)
        BY <1>4 DEF Rebalance, registry, throttle
    <2> QED BY <2>1, CappedSame
<1>5. CASE UNCHANGED vars
    <2>1. UNCHANGED <<handlers, messagesInProcess, isConsumerPaused, held, faults>>
        BY <1>5 DEF vars, registry, throttle
    <2> QED BY <2>1, CappedSame
<1> QED
    BY <1>1, <1>2, <1>3, <1>4, <1>5, ReceiveCapped, ThrowCapped, ConsumerCapped
       DEF Next, Work

(* The throttle holds: whatever the order in which messages come and       *)
(* handlers end, throw or are counted twice, a management works at no more *)
(* messages than the cap and one more for each consumer that was recycled, *)
(* as long as kafkajs never forgot the pause.                              *)
THEOREM LoadStaysCapped == Spec => []LoadIsCapped
<1>1. Init => TypeOK /\ LoadInv
    BY TypeInit, LoadInit
<1>2. TypeOK /\ LoadInv /\ [Next]_vars => TypeOK' /\ LoadInv'
    BY TypeStep, LoadStep
<1>3. ASSUME TypeOK, LoadInv PROVE LoadIsCapped
    <2> SUFFICES ASSUME NEW m \in Mgmt, ~(Times("forget") > 0)
                 PROVE  Load(m) <= MaxInProcess + 1 + Times("recycle")
        BY DEF LoadIsCapped
    <2>1. CappedAt(m)
        BY <1>3 DEF LoadInv
    <2>2. /\ IsFiniteSet(At(handlers[m]))
          /\ Cardinality(At(handlers[m])) <= MaxInProcess + 1 + Times("recycle")
        BY <2>1 DEF CappedAt, Capped
    <2> QED BY <2>2, LoadIsNat
<1> QED BY <1>1, <1>2, <1>3, PTL DEF Spec

-----------------------------------------------------------------------------
(* The last part: how a management replaces its consumer, KafkaRecycle,    *)
(* which has its own constants, variables and behaviours.  A management    *)
(* never consumes with a consumer it does not know, for any topics and     *)
(* whatever fails how often.                                               *)
(* While a new consumer is made no other one consumes.                     *)
NoneWhileInit == phase = "init" => currentConsumerIdCounter \in Id /\ connected = {}

RecycleInv == RecycleTypeOK /\ ConsumerIsCurrent /\ NoneWhileInit

AnyId == {Undefined, None} \cup Id

RecyclerType == /\ callbacks \subseteq Request
                /\ pending \subseteq Request
                /\ phase \in {"idle", "disconnect", "init"}
                /\ newTopics \subseteq Topic
                /\ recent \in BOOLEAN
                /\ currentConsumerIdCounter \in 0..MaxId

RequestType == /\ consumerIdOnRecycle \in AnyId
               /\ timers \subseteq Request
               /\ ignored \in BOOLEAN
               /\ boot \in {"no", "asked", "done"}

ConsumerType == /\ subscribableTopics \subseteq Topic
                /\ changes \in 0..MaxChanges
                /\ consumer \in [id : {None} \cup Id, topics : SUBSET Topic]
                /\ connected \subseteq Id
                /\ graceTimer \in {None} \cup Id
                /\ recycleFaults \in 0..MaxRecycleFaults

LEMMA RecycleTypeParts == RecycleTypeOK <=> RecyclerType /\ RequestType /\ ConsumerType
BY DEF RecycleTypeOK, RecyclerType, RequestType, ConsumerType, AnyId

LEMMA RecycleTypePartsPrime == RecyclerType' /\ RequestType' /\ ConsumerType' => RecycleTypeOK'
BY DEF RecycleTypeOK, RecyclerType, RequestType, ConsumerType, AnyId

-----------------------------------------------------------------------------
LEMMA InitConsumersType ==
    ASSUME RecyclerType, subscribableTopics' \subseteq Topic, InitConsumers
    PROVE  /\ phase' = "init" /\ newTopics' \subseteq Topic
           /\ currentConsumerIdCounter' \in 0..MaxId
           /\ currentConsumerIdCounter' \in Id
<1>1. currentConsumerIdCounter \in 0..MaxId /\ currentConsumerIdCounter < MaxId
    BY DEF RecyclerType, InitConsumers
<1>2. currentConsumerIdCounter' = currentConsumerIdCounter + 1
    BY DEF InitConsumers
<1>3. currentConsumerIdCounter' \in 1..MaxId
    BY <1>1, <1>2, TopicAssumption, RecycleBoundsAssumption
<1> QED BY <1>3, TopicAssumption, RecycleBoundsAssumption DEF InitConsumers, Id

(* A recycle that starts has no consumer to disconnect, or disconnects it  *)
(* first.                                                                  *)
LEMMA DoRecycleConsumerType ==
    ASSUME RecyclerType, subscribableTopics' \subseteq Topic,
           NEW requests \in SUBSET Request, NEW current, DoRecycleConsumer(requests, current),
           pending' \subseteq Request
    PROVE  /\ RecyclerType'
           /\ phase' = "init" => currentConsumerIdCounter' \in Id /\ current = None
<1>1. callbacks' \subseteq Request /\ recent' \in BOOLEAN
    BY DEF DoRecycleConsumer
<1>2. CASE current = None
    <2>1. InitConsumers
        BY <1>2 DEF DoRecycleConsumer
    <2> QED BY <1>1, <1>2, <2>1, InitConsumersType DEF RecyclerType
<1>3. CASE current # None
    BY <1>1, <1>3 DEF DoRecycleConsumer, RecyclerType
<1> QED BY <1>2, <1>3

LEMMA RequestRecycleType ==
    ASSUME RecycleTypeOK, NoneWhileInit, subscribableTopics' \subseteq Topic,
           NEW id \in AnyId, NEW b \in BOOLEAN, NEW waiting \in SUBSET Request,
           RequestConsumerRecycle(id, b, waiting)
    PROVE  /\ RecyclerType' /\ RequestType'
           /\ phase' = "init" =>
                /\ currentConsumerIdCounter' \in Id
                /\ consumer.id = None \/ phase = "init"
<1>1. RecyclerType /\ RequestType /\ ConsumerType
    BY RecycleTypeParts
<1>2. boot' \in {"no", "asked", "done"} /\ ignored' \in BOOLEAN
    <2>1. boot' \in {"no", "asked", "done"}
        BY <1>1 DEF RequestConsumerRecycle, RequestType
    <2>2. ignored' = (ignored \/ Deserted) \/ ignored' = FALSE
        BY DEF RequestConsumerRecycle
    <2>3. ignored' \in BOOLEAN
        BY <2>2, Zenon
    <2> QED BY <2>1, <2>3
<1>3. CASE NothingToDo(id)
    <2>1. /\ timers' = waiting
          /\ UNCHANGED <<consumerIdOnRecycle, recycleVars, currentConsumerIdCounter>>
        BY <1>3 DEF RequestConsumerRecycle
    <2>2. RecyclerType' /\ UNCHANGED <<phase, currentConsumerIdCounter>>
        BY <1>1, <2>1 DEF RecyclerType, recycleVars
    <2>3. RequestType'
        BY <1>1, <1>2, <2>1 DEF RequestType
    <2> QED BY <2>2, <2>3 DEF NoneWhileInit
<1>4. CASE ~NothingToDo(id)
    <2> DEFINE r == [id |-> For(id), boot |-> b]
    <2>1. For(id) \in AnyId
        BY <1>1 DEF For, ConsumerType, AnyId
    <2>2. r \in Request
        BY <2>1 DEF Request, AnyId
    <2>3. consumerIdOnRecycle' = For(id)
        BY <1>4 DEF RequestConsumerRecycle
    <2>4. CASE recent
        <3>1. /\ timers' = waiting \cup {r}
              /\ UNCHANGED <<recycleVars, currentConsumerIdCounter>>
            BY <1>4, <2>4 DEF RequestConsumerRecycle
        <3>2. RequestType'
            BY <1>2, <2>1, <2>2, <2>3, <3>1 DEF RequestType
        <3>3. RecyclerType' /\ UNCHANGED <<phase, currentConsumerIdCounter>>
            BY <1>1, <3>1 DEF RecyclerType, recycleVars
        <3> QED BY <3>2, <3>3 DEF NoneWhileInit
    <2>5. CASE ~recent
        <3>1. timers' = waiting /\ RecycleConsumer(r)
            BY <1>4, <2>5 DEF RequestConsumerRecycle
        <3>2. RequestType'
            BY <1>2, <2>1, <2>3, <3>1 DEF RequestType
        <3>3. CASE phase # "idle"
            <4>1. /\ pending' = pending \cup {r}
                  /\ UNCHANGED <<callbacks, phase, newTopics, recent, currentConsumerIdCounter>>
                BY <3>1, <3>3 DEF RecycleConsumer
            <4>2. RecyclerType'
                BY <1>1, <2>2, <4>1 DEF RecyclerType
            <4> QED BY <3>2, <4>1, <4>2 DEF NoneWhileInit
        <3>4. CASE phase = "idle"
            <4>1. DoRecycleConsumer({r}, consumer.id) /\ UNCHANGED pending
                BY <3>1, <3>4 DEF RecycleConsumer
            <4>2. {r} \in SUBSET Request /\ pending' \subseteq Request
                BY <1>1, <2>2, <4>1 DEF RecyclerType
            <4>3. /\ RecyclerType'
                  /\ phase' = "init" => currentConsumerIdCounter' \in Id /\ consumer.id = None
                BY <1>1, <4>1, <4>2, DoRecycleConsumerType
            <4> QED BY <3>2, <4>3
        <3> QED BY <3>3, <3>4
    <2> QED BY <2>4, <2>5
<1> QED BY <1>3, <1>4

LEMMA ServePendingType ==
    ASSUME RecyclerType, subscribableTopics' \subseteq Topic, ServePending
    PROVE  /\ RecyclerType'
           /\ phase' = "init" => currentConsumerIdCounter' \in Id /\ consumer'.id = None
<1>1. CASE pending = {}
    BY <1>1 DEF ServePending, RecyclerType
<1>2. CASE pending # {}
    <2>1. DoRecycleConsumer(pending, consumer'.id) /\ pending' = {}
        BY <1>2 DEF ServePending
    <2>2. pending \in SUBSET Request
        BY DEF RecyclerType
    <2> QED BY <2>1, <2>2, DoRecycleConsumerType
<1> QED BY <1>1, <1>2

-----------------------------------------------------------------------------
LEMMA RecycleInitSafe == RecycleInit => RecycleInv
<1> SUFFICES ASSUME RecycleInit PROVE RecycleInv
    OBVIOUS
<1> DEFINE C == [id : {None} \cup Id, topics : SUBSET Topic]
<1>1. RecyclerType /\ RequestType
    <2>1. currentConsumerIdCounter \in 0..MaxId
        BY TopicAssumption, RecycleBoundsAssumption DEF RecycleInit
    <2>2. RecyclerType
        BY <2>1 DEF RecycleInit, RecyclerType
    <2>3. RequestType
        BY DEF RecycleInit, RequestType, AnyId
    <2> QED BY <2>2, <2>3
<1>2. NoConsumer \in C
    BY DEF NoConsumer
<1>3. ConsumerType
    BY <1>2, TopicAssumption, RecycleBoundsAssumption DEF RecycleInit, ConsumerType
<1>4. ConsumerIsCurrent /\ NoneWhileInit
    BY DEF RecycleInit, ConsumerIsCurrent, NoneWhileInit
<1> QED BY <1>1, <1>3, <1>4, RecycleTypeParts DEF RecycleInv

(* Nobody consumes before there is a consumer.                             *)
LEMMA NoneConnected ==
    ASSUME RecycleInv, consumer.id = None \/ phase = "init"
    PROVE  connected = {}
<1>1. CASE consumer.id = None
    <2>1. connected \subseteq {None} /\ connected \subseteq Id
        BY <1>1 DEF RecycleInv, RecycleTypeOK, ConsumerIsCurrent
    <2>2. None \notin Id
        BY TopicAssumption, RecycleBoundsAssumption DEF None, Id
    <2> QED BY <2>1, <2>2
<1>2. CASE phase = "init"
    BY <1>2 DEF RecycleInv, NoneWhileInit
<1> QED BY <1>1, <1>2

LEMMA RecycleFaultType ==
    ASSUME ConsumerType, NEW kind, RecycleFault(kind)
    PROVE  recycleFaults' \in 0..MaxRecycleFaults
BY TopicAssumption, RecycleBoundsAssumption DEF ConsumerType, RecycleFault

(* Whoever requests a recycle.                                             *)
LEMMA RequestSafe ==
    ASSUME RecycleInv,
           NEW id \in AnyId, NEW b \in BOOLEAN, NEW waiting \in SUBSET Request,
           RequestConsumerRecycle(id, b, waiting),
           subscribableTopics' \subseteq Topic, changes' \in 0..MaxChanges,
           consumer' = consumer, connected' \subseteq connected,
           graceTimer' \in {None, graceTimer}, recycleFaults' \in 0..MaxRecycleFaults
    PROVE  RecycleInv'
<1>1. RecycleTypeOK /\ ConsumerType /\ NoneWhileInit /\ ConsumerIsCurrent
    BY RecycleTypeParts DEF RecycleInv
<1>2. /\ RecyclerType' /\ RequestType'
      /\ phase' = "init" => /\ currentConsumerIdCounter' \in Id
                            /\ consumer.id = None \/ phase = "init"
    BY <1>1, RequestRecycleType
<1>3. ConsumerType'
    BY <1>1 DEF ConsumerType
<1>4. ConsumerIsCurrent'
    BY <1>1 DEF ConsumerIsCurrent
<1>5. NoneWhileInit'
    BY <1>2, NoneConnected DEF NoneWhileInit
<1>6. RecycleTypeOK'
    BY <1>2, <1>3, RecycleTypePartsPrime
<1> QED BY <1>4, <1>5, <1>6 DEF RecycleInv

(* A recycle that failed.                                                  *)
LEMMA FailSafe ==
    ASSUME RecycleInv,
           Fail, UNCHANGED <<changes, connected, graceTimer>>,
           recycleFaults' \in 0..MaxRecycleFaults
    PROVE  RecycleInv'
<1>1. RecyclerType /\ RequestType /\ ConsumerType /\ ConsumerIsCurrent
    BY RecycleTypeParts DEF RecycleInv
<1>2. /\ timers' = timers \cup callbacks
      /\ UNCHANGED <<subscribableTopics, consumer, consumerIdOnRecycle, ignored, boot>>
      /\ ServePending
    BY DEF Fail, Again
<1>3. subscribableTopics' \subseteq Topic
    BY <1>1, <1>2 DEF ConsumerType
<1>4. /\ RecyclerType'
      /\ phase' = "init" => currentConsumerIdCounter' \in Id /\ consumer'.id = None
    BY <1>1, <1>2, <1>3, ServePendingType
<1>5. RequestType'
    BY <1>1, <1>2 DEF RequestType, RecyclerType
<1>6. ConsumerType'
    BY <1>1, <1>2 DEF ConsumerType
<1>7. ConsumerIsCurrent'
    BY <1>1, <1>2 DEF ConsumerIsCurrent
<1>8. NoneWhileInit'
    BY <1>2, <1>4, NoneConnected DEF NoneWhileInit
<1>9. RecycleTypeOK'
    BY <1>4, <1>5, <1>6, RecycleTypePartsPrime
<1> QED BY <1>7, <1>8, <1>9 DEF RecycleInv

LEMMA ConsumerRunsSafe ==
    ASSUME RecycleInv, ConsumerRuns
    PROVE  RecycleInv'
<1>1. RecyclerType /\ RequestType /\ ConsumerType
    BY RecycleTypeParts DEF RecycleInv
<1>2. connected = {} /\ currentConsumerIdCounter \in Id
    BY DEF RecycleInv, NoneWhileInit, ConsumerRuns
<1>3. /\ consumer' = NewConsumer
      /\ NewConsumer \in [id : {None} \cup Id, topics : SUBSET Topic]
      /\ NewConsumer.id \in Id
    BY <1>1, <1>2 DEF ConsumerRuns, NewConsumer, RecyclerType
<1>4. connected' = {NewConsumer.id}
    BY <1>2 DEF ConsumerRuns
<1>5. subscribableTopics' \subseteq Topic /\ ServePending
    BY <1>1 DEF ConsumerRuns, ConsumerType, topicVars
<1>6. /\ RecyclerType'
      /\ phase' = "init" => consumer'.id = None
    BY <1>1, <1>5, ServePendingType
<1>7. NewConsumer.id # None
    BY <1>3, TopicAssumption, RecycleBoundsAssumption DEF Id, None
<1>8. NoneWhileInit'
    BY <1>3, <1>6, <1>7 DEF NoneWhileInit
<1>9. RequestType'
    BY <1>1 DEF ConsumerRuns, RequestType, AnyId
<1>10. ConsumerType'
    BY <1>1, <1>3, <1>4, <1>5 DEF ConsumerRuns, ConsumerType, topicVars
<1>11. ConsumerIsCurrent'
    BY <1>3, <1>4 DEF ConsumerIsCurrent
<1>12. RecycleTypeOK'
    BY <1>6, <1>9, <1>10, RecycleTypePartsPrime
<1> QED BY <1>8, <1>11, <1>12 DEF RecycleInv

LEMMA DisconnectedSafe ==
    ASSUME RecycleInv, Disconnected
    PROVE  RecycleInv'
<1>1. RecyclerType /\ RequestType /\ ConsumerType /\ ConsumerIsCurrent
    BY RecycleTypeParts DEF RecycleInv
<1>2. connected' = {}
    BY <1>1 DEF Disconnected, ConsumerIsCurrent
<1>3. subscribableTopics' \subseteq Topic /\ InitConsumers
    BY <1>1 DEF Disconnected, ConsumerType, topicVars
<1>4. /\ phase' = "init" /\ newTopics' \subseteq Topic
      /\ currentConsumerIdCounter' \in 0..MaxId /\ currentConsumerIdCounter' \in Id
    BY <1>1, <1>3, InitConsumersType
<1>5. RecyclerType'
    BY <1>1, <1>4 DEF Disconnected, RecyclerType
<1>6. RequestType'
    BY <1>1 DEF Disconnected, RequestType, requestVars
<1>7. ConsumerType'
    BY <1>1, <1>2 DEF Disconnected, ConsumerType, topicVars
<1>8. ConsumerIsCurrent' /\ NoneWhileInit'
    BY <1>2, <1>4 DEF ConsumerIsCurrent, NoneWhileInit
<1>9. RecycleTypeOK'
    BY <1>5, <1>6, <1>7, RecycleTypePartsPrime
<1> QED BY <1>8, <1>9 DEF RecycleInv

LEMMA RecycleStep ==
    ASSUME RecycleInv, [RecycleNext]_recyclerVars
    PROVE  RecycleInv'
<1>1. RecycleTypeOK /\ RecyclerType /\ RequestType /\ ConsumerType
    BY RecycleTypeParts DEF RecycleInv
<1>2. timers \in SUBSET Request /\ FALSE \in BOOLEAN /\ TRUE \in BOOLEAN
    BY <1>1 DEF RequestType
<1>3. /\ None \in AnyId /\ consumer.id \in AnyId /\ CurrentId \in AnyId
      /\ graceTimer \in AnyId
    BY <1>1 DEF AnyId, CurrentId, ConsumerType
<1>4. CASE Boot
    <2>1. /\ RequestConsumerRecycle(None, TRUE, timers)
          /\ UNCHANGED <<subscribableTopics, changes, consumer, connected, graceTimer,
                         recycleFaults>>
        BY <1>4 DEF Boot, topicVars
    <2> QED BY <1>1, <1>2, <1>3, <2>1, RequestSafe DEF ConsumerType
<1>5. ASSUME NEW t \in Topic, TopicChanges(t)
      PROVE  RecycleInv'
    <2>1. subscribableTopics' \subseteq Topic /\ changes' \in 0..MaxChanges
        <3>1. changes' \in 0..MaxChanges
            BY <1>1, <1>5, RecycleBoundsAssumption DEF TopicChanges, ConsumerType
        <3> QED BY <1>1, <1>5, <3>1 DEF TopicChanges, ConsumerType
    <2>2. UNCHANGED <<consumer, connected, graceTimer, recycleFaults>>
        BY <1>5 DEF TopicChanges
    <2>3. CASE boot = "no"
        <3>1. UNCHANGED <<recycleVars, requestVars, currentConsumerIdCounter, boot>>
            BY <1>5, <2>3 DEF TopicChanges
        <3>2. RecyclerType' /\ RequestType'
            BY <1>1, <3>1 DEF RecyclerType, RequestType, recycleVars, requestVars
        <3>3. ConsumerType'
            BY <1>1, <2>1, <2>2 DEF ConsumerType
        <3>4. ConsumerIsCurrent' /\ NoneWhileInit'
            BY <2>2, <3>1 DEF RecycleInv, ConsumerIsCurrent, NoneWhileInit, recycleVars
        <3> QED BY <3>2, <3>3, <3>4, RecycleTypePartsPrime DEF RecycleInv
    <2>4. CASE boot # "no"
        <3>1. RequestConsumerRecycle(CurrentId, FALSE, timers)
            BY <1>5, <2>4 DEF TopicChanges
        <3> QED BY <1>1, <1>2, <1>3, <2>1, <2>2, <3>1, RequestSafe DEF ConsumerType
    <2> QED BY <2>3, <2>4
<1>6. CASE ConsumerCrashes
    <2>1. /\ RequestConsumerRecycle(consumer.id, FALSE, timers)
          /\ connected' \subseteq connected
          /\ UNCHANGED <<subscribableTopics, changes, consumer, graceTimer>>
        BY <1>6 DEF ConsumerCrashes, topicVars
    <2>2. recycleFaults' \in 0..MaxRecycleFaults
        BY <1>1, <1>6, RecycleFaultType DEF ConsumerCrashes
    <2> QED BY <1>1, <1>2, <1>3, <2>1, <2>2, RequestSafe DEF ConsumerType
<1>7. CASE CommandFails \/ CommandSucceeds
    <2>1. UNCHANGED <<topicVars, consumerVars, recycleVars, requestVars, boot>>
        BY <1>7 DEF CommandFails, CommandSucceeds
    <2>2. graceTimer' \in {None} \cup Id
        BY <1>1, <1>7 DEF CommandFails, CommandSucceeds, ConsumerType
    <2>3. recycleFaults' \in 0..MaxRecycleFaults
        BY <1>1, <1>7, RecycleFaultType DEF CommandFails, CommandSucceeds, ConsumerType
    <2>4. RecyclerType' /\ RequestType'
        BY <1>1, <2>1 DEF RecyclerType, RequestType, recycleVars, requestVars, consumerVars
    <2>5. ConsumerType'
        BY <1>1, <2>1, <2>2, <2>3 DEF ConsumerType, topicVars, consumerVars
    <2>6. ConsumerIsCurrent' /\ NoneWhileInit'
        BY <2>1 DEF RecycleInv, ConsumerIsCurrent, NoneWhileInit, recycleVars, consumerVars
    <2> QED BY <2>4, <2>5, <2>6, RecycleTypePartsPrime DEF RecycleInv
<1>8. CASE GracePeriodEnds
    <2>1. /\ RequestConsumerRecycle(graceTimer, FALSE, timers)
          /\ graceTimer' = None
          /\ UNCHANGED <<subscribableTopics, changes, consumer, connected, recycleFaults>>
        BY <1>8 DEF GracePeriodEnds, topicVars
    <2> QED BY <1>1, <1>2, <1>3, <2>1, RequestSafe DEF ConsumerType
<1>9. ASSUME NEW r \in Request, Retry(r)
      PROVE  RecycleInv'
    <2>1. /\ RequestConsumerRecycle(r.id, r.boot, timers \ {r})
          /\ UNCHANGED <<subscribableTopics, changes, consumer, connected, graceTimer,
                         recycleFaults>>
        BY <1>9 DEF Retry, topicVars
    <2>2. r.id \in AnyId /\ r.boot \in BOOLEAN /\ timers \ {r} \in SUBSET Request
        BY <1>2 DEF Request, AnyId
    <2> QED BY <1>1, <2>1, <2>2, RequestSafe DEF ConsumerType
<1>10. CASE CooldownEnds
    <2>1. RecyclerType' /\ RequestType'
        BY <1>1, <1>10 DEF CooldownEnds, RecyclerType, RequestType, consumerVars, requestVars
    <2>2. ConsumerType'
        BY <1>1, <1>10 DEF CooldownEnds, ConsumerType, consumerVars, topicVars
    <2>3. ConsumerIsCurrent' /\ NoneWhileInit'
        BY <1>10 DEF CooldownEnds, RecycleInv, ConsumerIsCurrent, NoneWhileInit, consumerVars
    <2> QED BY <2>1, <2>2, <2>3, RecycleTypePartsPrime DEF RecycleInv
<1>11. CASE Disconnected
    BY <1>11, DisconnectedSafe
<1>12. CASE DisconnectFails
    <2>1. Fail /\ UNCHANGED <<changes, connected, graceTimer>>
        BY <1>12 DEF DisconnectFails, StopsAtError
    <2>2. recycleFaults' \in 0..MaxRecycleFaults
        BY <1>1, <1>12, RecycleFaultType DEF DisconnectFails
    <2> QED BY <2>1, <2>2, FailSafe
<1>13. CASE ConsumerRuns
    BY <1>13, ConsumerRunsSafe
<1>14. CASE InitFails
    <2>1. Fail /\ UNCHANGED <<changes, connected, graceTimer>>
        BY <1>14 DEF InitFails
    <2>2. recycleFaults' \in 0..MaxRecycleFaults
        BY <1>1, <1>14, RecycleFaultType DEF InitFails
    <2> QED BY <2>1, <2>2, FailSafe
<1>15. CASE UNCHANGED recyclerVars
    <2>1. RecyclerType' /\ RequestType'
        BY <1>1, <1>15 DEF recyclerVars, RecyclerType, RequestType,
                           consumerVars, requestVars, recycleVars
    <2>2. ConsumerType'
        BY <1>1, <1>15 DEF recyclerVars, ConsumerType, consumerVars, topicVars
    <2>3. ConsumerIsCurrent' /\ NoneWhileInit'
        BY <1>15 DEF recyclerVars, RecycleInv, ConsumerIsCurrent, NoneWhileInit,
                      consumerVars, recycleVars
    <2> QED BY <2>1, <2>2, <2>3, RecycleTypePartsPrime DEF RecycleInv
<1> QED
    BY <1>4, <1>5, <1>6, <1>7, <1>8, <1>9, <1>10, <1>11, <1>12, <1>13, <1>14, <1>15 DEF RecycleNext

(* Type correctness of the requests, the recycles and the consumers.       *)
THEOREM RecycleTypeCorrect == RecycleSpec => []RecycleTypeOK
<1>1. RecycleInv => RecycleTypeOK
    BY DEF RecycleInv
<1>2. RecycleInv /\ [RecycleNext]_recyclerVars => RecycleInv'
    BY RecycleStep
<1> QED BY <1>1, <1>2, RecycleInitSafe, PTL DEF RecycleSpec

(* No zombie consumer: whatever consumes is the consumer the application   *)
(* knows, so it is paused, resumed and disconnected when it should be.     *)
THEOREM NoZombieConsumer == RecycleSpec => []ConsumerIsCurrent
<1>1. RecycleInv => ConsumerIsCurrent
    BY DEF RecycleInv
<1>2. RecycleInv /\ [RecycleNext]_recyclerVars => RecycleInv'
    BY RecycleStep
<1> QED BY <1>1, <1>2, RecycleInitSafe, PTL DEF RecycleSpec
=============================================================================
