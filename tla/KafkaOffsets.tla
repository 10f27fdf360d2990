----------------------------- MODULE KafkaOffsets -----------------------------
(***************************************************************************)
(* How the managements consume one partition of Kafka: offsetsRegistry,    *)
(* commitOffsets, registerOffset, handleMessage and the throttling of the  *)
(* consumer in src/modules/kafka.js.                                       *)
(*                                                                         *)
(* The managements form one consumer group with automatic commits off.     *)
(* handleMessage registers an offset and starts a handler without waiting  *)
(* for it, so handlers end in any order.  A management commits the offset  *)
(* behind the longest run of finished messages, and pauses its consumer    *)
(* while too many handlers run.  The registry outlives the consumer: it is *)
(* not cleared when the partition moves or the consumer is recycled.       *)
(*                                                                         *)
(* Kafka itself and the kafkajs client are modelled from what this code    *)
(* uses of them: an assignment starts at the committed offset, and the     *)
(* commit of any member of the group is taken as it comes.                 *)
(***************************************************************************)
EXTENDS Integers, FiniteSets, Functions

CONSTANTS
    Mgmt,          \* the managements
    NoMgmt,        \* owner of a partition that is not assigned
    Length,        \* how many messages the partition gets
    Garbage,       \* the offsets of messages that cannot be parsed
    MaxInProcess,  \* KAFKA_CONSUMER_MAX_IN_PROCESS_MESSAGES (5000 in the code)
    Slot,          \* bound: the commits of one management that are in flight
    Faults,        \* what may go wrong: some of "rebalance", "crash", "recycle",
                   \* "forget", "error", "throw", "refuse"
    MaxFaults      \* bound: how often something goes wrong

Offset == 0..(Length - 1)

ASSUME NoMgmtAssumption == NoMgmt \notin Mgmt
ASSUME LengthAssumption == Length \in Nat /\ Garbage \subseteq Offset
ASSUME BoundsAssumption == MaxInProcess \in Nat /\ MaxFaults \in Nat /\ Slot \subseteq Nat

VARIABLES
    owner,             \* the member the partition is assigned to
    committed,         \* the offset that the broker has for the group
    position,          \* the next offset of its consumer
    up,                \* is the process running?
    offsets,           \* offsetsRegistry[topic][partition].offsets
    handlers,          \* the handlers at work, per offset
    messagesInProcess, \* per management
    isConsumerPaused,  \* the flag, and
    held,              \* whether the consumer delivers nothing
    commits,           \* commitOffsets in flight
    commitInProgress,  \* per management
    commitTimeout,     \* is the timer set?
    handled,           \* history: offsets whose handler ended without error
    failed,            \* history: offsets whose handler ended otherwise
    faults             \* how often each kind of fault happened

broker   == <<owner, committed, position>>
registry == <<offsets, handlers, messagesInProcess>>
throttle == <<isConsumerPaused, held>>
commitment == <<commits, commitInProgress, commitTimeout>>
history  == <<handled, failed>>
vars == <<broker, up, registry, throttle, commitment, history, faults>>

-----------------------------------------------------------------------------
(* "pending" and "done" are the false and the true of the registry.        *)
Entry == {"absent", "pending", "done"}
NoOffsets  == [o \in Offset |-> "absent"]
NoHandlers == [o \in Offset |-> 0]

Idle   == [offset |-> 0, state |-> "idle"]
Commit == [offset : 0..Length, state : {"idle", "sent", "applied", "refused"}]
NoCommits == [n \in Slot |-> Idle]

Init == /\ owner = NoMgmt
        /\ committed = 0
        /\ position = 0
        /\ up = [m \in Mgmt |-> TRUE]
        /\ offsets = [m \in Mgmt |-> NoOffsets]
        /\ handlers = [m \in Mgmt |-> NoHandlers]
        /\ messagesInProcess = [m \in Mgmt |-> 0]
        /\ isConsumerPaused = [m \in Mgmt |-> FALSE]
        /\ held = [m \in Mgmt |-> FALSE]
        /\ commits = [m \in Mgmt |-> NoCommits]
        /\ commitInProgress = [m \in Mgmt |-> FALSE]
        /\ commitTimeout = [m \in Mgmt |-> FALSE]
        /\ handled = {}
        /\ failed = {}
        /\ faults = [f \in Faults |-> 0]

Set(f, m, x) == f' = [f EXCEPT ![m] = x]

Total(f) == FoldFunction(+, 0, f)

Fault(kind) == /\ kind \in Faults
               /\ Total(faults) < MaxFaults
               /\ faults' = [faults EXCEPT ![kind] = @ + 1]

Times(kind) == IF kind \in Faults THEN faults[kind] ELSE 0

-----------------------------------------------------------------------------
(* commitOffsets: the run of finished messages at the head of the registry *)
(* (whose keys come in the order of their numbers); nothing is sent when   *)
(* there is none.  Variant: all that are finished.                         *)
Keys(reg) == {o \in Offset : reg[o] # "absent"}

AllDone(reg) == {o \in Keys(reg) : reg[o] = "done"}
Streak(reg)  == {o \in Keys(reg) : \A p \in Keys(reg) : p <= o => reg[p] = "done"}

(* What is committed is the offset of the next message.                    *)
NextOffset(last) == last + 1

CommitOffsets(m, reg) ==
    IF Streak(reg) = {}
    THEN /\ Set(commitInProgress, m, FALSE)
         /\ UNCHANGED commits
    ELSE \E n \in Slot, last \in Streak(reg) :
           /\ \A o \in Streak(reg) : o <= last
           /\ commits[m][n] = Idle
           /\ \A k \in Slot : k < n => commits[m][k] # Idle
           /\ commits' = [commits EXCEPT ![m][n] =
                            [offset |-> NextOffset(last), state |-> "sent"]]
           /\ Set(commitInProgress, m, TRUE)

(* registerOffset when a message can be committed: at once if no commit is *)
(* in flight (and the last one is not younger than                         *)
(* MINIMAL_TIME_BETWEEN_COMMITS), by a timer otherwise.                    *)
CommitSoon(m, reg) ==
    \/ ~commitInProgress[m] /\ CommitOffsets(m, reg) /\ UNCHANGED commitTimeout
    \/ Set(commitTimeout, m, TRUE) /\ UNCHANGED <<commits, commitInProgress>>

(* pauseConsumerIfNeeded; it is paused again if it was a while ago.        *)
(* Variant: the message that comes in is not counted.                      *)
TooManyBefore(count) == count - 1 > MaxInProcess
TooMany(count) == count > MaxInProcess

PauseConsumerIfNeeded(m, count) ==
    \/ /\ TooMany(count)
       /\ Set(isConsumerPaused, m, TRUE) /\ Set(held, m, TRUE)
    \/ /\ ~TooMany(count) \/ isConsumerPaused[m]
       /\ UNCHANGED throttle

(* resumeConsumerIfNeeded.  Variant: it waits until nothing is at work.    *)
FewAtOnce(count) == count < 0
Few(count) == 2 * count < MaxInProcess

ResumeConsumerIfNeeded(m, count) ==
    IF isConsumerPaused[m] /\ Few(count)
    THEN Set(isConsumerPaused, m, FALSE) /\ Set(held, m, FALSE)
    ELSE UNCHANGED throttle

-----------------------------------------------------------------------------
(* handleMessage of the next message of the consumer.                      *)
Delivers(m) == owner = m /\ up[m] /\ ~held[m] /\ position < Length

Receive(m) ==
    LET o == position IN
    /\ Delivers(m)
    /\ position' = o + 1
    /\ \/ /\ offsets[m][o] # "absent"     \* registered already: nothing to do
          /\ UNCHANGED <<registry, throttle, commitment, history>>
       \/ /\ offsets[m][o] = "absent"
          /\ o \notin Garbage
          /\ offsets' = [offsets EXCEPT ![m][o] = "pending"]
          /\ handlers' = [handlers EXCEPT ![m][o] = @ + 1]
          /\ Set(messagesInProcess, m, messagesInProcess[m] + 1)
          /\ PauseConsumerIfNeeded(m, messagesInProcess[m] + 1)
          /\ UNCHANGED <<commitment, history>>
       \/ /\ offsets[m][o] = "absent"     \* dropped: registered twice
          /\ o \in Garbage
          /\ offsets' = [offsets EXCEPT ![m][o] = "done"]
          /\ IF TooMany(messagesInProcess[m] + 1)
               THEN PauseConsumerIfNeeded(m, messagesInProcess[m] + 1)
               ELSE ResumeConsumerIfNeeded(m, messagesInProcess[m])
          /\ CommitSoon(m, offsets'[m])
          /\ handled' = handled \cup {o}
          /\ UNCHANGED <<handlers, messagesInProcess, failed>>
    /\ UNCHANGED <<owner, committed, up, faults>>

(* The callback of routeMessage.  An offset that is not registered any     *)
(* more is not counted back.                                               *)
EndHandler(m, o, entry) ==
    /\ handlers[m][o] > 0
    /\ handlers' = [handlers EXCEPT ![m][o] = @ - 1]
    /\ IF offsets[m][o] = "absent"
         THEN UNCHANGED <<offsets, messagesInProcess, throttle, commitment>>
         ELSE /\ Set(messagesInProcess, m, messagesInProcess[m] - 1)
              /\ ResumeConsumerIfNeeded(m, messagesInProcess[m] - 1)
              /\ offsets' = [offsets EXCEPT ![m][o] = entry]
              /\ IF entry = "done" THEN CommitSoon(m, offsets'[m])
                                   ELSE UNCHANGED commitment

Finish(m, o) ==
    /\ EndHandler(m, o, "done")
    /\ handled' = handled \cup {o}
    /\ UNCHANGED <<broker, up, failed, faults>>

(* It ends with an error: "message will not be committed".                 *)
EntryAfterError == "pending"

FinishWithError(m, o) ==
    /\ Fault("error")
    /\ EndHandler(m, o, EntryAfterError)
    /\ failed' = failed \cup {o}
    /\ UNCHANGED <<broker, up, handled>>

(* routeMessage throws: nobody counts the message back.                    *)
Throw(m, o) ==
    /\ handlers[m][o] > 0
    /\ Fault("throw")
    /\ handlers' = [handlers EXCEPT ![m][o] = @ - 1]
    /\ failed' = failed \cup {o}
    /\ UNCHANGED <<broker, up, offsets, messagesInProcess, throttle, commitment, handled>>

-----------------------------------------------------------------------------
(* The timer commits whether another commit is in flight or not.           *)
CommitTimer(m) ==
    /\ commitTimeout[m]
    /\ Set(commitTimeout, m, FALSE)
    /\ CommitOffsets(m, offsets[m])
    /\ UNCHANGED <<broker, up, registry, throttle, history, faults>>

SetCommit(m, n, c) == commits' = [commits EXCEPT ![m][n] = c]

(* The broker takes a commit, whichever came before.                       *)
ApplyCommit(m, n) ==
    /\ commits[m][n].state = "sent"
    /\ committed' = commits[m][n].offset
    /\ SetCommit(m, n, [commits[m][n] EXCEPT !.state = "applied"])
    /\ UNCHANGED <<owner, position, up, registry, throttle, commitInProgress,
                   commitTimeout, history, faults>>

(* All retries of runKafkaCommand failed.                                  *)
RefuseCommit(m, n) ==
    /\ commits[m][n].state = "sent"
    /\ Fault("refuse")
    /\ SetCommit(m, n, [commits[m][n] EXCEPT !.state = "refused"])
    /\ UNCHANGED <<broker, up, registry, throttle, commitInProgress, commitTimeout, history>>

(* commitOffsets after its await: what was committed leaves the registry.  *)
(* Variant: all but the last of it.                                        *)
AllButLast(reg, next) ==
    [o \in Offset |-> IF o < next - 1 THEN "absent" ELSE reg[o]]
AfterCommit(reg, next) ==
    [o \in Offset |-> IF o < next THEN "absent" ELSE reg[o]]

CommitReturns(m, n) ==
    /\ commits[m][n].state \in {"applied", "refused"}
    /\ SetCommit(m, n, Idle)
    /\ Set(commitInProgress, m, FALSE)
    /\ IF commits[m][n].state = "applied"
         THEN Set(offsets, m, AfterCommit(offsets[m], commits[m][n].offset))
         ELSE UNCHANGED offsets
    /\ UNCHANGED <<broker, up, handlers, messagesInProcess, throttle, commitTimeout,
                   history, faults>>

-----------------------------------------------------------------------------
(* The group: an assignment starts where the last commit was.              *)
Assign(m) ==
    /\ owner = NoMgmt /\ up[m]
    /\ owner' = m
    /\ position' = committed
    /\ UNCHANGED <<committed, up, registry, throttle, commitment, history, faults>>

Rebalance ==
    /\ owner # NoMgmt
    /\ Fault("rebalance")
    /\ owner' = NoMgmt
    /\ position' = 0
    /\ UNCHANGED <<committed, up, registry, throttle, commitment, history>>

Leave(m) == IF owner = m THEN owner' = NoMgmt /\ position' = 0
                         ELSE UNCHANGED <<owner, position>>

(* doRecycleConsumer: another consumer, that is not paused; the commits of *)
(* the old one fail.  Its handlers go on and are still counted.            *)

Recycle(m) ==
    /\ up[m]
    /\ Fault("recycle")
    /\ Leave(m)
    /\ Set(isConsumerPaused, m, FALSE) /\ Set(held, m, FALSE)
    /\ Set(commits, m, [n \in Slot |-> IF commits[m][n].state = "sent"
                                         THEN [commits[m][n] EXCEPT !.state = "refused"]
                                         ELSE commits[m][n]])
    /\ UNCHANGED <<committed, up, registry, commitInProgress, commitTimeout, history>>

(* kafkajs restarts its consumer by itself, and forgets that it was paused. *)
ConsumerForgets(m) ==
    /\ up[m]
    /\ Fault("forget")
    /\ Leave(m)
    /\ Set(held, m, FALSE)
    /\ UNCHANGED <<committed, up, registry, isConsumerPaused, commitment,
                   history>>

Crash(m) ==
    /\ up[m]
    /\ Fault("crash")
    /\ Leave(m)
    /\ Set(up, m, FALSE)
    /\ Set(offsets, m, NoOffsets) /\ Set(handlers, m, NoHandlers)
    /\ Set(messagesInProcess, m, 0)
    /\ Set(isConsumerPaused, m, FALSE) /\ Set(held, m, FALSE)
    /\ Set(commits, m, NoCommits) /\ Set(commitInProgress, m, FALSE)
    /\ Set(commitTimeout, m, FALSE)
    /\ UNCHANGED <<committed, history>>

Restart(m) ==
    /\ ~up[m]
    /\ Set(up, m, TRUE)
    /\ UNCHANGED <<broker, registry, throttle, commitment, history, faults>>

-----------------------------------------------------------------------------
Work(m) == \/ Receive(m) \/ CommitTimer(m)
           \/ \E o \in Offset : Finish(m, o)
           \/ \E n \in Slot : ApplyCommit(m, n) \/ CommitReturns(m, n)

Next == \/ \E m \in Mgmt : \/ Work(m) \/ Assign(m) \/ Recycle(m) \/ ConsumerForgets(m)
                          \/ Crash(m) \/ Restart(m)
                          \/ \E o \in Offset : FinishWithError(m, o) \/ Throw(m, o)
                          \/ \E n \in Slot : RefuseCommit(m, n)
        \/ Rebalance

Spec == Init /\ [][Next]_vars

(* Consumers deliver, handlers call back, timers fire, Kafka answers and   *)
(* assigns the partition to a member, a process that stopped is started.   *)
Fairness ==
    \A m \in Mgmt :
        /\ WF_vars(Receive(m)) /\ WF_vars(CommitTimer(m)) /\ WF_vars(Restart(m))
        /\ WF_vars(Assign(m))
        /\ \A o \in Offset : WF_vars(Finish(m, o))
        /\ \A n \in Slot : WF_vars(ApplyCommit(m, n)) /\ WF_vars(CommitReturns(m, n))
FairSpec == Spec /\ Fairness

-----------------------------------------------------------------------------
TypeOK == /\ owner \in Mgmt \cup {NoMgmt}
          /\ committed \in 0..Length
          /\ position \in 0..Length
          /\ up \in [Mgmt -> BOOLEAN]
          /\ offsets \in [Mgmt -> [Offset -> Entry]]
          /\ handlers \in [Mgmt -> [Offset -> Nat]]
          /\ messagesInProcess \in [Mgmt -> Int]
          /\ isConsumerPaused \in [Mgmt -> BOOLEAN]
          /\ held \in [Mgmt -> BOOLEAN]
          /\ commits \in [Mgmt -> [Slot -> Commit]]
          /\ commitInProgress \in [Mgmt -> BOOLEAN]
          /\ commitTimeout \in [Mgmt -> BOOLEAN]
          /\ handled \subseteq Offset
          /\ failed \subseteq Offset
          /\ faults \in [Faults -> Nat]

(* No message is lost: every offset below the committed one was handled    *)
(* without error (or cannot be parsed), in whatever order the handlers     *)
(* end, however often the partition moves between managements with stale   *)
(* registries, and whichever of several commits comes last.                *)
CommittedIsHandled == \A o \in Offset : o < committed => o \in handled

(* The throttle: a management works at no more messages than the cap, and  *)
(* one more for each consumer it had - unless kafkajs forgot the pause     *)
(* that the flag still tells of.                                           *)
AtWork(m) == UNION {{o} \X (1..handlers[m][o]) : o \in Offset}
Load(m)   == Cardinality(AtWork(m))

LoadIsCapped ==
    \A m \in Mgmt : Load(m) <= MaxInProcess + 1 + Times("recycle") \/ Times("forget") > 0

(* A message that is counted and that nobody counts back: its handler      *)
(* threw, or a second commit of the same offsets took it out of the        *)
(* registry while it was handled again.                                    *)
Leaked(m) == messagesInProcess[m] > Load(m)

(* Every message is handled, or somebody failed to handle it (it is not    *)
(* handled again while that process runs), or the consumer is paused for   *)
(* a message that leaked.                                                  *)
EveryMessageHandled ==
    \A o \in Offset :
        <>(o \in handled \/ o \in failed \/ \E m \in Mgmt : held[m] /\ Leaked(m))

(* What is finished is committed in the end and leaves the registry, as    *)
(* long as no handler failed, no commit was refused and no message leaked: *)
(* none of these is tried again by itself.                                 *)
DoneIsCommitted ==
    \A m \in Mgmt, o \in Offset :
        offsets[m][o] = "done" ~> \/ offsets[m][o] # "done" \/ failed # {} \/ Leaked(m)
                                  \/ Times("refuse") + Times("recycle") > 0
=============================================================================
