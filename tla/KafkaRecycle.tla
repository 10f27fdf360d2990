----------------------------- MODULE KafkaRecycle -----------------------------
(***************************************************************************)
(* How a management replaces its Kafka consumer: requestConsumerRecycle,   *)
(* recycleConsumer and doRecycleConsumer of src/modules/kafka.js.          *)
(*                                                                         *)
(* A consumer is replaced when the topics changed, when it crashed, and    *)
(* when its commands failed for too long; the first one is made at boot.   *)
(* One recycle runs at a time and what is requested meanwhile makes one    *)
(* more.  Recycles are kept apart by DEBOUNCER_MINIMUM_WAIT, and a failed  *)
(* one is requested again later.                                           *)
(*                                                                         *)
(* The names say "Recycle" where KafkaOffsets has the same ones:           *)
(* KafkaProofs extends both modules.                                       *)
(***************************************************************************)
EXTENDS Integers

CONSTANTS
    Topic,            \* the topics there may be
    FirstTopic,       \* those that are known when the management starts
    MaxChanges,       \* bound: how often topics are announced or deprecated
    RecycleFaults,    \* some of "crash", "disconnect", "init", "command"
    MaxRecycleFaults, \* bound: how many of them happen
    MaxId             \* bound: how many consumers are made

ASSUME TopicAssumption == FirstTopic \subseteq Topic
ASSUME RecycleBoundsAssumption == {MaxChanges, MaxRecycleFaults, MaxId} \subseteq Nat

VARIABLES
    subscribableTopics,
    changes,            \* how often topics were announced or deprecated
    consumer,           \* the consumer of the application
    connected,          \* the consumers that consume
    currentConsumerIdCounter,
    consumerIdOnRecycle,
    callbacks,          \* the requests that the current recycle serves
    pending,            \* pendingRecycleConsumerCallbacks
    phase,              \* where doRecycleConsumer waits
    newTopics,          \* what the new consumer subscribes to
    recent,             \* less than DEBOUNCER_MINIMUM_WAIT since the last recycle?
    timers,             \* requests that wait to be made again
    ignored,            \* history: was a request ignored for a Deserted consumer,
                        \* and none taken up since?
    graceTimer,         \* the consumer whose commands fail, if the timer is set
    boot,               \* has the boot asked for its consumer, and got it?
    recycleFaults

topicVars    == <<subscribableTopics, changes>>
consumerVars == <<consumer, connected, currentConsumerIdCounter>>
recycleVars  == <<callbacks, pending, phase, newTopics, recent>>
requestVars  == <<consumerIdOnRecycle, timers, ignored>>
recyclerVars == <<topicVars, consumerVars, recycleVars, requestVars,
                  graceTimer, boot, recycleFaults>>

-----------------------------------------------------------------------------
(* No consumer is 0, like the null it compares as; undefined is the id of  *)
(* the consumer while there is none.                                       *)
None == 0
Undefined == -1
Id == 1..MaxId

Request == [id : {Undefined, None} \cup Id, boot : BOOLEAN]

NoConsumer == [id |-> None, topics |-> {}]

RecycleInit == /\ subscribableTopics = FirstTopic
               /\ changes = 0
               /\ consumer = NoConsumer
               /\ connected = {}
               /\ currentConsumerIdCounter = 0
               /\ consumerIdOnRecycle = None
               /\ callbacks = {} /\ pending = {}
               /\ phase = "idle"
               /\ newTopics = {}
               /\ recent = FALSE
               /\ timers = {}
               /\ ignored = FALSE
               /\ graceTimer = None
               /\ boot = "no"
               /\ recycleFaults = 0

RecycleFault(kind) == /\ kind \in RecycleFaults
                      /\ recycleFaults < MaxRecycleFaults
                      /\ recycleFaults' = recycleFaults + 1

-----------------------------------------------------------------------------
(* doRecycleConsumer up to its first await; without a consumer that is in  *)
(* initConsumers, which reads the topics first.                            *)
InitConsumers == /\ currentConsumerIdCounter < MaxId
                 /\ phase' = "init"
                 /\ currentConsumerIdCounter' = currentConsumerIdCounter + 1
                 /\ newTopics' = subscribableTopics'

DoRecycleConsumer(requests, current) ==
    /\ callbacks' = requests
    /\ recent' = TRUE
    /\ IF current = None
         THEN InitConsumers
         ELSE phase' = "disconnect" /\ UNCHANGED <<currentConsumerIdCounter, newTopics>>

RecycleConsumer(r) ==
    IF phase # "idle"
    THEN /\ pending' = pending \cup {r}
         /\ UNCHANGED <<callbacks, phase, newTopics, recent, currentConsumerIdCounter>>
    ELSE DoRecycleConsumer({r}, consumer.id) /\ UNCHANGED pending

(* requestConsumerRecycle.  The comparisons with null and undefined come   *)
(* out as in JavaScript.  Nothing is to be done when the consumer was      *)
(* replaced since, or is being replaced, and has the topics; if the one    *)
(* that replaced it has not, the request goes on for that one.             *)
(* Variant: no look at the topics.                                         *)
Older(id) == id # Undefined /\ id < consumer.id

OnRecycle(id) == /\ consumerIdOnRecycle \notin {None, Undefined}
                 /\ id # Undefined
                 /\ consumerIdOnRecycle >= id

AnyTopics(topics)  == TRUE
Subscribed(topics) == consumer.topics = topics

NothingToDo(id) ==
    /\ consumer.id # None
    /\ Subscribed(subscribableTopics')
    /\ Older(id) \/ OnRecycle(id)

(* What nobody should rely on: the consumer has the topics, but does not   *)
(* consume, and no recycle in progress reads them later or has read these. *)
Deserted == /\ consumer.topics = subscribableTopics'
            /\ consumer.id \notin connected'
            /\ phase # "disconnect" /\ pending = {}
            /\ ~(phase = "init" /\ newTopics = subscribableTopics')

For(id) == IF consumer.id # None /\ Older(id) THEN consumer.id ELSE id

(* "waiting" are the timers but the one whose request this is.             *)
RequestConsumerRecycle(id, b, waiting) ==
    \/ /\ NothingToDo(id)
       /\ boot' = IF b THEN "done" ELSE boot
       /\ timers' = waiting
       /\ ignored' = (ignored \/ Deserted)
       /\ UNCHANGED <<consumerIdOnRecycle, recycleVars, currentConsumerIdCounter>>
    \/ /\ ~NothingToDo(id)
       /\ boot' = IF b THEN "asked" ELSE boot
       /\ consumerIdOnRecycle' = For(id)
       /\ ignored' = FALSE
       /\ IF recent
            THEN /\ timers' = waiting \cup {[id |-> For(id), boot |-> b]}
                 /\ UNCHANGED <<recycleVars, currentConsumerIdCounter>>
            ELSE /\ timers' = waiting
                 /\ RecycleConsumer([id |-> For(id), boot |-> b])

-----------------------------------------------------------------------------
(* initTopics: what the boot waits for.                                    *)
Boot ==
    /\ boot = "no"
    /\ UNCHANGED <<topicVars, connected>>
    /\ RequestConsumerRecycle(None, TRUE, timers)
    /\ UNCHANGED <<consumer, graceTimer, recycleFaults>>

(* newUpstreamTopicEvent and deprecatedUpstreamTopicsEvent, each followed  *)
(* by upstreamTopicChangeEvent.                                            *)
CurrentId == IF consumer.id = None THEN Undefined ELSE consumer.id

TopicChanges(t) ==
    /\ changes < MaxChanges
    /\ changes' = changes + 1
    /\ UNCHANGED connected
    /\ subscribableTopics' = IF t \in subscribableTopics THEN subscribableTopics \ {t}
                                                         ELSE subscribableTopics \cup {t}
    /\ IF boot = "no"
         THEN UNCHANGED <<recycleVars, requestVars, currentConsumerIdCounter, boot>>
         ELSE RequestConsumerRecycle(CurrentId, FALSE, timers)
    /\ UNCHANGED <<consumer, graceTimer, recycleFaults>>

(* doOnConsumerCrash, for a crash that kafkajs does not restart after.     *)
ConsumerCrashes ==
    /\ RecycleFault("crash")
    /\ connected # {}
    /\ connected' = {}
    /\ UNCHANGED topicVars
    /\ RequestConsumerRecycle(consumer.id, FALSE, timers)
    /\ UNCHANGED <<consumer, graceTimer>>

(* onConsumerError, onConsumerSuccess and recycleConsumerAfterGracePeriod. *)
CommandFails ==
    /\ RecycleFault("command")
    /\ consumer.id # None
    /\ graceTimer = None
    /\ graceTimer' = consumer.id
    /\ UNCHANGED <<topicVars, consumerVars, recycleVars, requestVars, boot>>

CommandSucceeds ==
    /\ graceTimer # None
    /\ graceTimer' = None
    /\ UNCHANGED <<topicVars, consumerVars, recycleVars, requestVars, boot, recycleFaults>>

GracePeriodEnds ==
    /\ graceTimer # None
    /\ graceTimer' = None
    /\ UNCHANGED <<topicVars, connected>>
    /\ RequestConsumerRecycle(graceTimer, FALSE, timers)
    /\ UNCHANGED <<consumer, recycleFaults>>

(* retryRequestConsumerRecycle                                             *)
Retry(r) ==
    /\ r \in timers
    /\ UNCHANGED <<topicVars, connected>>
    /\ RequestConsumerRecycle(r.id, r.boot, timers \ {r})
    /\ UNCHANGED <<consumer, graceTimer, recycleFaults>>

CooldownEnds ==
    /\ recent
    /\ recent' = FALSE
    /\ UNCHANGED <<topicVars, consumerVars, callbacks, pending, phase, newTopics,
                   requestVars, graceTimer, boot, recycleFaults>>

-----------------------------------------------------------------------------
(* The end of doRecycleConsumer: what was requested meanwhile is served by *)
(* one more recycle.  The callbacks of a failed one try again later        *)
(* (variant: they give up).                                                *)
GiveUp(requests) == {}
Again(requests)  == requests

ServePending ==
    IF pending = {}
    THEN /\ phase' = "idle" /\ callbacks' = {}
         /\ UNCHANGED <<pending, newTopics, recent, currentConsumerIdCounter>>
    ELSE /\ DoRecycleConsumer(pending, consumer'.id)
         /\ pending' = {}

Fail == /\ timers' = timers \cup Again(callbacks)
        /\ UNCHANGED <<subscribableTopics, consumer, consumerIdOnRecycle, ignored, boot>>
        /\ ServePending

Disconnected ==
    /\ phase = "disconnect"
    /\ connected' = connected \ {consumer.id}
    /\ UNCHANGED topicVars
    /\ InitConsumers
    /\ UNCHANGED <<consumer, callbacks, pending, recent, requestVars, graceTimer, boot,
                   recycleFaults>>

(* Variant: the error is logged only.                                      *)
GoesOn == FALSE
StopsAtError == TRUE

DisconnectFails ==
    /\ phase = "disconnect"
    /\ RecycleFault("disconnect")
    /\ IF StopsAtError
         THEN Fail
         ELSE /\ UNCHANGED <<subscribableTopics, consumer, callbacks, pending, recent,
                             requestVars, boot>>
              /\ InitConsumers
    /\ UNCHANGED <<changes, connected, graceTimer>>

(* The counter was incremented before it was read.                         *)
NewConsumer == [id |-> currentConsumerIdCounter, topics |-> newTopics]

ConsumerRuns ==
    /\ phase = "init"
    /\ consumer' = NewConsumer
    /\ connected' = connected \cup {NewConsumer.id}
    /\ consumerIdOnRecycle' = None
    /\ boot' = IF \E r \in callbacks : r.boot THEN "done" ELSE boot
    /\ UNCHANGED <<topicVars, timers, ignored, graceTimer, recycleFaults>>
    /\ ServePending

InitFails ==
    /\ phase = "init"
    /\ RecycleFault("init")
    /\ Fail
    /\ UNCHANGED <<changes, connected, graceTimer>>

-----------------------------------------------------------------------------
RecycleNext == \/ Boot \/ (\E t \in Topic : TopicChanges(t)) \/ ConsumerCrashes
               \/ CommandFails \/ CommandSucceeds \/ GracePeriodEnds
               \/ (\E r \in Request : Retry(r)) \/ CooldownEnds
               \/ Disconnected \/ DisconnectFails \/ ConsumerRuns \/ InitFails

RecycleSpec == RecycleInit /\ [][RecycleNext]_recyclerVars

(* The management boots, timers fire, and Kafka answers one way or the     *)
(* other.                                                                  *)
RecycleFairness == /\ WF_recyclerVars(Boot)
                   /\ WF_recyclerVars(CooldownEnds)
                   /\ \A r \in Request : WF_recyclerVars(Retry(r))
                   /\ WF_recyclerVars(Disconnected) /\ WF_recyclerVars(ConsumerRuns)
RecycleFairSpec == RecycleSpec /\ RecycleFairness

-----------------------------------------------------------------------------
RecycleTypeOK == /\ subscribableTopics \subseteq Topic
                 /\ changes \in 0..MaxChanges
                 /\ consumer \in [id : {None} \cup Id, topics : SUBSET Topic]
                 /\ connected \subseteq Id
                 /\ currentConsumerIdCounter \in 0..MaxId
                 /\ consumerIdOnRecycle \in {Undefined, None} \cup Id
                 /\ callbacks \subseteq Request
                 /\ pending \subseteq Request
                 /\ phase \in {"idle", "disconnect", "init"}
                 /\ newTopics \subseteq Topic
                 /\ recent \in BOOLEAN
                 /\ timers \subseteq Request
                 /\ ignored \in BOOLEAN
                 /\ graceTimer \in {None} \cup Id
                 /\ boot \in {"no", "asked", "done"}
                 /\ recycleFaults \in 0..MaxRecycleFaults

(* No zombie: no other consumer consumes than the one the application      *)
(* knows, so there are never two, whatever fails in between.               *)
ConsumerIsCurrent == connected \subseteq {consumer.id}

(* The boot gets its consumer, however often it fails at first.            *)
BootCompletes == <>(boot = "done")

(* When topics change no more there is in the end a consumer that consumes *)
(* just them: however often they changed, whatever crashed or failed, and  *)
(* though recycles are folded and put off.  The exception is a request     *)
(* that was ignored for the sake of a consumer that is Deserted, until the *)
(* next one that is taken up.  Three kinds are: one that was put off, or   *)
(* whose recycle failed ("will retry", kafka.js:1291), finds the mark that *)
(* it left itself, as if a recycle were in progress (kafka.js:1268); one   *)
(* whose recycle failed finds a consumer newer than its own, which that    *)
(* very recycle disconnected (kafka.js:1257); one comes while a recycle    *)
(* in progress has read topics that changed since, and changed back.       *)
Consumes == consumer.id \in connected /\ consumer.topics = subscribableTopics

TopicsAreConsumed == <>[]Consumes \/ <>[]ignored
=============================================================================
