--------------------------- MODULE AgentKeepalive ---------------------------
(***************************************************************************)
(* How the managements learn that the agent of a client is alive, and that *)
(* it is not: src/modules/lastMessageLog.js, and the keepalive of the      *)
(* management agent in src/modules/client.js.                              *)
(*                                                                         *)
(* The agent's keepalives arrive on a Kafka topic, at one management after *)
(* the other, and are processed at least once.  Each one is logged (the    *)
(* document of the agent in lastMessageLog) and handled (the agent's       *)
(* status in the client document) by two writes that nobody orders.  Every *)
(* management looks for log documents that are too old, claims them one by *)
(* one, and marks the client DOWN.  A token, incremented when that         *)
(* happens, tells the keepalives before from those after: the agent has to *)
(* be told the new one before it can be UP again.                          *)
(***************************************************************************)
EXTENDS Integers, Sequences, FiniteSets

CONSTANTS
    Mgmt,       \* the managements
    Consumer,   \* those that may be assigned the partition of the topic
    NoMgmt,     \* modifiedBy of a document nobody claimed
    Faults,     \* some of "agent", "restart", "mgmt", "late", "redeliver"
    MaxFaults,  \* bound: how many of them there are, each once
    MaxSeq,     \* bound: the agent stops counting its messages there
    MaxTopic,   \* bound: the agent waits while that many are in the topic
    MaxToLog    \* bound: the keepalives a management has yet to log

ASSUME MgmtAssumption == Consumer \subseteq Mgmt /\ NoMgmt \notin Mgmt
ASSUME BoundsAssumption == {MaxFaults, MaxSeq, MaxTopic, MaxToLog} \subseteq Nat \ {0}

VARIABLES
    agent,     \* the agent: is it running, its token and sequence number
    topic,     \* its keepalives, oldest first
    client,    \* the client document
    log,       \* the document of the agent in lastMessageLog
    up,        \* is the management running?
    beating,   \* is its heartbeat recent?
    handling,  \* what it does with the first keepalive of the topic
    toLog,     \* the keepalives it has yet to log
    update,    \* the token it sends, in its debouncer or on the agent's topic
    loop,      \* its loop of keepalive validation
    faults     \* the faults there were so far

dbVars   == <<client, log>>
mgmtVars == <<up, beating, handling, toLog, update, loop>>
vars == <<agent, topic, dbVars, mgmtVars, faults>>

-----------------------------------------------------------------------------
NoToken == -1                      \* of an agent that was never told one

Token    == Nat \cup {NoToken}
Sequence == 0..MaxSeq
Update   == [token : Nat, seq : Sequence]

(* "late" is history: the agent was declared DOWN after it was sent.       *)
Keepalive == [token : Token, seq : Sequence, late : BOOLEAN]

Nothing == <<>>
NoClient == [status |-> "none", token |-> 0, seq |-> 0]
NoLog    == [status |-> "none", token |-> NoToken, seq |-> 0, old |-> FALSE,
             modifiedBy |-> NoMgmt]
Off      == [at |-> "off", token |-> NoToken, seq |-> 0, handler |-> NoMgmt]
Rest     == [Off EXCEPT !.at = "rest"]

(* An agent may have a token already, of a client document that was        *)
(* deleted since.                                                          *)
Init == /\ agent \in [up : {TRUE}, token : {NoToken, 1}, seq : {1}]
        /\ topic = <<>>
        /\ client = NoClient
        /\ log = NoLog
        /\ up = [m \in Mgmt |-> TRUE]
        /\ beating = [m \in Mgmt |-> TRUE]
        /\ handling = [m \in Mgmt |-> "nothing"]
        /\ toLog = [m \in Mgmt |-> {}]
        /\ update = [m \in Mgmt |-> Nothing]
        /\ loop = [m \in Mgmt |-> Rest]
        /\ faults = {}

Fault(kind) ==
    /\ kind \in Faults \ faults
    /\ Cardinality(faults) < MaxFaults
    /\ faults' = faults \cup {kind}

Set(f, m, x) == f' = [f EXCEPT ![m] = x]

-----------------------------------------------------------------------------
(* The agent, which is not part of this repository, as the managements and *)
(* their tests have it.                                                    *)
SendKeepalive ==
    /\ agent.up
    /\ Len(topic) < MaxTopic
    /\ topic' = Append(topic, [token |-> agent.token, seq |-> agent.seq, late |-> FALSE])
    /\ agent' = [agent EXCEPT !.seq = IF @ < MaxSeq THEN @ + 1 ELSE @]
    /\ UNCHANGED <<dbVars, mgmtVars, faults>>

TakeToken(m) ==
    /\ agent.up
    /\ update[m] # Nothing
    /\ agent' = [agent EXCEPT !.token = update[m][1].token, !.seq = update[m][1].seq]
    /\ Set(update, m, Nothing)
    /\ UNCHANGED <<topic, dbVars, up, beating, handling, toLog, loop, faults>>

(* What was sent to it when it restarts is lost on it.                     *)
AgentCrash ==
    /\ agent.up
    /\ Fault("agent")
    /\ agent' = [up |-> FALSE, token |-> NoToken, seq |-> 1]
    /\ UNCHANGED <<topic, dbVars, mgmtVars>>

AgentRestart ==
    /\ ~agent.up
    /\ Fault("restart")
    /\ agent' = [agent EXCEPT !.up = TRUE]
    /\ update' = [m \in Mgmt |-> Nothing]
    /\ UNCHANGED <<topic, dbVars, up, beating, handling, toLog, loop>>

-----------------------------------------------------------------------------
LastMessage(keepalive) == [token |-> keepalive.token, seq |-> keepalive.seq]

(* routeMessage: a keepalive is logged and handled at once.                *)
Receive(m) ==
    /\ up[m] /\ m \in Consumer
    /\ topic # <<>>
    /\ \A n \in Mgmt : handling[n] = "nothing"
    /\ Cardinality(toLog[m]) < MaxToLog
    /\ Set(handling, m, IF Head(topic).token = NoToken THEN "first" ELSE "status")
    /\ Set(toLog, m, toLog[m] \cup {LastMessage(Head(topic))})
    /\ UNCHANGED <<agent, topic, dbVars, up, beating, update, loop, faults>>

(* logMessage: an upsert that finds nothing when the token is older, and   *)
(* then fails as the document exists.  (modifiedBy means nothing unless    *)
(* the document is being handled.)                                         *)
LogMessage(m, message) ==
    /\ message \in toLog[m]
    /\ Set(toLog, m, toLog[m] \ {message})
    /\ log' = IF log.status = "none" \/ log.token <= message.token
                THEN [log EXCEPT !.status = "live", !.token = message.token,
                                 !.seq = message.seq, !.old = FALSE, !.modifiedBy = NoMgmt]
                ELSE log
    /\ UNCHANGED <<agent, topic, client, up, beating, handling, update, loop, faults>>

(* UpdateAgentToken, by way of the debouncer: of several calls the last    *)
(* one counts.                                                             *)
TokenOf(doc) == <<[token |-> doc.token, seq |-> IF doc.seq = 0 THEN 1 ELSE doc.seq]>>

(* setManagementAgentStatus, its query: UP for the first, DOWN for the     *)
(* second, which begins a new token.  Variants: it keeps the old one, and  *)
(* it counts the sequence on.                                              *)
Matches(token, seq) == client.status # "none" /\ client.token = token /\ client.seq <= seq

SetUp(message) == [client EXCEPT !.status = "UP", !.seq = message.seq]

SetDownOnly(seq) == [client EXCEPT !.status = "DOWN", !.seq = seq]
SetDownNext(seq) == [client EXCEPT !.status = "DOWN", !.token = @ + 1, !.seq = seq + 1]
SetDown(seq) == [client EXCEPT !.status = "DOWN", !.token = @ + 1, !.seq = seq]

(* The callback, and the commit of the offset: it may fail, and the        *)
(* message come once more.                                                 *)
Done(m) ==
    /\ Set(handling, m, "nothing")
    /\ \/ topic' = Tail(topic) /\ UNCHANGED faults
       \/ UNCHANGED topic /\ Fault("redeliver")

Create(token) ==
    IF client.status = "none"
      THEN [status |-> "UP", token |-> token, seq |-> 0]
      ELSE client

(* handleAgentFirstKeepAlive.                                              *)
HandleFirstKeepalive(m) ==
    /\ handling[m] = "first"
    /\ client' = Create(1)
    /\ Set(update, m, TokenOf(client'))
    /\ Done(m)
    /\ UNCHANGED <<agent, log, up, beating, toLog, loop>>

HandleKeepalive(m) ==
    /\ handling[m] = "status"
    /\ LET message == Head(topic) IN
       IF Matches(message.token, message.seq)
         THEN client' = SetUp(message) /\ Done(m)
         ELSE /\ Set(handling, m, "resend")
              /\ UNCHANGED <<client, topic, faults>>
    /\ UNCHANGED <<agent, log, up, beating, toLog, update, loop>>

(* resendAgentTokenIfNeeded.  Variant: it never is.                        *)
ResendNothing(m, token) == UNCHANGED update
ResendIfNeeded(m, token) ==
    IF client.status # "none" /\ client.token > token
      THEN Set(update, m, TokenOf(client))
      ELSE UNCHANGED update

ResendToken(m) ==
    /\ handling[m] = "resend"
    /\ IF client.status = "none"
         THEN /\ client' = Create(Head(topic).token)
              /\ Set(update, m, TokenOf(client'))
         ELSE ResendIfNeeded(m, Head(topic).token) /\ UNCHANGED client
    /\ Done(m)
    /\ UNCHANGED <<agent, log, up, beating, toLog, loop>>

-----------------------------------------------------------------------------
(* The loop of startKeepaliveValidationInterval: a round that finds        *)
(* nothing to recover and nothing that timed out changes nothing.          *)
Loop(m, from, new) == loop[m].at = from /\ Set(loop, m, new)

(* recoverStaleHandlings: a claim that is too old.                         *)
FindStaleHandling(m) ==
    /\ log.status = "handling" /\ log.old
    /\ Loop(m, "rest", [Off EXCEPT !.at = "check", !.handler = log.modifiedBy])
    /\ UNCHANGED <<agent, topic, dbVars, up, beating, handling, toLog, update, faults>>

(* checkIfRemoteManagementIsAlive, unless it is its own; if that one is    *)
(* alive the callback is never called.                                     *)
CheckHandler(m) ==
    /\ loop[m].at = "check"
    /\ LET h == loop[m].handler IN
       Set(loop, m, [loop[m] EXCEPT !.at = IF h # m /\ beating[h] THEN "stuck" ELSE "reset"])
    /\ UNCHANGED <<agent, topic, dbVars, up, beating, handling, toLog, update, faults>>

(* recoverStaleHandlingsComponenet.                                        *)
ResetHandling(m) ==
    /\ log' = IF log.status = "handling" /\ log.old /\ log.modifiedBy = loop[m].handler
                THEN [log EXCEPT !.status = "live", !.modifiedBy = NoMgmt]
                ELSE log
    /\ Loop(m, "reset", Rest)
    /\ UNCHANGED <<agent, topic, client, up, beating, handling, toLog, update, faults>>

(* getTimedOutComponent: the document as it was before.                    *)
GetTimedOut(m) ==
    /\ log.status = "live" /\ log.old
    /\ Loop(m, "rest", [Off EXCEPT !.at = "down", !.token = log.token, !.seq = log.seq])
    /\ log' = [log EXCEPT !.status = "handling", !.modifiedBy = m, !.old = FALSE]
    /\ UNCHANGED <<agent, topic, client, up, beating, handling, toLog, update, faults>>

(* handleAgentTimeout; what the debouncer holds back is discarded, what it *)
(* has sent is not.                                                        *)
HandleTimeout(m) ==
    /\ loop[m].at = "down"
    /\ Set(update, m, Nothing) \/ UNCHANGED update
    /\ IF Matches(loop[m].token, loop[m].seq)
         THEN /\ client' = SetDown(loop[m].seq)
              /\ topic' = [i \in 1..Len(topic) |-> [topic[i] EXCEPT !.late = TRUE]]
              /\ Set(loop, m, [Off EXCEPT !.at = "mark"])
         ELSE /\ Set(loop, m, [loop[m] EXCEPT !.at = "resend"])
              /\ UNCHANGED <<client, topic>>
    /\ UNCHANGED <<agent, log, up, beating, handling, toLog, faults>>

ResendAfterTimeout(m) ==
    /\ ResendIfNeeded(m, loop[m].token)
    /\ Loop(m, "resend", [Off EXCEPT !.at = "mark"])
    /\ UNCHANGED <<agent, topic, dbVars, up, beating, handling, toLog, faults>>

(* markComponentAsHandled.  Variant: whatever became of the document.      *)
MarkAny(m) == TRUE
MarkOwn(m) == log.status = "handling" /\ log.modifiedBy = m

MarkAsHandled(m) ==
    /\ log' = IF MarkOwn(m)
                THEN [log EXCEPT !.status = "timed out", !.modifiedBy = NoMgmt]
                ELSE log
    /\ Loop(m, "mark", Rest)
    /\ UNCHANGED <<agent, topic, client, up, beating, handling, toLog, update, faults>>

-----------------------------------------------------------------------------
(* Time and crashes.  A time-out without a keepalive; it takes longer than *)
(* the creation of a client.                                               *)
Creating == client.status = "none" /\ \E m \in Mgmt : handling[m] # "nothing"

LogAges ==
    /\ log.status \in {"live", "handling"} /\ ~log.old /\ ~Creating
    /\ log' = [log EXCEPT !.old = TRUE]
    /\ IF \/ log.status = "live" /\ agent.up
          \/ log.status = "handling" /\ loop[log.modifiedBy].at \in {"down", "resend", "mark"}
         THEN Fault("late")
         ELSE UNCHANGED faults
    /\ UNCHANGED <<agent, topic, client, mgmtVars>>

Crash(m) ==
    /\ up[m]
    /\ Fault("mgmt")
    /\ Set(up, m, FALSE) /\ Set(handling, m, "nothing") /\ Set(toLog, m, {})
    /\ Set(loop, m, Off)
    /\ Set(update, m, Nothing) \/ UNCHANGED update
    /\ UNCHANGED <<agent, topic, dbVars, beating>>

Restart(m) ==
    /\ ~up[m]
    /\ Set(up, m, TRUE) /\ Set(beating, m, TRUE) /\ Set(loop, m, Rest)
    /\ UNCHANGED <<agent, topic, dbVars, handling, toLog, update, faults>>

HeartbeatExpires(m) ==
    /\ ~up[m] /\ beating[m]
    /\ Set(beating, m, FALSE)
    /\ UNCHANGED <<agent, topic, dbVars, up, handling, toLog, update, loop, faults>>

-----------------------------------------------------------------------------
Consume(m) == \/ Receive(m) \/ HandleFirstKeepalive(m) \/ HandleKeepalive(m)
              \/ ResendToken(m)
              \/ \E message \in toLog[m] : LogMessage(m, message)
Validate(m) == \/ FindStaleHandling(m) \/ CheckHandler(m) \/ ResetHandling(m)
               \/ GetTimedOut(m) \/ HandleTimeout(m) \/ ResendAfterTimeout(m)
               \/ MarkAsHandled(m)
Agent == SendKeepalive \/ \E m \in Mgmt : TakeToken(m)

Next == \/ Agent \/ AgentCrash \/ AgentRestart
        \/ \E m \in Mgmt : Consume(m) \/ Validate(m) \/ Crash(m) \/ Restart(m)
                           \/ HeartbeatExpires(m)
        \/ LogAges

Spec == Init /\ [][Next]_vars

(* What runs goes on, each of its activities for itself, and time passes.  *)
Fairness ==
    /\ WF_vars(SendKeepalive)
    /\ WF_vars(\E m \in Mgmt : Receive(m))
    /\ WF_vars(\E m \in Mgmt : HandleFirstKeepalive(m) \/ HandleKeepalive(m) \/ ResendToken(m))
    /\ \A m \in Mgmt : /\ WF_vars(TakeToken(m)) /\ WF_vars(Validate(m))
                       /\ WF_vars(\E message \in toLog[m] : LogMessage(m, message))
                       /\ WF_vars(HeartbeatExpires(m))
    /\ WF_vars(LogAges /\ UNCHANGED faults)
FairSpec == Spec /\ Fairness

-----------------------------------------------------------------------------
TypeOK ==
    /\ agent \in [up : BOOLEAN, token : Token, seq : Sequence]
    /\ topic \in Seq(Keepalive) /\ Len(topic) <= MaxTopic
    /\ client \in [status : {"none", "UP", "DOWN"}, token : Nat, seq : Sequence]
    /\ log \in [status : {"none", "live", "handling", "timed out"}, token : Token,
                seq : Sequence, old : BOOLEAN, modifiedBy : Mgmt \cup {NoMgmt}]
    /\ up \in [Mgmt -> BOOLEAN] /\ beating \in [Mgmt -> BOOLEAN]
    /\ handling \in [Mgmt -> {"nothing", "first", "status", "resend"}]
    /\ toLog \in [Mgmt -> SUBSET [token : Token, seq : Sequence]]
    /\ update \in [Mgmt -> Seq(Update)]
    /\ loop \in [Mgmt -> [at : {"off", "rest", "check", "stuck", "reset", "down",
                                "resend", "mark"},
                          token : Token, seq : Sequence, handler : Mgmt \cup {NoMgmt}]]
    /\ faults \subseteq Faults

(* A keepalive that was sent before the agent was declared DOWN does not   *)
(* bring it back, however late it is handled and however often.            *)
LateKeepaliveIgnored ==
    [][ client.status = "DOWN" /\ client'.status = "UP" => ~Head(topic).late ]_vars

(* An agent that crashed is DOWN in the end, if its last keepalive had the *)
(* token of the client and was logged (a crash of the management may lose  *)
(* that), as long as the loop of one management goes on: no timeout is     *)
(* lost in claims, recoveries and keepalives that come late.               *)
Logged == log.token = client.token /\ log.seq >= client.seq
NoLoop == \A m \in Mgmt : loop[m].at \in {"off", "stuck"}

SilentAgentGoesDown ==
    client.status = "UP" /\ Logged /\ ~agent.up
        ~> client.status = "DOWN" \/ ~Logged \/ agent.up \/ NoLoop

(* An agent that runs is UP in the end, whatever crashed, came late or was *)
(* timed out by mistake: it is told the token it needs.                    *)
LiveAgentComesUp ==
    agent.up ~> client.status = "UP" \/ ~agent.up \/ \A m \in Consumer : ~up[m]
=============================================================================
