------------------------ MODULE AgentKeepaliveProofs ------------------------
(***************************************************************************)
(* Theorems about module AgentKeepalive: its types, and that a keepalive   *)
(* of an earlier life of the agent does not bring it back.                 *)
(***************************************************************************)
EXTENDS AgentKeepalive, TLAPS

(* One management at a time has the first keepalive of the topic; it asks  *)
(* for the status of the agent only if the keepalive has a token.          *)
HandlingInv ==
    \A m \in Mgmt : handling[m] # "nothing" =>
        /\ topic # <<>>
        /\ handling[m] \in {"status", "resend"} => Head(topic).token # NoToken
        /\ \A n \in Mgmt : handling[n] # "nothing" => n = m

(* No token is ahead of the client's, and those of keepalives that were    *)
(* sent before it was declared DOWN are behind.  Before there is a client  *)
(* nobody was told a token, but by an earlier client.                      *)
NoClientInv ==
    client.status = "none" =>
        /\ agent.token \in {NoToken, 1}
        /\ \A i \in 1..Len(topic) : topic[i].token \in {NoToken, 1} /\ ~topic[i].late
        /\ \A m \in Mgmt : update[m] = <<>>

TokenInv ==
    client.status # "none" =>
        /\ agent.token <= client.token
        /\ \A i \in 1..Len(topic) : topic[i].token <= client.token
        /\ \A i \in 1..Len(topic) : topic[i].late => topic[i].token < client.token
        /\ \A m \in Mgmt : update[m] # <<>> => update[m][1].token <= client.token

IInv == TypeOK /\ HandlingInv /\ NoClientInv /\ TokenInv

-----------------------------------------------------------------------------
LEMMA Constants ==
    /\ NoToken \in Token /\ NoToken \in Int
    /\ MaxSeq \in Nat /\ MaxTopic \in Nat
    /\ 0 \in Sequence /\ 1 \in Sequence /\ Sequence \subseteq Nat
    /\ \A t \in Token : t \in Int /\ t >= NoToken /\ (t # NoToken => t \in Nat)
  BY BoundsAssumption DEF NoToken, Token, Sequence

(* Sequences, whatever their elements are.                                 *)
LEMMA OneOrNone == ASSUME NEW S, NEW x \in S PROVE <<>> \in Seq(S) /\ <<x>> \in Seq(S)
  OBVIOUS

LEMMA AppendFacts ==
    ASSUME NEW S, NEW s \in Seq(S), NEW x \in S
    PROVE  /\ Append(s, x) \in Seq(S) /\ Len(Append(s, x)) = Len(s) + 1
           /\ \A i \in 1..Len(s) : Append(s, x)[i] = s[i]
           /\ Append(s, x)[Len(s) + 1] = x
  OBVIOUS

LEMMA HeadTailFacts ==
    ASSUME NEW S, NEW s \in Seq(S), s # <<>>
    PROVE  /\ Head(s) \in S /\ Head(s) = s[1] /\ 1 \in 1..Len(s)
           /\ Tail(s) \in Seq(S) /\ Len(Tail(s)) = Len(s) - 1
           /\ \A i \in 1..Len(Tail(s)) : i + 1 \in 1..Len(s) /\ Tail(s)[i] = s[i + 1]
  OBVIOUS

LEMMA ElementFacts ==
    ASSUME NEW S, NEW s \in Seq(S)
    PROVE  Len(s) \in Nat /\ \A i \in 1..Len(s) : s[i] \in S
  OBVIOUS

LEMMA FunctionIsSeq ==
    ASSUME NEW S, NEW n \in Nat, NEW f \in [1..n -> S]
    PROVE  f \in Seq(S) /\ Len(f) = n
  OBVIOUS

LEMMA ExceptFacts ==
    ASSUME NEW D, NEW S, NEW f \in [D -> S], NEW d \in D, NEW x \in S
    PROVE  [f EXCEPT ![d] = x] \in [D -> S]
  OBVIOUS

LEMMA UpdateType ==
    ASSUME TypeOK, NEW m \in Mgmt, NEW u \in Seq(Update), Set(update, m, u)
    PROVE  update' \in [Mgmt -> Seq(Update)]
  <1>1. update \in [Mgmt -> Seq(Update)]
    BY DEF TypeOK
  <1>2. update' = [update EXCEPT ![m] = u]
    BY DEF Set
  <1> QED BY <1>1, <1>2, ExceptFacts

LEMMA NothingType == Nothing \in Seq(Update)
  BY DEF Nothing

LEMMA FaultType == ASSUME TypeOK, NEW kind, Fault(kind) PROVE faults' \subseteq Faults
  BY DEF TypeOK, Fault

LEMMA TokenOfType ==
    ASSUME NEW doc \in [status : {"none", "UP", "DOWN"}, token : Nat, seq : Sequence]
    PROVE  /\ TokenOf(doc) \in Seq(Update)
           /\ TokenOf(doc) # <<>> /\ TokenOf(doc)[1].token = doc.token
  <1> DEFINE u == [token |-> doc.token, seq |-> IF doc.seq = 0 THEN 1 ELSE doc.seq]
  <1>1. u \in Update /\ u.token = doc.token
    BY Constants DEF Update
  <1>2. TokenOf(doc) = <<u>>
    BY DEF TokenOf
  <1> HIDE DEF u
  <1> QED BY <1>1, <1>2, OneOrNone

LEMMA RestType == Rest \in [at : {"rest"}, token : Token, seq : Sequence, handler : {NoMgmt}]
  BY Constants DEF Rest, Off

(* The first keepalive, and what is left of the topic after it.            *)
LEMMA TopicFacts ==
    ASSUME TypeOK, topic # <<>>
    PROVE  /\ Head(topic) \in Keepalive
           /\ Tail(topic) \in Seq(Keepalive) /\ Len(Tail(topic)) <= MaxTopic
           /\ Head(topic) = topic[1] /\ 1 \in 1..Len(topic)
  <1>1. topic \in Seq(Keepalive) /\ Len(topic) <= MaxTopic
    BY DEF TypeOK
  <1> QED BY <1>1, HeadTailFacts, Constants

(* The end of handling a keepalive.                                        *)
LEMMA DoneType ==
    ASSUME TypeOK, NEW m \in Mgmt, Done(m), topic # <<>>
    PROVE  /\ handling' \in [Mgmt -> {"nothing", "first", "status", "resend"}]
           /\ topic' \in Seq(Keepalive) /\ Len(topic') <= MaxTopic
           /\ faults' \subseteq Faults
  <1>1. handling' \in [Mgmt -> {"nothing", "first", "status", "resend"}]
    BY DEF Done, Set, TypeOK
  <1>2. CASE topic' = Tail(topic) /\ UNCHANGED faults
    BY <1>1, <1>2, TopicFacts DEF TypeOK
  <1>3. CASE UNCHANGED topic /\ Fault("redeliver")
    BY <1>1, <1>3, FaultType DEF TypeOK
  <1> QED BY <1>2, <1>3 DEF Done

-----------------------------------------------------------------------------
(* Types.                                                                  *)
LEMMA AgentType ==
    ASSUME TypeOK,
           SendKeepalive \/ (\E m \in Mgmt : TakeToken(m)) \/ AgentCrash \/ AgentRestart
    PROVE  TypeOK'
  <1> USE Constants
  <1>1. CASE SendKeepalive
    <2> DEFINE k == [token |-> agent.token, seq |-> agent.seq, late |-> FALSE]
    <2>1. k \in Keepalive
      BY DEF TypeOK, Keepalive
    <2>2. topic' = Append(topic, k) /\ Len(topic) < MaxTopic
      BY <1>1 DEF SendKeepalive
    <2> HIDE DEF k
    <2>3. topic' \in Seq(Keepalive) /\ Len(topic') <= MaxTopic
      <3>1. topic \in Seq(Keepalive)
        BY DEF TypeOK
      <3> QED BY <2>1, <2>2, <3>1, AppendFacts
    <2>4. agent' \in [up : BOOLEAN, token : Token, seq : Sequence]
      <3>1. agent.seq \in 0..MaxSeq
        BY DEF TypeOK, Sequence
      <3>2. (IF agent.seq < MaxSeq THEN agent.seq + 1 ELSE agent.seq) \in Sequence
        BY <3>1 DEF Sequence
      <3> QED BY <1>1, <3>2 DEF SendKeepalive, TypeOK
    <2> QED BY <1>1, <2>3, <2>4 DEF SendKeepalive, dbVars, mgmtVars, TypeOK
  <1>2. ASSUME NEW m \in Mgmt, TakeToken(m) PROVE TypeOK'
    <2>1. update[m] \in Seq(Update) /\ update[m] # <<>>
      BY <1>2 DEF TakeToken, TypeOK, Nothing
    <2>2. update[m][1] \in Update
      BY <2>1
    <2>3. agent' \in [up : BOOLEAN, token : Token, seq : Sequence]
      BY <1>2, <2>2 DEF TakeToken, TypeOK, Update, Token
    <2>4. update' \in [Mgmt -> Seq(Update)]
      BY <1>2, UpdateType, NothingType DEF TakeToken
    <2> QED BY <1>2, <2>3, <2>4 DEF TakeToken, dbVars, TypeOK
  <1>3. CASE AgentCrash
    <2>1. agent' \in [up : BOOLEAN, token : Token, seq : Sequence]
      BY <1>3 DEF AgentCrash
    <2>2. faults' \subseteq Faults
      BY <1>3, FaultType DEF AgentCrash
    <2> QED BY <1>3, <2>1, <2>2 DEF AgentCrash, dbVars, mgmtVars, TypeOK
  <1>4. CASE AgentRestart
    <2>1. agent' \in [up : BOOLEAN, token : Token, seq : Sequence]
      BY <1>4 DEF AgentRestart, TypeOK
    <2>2. faults' \subseteq Faults
      BY <1>4, FaultType DEF AgentRestart
    <2>3. update' \in [Mgmt -> Seq(Update)]
      BY <1>4, OneOrNone DEF AgentRestart, Nothing
    <2> QED BY <1>4, <2>1, <2>2, <2>3 DEF AgentRestart, dbVars, TypeOK
  <1> QED BY <1>1, <1>2, <1>3, <1>4

LEMMA ReceiveType ==
    ASSUME TypeOK, NEW m \in Mgmt,
           Receive(m) \/ \E message \in toLog[m] : LogMessage(m, message)
    PROVE  TypeOK'
  <1>1. CASE Receive(m)
    <2>1. Head(topic) \in Keepalive
      BY <1>1, TopicFacts DEF Receive
    <2>2. LastMessage(Head(topic)) \in [token : Token, seq : Sequence]
      BY <2>1 DEF LastMessage, Keepalive
    <2>3. toLog' \in [Mgmt -> SUBSET [token : Token, seq : Sequence]]
      <3>1. toLog \in [Mgmt -> SUBSET [token : Token, seq : Sequence]]
        BY DEF TypeOK
      <3>2. toLog' = [toLog EXCEPT ![m] = toLog[m] \cup {LastMessage(Head(topic))}]
        BY <1>1 DEF Receive, Set
      <3>3. toLog[m] \cup {LastMessage(Head(topic))} \in SUBSET [token : Token, seq : Sequence]
        BY <2>2, <3>1
      <3> QED BY <3>1, <3>2, <3>3
    <2>4. handling' \in [Mgmt -> {"nothing", "first", "status", "resend"}]
      BY <1>1 DEF Receive, Set, TypeOK
    <2> QED BY <1>1, <2>3, <2>4 DEF Receive, dbVars, TypeOK
  <1>2. ASSUME NEW message \in toLog[m], LogMessage(m, message) PROVE TypeOK'
    <2>1. message \in [token : Token, seq : Sequence]
      BY DEF TypeOK
    <2>2. toLog' \in [Mgmt -> SUBSET [token : Token, seq : Sequence]]
      BY <1>2 DEF LogMessage, Set, TypeOK
    <2>3. log' \in [status : {"none", "live", "handling", "timed out"}, token : Token,
                    seq : Sequence, old : BOOLEAN, modifiedBy : Mgmt \cup {NoMgmt}]
      BY <1>2, <2>1 DEF LogMessage, TypeOK
    <2> QED BY <1>2, <2>2, <2>3 DEF LogMessage, TypeOK
  <1> QED BY <1>1, <1>2

LEMMA HandleType ==
    ASSUME TypeOK, HandlingInv, NEW m \in Mgmt,
           HandleFirstKeepalive(m) \/ HandleKeepalive(m) \/ ResendToken(m)
    PROVE  TypeOK'
  <1> DEFINE Client == [status : {"none", "UP", "DOWN"}, token : Nat, seq : Sequence]
  <1>1. topic # <<>>
    BY DEF HandlingInv, HandleFirstKeepalive, HandleKeepalive, ResendToken
  <1>2. Head(topic) \in Keepalive
    BY <1>1, TopicFacts
  <1>3. client \in Client
    BY DEF TypeOK
  <1>4. \A t \in Nat : Create(t) \in Client
    BY <1>3, Constants DEF Create
  <1>5. \A doc \in Client : Set(update, m, TokenOf(doc)) => update' \in [Mgmt -> Seq(Update)]
    BY TokenOfType, UpdateType
  <1>6. CASE HandleFirstKeepalive(m)
    <2>1. client' \in Client /\ update' \in [Mgmt -> Seq(Update)]
      BY <1>4, <1>5, <1>6 DEF HandleFirstKeepalive
    <2> QED BY <1>1, <1>6, <2>1, DoneType DEF HandleFirstKeepalive, TypeOK
  <1>7. CASE HandleKeepalive(m)
    <2>1. CASE Matches(Head(topic).token, Head(topic).seq)
      <3>1. client' \in Client
        BY <1>2, <1>3, <1>7, <2>1 DEF HandleKeepalive, SetUp, Keepalive
      <3>2. Done(m)
        BY <1>7, <2>1 DEF HandleKeepalive
      <3> QED BY <1>1, <1>7, <3>1, <3>2, DoneType DEF HandleKeepalive, TypeOK
    <2>2. CASE ~Matches(Head(topic).token, Head(topic).seq)
      BY <1>7, <2>2 DEF HandleKeepalive, Set, TypeOK
    <2> QED BY <2>1, <2>2
  <1>8. CASE ResendToken(m)
    <2>1. Head(topic).token \in Nat
      BY <1>2, <1>8, Constants DEF ResendToken, HandlingInv, Keepalive
    <2>2. client' \in Client /\ update' \in [Mgmt -> Seq(Update)]
      BY <1>3, <1>4, <1>5, <1>8, <2>1 DEF ResendToken, ResendIfNeeded, TypeOK
    <2> QED BY <1>1, <1>8, <2>2, DoneType DEF ResendToken, TypeOK
  <1> QED BY <1>6, <1>7, <1>8

LEMMA SetDownDoc ==
    ASSUME TypeOK, NEW seq
    PROVE  SetDown(seq) = [status |-> "DOWN", token |-> client.token + 1, seq |-> seq]
  <1>1. client \in [status : {"none", "UP", "DOWN"}, token : Nat, seq : Sequence]
    BY DEF TypeOK
  <1>2. SetDown(seq) = [[[client EXCEPT !.status = "DOWN"]
                           EXCEPT !.token = client.token + 1] EXCEPT !.seq = seq]
    BY <1>1 DEF SetDown
  <1> QED BY <1>1, <1>2

LEMMA ValidateType == ASSUME TypeOK, NEW m \in Mgmt, Validate(m) PROVE TypeOK'
  <1> DEFINE LoopDoc == [at : {"off", "rest", "check", "stuck", "reset", "down",
                               "resend", "mark"},
                         token : Token, seq : Sequence, handler : Mgmt \cup {NoMgmt}]
             LogDoc == [status : {"none", "live", "handling", "timed out"}, token : Token,
                        seq : Sequence, old : BOOLEAN, modifiedBy : Mgmt \cup {NoMgmt}]
  <1>1. /\ loop[m] \in LoopDoc /\ log \in LogDoc
        /\ Off \in LoopDoc /\ Rest \in LoopDoc
    BY Constants DEF TypeOK, Off, Rest
  <1>0. loop \in [Mgmt -> LoopDoc]
    BY DEF TypeOK
  <1>2. \A doc \in LoopDoc : Set(loop, m, doc) => loop' \in [Mgmt -> LoopDoc]
    <2> HIDE DEF LoopDoc
    <2> QED BY <1>0 DEF Set
  <1>3. CASE FindStaleHandling(m)
    <2>1. [Off EXCEPT !.at = "check", !.handler = log.modifiedBy] \in LoopDoc
      BY <1>1
    <2>2. Set(loop, m, [Off EXCEPT !.at = "check", !.handler = log.modifiedBy])
      BY <1>3 DEF FindStaleHandling, Loop
    <2>3. loop' \in [Mgmt -> LoopDoc]
      BY <1>2, <2>1, <2>2
    <2> QED BY <1>3, <2>3 DEF FindStaleHandling, dbVars, TypeOK
  <1>4. CASE CheckHandler(m)
    <2>1. /\ [loop[m] EXCEPT !.at = "stuck"] \in LoopDoc
          /\ [loop[m] EXCEPT !.at = "reset"] \in LoopDoc
      BY <1>1
    <2>2. loop' \in [Mgmt -> LoopDoc]
      BY <1>2, <1>4, <2>1 DEF CheckHandler
    <2> QED BY <1>4, <2>2 DEF CheckHandler, dbVars, TypeOK
  <1>5. CASE ResetHandling(m)
    <2>1. log' \in LogDoc
      BY <1>1, <1>5 DEF ResetHandling
    <2>2. loop' \in [Mgmt -> LoopDoc]
      BY <1>1, <1>2, <1>5 DEF ResetHandling, Loop
    <2> QED BY <1>5, <2>1, <2>2 DEF ResetHandling, TypeOK
  <1>6. CASE GetTimedOut(m)
    <2>1. [Off EXCEPT !.at = "down", !.token = log.token, !.seq = log.seq] \in LoopDoc
      BY <1>1
    <2>2. log' \in LogDoc
      BY <1>1, <1>6 DEF GetTimedOut
    <2>3. loop' \in [Mgmt -> LoopDoc]
      BY <1>2, <1>6, <2>1 DEF GetTimedOut, Loop
    <2> QED BY <1>6, <2>2, <2>3 DEF GetTimedOut, TypeOK
  <1>7. CASE HandleTimeout(m)
    <2>1. update' \in [Mgmt -> Seq(Update)]
      BY <1>7, UpdateType, NothingType DEF HandleTimeout, TypeOK
    <2>2. /\ [loop[m] EXCEPT !.at = "resend"] \in LoopDoc
          /\ [Off EXCEPT !.at = "mark"] \in LoopDoc
      BY <1>1
    <2>3. loop' \in [Mgmt -> LoopDoc]
      BY <1>2, <1>7, <2>2 DEF HandleTimeout
    <2>4. client' \in [status : {"none", "UP", "DOWN"}, token : Nat, seq : Sequence]
      <3>1. loop[m].seq \in Sequence /\ client.token \in Nat
        BY <1>1 DEF TypeOK
      <3>2. SetDown(loop[m].seq) \in [status : {"none", "UP", "DOWN"}, token : Nat,
                                      seq : Sequence]
        <4>1. SetDown(loop[m].seq) = [status |-> "DOWN", token |-> client.token + 1,
                                      seq |-> loop[m].seq]
          BY SetDownDoc
        <4>2. client.token + 1 \in Nat
          BY <3>1
        <4> QED BY <3>1, <4>1, <4>2
      <3> QED BY <1>7, <3>2 DEF HandleTimeout, TypeOK
    <2>5. topic' \in Seq(Keepalive) /\ Len(topic') <= MaxTopic
      <3>1. CASE UNCHANGED topic
        BY <3>1 DEF TypeOK
      <3>2. CASE topic' = [i \in 1..Len(topic) |-> [topic[i] EXCEPT !.late = TRUE]]
        <4>1. topic \in Seq(Keepalive) /\ Len(topic) <= MaxTopic
          BY DEF TypeOK
        <4>2. Len(topic) \in Nat /\ \A i \in 1..Len(topic) : topic[i] \in Keepalive
          BY <4>1, ElementFacts
        <4>3. \A i \in 1..Len(topic) : [topic[i] EXCEPT !.late = TRUE] \in Keepalive
          BY <4>2 DEF Keepalive
        <4>4. topic' \in [1..Len(topic) -> Keepalive]
          BY <3>2, <4>3
        <4> QED BY <4>1, <4>2, <4>4, FunctionIsSeq
      <3> QED BY <1>7, <3>1, <3>2 DEF HandleTimeout
    <2> QED BY <1>7, <2>1, <2>3, <2>4, <2>5 DEF HandleTimeout, TypeOK
  <1>8. CASE ResendAfterTimeout(m)
    <2>1. update' \in [Mgmt -> Seq(Update)]
      BY <1>8, TokenOfType, UpdateType DEF ResendAfterTimeout, ResendIfNeeded, TypeOK
    <2>2. loop' \in [Mgmt -> LoopDoc]
      BY <1>1, <1>2, <1>8 DEF ResendAfterTimeout, Loop
    <2> QED BY <1>8, <2>1, <2>2 DEF ResendAfterTimeout, dbVars, TypeOK
  <1>9. CASE MarkAsHandled(m)
    <2>1. log' \in LogDoc
      BY <1>1, <1>9 DEF MarkAsHandled
    <2>2. loop' \in [Mgmt -> LoopDoc]
      BY <1>1, <1>2, <1>9 DEF MarkAsHandled, Loop
    <2> QED BY <1>9, <2>1, <2>2 DEF MarkAsHandled, TypeOK
  <1> QED BY <1>3, <1>4, <1>5, <1>6, <1>7, <1>8, <1>9 DEF Validate

LEMMA EnvironmentType ==
    ASSUME TypeOK,
           LogAges \/ \E m \in Mgmt : Crash(m) \/ Restart(m) \/ HeartbeatExpires(m)
    PROVE  TypeOK'
  <1>1. CASE LogAges
    <2>1. log' \in [status : {"none", "live", "handling", "timed out"}, token : Token,
                    seq : Sequence, old : BOOLEAN, modifiedBy : Mgmt \cup {NoMgmt}]
      BY <1>1 DEF LogAges, TypeOK
    <2>2. faults' \subseteq Faults
      BY <1>1, FaultType DEF LogAges, TypeOK
    <2> QED BY <1>1, <2>1, <2>2 DEF LogAges, mgmtVars, TypeOK
  <1>2. ASSUME NEW m \in Mgmt, Crash(m) PROVE TypeOK'
    <2>1. faults' \subseteq Faults
      BY <1>2, FaultType DEF Crash
    <2>2. update' \in [Mgmt -> Seq(Update)]
      BY <1>2, UpdateType, NothingType DEF Crash, TypeOK
    <2>3. Off \in [at : {"off"}, token : Token, seq : Sequence, handler : {NoMgmt}]
      BY Constants DEF Off
    <2>4. loop' \in [Mgmt -> [at : {"off", "rest", "check", "stuck", "reset", "down",
                                   "resend", "mark"},
                             token : Token, seq : Sequence, handler : Mgmt \cup {NoMgmt}]]
      BY <1>2, <2>3 DEF Crash, Set, TypeOK
    <2> QED BY <1>2, <2>1, <2>2, <2>4 DEF Crash, Set, dbVars, TypeOK
  <1>3. ASSUME NEW m \in Mgmt, Restart(m) PROVE TypeOK'
    <2>1. loop' \in [Mgmt -> [at : {"off", "rest", "check", "stuck", "reset", "down",
                                   "resend", "mark"},
                             token : Token, seq : Sequence, handler : Mgmt \cup {NoMgmt}]]
      BY <1>3, RestType DEF Restart, Set, TypeOK
    <2> QED BY <1>3, <2>1 DEF Restart, Set, dbVars, TypeOK
  <1>4. ASSUME NEW m \in Mgmt, HeartbeatExpires(m) PROVE TypeOK'
    BY <1>4 DEF HeartbeatExpires, Set, dbVars, TypeOK
  <1> QED BY <1>1, <1>2, <1>3, <1>4

LEMMA TypeStep == ASSUME TypeOK, HandlingInv, [Next]_vars PROVE TypeOK'
  <1>1. CASE UNCHANGED vars
    BY <1>1 DEF vars, dbVars, mgmtVars, TypeOK
  <1>2. CASE Agent \/ AgentCrash \/ AgentRestart
    BY <1>2, AgentType DEF Agent
  <1>3. ASSUME NEW m \in Mgmt, Consume(m) PROVE TypeOK'
    BY <1>3, ReceiveType, HandleType DEF Consume
  <1>4. ASSUME NEW m \in Mgmt, Validate(m) PROVE TypeOK'
    BY <1>4, ValidateType
  <1>5. CASE LogAges \/ \E m \in Mgmt : Crash(m) \/ Restart(m) \/ HeartbeatExpires(m)
    BY <1>5, EnvironmentType
  <1> QED BY <1>1, <1>2, <1>3, <1>4, <1>5 DEF Next

-----------------------------------------------------------------------------
(* The keepalive that is handled stays the first.                          *)
LEMMA HeadKept ==
    ASSUME TypeOK, topic # <<>>,
           \/ UNCHANGED topic
           \/ SendKeepalive
           \/ topic' = [i \in 1..Len(topic) |-> [topic[i] EXCEPT !.late = TRUE]]
    PROVE  topic' # <<>> /\ Head(topic').token = Head(topic).token
  <1>1. topic \in Seq(Keepalive) /\ Head(topic) = topic[1] /\ 1 \in 1..Len(topic)
    <2>1. topic \in Seq(Keepalive)
      BY DEF TypeOK
    <2> QED BY <2>1, TopicFacts
  <1>2. Len(topic) \in Nat /\ topic[1] \in Keepalive
    BY <1>1, ElementFacts
  <1>3. CASE SendKeepalive
    <2> DEFINE k == [token |-> agent.token, seq |-> agent.seq, late |-> FALSE]
    <2>1. k \in Keepalive /\ topic' = Append(topic, k)
      <3>1. agent.token \in Token /\ agent.seq \in Sequence
        BY DEF TypeOK
      <3> QED BY <1>3, <3>1 DEF SendKeepalive, Keepalive
    <2> HIDE DEF k
    <2>2. topic' \in Seq(Keepalive) /\ topic'[1] = topic[1] /\ Len(topic') = Len(topic) + 1
      BY <1>1, <2>1, AppendFacts
    <2>3. topic' # <<>>
      BY <1>2, <2>2
    <2> QED BY <1>1, <2>2, <2>3, HeadTailFacts
  <1>4. CASE topic' = [i \in 1..Len(topic) |-> [topic[i] EXCEPT !.late = TRUE]]
    <2> DEFINE k == [topic[1] EXCEPT !.late = TRUE]
    <2>1. k \in Keepalive /\ k.token = topic[1].token
      BY <1>2 DEF Keepalive
    <2>2. \A i \in 1..Len(topic) : [topic[i] EXCEPT !.late = TRUE] \in Keepalive
      <3>1. \A i \in 1..Len(topic) : topic[i] \in Keepalive
        BY <1>1, ElementFacts
      <3> QED BY <3>1 DEF Keepalive
    <2>3. topic' \in [1..Len(topic) -> Keepalive] /\ topic'[1] = k
      BY <1>1, <1>4, <2>2
    <2>4. topic' \in Seq(Keepalive) /\ Len(topic') = Len(topic)
      BY <1>2, <2>3, FunctionIsSeq
    <2>5. topic' # <<>>
      BY <1>1, <1>2, <2>4
    <2>6. Head(topic') = topic'[1]
      BY <2>4, <2>5, HeadTailFacts
    <2> HIDE DEF k
    <2> QED BY <1>1, <2>1, <2>3, <2>5, <2>6
  <1> QED BY <1>3, <1>4

(* Once it is handled there is nothing that anybody handles.               *)
LEMMA NothingHandled ==
    ASSUME TypeOK, HandlingInv, NEW m \in Mgmt, handling[m] # "nothing",
           Set(handling, m, "nothing")
    PROVE  \A n \in Mgmt : handling'[n] = "nothing"
  BY DEF TypeOK, HandlingInv, Set

LEMMA HandlingStep == ASSUME TypeOK, HandlingInv, [Next]_vars PROVE HandlingInv'
  <1>1. CASE UNCHANGED <<topic, handling>>
    BY <1>1 DEF HandlingInv
  <1>2. CASE Agent \/ AgentCrash \/ AgentRestart
    <2>1. UNCHANGED handling /\ (UNCHANGED topic \/ SendKeepalive)
      BY <1>2 DEF Agent, SendKeepalive, TakeToken, AgentCrash, AgentRestart, mgmtVars
    <2> QED BY <2>1, HeadKept DEF HandlingInv
  <1>3. ASSUME NEW m \in Mgmt, Receive(m) PROVE HandlingInv'
    <2>1. handling' = [handling EXCEPT ![m] = IF Head(topic).token = NoToken
                                                THEN "first" ELSE "status"]
      BY <1>3 DEF Receive, Set
    <2>2. \A n \in Mgmt : n # m => handling'[n] = "nothing"
      BY <1>3, <2>1 DEF Receive, TypeOK
    <2>3. topic # <<>> /\ UNCHANGED topic
      BY <1>3 DEF Receive
    <2>4. handling'[m] \in {"status", "resend"} => Head(topic).token # NoToken
      BY <2>1 DEF TypeOK
    <2> QED BY <2>2, <2>3, <2>4 DEF HandlingInv
  <1>4. ASSUME NEW m \in Mgmt,
               HandleFirstKeepalive(m) \/ HandleKeepalive(m) \/ ResendToken(m)
        PROVE  HandlingInv'
    <2>1. handling[m] # "nothing"
      BY <1>4 DEF HandleFirstKeepalive, HandleKeepalive, ResendToken
    <2>2. CASE Done(m)
      BY <2>1, <2>2, NothingHandled DEF Done, HandlingInv
    <2>3. CASE Set(handling, m, "resend") /\ UNCHANGED topic /\ handling[m] = "status"
      BY <2>3 DEF Set, TypeOK, HandlingInv
    <2> QED BY <1>4, <2>2, <2>3 DEF HandleFirstKeepalive, HandleKeepalive, ResendToken
  <1>5. ASSUME NEW m \in Mgmt, HandleTimeout(m) PROVE HandlingInv'
    <2>1. UNCHANGED handling
          /\ (UNCHANGED topic
              \/ topic' = [i \in 1..Len(topic) |-> [topic[i] EXCEPT !.late = TRUE]])
      BY <1>5 DEF HandleTimeout
    <2>2. topic # <<>> => topic' # <<>> /\ Head(topic').token = Head(topic).token
      BY <2>1, HeadKept
    <2> QED BY <2>1, <2>2 DEF HandlingInv
  <1>6. ASSUME NEW m \in Mgmt, Crash(m) PROVE HandlingInv'
    <2>1. UNCHANGED topic
      BY <1>6 DEF Crash
    <2>2. handling' = [handling EXCEPT ![m] = "nothing"]
      BY <1>6 DEF Crash, Set
    <2>3. \A n \in Mgmt : handling'[n] = "nothing" \/ handling'[n] = handling[n]
      BY <2>2 DEF TypeOK
    <2> QED BY <2>1, <2>3 DEF HandlingInv
  <1>7. ASSUME NEW m \in Mgmt, Validate(m), ~HandleTimeout(m)
        PROVE  UNCHANGED <<topic, handling>>
    BY <1>7 DEF Validate, FindStaleHandling, CheckHandler, ResetHandling, GetTimedOut,
                ResendAfterTimeout, MarkAsHandled
  <1>8. ASSUME NEW m \in Mgmt,
               \/ Restart(m) \/ HeartbeatExpires(m) \/ LogAges
               \/ \E message \in toLog[m] : LogMessage(m, message)
        PROVE  UNCHANGED <<topic, handling>>
    BY <1>8 DEF Restart, HeartbeatExpires, LogAges, LogMessage, mgmtVars
  <1>9. LogAges \/ UNCHANGED vars => UNCHANGED <<topic, handling>>
    BY DEF LogAges, vars, mgmtVars
  <1> QED BY <1>1, <1>2, <1>3, <1>4, <1>5, <1>6, <1>7, <1>8, <1>9 DEF Next, Consume

-----------------------------------------------------------------------------
(* Where the tokens of the next state come from: a keepalive was in the    *)
(* topic or is of the agent, the agent keeps its token, loses it or is     *)
(* told one, and a new update has the client's.                            *)
TopicOrigin ==
    \A i \in 1..Len(topic') :
        \/ \E j \in 1..Len(topic) : topic'[i] = topic[j]
        \/ topic'[i].token = agent.token /\ ~topic'[i].late
AgentOrigin ==
    \/ agent'.token \in {agent.token, NoToken}
    \/ \E m \in Mgmt : update[m] # <<>> /\ agent'.token = update[m][1].token
UpdateOrigin ==
    \A m \in Mgmt :
        \/ update'[m] \in {<<>>, update[m]}
        \/ client'.status # "none" /\ update'[m][1].token = client'.token
ClientKept == /\ client'.status = "none" <=> client.status = "none"
              /\ client'.token = client.token

LEMMA TokenTypes ==
    ASSUME TypeOK
    PROVE  /\ client.token \in Nat /\ agent.token \in Int /\ agent.token >= NoToken
           /\ NoToken = -1
           /\ \A i \in 1..Len(topic) : topic[i].token \in Int /\ topic[i].token >= NoToken
           /\ \A m \in Mgmt : update[m] # <<>> => update[m][1].token \in Nat
  <1>1. \A i \in 1..Len(topic) : topic[i] \in Keepalive
    <2>1. topic \in Seq(Keepalive)
      BY DEF TypeOK
    <2> QED BY <2>1, ElementFacts
  <1>2. \A m \in Mgmt : update[m] # <<>> => update[m][1] \in Update
    <2>1. \A m \in Mgmt : update[m] \in Seq(Update)
      BY DEF TypeOK
    <2> QED BY <2>1, HeadTailFacts
  <1>3. agent.token \in Token /\ client.token \in Nat
    BY DEF TypeOK
  <1> QED BY <1>1, <1>2, <1>3, Constants DEF Keepalive, Update, NoToken

LEMMA TopicOriginFacts ==
    ASSUME TypeOK,
           \/ UNCHANGED topic
           \/ topic # <<>> /\ topic' = Tail(topic)
           \/ SendKeepalive
    PROVE  TopicOrigin
  <1>1. topic \in Seq(Keepalive)
    BY DEF TypeOK
  <1>2. CASE UNCHANGED topic
    BY <1>2 DEF TopicOrigin
  <1>3. CASE topic # <<>> /\ topic' = Tail(topic)
    BY <1>1, <1>3, HeadTailFacts DEF TopicOrigin
  <1>4. CASE SendKeepalive
    <2> DEFINE k == [token |-> agent.token, seq |-> agent.seq, late |-> FALSE]
    <2>1. k \in Keepalive /\ topic' = Append(topic, k)
      <3>1. agent.token \in Token /\ agent.seq \in Sequence
        BY DEF TypeOK
      <3> QED BY <1>4, <3>1 DEF SendKeepalive, Keepalive
    <2>2. k.token = agent.token /\ ~k.late
      OBVIOUS
    <2> HIDE DEF k
    <2>3. /\ Len(topic') = Len(topic) + 1 /\ topic'[Len(topic) + 1] = k
          /\ \A i \in 1..Len(topic) : topic'[i] = topic[i]
      BY <1>1, <2>1, AppendFacts
    <2>4. Len(topic) \in Nat
      BY <1>1, ElementFacts
    <2>5. \A i \in 1..Len(topic') : i \in 1..Len(topic) \/ i = Len(topic) + 1
      BY <2>3, <2>4
    <2> QED BY <2>2, <2>3, <2>5 DEF TopicOrigin
  <1> QED BY <1>2, <1>3, <1>4

(* A step that keeps the client's token.                                   *)
LEMMA TokenKept ==
    ASSUME IInv, TopicOrigin, AgentOrigin, UpdateOrigin, ClientKept
    PROVE  NoClientInv' /\ TokenInv'
  <1>1. TypeOK
    BY DEF IInv
  <1>2. CASE client.status = "none"
    <2>1. NoClientInv
      BY DEF IInv
    <2>2. agent'.token \in {NoToken, 1}
      BY <1>2, <2>1 DEF NoClientInv, AgentOrigin
    <2>3. \A i \in 1..Len(topic') : topic'[i].token \in {NoToken, 1} /\ ~topic'[i].late
      BY <1>2, <2>1 DEF NoClientInv, TopicOrigin
    <2>4. \A m \in Mgmt : update'[m] = <<>>
      BY <1>2, <2>1 DEF NoClientInv, UpdateOrigin, ClientKept
    <2> QED BY <1>2, <2>2, <2>3, <2>4 DEF NoClientInv, TokenInv, ClientKept
  <1>3. CASE client.status # "none"
    <2>1. TokenInv
      BY DEF IInv
    <2>2. agent'.token <= client.token
      BY <1>1, <1>3, <2>1, TokenTypes DEF TokenInv, AgentOrigin
    <2>3. \A i \in 1..Len(topic') :
              /\ topic'[i].token <= client.token
              /\ (topic'[i].late => topic'[i].token < client.token)
      BY <1>3, <2>1 DEF TokenInv, TopicOrigin
    <2>4. \A m \in Mgmt : update'[m] # <<>> => update'[m][1].token <= client.token
      BY <1>1, <1>3, <2>1, TokenTypes DEF TokenInv, UpdateOrigin, ClientKept
    <2> QED BY <1>3, <2>2, <2>3, <2>4 DEF NoClientInv, TokenInv, ClientKept
  <1> QED BY <1>2, <1>3

(* The step that creates the client.                                       *)
LEMMA TokenCreated ==
    ASSUME IInv, TopicOrigin, UNCHANGED agent, UpdateOrigin,
           client.status = "none", client'.status # "none", client'.token = 1
    PROVE  NoClientInv' /\ TokenInv'
  <1>1. NoClientInv /\ NoToken = -1
    BY DEF IInv, NoToken
  <1>2. agent'.token <= 1
    BY <1>1 DEF NoClientInv
  <1>3. \A i \in 1..Len(topic') : topic'[i].token <= 1 /\ ~topic'[i].late
    BY <1>1 DEF NoClientInv, TopicOrigin
  <1>4. \A m \in Mgmt : update'[m] # <<>> => update'[m][1].token <= 1
    BY <1>1 DEF NoClientInv, UpdateOrigin
  <1> QED BY <1>2, <1>3, <1>4 DEF NoClientInv, TokenInv

(* The step that declares the agent DOWN.                                  *)
LEMMA TokenEnded ==
    ASSUME IInv, UNCHANGED agent, UpdateOrigin,
           topic' = [i \in 1..Len(topic) |-> [topic[i] EXCEPT !.late = TRUE]],
           client.status # "none", client'.status # "none", client'.token = client.token + 1
    PROVE  NoClientInv' /\ TokenInv'
  <1>1. TokenInv /\ TypeOK
    BY DEF IInv
  <1>2. agent'.token <= client'.token
    BY <1>1, TokenTypes DEF TokenInv
  <1>3. Len(topic') = Len(topic)
        /\ \A i \in 1..Len(topic) : topic'[i].token = topic[i].token
    <2>1. topic \in Seq(Keepalive)
      BY <1>1 DEF TypeOK
    <2>2. Len(topic) \in Nat /\ \A i \in 1..Len(topic) : topic[i] \in Keepalive
      BY <2>1, ElementFacts
    <2>3. \A i \in 1..Len(topic) : /\ [topic[i] EXCEPT !.late = TRUE] \in Keepalive
                                   /\ [topic[i] EXCEPT !.late = TRUE].token = topic[i].token
      BY <2>2 DEF Keepalive
    <2>4. topic' \in [1..Len(topic) -> Keepalive]
      BY <2>3
    <2>5. Len(topic') = Len(topic)
      BY <2>2, <2>4, FunctionIsSeq
    <2> QED BY <2>3, <2>5
  <1>4. \A i \in 1..Len(topic') : topic'[i].token < client'.token
                                  /\ topic'[i].token <= client'.token
    BY <1>1, <1>3, TokenTypes DEF TokenInv
  <1>5. \A m \in Mgmt : update'[m] # <<>> => update'[m][1].token <= client'.token
    BY <1>1, TokenTypes DEF TokenInv, UpdateOrigin
  <1> QED BY <1>2, <1>4, <1>5 DEF NoClientInv, TokenInv

LEMMA UpdateFacts ==
    ASSUME TypeOK, NEW m \in Mgmt, NEW u, Set(update, m, u),
           \/ u = <<>>
           \/ client'.status # "none" /\ u # <<>> /\ u[1].token = client'.token
    PROVE  UpdateOrigin
  <1>1. update'[m] = u /\ \A n \in Mgmt : n # m => update'[n] = update[n]
    BY DEF TypeOK, Set
  <1> QED BY <1>1 DEF UpdateOrigin

LEMMA AgentTokens ==
    ASSUME IInv, Agent \/ AgentCrash \/ AgentRestart
    PROVE  NoClientInv' /\ TokenInv'
  <1>1. TypeOK
    BY DEF IInv
  <1>2. ClientKept
    BY DEF Agent, SendKeepalive, TakeToken, AgentCrash, AgentRestart, dbVars, ClientKept
  <1>3. TopicOrigin
    BY <1>1, TopicOriginFacts
       DEF Agent, TakeToken, AgentCrash, AgentRestart
  <1>4. UpdateOrigin
    <2>1. CASE SendKeepalive \/ AgentCrash \/ AgentRestart
      BY <2>1 DEF SendKeepalive, AgentCrash, AgentRestart, mgmtVars, UpdateOrigin, Nothing
    <2>2. ASSUME NEW m \in Mgmt, TakeToken(m) PROVE UpdateOrigin
      BY <1>1, <2>2, UpdateFacts DEF TakeToken, Nothing
    <2> QED BY <2>1, <2>2 DEF Agent
  <1>5. AgentOrigin
    <2>1. agent \in [up : BOOLEAN, token : Token, seq : Sequence]
      BY <1>1 DEF TypeOK
    <2>2. CASE SendKeepalive \/ AgentCrash \/ AgentRestart
      BY <2>1, <2>2 DEF SendKeepalive, AgentCrash, AgentRestart, AgentOrigin
    <2>3. ASSUME NEW m \in Mgmt, TakeToken(m) PROVE AgentOrigin
      BY <2>1, <2>3 DEF TakeToken, AgentOrigin, Nothing
    <2> QED BY <2>2, <2>3 DEF Agent
  <1> QED BY <1>2, <1>3, <1>4, <1>5, TokenKept

(* The steps that handle a keepalive.                                      *)
LEMMA CreateFacts ==
    ASSUME IInv, NEW m \in Mgmt, UNCHANGED agent, TopicOrigin,
           client' = Create(1), Set(update, m, TokenOf(client'))
    PROVE  NoClientInv' /\ TokenInv'
  <1>1. TypeOK
    BY DEF IInv
  <1>2. client' \in [status : {"none", "UP", "DOWN"}, token : Nat, seq : Sequence]
    BY <1>1, Constants DEF Create, TypeOK
  <1>3. client'.status # "none"
    BY DEF Create
  <1>4. UpdateOrigin
    BY <1>1, <1>2, <1>3, TokenOfType, UpdateFacts
  <1>5. CASE client.status = "none"
    <2>1. client'.token = 1
      BY <1>5 DEF Create
    <2> QED BY <1>3, <1>4, <1>5, <2>1, TokenCreated
  <1>6. CASE client.status # "none"
    BY <1>4, <1>6, TokenKept DEF Create, ClientKept, AgentOrigin
  <1> QED BY <1>5, <1>6

LEMMA ResendFacts ==
    ASSUME TypeOK, NEW m \in Mgmt, NEW t, ResendIfNeeded(m, t), UNCHANGED client
    PROVE  UpdateOrigin
  <1>1. client \in [status : {"none", "UP", "DOWN"}, token : Nat, seq : Sequence]
    BY DEF TypeOK
  <1>2. CASE client.status # "none" /\ Set(update, m, TokenOf(client))
    BY <1>1, <1>2, TokenOfType, UpdateFacts
  <1>3. CASE UNCHANGED update
    BY <1>3 DEF UpdateOrigin
  <1> QED BY <1>2, <1>3 DEF ResendIfNeeded

LEMMA HandleTokens ==
    ASSUME IInv, NEW m \in Mgmt,
           HandleFirstKeepalive(m) \/ HandleKeepalive(m) \/ ResendToken(m)
    PROVE  NoClientInv' /\ TokenInv'
  <1>1. TypeOK /\ HandlingInv /\ NoClientInv
    BY DEF IInv
  <1>2. topic # <<>>
    BY <1>1 DEF HandlingInv, HandleFirstKeepalive, HandleKeepalive, ResendToken
  <1>3. TopicOrigin
    BY <1>1, <1>2, TopicOriginFacts
       DEF HandleFirstKeepalive, HandleKeepalive, ResendToken, Done
  <1>4. UNCHANGED agent /\ AgentOrigin
    BY DEF HandleFirstKeepalive, HandleKeepalive, ResendToken, AgentOrigin
  <1>5. CASE HandleFirstKeepalive(m)
    BY <1>3, <1>4, <1>5, CreateFacts DEF HandleFirstKeepalive
  <1>6. CASE HandleKeepalive(m)
    <2>1. client \in [status : {"none", "UP", "DOWN"}, token : Nat, seq : Sequence]
      BY <1>1 DEF TypeOK
    <2>2. ClientKept
      BY <1>6, <2>1 DEF HandleKeepalive, Matches, SetUp, ClientKept
    <2>3. UpdateOrigin
      BY <1>6 DEF HandleKeepalive, UpdateOrigin
    <2> QED BY <1>3, <1>4, <2>2, <2>3, TokenKept
  <1>7. CASE ResendToken(m)
    <2>1. CASE client.status = "none"
      <3>1. Head(topic).token # NoToken
        BY <1>1, <1>7 DEF ResendToken, HandlingInv
      <3>2. Head(topic).token = 1
        BY <1>1, <1>2, <2>1, <3>1, TopicFacts DEF NoClientInv
      <3> QED BY <1>3, <1>4, <1>7, <2>1, <3>2, CreateFacts DEF ResendToken
    <2>2. CASE client.status # "none"
      <3>1. ResendIfNeeded(m, Head(topic).token) /\ UNCHANGED client
        BY <1>7, <2>2 DEF ResendToken
      <3>2. UpdateOrigin /\ ClientKept
        BY <1>1, <3>1, ResendFacts DEF ClientKept
      <3> QED BY <1>3, <1>4, <3>2, TokenKept
    <2> QED BY <2>1, <2>2
  <1> QED BY <1>5, <1>6, <1>7

LEMMA TimeoutTokens ==
    ASSUME IInv, NEW m \in Mgmt, HandleTimeout(m) \/ ResendAfterTimeout(m)
    PROVE  NoClientInv' /\ TokenInv'
  <1>1. TypeOK
    BY DEF IInv
  <1>2. UNCHANGED agent /\ AgentOrigin
    BY DEF HandleTimeout, ResendAfterTimeout, AgentOrigin
  <1>3. CASE HandleTimeout(m)
    <2>1. UpdateOrigin
      <3>1. CASE Set(update, m, Nothing)
        BY <1>1, <3>1, UpdateFacts DEF Nothing
      <3>2. CASE UNCHANGED update
        BY <3>2 DEF UpdateOrigin
      <3> QED BY <1>3, <3>1, <3>2 DEF HandleTimeout
    <2>2. CASE Matches(loop[m].token, loop[m].seq)
      <3>1. client' = SetDown(loop[m].seq)
            /\ topic' = [i \in 1..Len(topic) |-> [topic[i] EXCEPT !.late = TRUE]]
        BY <1>3, <2>2 DEF HandleTimeout
      <3>2. client'.status # "none" /\ client'.token = client.token + 1
        BY <1>1, <3>1, SetDownDoc
      <3>3. client.status # "none"
        BY <2>2 DEF Matches
      <3> QED BY <1>2, <2>1, <3>1, <3>2, <3>3, TokenEnded
    <2>3. CASE ~Matches(loop[m].token, loop[m].seq)
      <3>1. UNCHANGED <<client, topic>>
        BY <1>3, <2>3 DEF HandleTimeout
      <3>2. TopicOrigin /\ ClientKept
        BY <1>1, <3>1, TopicOriginFacts DEF ClientKept
      <3> QED BY <1>2, <2>1, <3>2, TokenKept
    <2> QED BY <2>2, <2>3
  <1>4. CASE ResendAfterTimeout(m)
    <2>1. UNCHANGED <<client, topic>> /\ ResendIfNeeded(m, loop[m].token)
      BY <1>4 DEF ResendAfterTimeout, dbVars
    <2>2. TopicOrigin /\ ClientKept /\ UpdateOrigin
      BY <1>1, <2>1, TopicOriginFacts, ResendFacts DEF ClientKept
    <2> QED BY <1>2, <2>2, TokenKept
  <1> QED BY <1>3, <1>4

(* The other steps leave the client, and what carries a token to or from   *)
(* the agent, as they are; but a management may lose an update.            *)
LEMMA OtherTokens ==
    ASSUME IInv, UNCHANGED <<agent, topic, client>>,
           \/ UNCHANGED update
           \/ \E m \in Mgmt : Set(update, m, Nothing)
    PROVE  NoClientInv' /\ TokenInv'
  <1>1. TypeOK
    BY DEF IInv
  <1>2. UpdateOrigin
    <2>1. CASE UNCHANGED update
      BY <2>1 DEF UpdateOrigin
    <2>2. ASSUME NEW m \in Mgmt, Set(update, m, Nothing) PROVE UpdateOrigin
      BY <1>1, <2>2, UpdateFacts DEF Nothing
    <2> QED BY <2>1, <2>2
  <1>3. TopicOrigin /\ AgentOrigin /\ ClientKept
    BY DEF TopicOrigin, AgentOrigin, ClientKept
  <1> QED BY <1>2, <1>3, TokenKept

LEMMA TokenStep == ASSUME IInv, [Next]_vars PROVE NoClientInv' /\ TokenInv'
  <1> DEFINE Other == /\ UNCHANGED <<agent, topic, client>>
                      /\ \/ UNCHANGED update
                         \/ \E m \in Mgmt : Set(update, m, Nothing)
  <1>1. CASE UNCHANGED vars \/ LogAges
    BY <1>1, OtherTokens DEF vars, dbVars, mgmtVars, LogAges
  <1>2. CASE Agent \/ AgentCrash \/ AgentRestart
    BY <1>2, AgentTokens
  <1>3. ASSUME NEW m \in Mgmt, Consume(m) PROVE NoClientInv' /\ TokenInv'
    <2>1. Receive(m) \/ (\E message \in toLog[m] : LogMessage(m, message)) => Other
      BY DEF Receive, LogMessage, dbVars
    <2> QED BY <1>3, <2>1, OtherTokens, HandleTokens DEF Consume
  <1>4. ASSUME NEW m \in Mgmt, Validate(m) PROVE NoClientInv' /\ TokenInv'
    <2>1. CASE HandleTimeout(m) \/ ResendAfterTimeout(m)
      BY <2>1, TimeoutTokens
    <2>2. \/ FindStaleHandling(m) \/ CheckHandler(m) \/ ResetHandling(m)
          \/ GetTimedOut(m) \/ MarkAsHandled(m)
          => Other
      BY DEF FindStaleHandling, CheckHandler, ResetHandling, GetTimedOut, MarkAsHandled, dbVars
    <2> QED BY <1>4, <2>1, <2>2, OtherTokens DEF Validate
  <1>5. ASSUME NEW m \in Mgmt, Crash(m) \/ Restart(m) \/ HeartbeatExpires(m)
        PROVE  NoClientInv' /\ TokenInv'
    <2>1. Other
      BY <1>5 DEF Crash, Restart, HeartbeatExpires, dbVars
    <2> QED BY <2>1, OtherTokens
  <1> QED BY <1>1, <1>2, <1>3, <1>4, <1>5 DEF Next

-----------------------------------------------------------------------------
LEMMA InitIInv == Init => IInv
  <1> SUFFICES ASSUME Init PROVE IInv
    OBVIOUS
  <1> USE Constants
  <1>1. topic = <<>> /\ topic \in Seq(Keepalive) /\ Len(topic) = 0
    BY DEF Init
  <1>2. update \in [Mgmt -> Seq(Update)] /\ \A m \in Mgmt : update[m] = <<>>
    BY NothingType DEF Init, Nothing
  <1>3. /\ agent \in [up : BOOLEAN, token : Token, seq : Sequence]
        /\ agent.token \in {NoToken, 1}
    BY DEF Init, Token
  <1>4. client \in [status : {"none", "UP", "DOWN"}, token : Nat, seq : Sequence]
        /\ client.status = "none"
    BY DEF Init, NoClient
  <1>5. log \in [status : {"none", "live", "handling", "timed out"}, token : Token,
                 seq : Sequence, old : BOOLEAN, modifiedBy : Mgmt \cup {NoMgmt}]
    BY DEF Init, NoLog
  <1>6. loop \in [Mgmt -> [at : {"off", "rest", "check", "stuck", "reset", "down",
                                 "resend", "mark"},
                           token : Token, seq : Sequence, handler : Mgmt \cup {NoMgmt}]]
    BY RestType DEF Init
  <1>7. TypeOK
    <2>1. /\ up \in [Mgmt -> BOOLEAN] /\ beating \in [Mgmt -> BOOLEAN]
          /\ handling \in [Mgmt -> {"nothing", "first", "status", "resend"}]
          /\ toLog \in [Mgmt -> SUBSET [token : Token, seq : Sequence]]
          /\ faults \subseteq Faults
      BY DEF Init
    <2>2. topic \in Seq(Keepalive) /\ Len(topic) <= MaxTopic
      BY <1>1
    <2> QED BY <1>2, <1>3, <1>4, <1>5, <1>6, <2>1, <2>2 DEF TypeOK
  <1>8. HandlingInv
    BY DEF Init, HandlingInv
  <1>9. NoClientInv /\ TokenInv
    BY <1>1, <1>2, <1>3, <1>4 DEF NoClientInv, TokenInv
  <1> QED BY <1>7, <1>8, <1>9 DEF IInv

LEMMA Invariant == Spec => []IInv
  <1>1. IInv /\ [Next]_vars => IInv'
    BY TypeStep, HandlingStep, TokenStep DEF IInv
  <1> QED BY InitIInv, <1>1, PTL DEF Spec

(* The types of every variable, for any number of managements and any      *)
(* bounds.                                                                 *)
THEOREM TypeCorrect == Spec => []TypeOK
  <1>1. IInv => TypeOK
    BY DEF IInv
  <1> QED BY Invariant, <1>1, PTL

(* A keepalive that was sent before the agent was declared DOWN does not   *)
(* bring it back (handleAgentKeepAlive and handleAgentTimeout of           *)
(* client.js): the query of the first asks for the token of the client,    *)
(* which the second increments.                                            *)
THEOREM LateIsIgnored == Spec => LateKeepaliveIgnored
  <1> DEFINE Step == client.status = "DOWN" /\ client'.status = "UP" => ~Head(topic).late
  <1>1. ASSUME IInv, [Next]_vars, client.status = "DOWN", client'.status = "UP"
        PROVE  ~Head(topic).late
    <2>1. TypeOK /\ TokenInv
      BY <1>1 DEF IInv
    <2>2. PICK m \in Mgmt : HandleKeepalive(m) /\ client' # client
      <3>1. client' # client
        BY <1>1
      <3>2. ASSUME NEW m \in Mgmt, HandleTimeout(m) PROVE FALSE
        BY <1>1, <2>1, <3>1, <3>2, SetDownDoc DEF HandleTimeout
      <3>3. ASSUME NEW m \in Mgmt, HandleFirstKeepalive(m) \/ ResendToken(m) PROVE FALSE
        BY <1>1, <3>1, <3>3 DEF HandleFirstKeepalive, ResendToken, Create
      <3>4. Agent \/ AgentCrash \/ AgentRestart \/ LogAges \/ UNCHANGED vars => FALSE
        BY <3>1 DEF Agent, SendKeepalive, TakeToken, AgentCrash, AgentRestart, LogAges, vars,
                    dbVars
      <3>5. ASSUME NEW m \in Mgmt,
                   \/ Receive(m) \/ \E message \in toLog[m] : LogMessage(m, message)
                   \/ FindStaleHandling(m) \/ CheckHandler(m) \/ ResetHandling(m)
                   \/ GetTimedOut(m) \/ ResendAfterTimeout(m) \/ MarkAsHandled(m)
                   \/ Crash(m) \/ Restart(m) \/ HeartbeatExpires(m)
            PROVE  FALSE
        BY <3>1, <3>5 DEF Receive, LogMessage, FindStaleHandling, CheckHandler, ResetHandling,
                          GetTimedOut, ResendAfterTimeout, MarkAsHandled, Crash, Restart,
                          HeartbeatExpires, dbVars
      <3> QED BY <1>1, <3>1, <3>2, <3>3, <3>4, <3>5 DEF Next, Consume, Validate
    <2>3. Matches(Head(topic).token, Head(topic).seq)
      BY <2>2 DEF HandleKeepalive
    <2>4. topic # <<>>
      BY <1>1, <2>2 DEF IInv, HandlingInv, HandleKeepalive
    <2>5. Head(topic) = topic[1] /\ 1 \in 1..Len(topic) /\ client.status # "none"
      BY <1>1, <2>1, <2>4, TopicFacts
    <2>6. Head(topic).late => Head(topic).token < client.token
      BY <2>1, <2>5 DEF TokenInv
    <2>7. client.token = Head(topic).token /\ client.token \in Nat
      BY <2>1, <2>3, TokenTypes DEF Matches
    <2> QED BY <2>6, <2>7
  <1>2. IInv /\ [Next]_vars => [Step]_vars
    BY <1>1
  <1> QED BY Invariant, <1>2, PTL DEF Spec, LateKeepaliveIgnored
=============================================================================
