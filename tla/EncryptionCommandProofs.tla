---------------------- MODULE EncryptionCommandProofs ----------------------
(***************************************************************************)
(* TOMA works on one command of a volume at a time, and the volume says    *)
(* the truth of it, for any requests, faults and repetitions.              *)
(***************************************************************************)
EXTENDS EncryptionCommand, TLAPS

PCs == {"idle", "choose", "set", "end", "failed"} \cup InProgress

CommandType == command \in [index : Nat, name : Command \cup {"none"},
                            status : {"none", "pending", "sent", "executed"},
                            response : Nat \cup {Unindexed},
                            acknowledged : BOOLEAN]

VolumeType == /\ CommandType
              /\ lastSent \in Nat
              /\ isInitialized \in BOOLEAN
              /\ action \in Command \cup {"none", "initRequired"}

RequestType == pc \in [Request -> PCs] /\ index \in [Request -> Nat]

KafkaType == /\ topic \subseteq Nat
             /\ responses \subseteq answered
             /\ answered \subseteq Response

RestType == /\ seen \subseteq Nat
            /\ calculating \in BOOLEAN
            /\ faults \in 0..MaxFaults
            /\ missed \subseteq {"request", "response", "early", "old"}

LEMMA TypeParts == TypeOK <=> VolumeType /\ RequestType /\ KafkaType /\ RestType
BY DEF TypeOK, VolumeType, CommandType, RequestType, KafkaType, RestType, PCs

LEMMA TypePartsPrime == VolumeType' /\ RequestType' /\ KafkaType' /\ RestType' => TypeOK'
BY DEF TypeOK, VolumeType, CommandType, RequestType, KafkaType, RestType, PCs

-----------------------------------------------------------------------------
LEMMA FaultType == ASSUME RestType, NEW kind, Fault(kind) PROVE faults' \in 0..MaxFaults
BY BoundsAssumption DEF RestType, Fault

LEMMA GotoType ==
    ASSUME RequestType, NEW r \in Request, NEW from, NEW to \in PCs, Goto(r, from, to)
    PROVE  pc' \in [Request -> PCs]
BY DEF RequestType, Goto

LEMMA AnyActionType == VolumeType => VolumeAction \in Command \cup {"none", "initRequired"}
<1> SUFFICES ASSUME VolumeType PROVE VolumeAction \in Command \cup {"none", "initRequired"}
    OBVIOUS
<1>1. command.name \in Command \cup {"none"}
    BY DEF VolumeType, CommandType
<1> QED BY <1>1 DEF VolumeAction

LEMMA TypeStep == TypeOK /\ [Next]_vars => TypeOK'
<1> SUFFICES ASSUME TypeOK, [Next]_vars PROVE TypeOK'
    OBVIOUS
<1>t. VolumeType /\ RequestType /\ KafkaType /\ RestType
    BY TypeParts
<1>1. ASSUME NEW r \in Request, FetchAndVerify(r) \/ ChooseTOMA(r) PROVE TypeOK'
    <2>1. \E from \in {"idle", "choose"}, to \in {"choose", "set", "failed"} : Goto(r, from, to)
        BY <1>1 DEF FetchAndVerify, ChooseTOMA
    <2>2. pc' \in [Request -> PCs]
        BY <1>t, <2>1, GotoType DEF PCs
    <2>3. UNCHANGED <<volumeVars, index, kafkaVars, seen, calculating, faults, missed>>
        BY <1>1 DEF FetchAndVerify, ChooseTOMA
    <2> QED BY <1>t, <2>2, <2>3, TypePartsPrime
        DEF VolumeType, CommandType, RequestType, KafkaType, RestType, volumeVars, kafkaVars
<1>2. ASSUME NEW r \in Request, NoTarget(r) PROVE TypeOK'
    <2>1. pc' \in [Request -> PCs]
        BY <1>t, <1>2, GotoType DEF NoTarget, PCs
    <2>2. faults' \in 0..MaxFaults
        BY <1>t, <1>2, FaultType DEF NoTarget
    <2>3. UNCHANGED <<volumeVars, index, kafkaVars, seen, calculating, missed>>
        BY <1>2 DEF NoTarget
    <2> QED BY <1>t, <2>1, <2>2, <2>3, TypePartsPrime
        DEF VolumeType, CommandType, RequestType, KafkaType, RestType, volumeVars, kafkaVars
<1>3. ASSUME NEW r \in Request, SetEncryptionCommand(r) PROVE TypeOK'
    <2>1. pc' \in [Request -> PCs]
        BY <1>t, <1>3, GotoType DEF SetEncryptionCommand, PCs, InProgress
    <2>2. command.index \in Nat
        BY <1>t DEF VolumeType, CommandType
    <2>3. CommandOf[r] \in Command
        BY CommandAssumption
    <2>4. CommandType'
        <3>1. CASE NoneInProgress
            <4>1. command' = [index |-> command.index + 1, name |-> CommandOf[r],
                              status |-> "pending", response |-> 0, acknowledged |-> FALSE]
                BY <1>3, <3>1 DEF SetEncryptionCommand
            <4>2. command.index + 1 \in Nat
                BY <2>2
            <4>3. CommandOf[r] \in Command \cup {"none"} /\ 0 \in Nat \cup {Unindexed}
                BY <2>3
            <4> QED BY <4>1, <4>2, <4>3 DEF CommandType
        <3>2. CASE ~NoneInProgress
            BY <1>t, <1>3, <3>2 DEF SetEncryptionCommand, CommandType, VolumeType
        <3> QED BY <3>1, <3>2
    <2>5. index' \in [Request -> Nat]
        BY <1>t, <1>3, <2>2 DEF SetEncryptionCommand, RequestType
    <2>6. UNCHANGED <<lastSent, isInitialized, action, kafkaVars, seen, calculating,
                      faults, missed>>
        BY <1>3 DEF SetEncryptionCommand
    <2> QED BY <1>t, <2>1, <2>4, <2>5, <2>6, TypePartsPrime
        DEF VolumeType, RequestType, KafkaType, RestType, kafkaVars
<1>4. ASSUME NEW r \in Request, CalculationReturns(r) PROVE TypeOK'
    <2>1. pc' \in [Request -> PCs]
        BY <1>t, <1>4, GotoType DEF CalculationReturns, PCs, InProgress
    <2>2. action' \in Command \cup {"none", "initRequired"}
        BY <1>t, <1>4, AnyActionType DEF CalculationReturns
    <2>3. UNCHANGED <<command, lastSent, isInitialized, index, kafkaVars,
                      seen, calculating, faults, missed>>
        BY <1>4 DEF CalculationReturns
    <2> QED BY <1>t, <2>1, <2>2, <2>3, TypePartsPrime
        DEF VolumeType, CommandType, RequestType, KafkaType, RestType, kafkaVars
<1>5. ASSUME NEW r \in Request, SendEncryptionCommandToTOMA(r) \/ SendFails(r)
      PROVE  TypeOK'
    <2>1. pc' \in [Request -> PCs]
        BY <1>t, <1>5, GotoType DEF SendEncryptionCommandToTOMA, SendFails, PCs, InProgress
    <2>2. topic' \subseteq Nat
        <3>1. index[r] \in Nat
            BY <1>t DEF RequestType
        <3>2. topic' \in {topic, topic \cup {index[r]}}
            BY <1>5 DEF SendEncryptionCommandToTOMA, SendFails
        <3> QED BY <1>t, <3>1, <3>2 DEF KafkaType
    <2>3. RestType'
        <3>1. CASE SendEncryptionCommandToTOMA(r)
            BY <1>t, <3>1 DEF SendEncryptionCommandToTOMA, RestType
        <3>2. CASE SendFails(r)
            <4>1. faults' \in 0..MaxFaults
                BY <1>t, <3>2, FaultType DEF SendFails
            <4> QED BY <1>t, <3>2, <4>1 DEF SendFails, RestType
        <3> QED BY <1>5, <3>1, <3>2
    <2>4. UNCHANGED <<volumeVars, index, responses, answered>>
        BY <1>5 DEF SendEncryptionCommandToTOMA, SendFails
    <2> QED BY <1>t, <2>1, <2>2, <2>3, <2>4, TypePartsPrime
        DEF VolumeType, CommandType, RequestType, KafkaType, volumeVars
<1>6. ASSUME NEW r \in Request, UpdateLastCommandSent(r) PROVE TypeOK'
    <2>1. pc' \in [Request -> PCs]
        BY <1>t, <1>6, GotoType DEF UpdateLastCommandSent, PCs
    <2>2. index[r] \in Nat
        BY <1>t DEF RequestType
    <2>3. CommandType' /\ lastSent' \in Nat
        <3>1. CASE IsCurrent(r)
            BY <1>t, <1>6, <2>2, <3>1 DEF UpdateLastCommandSent, VolumeType, CommandType
        <3>2. CASE ~IsCurrent(r)
            BY <1>t, <1>6, <3>2 DEF UpdateLastCommandSent, VolumeType, CommandType
        <3> QED BY <3>1, <3>2
    <2>4. UNCHANGED <<isInitialized, action, index, kafkaVars, seen, calculating,
                      faults, missed>>
        BY <1>6 DEF UpdateLastCommandSent
    <2> QED BY <1>t, <2>1, <2>3, <2>4, TypePartsPrime
        DEF VolumeType, RequestType, KafkaType, RestType, kafkaVars
<1>7. ASSUME NEW r \in Request, DatabaseFails(r) \/ Crash(r) PROVE TypeOK'
    <2>1. pc' \in [Request -> PCs]
        BY <1>t, <1>7, GotoType DEF DatabaseFails, Crash, PCs
    <2>2. faults' \in 0..MaxFaults
        BY <1>t, <1>7, FaultType DEF DatabaseFails, Crash
    <2>3. missed' \subseteq {"request", "response", "early", "old"}
        BY <1>t, <1>7 DEF DatabaseFails, Crash, RestType
    <2>4. UNCHANGED <<volumeVars, index, kafkaVars, seen, calculating>>
        BY <1>7 DEF DatabaseFails, Crash
    <2> QED BY <1>t, <2>1, <2>2, <2>3, <2>4, TypePartsPrime
        DEF VolumeType, CommandType, RequestType, KafkaType, RestType, volumeVars, kafkaVars
<1>8. ASSUME NEW i \in topic, Execute(i) PROVE TypeOK'
    <2>1. PICK result \in Result :
             LET response == [index |-> i, result |-> result]
             IN  /\ responses' = responses \cup {response}
                 /\ answered' = answered \cup {response}
        BY <1>8 DEF Execute
    <2>2. [index |-> i, result |-> result] \in Response
        BY <1>t DEF KafkaType, Response
    <2>3. KafkaType'
        BY <1>t, <1>8, <2>1, <2>2 DEF KafkaType, Execute
    <2>4. UNCHANGED <<volumeVars, requestVars, seen, calculating, faults, missed>>
        BY <1>8 DEF Execute
    <2> QED BY <1>t, <2>3, <2>4, TypePartsPrime
        DEF VolumeType, CommandType, RequestType, RestType, volumeVars, requestVars
<1>9. ASSUME NEW response \in answered, Redeliver(response) PROVE TypeOK'
    <2>1. KafkaType'
        BY <1>t, <1>9 DEF Redeliver, KafkaType
    <2>2. faults' \in 0..MaxFaults
        BY <1>t, <1>9, FaultType DEF Redeliver
    <2>3. UNCHANGED <<volumeVars, requestVars, seen, calculating, missed>>
        BY <1>9 DEF Redeliver
    <2> QED BY <1>t, <2>1, <2>2, <2>3, TypePartsPrime
        DEF VolumeType, CommandType, RequestType, RestType, volumeVars, requestVars
<1>10. ASSUME NEW response \in responses, HandleCommandResponse(response) PROVE TypeOK'
    <2>1. response.index \in Nat
        BY <1>t DEF KafkaType, Response
    <2>2. CommandType' /\ isInitialized' \in BOOLEAN /\ calculating' \in BOOLEAN
        <3>1. CASE LastMessage(response.index)
            BY <1>t, <1>10, <2>1, <3>1
               DEF HandleCommandResponse, VolumeType, CommandType
        <3>2. CASE ~LastMessage(response.index)
            BY <1>t, <1>10, <3>2
               DEF HandleCommandResponse, VolumeType, CommandType, RestType
        <3> QED BY <3>1, <3>2
    <2>3. missed' \subseteq {"request", "response", "early", "old"}
        BY <1>t, <1>10 DEF HandleCommandResponse, Misread, RestType
    <2>4. KafkaType'
        BY <1>t, <1>10 DEF HandleCommandResponse, KafkaType
    <2>5. UNCHANGED <<lastSent, action, requestVars, seen, faults>>
        BY <1>10 DEF HandleCommandResponse
    <2> QED BY <1>t, <2>2, <2>3, <2>4, <2>5, TypePartsPrime
        DEF VolumeType, RequestType, RestType, requestVars
<1>11. ASSUME NEW response \in responses, HandlerFails(response) PROVE TypeOK'
    <2>1. faults' \in 0..MaxFaults
        BY <1>t, <1>11, FaultType DEF HandlerFails
    <2>2. KafkaType' /\ missed' \subseteq {"request", "response", "early", "old"}
        BY <1>t, <1>11 DEF HandlerFails, KafkaType, RestType
    <2>3. UNCHANGED <<volumeVars, requestVars, seen, calculating>>
        BY <1>11 DEF HandlerFails
    <2> QED BY <1>t, <2>1, <2>2, <2>3, TypePartsPrime
        DEF VolumeType, CommandType, RequestType, RestType, volumeVars, requestVars
<1>12. CASE Calculate
    <2>1. action' \in Command \cup {"none", "initRequired"}
        BY <1>t, <1>12, AnyActionType DEF Calculate
    <2>2. calculating' \in BOOLEAN
          /\ UNCHANGED <<command, lastSent, isInitialized, requestVars, kafkaVars,
                         seen, faults, missed>>
        BY <1>12 DEF Calculate
    <2> QED BY <1>t, <2>1, <2>2, TypePartsPrime
        DEF VolumeType, CommandType, RequestType, KafkaType, RestType, requestVars, kafkaVars
<1>13. CASE HandlerCrashes
    <2>1. faults' \in 0..MaxFaults
        BY <1>t, <1>13, FaultType DEF HandlerCrashes
    <2>2. calculating' \in BOOLEAN
          /\ UNCHANGED <<volumeVars, requestVars, kafkaVars, seen, missed>>
        BY <1>13 DEF HandlerCrashes
    <2> QED BY <1>t, <2>1, <2>2, TypePartsPrime
        DEF VolumeType, CommandType, RequestType, KafkaType, RestType,
            volumeVars, requestVars, kafkaVars
<1>14. CASE ShowResponse
    <2>1. seen' \subseteq Nat
        BY <1>t, <1>14 DEF ShowResponse, VolumeType, CommandType, RestType
    <2>2. UNCHANGED <<volumeVars, requestVars, kafkaVars, calculating, faults, missed>>
        BY <1>14 DEF ShowResponse
    <2> QED BY <1>t, <2>1, <2>2, TypePartsPrime
        DEF VolumeType, CommandType, RequestType, KafkaType, RestType,
            volumeVars, requestVars, kafkaVars
<1>15. ASSUME NEW i \in seen, AcknowledgeResponseError(i) PROVE TypeOK'
    <2>1. CommandType'
        BY <1>t, <1>15 DEF AcknowledgeResponseError, VolumeType, CommandType
    <2>2. UNCHANGED <<lastSent, isInitialized, action, requestVars, kafkaVars, seen,
                      calculating, faults, missed>>
        BY <1>15 DEF AcknowledgeResponseError
    <2> QED BY <1>t, <2>1, <2>2, TypePartsPrime
        DEF VolumeType, RequestType, KafkaType, RestType, requestVars, kafkaVars
<1>16. CASE UNCHANGED vars
    BY <1>t, <1>16, TypePartsPrime
       DEF vars, VolumeType, CommandType, RequestType, KafkaType, RestType,
           volumeVars, requestVars, kafkaVars
<1> QED BY <1>1, <1>2, <1>3, <1>4, <1>5, <1>6, <1>7, <1>8, <1>9, <1>10, <1>11,
           <1>12, <1>13, <1>14, <1>15, <1>16 DEF Next, Step

LEMMA TypeInit == Init => TypeOK
<1> SUFFICES ASSUME Init PROVE TypeOK
    OBVIOUS
<1>1. VolumeType
    BY DEF Init, NoCommand, VolumeType, CommandType
<1>2. RequestType /\ KafkaType
    BY DEF Init, RequestType, KafkaType, PCs
<1>3. 0 \in 0..MaxFaults
    BY BoundsAssumption
<1>4. RestType
    BY <1>3 DEF Init, RestType
<1> QED BY <1>1, <1>2, <1>4, TypeParts

(* The types of every variable, for any requests and any number of faults. *)
THEOREM TypeCorrect == Spec => []TypeOK
<1>1. Init => TypeOK
    BY TypeInit
<1>2. TypeOK /\ [Next]_vars => TypeOK'
    BY TypeStep
<1> QED BY <1>1, <1>2, PTL DEF Spec

-----------------------------------------------------------------------------
(* One command at a time: as long as no response of an earlier command was *)
(* taken for the current one's.                                            *)
InProgressIsCurrent ==
    \A r \in Request : pc[r] \in InProgress =>
       /\ index[r] = command.index /\ command.status = "pending"
       /\ lastSent # command.index

Alone == \A r, s \in Request : pc[r] \in InProgress /\ pc[s] \in InProgress => r = s

TopicIsCurrent == /\ topic \subseteq {command.index}
                  /\ topic # {} => command.status \in {"pending", "sent"}

LastIsOld == lastSent <= command.index

AnswersAreOld ==
    \A response \in answered :
       /\ response.index <= command.index
       /\ response.index \notin topic
       /\ \A r \in Request : pc[r] \in {"calculate", "send"} => index[r] # response.index

(* What is in the topic was sent by a request that went on.                *)
SentOnce == \A r \in Request : pc[r] \in {"calculate", "send"} => index[r] \notin topic

Core == /\ InProgressIsCurrent /\ Alone /\ TopicIsCurrent
        /\ LastIsOld /\ AnswersAreOld /\ SentOnce

CommandInv == TypeOK /\ ("old" \in missed \/ Core)

(* A step that changes neither the command nor what TOMA has of it, and    *)
(* starts nothing.                                                         *)
LEMMA QuietStep ==
    ASSUME Core,
           command'.index = command.index, command'.status = command.status,
           UNCHANGED <<index, topic, answered, lastSent>>,
           \A r \in Request : pc'[r] \in InProgress => pc[r] \in InProgress,
           \A r \in Request : pc'[r] \in {"calculate", "send"} => pc[r] \in {"calculate", "send"}
    PROVE  Core'
<1>1. InProgressIsCurrent' /\ Alone' /\ TopicIsCurrent' /\ LastIsOld'
    BY DEF Core, InProgressIsCurrent, Alone, TopicIsCurrent, LastIsOld
<1>2. AnswersAreOld' /\ SentOnce'
    BY DEF Core, AnswersAreOld, SentOnce
<1> QED BY <1>1, <1>2 DEF Core

(* What a request that goes from one step to another does to the others.   *)
LEMMA GotoEffect ==
    ASSUME TypeOK, NEW r \in Request, NEW from, NEW to, Goto(r, from, to)
    PROVE  pc[r] = from /\ pc'[r] = to /\ \A s \in Request \ {r} : pc'[s] = pc[s]
BY DEF TypeOK, Goto

LEMMA IndexTypes ==
    ASSUME TypeOK
    PROVE  /\ command.index \in Nat /\ lastSent \in Nat
           /\ \A r \in Request : index[r] \in Nat
           /\ \A response \in answered : response.index \in Nat
BY DEF TypeOK, Response

LEMMA NewEffect ==
    ASSUME TypeOK, NEW r \in Request, SetEncryptionCommand(r), NoneInProgress
    PROVE  /\ command'.index = command.index + 1 /\ command'.status = "pending"
           /\ index'[r] = command.index + 1
           /\ \A s \in Request \ {r} : index'[s] = index[s]
           /\ UNCHANGED <<lastSent, topic, answered>>
<1>1. index \in [Request -> Nat]
    BY DEF TypeOK
<1>2. index' = [index EXCEPT ![r] = command.index + 1]
    BY DEF SetEncryptionCommand
<1>3. command' = [index |-> command.index + 1, name |-> CommandOf[r],
                  status |-> "pending", response |-> 0, acknowledged |-> FALSE]
    BY DEF SetEncryptionCommand
<1>4. UNCHANGED <<lastSent, topic, answered>>
    BY DEF SetEncryptionCommand, kafkaVars
<1> QED BY <1>1, <1>2, <1>3, <1>4

LEMMA NewCommandStep ==
    ASSUME TypeOK, Core, NEW r \in Request, SetEncryptionCommand(r), NoneInProgress
    PROVE  Core'
<1>1. pc[r] = "set" /\ pc'[r] = "calculate" /\ \A s \in Request \ {r} : pc'[s] = pc[s]
    BY GotoEffect DEF SetEncryptionCommand
<1>2. \A s \in Request : pc[s] \notin InProgress
    BY DEF Core, InProgressIsCurrent, NoneInProgress
<1>3. \A s \in Request \ {r} : pc'[s] \notin InProgress
    BY <1>1, <1>2
<1>4. topic = {}
    BY DEF Core, TopicIsCurrent, NoneInProgress
<1>5. InProgressIsCurrent' /\ LastIsOld'
    BY <1>3, NewEffect, IndexTypes DEF Core, InProgressIsCurrent, LastIsOld
<1>6. Alone' /\ TopicIsCurrent' /\ SentOnce'
    BY <1>3, <1>4, NewEffect DEF Alone, TopicIsCurrent, SentOnce
<1>7. AnswersAreOld'
    <2> SUFFICES ASSUME NEW response \in answered
                 PROVE  /\ response.index <= command.index + 1
                        /\ response.index # command.index + 1
        BY <1>3, <1>4, NewEffect DEF AnswersAreOld, InProgress
    <2>1. response.index <= command.index
        BY DEF Core, AnswersAreOld
    <2> QED BY <2>1, IndexTypes
<1> QED BY <1>5, <1>6, <1>7 DEF Core

LEMMA SendStep ==
    ASSUME TypeOK, Core, NEW r \in Request,
           SendEncryptionCommandToTOMA(r) \/ SendFails(r)
    PROVE  Core'
<1>1. /\ pc[r] = "send" /\ pc'[r] \in {"record", "failed"}
      /\ \A s \in Request \ {r} : pc'[s] = pc[s]
    BY GotoEffect DEF SendEncryptionCommandToTOMA, SendFails
<1>2. topic' \in {topic, topic \cup {index[r]}}
    BY DEF SendEncryptionCommandToTOMA, SendFails
<1>3. UNCHANGED <<command, lastSent, index, answered>>
    BY DEF SendEncryptionCommandToTOMA, SendFails, volumeVars
<1>4. /\ index[r] = command.index /\ command.status = "pending"
      /\ \A s \in Request \ {r} : pc[s] \notin InProgress
    BY <1>1 DEF Core, InProgressIsCurrent, Alone, InProgress
<1>5. InProgressIsCurrent' /\ LastIsOld' /\ Alone'
    BY <1>1, <1>3, <1>4 DEF Core, InProgressIsCurrent, LastIsOld, Alone, InProgress
<1>6. TopicIsCurrent'
    BY <1>2, <1>3, <1>4 DEF Core, TopicIsCurrent
<1>7. SentOnce' /\ AnswersAreOld'
    <2>1. \A s \in Request : pc'[s] \notin {"calculate", "send"}
        BY <1>1, <1>4 DEF InProgress
    <2>2. \A response \in answered : response.index # index[r]
        BY <1>1 DEF Core, AnswersAreOld
    <2> QED BY <1>2, <1>3, <2>1, <2>2 DEF Core, SentOnce, AnswersAreOld
<1> QED BY <1>5, <1>6, <1>7 DEF Core

LEMMA RecordStep ==
    ASSUME TypeOK, Core, NEW r \in Request, UpdateLastCommandSent(r)
    PROVE  Core'
<1>1. pc[r] = "record" /\ pc'[r] = "end" /\ \A s \in Request \ {r} : pc'[s] = pc[s]
    BY GotoEffect DEF UpdateLastCommandSent
<1>2. \A s \in Request : pc'[s] \notin InProgress
    BY <1>1 DEF Core, Alone, InProgress
<1>3. index[r] = command.index
    BY <1>1 DEF Core, InProgressIsCurrent, InProgress
<1>4. /\ command'.index = command.index /\ command'.status = "sent"
      /\ lastSent' = command.index
    BY <1>3 DEF UpdateLastCommandSent, IsCurrent, TypeOK
<1>5. UNCHANGED <<topic, answered, index>>
    BY DEF UpdateLastCommandSent, kafkaVars
<1>6. InProgressIsCurrent' /\ Alone' /\ TopicIsCurrent' /\ LastIsOld'
    BY <1>2, <1>4, <1>5, IndexTypes
       DEF Core, InProgressIsCurrent, Alone, TopicIsCurrent, LastIsOld
<1>7. AnswersAreOld' /\ SentOnce'
    BY <1>2, <1>4, <1>5 DEF Core, AnswersAreOld, SentOnce, InProgress
<1> QED BY <1>6, <1>7 DEF Core

LEMMA ExecuteStep ==
    ASSUME TypeOK, Core, NEW i \in topic, Execute(i)
    PROVE  Core'
<1>1. /\ topic' = topic \ {i}
      /\ \E result \in Result : answered' = answered \cup {[index |-> i, result |-> result]}
      /\ UNCHANGED <<command, lastSent, pc, index>>
    BY DEF Execute, volumeVars, requestVars
<1>2. InProgressIsCurrent' /\ Alone' /\ TopicIsCurrent' /\ LastIsOld' /\ SentOnce'
    BY <1>1 DEF Core, InProgressIsCurrent, Alone, TopicIsCurrent, LastIsOld, SentOnce
<1>3. i = command.index
    BY DEF Core, TopicIsCurrent
<1>4. AnswersAreOld'
    <2> SUFFICES ASSUME NEW response \in answered'
                 PROVE  /\ response.index <= command.index
                        /\ response.index \notin topic \ {i}
                        /\ \A r \in Request : pc[r] \in {"calculate", "send"} =>
                                               index[r] # response.index
        BY <1>1 DEF AnswersAreOld
    <2>1. CASE response \in answered
        BY <2>1 DEF Core, AnswersAreOld
    <2>2. CASE response.index = i
        BY <1>3, <2>2, IndexTypes DEF Core, SentOnce
    <2> QED BY <1>1, <2>1, <2>2
<1> QED BY <1>2, <1>4 DEF Core

LEMMA ResponseStep ==
    ASSUME TypeOK, Core, NEW response \in responses, HandleCommandResponse(response),
           "old" \notin missed'
    PROVE  Core'
<1> DEFINE i == response.index
<1>1. UNCHANGED <<lastSent, pc, index, topic, answered>>
    BY DEF HandleCommandResponse, requestVars
<1>2. CASE ~LastMessage(i)
    <2>1. command' = command
        BY <1>2 DEF HandleCommandResponse
    <2> QED BY <1>1, <2>1, QuietStep
<1>3. CASE LastMessage(i)
    <2>1. i = command.index
        BY <1>3 DEF HandleCommandResponse, Misread
    <2>2. lastSent = command.index
        BY <1>3, <2>1 DEF LastMessage
    <2>3. response \in answered
        BY DEF TypeOK
    <2>4. topic = {}
        BY <2>1, <2>3 DEF Core, AnswersAreOld, TopicIsCurrent
    <2>5. \A r \in Request : pc[r] \notin InProgress
        BY <2>2 DEF Core, InProgressIsCurrent
    <2>6. command'.index = command.index
        BY <1>3 DEF HandleCommandResponse, TypeOK
    <2>7. InProgressIsCurrent' /\ Alone' /\ TopicIsCurrent' /\ LastIsOld'
        BY <1>1, <2>4, <2>5, <2>6
           DEF Core, InProgressIsCurrent, Alone, TopicIsCurrent, LastIsOld
    <2>8. AnswersAreOld' /\ SentOnce'
        BY <1>1, <2>4, <2>5, <2>6 DEF Core, AnswersAreOld, SentOnce, InProgress
    <2> QED BY <2>7, <2>8 DEF Core
<1> QED BY <1>2, <1>3

LEMMA CoreStep ==
    ASSUME TypeOK, Core, [Next]_vars, "old" \notin missed'
    PROVE  Core'
<1> USE DEF InProgress
<1>1. ASSUME NEW r \in Request, FetchAndVerify(r) \/ ChooseTOMA(r) \/ NoTarget(r) PROVE Core'
    <2>1. /\ pc'[r] \in {"choose", "set", "failed"}
          /\ \A s \in Request \ {r} : pc'[s] = pc[s]
        BY <1>1, GotoEffect DEF FetchAndVerify, ChooseTOMA, NoTarget
    <2>2. UNCHANGED <<command, index, topic, answered, lastSent>>
        BY <1>1 DEF FetchAndVerify, ChooseTOMA, NoTarget, volumeVars, kafkaVars
    <2> QED BY <2>1, <2>2, QuietStep
<1>2. ASSUME NEW r \in Request, SetEncryptionCommand(r) PROVE Core'
    <2>1. CASE NoneInProgress
        BY <1>2, <2>1, NewCommandStep
    <2>2. CASE ~NoneInProgress
        <3>1. pc'[r] = "failed" /\ \A s \in Request \ {r} : pc'[s] = pc[s]
            BY <1>2, <2>2, GotoEffect DEF SetEncryptionCommand
        <3>2. UNCHANGED <<command, index, topic, answered, lastSent>>
            BY <1>2, <2>2 DEF SetEncryptionCommand, kafkaVars
        <3> QED BY <3>1, <3>2, QuietStep
    <2> QED BY <2>1, <2>2
<1>3. ASSUME NEW r \in Request, CalculationReturns(r) PROVE Core'
    <2>1. /\ pc[r] = "calculate" /\ pc'[r] = "send"
          /\ \A s \in Request \ {r} : pc'[s] = pc[s]
        BY <1>3, GotoEffect DEF CalculationReturns
    <2>2. UNCHANGED <<command, index, topic, answered, lastSent>>
        BY <1>3 DEF CalculationReturns, kafkaVars
    <2> QED BY <2>1, <2>2, QuietStep
<1>4. ASSUME NEW r \in Request, SendEncryptionCommandToTOMA(r) \/ SendFails(r) PROVE Core'
    BY <1>4, SendStep
<1>5. ASSUME NEW r \in Request, UpdateLastCommandSent(r) PROVE Core'
    BY <1>5, RecordStep
<1>6. ASSUME NEW r \in Request, DatabaseFails(r) \/ Crash(r) PROVE Core'
    <2>1. pc'[r] = "failed" /\ \A s \in Request \ {r} : pc'[s] = pc[s]
        BY <1>6, GotoEffect DEF DatabaseFails, Crash
    <2>2. UNCHANGED <<command, index, topic, answered, lastSent>>
        BY <1>6 DEF DatabaseFails, Crash, volumeVars, kafkaVars
    <2> QED BY <2>1, <2>2, QuietStep
<1>7. ASSUME NEW i \in topic, Execute(i) PROVE Core'
    BY <1>7, ExecuteStep
<1>8. ASSUME NEW response \in responses, HandleCommandResponse(response) PROVE Core'
    BY <1>8, ResponseStep
<1>9. ASSUME NEW response \in answered, Redeliver(response) PROVE Core'
    <2>1. UNCHANGED <<command, index, topic, answered, lastSent, pc>>
        BY <1>9 DEF Redeliver, volumeVars, requestVars
    <2> QED BY <2>1, QuietStep
<1>10. ASSUME NEW response \in responses, HandlerFails(response) PROVE Core'
    <2>1. UNCHANGED <<command, index, topic, answered, lastSent, pc>>
        BY <1>10 DEF HandlerFails, volumeVars, requestVars
    <2> QED BY <2>1, QuietStep
<1>11. CASE Calculate \/ HandlerCrashes \/ ShowResponse \/ UNCHANGED vars
    <2>1. UNCHANGED <<command, index, topic, answered, lastSent, pc>>
        BY <1>11 DEF Calculate, HandlerCrashes, ShowResponse, vars, volumeVars, requestVars,
                     kafkaVars
    <2> QED BY <2>1, QuietStep
<1>12. ASSUME NEW i \in seen, AcknowledgeResponseError(i) PROVE Core'
    <2>1. command'.index = command.index /\ command'.status = command.status
        BY <1>12 DEF AcknowledgeResponseError, TypeOK
    <2>2. UNCHANGED <<index, topic, answered, lastSent, pc>>
        BY <1>12 DEF AcknowledgeResponseError, requestVars, kafkaVars
    <2> QED BY <2>1, <2>2, QuietStep
<1> QED BY <1>1, <1>2, <1>3, <1>4, <1>5, <1>6, <1>7, <1>8, <1>9, <1>10, <1>11,
           <1>12 DEF Next, Step

LEMMA MissedGrows == TypeOK /\ [Next]_vars => missed \subseteq missed'
BY DEF Next, Step, vars, FetchAndVerify, ChooseTOMA, NoTarget, SetEncryptionCommand,
       CalculationReturns, SendEncryptionCommandToTOMA, SendFails, UpdateLastCommandSent,
       DatabaseFails, Crash, Execute, Redeliver, HandleCommandResponse, HandlerFails,
       Calculate, HandlerCrashes, ShowResponse, AcknowledgeResponseError

LEMMA CoreInit == Init => Core
BY DEF Init, NoCommand, Core, InProgressIsCurrent, Alone, TopicIsCurrent, LastIsOld,
       AnswersAreOld, SentOnce, InProgress

(* TOMA never has a command of the volume to execute beside the one that   *)
(* the volume has in progress, for any requests, faults and acknowledge-   *)
(* ments, as long as no response of an earlier command came again between  *)
(* the start of a command and the record that it was sent.                 *)
THEOREM NoParallelCommands == Spec => []OneCommandAtATime
<1>1. Init => CommandInv
    BY TypeInit, CoreInit DEF CommandInv
<1>2. CommandInv /\ [Next]_vars => CommandInv'
    <2> SUFFICES ASSUME CommandInv, [Next]_vars PROVE CommandInv'
        OBVIOUS
    <2>1. TypeOK /\ TypeOK'
        BY TypeStep DEF CommandInv
    <2>2. CASE "old" \in missed'
        BY <2>1, <2>2 DEF CommandInv
    <2>3. CASE "old" \notin missed'
        BY <2>1, <2>3, MissedGrows, CoreStep DEF CommandInv
    <2> QED BY <2>2, <2>3
<1>3. CommandInv => OneCommandAtATime
    <2> SUFFICES ASSUME TypeOK, Core, "old" \notin missed PROVE OneCommandAtATime
        BY DEF CommandInv, OneCommandAtATime
    <2>1. \A i \in AtToma : i = command.index /\ command.status \in {"pending", "sent"}
        BY DEF Core, InProgressIsCurrent, TopicIsCurrent, AtToma
    <2> QED BY <2>1 DEF OneCommandAtATime
<1> QED BY <1>1, <1>2, <1>3, PTL DEF Spec

-----------------------------------------------------------------------------
(* What TOMA gets and answers was asked for; and only a volume that is     *)
(* initialized was asked about passphrases.                                *)
Unasked(r)  == pc[r] \in {"idle", "choose", "set"}
Accepted(r) == index[r] # 0 \/ pc[r] \in {"choose", "set"}

WasAsked(i) == i # 0 /\ \E r \in Request : index[r] = i

PassphraseAfterInit ==
    \A r \in Request : CommandOf[r] = "passphrase" /\ Accepted(r) => isInitialized

AskedInv == /\ \A r \in Request : Unasked(r) => index[r] = 0
            /\ \A r \in Request : pc[r] \in InProgress => index[r] # 0
            /\ PassphraseAfterInit
            /\ \A i \in topic : WasAsked(i)
            /\ \A response \in answered : WasAsked(response.index)

(* A request that goes on, and writes nothing.                             *)
LEMMA AskedGoto ==
    ASSUME TypeOK, AskedInv, NEW r \in Request, NEW from, NEW to, Goto(r, from, to),
           Unasked(r)' => Unasked(r),
           to \in InProgress => from \in InProgress,
           to \in {"choose", "set"} => from \in {"choose", "set"} \/ Verified(CommandOf[r]),
           isInitialized' = isInitialized, index' = index, answered' = answered,
           \A i \in topic' : i \in topic \/ (i = index[r] /\ index[r] # 0)
    PROVE  AskedInv'
<1>1. pc[r] = from /\ pc'[r] = to /\ \A s \in Request \ {r} : pc'[s] = pc[s]
    BY GotoEffect
<1>2. \A s \in Request : Unasked(s)' => index'[s] = 0
    BY <1>1 DEF AskedInv, Unasked
<1>3. \A s \in Request : pc'[s] \in InProgress => index'[s] # 0
    BY <1>1 DEF AskedInv
<1>4. PassphraseAfterInit'
    <2> SUFFICES ASSUME NEW s \in Request, CommandOf[s] = "passphrase",
                        index[s] # 0 \/ pc'[s] \in {"choose", "set"}
                 PROVE  isInitialized
        BY DEF PassphraseAfterInit, Accepted
    <2>1. Accepted(s) \/ Verified("passphrase")
        <3>1. CASE s = r
            BY <1>1, <3>1 DEF Accepted
        <3>2. CASE s # r
            BY <1>1, <3>2 DEF Accepted
        <3> QED BY <3>1, <3>2
    <2>2. CASE Accepted(s)
        BY <2>2 DEF AskedInv, PassphraseAfterInit
    <2>3. CASE Verified("passphrase")
        BY <2>3 DEF Verified
    <2> QED BY <2>1, <2>2, <2>3
<1>5. \A i \in topic' : WasAsked(i)'
    BY DEF AskedInv, WasAsked
<1>6. \A response \in answered' : WasAsked(response.index)'
    BY DEF AskedInv, WasAsked
<1> QED BY <1>2, <1>3, <1>4, <1>5, <1>6 DEF AskedInv

(* A step of Kafka, of TOMA or of a user.                                  *)
LEMMA AskedQuiet ==
    ASSUME AskedInv, UNCHANGED <<pc, index>>, isInitialized => isInitialized',
           topic' \subseteq topic,
           \A response \in answered' : response \in answered \/ response.index \in topic
    PROVE  AskedInv'
<1>1. \A i : WasAsked(i) => WasAsked(i)'
    BY DEF WasAsked
<1>2. PassphraseAfterInit'
    BY DEF AskedInv, PassphraseAfterInit, Accepted
<1>3. \A r \in Request : (Unasked(r)' => index'[r] = 0) /\ (pc'[r] \in InProgress => index'[r] # 0)
    BY DEF AskedInv, Unasked
<1> QED BY <1>1, <1>2, <1>3 DEF AskedInv

LEMMA AskedNewCommand ==
    ASSUME TypeOK, AskedInv, NEW r \in Request, SetEncryptionCommand(r), NoneInProgress
    PROVE  AskedInv'
<1>1. pc[r] = "set" /\ pc'[r] = "calculate" /\ \A s \in Request \ {r} : pc'[s] = pc[s]
    BY GotoEffect DEF SetEncryptionCommand
<1>2. /\ index'[r] = command.index + 1 /\ \A s \in Request \ {r} : index'[s] = index[s]
      /\ UNCHANGED <<isInitialized, topic, answered>>
    BY DEF SetEncryptionCommand, TypeOK, kafkaVars
<1>3. index[r] = 0 /\ index'[r] # 0
    BY <1>1, <1>2, IndexTypes DEF AskedInv, Unasked
<1>4. \A i : WasAsked(i) => WasAsked(i)'
    BY <1>2, <1>3 DEF WasAsked
<1>5. \A s \in Request : (Unasked(s)' => index'[s] = 0) /\ (pc'[s] \in InProgress => index'[s] # 0)
    BY <1>1, <1>2, <1>3 DEF AskedInv, Unasked
<1>6. PassphraseAfterInit'
    <2>1. \A s \in Request : Accepted(s)' => Accepted(s)
        BY <1>1, <1>2 DEF Accepted
    <2> QED BY <1>2, <2>1 DEF AskedInv, PassphraseAfterInit
<1> QED BY <1>2, <1>4, <1>5, <1>6 DEF AskedInv

LEMMA AskedStep == TypeOK /\ AskedInv /\ [Next]_vars => AskedInv'
<1> SUFFICES ASSUME TypeOK, AskedInv, [Next]_vars PROVE AskedInv'
    OBVIOUS
<1>1. ASSUME NEW r \in Request, FetchAndVerify(r) PROVE AskedInv'
    <2>1. UNCHANGED <<isInitialized, index, answered, topic>>
        BY <1>1 DEF FetchAndVerify, volumeVars, kafkaVars
    <2>2. CASE Verified(CommandOf[r]) /\ Goto(r, "idle", "choose")
        <3>1. Unasked(r)
            BY <2>2 DEF Goto, Unasked
        <3> QED BY <2>1, <2>2, <3>1, AskedGoto DEF InProgress
    <2>3. CASE Goto(r, "idle", "failed")
        <3>1. Unasked(r)
            BY <2>3 DEF Goto, Unasked
        <3> QED BY <2>1, <2>3, <3>1, AskedGoto DEF InProgress
    <2> QED BY <1>1, <2>2, <2>3 DEF FetchAndVerify
<1>2. ASSUME NEW r \in Request, ChooseTOMA(r) \/ NoTarget(r) PROVE AskedInv'
    <2>1. UNCHANGED <<isInitialized, index, answered, topic>>
        BY <1>2 DEF ChooseTOMA, NoTarget, volumeVars, kafkaVars
    <2>2. PICK to \in {"set", "failed"} : Goto(r, "choose", to)
        BY <1>2 DEF ChooseTOMA, NoTarget
    <2>3. Unasked(r)
        BY <2>2 DEF Goto, Unasked
    <2> QED BY <2>1, <2>2, <2>3, AskedGoto DEF InProgress
<1>3. ASSUME NEW r \in Request, SetEncryptionCommand(r) PROVE AskedInv'
    <2>1. CASE NoneInProgress
        BY <1>3, <2>1, AskedNewCommand
    <2>2. CASE ~NoneInProgress
        <3>1. Goto(r, "set", "failed") /\ UNCHANGED <<isInitialized, index, answered, topic>>
            BY <1>3, <2>2 DEF SetEncryptionCommand, kafkaVars
        <3>2. Unasked(r)
            BY <3>1 DEF Goto, Unasked
        <3> QED BY <3>1, <3>2, AskedGoto DEF InProgress
    <2> QED BY <2>1, <2>2
<1>4. ASSUME NEW r \in Request,
             \/ CalculationReturns(r) \/ SendEncryptionCommandToTOMA(r)
             \/ SendFails(r) \/ UpdateLastCommandSent(r)
      PROVE  AskedInv'
    <2>1. PICK from \in InProgress, to \in {"send", "record", "end", "failed"} : Goto(r, from, to)
        BY <1>4 DEF CalculationReturns, SendEncryptionCommandToTOMA, SendFails,
                    UpdateLastCommandSent, InProgress
    <2>2. UNCHANGED <<isInitialized, index, answered>>
        BY <1>4 DEF CalculationReturns, SendEncryptionCommandToTOMA, SendFails,
                    UpdateLastCommandSent, volumeVars, kafkaVars
    <2>3. index[r] # 0
        BY <2>1 DEF AskedInv, Goto
    <2>4. \A i \in topic' : i \in topic \/ (i = index[r] /\ index[r] # 0)
        BY <1>4, <2>3 DEF CalculationReturns, SendEncryptionCommandToTOMA, SendFails,
                          UpdateLastCommandSent, kafkaVars
    <2>5. ~Unasked(r)'
        BY <2>1, GotoEffect DEF Unasked
    <2> QED BY <2>1, <2>2, <2>4, <2>5, AskedGoto
<1>5. ASSUME NEW r \in Request, DatabaseFails(r) \/ Crash(r) PROVE AskedInv'
    <2>1. PICK from : Goto(r, from, "failed")
        BY <1>5 DEF DatabaseFails, Crash
    <2>2. UNCHANGED <<isInitialized, index, answered, topic>>
        BY <1>5 DEF DatabaseFails, Crash, volumeVars, kafkaVars
    <2>3. ~Unasked(r)'
        BY <2>1, GotoEffect DEF Unasked
    <2> QED BY <2>1, <2>2, <2>3, AskedGoto DEF InProgress
<1>6. ASSUME NEW i \in topic, Execute(i) PROVE AskedInv'
    <2>1. PICK result \in Result : answered' = answered \cup {[index |-> i, result |-> result]}
        BY <1>6 DEF Execute
    <2>2. UNCHANGED <<pc, index, isInitialized>> /\ topic' \subseteq topic
        BY <1>6 DEF Execute, volumeVars, requestVars
    <2> QED BY <2>1, <2>2, AskedQuiet
<1>7. ASSUME NEW response \in answered, Redeliver(response) PROVE AskedInv'
    BY <1>7, AskedQuiet DEF Redeliver, volumeVars, requestVars
<1>8. ASSUME NEW response \in responses, HandleCommandResponse(response) PROVE AskedInv'
    <2>1. UNCHANGED <<pc, index, topic, answered>>
        BY <1>8 DEF HandleCommandResponse, requestVars
    <2>2. isInitialized => isInitialized'
        BY <1>8 DEF HandleCommandResponse
    <2> QED BY <2>1, <2>2, AskedQuiet
<1>9. ASSUME NEW response \in responses, HandlerFails(response) PROVE AskedInv'
    BY <1>9, AskedQuiet DEF HandlerFails, volumeVars, requestVars
<1>10. CASE Calculate \/ HandlerCrashes \/ ShowResponse \/ UNCHANGED vars
    <2>1. UNCHANGED <<pc, index, isInitialized, topic, answered>>
        BY <1>10 DEF Calculate, HandlerCrashes, ShowResponse, vars, volumeVars, requestVars,
                     kafkaVars
    <2> QED BY <2>1, AskedQuiet
<1>11. ASSUME NEW i \in seen, AcknowledgeResponseError(i) PROVE AskedInv'
    BY <1>11, AskedQuiet DEF AcknowledgeResponseError, requestVars, kafkaVars
<1> QED BY <1>1, <1>2, <1>3, <1>4, <1>5, <1>6, <1>7, <1>8, <1>9, <1>10, <1>11 DEF Next, Step

LEMMA AskedInit == Init => AskedInv
BY DEF Init, AskedInv, Unasked, Accepted, PassphraseAfterInit, WasAsked, InProgress

-----------------------------------------------------------------------------
(* What users saw is a response: an acknowledgement finds one, or another  *)
(* command.                                                                *)
SeenAreOld ==
    \A i \in seen : i <= command.index /\ (i = command.index => command.response # 0)

(* The response of an executed command is always that of the last message. *)
ExecutedIsLast == /\ LastIsOld
                  /\ command.status = "executed" => command.response = lastSent

Truth == SeenAreOld /\ ExecutedIsLast /\ VolumeTellsTruth

TruthInv == TypeOK /\ AskedInv /\ Truth

(* A request keeps its index, and an answer its request.                   *)
LEMMA InitializedStays ==
    ASSUME InitializedByTOMA, isInitialized' = isInitialized, answered \subseteq answered',
           \A r \in Request : index[r] # 0 => index'[r] = index[r],
           \A response \in answered : response.index # 0
    PROVE  InitializedByTOMA'
BY DEF InitializedByTOMA

LEMMA TruthStutter ==
    ASSUME TruthInv,
           command'.index = command.index, command'.status = command.status,
           command'.response = command.response, seen' = seen,
           UNCHANGED <<lastSent, isInitialized>>,
           \A r \in Request : index[r] # 0 => index'[r] = index[r],
           answered \subseteq answered', missed \subseteq missed'
    PROVE  Truth'
<1>1. SeenAreOld' /\ SentIsAwaited' /\ ExecutedIsLast'
    BY DEF TruthInv, Truth, SeenAreOld, SentIsAwaited, VolumeTellsTruth, ExecutedIsLast,
           LastIsOld
<1>2. ExecutedWasAnswered'
    BY DEF TruthInv, Truth, ExecutedWasAnswered, VolumeTellsTruth, TakenForNewer
<1>3. InitializedByTOMA'
    BY InitializedStays DEF TruthInv, Truth, VolumeTellsTruth, AskedInv, WasAsked
<1> QED BY <1>1, <1>2, <1>3 DEF VolumeTellsTruth, Truth

LEMMA TruthNewCommand ==
    ASSUME TruthInv, NEW r \in Request, SetEncryptionCommand(r), NoneInProgress
    PROVE  Truth'
<1>1. /\ command'.index = command.index + 1 /\ command'.status = "pending"
      /\ command'.response = 0
      /\ UNCHANGED <<lastSent, isInitialized, answered, seen, missed>>
    BY DEF SetEncryptionCommand, kafkaVars
<1>2. SeenAreOld'
    <2> SUFFICES ASSUME NEW i \in seen PROVE i <= command.index + 1 /\ i # command.index + 1
        BY <1>1 DEF SeenAreOld
    <2>1. i <= command.index /\ i \in Nat
        BY DEF TruthInv, Truth, SeenAreOld, TypeOK
    <2> QED BY <2>1, IndexTypes DEF TruthInv
<1>3. SentIsAwaited' /\ ExecutedWasAnswered'
    BY <1>1 DEF TruthInv, Truth, VolumeTellsTruth, SentIsAwaited, ExecutedWasAnswered
<1>4. ExecutedIsLast'
    BY <1>1, IndexTypes DEF TruthInv, Truth, ExecutedIsLast, LastIsOld
<1>5. InitializedByTOMA'
    <2>1. index[r] = 0
        BY DEF TruthInv, AskedInv, Unasked, SetEncryptionCommand, Goto
    <2>2. \A s \in Request : index[s] # 0 => index'[s] = index[s]
        BY <2>1 DEF SetEncryptionCommand, TruthInv, TypeOK
    <2> QED BY <1>1, <2>2, InitializedStays
            DEF TruthInv, Truth, VolumeTellsTruth, AskedInv, WasAsked
<1> QED BY <1>2, <1>3, <1>4, <1>5 DEF VolumeTellsTruth, Truth

LEMMA TruthRecord ==
    ASSUME TruthInv, NEW r \in Request, UpdateLastCommandSent(r), IsCurrent(r)
    PROVE  Truth'
<1>1. /\ command'.index = command.index /\ command'.status = "sent"
      /\ command'.response = command.response /\ lastSent' = command.index
    BY DEF UpdateLastCommandSent, IsCurrent, TruthInv, TypeOK
<1>2. UNCHANGED <<isInitialized, index, answered, seen, missed>>
    BY DEF UpdateLastCommandSent, kafkaVars
<1>3. SeenAreOld' /\ SentIsAwaited' /\ ExecutedIsLast'
    BY <1>1, <1>2, IndexTypes
       DEF TruthInv, Truth, SeenAreOld, SentIsAwaited, ExecutedIsLast, LastIsOld
<1>4. ExecutedWasAnswered'
    BY <1>1, <1>2 DEF TruthInv, Truth, VolumeTellsTruth, ExecutedWasAnswered
<1>5. InitializedByTOMA'
    BY <1>2, InitializedStays DEF TruthInv, Truth, VolumeTellsTruth, AskedInv, WasAsked
<1> QED BY <1>3, <1>4, <1>5 DEF VolumeTellsTruth, Truth

LEMMA TruthResponse ==
    ASSUME TruthInv, NEW response \in responses, HandleCommandResponse(response),
           LastMessage(response.index)
    PROVE  Truth'
<1>1. response \in answered /\ response.index \in Nat /\ response.result \in Result
    BY DEF TruthInv, TypeOK, Response
<1>2. /\ command'.index = command.index /\ command'.status = "executed"
      /\ command'.response = response.index /\ lastSent = response.index
      /\ isInitialized' = (isInitialized \/ response.result = "success")
      /\ UNCHANGED <<lastSent, index, answered, seen>>
    BY DEF HandleCommandResponse, LastMessage, TruthInv, TypeOK, requestVars
<1>3. missed' = missed \cup Misread(response.index)
    BY DEF HandleCommandResponse
<1>4. ExecutedIsLast' /\ SentIsAwaited'
    BY <1>2 DEF TruthInv, Truth, ExecutedIsLast, LastIsOld, SentIsAwaited
<1>5. ExecutedWasAnswered'
    <2>1. command'.response # 0 => \E answer \in answered' : answer.index = command'.response
        BY <1>1, <1>2
    <2>2. CASE response.index = command.index
        BY <1>2, <2>1, <2>2 DEF ExecutedWasAnswered
    <2>3. CASE response.index # command.index
        <3>1. "old" \in missed'
            BY <1>3, <2>3 DEF Misread
        <3>2. lastSent < command.index
            BY <1>2, <2>3, IndexTypes DEF TruthInv, Truth, ExecutedIsLast, LastIsOld
        <3>3. TakenForNewer'
            BY <1>2, <3>1, <3>2 DEF TakenForNewer
        <3> QED BY <2>1, <3>3 DEF ExecutedWasAnswered
    <2> QED BY <2>2, <2>3
<1>6. InitializedByTOMA'
    <2>1. CASE isInitialized
        <3>1. isInitialized' = isInitialized
            BY <1>2, <2>1 DEF TruthInv, TypeOK
        <3> QED BY <1>2, <3>1, InitializedStays
                DEF TruthInv, Truth, VolumeTellsTruth, AskedInv, WasAsked
    <2>2. CASE ~isInitialized /\ response.result = "success"
        <3>1. PICK r \in Request : index[r] = response.index /\ index[r] # 0
            BY <1>1 DEF TruthInv, AskedInv, WasAsked
        <3>2. CommandOf[r] = "init"
            BY <2>2, <3>1, CommandAssumption
               DEF TruthInv, AskedInv, PassphraseAfterInit, Accepted, Command
        <3> QED BY <1>1, <1>2, <2>2, <3>1, <3>2 DEF InitializedByTOMA
    <2>3. CASE ~isInitialized /\ response.result # "success"
        BY <1>2, <2>3 DEF InitializedByTOMA
    <2> QED BY <2>1, <2>2, <2>3
<1>7. SeenAreOld'
    <2> SUFFICES ASSUME NEW i \in seen, i = command.index PROVE response.index # 0
        BY <1>2 DEF SeenAreOld, TruthInv, Truth
    <2>1. command.response # 0
        BY DEF TruthInv, Truth, SeenAreOld
    <2>2. command.response \in 1..(response.index - 1)
        BY <2>1 DEF LastMessage
    <2> QED BY <1>1, <2>2
<1> QED BY <1>4, <1>5, <1>6, <1>7 DEF VolumeTellsTruth, Truth

LEMMA TruthStep == TruthInv /\ [Next]_vars => Truth'
<1> SUFFICES ASSUME TruthInv, [Next]_vars PROVE Truth'
    OBVIOUS
<1>t. TypeOK /\ TruthInv /\ missed \subseteq missed'
    BY MissedGrows DEF TruthInv
<1>1. ASSUME NEW r \in Request,
             \/ FetchAndVerify(r) \/ ChooseTOMA(r) \/ NoTarget(r) \/ CalculationReturns(r)
             \/ SendEncryptionCommandToTOMA(r) \/ SendFails(r)
             \/ DatabaseFails(r) \/ Crash(r)
      PROVE  Truth'
    <2>1. UNCHANGED <<command, lastSent, isInitialized, index, answered, seen>>
        BY <1>1 DEF FetchAndVerify, ChooseTOMA, NoTarget, CalculationReturns, SendFails,
                    SendEncryptionCommandToTOMA, DatabaseFails, Crash, volumeVars, kafkaVars
    <2> QED BY <1>t, <2>1, TruthStutter
<1>2. ASSUME NEW r \in Request, SetEncryptionCommand(r)
      PROVE  Truth'
    <2>1. CASE NoneInProgress
        BY <1>2, <2>1, TruthNewCommand
    <2>2. CASE ~NoneInProgress
        <3>1. UNCHANGED <<command, lastSent, isInitialized, index, answered, seen>>
            BY <1>2, <2>2 DEF SetEncryptionCommand, kafkaVars
        <3> QED BY <1>t, <3>1, TruthStutter
    <2> QED BY <2>1, <2>2
<1>3. ASSUME NEW r \in Request, UpdateLastCommandSent(r)
      PROVE  Truth'
    <2>1. CASE IsCurrent(r)
        BY <1>3, <2>1, TruthRecord
    <2>2. CASE ~IsCurrent(r)
        <3>1. UNCHANGED <<command, lastSent, isInitialized, index, answered, seen>>
            BY <1>3, <2>2 DEF UpdateLastCommandSent, kafkaVars
        <3> QED BY <1>t, <3>1, TruthStutter
    <2> QED BY <2>1, <2>2
<1>4. ASSUME NEW i \in topic, Execute(i) PROVE Truth'
    <2>1. UNCHANGED <<command, lastSent, isInitialized, index, seen>> /\ answered \subseteq answered'
        BY <1>4 DEF Execute, volumeVars, requestVars
    <2> QED BY <1>t, <2>1, TruthStutter
<1>5. ASSUME NEW response \in responses, HandleCommandResponse(response)
      PROVE  Truth'
    <2>1. CASE LastMessage(response.index)
        BY <1>5, <2>1, TruthResponse
    <2>2. CASE ~LastMessage(response.index)
        <3>1. UNCHANGED <<command, lastSent, isInitialized, index, answered, seen>>
            BY <1>5, <2>2 DEF HandleCommandResponse, requestVars
        <3> QED BY <1>t, <3>1, TruthStutter
    <2> QED BY <2>1, <2>2
<1>6. ASSUME NEW response \in answered, Redeliver(response)
      PROVE  Truth'
    <2>1. UNCHANGED <<command, lastSent, isInitialized, index, answered, seen>>
        BY <1>6 DEF Redeliver, volumeVars, requestVars
    <2> QED BY <1>t, <2>1, TruthStutter
<1>7. ASSUME NEW response \in responses, HandlerFails(response)
      PROVE  Truth'
    <2>1. UNCHANGED <<command, lastSent, isInitialized, index, answered, seen>>
        BY <1>7 DEF HandlerFails, volumeVars, requestVars
    <2> QED BY <1>t, <2>1, TruthStutter
<1>8. CASE Calculate \/ HandlerCrashes \/ UNCHANGED vars
    <2>1. UNCHANGED <<command, lastSent, isInitialized, index, answered, seen>>
        BY <1>8 DEF Calculate, HandlerCrashes, vars, volumeVars, requestVars, kafkaVars
    <2> QED BY <1>t, <2>1, TruthStutter
<1>9. CASE ShowResponse
    <2>1. /\ command.response # 0 /\ seen' = seen \cup {command.index}
          /\ UNCHANGED <<command, lastSent, isInitialized, index, answered, missed>>
        BY <1>9 DEF ShowResponse, volumeVars, requestVars, kafkaVars
    <2>2. SeenAreOld'
        BY <1>t, <2>1, IndexTypes DEF TruthInv, Truth, SeenAreOld
    <2>3. ExecutedIsLast' /\ SentIsAwaited'
        BY <1>t, <2>1 DEF TruthInv, Truth, ExecutedIsLast, LastIsOld, VolumeTellsTruth, SentIsAwaited
    <2>4. ExecutedWasAnswered' /\ InitializedByTOMA'
        BY <1>t, <2>1
           DEF TruthInv, Truth, VolumeTellsTruth, ExecutedWasAnswered, TakenForNewer, InitializedByTOMA
    <2> QED BY <2>2, <2>3, <2>4 DEF VolumeTellsTruth, Truth
<1>10. ASSUME NEW i \in seen, AcknowledgeResponseError(i)
       PROVE  Truth'
    <2>1. command.response # 0
        BY <1>t, <1>10 DEF AcknowledgeResponseError, SeenOf, SeenAreOld, TruthInv, Truth
    <2>2. /\ command'.index = command.index /\ command'.status = command.status
          /\ command'.response = command.response
        BY <1>t, <1>10, <2>1 DEF AcknowledgeResponseError, TypeOK
    <2>3. UNCHANGED <<lastSent, isInitialized, index, answered, seen>>
        BY <1>10 DEF AcknowledgeResponseError, requestVars, kafkaVars
    <2> QED BY <1>t, <2>2, <2>3, TruthStutter
<1> QED BY <1>1, <1>2, <1>3, <1>4, <1>5, <1>6, <1>7, <1>8, <1>9, <1>10 DEF Next, Step

(* What the volume says of its command and its initialization is what TOMA *)
(* did, for any requests, faults, repeated responses and late acknowledge- *)
(* ments; but that a command which is not yet recorded as sent is executed *)
(* may be said on the word of a response to the one before it, which came  *)
(* again (TakenForNewer).  Initialization has no such exception: it needs  *)
(* the invariant that nobody is asked about passphrases before it.         *)
THEOREM TruthIsTold == Spec => []VolumeTellsTruth
<1>1. Init => TruthInv
    <2> SUFFICES ASSUME Init PROVE TruthInv
        OBVIOUS
    <2>1. Truth
        BY DEF Init, NoCommand, Truth, SeenAreOld, ExecutedIsLast, LastIsOld, VolumeTellsTruth,
               SentIsAwaited, ExecutedWasAnswered, InitializedByTOMA
    <2> QED BY <2>1, TypeInit, AskedInit DEF TruthInv
<1>2. TruthInv /\ [Next]_vars => TruthInv'
    BY TypeStep, AskedStep, TruthStep DEF TruthInv
<1>3. TruthInv => VolumeTellsTruth
    BY DEF TruthInv, Truth
<1> QED BY <1>1, <1>2, <1>3, PTL DEF Spec
=============================================================================
