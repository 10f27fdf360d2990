------------------------- MODULE EncryptionCommand -------------------------
(***************************************************************************)
(* How a command on the passphrases of an encrypted volume gets to TOMA,   *)
(* and its response back: src/modules/volumeEncryption.js.                 *)
(*                                                                         *)
(* A request verifies the volume, chooses a target, writes the command     *)
(* into the volume unless another one is in progress, waits for a          *)
(* calculation of the volume's action, sends the command to TOMA, and      *)
(* records that it was sent.  The response takes the command for executed  *)
(* if its index is that of the last message that was recorded.             *)
(*                                                                         *)
(* There is one volume, whose segments are all right.  Which target        *)
(* executes a command is left out: the requests of all processes, the      *)
(* targets and Kafka are not ordered among themselves.  The recovery's     *)
(* resendStaleEncryptionCommands is left out, too: it looks for a field    *)
(* encryption.commandStatus, which no document has, and does nothing.      *)
(***************************************************************************)
EXTENDS Integers, FiniteSets

CONSTANTS
    Request,
    CommandOf,  \* what each request asks for
    Faults,     \* some of "crash", "error", "target", "send", "redelivery"
    MaxFaults   \* bound: how many of them happen

Command == {"init", "passphrase"}
Result  == {"success", "error"}

ASSUME CommandAssumption == CommandOf \in [Request -> Command]
ASSUME BoundsAssumption  == MaxFaults \in Nat

VARIABLES
    command,        \* encryption.command of the volume
    lastSent,       \* the index in encryption.lastMessageSent, or 0
    isInitialized,
    action,         \* of the volume
    pc,             \* per request: its next step
    index,          \* per request: encryptionCommandIndex
    topic,          \* indexes of the commands that TOMA has yet to execute
    responses,      \* the responses that Kafka will deliver
    seen,           \* indexes of the commands whose response a user saw
    calculating,    \* does a handled response wait for its calculation?
    faults,
    (* history *)
    answered,       \* every response that TOMA gave
    missed          \* what was lost, or taken for something else

volumeVars  == <<command, lastSent, isInitialized, action>>
requestVars == <<pc, index>>
kafkaVars   == <<topic, responses, answered>>
vars == <<volumeVars, requestVars, kafkaVars, seen, calculating, faults, missed>>

(* A volume before its first command; response 0 is none, and Unindexed    *)
(* one that says nothing but that it was acknowledged.                     *)
Unindexed == -1
NoCommand == [index |-> 0, name |-> "none", status |-> "none",
              response |-> 0, acknowledged |-> FALSE]

Init == /\ command = NoCommand
        /\ lastSent = 0
        /\ isInitialized = FALSE
        /\ action = "initRequired"
        /\ pc = [r \in Request |-> "idle"]
        /\ index = [r \in Request |-> 0]
        /\ topic = {}
        /\ responses = {}
        /\ seen = {}
        /\ calculating = FALSE
        /\ faults = 0
        /\ answered = {}
        /\ missed = {}

Fault(kind) == kind \in Faults /\ faults < MaxFaults /\ faults' = faults + 1

Goto(r, from, to) == pc[r] = from /\ pc' = [pc EXCEPT ![r] = to]

-----------------------------------------------------------------------------
(* getActionByEncryptionCommand, and what calculateVolumeStatus makes of   *)
(* it for a volume that needs nothing else.  Variant: a command without a  *)
(* case of its own.                                                        *)
MissingCase ==
    IF command.status \in {"pending", "sent"}
    THEN IF command.name = "init" THEN "init" ELSE "undefined"
    ELSE IF isInitialized THEN "none" ELSE "initRequired"
VolumeAction ==
    IF command.status \in {"pending", "sent"} THEN command.name
    ELSE IF isInitialized THEN "none" ELSE "initRequired"

Verified(name) == IF name = "init" THEN ~isInitialized /\ action = "initRequired"
                                   ELSE isInitialized

(* runEncryptionCommand, step by step.                                     *)
FetchAndVerify(r) ==
    /\ \/ Verified(CommandOf[r]) /\ Goto(r, "idle", "choose")
       \/ ~Verified(CommandOf[r]) /\ Goto(r, "idle", "failed")
    /\ UNCHANGED <<volumeVars, index, kafkaVars, seen, calculating, faults, missed>>

ChooseTOMA(r) ==
    /\ Goto(r, "choose", "set")
    /\ UNCHANGED <<volumeVars, index, kafkaVars, seen, calculating, faults, missed>>

NoTarget(r) ==
    /\ Goto(r, "choose", "failed")
    /\ Fault("target")
    /\ UNCHANGED <<volumeVars, index, kafkaVars, seen, calculating, missed>>

(* What the update asks of the volume.  Variant: nothing.                  *)
Whatever  == TRUE
NoneInProgress == command.status \in {"none", "executed"}

SetEncryptionCommand(r) ==
    /\ IF NoneInProgress
       THEN /\ Goto(r, "set", "calculate")
            /\ command' = [index |-> command.index + 1, name |-> CommandOf[r],
                           status |-> "pending", response |-> 0, acknowledged |-> FALSE]
            /\ index' = [index EXCEPT ![r] = command.index + 1]
       ELSE /\ Goto(r, "set", "failed")
            /\ UNCHANGED <<command, index>>
    /\ UNCHANGED <<lastSent, isInitialized, action, kafkaVars, seen, calculating,
                   faults, missed>>

CalculationReturns(r) ==
    /\ Goto(r, "calculate", "send")
    /\ action' = VolumeAction
    /\ UNCHANGED <<command, lastSent, isInitialized, index, kafkaVars,
                   seen, calculating, faults, missed>>

SendEncryptionCommandToTOMA(r) ==
    /\ Goto(r, "send", "record")
    /\ topic' = topic \cup {index[r]}
    /\ UNCHANGED <<volumeVars, index, responses, answered, seen, calculating, faults,
                   missed>>

(* An error of the producer does not say whether Kafka has the message.    *)
SendFails(r) ==
    /\ Goto(r, "send", "failed")
    /\ Fault("send")
    /\ topic' \in {topic, topic \cup {index[r]}}
    /\ missed' = missed \cup {"request"}
    /\ UNCHANGED <<volumeVars, index, responses, answered, seen, calculating>>

(* Variant: whichever command the volume has is taken for the one sent.    *)
AnyCommand(r) == TRUE
IsCurrent(r)  == command.index = index[r]

UpdateLastCommandSent(r) ==
    /\ Goto(r, "record", "end")
    /\ IF IsCurrent(r)
       THEN /\ command' = [command EXCEPT !.status = "sent"]
            /\ lastSent' = index[r]
       ELSE UNCHANGED <<command, lastSent>>
    /\ UNCHANGED <<isInitialized, action, index, kafkaVars, seen, calculating, faults,
                   missed>>

(* Where a request that ends here leaves a command in progress behind.     *)
InProgress == {"calculate", "send", "record"}

DatabaseFails(r) ==
    /\ \E from \in {"idle", "choose", "set", "record"} : Goto(r, from, "failed")
    /\ Fault("error")
    /\ missed' = IF pc[r] \in InProgress THEN missed \cup {"request"} ELSE missed
    /\ UNCHANGED <<volumeVars, index, kafkaVars, seen, calculating>>

Crash(r) ==
    /\ \E from \in {"choose", "set"} \cup InProgress : Goto(r, from, "failed")
    /\ Fault("crash")
    /\ missed' = IF pc[r] \in InProgress THEN missed \cup {"request"} ELSE missed
    /\ UNCHANGED <<volumeVars, index, kafkaVars, seen, calculating>>

-----------------------------------------------------------------------------
(* TOMA executes each command and responds with its index.                 *)
Execute(i) ==
    /\ i \in topic
    /\ topic' = topic \ {i}
    /\ \E result \in Result :
          LET response == [index |-> i, result |-> result]
          IN  /\ responses' = responses \cup {response}
              /\ answered' = answered \cup {response}
    /\ UNCHANGED <<volumeVars, requestVars, seen, calculating, faults, missed>>

(* Kafka delivers a response whose offset was not committed once more.     *)
Redeliver(response) ==
    /\ response \in answered \ responses
    /\ Fault("redelivery")
    /\ responses' = responses \cup {response}
    /\ UNCHANGED <<volumeVars, requestVars, topic, answered, seen, calculating, missed>>

(* Variants: a response need not be of the last message sent; and there    *)
(* must be an earlier one to compare it with.                              *)
AnyMessage(i)  == command.response = 0 \/ command.response \in 1..(i - 1)
LaterOnly(i)   == /\ lastSent = i
                  /\ command.response \in 1..(i - 1)
LastMessage(i) == /\ lastSent = i
                  /\ command.response = 0 \/ command.response \in 1..(i - 1)

Misread(i) ==
    CASE LastMessage(i) /\ i # command.index -> {"old"}
      [] lastSent # i /\ i = command.index /\ command.status # "executed" -> {"early"}
      [] OTHER -> {}

(* handleCommandResponse.  The action is calculated after it.              *)
HandleCommandResponse(response) ==
    /\ response \in responses
    /\ responses' = responses \ {response}
    /\ IF LastMessage(response.index)
       THEN /\ command' = [command EXCEPT !.status = "executed",
                                          !.response = response.index,
                                          !.acknowledged = FALSE]
            /\ isInitialized' = (isInitialized \/ response.result = "success")
            /\ calculating' = TRUE
       ELSE UNCHANGED <<command, isInitialized, calculating>>
    /\ missed' = missed \cup Misread(response.index)
    /\ UNCHANGED <<lastSent, action, requestVars, topic, answered, seen, faults>>

(* An error of the database is logged, and the response counts as handled. *)
HandlerFails(response) ==
    /\ response \in responses
    /\ Fault("error")
    /\ responses' = responses \ {response}
    /\ missed' = missed \cup {"response"}
    /\ UNCHANGED <<volumeVars, requestVars, topic, answered, seen, calculating>>

Calculate ==
    /\ calculating
    /\ calculating' = FALSE
    /\ action' = VolumeAction
    /\ UNCHANGED <<command, lastSent, isInitialized, requestVars, kafkaVars,
                   seen, faults, missed>>

(* The process ends before the calculation; the response that Kafka then   *)
(* delivers again is one that the volume has already.                      *)
HandlerCrashes ==
    /\ calculating
    /\ Fault("crash")
    /\ calculating' = FALSE
    /\ UNCHANGED <<volumeVars, requestVars, kafkaVars, seen, missed>>

-----------------------------------------------------------------------------
(* A user looks at a response, and later acknowledges it: the request      *)
(* names the volume as it was seen.  Variant: whatever it has become.      *)
ShowResponse ==
    /\ command.response # 0
    /\ seen' = seen \cup {command.index}
    /\ UNCHANGED <<volumeVars, requestVars, kafkaVars, calculating, faults, missed>>

AnyOf(i)  == TRUE
SeenOf(i) == command.index = i

(* Mongo makes a response to set the field of when there is none.          *)
AcknowledgeResponseError(i) ==
    /\ i \in seen
    /\ SeenOf(i)
    /\ command' = [command EXCEPT
                     !.acknowledged = TRUE,
                     !.response = IF @ = 0 THEN Unindexed ELSE @]
    /\ UNCHANGED <<lastSent, isInitialized, action, requestVars, kafkaVars, seen,
                   calculating, faults, missed>>

-----------------------------------------------------------------------------
Step(r) == \/ FetchAndVerify(r) \/ ChooseTOMA(r) \/ SetEncryptionCommand(r)
           \/ CalculationReturns(r) \/ SendEncryptionCommandToTOMA(r)
           \/ UpdateLastCommandSent(r)

Next == \/ \E r \in Request : \/ Step(r) \/ NoTarget(r) \/ SendFails(r)
                              \/ DatabaseFails(r) \/ Crash(r)
        \/ \E i \in topic : Execute(i)
        \/ \E response \in answered : Redeliver(response)
        \/ \E response \in responses : \/ HandleCommandResponse(response)
                                       \/ HandlerFails(response)
        \/ Calculate
        \/ ShowResponse
        \/ \E i \in seen : AcknowledgeResponseError(i)
        \/ HandlerCrashes

Spec == Init /\ [][Next]_vars

(* The database and Kafka answer, TOMA executes what it gets.  Nobody has  *)
(* to ask for a command.                                                   *)
Fairness ==
    /\ \A r \in Request : WF_vars(pc[r] # "idle" /\ Step(r))
    /\ WF_vars(\E i \in topic : Execute(i))
    /\ WF_vars(\E response \in responses : HandleCommandResponse(response))
    /\ WF_vars(Calculate)

FairSpec == Spec /\ Fairness
-----------------------------------------------------------------------------
Response == [index : Nat, result : Result]

TypeOK == /\ command \in [index : Nat, name : Command \cup {"none"},
                          status : {"none", "pending", "sent", "executed"},
                          response : Nat \cup {Unindexed},
                          acknowledged : BOOLEAN]
          /\ lastSent \in Nat
          /\ isInitialized \in BOOLEAN
          /\ action \in Command \cup {"none", "initRequired"}
          /\ pc \in [Request -> {"idle", "choose", "set", "end", "failed"} \cup InProgress]
          /\ index \in [Request -> Nat]
          /\ topic \subseteq Nat
          /\ responses \subseteq answered
          /\ answered \subseteq Response
          /\ seen \subseteq Nat
          /\ calculating \in BOOLEAN
          /\ faults \in 0..MaxFaults
          /\ missed \subseteq {"request", "response", "early", "old"}

(* "... or another encryption command is already in progress"              *)
(* (systemMessages.js:2687): while TOMA has a command to execute, or to    *)
(* report, the volume has that one in progress, and no other is accepted.  *)
(* Unless a response of an earlier command was taken for its own.          *)
AtToma == topic \cup {i \in 1..command.index : \E r \in Request :
                         index[r] = i /\ pc[r] \in InProgress}

OneCommandAtATime ==
    "old" \in missed \/ /\ AtToma \subseteq {command.index}
                        /\ AtToma # {} => command.status \in {"pending", "sent"}

(* What the volume says of its last command is true: the one that was sent *)
(* is the one whose response is awaited; one that was executed has the     *)
(* response that TOMA gave to it; an acknowledgement that comes late does  *)
(* not stand in for a response; and the volume is initialized only if TOMA *)
(* reported the success of a command to initialize it.                     *)
(*                                                                         *)
(* With one exception, where the code says what is not so: a response that *)
(* comes again once the next command has started, and before that one is   *)
(* recorded as sent, is still that of the last message sent, and marks the *)
(* new command executed (volumeEncryption.js:320; the case "on TOMA old    *)
(* command index - should handle fail" of testVolumeEncryption.js).        *)
SentIsAwaited == command.status = "sent" => lastSent = command.index

TakenForNewer == /\ "old" \in missed
                 /\ command.response = lastSent
                 /\ lastSent < command.index

ExecutedWasAnswered ==
    /\ command.response # 0 => \E response \in answered : response.index = command.response
    /\ command.status = "executed" => command.response = command.index \/ TakenForNewer

InitializedByTOMA ==
    isInitialized => \E r \in Request, response \in answered :
                        /\ CommandOf[r] = "init" /\ index[r] = response.index
                        /\ response.result = "success"

VolumeTellsTruth == SentIsAwaited /\ ExecutedWasAnswered /\ InitializedByTOMA

(* A command that was accepted gets executed, and no volume stays with a   *)
(* command in progress for ever: unless its request or response was lost,  *)
(* TOMA responded before the command was recorded as sent, or a response   *)
(* of an earlier command was taken for its own (TakenForNewer).            *)
CommandSettles == <>[](missed # {} \/ command.status \in {"none", "executed"})
=============================================================================
