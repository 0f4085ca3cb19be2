----------------------------- MODULE MqttClient -----------------------------
(***************************************************************************)
(* MqttClient and the notification of FaultHandler that drives it.  Three  *)
(* tasks run this code: MQTTStart once, MQTTStatus for ever, and the       *)
(* esp-mqtt client's own task, which calls handleMqttEvent() and holds the *)
(* client's API lock while it does.  esp_mqtt_client_publish() takes the   *)
(* same lock, so the status task publishes only between two events.        *)
(*                                                                         *)
(* Messages are QoS 0 and not retained: the broker hears what is published *)
(* on a live connection, and nothing else.  mqttConnected_ is a plain bool *)
(* shared by two tasks; each reads or writes it once per loop round, in    *)
(* one instruction.                                                        *)
(***************************************************************************)
EXTENDS FaultHandler, CommandPayload

CONSTANTS
  MqttFailures,  \* steps that may fail: "init", "task", "start", "subscribe"
  Messages       \* messages the broker may deliver

ASSUME MqttAssumption ==
  /\ MqttFailures \subseteq {"init", "task", "start", "subscribe"}
  /\ Messages \subseteq
       [topic : {"command", "other"}, retain : BOOLEAN, whole : BOOLEAN,
        payload : Seq(DOMAIN Digit \cup {Space, "up", "down", "stop", "?"})]

VARIABLES
  fault,          \* FaultHandler's record,
  changeTask,     \*   is the status task known to it,
  give,           \*   and the caller of record() still to notify it, or "none"
  notified,       \* the status task's notification value
  status,         \* where the status task is and what it is to publish
  starter,        \* the start task: "none", "waiting" or "done"
  client,         \* the library's client: "none", "stopped", "connecting" or
                  \* "connected"
  link,           \* does its connection still carry data?
  mqttConnected,
  handler,        \* where handleMqttEvent() is and what it is to publish
  subscribed,     \* has the broker a subscription of this connection?
  told,           \* history: what the broker last heard, {} or {payload}
  input           \* history: the last message delivered and the command queued
                  \* for it, << >> or <<message, command>>

faultVars == <<fault, changeTask, give>>

mqttVars == <<fault, changeTask, give, notified, status, starter, client, link,
              mqttConnected, handler, subscribed, told, input>>

(* A status payload says which fault is on record; NoFault: none is.       *)
Payload == FaultRecord

Home == [at |-> "home", payload |-> NoFault]

Waiting == [at |-> "take", payload |-> NoFault]

MqttInit ==
  /\ fault = NoFault
  /\ changeTask = FALSE
  /\ give = "none"
  /\ notified = FALSE
  /\ status = [at |-> "none", payload |-> NoFault]
  /\ starter = "none"
  /\ client = "none"
  /\ link = FALSE
  /\ mqttConnected = FALSE
  /\ handler = Home
  /\ subscribed = FALSE
  /\ told = {}
  /\ input = << >>

(* What a restart leaves of it. *)
MqttReset ==
  /\ fault' = NoFault
  /\ changeTask' = FALSE
  /\ give' = "none"
  /\ notified' = FALSE
  /\ status' = [at |-> "none", payload |-> NoFault]
  /\ starter' = "none"
  /\ client' = "none"
  /\ link' = FALSE
  /\ mqttConnected' = FALSE
  /\ handler' = Home
  /\ subscribed' = FALSE
  /\ told' = {}
  /\ input' = << >>

-----------------------------------------------------------------------------
(* Mutated forms of the operators below. *)

NotifiesNobody(who) == "none"

AcceptsRetained(m) == m.topic = "command" /\ m.whole

-----------------------------------------------------------------------------
(* FaultHandler: the first fault is kept in a critical section that also   *)
(* reads whom to notify; the notification follows outside it.              *)
Notifies(who) == IF HasFault(fault) \/ ~ changeTask THEN "none" ELSE who

Record(who, src, why) ==
  /\ fault' = RecordFault(fault, src, why)
  /\ IF HasFault(fault) THEN UNCHANGED give ELSE give' = Notifies(who)
  /\ UNCHANGED <<changeTask, notified, status, starter, client, link,
                 mqttConnected, handler, subscribed, told, input>>

Give ==
  /\ give # "none"
  /\ give' = "none"
  /\ notified' = TRUE
  /\ UNCHANGED <<fault, changeTask, status, starter, client, link,
                 mqttConnected, handler, subscribed, told, input>>

-----------------------------------------------------------------------------
(* init() and start(), called by app_main. *)
InitClient ==
  /\ client' = "stopped"
  /\ UNCHANGED <<faultVars, notified, status, starter, link, mqttConnected,
                 handler, subscribed, told, input>>

CreateStatusTask ==
  /\ status' = Waiting
  /\ UNCHANGED <<faultVars, notified, starter, client, link, mqttConnected,
                 handler, subscribed, told, input>>

SetChangeTask ==
  /\ changeTask' = TRUE
  /\ UNCHANGED <<fault, give, notified, status, starter, client, link,
                 mqttConnected, handler, subscribed, told, input>>

CreateStartTask ==
  /\ starter' = "waiting"
  /\ UNCHANGED <<faultVars, notified, status, client, link, mqttConnected,
                 handler, subscribed, told, input>>

(* startTaskLoop(): one attempt, once Wi-Fi has been seen connected. *)
StartTask(wifiConnected) ==
  /\ starter = "waiting"
  /\ wifiConnected
  /\ starter' = "done"
  /\ \/ client' = "connecting"
     \/ "start" \in MqttFailures /\ UNCHANGED client
  /\ UNCHANGED <<faultVars, notified, status, link, mqttConnected, handler,
                 subscribed, told, input>>

-----------------------------------------------------------------------------
(* The library: it connects, sooner or later finds that a connection is    *)
(* broken, and then connects again.                                        *)
Connect ==
  /\ client = "connecting" /\ handler = Home
  /\ client' = "connected"
  /\ link' = TRUE
  /\ subscribed' = FALSE
  /\ handler' = [Home EXCEPT !.at = "connected"]
  /\ UNCHANGED <<faultVars, notified, status, starter, mqttConnected, told, input>>

FindBroken ==
  /\ client = "connected" /\ ~ link /\ handler = Home
  /\ client' = "connecting"
  /\ handler' = [Home EXCEPT !.at = "disconnected"]
  /\ UNCHANGED <<faultVars, notified, status, starter, link, mqttConnected,
                 subscribed, told, input>>

(* esp_mqtt_client_publish(): queued on a connection that is broken, or    *)
(* refused without one, the payload is lost.                               *)
Published(payload) ==
  told' = IF client = "connected" /\ link THEN {payload} ELSE told

-----------------------------------------------------------------------------
(* handleMqttEvent(), MQTT_EVENT_CONNECTED. *)
HandleConnected ==
  /\ handler.at = "connected"
  /\ mqttConnected' = TRUE
  /\ handler' = [handler EXCEPT !.at = "subscribe"]
  /\ UNCHANGED <<faultVars, notified, status, starter, client, link, subscribed,
                 told, input>>

(* A subscription that fails is only logged. *)
Subscribe ==
  /\ handler.at = "subscribe"
  /\ handler' = [handler EXCEPT !.at = "build"]
  /\ \/ subscribed' = link
     \/ "subscribe" \in MqttFailures /\ UNCHANGED subscribed
  /\ UNCHANGED <<faultVars, notified, status, starter, client, link,
                 mqttConnected, told, input>>

(* publishFaultStatus(): the record is read in a critical section, the     *)
(* payload is published later.                                             *)
BuildOnConnect ==
  /\ handler.at = "build"
  /\ handler' = [at |-> "publish", payload |-> fault]
  /\ UNCHANGED <<faultVars, notified, status, starter, client, link,
                 mqttConnected, subscribed, told, input>>

PublishOnConnect ==
  /\ handler.at = "publish"
  /\ Published(handler.payload)
  /\ handler' = Home
  /\ UNCHANGED <<faultVars, notified, status, starter, client, link,
                 mqttConnected, subscribed, input>>

(* MQTT_EVENT_DISCONNECTED. *)
HandleDisconnected ==
  /\ handler.at = "disconnected"
  /\ mqttConnected' = FALSE
  /\ handler' = Home
  /\ UNCHANGED <<faultVars, notified, status, starter, client, link, subscribed,
                 told, input>>

(* MQTT_EVENT_DATA.  What becomes of the command is CommandQueue's affair. *)
Accepts(m) == m.topic = "command" /\ ~ m.retain /\ m.whole

HandleData(m) ==
  /\ client = "connected" /\ link /\ subscribed /\ handler = Home
  /\ input' = <<m, IF Accepts(m) THEN ParseCommandPayload(m.payload) ELSE NoCommand>>
  /\ UNCHANGED <<faultVars, notified, status, starter, client, link,
                 mqttConnected, handler, subscribed, told>>

HandleEvent ==
  \/ HandleConnected \/ Subscribe \/ BuildOnConnect \/ PublishOnConnect
  \/ HandleDisconnected

-----------------------------------------------------------------------------
(* statusTaskLoop().  ulTaskNotifyTake() clears the notification. *)
TakenNotice == notified' = FALSE

Take ==
  /\ status.at = "take" /\ notified
  /\ TakenNotice
  /\ status' = [status EXCEPT !.at = "check"]
  /\ UNCHANGED <<faultVars, starter, client, link, mqttConnected, handler,
                 subscribed, told, input>>

CheckConnected ==
  /\ status.at = "check"
  /\ status' = [status EXCEPT !.at = IF mqttConnected THEN "build" ELSE "take"]
  /\ UNCHANGED <<faultVars, notified, starter, client, link, mqttConnected,
                 handler, subscribed, told, input>>

Build ==
  /\ status.at = "build"
  /\ status' = [at |-> "publish", payload |-> fault]
  /\ UNCHANGED <<faultVars, notified, starter, client, link, mqttConnected,
                 handler, subscribed, told, input>>

Publish ==
  /\ status.at = "publish" /\ handler = Home
  /\ Published(status.payload)
  /\ status' = Waiting
  /\ UNCHANGED <<faultVars, notified, starter, client, link, mqttConnected,
                 handler, subscribed, input>>

StatusTask == Take \/ CheckConnected \/ Build \/ Publish

-----------------------------------------------------------------------------
(* input is left out: CommandsMeant says what it may be. *)
MqttTypeOK ==
  /\ fault \in FaultRecord
  /\ changeTask \in BOOLEAN
  /\ give \in {"none", "app_main", "task"}
  /\ notified \in BOOLEAN
  /\ status \in [at : {"none", "take", "check", "build", "publish"}, payload : Payload]
  /\ starter \in {"none", "waiting", "done"}
  /\ client \in {"none", "stopped", "connecting", "connected"}
  /\ link \in BOOLEAN
  /\ mqttConnected \in BOOLEAN
  /\ handler \in [at : {"home", "connected", "subscribe", "build", "publish", "disconnected"},
                 payload : Payload]
  /\ subscribed \in BOOLEAN
  /\ told \in SUBSET Payload

(* Whenever a connection is up and neither task is in the middle of        *)
(* reporting, the broker has heard of the fault on record: no order of a   *)
(* connection coming or going and a fault being recorded loses the fault   *)
(* between the notification and the report on connect.                     *)
Settled ==
  /\ client = "connected" /\ link /\ handler = Home
  /\ status.at = "take" /\ ~ notified /\ give = "none"

SettledMeansTold == Settled /\ HasFault(fault) => told = {fault}

(* What a delivered message leaves in the command queue is what the table  *)
(* of payloads says of it; messages that are retained, arrive in pieces    *)
(* or have another topic leave nothing.                                    *)
CommandsMeant ==
  input # << >> =>
    LET m == input[1]  command == input[2] IN
    IF m.topic = "other" \/ m.retain \/ ~ m.whole THEN command = NoCommand
    ELSE Understood(m.payload, command)

=============================================================================
