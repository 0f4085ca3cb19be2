--------------------------- MODULE FaultReporting ---------------------------
(***************************************************************************)
(* How a fault reaches the MQTT broker: FaultHandler, MqttClient and Wifi  *)
(* together, started by app_main, while any task records faults, access    *)
(* point and broker come and go, and a boot that fails restarts the        *)
(* program.  What records the faults is CommandQueue's, BlindsController's *)
(* and MotorController's matter.                                           *)
(***************************************************************************)
EXTENDS Naturals, Wifi, MqttClient

CONSTANTS
  Causes,       \* the faults other tasks may record
  MaxBreaks,    \* bound: how often a connection is lost
  MaxRestarts   \* bound: how often the boot fails

ASSUME ReportingAssumption ==
  /\ Causes \subseteq {f \in FaultRecord : HasFault(f)}
  /\ MaxBreaks \in Nat /\ MaxRestarts \in Nat

VARIABLES
  boot,      \* the step app_main takes next
  breaks,    \* connections lost so far
  restarts   \* restarts so far

vars == <<wifiVars, mqttVars, boot, breaks, restarts>>

Init ==
  /\ WifiInit
  /\ MqttInit
  /\ boot = "wifi"
  /\ breaks = 0
  /\ restarts = 0

-----------------------------------------------------------------------------
(* app_main from startAndConnect() until CALIBRATE is queued. *)
Calls(step, next) == boot = step /\ boot' = next /\ UNCHANGED <<breaks, restarts>>

BootWifi ==
  /\ Calls("wifi", "init")
  /\ StartAndConnect
  /\ UNCHANGED mqttVars

BootInit ==
  /\ \/ Calls("init", "status") /\ InitClient
     \/ Calls("init", "sensor") /\ "init" \in MqttFailures /\ UNCHANGED mqttVars
  /\ UNCHANGED wifiVars

(* start() refuses to work without an event group. *)
BootStatusTask ==
  /\ \/ Calls("status", "notify") /\ group /\ CreateStatusTask
     \/ Calls("status", "sensor") /\ (~ group \/ "task" \in MqttFailures) /\ UNCHANGED mqttVars
  /\ UNCHANGED wifiVars

BootSetChangeTask ==
  /\ Calls("notify", "start")
  /\ SetChangeTask
  /\ UNCHANGED wifiVars

BootStartTask ==
  /\ \/ Calls("start", "sensor") /\ CreateStartTask
     \/ Calls("start", "sensor") /\ "task" \in MqttFailures /\ UNCHANGED mqttVars
  /\ UNCHANGED wifiVars

SensorWorks ==
  /\ Calls("sensor", "up")
  /\ UNCHANGED <<wifiVars, mqttVars>>

SensorStuck ==
  /\ restarts < MaxRestarts
  /\ Calls("sensor", "restart")
  /\ Record("app_main", "HomeSensor", "StuckHomeSensor")
  /\ UNCHANGED wifiVars

(* Other reasons to restart: a task that cannot be created, a sensor ISR   *)
(* that cannot be added, HOMING_CHECK or CALIBRATE refused by a full queue, *)
(* which puts the overflow on record first.                                *)
BootFails ==
  /\ restarts < MaxRestarts
  /\ Calls("sensor", "restart")
  /\ UNCHANGED mqttVars \/ Record("app_main", "CommandQueue", "CommandQueueOverflow")
  /\ UNCHANGED wifiVars

(* esp_restart(): everything in RAM is gone, the fault record included;    *)
(* the broker keeps what it heard to itself, and app_main begins anew.     *)
Restart ==
  /\ boot = "restart" /\ give # "app_main"
  /\ boot' = "wifi"
  /\ restarts' = restarts + 1
  /\ WifiReset
  /\ MqttReset
  /\ UNCHANGED breaks

AppMain ==
  \/ BootWifi \/ BootInit \/ BootStatusTask \/ BootSetChangeTask
  \/ BootStartTask \/ SensorWorks \/ SensorStuck \/ BootFails \/ Restart

-----------------------------------------------------------------------------
(* Everyone else. *)
RecordFaults(c) ==
  /\ Record("task", c.source, c.reason)
  /\ UNCHANGED <<wifiVars, boot, breaks, restarts>>

Notify == Give /\ UNCHANGED <<wifiVars, boot, breaks, restarts>>

WifiEvents == EventLoop /\ UNCHANGED <<mqttVars, boot, breaks, restarts>>

WifiJoins == Join /\ UNCHANGED <<mqttVars, boot, breaks, restarts>>

(* The connection goes with the access point. *)
WifiLeaves ==
  /\ breaks < MaxBreaks
  /\ Leave
  /\ link' = FALSE
  /\ breaks' = breaks + 1
  /\ UNCHANGED <<fault, changeTask, give, notified, status, starter, client,
                 mqttConnected, handler, subscribed, told, input, boot, restarts>>

BrokerLeaves ==
  /\ breaks < MaxBreaks /\ link
  /\ link' = FALSE
  /\ breaks' = breaks + 1
  /\ UNCHANGED <<wifiVars, fault, changeTask, give, notified, status, starter, client,
                 mqttConnected, handler, subscribed, told, input, boot, restarts>>

StartsClient == StartTask("connected" \in bits) /\ UNCHANGED <<wifiVars, boot, breaks, restarts>>

ClientConnects == station = "online" /\ Connect /\ UNCHANGED <<wifiVars, boot, breaks, restarts>>

ClientEvents ==
  /\ FindBroken \/ HandleEvent
  /\ UNCHANGED <<wifiVars, boot, breaks, restarts>>

Delivers(m) == HandleData(m) /\ UNCHANGED <<wifiVars, boot, breaks, restarts>>

ReportsStatus == StatusTask /\ UNCHANGED <<wifiVars, boot, breaks, restarts>>

Next ==
  \/ AppMain
  \/ \E c \in Causes : RecordFaults(c)
  \/ Notify
  \/ WifiEvents \/ WifiJoins \/ WifiLeaves \/ BrokerLeaves
  \/ StartsClient \/ ClientConnects \/ ClientEvents
  \/ \E m \in Messages : Delivers(m)
  \/ ReportsStatus

Spec == Init /\ [][Next]_vars

(* Every task runs; access point and broker answer when asked.             *)
FairSpec ==
  /\ Spec
  /\ WF_vars(AppMain) /\ WF_vars(Notify) /\ WF_vars(WifiEvents)
  /\ WF_vars(WifiJoins) /\ WF_vars(StartsClient) /\ WF_vars(ClientConnects)
  /\ WF_vars(ClientEvents) /\ WF_vars(ReportsStatus)

-----------------------------------------------------------------------------
TypeOK ==
  /\ WifiTypeOK
  /\ MqttTypeOK
  /\ boot \in {"wifi", "init", "status", "notify", "start", "sensor", "up", "restart"}
  /\ breaks \in 0..MaxBreaks
  /\ restarts \in 0..MaxRestarts

(* Once the broker has heard of a fault it hears of no other one, and not  *)
(* that there is none, until the program restarts: the report on connect,  *)
(* built before the fault, and the status task's never overtake each       *)
(* other.                                                                  *)
Retracts == \E f \in told : HasFault(f) /\ told' # told

NoRetraction == [][Retracts => restarts' = restarts + 1]_vars

(* Steps of the start that failed and that nothing tries again.            *)
Unreachable ==
  /\ boot \in {"sensor", "up", "restart"}
  /\ \/ client = "none"
     \/ starter = "none"
     \/ starter = "done" /\ client = "stopped"
     \/ station \in {"off", "refused"}

(* A fault on record is reported in the end, if it lasts and none of those *)
(* steps failed, whenever it was recorded and whatever connections were    *)
(* lost in between.                                                        *)
FaultTold == HasFault(fault) ~> told = {fault} \/ ~ HasFault(fault) \/ Unreachable

=============================================================================
