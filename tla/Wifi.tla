-------------------------------- MODULE Wifi --------------------------------
(***************************************************************************)
(* The Wi-Fi station (Wifi): the event group other services wait on, and   *)
(* the handlers of the default event loop that keep its two bits and ask   *)
(* for a new connection.  The radio itself belongs to ESP-IDF; it posts    *)
(* its events in order and does nothing between esp_wifi_connect() calls.  *)
(*                                                                         *)
(* startAndConnect() is called once, so the flags that make a second call  *)
(* harmless are left out, as are credentials and the netif's set-up.       *)
(***************************************************************************)
EXTENDS Sequences

CONSTANT WifiFailures  \* steps that may fail: "nvs" (before the event group
                       \* exists), "setup" (after it), "connect"

ASSUME WifiAssumption == WifiFailures \subseteq {"nvs", "setup", "connect"}

VARIABLES
  group,    \* does connectionEvents_ exist?
  bits,     \* the bits set in it
  station,  \* the radio: "off", "idle", "refused" (idle, and the last
            \* esp_wifi_connect() failed), "connecting" or "online"
  posted,   \* events posted and not yet handled
  event     \* where the event loop task is inside a handler, or "none"

wifiVars == <<group, bits, station, posted, event>>

EventBits == {"connected", "disconnected"}

WifiInit ==
  /\ group = FALSE
  /\ bits = {}
  /\ station = "off"
  /\ posted = << >>
  /\ event = "none"

(* What a restart leaves of it. *)
WifiReset ==
  /\ group' = FALSE
  /\ bits' = {}
  /\ station' = "off"
  /\ posted' = << >>
  /\ event' = "none"

-----------------------------------------------------------------------------
(* Mutated forms of the operators below. *)

NoRetry == UNCHANGED station

KeepsConnected == UNCHANGED bits

-----------------------------------------------------------------------------
(* startAndConnect() with init(): what is there when it returns.           *)
StartAndConnect ==
  \/ "nvs" \in WifiFailures /\ UNCHANGED wifiVars
  \/ /\ group' = TRUE
     /\ bits' = {"disconnected"}
     /\ \/ "setup" \in WifiFailures /\ station' = "off"
        \/ "connect" \in WifiFailures /\ station' = "refused"
        \/ station' = "connecting"
     /\ UNCHANGED <<posted, event>>

(* The radio. *)
Join ==
  /\ station = "connecting"
  /\ station' = "online"
  /\ posted' = Append(posted, "GOT_IP")
  /\ UNCHANGED <<group, bits, event>>

Leave ==
  /\ station \in {"connecting", "online"}
  /\ station' = "idle"
  /\ posted' = Append(posted, "STA_DISCONNECTED")
  /\ UNCHANGED <<group, bits, event>>

-----------------------------------------------------------------------------
(* handleIpEvent() and handleWifiEvent() change the bits in two calls, then *)
(* a lost connection is asked for again.                                   *)
Receives(e) == event = "none" /\ posted # << >> /\ Head(posted) = e /\ posted' = Tail(posted)

GotIp ==
  /\ Receives("GOT_IP")
  /\ bits' = bits \ {"disconnected"}
  /\ event' = "setConnected"
  /\ UNCHANGED <<group, station>>

SetConnected ==
  /\ event = "setConnected"
  /\ bits' = bits \cup {"connected"}
  /\ event' = "none"
  /\ UNCHANGED <<group, station, posted>>

ClearConnected == bits' = bits \ {"connected"}

Disconnected ==
  /\ Receives("STA_DISCONNECTED")
  /\ ClearConnected
  /\ event' = "setDisconnected"
  /\ UNCHANGED <<group, station>>

SetDisconnected ==
  /\ event = "setDisconnected"
  /\ bits' = bits \cup {"disconnected"}
  /\ event' = "reconnect"
  /\ UNCHANGED <<group, station, posted>>

(* A refused request is only logged. *)
ConnectRequested ==
  \/ station' = "connecting"
  \/ "connect" \in WifiFailures /\ station' = "refused"

Reconnect ==
  /\ event = "reconnect"
  /\ ConnectRequested
  /\ event' = "none"
  /\ UNCHANGED <<group, bits, posted>>

EventLoop == GotIp \/ SetConnected \/ Disconnected \/ SetDisconnected \/ Reconnect

-----------------------------------------------------------------------------
WifiTypeOK ==
  /\ group \in BOOLEAN
  /\ bits \subseteq EventBits
  /\ station \in {"off", "idle", "refused", "connecting", "online"}
  /\ posted \in Seq({"GOT_IP", "STA_DISCONNECTED"})
  /\ event \in {"none", "setConnected", "setDisconnected", "reconnect"}

(* Both bits are never set at once, and once the event loop has caught up, *)
(* whatever the radio did while it was behind, the bits say where the      *)
(* radio is.                                                               *)
BitsTrue ==
  /\ bits # EventBits
  /\ group /\ posted = << >> /\ event = "none" =>
       bits = IF station = "online" THEN {"connected"} ELSE {"disconnected"}

=============================================================================
