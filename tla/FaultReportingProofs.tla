------------------------ MODULE FaultReportingProofs ------------------------
(***************************************************************************)
(* Proofs about FaultReporting: types, the bits of Wifi, what the broker   *)
(* is told and what the payloads it delivers become, for every set of      *)
(* faults, messages and failures and any number of lost connections and    *)
(* restarts.                                                               *)
(***************************************************************************)
EXTENDS FaultReporting, SequenceTheorems, WellFoundedInduction, TLAPS

-----------------------------------------------------------------------------
(* Wi-Fi: where the radio, its events and the bits are together.           *)
Radio(s, p, e, b) == station = s /\ posted = p /\ event = e /\ bits = b

RadioInv ==
  \/ ~ group /\ Radio("off", << >>, "none", {})
  \/ group /\ \E s \in {"off", "refused", "connecting"} : Radio(s, << >>, "none", {"disconnected"})
  \/ group /\ Radio("online", <<"GOT_IP">>, "none", {"disconnected"})
  \/ group /\ Radio("online", << >>, "setConnected", {})
  \/ group /\ Radio("online", << >>, "none", {"connected"})
  \/ group /\ Radio("idle", <<"GOT_IP", "STA_DISCONNECTED">>, "none", {"disconnected"})
  \/ group /\ Radio("idle", <<"STA_DISCONNECTED">>, "setConnected", {})
  \/ group /\ \E b \in {{"connected"}, {"disconnected"}} :
                Radio("idle", <<"STA_DISCONNECTED">>, "none", b)
  \/ group /\ \E b \in {{}, {"disconnected"}} : Radio("idle", << >>, "setDisconnected", b)
  \/ group /\ Radio("idle", << >>, "reconnect", {"disconnected"})

Untouched == ~ group /\ Radio("off", << >>, "none", {})

WifiInv ==
  /\ group \in BOOLEAN
  /\ RadioInv
  /\ boot = "wifi" => Untouched

LEMMA WifiInvTypes == WifiInv => WifiTypeOK
<1> DEFINE S == Seq({"GOT_IP", "STA_DISCONNECTED"})
<1>1. << >> \in S /\ <<"GOT_IP">> \in S /\ <<"STA_DISCONNECTED">> \in S
      /\ <<"GOT_IP", "STA_DISCONNECTED">> \in S
  OBVIOUS
<1>2. WifiInv => posted \in S
  BY <1>1 DEF WifiInv, RadioInv, Radio
<1>3. WifiInv => bits \subseteq EventBits
  BY DEF WifiInv, RadioInv, Radio, EventBits
<1>4. QED
  BY <1>2, <1>3 DEF WifiInv, RadioInv, Radio, WifiTypeOK

LEMMA WifiInvBits == WifiInv => BitsTrue
  BY DEF WifiInv, RadioInv, Radio, BitsTrue, EventBits

(* Sequences of at most two events. *)
LEMMA Posted ==
  ASSUME NEW x, NEW y
  PROVE  /\ Append(<< >>, x) = <<x>> /\ Append(<<x>>, y) = <<x, y>>
         /\ Head(<<x>>) = x /\ Tail(<<x>>) = << >>
         /\ Head(<<x, y>>) = x /\ Tail(<<x, y>>) = <<y>>
         /\ <<x>> # << >> /\ <<x, y>> # << >>
<1>1. Append(<< >>, x) = <<x>>
  OBVIOUS
<1>2. Append(<<x>>, y) = <<x, y>>
  <2> DEFINE S == {x, y}
             s == Append(<<x>>, y)
             t == <<x, y>>
  <2>1. <<x>> \in Seq(S) /\ y \in S /\ Len(<<x>>) = 1 /\ <<x>>[1] = x
    OBVIOUS
  <2>2. t \in Seq(S) /\ Len(t) = 2 /\ t[1] = x /\ t[2] = y
    OBVIOUS
  <2>3. s \in Seq(S) /\ Len(s) = 2 /\ s[1] = x /\ s[2] = y
    BY <2>1, AppendProperties
  <2>4. \A i \in 1..Len(s) : s[i] = t[i]
    BY <2>2, <2>3
  <2> HIDE DEF S, s, t
  <2>5. s = t
    BY <2>2, <2>3, <2>4, SeqEqual
  <2>6. QED
    BY <2>5 DEF s, t
<1>3. Head(<<x>>) = x /\ Tail(<<x>>) = << >>
  OBVIOUS
<1>4. Head(<<x, y>>) = x
  OBVIOUS
<1>5. Tail(<<x, y>>) = <<y>>
  OBVIOUS
<1>6. <<x>> # << >> /\ <<x, y>> # << >>
  OBVIOUS
<1>7. QED
  BY <1>1, <1>2, <1>3, <1>4, <1>5, <1>6

LEMMA WifiInvInit == Init => WifiInv
  BY DEF Init, WifiInit, WifiInv, RadioInv, Untouched, Radio

(* A step that leaves Wi-Fi alone; app_main is past startAndConnect() for   *)
(* good.                                                                   *)
LEMMA WifiInvKept ==
  ASSUME WifiInv, UNCHANGED wifiVars, boot' = "wifi" => boot = "wifi"
  PROVE  WifiInv'
  BY DEF WifiInv, RadioInv, Untouched, Radio, wifiVars

LEMMA WifiInvStart ==
  ASSUME WifiInv, BootWifi
  PROVE  WifiInv'
<1>1. Untouched /\ boot' = "init"
  BY DEF WifiInv, BootWifi, Calls
<1>2. CASE UNCHANGED wifiVars
  BY <1>1, <1>2 DEF WifiInv, RadioInv, Untouched, Radio, wifiVars
<1>3. CASE /\ group' = TRUE /\ bits' = {"disconnected"} /\ station' \in {"off", "refused", "connecting"}
           /\ UNCHANGED <<posted, event>>
  BY <1>1, <1>3 DEF WifiInv, RadioInv, Untouched, Radio
<1>4. QED
  BY <1>2, <1>3 DEF BootWifi, StartAndConnect

LEMMA WifiInvRadio ==
  ASSUME WifiInv, boot' = boot, Join \/ Leave
  PROVE  WifiInv'
<1>1. CASE Join
  <2>1. group /\ Radio("connecting", << >>, "none", {"disconnected"})
    BY <1>1 DEF Join, WifiInv, RadioInv, Radio
  <2>2. posted' = <<"GOT_IP">>
    BY <1>1, <2>1, Posted DEF Join, Radio
  <2>3. QED
    BY <1>1, <2>1, <2>2 DEF Join, WifiInv, RadioInv, Untouched, Radio
<1>2. CASE Leave
  <2>1. /\ group
        /\ \/ Radio("connecting", << >>, "none", {"disconnected"})
           \/ Radio("online", <<"GOT_IP">>, "none", {"disconnected"})
           \/ Radio("online", << >>, "setConnected", {})
           \/ Radio("online", << >>, "none", {"connected"})
    BY <1>2 DEF Leave, WifiInv, RadioInv, Radio
  <2>2. posted' = IF posted = << >> THEN <<"STA_DISCONNECTED">>
                                    ELSE <<"GOT_IP", "STA_DISCONNECTED">>
    <3>1. posted \in {<< >>, <<"GOT_IP">>} /\ posted' = Append(posted, "STA_DISCONNECTED")
      BY <1>2, <2>1 DEF Leave, Radio
    <3>2. CASE posted = << >>
      <4>1. Append(<< >>, "STA_DISCONNECTED") = <<"STA_DISCONNECTED">>
        BY Posted
      <4>2. QED
        BY <3>1, <3>2, <4>1
    <3>3. CASE posted = <<"GOT_IP">>
      <4>1. /\ Append(<<"GOT_IP">>, "STA_DISCONNECTED") = <<"GOT_IP", "STA_DISCONNECTED">>
            /\ <<"GOT_IP">> # << >>
        BY Posted
      <4>2. QED
        BY <3>1, <3>3, <4>1
    <3>4. QED
      BY <3>1, <3>2, <3>3
  <2>3. CASE posted = << >>
    BY <1>2, <2>1, <2>2, <2>3 DEF Leave, WifiInv, RadioInv, Untouched, Radio
  <2>4. CASE posted # << >>
    BY <1>2, <2>1, <2>2, <2>4 DEF Leave, WifiInv, RadioInv, Untouched, Radio
  <2>5. QED
    BY <2>3, <2>4
<1>3. QED
  BY <1>1, <1>2

LEMMA WifiInvEvents ==
  ASSUME WifiInv, boot' = boot, EventLoop
  PROVE  WifiInv'
<1>1. CASE GotIp
  <2>1. /\ group
        /\ \/ Radio("online", <<"GOT_IP">>, "none", {"disconnected"})
           \/ Radio("idle", <<"GOT_IP", "STA_DISCONNECTED">>, "none", {"disconnected"})
    BY <1>1, Posted DEF GotIp, Receives, WifiInv, RadioInv, Radio
  <2>2. posted' = IF station = "online" THEN << >> ELSE <<"STA_DISCONNECTED">>
    <3>1. posted = (IF station = "online" THEN <<"GOT_IP">> ELSE <<"GOT_IP", "STA_DISCONNECTED">>)
      BY <2>1 DEF Radio
    <3>2. posted' = Tail(posted)
      BY <1>1 DEF GotIp, Receives
    <3>3. QED
      BY <3>1, <3>2, Posted
  <2>3. bits' = {} /\ UNCHANGED <<group, station>> /\ event' = "setConnected"
    BY <1>1, <2>1 DEF GotIp, Radio
  <2>4. QED
    BY <2>1, <2>2, <2>3 DEF WifiInv, RadioInv, Untouched, Radio
<1>2. CASE SetConnected
  <2>1. /\ group
        /\ \/ Radio("online", << >>, "setConnected", {})
           \/ Radio("idle", <<"STA_DISCONNECTED">>, "setConnected", {})
    BY <1>2 DEF SetConnected, WifiInv, RadioInv, Radio
  <2>2. bits' = {"connected"} /\ UNCHANGED <<group, station, posted>> /\ event' = "none"
    BY <1>2, <2>1 DEF SetConnected, Radio
  <2>3. QED
    BY <2>1, <2>2 DEF WifiInv, RadioInv, Untouched, Radio
<1>3. CASE Disconnected
  <2>1. /\ group
        /\ \E b \in {{"connected"}, {"disconnected"}} :
             Radio("idle", <<"STA_DISCONNECTED">>, "none", b)
    BY <1>3, Posted DEF Disconnected, Receives, WifiInv, RadioInv, Radio
  <2>2. posted' = << >>
    BY <1>3, <2>1, Posted DEF Disconnected, Receives, Radio
  <2>3. bits' \in {{}, {"disconnected"}} /\ UNCHANGED <<group, station>> /\ event' = "setDisconnected"
    BY <1>3, <2>1 DEF Disconnected, ClearConnected, Radio
  <2>4. QED
    BY <2>1, <2>2, <2>3 DEF WifiInv, RadioInv, Untouched, Radio
<1>4. CASE SetDisconnected
  <2>1. group /\ \E b \in {{}, {"disconnected"}} : Radio("idle", << >>, "setDisconnected", b)
    BY <1>4 DEF SetDisconnected, WifiInv, RadioInv, Radio
  <2>2. bits' = {"disconnected"} /\ UNCHANGED <<group, station, posted>> /\ event' = "reconnect"
    BY <1>4, <2>1 DEF SetDisconnected, Radio
  <2>3. QED
    BY <2>1, <2>2 DEF WifiInv, RadioInv, Untouched, Radio
<1>5. CASE Reconnect
  <2>1. group /\ Radio("idle", << >>, "reconnect", {"disconnected"})
    BY <1>5 DEF Reconnect, WifiInv, RadioInv, Radio
  <2>2. station' \in {"connecting", "refused"} /\ UNCHANGED <<group, bits, posted>> /\ event' = "none"
    BY <1>5 DEF Reconnect, ConnectRequested
  <2>3. QED
    BY <2>1, <2>2 DEF WifiInv, RadioInv, Untouched, Radio
<1>6. QED
  BY <1>1, <1>2, <1>3, <1>4, <1>5 DEF EventLoop

-----------------------------------------------------------------------------
(* MQTT.  What the start has done by now: a client runs only after the      *)
(* status task is known to FaultHandler.                                   *)
Wiring ==
  /\ boot = "start" => changeTask
  /\ starter # "none" => changeTask
  /\ client \in {"connecting", "connected"} => starter = "done"
  /\ boot \in {"wifi", "init", "status", "notify", "start"} => starter = "none"

HandlerInv ==
  /\ handler.at \in {"connected", "subscribe", "build", "publish"} => client = "connected"
  /\ handler.at = "disconnected" => client = "connecting"
  /\ client = "connected" /\ handler.at # "connected" => mqttConnected

(* A notification is on its way, or the status task is at work on one.     *)
Pending == give # "none" \/ notified \/ status.at \in {"check", "build", "publish"}

(* No payload, built or heard, names another fault than the one on record; *)
(* one that names none is not published after one that does.               *)
News ==
  /\ Pending => HasFault(fault)
  /\ status.at = "publish" => status.payload = fault
  /\ \A f \in told : HasFault(f) => f = fault
  /\ \A f, g \in told : f = g
  /\ handler.at = "publish" =>
       \/ handler.payload = fault
       \/ ~ HasFault(handler.payload) /\ \A f \in told : ~ HasFault(f)

(* While the broker has not heard of the fault, someone is about to report *)
(* it.                                                                     *)
Owed ==
  client = "connected" /\ link /\ HasFault(fault) /\ told # {fault} =>
    \/ handler.at \in {"connected", "subscribe", "build"}
    \/ handler.at = "publish" /\ HasFault(handler.payload)
    \/ Pending

MqttInv == MqttTypeOK /\ Wiring /\ HandlerInv /\ News /\ Owed

LEMMA NoFaultRecord == NoFault \in FaultRecord /\ ~ HasFault(NoFault)
  BY DEF NoFault, FaultRecord, FaultSource, FaultReason, HasFault

LEMMA MqttInvInit == Init => MqttInv
<1> SUFFICES ASSUME Init PROVE MqttInv
  OBVIOUS
<1>1. MqttTypeOK
  BY NoFaultRecord DEF Init, MqttInit, Home, MqttTypeOK, Payload
<1>2. Wiring /\ HandlerInv
  BY DEF Init, MqttInit, Home, Wiring, HandlerInv
<1>3. News /\ Owed
  BY DEF Init, MqttInit, Home, News, Owed, Pending
<1>4. QED
  BY <1>1, <1>2, <1>3 DEF MqttInv

(* A step that leaves all of it alone, app_main's place included.          *)
LEMMA MqttInvKept ==
  ASSUME MqttInv, UNCHANGED mqttVars, UNCHANGED boot
  PROVE  MqttInv'
  BY DEF MqttInv, MqttTypeOK, Wiring, HandlerInv, News, Owed, Pending, mqttVars, faultVars

(* app_main, its sensor check apart. *)
LEMMA MqttInvBoot ==
  ASSUME MqttInv, BootWifi \/ BootInit \/ BootStatusTask \/ BootSetChangeTask
                  \/ BootStartTask \/ SensorWorks \/ Restart
                  \/ (Calls("sensor", "restart") /\ UNCHANGED mqttVars)
  PROVE  MqttInv'
<1> USE NoFaultRecord DEF MqttInv
<1>1. CASE BootWifi
  <2> USE <1>1 DEF BootWifi, Calls, mqttVars, faultVars
  <2>1. MqttTypeOK'
    BY DEF MqttTypeOK, Payload
  <2>2. Wiring' /\ HandlerInv'
    BY DEF MqttTypeOK, Wiring, HandlerInv
  <2>3. News'
    BY DEF MqttTypeOK, Payload, Wiring, HandlerInv, News, Pending
  <2>4. Owed'
    BY DEF MqttTypeOK, Payload, Wiring, HandlerInv, News, Owed, Pending
  <2>5. QED
    BY <2>1, <2>2, <2>3, <2>4
<1>2. CASE BootInit
  <2> USE <1>2 DEF BootInit, Calls, InitClient, mqttVars, faultVars
  <2>1. MqttTypeOK'
    BY DEF MqttTypeOK, Payload
  <2>2. Wiring' /\ HandlerInv'
    BY DEF MqttTypeOK, Wiring, HandlerInv
  <2>3. News'
    BY DEF MqttTypeOK, Payload, Wiring, HandlerInv, News, Pending
  <2>4. Owed'
    BY DEF MqttTypeOK, Payload, Wiring, HandlerInv, News, Owed, Pending
  <2>5. QED
    BY <2>1, <2>2, <2>3, <2>4
<1>3. CASE BootStatusTask
  <2> USE <1>3 DEF BootStatusTask, Calls, CreateStatusTask, Waiting, mqttVars, faultVars
  <2>1. MqttTypeOK'
    BY DEF MqttTypeOK, Payload
  <2>2. Wiring' /\ HandlerInv'
    BY DEF MqttTypeOK, Wiring, HandlerInv
  <2>3. News'
    BY DEF MqttTypeOK, Payload, Wiring, HandlerInv, News, Pending
  <2>4. Owed'
    BY DEF MqttTypeOK, Payload, Wiring, HandlerInv, News, Owed, Pending
  <2>5. QED
    BY <2>1, <2>2, <2>3, <2>4
<1>4. CASE BootSetChangeTask
  <2> USE <1>4 DEF BootSetChangeTask, Calls, SetChangeTask, mqttVars, faultVars
  <2>1. MqttTypeOK'
    BY DEF MqttTypeOK, Payload
  <2>2. Wiring' /\ HandlerInv'
    BY DEF MqttTypeOK, Wiring, HandlerInv
  <2>3. News'
    BY DEF MqttTypeOK, Payload, Wiring, HandlerInv, News, Pending
  <2>4. Owed'
    BY DEF MqttTypeOK, Payload, Wiring, HandlerInv, News, Owed, Pending
  <2>5. QED
    BY <2>1, <2>2, <2>3, <2>4
<1>5. CASE BootStartTask
  <2> USE <1>5 DEF BootStartTask, Calls, CreateStartTask, mqttVars, faultVars
  <2>1. MqttTypeOK'
    BY DEF MqttTypeOK, Payload
  <2>2. Wiring' /\ HandlerInv'
    BY DEF MqttTypeOK, Wiring, HandlerInv
  <2>3. News'
    BY DEF MqttTypeOK, Payload, Wiring, HandlerInv, News, Pending
  <2>4. Owed'
    BY DEF MqttTypeOK, Payload, Wiring, HandlerInv, News, Owed, Pending
  <2>5. QED
    BY <2>1, <2>2, <2>3, <2>4
<1>6. CASE SensorWorks \/ (Calls("sensor", "restart") /\ UNCHANGED mqttVars)
  <2> USE <1>6 DEF SensorWorks, Calls, mqttVars, faultVars
  <2>1. MqttTypeOK'
    BY DEF MqttTypeOK, Payload
  <2>2. Wiring' /\ HandlerInv'
    BY DEF MqttTypeOK, Wiring, HandlerInv
  <2>3. News'
    BY DEF MqttTypeOK, Payload, Wiring, HandlerInv, News, Pending
  <2>4. Owed'
    BY DEF MqttTypeOK, Payload, Wiring, HandlerInv, News, Owed, Pending
  <2>5. QED
    BY <2>1, <2>2, <2>3, <2>4
<1>7. CASE Restart
  <2> USE <1>7 DEF Restart, MqttReset, Home
  <2>1. MqttTypeOK'
    BY DEF MqttTypeOK, Payload
  <2>2. Wiring' /\ HandlerInv'
    BY DEF MqttTypeOK, Wiring, HandlerInv
  <2>3. News'
    BY DEF MqttTypeOK, Payload, Wiring, HandlerInv, News, Pending
  <2>4. Owed'
    BY DEF MqttTypeOK, Payload, Wiring, HandlerInv, News, Owed, Pending
  <2>5. QED
    BY <2>1, <2>2, <2>3, <2>4
<1>8. QED
  BY <1>1, <1>2, <1>3, <1>4, <1>5, <1>6, <1>7

(* record(), by any caller; app_main goes on to restart. *)
LEMMA MqttInvRecord ==
  ASSUME MqttInv,
         NEW who \in {"app_main", "task"}, NEW src \in FaultSource,
         NEW why \in FaultReason, why # "None",
         Record(who, src, why), boot' = boot \/ boot' = "restart"
  PROVE  MqttInv'
<1> USE NoFaultRecord DEF MqttInv, Record, Notifies, RecordFault, HasFault, FaultRecord
<1>1. MqttTypeOK'
  BY DEF MqttTypeOK, Payload
<1>2. Wiring' /\ HandlerInv'
  BY DEF MqttTypeOK, Wiring, HandlerInv
<1>3. News'
  BY DEF MqttTypeOK, Payload, Wiring, HandlerInv, News, Pending
<1>4. Owed'
  BY DEF MqttTypeOK, Payload, Wiring, HandlerInv, News, Owed, Pending
<1>5. QED
  BY <1>1, <1>2, <1>3, <1>4

(* The connection breaks. *)
LEMMA MqttInvBreak ==
  ASSUME MqttInv, link' = FALSE,
         UNCHANGED <<fault, changeTask, give, notified, status, starter, client,
                     mqttConnected, handler, subscribed, told, input, boot>>
  PROVE  MqttInv'
<1>1. MqttTypeOK'
  <2>1. link' \in BOOLEAN
    OBVIOUS
  <2>2. MqttTypeOK
    BY DEF MqttInv
  <2>3. QED
    BY <2>1, <2>2 DEF MqttTypeOK, Payload
<1>2. Wiring' /\ HandlerInv' /\ News' /\ Owed'
  BY DEF MqttInv, Wiring, HandlerInv, News, Owed, Pending
<1>3. QED
  BY <1>1, <1>2 DEF MqttInv

(* The client: the start task, the library and handleMqttEvent(). *)
LEMMA MqttInvClient ==
  ASSUME MqttInv, UNCHANGED boot,
         (\E w \in BOOLEAN : StartTask(w)) \/ Connect \/ FindBroken \/ HandleEvent
           \/ \E m \in Messages : HandleData(m)
  PROVE  MqttInv'
<1> USE NoFaultRecord DEF MqttInv
<1>1. CASE \E w \in BOOLEAN : StartTask(w)
  <2> USE <1>1 DEF StartTask, faultVars
  <2>1. MqttTypeOK'
    BY DEF MqttTypeOK, Payload
  <2>2. Wiring' /\ HandlerInv'
    BY DEF MqttTypeOK, Wiring, HandlerInv
  <2>3. News'
    BY DEF MqttTypeOK, Payload, Wiring, HandlerInv, News, Pending
  <2>4. Owed'
    BY DEF MqttTypeOK, Payload, Wiring, HandlerInv, News, Owed, Pending
  <2>5. QED
    BY <2>1, <2>2, <2>3, <2>4
<1>2. CASE Connect
  <2> USE <1>2 DEF Connect, Home, faultVars
  <2>1. MqttTypeOK'
    BY DEF MqttTypeOK, Payload
  <2>2. Wiring' /\ HandlerInv'
    BY DEF MqttTypeOK, Wiring, HandlerInv
  <2>3. News'
    BY DEF MqttTypeOK, Payload, Wiring, HandlerInv, News, Pending
  <2>4. Owed'
    BY DEF MqttTypeOK, Payload, Wiring, HandlerInv, News, Owed, Pending
  <2>5. QED
    BY <2>1, <2>2, <2>3, <2>4
<1>3. CASE FindBroken
  <2> USE <1>3 DEF FindBroken, Home, faultVars
  <2>1. MqttTypeOK'
    BY DEF MqttTypeOK, Payload
  <2>2. Wiring' /\ HandlerInv'
    BY DEF MqttTypeOK, Wiring, HandlerInv
  <2>3. News'
    BY DEF MqttTypeOK, Payload, Wiring, HandlerInv, News, Pending
  <2>4. Owed'
    BY DEF MqttTypeOK, Payload, Wiring, HandlerInv, News, Owed, Pending
  <2>5. QED
    BY <2>1, <2>2, <2>3, <2>4
<1>4. CASE HandleConnected
  <2> USE <1>4 DEF HandleConnected, faultVars
  <2>1. MqttTypeOK'
    BY DEF MqttTypeOK, Payload
  <2>2. Wiring' /\ HandlerInv'
    BY DEF MqttTypeOK, Wiring, HandlerInv
  <2>3. News'
    BY DEF MqttTypeOK, Payload, Wiring, HandlerInv, News, Pending
  <2>4. Owed'
    BY DEF MqttTypeOK, Payload, Wiring, HandlerInv, News, Owed, Pending
  <2>5. QED
    BY <2>1, <2>2, <2>3, <2>4
<1>5. CASE Subscribe
  <2> USE <1>5 DEF Subscribe, faultVars
  <2>1. MqttTypeOK'
    BY DEF MqttTypeOK, Payload
  <2>2. Wiring' /\ HandlerInv'
    BY DEF MqttTypeOK, Wiring, HandlerInv
  <2>3. News'
    BY DEF MqttTypeOK, Payload, Wiring, HandlerInv, News, Pending
  <2>4. Owed'
    BY DEF MqttTypeOK, Payload, Wiring, HandlerInv, News, Owed, Pending
  <2>5. QED
    BY <2>1, <2>2, <2>3, <2>4
<1>6. CASE BuildOnConnect
  <2> USE <1>6 DEF BuildOnConnect, faultVars
  <2>1. MqttTypeOK'
    BY DEF MqttTypeOK, Payload
  <2>2. Wiring' /\ HandlerInv'
    BY DEF MqttTypeOK, Wiring, HandlerInv
  <2>3. News'
    BY DEF MqttTypeOK, Payload, Wiring, HandlerInv, News, Pending
  <2>4. Owed'
    BY DEF MqttTypeOK, Payload, Wiring, HandlerInv, News, Owed, Pending
  <2>5. QED
    BY <2>1, <2>2, <2>3, <2>4
<1>7. CASE PublishOnConnect
  <2> USE <1>7 DEF PublishOnConnect, Published, Home, faultVars
  <2>1. MqttTypeOK'
    BY DEF MqttTypeOK, Payload
  <2>2. Wiring' /\ HandlerInv'
    BY DEF MqttTypeOK, Wiring, HandlerInv
  <2>3. News'
    BY DEF MqttTypeOK, Payload, Wiring, HandlerInv, News, Pending
  <2>4. Owed'
    BY DEF MqttTypeOK, Payload, Wiring, HandlerInv, News, Owed, Pending
  <2>5. QED
    BY <2>1, <2>2, <2>3, <2>4
<1>8. CASE HandleDisconnected
  <2> USE <1>8 DEF HandleDisconnected, Home, faultVars
  <2>1. MqttTypeOK'
    BY ZenonT(30) DEF MqttTypeOK, Payload
  <2>2. Wiring' /\ HandlerInv'
    BY DEF MqttTypeOK, Wiring, HandlerInv
  <2>3. News'
    BY DEF MqttTypeOK, Payload, Wiring, HandlerInv, News, Pending
  <2>4. Owed'
    BY DEF MqttTypeOK, Payload, Wiring, HandlerInv, News, Owed, Pending
  <2>5. QED
    BY <2>1, <2>2, <2>3, <2>4
<1>9. CASE \E m \in Messages : HandleData(m)
  <2> USE <1>9 DEF HandleData, faultVars
  <2>1. MqttTypeOK'
    BY DEF MqttTypeOK, Payload
  <2>2. Wiring' /\ HandlerInv'
    BY DEF MqttTypeOK, Wiring, HandlerInv
  <2>3. News'
    BY DEF MqttTypeOK, Payload, Wiring, HandlerInv, News, Pending
  <2>4. Owed'
    BY DEF MqttTypeOK, Payload, Wiring, HandlerInv, News, Owed, Pending
  <2>5. QED
    BY <2>1, <2>2, <2>3, <2>4
<1>10. QED
  BY <1>1, <1>2, <1>3, <1>4, <1>5, <1>6, <1>7, <1>8, <1>9 DEF HandleEvent

(* FaultHandler's notification and the status task. *)
LEMMA MqttInvStatus ==
  ASSUME MqttInv, UNCHANGED boot, Give \/ StatusTask
  PROVE  MqttInv'
<1> USE NoFaultRecord DEF MqttInv
<1>1. CASE Give
  <2> USE <1>1 DEF Give
  <2>1. MqttTypeOK'
    BY DEF MqttTypeOK, Payload
  <2>2. Wiring' /\ HandlerInv'
    BY DEF MqttTypeOK, Wiring, HandlerInv
  <2>3. News'
    BY DEF MqttTypeOK, Payload, Wiring, HandlerInv, News, Pending
  <2>4. Owed'
    BY DEF MqttTypeOK, Payload, Wiring, HandlerInv, News, Owed, Pending
  <2>5. QED
    BY <2>1, <2>2, <2>3, <2>4
<1>2. CASE Take
  <2> USE <1>2 DEF Take, TakenNotice, faultVars
  <2>1. MqttTypeOK'
    BY ZenonT(30) DEF MqttTypeOK, Payload
  <2>2. Wiring' /\ HandlerInv'
    BY DEF MqttTypeOK, Wiring, HandlerInv
  <2>3. News'
    BY DEF MqttTypeOK, Payload, Wiring, HandlerInv, News, Pending
  <2>4. Owed'
    BY DEF MqttTypeOK, Payload, Wiring, HandlerInv, News, Owed, Pending
  <2>5. QED
    BY <2>1, <2>2, <2>3, <2>4
<1>3. CASE CheckConnected
  <2> USE <1>3 DEF CheckConnected, faultVars
  <2>1. MqttTypeOK'
    BY DEF MqttTypeOK, Payload
  <2>2. Wiring' /\ HandlerInv'
    BY DEF MqttTypeOK, Wiring, HandlerInv
  <2>3. News'
    BY DEF MqttTypeOK, Payload, Wiring, HandlerInv, News, Pending
  <2>4. Owed'
    BY DEF MqttTypeOK, Payload, Wiring, HandlerInv, News, Owed, Pending
  <2>5. QED
    BY <2>1, <2>2, <2>3, <2>4
<1>4. CASE Build
  <2> USE <1>4 DEF Build, faultVars
  <2>1. MqttTypeOK'
    BY DEF MqttTypeOK, Payload
  <2>2. Wiring' /\ HandlerInv'
    BY DEF MqttTypeOK, Wiring, HandlerInv
  <2>3. News'
    BY DEF MqttTypeOK, Payload, Wiring, HandlerInv, News, Pending
  <2>4. Owed'
    BY DEF MqttTypeOK, Payload, Wiring, HandlerInv, News, Owed, Pending
  <2>5. QED
    BY <2>1, <2>2, <2>3, <2>4
<1>5. CASE Publish
  <2> USE <1>5 DEF Publish, Published, Home, Waiting, faultVars
  <2>1. MqttTypeOK'
    BY DEF MqttTypeOK, Payload
  <2>2. Wiring' /\ HandlerInv'
    BY DEF MqttTypeOK, Wiring, HandlerInv
  <2>3. News'
    BY DEF MqttTypeOK, Payload, Wiring, HandlerInv, News, Pending
  <2>4. Owed'
    BY DEF MqttTypeOK, Payload, Wiring, HandlerInv, News, Owed, Pending
  <2>5. QED
    BY <2>1, <2>2, <2>3, <2>4
<1>6. QED
  BY <1>1, <1>2, <1>3, <1>4, <1>5 DEF StatusTask

-----------------------------------------------------------------------------
(* Both together, and the bounds. *)
IInv ==
  /\ WifiInv
  /\ MqttInv
  /\ boot \in {"wifi", "init", "status", "notify", "start", "sensor", "up", "restart"}
  /\ breaks \in 0..MaxBreaks
  /\ restarts \in 0..MaxRestarts
  /\ boot = "restart" => restarts < MaxRestarts

LEMMA IInvTypes == IInv => TypeOK
  BY WifiInvTypes DEF IInv, MqttInv, TypeOK

LEMMA IInvInit == Init => IInv
  BY WifiInvInit, MqttInvInit, ReportingAssumption DEF Init, IInv

LEMMA IInvBoot ==
  ASSUME IInv, AppMain
  PROVE  IInv'
<1> USE ReportingAssumption DEF IInv
<1>1. CASE BootWifi
  BY <1>1, WifiInvStart, MqttInvBoot DEF BootWifi, Calls
<1>2. CASE BootInit \/ BootStatusTask \/ BootSetChangeTask \/ BootStartTask \/ SensorWorks
  <2>1. UNCHANGED wifiVars /\ boot' # "wifi" /\ UNCHANGED <<breaks, restarts>>
    BY <1>2 DEF BootInit, BootStatusTask, BootSetChangeTask, BootStartTask, SensorWorks, Calls
  <2>2. boot' \in {"status", "notify", "start", "sensor", "up"}
    BY <1>2 DEF BootInit, BootStatusTask, BootSetChangeTask, BootStartTask, SensorWorks, Calls
  <2>3. QED
    BY <1>2, <2>1, <2>2, WifiInvKept, MqttInvBoot
<1>3. CASE SensorStuck
  <2>1. /\ UNCHANGED wifiVars /\ boot' = "restart" /\ UNCHANGED <<breaks, restarts>>
        /\ Record("app_main", "HomeSensor", "StuckHomeSensor") /\ restarts < MaxRestarts
    BY <1>3 DEF SensorStuck, Calls
  <2>2. MqttInv'
    BY <2>1, MqttInvRecord DEF FaultSource, FaultReason
  <2>3. QED
    BY <2>1, <2>2, WifiInvKept
<1>4. CASE Restart
  <2>1. boot' = "wifi" /\ restarts' = restarts + 1 /\ UNCHANGED breaks /\ WifiReset
    BY <1>4 DEF Restart
  <2>2. WifiInv'
    BY <2>1 DEF WifiReset, WifiInv, RadioInv, Untouched, Radio
  <2>3. restarts' \in 0..MaxRestarts
    BY <1>4, <2>1 DEF Restart
  <2>4. QED
    BY <1>4, <2>1, <2>2, <2>3, MqttInvBoot
<1>5. CASE BootFails
  <2>1. UNCHANGED wifiVars /\ boot' = "restart" /\ UNCHANGED <<breaks, restarts>> /\ restarts < MaxRestarts
    BY <1>5 DEF BootFails, Calls
  <2>2. CASE UNCHANGED mqttVars
    <3>1. MqttInv'
      BY <1>5, <2>2, MqttInvBoot DEF BootFails
    <3>2. QED
      BY <2>1, <3>1, WifiInvKept
  <2>3. CASE Record("app_main", "CommandQueue", "CommandQueueOverflow")
    <3>1. MqttInv'
      BY <2>1, <2>3, MqttInvRecord DEF FaultSource, FaultReason
    <3>2. QED
      BY <2>1, <3>1, WifiInvKept
  <2>4. QED
    BY <1>5, <2>2, <2>3 DEF BootFails
<1>6. QED
  BY <1>1, <1>2, <1>3, <1>4, <1>5 DEF AppMain

LEMMA IInvNext ==
  ASSUME IInv, [Next]_vars
  PROVE  IInv'
<1> USE ReportingAssumption
<1> DEFINE Bounds == UNCHANGED <<boot, breaks, restarts>>
<1>0. ASSUME Bounds, WifiInv', MqttInv' PROVE IInv'
  BY <1>0 DEF IInv
<1>a. ASSUME Bounds, UNCHANGED wifiVars, MqttInv' PROVE IInv'
  BY <1>a, <1>0, WifiInvKept DEF IInv
<1>b. ASSUME Bounds, UNCHANGED mqttVars, WifiInv' PROVE IInv'
  BY <1>b, <1>0, MqttInvKept DEF IInv
<1>1. CASE AppMain
  BY <1>1, IInvBoot
<1>2. CASE \E c \in Causes : RecordFaults(c)
  <2>1. PICK c \in Causes : RecordFaults(c)
    BY <1>2
  <2>2. c.source \in FaultSource /\ c.reason \in FaultReason /\ c.reason # "None"
    BY <2>1 DEF FaultRecord, HasFault
  <2>3. MqttInv'
    BY <2>1, <2>2, MqttInvRecord DEF IInv, RecordFaults
  <2>4. QED
    BY <1>a, <2>1, <2>3 DEF RecordFaults
<1>3. CASE Notify
  BY <1>3, <1>a, MqttInvStatus DEF IInv, Notify
<1>4. CASE WifiEvents
  BY <1>4, <1>b, WifiInvEvents DEF IInv, WifiEvents
<1>5. CASE WifiJoins
  BY <1>5, <1>b, WifiInvRadio DEF IInv, WifiJoins
<1>6. CASE WifiLeaves
  <2>1. WifiInv'
    BY <1>6, WifiInvRadio DEF IInv, WifiLeaves
  <2>2. MqttInv'
    BY <1>6, MqttInvBreak DEF IInv, WifiLeaves
  <2>3. breaks' \in 0..MaxBreaks /\ UNCHANGED <<boot, restarts>>
    BY <1>6 DEF IInv, WifiLeaves
  <2>4. QED
    BY <2>1, <2>2, <2>3 DEF IInv
<1>7. CASE BrokerLeaves
  <2>1. WifiInv'
    BY <1>7, WifiInvKept DEF IInv, BrokerLeaves
  <2>2. MqttInv'
    BY <1>7, MqttInvBreak DEF IInv, BrokerLeaves
  <2>3. breaks' \in 0..MaxBreaks /\ UNCHANGED <<boot, restarts>>
    BY <1>7 DEF IInv, BrokerLeaves
  <2>4. QED
    BY <2>1, <2>2, <2>3 DEF IInv
<1>8. CASE StartsClient
  <2>1. StartTask(TRUE) /\ UNCHANGED boot
    BY <1>8 DEF StartsClient, StartTask
  <2>2. MqttInv'
    BY <2>1, MqttInvClient DEF IInv
  <2>3. QED
    BY <1>8, <2>2, <1>a DEF StartsClient
<1>9. CASE ClientConnects
  BY <1>9, <1>a, MqttInvClient DEF IInv, ClientConnects
<1>10. CASE ClientEvents
  BY <1>10, <1>a, MqttInvClient DEF IInv, ClientEvents
<1>11. CASE \E m \in Messages : Delivers(m)
  <2>1. MqttInv'
    BY <1>11, MqttInvClient DEF IInv, Delivers
  <2>2. QED
    BY <1>11, <2>1, <1>a DEF Delivers
<1>12. CASE ReportsStatus
  BY <1>12, <1>a, MqttInvStatus DEF IInv, ReportsStatus
<1>13. CASE UNCHANGED vars
  BY <1>13, <1>b, WifiInvKept DEF IInv, vars
<1>14. QED
  BY <1>1, <1>2, <1>3, <1>4, <1>5, <1>6, <1>7, <1>8, <1>9, <1>10, <1>11, <1>12, <1>13
     DEF Next

(* Every reachable state satisfies the invariant the theorems rest on.     *)
THEOREM Invariance == Spec => []IInv
<1>1. IInv /\ [Next]_vars => IInv'
  BY IInvNext
<1>2. QED
  BY IInvInit, <1>1, PTL DEF Spec

-----------------------------------------------------------------------------
(* Every variable of Wi-Fi, MQTT and the start keeps its type, whatever     *)
(* fails, connects, breaks or restarts.                                    *)
THEOREM TypeCorrect == Spec => []TypeOK
  BY Invariance, IInvTypes, PTL

(* The event group's two bits are never set at once, and tell the truth     *)
(* about the station once the event loop has caught up (Wifi).             *)
THEOREM WifiBitsTrue == Spec => []BitsTrue
<1>1. IInv => BitsTrue
  BY WifiInvBits DEF IInv
<1>2. QED
  BY Invariance, <1>1, PTL

(* With a live connection and nothing left to do, the broker has heard of   *)
(* the fault on record: no order of recording, notifying, connecting and    *)
(* publishing loses it (MqttClient and FaultHandler).                      *)
THEOREM NoFaultForgotten == Spec => []SettledMeansTold
<1>1. IInv => SettledMeansTold
  BY DEF IInv, MqttInv, Owed, Pending, SettledMeansTold, Settled, Home
<1>2. QED
  BY Invariance, <1>1, PTL

(* What the broker has heard of a fault is neither replaced nor taken back  *)
(* until the program restarts.                                             *)
THEOREM FaultNotRetracted == Spec => NoRetraction
<1>1. ASSUME IInv, IInv', [Next]_vars
      PROVE  [Retracts => restarts' = restarts + 1]_vars
  <2>1. SUFFICES ASSUME Retracts PROVE restarts' = restarts + 1
    OBVIOUS
  <2>2. PICK f \in told : HasFault(f) /\ told' # told
    BY <2>1 DEF Retracts
  <2>3. told = {fault} /\ HasFault(fault)
    BY <1>1, <2>2 DEF IInv, MqttInv, News
  <2>4. CASE Restart
    BY <2>4 DEF Restart
  <2>5. ASSUME told' = {fault} PROVE FALSE
    BY <2>2, <2>3, <2>5
  <2>6. CASE PublishOnConnect
    <3>1. handler.payload = fault
      BY <1>1, <2>3, <2>6 DEF IInv, MqttInv, News, PublishOnConnect
    <3>2. QED
      BY <2>3, <2>5, <2>6, <3>1 DEF PublishOnConnect, Published
  <2>7. CASE Publish
    <3>1. status.payload = fault
      BY <1>1, <2>7 DEF IInv, MqttInv, News, Publish
    <3>2. QED
      BY <2>3, <2>5, <2>7, <3>1 DEF Publish, Published
  <2>8. CASE ~ Restart /\ ~ PublishOnConnect /\ ~ Publish
    <3>1. UNCHANGED told
      BY <1>1, <2>8
      DEF Next, AppMain, BootWifi, BootInit, BootStatusTask, BootSetChangeTask, BootStartTask,
          SensorWorks, SensorStuck, BootFails, RecordFaults, Notify, WifiEvents, WifiJoins, WifiLeaves,
          BrokerLeaves, StartsClient, ClientConnects, ClientEvents, Delivers, ReportsStatus,
          InitClient, CreateStatusTask, SetChangeTask, CreateStartTask, Record, Give, StartTask,
          Connect, FindBroken, HandleEvent, HandleConnected, Subscribe, BuildOnConnect,
          HandleDisconnected, HandleData, StatusTask, Take, CheckConnected, Build,
          vars, mqttVars, faultVars
    <3>2. QED
      BY <2>2, <3>1
  <2>9. QED
    BY <2>4, <2>6, <2>7, <2>8
<1>2. IInv /\ IInv' /\ [Next]_vars => [Retracts => restarts' = restarts + 1]_vars
  BY <1>1
<1>3. QED
  BY Invariance, <1>2, PTL DEF Spec, NoRetraction

-----------------------------------------------------------------------------
(* Payloads: what parseCommandPayload() makes of a text of any length.     *)
(* Induction over the digits is by the least number that breaks it.        *)
(* The order of the numbers, as a set of pairs.                           *)
Below == {p \in Nat \X Nat : p[1] < p[2]}

LEMMA BelowWellFounded == IsWellFoundedOn(Below, Nat)
<1>1. Below = OpToRel(<, Nat)
  BY Zenon DEF OpToRel, Below
<1>2. QED
  BY <1>1, NatLessThanWellFounded, Zenon

(* Any numbers have a least one among them. *)
LEMMA Least ==
  ASSUME NEW T, T \subseteq Nat, T # {}
  PROVE  \E x \in T : \A y \in T : x <= y
<1>1. PICK x \in T : \A y \in T : ~ (<<y, x>> \in Below)
  BY BelowWellFounded, WFMin, Zenon
<1>2. \A y \in T : ~ (y < x)
  BY <1>1 DEF Below
<1>3. QED
  BY <1>2

(* Induction up to n: the first number outside S has no predecessor in S.  *)
LEMMA UpTo ==
  ASSUME NEW n \in Nat, NEW S, 0 \in S, \A i \in 0..(n - 1) : i \in S => i + 1 \in S
  PROVE  \A i \in 0..n : i \in S
<1> DEFINE Out == {i \in 0..n : i \notin S}
<1>1. SUFFICES ASSUME Out # {} PROVE FALSE
  OBVIOUS
<1>2. PICK x \in Out : \A y \in Out : x <= y
  <2>1. Out \subseteq Nat
    OBVIOUS
  <2> HIDE DEF Out
  <2>2. QED
    BY <1>1, <2>1, Least
<1>3. x \in 1..n /\ x - 1 \in 0..(n - 1) /\ x - 1 \notin Out
  BY <1>2
<1>4. x - 1 \in S /\ (x - 1) + 1 = x
  BY <1>3
<1>5. QED
  BY <1>2, <1>3, <1>4

(* f is what the steps of g make of a, one after the other. *)
IsRun(n, a, g, f) == f[0] = a /\ \A i \in 1..n : f[i] = g[i][f[i - 1]]

(* There is such an f: one is built for the first k steps after another.  *)
LEMMA Runs ==
  ASSUME NEW n \in Nat, NEW A, NEW a \in A, NEW g \in [1..n -> [A -> A]]
  PROVE  \E f \in [0..n -> A] : IsRun(n, a, g, f)
<1> DEFINE S == {k \in 0..n : \E f \in [0..k -> A] :
                                f[0] = a /\ \A i \in 1..k : f[i] = g[i][f[i - 1]]}
<1>1. 0 \in S
  <2> DEFINE h == [i \in 0..0 |-> a]
  <2>1. h \in [0..0 -> A] /\ h[0] = a /\ \A i \in 1..0 : h[i] = g[i][h[i - 1]]
    OBVIOUS
  <2> HIDE DEF h
  <2>2. QED
    BY <2>1
<1>2. ASSUME NEW k \in 0..(n - 1), k \in S PROVE k + 1 \in S
  <2>1. PICK f \in [0..k -> A] : f[0] = a /\ \A i \in 1..k : f[i] = g[i][f[i - 1]]
    BY <1>2
  <2> DEFINE h == [i \in 0..(k + 1) |-> IF i = k + 1 THEN g[k + 1][f[k]] ELSE f[i]]
  <2>2. k + 1 \in 1..n /\ k \in 0..k /\ g[k + 1] \in [A -> A] /\ f[k] \in A
    OBVIOUS
  <2>3. g[k + 1][f[k]] \in A
    BY <2>2
  <2>4. h \in [0..(k + 1) -> A]
    BY <2>3
  <2>5. h[0] = a
    BY <2>1
  <2>6. \A i \in 1..(k + 1) : h[i] = g[i][h[i - 1]]
    <3>1. TAKE i \in 1..(k + 1)
    <3>2. i - 1 \in 0..k /\ i - 1 # k + 1 /\ i \in 0..(k + 1) /\ i - 1 \in 0..(k + 1)
      OBVIOUS
    <3>3. h[i - 1] = f[i - 1]
      BY <3>2
    <3>4. CASE i = k + 1
      BY <3>2, <3>3, <3>4
    <3>5. CASE i # k + 1
      <4>1. i \in 1..k
        BY <3>5
      <4>2. QED
        BY <2>1, <3>2, <3>3, <3>5, <4>1
    <3>6. QED
      BY <3>4, <3>5
  <2> HIDE DEF h
  <2>7. QED
    BY <2>2, <2>4, <2>5, <2>6
<1> HIDE DEF S
<1>3. \A k \in 0..n : k \in S
  BY <1>1, <1>2, UpTo
<1>4. n \in S
  BY <1>3
<1>5. QED
  BY <1>4 DEF S, IsRun

(* The digits' values, and one digit shifted into 16 bits. *)
LEMMA OverrunIs == Overrun = 65536
  BY DEF Overrun

LEMMA DigitType == \A d \in DOMAIN Digit : Digit[d] \in 0..9
<1> DEFINE D == {"0", "1", "2", "3", "4", "5", "6", "7", "8", "9"}
           names == <<"0", "1", "2", "3", "4", "5", "6", "7", "8", "9">>
<1>1. \A d \in D : \E n \in 0..9 : d = names[n + 1]
  <2>1. /\ names[1] = "0" /\ names[2] = "1" /\ names[3] = "2" /\ names[4] = "3"
        /\ names[5] = "4" /\ names[6] = "5" /\ names[7] = "6" /\ names[8] = "7"
        /\ names[9] = "8" /\ names[10] = "9"
    OBVIOUS
  <2>2. /\ 0 + 1 = 1 /\ 1 + 1 = 2 /\ 2 + 1 = 3 /\ 3 + 1 = 4 /\ 4 + 1 = 5
        /\ 5 + 1 = 6 /\ 6 + 1 = 7 /\ 7 + 1 = 8 /\ 8 + 1 = 9 /\ 9 + 1 = 10
        /\ {0, 1, 2, 3, 4, 5, 6, 7, 8, 9} \subseteq 0..9
    OBVIOUS
  <2> HIDE DEF names
  <2>3. QED
    BY <2>1, <2>2
<1>2. Digit = [d \in D |-> CHOOSE n \in 0..9 : d = names[n + 1]]
  BY Zenon DEF Digit
<1> HIDE DEF D, names
<1>3. DOMAIN Digit = D
  BY <1>2
<1>4. ASSUME NEW d \in D PROVE (CHOOSE n \in 0..9 : d = names[n + 1]) \in 0..9
  BY <1>1
<1>5. QED
  BY <1>2, <1>3, <1>4

LEMMA Remainder ==
  ASSUME NEW x \in Nat
  PROVE  x % Overrun \in Nat /\ x % Overrun < Overrun /\ (x < Overrun => x % Overrun = x)
<1>1. /\ x % 65536 \in Nat /\ x % 65536 < 65536
      /\ x < 65536 => x % 65536 = x
  OBVIOUS
<1>2. QED
  BY <1>1, OverrunIs

LEMMA ShiftInIs ==
  ASSUME NEW p \in 0..Overrun, NEW d \in 0..9
  PROVE  /\ ShiftIn(p, d) \in 0..Overrun
         /\ p = Overrun => ShiftIn(p, d) = Overrun
         /\ p <= 100 /\ p * 10 + d > 100 => ShiftIn(p, d) = Overrun
         /\ p * 10 + d <= 100 => ShiftIn(p, d) = p * 10 + d
<1> DEFINE x == p * 10 + d
<1>1. x \in Nat /\ (p <= 100 => x < Overrun) /\ Overrun \in Nat /\ Overrun > 100
      /\ (x <= 100 => p <= 100)
  BY SMTT(30) DEF Overrun
<1>2. ShiftIn(p, d) = IF p = Overrun \/ x % Overrun > 100 THEN Overrun ELSE x % Overrun
  BY DEF ShiftIn, Overrun
<1> HIDE DEF x
<1>3. x % Overrun \in Nat /\ x % Overrun < Overrun /\ (x < Overrun => x % Overrun = x)
  BY <1>1, Remainder
<1>4. PICK m \in Nat : m = x % Overrun
  BY <1>3
<1>5. /\ m < Overrun /\ (x < Overrun => m = x)
      /\ ShiftIn(p, d) = IF p = Overrun \/ m > 100 THEN Overrun ELSE m
  BY <1>2, <1>3, <1>4
<1>6. /\ ShiftIn(p, d) \in 0..Overrun
      /\ p = Overrun => ShiftIn(p, d) = Overrun
      /\ p <= 100 /\ x > 100 => ShiftIn(p, d) = Overrun
      /\ x <= 100 => ShiftIn(p, d) = x
  BY <1>1, <1>5
<1>7. QED
  BY <1>6 DEF x

(* The recursive functions behind PercentOf and Number, by their equations. *)
LEMMA PercentRuns ==
  ASSUME NEW token, Len(token) \in Nat, \A i \in 1..Len(token) : token[i] \in DOMAIN Digit
  PROVE  \E f :
           /\ PercentOf(token) = f[Len(token)] /\ f[0] = 0
           /\ \A i \in 1..Len(token) : f[i] = ShiftIn(f[i - 1], Digit[token[i]])
<1> DEFINE n == Len(token)
           A == 0..Overrun
           g == [i \in 1..n |-> [p \in A |-> ShiftIn(p, Digit[token[i]])]]
           percent == CHOOSE f : f = [i \in 0..n |->
                        IF i = 0 THEN 0 ELSE ShiftIn(f[i - 1], Digit[token[i]])]
<1>1. 0 \in A /\ n \in Nat
  BY OverrunIs
<1>2. g \in [1..n -> [A -> A]]
  BY DigitType, ShiftInIs
<1>3. \A i \in 1..n : \A p \in A : g[i][p] = ShiftIn(p, Digit[token[i]])
  OBVIOUS
<1>4. PercentOf(token) = percent[n]
  BY Zenon DEF PercentOf
<1> HIDE DEF A, g
<1> HIDE DEF n
<1>5. PICK f \in [0..n -> A] : IsRun(n, 0, g, f)
  BY <1>1, <1>2, Runs
<1>6. f[0] = 0 /\ \A i \in 1..n : f[i] = ShiftIn(f[i - 1], Digit[token[i]])
  <2>1. \A i \in 1..n : f[i - 1] \in A
    BY <1>1
  <2>2. QED
    BY <1>3, <1>5, <2>1 DEF IsRun
<1>7. f = [i \in 0..n |-> IF i = 0 THEN 0 ELSE ShiftIn(f[i - 1], Digit[token[i]])]
  <2>1. \A i \in 0..n : i = 0 \/ i \in 1..n
    BY <1>1
  <2>2. QED
    BY <1>6, <2>1
<1>8. percent = [i \in 0..n |-> IF i = 0 THEN 0 ELSE ShiftIn(percent[i - 1], Digit[token[i]])]
  BY <1>7, Zenon
<1>9. percent[0] = 0 /\ \A i \in 1..n : percent[i] = ShiftIn(percent[i - 1], Digit[token[i]])
  <2>1. 0 \in 0..n /\ \A i \in 1..n : i \in 0..n /\ i # 0
    BY <1>1
  <2> HIDE DEF percent
  <2>2. QED
    BY <1>8, <2>1
<1> HIDE DEF percent
<1>10. QED
  BY <1>4, <1>9 DEF n

LEMMA ValueRuns ==
  ASSUME NEW token, Len(token) \in Nat, \A i \in 1..Len(token) : token[i] \in DOMAIN Digit
  PROVE  \E f :
           /\ Number(token) = f[Len(token)] /\ f[0] = 0
           /\ \A i \in 1..Len(token) : f[i] = f[i - 1] * 10 + Digit[token[i]]
<1> DEFINE n == Len(token)
           g == [i \in 1..n |-> [v \in Nat |-> v * 10 + Digit[token[i]]]]
           value == CHOOSE f : f = [i \in 0..n |->
                      IF i = 0 THEN 0 ELSE f[i - 1] * 10 + Digit[token[i]]]
<1>1. 0 \in Nat /\ n \in Nat
  OBVIOUS
<1>2. g \in [1..n -> [Nat -> Nat]]
  BY DigitType
<1>3. \A i \in 1..n : \A v \in Nat : g[i][v] = v * 10 + Digit[token[i]]
  OBVIOUS
<1>4. Number(token) = value[n]
  BY Zenon DEF Number
<1> HIDE DEF g
<1> HIDE DEF n
<1>5. PICK f \in [0..n -> Nat] : IsRun(n, 0, g, f)
  BY <1>1, <1>2, Runs
<1>6. f[0] = 0 /\ \A i \in 1..n : f[i] = f[i - 1] * 10 + Digit[token[i]]
  <2>1. \A i \in 1..n : f[i - 1] \in Nat
    BY <1>1
  <2>2. QED
    BY <1>3, <1>5, <2>1 DEF IsRun
<1>7. f = [i \in 0..n |-> IF i = 0 THEN 0 ELSE f[i - 1] * 10 + Digit[token[i]]]
  <2>1. \A i \in 0..n : i = 0 \/ i \in 1..n
    BY <1>1
  <2>2. QED
    BY <1>6, <2>1
<1>8. value = [i \in 0..n |-> IF i = 0 THEN 0 ELSE value[i - 1] * 10 + Digit[token[i]]]
  BY <1>7, Zenon
<1>9. value[0] = 0 /\ \A i \in 1..n : value[i] = value[i - 1] * 10 + Digit[token[i]]
  <2>1. 0 \in 0..n /\ \A i \in 1..n : i \in 0..n /\ i # 0
    BY <1>1
  <2> HIDE DEF value
  <2>2. QED
    BY <1>8, <2>1
<1> HIDE DEF value
<1>10. QED
  BY <1>4, <1>9 DEF n

(* The 16 bits never overflow: what exceeds 100 is given up before it can. *)
(* Up to 100 the 16 bits hold the number read so far; beyond, Overrun.    *)
LEMMA ShiftInMeans ==
  ASSUME NEW p, NEW v \in Nat, NEW d \in 0..9, p = IF v <= 100 THEN v ELSE Overrun
  PROVE  ShiftIn(p, d) = IF v * 10 + d <= 100 THEN v * 10 + d ELSE Overrun
<1>1. Overrun \in Nat /\ Overrun > 100
  BY OverrunIs
<1>2. CASE v <= 100
  <2>1. p = v /\ p \in 0..Overrun
    BY <1>1, <1>2
  <2>2. /\ p <= 100 /\ p * 10 + d > 100 => ShiftIn(p, d) = Overrun
        /\ p * 10 + d <= 100 => ShiftIn(p, d) = p * 10 + d
    BY <2>1, ShiftInIs
  <2>3. QED
    BY <1>2, <2>1, <2>2
<1>3. CASE ~ (v <= 100)
  <2>1. p = Overrun /\ p \in 0..Overrun
    BY <1>1, <1>3
  <2>2. ShiftIn(p, d) = Overrun
    BY <2>1, ShiftInIs
  <2>3. QED
    BY <1>3, <2>2
<1>4. QED
  BY <1>2, <1>3

LEMMA PercentMeans ==
  ASSUME NEW token, Len(token) \in Nat, \A i \in 1..Len(token) : token[i] \in DOMAIN Digit
  PROVE  /\ Number(token) \in Nat
         /\ PercentOf(token) = IF Number(token) <= 100 THEN Number(token) ELSE Overrun
<1> DEFINE n == Len(token)
<1>1. PICK p : /\ PercentOf(token) = p[n] /\ p[0] = 0
               /\ \A i \in 1..n : p[i] = ShiftIn(p[i - 1], Digit[token[i]])
  BY PercentRuns
<1>2. PICK v : /\ Number(token) = v[n] /\ v[0] = 0
               /\ \A i \in 1..n : v[i] = v[i - 1] * 10 + Digit[token[i]]
  BY ValueRuns
<1> DEFINE S == {i \in 0..n : v[i] \in Nat /\ p[i] = IF v[i] <= 100 THEN v[i] ELSE Overrun}
<1>3. 0 \in S
  BY <1>1, <1>2
<1>4. ASSUME NEW i \in 0..(n - 1), i \in S PROVE i + 1 \in S
  <2> DEFINE d == Digit[token[i + 1]]
  <2>1. i + 1 \in 1..n /\ i + 1 \in 0..n /\ (i + 1) - 1 = i
    OBVIOUS
  <2>2. d \in 0..9
    BY <2>1, DigitType
  <2>3. v[i] \in Nat /\ p[i] = IF v[i] <= 100 THEN v[i] ELSE Overrun
    BY <1>4
  <2>4. p[i + 1] = ShiftIn(p[i], d) /\ v[i + 1] = v[i] * 10 + d
    BY <1>1, <1>2, <2>1
  <2> HIDE DEF d
  <2>5. v[i] * 10 + d \in Nat
    BY <2>2, <2>3
  <2>6. ShiftIn(p[i], d) = IF v[i] * 10 + d <= 100 THEN v[i] * 10 + d ELSE Overrun
    BY <2>2, <2>3, ShiftInMeans
  <2>7. QED
    BY <2>1, <2>4, <2>5, <2>6
<1> HIDE DEF S
<1>5. \A i \in 0..n : i \in S
  BY <1>3, <1>4, UpTo
<1>6. n \in S
  BY <1>5
<1>7. v[n] \in Nat /\ p[n] = IF v[n] <= 100 THEN v[n] ELSE Overrun
  BY <1>6 DEF S
<1>8. QED
  BY <1>1, <1>2, <1>7

(* Of numbers up to n there is a greatest one. *)
LEMMA Greatest ==
  ASSUME NEW n \in Nat, NEW T, T \subseteq 1..n, T # {}
  PROVE  \E x \in T : \A y \in T : x >= y
<1> DEFINE U == {x \in 1..n : \A y \in T : x >= y}
<1>1. n \in U
  <2>1. PICK t \in T : t \in 1..n
    OBVIOUS
  <2>2. n \in 1..n
    BY <2>1
  <2>3. QED
    BY <2>2
<1>2. PICK x \in U : \A y \in U : x <= y
  <2>1. U \subseteq Nat /\ U # {}
    BY <1>1
  <2> HIDE DEF U
  <2>2. QED
    BY <2>1, Least
<1>3. x \in 1..n /\ \A y \in T : x >= y
  OBVIOUS
<1>4. SUFFICES ASSUME x \notin T PROVE FALSE
  BY <1>3
<1>5. PICK t \in T : TRUE
  OBVIOUS
<1>6. \A y \in T : y \in 1..n /\ y # x
  BY <1>4
<1>7. x - 1 \in 1..n /\ \A y \in T : x - 1 >= y
  BY <1>3, <1>5, <1>6
<1>8. x - 1 \in U
  BY <1>7
<1>9. QED
  BY <1>2, <1>3, <1>8

(* The text of a payload is from a to b: a first and a last symbol that    *)
(* are not white space, and nothing but white space before and after.      *)
Around(payload, a, b) ==
  /\ a \in 1..Len(payload) /\ b \in 1..Len(payload) /\ a <= b
  /\ payload[a] # Space /\ payload[b] # Space
  /\ \A i \in 1..Len(payload) : i < a \/ i > b => payload[i] = Space

(* There is one such part at most, and Trimmed() finds it. *)
LEMMA AroundUnique ==
  ASSUME NEW A, NEW payload \in Seq(A), NEW a, NEW b, NEW c, NEW d,
         Around(payload, a, b), Around(payload, c, d)
  PROVE  a = c /\ b = d
<1>1. Len(payload) \in Nat
  OBVIOUS
<1>2. QED
  BY <1>1 DEF Around

LEMMA TrimmedIs ==
  ASSUME NEW A, NEW payload \in Seq(A)
  PROVE  \/ Trimmed(payload) = << >> /\ \A i \in 1..Len(payload) : payload[i] = Space
         \/ \E a, b : Around(payload, a, b) /\ Trimmed(payload) = SubSeq(payload, a, b)
<1> DEFINE ink == {i \in DOMAIN payload : payload[i] # Space}
           a == CHOOSE i \in ink : \A j \in ink : i <= j
           b == CHOOSE i \in ink : \A j \in ink : i >= j
<1>1. Trimmed(payload) = IF ink = {} THEN << >> ELSE SubSeq(payload, a, b)
  BY Zenon DEF Trimmed
<1>2. DOMAIN payload = 1..Len(payload) /\ Len(payload) \in Nat
  OBVIOUS
<1>3. CASE ink = {}
  BY <1>1, <1>2, <1>3
<1>4. CASE ink # {}
  <2>1. ink \subseteq 1..Len(payload)
    BY <1>2
  <2>2. a \in ink /\ \A j \in ink : a <= j
    <3>1. ink \subseteq Nat
      BY <2>1, <1>2
    <3> HIDE DEF ink
    <3>2. \E i \in ink : \A j \in ink : i <= j
      BY <1>4, <3>1, Least
    <3>3. QED
      BY <3>2, Zenon
  <2>3. b \in ink /\ \A j \in ink : b >= j
    <3> HIDE DEF ink
    <3>1. \E i \in ink : \A j \in ink : i >= j
      BY <1>2, <1>4, <2>1, Greatest
    <3>2. QED
      BY <3>1, Zenon
  <2> HIDE DEF a, b
  <2>4. a \in 1..Len(payload) /\ b \in 1..Len(payload) /\ a <= b
    BY <2>1, <2>2, <2>3
  <2>5. \A i \in 1..Len(payload) : i < a \/ i > b => i \notin ink
    BY <2>1, <2>2, <2>3, <2>4
  <2>6. Around(payload, a, b)
    BY <1>2, <2>2, <2>3, <2>4, <2>5 DEF Around
  <2>7. QED
    BY <1>1, <1>4, <2>6
<1>5. QED
  BY <1>3, <1>4

(* White space put around a token, and cut off again. *)
Blanks(n) == [i \in 1..n |-> Space]

LEMMA BlanksType ==
  ASSUME NEW A, Space \in A, NEW n \in Nat
  PROVE  Blanks(n) \in Seq(A) /\ Len(Blanks(n)) = n /\ \A i \in 1..n : Blanks(n)[i] = Space
  BY DEF Blanks

(* payload is token with n blanks before it and k blanks after it. *)
IsPadded(A, payload, token, n, k) ==
  /\ payload \in Seq(A) /\ Len(payload) = n + Len(token) + k
  /\ \A i \in 1..Len(token) : payload[n + i] = token[i]
  /\ \A i \in 1..(n + Len(token) + k) :
       i <= n \/ i > n + Len(token) => payload[i] = Space

LEMMA Padded ==
  ASSUME NEW A, Space \in A, NEW token \in Seq(A), NEW n \in Nat, NEW k \in Nat
  PROVE  IsPadded(A, Blanks(n) \o token \o Blanks(k), token, n, k)
<1> DEFINE l == Len(token)
           left == Blanks(n) \o token
           padded == left \o Blanks(k)
<1>1. /\ Blanks(n) \in Seq(A) /\ Len(Blanks(n)) = n /\ \A i \in 1..n : Blanks(n)[i] = Space
      /\ Blanks(k) \in Seq(A) /\ Len(Blanks(k)) = k /\ \A i \in 1..k : Blanks(k)[i] = Space
  BY BlanksType
<1>2. l \in Nat
  OBVIOUS
<1>3. /\ left \in Seq(A) /\ Len(left) = Len(Blanks(n)) + Len(token)
      /\ \A i \in 1..(Len(Blanks(n)) + Len(token)) :
           left[i] = IF i <= Len(Blanks(n)) THEN Blanks(n)[i] ELSE token[i - Len(Blanks(n))]
  BY <1>1, ConcatProperties, Zenon
<1> HIDE DEF left
<1>4. /\ padded \in Seq(A) /\ Len(padded) = Len(left) + Len(Blanks(k))
      /\ \A i \in 1..(Len(left) + Len(Blanks(k))) :
           padded[i] = IF i <= Len(left) THEN left[i] ELSE Blanks(k)[i - Len(left)]
  BY <1>1, <1>3, ConcatProperties, ZenonT(30)
<1> HIDE DEF padded, l
<1>5. Len(left) = n + l /\ Len(padded) = n + l + k
  BY <1>1, <1>3, <1>4 DEF l
<1>6. \A i \in 1..(n + l) : left[i] = IF i <= n THEN Blanks(n)[i] ELSE token[i - n]
  BY <1>1, <1>3 DEF l
<1>7. \A i \in 1..(n + l + k) : padded[i] = IF i <= n + l THEN left[i] ELSE Blanks(k)[i - (n + l)]
  BY <1>1, <1>4, <1>5
<1>8. \A i \in 1..l : padded[n + i] = token[i]
  <2>1. TAKE i \in 1..l
  <2>2. n + i \in 1..(n + l) /\ n + i \in 1..(n + l + k) /\ n + i > n /\ (n + i) - n = i
    BY <1>2
  <2>3. QED
    BY <1>6, <1>7, <2>2
<1>9. \A i \in 1..(n + l + k) : i <= n \/ i > n + l => padded[i] = Space
  <2>1. TAKE i \in 1..(n + l + k)
  <2>2. CASE i <= n
    <3>1. i \in 1..n /\ i \in 1..(n + l) /\ i <= n + l
      BY <1>2, <2>2
    <3>2. QED
      BY <1>1, <1>6, <1>7, <2>2, <3>1
  <2>3. CASE i > n + l
    <3>1. i - (n + l) \in 1..k /\ ~ (i <= n + l)
      BY <1>2, <2>3
    <3>2. QED
      BY <1>1, <1>7, <3>1
  <2>4. QED
    BY <2>2, <2>3
<1>10. QED
  BY <1>4, <1>5, <1>8, <1>9 DEF IsPadded, padded, left, l

(* The symbols of a part are those of the payload. *)
LEMMA Inside ==
  ASSUME NEW A, NEW payload \in Seq(A), NEW a, NEW b, Around(payload, a, b)
  PROVE  /\ SubSeq(payload, a, b) \in Seq(A) /\ Len(SubSeq(payload, a, b)) = b - a + 1
         /\ \A i \in 1..(b - a + 1) : SubSeq(payload, a, b)[i] = payload[a + i - 1]
<1>1. a \in Int /\ b \in Int /\ a <= b /\ \A i \in a..b : payload[i] \in A
  BY DEF Around
<1>2. QED
  BY <1>1, SubSeqProperties

LEMMA CutPadded ==
  ASSUME NEW A, Space \in A, NEW payload \in Seq(A), NEW a, NEW b, Around(payload, a, b)
  PROVE  payload = Blanks(a - 1) \o SubSeq(payload, a, b) \o Blanks(Len(payload) - b)
<1> DEFINE token == SubSeq(payload, a, b)
           l == Len(payload)
           n == a - 1
           k == l - b
           padded == Blanks(n) \o token \o Blanks(k)
<1>1. /\ a \in Nat /\ b \in Nat /\ l \in Nat /\ a >= 1 /\ b <= l /\ a <= b
      /\ n \in Nat /\ k \in Nat
  BY DEF Around
<1>2. /\ token \in Seq(A) /\ Len(token) = b - a + 1
      /\ \A i \in 1..(b - a + 1) : token[i] = payload[a + i - 1]
  BY Inside
<1> HIDE DEF token
<1> HIDE DEF n, k, padded
<1>3. /\ padded \in Seq(A) /\ Len(padded) = n + Len(token) + k
      /\ \A i \in 1..Len(token) : padded[n + i] = token[i]
      /\ \A i \in 1..(n + Len(token) + k) : i <= n \/ i > n + Len(token) => padded[i] = Space
  <2>1. IsPadded(A, padded, token, n, k)
    BY <1>1, <1>2, Padded, Zenon DEF padded
  <2>2. QED
    BY <2>1 DEF IsPadded
<1>4. Len(padded) = l
  BY <1>1, <1>2, <1>3 DEF n, k
<1>5. ASSUME NEW i \in 1..l PROVE payload[i] = padded[i]
  <2>1. CASE i < a \/ i > b
    <3>1. payload[i] = Space
      BY <2>1 DEF Around
    <3>2. i <= n \/ i > n + Len(token)
      BY <1>1, <1>2, <2>1 DEF n
    <3>3. QED
      BY <1>3, <1>4, <3>1, <3>2
  <2>2. CASE ~ (i < a \/ i > b)
    <3>1. PICK j \in 1..Len(token) : j = i - a + 1
      BY <1>1, <1>2, <2>2
    <3>2. n + j = i /\ a + j - 1 = i /\ j \in 1..(b - a + 1)
      BY <1>1, <1>2, <3>1 DEF n
    <3>3. QED
      BY <1>2, <1>3, <3>2
  <2>3. QED
    BY <2>1, <2>2
<1> HIDE DEF l
<1>6. payload = padded
  BY <1>3, <1>4, <1>5, SeqEqual DEF l
<1>7. QED
  BY <1>6 DEF padded, token, l, n, k

LEMMA PaddedTrims ==
  ASSUME NEW A, Space \in A, NEW token \in Seq(A), token # << >>,
         \A i \in 1..Len(token) : token[i] # Space, NEW n \in Nat, NEW k \in Nat,
         NEW payload, payload = Blanks(n) \o token \o Blanks(k)
  PROVE  Trimmed(payload) = token
<1> DEFINE l == Len(token)
<1>1. l \in Nat /\ l >= 1
  OBVIOUS
<1>2. /\ payload \in Seq(A) /\ Len(payload) = n + l + k
      /\ \A i \in 1..l : payload[n + i] = token[i]
      /\ \A i \in 1..(n + l + k) : i <= n \/ i > n + l => payload[i] = Space
  <2>1. IsPadded(A, payload, token, n, k)
    BY Padded, Zenon
  <2>2. QED
    BY <2>1 DEF IsPadded
<1>3. Around(payload, n + 1, n + l)
  <2>1. payload[n + 1] # Space /\ payload[n + l] # Space
    <3>1. 1 \in 1..l /\ l \in 1..l
      BY <1>1
    <3>2. QED
      BY <1>2, <3>1
  <2>2. QED
    BY <1>1, <1>2, <2>1, SMTT(20) DEF Around
<1>4. PICK a, b : Around(payload, a, b) /\ Trimmed(payload) = SubSeq(payload, a, b)
  <2>1. payload[n + 1] # Space /\ n + 1 \in 1..Len(payload)
    BY <1>3 DEF Around
  <2>2. QED
    <3>1. ~ (\A i \in 1..Len(payload) : payload[i] = Space)
      BY <2>1, Zenon
    <3>2. QED
      BY <1>2, <3>1, TrimmedIs, Zenon
<1>5. a = n + 1 /\ b = n + l
  BY <1>2, <1>3, <1>4, AroundUnique
<1> DEFINE cut == SubSeq(payload, n + 1, n + l)
<1>6. /\ cut \in Seq(A) /\ Len(cut) = (n + l) - (n + 1) + 1
      /\ \A i \in 1..((n + l) - (n + 1) + 1) : cut[i] = payload[(n + 1) + i - 1]
  <2>1. payload \in Seq(A) /\ n + 1 \in Nat /\ n + l \in Nat
    BY <1>1, <1>2
  <2>2. QED
    BY ONLY <1>3, <2>1, Inside, SMTT(30)
<1> HIDE DEF cut
<1>7. Len(cut) = l /\ \A i \in 1..l : cut[i] = token[i]
  <2>1. (n + l) - (n + 1) + 1 = l /\ \A i \in 1..l : (n + 1) + i - 1 = n + i
    BY <1>1
  <2>2. QED
    BY <1>2, <1>6, <2>1
<1>8. cut = token
  BY <1>6, <1>7, SeqEqual
<1>9. QED
  BY <1>4, <1>5, <1>8 DEF cut

(* What payloads are made of (MqttAssumption). *)
Symbol == DOMAIN Digit \cup {Space, "up", "down", "stop", "?"}

LEMMA Names ==
  /\ DOMAIN Digit = {"0", "1", "2", "3", "4", "5", "6", "7", "8", "9"}
  /\ DOMAIN Words = {"up", "down", "stop"}
  /\ Words["up"] = MoveToPercent(100) /\ Words["down"] = MoveToPercent(0)
  /\ Words["stop"] = StopCommand
  BY DEF Digit, Words

(* What the table of payloads has a command for. *)
Valid(token) ==
  \/ Len(token) = 1 /\ token[1] \in DOMAIN Words
  \/ IsNumber(token) /\ Number(token) <= 100

(* It has symbols, and none is white space. *)
LEMMA ValidInk ==
  ASSUME NEW token \in Seq(Symbol), Valid(token)
  PROVE  token # << >> /\ \A i \in 1..Len(token) : token[i] # Space
<1>1. DOMAIN token = 1..Len(token)
  OBVIOUS
<1>2. Space \notin DOMAIN Words /\ Space \notin DOMAIN Digit
  BY Names DEF Space
<1>3. CASE Len(token) = 1 /\ token[1] \in DOMAIN Words
  <2>1. \A i \in 1..Len(token) : i = 1
    BY <1>3
  <2>2. QED
    BY <1>2, <1>3, <2>1
<1>4. CASE IsNumber(token)
  BY <1>1, <1>2, <1>4 DEF IsNumber
<1>5. QED
  BY <1>3, <1>4 DEF Valid

(* The tokens of a payload: there is one at most, its trimmed text.       *)
InBlanks(payload, token) ==
  \E n, k \in 0..Len(payload) : payload = Blanks(n) \o token \o Blanks(k)

LEMMA IsToken ==
  ASSUME NEW payload, NEW token
  PROVE  token \in Tokens(payload) <=>
           /\ \E i, j \in DOMAIN payload : token = SubSeq(payload, i, j)
           /\ Valid(token)
           /\ InBlanks(payload, token)
<1> DEFINE parts == {SubSeq(payload, i, j) : i \in DOMAIN payload, j \in DOMAIN payload}
<1>1. Tokens(payload) = {t \in parts : Valid(t) /\ InBlanks(payload, t)}
  BY DEF Tokens, Valid, Blanks, InBlanks
<1>2. token \in parts <=> \E i, j \in DOMAIN payload : token = SubSeq(payload, i, j)
  OBVIOUS
<1> HIDE DEF parts
<1>3. QED
  BY <1>1, <1>2

LEMMA TokensAre ==
  ASSUME NEW payload \in Seq(Symbol)
  PROVE  Tokens(payload) = IF Valid(Trimmed(payload)) THEN {Trimmed(payload)} ELSE {}
<1>1. Space \in Symbol
  BY DEF Symbol
<1>2. Len(payload) \in Nat /\ DOMAIN payload = 1..Len(payload)
  OBVIOUS
<1>4. ASSUME NEW token \in Tokens(payload) PROVE Valid(token) /\ token = Trimmed(payload)
  <2>1. PICK i, j \in DOMAIN payload : token = SubSeq(payload, i, j)
    BY IsToken, Zenon
  <2>2. token \in Seq(Symbol)
    <3>1. i \in Int /\ j \in Int /\ \A m \in i..j : payload[m] \in Symbol
      BY <1>2
    <3>2. SubSeq(payload, i, j) \in Seq(Symbol)
      BY <3>1, SubSeqProperties
    <3>3. QED
      BY <2>1, <3>2
  <2>3. Valid(token)
    BY IsToken, Zenon
  <2>4. PICK n, k \in 0..Len(payload) :
          payload = Blanks(n) \o token \o Blanks(k)
    <3>1. InBlanks(payload, token)
      BY IsToken, Zenon
    <3>2. QED
      BY <3>1 DEF InBlanks
  <2>5. n \in Nat /\ k \in Nat
    BY <1>2
  <2>6. token # << >> /\ \A m \in 1..Len(token) : token[m] # Space
    BY <2>2, <2>3, ValidInk
  <2>7. Trimmed(payload) = token
    BY <1>1, <2>2, <2>4, <2>5, <2>6, PaddedTrims, Zenon
  <2>8. QED
    BY <2>3, <2>7
<1>5. ASSUME Valid(Trimmed(payload)) PROVE Trimmed(payload) \in Tokens(payload)
  <2>1. Trimmed(payload) # << >>
    <3>1. << >> \in Seq(Symbol)
      OBVIOUS
    <3>2. QED
      BY <1>5, <3>1, ValidInk
  <2>2. PICK a, b : Around(payload, a, b) /\ Trimmed(payload) = SubSeq(payload, a, b)
    BY <2>1, TrimmedIs
  <2>3. payload = Blanks(a - 1) \o Trimmed(payload) \o Blanks(Len(payload) - b)
    BY <1>1, <2>2, CutPadded, Zenon
  <2>4. /\ a \in DOMAIN payload /\ b \in DOMAIN payload
        /\ a - 1 \in 0..Len(payload) /\ Len(payload) - b \in 0..Len(payload)
    BY <1>2, <2>2 DEF Around
  <2>5. InBlanks(payload, Trimmed(payload))
    BY <2>3, <2>4, Zenon DEF InBlanks
  <2>6. \E i, j \in DOMAIN payload : Trimmed(payload) = SubSeq(payload, i, j)
    BY <2>2, <2>4, Zenon
  <2>7. QED
    BY <1>5, <2>5, <2>6, IsToken, Zenon
<1>6. QED
  <2>1. CASE Valid(Trimmed(payload))
    BY <1>4, <1>5, <2>1, Zenon
  <2>2. CASE ~ Valid(Trimmed(payload))
    BY <1>4, <2>2, Zenon
  <2>3. QED
    BY <2>1, <2>2

(* The words are tokens of one symbol. *)
LEMMA Singleton ==
  ASSUME NEW token \in Seq(Symbol), NEW x
  PROVE  token = <<x>> <=> Len(token) = 1 /\ token[1] = x
<1>1. ASSUME Len(token) = 1, token[1] = x PROVE token = <<x>>
  <2>1. x \in Symbol
    BY <1>1
  <2>2. <<x>> \in Seq(Symbol) /\ Len(<<x>>) = 1 /\ <<x>>[1] = x
    BY <2>1
  <2>3. QED
    BY <1>1, <2>2, SeqEqual
<1>2. QED
  BY <1>1

LEMMA TrimmedType ==
  ASSUME NEW payload \in Seq(Symbol)
  PROVE  Trimmed(payload) \in Seq(Symbol)
<1>1. CASE Trimmed(payload) = << >>
  BY <1>1
<1>2. CASE \E a, b : Around(payload, a, b) /\ Trimmed(payload) = SubSeq(payload, a, b)
  BY <1>2, Inside
<1>3. QED
  BY <1>1, <1>2, TrimmedIs

LEMMA WordMeans ==
  ASSUME NEW token \in Seq(Symbol), NEW w \in DOMAIN Words, token = <<w>>
  PROVE  Valid(token) /\ Meaning(token) = Words[w]
<1>1. Len(token) = 1 /\ token[1] = w /\ 1 \in DOMAIN token
  BY Singleton
<1>2. ~ IsNumber(token)
  BY <1>1, Names DEF IsNumber
<1>3. QED
  BY <1>1, <1>2 DEF Valid, Meaning

(* What parseCommandPayload() returns is what the table says. *)
LEMMA ParseMeans ==
  ASSUME NEW payload \in Seq(Symbol)
  PROVE  Understood(payload, ParseCommandPayload(payload))
<1> DEFINE token == Trimmed(payload)
           command == ParseCommandPayload(payload)
<1>1. token \in Seq(Symbol)
  BY TrimmedType
<1>2. SUFFICES command = IF Valid(token) THEN Meaning(token) ELSE NoCommand
  <2>1. CASE Valid(token)
    <3>1. Tokens(payload) = {token}
      BY <2>1, TokensAre
    <3>2. QED
      BY <1>2, <2>1, <3>1 DEF Understood
  <2>2. CASE ~ Valid(token)
    <3>1. Tokens(payload) = {}
      BY <2>2, TokensAre
    <3>2. QED
      BY <1>2, <2>2, <3>1 DEF Understood
  <2>3. QED
    BY <2>1, <2>2
<1> DEFINE other == IF (\E i \in DOMAIN token : token[i] \notin DOMAIN Digit) \/ PercentOf(token) > 100
                    THEN NoCommand ELSE MoveToPercent(PercentOf(token))
<1>3. command = CASE token = << >>        -> NoCommand
                  [] token = <<"up">>     -> MoveToPercent(100)
                  [] token = <<"down">>   -> MoveToPercent(0)
                  [] token = <<"stop">>   -> StopCommand
                  [] OTHER                -> other
  BY DEF ParseCommandPayload
<1> HIDE DEF token, command, other
<1>4. << >> # <<"up">> /\ << >> # <<"down">> /\ << >> # <<"stop">>
      /\ <<"up">> # <<"down">> /\ <<"up">> # <<"stop">> /\ <<"down">> # <<"stop">>
  OBVIOUS
<1>5. CASE token = << >>
  <2>1. command = NoCommand
    BY <1>3, <1>4, <1>5
  <2>2. ~ Valid(token)
    BY <1>1, <1>5, ValidInk
  <2>3. QED
    BY <2>1, <2>2
<1>6. CASE token = <<"up">>
  <2>1. command = MoveToPercent(100)
    BY <1>3, <1>4, <1>6
  <2>2. QED
    BY <1>1, <1>6, <2>1, Names, WordMeans
<1>7. CASE token = <<"down">>
  <2>1. command = MoveToPercent(0)
    BY <1>3, <1>4, <1>7
  <2>2. QED
    BY <1>1, <1>7, <2>1, Names, WordMeans
<1>8. CASE token = <<"stop">>
  <2>1. command = StopCommand
    BY <1>3, <1>4, <1>8
  <2>2. QED
    BY <1>1, <1>8, <2>1, Names, WordMeans
<1>9. CASE token # << >> /\ token # <<"up">> /\ token # <<"down">> /\ token # <<"stop">>
  <2>1. command = other
    BY <1>3, <1>9
  <2>2. DOMAIN token = 1..Len(token) /\ Len(token) \in Nat
    BY <1>1
  <2>3. ~ (Len(token) = 1 /\ token[1] \in DOMAIN Words)
    BY <1>1, <1>9, Singleton, Names
  <2>4. CASE \E i \in DOMAIN token : token[i] \notin DOMAIN Digit
    <3>1. ~ Valid(token)
      BY <2>3, <2>4 DEF Valid, IsNumber
    <3>2. other = NoCommand
      BY <2>4 DEF other
    <3>3. QED
      BY <2>1, <3>1, <3>2
  <2>5. CASE \A i \in DOMAIN token : token[i] \in DOMAIN Digit
    <3>1. IsNumber(token)
      BY <1>9, <2>5 DEF IsNumber
    <3>2. /\ Number(token) \in Nat
          /\ PercentOf(token) = IF Number(token) <= 100 THEN Number(token) ELSE Overrun
      BY <2>2, <2>5, PercentMeans
    <3>3. PercentOf(token) > 100 <=> ~ (Number(token) <= 100)
      BY <3>2, OverrunIs
    <3>4. Valid(token) <=> Number(token) <= 100
      BY <2>3, <3>1 DEF Valid
    <3>5. Meaning(token) = MoveToPercent(Number(token))
      BY <3>1 DEF Meaning
    <3>6. other = IF PercentOf(token) > 100 THEN NoCommand ELSE MoveToPercent(PercentOf(token))
      BY <2>5 DEF other
    <3>7. QED
      BY <2>1, <3>2, <3>3, <3>4, <3>5, <3>6
  <2>6. QED
    BY <2>4, <2>5
<1>10. QED
  BY <1>5, <1>6, <1>7, <1>8, <1>9

-----------------------------------------------------------------------------
(* Only messages set input, and only with what the parser makes of them.   *)
InputInv ==
  input # << >> =>
    \E m \in Messages :
      input = <<m, IF Accepts(m) THEN ParseCommandPayload(m.payload) ELSE NoCommand>>

LEMMA InputMeans == InputInv => CommandsMeant
<1>1. SUFFICES ASSUME NEW m \in Messages, NEW c,
                      c = IF Accepts(m) THEN ParseCommandPayload(m.payload) ELSE NoCommand,
                      input = <<m, c>>
               PROVE  CommandsMeant
  BY DEF InputInv, CommandsMeant
<1>2. m.topic \in {"command", "other"} /\ m.payload \in Seq(Symbol)
  BY MqttAssumption DEF Symbol
<1>3. CASE Accepts(m)
  <2>1. Understood(m.payload, c)
    BY <1>1, <1>2, <1>3, ParseMeans
  <2>2. QED
    BY <1>1, <1>3, <2>1 DEF CommandsMeant, Accepts
<1>4. CASE ~ Accepts(m)
  <2>1. c = NoCommand /\ (m.topic = "other" \/ m.retain \/ ~ m.whole)
    BY <1>1, <1>2, <1>4 DEF Accepts
  <2>2. QED
    BY <1>1, <2>1 DEF CommandsMeant
<1>5. QED
  BY <1>3, <1>4

(* Whatever a delivered message's payload, of any length and in any white   *)
(* space, the command it leaves in the queue is the one the table of        *)
(* payloads gives it: no overflow of the 16 bits reads a large number as a  *)
(* small one, and nothing else is taken for a command (MqttClient's         *)
(* parseCommandPayload() and handleData()).                                 *)
THEOREM CommandsUnderstood == Spec => []CommandsMeant
<1>1. Init => InputInv
  BY DEF Init, MqttInit, InputInv
<1>2. InputInv /\ [Next]_vars => InputInv'
  <2>1. SUFFICES ASSUME InputInv, [Next]_vars PROVE InputInv'
    OBVIOUS
  <2>2. CASE \E m \in Messages : Delivers(m)
    BY <2>2 DEF Delivers, HandleData, InputInv
  <2>3. CASE Restart
    BY <2>3 DEF Restart, MqttReset, InputInv
  <2>4. CASE ~ Restart /\ ~ \E m \in Messages : Delivers(m)
    <3>1. UNCHANGED input
      BY <2>1, <2>4
      DEF Next, AppMain, BootWifi, BootInit, BootStatusTask, BootSetChangeTask, BootStartTask,
          SensorWorks, SensorStuck, BootFails, RecordFaults, Notify, WifiEvents, WifiJoins, WifiLeaves,
          BrokerLeaves, StartsClient, ClientConnects, ClientEvents, ReportsStatus,
          InitClient, CreateStatusTask, SetChangeTask, CreateStartTask, Record, Give, StartTask,
          Connect, FindBroken, HandleEvent, HandleConnected, Subscribe, BuildOnConnect,
          PublishOnConnect, Published, HandleDisconnected, StatusTask, Take, CheckConnected,
          Build, Publish, vars, mqttVars, faultVars
    <3>2. QED
      BY <2>1, <3>1 DEF InputInv
  <2>5. QED
    BY <2>2, <2>3, <2>4
<1>3. QED
  BY <1>1, <1>2, InputMeans, PTL DEF Spec

=============================================================================
