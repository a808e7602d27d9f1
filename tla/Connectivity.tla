---------------------------- MODULE Connectivity ----------------------------
(***************************************************************************)
(* How the Central joins the household: the station (WiFiManager) on the   *)
(* one radio it shares with ESP-NOW, the setup portal                      *)
(* (WiFiProvisioningPortal), the three stores of the flash, and the start  *)
(* of the broker's client (MqttManager::begin()) by two tasks, none of     *)
(* which takes a mutex.                                                    *)
(*                                                                         *)
(* The household, external: every network has one access point, on a       *)
(* channel or nowhere, and it may move.  Delays are not modelled (a timer  *)
(* fires after any time), nor are passwords.  A client that is destroyed   *)
(* by two tasks at once corrupts the heap: destroying is one step here.    *)
(***************************************************************************)
EXTENDS Integers, FiniteSets

CONSTANTS
    Ssids,          \* the networks an installer may choose
    Brokers,        \* the brokers an installer may choose
    Channels,       \* the radio channels
    DefaultChannel, \* KILOWATTS_RADIO_CHANNEL
    MaxMoves,       \* bound on moves of the access points
    MaxRequests,    \* bound on commands and forms (requests)
    MaxFailures     \* bound on failures

None == "NONE"
Nowhere == 0

\* The tasks that start the client.
Starters == {"planner", "watchdog"}

ASSUME ConnectivityAssumption ==
    /\ Channels \subseteq 1 .. 14 /\ DefaultChannel \in Channels
    /\ None \notin Ssids \cup Brokers
    /\ MaxMoves \in Nat /\ MaxRequests \in Nat /\ MaxFailures \in Nat

VARIABLES
    air,            \* where the access point of each network is, external
    steady,         \* the station's access point has not moved since its scan
    flash,          \* WiFiCredentialsStore, RadioChannelStore, MqttCredentialsStore
    radio,          \* the channel of ESP-NOW, and requiredChannel_
    station,        \* WiFiManager, the channel the driver has associated on, and
                    \* whether a new channel could not be saved since the start
    running,        \* start-up is over: the tasks and the console run
    portal,         \* WiFiProvisioningPortal::active_
    restartDue,     \* a restart timer runs
    handle,         \* client_
    started,        \* the clients that have been started and not destroyed
    mqttState,      \* MqttManager::state_
    mqttStarted,
    starter,        \* where each task is in checkMqttStartTrigger()
    missed,         \* a start has met another one, or a change of the broker
    moves, requests, failures

mqttVars == <<handle, started, mqttState, mqttStarted, starter, missed>>
wifiVars == <<radio, station, running, portal, restartDue>>
connectivityVars == <<air, steady, flash, wifiVars, mqttVars, moves, requests, failures>>

NewStation(ssid, state) ==
    [ssid |-> ssid, state |-> state, on |-> Nowhere, timer |-> FALSE, unsaved |-> FALSE]
NoClient == [by |-> None, broker |-> None]
Unstarted == [at |-> "idle", broker |-> None]

isConnected == station.state = "CONNECTED_WITH_IP"

Failure == failures < MaxFailures /\ failures' = failures + 1

\* A command on the console, over MQTT or through the portal's form.
Command == running /\ requests < MaxRequests /\ requests' = requests + 1

(***************************************************************************)
(* The three stores, and the portal.                                       *)
(***************************************************************************)

EmptyFlash == [wifi |-> None, channel |-> Nowhere, broker |-> None]

\* save() and clear() of WiFiCredentialsStore, RadioChannelStore and
\* MqttCredentialsStore.
WithWifi(f, ssid) == [f EXCEPT !.wifi = ssid]
WithChannel(f, channel) == [f EXCEPT !.channel = channel]
WithBroker(f, broker) == [f EXCEPT !.broker = broker]

\* WiFiProvisioningPortal::begin(), which may fail, and end().
PortalBegins ==
    \/ portal' = TRUE /\ UNCHANGED failures
    \/ Failure /\ UNCHANGED portal

PortalEnds == portal' = FALSE

(***************************************************************************)
(* Start-up and restarts.                                                  *)
(***************************************************************************)

\* applyRadioChannelOverride().
RadioChannel(f) == IF f.channel # Nowhere THEN f.channel ELSE DefaultChannel

\* What the station does first: WiFiManager::begin() when there are credentials.
StationOf(f) ==
    NewStation(f.wifi, IF f.wifi = None THEN "DISCONNECTED" ELSE "SCANNING")

\* setRequiredChannel() of the station, and setChannel() of ESP-NOW.
setRequiredChannel(channel) == radio' = channel

\* esp_restart(), and start-up with the flash as it then is.
Restart(f) ==
    /\ flash' = f
    /\ setRequiredChannel(RadioChannel(f))
    /\ station' = StationOf(f)
    /\ running' = (f.wifi = None)
    /\ \E opened \in {FALSE} \cup {f.wifi = None} : portal' = opened
    /\ restartDue' = FALSE
    /\ handle' = NoClient /\ started' = {} /\ mqttState' = "DISCONNECTED"
    /\ mqttStarted' = FALSE /\ starter' = [t \in Starters |-> Unstarted] /\ missed' = FALSE

\* The Central leaves the factory with an empty flash.
ConnectivityInit ==
    /\ air \in [Ssids -> Channels \cup {Nowhere}]
    /\ steady = FALSE
    /\ flash = EmptyFlash /\ radio = RadioChannel(EmptyFlash)
    /\ station = StationOf(EmptyFlash) /\ running = TRUE /\ portal \in BOOLEAN /\ restartDue = FALSE
    /\ handle = NoClient /\ started = {} /\ mqttState = "DISCONNECTED"
    /\ mqttStarted = FALSE /\ starter = [t \in Starters |-> Unstarted] /\ missed = FALSE
    /\ moves = 0 /\ requests = 0 /\ failures = 0

\* centralRestartTimer, and the restartTimer of the portal.
RestartTimer ==
    /\ restartDue
    /\ Restart(flash)
    /\ UNCHANGED <<air, steady, moves, requests, failures>>

CentralPowerCut ==
    /\ Failure
    /\ Restart(flash)
    /\ UNCHANGED <<air, steady, moves, requests>>

(***************************************************************************)
(* The station.                                                            *)
(***************************************************************************)

\* Mutant of Disconnected: no further attempt is planned.
DisconnectedForGood(s) == [s EXCEPT !.state = "DISCONNECTED", !.on = Nowhere]

\* onStationDisconnected(): the timer is set in any case.
Disconnected(s) == [s EXCEPT !.state = "DISCONNECTED", !.on = Nowhere, !.timer = TRUE]

\* reconnectTimer: verifyChannelAndConnect() starts its scan.
ReconnectTimer ==
    /\ station.timer
    /\ station' = [station EXCEPT !.state = "SCANNING", !.timer = FALSE]
    /\ UNCHANGED <<air, steady, flash, radio, running, portal, restartDue, mqttVars,
                   moves, requests, failures>>

\* The scan does not find the network, or cannot be made.
ScanFindsNothing ==
    /\ station.state = "SCANNING"
    /\ \/ air[station.ssid] = Nowhere /\ UNCHANGED failures
       \/ Failure
    /\ station' = Disconnected(station)
    /\ running' = TRUE
    /\ UNCHANGED <<air, steady, flash, radio, portal, restartDue, mqttVars, moves, requests>>

\* Mutant of OnRadio: the channel that was found is not compared.
OnAnyChannel(c) == c # Nowhere

OnRadio(c) == c = radio

\* The network is found on another channel: the Central restarts on that
\* one.  When it cannot be saved, nothing more is done.
ScanFindsOtherChannel ==
    /\ station.state = "SCANNING"
    /\ air[station.ssid] # Nowhere /\ ~OnRadio(air[station.ssid])
    /\ \/ /\ Restart(WithChannel(flash, air[station.ssid]))
          /\ UNCHANGED <<air, steady, moves, requests, failures>>
       \/ /\ Failure
          /\ station' = [station EXCEPT !.state = "DISCONNECTED", !.unsaved = TRUE]
          /\ running' = TRUE
          /\ UNCHANGED <<air, steady, flash, radio, portal, restartDue, mqttVars,
                         moves, requests>>

\* The network is found on the radio's channel: esp_wifi_connect().
ScanFindsNetwork ==
    /\ station.state = "SCANNING"
    /\ OnRadio(air[station.ssid])
    /\ \/ station' = [station EXCEPT !.state = "CONNECTING"] /\ UNCHANGED failures
       \/ Failure /\ station' = Disconnected(station)
    /\ steady' = TRUE
    /\ running' = TRUE
    /\ UNCHANGED <<air, flash, radio, portal, restartDue, mqttVars, moves, requests>>

\* WIFI_EVENT_STA_CONNECTED: the channel asked for is but the driver's
\* first guess, and it follows an access point that has moved.
StationConnected ==
    /\ station.state = "CONNECTING"
    /\ air[station.ssid] # Nowhere
    /\ station' = [station EXCEPT !.state = "CONNECTED_AWAITING_IP", !.on = air[station.ssid]]
    /\ UNCHANGED <<air, steady, flash, radio, running, portal, restartDue, mqttVars,
                   moves, requests, failures>>

GotIp ==
    /\ station.state = "CONNECTED_AWAITING_IP"
    /\ station' = [station EXCEPT !.state = "CONNECTED_WITH_IP"]
    /\ UNCHANGED <<air, steady, flash, radio, running, portal, restartDue, mqttVars,
                   moves, requests, failures>>

\* The link cannot go on, or cannot come about.
LinkLost ==
    IF station.state = "CONNECTING" THEN air[station.ssid] = Nowhere
    ELSE air[station.ssid] # station.on

\* WIFI_EVENT_STA_DISCONNECTED: the access point is gone, or the link fails.
StationDisconnected ==
    /\ station.state \in {"CONNECTING", "CONNECTED_AWAITING_IP", "CONNECTED_WITH_IP"}
    /\ \/ LinkLost /\ UNCHANGED failures
       \/ Failure
    /\ station' = Disconnected(station)
    /\ UNCHANGED <<air, steady, flash, radio, running, portal, restartDue, mqttVars,
                   moves, requests>>

AccessPointMoves ==
    /\ moves < MaxMoves /\ moves' = moves + 1
    /\ \E s \in Ssids, c \in Channels \cup {Nowhere} :
          /\ c # air[s]
          /\ air' = [air EXCEPT ![s] = c]
          /\ steady' = (steady /\ s # station.ssid)
    /\ UNCHANGED <<flash, wifiVars, mqttVars, requests, failures>>

(***************************************************************************)
(* The portal, and the commands that set up the network.                   *)
(***************************************************************************)

\* consoleNetwork(), SETUP.  WiFiProvisioningPortal::begin() may fail.
setupWifi ==
    /\ Command
    /\ PortalBegins
    /\ UNCHANGED <<air, steady, flash, radio, station, running, restartDue, mqttVars, moves>>

\* Mutant of PortalNeeded: it looks at the network the station was begun with.
PortalNeededAtStart == station.ssid = None

PortalNeeded == flash.wifi = None

\* checkWiFiProvisioningTrigger(), of the watchdog.
closePortal ==
    /\ starter["watchdog"] = Unstarted
    /\ running /\ isConnected /\ portal
    /\ PortalEnds
    /\ UNCHANGED <<air, steady, flash, radio, station, running, restartDue, mqttVars,
                   moves, requests, failures>>

openPortal ==
    /\ starter["watchdog"] = Unstarted
    /\ running /\ ~isConnected /\ ~portal
    /\ PortalNeeded
    /\ PortalBegins
    /\ UNCHANGED <<air, steady, flash, radio, station, running, restartDue, mqttVars,
                   moves, requests>>

\* handlePostSave(): a blank broker leaves the stored one, and either part
\* may be rejected or fail to be written.  Only the network's part leads
\* to a restart.
handlePostSave ==
    /\ portal /\ Command
    /\ \E s \in Ssids, b \in Brokers \cup {None}, wifiSaved, mqttSaved \in BOOLEAN :
          /\ LET f == IF wifiSaved THEN WithWifi(flash, s) ELSE flash
             IN  flash' = IF mqttSaved /\ b # None THEN WithBroker(f, b) ELSE f
          /\ restartDue' = (restartDue \/ wifiSaved)
          /\ missed' = (missed \/ flash'.broker # flash.broker)
    /\ UNCHANGED <<air, steady, radio, station, running, portal, handle, started,
                   mqttState, mqttStarted, starter, moves, failures>>

\* findChannelForSsid(): a connected station knows its own network's channel
\* only, another one scans for it.
FoundChannels(s) ==
    IF isConnected THEN IF s = station.ssid THEN {station.on} ELSE {}
    ELSE {air[s]} \ {Nowhere}

\* consoleNetwork(), SET of the Wi-Fi: the channel is saved when it is found.
\* SET_CHANNEL, which would save a given channel, is a request that no code
\* makes: CentralConsole::wifi() has no command for it.
setWifi ==
    /\ Command
    /\ \E s \in Ssids, c \in Channels \cup {flash.channel} :
          /\ c \in FoundChannels(s) \cup {flash.channel}
          /\ flash' = WithChannel(WithWifi(flash, s), c)
    /\ UNCHANGED <<air, steady, wifiVars, mqttVars, moves, failures>>

clearWifi ==
    /\ Command
    /\ flash' = WithWifi(flash, None)
    /\ UNCHANGED <<air, steady, wifiVars, mqttVars, moves, failures>>

MeetsStart == \E t \in Starters : starter[t] # Unstarted

\* Mutant of setMqtt: the client is taken to be started already.
setMqttOnly ==
    /\ Command
    /\ \E b \in Brokers : flash' = WithBroker(flash, b)
    /\ missed' = (missed \/ MeetsStart)
    /\ UNCHANGED <<air, steady, wifiVars, handle, started, mqttState, mqttStarted, starter,
                   moves, failures>>

\* consoleNetwork(), SET of the broker, in the midst of a start or not.
setMqtt ==
    /\ Command
    /\ \E b \in Brokers : flash' = WithBroker(flash, b)
    /\ mqttStarted' = FALSE
    /\ missed' = (missed \/ MeetsStart)
    /\ UNCHANGED <<air, steady, wifiVars, handle, started, mqttState, starter, moves, failures>>

clearMqtt ==
    /\ Command
    /\ flash' = WithBroker(flash, None)
    /\ mqttStarted' = FALSE
    /\ missed' = (missed \/ MeetsStart)
    /\ UNCHANGED <<air, steady, wifiVars, handle, started, mqttState, starter, moves, failures>>

\* REBOOT_CENTRAL.
rebootCentral ==
    /\ Command
    /\ restartDue' = TRUE
    /\ UNCHANGED <<air, steady, flash, radio, station, running, portal, mqttVars, moves, failures>>

\* FACTORY_RESET_CENTRAL: the whole flash is erased.
factoryResetCentral ==
    /\ Command
    /\ Restart(EmptyFlash)
    /\ UNCHANGED <<air, steady, moves, failures>>

\* The console command `system`; MQTT asks for the same.
system == rebootCentral \/ factoryResetCentral

(***************************************************************************)
(* The client of the broker.                                               *)
(***************************************************************************)

Handle(t) == [by |-> t, broker |-> starter[t].broker]

GoesTo(t, at) == starter' = [starter EXCEPT ![t].at = at]

\* checkMqttStartTrigger(), up to begin().
checkMqttStartTrigger(t) ==
    /\ running /\ starter[t] = Unstarted
    /\ ~mqttStarted /\ isConnected /\ flash.broker # None
    /\ starter' = [starter EXCEPT ![t] = [at |-> "destroy", broker |-> flash.broker]]
    /\ missed' = (missed \/ MeetsStart)
    /\ UNCHANGED <<air, steady, flash, wifiVars, handle, started, mqttState, mqttStarted,
                   moves, requests, failures>>

\* begin(): the client of an earlier start is stopped and destroyed.
destroyClient(t) ==
    /\ starter[t].at = "destroy"
    /\ started' = started \ {handle}
    /\ handle' = NoClient
    /\ GoesTo(t, "create")
    /\ UNCHANGED <<air, steady, flash, wifiVars, mqttState, mqttStarted, missed,
                   moves, requests, failures>>

\* begin(): esp_mqtt_client_init() and the registration of the handler.
createClient(t) ==
    /\ starter[t].at = "create"
    /\ \/ handle' = Handle(t) /\ GoesTo(t, "start") /\ UNCHANGED failures
       \/ Failure /\ handle' = NoClient /\ starter' = [starter EXCEPT ![t] = Unstarted]
    /\ UNCHANGED <<air, steady, flash, wifiVars, started, mqttState, mqttStarted, missed,
                   moves, requests>>

\* Mutant of startFailed: a failed start is not told from a good one.
startFails(t) ==
    /\ mqttState' = "DISCONNECTED"
    /\ started' = started \ {handle} /\ handle' = NoClient
    /\ GoesTo(t, "done")

\* begin(): a start that fails destroys the client.
startFailed(t) ==
    /\ mqttState' = "DISCONNECTED"
    /\ started' = started \ {handle} /\ handle' = NoClient
    /\ starter' = [starter EXCEPT ![t] = Unstarted]

\* begin(): esp_mqtt_client_start() of whatever client_ is by now; it
\* refuses one that has been started.
startClient(t) ==
    /\ starter[t].at = "start"
    /\ \/ /\ handle # NoClient /\ handle \notin started
          /\ started' = started \cup {handle}
          /\ mqttState' = "CONNECTING"
          /\ GoesTo(t, "done")
          /\ UNCHANGED <<handle, failures>>
       \/ /\ handle = NoClient \/ handle \in started
          /\ startFailed(t)
          /\ UNCHANGED failures
       \/ Failure /\ startFailed(t)
    /\ UNCHANGED <<air, steady, flash, wifiVars, mqttStarted, missed, moves, requests>>

noteStarted(t) ==
    /\ starter[t].at = "done"
    /\ mqttStarted' = TRUE
    /\ starter' = [starter EXCEPT ![t] = Unstarted]
    /\ UNCHANGED <<air, steady, flash, wifiVars, handle, started, mqttState, missed,
                   moves, requests, failures>>

\* onConnected(): a client that runs connects again and again by itself.
ClientConnected ==
    /\ started # {} /\ isConnected /\ mqttState # "CONNECTED"
    /\ mqttState' = "CONNECTED"
    /\ UNCHANGED <<air, steady, flash, wifiVars, handle, started, mqttStarted, starter,
                   missed, moves, requests, failures>>

\* onDisconnected(), also of an attempt that failed.
ClientDisconnected ==
    /\ started # {} /\ mqttState # "DISCONNECTED"
    /\ \/ ~isConnected /\ UNCHANGED failures
       \/ Failure
    /\ mqttState' = "DISCONNECTED"
    /\ UNCHANGED <<air, steady, flash, wifiVars, handle, started, mqttStarted, starter,
                   missed, moves, requests>>

(***************************************************************************)
(* The specification.                                                      *)
(***************************************************************************)

Station == ReconnectTimer \/ ScanFindsNothing \/ ScanFindsOtherChannel
           \/ ScanFindsNetwork \/ StationConnected \/ GotIp \/ StationDisconnected

Start(t) == checkMqttStartTrigger(t) \/ destroyClient(t) \/ createClient(t)
            \/ startClient(t) \/ noteStarted(t)

\* checkWiFiProvisioningTrigger(), and a start of the client if need be.
watchdogTask == closePortal \/ openPortal \/ Start("watchdog")

\* A planning cycle comes after each check for the client's start.
optimizationTask == Start("planner")

ConnectivityNext ==
    \/ RestartTimer \/ CentralPowerCut
    \/ Station
    \/ AccessPointMoves
    \/ setupWifi \/ handlePostSave
    \/ setWifi \/ clearWifi \/ setMqtt \/ clearMqtt \/ system
    \/ watchdogTask \/ optimizationTask
    \/ ClientConnected \/ ClientDisconnected

ConnectivitySpec == ConnectivityInit /\ [][ConnectivityNext]_connectivityVars

\* The timers fire, the driver and the client answer, and the watchdog and
\* the planner run again and again.
ConnectivityFairSpec ==
    /\ ConnectivitySpec
    /\ WF_connectivityVars(RestartTimer) /\ WF_connectivityVars(Station)
    /\ WF_connectivityVars(closePortal) /\ WF_connectivityVars(openPortal)
    /\ \A t \in Starters : WF_connectivityVars(Start(t))
    /\ WF_connectivityVars(ClientConnected)
    /\ WF_connectivityVars(ClientDisconnected /\ ~isConnected)

(***************************************************************************)
(* Properties.                                                             *)
(***************************************************************************)

Handles == [by : Starters, broker : Brokers]

\* Every variable keeps its type.
ConnectivityTypeOK ==
    /\ air \in [Ssids -> Channels \cup {Nowhere}] /\ steady \in BOOLEAN
    /\ flash \in [wifi : Ssids \cup {None}, channel : Channels \cup {Nowhere},
                  broker : Brokers \cup {None}]
    /\ radio \in Channels
    /\ station \in [ssid : Ssids \cup {None},
                    state : {"DISCONNECTED", "SCANNING", "CONNECTING",
                             "CONNECTED_AWAITING_IP", "CONNECTED_WITH_IP"},
                    on : Channels \cup {Nowhere}, timer : BOOLEAN, unsaved : BOOLEAN]
    /\ station.timer => station.state = "DISCONNECTED"
    /\ running \in BOOLEAN /\ portal \in BOOLEAN /\ restartDue \in BOOLEAN
    /\ handle \in Handles \cup {NoClient} /\ started \subseteq Handles
    /\ mqttState \in {"DISCONNECTED", "CONNECTING", "CONNECTED"}
    /\ mqttStarted \in BOOLEAN /\ missed \in BOOLEAN
    /\ starter \in [Starters -> [at : {"idle", "destroy", "create", "start", "done"},
                                broker : Brokers \cup {None}]]
    /\ moves \in 0 .. MaxMoves /\ requests \in 0 .. MaxRequests /\ failures \in 0 .. MaxFailures

\* A connected station is on the channel of ESP-NOW, unless its access point
\* has moved since the scan: verifyChannelAndConnect() looks before it connects,
\* and nothing looks again when the driver has associated.
SharedChannel == isConnected /\ steady => station.on = radio

\* mqttStarted is what keeps both tasks from another start: it says that the
\* client runs, and with the stored broker, unless a start has met another
\* one or a change of the broker, or a form's broker outlived its rejection:
\* nothing is promised about two starts that meet, which no mutex prevents.
StartedMeansClient ==
    mqttStarted /\ ~missed => handle \in started /\ handle.broker = flash.broker

\* A station whose network stays on the air comes to be connected, however
\* it has moved before: backoff, scan, the change of the channel and the
\* restart lead there.  Only a channel that could not be saved ends the
\* attempts, until the next restart.  (lib/WiFiManager/README.md says that a
\* network on another channel is refused outright until the access point is
\* reconfigured; verifyChannelAndConnect() saves that channel and restarts.)
StationConnects ==
    \A s \in Ssids :
        <>[](station.ssid = s /\ air[s] # Nowhere)
            => <>[]isConnected \/ <>[](station.unsaved)

\* Without credentials an installer finds the portal open, also when they
\* are cleared while the station runs: checkWiFiProvisioningTrigger().
PortalOpens == <>[](flash.wifi = None /\ ~isConnected) => <>[]portal

\* While the station stays connected, the Central comes to be at the broker
\* that is stored, a changed one without a restart: checkMqttStartTrigger().
BrokerReached ==
    <>[](isConnected /\ flash.broker # None /\ ~missed)
        => <>[](mqttState = "CONNECTED" /\ handle \in started /\ handle.broker = flash.broker)
=============================================================================
