-------------------------------- MODULE Wifi --------------------------------
(***************************************************************************)
(* components/wifi_app/wifi_app.c: the state of the station and the steps  *)
(* that the console task and the event task make on it.  wifi_app_join is  *)
(* four calls; the event task runs wifi_evt between any two of them.       *)
(*                                                                         *)
(* The driver is external.  It takes one network at a time: a call to      *)
(* connect is refused while it connects or is connected, or without a      *)
(* network; a new configuration is refused while it connects, and may be   *)
(* for reasons of its own (a password too short, flash).  It keeps the     *)
(* configuration in flash, and tells of a lost connection by an event.     *)
(* The events are a number of each kind, for their order makes no          *)
(* difference to wifi_evt; those that it only logs (connected, got an      *)
(* address) are left out.                                                  *)
(*                                                                         *)
(* An operator named X_Something is a plausible mistake in X.              *)
(***************************************************************************)
EXTENDS Naturals

CONSTANTS
  Networks,      \* the names that can be typed
  NoNetwork,     \* not one of them
  LongNames,     \* those of 32 bytes, one more than the copy takes
  InRange,       \* the networks whose access points answer
  EngineMayFail, \* a step of the initialisation may fail
  ConfigMayFail, \* the driver may refuse a configuration
  EventQueue     \* bound: the events of one kind that fit into the queue

ASSUME NetworksAssumption == LongNames \subseteq Networks /\ NoNetwork \notin Networks
ASSUME ConfigAssumption == ConfigMayFail \in BOOLEAN
ASSUME QueueAssumption == EventQueue \in Nat \ {0}

VARIABLES
  s_wifi_started,
  s_join_requested,
  engine,     \* the driver: not made, "dead", "deaf" (no handler), or "up"
  config,     \* the network it is configured for, in flash
  link,       \* its connection
  target,     \* the network of that connection
  events,     \* what the event task has not handled yet
  asked,      \* the network typed last
  joined,     \* history: the networks typed since the board started
  unreplaced  \* history: those not typed that a refused configuration has left

driverVars == <<link, target, events>>
askVars    == <<asked, joined, unreplaced>>
wifiVars   == <<s_wifi_started, s_join_requested, engine, config, driverVars, askVars>>

Event == {"start", "disconnected"}

\* strncpy with the size of the field less one.
Copied(ssid) == IF ssid \in LongNames THEN [cut |-> ssid] ELSE ssid

Name == Networks \cup {Copied(n) : n \in Networks}

Typed == {Copied(n) : n \in joined}

WifiTypeOK ==
  /\ s_wifi_started \in BOOLEAN
  /\ s_join_requested \in BOOLEAN
  /\ engine \in {"off", "dead", "deaf", "up"}
  /\ config \in Name \cup {NoNetwork}
  /\ link \in {"idle", "connecting", "connected"}
  /\ target \in Name \cup {NoNetwork}
  /\ events \in [Event -> 0..EventQueue]
  /\ asked \in Networks \cup {NoNetwork}
  /\ joined \subseteq Networks
  /\ unreplaced \subseteq Name \cup {NoNetwork}

WifiInit ==
  /\ s_wifi_started = FALSE /\ s_join_requested = FALSE
  /\ engine = "off" /\ config \in Name \cup {NoNetwork}
  /\ link = "idle" /\ target = NoNetwork
  /\ events = [e \in Event |-> 0]
  /\ asked = NoNetwork /\ joined = {} /\ unreplaced = {}

\* Flash keeps the configuration.
WifiRestart ==
  /\ s_wifi_started' = FALSE /\ s_join_requested' = FALSE
  /\ engine' = "off"
  /\ link' = "idle" /\ target' = NoNetwork
  /\ events' = [e \in Event |-> 0]
  /\ asked' = NoNetwork /\ joined' = {} /\ unreplaced' = {}
  /\ UNCHANGED config

-----------------------------------------------------------------------------
\* The driver.
Works == engine \in {"deaf", "up"}

\* Mistake: there is always room.
Post_NoRoom(e) == events' = [events EXCEPT ![e] = @ + 1]

\* It waits for room in the queue; without a handler the event goes nowhere.
Post(e) ==
  IF engine = "up"
  THEN /\ events[e] < EventQueue
       /\ events' = [events EXCEPT ![e] = @ + 1]
  ELSE UNCHANGED events

\* The connection, or the attempt at one, is over.
Unlink ==
  /\ link' = "idle" /\ target' = NoNetwork
  /\ Post("disconnected")

esp_wifi_disconnect ==
  IF Works /\ link # "idle" THEN Unlink ELSE UNCHANGED driverVars

CanConfigure == Works /\ link # "connecting"

esp_wifi_set_config(c) ==
  \/ CanConfigure /\ config' = c /\ UNCHANGED unreplaced
  \/ ~CanConfigure /\ UNCHANGED <<config, unreplaced>>
  \/ /\ CanConfigure /\ ConfigMayFail
     /\ unreplaced' = unreplaced \cup ({config} \ Typed)
     /\ UNCHANGED config

CanConnect == Works /\ link = "idle" /\ config # NoNetwork

esp_wifi_connect ==
  /\ link' = IF CanConnect THEN "connecting" ELSE link
  /\ target' = IF CanConnect THEN config ELSE target

\* An attempt succeeds only where the access point answers, and may fail anywhere.
Associates ==
  /\ link = "connecting" /\ target \in InRange
  /\ link' = "connected"
  /\ UNCHANGED <<s_wifi_started, s_join_requested, engine, config, target,
                 events, askVars>>

DropsOut ==
  /\ link # "idle"
  /\ Unlink
  /\ UNCHANGED <<s_wifi_started, s_join_requested, engine, config, askVars>>

-----------------------------------------------------------------------------
\* wifi_evt, in the event task.  Between its reading of the flag and its call
\* the flag can only become true.
Handled(e) ==
  /\ events[e] > 0
  /\ events' = [events EXCEPT ![e] = @ - 1]
  /\ UNCHANGED <<s_wifi_started, s_join_requested, engine, config, askVars>>

\* Mistake: the station connects as soon as it is started.
HandleStart_Connects == Handled("start") /\ esp_wifi_connect

HandleStart == Handled("start") /\ UNCHANGED <<link, target>>

\* Mistake: it leaves the reconnecting to the user.
HandleDisconnected_LogsOnly == Handled("disconnected") /\ UNCHANGED <<link, target>>

HandleDisconnected ==
  /\ Handled("disconnected")
  /\ IF s_join_requested THEN esp_wifi_connect ELSE UNCHANGED <<link, target>>

-----------------------------------------------------------------------------
\* wifi_app_init_once; no result of its steps is looked at.
InitOnce ==
  IF s_wifi_started
  THEN UNCHANGED <<s_wifi_started, engine, events>>
  ELSE /\ s_wifi_started' = TRUE
       /\ engine' \in {"up"} \cup (IF EngineMayFail THEN {"dead", "deaf"} ELSE {})
       /\ events' = IF engine' = "up" THEN [events EXCEPT !["start"] = 1] ELSE events

\* wifi_app_join: this and four more steps, of which no result is looked at.
JoinBegins(ssid) ==
  /\ InitOnce
  /\ asked' = ssid
  /\ joined' = joined \cup {ssid}
  /\ UNCHANGED <<s_join_requested, config, link, target, unreplaced>>

Disconnects ==
  /\ esp_wifi_disconnect
  /\ UNCHANGED <<s_wifi_started, s_join_requested, engine, config, askVars>>

Configures ==
  /\ esp_wifi_set_config(Copied(asked))
  /\ UNCHANGED <<s_wifi_started, s_join_requested, engine, driverVars, asked, joined>>

Requests ==
  /\ s_join_requested' = TRUE
  /\ UNCHANGED <<s_wifi_started, engine, config, driverVars, askVars>>

Connects ==
  /\ esp_wifi_connect
  /\ UNCHANGED <<s_wifi_started, s_join_requested, engine, config, events, askVars>>

\* wifi_app_scan: a scan is refused while the station connects, as it is
\* without an engine.
ScanBegins ==
  /\ InitOnce
  /\ UNCHANGED <<s_join_requested, config, link, target, askVars>>

ScanTaken == Works /\ link # "connecting"
=============================================================================
