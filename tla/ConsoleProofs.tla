--------------------------- MODULE ConsoleProofs ---------------------------
(***************************************************************************)
(* The safety properties of Console: of the lamp and of the station,       *)
(* whatever fails, whatever is typed, and whenever the power goes.         *)
(***************************************************************************)
EXTENDS Console, TLAPS

Pcs == {"boot", "ready", "save", "commit", "disconnect", "set_config",
        "request", "connect", "scan", "scanning", "fetch"}

\* Flash has a state that is due, and a commit that may be broken off is one of
\* them; the lamp is out until flash is read.
LampInv ==
  /\ LampIsKept
  /\ stored \in due
  /\ pc \in {"save", "commit"} => by = "command"
  /\ pc = "commit" => wanted \in due
  /\ pc = "boot" => by = "nobody" /\ ~lamp

\* The network of a configuration that the station may use was typed, or could
\* not be replaced.
ConfigAsked == config \in Typed \cup unreplaced

WifiInv ==
  /\ pc = "boot" => engine = "off"
  /\ s_wifi_started <=> engine # "off"
  /\ engine = "off" => ~s_join_requested /\ link = "idle"
  /\ pc = "disconnect" \/ Joining => s_wifi_started /\ asked \in joined
  /\ link = "connecting" => target = config
  /\ (s_join_requested \/ pc \in {"request", "connect"}) /\ Works => ConfigAsked
  /\ OnlyAsked
  /\ NeverStranded

IInv == TypeOK /\ LampInv /\ WifiInv

-----------------------------------------------------------------------------
LEMMA InitInv == Init => IInv
<1> SUFFICES ASSUME Init PROVE IInv
  OBVIOUS
<1>1. TypeOK
  <2>1. LampTypeOK
    BY DEF Init, LampInit, LampTypeOK
  <2>2. events \in [Event -> 0..EventQueue]
    BY QueueAssumption DEF Init, WifiInit
  <2>3. s_wifi_started \in BOOLEAN /\ s_join_requested \in BOOLEAN
    BY Zenon DEF Init, WifiInit
  <2>4. WifiTypeOK
    BY <2>2, <2>3 DEF Init, WifiInit, WifiTypeOK
  <2> QED
    BY <2>1, <2>4 DEF Init, TypeOK
<1>2. LampInv
  BY DEF Init, LampInit, LampInv, LampIsKept
<1>3. WifiInv
  BY DEF Init, WifiInit, WifiInv, Works, Joining, OnlyAsked, Typed,
           NeverStranded
<1> QED
  BY <1>1, <1>2, <1>3 DEF IInv

-----------------------------------------------------------------------------
\* What the console does with the lamp, and what it does besides.
LampStep ==
  \/ Restore \/ Restart
  \/ \E on \in BOOLEAN : Switch(on) \/ Pin(on)
  \/ NvsOpens \/ NvsOpenFails \/ NvsCommits \/ NvsCommitFails

WifiStep ==
  \/ \E ssid \in Networks : Join(ssid)
  \/ Scan \/ Fetch
  \/ JoinDisconnects \/ JoinConfigures \/ JoinRequests \/ JoinConnects
  \/ ScanStarts \/ ScanRefused \/ ScanEnds \/ FetchEnds

LEMMA NextSplits == Next => LampStep \/ WifiStep \/ Events \/ Driver
BY Zenon DEF Next, Command, GoesOn, LampStep, WifiStep

LEMMA LampStepLamp ==
  ASSUME LampTypeOK, LampInv, LampStep
  PROVE  LampTypeOK' /\ LampInv' /\ pc' \in Pcs
<1> USE DEF LampTypeOK, LampInv, LampIsKept, lampVars, At, Pcs
<1>1. CASE Restore
  <2>1. pc = "boot" /\ pc' = "ready" /\ by = "nobody" /\ ~lamp /\ stored \in due
    BY <1>1 DEF Restore
  <2>2. CASE LampRestored
    BY <2>1, <2>2 DEF LampRestored
  <2>3. CASE LampNotRestored
    <3>1. UNCHANGED <<lamp, stored, wanted, by, due>>
      BY <2>3, Zenon DEF LampNotRestored
    <3> QED BY <2>1, <3>1
  <2>4. CASE LampErased
    BY <2>1, <2>4 DEF LampErased
  <2> QED BY <1>1, <2>2, <2>3, <2>4, Zenon DEF Restore
<1>2. CASE Restart
  BY <1>2, Zenon DEF Restart, LampRestart
<1>3. ASSUME NEW on \in BOOLEAN, Switch(on)
      PROVE  LampTypeOK' /\ LampInv' /\ pc' \in Pcs
  BY <1>3 DEF Switch, LedSet
<1>4. ASSUME NEW on \in BOOLEAN, Pin(on)
      PROVE  LampTypeOK' /\ LampInv' /\ pc' \in Pcs
  BY <1>4 DEF Pin, Probe
<1>5. CASE NvsOpens \/ NvsOpenFails
  BY <1>5 DEF NvsOpens, SaveBegins, NvsOpenFails
<1>6. CASE NvsCommits
  BY <1>6 DEF NvsCommits, Commits
<1>7. CASE NvsCommitFails
  BY <1>7 DEF NvsCommitFails, CommitFails
<1> QED
  BY <1>1, <1>2, <1>3, <1>4, <1>5, <1>6, <1>7, Zenon DEF LampStep

LEMMA OtherStepLamp ==
  ASSUME LampTypeOK, LampInv, pc \in Pcs,
         WifiStep \/ Events \/ Driver \/ UNCHANGED vars
  PROVE  LampTypeOK' /\ LampInv' /\ pc' \in Pcs
<1>1. UNCHANGED lampVars
  BY Zenon DEF WifiStep, Events, Driver, ConsoleIdles, vars, Join, Scan, Fetch,
     JoinDisconnects, JoinConfigures, JoinRequests, JoinConnects, ScanStarts,
     ScanRefused, ScanEnds, FetchEnds
<1>2. \/ pc' = pc
      \/ pc # "boot" /\ pc' \in Pcs \ {"boot", "save", "commit"}
  <2>1. WifiStep => pc # "boot" /\ pc' \in Pcs \ {"boot", "save", "commit"}
    BY DEF WifiStep, Join, Scan, Fetch, JoinDisconnects, JoinConfigures,
       JoinRequests, JoinConnects, ScanStarts, ScanRefused, ScanEnds, FetchEnds,
       At, Pcs
  <2> QED
    BY <2>1, Zenon DEF Events, Driver, ConsoleIdles, vars
<1> QED
  BY <1>1, <1>2 DEF lampVars, LampTypeOK, LampInv, LampIsKept, Pcs

-----------------------------------------------------------------------------
\* The parts of the driver, each with what it may disturb.
LEMMA PostResult ==
  ASSUME WifiTypeOK, NEW e \in Event, Post(e)
  PROVE  /\ events' \in [Event -> 0..EventQueue]
         /\ engine = "up" => events'[e] > 0
         /\ engine = "up" =>
              \A d \in Event : d # e => events'[d] = events[d]
<1>1. CASE engine = "up"
  <2>1. events[e] \in 0..EventQueue /\ EventQueue \in Nat
    BY QueueAssumption DEF WifiTypeOK
  <2> QED
    BY <1>1, <2>1 DEF Post, WifiTypeOK
<1>2. CASE engine # "up"
  BY <1>2 DEF Post, WifiTypeOK
<1> QED
  BY <1>1, <1>2

LEMMA ConnectResult ==
  ASSUME WifiTypeOK, WifiInv, esp_wifi_connect,
         UNCHANGED <<joined, unreplaced, config>>, Works => ConfigAsked
  PROVE  /\ link' \in {"idle", "connecting", "connected"}
         /\ target' \in Name \cup {NoNetwork}
         /\ link' = "connecting" => target' = config
         /\ OnlyAsked'
         /\ Works /\ config # NoNetwork => link' # "idle"
<1>1. CASE CanConnect
  BY <1>1 DEF esp_wifi_connect, CanConnect, WifiTypeOK, OnlyAsked, ConfigAsked, Typed
<1>2. CASE ~CanConnect
  BY <1>2 DEF esp_wifi_connect, CanConnect, WifiTypeOK, WifiInv, OnlyAsked, Typed
<1> QED
  BY <1>1, <1>2

LEMMA InitOnceResult ==
  ASSUME WifiTypeOK, WifiInv, InitOnce
  PROVE  /\ s_wifi_started' = TRUE
         /\ engine' \in {"dead", "deaf", "up"}
         /\ events' \in [Event -> 0..EventQueue]
         /\ s_join_requested => UNCHANGED <<engine, events>>
<1>1. CASE s_wifi_started
  BY <1>1 DEF InitOnce, WifiInv, WifiTypeOK
<1>2. CASE ~s_wifi_started
  <2>1. /\ s_wifi_started' = TRUE
        /\ engine' \in {"dead", "deaf", "up"}
        /\ ~s_join_requested
    BY <1>2 DEF InitOnce, WifiInv
  <2>2. events' \in [Event -> 0..EventQueue]
    BY <1>2, QueueAssumption DEF InitOnce, WifiTypeOK, Event
  <2> QED
    BY <2>1, <2>2
<1> QED
  BY <1>1, <1>2

LEMMA UnlinkStep ==
  ASSUME WifiTypeOK, WifiInv, Unlink,
         UNCHANGED <<s_wifi_started, s_join_requested, engine, config, askVars>>
  PROVE  /\ WifiTypeOK' /\ OnlyAsked' /\ link' = "idle"
         /\ engine = "up" => events'["disconnected"] > 0
         /\ UNCHANGED <<Works, ConfigAsked>>
<1>1. /\ events' \in [Event -> 0..EventQueue]
      /\ engine = "up" => events'["disconnected"] > 0
  BY PostResult DEF Unlink, Event
<1>2. link' = "idle" /\ target' = NoNetwork
  BY DEF Unlink
<1>3. /\ UNCHANGED <<s_wifi_started, s_join_requested, engine, config>>
      /\ UNCHANGED <<asked, joined, unreplaced>>
  BY Zenon DEF askVars
<1>4. s_wifi_started' \in BOOLEAN /\ s_join_requested' \in BOOLEAN
  BY <1>3, Zenon DEF WifiTypeOK
<1> QED
  BY <1>1, <1>2, <1>3, <1>4 DEF WifiTypeOK, OnlyAsked, Works, ConfigAsked, Typed

-----------------------------------------------------------------------------
\* The steps that leave the station alone.
LEMMA StillStep ==
  ASSUME WifiTypeOK, WifiInv, UNCHANGED wifiVars,
         \/ pc' = pc
         \/ pc' \notin {"boot", "disconnect"} /\ ~Joining /\ ~Joining'
  PROVE  WifiTypeOK' /\ WifiInv'
<1>1. /\ UNCHANGED <<s_wifi_started, s_join_requested, engine, config, link>>
      /\ UNCHANGED <<target, events, asked, joined, unreplaced>>
  BY Zenon DEF wifiVars, driverVars, askVars
<1>2. s_wifi_started' \in BOOLEAN /\ s_join_requested' \in BOOLEAN
  BY <1>1, Zenon DEF WifiTypeOK
<1>3. WifiTypeOK'
  BY <1>1, <1>2 DEF WifiTypeOK
<1>4. WifiInv'
  BY <1>1 DEF WifiInv, Works, Joining, ConfigAsked, OnlyAsked, Typed,
           NeverStranded
<1> QED
  BY <1>3, <1>4

LEMMA RestartWifi ==
  ASSUME WifiTypeOK, Restart
  PROVE  WifiTypeOK' /\ WifiInv'
<1>1. /\ pc' = "boot" /\ engine' = "off" /\ link' = "idle" /\ target' = NoNetwork
      /\ asked' = NoNetwork /\ joined' = {} /\ unreplaced' = {} /\ config' = config
  BY DEF Restart, WifiRestart
<1>2. s_wifi_started' = FALSE /\ s_join_requested' = FALSE
  BY Zenon DEF Restart, WifiRestart
<1>3. events' \in [Event -> 0..EventQueue]
  BY QueueAssumption DEF Restart, WifiRestart
<1> QED
  BY <1>1, <1>2, <1>3
     DEF WifiTypeOK, WifiInv, Works, Joining, OnlyAsked, Typed,
           NeverStranded

LEMMA RestoreWifi ==
  ASSUME WifiTypeOK, WifiInv, Restore
  PROVE  WifiTypeOK' /\ WifiInv'
<1>1. /\ UNCHANGED <<s_wifi_started, s_join_requested, engine, link>>
      /\ UNCHANGED <<target, events, asked, joined, unreplaced>>
  BY Zenon DEF Restore, driverVars, askVars
<1>2. pc = "boot" /\ pc' = "ready" /\ config' \in {config, NoNetwork}
  BY DEF Restore, At
<1>3. s_wifi_started' \in BOOLEAN /\ s_join_requested' \in BOOLEAN
  BY <1>1, Zenon DEF WifiTypeOK
<1>4. WifiTypeOK'
  BY <1>1, <1>2, <1>3 DEF WifiTypeOK
<1>5. engine = "off" /\ ~s_join_requested /\ link = "idle" /\ ~s_wifi_started
  BY <1>2 DEF WifiInv
<1>6. WifiInv'
  BY <1>1, <1>2, <1>5
     DEF WifiInv, Works, Joining, OnlyAsked, Typed,
           NeverStranded
<1> QED
  BY <1>4, <1>6

\* The first step of `join' and of `scan'.
LEMMA BeginsWifi ==
  ASSUME WifiTypeOK, WifiInv, Scan \/ \E ssid \in Networks : Join(ssid)
  PROVE  WifiTypeOK' /\ WifiInv'
<1>1. /\ s_wifi_started' = TRUE
      /\ engine' \in {"dead", "deaf", "up"}
      /\ events' \in [Event -> 0..EventQueue]
      /\ s_join_requested => UNCHANGED <<engine, events>>
  BY InitOnceResult DEF Scan, Join, ScanBegins, JoinBegins
<1>2. /\ UNCHANGED <<config, link, target, unreplaced>>
      /\ asked' = asked \/ asked' \in Networks
      /\ joined \subseteq joined' /\ joined' \subseteq Networks
      /\ pc = "ready"
      /\ \/ pc' = "scan"
         \/ pc' = "disconnect" /\ asked' \in joined'
  BY DEF Scan, Join, ScanBegins, JoinBegins, askVars, At, WifiTypeOK
<1>3. s_join_requested' = s_join_requested
  BY Zenon DEF Scan, Join, ScanBegins, JoinBegins
<1>4. s_join_requested' \in BOOLEAN /\ s_wifi_started' \in BOOLEAN
  BY <1>1, <1>3, Zenon DEF WifiTypeOK
<1>5. WifiTypeOK'
  BY <1>1, <1>2, <1>4 DEF WifiTypeOK
<1>6. OnlyAsked'
  BY <1>2 DEF WifiInv, OnlyAsked, Typed
<1>7. s_join_requested' /\ Works' => ConfigAsked'
  BY <1>1, <1>2, <1>3 DEF WifiInv, Works, ConfigAsked, Typed
<1>8. NeverStranded'
  BY <1>1, <1>2, <1>3 DEF WifiInv, NeverStranded, Joining
<1>9. /\ pc' = "disconnect" \/ Joining' => s_wifi_started' /\ asked' \in joined'
      /\ link' = "connecting" => target' = config'
      /\ pc' \notin {"boot", "request", "connect"}
  BY <1>1, <1>2 DEF WifiInv, Joining
<1> QED
  BY <1>1, <1>5, <1>6, <1>7, <1>8, <1>9 DEF WifiInv

LEMMA DisconnectsWifi ==
  ASSUME WifiTypeOK, WifiInv, JoinDisconnects
  PROVE  WifiTypeOK' /\ WifiInv'
<1>1. pc = "disconnect" /\ pc' = "set_config"
  BY DEF JoinDisconnects, At
<1>2. UNCHANGED <<s_wifi_started, s_join_requested, engine, config, askVars>>
  BY Zenon DEF JoinDisconnects, Disconnects
<1>3. /\ UNCHANGED <<s_wifi_started, s_join_requested, engine, config>>
      /\ UNCHANGED <<asked, joined, unreplaced>>
  BY <1>2, Zenon DEF askVars
<1>4. CASE Works /\ link # "idle"
  <2>1. Unlink
    BY <1>4 DEF JoinDisconnects, Disconnects, esp_wifi_disconnect
  <2>2. WifiTypeOK' /\ OnlyAsked' /\ link' = "idle" /\ UNCHANGED <<Works, ConfigAsked>>
    BY <1>2, <2>1, UnlinkStep
  <2> QED
    BY <1>1, <1>3, <2>2 DEF WifiInv, Joining, NeverStranded
<1>5. CASE ~(Works /\ link # "idle")
  <2>1. UNCHANGED <<link, target, events>>
    BY <1>5, Zenon DEF JoinDisconnects, Disconnects, esp_wifi_disconnect, driverVars
  <2>2. s_wifi_started' \in BOOLEAN /\ s_join_requested' \in BOOLEAN
    BY <1>3, Zenon DEF WifiTypeOK
  <2> QED
    BY <1>1, <1>3, <2>1, <2>2
       DEF WifiTypeOK, WifiInv, Joining, Works, ConfigAsked, OnlyAsked, Typed,
           NeverStranded
<1> QED
  BY <1>4, <1>5

LEMMA ConfiguresWifi ==
  ASSUME WifiTypeOK, WifiInv, JoinConfigures
  PROVE  WifiTypeOK' /\ WifiInv'
<1>1. pc = "set_config" /\ pc' = "request"
  BY DEF JoinConfigures, At
<1>2. /\ UNCHANGED <<s_wifi_started, s_join_requested, engine>>
      /\ UNCHANGED <<link, target, events, asked, joined>>
  BY Zenon DEF JoinConfigures, Configures, driverVars
<1>3. \/ CanConfigure /\ config' = Copied(asked) /\ unreplaced' = unreplaced
      \/ ~CanConfigure /\ config' = config /\ unreplaced' = unreplaced
      \/ /\ CanConfigure /\ config' = config
         /\ unreplaced' = unreplaced \cup ({config} \ Typed)
  BY DEF JoinConfigures, Configures, esp_wifi_set_config
<1>4. s_wifi_started' \in BOOLEAN /\ s_join_requested' \in BOOLEAN
  BY <1>2, Zenon DEF WifiTypeOK
<1>5. asked \in joined /\ asked \in Networks /\ s_wifi_started
  BY <1>1 DEF WifiInv, Joining, WifiTypeOK
<1>6. Copied(asked) \in Name /\ Copied(asked) \in Typed
  BY <1>5 DEF Name, Typed
<1>7. WifiTypeOK'
  BY <1>2, <1>3, <1>4, <1>6 DEF WifiTypeOK
<1>8. Typed' = Typed /\ unreplaced \subseteq unreplaced' /\ (Works' <=> Works)
  BY <1>2, <1>3 DEF Typed, Works
<1>9. Works' => ConfigAsked'
  <2>1. CASE CanConfigure
    BY <1>3, <1>6, <1>8, <2>1 DEF ConfigAsked
  <2>2. CASE Works /\ ~CanConfigure
    <3>1. link = "connecting" /\ target = config /\ config' = config
      BY <1>3, <2>2 DEF CanConfigure, WifiInv
    <3> QED BY <1>8, <3>1 DEF ConfigAsked, WifiInv, OnlyAsked
  <2> QED
    BY <1>8, <2>1, <2>2
<1>10. link' = "connecting" => target' = config'
  BY <1>2, <1>3 DEF WifiInv, CanConfigure
<1>11. OnlyAsked' /\ NeverStranded'
  BY <1>1, <1>2, <1>8 DEF WifiInv, OnlyAsked, NeverStranded, Joining
<1> QED
  BY <1>1, <1>2, <1>5, <1>7, <1>9, <1>10, <1>11 DEF WifiInv, Joining

LEMMA RequestsWifi ==
  ASSUME WifiTypeOK, WifiInv, JoinRequests
  PROVE  WifiTypeOK' /\ WifiInv'
<1>1. pc = "request" /\ pc' = "connect" /\ s_join_requested' = TRUE
  BY DEF JoinRequests, Requests, At
<1>2. /\ UNCHANGED <<s_wifi_started, engine, config>>
      /\ UNCHANGED <<link, target, events, asked, joined, unreplaced>>
  BY Zenon DEF JoinRequests, Requests, driverVars, askVars
<1>3. s_wifi_started' \in BOOLEAN /\ s_join_requested' \in BOOLEAN
  BY <1>1, <1>2, Zenon DEF WifiTypeOK
<1> QED
  BY <1>1, <1>2, <1>3
     DEF WifiTypeOK, WifiInv, Joining, Works, ConfigAsked, OnlyAsked, Typed,
           NeverStranded

LEMMA ConnectsWifi ==
  ASSUME WifiTypeOK, WifiInv, JoinConnects
  PROVE  WifiTypeOK' /\ WifiInv'
<1>1. pc = "connect" /\ pc' = "ready" /\ esp_wifi_connect
  BY DEF JoinConnects, Connects, At
<1>2. /\ UNCHANGED <<s_wifi_started, s_join_requested, engine, config, events>>
      /\ UNCHANGED <<asked, joined, unreplaced>>
  BY Zenon DEF JoinConnects, Connects, askVars
<1>3. Works => ConfigAsked
  BY <1>1 DEF WifiInv
<1>4. /\ link' \in {"idle", "connecting", "connected"}
      /\ target' \in Name \cup {NoNetwork}
      /\ link' = "connecting" => target' = config
      /\ OnlyAsked'
      /\ Works /\ config # NoNetwork => link' # "idle"
  BY <1>1, <1>2, <1>3, ConnectResult
<1>5. s_wifi_started' \in BOOLEAN /\ s_join_requested' \in BOOLEAN
  BY <1>2, Zenon DEF WifiTypeOK
<1>6. WifiTypeOK'
  BY <1>2, <1>4, <1>5 DEF WifiTypeOK
<1>7. s_wifi_started /\ engine # "off"
  BY <1>1 DEF WifiInv, Joining
<1>8. NeverStranded'
  BY <1>2, <1>4 DEF NeverStranded, Works
<1> QED
  BY <1>1, <1>2, <1>3, <1>4, <1>6, <1>7, <1>8
     DEF WifiInv, Joining, Works, ConfigAsked, Typed

\* wifi_evt, whatever the console is at.
LEMMA EventsWifi ==
  ASSUME WifiTypeOK, WifiInv, Events
  PROVE  WifiTypeOK' /\ WifiInv'
<1>1. PICK e \in Event : Handled(e) /\ (e = "disconnected" <=> HandleDisconnected)
  BY DEF Events, HandleStart, HandleDisconnected, Event, Handled
<1>2. /\ UNCHANGED <<s_wifi_started, s_join_requested, engine, config>>
      /\ UNCHANGED <<asked, joined, unreplaced>>
      /\ pc' = pc
  BY <1>1, Zenon DEF Events, ConsoleIdles, Handled, askVars
<1>3. s_wifi_started' \in BOOLEAN /\ s_join_requested' \in BOOLEAN
  BY <1>2, Zenon DEF WifiTypeOK
<1>4. /\ events' \in [Event -> 0..EventQueue]
      /\ \A d \in Event : d # e => events'[d] = events[d]
  <2>1. /\ events \in [Event -> 0..EventQueue] /\ events[e] > 0
        /\ events' = [events EXCEPT ![e] = @ - 1] /\ EventQueue \in Nat
    BY <1>1, QueueAssumption DEF Handled, WifiTypeOK
  <2>2. events[e] - 1 \in 0..EventQueue
    BY <2>1
  <2> QED
    BY <2>1, <2>2
<1>5. CASE UNCHANGED <<link, target>> /\ e = "start"
  BY <1>2, <1>3, <1>4, <1>5
     DEF Event, WifiTypeOK, WifiInv, Joining, Works, ConfigAsked, OnlyAsked,
         NeverStranded, Typed
<1>6. CASE UNCHANGED <<link, target>> /\ ~s_join_requested
  BY <1>2, <1>3, <1>4, <1>6
     DEF WifiTypeOK, WifiInv, Joining, Works, ConfigAsked, OnlyAsked,
         NeverStranded, Typed
<1>7. CASE esp_wifi_connect /\ s_join_requested
  <2>1. Works => ConfigAsked
    BY <1>7 DEF WifiInv
  <2>2. /\ link' \in {"idle", "connecting", "connected"}
        /\ target' \in Name \cup {NoNetwork}
        /\ link' = "connecting" => target' = config
        /\ OnlyAsked'
        /\ Works /\ config # NoNetwork => link' # "idle"
    BY <1>2, <1>7, <2>1, ConnectResult
  <2>3. engine # "off"
    BY <1>7 DEF WifiInv
  <2>4. WifiTypeOK'
    BY <1>2, <1>3, <1>4, <2>2 DEF WifiTypeOK
  <2>5. NeverStranded'
    BY <1>2, <2>2 DEF NeverStranded, Works
  <2> QED
    BY <1>2, <2>1, <2>2, <2>3, <2>4, <2>5 DEF WifiInv, Joining, Works, ConfigAsked, Typed
<1>8. \/ UNCHANGED <<link, target>> /\ e = "start"
      \/ UNCHANGED <<link, target>> /\ ~s_join_requested
      \/ esp_wifi_connect /\ s_join_requested
  <2>1. CASE e = "disconnected"
    BY <1>1, <2>1, Zenon DEF HandleDisconnected
  <2>2. CASE e # "disconnected"
    <3>1. HandleStart /\ e = "start"
      BY <1>1, <2>2, Zenon DEF Events, Event
    <3> QED
      BY <3>1 DEF HandleStart
  <2> QED
    BY <2>1, <2>2
<1> QED
  BY <1>5, <1>6, <1>7, <1>8

LEMMA DriverWifi ==
  ASSUME WifiTypeOK, WifiInv, Driver
  PROVE  WifiTypeOK' /\ WifiInv'
<1>1. pc' = pc /\ link # "idle"
  BY DEF Driver, ConsoleIdles, Associates, DropsOut
<1>2. UNCHANGED <<s_wifi_started, s_join_requested, engine, config, askVars>>
  BY Zenon DEF Driver, Associates, DropsOut
<1>3. /\ UNCHANGED <<s_wifi_started, s_join_requested, engine, config>>
      /\ UNCHANGED <<asked, joined, unreplaced>>
  BY <1>2, Zenon DEF askVars
<1>4. CASE Associates
  <2>1. link' = "connected" /\ UNCHANGED <<target, events>>
    BY <1>4 DEF Associates
  <2>2. s_wifi_started' \in BOOLEAN /\ s_join_requested' \in BOOLEAN
    BY <1>3, Zenon DEF WifiTypeOK
  <2> QED
    BY <1>1, <1>3, <2>1, <2>2
       DEF WifiTypeOK, WifiInv, Joining, Works, ConfigAsked, OnlyAsked, Typed,
           NeverStranded
<1>5. CASE DropsOut
  <2>1. Unlink
    BY <1>5 DEF DropsOut
  <2>2. /\ WifiTypeOK' /\ OnlyAsked' /\ link' = "idle"
        /\ engine = "up" => events'["disconnected"] > 0
        /\ UNCHANGED <<Works, ConfigAsked>>
    BY <1>2, <2>1, UnlinkStep
  <2> QED
    BY <1>1, <1>3, <2>2 DEF WifiInv, Joining, NeverStranded
<1> QED
  BY <1>4, <1>5 DEF Driver

LEMMA NextWifi ==
  ASSUME WifiTypeOK, WifiInv, [Next]_vars
  PROVE  WifiTypeOK' /\ WifiInv'
<1>1. CASE \/ Fetch \/ ScanStarts \/ ScanRefused \/ ScanEnds \/ FetchEnds
           \/ NvsOpens \/ NvsOpenFails \/ NvsCommits \/ NvsCommitFails
           \/ \E on \in BOOLEAN : Switch(on) \/ Pin(on)
  <2>1. UNCHANGED wifiVars
    BY <1>1, Zenon DEF Fetch, ScanStarts, ScanRefused, ScanEnds, FetchEnds, NvsOpens,
       NvsOpenFails, NvsCommits, NvsCommitFails, Switch, Pin
  <2>2. pc' \notin {"boot", "disconnect"} /\ ~Joining /\ ~Joining'
    BY <1>1 DEF Fetch, ScanStarts, ScanRefused, ScanEnds, FetchEnds, NvsOpens,
       NvsOpenFails, NvsCommits, NvsCommitFails, Switch, Pin, At, Joining
  <2> QED
    BY <2>1, <2>2, StillStep
<1>2. CASE UNCHANGED vars
  BY <1>2, StillStep, Zenon DEF vars
<1>3. CASE LampStep
  BY <1>1, <1>3, RestartWifi, RestoreWifi, Zenon DEF LampStep
<1>4. CASE WifiStep
  BY <1>1, <1>4, BeginsWifi, DisconnectsWifi, ConfiguresWifi, RequestsWifi,
     ConnectsWifi, Zenon DEF WifiStep
<1> QED
  BY <1>2, <1>3, <1>4, EventsWifi, DriverWifi, NextSplits

-----------------------------------------------------------------------------
LEMMA NextInv == IInv /\ [Next]_vars => IInv'
<1> SUFFICES ASSUME IInv, [Next]_vars PROVE IInv'
  OBVIOUS
<1>1. WifiTypeOK' /\ WifiInv'
  BY NextWifi DEF IInv, TypeOK
<1>2. LampTypeOK' /\ LampInv' /\ pc' \in Pcs
  BY LampStepLamp, OtherStepLamp, NextSplits, Zenon DEF IInv, TypeOK, Pcs
<1> QED
  BY <1>1, <1>2, Zenon DEF IInv, TypeOK, Pcs

LEMMA Invariant == Spec => []IInv
BY InitInv, NextInv, PTL DEF Spec

\* The variables of the console, of the lamp and of the station keep their types:
\* the events of one kind never exceed what the queue takes.
THEOREM TypeCorrect == Spec => []TypeOK
<1>1. IInv => TypeOK
  BY DEF IInv
<1> QED
  BY Invariant, <1>1, PTL

\* The lamp shows what the last command asked for; after a restart, what the last
\* confirmed save asked for or one broken off since then (led_state_save); it is
\* out when flash could not be read, and no probe is ever kept.
THEOREM LampKept == Spec => []LampIsKept
<1>1. IInv => LampIsKept
  BY DEF IInv, LampInv
<1> QED
  BY Invariant, <1>1, PTL

\* The station connects to no network that was not typed, but for one of flash
\* that a refused configuration has left in force (wifi_app_join).
THEOREM Asked == Spec => []OnlyAsked
<1>1. IInv => OnlyAsked
  BY DEF IInv, WifiInv
<1> QED
  BY Invariant, <1>1, PTL

\* After a join a station that has a network is never idle without an event to
\* connect it again.
THEOREM Stranded == Spec => []NeverStranded
<1>1. IInv => NeverStranded
  BY DEF IInv, WifiInv
<1> QED
  BY Invariant, <1>1, PTL
=============================================================================
