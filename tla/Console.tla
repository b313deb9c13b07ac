------------------------------ MODULE Console -------------------------------
(***************************************************************************)
(* The console (components/cli/cli.c) with the lamp and the station that   *)
(* its commands work on.  It runs one command at a time, in a task of its  *)
(* own; the event task and the driver of the station run between any two   *)
(* steps of a command, and the power may go at any moment.  The commands   *)
(* `lcd' and `game' are in Boot and PanelBus.                              *)
(***************************************************************************)
EXTENDS Lamp, Wifi

VARIABLE pc   \* what the console task does next

vars == <<pc, lampVars, wifiVars>>

TypeOK ==
  /\ pc \in {"boot", "ready", "save", "commit", "disconnect", "set_config",
             "request", "connect", "scan", "scanning", "fetch"}
  /\ LampTypeOK
  /\ WifiTypeOK

Init ==
  /\ pc = "boot"
  /\ LampInit
  /\ WifiInit

At(here, next) == pc = here /\ pc' = next

-----------------------------------------------------------------------------
\* cli_init: flash as it was, flash that cannot be opened, or flash formatted.
Restore ==
  /\ At("boot", "ready")
  /\ \/ (LampRestored \/ LampNotRestored) /\ UNCHANGED config
     \/ LampErased /\ config' = NoNetwork
  /\ UNCHANGED <<s_wifi_started, s_join_requested, engine, driverVars, askVars>>

\* `restart', a reset, or the power; flash survives.
Restart ==
  /\ pc' = "boot"
  /\ LampRestart(pc = "commit")
  /\ WifiRestart

-----------------------------------------------------------------------------
\* `on' and `off': the lamp first, and then flash.
Switch(on) == At("ready", "save") /\ LedSet(on) /\ UNCHANGED wifiVars

NvsOpens       == At("save", "commit") /\ SaveBegins /\ UNCHANGED wifiVars
NvsOpenFails   == At("save", "ready") /\ NvsMayFail /\ UNCHANGED <<lampVars, wifiVars>>
NvsCommits     == At("commit", "ready") /\ Commits /\ UNCHANGED wifiVars
NvsCommitFails == At("commit", "ready") /\ CommitFails /\ UNCHANGED wifiVars

\* `pin 26 0' and `pin 26 1'.
Pin(on) == At("ready", "ready") /\ Probe(on) /\ UNCHANGED wifiVars

-----------------------------------------------------------------------------
\* `join <ssid>': five steps.
Join(ssid)      == At("ready", "disconnect") /\ JoinBegins(ssid) /\ UNCHANGED lampVars
JoinDisconnects == At("disconnect", "set_config") /\ Disconnects /\ UNCHANGED lampVars
JoinConfigures  == At("set_config", "request") /\ Configures /\ UNCHANGED lampVars
JoinRequests    == At("request", "connect") /\ Requests /\ UNCHANGED lampVars

\* Mistake: the connecting is left to the event of the old connection.
JoinConnects_ByTheEvent == At("connect", "ready") /\ UNCHANGED <<lampVars, wifiVars>>

JoinConnects == At("connect", "ready") /\ Connects /\ UNCHANGED lampVars

\* `scan': it waits for the driver to finish.
Scan        == At("ready", "scan") /\ ScanBegins /\ UNCHANGED lampVars
ScanStarts  == At("scan", "scanning") /\ ScanTaken /\ UNCHANGED <<lampVars, wifiVars>>
ScanRefused == At("scan", "ready") /\ ~ScanTaken /\ UNCHANGED <<lampVars, wifiVars>>
ScanEnds    == At("scanning", "ready") /\ UNCHANGED <<lampVars, wifiVars>>

\* `fetch' and `time': http_app_get returns when the request was answered, when
\* it failed, or when its time is over.
Fetch == At("ready", "fetch") /\ UNCHANGED <<lampVars, wifiVars>>

\* Mistake: without a time of its own the request waits for the network.
FetchEnds_WhenLinked ==
  At("fetch", "ready") /\ link = "connected" /\ UNCHANGED <<lampVars, wifiVars>>

FetchEnds == At("fetch", "ready") /\ UNCHANGED <<lampVars, wifiVars>>

-----------------------------------------------------------------------------
Command ==
  \/ \E on \in BOOLEAN : Switch(on) \/ Pin(on)
  \/ \E ssid \in Networks : Join(ssid)
  \/ Scan \/ Fetch

GoesOn ==
  \/ NvsOpens \/ NvsOpenFails \/ NvsCommits \/ NvsCommitFails
  \/ JoinDisconnects \/ JoinConfigures \/ JoinRequests \/ JoinConnects
  \/ ScanStarts \/ ScanRefused \/ ScanEnds
  \/ FetchEnds

ConsoleIdles == UNCHANGED <<pc, lampVars>>

Events == (HandleStart \/ HandleDisconnected) /\ ConsoleIdles
Driver == (Associates \/ DropsOut) /\ ConsoleIdles

AttemptEnds == Driver /\ link = "connecting"

Next == Restore \/ Restart \/ Command \/ GoesOn \/ Events \/ Driver

-----------------------------------------------------------------------------
\* The tasks run and no attempt to connect lasts for ever; the power is not cut
\* during every start; and an access point in range answers some time, when it
\* is tried again and again.
Spec ==
  /\ Init /\ [][Next]_vars
  /\ SF_vars(Restore)
  /\ WF_vars(GoesOn)
  /\ WF_vars(Events)
  /\ WF_vars(AttemptEnds)
  /\ SF_vars(Associates /\ ConsoleIdles)

-----------------------------------------------------------------------------
\* The lamp remembers its state (cli.c).  It shows what the last command asked
\* for, whether that was saved or not.  After a restart it shows what the last
\* confirmed save asked for, or one that was begun since then and broken off by
\* the power or by failing flash; never what a probe of its pin did.  When flash
\* was unreadable or erased it is out, and the next restart brings back what is
\* still there.
LampIsKept ==
  pc # "boot" =>
    /\ by = "command" => lamp = wanted
    /\ by = "flash" => lamp \in due
    /\ by = "nobody" => ~lamp

\* The station connects only to networks that were typed since the board
\* started (wifi_app.c: only after a join may it connect on its own), never by
\* itself to the one flash remembers: that it uses only after the driver has
\* refused to replace it, for wifi_app_join goes on all the same.
OnlyAsked == link # "idle" => target \in Typed \cup unreplaced

\* The last steps of wifi_app_join.
Joining == pc \in {"set_config", "request", "connect"}

\* After a join a station that has a network (a refused configuration may leave
\* it with none) is never left idle with nobody to connect it again:
\* the event of the connection it has lost is on its way, whichever of the two
\* tasks was faster.
NeverStranded ==
  s_join_requested /\ engine = "up" /\ config # NoNetwork /\ ~Joining /\ link = "idle"
    => events["disconnected"] > 0

\* Left alone by the console, a station configured for a network in range is
\* connected again and again, however often it is dropped.
Waiting == pc = "ready" /\ s_join_requested /\ engine = "up" /\ config \in InRange
Reconnects == <>[]Waiting => []<>(link = "connected")

\* Every command comes to its end, also when the station is dropped meanwhile.
ConsoleComesBack == pc # "ready" ~> pc = "ready"

-----------------------------------------------------------------------------
\* wifi_app.h says that join connects to the network it names: when all is
\* done, the station is not connected to another one.
ConnectsToTheNamed ==
  link = "connected" /\ pc = "ready" /\ events["disconnected"] = 0
    => target = Copied(asked)
=============================================================================
