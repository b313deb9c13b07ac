-------------------------------- MODULE Boot --------------------------------
(***************************************************************************)
(* Bringing the game up: app_main (main.c) and, once the console is there, *)
(* its commands `lcd' and `game' (cli.c) call lcd_init (lcd.c) and then    *)
(* game_app_start (display.c), which has the cartridge loaded by init_wamr *)
(* (wamr.c) in a thread of its own and starts the game thread.  Every one  *)
(* of these steps may fail, none is undone, and the commands may be typed  *)
(* again.  St7789 says what lcd_init does to the panel itself.             *)
(*                                                                         *)
(* Two things are external.  spi_bus_initialize refuses a bus that is      *)
(* initialised already.  And wasm_runtime_load, given a buffer it may      *)
(* reuse, moves the names of the imports one byte down over their length:  *)
(* the card cannot be loaded a second time.                                *)
(*                                                                         *)
(* An operator named X_Something is a plausible mistake in X.              *)
(***************************************************************************)
EXTENDS Naturals, St7789

Step == {"bus", "handles", "transaction", "init_thread", "runtime", "load",
         "instantiate", "exec_env", "game_thread"}

CONSTANT MayFail    \* the steps there may be no memory for, or a fault of the bus

ASSUME MayFailAssumption == MayFail \subseteq Step

VARIABLES
  pc,        \* where the main task, or the console task after it, is
  caller,    \* on whose behalf
  bus,       \* the SPI bus is initialised
  panel,     \* s_panel and s_lcd_ready
  st7789,    \* the panel's registers and the driver's copies
  lost,      \* history: the calls of lcd_init whose transactions failed
  runtime,   \* WAMR is initialised
  card,      \* the bytes of gamecard.c in memory
  module,    \* wasm_module: not loaded, loaded, or a pointer to freed memory
  inst,      \* wasm_module_inst, and start and update with it
  exec_env,
  threads,   \* game threads
  running,   \* s_game_running
  said       \* what the last `game' command has printed

lcdVars  == <<bus, panel, st7789, lost>>
wamrVars == <<runtime, card, module, inst, exec_env>>
gameVars == <<threads, running>>
vars     == <<pc, caller, lcdVars, wamrVars, gameVars, said>>

TypeOK ==
  /\ pc \in {"lcd_init", "game_app_start", "init_wamr", "joined", "console"}
  /\ caller \in {"app_main", "lcd", "game"}
  /\ bus \in BOOLEAN /\ panel \in BOOLEAN
  /\ st7789 \in Registers /\ lost \subseteq Call
  /\ runtime \in BOOLEAN
  /\ card \in {"whole", "spoiled"}
  /\ module \in {"none", "loaded", "freed"}
  /\ inst \in BOOLEAN /\ exec_env \in BOOLEAN
  /\ threads \in {0, 1}
  /\ running \in BOOLEAN
  /\ said \in {"nothing", "no panel", "running"}

Init ==
  /\ pc = "lcd_init" /\ caller = "app_main"
  /\ bus = FALSE /\ panel = FALSE
  /\ st7789 = NewPanel /\ lost = {}
  /\ runtime = FALSE /\ card = "whole" /\ module = "none"
  /\ inst = FALSE /\ exec_env = FALSE
  /\ threads = 0 /\ running = FALSE
  /\ said = "nothing"

-----------------------------------------------------------------------------
\* Mistake: the game is started on a panel that is not there.
LcdFailed_GoesOn ==
  /\ pc' = IF caller = "lcd" THEN "console" ELSE "game_app_start"
  /\ UNCHANGED said

\* What each caller makes of lcd_init's answer.
LcdFailed ==
  /\ pc' = "console"
  /\ said' = IF caller = "game" THEN "no panel" ELSE said

LcdReady ==
  /\ pc' = IF caller = "lcd" THEN "console" ELSE "game_app_start"
  /\ UNCHANGED said

LcdAlready ==
  /\ pc = "lcd_init" /\ panel
  /\ LcdReady
  /\ UNCHANGED <<caller, lcdVars, wamrVars, gameVars>>

BusFails ==
  /\ pc = "lcd_init" /\ ~panel
  /\ bus \/ "bus" \in MayFail
  /\ LcdFailed
  /\ UNCHANGED <<caller, lcdVars, wamrVars, gameVars>>

\* The panel IO or the panel: the bus is left as it is.
HandlesFail ==
  /\ pc = "lcd_init" /\ ~panel /\ ~bus
  /\ "handles" \in MayFail
  /\ bus' = TRUE
  /\ LcdFailed
  /\ UNCHANGED <<caller, panel, st7789, lost, wamrVars, gameVars>>

\* The initialisation is lost when not all of its commands arrive.
LcdUp ==
  /\ pc = "lcd_init" /\ ~panel /\ ~bus
  /\ bus' = TRUE /\ panel' = TRUE
  /\ \E failed \in SUBSET Call, k \in 0..InitCommands :
       /\ failed # {} => "transaction" \in MayFail
       /\ "init" \in failed <=> k < InitCommands
       /\ lost' = failed
       /\ st7789' = SetUp(k, failed)
  /\ LcdReady
  /\ UNCHANGED <<caller, wamrVars, gameVars>>

-----------------------------------------------------------------------------
\* game_app_start returns, whatever it has done, and cmd_game prints.
Return ==
  /\ pc' = "console"
  /\ said' = IF caller = "game" THEN "running" ELSE said

AlreadyRunning ==
  /\ pc = "game_app_start" /\ running
  /\ Return
  /\ UNCHANGED <<caller, lcdVars, wamrVars, gameVars>>

NoInitThread ==
  /\ pc = "game_app_start" /\ ~running
  /\ "init_thread" \in MayFail
  /\ Return
  /\ UNCHANGED <<caller, lcdVars, wamrVars, gameVars>>

\* Mistake: nobody asks whether the game is running.
InitThread_Always ==
  /\ pc = "game_app_start"
  /\ pc' = "init_wamr"
  /\ UNCHANGED <<caller, lcdVars, wamrVars, gameVars, said>>

InitThread ==
  /\ pc = "game_app_start" /\ ~running
  /\ pc' = "init_wamr"
  /\ UNCHANGED <<caller, lcdVars, wamrVars, gameVars, said>>

RuntimeFails ==
  /\ pc = "init_wamr" /\ ~runtime
  /\ "runtime" \in MayFail
  /\ pc' = "joined"
  /\ UNCHANGED <<caller, lcdVars, wamrVars, gameVars, said>>

\* The instance an earlier attempt has made stays.
LoadFails ==
  /\ pc = "init_wamr"
  /\ card = "spoiled" \/ "load" \in MayFail
  /\ runtime' = TRUE
  /\ card' \in {card, "spoiled"}
  /\ module' = "none"
  /\ pc' = "joined"
  /\ UNCHANGED <<caller, lcdVars, inst, exec_env, gameVars, said>>

InstantiateFails ==
  /\ pc = "init_wamr" /\ card = "whole"
  /\ "instantiate" \in MayFail
  /\ runtime' = TRUE
  /\ card' = "spoiled"
  /\ module' = "freed"
  /\ inst' = FALSE
  /\ pc' = "joined"
  /\ UNCHANGED <<caller, lcdVars, exec_env, gameVars, said>>

Instantiated ==
  /\ pc = "init_wamr" /\ card = "whole"
  /\ runtime' = TRUE
  /\ card' = "spoiled"
  /\ module' = "loaded"
  /\ inst' = TRUE
  /\ exec_env' \in {TRUE} \cup (IF "exec_env" \in MayFail THEN {FALSE} ELSE {})
  /\ pc' = "joined"
  /\ UNCHANGED <<caller, lcdVars, gameVars, said>>

NoInstance ==
  /\ pc = "joined" /\ ~inst
  /\ Return
  /\ UNCHANGED <<caller, lcdVars, wamrVars, gameVars>>

NoGameThread ==
  /\ pc = "joined" /\ inst
  /\ "game_thread" \in MayFail
  /\ Return
  /\ UNCHANGED <<caller, lcdVars, wamrVars, gameVars>>

\* Mistake: the flag is not set.
GameThread_NoFlag ==
  /\ pc = "joined" /\ inst
  /\ threads' = threads + 1
  /\ Return
  /\ UNCHANGED <<caller, lcdVars, wamrVars, running>>

GameThread ==
  /\ pc = "joined" /\ inst
  /\ threads' = threads + 1
  /\ running' = TRUE
  /\ Return
  /\ UNCHANGED <<caller, lcdVars, wamrVars>>

-----------------------------------------------------------------------------
\* The console reads the next command; it knows one at a time.
Type(cmd) ==
  /\ pc = "console"
  /\ pc' = "lcd_init"
  /\ caller' = cmd
  /\ said' = "nothing"
  /\ UNCHANGED <<lcdVars, wamrVars, gameVars>>

\* The command `restart', or the power: everything starts again.
Restart ==
  /\ pc' = "lcd_init" /\ caller' = "app_main"
  /\ bus' = FALSE /\ panel' = FALSE
  /\ st7789' = NewPanel /\ lost' = {}
  /\ runtime' = FALSE /\ card' = "whole" /\ module' = "none"
  /\ inst' = FALSE /\ exec_env' = FALSE
  /\ threads' = 0 /\ running' = FALSE
  /\ said' = "nothing"

Lcd  == LcdAlready \/ BusFails \/ HandlesFail \/ LcdUp
Wamr == RuntimeFails \/ LoadFails \/ InstantiateFails \/ Instantiated
Game == \/ AlreadyRunning \/ NoInitThread \/ InitThread
        \/ NoInstance \/ NoGameThread \/ GameThread

Next == Lcd \/ Wamr \/ Game \/ Type("lcd") \/ Type("game") \/ Restart

Spec == Init /\ [][Next]_vars

-----------------------------------------------------------------------------
\* s_game_running tells whether there is a game thread, through every failure
\* and every retry: a start that failed can be tried again, and one that did
\* not is never repeated.
FlagTellsThread == running <=> threads = 1

\* A game thread finds what it works with: an instance and an open panel.
ThreadHasItsWorld == threads # 0 => inst /\ panel

\* Nothing that is done at the console takes the cartridge from a running game.
GameIsLeftAlone ==
  [][threads # 0 /\ threads' # 0 => UNCHANGED <<lcdVars, wamrVars>>]_vars

\* The copy of MADCTL is what the panel has, and the picture lies as it should,
\* whichever transactions failed before the last that wrote the register.
CopyTellsOrientation ==
  panel /\ "mirror" \notin lost
    => st7789.madctl = st7789.madctl_val /\ st7789.madctl = Landscape

\* Inversion and display are switched on twice: when the initialisation went
\* through and the picture lies as it should, no other loss shows.
PictureShows ==
  panel /\ lost \cap {"init", "mirror"} = {}
    => /\ st7789.awake /\ st7789.shows /\ st7789.inverted
       /\ st7789.colmod \in Sixteen
       /\ st7789.madctl = Landscape

\* PORTING.md says that the command `game' only reports a game that is already
\* running, and the command prints that one is: then it can play, that is, its
\* thread is there and does not wait for an execution environment.
ReportsTruth == said = "running" => running /\ exec_env
=============================================================================
