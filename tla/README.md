# Snake on an ESP32-C5: a verification project

The firmware runs a MoonBit snake game, compiled to WebAssembly for the WASM-4
fantasy console, on an ESP32-C5 with a 172x320 ST7789 panel, two push buttons
and a serial console. This directory holds TLA+ modules that model the parts of
the program that decide what the player sees and what can go wrong, the TLC
configurations that check them on small instances, and TLAPS proofs for every
value of the constants.

Paths in this file are relative to `src/`.

## 1. The system

```
 GPIO7, GPIO8 --> control.c --gamepad byte--> runtime.c --> cartridge (snake-mbt)
                     ^                            |              |
             polled once a frame            160x160x2bpp <-- native calls (wamr.c)
                     |                            |
             display.c: game thread ---- composite, 8-row blocks ---+
                                                                    v
 console task (cli.c): led, lcd, game, wifi, http, ...  ----> lcd.c -> ST7789
```

| Component | State | Operations | Interacts with | Hard behaviour | What makes it correct |
|---|---|---|---|---|---|
| buttons (`components/game_app/control.c`) | per button: last level, stable count, fired; the heading shadow `s_dx, s_dy` | `init_button`, `get_player_state` (`pressed_once`, `turn`) | polled by the game thread; its shadow must follow the cartridge's direction without any message back | bounces, both buttons at once, a shadow with no feedback | one turn per stable press, none for a bounce, none starved; the shadow equals the game's heading |
| cartridge (`snake-mbt`) | body, direction, frame counter, previous gamepad byte, fruit, PRNG | `start`, `update` | reads the gamepad byte; draws through native calls; `trace` when dead | edge-triggered input, turn gates, growth by re-appending the tail, 32-bit counter | in one piece on the torus, no reversal, steady pace, death only by biting itself |
| game loop (`display.c`, `runtime.c`, `wamr.c`) | execution environments, framebuffer, first-frame flag | `w4_windowBoot`, `w4_runtimeUpdate`, `w4_wasmCallUpdate`, `w4_windowComposite` | buttons, cartridge, panel | allocation failing between two steps, sticky exceptions, a fault in the host | a press reaches the game or is not translated; frames go on |
| panel (`BSP/LCD`) | gap, MADCTL/COLMOD copies, bus, the two windows inside the ST7789 | `lcd_init`, `lcd_clear`, `lcd_draw_img`, `draw_bitmap`, mirror, swap, gap | game thread and console task | two tasks without a lock; register copies behind the table's back; failure without clean-up | pixels land where the caller asked |
| boot (`main.c`, `game_app.c`, `display.c`) | started flags, `s_game_running` | `app_main`, `game_app_start`, `w4_windowBoot` | all of the above | retries after partial failures, a thread that spins | a started game runs; a failed start can be retried |
| console (`cli`) | the lamp's state in NVS, the test card | `on`, `off`, `pin`, `lcd`, `game`, `join`, `scan`, `fetch`, `time`, `restart` | all of the above and below | power cut between two steps, flash failing, commands that run while the game draws | says what happened; the lamp comes back as it was; the prompt comes back |
| led (`BSP/LED`) | pin level | `led_init`, `led_set`, `led_probe` | console | the probe takes pins in use | the lamp shows what was asked for |
| wifi (`wifi_app`) | driver state, `s_wifi_started`, `s_join_requested`, configuration in flash | `wifi_app_join`, `wifi_app_scan`, the event handler | ESP-IDF's driver and event task | asynchronous disconnect racing a new configuration, endless reconnect, an initialisation that failed half-way | connects only to what was asked for; is never left idle after a join |
| http (`http_app`) | none | one request | wifi | it needs a connection that may go while it waits | comes back |
| framebuffer (`framebuffer.c`) | 6400 bytes | pixel, line, rectangle, oval, text, blit | cartridge, through `wamr.c` | clipping at four edges | equals an unclipped drawing cut to the screen; loops end |
| native interface (`wamr.c`) | signature table | one wrapper per import | WAMR | pointers registered as integers | addresses are checked before use |
| cartridge image, WAMR, helpers | - | - | - | - | generated, vendored or stateless |

The hazards, each at its line and with the properties that would notice, are in
`PROJECT.json`.

## 2. The modules

| Module | What it is | Code |
|---|---|---|
| `Headings` | headings, quarter turns, the gamepad byte as a set of bits | `control.c`, `snake.mbt` |
| `Control` | component: the buttons | `control.c` |
| `Debounce` | `Control` polled for ever under arbitrary pin levels | `control.c`, loop of `display.c` |
| `Snake` | component: the cartridge's `update` | `game.mbt`, `snake.mbt` |
| `Cartridge` | `Snake` under arbitrary gamepad bytes | - |
| `Steering` | abstract: what two buttons promise the player | head of `control.c` |
| `GameLoop` | `Control` and `Snake` composed by the game thread; implements `Steering` | `display.c`, `runtime.c`, `wamr.c` |
| `PanelBus` | game thread and console task drawing on one panel | `lcd.c`, `esp_lcd_panel_st7789_fix.c`, `cli.c`, `display.c` |
| `Boot` | bringing the game up on an `St7789`, from `app_main` and again from the console | `main.c`, `lcd.c`, `display.c`, `wamr.c`, `cli.c` |
| `St7789` | component: the panel's registers, the driver's copies, `lcd_init`'s calls | `esp_lcd_panel_st7789_fix.c`, `lcd.c` |
| `Lamp` | component: the lamp and its state in flash | `led.c`, `cli.c` |
| `Wifi` | component: the station, between the console, the event task and the driver | `wifi_app.c` |
| `Console` | `Lamp` and `Wifi` under the console's commands, events and power cuts | `cli.c`, `wifi_app.c`, `http_app.c` |
| `Canvas` | abstract: what the drawing calls promise the cartridge | - |
| `Framebuffer` | the drawing calls on packed bytes; implements `Canvas` | `framebuffer.c`, `display.c` |
| `Curves` | the loops that lines and ovals are drawn by, and what they are for | `framebuffer.c` |
| `CartridgeMC`, `GameLoopMC`, `FramebufferMC` | constants and state constraints for TLC | - |
| `PlayLemmas` | facts about the operators of `Control` and `Snake` | - |
| `DebounceProofs`, `CartridgeProofs`, `GameLoopProofs`, `PanelBusProofs`, `BootProofs`, `ConsoleProofs`, `FramebufferProofs` | the theorems | - |

A component module (`Control`, `Snake`, `Lamp`, `Wifi`) has variables, an initial predicate and
one action per operation but no specification; `Debounce`, `Cartridge`,
`GameLoop` and `Console` put it into an environment. `St7789` has operators on a
record of registers, which `Boot` applies. Operators named `X_Something`, each under a
comment that begins "Mistake:", are plausible bugs in `X`. No specification uses
them; `PROJECT.json` ("mutants") pairs each with the property that notices it.

### State and actions against the code

*Buttons.* `btn[b]` is `s_last[b]`, `s_cnt[b]` and `s_fired[b]`. `Sampled` is
`pressed_once` up to its counter, `PressedOnce` its answer, `AfterSample` what it
leaves. `GetPlayerState(lvl, pad)` is the short circuit of `get_player_state`: when
the left button fires, `pressed_once` is not called for the right one, whose state
stays as it was. `pad` is the byte answered. `shadow` is `(s_dx, s_dy)`.

*Cartridge.* `CartUpdate(pad)` is the exported `update`: the frame counter is
incremented modulo `FrameWrap`, then `input` steers (bits tested down, left, right,
up, each against the direction the test before it left), then on every
`MovePeriod`-th count the snake moves and either drops its tail (`Slide`) or puts
it back and a new fruit is chosen (`Eat`). The random generator is a free choice
from `FruitCells`: the code draws a cell without looking at the snake. A dead
snake goes on moving, as in the code.

*Game loop.* One step is one iteration of the loop of `w4_windowBoot`: `Frame`
when `update` is reached, `LostFrame` when the second execution environment could
not be created in that frame (the buttons have been polled all the same), `Fault`
when a dead snake's `trace` makes the processor fault and the board restarts.
`trace` is registered with an integer argument, so what its host side reads is not
the cartridge's memory: the model allows both outcomes of that read, garbage
(the frame goes on) and a fault. `Steering`, the abstract side, has the heading the
player sees, which buttons are armed, and `steady`: the number of presses since one
was lost (`Lost`). The first after it (`FirstAfterLoss`) may be refused or turn to
the wrong side, and so may the second (`SecondAfterLoss`), after which every press
is right again.

*Panel.* `draw_bitmap` (`Enter`) is two readings of the gap, one for `x_start` and one for
`x_end` (`Measures`), and three bus transactions, `Caset`, `Raset` and `Pixels`. Each of the
three may fail (`CasetFails`, `RasetFails`, `PixelsFail`), with its command or a part of
its pixels arrived or not; the draw then ends there. `Returns` is what follows in every case, for
`lcd_draw_img` and `lcd_clear` drop the result: the game goes on to its `NextBlock`, the
console to its next line. The windows `cols` and `rows` live in the ST7789, and
keep what the last draw has put there, whole or not. Columns are cut into three zones, which
is all a gap of 24 or 0 tells apart for the pictures drawn here: the 160 columns at the gap
(`inner`, `right`), the same without it (`left`, `inner`), and whole lines (all three). A
gap that changes between the readings makes a window of `inner` alone or of all three,
whose lines do not have the picture's length (`Torn`); when it is too wide, more is
read than the block (`Source`). Rows are cut into the blocks of the game: one line of
`lcd_clear` stands for the lines of a block (they differ in nothing else), with one line
above the viewport and one below it.
External, and modelled from the calls in `src/`: ESP-IDF's panel IO makes one
transaction atomic. It may return from the pixels of a draw while it still reads
them (`reading`, the buffers), and starts no other transaction, not even one that
fails, before it is through (`BusIsFree`, `DmaEnds`). The SPI bus being initialised without
DMA, the last part has in fact been copied by then; the model allows the late read as
well, so that what it shows does not hang on that setting. `BlockBuffer` is the choice
between the two halves of `s_fb`. Two histories say what the properties are about: `quiet`,
that no command has come since the game's present draw began, and `shown`, the bands
of which such a draw has arrived since the last command.

*Panel registers.* `madctl` and `colmod` are in the panel, `madctl_val` and `colmod_val`
the driver's copies. `Initialised(r, k)` is `panel_st7789_init` when the bus loses
everything after the first `k` commands that matter; the commands of the table do
not come from the copies. `SetUp(k, lost)` is the sequence of calls in `lcd_init`, which
looks at none of their results, with the calls in `lost` failing. `LcdUp` of `Boot`
chooses `k` and `lost` freely when transactions may fail.

*Boot.* `pc` walks `app_main` or a console command through `lcd_init`,
`game_app_start` and `init_wamr`; one action is one outcome of a step, and a step
outside `MayFail` never fails. Nothing is undone on failure, as in the code, so
`bus`, `card` and `module` carry what an earlier attempt has left into the next.
The main task starts the console only when it is through, and the console runs
one command at a time, so there is one `pc`. External: `spi_bus_initialize`
refuses an initialised bus, and loading the card changes its bytes so that it
cannot be loaded again (WAMR reuses the buffer, which is not `const`).

*Lamp.* `lamp` is the level of the pin, `stored` the key `led_on` in flash, `wanted` what
the last `on` or `off` asked for. `led_set` comes first, then `nvs_open`, then `nvs_set_u8`
with the commit (`SaveBegins`, `Commits`); each may fail, and a save that fails, or that the
power interrupts, may have written or not. `cli_init` puts the lamp on
(`LampRestored`), cannot read the key, which stays in flash (`LampNotRestored`), or erases
flash (`LampErased`). `pin 26` drives the lamp past all of it. Two histories: `due` is what
flash may give back, the state of the last confirmed save and those of saves begun since then
and not confirmed; `by` is who has set the lamp last, a command, flash, a probe, or nobody
since the start.

*Wifi.* `wifi_app_join` is five steps (`JoinBegins`, `Disconnects`, `Configures`, `Requests`,
`Connects`), and the event task's `wifi_evt` (`HandleStart`, `HandleDisconnected`) runs
between any two. The driver is external and modelled by what `wifi_app.c` relies on:
it refuses to connect unless idle and configured, and a new configuration while
connecting; it may refuse one at any other time as well (`ConfigMayFail`: a password that is
too short, flash that cannot be written), which leaves the old one in force; it
keeps the configuration in flash; it tells of every lost connection or failed attempt
by an event. `wifi_app_join` looks at no result. The history `unreplaced` has the networks
that nobody typed and that such a refusal has left in force. Events are counted for each kind, for `wifi_evt` keeps nothing
between two of them, and those it only logs are left out. The handler's
test of `s_join_requested` and its connecting are one step: the flag only ever becomes
true, and a handler that reads it false does nothing. `Copied` is the `strncpy`
that cuts a name of 32 bytes. `InitOnce` has three ends: the engine is up, it has no
handler (`"deaf"`), or it does not work at all (`"dead"`); `s_wifi_started` is set in
all of them.

*Console.* `pc` is the next step of the command that runs. `fetch` and `time` are a request
that ends by its answer, a failure or its timeout, so their end needs no
connection. `Restart` is the command, a reset or a power cut, at any `pc`; flash survives it.

*Framebuffer.* `framebuffer` maps a byte and one of its four pixels to a colour;
`At`, `Row`, `Clipped`, `Sample` are the index computations of `drawPoint`,
`drawHLine` and `w4_framebufferBlit`. A write outside the framebuffer extends the
function, which `TypeOK` notices. `Canvas` has a screen of points instead, and
`ImplementsCanvas` maps it by the way `w4_windowComposite` reads the bytes
(`Shown`). Sampling one or two bits of a sprite's byte is abstracted to a function
from pixels to colours.

*Curves.* The loops of `w4_framebufferLine` and `w4_framebufferOval` depend on nothing but
their arguments, so they are operators: `LineLoop` and `OvalLoop` are functions from
the number of iterations to the values the loop's variables then have, defined by
`LineStart` and `LineAfter`, `OvalStart` and `OvalAfter` (one iteration, or nothing once
the loop is left). `IsStraight`, `IsThinAndWhole`, `IsRound`, `IsWhole` say what a line
and an oval should be. `Framebuffer` clips and colours what the loops yield; `Canvas`
is given their points as parameters, for which points a line or an oval has is the
matter of those four, not of clipping.

## 3. What TLC checks

| Run | Question | States | Answer |
|---|---|---|---|
| `debounce` | is each stable press answered once, promptly, and no bounce, with both buttons free | 324 | yes, and a held button is never starved |
| `cartridge` | what does the game promise under any gamepad byte | 208,815 | one piece, steady pace; faces or meets its neck only after two turns between moves |
| `game_loop` | do the buttons do what they promise, with frames lost or not | 174,633 | yes: the loop implements `Steering`, and after a lost turn two more put the headings in step |
| `shadow_lost` | "the shadow cannot lose step" (`control.c:19`) | - | violated |
| `reversal` | "vertical turns only while it moves horizontally" (`snake-mbt/README.md:49`, `control.c:14`) | - | violated, with the constants of the code |
| `panel` | what is left on the glass after an `lcd` command, with any transaction failing; are pixels ever overwritten while they are sent | 567,525 | a block that arrives stays, and with every block the viewport comes back; never, but for the end of a block made too long by a changing gap |
| `boot` | what is left when steps of the start fail and are retried | 8,107 | at most one game thread, the flag tells, and no command disturbs it; the copy of MADCTL tells the orientation, and a picture shows, but for the losses named |
| `console` | what do lamp and station remember and do, with flash, the engine and the configuring failing anywhere | 151,446 | the lamp comes back as last saved, or as a save broken off since; the station uses no network nobody typed, unless a refusal has left it in force, is never stranded, reconnects, and every command ends |
| `wifi_join` | does `join` connect to the network it names (`wifi_app.h:12`) | - | violated by the second of two joins |
| `framebuffer` | do clipping and filling by bytes show the shapes that were asked for; are lines and ovals what they should be, and do their loops end | 120, with 433,681 calls | yes |
| `boot_report` | does the `game` command say the truth (`PORTING.md:14`) | - | violated when a step fails unnoticed |
| `panel_race` | is a picture put where its caller asked (`lcd.h:17`) | - | violated while an `lcd` command runs |

### Bounds, and why they are enough

- `StableFrames` is 3 as in the code in `debounce` and `reversal`; it is 1 in the
  other game loop runs, where only the pulses matter. The theorems hold for all.
- `Grid` = 4 is the smallest torus on which a step and its opposite, and two steps
  and none, lead to different cells (on 3 the far edge is a neighbour of the near
  one in both directions). The code has 20.
- `MovePeriod` = 2 or 4 leaves room for zero, one and two turns between two moves;
  the code has 30. `FrameWrap` = 3 with `MovePeriod` = 2 makes the wrap come at a
  count that is no multiple of the period, as 2^32 and 30 do.
- `MaxLen` (`LengthBound`, a state constraint) = 5 is the length at which a snake
  can bite itself for the first time.
- `FruitCells`: near the start in the runs that need growth, far from it elsewhere.
- `Bands` = 2 blocks: a first and a last, one for each half of `s_fb`; the code has
  20. The number must be even, or a frame's last block and the next one's first
  would share a buffer; with 4 there are many millions of states. The theorems
  about the panel hold for every even number.
- `BusMayFail` is TRUE in `panel`, so every transaction of either task may fail at any
  time; it is FALSE in `panel_race`, whose violation needs no failure.
- `MayFail` is every step in `boot`, and `"transaction"` for the calls of `lcd_init` on
  the panel; in `boot_report`, the two steps that no output reports.
- `Networks` in `console`: one in range, and one whose name is too long, so that its cut
  copy is in range of nothing. Flash begins with either, with the cut copy or with none.
  They can be confused with each other, and the second with its copy; `wifi_join` has two
  in range.
- `ConfigMayFail` is TRUE in `console`, and FALSE in `wifi_join`, whose violation needs no
  refusal but the one while connecting.
- `EventQueue` = 2: one event that is handled late and one that comes meanwhile; the
  driver waits when there is no room.
- A screen of 12 by 2 points has rows of three bytes: a first, a last and one
  between, and a line above a line. Calls begin and end at every offset inside a
  byte, before, on and after each edge. `Painted` (a state constraint) draws on
  screens of one or two colours, so that a point coloured in error shows.
- `Slants` has lines of many slopes in all eight directions, on and off the screen;
  `Ovals` all sizes up to 9 by 9, flat, narrow, even and odd.
- `LowCap`, and the caps of 2 on `bends` and `caught`: history counters, capped at
  the first value their properties no longer tell from larger ones.

### Fairness

`Debounce` assumes weak fairness of the poll: the game thread never leaves its
loop. `PanelBus` assumes it of both tasks, which FreeRTOS schedules with a delay in
the game's loop, once there is something to do, and of the driver's reading
(`DmaEnds`), which is hardware; typing `lcd` is under no fairness. That a step is taken
does not mean that it succeeds: a transaction that fails is a step as well.

`Console` assumes weak fairness of the step a command is in, of the event task, and
of the end of an attempt to connect, which the driver limits in time. It assumes strong
fairness of two steps that can be taken away again and again: `Restore`, for the power
is not cut during every single start, and `Associates`, for an access point that is in
range and tried for ever answers some time. Commands, power cuts and dropped
connections are under no fairness. No other specification has any, for no other
run checks liveness: the loops of `Curves` are followed to their ends, for as many
iterations as there are rows and columns.

`ViewportRecovers` is the liveness property that needs a word: while commands keep
coming the viewport may stay disturbed for ever, and so it may when one block fails each
time. So the property says that *if* the console is quiet for good, and each block arrives
again and again (`Arrives`), the viewport is the game's for good, whatever fails in
between. `Reconnects` is
of the same form: if the console is quiet for good and the station is configured for a
network in range, it is connected again and again. That needs the events: each attempt
is made by the event of the one before.

## 4. What is proved

TLAPS proves, for every value of the constants that satisfies the named
assumptions:

| Theorem | Says | Inductive invariant |
|---|---|---|
| `DebounceProofs!Prompt`, `OneTurn`, `StableLow` | the three safety properties of `debounce` | `ButtonInv`: count, latch and level of a button against the history of its samples |
| `CartridgeProofs!OnePiece` | `Connected` | `Connected` with the types |
| `CartridgeProofs!OneBend` | `OneBendIsNoReversal` | itself, and `Connected` |
| `CartridgeProofs!Pace` | `KeepsPace` | `waited = frame_count % MovePeriod` |
| `CartridgeProofs!ShortSnake` | `ShortSnakeLives`, on tori of four or more | `Unfolded`: an unreversed snake's first segments are pairwise distinct |
| `GameLoopProofs!Sync` | `ShadowInSync` | a fired button is low, and `LastPulse` |
| `GameLoopProofs!Resyncs` | `ResyncsInTwoTurns` | as above, with what one and two caught turns imply |
| `GameLoopProofs!Refinement` | `Spec => Steers!Spec`, frames lost or not | as `Resyncs`; each action maps to a press, a lost press, one of the two after it, a release, a restart or a stutter |
| `PanelBusProofs!BlocksStay` | `DrawnBlocksStay` | `ConsoleInv`: outside `lcd_clear` the gap is 24, and outside the command nothing of it is under way; `QuietInv`: while bands are shown every draw of the game is a quiet one; `GameInv`: what each phase of a quiet draw has put into the two windows, so that whatever part of its pixels arrives changes its own band only |
| `PanelBusProofs!NotOverwritten` | `BlockIsNotOverwritten` | the game's next block is the other half of `s_fb` whenever the driver may still read one |
| `BootProofs!Flag`, `World`, `LeftAlone` | the properties of `boot` about the game's thread | what each stage of the start has left: the panel is open from `game_app_start` on, and a game thread only ever exists with the flag, an instance and the panel |
| `BootProofs!Orientation`, `Picture` | `CopyTellsOrientation`, `PictureShows` | what `SetUp` leaves, for every way transactions can be lost |
| `ConsoleProofs!LampKept` | `LampIsKept` | `LampInv`: what flash has is due, and so is what a commit may leave when it is broken off; until flash is read the lamp is out and nobody has set it |
| `ConsoleProofs!Asked` | `OnlyAsked` | from the configuring step of a join on, the configuration is one that was typed or could not be replaced (`ConfigAsked`), and an attempt's target is the configuration |
| `ConsoleProofs!Stranded` | `NeverStranded` | itself, with the engine off until the first command |
| `FramebufferProofs!Refinement` | `ImplementsCanvas` | `TypeOK`; per call, which places its shape is written to |
| `FramebufferProofs!Straightness`, `Thinness` | `LinesAreStraight`, `LinesAreThinAndWhole` | of the loop: what the error term is, and its bounds (`Near`) |
| `FramebufferProofs!Roundness`, `Wholeness` | `OvalsAreRound`, `OvalsAreWhole` | of the loops: `OnTrack`, with what the error term measures (`Measured`) and how near the ellipse passes (`NearEllipse`) |
| `TypeCorrect`, in each of the seven | `TypeOK` | - |

Why `ShadowInSync` needs help: the game looks at the byte only when it differs
from the previous one, so two pulses with the same bit and no other byte between
them would turn the shadow twice and the game once. `LastPulse` says that the
byte the game remembers, when it is not empty, is the bit of the shadow's own
heading; a turn always changes that bit, so the next pulse is a different byte,
and it is perpendicular to the heading, so the gates accept it. `Sync`
assumes `~EnvMayFail`, which the run `shadow_lost` shows to be necessary; `Resyncs`
and `Refinement` do not.

Why `DrawnBlocksStay` needs help: a draw that is cut off leaves one window its own and the
other one somebody else's, so nothing can be said of the windows between two draws. What
holds is that pixels are only ever sent after both windows of the same draw have arrived,
so a draw that no command came into writes to its own band or not at all. The run's
mutant sends the pixels in spite of a row window that has not arrived.

Why `OnlyAsked` needs help: flash has a configuration before anybody has typed
anything. What keeps it unused is that the handler connects only after
`s_join_requested` is set, which comes after the configuring step. The driver may refuse
that step; if nothing is connecting, the network of flash then stays in force, nobody having
typed it, and the join connects to it: this is the exception the property names
(`unreplaced`). If something is connecting, it connects to a network that was typed or is
such an exception already, so the refusal adds none: the wrong network, as `wifi_join`
shows, but one that was asked for.

Why `LampIsKept` is not simply "the lamp comes back as it was": the code does not promise
it. `led_set` comes before flash is written, no result of the writing is looked
at, and the power may go between the two. What the lamp may come back as is then one of
two states, and the property says that it is nothing else: no older save, nor what a
probe did, and exactly the last command's state once its save was confirmed.

`Pace` holds for every `FrameWrap`, 2^32 included: where the counter wraps the wait
is shorter (16 frames once in 2.3 years at 60 frames a second), never longer.

How the drawing calls are proved right. The places of memory and the points of the
screen are in one-to-one correspondence (`AtType`, `AtInjective`), so a call is right
when the places it writes are those of its shape cut to the screen (`WrittenShows`);
a place outside memory would belong to no point. The steps that take an argument of
their own:

- *Rows.* However the ends of a row lie in their bytes, its head, its whole bytes and its
  tail are the points from one end to the other (`RowPlaces`).
- *Ovals.* The iterations draw one over the other, filling over outline. The canvas
  says outline over filling. Both are the same because the first loop only closes
  in: no filling reaches a point that an iteration before it has outlined
  (`OvalCloses`, `FillInside`).
- *Pictures.* The code flips and turns the sampling, the canvas the pixels; the one is
  the inverse of the other (`TurnedPixel`), and the bounds of the loops keep just the
  pixels that go to the screen (`ClippedPixels`).
- *Text.* The code moves a position from character to character; the canvas counts line
  breaks and the characters since the last one. They agree (`PathCorner`), and the
  cells of two characters never overlap (`CellsDisjoint`), so the order does not matter.

How the loops are proved right. After `n` iterations a line is at the `n`-th column (or
row) of its longer axis, and the error term is a multiple of its distance from the
straight line, in bounds that amount to half a pixel (`NearStep`); so it also meets its
end with both coordinates at once (`NearEnd`), which is the only way out of the loop.
The error term of an oval is exactly the ellipse's polynomial `Beyond` at the point one
step across and one step down (`ScanSteps`), and `dx` and `dy` are the differences
which the two steps make to it. The tests therefore compare the middles between two
rows and two columns with the ellipse (`ScanChooses`), at least one of the steps is
always taken, and each of the three ways to step keeps the ellipse within a pixel
(`NearAfterAcross`, `NearAfterDown`, `NearAfterBoth`). The scan stays in the box because
below the last row even the middle of the oval is outside the ellipse
(`ScanStaysInBox`), and the second loop goes on where the first has stopped
(`NearAfterTip`). That no row is left out follows from steps of one row at a time
(`EveryRow`). None of this depends on the parity of the sizes, or on one of them
being small, where the first loop ends early.

Facts about a loop after any number of iterations are proved by induction, written
out over sets: `SetInduction` from the least element of a set of numbers (`Least`), and
`Recursion` for the existence of the function a loop defines.

The integers of the model are unbounded. In the code they have 32 bits, so the theorems
about ovals speak of those whose error term does not overflow: evaluated for every
size up to the screen's 160 by 160, no value of the loop exceeds 43,736,130, and the
first overflow comes with a width or height of 575.

The named assumptions are `StableFramesAssumption` (the counter is 8 bits wide),
`GridAssumption`, `PaceAssumption`, `FruitAssumption`, `EnvAssumption`,
`BandsAssumption`, `BusAssumption`, `MayFailAssumption`, `NetworksAssumption`, `QueueAssumption`,
`ConfigAssumption`, `NvsAssumption`, `SizeAssumption` (a row is whole bytes), `CallsAssumption` (the natives'
argument types; a picture's pixels are in its sheet; no empty rectangle or oval),
`FontAssumption` and `ColorsAssumption`; TLC evaluates them in the runs.

Only model-checked: the liveness properties `HeldButtonTurns`, `ViewportRecovers`,
`Reconnects` and `ConsoleComesBack` (liveness is beyond the prover), and of course the
violations. Every invariant and every action property of a passing run is a theorem.

## 5. Findings

1. **The shadow can lose step** (`wamr.c:279`, against `control.c:19`). The
   buttons are polled, and the shadow turned, before `w4_wasmCallUpdate` looks for
   `exec_env2`. If it cannot be created the pulse is lost. Two later turns mend it.
2. **Two quick presses send the snake back over its neck** (`snake.mbt:56`,
   against `snake-mbt/README.md:49` and `control.c:14-15`). The gates look at the
   pending direction; the snake moves every 30 frames.
3. **A block drawn during an `lcd` command goes to another place**
   (`esp_lcd_panel_st7789_fix.c:305`, against `lcd.h:17`). The windows are mixed with
   the console's, or the gap is 0 at one of its two readings or at both.
4. **The `game` command reports a game that cannot play** (`cli.c:192`, against
   `PORTING.md:14-16`). `game_app_start` has no result. The line is printed as well
   when the thread could not be created, and when the thread waits for ever for
   an execution environment (`display.c:36`).
5. **The second `join` may stay on the first network** (`wifi_app.c:99`, against
   `wifi_app.h:12`). The event of its own `esp_wifi_disconnect` makes the handler
   reconnect to the old network before the new configuration is set, which the
   driver then refuses, as it refuses the last connect; no result is looked at.

## 6. Not modelled

- *WAMR* (`components/wamr`) is vendored third-party code, and almost all of the
  lines in the tree; the firmware uses nine of its calls. It is external here: loading,
  instantiating and creating environments may fail (`Boot`, `GameLoop`), and a call runs the
  cartridge. The exception that an instance keeps after a trap is part of it: what a
  trapped `update` has changed already depends on the interpreter and the compiled
  card, of which neither is modelled.
- *The cartridge image* `gamecard.c` is generated; its MoonBit source is modelled.
- *The native table* of `wamr.c` is data. The one entry whose type has an effect on the
  game, `trace`, is in `GameLoop`. The disk, mouse, `tracef` and serialising functions of
  `runtime.c` have no caller in the firmware or the cartridge; the sound is a stub.
- *The rest of `display.c` and `runtime.c`*: the call of `start`, whose effect is the
  cartridge's initial state; the clearing of the framebuffer before an update, which
  `Framebuffer` has as a call; the conversion of a colour to RGB565.
- *The body of an http answer*: the client library has read it when `http_app_get` asks
  for it (`http_app.c:49`), a fixed sequence of external calls without state.
- *Probing pins other than the lamp's*: a free pin is connected to nothing, and that of a
  button gives levels which `Debounce` and `GameLoop` allow anyway. Pins 13 and 14 are the
  console's own USB.
- *`lcd` and `game` in `Console`*: they share no state with the lamp and the station, and
  are in `PanelBus` and `Boot`.
- *Other refusals of the Wi-Fi driver*: a call to connect that is refused although the
  station is idle and configured, and a configuration that the driver takes but does not get
  into flash.
- Pure data or output: logging, wording, palettes, `util`, `strnlen`.

Worth doing next: the error term of an oval in 32 bits, where `Curves` has unbounded
integers.
