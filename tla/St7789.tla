------------------------------- MODULE St7789 -------------------------------
(***************************************************************************)
(* The panel's registers and the copies the driver keeps of two of them    *)
(* (components/BSP/LCD/esp_lcd_panel_st7789_fix.c), as lcd_init (lcd.c)    *)
(* sets them up.  Every command is a transaction on the bus that may fail: *)
(* panel_st7789_init gives up at the first that does, and lcd_init looks   *)
(* at the result of none of its calls.                                     *)
(*                                                                         *)
(* Registers that keep one value and are never read by the driver (gamma,  *)
(* porch, voltages) are left out.  An operator named X_Something is a      *)
(* plausible mistake in X.                                                 *)
(***************************************************************************)
EXTENDS Naturals

Bit == {"MX", "MY", "MV", "BGR"}

\* The pixel formats of COLMOD; 18 bits is what the chip starts with.
Format  == {"0x55", "0x05", "0x66"}
Sixteen == {"0x55", "0x05"}

Registers ==
  [madctl : SUBSET Bit, madctl_val : SUBSET Bit,
   colmod : Format, colmod_val : Format,
   awake : BOOLEAN, inverted : BOOLEAN, shows : BOOLEAN]

\* esp_lcd_new_panel_st7789 with lcd_init's configuration (RGB, 16 bits per
\* pixel), after panel_st7789_reset.
NewPanel ==
  [madctl |-> {}, madctl_val |-> {}, colmod |-> "0x66", colmod_val |-> "0x55",
   awake |-> FALSE, inverted |-> FALSE, shows |-> FALSE]

\* panel_st7789_init: the commands that matter, in their order, of which the
\* first k have reached the panel.  Those of converted_code follow the four of
\* the driver and do not come from the copies.
InitCommands == 7

Initialised(r, k) ==
  [r EXCEPT
    !.awake    = @ \/ k >= 1,                             \* SLPOUT
    !.madctl   = IF k >= 4 THEN {}                        \* converted_code
                 ELSE IF k >= 2 THEN r.madctl_val ELSE @,
    !.colmod   = IF k >= 5 THEN "0x05"                    \* converted_code
                 ELSE IF k >= 3 THEN r.colmod_val ELSE @,
    !.inverted = @ \/ k >= 6,                             \* INVON
    !.shows    = @ \/ k >= 7]                             \* DISPON

\* Mistake: the command inverts what there is.
Inverted_Toggles(r, sent) == [r EXCEPT !.inverted = IF sent THEN ~@ ELSE @]

\* panel_st7789_invert_color(true).
Inverted(r, sent) == [r EXCEPT !.inverted = @ \/ sent]

\* MADCTL is written from the copy, which has the bit whether or not it arrives.
Oriented(r, bits, sent) ==
  [r EXCEPT !.madctl_val = bits, !.madctl = IF sent THEN bits ELSE @]

\* Mistake: the bit goes to the panel and not to the copy.
Swapped_NotInCopy(r, sent) ==
  [r EXCEPT !.madctl = IF sent THEN r.madctl_val \cup {"MV"} ELSE @]

\* panel_st7789_swap_xy(true).
Swapped(r, sent) == Oriented(r, r.madctl_val \cup {"MV"}, sent)

\* panel_st7789_mirror(true, false).
Mirrored(r, sent) == Oriented(r, (r.madctl_val \cup {"MX"}) \ {"MY"}, sent)

\* panel_st7789_disp_on_off(true).
Switched(r, sent) == [r EXCEPT !.shows = @ \/ sent]

-----------------------------------------------------------------------------
\* The calls of lcd_init on a new panel.
Call == {"init", "invert", "swap_xy", "mirror", "disp_on"}

\* What they leave, when the first k commands of the initialisation arrive and
\* the calls in `lost' fail.
SetUp(k, lost) ==
  LET arrives(c) == c \notin lost
      wake     == Initialised(NewPanel, k)
      inverted == Inverted(wake, arrives("invert"))
      swapped  == Swapped(inverted, arrives("swap_xy"))
      mirrored == Mirrored(swapped, arrives("mirror"))
  IN  Switched(mirrored, arrives("disp_on"))

Landscape == {"MV", "MX"}
=============================================================================
