-------------------------------- MODULE Lamp --------------------------------
(***************************************************************************)
(* The lamp: its pin (components/BSP/LED/led.c) and the state that the     *)
(* commands `on' and `off' of components/cli/cli.c keep of it in flash,    *)
(* for it to come back after a restart.                                    *)
(*                                                                         *)
(* NVS is external.  Opening it, setting the key and committing it may     *)
(* fail; what was set and not committed may be kept or not, also when the  *)
(* power goes meanwhile.  A key that was never written reads as 0, as      *)
(* led_on is when it is absent.                                            *)
(*                                                                         *)
(* An operator named X_Something is a plausible mistake in X.              *)
(***************************************************************************)

CONSTANT NvsMayFail   \* the partition may be full, worn out or of another version

ASSUME NvsAssumption == NvsMayFail \in BOOLEAN

VARIABLES
  lamp,      \* the level of LED_GPIO
  stored,    \* led_on in flash
  wanted,    \* the state the last `on' or `off' since the start asked for
  by,        \* history: who has set the lamp last
  due        \* history: what the last save that was confirmed has asked for, and
             \*          those begun since then and not confirmed

lampVars == <<lamp, stored, wanted, by, due>>

LampTypeOK ==
  /\ lamp \in BOOLEAN /\ stored \in BOOLEAN /\ wanted \in BOOLEAN
  /\ by \in {"command", "flash", "probe", "nobody"}
  /\ due \in SUBSET BOOLEAN

LampInit ==
  /\ lamp = FALSE /\ stored = FALSE /\ wanted = FALSE
  /\ by = "nobody" /\ due = {FALSE}

-----------------------------------------------------------------------------
\* led_set, the first step of both commands.
LedSet(on) ==
  /\ lamp' = on /\ wanted' = on
  /\ by' = "command"
  /\ UNCHANGED <<stored, due>>

\* led_state_save, once flash is open.
SaveBegins ==
  /\ due' = due \cup {wanted}
  /\ UNCHANGED <<lamp, stored, wanted, by>>

\* Mistake: nvs_commit is forgotten.
Commits_Forgotten ==
  /\ stored' \in {stored, wanted}
  /\ due' = {wanted}
  /\ UNCHANGED <<lamp, wanted, by>>

\* nvs_set_u8 and nvs_commit.
Commits ==
  /\ stored' = wanted
  /\ due' = {wanted}
  /\ UNCHANGED <<lamp, wanted, by>>

\* One of them fails, and no result is looked at: flash has the state or not.
CommitFails ==
  /\ NvsMayFail
  /\ stored' \in {stored, wanted}
  /\ UNCHANGED <<lamp, wanted, by, due>>

\* led_probe refuses the pins of the panel, the power and the boot button; the
\* lamp's own is not among them.
Probe(on) ==
  /\ lamp' = on
  /\ by' = "probe"
  /\ UNCHANGED <<stored, wanted, due>>

-----------------------------------------------------------------------------
\* A restart, or the power, between two steps; led_init puts the lamp out.
LampRestart(committing) ==
  /\ lamp' = FALSE /\ wanted' = FALSE /\ by' = "nobody"
  /\ stored' \in IF committing THEN {stored, wanted} ELSE {stored}
  /\ UNCHANGED due

\* cli_init: the lamp is put on if it is to be.
LampRestored ==
  /\ lamp' = stored /\ by' = "flash"
  /\ UNCHANGED <<stored, wanted, due>>

\* The key cannot be read this time; it is still there.
LampNotRestored ==
  /\ NvsMayFail
  /\ UNCHANGED lampVars

\* nvs_flash_erase, which takes the network's configuration with it.
LampErased ==
  /\ NvsMayFail
  /\ stored' = FALSE /\ due' = {FALSE}
  /\ UNCHANGED <<lamp, wanted, by>>
=============================================================================
