---------------------------- MODULE Conversions ----------------------------
(***************************************************************************)
(* The bytes that stand for modes and fan modes in the thermostat's tables *)
(* (infinity/conversions.go), the daemon's names for them, and Home        *)
(* Assistant's (mqtt/mqtt.go, mqtt/discovery.go).  A conversion that can   *)
(* refuse is a function whose domain is what it accepts.                   *)
(***************************************************************************)
EXTENDS Naturals

\* The low four bits of the mode byte: the rest is the stage.
RawModeToString(raw) ==
  CASE raw = 0 -> "heat" [] raw = 1 -> "cool" [] raw = 2 -> "auto"
    [] raw = 3 -> "electric" [] raw \in {4, 5} -> "off" [] OTHER -> "unknown"

\* Mutant: off as upstream wrote it.
OffIsFive == [heat |-> 0, cool |-> 1, auto |-> 2, off |-> 5]

\* "electric" can be read, but not written.
StringModeToRaw == [heat |-> 0, cool |-> 1, auto |-> 2, off |-> 4]

RawFanModeToString(raw) ==
  CASE raw = 0 -> "auto" [] raw = 1 -> "low" [] raw = 2 -> "med" [] raw = 3 -> "high"
    [] OTHER -> "unknown"

StringFanModeToRaw == [auto |-> 0, low |-> 1, med |-> 2, high |-> 3]

-----------------------------------------------------------------------------
(* Home Assistant's names.                                                 *)

haMode == [off |-> "off", heat |-> "heat", cool |-> "cool", auto |-> "heat_cool",
           electric |-> "heat", heatpump |-> "heat"]

\* The payloads a mode command may have.
infinitiveMode == [off |-> "off", heat |-> "heat", cool |-> "cool",
                   heat_cool |-> "auto", auto |-> "auto"]

\* Mutant: a fan mode that is not translated.
SameName == [auto |-> "auto", low |-> "low", med |-> "med", high |-> "high"]

haFanMode == [auto |-> "auto", low |-> "low", med |-> "medium", high |-> "high"]

infinitiveFanMode == [auto |-> "auto", low |-> "low", medium |-> "med", med |-> "med",
                      high |-> "high"]

\* setPreset: whether a payload holds the zone.
HoldOfPreset == [p \in {"hold", "none", "None", ""} |-> p = "hold"]

\* What discovery offers: "none" is implicit.
OfferedModes(autoMode) ==
  {"off", "heat", "cool"} \union (IF autoMode THEN {"heat_cool"} ELSE {})
OfferedFanModes == {"auto", "low", "medium", "high"}
OfferedPresets == {"hold", "none"}
=============================================================================
