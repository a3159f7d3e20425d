-------------------------- MODULE SetpointControl --------------------------
(***************************************************************************)
(* Home Assistant's setpoint commands (mqtt/mqtt.go) and the cache they    *)
(* are decided on.  The poller refreshes the cache from two table reads    *)
(* (GetConfig in infinity/api.go).  A command is decided on the cached     *)
(* configuration, not on the thermostat's, and writes only what differs    *)
(* from it.  paho delivers commands one at a time, so that there is one    *)
(* command in progress at most; HTTP requests and the wall unit change the *)
(* setpoints at any time.  A call of the bus is one step here, and fails   *)
(* or succeeds; module Bus models what is inside.                          *)
(*                                                                         *)
(* The thermostat is external.  It is taken to apply the fields a write    *)
(* selects, to the zone the write names.                                   *)
(***************************************************************************)
EXTENDS Setpoints

CONSTANTS
  Zones,      \* of the thermostat
  Zone,       \* the one MQTT exposes
  Temps,      \* setpoints the wall unit and HTTP requests choose from
  Asks,       \* temperatures Home Assistant asks for
  Modes,      \* "heat", "cool", "auto", ...
  Unknown     \* no such configuration, or field left alone

\* The zone the poller reads.
PolledZone == 1

ASSUME ControlAssumption ==
  /\ PolledZone \in Zones /\ Zone \in Zones
  /\ Temps \subseteq Uint8 /\ Asks \subseteq Int
  /\ Unknown \notin Int

\* No sum or difference wraps round.  The add-on's schema gives the first two: a
\* spread of 10 at most, a maximum of 45 to 105 (config.yaml:75-77).  That the
\* thermostat's own setpoints leave room for the spread below 256 is assumed of
\* the thermostat.  The range may be narrower than the spread.
ASSUME NoWrapAssumption ==
  /\ MinSetpointSpread <= MaxSetpoint
  /\ MaxSetpoint + MinSetpointSpread \in Uint8
  /\ \A t \in Temps : t + MinSetpointSpread \in Uint8

Pairs == [heat : Uint8, cool : Uint8]
Apart(p) == p.cool >= p.heat + MinSetpointSpread
Configs == [heat : Uint8, cool : Uint8, mode : Modes]

\* What a write selects: the fields that differ from the cached ones.
Updates == [heat : Uint8 \union {Unknown}, cool : Uint8 \union {Unknown}]
NoUpdate == [heat |-> Unknown, cool |-> Unknown]

(***************************************************************************)
(* A command in progress: which setpoint it asks for, the temperature, and *)
(* once decided the setpoints to write.  Two fields are history.  tight:   *)
(* by the cached setpoints, the spread had to be made.  fresh: these were  *)
(* the thermostat's then, and nobody else has changed those since.         *)
(***************************************************************************)
Range == MinSetpoint .. MaxSetpoint

Commands == [pc : {"decide", "write"}, asked : {"heat", "cool"}, temp : Range,
             update : Updates, tight : BOOLEAN, fresh : BOOLEAN]

ASSUME NoCommandAssumption == Unknown \notin Commands

VARIABLES
  setpoints,   \* the thermostat's, of every zone
  mode,        \* the thermostat's
  polled,      \* the zone params GetConfig has read, before its second read
  cached,      \* the configuration under the cache's tstat key
  command      \* the command in progress

vars == <<setpoints, mode, polled, cached, command>>

TypeOK ==
  /\ setpoints \in [Zones -> Pairs]
  /\ mode \in Modes
  /\ polled \in Pairs \union {Unknown}
  /\ cached \in Configs \union {Unknown}
  /\ command \in Commands \union {Unknown}

Init ==
  /\ setpoints \in [Zones -> [heat : Temps, cool : Temps]]
  /\ mode \in Modes
  /\ polled = Unknown
  /\ cached = Unknown
  /\ command = Unknown

-----------------------------------------------------------------------------
(* The poller.                                                             *)

\* GetConfig's first read succeeds.
PollParams ==
  /\ polled = Unknown
  /\ polled' = setpoints[PolledZone]
  /\ UNCHANGED <<setpoints, mode, cached, command>>

\* Mutant: the configuration is only cached when there is none.
CacheOnce ==
  /\ polled # Unknown
  /\ cached' = IF cached = Unknown THEN [heat |-> polled.heat, cool |-> polled.cool, mode |-> mode]
               ELSE cached
  /\ polled' = Unknown
  /\ UNCHANGED <<setpoints, mode, command>>

\* The second read succeeds, and the cache is updated.
PollCurrent ==
  /\ polled # Unknown
  /\ cached' = [heat |-> polled.heat, cool |-> polled.cool, mode |-> mode]
  /\ polled' = Unknown
  /\ UNCHANGED <<setpoints, mode, command>>

\* The second read fails.
PollFails ==
  /\ polled # Unknown
  /\ polled' = Unknown
  /\ UNCHANGED <<setpoints, mode, cached, command>>

-----------------------------------------------------------------------------
(* Commands.                                                               *)

Ask(field, t) ==
  command' = [pc |-> "decide", asked |-> field, temp |-> Clamp(t), update |-> NoUpdate,
              tight |-> FALSE, fresh |-> FALSE]

\* setTemperatureLow, setTemperatureHigh.
SetTemperatureOf(field, t) ==
  /\ command = Unknown
  /\ Ask(field, t)
  /\ UNCHANGED <<setpoints, mode, polled, cached>>

\* setTemperature: the cached mode says which setpoint is meant, or the
\* command is refused.
SetTemperature(t) ==
  /\ command = Unknown
  /\ cached # Unknown
  /\ \/ cached.mode \in {"heat", "electric", "heatpump"} /\ Ask("heat", t)
     \/ cached.mode = "cool" /\ Ask("cool", t)
  /\ UNCHANGED <<setpoints, mode, polled, cached>>

\* Mutant: both setpoints are in the update.
BothOf(new, old) == [heat |-> new.heat, cool |-> new.cool]

\* Only the setpoints that differ from the cached ones are in the update.
Differing(new, old) ==
  LET changed(f) == IF new[f] # old[f] THEN new[f] ELSE Unknown
  IN  [heat |-> changed("heat"), cool |-> changed("cool")]

CachedPair == [heat |-> cached.heat, cool |-> cached.cool]

\* setSetpoints with a cached configuration: nothing to write, or a write.
Decide ==
  /\ command # Unknown /\ command.pc = "decide"
  /\ cached # Unknown
  /\ LET old == CachedPair
         wanted == [old EXCEPT ![command.asked] = command.temp]
         new == IF command.asked = "heat" THEN WithHeat(command.temp, old.cool)
                                          ELSE WithCool(old.heat, command.temp)
     IN  command' = IF new = old THEN Unknown
                    ELSE [command EXCEPT !.pc = "write", !.update = Differing(new, old),
                                         !.tight = ~Apart(wanted),
                                         !.fresh = old = setpoints[Zone]]
  /\ UNCHANGED <<setpoints, mode, polled, cached>>

\* setSetpoints without one: an error.
Refuse ==
  /\ command # Unknown /\ command.pc = "decide"
  /\ cached = Unknown
  /\ command' = Unknown
  /\ UNCHANGED <<setpoints, mode, polled, cached>>

\* The zone's setpoints with the update applied.
Written ==
  LET after(f) == IF command.update[f] = Unknown THEN setpoints[Zone][f] ELSE command.update[f]
  IN  [heat |-> after("heat"), cool |-> after("cool")]

\* SetZoneConfig's write succeeds.
Write ==
  /\ command # Unknown /\ command.pc = "write"
  /\ setpoints' = [setpoints EXCEPT ![Zone] = Written]
  /\ command' = Unknown
  /\ UNCHANGED <<mode, polled, cached>>

\* It fails: not done, or done and not acknowledged.
WriteFails ==
  /\ command # Unknown /\ command.pc = "write"
  /\ setpoints' \in {setpoints, [setpoints EXCEPT ![Zone] = Written]}
  /\ command' = Unknown
  /\ UNCHANGED <<mode, polled, cached>>

-----------------------------------------------------------------------------
\* Somebody at the wall unit, the schedule, or PUT /api/zone/:zone/config.
ChangeSetpoints(z, p) ==
  /\ setpoints[z] # p
  /\ setpoints' = [setpoints EXCEPT ![z] = p]
  /\ command' = IF command # Unknown /\ z = Zone THEN [command EXCEPT !.fresh = FALSE] ELSE command
  /\ UNCHANGED <<mode, polled, cached>>

ChangeMode(m) ==
  /\ mode # m
  /\ mode' = m
  /\ UNCHANGED <<setpoints, polled, cached, command>>

Next == \/ PollParams \/ PollCurrent \/ PollFails
        \/ \E t \in Asks : SetTemperature(t) \/ \E f \in {"heat", "cool"} : SetTemperatureOf(f, t)
        \/ Decide \/ Refuse \/ Write \/ WriteFails
        \/ \E z \in Zones, p \in [heat : Temps, cool : Temps] : ChangeSetpoints(z, p)
        \/ \E m \in Modes : ChangeMode(m)

Spec == Init /\ [][Next]_vars

\* The poller polls every second, and the thermostat keeps answering: not
\* every poll fails.
FairSpec == Spec /\ SF_vars(PollParams) /\ SF_vars(PollCurrent)

-----------------------------------------------------------------------------
(* Properties.                                                             *)

\* What becomes of setpoint pair from when temp is requested.  With the spread
\* kept, nothing else moves.  Otherwise the other setpoint moves to the spread
\* exactly, or to MinSetpoint; and at the top it is the request that gives way.
Exact(asked, temp, from, p) ==
  LET wanted == [from EXCEPT ![asked] = temp]
      noRoomAbove == asked = "heat" /\ temp > MaxSetpoint - MinSetpointSpread
      noRoomBelow == asked = "cool" /\ temp < MinSetpoint + MinSetpointSpread
  IN  IF Apart(wanted) THEN p = wanted
      ELSE /\ p[asked] = IF noRoomAbove THEN MaxSetpoint - MinSetpointSpread ELSE temp
           /\ IF noRoomBelow THEN p.heat = MinSetpoint ELSE p.cool = p.heat + MinSetpointSpread

(***************************************************************************)
(* A command decided on what the thermostat really has, and written before *)
(* anybody else changes it, leaves exactly the request and the spread.     *)
(* "Always honoured" (mqtt.go:674) is not quite what it leaves: a heat     *)
(* setpoint with no room above it is lowered to MaxSetpoint -              *)
(* MinSetpointSpread (lines 703-706), and a cool one near MinSetpoint gets *)
(* less than the spread (lines 695-696).                                   *)
(***************************************************************************)
FreshCommandsAreExact ==
  [][\/ Decide /\ command' = Unknown /\ CachedPair = setpoints[Zone]
     \/ Write /\ command.fresh
     => Exact(command.asked, command.temp, setpoints[Zone], setpoints'[Zone])]_vars

Other(field) == IF field = "heat" THEN "cool" ELSE "heat"

(***************************************************************************)
(* However old the cached setpoints a command was decided on, its write    *)
(* undoes nobody's change of the setpoint it was not asked for, unless by  *)
(* those cached setpoints the spread had to be made: setSetpoints selects  *)
(* only what differs from the cache (mqtt.go:712-718).                     *)
(***************************************************************************)
OthersChangesKept ==
  [][\A f \in {"heat", "cool"} :
       /\ command # Unknown /\ command' = Unknown /\ command.asked = Other(f)
       /\ setpoints'[Zone][f] # setpoints[Zone][f]
       => command.tight]_vars

(***************************************************************************)
(* "Which zone to expose" (DOCS.md:40): when the setpoints of MQTT's zone  *)
(* and the mode stop changing, the cached configuration MQTT publishes and *)
(* decides on is theirs, never a mix of two polls or an older one.         *)
(***************************************************************************)
CacheFollowsZone ==
  <>[][UNCHANGED <<setpoints[Zone], mode>>]_vars
    => <>[](cached = [heat |-> setpoints[Zone].heat, cool |-> setpoints[Zone].cool, mode |-> mode])
=============================================================================
