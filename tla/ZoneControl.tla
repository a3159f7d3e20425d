---------------------------- MODULE ZoneControl ----------------------------
(***************************************************************************)
(* SetZoneConfig in infinity/api.go and the two ways to it: the handler of *)
(* PUT /api/zone/:zone/config (webserver.go), one goroutine per request,   *)
(* and Home Assistant's mode, fan and preset commands (mqtt/mqtt.go).  An  *)
(* update is applied in up to three calls of the bus: a read of the hold   *)
(* bits of every zone, a write of the zone's parameters, and a write of    *)
(* the mode.  Calls of other goroutines are served between them.           *)
(*                                                                         *)
(* A call of the bus is one step here, which succeeds, or fails with or    *)
(* without having been carried out; module Bus models what is inside.  The *)
(* two setpoints of a zone are treated alike, and are one field.  The      *)
(* thermostat is external: it applies the fields the flags select, and is  *)
(* taken to ignore the zeros sent for the other zones, but for the hold    *)
(* bits, which are one byte.  A mode byte it has no mode for it            *)
(* acknowledges and ignores (conversions.go:40).                           *)
(***************************************************************************)
EXTENDS Conversions, FiniteSets

CONSTANTS
  Requests,      \* the goroutines that serve PUT requests
  Mqtt,          \* the one that handles commands, paho's
  Zones,         \* of the thermostat
  MqttZone,      \* b.cfg.Zone
  AutoMode,      \* b.cfg.AutoMode
  RawFanModes,   \* the thermostat has, as it encodes them
  RawModes,      \* the same
  Setpoints,     \* other than 0
  Invalid,       \* any other fan mode or mode
  Absent,        \* a nil field of a ZoneUpdate
  MaxCalls       \* bound: updates in progress at the same time

\* The zone the poller reads, whichever MQTT exposes.
PolledZone == 1

Callers == Requests \union {Mqtt}

\* The names of the thermostat's.
FanModes == {RawFanModeToString(r) : r \in RawFanModes}
Modes == {RawModeToString(r) : r \in RawModes}

ASSUME ZoneAssumption ==
  /\ Mqtt \notin Requests
  /\ MqttZone \in Zones /\ PolledZone \in Zones
  /\ AutoMode \in BOOLEAN
  /\ MaxCalls \in Nat \ {0}
  /\ RawFanModes \subseteq 0 .. 3 /\ RawModes \subseteq 0 .. 4
  /\ 0 \notin Setpoints
  /\ Invalid \notin DOMAIN StringFanModeToRaw \union DOMAIN StringModeToRaw
  /\ Absent \notin DOMAIN StringFanModeToRaw \union DOMAIN StringModeToRaw
  /\ Absent \notin FanModes \union Modes \union {Invalid}
  /\ Absent \notin Setpoints \union {0}
  /\ Absent \notin BOOLEAN

\* infinity.ZoneUpdate.
Updates == [fan : FanModes \union {Invalid, Absent}, hold : BOOLEAN \union {Absent},
            setpoint : Setpoints \union {Absent}, mode : Modes \union {Invalid, Absent}]
NoUpdate == [fan |-> Absent, hold |-> Absent, setpoint |-> Absent, mode |-> Absent]

\* The thermostat's tables, as far as they can be written here.
Thermostats == [fan : [Zones -> RawFanModes], hold : SUBSET Zones,
                setpoint : [Zones -> Setpoints], mode : RawModes]

(***************************************************************************)
(* A SetZoneConfig in progress: the bus call it makes next, its arguments, *)
(* and the hold bits it has computed.  before is history: the thermostat   *)
(* when it was called.                                                     *)
(***************************************************************************)
InProgress == [next : {"readHold", "writeParams", "writeMode"}, zone : Zones,
               update : Updates, holds : SUBSET Zones, before : Thermostats]

Results == {"ok", "error"}

VARIABLES
  thermostat,
  call       \* each caller's SetZoneConfig, or what its latest one returned

vars == <<thermostat, call>>

TypeOK ==
  /\ thermostat \in Thermostats
  /\ call \in [Callers -> InProgress \union [returned : Results]]

Init ==
  /\ \E f \in RawFanModes, s \in Setpoints, m \in RawModes :
       thermostat = [fan |-> [z \in Zones |-> f], hold |-> {},
                     setpoint |-> [z \in Zones |-> s], mode |-> m]
  /\ call = [c \in Callers |-> [returned |-> "ok"]]

Busy(c) == "next" \in DOMAIN call[c]
At(c, step) == Busy(c) /\ call[c].next = step

CallsInProgress == Cardinality({c \in Callers : Busy(c)})

-----------------------------------------------------------------------------
(* SetZoneConfig.                                                          *)

\* SetZoneHold.
SetZoneHold(zoneHold, z, hold) == IF hold THEN zoneHold \union {z} ELSE zoneHold \ {z}

\* flags # 0.
WritesParams(u) == u.fan # Absent \/ u.hold # Absent \/ u.setpoint # Absent

\* What comes once the parameters are written: only now is the mode looked at.
AfterParams(u) == IF u.mode = Absent THEN "ok"
                  ELSE IF u.mode \in DOMAIN StringModeToRaw THEN "writeMode"
                  ELSE "error"

\* Mutant: the hold bits are not read first.
FirstUnread(u) ==
  IF u.fan \notin DOMAIN StringFanModeToRaw \union {Absent} THEN "error"
  ELSE IF WritesParams(u) THEN "writeParams"
  ELSE AfterParams(u)

\* What comes first.
First(u) ==
  IF u.fan \notin DOMAIN StringFanModeToRaw \union {Absent} THEN "error"
  ELSE IF u.hold # Absent THEN "readHold"
  ELSE IF WritesParams(u) THEN "writeParams"
  ELSE AfterParams(u)

\* c, whose call is then, goes on to step, or returns it.
Goto(c, then, step) ==
  call' = [call EXCEPT ![c] = IF step \in Results THEN [returned |-> step]
                                                  ELSE [then EXCEPT !.next = step]]

\* It is called with zone z, in 1 to 8, and update u.
SetZoneConfig(c, z, u) ==
  /\ ~Busy(c) /\ CallsInProgress < MaxCalls
  /\ Goto(c, [next |-> "readHold", zone |-> z, update |-> u, holds |-> {},
              before |-> thermostat], First(u))
  /\ UNCHANGED thermostat

ReadHold(c) ==
  /\ At(c, "readHold")
  /\ \/ Goto(c, [call[c] EXCEPT !.holds = SetZoneHold(thermostat.hold, call[c].zone,
                                                      call[c].update.hold)], "writeParams")
     \/ Goto(c, call[c], "error")
  /\ UNCHANGED thermostat

\* Thermostat t once it has applied the fields that u selects.
Apply(t, z, u, zoneHold) ==
  [t EXCEPT !.fan[z] = IF u.fan = Absent THEN @ ELSE StringFanModeToRaw[u.fan],
            !.hold = IF u.hold = Absent THEN @ ELSE zoneHold,
            !.setpoint[z] = IF u.setpoint = Absent THEN @ ELSE u.setpoint]

ApplyMode(t, mode) ==
  LET raw == StringModeToRaw[mode] IN [t EXCEPT !.mode = IF raw \in RawModes THEN raw ELSE @]

WithParams(c) == Apply(thermostat, call[c].zone, call[c].update, call[c].holds)
WithMode(c) == ApplyMode(thermostat, call[c].update.mode)

\* Mutant: a write that failed is not noticed.
WriteParamsUnchecked(c) ==
  /\ At(c, "writeParams")
  /\ thermostat' \in {thermostat, WithParams(c)}
  /\ Goto(c, call[c], AfterParams(call[c].update))

\* The bus call succeeds, or fails: not done, or done and not acknowledged.
WriteParams(c) ==
  /\ At(c, "writeParams")
  /\ \/ /\ thermostat' = WithParams(c)
        /\ Goto(c, call[c], AfterParams(call[c].update))
     \/ /\ thermostat' \in {thermostat, WithParams(c)}
        /\ Goto(c, call[c], "error")

WriteMode(c) ==
  /\ At(c, "writeMode")
  /\ \/ thermostat' = WithMode(c) /\ Goto(c, call[c], "ok")
     \/ thermostat' \in {thermostat, WithMode(c)} /\ Goto(c, call[c], "error")

-----------------------------------------------------------------------------
(* Its callers.                                                            *)

\* A request's JSON: a setpoint of 0 stands for one that is not supplied.
Bodies == [fan : FanModes \union {Invalid, Absent}, hold : BOOLEAN \union {Absent},
           setpoint : Setpoints \union {0}, mode : Modes \union {Invalid, Absent}]

\* Mutant: a setpoint that is not supplied is written.
UpdateOfAll(body) == body

UpdateOf(body) == [body EXCEPT !.setpoint = IF @ = 0 THEN Absent ELSE @]

PutZoneConfig(c, z, body) == SetZoneConfig(c, z, UpdateOf(body))

\* The payloads for what the thermostat has.
ModePayloads == {p \in DOMAIN infinitiveMode : infinitiveMode[p] \in Modes}
FanPayloads == {p \in DOMAIN infinitiveFanMode : infinitiveFanMode[p] \in FanModes}

\* setMode, with a payload infinitiveMode has a mode for.
SetMode(payload) ==
  LET mode == infinitiveMode[payload]
  IN  /\ mode = "auto" => AutoMode
      /\ SetZoneConfig(Mqtt, MqttZone, [NoUpdate EXCEPT !.mode = mode])

SetFanMode(payload) ==
  SetZoneConfig(Mqtt, MqttZone, [NoUpdate EXCEPT !.fan = infinitiveFanMode[payload]])

SetPreset(payload) ==
  SetZoneConfig(Mqtt, MqttZone, [NoUpdate EXCEPT !.hold = HoldOfPreset[payload]])

\* The wall unit, or the schedule (external).  Only between updates: what it
\* does during one is out of the daemon's hands.
UseWallUnit ==
  /\ CallsInProgress = 0
  /\ \/ \E z \in Zones, h \in BOOLEAN :
          thermostat' = [thermostat EXCEPT !.hold = SetZoneHold(@, z, h)]
     \/ \E m \in RawModes : thermostat' = [thermostat EXCEPT !.mode = m]
  /\ UNCHANGED call

Next == \/ \E c \in Requests, z \in Zones, body \in Bodies : PutZoneConfig(c, z, body)
        \/ \E p \in ModePayloads : SetMode(p)
        \/ \E p \in FanPayloads : SetFanMode(p)
        \/ \E p \in DOMAIN HoldOfPreset : SetPreset(p)
        \/ \E c \in Callers : ReadHold(c) \/ WriteParams(c) \/ WriteMode(c)
        \/ UseWallUnit

Spec == Init /\ [][Next]_vars

-----------------------------------------------------------------------------
(* What Home Assistant is shown of it: GetConfig, and buildState from that. *)

\* A mode the entity was not told about is left out.
ShownMode(t) ==
  LET mode == RawModeToString(t.mode)
  IN  IF mode \in DOMAIN haMode /\ (haMode[mode] = "heat_cool" => AutoMode) THEN haMode[mode]
      ELSE Absent

ShownFan(t) ==
  LET fan == RawFanModeToString(t.fan[PolledZone])
  IN  IF fan \in DOMAIN haFanMode THEN haFanMode[fan] ELSE Absent

BuildState(t) == [mode |-> ShownMode(t), fan |-> ShownFan(t),
                  preset |-> IF PolledZone \in t.hold THEN "hold" ELSE "none"]

-----------------------------------------------------------------------------
(* Properties.                                                             *)

\* The thermostat that update u asks for, if it is t now.
Applied(t, z, u) ==
  LET changed == Apply(t, z, u, IF u.hold = Absent THEN t.hold ELSE SetZoneHold(t.hold, z, u.hold))
  IN  IF u.mode = Absent THEN changed
      ELSE [changed EXCEPT !.mode = StringModeToRaw[u.mode]]

Returns(c, r) == Busy(c) /\ call'[c] = [returned |-> r]

(***************************************************************************)
(* nil means done: an update that nobody interferes with leaves the        *)
(* thermostat exactly as it was but for what the update asks for, in the   *)
(* zone it names, whichever calls of the bus it took.                      *)
(***************************************************************************)
OkIsApplied ==
  [][\A c \in Callers :
       Returns(c, "ok") =>
         thermostat' = Applied(call[c].before, call[c].zone, call[c].update)]_vars

(***************************************************************************)
(* What an error may leave behind: the mode is written last, and so has    *)
(* only changed if all the rest of the update is in place.                 *)
(***************************************************************************)
ErrorIsPrefix ==
  [][\A c \in Callers :
       Returns(c, "error") /\ thermostat'.mode # call[c].before.mode =>
         thermostat' = Applied(call[c].before, call[c].zone, call[c].update)]_vars

(***************************************************************************)
(* "leaving every other zone's bit untouched" (zonehold.go:21): a write of *)
(* the parameters changes the hold bit of no zone but the update's.        *)
(***************************************************************************)
OtherHoldsUntouched ==
  [][\A c \in Callers :
       At(c, "writeParams") /\ call'[c] # call[c] =>
         \A z \in Zones \ {call[c].zone} : z \in thermostat'.hold <=> z \in thermostat.hold]_vars

(***************************************************************************)
(* A command for a mode, fan mode or preset the card offers, that nobody   *)
(* interferes with and that returns nil, is what the card is shown next:   *)
(* the names, the bytes and back, through either table and its write       *)
(* ("the card will disagree with the equipment right after a successful    *)
(* write", conversions_test.go:36).  It takes zone 1 to be the one exposed: *)
(* of any other, a fan mode or a hold is written but zone 1's is shown.    *)
(***************************************************************************)
ShownIsAsked ==
  [][Returns(Mqtt, "ok") =>
       LET asked == call[Mqtt].update
           shown == BuildState(thermostat')
       IN  /\ \A p \in OfferedModes(AutoMode) : infinitiveMode[p] = asked.mode => shown.mode = p
           /\ \A p \in OfferedFanModes : infinitiveFanMode[p] = asked.fan => shown.fan = p
           /\ \A p \in OfferedPresets : HoldOfPreset[p] = asked.hold => shown.preset = p]_vars
=============================================================================
