----------------------------- MODULE ZoneProofs -----------------------------
(***************************************************************************)
(* Proofs about ZoneControl, for any zones, modes and setpoints: its       *)
(* types, what an update that nobody interferes with leaves behind, and    *)
(* which interference alone undoes another zone's hold bit.                *)
(***************************************************************************)
EXTENDS ZoneControl, FiniteSetTheorems, TLAPS

-----------------------------------------------------------------------------
(* The bytes.                                                              *)

\* A name that is read from the thermostat and can be written stands for the
\* byte it was read from: off is 4, as long as no thermostat has a 5.
LEMMA ModeBytes ==
  ASSUME NEW r \in 0 .. 4, RawModeToString(r) \in DOMAIN StringModeToRaw
  PROVE  StringModeToRaw[RawModeToString(r)] = r
<1>1. r \in {0, 1, 2, 3, 4}
  OBVIOUS
<1>2. "electric" \notin DOMAIN StringModeToRaw
  BY DEF StringModeToRaw
<1> QED
  BY <1>1, <1>2 DEF RawModeToString, StringModeToRaw

LEMMA FanBytes ==
  ASSUME NEW r \in 0 .. 3
  PROVE  /\ RawFanModeToString(r) \in DOMAIN StringFanModeToRaw
         /\ StringFanModeToRaw[RawFanModeToString(r)] = r
<1>1. r \in {0, 1, 2, 3}
  OBVIOUS
<1> QED
  BY <1>1 DEF RawFanModeToString, StringFanModeToRaw

LEMMA FanModeBytes ==
  ASSUME NEW f \in FanModes
  PROVE  f \in DOMAIN StringFanModeToRaw /\ StringFanModeToRaw[f] \in RawFanModes
  BY FanBytes, ZoneAssumption DEF FanModes

LEMMA WritableModeBytes ==
  ASSUME NEW m \in Modes, m \in DOMAIN StringModeToRaw
  PROVE  StringModeToRaw[m] \in RawModes
  BY ModeBytes, ZoneAssumption DEF Modes

-----------------------------------------------------------------------------
(* Types.                                                                  *)

\* A call in progress is not one that has returned.
LEMMA BusyCalls ==
  ASSUME TypeOK, NEW c \in Callers
  PROVE  /\ Busy(c) => call[c] \in InProgress
         /\ ~Busy(c) => call[c] \in [returned : Results]
  BY DEF TypeOK, Busy, InProgress

LEMMA ApplyType ==
  ASSUME NEW t \in Thermostats, NEW z \in Zones, NEW u \in Updates, u.fan # Invalid,
         NEW h \in SUBSET Zones
  PROVE  Apply(t, z, u, h) \in Thermostats
<1>1. /\ t.fan \in [Zones -> RawFanModes] /\ t.hold \in SUBSET Zones
      /\ t.setpoint \in [Zones -> Setpoints] /\ t.mode \in RawModes
  BY DEF Thermostats
<1>2. /\ u.fan # Absent => StringFanModeToRaw[u.fan] \in RawFanModes
      /\ u.setpoint # Absent => u.setpoint \in Setpoints
  BY FanModeBytes DEF Updates
<1> QED
  BY <1>1, <1>2 DEF Apply, Thermostats

\* An update in progress has a fan mode that can be written.
CallsAreValid ==
  \A c \in Callers : Busy(c) =>
    /\ call[c].update.fan # Invalid
    /\ call[c].next = "writeMode" => call[c].update.mode \in DOMAIN StringModeToRaw

TypeInv == TypeOK /\ CallsAreValid

\* c goes on with its call, or returns, and the others stay where they are.
LEMMA GotoTypes ==
  ASSUME TypeInv, NEW c \in Callers, NEW then \in InProgress, then.update.fan # Invalid,
         NEW step \in {"readHold", "writeParams", "writeMode", "ok", "error"},
         step = "writeMode" => then.update.mode \in DOMAIN StringModeToRaw,
         Goto(c, then, step)
  PROVE  call' \in [Callers -> InProgress \union [returned : Results]] /\ CallsAreValid'
<1>1. CASE step \in Results
  <2>1. call' = [call EXCEPT ![c] = [returned |-> step]] /\ [returned |-> step] \in [returned : Results]
    BY <1>1 DEF Goto
  <2> QED
    BY <2>1 DEF TypeInv, TypeOK, CallsAreValid, Busy
<1>2. CASE step \notin Results
  <2> DEFINE k == [then EXCEPT !.next = step]
  <2>1. call' = [call EXCEPT ![c] = k]
    BY <1>2 DEF Goto
  <2>2. k \in InProgress /\ k.next = step /\ k.update = then.update
    BY <1>2 DEF InProgress, Results
  <2> HIDE DEF k
  <2> QED
    BY <2>1, <2>2 DEF TypeInv, TypeOK, CallsAreValid, Busy
<1> QED
  BY <1>1, <1>2

\* What comes first is a step, and the mode is looked at before it is written.
LEMMA FirstStep ==
  ASSUME NEW u \in Updates
  PROVE  /\ First(u) \in {"readHold", "writeParams", "writeMode", "ok", "error"}
         /\ First(u) = "writeMode" => u.mode \in DOMAIN StringModeToRaw
         /\ u.fan = Invalid => First(u) = "error"
         /\ AfterParams(u) \in {"writeMode", "ok", "error"}
         /\ AfterParams(u) = "writeMode" => u.mode \in DOMAIN StringModeToRaw
  BY ZoneAssumption DEF First, AfterParams

LEMMA SetZoneConfigTypes ==
  ASSUME TypeInv, NEW c \in Callers, NEW z \in Zones, NEW u \in Updates, SetZoneConfig(c, z, u)
  PROVE  TypeInv'
<1> DEFINE k == [next |-> "readHold", zone |-> z, update |-> u, holds |-> {}, before |-> thermostat]
<1>1. Goto(c, k, First(u)) /\ UNCHANGED thermostat /\ thermostat \in Thermostats
  BY DEF SetZoneConfig, TypeInv, TypeOK
<1>2. k \in InProgress /\ k.update = u
  BY <1>1 DEF InProgress
<1> HIDE DEF k
<1>3. CASE u.fan = Invalid
  <2>1. call' = [call EXCEPT ![c] = [returned |-> "error"]]
    BY <1>1, <1>3, FirstStep DEF Goto, Results
  <2>2. [returned |-> "error"] \in [returned : Results]
    BY DEF Results
  <2> QED
    BY <1>1, <2>1, <2>2 DEF TypeInv, TypeOK, CallsAreValid, Busy
<1>4. CASE u.fan # Invalid
  BY <1>1, <1>2, <1>4, FirstStep, GotoTypes DEF TypeInv, TypeOK
<1> QED
  BY <1>3, <1>4

\* The updates that are called for.
LEMMA UpdatesCalled ==
  /\ \A body \in Bodies : UpdateOf(body) \in Updates
  /\ \A p \in ModePayloads : [NoUpdate EXCEPT !.mode = infinitiveMode[p]] \in Updates
  /\ \A p \in FanPayloads : [NoUpdate EXCEPT !.fan = infinitiveFanMode[p]] \in Updates
  /\ \A p \in DOMAIN HoldOfPreset : [NoUpdate EXCEPT !.hold = HoldOfPreset[p]] \in Updates
<1>1. NoUpdate \in Updates
  BY DEF NoUpdate, Updates
<1> QED
  BY <1>1, ZoneAssumption DEF Updates, Bodies, UpdateOf, ModePayloads, FanPayloads, HoldOfPreset

LEMMA NextTypeInv == TypeInv /\ [Next]_vars => TypeInv'
<1> SUFFICES ASSUME TypeInv, [Next]_vars PROVE TypeInv'
  OBVIOUS
<1>0. Mqtt \in Callers /\ Requests \subseteq Callers /\ MqttZone \in Zones
  BY ZoneAssumption DEF Callers
<1>1. ASSUME NEW c \in Requests, NEW z \in Zones, NEW body \in Bodies, PutZoneConfig(c, z, body)
      PROVE  TypeInv'
  BY <1>0, <1>1, SetZoneConfigTypes, UpdatesCalled DEF PutZoneConfig
<1>2. ASSUME NEW p \in ModePayloads, SetMode(p) PROVE TypeInv'
  BY <1>0, <1>2, SetZoneConfigTypes, UpdatesCalled DEF SetMode
<1>3. ASSUME NEW p \in FanPayloads, SetFanMode(p) PROVE TypeInv'
  BY <1>0, <1>3, SetZoneConfigTypes, UpdatesCalled DEF SetFanMode
<1>4. ASSUME NEW p \in DOMAIN HoldOfPreset, SetPreset(p) PROVE TypeInv'
  BY <1>0, <1>4, SetZoneConfigTypes, UpdatesCalled DEF SetPreset
<1>5. ASSUME NEW c \in Callers, Busy(c)
      PROVE  /\ call[c] \in InProgress /\ call[c].update \in Updates /\ call[c].zone \in Zones
             /\ call[c].update.fan # Invalid /\ thermostat \in Thermostats
             /\ call[c].next = "writeMode" => call[c].update.mode \in DOMAIN StringModeToRaw
             /\ WithParams(c) \in Thermostats
  <2>1. /\ call[c] \in InProgress /\ call[c].update \in Updates /\ call[c].zone \in Zones
        /\ call[c].holds \in SUBSET Zones
    BY <1>5, BusyCalls DEF TypeInv, InProgress
  <2> QED
    BY <1>5, <2>1, ApplyType DEF TypeInv, TypeOK, CallsAreValid, WithParams
<1>6. ASSUME NEW c \in Callers, ReadHold(c) PROVE TypeInv'
  <2> DEFINE h == SetZoneHold(thermostat.hold, call[c].zone, call[c].update.hold)
             k == [call[c] EXCEPT !.holds = h]
  <2>1. Busy(c) /\ UNCHANGED thermostat
    BY <1>6 DEF ReadHold, At
  <2>2. h \in SUBSET Zones
    BY <1>5, <2>1 DEF SetZoneHold, Thermostats
  <2>3. k \in InProgress /\ k.update = call[c].update
    BY <1>5, <2>1, <2>2 DEF InProgress
  <2>4. Goto(c, k, "writeParams") \/ Goto(c, call[c], "error")
    BY <1>6 DEF ReadHold
  <2> HIDE DEF k
  <2> QED
    BY <1>5, <2>1, <2>3, <2>4, GotoTypes DEF TypeInv, TypeOK
<1>7. ASSUME NEW c \in Callers, WriteParams(c) PROVE TypeInv'
  <2>1. Busy(c) /\ thermostat' \in {thermostat, WithParams(c)}
    BY <1>7 DEF WriteParams, At
  <2>2. Goto(c, call[c], AfterParams(call[c].update)) \/ Goto(c, call[c], "error")
    BY <1>7 DEF WriteParams
  <2> QED
    BY <1>5, <2>1, <2>2, FirstStep, GotoTypes DEF TypeInv, TypeOK
<1>8. ASSUME NEW c \in Callers, WriteMode(c) PROVE TypeInv'
  <2>1. Busy(c) /\ call[c].next = "writeMode" /\ thermostat' \in {thermostat, WithMode(c)}
    BY <1>8 DEF WriteMode, At
  <2>2. Goto(c, call[c], "ok") \/ Goto(c, call[c], "error")
    BY <1>8 DEF WriteMode
  <2>3. WithMode(c) \in Thermostats
    BY <1>5, <2>1 DEF WithMode, ApplyMode, Thermostats
  <2> QED
    BY <1>5, <2>1, <2>2, <2>3, GotoTypes DEF TypeInv, TypeOK
<1>9. CASE UseWallUnit
  <2>1. thermostat' \in Thermostats
    BY <1>9 DEF UseWallUnit, SetZoneHold, TypeInv, TypeOK, Thermostats
  <2> QED
    BY <1>9, <2>1 DEF UseWallUnit, TypeInv, TypeOK, CallsAreValid, Busy
<1>10. CASE UNCHANGED vars
  BY <1>10 DEF vars, TypeInv, TypeOK, CallsAreValid, Busy
<1> QED
  BY <1>1, <1>2, <1>3, <1>4, <1>6, <1>7, <1>8, <1>9, <1>10 DEF Next

LEMMA InitTypeInv == Init => TypeInv
<1> SUFFICES ASSUME Init PROVE TypeInv
  OBVIOUS
<1>1. thermostat \in Thermostats
  BY DEF Init, Thermostats
<1>2. \A c \in Callers : call[c] = [returned |-> "ok"]
  BY DEF Init
<1>3. call \in [Callers -> InProgress \union [returned : Results]]
  BY DEF Init, Results
<1> QED
  BY <1>1, <1>2, <1>3 DEF TypeInv, TypeOK, CallsAreValid, Busy

\* SetZoneConfig and its callers keep their types: what is not supplied is not
\* written, and no value that was refused reaches the thermostat.
THEOREM ZoneTypes == Spec => []TypeOK
<1>1. Init => TypeInv
  BY InitTypeInv
<1>2. TypeInv /\ [Next]_vars => TypeInv'
  BY NextTypeInv
<1>3. TypeInv => TypeOK
  BY DEF TypeInv
<1> QED
  BY <1>1, <1>2, <1>3, PTL DEF Spec

-----------------------------------------------------------------------------
(* An update that is alone.  ASSUME MaxCalls = 1 says so: no other update  *)
(* starts before it returns.                                               *)

\* What call k makes of the zone's parameters.
Changed(k) == Apply(k.before, k.zone, k.update,
                    IF k.update.hold = Absent THEN k.before.hold
                    ELSE SetZoneHold(k.before.hold, k.zone, k.update.hold))

\* What thermostat t is while call k is in progress, and what k has read of it.
OnCourse(k, t) ==
  /\ k.next \in {"readHold", "writeParams"} => t = k.before
  /\ k.next = "writeParams" /\ k.update.hold # Absent =>
       k.holds = SetZoneHold(k.before.hold, k.zone, k.update.hold)
  /\ k.next = "writeMode" => t = Changed(k) /\ k.update.mode # Absent

Alone == \A c, d \in Callers : Busy(c) /\ Busy(d) => c = d

AloneInv ==
  /\ TypeInv
  /\ Alone
  /\ \A c \in Callers : Busy(c) => OnCourse(call[c], thermostat)

\* Goto is about one caller.
LEMMA GotoCall ==
  ASSUME TypeInv, NEW c \in Callers, NEW then, NEW step, Goto(c, then, step)
  PROVE  /\ step \notin Results => call'[c] = [then EXCEPT !.next = step]
         /\ step \in Results => call'[c] = [returned |-> step] /\ ~Busy(c)'
         /\ \A d \in Callers \ {c} : call'[d] = call[d] /\ (Busy(d)' <=> Busy(d))
<1>1. /\ call'[c] = IF step \in Results THEN [returned |-> step] ELSE [then EXCEPT !.next = step]
      /\ \A d \in Callers \ {c} : call'[d] = call[d]
  BY DEF Goto, TypeInv, TypeOK
<1> QED
  BY <1>1 DEF Busy

\* And what it keeps of the call.
LEMMA GotoNext ==
  ASSUME TypeInv, NEW c \in Callers, NEW then \in InProgress, NEW step, step \notin Results,
         Goto(c, then, step)
  PROVE  /\ call'[c].next = step /\ call'[c].zone = then.zone
         /\ call'[c].update = then.update /\ call'[c].holds = then.holds
<1> DEFINE k == [then EXCEPT !.next = step]
<1>1. call' = [call EXCEPT ![c] = k] /\ DOMAIN call = Callers
  BY DEF Goto, TypeInv, TypeOK
<1>2. k.next = step /\ k.zone = then.zone /\ k.update = then.update /\ k.holds = then.holds
  BY DEF InProgress
<1> HIDE DEF k
<1> QED
  BY <1>1, <1>2

\* Writing no parameter changes none.
LEMMA NothingToApply ==
  ASSUME NEW t \in Thermostats, NEW z \in Zones, NEW u, NEW h, ~WritesParams(u)
  PROVE  Apply(t, z, u, h) = t
<1>1. /\ t = [fan |-> t.fan, hold |-> t.hold, setpoint |-> t.setpoint, mode |-> t.mode]
      /\ t.fan = [t.fan EXCEPT ![z] = t.fan[z]] /\ t.setpoint = [t.setpoint EXCEPT ![z] = t.setpoint[z]]
  BY DEF Thermostats
<1> QED
  BY <1>1 DEF Apply, WritesParams

\* The hold bits that were read are the ones to write, and the mode stays.
LEMMA ParamsApplied ==
  ASSUME NEW k \in InProgress, NEW t, k.next = "writeParams", OnCourse(k, t)
  PROVE  /\ Apply(t, k.zone, k.update, k.holds) = Changed(k)
         /\ Changed(k).mode = k.before.mode
  BY DEF OnCourse, Changed, Apply, InProgress, Thermostats

\* While a call is in progress, only its own steps change it.
LEMMA StepOfCall ==
  ASSUME TypeInv, [Next]_vars, NEW c \in Callers, Busy(c), call'[c] # call[c]
  PROVE  ReadHold(c) \/ WriteParams(c) \/ WriteMode(c)
<1>0. Mqtt \in Callers /\ Requests \subseteq Callers
  BY DEF Callers
<1>1. ASSUME NEW d \in Callers, NEW z, NEW u, SetZoneConfig(d, z, u) PROVE FALSE
  <2>1. d # c
    BY <1>1 DEF SetZoneConfig
  <2> QED
    BY <1>1, <2>1, GotoCall DEF SetZoneConfig
<1>2. ASSUME NEW d \in Callers, ReadHold(d) \/ WriteParams(d) \/ WriteMode(d) PROVE d = c
  BY <1>2, GotoCall DEF ReadHold, WriteParams, WriteMode
<1> QED
  BY <1>0, <1>1, <1>2 DEF Next, vars, PutZoneConfig, SetMode, SetFanMode, SetPreset, UseWallUnit

\* There are finitely many calls.
LEMMA BusyCallers ==
  ASSUME IsFiniteSet(Requests)
  PROVE  IsFiniteSet({d \in Callers : Busy(d)}) /\ CallsInProgress \in Nat
<1>1. IsFiniteSet(Callers)
  BY FS_AddElement DEF Callers
<1> QED
  BY <1>1, FS_Subset, FS_CardinalityType DEF CallsInProgress

LEMMA NobodyBusy ==
  ASSUME IsFiniteSet(Requests), CallsInProgress = 0
  PROVE  \A c \in Callers : ~Busy(c)
<1>1. {d \in Callers : Busy(d)} = {}
  BY BusyCallers, FS_EmptySet DEF CallsInProgress
<1> QED
  BY <1>1

\* With one update at a time, one starts when there is none.
LEMMA NoneInProgress ==
  ASSUME IsFiniteSet(Requests), MaxCalls = 1, CallsInProgress < MaxCalls
  PROVE  \A c \in Callers : ~Busy(c)
<1>1. CallsInProgress = 0
  BY BusyCallers
<1> QED
  BY <1>1, NobodyBusy

\* c begins, or goes on with, the only call: what is left is that it is on course.
LEMMA GotoAlone ==
  ASSUME AloneInv, TypeInv', NEW c \in Callers, \A d \in Callers \ {c} : ~Busy(d),
         NEW then \in InProgress,
         NEW step \in {"readHold", "writeParams", "writeMode", "ok", "error"},
         Goto(c, then, step),
         step \notin Results => OnCourse([then EXCEPT !.next = step], thermostat')
  PROVE  AloneInv'
<1>1. \A d \in Callers : Busy(d)' => d = c /\ step \notin Results
  <2>1. TypeInv
    BY DEF AloneInv
  <2>2. \A d \in Callers \ {c} : Busy(d)' <=> Busy(d)
    BY <2>1, GotoCall
  <2>3. step \in Results => ~Busy(c)'
    BY <2>1, GotoCall
  <2> QED
    BY <2>2, <2>3
<1>2. CASE step \in Results
  BY <1>1, <1>2 DEF AloneInv, Alone
<1>3. CASE step \notin Results
  <2> DEFINE k == [then EXCEPT !.next = step]
  <2>1. call'[c] = k
    <3>1. call' = [call EXCEPT ![c] = k]
      BY <1>3 DEF Goto
    <3>2. DOMAIN call = Callers
      BY DEF AloneInv, TypeInv, TypeOK
    <3> HIDE DEF k
    <3> QED
      BY <3>1, <3>2
  <2>2. OnCourse(k, thermostat')
    BY <1>3
  <2> HIDE DEF k
  <2> QED
    BY <1>1, <2>1, <2>2 DEF AloneInv, Alone
<1> QED
  BY <1>2, <1>3

LEMMA SetZoneConfigAlone ==
  ASSUME IsFiniteSet(Requests), MaxCalls = 1, AloneInv, TypeInv',
         NEW c \in Callers, NEW z \in Zones, NEW u \in Updates, SetZoneConfig(c, z, u)
  PROVE  AloneInv'
<1> DEFINE k == [next |-> "readHold", zone |-> z, update |-> u, holds |-> {}, before |-> thermostat]
<1>1. \A d \in Callers : ~Busy(d)
  <2>1. CallsInProgress < MaxCalls
    BY DEF SetZoneConfig
  <2> QED
    BY <2>1, NoneInProgress
<1>2. Goto(c, k, First(u)) /\ thermostat' = thermostat /\ k \in InProgress
  BY DEF SetZoneConfig, InProgress, AloneInv, TypeInv, TypeOK
<1>3. /\ First(u) = "writeParams" => u.hold = Absent
      /\ First(u) = "writeMode" => ~WritesParams(u) /\ u.mode # Absent
  BY DEF First, AfterParams
<1>4. ~WritesParams(u) => Changed([k EXCEPT !.next = First(u)]) = thermostat
  BY NothingToApply DEF Changed, AloneInv, TypeInv, TypeOK
<1>5. OnCourse([k EXCEPT !.next = First(u)], thermostat')
  BY <1>2, <1>3, <1>4 DEF OnCourse
<1> HIDE DEF k
<1> QED
  BY <1>1, <1>2, <1>5, FirstStep, GotoAlone

LEMMA NextAlone ==
  ASSUME IsFiniteSet(Requests), MaxCalls = 1
  PROVE  AloneInv /\ [Next]_vars => AloneInv'
<1> SUFFICES ASSUME AloneInv, [Next]_vars PROVE AloneInv'
  OBVIOUS
<1>0. /\ Mqtt \in Callers /\ Requests \subseteq Callers /\ MqttZone \in Zones
      /\ TypeInv /\ TypeInv'
  BY ZoneAssumption, NextTypeInv DEF Callers, AloneInv
<1>1. ASSUME NEW c \in Requests, NEW z \in Zones, NEW body \in Bodies, PutZoneConfig(c, z, body)
      PROVE  AloneInv'
  BY <1>0, <1>1, SetZoneConfigAlone, UpdatesCalled DEF PutZoneConfig
<1>2. ASSUME NEW p \in ModePayloads, SetMode(p) PROVE AloneInv'
  BY <1>0, <1>2, SetZoneConfigAlone, UpdatesCalled DEF SetMode
<1>3. ASSUME NEW p \in FanPayloads, SetFanMode(p) PROVE AloneInv'
  BY <1>0, <1>3, SetZoneConfigAlone, UpdatesCalled DEF SetFanMode
<1>4. ASSUME NEW p \in DOMAIN HoldOfPreset, SetPreset(p) PROVE AloneInv'
  BY <1>0, <1>4, SetZoneConfigAlone, UpdatesCalled DEF SetPreset
<1>5. ASSUME NEW c \in Callers, Busy(c)
      PROVE  /\ call[c] \in InProgress /\ OnCourse(call[c], thermostat)
             /\ call[c].update \in Updates
             /\ \A d \in Callers \ {c} : ~Busy(d)
  BY <1>5, BusyCalls DEF AloneInv, TypeInv, Alone, InProgress
<1>6. ASSUME NEW c \in Callers, ReadHold(c) PROVE AloneInv'
  <2> DEFINE k == [call[c] EXCEPT !.holds = SetZoneHold(thermostat.hold, call[c].zone,
                                                        call[c].update.hold)]
  <2>1. Busy(c) /\ call[c].next = "readHold" /\ thermostat' = thermostat
    BY <1>6 DEF ReadHold, At
  <2>2. thermostat = call[c].before /\ thermostat \in Thermostats
    BY <1>0, <1>5, <2>1 DEF OnCourse, TypeInv, TypeOK
  <2>3. k \in InProgress
    BY <1>5, <2>1, <2>2 DEF InProgress, SetZoneHold, Thermostats
  <2>4. OnCourse([k EXCEPT !.next = "writeParams"], thermostat')
    BY <1>5, <2>1, <2>2 DEF OnCourse, InProgress
  <2>5. Goto(c, k, "writeParams") \/ Goto(c, call[c], "error")
    BY <1>6 DEF ReadHold
  <2> HIDE DEF k
  <2> QED
    BY <1>0, <1>5, <2>1, <2>3, <2>4, <2>5, GotoAlone DEF Results
<1>7. ASSUME NEW c \in Callers, WriteParams(c) PROVE AloneInv'
  <2>1. Busy(c) /\ call[c].next = "writeParams"
    BY <1>7 DEF WriteParams, At
  <2>2. CASE Goto(c, call[c], "error")
    BY <1>0, <1>5, <2>1, <2>2, GotoAlone DEF Results
  <2>3. CASE thermostat' = WithParams(c) /\ Goto(c, call[c], AfterParams(call[c].update))
    <3> DEFINE step == AfterParams(call[c].update)
               k == [call[c] EXCEPT !.next = step]
    <3>1. thermostat' = Changed(call[c])
      BY <1>5, <2>1, <2>3, ParamsApplied DEF WithParams
    <3>2. step \notin Results => step = "writeMode" /\ call[c].update.mode # Absent
      BY DEF AfterParams, Results
    <3>3. Changed(k) = Changed(call[c])
      BY <1>5, <2>1 DEF Changed, InProgress
    <3>4. step \notin Results => OnCourse(k, thermostat')
      BY <1>5, <2>1, <3>1, <3>2, <3>3 DEF OnCourse, InProgress
    <3>5. Goto(c, call[c], step) /\ step \in {"writeMode", "ok", "error"}
      BY <1>5, <2>1, <2>3, FirstStep
    <3> HIDE DEF step
    <3> QED
      BY <1>0, <1>5, <2>1, <3>4, <3>5, GotoAlone
  <2> QED
    BY <1>7, <2>2, <2>3 DEF WriteParams
<1>8. ASSUME NEW c \in Callers, WriteMode(c) PROVE AloneInv'
  <2>1. Busy(c) /\ (Goto(c, call[c], "ok") \/ Goto(c, call[c], "error"))
    BY <1>8 DEF WriteMode, At
  <2> QED
    BY <1>0, <1>5, <2>1, GotoAlone DEF Results
<1>9. CASE UseWallUnit
  <2>1. \A c \in Callers : ~Busy(c)
    BY <1>9, NobodyBusy DEF UseWallUnit
  <2> QED
    BY <1>0, <1>9, <2>1 DEF UseWallUnit, AloneInv, Alone, Busy
<1>10. CASE UNCHANGED vars
  BY <1>0, <1>10 DEF vars, AloneInv, Alone, Busy
<1> QED
  BY <1>1, <1>2, <1>3, <1>4, <1>6, <1>7, <1>8, <1>9, <1>10 DEF Next

LEMMA InitAlone == Init => AloneInv
<1> SUFFICES ASSUME Init PROVE AloneInv
  OBVIOUS
<1>1. \A c \in Callers : ~Busy(c)
  BY DEF Init, Busy
<1> QED
  BY <1>1, InitTypeInv DEF AloneInv, Alone

\* What a call says it has done: its mode is only added to what the rest made.
LEMMA AppliedIsChanged ==
  ASSUME NEW k
  PROVE  /\ k.update.mode = Absent => Applied(k.before, k.zone, k.update) = Changed(k)
         /\ k.update.mode # Absent =>
              Applied(k.before, k.zone, k.update) = [Changed(k) EXCEPT !.mode = StringModeToRaw[k.update.mode]]
  BY DEF Applied, Changed

\* How the only call can end.
LEMMA CallEnds ==
  ASSUME AloneInv, [Next]_vars, NEW c \in Callers, NEW r \in Results, Returns(c, r)
  PROVE  \/ r = "error" /\ thermostat'.mode = call[c].before.mode
         \/ thermostat' = Applied(call[c].before, call[c].zone, call[c].update)
<1> DEFINE k == call[c]
<1>1. Busy(c) /\ call'[c] = [returned |-> r] /\ TypeInv
  BY DEF Returns, AloneInv
<1>2. k \in InProgress /\ OnCourse(k, thermostat)
  BY <1>1, BusyCalls DEF AloneInv, TypeInv
<1>3. call'[c] # call[c]
  BY <1>1 DEF Busy
<1>4. ASSUME NEW then \in InProgress, NEW s, Goto(c, then, s) PROVE s = r
  <2>1. s \in Results
    <3>1. ASSUME s \notin Results PROVE call'[c] = [then EXCEPT !.next = s]
      BY <1>1, <1>4, <3>1 DEF Goto, TypeInv, TypeOK
    <3> QED
      BY <1>1, <3>1 DEF InProgress
  <2>2. call'[c] = [returned |-> s]
    BY <1>1, <1>4, <2>1, GotoCall
  <2> QED
    BY <1>1, <2>2
<1>5. CASE ReadHold(c)
  <2> DEFINE then == [k EXCEPT !.holds = SetZoneHold(thermostat.hold, k.zone, k.update.hold)]
  <2>1. thermostat' = thermostat /\ thermostat = k.before /\ thermostat \in Thermostats
    BY <1>1, <1>2, <1>5 DEF ReadHold, At, OnCourse, TypeInv, TypeOK
  <2>2. then \in InProgress
    BY <1>2, <2>1 DEF InProgress, SetZoneHold, Thermostats
  <2>3. Goto(c, then, "writeParams") \/ Goto(c, k, "error")
    BY <1>5 DEF ReadHold
  <2> HIDE DEF then
  <2>4. r = "error"
    BY <1>2, <1>4, <2>2, <2>3 DEF Results
  <2> QED
    BY <2>1, <2>4
<1>6. CASE WriteParams(c)
  <2>1. k.next = "writeParams" /\ thermostat = k.before
    BY <1>2, <1>6 DEF WriteParams, At, OnCourse
  <2>2. WithParams(c) = Changed(k) /\ Changed(k).mode = k.before.mode
    BY <1>2, <2>1, ParamsApplied DEF WithParams
  <2>3. \/ thermostat' = Changed(k) /\ AfterParams(k.update) = r
        \/ thermostat' \in {k.before, Changed(k)} /\ r = "error"
    BY <1>2, <1>4, <1>6, <2>1, <2>2 DEF WriteParams
  <2>4. AfterParams(k.update) = "ok" => k.update.mode = Absent
    BY DEF AfterParams
  <2> QED
    BY <2>2, <2>3, <2>4, AppliedIsChanged DEF Results
<1>7. CASE WriteMode(c)
  <2>1. thermostat = Changed(k) /\ k.update.mode # Absent /\ k.next = "writeMode"
    BY <1>2, <1>7 DEF WriteMode, At, OnCourse
  <2>2. k.update.mode \in DOMAIN StringModeToRaw /\ k.update \in Updates
    BY <1>1, <1>2, <2>1 DEF TypeInv, CallsAreValid, InProgress
  <2>5. StringModeToRaw[k.update.mode] \in RawModes
    BY <2>1, <2>2, WritableModeBytes, ZoneAssumption DEF Updates
  <2>6. WithMode(c) = Applied(k.before, k.zone, k.update)
    BY <2>1, <2>5, AppliedIsChanged DEF WithMode, ApplyMode
  <2>3. Changed(k).mode = k.before.mode
    BY <1>2 DEF Changed, Apply, InProgress, Thermostats
  <2>4. \/ thermostat' = WithMode(c)
        \/ thermostat' = thermostat /\ r = "error"
    BY <1>2, <1>4, <1>7 DEF WriteMode
  <2> QED
    BY <2>1, <2>6, <2>3, <2>4
<1> QED
  BY <1>1, <1>3, <1>5, <1>6, <1>7, StepOfCall

\* An update that nobody interferes with, and that returns nil, has done what it
\* was asked for and nothing else.
THEOREM AloneOkIsApplied ==
  ASSUME IsFiniteSet(Requests), MaxCalls = 1
  PROVE  Spec => OkIsApplied
<1>1. AloneInv /\ [Next]_vars =>
        \A c \in Callers : Returns(c, "ok") =>
          thermostat' = Applied(call[c].before, call[c].zone, call[c].update)
  BY CallEnds DEF Results
<1> QED
  BY <1>1, InitAlone, NextAlone, PTL DEF Spec, OkIsApplied

\* And one that returns an error has not changed the mode unless it has done
\* all the rest.
THEOREM AloneErrorIsPrefix ==
  ASSUME IsFiniteSet(Requests), MaxCalls = 1
  PROVE  Spec => ErrorIsPrefix
<1>1. AloneInv /\ [Next]_vars =>
        \A c \in Callers :
          Returns(c, "error") /\ thermostat'.mode # call[c].before.mode =>
            thermostat' = Applied(call[c].before, call[c].zone, call[c].update)
  BY CallEnds DEF Results
<1> QED
  BY <1>1, InitAlone, NextAlone, PTL DEF Spec, ErrorIsPrefix

\* It changes the hold bit of no other zone, done or not.
THEOREM AloneHoldsUntouched ==
  ASSUME IsFiniteSet(Requests), MaxCalls = 1
  PROVE  Spec => OtherHoldsUntouched
<1>1. ASSUME AloneInv, [Next]_vars, NEW c \in Callers, At(c, "writeParams"), call'[c] # call[c],
             NEW z \in Zones \ {call[c].zone}
      PROVE  z \in thermostat'.hold <=> z \in thermostat.hold
  <2> DEFINE k == call[c]
  <2>1. Busy(c) /\ k.next = "writeParams" /\ k \in InProgress /\ OnCourse(k, thermostat)
    BY <1>1, BusyCalls DEF At, AloneInv, TypeInv
  <2>2. WriteParams(c)
    BY <1>1, <2>1, StepOfCall DEF AloneInv, ReadHold, WriteMode, At
  <2>3. thermostat = k.before /\ WithParams(c) = Changed(k)
    BY <2>1, ParamsApplied DEF OnCourse, WithParams
  <2>4. thermostat' \in {thermostat, Changed(k)}
    BY <2>2, <2>3 DEF WriteParams
  <2>5. z \in Changed(k).hold <=> z \in k.before.hold
    BY <1>1, <2>1 DEF Changed, Apply, SetZoneHold, InProgress, Thermostats
  <2> QED
    BY <2>3, <2>4, <2>5
<1>2. AloneInv /\ [Next]_vars =>
        \A c \in Callers :
          At(c, "writeParams") /\ call'[c] # call[c] =>
            \A z \in Zones \ {call[c].zone} : z \in thermostat'.hold <=> z \in thermostat.hold
  BY <1>1
<1> QED
  BY <1>2, InitAlone, NextAlone, PTL DEF Spec, OtherHoldsUntouched

-----------------------------------------------------------------------------
(* Updates that are not alone.  Of what they do to each other, only the    *)
(* hold bits cross from one zone to another: they are read in one call of  *)
(* the bus and written back in another, and whoever writes them in between *)
(* is undone.                                                              *)

\* c has read the hold bits of every zone, and is about to write them back.
HoldsInHand(c) == At(c, "writeParams") /\ call[c].update.hold # Absent

\* At most one update is between the two calls: what a lock around them would
\* give.  Any number of other updates may be in progress meanwhile.
OneHoldsWriter == \A c, d \in Callers : HoldsInHand(c) /\ HoldsInHand(d) => c = d

\* The other zones' bits in hand are still the thermostat's.
InHandIsCurrent ==
  \A c \in Callers : HoldsInHand(c) =>
    \A z \in Zones \ {call[c].zone} : z \in call[c].holds <=> z \in thermostat.hold

\* Writing the parameters leaves the hold bits, or makes them the ones in hand.
LEMMA HoldsWritten ==
  ASSUME TypeInv, NEW c \in Callers, WriteParams(c)
  PROVE  /\ ~HoldsInHand(c) => thermostat'.hold = thermostat.hold
         /\ HoldsInHand(c) => thermostat'.hold \in {thermostat.hold, call[c].holds}
<1>1. thermostat \in Thermostats /\ thermostat' \in {thermostat, WithParams(c)} /\ At(c, "writeParams")
  BY DEF WriteParams, TypeInv, TypeOK
<1>2. WithParams(c).hold = IF call[c].update.hold = Absent THEN thermostat.hold ELSE call[c].holds
  BY <1>1 DEF WithParams, Apply, Thermostats
<1> QED
  BY <1>1, <1>2 DEF HoldsInHand

\* c's call goes on, or begins, and the hold bits stay: it needs to be shown of c
\* only.
LEMMA GotoInHand ==
  ASSUME TypeInv, InHandIsCurrent, NEW c \in Callers, NEW then, NEW step, Goto(c, then, step),
         thermostat'.hold = thermostat.hold,
         HoldsInHand(c)' => \A z \in Zones \ {call'[c].zone} :
                              z \in call'[c].holds <=> z \in thermostat.hold
  PROVE  InHandIsCurrent'
<1>1. \A d \in Callers \ {c} : call'[d] = call[d]
  BY GotoCall
<1> QED
  BY <1>1 DEF InHandIsCurrent, HoldsInHand, At, Busy

LEMMA NextInHand ==
  ASSUME IsFiniteSet(Requests), TypeInv, InHandIsCurrent, OneHoldsWriter, [Next]_vars
  PROVE  InHandIsCurrent'
<1>0. Mqtt \in Callers /\ Requests \subseteq Callers /\ MqttZone \in Zones
  BY ZoneAssumption DEF Callers
<1>1. ASSUME NEW c \in Callers, NEW z \in Zones, NEW u \in Updates, SetZoneConfig(c, z, u)
      PROVE  InHandIsCurrent'
  <2> DEFINE k == [next |-> "readHold", zone |-> z, update |-> u, holds |-> {}, before |-> thermostat]
  <2>1. Goto(c, k, First(u)) /\ thermostat' = thermostat
    BY <1>1 DEF SetZoneConfig
  <2>2. First(u) = "writeParams" => u.hold = Absent
    BY DEF First
  <2>3. ~HoldsInHand(c)'
    <3>1. CASE First(u) \in Results
      BY <2>1, <3>1, GotoCall DEF HoldsInHand, At
    <3>2. CASE First(u) \notin Results
      <4>1. k \in InProgress /\ k.update = u
        BY <2>1 DEF InProgress, TypeInv, TypeOK
      <4> HIDE DEF k
      <4>2. call'[c].next = First(u) /\ call'[c].update = u
        BY <2>1, <3>2, <4>1, GotoNext
      <4> QED
        BY <2>2, <4>2 DEF HoldsInHand, At
    <3> QED
      BY <3>1, <3>2
  <2> HIDE DEF k
  <2> QED
    BY <2>1, <2>3, GotoInHand
<1>2. ASSUME NEW c \in Callers, ReadHold(c) PROVE InHandIsCurrent'
  <2> DEFINE h == SetZoneHold(thermostat.hold, call[c].zone, call[c].update.hold)
             k == [call[c] EXCEPT !.holds = h]
  <2>1. At(c, "readHold") /\ call[c] \in InProgress /\ thermostat' = thermostat
    BY <1>2, BusyCalls DEF ReadHold, At, TypeInv
  <2>2. k \in InProgress /\ k.holds = h /\ k.zone = call[c].zone
    BY <2>1 DEF InProgress, SetZoneHold, TypeInv, TypeOK, Thermostats
  <2>3. CASE Goto(c, k, "writeParams")
    <3> HIDE DEF k, h
    <3>1. "writeParams" \notin Results
      BY DEF Results
    <3>2. call'[c].holds = h /\ call'[c].zone = call[c].zone
      BY <2>2, <2>3, <3>1, GotoNext
    <3>3. \A z \in Zones \ {call'[c].zone} : z \in call'[c].holds <=> z \in thermostat.hold
      BY <3>2 DEF h, SetZoneHold
    <3> QED
      BY <2>1, <2>3, <3>3, GotoInHand
  <2>4. CASE Goto(c, call[c], "error")
    <3>1. ~HoldsInHand(c)'
      BY <2>4, GotoCall DEF Results, HoldsInHand, At
    <3> QED
      BY <2>1, <2>4, <3>1, GotoInHand
  <2> QED
    BY <1>2, <2>3, <2>4 DEF ReadHold
<1>3. ASSUME NEW c \in Callers, WriteParams(c) PROVE InHandIsCurrent'
  <2>0. call[c] \in InProgress
    BY <1>3, BusyCalls DEF WriteParams, At, TypeInv
  <2>1. PICK step \in {"writeMode", "ok", "error"} : Goto(c, call[c], step)
    BY <1>3, <2>0, FirstStep DEF WriteParams, InProgress
  <2>2. ~HoldsInHand(c)'
    <3>1. CASE step \in Results
      BY <2>1, <3>1, GotoCall DEF HoldsInHand, At
    <3>2. CASE step \notin Results
      BY <2>0, <2>1, <3>2, GotoNext DEF HoldsInHand, At
    <3> QED
      BY <3>1, <3>2
  <2>3. CASE ~HoldsInHand(c)
    BY <1>3, <2>1, <2>2, <2>3, GotoInHand, HoldsWritten
  <2>4. CASE HoldsInHand(c)
    <3>1. \A d \in Callers : ~HoldsInHand(d)'
      <4>1. \A d \in Callers \ {c} : ~HoldsInHand(d) /\ call'[d] = call[d]
        BY <2>1, <2>4, GotoCall DEF OneHoldsWriter
      <4> QED
        BY <2>2, <4>1 DEF HoldsInHand, At, Busy
    <3> QED
      BY <3>1 DEF InHandIsCurrent
  <2> QED
    BY <2>3, <2>4
<1>4. ASSUME NEW c \in Callers, WriteMode(c) PROVE InHandIsCurrent'
  <2>1. Busy(c) /\ \E step \in Results : Goto(c, call[c], step)
    BY <1>4 DEF WriteMode, At, Results
  <2>2. thermostat'.hold = thermostat.hold
    BY <1>4 DEF WriteMode, WithMode, ApplyMode, TypeInv, TypeOK, Thermostats
  <2>3. ~HoldsInHand(c)'
    BY <2>1, GotoCall DEF HoldsInHand, At
  <2> QED
    BY <2>1, <2>2, <2>3, GotoInHand
<1>5. CASE UseWallUnit
  <2>1. \A c \in Callers : ~Busy(c)
    BY <1>5, NobodyBusy DEF UseWallUnit
  <2> QED
    BY <1>5, <2>1 DEF UseWallUnit, InHandIsCurrent, HoldsInHand, At, Busy
<1>6. CASE UNCHANGED vars
  BY <1>6 DEF vars, InHandIsCurrent, HoldsInHand, At, Busy
<1> QED
  BY <1>0, <1>1, <1>2, <1>3, <1>4, <1>5, <1>6, UpdatesCalled
  DEF Next, PutZoneConfig, SetMode, SetFanMode, SetPreset

\* With any number of updates in progress, no write of the parameters changes the
\* hold bit of another zone, as long as no two have the bits in hand at once:
\* that race is the only thing that breaks the promise.
THEOREM HoldsUntouchedButForRace ==
  ASSUME IsFiniteSet(Requests)
  PROVE  Spec /\ []OneHoldsWriter => OtherHoldsUntouched
<1>1. ASSUME TypeInv, InHandIsCurrent, [Next]_vars, NEW c \in Callers, At(c, "writeParams"),
             call'[c] # call[c], NEW z \in Zones \ {call[c].zone}
      PROVE  z \in thermostat'.hold <=> z \in thermostat.hold
  <2>1. WriteParams(c)
    BY <1>1, StepOfCall DEF At, ReadHold, WriteMode
  <2>2. CASE HoldsInHand(c)
    BY <1>1, <2>1, <2>2, HoldsWritten DEF InHandIsCurrent
  <2>3. CASE ~HoldsInHand(c)
    BY <1>1, <2>1, <2>3, HoldsWritten
  <2> QED
    BY <2>2, <2>3
<1>2. TypeInv /\ InHandIsCurrent /\ [Next]_vars =>
        \A c \in Callers :
          At(c, "writeParams") /\ call'[c] # call[c] =>
            \A z \in Zones \ {call[c].zone} : z \in thermostat'.hold <=> z \in thermostat.hold
  BY <1>1
<1>3. Init => InHandIsCurrent
  BY DEF Init, InHandIsCurrent, HoldsInHand, At, Busy
<1>4. TypeInv /\ InHandIsCurrent /\ OneHoldsWriter /\ [Next]_vars => InHandIsCurrent'
  BY NextInHand
<1> QED
  BY <1>2, <1>3, <1>4, InitTypeInv, NextTypeInv, PTL DEF Spec, OtherHoldsUntouched

-----------------------------------------------------------------------------
(* What Home Assistant is shown.                                           *)

\* The names, the bytes and back.
LEMMA ModeRoundTrip ==
  ASSUME NEW p \in OfferedModes(AutoMode)
  PROVE  /\ infinitiveMode[p] \in DOMAIN StringModeToRaw
         /\ LET m == RawModeToString(StringModeToRaw[infinitiveMode[p]])
            IN  m \in DOMAIN haMode /\ haMode[m] = p /\ (p = "heat_cool" => AutoMode)
<1>1. /\ p \in {"off", "heat", "cool", "heat_cool"}
      /\ p = "heat_cool" => AutoMode
  BY DEF OfferedModes
<1>2. infinitiveMode[p] = IF p = "heat_cool" THEN "auto" ELSE p
  BY <1>1 DEF infinitiveMode
<1>3. CASE p = "off"
  BY <1>2, <1>3 DEF StringModeToRaw, RawModeToString, haMode
<1>4. CASE p = "heat"
  BY <1>2, <1>4 DEF StringModeToRaw, RawModeToString, haMode
<1>5. CASE p = "cool"
  BY <1>2, <1>5 DEF StringModeToRaw, RawModeToString, haMode
<1>6. CASE p = "heat_cool"
  BY <1>1, <1>2, <1>6 DEF StringModeToRaw, RawModeToString, haMode
<1> QED
  BY <1>1, <1>3, <1>4, <1>5, <1>6

LEMMA FanRoundTrip ==
  ASSUME NEW p \in OfferedFanModes
  PROVE  /\ infinitiveFanMode[p] \in DOMAIN StringFanModeToRaw
         /\ LET f == RawFanModeToString(StringFanModeToRaw[infinitiveFanMode[p]])
            IN  f \in DOMAIN haFanMode /\ haFanMode[f] = p
<1>1. p \in {"auto", "low", "medium", "high"}
  BY DEF OfferedFanModes
<1>2. infinitiveFanMode[p] = IF p = "medium" THEN "med" ELSE p
  BY <1>1 DEF infinitiveFanMode
<1> QED
  BY <1>1, <1>2 DEF StringFanModeToRaw, RawFanModeToString, haFanMode

\* What is shown of an update applied.
LEMMA AppliedIsShown ==
  ASSUME NEW t \in Thermostats, NEW u \in Updates
  PROVE  LET shown == BuildState(Applied(t, PolledZone, u))
         IN  /\ \A p \in OfferedModes(AutoMode) : infinitiveMode[p] = u.mode => shown.mode = p
             /\ \A p \in OfferedFanModes : infinitiveFanMode[p] = u.fan => shown.fan = p
             /\ \A p \in OfferedPresets : HoldOfPreset[p] = u.hold => shown.preset = p
<1> DEFINE z == PolledZone
           a == Applied(t, z, u)
<1>0. z \in Zones
  BY ZoneAssumption
<1> HIDE DEF z
<1>1. /\ u.mode # Absent => a.mode = StringModeToRaw[u.mode]
      /\ u.fan # Absent => a.fan[z] = StringFanModeToRaw[u.fan]
      /\ u.hold # Absent => (z \in a.hold <=> u.hold)
  BY <1>0 DEF Applied, Apply, SetZoneHold, Thermostats, Updates
<1>2. ASSUME NEW p \in OfferedModes(AutoMode), infinitiveMode[p] = u.mode PROVE ShownMode(a) = p
  <2>1. u.mode # Absent
    BY <1>2, ModeRoundTrip, ZoneAssumption
  <2> HIDE DEF a
  <2> QED
    BY <1>1, <1>2, <2>1, ModeRoundTrip DEF ShownMode
<1>3. ASSUME NEW p \in OfferedFanModes, infinitiveFanMode[p] = u.fan PROVE ShownFan(a) = p
  <2>1. u.fan # Absent
    BY <1>3, FanRoundTrip, ZoneAssumption
  <2> HIDE DEF a
  <2> QED
    BY <1>1, <1>3, <2>1, FanRoundTrip DEF ShownFan, z
<1>4. ASSUME NEW p \in OfferedPresets, HoldOfPreset[p] = u.hold
      PROVE  (IF z \in a.hold THEN "hold" ELSE "none") = p
  <2>1. p \in {"hold", "none"} /\ HoldOfPreset[p] = (p = "hold")
    BY DEF OfferedPresets, HoldOfPreset
  <2>2. u.hold # Absent
    BY <1>4, <2>1, ZoneAssumption
  <2> HIDE DEF a
  <2> QED
    BY <1>1, <1>4, <2>1, <2>2
<1> HIDE DEF a
<1> QED
  BY <1>2, <1>3, <1>4 DEF a, z, BuildState

\* A command is about the zone MQTT exposes.
OnZone == Busy(Mqtt) => call[Mqtt].zone = MqttZone
MqttInv == AloneInv /\ OnZone

\* Mqtt's call goes on, or begins, in its zone.
LEMMA GotoOnZone ==
  ASSUME TypeInv, NEW then \in InProgress, NEW step, Goto(Mqtt, then, step), then.zone = MqttZone
  PROVE  OnZone'
<1>1. CASE step \in Results
  BY <1>1, GotoCall DEF OnZone, Callers
<1>2. CASE step \notin Results
  <2>1. call'[Mqtt] = [then EXCEPT !.next = step]
    BY <1>2, GotoCall DEF Callers
  <2>2. [then EXCEPT !.next = step].zone = then.zone
    BY DEF InProgress
  <2> QED
    BY <2>1, <2>2 DEF OnZone
<1> QED
  BY <1>1, <1>2

LEMMA NextOnZone ==
  ASSUME TypeInv, OnZone, [Next]_vars
  PROVE  OnZone'
<1>0. Mqtt \in Callers /\ Requests \subseteq Callers /\ Mqtt \notin Requests /\ MqttZone \in Zones
  BY ZoneAssumption DEF Callers
<1>1. ASSUME NEW c \in Callers \ {Mqtt}, NEW then, NEW step, Goto(c, then, step) PROVE OnZone'
  BY <1>0, <1>1, GotoCall DEF OnZone
<1>2. ASSUME NEW u \in Updates, SetZoneConfig(Mqtt, MqttZone, u) PROVE OnZone'
  <2> DEFINE k == [next |-> "readHold", zone |-> MqttZone, update |-> u, holds |-> {},
                   before |-> thermostat]
  <2>1. Goto(Mqtt, k, First(u)) /\ k.zone = MqttZone
    BY <1>2 DEF SetZoneConfig
  <2>2. k \in InProgress
    BY <1>0 DEF InProgress, TypeInv, TypeOK
  <2> HIDE DEF k
  <2> QED
    BY <2>1, <2>2, GotoOnZone
<1>3. ASSUME Busy(Mqtt) PROVE call[Mqtt] \in InProgress /\ call[Mqtt].zone = MqttZone
  BY <1>0, <1>3, BusyCalls DEF TypeInv, OnZone
<1>4. CASE ReadHold(Mqtt)
  <2> DEFINE k == [call[Mqtt] EXCEPT !.holds = SetZoneHold(thermostat.hold, call[Mqtt].zone,
                                                           call[Mqtt].update.hold)]
  <2>1. Busy(Mqtt) /\ (Goto(Mqtt, k, "writeParams") \/ Goto(Mqtt, call[Mqtt], "error"))
    BY <1>4 DEF ReadHold, At
  <2>2. k \in InProgress /\ k.zone = MqttZone
    BY <1>0, <1>3, <2>1 DEF InProgress, SetZoneHold, Thermostats, TypeInv, TypeOK
  <2> HIDE DEF k
  <2> QED
    BY <1>3, <2>1, <2>2, GotoOnZone
<1>5. CASE WriteParams(Mqtt) \/ WriteMode(Mqtt)
  <2>1. Busy(Mqtt) /\ \E step : Goto(Mqtt, call[Mqtt], step)
    BY <1>5 DEF WriteParams, WriteMode, At
  <2> QED
    BY <1>3, <2>1, GotoOnZone
<1>6. ASSUME NEW c \in Callers \ {Mqtt}, ReadHold(c) \/ WriteParams(c) \/ WriteMode(c) PROVE OnZone'
  BY <1>1, <1>6 DEF ReadHold, WriteParams, WriteMode
<1>7. ASSUME NEW c \in Requests, NEW z, NEW u, SetZoneConfig(c, z, u) PROVE OnZone'
  BY <1>0, <1>1, <1>7 DEF SetZoneConfig
<1>8. CASE UseWallUnit \/ UNCHANGED vars
  BY <1>8 DEF UseWallUnit, vars, OnZone, Busy
<1> QED
  BY <1>0, <1>2, <1>4, <1>5, <1>6, <1>7, <1>8, UpdatesCalled
  DEF Next, PutZoneConfig, SetMode, SetFanMode, SetPreset

\* If MQTT exposes the zone that is polled, a command of the card that nobody
\* interferes with, and that returns nil, is what the card is shown next.
THEOREM AloneShownIsAsked ==
  ASSUME IsFiniteSet(Requests), MaxCalls = 1, MqttZone = PolledZone
  PROVE  Spec => ShownIsAsked
<1> DEFINE Asked == LET asked == call[Mqtt].update
                        shown == BuildState(thermostat')
                    IN  /\ \A p \in OfferedModes(AutoMode) :
                              infinitiveMode[p] = asked.mode => shown.mode = p
                        /\ \A p \in OfferedFanModes :
                              infinitiveFanMode[p] = asked.fan => shown.fan = p
                        /\ \A p \in OfferedPresets :
                              HoldOfPreset[p] = asked.hold => shown.preset = p
<1>1. MqttInv /\ [Next]_vars => (Returns(Mqtt, "ok") => Asked)
  <2> SUFFICES ASSUME MqttInv, [Next]_vars, Returns(Mqtt, "ok") PROVE Asked
    OBVIOUS
  <2>1. Busy(Mqtt) /\ Mqtt \in Callers /\ AloneInv
    BY DEF Returns, Callers, MqttInv
  <2>2. thermostat' = Applied(call[Mqtt].before, call[Mqtt].zone, call[Mqtt].update)
    BY <2>1, CallEnds DEF Results
  <2>3. call[Mqtt] \in InProgress /\ call[Mqtt].zone = PolledZone
    BY <2>1, BusyCalls DEF AloneInv, TypeInv, MqttInv, OnZone
  <2>4. /\ call[Mqtt].before \in Thermostats /\ call[Mqtt].update \in Updates
    BY <2>3 DEF InProgress
  <2> QED
    BY <2>2, <2>3, <2>4, AppliedIsShown
<1>2. Init => MqttInv
  <2> SUFFICES ASSUME Init PROVE MqttInv
    OBVIOUS
  <2>1. ~Busy(Mqtt)
    BY DEF Init, Busy, Callers
  <2> QED
    BY <2>1, InitAlone DEF MqttInv, OnZone
<1>3. MqttInv /\ [Next]_vars => MqttInv'
  BY NextAlone, NextOnZone DEF MqttInv, AloneInv
<1> QED
  BY <1>1, <1>2, <1>3, PTL DEF Spec, ShownIsAsked
=============================================================================
