------------------------------- MODULE Snoop -------------------------------
(***************************************************************************)
(* What the daemon learns without asking, in infinity/api.go, and how old  *)
(* it is when mqtt/mqtt.go shows it.  The reader's snoops copy a device's  *)
(* cached state, decode one table into it, stamp the device as seen and    *)
(* store the copy.  publish takes value and stamp of each device in two    *)
(* steps and shows a device that was seen lately.  The poller reads the    *)
(* temperature unit when it has none or an old one.                        *)
(*                                                                         *)
(* Time passes in ticks of the order of a minute.  publish runs every two  *)
(* seconds, so that one ends between any two ticks; an age is the number   *)
(* of ticks since, cut off beyond AgeCap.  The bridge is connected; what   *)
(* disconnecting does to the documents is in module Bridge.                *)
(***************************************************************************)
EXTENDS Integers

CONSTANTS
  NDevices,          \* snooped devices, in publish's order: air handler, heat pump
  Tables,            \* tables the snoops decode
  OtherTable,        \* stands for all they do not
  Values,            \* of a decoded table
  Zero,              \* the value of a table not decoded yet
  Nothing,           \* no stamp, no update, no value shown
  StaleAfter,        \* staleAfter
  SettingsInterval,  \* settingsRefreshInterval
  RawUnits           \* the unit bytes the wall unit can be set to

ASSUME SnoopAssumption ==
  /\ NDevices \in Nat
  /\ OtherTable \notin Tables
  /\ Zero \in Values
  /\ StaleAfter \in Nat \ {0} /\ SettingsInterval \in Nat \ {0}
  /\ RawUnits \subseteq 0 .. 255
  /\ Nothing \notin Nat /\ Nothing \notin [Tables -> Values]
  /\ Nothing \notin [device : 1 .. NDevices, readings : [Tables -> Values]]

Devices == 1 .. NDevices
Readings == [Tables -> Values]

\* Bound of ages; what is older is treated the same.
AgeCap == StaleAfter + 2
Ages == 0 .. AgeCap
Stamps == Ages \union {Nothing}
Older(age) == IF age = Nothing THEN Nothing ELSE IF age < AgeCap THEN age + 1 ELSE age

TempUnits == {"", "fahrenheit", "celsius", "unknown"}

VARIABLES
  actual,       \* what each device would report
  cached,       \* the cache's blower and heatpump entries
  lastSeen,     \* the age of each device's stamp
  update,       \* the copy a snoop has decoded and not stored yet
  step,         \* of publish: values and stamps taken
  taken,        \* publish's airHandler and heatPump
  stamp,        \* their LastUpdated
  fresh,        \* its ahFresh and hpFresh, and the devices' availability
  document,     \* the retained state: each device's fields
  configured,   \* the thermostat has been polled
  due,          \* a publish must end before the next tick
  wallUnit,     \* the wall unit's temperature unit
  tempUnit,     \* a.tempUnit
  settingsRead, \* its age
  silence,      \* history: the age of each device's last frame
  disturbed     \* history: devices heard of since the latest publish started

deviceVars == <<actual, cached, lastSeen, update>>
publishVars == <<step, taken, stamp, fresh, document>>
unitVars == <<wallUnit, tempUnit, settingsRead>>
history == <<silence, disturbed>>
vars == <<deviceVars, publishVars, unitVars, configured, due, history>>

\* publish is between runs; the steps after the last stamp.
Idle == -1
Last == 2 * NDevices
Judging == Last
Stating == Last + 1

TypeOK ==
  /\ actual \in [Devices -> Readings]
  /\ cached \in [Devices -> Readings]
  /\ lastSeen \in [Devices -> Stamps]
  /\ update \in [device : Devices, readings : Readings] \union {Nothing}
  /\ step \in Idle .. Stating
  /\ taken \in [Devices -> Readings]
  /\ stamp \in [Devices -> Stamps]
  /\ fresh \in [Devices -> BOOLEAN]
  /\ document \in [Devices -> Readings \union {Nothing}]
  /\ configured \in BOOLEAN /\ due \in BOOLEAN
  /\ wallUnit \in RawUnits
  /\ tempUnit \in TempUnits
  /\ settingsRead \in 0 .. SettingsInterval
  /\ silence \in [Devices -> Stamps]
  /\ disturbed \subseteq Devices

Zeros == [t \in Tables |-> Zero]

Init ==
  /\ actual \in [Devices -> Readings]
  /\ cached = [d \in Devices |-> Zeros]
  /\ lastSeen = [d \in Devices |-> Nothing]
  /\ update = Nothing
  /\ step = Idle
  /\ taken = [d \in Devices |-> Zeros]
  /\ stamp = [d \in Devices |-> Nothing]
  /\ fresh = [d \in Devices |-> FALSE]
  /\ document = [d \in Devices |-> Nothing]
  /\ configured = FALSE
  /\ due = FALSE
  /\ wallUnit \in RawUnits
  /\ tempUnit = ""
  /\ settingsRead = 0
  /\ silence = [d \in Devices |-> Nothing]
  /\ disturbed = {}

-----------------------------------------------------------------------------
(* The reader.                                                             *)

\* Mutant: only a table that is decoded counts as a sign of life.
MarkSeenIfChanged(d, t) ==
  IF t \in Tables /\ cached[d][t] # actual[d][t] THEN [lastSeen EXCEPT ![d] = 0] ELSE lastSeen

\* a.markSeen, whatever the table.
MarkSeen(d, t) == [lastSeen EXCEPT ![d] = 0]

\* The snoop of device d, for table t, up to Cache.Update.
Hear(d, t) ==
  /\ update = Nothing
  /\ update' = [device |-> d,
                readings |-> IF t \in Tables THEN [cached[d] EXCEPT ![t] = actual[d][t]]
                                             ELSE cached[d]]
  /\ lastSeen' = MarkSeen(d, t)
  /\ silence' = [silence EXCEPT ![d] = 0]
  /\ disturbed' = disturbed \union {d}
  /\ UNCHANGED <<actual, cached, publishVars, unitVars, configured, due>>

\* Mutant: the copy is compared with what was heard last, not stored.
StoreNothing ==
  /\ update # Nothing
  /\ update' = Nothing
  /\ UNCHANGED <<actual, cached, lastSeen, publishVars, unitVars, configured, due, history>>

\* a.Cache.Update
Store ==
  /\ update # Nothing
  /\ cached' = [cached EXCEPT ![update.device] = update.readings]
  /\ update' = Nothing
  /\ UNCHANGED <<actual, lastSeen, publishVars, unitVars, configured, due, history>>

-----------------------------------------------------------------------------
(* publish.                                                                *)

StartPublish ==
  /\ step = Idle
  /\ configured
  /\ step' = 0
  /\ disturbed' = IF update = Nothing THEN {} ELSE {update.device}
  /\ UNCHANGED <<deviceVars, taken, stamp, fresh, document, unitVars, configured, due, silence>>

\* Nothing polled yet: publish returns before it looks at the devices.
SkipPublish ==
  /\ step = Idle
  /\ ~configured
  /\ due' = FALSE
  /\ UNCHANGED <<deviceVars, publishVars, unitVars, configured, history>>

\* GetAirHandler, GetHeatPump: the value first.
TakeValue(d) ==
  /\ step = 2 * (d - 1)
  /\ taken' = [taken EXCEPT ![d] = cached[d]]
  /\ step' = step + 1
  /\ UNCHANGED <<deviceVars, stamp, fresh, document, unitVars, configured, due, history>>

\* The stamp then.
TakeStamp(d) ==
  /\ step = 2 * d - 1
  /\ stamp' = [stamp EXCEPT ![d] = lastSeen[d]]
  /\ step' = step + 1
  /\ UNCHANGED <<deviceVars, taken, fresh, document, unitVars, configured, due, history>>

\* Mutant: a device stays available once it has been seen.
EverSeen(age) == age # Nothing

IsFresh(age) == age # Nothing /\ age < StaleAfter

\* isFresh of both, and publishAvailability.
Judge ==
  /\ step = Judging
  /\ fresh' = [d \in Devices |-> IsFresh(stamp[d])]
  /\ step' = Stating
  /\ UNCHANGED <<deviceVars, taken, stamp, document, unitVars, configured, due, history>>

\* Mutant: a stale device's fields are left as they were.
KeepStale(d) == IF fresh[d] THEN taken[d] ELSE document[d]

\* buildState: a stale device's fields are omitted.
Fields(d) == IF fresh[d] THEN taken[d] ELSE Nothing

\* The document is published; an unchanged one is retained already.
State ==
  /\ step = Stating
  /\ document' = [d \in Devices |-> Fields(d)]
  /\ step' = Idle
  /\ due' = FALSE
  /\ UNCHANGED <<deviceVars, taken, stamp, fresh, unitVars, configured, history>>

Publish ==
  \/ StartPublish
  \/ SkipPublish
  \/ \E d \in Devices : TakeValue(d) \/ TakeStamp(d)
  \/ Judge
  \/ State

-----------------------------------------------------------------------------
(* The poller.                                                             *)

\* Mutant: the letter of the discovery configs.
RawTempUnitToLetter(raw) == IF raw = 1 THEN "C" ELSE "F"

RawTempUnitToString(raw) ==
  CASE raw = 0 -> "fahrenheit" [] raw = 1 -> "celsius" [] OTHER -> "unknown"

\* Mutant: once read, the unit is kept.
NeverAged == tempUnit # ""

SettingsAreFresh == tempUnit # "" /\ settingsRead < SettingsInterval

\* refreshSettings; when the table cannot be read nothing changes.
RefreshSettings ==
  /\ ~SettingsAreFresh
  /\ tempUnit' = RawTempUnitToString(wallUnit)
  /\ settingsRead' = 0
  /\ UNCHANGED <<deviceVars, publishVars, wallUnit, configured, due, history>>

\* GetConfig succeeds for the first time.
Configure ==
  /\ ~configured
  /\ configured' = TRUE
  /\ UNCHANGED <<deviceVars, publishVars, unitVars, due, history>>

-----------------------------------------------------------------------------
(* The equipment, the wall unit and time.                                  *)

Change(d, t, v) ==
  /\ actual[d][t] # v
  /\ actual' = [actual EXCEPT ![d][t] = v]
  /\ UNCHANGED <<cached, lastSeen, update, publishVars, unitVars, configured, due, history>>

SetUnit(raw) ==
  /\ wallUnit # raw
  /\ wallUnit' = raw
  /\ UNCHANGED <<deviceVars, publishVars, tempUnit, settingsRead, configured, due, history>>

Tick ==
  /\ ~due
  /\ due' = TRUE
  /\ lastSeen' = [d \in Devices |-> Older(lastSeen[d])]
  /\ stamp' = [d \in Devices |-> Older(stamp[d])]
  /\ settingsRead' = IF settingsRead < SettingsInterval THEN settingsRead + 1 ELSE settingsRead
  /\ silence' = [d \in Devices |-> Older(silence[d])]
  /\ UNCHANGED <<actual, cached, update, step, taken, fresh, document, wallUnit, tempUnit,
                 configured, disturbed>>

Next ==
  \/ \E d \in Devices, t \in Tables \union {OtherTable} : Hear(d, t)
  \/ Store
  \/ Publish
  \/ RefreshSettings \/ Configure
  \/ \E d \in Devices, t \in Tables, v \in Values : Change(d, t, v)
  \/ \E raw \in RawUnits : SetUnit(raw)
  \/ Tick

Spec == Init /\ [][Next]_vars

\* Time passes, the goroutines run, and not every poll of a table fails.
FairSpec ==
  /\ Spec
  /\ WF_vars(Tick) /\ WF_vars(Store) /\ WF_vars(Publish)
  /\ SF_vars(RefreshSettings) /\ SF_vars(Configure)

-----------------------------------------------------------------------------
(* Properties.                                                             *)

(***************************************************************************)
(* "its entities go unavailable rather than freezing on a stale value"     *)
(* (DOCS.md:73): no reading stays in the document when its device was not  *)
(* heard of for StaleAfter, but for the ticks one publish takes to see it. *)
(***************************************************************************)
ShownIsRecent ==
  \A d \in Devices :
    document[d] # Nothing => silence[d] # Nothing /\ silence[d] <= StaleAfter + 1

(***************************************************************************)
(* value and stamp are taken in two steps, and stamp and value are stored  *)
(* in two: between publishes, the document shows what is cached, and only  *)
(* of a device that is available, unless a frame of the device came while  *)
(* publish ran or after.                                                   *)
(***************************************************************************)
UndisturbedIsExact ==
  step = Idle =>
    \A d \in Devices \ disturbed : document[d] = IF fresh[d] THEN cached[d] ELSE Nothing

(***************************************************************************)
(* Why they hold.  A stamp is never younger than the silence, a judgement  *)
(* is at most one tick older than the stamp, and the tick after it waits   *)
(* for the document.  What publish has taken of an undisturbed device is   *)
(* what is cached, and an update about to be stored disturbs its device.   *)
(***************************************************************************)
Recent(d, age) == silence[d] # Nothing /\ (silence[d] <= age \/ (due /\ silence[d] <= age + 1))

JudgedInTime ==
  /\ lastSeen = silence
  /\ \A d \in Devices : stamp[d] # Nothing => silence[d] # Nothing /\ silence[d] <= stamp[d]
  /\ \A d \in Devices : step = Stating /\ fresh[d] => Recent(d, StaleAfter - 1)
  /\ \A d \in Devices : document[d] # Nothing => Recent(d, StaleAfter)
  /\ ~configured => step = Idle /\ \A d \in Devices : document[d] = Nothing

TakenIsCached ==
  /\ update # Nothing => update.device \in disturbed
  /\ \A d \in Devices \ disturbed : step > 2 * (d - 1) => taken[d] = cached[d]

\* A device that sends nothing any more becomes unavailable and stays so.
SilentDevicesGo ==
  \A d \in Devices :
    <>[][~\E t \in Tables \union {OtherTable} : Hear(d, t)]_vars
      => <>[](~fresh[d] /\ document[d] = Nothing)

\* A device that is never silent until a tick before it would be stale stays
\* available, even when what it reports never changes or is not decoded.
HeardDevicesStay ==
  \A d \in Devices :
    <>[](silence[d] # Nothing /\ silence[d] + 1 < StaleAfter) => <>[](fresh[d])

(***************************************************************************)
(* A device that keeps reporting every table and whose readings no longer  *)
(* change is shown as it is, whatever publish and the snoops do to each    *)
(* other meanwhile.                                                        *)
(***************************************************************************)
ShownConverges ==
  \A d \in Devices :
    /\ <>[](silence[d] # Nothing /\ silence[d] + 1 < StaleAfter)
    /\ <>[][actual'[d] = actual[d]]_vars
    /\ \A t \in Tables : []<><<Hear(d, t)>>_vars
    => <>[](document[d] = actual[d])

\* The unit the entities carry becomes the wall unit's, also when it is changed
\* long after the daemon has started.
UnitConverges ==
  <>[][wallUnit' = wallUnit]_vars => <>[](tempUnit = RawTempUnitToString(wallUnit))
=============================================================================
