---------------------------- MODULE SnoopProofs ----------------------------
(* Proofs about Snoop: types, and how old and how right what is shown is.  *)
EXTENDS Snoop, TLAPS

LEMMA OlderStamps ==
  ASSUME NEW age \in Stamps
  PROVE  /\ Older(age) \in Stamps
         /\ Older(age) = Nothing <=> age = Nothing
  BY SnoopAssumption DEF Older, Stamps, Ages, AgeCap

\* Growing older keeps the order of two ages, and adds at most one.
LEMMA OlderOrder ==
  ASSUME NEW a \in Stamps, NEW b \in Stamps, a # Nothing, b # Nothing
  PROVE  /\ a <= b => Older(a) <= Older(b)
         /\ Older(a) <= a + 1
  BY SnoopAssumption DEF Older, Stamps, Ages, AgeCap

\* Every step, with its parameters.
LEMMA StepCases ==
  ASSUME [Next]_vars
  PROVE  \/ \E d \in Devices, t \in Tables \union {OtherTable} : Hear(d, t)
         \/ Store
         \/ StartPublish \/ SkipPublish \/ Judge \/ State
         \/ \E d \in Devices : TakeValue(d)
         \/ \E d \in Devices : TakeStamp(d)
         \/ RefreshSettings \/ Configure
         \/ \E d \in Devices, t \in Tables, v \in Values : Change(d, t, v)
         \/ \E raw \in RawUnits : SetUnit(raw)
         \/ Tick
         \/ UNCHANGED vars
  BY DEF Next, Publish

-----------------------------------------------------------------------------
(* Types.                                                                  *)

LEMMA InitTypes == Init => TypeOK
  <1> SUFFICES ASSUME Init PROVE TypeOK
    OBVIOUS
  <1>1. Zeros \in Readings
    BY SnoopAssumption DEF Zeros, Readings
  <1>2. Nothing \in Stamps /\ "" \in TempUnits
    BY DEF Stamps, TempUnits
  <1>3. step \in Idle .. Stating /\ settingsRead \in 0 .. SettingsInterval
    <2>1. Idle \in Idle .. Stating /\ 0 \in 0 .. SettingsInterval
      BY SnoopAssumption DEF Idle, Stating, Last
    <2> QED
      BY <2>1 DEF Init
  <1>4. /\ cached \in [Devices -> Readings] /\ taken \in [Devices -> Readings]
        /\ lastSeen \in [Devices -> Stamps] /\ stamp \in [Devices -> Stamps]
        /\ silence \in [Devices -> Stamps]
    BY <1>1, <1>2 DEF Init
  <1> QED
    BY <1>2, <1>3, <1>4 DEF Init, TypeOK

LEMMA StepTypes == TypeOK /\ [Next]_vars => TypeOK'
  <1> SUFFICES ASSUME TypeOK, [Next]_vars PROVE TypeOK'
    OBVIOUS
  <1> USE DEF TypeOK, deviceVars, publishVars, unitVars, history
  <1>0. 0 \in Stamps /\ NDevices \in Nat /\ SettingsInterval \in Nat
    BY SnoopAssumption DEF Stamps, Ages, AgeCap
  <1>1. ASSUME NEW d \in Devices, NEW t \in Tables \union {OtherTable}, Hear(d, t)
        PROVE  TypeOK'
    <2>1. update'.readings \in Readings /\ update'.device \in Devices
      BY <1>1, SnoopAssumption DEF Hear, Readings
    <2>2. update' \in [device : Devices, readings : Readings]
      BY <1>1, <2>1 DEF Hear
    <2> QED
      BY <1>0, <1>1, <2>2 DEF Hear, MarkSeen
  <1>2. CASE Store
    <2>1. update \in [device : Devices, readings : Readings]
      BY <1>2 DEF Store
    <2> QED
      BY <1>2, <2>1 DEF Store
  <1>3. CASE StartPublish
    <2>1. disturbed' \subseteq Devices
      BY <1>3 DEF StartPublish
    <2>2. step' \in Idle .. Stating
      BY <1>0, <1>3 DEF StartPublish, Idle, Stating, Last
    <2> QED
      BY <1>3, <2>1, <2>2 DEF StartPublish
  <1>4. CASE SkipPublish
    BY <1>4 DEF SkipPublish
  <1>5. CASE \E d \in Devices : TakeValue(d)
    BY <1>0, <1>5 DEF TakeValue, Idle, Stating, Last, Devices
  <1>6. CASE \E d \in Devices : TakeStamp(d)
    BY <1>0, <1>6 DEF TakeStamp, Idle, Stating, Last, Devices
  <1>7. CASE Judge
    <2>1. \A d \in Devices : IsFresh(stamp[d]) \in BOOLEAN
      BY DEF IsFresh
    <2>2. step' \in Idle .. Stating
      BY <1>0, <1>7 DEF Judge, Idle, Stating, Last
    <2> QED
      BY <1>7, <2>1, <2>2 DEF Judge
  <1>8. CASE State
    <2>1. step' \in Idle .. Stating
      BY <1>0, <1>8 DEF State, Idle, Stating, Last
    <2>2. \A d \in Devices : Fields(d) \in Readings \union {Nothing}
      BY DEF Fields
    <2> QED
      BY <1>8, <2>1, <2>2 DEF State
  <1>9. CASE RefreshSettings
    <2>1. RawTempUnitToString(wallUnit) \in TempUnits
      BY DEF RawTempUnitToString, TempUnits
    <2>2. 0 \in 0 .. SettingsInterval
      BY <1>0
    <2> QED
      BY <1>9, <2>1, <2>2 DEF RefreshSettings
  <1>10. CASE Configure
    BY <1>10 DEF Configure
  <1>11. CASE \E d \in Devices, t \in Tables, v \in Values : Change(d, t, v)
    BY <1>11 DEF Change, Readings
  <1>12. CASE \E raw \in RawUnits : SetUnit(raw)
    BY <1>12 DEF SetUnit
  <1>13. CASE Tick
    <2>1. /\ lastSeen' \in [Devices -> Stamps]
          /\ stamp' \in [Devices -> Stamps]
          /\ silence' \in [Devices -> Stamps]
      BY <1>13, OlderStamps DEF Tick
    <2>2. settingsRead' \in 0 .. SettingsInterval
      BY <1>0, <1>13 DEF Tick
    <2> QED
      BY <1>13, <2>1, <2>2 DEF Tick
  <1>14. CASE UNCHANGED vars
    BY <1>14 DEF vars
  <1> QED
    BY <1>1, <1>2, <1>3, <1>4, <1>5, <1>6, <1>7, <1>8, <1>9, <1>10, <1>11, <1>12, <1>13, <1>14,
       StepCases

\* Snoops, publish and poller keep their types.
THEOREM SnoopTypes == Spec => []TypeOK
  BY InitTypes, StepTypes, PTL DEF Spec

-----------------------------------------------------------------------------
(* How old what is shown is.                                               *)

LEMMA InitInTime == Init => JudgedInTime
  BY SnoopAssumption DEF Init, JudgedInTime, Idle, Stating, Last

LEMMA StepInTime == TypeOK /\ JudgedInTime /\ [Next]_vars => JudgedInTime'
  <1> SUFFICES ASSUME TypeOK, JudgedInTime, [Next]_vars PROVE JudgedInTime'
    OBVIOUS
  <1> USE DEF deviceVars, publishVars, unitVars, history
  <1>0. /\ NDevices \in Nat /\ StaleAfter \in Nat \ {0} /\ Nothing \notin Nat
        /\ \A age \in Stamps : age # Nothing => age \in Nat
        /\ silence \in [Devices -> Stamps] /\ stamp \in [Devices -> Stamps]
        /\ step \in Int /\ due \in BOOLEAN
    BY SnoopAssumption DEF TypeOK, Stamps, Ages, AgeCap, Idle, Stating, Last
  <1>1. ASSUME UNCHANGED <<lastSeen, silence, stamp, step, fresh, document, due, configured>>
        PROVE  JudgedInTime'
    BY <1>1 DEF JudgedInTime, Recent
  <1>2. ASSUME NEW d \in Devices, NEW t \in Tables \union {OtherTable}, Hear(d, t)
        PROVE  JudgedInTime'
    <2>1. lastSeen' = silence'
      BY <1>2 DEF Hear, MarkSeen, JudgedInTime
    <2>2. \A e \in Devices : \/ silence'[e] = silence[e]
                             \/ silence'[e] = 0
      BY <1>0, <1>2 DEF Hear
    <2>3. \A e \in Devices, age \in Nat : Recent(e, age) => Recent(e, age)'
      BY <1>0, <1>2, <2>2 DEF Recent, Hear
    <2>4. \A e \in Devices : stamp'[e] # Nothing => silence'[e] # Nothing /\ silence'[e] <= stamp'[e]
      BY <1>0, <1>2, <2>2 DEF JudgedInTime, Hear
    <2>5. StaleAfter - 1 \in Nat /\ StaleAfter \in Nat
      BY <1>0
    <2> QED
      BY <1>2, <2>1, <2>3, <2>4, <2>5 DEF JudgedInTime, Hear
  <1>3. CASE StartPublish \/ \E d \in Devices : TakeValue(d)
    <2>1. step' # Stating
      BY <1>0, <1>3 DEF StartPublish, TakeValue, Stating, Last, Devices
    <2> QED
      BY <1>3, <2>1 DEF StartPublish, TakeValue, JudgedInTime, Recent, Idle, Devices
  <1>4. CASE SkipPublish
    BY <1>0, <1>4 DEF SkipPublish, JudgedInTime, Recent, Idle, Stating, Last
  <1>5. ASSUME NEW d \in Devices, TakeStamp(d)
        PROVE  JudgedInTime'
    <2>1. step' # Stating
      BY <1>0, <1>5 DEF TakeStamp, Stating, Last, Devices
    <2>2. step # Idle
      BY <1>0, <1>5 DEF TakeStamp, Idle, Devices
    <2>3. \A e \in Devices : stamp'[e] # Nothing => silence'[e] # Nothing /\ silence'[e] <= stamp'[e]
      BY <1>0, <1>5 DEF TakeStamp, JudgedInTime
    <2> QED
      BY <1>5, <2>1, <2>2, <2>3 DEF TakeStamp, JudgedInTime, Recent
  <1>6. CASE Judge
    <2>1. ASSUME NEW d \in Devices, fresh'[d]
          PROVE  Recent(d, StaleAfter - 1)
      <3>1. stamp[d] # Nothing /\ stamp[d] < StaleAfter
        BY <1>6, <2>1 DEF Judge, IsFresh
      <3>2. silence[d] # Nothing /\ silence[d] <= stamp[d]
        BY <3>1 DEF JudgedInTime
      <3>3. silence[d] \in Nat /\ stamp[d] \in Nat
        BY <1>0, <3>1, <3>2
      <3> QED
        BY <1>0, <3>1, <3>2, <3>3 DEF Recent
    <2>2. step # Idle
      BY <1>0, <1>6 DEF Judge, Judging, Last, Idle
    <2> QED
      BY <1>6, <2>1, <2>2 DEF Judge, JudgedInTime, Recent
  <1>7. CASE State
    <2>1. step = Stating /\ step # Idle /\ step' = Idle /\ Idle # Stating
      BY <1>0, <1>7 DEF State, Stating, Last, Idle
    <2>2. \A d \in Devices : document'[d] # Nothing => fresh[d]
      BY <1>7 DEF State, Fields
    <2>3. \A d \in Devices : document'[d] # Nothing => Recent(d, StaleAfter)'
      BY <1>0, <1>7, <2>1, <2>2 DEF State, JudgedInTime, Recent
    <2> QED
      BY <1>7, <2>1, <2>3 DEF State, JudgedInTime
  <1>8. CASE Configure
    BY <1>8 DEF Configure, JudgedInTime, Recent
  <1>9. CASE Tick
    <2>1. lastSeen' = silence'
      BY <1>9 DEF Tick, JudgedInTime
    <2>2. \A d \in Devices : stamp'[d] # Nothing => silence'[d] # Nothing /\ silence'[d] <= stamp'[d]
      BY <1>0, <1>9, OlderStamps, OlderOrder DEF Tick, JudgedInTime
    <2>3. ASSUME NEW d \in Devices, NEW age \in Nat, Recent(d, age)
          PROVE  Recent(d, age)'
      <3>1. silence'[d] # Nothing /\ silence'[d] <= silence[d] + 1 /\ silence'[d] \in Nat
        BY <1>0, <1>9, <2>3, OlderStamps, OlderOrder DEF Tick, Recent
      <3>2. silence[d] <= age /\ silence[d] \in Nat
        BY <1>0, <1>9, <2>3 DEF Tick, Recent
      <3> QED
        BY <1>9, <3>1, <3>2 DEF Tick, Recent
    <2>4. StaleAfter - 1 \in Nat /\ StaleAfter \in Nat
      BY <1>0
    <2> QED
      BY <1>9, <2>1, <2>2, <2>3, <2>4 DEF Tick, JudgedInTime
  <1> QED
    BY <1>1, <1>2, <1>3, <1>4, <1>5, <1>6, <1>7, <1>8, <1>9, StepCases
       DEF Store, RefreshSettings, Change, SetUnit, vars

LEMMA InTimeIsRecent == TypeOK /\ JudgedInTime => ShownIsRecent
  BY SnoopAssumption DEF TypeOK, JudgedInTime, Recent, ShownIsRecent, Stamps, Ages, AgeCap

\* publish, isFresh and buildState together take a silent device's readings out
\* of the document in time, whatever the snoops do while it runs.
THEOREM ShownAreRecent == Spec => []ShownIsRecent
  BY InitTypes, StepTypes, InitInTime, StepInTime, InTimeIsRecent, PTL DEF Spec

-----------------------------------------------------------------------------
(* Whether what is shown is what is cached.                                *)

Exact == TakenIsCached /\ UndisturbedIsExact

LEMMA InitExact == Init => Exact
  BY SnoopAssumption DEF Init, Exact, TakenIsCached, UndisturbedIsExact, Devices, Idle

LEMMA StepExact == TypeOK /\ Exact /\ [Next]_vars => Exact'
  <1> SUFFICES ASSUME TypeOK, Exact, [Next]_vars PROVE Exact'
    OBVIOUS
  <1> USE DEF deviceVars, publishVars, unitVars, history, Exact
  <1>0. NDevices \in Nat /\ step \in Int
    BY SnoopAssumption DEF TypeOK, Idle, Stating, Last
  <1>1. ASSUME UNCHANGED <<cached, update, step, taken, fresh, document, disturbed>>
        PROVE  Exact'
    BY <1>1 DEF TakenIsCached, UndisturbedIsExact
  <1>2. ASSUME NEW d \in Devices, NEW t \in Tables \union {OtherTable}, Hear(d, t)
        PROVE  Exact'
    BY <1>2 DEF Hear, TakenIsCached, UndisturbedIsExact
  <1>3. CASE Store
    <2>1. \A d \in Devices \ disturbed : cached'[d] = cached[d]
      BY <1>3 DEF Store, TakenIsCached, TypeOK
    <2> QED
      BY <1>3, <2>1 DEF Store, TakenIsCached, UndisturbedIsExact
  <1>4. CASE StartPublish
    <2>1. \A d \in Devices : ~(step' > 2 * (d - 1)) /\ step' # Idle
      BY <1>0, <1>4 DEF StartPublish, Devices, Idle
    <2>2. step' # Idle
      BY <1>4 DEF StartPublish, Idle
    <2> QED
      BY <1>4, <2>1, <2>2 DEF StartPublish, TakenIsCached, UndisturbedIsExact
  <1>5. ASSUME NEW d \in Devices, TakeValue(d)
        PROVE  Exact'
    <2>1. step' # Idle
      BY <1>0, <1>5 DEF TakeValue, Idle, Devices
    <2>2. \A e \in Devices : step' > 2 * (e - 1) => e = d \/ step > 2 * (e - 1)
      BY <1>0, <1>5 DEF TakeValue, Devices
    <2>3. taken' = [taken EXCEPT ![d] = cached[d]] /\ d \in DOMAIN taken
      BY <1>5 DEF TakeValue, TypeOK
    <2> QED
      BY <1>5, <2>1, <2>2, <2>3 DEF TakeValue, TakenIsCached, UndisturbedIsExact
  <1>6. ASSUME NEW d \in Devices, TakeStamp(d)
        PROVE  Exact'
    <2>1. step' # Idle
      BY <1>0, <1>6 DEF TakeStamp, Idle, Devices
    <2>2. \A e \in Devices : step' > 2 * (e - 1) => step > 2 * (e - 1)
      BY <1>0, <1>6 DEF TakeStamp, Devices
    <2> QED
      BY <1>6, <2>1, <2>2 DEF TakeStamp, TakenIsCached, UndisturbedIsExact
  <1>7. CASE Judge
    <2>1. step' # Idle
      BY <1>0, <1>7 DEF Judge, Stating, Last, Idle
    <2>2. \A d \in Devices : step > 2 * (d - 1)
      BY <1>0, <1>7 DEF Judge, Judging, Last, Devices
    <2> QED
      BY <1>7, <2>1, <2>2 DEF Judge, TakenIsCached, UndisturbedIsExact
  <1>8. CASE State
    <2>1. \A d \in Devices : step > 2 * (d - 1) /\ ~(step' > 2 * (d - 1))
      BY <1>0, <1>8 DEF State, Stating, Last, Idle, Devices
    <2>2. \A d \in Devices \ disturbed : taken[d] = cached[d]
      BY <2>1 DEF TakenIsCached
    <2> QED
      BY <1>8, <2>1, <2>2 DEF State, Fields, TakenIsCached, UndisturbedIsExact
  <1> QED
    BY <1>1, <1>2, <1>3, <1>4, <1>5, <1>6, <1>7, <1>8, StepCases
       DEF SkipPublish, RefreshSettings, Configure, Change, SetUnit, Tick, vars

\* However GetAirHandler, GetHeatPump and the snoops interleave, what publish
\* left in the document of a device nothing was heard of since is what is cached.
THEOREM UndisturbedAreExact == Spec => []UndisturbedIsExact
  <1>1. Exact => UndisturbedIsExact
    BY DEF Exact
  <1> QED
    BY <1>1, InitTypes, StepTypes, InitExact, StepExact, PTL DEF Spec
=============================================================================
