--------------------------- MODULE SetpointProofs ---------------------------
(***************************************************************************)
(* Proofs about SetpointControl, for every range, spread, zone and set of  *)
(* temperatures that its assumptions allow: what a command decided on the  *)
(* right setpoints leaves, and what one decided on outdated ones changes.  *)
(***************************************************************************)
EXTENDS SetpointControl, TLAPS

USE DEF Uint8

LEMMA Bounds ==
  /\ MinSetpoint \in Nat /\ MaxSetpoint \in Nat /\ MinSetpointSpread \in Nat
  /\ MaxSetpoint + MinSetpointSpread <= 255
  /\ MinSetpoint < MaxSetpoint
  /\ MinSetpointSpread <= MaxSetpoint
BY SetpointAssumption, NoWrapAssumption

\* Sums and differences that stay in range do not wrap round.
LEMMA AddFits ==
  ASSUME NEW a \in Nat, NEW b \in Nat, a + b <= 255
  PROVE  Add(a, b) = a + b
BY DEF Add

LEMMA SubFits ==
  ASSUME NEW a \in Nat, NEW b \in Nat, b <= a, a <= 255
  PROVE  Sub(a, b) = a - b
BY DEF Sub

LEMMA ClampInRange == ASSUME NEW t \in Int PROVE Clamp(t) \in Range
BY Bounds DEF Clamp, Range

\* Heat setpoints to which the spread can be added without wrapping round.
Roomy(t) == t + MinSetpointSpread <= 255

\* parseSetpoint's result, asked for as heat setpoint, gives an exact pair.
LEMMA WithHeatExact ==
  ASSUME NEW heat \in Range, NEW old \in Pairs
  PROVE  /\ WithHeat(heat, old.cool) \in Pairs
         /\ Exact("heat", heat, old, WithHeat(heat, old.cool))
         /\ Roomy(WithHeat(heat, old.cool).heat)
<1> DEFINE cool == old.cool
           w == [old EXCEPT !["heat"] = heat]
<1> USE Bounds DEF Range
<1>1. cool \in Uint8 /\ w = [heat |-> heat, cool |-> cool]
  <2>1. heat \in Uint8 /\ cool \in Uint8
    BY DEF Pairs
  <2>2. PICK p \in Pairs : p = [heat |-> heat, cool |-> cool]
    BY <2>1 DEF Pairs
  <2>3. p.heat = heat /\ p.cool = cool
    BY <2>2
  <2>4. w = p
    BY <2>1, <2>3 DEF Pairs
  <2> QED BY <2>1, <2>2, <2>4
<1>2. Add(heat, MinSetpointSpread) = heat + MinSetpointSpread
  BY AddFits
<1>3. Sub(MaxSetpoint, MinSetpointSpread) = MaxSetpoint - MinSetpointSpread
  BY SubFits
<1>4. TooClose(heat, cool) <=> ~Apart(w)
  BY <1>1, <1>2 DEF TooClose, Apart
<1> HIDE DEF w, cool
<1>5. CASE ~TooClose(heat, cool)
  <2>1. WithHeat(heat, cool) = w
    BY <1>1, <1>5 DEF WithHeat
  <2> QED BY <1>1, <1>4, <1>5, <2>1 DEF Exact, Pairs, Roomy, w, cool
<1>6. CASE TooClose(heat, cool) /\ heat + MinSetpointSpread > MaxSetpoint
  <2> DEFINE p == WithHeat(heat, cool)
  <2>1. p = [heat |-> MaxSetpoint - MinSetpointSpread, cool |-> MaxSetpoint]
    BY <1>2, <1>3, <1>6 DEF WithHeat
  <2> HIDE DEF p
  <2>2. p \in Pairs /\ Roomy(p.heat)
    BY <2>1 DEF Pairs, Roomy
  <2>3. heat > MaxSetpoint - MinSetpointSpread /\ p.cool = p.heat + MinSetpointSpread
    BY <1>6, <2>1
  <2>4. Exact("heat", heat, old, p)
    BY <1>4, <1>6, <2>1, <2>3 DEF Exact, w
  <2> QED BY <2>2, <2>4 DEF p, cool
<1>7. CASE TooClose(heat, cool) /\ heat + MinSetpointSpread <= MaxSetpoint
  <2> DEFINE p == WithHeat(heat, cool)
  <2>1. p = [heat |-> heat, cool |-> heat + MinSetpointSpread]
    BY <1>2, <1>7 DEF WithHeat
  <2> HIDE DEF p
  <2>2. p \in Pairs /\ Roomy(p.heat)
    BY <1>7, <2>1 DEF Pairs, Roomy
  <2>3. ~(heat > MaxSetpoint - MinSetpointSpread) /\ p.cool = p.heat + MinSetpointSpread
    BY <1>7, <2>1
  <2>4. Exact("heat", heat, old, p)
    BY <1>4, <1>7, <2>1, <2>3 DEF Exact, w
  <2> QED BY <2>2, <2>4 DEF p, cool
<1> QED BY <1>5, <1>6, <1>7

\* And asked for as cool setpoint.
LEMMA WithCoolExact ==
  ASSUME NEW cool \in Range, NEW old \in Pairs, Roomy(old.heat)
  PROVE  /\ WithCool(old.heat, cool) \in Pairs
         /\ Exact("cool", cool, old, WithCool(old.heat, cool))
         /\ Roomy(WithCool(old.heat, cool).heat)
<1> DEFINE heat == old.heat
           w == [old EXCEPT !["cool"] = cool]
<1> USE Bounds DEF Range
<1>1. heat \in Uint8 /\ w = [heat |-> heat, cool |-> cool]
  <2>1. cool \in Uint8 /\ heat \in Uint8
    BY DEF Pairs
  <2>2. PICK p \in Pairs : p = [heat |-> heat, cool |-> cool]
    BY <2>1 DEF Pairs
  <2>3. p.heat = heat /\ p.cool = cool
    BY <2>2
  <2>4. w = p
    BY <2>1, <2>3 DEF Pairs
  <2> QED BY <2>1, <2>2, <2>4
<1>2. Add(heat, MinSetpointSpread) = heat + MinSetpointSpread
  BY <1>1, AddFits DEF Roomy
<1>3. Add(MinSetpoint, MinSetpointSpread) = MinSetpoint + MinSetpointSpread
  BY AddFits
<1>4. TooClose(heat, cool) <=> ~Apart(w)
  BY <1>1, <1>2 DEF TooClose, Apart
<1> HIDE DEF w
<1>5. CASE ~TooClose(heat, cool)
  <2>1. WithCool(heat, cool) = w
    BY <1>1, <1>5 DEF WithCool
  <2> QED BY <1>1, <1>4, <1>5, <2>1 DEF Exact, Pairs, Roomy, w
<1>6. CASE TooClose(heat, cool) /\ cool < MinSetpoint + MinSetpointSpread
  <2> DEFINE p == WithCool(heat, cool)
  <2>1. p = [heat |-> MinSetpoint, cool |-> cool]
    BY <1>3, <1>6 DEF WithCool
  <2> HIDE DEF p
  <2>2. p \in Pairs /\ Roomy(p.heat)
    BY <2>1 DEF Pairs, Roomy
  <2>3. Exact("cool", cool, old, p)
    BY <1>4, <1>6, <2>1 DEF Exact, w
  <2> QED BY <2>2, <2>3 DEF p
<1>7. CASE TooClose(heat, cool) /\ cool >= MinSetpoint + MinSetpointSpread
  <2> DEFINE p == WithCool(heat, cool)
  <2>1. Sub(cool, MinSetpointSpread) = cool - MinSetpointSpread
    BY <1>7, SubFits
  <2>2. p = [heat |-> cool - MinSetpointSpread, cool |-> cool]
    BY <1>3, <1>7, <2>1 DEF WithCool
  <2> HIDE DEF p
  <2>3. p \in Pairs /\ Roomy(p.heat)
    BY <1>7, <2>2 DEF Pairs, Roomy
  <2>4. ~(cool < MinSetpoint + MinSetpointSpread) /\ p.cool = p.heat + MinSetpointSpread
    BY <1>7, <2>2
  <2>5. Exact("cool", cool, old, p)
    BY <1>4, <1>7, <2>2, <2>4 DEF Exact, w
  <2> QED BY <2>3, <2>5 DEF p
<1> QED BY <1>5, <1>6, <1>7

-----------------------------------------------------------------------------
\* Nothing in reach of a command wraps round.
AllRoomy ==
  /\ \A z \in Zones : Roomy(setpoints[z].heat)
  /\ polled # Unknown => Roomy(polled.heat)
  /\ cached # Unknown => Roomy(cached.heat)
  /\ command # Unknown /\ command.update.heat # Unknown => Roomy(command.update.heat)

\* A decided command that is still fresh will be exact when it is written.
WriteIsExact ==
  command # Unknown /\ command.pc = "write" /\ command.fresh =>
    Exact(command.asked, command.temp, setpoints[Zone], Written)

\* Where the spread had not to be made, a command selects only what it asks for.
OthersNotSelected ==
  command # Unknown /\ command.pc = "write" /\ ~command.tight =>
    command.update[Other(command.asked)] = Unknown

\* The inductive invariant.  What the two action properties say of a write was
\* settled when it was decided, and holds of it until then.
Inv == TypeOK /\ AllRoomy /\ WriteIsExact /\ OthersNotSelected

LEMMA UnknownIsNothing ==
  Unknown \notin Uint8
BY ControlAssumption

\* The environment's setpoints.
LEMMA TempsFit ==
  ASSUME NEW p \in [heat : Temps, cool : Temps]
  PROVE  p \in Pairs /\ Roomy(p.heat)
<1>1. p.heat \in Temps /\ p.cool \in Temps /\ p = [heat |-> p.heat, cool |-> p.cool]
  OBVIOUS
<1>2. p.heat \in Uint8 /\ p.cool \in Uint8
  BY <1>1, ControlAssumption
<1>3. Roomy(p.heat)
  BY <1>1, NoWrapAssumption DEF Roomy
<1> QED BY <1>1, <1>2, <1>3 DEF Pairs

LEMMA InitInv == Init => Inv
<1> SUFFICES ASSUME Init PROVE Inv
  OBVIOUS
<1> USE DEF Init
<1>1. \A z \in Zones : setpoints[z] \in [heat : Temps, cool : Temps]
  OBVIOUS
<1>2. setpoints \in [Zones -> Pairs]
  BY TempsFit
<1>3. \A z \in Zones : Roomy(setpoints[z].heat)
  BY <1>1, TempsFit
<1> QED BY <1>2, <1>3 DEF Inv, TypeOK, AllRoomy, WriteIsExact, OthersNotSelected

\* What Decide computes.
Wanted == IF command.asked = "heat" THEN WithHeat(command.temp, CachedPair.cool)
                                    ELSE WithCool(CachedPair.heat, command.temp)

LEMMA WantedExact ==
  ASSUME TypeOK, AllRoomy, command # Unknown, cached # Unknown
  PROVE  /\ Wanted \in Pairs
         /\ Exact(command.asked, command.temp, CachedPair, Wanted)
         /\ Roomy(Wanted.heat)
<1>1. command \in Commands /\ cached \in Configs
  BY DEF TypeOK
<1>2. /\ command.asked \in {"heat", "cool"} /\ command.temp \in Range
      /\ CachedPair \in Pairs /\ Roomy(CachedPair.heat)
  BY <1>1 DEF Commands, Configs, AllRoomy, CachedPair, Pairs
<1>3. CASE command.asked = "heat"
  BY <1>2, <1>3, WithHeatExact DEF Wanted
<1>4. CASE command.asked = "cool"
  BY <1>2, <1>4, WithCoolExact DEF Wanted
<1> QED BY <1>2, <1>3, <1>4

LEMMA CachedPairType ==
  ASSUME TypeOK, cached # Unknown
  PROVE  CachedPair \in Pairs
BY DEF TypeOK, Configs, CachedPair, Pairs

\* Decide in terms of it.
LEMMA DecideIsWanted ==
  ASSUME Decide
  PROVE  /\ command # Unknown /\ command.pc = "decide" /\ cached # Unknown
         /\ UNCHANGED <<setpoints, mode, polled, cached>>
         /\ Wanted = CachedPair => command' = Unknown
         /\ Wanted # CachedPair =>
              command' = [command EXCEPT
                            !.pc = "write", !.update = Differing(Wanted, CachedPair),
                            !.tight = ~Apart([CachedPair EXCEPT ![command.asked] = command.temp]),
                            !.fresh = CachedPair = setpoints[Zone]]
BY DEF Decide, Wanted

\* What Write leaves behind.
LEMMA WrittenFits ==
  ASSUME TypeOK, command # Unknown
  PROVE  Written \in Pairs /\ (AllRoomy => Roomy(Written.heat))
<1>1. command.update \in Updates /\ setpoints[Zone] \in Pairs
  BY ControlAssumption DEF TypeOK, Commands
<1> QED BY <1>1, UnknownIsNothing, ControlAssumption DEF Written, Updates, Pairs, AllRoomy

LEMMA NextInv == Inv /\ [Next]_vars => Inv'
<1> SUFFICES ASSUME Inv, [Next]_vars PROVE Inv'
  OBVIOUS
<1> USE DEF Inv
<1>0. /\ TypeOK /\ AllRoomy /\ WriteIsExact /\ OthersNotSelected
      /\ Zone \in Zones /\ PolledZone \in Zones
      /\ Unknown \notin Uint8
  BY ControlAssumption, UnknownIsNothing
<1>1. CASE PollParams
  <2>1. TypeOK' BY <1>0, <1>1 DEF PollParams, TypeOK
  <2>2. AllRoomy' BY <1>0, <1>1 DEF PollParams, AllRoomy
  <2>3. WriteIsExact' BY <1>0, <1>1 DEF PollParams, WriteIsExact, Written
  <2>4. OthersNotSelected' BY <1>0, <1>1 DEF PollParams, OthersNotSelected
  <2> QED BY <2>1, <2>2, <2>3, <2>4
<1>2. CASE PollCurrent
  <2>1. polled \in Pairs /\ cached' = [heat |-> polled.heat, cool |-> polled.cool, mode |-> mode]
    BY <1>0, <1>2 DEF PollCurrent, TypeOK
  <2>2. cached' \in Configs
    BY <1>0, <2>1 DEF Pairs, Configs, TypeOK
  <2>3. TypeOK' BY <1>0, <1>2, <2>2 DEF PollCurrent, TypeOK
  <2>4. AllRoomy' BY <1>0, <1>2, <2>1 DEF PollCurrent, AllRoomy
  <2>5. WriteIsExact' BY <1>0, <1>2 DEF PollCurrent, WriteIsExact, Written
  <2>6. OthersNotSelected' BY <1>0, <1>2 DEF PollCurrent, OthersNotSelected
  <2> QED BY <2>3, <2>4, <2>5, <2>6
<1>3. CASE PollFails
  <2>1. TypeOK' BY <1>0, <1>3 DEF PollFails, TypeOK
  <2>2. AllRoomy' BY <1>0, <1>3 DEF PollFails, AllRoomy
  <2>3. WriteIsExact' BY <1>0, <1>3 DEF PollFails, WriteIsExact, Written
  <2>4. OthersNotSelected' BY <1>0, <1>3 DEF PollFails, OthersNotSelected
  <2> QED BY <2>1, <2>2, <2>3, <2>4
<1>4. ASSUME NEW t \in Asks, NEW f \in {"heat", "cool"}, Ask(f, t),
             UNCHANGED <<setpoints, mode, polled, cached>>
      PROVE  Inv'
  <2>1. Clamp(t) \in Range
    BY ClampInRange, ControlAssumption
  <2>2. command' \in Commands /\ command'.pc = "decide" /\ command'.update.heat = Unknown
    BY <1>4, <2>1 DEF Ask, Commands, Updates, NoUpdate
  <2>3. TypeOK' BY <1>0, <1>4, <2>2 DEF Ask, TypeOK
  <2>4. AllRoomy' BY <1>0, <1>4, <2>2 DEF AllRoomy
  <2>5. WriteIsExact' /\ OthersNotSelected' BY <2>2 DEF WriteIsExact, OthersNotSelected
  <2> QED BY <2>3, <2>4, <2>5
<1>5. ASSUME NEW t \in Asks, SetTemperature(t) PROVE Inv'
  BY <1>4, <1>5 DEF SetTemperature
<1>6. ASSUME NEW t \in Asks, NEW f \in {"heat", "cool"}, SetTemperatureOf(f, t) PROVE Inv'
  BY <1>4, <1>6 DEF SetTemperatureOf
<1>7. CASE Decide
  <2> DEFINE w == [CachedPair EXCEPT ![command.asked] = command.temp]
             d == [command EXCEPT !.pc = "write", !.update = Differing(Wanted, CachedPair),
                                  !.tight = ~Apart(w), !.fresh = CachedPair = setpoints[Zone]]
  <2>1. /\ command \in Commands /\ command.asked \in {"heat", "cool"} /\ command # Unknown
        /\ CachedPair \in Pairs /\ setpoints[Zone] \in Pairs
        /\ UNCHANGED <<setpoints, mode, polled, cached>>
    BY <1>0, <1>7, DecideIsWanted DEF TypeOK, Commands, Configs, CachedPair, Pairs
  <2>2. /\ Wanted \in Pairs
        /\ Exact(command.asked, command.temp, CachedPair, Wanted)
        /\ Roomy(Wanted.heat)
    BY <1>0, <1>7, DecideIsWanted, WantedExact
  <2>4. CASE Wanted = CachedPair
    <3>1. command' = Unknown
      BY <1>7, <2>4, DecideIsWanted
    <3> QED BY <1>0, <2>1, <3>1 DEF TypeOK, AllRoomy, WriteIsExact, OthersNotSelected
  <2>5. CASE Wanted # CachedPair
    <3>1. command' = d
      BY <1>7, <2>5, DecideIsWanted
    <3>2. Differing(Wanted, CachedPair) \in Updates
      BY <2>1, <2>2 DEF Differing, Updates, Pairs
    <3>3. Apart(w) \in BOOLEAN /\ (CachedPair = setpoints[Zone]) \in BOOLEAN
      BY DEF Apart
    <3> HIDE DEF w
    <3>4. /\ command' \in Commands
          /\ command'.update = Differing(Wanted, CachedPair)
          /\ command'.tight = ~Apart(w) /\ command'.fresh = (CachedPair = setpoints[Zone])
          /\ command'.asked = command.asked /\ command'.temp = command.temp
      BY <2>1, <3>1, <3>2, <3>3 DEF Commands
    <3> HIDE DEF d
    <3>5. TypeOK' BY <1>0, <2>1, <3>4 DEF TypeOK
    <3>6. ASSUME CachedPair = setpoints[Zone] PROVE Written' = Wanted
      <4>1. command'.update = Differing(Wanted, setpoints[Zone]) /\ setpoints' = setpoints
        BY <2>1, <3>4, <3>6
      <4>2. Unknown \notin {Wanted.heat, Wanted.cool}
        BY <1>0, <2>2 DEF Pairs
      <4> QED BY <2>1, <2>2, <4>1, <4>2 DEF Written, Differing, Pairs
    <3>7. WriteIsExact'
      BY <2>1, <2>2, <3>4, <3>6 DEF WriteIsExact
    <3>8. command'.update.heat \in {Unknown, Wanted.heat}
      BY <3>4 DEF Differing
    <3>9. AllRoomy' BY <1>0, <2>1, <2>2, <3>8 DEF AllRoomy
    <3>10. ASSUME Apart(w) PROVE command'.update[Other(command.asked)] = Unknown
      <4>1. Wanted = w
        BY <2>2, <3>10 DEF Exact, w
      <4>2. Wanted[Other(command.asked)] = CachedPair[Other(command.asked)]
        BY <2>1, <4>1 DEF Other, Pairs, w
      <4> QED BY <2>1, <3>4, <4>2 DEF Differing, Other
    <3>11. OthersNotSelected'
      BY <3>4, <3>10 DEF OthersNotSelected
    <3> QED BY <3>5, <3>7, <3>9, <3>11
  <2> QED BY <2>4, <2>5
<1>8. CASE Refuse
  <2>1. TypeOK' BY <1>0, <1>8 DEF Refuse, TypeOK
  <2>2. AllRoomy' BY <1>0, <1>8 DEF Refuse, AllRoomy
  <2>3. WriteIsExact' /\ OthersNotSelected'
    BY <1>8 DEF Refuse, WriteIsExact, OthersNotSelected
  <2> QED BY <2>1, <2>2, <2>3
<1>9. CASE Write
  <2>1. command' = Unknown /\ setpoints' = [setpoints EXCEPT ![Zone] = Written]
    BY <1>9 DEF Write
  <2>2. Written \in Pairs /\ Roomy(Written.heat)
    BY <1>0, <1>9, WrittenFits DEF Write
  <2>3. TypeOK' BY <1>0, <1>9, <2>1, <2>2 DEF Write, TypeOK
  <2>4. AllRoomy' BY <1>0, <1>9, <2>1, <2>2 DEF Write, AllRoomy, TypeOK
  <2>5. WriteIsExact' /\ OthersNotSelected' BY <2>1 DEF WriteIsExact, OthersNotSelected
  <2> QED BY <2>3, <2>4, <2>5
<1>10. CASE WriteFails
  <2>1. Written \in Pairs /\ Roomy(Written.heat)
    BY <1>0, <1>10, WrittenFits DEF WriteFails
  <2>2. TypeOK' BY <1>0, <1>10, <2>1 DEF WriteFails, TypeOK
  <2>3. AllRoomy' BY <1>0, <1>10, <2>1 DEF WriteFails, AllRoomy, TypeOK
  <2>4. WriteIsExact' /\ OthersNotSelected'
    BY <1>10 DEF WriteFails, WriteIsExact, OthersNotSelected
  <2> QED BY <2>2, <2>3, <2>4
<1>11. ASSUME NEW z \in Zones, NEW p \in [heat : Temps, cool : Temps], ChangeSetpoints(z, p)
       PROVE  Inv'
  <2>1. p \in Pairs /\ Roomy(p.heat)
    BY TempsFit
  <2>2. command' \in Commands \union {Unknown}
    BY <1>0, <1>11 DEF ChangeSetpoints, TypeOK, Commands
  <2>3. TypeOK' BY <1>0, <1>11, <2>1, <2>2 DEF ChangeSetpoints, TypeOK
  <2>4. command' # Unknown => command # Unknown /\ command'.update = command.update
    BY <1>0, <1>11 DEF ChangeSetpoints, TypeOK, Commands
  <2>5. AllRoomy' BY <1>0, <1>11, <2>1, <2>4 DEF ChangeSetpoints, AllRoomy, TypeOK
  <2>6. ASSUME z = Zone PROVE WriteIsExact'
    BY <1>0, <1>11, <2>6 DEF ChangeSetpoints, WriteIsExact, TypeOK, Commands
  <2>7. ASSUME z # Zone PROVE WriteIsExact'
    <3>1. command' = command /\ setpoints'[Zone] = setpoints[Zone]
      BY <1>0, <1>11, <2>7 DEF ChangeSetpoints, TypeOK
    <3> QED BY <1>0, <3>1 DEF WriteIsExact, Written
  <2>8. OthersNotSelected'
    BY <1>0, <1>11 DEF ChangeSetpoints, OthersNotSelected, TypeOK, Commands
  <2> QED BY <2>3, <2>5, <2>6, <2>7, <2>8
<1>12. ASSUME NEW m \in Modes, ChangeMode(m) PROVE Inv'
  <2>1. TypeOK' BY <1>0, <1>12 DEF ChangeMode, TypeOK
  <2>2. AllRoomy' BY <1>0, <1>12 DEF ChangeMode, AllRoomy
  <2>3. WriteIsExact' BY <1>0, <1>12 DEF ChangeMode, WriteIsExact, Written
  <2>4. OthersNotSelected' BY <1>0, <1>12 DEF ChangeMode, OthersNotSelected
  <2> QED BY <2>1, <2>2, <2>3, <2>4
<1>13. CASE UNCHANGED vars
  <2>1. TypeOK' /\ AllRoomy' BY <1>0, <1>13 DEF vars, TypeOK, AllRoomy
  <2>2. WriteIsExact' BY <1>0, <1>13 DEF vars, WriteIsExact, Written
  <2>3. OthersNotSelected' BY <1>0, <1>13 DEF vars, OthersNotSelected
  <2> QED BY <2>1, <2>2, <2>3
<1> QED
  BY <1>1, <1>2, <1>3, <1>5, <1>6, <1>7, <1>8, <1>9, <1>10, <1>11, <1>12, <1>13 DEF Next

-----------------------------------------------------------------------------
\* Both ways to return nil leave what the invariant says of the command.
LEMMA StepIsExact ==
  ASSUME Inv, \/ Decide /\ command' = Unknown /\ CachedPair = setpoints[Zone]
              \/ Write /\ command.fresh
  PROVE  Exact(command.asked, command.temp, setpoints[Zone], setpoints'[Zone])
<1>1. ASSUME Decide, command' = Unknown, CachedPair = setpoints[Zone]
      PROVE  Exact(command.asked, command.temp, setpoints[Zone], setpoints'[Zone])
  <2>1. setpoints' = setpoints /\ command \in Commands
    BY <1>1, DecideIsWanted DEF Inv, TypeOK
  <2>2. Exact(command.asked, command.temp, CachedPair, Wanted)
    BY <1>1, DecideIsWanted, WantedExact DEF Inv
  <2>3. ASSUME Wanted # CachedPair PROVE FALSE
    <3> DEFINE d == [command EXCEPT
                       !.pc = "write", !.update = Differing(Wanted, CachedPair),
                       !.tight = ~Apart([CachedPair EXCEPT ![command.asked] = command.temp]),
                       !.fresh = CachedPair = setpoints[Zone]]
    <3>1. command' = d
      BY <1>1, <2>3, DecideIsWanted
    <3>2. Differing(Wanted, CachedPair) \in Updates
      BY <1>1, DecideIsWanted, WantedExact, CachedPairType DEF Inv, Differing, Updates, Pairs
    <3>3. d \in Commands
      BY <2>1, <3>2 DEF Commands, Apart
    <3> QED BY <1>1, <3>1, <3>3, NoCommandAssumption
  <2> QED BY <1>1, <2>1, <2>2, <2>3
<1>2. ASSUME Write, command.fresh
      PROVE  Exact(command.asked, command.temp, setpoints[Zone], setpoints'[Zone])
  <2>1. setpoints'[Zone] = Written
    BY <1>2, ControlAssumption DEF Write, Inv, TypeOK
  <2> QED BY <1>2, <2>1 DEF Write, Inv, WriteIsExact
<1> QED BY <1>1, <1>2

\* A step that ends a command and changes the other setpoint wrote it.
LEMMA StepKeepsOthers ==
  ASSUME Inv, Next, NEW f \in {"heat", "cool"},
         command # Unknown, command' = Unknown, command.asked = Other(f),
         setpoints'[Zone][f] # setpoints[Zone][f]
  PROVE  command.tight
<1>1. command \in Commands /\ Zone \in Zones /\ setpoints[Zone] \in Pairs
  BY ControlAssumption DEF Inv, TypeOK
<1>2. command.pc = "write" /\ setpoints'[Zone] = Written
  <2> DEFINE applied == [setpoints EXCEPT ![Zone] = Written]
  <2>0. applied[Zone] = Written
    BY <1>1 DEF Inv, TypeOK
  <2> HIDE DEF applied
  <2>1. CASE Write \/ WriteFails
    <3>1. command.pc = "write" /\ setpoints' \in {setpoints, applied}
      BY <2>1 DEF Write, WriteFails, applied
    <3> QED BY <2>0, <3>1
  <2>2. ASSUME NEW z \in Zones, NEW p \in [heat : Temps, cool : Temps], ChangeSetpoints(z, p)
        PROVE  FALSE
    <3>1. command' \in {command, [command EXCEPT !.fresh = FALSE]}
      BY <2>2 DEF ChangeSetpoints
    <3>2. [command EXCEPT !.fresh = FALSE] \in Commands
      BY <1>1 DEF Commands
    <3> QED BY <1>1, <3>1, <3>2, NoCommandAssumption
  <2>3. ASSUME UNCHANGED setpoints PROVE FALSE
    BY <2>3
  <2> QED
    BY <2>1, <2>2, <2>3 DEF Next, PollParams, PollCurrent, PollFails, SetTemperature,
                            SetTemperatureOf, Decide, Refuse, ChangeMode
<1>3. command.update[f] # Unknown
  BY <1>2 DEF Written
<1>4. f = Other(command.asked)
  BY DEF Other
<1> QED BY <1>1, <1>2, <1>3, <1>4 DEF Inv, OthersNotSelected, Commands

-----------------------------------------------------------------------------
\* The model's variables keep their types: in particular what a command asks for
\* is clamped into MinSetpoint .. MaxSetpoint, and what it writes is a byte.
THEOREM SetpointTypes == Spec => []TypeOK
<1>1. Inv => TypeOK BY DEF Inv
<1> QED BY <1>1, InitInv, NextInv, PTL DEF Spec

\* Whenever the cached setpoints it decides on are the thermostat's and stay so
\* until the write, setSetpoints leaves the request and the spread, but for a
\* heat setpoint lowered at the top and a spread given up at the bottom, and
\* moves the other setpoint no further than that takes.
THEOREM SetpointsAreExact == Spec => FreshCommandsAreExact
<1>1. Inv /\ [Next]_vars =>
        [\/ Decide /\ command' = Unknown /\ CachedPair = setpoints[Zone]
         \/ Write /\ command.fresh
         => Exact(command.asked, command.temp, setpoints[Zone], setpoints'[Zone])]_vars
  BY StepIsExact
<1> QED BY <1>1, InitInv, NextInv, PTL DEF Spec, FreshCommandsAreExact

\* Whatever is outdated in the cache, a command's write changes the setpoint it
\* was not asked for only where the cached pair made the spread necessary.
THEOREM OthersAreKept == Spec => OthersChangesKept
<1>1. Inv /\ [Next]_vars =>
        [\A f \in {"heat", "cool"} :
           /\ command # Unknown /\ command' = Unknown /\ command.asked = Other(f)
           /\ setpoints'[Zone][f] # setpoints[Zone][f]
           => command.tight]_vars
  BY StepKeepsOthers DEF vars
<1> QED BY <1>1, InitInv, NextInv, PTL DEF Spec, OthersChangesKept
=============================================================================
