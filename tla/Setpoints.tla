----------------------------- MODULE Setpoints -----------------------------
(***************************************************************************)
(* The arithmetic of setSetpoints and parseSetpoint in mqtt/mqtt.go: which *)
(* setpoints to write when Home Assistant asks for one of them, given the  *)
(* pair the cache holds.  Setpoints are uint8, and so are their sums.      *)
(***************************************************************************)
EXTENDS Integers

CONSTANTS MinSetpoint, MaxSetpoint, MinSetpointSpread

Uint8 == 0 .. 255

\* What main checks of flags that fit a byte: min < max, and nothing of the
\* spread.  It checks before it cuts the flags to bytes (infinitive.go:67-73).
ASSUME SetpointAssumption ==
  /\ MinSetpoint \in Uint8 /\ MaxSetpoint \in Uint8 /\ MinSetpointSpread \in Uint8
  /\ MinSetpoint < MaxSetpoint

Add(a, b) == (a + b) % 256
Sub(a, b) == (a - b + 256) % 256

\* Mutant: no limits.
Unclamped(t) == t

\* parseSetpoint, of any number, rounded; it is cut to a byte only when clamped.
Clamp(t) == IF t < MinSetpoint THEN MinSetpoint
            ELSE IF t > MaxSetpoint THEN MaxSetpoint
            ELSE t

TooClose(heat, cool) == cool < Add(heat, MinSetpointSpread)

\* Heat was requested: cool is pushed up; at the top heat is pushed down again,
\* below MinSetpoint if the range is narrower than the spread.
WithHeat(heat, cool) ==
  LET pushed == Add(heat, MinSetpointSpread)
  IN  IF ~TooClose(heat, cool) THEN [heat |-> heat, cool |-> cool]
      ELSE IF pushed > MaxSetpoint
        THEN [heat |-> Sub(MaxSetpoint, MinSetpointSpread), cool |-> MaxSetpoint]
      ELSE [heat |-> heat, cool |-> pushed]

\* Mutant: pushes heat to where cool is.
PushHeatTo(heat, cool) ==
  IF TooClose(heat, cool) THEN [heat |-> cool, cool |-> cool] ELSE [heat |-> heat, cool |-> cool]

\* Cool was requested: heat is pushed down, to MinSetpoint at the lowest.
WithCool(heat, cool) ==
  IF ~TooClose(heat, cool) THEN [heat |-> heat, cool |-> cool]
  ELSE IF cool < Add(MinSetpoint, MinSetpointSpread)
    THEN [heat |-> MinSetpoint, cool |-> cool]
  ELSE [heat |-> Sub(cool, MinSetpointSpread), cool |-> cool]
=============================================================================
