------------------------- MODULE MCSetpointControl -------------------------
(* Small instances of SetpointControl.                                     *)
EXTENDS SetpointControl

OneZone == {1}
\* Of a range of 60 to 63: below it, near either end, and more than a byte holds.
Requested == {-10, 61, 62, 300}
HeatCoolAuto == {"heat", "cool", "auto"}
=============================================================================
