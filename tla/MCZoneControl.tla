--------------------------- MODULE MCZoneControl ---------------------------
(* Small instances of ZoneControl.                                         *)
EXTENDS ZoneControl

CONSTANTS http, mqtt

OneRequest == {http}
TwoZones == {1, 2}
=============================================================================
