------------------------------- MODULE MCBus -------------------------------
(* Small instances of Bus.                                                 *)
EXTENDS Bus

CONSTANTS poller, http, tstat, zoneParams, curParams

PollerAndHttp == {poller, http}
Thermostat == {tstat}
ZoneParams == {zoneParams}
TwoTables == {zoneParams, curParams}

Req(o, d, t) == [op |-> o, dst |-> d, table |-> t]

\* SetZoneConfig's two, reduced to one table: it reads and writes it.
ZoneRequests == {Req("read", tstat, zoneParams), Req("write", tstat, zoneParams)}

\* A caller's write, and the poller's read of its other table.
WriteAndRead == {Req("write", tstat, zoneParams), Req("read", tstat, curParams)}
=============================================================================
