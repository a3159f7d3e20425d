SPECIFICATION Spec
CONSTANTS
  poller = poller
  http = http
  tstat = tstat
  zoneParams = zoneParams
  curParams = curParams
  NoTable = NoTable
  NoRequest = NoRequest
  NoAction = NoAction
  Poller = poller
  DevTSTAT = tstat
  Callers <- PollerAndHttp
  Devices <- Thermostat
  Tables <- ZoneParams
  Requests <- ZoneRequests
  Unsolicited = {}
  ResponseRetries = 2
  ResponseChCap = 2
  MaxWire = 2
  MaxVersion = 1
INVARIANT OkIsAnswered
