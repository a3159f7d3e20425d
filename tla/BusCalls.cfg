SPECIFICATION FairSpec
CONSTANTS
  poller = poller
  http = http
  tstat = tstat
  zoneParams = zoneParams
  curParams = curParams
  NoTable = NoTable
  NoRequest = NoRequest
  NoAction = NoAction
  Poller = poller
  DevTSTAT = tstat
  Callers <- PollerAndHttp
  Devices <- Thermostat
  Tables <- TwoTables
  Requests <- WriteAndRead
  Unsolicited = {"equip", "push"}
  ResponseRetries = 2
  ResponseChCap = 2
  MaxWire = 1
  MaxVersion = 1
INVARIANTS TypeOK CleanCallIsSound
PROPERTIES MonotonicReads EveryCallReturns ReaderUnblocks ServesCallers
