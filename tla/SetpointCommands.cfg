SPECIFICATION FairSpec
CONSTANTS
  MinSetpoint = 60
  MaxSetpoint = 63
  MinSetpointSpread = 2
  Zones <- OneZone
  Zone = 1
  Temps = {59, 62}
  Asks <- Requested
  Modes <- HeatCoolAuto
  Unknown = Unknown
INVARIANT TypeOK
PROPERTIES FreshCommandsAreExact OthersChangesKept CacheFollowsZone
