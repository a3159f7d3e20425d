SPECIFICATION FairSpec
CONSTANTS
  rpm = rpm
  Nothing = Nothing
  OtherTable = OtherTable
  NDevices = 1
  Tables <- OneTable
  Values = {0, 1}
  Zero = 0
  StaleAfter = 3
  SettingsInterval = 2
  RawUnits = {0, 2}
INVARIANTS TypeOK ShownIsRecent UndisturbedIsExact
PROPERTIES SilentDevicesGo HeardDevicesStay ShownConverges UnitConverges
