SPECIFICATION Spec
CONSTANTS
  http = http
  mqtt = mqtt
  Invalid = Invalid
  Absent = Absent
  Mqtt = mqtt
  Requests <- OneRequest
  Zones <- TwoZones
  MqttZone = 1
  AutoMode = TRUE
  RawFanModes = {0, 2}
  RawModes = {2, 3, 4}
  Setpoints = {60, 70}
  MaxCalls = 1
INVARIANT TypeOK
PROPERTIES OkIsApplied ErrorIsPrefix OtherHoldsUntouched ShownIsAsked
