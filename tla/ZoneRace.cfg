SPECIFICATION Spec
CONSTANTS
  http = http
  mqtt = mqtt
  Invalid = Invalid
  Absent = Absent
  Mqtt = mqtt
  Requests <- OneRequest
  Zones <- TwoZones
  MqttZone = 1
  AutoMode = TRUE
  RawFanModes = {0}
  RawModes = {2, 4}
  Setpoints = {60}
  MaxCalls = 2
PROPERTY OtherHoldsUntouched
