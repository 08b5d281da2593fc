SPECIFICATION RankedSpec
CONSTANTS
  ScaleCnt = 2
  CfgLength = 12
INVARIANTS PrintedWhole CrashHasCause LostOnlyMixed
PROPERTIES MqttStarts 
CHECK_DEADLOCK FALSE
