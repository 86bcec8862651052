SPECIFICATION StartupSpec
CONSTANTS
  Lines <- TwoLines
  Jids <- FewJids
  Paired <- OnePaired
  Scripts <- TwoScripts
  Environments <- FewEnvironments
  Unset <- NotSet
  MaxBoots = 3
  Faults = {"db", "ack", "wa", "stop", "crash", "logout"}
INVARIANTS
  StartupTypeOK
  SchemaInOrder
  ServesMigratedSchema
  OneDevicePerLine
  EveryLineServed
  StopDisconnectsAll
PROPERTIES
  RecordedLinesKeepTheirDevice
  StartReturns
\* The lives of the process are bounded.
CHECK_DEADLOCK FALSE
