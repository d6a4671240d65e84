SPECIFICATION Spec
CONSTANTS
  Settings <- MCSettings
  Reading <- MCReading
  RdcuConfigs <- MCRdcuConfigs
  Shorter <- MCShorter
  Version <- MCVersion
  Stamps <- MCStamps
  Ids <- MCIds
  MaxEntities = 2
  MaxFailures = 1
INVARIANTS
  Accepted
  ModelsAgree
  HeaderKept
  ParsChecked
PROPERTY
  Delivers
