CONSTANTS
  Masters = {1, 2}
  Qualities = {1}
  max_foreign_records = 2
  Self = 3
  OwnQuality = 2
  Configurations <- Alive
  Environment <- Retry
  Announces <- AllData
SPECIFICATION Spec
PROPERTIES
  SilentMasterIsLeft
  SilentNetwork
  FailsOver
