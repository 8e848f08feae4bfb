CONSTANTS
  Masters = {1, 2}
  Qualities = {1, 3}
  max_foreign_records = 2
  Self = 3
  OwnQuality = 2
  Configurations <- Roles
  Environment <- Mixed
  Announces <- MixedData
SPECIFICATION Spec
INVARIANTS
  TypeOK
  DataSetsAgree
  DecisionIsCurrent
  CrashesOnlyInTransit
  TimersFollowState
PROPERTY ImplementsForeignMasters
CHECK_DEADLOCK FALSE
