CONSTANTS
  Masters = {1, 2, 3, 4}
  Qualities = {1, 2}
  max_foreign_records = 3
SPECIFICATION Spec
INVARIANTS
  TypeOK
  SearchCoversUsed
  UsedAreHeard
  UsedAreDistinct
PROPERTY BestPreserved
