CONSTANTS
  Masters = {1, 2, 3}
  TwoStepMasters = {1, 2}
  Half = 3
  MAX_SEQ_ERRORS = 2
  MAX_FOLLOWUP_GAP = 3
SPECIFICATION ExchangesSpec
INVARIANTS
  TypeOK
  TimestampIsOfLastRequest
  DelayNeedsOffset
  FollowUpCompletesSync
PROPERTIES
  OffsetsRecover
  SequenceGrows
