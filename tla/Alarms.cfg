CONSTANTS
  Ids = {"PORT_STATE", "OFM_SECONDS", "NO_SYNC", "NETWORK_FLT", "MASTER_CHANGE"}
  Configurations <- Files
  InitialDelays = {0, 2}
  RECEIPT_TIME = 2
  MAX_AGE = 3
SPECIFICATION FairSpec
INVARIANT HandledIsShown
PROPERTIES NoFlapping TroubleIsRaised AllClear
