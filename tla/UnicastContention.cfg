CONSTANTS
  Masters = {"m1", "m2"}
  Slaves = {"s1", "s2"}
  Rank <- Order
  Configurations <- Competing
  unicastGrantDuration = 2
  EXPIRY = 1
  GRACE = 2
  GRANT_KEEPALIVE_INTERVAL = 2
  GRANT_CANCEL_ACK_TIMEOUT = 2
  None = "none"
SPECIFICATION Spec
INVARIANT OneSlotPerNode
PROPERTY NoEviction
