CONSTANTS
  Masters = {"m1"}
  Slaves = {"s1"}
  Rank <- Order
  Configurations <- Pairs
  unicastGrantDuration = 2
  EXPIRY = 1
  GRACE = 2
  GRANT_KEEPALIVE_INTERVAL = 2
  GRANT_CANCEL_ACK_TIMEOUT = 2
  None = "none"
SPECIFICATION FairSpec
PROPERTIES ImplementsLease ServedAgain
