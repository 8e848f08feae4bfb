CONSTANTS
  Ports = {"a", "b", "c"}
  Configurations <- LinksAndIdle
  MODULUS = 3
  None = None
  Destinations = {1, 2, 3}
  Hashes = {1, 2}
SPECIFICATION FollowUpsSpec
INVARIANT OneExchange
PROPERTIES MeasuresAgain FollowUpsArrive
