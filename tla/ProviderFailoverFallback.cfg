\* One caller without a session: is the primary ever asked again in fallback?
\* A queued caller may wait for good once the manager is destroyed.
SPECIFICATION FairSpec
CONSTANTS
  r1 = r1
  r2 = r2
  none = none
  Requests <- OneCaller
  NoRequest = none
  Provider <- PrimaryAndFallback
  Slots = 2
  Complex <- OneCaller
  Sessioned = {}
  Wanted <- WantedEntries
  Allowed <- Unrestricted
  Limited = {"a"}
  Concurrent <- One
  Budget <- One
  Cost <- UnitCost
  MaxQueue = 1
  DropOldest = FALSE
  Probes <- OneTick
  t1 = t1
  t2 = t2
PROPERTIES
  PrimaryTriedAgain
CHECK_DEADLOCK FALSE
