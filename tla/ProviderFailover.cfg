\* Two callers, one of them with a session, over a primary and a fallback.
SPECIFICATION Spec
CONSTANTS
  r1 = r1
  r2 = r2
  none = none
  Requests <- Callers
  NoRequest = none
  Provider <- PrimaryAndFallback
  Slots = 2
  Complex <- Callers
  Sessioned = {r2}
  Wanted <- WantedEntries
  Allowed <- Unrestricted
  Limited = {"a"}
  Concurrent <- One
  Budget <- One
  Cost <- UnitCost
  MaxQueue = 1
  DropOldest = FALSE
  Probes <- Ticks
  t1 = t1
  t2 = t2
SYMMETRY TickSymmetry
INVARIANTS
  TypeOK
  QueuedOnce
  PermitsMatchCalls
  ModeTellsTruth
PROPERTIES
  SessionStaysPinned
