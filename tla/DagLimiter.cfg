\* Four steps of DAG runs started under three different configurations.
SPECIFICATION Spec
CONSTANTS
  c1 = c1
  c2 = c2
  c3 = c3
  c4 = c4
  Clients <- Steps
  Limits <- ConfiguredLimits
INVARIANTS
  SlotAccounting
  NoIdleHead
PROPERTIES
  FirstComeFirstServed
  WaitersServed
