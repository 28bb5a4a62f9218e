CONSTANTS
  reader = reader
  writer = writer
  breach = breach
  Observers <- MCObservers
  Breaches <- MCBreaches
  MaxFailures = 2
  MaxDrops = 2
SPECIFICATION Spec
INVARIANTS
  TypeOK
  SingleDial
  DisconnectOwned
PROPERTIES
  Recovers
  ImplementsAbstract
CHECK_DEADLOCK FALSE
