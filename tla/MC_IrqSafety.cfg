\* Every interleaving of configure, up to three raises, two sinks that may be
\* attached at any time and automated by a kernlet, and their drivers'
\* awaits, acks, nacks and kicks.
CONSTANTS
  s1 = s1
  s2 = s2
  Sinks <- MCSinks
  MaxRaise = 3
  Kernlets = TRUE
  DriverNacks = TRUE
  EarlyRaise = FALSE
SPECIFICATION Spec
INVARIANT TypeOK NoPanic NoLostRaise MaskAgrees WaitersCurrent SequenceOrder
PROPERTY SequencesMonotonic DeliverySpec ServiceEnds
\* The pin stops once MaxRaise raises were made and every driver waits.
CHECK_DEADLOCK FALSE
