\* The controller may raise the pin before it is configured, which raise()
\* reports as "Unconfigured IRQ was raised" and then handles.
CONSTANTS
  s1 = s1
  s2 = s2
  Sinks <- MCSinks
  MaxRaise = 3
  Kernlets = FALSE
  DriverNacks = FALSE
  EarlyRaise = TRUE
SPECIFICATION Spec
INVARIANT NoPanic
CHECK_DEADLOCK FALSE
