\* One watched file whose two events change up to six times, and three
\* coroutines calling waitForEvent.
CONSTANTS
  f1 = f1
  f2 = f2
  w1 = w1
  w2 = w2
  w3 = w3
  Files <- OneFile
  Waiters <- ThreeWaiters
  Events <- MCEvents
  MaxSeq = 7
  NoFile = NoFile
SPECIFICATION Spec
INVARIANT TypeOK NoPanic Tracked
PROPERTY Reported
\* The watched file stops changing at MaxSeq and the waiters may have
\* nothing left to report: a final state is legitimate.
CHECK_DEADLOCK FALSE
