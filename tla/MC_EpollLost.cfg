\* Two watched files and one coroutine calling waitForEvent.
CONSTANTS
  f1 = f1
  f2 = f2
  w1 = w1
  w2 = w2
  w3 = w3
  Files <- TwoFiles
  Waiters <- OneWaiter
  Events <- MCEvents
  MaxSeq = 4
  NoFile = NoFile
SPECIFICATION Spec
INVARIANT Tracked
\* The watched file stops changing at MaxSeq and the waiters may have
\* nothing left to report: a final state is legitimate.
CHECK_DEADLOCK FALSE
