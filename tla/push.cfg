\* Two doorbells and a test, a phone that registers twice, a worker that may die.
SPECIFICATION Spec
CONSTANTS
  Bells = {b1, b2}
  Tests = {t1}
  MaxTokens = 2
  MaxQueues = 2
  MaxWaiting = 1
  MaxPanics = 1
SYMMETRY Symmetry
INVARIANTS DeviceOK LateOnce NoWorkSleeps
PROPERTY NeverOlder
CHECK_DEADLOCK FALSE
