\* A card, a notification and two doorbells: twins, progress, deletion and a slow owner.
SPECIFICATION FairGateSpec
CONSTANTS
  Cards = {c1}
  Notices = {n1}
  MaxRings = 2
  MaxReturns = 1
INVARIANTS GateTypeOK OneRing
PROPERTIES SeenNotRung CardRings
CHECK_DEADLOCK FALSE
