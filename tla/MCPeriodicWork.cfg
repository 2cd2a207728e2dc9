SPECIFICATION Spec
CONSTANTS
  Interval = 3
  MaxClock = 14
  Never = Never
INVARIANTS TypeOK NeverAhead
PROPERTIES OneTickPerSlot
CHECK_DEADLOCK FALSE
