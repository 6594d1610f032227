SPECIFICATION Spec
CONSTANTS
  Switch = {"SW1"}
  OwnLine = {}
  Setter = {6}
  SixWire = TRUE
  FenceAlarms = TRUE
  Bouncing = TRUE
INVARIANTS SwitchInStep
PROPERTIES SwitchFollowsInput UndoneAlarmReturns
