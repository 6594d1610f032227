SPECIFICATION Spec
CONSTANTS
  Number = {1, 2}
  Delay = {30, 60}
  Sensitivity = {5}
  User = {"lcd"}
  Requests = 2
PROPERTIES EditChangesItsRow
