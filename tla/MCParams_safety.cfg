SPECIFICATION Spec
CONSTANTS
  Number = {1, 2}
  Delay = {258}
  Sensitivity = {5}
  User = {"web", "lcd", "tcp"}
  Requests = 2
INVARIANTS DefaultHolds
PROPERTIES PowerCycleKeeps CommandHitsZone EditKeepsOthers
