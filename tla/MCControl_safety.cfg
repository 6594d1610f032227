SPECIFICATION Spec
CONSTANTS
  Flag = {"A", "B", "FC"}
  Single = FALSE
  Web = TRUE
  Tcp = TRUE
  Sensing = {3}
  Requests = 2
INVARIANTS SettingsStored LampTruthful BusGuarded
PROPERTIES EditKeepsZones EveryRequestServed
