SPECIFICATION Spec
CONSTANTS
  Zone = {"A"}
  Kind = {"IVD"}
  Switch = {}
  Silencer = {}
  Delays = {1, 2}
  TicksPerSecond = 1
  RunawayCap = 3
PROPERTIES SirenStops
