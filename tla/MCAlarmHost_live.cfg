SPECIFICATION HostSpec
CONSTANTS
  Zone = {"A"}
  Kind = {}
  Switch = {"SW2"}
  Sens = {1}
  CntMax = 4
  RingSlots = 1
  Silencer = {5}
  Delays = {1}
  TicksPerSecond = 1
  RunawayCap = 2
  Configs = {{}}
PROPERTIES LastingConditionRings SirenKept DetectionKept ShutdownFallsSilent
