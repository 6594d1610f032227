SPECIFICATION Spec
CONSTANTS
  Zone = {"A"}
  Kind = {"IVD", "RLX"}
  Switch = {}
  Silencer = {5}
  Delays = {0, 1, 2}
  TicksPerSecond = 1
  RunawayCap = 3
PROPERTIES WindowKept OrphanOnlyByTornSilence LatchDropsOnlyDead LatchCoversLive ContractKept AlarmRings RingingStops LatchFollowsSiren
