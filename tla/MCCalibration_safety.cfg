SPECIFICATION Spec
CONSTANTS
  Zone = {"A", "B"}
  Operators = TRUE
  TIME = 2
  MINUTE = 5
  Minutes = {0, 1, 2}
INVARIANTS OwnSamplesOnly
PROPERTIES CalibrationEnds AutoCalibrationRecurs
