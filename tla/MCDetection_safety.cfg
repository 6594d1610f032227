SPECIFICATION HistorySpec
CONSTANTS
  Zone = {"A"}
  Kind = {"IVD"}
  Switch = {}
  Sens = {2, 5}
  CntMax = 5
  RingSlots = 2
  SinceMax = 1
  MayReset = TRUE
INVARIANTS CountersMeetTests LedsTruthful
PROPERTIES OneRecordPerOnset VerifiedAnew LastingConditionAlarms AlarmEnds
