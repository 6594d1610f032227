SPECIFICATION Spec
CONSTANTS
  TOTAL = 3
  SIZE = 2
  BASE = 4
  BYTE = 4
  Records = 5
  Clearer = {5}
INVARIANTS AddressAgrees
PROPERTIES ContractKept ClearEnds
