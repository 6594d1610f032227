SPECIFICATION Spec
CONSTANTS
  Flag = {"A", "FC"}
  Single = FALSE
  Web = FALSE
  Tcp = FALSE
  Sensing = {}
  Requests = 2
PROPERTIES EditKeepsTamper
