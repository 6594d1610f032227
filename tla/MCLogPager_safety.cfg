SPECIFICATION Spec
CONSTANTS
  Type = {"FC", "AIVD"}
  TOTAL = 6
  WEB_PAGE = 3
  LCD_PAGE = 2
  Records <- MCRecords
  Stray = 1
INVARIANTS TypeOK PagesInOrder FlagsTellEnds
PROPERTIES StraysOnlyAtSeam
