SPECIFICATION Spec
CONSTANTS
  p1 = p1
  p2 = p2
  p3 = p3
  bond1 = bond1
  tyw1 = tyw1
  bond2 = bond2
  more2 = more2
  tyw2 = tyw2
  File = {bond1, tyw1, bond2, tyw2}
  FamilyOf <- Families
  DateOf <- ReportDates
  Run = {p1, p2}
  Dates = 2
  MaxVersion = 1
  MaxFiles = 4
  Starts <- OnceMore
  Faults = {}
PROPERTIES
  CarriedOnlyWithoutSource
CHECK_DEADLOCK FALSE
