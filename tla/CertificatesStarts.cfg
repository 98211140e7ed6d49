SPECIFICATION Spec
CONSTANTS
  Names = {"10.0.0.1", "10.0.0.15"}
  PartOf <- ShortInLong
  Day = 1
  Year = 2
  RootYears = 3
  Zone = 1
  Failures <- RootOrOthers
  MaxTime = 5
  MaxIssued = 3
  None = None
  Torn = Torn
INVARIANTS
  TypeOK
  ServedChains
  FailsOnlyExpired
PROPERTY RootKept
