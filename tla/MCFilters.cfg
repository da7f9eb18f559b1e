SPECIFICATION Spec
CONSTANTS
  Agencies = {"CPSC", "FDA"}
  Statuses = {"Open"}
  States = {"CA"}
  Codes = {"CA", "NV", "ca"}
  Upper <- MCUpper
  LastDay = 3
  MaxSet = 2
INVARIANTS
  TypeOK
  FiltersMeanWhatTheySay
  DayWindowsPartition
PROPERTIES
  Refines
