SPECIFICATION Spec
CONSTANTS
  MaxFiles = 4
  MaxLines = 2
  MaxLogged = 9
  MaxCrashes = 1
  MaxFailures = 1
INVARIANTS
  TypeOK
  OldestLast
  NoHoles
  RecentKept
  QuietExportIsExact
