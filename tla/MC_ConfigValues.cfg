CONSTANTS
  Ids = {"x"}
  GroupIds = {"vm/1"}
  BackupTypes = {"vm"}
  MaxLen <- MCMaxLen
  PrivWidth = 8
  CalendarEvents = {"daily"}
  TimeSpans = {"week"}
  Err = Err
  None = None
  Null = Null
  NoValue = NoValue

SPECIFICATION Spec

INVARIANT TypeOK
INVARIANT SavedValueReloads
INVARIANT ParseIsExact
INVARIANT MaintenanceAsDocumented
INVARIANT RoleGrantsAsDocumented
