SPECIFICATION Spec
CONSTANTS
  MaxSaves = 2
  MaxIdentities = 2
  Faults = 3
  Stamp = {1, 2, 3}
  LINK_BACKUP_RETENTION = 1
  MaxEntries = 2
  Absent = Absent
  Torn = Torn
INVARIANTS SaveSurvives UnchangedMeansWritten LinkIsBackedUp ProgramSurvives
PROPERTIES IdentityIsKept
CHECK_DEADLOCK FALSE
