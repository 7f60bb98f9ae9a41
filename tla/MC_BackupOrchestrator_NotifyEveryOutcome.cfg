CONSTANTS
  r1 = r1
  r2 = r2
  r3 = r3
  r4 = r4
  d1 = d1
  d2 = d2
  Requests = {r1, r2, r3, r4}
  Drives = {d1, d2}
  DriveOf <- MCDriveOf
  NoRequest = NoRequest
  Privs <- MCPrivs

SPECIFICATION Spec

INVARIANT NotifyEveryOutcome
