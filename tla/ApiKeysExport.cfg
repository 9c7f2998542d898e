\* Two institutions, two requests at once, and files that last two seconds.
SPECIFICATION MCSpec
CONSTANTS
  a1 = a1
  a2 = a2
  Aggregate = {a1, a2}
  Task = {t1, t2}
  Duration = 2
  GroupPage = 1
  DelegationPage = 1
  MaxFile = 2
  MaxChange = 1
  MaxFailure = 1
INVARIANTS ExportTypeOK NoGroupLeftOut
PROPERTIES LinkIsOfLastRequest NobodyIsLockedOut
CHECK_DEADLOCK FALSE
