SPECIFICATION Spec
CONSTANTS
  web = web
  db = db
  Objects <- MCObjects
  MaxChanges = 2
INVARIANTS
  TypeOK
  OneRecordPerApp
  QuietPassIsExact
  SteadyObjectsAreFound
