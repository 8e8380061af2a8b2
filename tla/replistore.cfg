SPECIFICATION FairSpec
CONSTANTS
  r1 = r1  r2 = r2  r3 = r3  r4 = r4  b1 = b1  x = x  y = y
  Requests = {r1, r2, r3, r4}
  Buckets = {b1}
  Keys <- MCKeys
  Contents = {x, y}
  Scenarios <- MCScenarios
  FirstNonUtf8 = 2
  MaxCrashes = 1
INVARIANTS TypeOK NoDanglingObject AckedPutsAreDurable AnswersWereCurrent EventsMatchChanges
CHECK_DEADLOCK FALSE
PROPERTIES ChangesAreReplicated 
