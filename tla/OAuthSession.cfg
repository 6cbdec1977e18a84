SPECIFICATION FairSpec
CONSTANTS
  Job = {j1, j2}
  None = None
  Garbage = Garbage
  Unread = Unread
  MaxRequest = 2
  MaxLogin = 2
  MaxEnd = 1
INVARIANTS TypeOK  SessionIsStored CalmJobsSign
 
