CONSTANTS
  Thread = {r1, r2}
  Various = r1
  BufSize = 2
  Goals = {1, 3}
  BufferSize = 3
  Garbage <- MCGarbage
  Requests <- MCRequests
SPECIFICATION Spec
INVARIANTS TypeOK BodyAsAnnounced RegistrationKept
PROPERTIES AnnouncesGoal KilledEnds
CONSTRAINT OneKilled
