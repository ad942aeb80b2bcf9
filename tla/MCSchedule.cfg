\* Three requests about the catalogue, or three about the programme of one hall.
CONSTANTS
  MaxRequests = 3
  Menus <- MCMenus
  Codes = {c1, c2}
  Names = {n1, n2}
  Matrices = {x1, x2, x3}
  Bare = {x2}
  Broken = {x3}
  Times = {0, 2}
  Lengths = {0, 1}
  SeedStart = 3
  SeedLength = 1
  Buffer = 1
  MaxNow = 1
  SeedCode = c1
  SeedName = n1
  SeedMatrix = x1
  NoRow = NoRow
  NoRequest = NoRequest
  Unset = Unset
SPECIFICATION ScheduleSpec
INVARIANTS
  ScheduleTypeOK
  ReferencesHold
  NamesCollideOnlyByRace
  OverlapOnlyByRace
  SeatlessOnlyByFailure
  OldLayoutOnlyByUpdate
PROPERTIES
  DeletedForGood
  StatusLostOnlyByRace
CHECK_DEADLOCK FALSE
