SPECIFICATION Spec
CONSTANTS
  MaxTurns = 2
  DispatchRoom = 4
  UserRooms <- MCUserRooms
  Results <- MCResults
  UserFaults <- MCUserFaults
CHECK_DEADLOCK FALSE
INVARIANTS
  UserStateKept
  ArgumentsPassed
  StubReports
  DebugStateKept
PROPERTY
  UserFaultsReported
