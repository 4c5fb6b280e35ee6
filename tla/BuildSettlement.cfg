SPECIFICATION FairSpec
CONSTANTS
  PIDs = {1, 2, 3}
  Guard = 1
  MaxBirths = 4
  None = None
INVARIANTS SettledIsQuiet EndedStaysEnded
PROPERTY ObservationEnds
CHECK_DEADLOCK FALSE
