SPECIFICATION SpecEither
CONSTANTS
  Jobs = {"j1", "j2"}
  Suite <- ThreeCases
  Asked <- Requests
  Kept = 1
  MaxCrashes = 1
  Sources = 2
  MaxReleases = 4
INVARIANTS HistoryIsSound ReleasedIsSearchable
PROPERTIES JobEnds
CHECK_DEADLOCK FALSE
