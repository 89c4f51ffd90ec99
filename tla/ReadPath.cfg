\* Two sessions, three commits, one restart.
SPECIFICATION FairSpec
CONSTANTS
  Sessions = {s1, s2}
  MaxLsn = 3
  MaxExits = 1
INVARIANTS TypeOK SnapshotSurvives
PROPERTIES ReadsAsPromised EveryRequestEnds
