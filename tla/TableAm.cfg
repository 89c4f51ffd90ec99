\* Three tables of either kind.
SPECIFICATION FairSpec
CONSTANTS
  Tables = {t1, t2, t3}
  FreezeAge = 1
  MaxAge = 2
INVARIANTS TypeOK MirrorsHoldNothing
PROPERTIES KindsDoNotChange AnalyzeCoversDatabase XidsGoOn
