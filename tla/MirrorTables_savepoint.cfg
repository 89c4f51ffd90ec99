\* One session, nothing fails.
SPECIFICATION Spec
CONSTANTS
  Sessions = {s1}
  Names = {n1}
  Faults = {}
  Savepoints = TRUE
  CallInWritingTxn = FALSE
  DropWaits = FALSE
  MaxOid = 1
  MaxHooks = 1
INVARIANTS MirrorsAreRegistered
