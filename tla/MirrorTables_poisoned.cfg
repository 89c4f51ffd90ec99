\* One session, moonlink can be reached and refuses a call.
SPECIFICATION Spec
CONSTANTS
  Sessions = {s1}
  Names = {n1}
  Faults = {"refusal"}
  Savepoints = FALSE
  CallInWritingTxn = FALSE
  DropWaits = FALSE
  MaxOid = 1
  MaxHooks = 1
PROPERTIES FailedCreateLeavesNoMirror
