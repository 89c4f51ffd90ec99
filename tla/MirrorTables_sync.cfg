\* Two sessions and two mirrors; moonlink refuses tables, somebody
\* drops the extension, nothing else fails.
SPECIFICATION FairSpec
CONSTANTS
  Sessions = {s1, s2}
  Names = {n1, n2}
  Faults = {"reject", "cascade"}
  Savepoints = FALSE
  CallInWritingTxn = FALSE
  DropWaits = FALSE
  MaxOid = 3
  MaxHooks = 2
INVARIANTS MirrorsAreRegistered NoWaitCycle
PROPERTIES FailedCreateLeavesNoMirror RefusedNameIsFreed EveryCallEnds
