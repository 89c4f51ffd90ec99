\* Two sessions with savepoints and two mirrors; everything goes wrong that can.
SPECIFICATION Spec
CONSTANTS
  Sessions = {s1, s2}
  Names = {n1, n2}
  Faults = {"reject", "refusal", "rpc", "abort", "connect", "crash", "cascade"}
  Savepoints = TRUE
  CallInWritingTxn = TRUE
  DropWaits = FALSE
  MaxOid = 2
  MaxHooks = 2
CONSTRAINTS OneRollsBack MirrorsMade
SYMMETRY Symmetry
INVARIANTS TypeOK OrphanOnlyByRace
PROPERTIES DropAckedBeforeCommit LostOnlyWithAnError RegistryKept
