\* A slot of moonlink left behind with a lookalike, another database's slot, and
\* an administrator who tries again; everything is allowed.
SPECIFICATION RetrySpec
CONSTANTS
  MoonlinkSlots = {m1}
  LookalikeSlots = {x1}
  OtherSlots = {o1}
  InitSlots = {m1, x1, o1}
  CanCreate = TRUE
  CanRollBack = TRUE
  MaxMirrors = 1
  MaxPid = 2
INVARIANTS TypeOK
PROPERTIES OtherDatabasesKept LiveSlotLostOnlyByRace OnlyHeldSlotsStay DropExtensionEnds RetriesClean
