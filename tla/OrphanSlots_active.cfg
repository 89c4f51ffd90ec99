\* Two slots left behind, to which moonlink has attached.
SPECIFICATION Spec
CONSTANTS
  MoonlinkSlots = {m1, m2}
  LookalikeSlots = {}
  OtherSlots = {o1}
  InitSlots = {m1, m2}
  CanCreate = FALSE
  CanRollBack = FALSE
  MaxMirrors = 1
  MaxPid = 2
PROPERTIES DropOrphanSlotsGoesOn
