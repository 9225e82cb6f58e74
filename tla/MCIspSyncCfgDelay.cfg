SPECIFICATION Spec
SYMMETRY Perms
CONSTANTS
  BufNum = 5
  DlyLimit = 3
  MaxDelay = 2
  SyncIndex = 3
  Value = {a, b}
  Delays = {2}
  Positions = {0, 1}
  UpdatePos = 0
  Smp = FALSE
  Switching = TRUE
INVARIANTS TypeOK AppliesDelayed RingKept
PROPERTY SwitchClean
