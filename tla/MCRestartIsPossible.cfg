SPECIFICATION DaemonSpec
CONSTANTS
  s1 = s1
  s2 = s2
  c1 = c1
  t1 = t1
  Sessions <- MCSessions
  Cgroups <- MCCgroups
  Tenants <- MCTenants
  Windows <- MCWindows
  MaxSessions = 2
  MaxPending = 1
  MaxTime = 2
  NoIntent = none
  Disturbances <- NoDisturbances
SYMMETRY MCSymmetry
INVARIANTS RestartIsPossible
CHECK_DEADLOCK FALSE
