SPECIFICATION Spec
CONSTANTS
  desktop = desktop  win1 = win1  win2 = win2
  a1 = a1  a2 = a2  b = b  icon = icon
  Desktop = desktop
  Windows <- MCWindows
  Leaves <- MCLeaves
  None = None
  Parent <- MCParent
  Layouts <- MCLayouts
  MaxChildren = 2
  Motions <- MCMotions
INVARIANTS TypeOK KeysFollowClicks MovesTold ClickHitsSeen
