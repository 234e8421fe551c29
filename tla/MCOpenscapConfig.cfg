CONSTANTS
  ws = ws
  tilde = tilde
  home = home
  n1 = n1
  n2 = n2
  bad = bad
  old9 = old9
  fedora = fedora
  rhel9 = rhel9
  zz10 = zz10
  own = own
  homeless = homeless
  top = top
  oldDir = oldDir
  zzDir = zzDir
  Workspaces = {ws, tilde, home}
  Expanded <- MCExpanded
  Names = {n1, n2, bad}
  SafeNames = {n1, n2}
  Paths = {old9, fedora, rhel9, zz10, own, homeless}
  ContentOrder <- MCContentOrder
  Above <- MCAbove
  DirOf <- MCDirOf
  IdOf <- MCIdOf
  VersionOf <- MCVersionOf
  NoVersion = NoVersion
  Missing = Missing
  Options <- MCOptions
  Contents <- MCContents
  Systems <- MCSystems
  InitialEntries <- MCInitialEntries
  MaxUpdates = 1
SPECIFICATION Spec
INVARIANTS
  ScansWhatWasTailored
  RemediationsBesideTailoring
PROPERTIES
  RefusedTouchesNothing
  RefusedForAReason
