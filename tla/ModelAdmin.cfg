CONSTANTS
  Name = {resnet}
  Version = {"1", "2", "99999999999"}
  Path = {p1}
  Parts <- MCParts
  Overlong <- MCOverlong
  Static <- MCStatic
  RestoreOnStartup = TRUE
  Thread = {t1, t2}
  Main = Main
  MaxStarts = 2
SYMMETRY ThreadSymmetry
CONSTRAINT OverlapOnlyBefore
SPECIFICATION Spec
INVARIANTS
  TypeOK
  LatestIsNewest
  SavedIsLoaded
  LoadedHaveFiles
  AcknowledgedStaysLoaded
CHECK_DEADLOCK FALSE
