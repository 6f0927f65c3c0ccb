SPECIFICATION Spec
CONSTANTS
  A = A  B = B  C = C  D = D  NoPath = NoPath
  Path = {A, B, C}
  FirstTab <- AB
  Kinds <- MixedKinds
  NoWh = {}
  Race = FALSE
  MaxBr = 3  MaxRemount = 2  MaxOpt = 1  MaxFail = 1
INVARIANTS TypeOK SlotsRight InodeMatches SeenAfreshPlain LastBranchStays ParentFirst
PROPERTY SwapProgress
