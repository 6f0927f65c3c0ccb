SPECIFICATION Spec
CONSTANTS
  A = A  B = B  C = C  D = D  NoPath = NoPath
  Path = {A, B, C}
  FirstTab <- AB
  Kinds <- PlainKinds
  NoWh = {}
  Race = TRUE
  MaxBr = 3  MaxRemount = 1  MaxOpt = 1  MaxFail = 0
INVARIANTS PositiveRefreshed
