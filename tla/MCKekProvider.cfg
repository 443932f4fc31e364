SPECIFICATION Spec
CONSTANTS
  p1 = p1
  p2 = p2
  A = A
  B = B
  K = K
  Processes = {p1, p2}
  Keks = {A, B, K}
  NoKek = NoKek
  MaxKekVersion = 2
  Environments <- AllDeployments
  MaxVersion = 2
INVARIANTS
  TypeOK
  SameKekReads
  BootstrapsOnce
