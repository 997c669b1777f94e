SPECIFICATION Spec
CONSTANTS
  w1 = w1  w2 = w2  w3 = w3
  p1 = p1  p2 = p2
  k1 = k1  k2 = k2  k3 = k3
  b1 = b1  b2 = b2
  Writers = {w1, w2, w3}
  Readers = {r1}
  Procs = {p1}
  ProcOf <- OneProcess
  Keys = {k1, k2, k3}
  Bodies = {b1, b2}
  PactOf <- ThreePacts
  Overwriters = {w2}
  ConflictingBodies <- Disagree
  V4 = FALSE
  Attempts = 3
  MaxFaults = 1
  InitialPact = NoPact
  NoPact = NoPact
  Broken = Broken
  NoOne = NoOne
INVARIANTS
  WriterInv KeepsTheFile
PROPERTIES
  ImplementsPactStore
