SPECIFICATION FairSpec
CONSTANTS
  w1 = w1  w2 = w2  w3 = w3
  p1 = p1  p2 = p2
  k1 = k1  k2 = k2  k3 = k3
  b1 = b1  b2 = b2
  Writers = {w1, w2}
  Readers = {r1}
  Procs = {p1, p2}
  ProcOf <- TwoProcesses
  Keys = {k1, k2, k3}
  Bodies = {b1, b2}
  PactOf <- TwoPacts
  Overwriters = {}
  ConflictingBodies <- Disagree
  V4 = TRUE
  Attempts = 3
  MaxFaults = 1
  InitialPact = NoPact
  NoPact = NoPact
  Broken = Broken
  NoOne = NoOne
INVARIANTS
  LockInv TornOnlyByCreate
PROPERTIES
  EveryWriteReturns
