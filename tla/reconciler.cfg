SPECIFICATION FairSpec
CONSTANTS
  \* the names, and the model values that stand for what is not there
  r1 = r1  n1 = n1  g1 = g1  s1 = s1  s2 = s2  a = a
  Gone = Gone  Absent = Absent  NoBytes = NoBytes
  Refs = {r1, n1}
  GVKs = {g1}
  Summaries = {s1}
  Contents = {a}
  Patches = {}
  GVKOf <- OneGVK
  PatchesOf <- NoPatches
  Digests <- MCDigests
  Digest <- MCDigest
  Unqualified = {n1}
  Namespaced = {g1}
  InRelease <- Release
  Specs <- TwoSpecs
  MaxConcurrentReconciles = 15
  \* the bounds
  MaxEdits = 1
  MaxChanges = 2
  MaxFaults = 1
INVARIANTS WorkerShape RegisteredIsMapped ReconciledIsListed RemovedIsForgotten
PROPERTY ListedIsTracked
