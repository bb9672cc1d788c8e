SPECIFICATION FairSpec
CONSTANTS
  \* the names, and the model values that stand for what is not there
  r1 = r1  r2 = r2  g1 = g1  s1 = s1  s2 = s2  a = a  b = b  p1 = p1
  Gone = Gone  Absent = Absent  NoBytes = NoBytes
  Refs = {r1}
  GVKs = {g1}
  Summaries = {s1}
  Contents = {a, b}
  Patches = {}
  GVKOf <- OneGVK
  PatchesOf <- NoPatches
  Digests <- MCDigests
  Digest <- MCDigest
  \* who registers what, and the bounds
  Claims <- OneKustomize
  MaxChanges = 1
  MaxWrites = 0
  MaxFaults = 0
  MaxRestarts = 0
PROPERTY NotificationIsQueued
