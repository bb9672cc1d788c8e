----------------------------- MODULE DriftTypes -----------------------------
(***************************************************************************)
(* The values the drift-detection manager works on: references to cluster *)
(* objects, what an object looks like to the hash, the byte strings that  *)
(* hold a hash in memory and in a ResourceSummary status.                  *)
(***************************************************************************)
EXTENDS Naturals, Sequences, FiniteSets

CONSTANTS
  Refs,       \* corev1.ObjectReference of the objects that can be tracked
  GVKs,       \* group/version/kinds
  GVKOf,      \* the GVK of a reference
  Summaries,  \* ResourceSummary instances
  Contents,   \* what a cluster object can hold (labels, annotations, spec, data)
  PatchesOf,  \* Spec.Patches of a ResourceSummary, as a set
  Patches,
  Digests,
  Digest,     \* sha256 of a content seen through a set of patches
  Gone,       \* the object is not in the cluster
  Absent,     \* the key is not in the Go map (or the entry not in the list)
  NoBytes     \* the empty byte string: []byte(nil), []byte("") and ""

(***************************************************************************)
(* The ResourceType a resource is registered under.                        *)
(***************************************************************************)
Types == {"Resource", "Kustomize", "Helm"}

(***************************************************************************)
(* Byte strings that hold a hash.  Go strings and byte slices are the same *)
(* bytes, so one set does for both.  A string starts as the 32 raw bytes   *)
(* of a digest; "utf8" is what is left of those bytes after a trip through *)
(* JSON, which replaces what is not valid UTF-8; hex counts how often "%x" *)
(* was applied.                                                            *)
(***************************************************************************)
Bytes == [digest : Digests, form : {"raw", "utf8"}, hex : Nat] \cup {NoBytes}

Raw(d) == [digest |-> d, form |-> "raw", hex |-> 0]

(* fmt.Sprintf("%x", b) *)
Hex(b) == IF b = NoBytes THEN NoBytes ELSE [b EXCEPT !.hex = @ + 1]

(* string(b) written to the API server: hex digits survive, raw bytes do not *)
JSONString(b) ==
  IF b = NoBytes \/ b.hex > 0 THEN b ELSE [b EXCEPT !.form = "utf8"]

(***************************************************************************)
(* unstructuredHash: labels, annotations and every top-level field but     *)
(* metadata and status, after the patches.                                 *)
(***************************************************************************)
unstructuredHash(content, patches) == Raw(Digest[<<content, patches>>])

(***************************************************************************)
(* A ResourceSummary as the manager reads and writes it: the status flags  *)
(* that ask for a reconciliation, and the hash stored for each resource,   *)
(* per ResourceType.                                                       *)
(***************************************************************************)
SummaryObjects == [changed : SUBSET Types,
                   hashes  : [Types -> [Refs -> Bytes \cup {Absent}]]]

FreshSummary == [changed |-> {},
                 hashes  |-> [t \in Types |-> [r \in Refs |-> Absent]]]

ASSUME ConstantsAssumption ==
  /\ GVKOf \in [Refs -> GVKs]
  /\ PatchesOf \in [Summaries -> SUBSET Patches]
  /\ Digest \in [Contents \X SUBSET Patches -> Digests]

ASSUME SentinelsAssumption ==
  /\ Gone \notin Contents /\ Gone \notin SummaryObjects
  /\ Absent \notin Refs \cup Summaries \cup Contents
  /\ Absent \notin Bytes /\ \A S \in SUBSET Refs : S # Absent
  /\ NoBytes \notin [digest : Digests, form : {"raw", "utf8"}, hex : Nat]
=============================================================================
