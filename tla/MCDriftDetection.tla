-------------------------- MODULE MCDriftDetection --------------------------
(***************************************************************************)
(* Constants for model checking DriftDetection.                            *)
(***************************************************************************)
EXTENDS DriftDetection, TLC

CONSTANTS r1, r2, g1, s1, s2, a, b, p1

(* The digest tells contents and patch sets apart. *)
MCDigests == Contents \X SUBSET Patches
MCDigest  == [x \in MCDigests |-> x]
OneGVK    == [r \in Refs |-> g1]
AllPatched == [s \in Summaries |-> Patches]
NoPatches == [s \in Summaries |-> {}]

RefSymmetry == Permutations(Refs)
ContentSymmetry == Permutations(Contents)

TwoRefs   == {<<"Resource", r1, s1>>, <<"Resource", r2, s1>>}
TwoSummaries == {<<"Resource", r1, s1>>, <<"Helm", r1, s2>>}
OneKustomize == {<<"Kustomize", r1, s1>>}
OneClaim  == {<<"Resource", r1, s1>>}
=============================================================================
