---------------------------- MODULE MCReconciler ----------------------------
(***************************************************************************)
(* Constants for model checking Reconciler.                                *)
(***************************************************************************)
EXTENDS Reconciler

CONSTANTS r1, n1, g1, s1, s2, a

MCDigests == Contents \X SUBSET Patches
MCDigest  == [x \in MCDigests |-> x]
OneGVK    == [r \in Refs |-> g1]
NoPatches == [s \in Summaries |-> {}]

(* n1 is r1 as a chart lists it, without its namespace. *)
Release == [r \in Refs |-> IF r = n1 THEN r1 ELSE r]

Lists(res, kus, helm) ==
  LET In(S) == [r \in Refs |-> IF <<r, "tracked">> \in S THEN "tracked"
                               ELSE IF <<r, "ignored">> \in S THEN "ignored" ELSE "no"]
  IN  [t \in Types |-> In(CASE t = "Resource" -> res [] t = "Kustomize" -> kus [] t = "Helm" -> helm)]

(* A chart and a resource; then the resource moved to another type and
   ignored under the first, and the chart dropped. *)
TwoSpecs == {Lists({<<r1, "tracked">>}, {}, {<<n1, "tracked">>}),
             Lists({<<r1, "ignored">>}, {<<r1, "tracked">>}, {})}
OneSpec == {Lists({<<r1, "tracked">>}, {}, {})}
=============================================================================
