------------------------ MODULE DriftDetectionProofs ------------------------
(***************************************************************************)
(* Proofs about DriftDetection, for every value of its constants.          *)
(***************************************************************************)
EXTENDS DriftDetection, ManagerProofs, FiniteSetTheorems, TLAPS

-----------------------------------------------------------------------------
(***************************************************************************)
(* The operators the model is built from.                                  *)
(***************************************************************************)
(* getPatches collects patches. *)
LEMMA PatchesAreGot ==
  ASSUME NEW r, RegistryTypeOK, r \in Refs
  PROVE  getPatches(r) \in SUBSET Patches
<1>1. getResourceSummaries(r) \subseteq Summaries
  BY DEF getResourceSummaries, RegistryTypeOK
<1>2. \A s \in Summaries : PatchesOf[s] \subseteq Patches
  BY ConstantsAssumption
<1> QED  BY <1>1, <1>2 DEF getPatches

(* Marking a ResourceSummary keeps it a ResourceSummary. *)
LEMMA MarkedIsSummary ==
  ASSUME NEW rs \in SummaryObjects, NEW t \in Types, NEW r \in Refs, NEW b \in Bytes
  PROVE  Marked(rs, t, r, b) \in SummaryObjects
<1> DEFINE u == updateResourceSummaryWithHash(rs, t, r, b)
<1>1. u \in SummaryObjects
  <2>1. JSONString(b) \in Bytes
    BY JSONIsBytes
  <2>2. [rs.hashes EXCEPT ![t][r] = JSONString(b)] \in [Types -> [Refs -> Bytes \cup {Absent}]]
    BY <2>1 DEF SummaryObjects
  <2>3. [rs EXCEPT !.hashes[t][r] = JSONString(b)] \in SummaryObjects
    BY <2>2 DEF SummaryObjects
  <2> QED  BY <2>3 DEF updateResourceSummaryWithHash
<1> HIDE DEF u
<1>2. [u EXCEPT !.changed = @ \cup {t}] \in SummaryObjects
  BY <1>1 DEF SummaryObjects
<1> QED  BY <1>2 DEF Marked, u

(* A new ResourceSummary is one. *)
LEMMA FreshIsSummary == FreshSummary \in SummaryObjects
  BY DEF FreshSummary, SummaryObjects

(* The keys of the status entries are finitely many, so the List that
   readResourceSummaries starts from ends. *)
LEMMA StoredEntriesFinite == IsFiniteSet(StoredEntries)
<1> DEFINE Pairs   == (Types \X Refs) \X Summaries
           Triples == Types \X Refs \X Summaries
           f       == [p \in Pairs |-> <<p[1][1], p[1][2], p[2]>>]
<1>1. IsFiniteSet(Types)
  <2>1. IsFiniteSet({})  BY FS_EmptySet
  <2>2. IsFiniteSet({} \cup {"Resource"})  BY <2>1, FS_AddElement
  <2>3. IsFiniteSet(({} \cup {"Resource"}) \cup {"Kustomize"})  BY <2>2, FS_AddElement
  <2>4. IsFiniteSet((({} \cup {"Resource"}) \cup {"Kustomize"}) \cup {"Helm"})
    BY <2>3, FS_AddElement
  <2>5. Types = (({} \cup {"Resource"}) \cup {"Kustomize"}) \cup {"Helm"}
    BY DEF Types
  <2> QED  BY <2>4, <2>5
<1>2. IsFiniteSet(Types \X Refs)
  BY <1>1, FS_Product, FiniteAssumption
<1>3. IsFiniteSet(Pairs)
  BY <1>2, FS_Product, FiniteAssumption
<1>4. f \in Surjection(Pairs, Triples)
  <2>1. f \in [Pairs -> Triples]
    OBVIOUS
  <2>2. ASSUME NEW t \in Types, NEW r \in Refs, NEW s \in Summaries
        PROVE  \E p \in Pairs : f[p] = <<t, r, s>>
    <3>1. <<<<t, r>>, s>> \in Pairs /\ f[<<<<t, r>>, s>>] = <<t, r, s>>
      OBVIOUS
    <3> QED  BY <3>1
  <2>3. ASSUME NEW x \in Triples PROVE \E p \in Pairs : f[p] = x
    <3>1. x[1] \in Types /\ x[2] \in Refs /\ x[3] \in Summaries /\ x = <<x[1], x[2], x[3]>>
      OBVIOUS
    <3> HIDE DEF Pairs, f
    <3> QED  BY <3>1, <2>2
  <2> QED  BY <2>1, <2>3 DEF Surjection
<1>5. IsFiniteSet(Triples)
  BY <1>3, <1>4, FS_Surjection
<1>6. StoredEntries \in SUBSET Triples
  BY DEF StoredEntries
<1> QED  BY <1>5, <1>6, FS_Subset

-----------------------------------------------------------------------------
(***************************************************************************)
(* Type correctness.  It needs the shape of the evaluator: what is written *)
(* to a ResourceSummary is a hash because newHash was filled before, and a *)
(* ResourceSummary that is updated exists because it is still current.     *)
(***************************************************************************)
TypeInv == TypeOK /\ EvaluatorShape /\ HeldExists

USE DEF registryVars, informerVars, managerVars, passVars, verdictVars, reportVars,
        evalVars, processVars, clientVars, countVars, historyVars, othersVars, vars

(* Init establishes the types. *)
LEMMA TypeInit == Init => TypeInv
<1> SUFFICES ASSUME Init PROVE TypeInv
  OBVIOUS
<1>1. RegistryTypeOK
  <2>1. requestors \in [Types -> [Refs -> SUBSET Summaries]]
    BY DEF Init, EmptyManager
  <2>2. gvkResources \in [GVKs -> (SUBSET Refs) \cup {Absent}]
    BY DEF Init, EmptyManager
  <2>3. /\ resourceHashes \in [Refs -> Bytes \cup {Absent}]
        /\ view \in [Refs -> {"unlisted", "present", "missing"}]
    BY DEF Init, EmptyManager
  <2> QED  BY <2>1, <2>2, <2>3 DEF Init, EmptyManager, RegistryTypeOK
<1>2. EvaluationTypeOK /\ EvaluatorShape /\ HeldExists
  BY DEF Init, EvaluatorStarts, EvaluationTypeOK, PCs, EvaluatorShape, HeldExists
<1>3. summary \in [Summaries -> SummaryObjects \cup {Gone}]
  BY FreshIsSummary DEF Init
<1>4. todo \in Seq(Entries)
  BY DEF Init
<1> QED
  BY <1>1, <1>2, <1>3, <1>4, BoundsAssumption, MaxFaultsAssumption
  DEF Init, TypeInv, TypeOK

(* The informers preserve the types. *)
LEMMA TypeInformers == TypeInv /\ Informers => TypeInv'
<1> SUFFICES ASSUME TypeInv, Informers PROVE TypeInv'
  OBVIOUS
<1> USE DEF TypeInv, TypeOK, RegistryTypeOK, EvaluationTypeOK, EvaluatorShape, HeldExists
<1>1. ASSUME NEW g \in GVKs, Listing(g) PROVE TypeInv'
  BY <1>1 DEF Listing, InformerList, InformerFrame, Seen
<1>2. ASSUME NEW r \in Refs, Delivery(r) PROVE TypeInv'
  <2>1. /\ view' \in [Refs -> {"unlisted", "present", "missing"}]
        /\ behind' \subseteq Refs /\ inflight' \subseteq Refs
    BY <1>2 DEF Delivery, InformerAdd, InformerTombstone, InformerNotify, Seen
  <2>2. blind' \subseteq Refs
    BY <1>2 DEF Delivery, UnseenChange
  <2>3. UNCHANGED <<registryVars, jobQueue, faults>>
    BY <1>2 DEF Delivery, InformerAdd, InformerTombstone, InformerNotify
  <2> QED  BY <1>2, <2>1, <2>2, <2>3 DEF Delivery, InformerFrame
<1>3. ASSUME NEW r \in Refs, Reaction(r) PROVE TypeInv'
  BY <1>3 DEF Reaction, react, InformerFrame, checkForConfigurationDrift
<1> QED  BY <1>1, <1>2, <1>3 DEF Informers

(* The evaluator preserves them, step by step. *)
LEMMA TypeEvaluator == TypeInv /\ Evaluator => TypeInv'
<1> SUFFICES ASSUME TypeInv, Evaluator PROVE TypeInv'
  OBVIOUS
<1> USE DEF TypeInv, TypeOK, RegistryTypeOK, EvaluationTypeOK, EvaluatorShape, HeldExists
<1> USE DEF PCs, NoVerdict, NoReport, Evaluated, EvaluationFailed, FetchEndsBlindness
<1>0. mode = "running" /\ UNCHANGED othersVars
  BY DEF Evaluator
<1>1. CASE TakeQueue /\ UNCHANGED historyVars
  BY <1>0, <1>1 DEF TakeQueue
<1>2. CASE RequeueFailed /\ UNCHANGED historyVars
  BY <1>0, <1>2 DEF RequeueFailed
<1>3. ASSUME NEW r \in Refs, ReadHash(r), UNCHANGED historyVars PROVE TypeInv'
  BY <1>0, <1>3 DEF ReadHash
<1>4. CASE FetchNotFound /\ FetchEndsBlindness /\ UNCHANGED owed
  BY <1>0, <1>4 DEF FetchNotFound, Bytes
<1>5. CASE FetchFound /\ FetchEndsBlindness /\ UNCHANGED owed
  BY <1>0, <1>5 DEF FetchFound
<1>6. CASE CompareHash /\ UNCHANGED historyVars
  <2>1. CurrentHash \in Bytes
    BY <1>6, PatchesAreGot, HashIsBytes DEF CompareHash, CurrentHash
  <2> QED  BY <1>0, <1>6, <2>1 DEF CompareHash
<1>7. CASE updateResourceHash /\ DriftIsOwed /\ UNCHANGED blind
  <2>1. getResourceSummaries(ref) \subseteq Summaries
    BY <1>7 DEF updateResourceHash, getResourceSummaries
  <2>2. owed' \subseteq Refs \X Summaries
    BY <1>7, <2>1 DEF updateResourceHash, DriftIsOwed
  <2> QED  BY <1>0, <1>7, <2>2 DEF updateResourceHash
<1>8. CASE StartRound /\ UNCHANGED historyVars
  <2>1. Len(resourceTypes) = 3 /\ \A i \in 1..3 : resourceTypes[i] \in Types
    BY DEF resourceTypes, Types
  <2>2. round \in 1..4 /\ ref \in Refs
    BY <1>8 DEF StartRound
  <2>3. CASE round > 3
    BY <1>0, <1>8, <2>1, <2>3 DEF StartRound
  <2>4. CASE ~(round > 3)
    <3>1. round \in 1..3 /\ requestors[resourceTypes[round]][ref] \subseteq Summaries
      BY <2>1, <2>2, <2>4
    <3> HIDE DEF resourceTypes
    <3> QED  BY <1>0, <1>8, <2>1, <2>4, <3>1 DEF StartRound
  <2> QED  BY <2>3, <2>4
<1>9. CASE EndRound /\ UNCHANGED historyVars
  BY <1>0, <1>9 DEF EndRound
<1>10. ASSUME NEW s \in Summaries, GetSummary(s), UNCHANGED historyVars PROVE TypeInv'
  BY <1>0, <1>10 DEF GetSummary
<1>11. CASE UpdateSummary /\ owed' = owed \ {<<ref, target>>} /\ UNCHANGED blind
  <2>1. resourceTypes[round] \in Types
    BY <1>11 DEF UpdateSummary, resourceTypes, Types
  <2>2. /\ target \in Summaries /\ summary[target] \in SummaryObjects
        /\ ref \in Refs /\ newHash \in Bytes
    BY <1>11 DEF UpdateSummary
  <2>3. Marked(summary[target], resourceTypes[round], ref, newHash) \in SummaryObjects
    BY <2>1, <2>2, MarkedIsSummary
  <2>4. summary' \in [Summaries -> SummaryObjects \cup {Gone}]
    BY <1>11, <2>2, <2>3 DEF UpdateSummary
  <2> QED  BY <1>0, <1>11, <2>4 DEF UpdateSummary
<1>12. CASE UpdateConflicts /\ UNCHANGED historyVars
  BY <1>0, <1>12 DEF UpdateConflicts
<1>13. CASE EvaluationFault /\ UNCHANGED historyVars
  <2>1. CASE FetchFails
    BY <1>0, <1>13, <2>1, MaxFaultsAssumption DEF FetchFails, Fault
  <2>2. CASE PatchesFail
    BY <1>0, <1>13, <2>2, MaxFaultsAssumption DEF PatchesFail, Fault
  <2>3. CASE GetSummaryFails
    BY <1>0, <1>13, <2>3, MaxFaultsAssumption DEF GetSummaryFails, Fault
  <2>4. CASE UpdateFails
    BY <1>0, <1>13, <2>4, MaxFaultsAssumption DEF UpdateFails, Fault
  <2> QED  BY <1>13, <2>1, <2>2, <2>3, <2>4 DEF EvaluationFault
<1> QED
  BY <1>1, <1>2, <1>3, <1>4, <1>5, <1>6, <1>7, <1>8, <1>9, <1>10, <1>11, <1>12, <1>13
  DEF Evaluator, EvaluationStep

(* Saving a hash keeps the types of the reconciler's variables. *)
LEMMA SaveKeepsTypes ==
  ASSUME TypeInv, NEW c \in Claims, NEW h \in Bytes \cup {Absent}, Save(c, h)
  PROVE  dirty' \subseteq Claims /\ returned' \in [Claims -> Bytes \cup {Absent}]
  BY DEF TypeInv, TypeOK, Save

(* The reconciler preserves the types. *)
LEMMA TypeReconciler == TypeInv /\ Reconciler => TypeInv'
<1> SUFFICES ASSUME TypeInv, Reconciler PROVE TypeInv'
  OBVIOUS
<1>0. \A c \in Claims : c[1] \in Types /\ c[2] \in Refs /\ c[3] \in Summaries
  BY ClaimsAssumption
<1>1. ASSUME NEW c \in Claims, NEW out \in Outcomes, registerResources(c, out) PROVE TypeInv'
  <2> DEFINE t == c[1]  r == c[2]  s == c[3]
  <2>1. t \in Types /\ r \in Refs /\ s \in Summaries
    BY <1>0
  <2>2. RegisterMaps(r, t, s, out)
    BY <1>1 DEF registerResources, RegisterResource
  <2>3. RegistryTypeOK' /\ faults' \in 0..MaxFaults
    BY <1>1, <2>1, RegisterResourceKeepsTypes DEF registerResources, TypeInv, TypeOK
  <2>4. /\ registering' \subseteq Claims /\ dirty' \subseteq Claims
        /\ returned' \in [Claims -> Bytes \cup {Absent}]
    <3>1. CASE out \in Errors
      BY <1>1, <3>1 DEF registerResources, Abandon, TypeInv, TypeOK
    <3>2. CASE out \notin Errors
      <4> DEFINE h == IF out = "notFound" THEN NoBytes ELSE RegisteredHash(r, s, out)
      <4>1. h \in Bytes
        BY <2>1, <2>2, <3>2, RegisteredIsBaseline
        DEF Outcomes, Errors, Bytes, TypeInv, TypeOK
      <4>2. Hex(h) \in Bytes
        BY <4>1, HexIsBytes
      <4>3. Save(c, Hex(h)) /\ registering' = registering \cup ({c} \ claimed)
        BY <1>1, <3>2 DEF registerResources
      <4> HIDE DEF h
      <4> QED  BY <4>2, <4>3, SaveKeepsTypes DEF TypeInv, TypeOK
    <3> QED  BY <3>1, <3>2
  <2> QED
    BY <1>1, <2>1, <2>3, <2>4
    DEF registerResources, TypeInv, TypeOK, EvaluationTypeOK, EvaluatorShape, HeldExists
<1>2. ASSUME NEW c \in Claims, unregisterResources(c) PROVE TypeInv'
  <2>1. c[1] \in Types /\ c[2] \in Refs /\ c[3] \in Summaries
    BY <1>0
  <2>2. RegistryTypeOK' /\ faults' = faults
    BY <1>2, <2>1, UnregisterKeepsTypes DEF unregisterResources, TypeInv, TypeOK
  <2>3. dirty' \subseteq Claims /\ returned' \in [Claims -> Bytes \cup {Absent}]
    BY <1>2, SaveKeepsTypes DEF unregisterResources
  <2> QED
    BY <1>2, <2>1, <2>2, <2>3
    DEF unregisterResources, TypeInv, TypeOK, EvaluationTypeOK, EvaluatorShape, HeldExists
<1>3. ASSUME NEW s \in Summaries, Close(s) PROVE TypeInv'
  <2>1. SavedHashes(s) \in [Types -> [Refs -> Bytes \cup {Absent}]]
    BY <1>3 DEF Close, SavedHashes, TypeInv, TypeOK, SummaryObjects
  <2>2. [summary[s] EXCEPT !.hashes = SavedHashes(s)] \in SummaryObjects
    <3>1. summary[s] \in SummaryObjects
      BY <1>3 DEF Close, TypeInv, TypeOK
    <3> QED  BY <2>1, <3>1 DEF SummaryObjects
  <2>3. \/ summary' = [summary EXCEPT ![s] = [summary[s] EXCEPT !.hashes = SavedHashes(s)]]
        \/ summary' = summary
    BY <1>3 DEF Close
  <2>4. summary' \in [Summaries -> SummaryObjects \cup {Gone}]
    BY <2>2, <2>3 DEF TypeInv, TypeOK
  <2>5. current' \subseteq current
    BY <1>3 DEF Close
  <2>6. HeldExists'
    BY <2>2, <2>3, <2>5, SentinelsAssumption DEF TypeInv, TypeOK, HeldExists, EvaluationTypeOK
  <2>7. faults' \in 0..MaxFaults
    BY <1>3, MaxFaultsAssumption DEF Close, Fault, NoFault, TypeInv, TypeOK
  <2>8. /\ claimed' \subseteq Claims /\ registering' \subseteq Claims /\ dirty' \subseteq Claims
        /\ returned' \in [Claims -> Bytes \cup {Absent}]
    BY <1>3 DEF Close, TypeInv, TypeOK
  <2> QED
    BY <1>3, <2>4, <2>5, <2>6, <2>7, <2>8
    DEF Close, TypeInv, TypeOK, RegistryTypeOK, EvaluationTypeOK, EvaluatorShape
<1> QED  BY <1>1, <1>2, <1>3 DEF Reconciler

(* Sveltos, the cluster, a start and a crash preserve the types. *)
LEMMA TypeRest == TypeInv /\ (Sveltos \/ Cluster \/ Startup \/ Crash) => TypeInv'
<1> SUFFICES ASSUME TypeInv, Sveltos \/ Cluster \/ Startup \/ Crash PROVE TypeInv'
  OBVIOUS
<1> USE DEF TypeInv, TypeOK, EvaluationTypeOK, EvaluatorShape, HeldExists
<1>1. ASSUME NEW s \in Summaries, ClearFlags(s) PROVE TypeInv'
  <2>1. [summary[s] EXCEPT !.changed = {}] \in SummaryObjects
    <3>1. summary[s] \in SummaryObjects
      BY <1>1 DEF ClearFlags
    <3> QED  BY <3>1 DEF SummaryObjects
  <2>2. summary' = [summary EXCEPT ![s] = [summary[s] EXCEPT !.changed = {}]]
    BY <1>1 DEF ClearFlags
  <2>3. summary' \in [Summaries -> SummaryObjects \cup {Gone}] /\ HeldExists'
    BY <1>1, <2>1, <2>2, SentinelsAssumption DEF ClearFlags, SveltosWrite
  <2> QED  BY <1>1, <2>3, BoundsAssumption DEF ClearFlags, SveltosWrite, RegistryTypeOK
<1>2. ASSUME NEW s \in Summaries, CreateSummary(s) PROVE TypeInv'
  BY <1>2, FreshIsSummary, SentinelsAssumption DEF CreateSummary, RegistryTypeOK
<1>3. ASSUME NEW s \in Summaries, RemoveSummary(s) PROVE TypeInv'
  BY <1>3, BoundsAssumption DEF RemoveSummary, SveltosWrite, RegistryTypeOK
<1>4. ASSUME NEW r \in Refs, ChangeObject(r) PROVE TypeInv'
  <2>1. cluster' \in [Refs -> Contents \cup {Gone}] /\ changes' \in 0..MaxChanges
    BY <1>4, BoundsAssumption DEF ChangeObject
  <2> QED  BY <1>4, <2>1 DEF ChangeObject, WriteEvent, UnseenChange, RegistryTypeOK
<1>5. ASSUME NEW r \in Refs, TouchObject(r) PROVE TypeInv'
  BY <1>5 DEF TouchObject, WriteEvent, RegistryTypeOK
<1>6. ASSUME ProcessReset,
             UNCHANGED <<cluster, summary, changes, writes>>,
             faults' \in 0..MaxFaults, restarts' \in 0..MaxRestarts
      PROVE  TypeInv'
  <2>1. RegistryTypeOK'
    <3>1. requestors' \in [Types -> [Refs -> SUBSET Summaries]]
      BY <1>6 DEF ProcessReset, ManagerReset
    <3>2. gvkResources' \in [GVKs -> (SUBSET Refs) \cup {Absent}]
      BY <1>6 DEF ProcessReset, ManagerReset
    <3>3. /\ resourceHashes' \in [Refs -> Bytes \cup {Absent}]
          /\ view' \in [Refs -> {"unlisted", "present", "missing"}]
      BY <1>6 DEF ProcessReset, ManagerReset
    <3> QED  BY <1>6, <3>1, <3>2, <3>3 DEF ProcessReset, ManagerReset, RegistryTypeOK
  <2>2. (EvaluationTypeOK /\ EvaluatorShape /\ HeldExists)'
    BY <1>6 DEF ProcessReset, EvaluatorReset, NoVerdict, NoReport, PCs
  <2>3. todo' \in Seq(Entries)
    BY <1>6 DEF ProcessReset
  <2> QED  BY <1>6, <2>1, <2>2, <2>3 DEF ProcessReset
<1>7. CASE Crash
  BY <1>6, <1>7, BoundsAssumption DEF Crash
<1>8. CASE ReadingFails
  BY <1>6, <1>8, MaxFaultsAssumption DEF ReadingFails, Fault
<1>9. CASE StartManager
  <2>1. PICK q \in ReadingOrders : todo' = [i \in DOMAIN q |-> StoredEntry(q[i])]
    BY <1>9 DEF StartManager
  <2> DEFINE n == Cardinality(StoredEntries)
  <2>2. n \in Nat
    BY StoredEntriesFinite, FS_CardinalityType
  <2>3. q \in [1..n -> StoredEntries]
    BY DEF ReadingOrders
  <2>4. \A e \in StoredEntries : StoredEntry(e) \in Entries
    BY DEF StoredEntries, StoredEntry, Entries, SummaryObjects
  <2> HIDE DEF n
  <2>5. todo' \in [1..n -> Entries]
    BY <2>1, <2>3, <2>4
  <2>6. todo' \in Seq(Entries)
    BY <2>2, <2>5
  <2> QED  BY <1>9, <2>6 DEF StartManager, RegistryTypeOK
<1>10. ASSUME NEW out \in Outcomes, processResourceHashes(out) PROVE TypeInv'
  <2> DEFINE e == Head(todo)
  <2>1. e \in Entries /\ Tail(todo) \in Seq(Entries)
    BY <1>10 DEF processResourceHashes
  <2>2. /\ e.resource \in Refs /\ ReadAs[e.type] \in Types
        /\ e.summary \in Summaries /\ e.hash \in Bytes
    BY <2>1 DEF Entries, ReadAs, Types
  <2>3. RegisterMaps(e.resource, ReadAs[e.type], e.summary, out)
    BY <1>10 DEF processResourceHashes
  <2>4. RegistryTypeOK' /\ faults' \in 0..MaxFaults
    <3>1. resourceHashes' \in [Refs -> Bytes \cup {Absent}]
      BY <1>10, <2>2 DEF processResourceHashes, RegistryTypeOK
    <3>2. jobQueue' \subseteq Refs
      BY <1>10, <2>2 DEF processResourceHashes, checkForConfigurationDrift, RegistryTypeOK
    <3> QED  BY <1>10, <2>2, <2>3, <3>1, <3>2, RegisterKeepsTypes
             DEF processResourceHashes, RegistryTypeOK
  <2> QED  BY <1>10, <2>1, <2>4 DEF processResourceHashes
<1>11. CASE FinishReading
  BY <1>11 DEF FinishReading, RegistryTypeOK
<1> QED
  BY <1>1, <1>2, <1>3, <1>4, <1>5, <1>7, <1>8, <1>9, <1>10, <1>11
  DEF Sveltos, Cluster, Startup

(* Every step preserves the types. *)
LEMMA TypeStep == TypeInv /\ [Next]_vars => TypeInv'
<1>1. TypeInv /\ UNCHANGED vars => TypeInv'
  BY DEF TypeInv, TypeOK, RegistryTypeOK, EvaluationTypeOK, EvaluatorShape, HeldExists
<1> QED
  BY <1>1, TypeInformers, TypeEvaluator, TypeReconciler, TypeRest DEF Next

(***************************************************************************)
(* Type correctness: every map, queue, register of the evaluator and       *)
(* ResourceSummary status holds what its Go type says, in every state of   *)
(* the manager, whatever is registered, fails or restarts.                 *)
(***************************************************************************)
THEOREM TypeCorrect == Spec => []TypeOK
<1>1. TypeInv => TypeOK
  BY DEF TypeInv
<1> QED  BY <1>1, TypeInit, TypeStep, PTL DEF Spec

-----------------------------------------------------------------------------
(***************************************************************************)
(* The registry.  Only registrations, their ends, a restart and the        *)
(* evaluator's store touch it, so the steps are sorted by what they do to  *)
(* it first.                                                               *)
(***************************************************************************)
RegistryInv == WatcherIsNeeded /\ WatchedIsTracked

(* A registration keeps the GVK entries and the watchers in step. *)
LEMMA RegisterKeepsRegistry ==
  ASSUME TypeInv, RegistryInv,
         NEW r \in Refs, NEW t \in Types, NEW s \in Summaries, NEW out,
         RegisterMaps(r, t, s, out),
         \A q \in Refs : q # r => resourceHashes'[q] = resourceHashes[q],
         out \in {"known", "watched"} => resourceHashes'[r] # Absent
  PROVE  RegistryInv'
<1> USE DEF TypeInv, TypeOK, RegistryTypeOK
<1>1. \A q \in Refs : (stillTrackingResource(requestors, q) \/ q = r)
                        => stillTrackingResource(requestors', q)
  <2>1. \A u \in Types, q \in Refs : requestors[u][q] \subseteq requestors'[u][q]
    BY DEF RegisterMaps, trackResource
  <2>2. s \in requestors'[t][r]
    BY DEF RegisterMaps, trackResource
  <2> QED  BY <2>1, <2>2 DEF stillTrackingResource
<1>2. GVKOf[r] \in GVKs
  BY ConstantsAssumption
<1>3. CASE out \notin {"watched", "startFailed"}
  <2>1. gvkResources' = gvkResources /\ watchers' = watchers
    BY <1>3 DEF RegisterMaps
  <2>2. WatcherIsNeeded'
    BY <2>1 DEF RegistryInv, WatcherIsNeeded
  <2>3. resourceHashes[r] # Absent => resourceHashes'[r] # Absent
    BY DEF RegisterMaps
  <2>4. WatchedIsTracked'
    BY <1>1, <2>1, <2>3 DEF RegistryInv, WatchedIsTracked, Tracked
  <2> QED  BY <2>2, <2>4 DEF RegistryInv
<1>4. CASE out = "watched"
  <2> DEFINE g == GVKOf[r]
             e == (IF gvkResources[g] # Absent THEN gvkResources[g] ELSE {}) \cup {r}
  <2>1. /\ gvkResources' = [gvkResources EXCEPT ![g] = e]
        /\ watchers' \subseteq watchers \cup {g}
    BY <1>4 DEF RegisterMaps, updateGVKMapAndStartWatcher, startWatcher
  <2>2. e \in SUBSET Refs /\ e # {} /\ e # Absent
    BY <1>2, SentinelsAssumption
  <2>3. WatcherIsNeeded'
    BY <1>2, <2>1, <2>2 DEF RegistryInv, WatcherIsNeeded
  <2>4. \A q \in e : q = r \/ (gvkResources[g] # Absent /\ q \in gvkResources[g])
    OBVIOUS
  <2>5. resourceHashes'[r] # Absent
    BY <1>4
  <2> HIDE DEF e
  <2>6. WatchedIsTracked'
    <3> SUFFICES ASSUME NEW k \in GVKs, gvkResources'[k] # Absent, NEW q \in gvkResources'[k]
                 PROVE  GVKOf[q] = k /\ stillTrackingResource(requestors', q)
                        /\ resourceHashes'[q] # Absent
      BY DEF WatchedIsTracked, Tracked
    <3>1. CASE q = r /\ k = g
      BY <1>1, <2>5, <3>1
    <3>2. CASE gvkResources[k] # Absent /\ q \in gvkResources[k]
      <4>1. /\ GVKOf[q] = k /\ stillTrackingResource(requestors, q)
            /\ resourceHashes[q] # Absent /\ q \in Refs
        BY <3>2 DEF RegistryInv, WatchedIsTracked, Tracked
      <4> QED  BY <1>1, <2>5, <4>1
    <3>3. k = g \/ gvkResources'[k] = gvkResources[k]
      BY <2>1
    <3>4. k = g => gvkResources'[k] = e
      BY <1>2, <2>1
    <3> QED  BY <2>4, <3>1, <3>2, <3>3, <3>4
  <2> QED  BY <2>3, <2>6 DEF RegistryInv
<1>5. CASE out = "startFailed"
  <2> DEFINE g == GVKOf[r]
  <2>1. /\ gvkResources' = [gvkResources EXCEPT ![g] = {}]
        /\ watchers' = watchers /\ g \notin watchers /\ gvkResources[g] = Absent
    BY <1>5 DEF RegisterMaps, updateGVKMapAndStartWatcher, startWatcher
  <2>2. WatcherIsNeeded'
    BY <1>2, <2>1 DEF RegistryInv, WatcherIsNeeded
  <2>3. resourceHashes[r] = Absent
    BY <1>5 DEF RegisterMaps
  <2>4. WatchedIsTracked'
    BY <1>1, <1>2, <2>1, <2>3 DEF RegistryInv, WatchedIsTracked, Tracked
  <2> QED  BY <2>2, <2>4 DEF RegistryInv
<1> QED  BY <1>3, <1>4, <1>5

(* The end of a registration does: the last resource takes the entry and the
   watcher with it. *)
LEMMA UnregisterKeepsRegistry ==
  ASSUME TypeInv, RegistryInv, NEW r \in Refs, NEW t \in Types, NEW s \in Summaries,
         UnRegisterResource(r, t, s)
  PROVE  RegistryInv'
<1> USE DEF TypeInv, TypeOK, RegistryTypeOK
<1> DEFINE g == GVKOf[r]
<1>1. g \in GVKs
  BY ConstantsAssumption
<1>2. \A u \in Types, q \in Refs : q # r => requestors'[u][q] = requestors[u][q]
  <2>1. \A u \in Types, q \in Refs, x \in Summaries :
          q # r => (x \in requestors'[u][q] <=> x \in requestors[u][q])
    BY UnregisterRemoves
  <2>2. \A u \in Types, q \in Refs :
          requestors[u][q] \subseteq Summaries /\ requestors'[u][q] \subseteq Summaries
    BY UnregisterKeepsTypes
  <2> HIDE DEF TypeInv, TypeOK, RegistryTypeOK
  <2> QED  BY <2>1, <2>2
<1>3. CASE UNCHANGED registryVars
  BY <1>3 DEF RegistryInv, WatcherIsNeeded, WatchedIsTracked, Tracked, stillTrackingResource
<1>4. CASE /\ stillTrackingResource(requestors', r)
           /\ UNCHANGED <<resourceHashes, gvkResources, watchers>>
  <2>1. \A q \in Refs : stillTrackingResource(requestors, q)
                           => stillTrackingResource(requestors', q)
    BY <1>2, <1>4 DEF stillTrackingResource
  <2> QED  BY <1>4, <2>1 DEF RegistryInv, WatcherIsNeeded, WatchedIsTracked, Tracked
<1>5. CASE stopTrackingResource(r)
  <2>1. \A q \in Refs : q # r => (stillTrackingResource(requestors, q)
                           => stillTrackingResource(requestors', q))
    BY <1>2 DEF stillTrackingResource
  <2>2. \A q \in Refs : q # r => resourceHashes'[q] = resourceHashes[q]
    BY <1>5 DEF stopTrackingResource
  <2>3. \A k \in GVKs : k # g => gvkResources'[k] = gvkResources[k]
    BY <1>5 DEF stopTrackingResource, stopWatcher
  <2>4. \/ gvkResources'[g] = Absent /\ g \notin watchers'
        \/ gvkResources'[g] = gvkResources[g] \ {r} /\ gvkResources'[g] # {}
           /\ gvkResources[g] # Absent
    BY <1>1, <1>5 DEF stopTrackingResource, stopWatcher, RegistryInv, WatcherIsNeeded
  <2>5. watchers' \subseteq watchers
    BY <1>5 DEF stopTrackingResource, stopWatcher
  <2>6. gvkResources[g] # Absent => gvkResources[g] \ {r} # Absent
    BY <1>1, SentinelsAssumption
  <2>7. WatcherIsNeeded'
    BY <2>3, <2>4, <2>5, <2>6 DEF RegistryInv, WatcherIsNeeded
  <2>8. WatchedIsTracked'
    <3> SUFFICES ASSUME NEW k \in GVKs, gvkResources'[k] # Absent, NEW q \in gvkResources'[k]
                 PROVE  GVKOf[q] = k /\ stillTrackingResource(requestors', q)
                        /\ resourceHashes'[q] # Absent
      BY DEF WatchedIsTracked, Tracked
    <3>1. gvkResources[k] # Absent /\ q \in gvkResources[k] /\ (k = g => q # r)
      BY <2>3, <2>4
    <3>2. /\ GVKOf[q] = k /\ stillTrackingResource(requestors, q)
          /\ resourceHashes[q] # Absent /\ q \in Refs
      BY <3>1 DEF RegistryInv, WatchedIsTracked, Tracked
    <3> QED  BY <2>1, <2>2, <3>1, <3>2
  <2> QED  BY <2>7, <2>8 DEF RegistryInv
<1> QED  BY <1>3, <1>4, <1>5 DEF UnRegisterResource

(* A new process has an empty registry. *)
LEMMA ResetKeepsRegistry == ManagerReset => RegistryInv'
  BY DEF ManagerReset, RegistryInv, WatcherIsNeeded, WatchedIsTracked

(* The steps of the evaluator other than the store leave the registry alone. *)
LEMMA EvaluatorLeavesRegistry ==
  Evaluator => UNCHANGED registryVars \/ updateResourceHash
  BY DEF Evaluator, EvaluationStep, EvaluationFault, TakeQueue, RequeueFailed, ReadHash,
         FetchNotFound, FetchFound, FetchFails, CompareHash, PatchesFail, StartRound, EndRound,
         GetSummary, GetSummaryFails, UpdateSummary, UpdateConflicts, UpdateFails

(* Every step preserves the registry's invariant. *)
LEMMA RegistryStep == TypeInv /\ RegistryInv /\ [Next]_vars => RegistryInv'
<1> SUFFICES ASSUME TypeInv, RegistryInv, [Next]_vars PROVE RegistryInv'
  OBVIOUS
<1>0. CASE UNCHANGED registryVars
  BY <1>0 DEF RegistryInv, WatcherIsNeeded, WatchedIsTracked, Tracked, stillTrackingResource
<1>1. CASE Informers
  BY <1>0, <1>1 DEF Informers, Listing, InformerList, Delivery, InformerAdd, InformerTombstone,
                    InformerNotify, Reaction, react
<1>2. CASE Evaluator
  <2>1. CASE updateResourceHash
    <3>1. ref \in Refs /\ newHash # Absent
      BY <2>1, SentinelsAssumption DEF updateResourceHash, TypeInv, EvaluatorShape
    <3>2. \A q \in Refs : resourceHashes[q] # Absent => resourceHashes'[q] # Absent
      BY <2>1, <3>1 DEF updateResourceHash, TypeInv, TypeOK, RegistryTypeOK
    <3> QED
      BY <2>1, <3>2 DEF updateResourceHash, RegistryInv, WatcherIsNeeded, WatchedIsTracked,
         Tracked, stillTrackingResource, TypeInv, TypeOK, RegistryTypeOK
  <2> QED  BY <1>0, <1>2, <2>1, EvaluatorLeavesRegistry
<1>3. ASSUME NEW c \in Claims, NEW out \in Outcomes, registerResources(c, out)
      PROVE  RegistryInv'
  <2>1. c[1] \in Types /\ c[2] \in Refs /\ c[3] \in Summaries
    BY ClaimsAssumption
  <2>2. RegisterMaps(c[2], c[1], c[3], out)
    BY <1>3 DEF registerResources, RegisterResource
  <2>3. resourceHashes' = [resourceHashes EXCEPT ![c[2]] = RegisteredHash(c[2], c[3], out)]
    BY <1>3 DEF registerResources, RegisterResource
  <2>4. out \in {"known", "watched"} => RegisteredHash(c[2], c[3], out) # Absent
    BY <2>1, <2>2, RegisteredIsBaseline, SentinelsAssumption DEF TypeInv, TypeOK
  <2> QED  BY <2>1, <2>2, <2>3, <2>4, RegisterKeepsRegistry
           DEF TypeInv, TypeOK, RegistryTypeOK
<1>4. ASSUME NEW c \in Claims, unregisterResources(c) PROVE RegistryInv'
  <2>1. c[1] \in Types /\ c[2] \in Refs /\ c[3] \in Summaries
    BY ClaimsAssumption
  <2> QED  BY <1>4, <2>1, UnregisterKeepsRegistry DEF unregisterResources
<1>5. ASSUME NEW s \in Summaries, Close(s) PROVE RegistryInv'
  BY <1>0, <1>5 DEF Close
<1>6. CASE Sveltos
  BY <1>0, <1>6 DEF Sveltos, ClearFlags, CreateSummary, RemoveSummary
<1>7. CASE Cluster
  BY <1>0, <1>7 DEF Cluster, ChangeObject, TouchObject
<1>8. CASE StartManager \/ FinishReading
  BY <1>0, <1>8 DEF StartManager, FinishReading
<1>9. ASSUME NEW out \in Outcomes, processResourceHashes(out) PROVE RegistryInv'
  <2> DEFINE e == Head(todo)
  <2>1. e \in Entries
    BY <1>9 DEF processResourceHashes, TypeInv, TypeOK
  <2>2. /\ e.resource \in Refs /\ ReadAs[e.type] \in Types
        /\ e.summary \in Summaries /\ e.hash \in Bytes
    BY <2>1 DEF Entries, ReadAs, Types
  <2>3. RegisterMaps(e.resource, ReadAs[e.type], e.summary, out)
    BY <1>9 DEF processResourceHashes
  <2>4. resourceHashes' = [resourceHashes EXCEPT ![e.resource] = e.hash]
    BY <1>9 DEF processResourceHashes
  <2>5. e.hash # Absent
    BY <2>2, SentinelsAssumption
  <2> HIDE DEF e
  <2> QED  BY <2>2, <2>3, <2>4, <2>5, RegisterKeepsRegistry DEF TypeInv, TypeOK, RegistryTypeOK
<1>10. CASE ReadingFails \/ Crash
  BY <1>10, ResetKeepsRegistry DEF ReadingFails, Crash, ProcessReset
<1> QED
  BY <1>0, <1>1, <1>2, <1>3, <1>4, <1>5, <1>6, <1>7, <1>8, <1>9, <1>10
  DEF Next, Reconciler, Startup

(* A manager starts with an empty registry. *)
LEMMA RegistryInit == Init => RegistryInv
  BY DEF Init, EmptyManager, RegistryInv, WatcherIsNeeded, WatchedIsTracked

(***************************************************************************)
(* A watcher runs only for a GVK with a resource to watch: no sequence of  *)
(* registrations, failures to start a watcher, evaluations and restarts    *)
(* leaves one running for nothing.                                         *)
(***************************************************************************)
THEOREM WatchersAreNeeded == Spec => []WatcherIsNeeded
<1>1. RegistryInv => WatcherIsNeeded
  BY DEF RegistryInv
<1> QED  BY <1>1, TypeInit, TypeStep, RegistryInit, RegistryStep, PTL DEF Spec

(***************************************************************************)
(* What is watched is registered and has a baseline, whatever the order in *)
(* which clients unregister and the evaluator stores its results.          *)
(***************************************************************************)
THEOREM WatchedAreTracked == Spec => []WatchedIsTracked
<1>1. RegistryInv => WatchedIsTracked
  BY DEF RegistryInv
<1> QED  BY <1>1, TypeInit, TypeStep, RegistryInit, RegistryStep, PTL DEF Spec

(* A registration takes nothing from anybody. *)
LEMMA RegisterHolds ==
  ASSUME TypeInv, NEW r \in Refs, NEW t \in Types, NEW s \in Summaries, NEW out,
         RegisterMaps(r, t, s, out),
         \A q \in Refs : resourceHashes[q] # Absent => resourceHashes'[q] # Absent,
         NEW q \in Refs, Held(q)
  PROVE  Held(q)'
<1> USE DEF TypeInv, TypeOK, RegistryTypeOK
<1>1. GVKOf[r] \in GVKs /\ GVKOf[q] \in GVKs
  BY ConstantsAssumption
<1>2. watchers \subseteq watchers'
  BY DEF RegisterMaps, updateGVKMapAndStartWatcher, startWatcher
<1>3. gvkResources[GVKOf[q]] # Absent =>
        /\ gvkResources'[GVKOf[q]] # Absent
        /\ gvkResources[GVKOf[q]] \subseteq gvkResources'[GVKOf[q]]
  <2>1. CASE gvkResources' = gvkResources
    BY <2>1
  <2>2. CASE updateGVKMapAndStartWatcher(r, out = "watched")
    BY <1>1, <2>2, SentinelsAssumption DEF updateGVKMapAndStartWatcher
  <2> QED  BY <2>1, <2>2 DEF RegisterMaps
<1> HIDE DEF TypeInv, TypeOK, RegistryTypeOK
<1> QED  BY <1>2, <1>3 DEF Held, InGVKEntry

(* The end of a registration takes watcher and baseline of that one resource
   only, and only when nobody else asks for it. *)
LEMMA UnregisterHolds ==
  ASSUME TypeInv, NEW r \in Refs, NEW t \in Types, NEW s \in Summaries,
         UnRegisterResource(r, t, s), NEW q \in Refs, Held(q), ~Held(q)'
  PROVE  \A u \in Types : requestors'[u][q] = {}
<1> USE DEF TypeInv, TypeOK, RegistryTypeOK
<1> DEFINE g == GVKOf[r]
<1>1. g \in GVKs /\ GVKOf[q] \in GVKs
  BY ConstantsAssumption
<1>2. ~UNCHANGED <<resourceHashes, gvkResources, watchers>>
  BY DEF Held, InGVKEntry
<1>3. stopTrackingResource(r) /\ ~stillTrackingResource(requestors', r)
  BY <1>2 DEF UnRegisterResource, registryVars
<1>4. q = r
  <2> SUFFICES ASSUME q # r PROVE FALSE
    OBVIOUS
  <2>1. resourceHashes'[q] = resourceHashes[q]
    BY <1>3 DEF stopTrackingResource
  <2>2. CASE GVKOf[q] # g
    BY <1>1, <1>3, <2>1, <2>2 DEF stopTrackingResource, Held, InGVKEntry
  <2>3. CASE GVKOf[q] = g
    <3>1. q \in gvkResources[g] \ {r} /\ gvkResources[g] # Absent
      BY <2>3 DEF Held, InGVKEntry
    <3>2. gvkResources'[g] = gvkResources[g] \ {r} /\ watchers' = watchers
      BY <1>1, <1>3, <3>1 DEF stopTrackingResource
    <3>3. gvkResources[g] \ {r} # Absent
      BY <1>1, <3>1, SentinelsAssumption
    <3> QED  BY <2>1, <2>3, <3>1, <3>2, <3>3 DEF Held, InGVKEntry
  <2> QED  BY <2>2, <2>3
<1> QED  BY <1>3, <1>4 DEF stillTrackingResource

(***************************************************************************)
(* Watcher and baseline of a resource last as long as anybody asks for it: *)
(* no registration, end of a registration of another type, ResourceSummary *)
(* or resource of the GVK, evaluation or rebuild takes them away.          *)
(***************************************************************************)
THEOREM WatchersLastUntilReleased == Spec => HeldUntilReleased
<1>1. ASSUME TypeInv, [Next]_vars
      PROVE  \A r \in Refs : Held(r) /\ ~Held(r)' /\ mode' # "down"
               => \A t \in Types : requestors'[t][r] = {}
  <2> SUFFICES ASSUME NEW q \in Refs, Held(q), ~Held(q)', mode' # "down"
               PROVE  \A u \in Types : requestors'[u][q] = {}
    OBVIOUS
  <2>0. ~UNCHANGED registryVars
    BY DEF Held, InGVKEntry
  <2>1. ~Informers
    BY <2>0 DEF Informers, Listing, InformerList, Delivery, InformerAdd, InformerTombstone,
                InformerNotify, Reaction, react
  <2>2. ~Evaluator
    <3> SUFFICES ASSUME updateResourceHash PROVE FALSE
      BY <2>0, EvaluatorLeavesRegistry
    <3>1. ref \in Refs /\ newHash # Absent
      BY <1>1, SentinelsAssumption DEF updateResourceHash, TypeInv, EvaluatorShape
    <3>2. resourceHashes[q] # Absent => resourceHashes'[q] # Absent
      BY <1>1, <3>1 DEF updateResourceHash, TypeInv, TypeOK, RegistryTypeOK
    <3> QED  BY <3>2 DEF updateResourceHash, Held, InGVKEntry
  <2>3. ASSUME NEW c \in Claims, NEW out \in Outcomes, registerResources(c, out) PROVE FALSE
    <3>1. c[1] \in Types /\ c[2] \in Refs /\ c[3] \in Summaries
      BY ClaimsAssumption
    <3>2. RegisterMaps(c[2], c[1], c[3], out)
      BY <2>3 DEF registerResources, RegisterResource
    <3>3. resourceHashes' = [resourceHashes EXCEPT ![c[2]] = RegisteredHash(c[2], c[3], out)]
      BY <2>3 DEF registerResources, RegisterResource
    <3>4. resourceHashes[c[2]] # Absent => RegisteredHash(c[2], c[3], out) = resourceHashes[c[2]]
      BY <3>2 DEF RegisterMaps, RegisteredHash
    <3>5. \A p \in Refs : resourceHashes[p] # Absent => resourceHashes'[p] # Absent
      BY <1>1, <3>1, <3>3, <3>4 DEF TypeInv, TypeOK, RegistryTypeOK
    <3> QED  BY <1>1, <3>1, <3>2, <3>5, RegisterHolds
  <2>4. ASSUME NEW c \in Claims, unregisterResources(c)
        PROVE  \A u \in Types : requestors'[u][q] = {}
    <3>1. c[1] \in Types /\ c[2] \in Refs /\ c[3] \in Summaries
      BY ClaimsAssumption
    <3> QED  BY <1>1, <2>4, <3>1, UnregisterHolds DEF unregisterResources
  <2>5. ASSUME NEW s \in Summaries, Close(s) PROVE FALSE
    BY <2>0, <2>5 DEF Close
  <2>6. ~Sveltos /\ ~Cluster /\ ~StartManager /\ ~FinishReading
    BY <2>0 DEF Sveltos, ClearFlags, CreateSummary, RemoveSummary, Cluster, ChangeObject,
                TouchObject, StartManager, FinishReading
  <2>7. ASSUME NEW out \in Outcomes, processResourceHashes(out) PROVE FALSE
    <3> DEFINE e == Head(todo)
    <3>1. e \in Entries
      BY <1>1, <2>7 DEF processResourceHashes, TypeInv, TypeOK
    <3>2. /\ e.resource \in Refs /\ ReadAs[e.type] \in Types
          /\ e.summary \in Summaries /\ e.hash \in Bytes
      BY <3>1 DEF Entries, ReadAs, Types
    <3>3. RegisterMaps(e.resource, ReadAs[e.type], e.summary, out)
      BY <2>7 DEF processResourceHashes
    <3>4. resourceHashes' = [resourceHashes EXCEPT ![e.resource] = e.hash]
      BY <2>7 DEF processResourceHashes
    <3> HIDE DEF e
    <3>5. \A p \in Refs : resourceHashes[p] # Absent => resourceHashes'[p] # Absent
      BY <1>1, <3>2, <3>4, SentinelsAssumption DEF TypeInv, TypeOK, RegistryTypeOK
    <3> QED  BY <1>1, <3>2, <3>3, <3>5, RegisterHolds
  <2>8. ~ReadingFails /\ ~Crash
    BY DEF ReadingFails, Crash, ProcessReset
  <2>9. ~UNCHANGED vars
    BY <2>0
  <2> QED  BY <1>1, <2>1, <2>2, <2>3, <2>4, <2>5, <2>6, <2>7, <2>8, <2>9
           DEF Next, Reconciler, Startup
<1>2. TypeInv /\ [Next]_vars
        => (\A r \in Refs : Held(r) /\ ~Held(r)' /\ mode' # "down"
              => \A t \in Types : requestors'[t][r] = {})
  BY <1>1
<1> QED  BY <1>2, TypeInit, TypeStep, PTL DEF Spec, HeldUntilReleased

-----------------------------------------------------------------------------
(***************************************************************************)
(* The informers list the objects of a GVK together.                       *)
(***************************************************************************)
(* Every step preserves it: a watcher is stopped, and forgets, for its whole
   GVK; an event concerns an object that was listed. *)
LEMMA ListedStep == TypeInv /\ ListedTogether /\ [Next]_vars => ListedTogether'
<1> SUFFICES ASSUME TypeInv, ListedTogether, [Next]_vars PROVE ListedTogether'
  OBVIOUS
<1> USE DEF TypeInv, TypeOK, RegistryTypeOK, ListedTogether
<1>0. CASE UNCHANGED <<view, behind>>
  BY <1>0
<1>1. ASSUME NEW g \in GVKs, Listing(g) PROVE ListedTogether'
  BY <1>1 DEF Listing, InformerList, Seen
<1>2. ASSUME NEW r \in Refs, Delivery(r) PROVE ListedTogether'
  BY <1>2 DEF Delivery, InformerAdd, InformerTombstone, InformerNotify, Seen
<1>3. ASSUME NEW r \in Refs, Reaction(r) PROVE ListedTogether'
  BY <1>0, <1>3 DEF Reaction, react
<1>4. CASE Evaluator
  BY <1>0, <1>4
  DEF Evaluator, EvaluationStep, EvaluationFault, TakeQueue, RequeueFailed, ReadHash,
      FetchNotFound, FetchFound, FetchFails, CompareHash, PatchesFail, updateResourceHash,
      StartRound, EndRound, GetSummary, GetSummaryFails, UpdateSummary, UpdateConflicts,
      UpdateFails
<1>5. ASSUME NEW c \in Claims, NEW out \in Outcomes, registerResources(c, out)
      PROVE  ListedTogether'
  BY <1>0, <1>5 DEF registerResources, RegisterResource
<1>6. ASSUME NEW c \in Claims, unregisterResources(c) PROVE ListedTogether'
  <2>1. CASE stopTrackingResource(c[2])
    <3>1. CASE UNCHANGED <<view, behind>>
      BY <1>0, <3>1
    <3>2. CASE /\ view' = [q \in Refs |-> IF GVKOf[q] = GVKOf[c[2]] THEN "unlisted" ELSE view[q]]
               /\ behind' = {q \in behind : GVKOf[q] # GVKOf[c[2]]}
      BY <3>2
    <3> QED  BY <2>1, <3>1, <3>2 DEF stopTrackingResource, stopWatcher
  <2> QED  BY <1>0, <1>6, <2>1 DEF unregisterResources, UnRegisterResource
<1>7. ASSUME NEW s \in Summaries, Close(s) PROVE ListedTogether'
  BY <1>0, <1>7 DEF Close
<1>8. CASE Sveltos
  BY <1>0, <1>8 DEF Sveltos, ClearFlags, CreateSummary, RemoveSummary
<1>9. ASSUME NEW r \in Refs, ChangeObject(r) \/ TouchObject(r) PROVE ListedTogether'
  BY <1>9 DEF ChangeObject, TouchObject, WriteEvent
<1>10. CASE StartManager \/ FinishReading
  BY <1>0, <1>10 DEF StartManager, FinishReading
<1>11. ASSUME NEW out \in Outcomes, processResourceHashes(out) PROVE ListedTogether'
  BY <1>0, <1>11 DEF processResourceHashes
<1>12. CASE ReadingFails \/ Crash
  BY <1>12 DEF ReadingFails, Crash, ProcessReset, ManagerReset
<1> QED
  BY <1>0, <1>1, <1>2, <1>3, <1>4, <1>5, <1>6, <1>7, <1>8, <1>9, <1>10, <1>11, <1>12
  DEF Next, Informers, Reconciler, Cluster, Startup

-----------------------------------------------------------------------------
(***************************************************************************)
(* Detection: BaselineIsCurrent and FetchedIsCurrent.                      *)
(***************************************************************************)
DetectionInv == BaselineIsCurrent /\ FetchedIsCurrent

(* A step that changes neither objects, baselines nor what the evaluator
   holds, and settles no resource, preserves them. *)
LEMMA UndisturbedDetection ==
  ASSUME TypeInv, DetectionInv,
         UNCHANGED <<cluster, resourceHashes, pc, ref, hash, object, newHash>>,
         \A r \in Refs : Settled(r)' => Settled(r),
         blind \subseteq blind'
  PROVE  DetectionInv'
<1> USE DEF DetectionInv, BaselineIsCurrent, FetchedIsCurrent
<1>1. BaselineIsCurrent'
  BY DEF Matches
<1>2. pc \in {"patches", "store"} => ref \in Refs
  BY DEF TypeInv, EvaluatorShape
<1>3. FetchedIsCurrent'
  BY <1>2 DEF Matches
<1> QED  BY <1>1, <1>3

(* A step of the evaluator outside a verdict preserves them if it settles
   nothing. *)
LEMMA BetweenVerdicts ==
  ASSUME DetectionInv,
         UNCHANGED <<cluster, resourceHashes>>,
         pc \notin {"fetch", "patches", "store"}, pc' \notin {"patches", "store"},
         \A r \in Refs : Settled(r)' /\ ~(r = ref' /\ pc' = "fetch") => Settled(r)
  PROVE  DetectionInv'
  BY DEF DetectionInv, BaselineIsCurrent, FetchedIsCurrent, Matches

AllInv == TypeInv /\ RegistryInv /\ ListedTogether /\ DetectionInv

(* The informers: an event that is not handed on leaves its object pending,
   awaiting a fetch, or blind. *)
LEMMA DetectionInformers == AllInv /\ Informers => DetectionInv'
<1> SUFFICES ASSUME AllInv, Informers PROVE DetectionInv'
  OBVIOUS
<1> USE DEF AllInv
<1>1. ASSUME NEW g \in GVKs, Listing(g) PROVE DetectionInv'
  <2>1. behind' = behind
    BY <1>1 DEF Listing, InformerList, ListedTogether, TypeInv, TypeOK, RegistryTypeOK
  <2> QED  BY <1>1, <2>1, UndisturbedDetection
           DEF Listing, InformerList, InformerFrame, Settled, InGVKEntry
<1>2. ASSUME NEW r \in Refs, InformerAdd(r) \/ InformerTombstone(r), UnseenChange(r),
             InformerFrame
      PROVE  DetectionInv'
  <2> USE DEF InformerAdd, InformerTombstone, UnseenChange, InformerFrame
  <2>1. /\ UNCHANGED <<cluster, registryVars, jobQueue, inflight, evalVars>>
        /\ behind' = behind \ {r} /\ blind \subseteq blind'
    BY <1>2
  <2>2. resourceHashes[r] # Absent /\ ~FetchAhead(r) => r \in blind'
    BY <1>2
  <2>3. InGVKEntry(r) => resourceHashes[r] # Absent
    BY ConstantsAssumption DEF InGVKEntry, RegistryInv, WatchedIsTracked
  <2>4. CASE r = ref /\ pc = "fetch"
    <3>1. \A q \in Refs : q # r => (Settled(q)' => Settled(q))
      BY <2>1 DEF Settled, InGVKEntry
    <3> QED  BY <2>1, <2>4, <3>1
             DEF DetectionInv, BaselineIsCurrent, FetchedIsCurrent, Matches
  <2>5. CASE ~(r = ref /\ pc = "fetch")
    <3>1. \A q \in Refs : Settled(q)' => Settled(q)
      BY <2>1, <2>2, <2>3, <2>5 DEF Settled, InGVKEntry, FetchAhead
    <3> QED  BY <2>1, <3>1, UndisturbedDetection
  <2> QED  BY <2>4, <2>5
<1>3. ASSUME NEW r \in Refs, InformerNotify(r), UNCHANGED blind, InformerFrame
      PROVE  DetectionInv'
  BY <1>3, UndisturbedDetection DEF InformerNotify, InformerFrame, Settled, InGVKEntry
<1>4. ASSUME NEW r \in Refs, Reaction(r) PROVE DetectionInv'
  BY <1>4, UndisturbedDetection
  DEF Reaction, react, checkForConfigurationDrift, InformerFrame, Settled, InGVKEntry
<1> QED  BY <1>1, <1>2, <1>3, <1>4 DEF Informers, Delivery

(* The evaluator: what it stores is the hash of the present object, unless
   something lies ahead. *)
LEMMA DetectionEvaluator == AllInv /\ Evaluator => DetectionInv'
<1> SUFFICES ASSUME AllInv, Evaluator PROVE DetectionInv'
  OBVIOUS
<1> USE DEF AllInv, Evaluated, EvaluationFailed, NoVerdict, NoReport
<1>0. UNCHANGED othersVars /\ (pc = "idle" => failed = {})
      /\ (pc \notin {"idle", "pick"} => ref \in Refs)
  BY DEF Evaluator, TypeInv, EvaluatorShape
<1>1. CASE TakeQueue /\ UNCHANGED historyVars
  <2>1. /\ UNCHANGED <<cluster, registryVars, informerVars, blind>>
        /\ batch' = jobQueue /\ jobQueue' = {} /\ failed = {} /\ failed' = {}
        /\ pc = "idle" /\ pc' = "pick"
    BY <1>0, <1>1 DEF TakeQueue
  <2>2. batch = {}
    BY <2>1 DEF TypeInv, EvaluatorShape
  <2>3. \A q \in Refs : Settled(q)' => Settled(q)
    BY <2>1, <2>2 DEF Settled, InGVKEntry
  <2> QED  BY <2>1, <2>3, BetweenVerdicts
<1>2. CASE RequeueFailed /\ UNCHANGED historyVars
  BY <1>0, <1>2, BetweenVerdicts DEF RequeueFailed, Settled, InGVKEntry
<1>3. ASSUME NEW r \in Refs, ReadHash(r), UNCHANGED historyVars PROVE DetectionInv'
  <2>1. resourceHashes[r] = Absent => ~InGVKEntry(r)
    BY ConstantsAssumption DEF InGVKEntry, RegistryInv, WatchedIsTracked
  <2> QED  BY <1>0, <1>3, <2>1, BetweenVerdicts DEF ReadHash, Settled, InGVKEntry
<1>4. CASE FetchNotFound /\ FetchEndsBlindness /\ UNCHANGED owed
  BY <1>0, <1>4
  DEF FetchNotFound, FetchEndsBlindness, DetectionInv, BaselineIsCurrent, FetchedIsCurrent,
      Settled, InGVKEntry, Matches
<1>5. CASE FetchFound /\ FetchEndsBlindness /\ UNCHANGED owed
  BY <1>0, <1>5
  DEF FetchFound, FetchEndsBlindness, DetectionInv, BaselineIsCurrent, FetchedIsCurrent,
      Settled, InGVKEntry, Matches
<1>6. CASE CompareHash /\ UNCHANGED historyVars
  <2>1. /\ UNCHANGED <<cluster, registryVars, jobQueue, informerVars, batch, failed, blind>>
        /\ pc = "patches" /\ ref \in Refs
    BY <1>0, <1>6 DEF CompareHash
  <2>2. \A q \in Refs : Settled(q)' <=> Settled(q)
    BY <2>1 DEF Settled, InGVKEntry
  <2>3. getPatches(ref) \in SUBSET Patches
    BY <2>1, PatchesAreGot DEF TypeInv, TypeOK
  <2>4. Settled(ref) => /\ object = cluster[ref] /\ cluster[ref] # Gone
                        /\ resourceHashes[ref] = hash
    BY <2>1, SentinelsAssumption
    DEF DetectionInv, FetchedIsCurrent, Settled, TypeInv, EvaluatorShape
  <2>5. Settled(ref) => Matches(CurrentHash, cluster[ref])
    BY <2>3, <2>4 DEF Matches, CurrentHash
  <2>6. CASE hash = CurrentHash
    <3>1. pc' = "pick"
      BY <1>6, <2>6 DEF CompareHash
    <3>2. \A r \in Refs : Settled(r) => Matches(resourceHashes[r], cluster[r])
      BY <2>1, <2>4, <2>5, <2>6 DEF DetectionInv, BaselineIsCurrent
    <3> QED  BY <2>1, <2>2, <3>1, <3>2
             DEF DetectionInv, BaselineIsCurrent, FetchedIsCurrent, Matches
  <2>7. CASE hash # CurrentHash
    <3>1. pc' = "store" /\ newHash' = CurrentHash /\ UNCHANGED <<ref, hash>>
      BY <1>6, <2>7 DEF CompareHash
    <3>2. BaselineIsCurrent'
      BY <2>1, <2>2, <3>1 DEF DetectionInv, BaselineIsCurrent, Matches
    <3>3. Settled(ref) => Matches(newHash', cluster'[ref'])
      BY <2>1, <2>5, <3>1 DEF Matches
    <3>4. FetchedIsCurrent'
      BY <2>1, <2>2, <3>1, <3>3 DEF DetectionInv, FetchedIsCurrent, Matches
    <3> QED  BY <3>2, <3>4 DEF DetectionInv
  <2> QED  BY <2>6, <2>7
<1>7. CASE updateResourceHash /\ UNCHANGED blind
  <2>1. /\ UNCHANGED <<cluster, gvkResources, jobQueue, informerVars, batch, failed, blind, ref>>
        /\ pc = "store" /\ pc' = "requests" /\ ref \in Refs
        /\ resourceHashes' = [resourceHashes EXCEPT ![ref] = newHash]
    BY <1>0, <1>7 DEF updateResourceHash
  <2>2. \A q \in Refs : Settled(q)' <=> Settled(q)
    BY <2>1 DEF Settled, InGVKEntry
  <2>3. resourceHashes'[ref] = newHash /\ \A q \in Refs : q # ref => resourceHashes'[q] = resourceHashes[q]
    BY <2>1 DEF TypeInv, TypeOK, RegistryTypeOK
  <2>4. \A q \in Refs : Settled(q) => Matches(resourceHashes'[q], cluster[q])
    BY <2>1, <2>3 DEF DetectionInv, BaselineIsCurrent, FetchedIsCurrent
  <2> QED  BY <2>1, <2>2, <2>4 DEF DetectionInv, BaselineIsCurrent, FetchedIsCurrent, Matches
<1>8. CASE (StartRound \/ EndRound) /\ UNCHANGED blind
  BY <1>0, <1>8, BetweenVerdicts DEF StartRound, EndRound, Settled, InGVKEntry
<1>9. ASSUME NEW s \in Summaries, GetSummary(s), UNCHANGED historyVars PROVE DetectionInv'
  BY <1>0, <1>9, BetweenVerdicts DEF GetSummary, Settled, InGVKEntry
<1>10. CASE (UpdateSummary \/ UpdateConflicts) /\ UNCHANGED blind
  BY <1>0, <1>10, BetweenVerdicts DEF UpdateSummary, UpdateConflicts, Settled, InGVKEntry
<1>11. CASE (GetSummaryFails \/ UpdateFails) /\ UNCHANGED historyVars
  BY <1>0, <1>11, BetweenVerdicts DEF GetSummaryFails, UpdateFails, Settled, InGVKEntry
<1>12. CASE (FetchFails \/ PatchesFail) /\ UNCHANGED historyVars
  <2>1. /\ UNCHANGED <<cluster, registryVars, jobQueue, informerVars, batch, blind>>
        /\ pc' = "pick" /\ failed' = failed \cup {ref}
    BY <1>0, <1>12 DEF FetchFails, PatchesFail
  <2>2. \A q \in Refs : Settled(q)' => Settled(q) /\ q # ref
    BY <2>1 DEF Settled, InGVKEntry
  <2> QED  BY <2>1, <2>2 DEF DetectionInv, BaselineIsCurrent, FetchedIsCurrent, Matches
<1> QED
  BY <1>1, <1>2, <1>3, <1>4, <1>5, <1>6, <1>7, <1>8, <1>9, <1>10, <1>11, <1>12
  DEF Evaluator, EvaluationStep, EvaluationFault

(* Registration: a new baseline is the hash of the present object; one taken
   while the evaluator holds an older fetch of the object stays blind. *)
LEMMA DetectionRegister ==
  ASSUME AllInv, NEW c \in Claims, NEW out \in Outcomes, registerResources(c, out)
  PROVE  DetectionInv'
<1> DEFINE r == c[2]  s == c[3]
<1> USE DEF AllInv
<1>1. c[1] \in Types /\ r \in Refs /\ s \in Summaries /\ GVKOf[r] \in GVKs
  BY ClaimsAssumption, ConstantsAssumption
<1>2. RegisterMaps(r, c[1], s, out)
  BY DEF registerResources, RegisterResource
<1>3. /\ UNCHANGED <<cluster, jobQueue, informerVars, evalVars>>
      /\ resourceHashes' = [resourceHashes EXCEPT ![r] = RegisteredHash(r, s, out)]
      /\ blind' = IF out = "watched" /\ ~Fetched(r) THEN blind \ {r} ELSE blind
  BY DEF registerResources, RegisterResource
<1>4. \A q \in Refs : q # r => resourceHashes'[q] = resourceHashes[q]
  BY <1>3 DEF TypeInv, TypeOK, RegistryTypeOK
<1>5. CASE out \notin {"watched", "startFailed"}
  <2>1. UNCHANGED <<resourceHashes, gvkResources>>
    BY <1>1, <1>2, <1>3, <1>5 DEF RegisterMaps, RegisteredHash, TypeInv, TypeOK, RegistryTypeOK
  <2> QED  BY <1>3, <1>5, <2>1, UndisturbedDetection DEF Settled, InGVKEntry
<1>6. CASE out \in {"watched", "startFailed"}
  <2>1. resourceHashes[r] = Absent /\ cluster[r] # Gone
    BY <1>2, <1>6 DEF RegisterMaps
  <2>2. pc \in {"patches", "store"} /\ ref = r => r \in blind /\ r \in blind'
    BY <1>3, <2>1, SentinelsAssumption
    DEF DetectionInv, FetchedIsCurrent, TypeInv, EvaluatorShape, Fetched
  <2>3. \A q \in Refs : q # r => (Settled(q)' => Settled(q))
    <3> DEFINE g == GVKOf[r]
               old == IF gvkResources[g] # Absent THEN gvkResources[g] ELSE {}
    <3>0. /\ \A k \in GVKs : k # g => gvkResources'[k] = gvkResources[k]
          /\ gvkResources'[g] \subseteq old \cup {r}
      BY <1>1, <1>2, <1>6
      DEF RegisterMaps, updateGVKMapAndStartWatcher, startWatcher, TypeInv, TypeOK, RegistryTypeOK
    <3>1. \A q \in Refs : q # r /\ InGVKEntry(q)' => InGVKEntry(q)
      BY <3>0, ConstantsAssumption DEF InGVKEntry
    <3> QED  BY <1>3, <3>1 DEF Settled
  <2>4. Settled(r)' => Matches(resourceHashes'[r], cluster[r])
    <3>1. resourceHashes'[r] = unstructuredHash(cluster[r], PatchesOf[s])
      BY <1>1, <1>3, <1>6 DEF RegisteredHash, TypeInv, TypeOK, RegistryTypeOK
    <3>2. PatchesOf[s] \in SUBSET Patches
      BY <1>1, ConstantsAssumption
    <3> QED  BY <2>1, <3>1, <3>2 DEF Matches
  <2>5. BaselineIsCurrent'
    <3> SUFFICES ASSUME NEW q \in Refs, Settled(q)',
                        ~(q = ref' /\ pc' \in {"fetch", "patches", "store"})
                 PROVE  Matches(resourceHashes'[q], cluster'[q])
      BY DEF BaselineIsCurrent, Matches
    <3> QED  BY <1>3, <1>4, <2>3, <2>4 DEF DetectionInv, BaselineIsCurrent
  <2>6. FetchedIsCurrent'
    <3>1. CASE pc \in {"patches", "store"} /\ ref = r
      BY <1>3, <2>2, <3>1 DEF FetchedIsCurrent, Settled
    <3>2. CASE pc \in {"patches", "store"} /\ ref # r
      <4>1. ref \in Refs /\ (ref \notin blind' => ref \notin blind)
        BY <1>3, <3>2 DEF TypeInv, EvaluatorShape
      <4> QED  BY <1>3, <1>4, <2>3, <3>2, <4>1 DEF DetectionInv, FetchedIsCurrent, Matches
    <3>3. CASE pc \notin {"patches", "store"}
      BY <1>3, <3>3 DEF FetchedIsCurrent
    <3> QED  BY <3>1, <3>2, <3>3
  <2> QED  BY <2>5, <2>6 DEF DetectionInv
<1> QED  BY <1>5, <1>6

(* The end of a registration: the resource loses its entry, and is blind if
   the evaluator has fetched it; the events a stopped informer forgets are of
   resources without an entry. *)
LEMMA DetectionUnregister ==
  ASSUME AllInv, NEW c \in Claims, unregisterResources(c)
  PROVE  DetectionInv'
<1> DEFINE r == c[2]  g == GVKOf[r]
<1> USE DEF AllInv
<1>1. r \in Refs /\ g \in GVKs
  BY ClaimsAssumption, ConstantsAssumption
<1>2. UNCHANGED <<cluster, jobQueue, inflight, evalVars>>
  BY DEF unregisterResources, UnRegisterResource
<1>3. CASE UNCHANGED <<resourceHashes, gvkResources, behind>>
  <2>1. blind \subseteq blind'
    BY DEF unregisterResources
  <2> QED  BY <1>2, <1>3, <2>1, UndisturbedDetection DEF Settled, InGVKEntry
<1>4. CASE stopTrackingResource(r) /\ ~stillTrackingResource(requestors', r)
  <2>1. blind' = IF Fetched(r) THEN blind \cup {r} ELSE blind
    BY <1>4 DEF unregisterResources
  <2>2. \A q \in Refs : q # r => resourceHashes'[q] = resourceHashes[q]
    BY <1>4 DEF stopTrackingResource, stopWatcher, TypeInv, TypeOK, RegistryTypeOK
  <2>3. ASSUME NEW q \in Refs, Settled(q)' PROVE Settled(q) /\ q # r
    <3>0. /\ \A k \in GVKs : k # g => gvkResources'[k] = gvkResources[k]
          /\ \/ gvkResources'[g] = Absent
             \/ gvkResources[g] # Absent /\ gvkResources'[g] = gvkResources[g] \ {r}
      BY <1>1, <1>4 DEF stopTrackingResource, stopWatcher, TypeInv, TypeOK, RegistryTypeOK
    <3>1. InGVKEntry(q)' => InGVKEntry(q) /\ q # r
      BY <3>0, ConstantsAssumption DEF InGVKEntry
    <3>2. InGVKEntry(q)' => (q \in behind => q \in behind')
      BY <1>1, <1>4 DEF stopTrackingResource, stopWatcher, InGVKEntry, TypeInv, TypeOK, RegistryTypeOK
    <3> QED  BY <1>2, <2>1, <2>3, <3>1, <3>2 DEF Settled
  <2>4. BaselineIsCurrent'
    <3> SUFFICES ASSUME NEW q \in Refs, Settled(q)',
                        ~(q = ref' /\ pc' \in {"fetch", "patches", "store"})
                 PROVE  Matches(resourceHashes'[q], cluster'[q])
      BY DEF BaselineIsCurrent, Matches
    <3> QED  BY <1>2, <2>2, <2>3 DEF DetectionInv, BaselineIsCurrent
  <2>5. FetchedIsCurrent'
    <3>1. pc \in {"patches", "store"} => ref \in Refs
      BY DEF TypeInv, EvaluatorShape
    <3>2. pc \in {"patches", "store"} /\ ref \notin blind'
            => ref \notin blind /\ resourceHashes'[ref] = resourceHashes[ref]
      BY <2>1, <2>2, <3>1 DEF Fetched
    <3> QED  BY <1>2, <2>3, <3>1, <3>2 DEF DetectionInv, FetchedIsCurrent, Matches
  <2> QED  BY <2>4, <2>5 DEF DetectionInv
<1> QED  BY <1>3, <1>4 DEF unregisterResources, UnRegisterResource

(* The other steps: a change of an object leaves it pending or blind, and what
   is read back from a status is queued. *)
LEMMA DetectionRest ==
  ASSUME AllInv,
         \/ \E s \in Summaries : Close(s)
         \/ Sveltos \/ Cluster \/ Startup \/ Crash
  PROVE  DetectionInv'
<1> USE DEF AllInv
<1>1. ASSUME NEW s \in Summaries, Close(s) PROVE DetectionInv'
  BY <1>1, UndisturbedDetection DEF Close, Settled, InGVKEntry
<1>2. CASE Sveltos
  BY <1>2, UndisturbedDetection
  DEF Sveltos, ClearFlags, CreateSummary, RemoveSummary, Settled, InGVKEntry
<1>3. ASSUME NEW r \in Refs, TouchObject(r) PROVE DetectionInv'
  BY <1>3, UndisturbedDetection DEF TouchObject, WriteEvent, Settled, InGVKEntry
<1>4. ASSUME NEW r \in Refs, ChangeObject(r) PROVE DetectionInv'
  <2>1. /\ UNCHANGED <<registryVars, jobQueue, inflight, evalVars>>
        /\ \A q \in Refs : q # r => cluster'[q] = cluster[q]
        /\ behind \subseteq behind' /\ blind \subseteq blind'
    BY <1>4 DEF ChangeObject, WriteEvent, UnseenChange, TypeInv, TypeOK
  <2>2. InGVKEntry(r) => resourceHashes[r] # Absent
    BY ConstantsAssumption DEF InGVKEntry, RegistryInv, WatchedIsTracked
  <2>3. view[r] = "unlisted" /\ resourceHashes[r] # Absent => r \in blind' \/ FetchAhead(r)
    BY <1>4 DEF ChangeObject, UnseenChange
  <2>4. view[r] # "unlisted" => r \in behind'
    BY <1>4 DEF ChangeObject, WriteEvent
  <2>5. Settled(r)' => r = ref /\ pc = "fetch"
    BY <2>1, <2>2, <2>3, <2>4 DEF Settled, InGVKEntry, FetchAhead
  <2>6. \A q \in Refs : Settled(q)' => Settled(q)
    BY <2>1 DEF Settled, InGVKEntry
  <2>7. BaselineIsCurrent'
    <3> SUFFICES ASSUME NEW q \in Refs, Settled(q)',
                        ~(q = ref' /\ pc' \in {"fetch", "patches", "store"})
                 PROVE  Matches(resourceHashes'[q], cluster'[q])
      BY DEF BaselineIsCurrent, Matches
    <3> QED  BY <2>1, <2>5, <2>6 DEF DetectionInv, BaselineIsCurrent
  <2>8. FetchedIsCurrent'
    <3>1. pc \in {"patches", "store"} => ref \in Refs
      BY DEF TypeInv, EvaluatorShape
    <3> QED  BY <2>1, <2>5, <2>6, <3>1 DEF DetectionInv, FetchedIsCurrent, Matches
  <2> QED  BY <2>7, <2>8 DEF DetectionInv
<1>5. CASE StartManager \/ FinishReading
  BY <1>5, UndisturbedDetection DEF StartManager, FinishReading, Settled, InGVKEntry
<1>6. ASSUME NEW out \in Outcomes, processResourceHashes(out) PROVE DetectionInv'
  <2> DEFINE e == Head(todo)  r == e.resource  g == GVKOf[r]
             old == IF gvkResources[g] # Absent THEN gvkResources[g] ELSE {}
  <2>1. r \in Refs /\ g \in GVKs
    <3>1. e \in Entries
      BY <1>6 DEF processResourceHashes, TypeInv, TypeOK
    <3>2. r \in Refs
      BY <3>1 DEF Entries
    <3> QED  BY <3>2, ConstantsAssumption
  <2>2. /\ RegisterMaps(r, ReadAs[e.type], e.summary, out)
        /\ resourceHashes' = [resourceHashes EXCEPT ![r] = e.hash]
        /\ jobQueue' = jobQueue \cup {r}
        /\ UNCHANGED <<cluster, informerVars, evalVars, blind>>
    BY <1>6 DEF processResourceHashes, checkForConfigurationDrift
  <2>3. pc = "idle"
    BY <1>6 DEF processResourceHashes, TypeInv, EvaluatorShape
  <2> HIDE DEF e
  <2>4. /\ \A k \in GVKs : k # g => gvkResources'[k] = gvkResources[k]
        /\ gvkResources' = gvkResources \/ gvkResources'[g] \subseteq old \cup {r}
    BY <2>1, <2>2 DEF RegisterMaps, updateGVKMapAndStartWatcher, startWatcher, TypeInv, TypeOK, RegistryTypeOK
  <2>5. \A q \in Refs : q # r /\ InGVKEntry(q)' => InGVKEntry(q)
    BY <2>4, ConstantsAssumption DEF InGVKEntry
  <2>6. \A q \in Refs : Settled(q)' => Settled(q) /\ q # r
    BY <2>2, <2>5 DEF Settled
  <2>7. \A q \in Refs : q # r => resourceHashes'[q] = resourceHashes[q]
    BY <2>2 DEF TypeInv, TypeOK, RegistryTypeOK
  <2>8. BaselineIsCurrent'
    BY <2>2, <2>3, <2>6, <2>7 DEF DetectionInv, BaselineIsCurrent, Matches
  <2>9. FetchedIsCurrent'
    BY <2>2, <2>3 DEF FetchedIsCurrent
  <2> QED  BY <2>8, <2>9 DEF DetectionInv
<1>7. CASE ReadingFails \/ Crash
  <2>1. gvkResources' = [g \in GVKs |-> Absent] /\ pc' = "idle"
    BY <1>7 DEF ReadingFails, Crash, ProcessReset, ManagerReset, EvaluatorReset
  <2>2. \A r \in Refs : ~Settled(r)'
    BY <2>1, ConstantsAssumption DEF Settled, InGVKEntry
  <2> QED  BY <2>1, <2>2 DEF DetectionInv, BaselineIsCurrent, FetchedIsCurrent
<1> QED
  BY <1>1, <1>2, <1>3, <1>4, <1>5, <1>6, <1>7 DEF Cluster, Startup

(* Every step preserves the whole invariant. *)
LEMMA DetectionStep == AllInv /\ [Next]_vars => DetectionInv'
<1> SUFFICES ASSUME AllInv, [Next]_vars PROVE DetectionInv'
  OBVIOUS
<1>1. CASE UNCHANGED vars
  BY <1>1, UndisturbedDetection DEF AllInv, Settled, InGVKEntry
<1> QED
  BY <1>1, DetectionInformers, DetectionEvaluator, DetectionRegister, DetectionUnregister,
     DetectionRest
  DEF Next, Reconciler

(* Init establishes it. *)
LEMMA DetectionInit == Init => ListedTogether /\ DetectionInv
<1> SUFFICES ASSUME Init PROVE ListedTogether /\ DetectionInv
  OBVIOUS
<1>1. ListedTogether
  BY DEF Init, EmptyManager, ListedTogether
<1>2. \A r \in Refs : ~Settled(r)
  BY ConstantsAssumption DEF Init, EmptyManager, Settled, InGVKEntry
<1>3. pc = "idle"
  BY DEF Init, EvaluatorStarts
<1> QED  BY <1>1, <1>2, <1>3 DEF DetectionInv, BaselineIsCurrent, FetchedIsCurrent

(***************************************************************************)
(* The inductive invariant holds in every state.                           *)
(***************************************************************************)
THEOREM Invariance == Spec => []IndInv
<1>1. AllInv => IndInv
  BY DEF AllInv, TypeInv, RegistryInv, DetectionInv, IndInv
<1>2. Init => AllInv
  BY TypeInit, RegistryInit, DetectionInit DEF AllInv
<1>3. AllInv /\ [Next]_vars => AllInv'
  BY TypeStep, RegistryStep, ListedStep, DetectionStep DEF AllInv
<1> QED  BY <1>1, <1>2, <1>3, PTL DEF Spec

(***************************************************************************)
(* No change is forgotten.  When nothing is left to do for a watched       *)
(* resource, its baseline is the hash of what the cluster holds: for any   *)
(* number of resources, kinds, ResourceSummaries and patches, and through  *)
(* failed calls, failed evaluations, concurrent registrations and          *)
(* restarts, only the blind spots escape the manager.                      *)
(***************************************************************************)
THEOREM NoChangeForgotten == Spec => []QuietIsCurrent
<1>1. IndInv => QuietIsCurrent
  <2> SUFFICES ASSUME IndInv, NEW r \in Refs,
                      mode = "running" /\ Watched(r) /\ ~Pending(r) /\ r \notin blind
               PROVE  Matches(resourceHashes[r], cluster[r])
    BY DEF QuietIsCurrent
  <2>1. GVKOf[r] \in watchers /\ gvkResources[GVKOf[r]] # Absent
    BY DEF Watched, IndInv, WatcherIsNeeded
  <2>2. Settled(r)
    BY <2>1 DEF Watched, Pending, Settled, InGVKEntry
  <2> QED  BY <2>2 DEF IndInv, BaselineIsCurrent, Pending
<1> QED  BY <1>1, Invariance, PTL
=============================================================================
