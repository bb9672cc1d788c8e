---------------------------- MODULE ReportProofs ----------------------------
(***************************************************************************)
(* Proofs about what the manager reports: every ResourceSummary that has   *)
(* to hear of a drift hears of it before the evaluation ends, and none     *)
(* hears of a drift that did not happen.                                   *)
(***************************************************************************)
EXTENDS DriftDetectionProofs

USE DEF registryVars, informerVars, managerVars, passVars, verdictVars, reportVars,
        evalVars, processVars, clientVars, countVars, historyVars, othersVars, vars

-----------------------------------------------------------------------------
(***************************************************************************)
(* The report of a drift is complete.                                      *)
(***************************************************************************)
(* A round from first on reads the type s asks for the resource under. *)
Ahead(s, first) ==
  \E i \in 1..3 : i >= first /\ s \in requestors[resourceTypes[i]][ref]

(* Who is owed a drift exists and still asks for the resource. *)
OwedIsAsked ==
  \A r \in Refs, s \in Summaries : <<r, s>> \in owed =>
    summary[s] # Gone /\ \E t \in Types : s \in requestors[t][r]

(* The rounds start from the first. *)
FirstRound == pc \in {"idle", "pick", "fetch", "patches", "store"} => round = 1

(* Whoever is owed the drift under evaluation is being told, will be visited in
   this round, or asks under the type of a round still to come. *)
OwedIsAhead ==
  \A s \in Summaries : <<ref, s>> \in owed =>
    /\ pc = "requests" => Ahead(s, round)
    /\ pc = "get" => s \in visit \/ Ahead(s, round + 1)
    /\ pc = "update" => s \in visit \/ s = target \/ Ahead(s, round + 1)

ReportInv == OwedIsAsked /\ FirstRound /\ OwedIsAhead

(* requestReconciliations goes through every ResourceType. *)
LEMMA EveryTypeHasARound ==
  /\ Len(resourceTypes) = 3
  /\ \A i \in 1..3 : resourceTypes[i] \in Types
  /\ \A t \in Types : \E i \in 1..3 : resourceTypes[i] = t
<1>1. /\ resourceTypes[1] = "Resource" /\ resourceTypes[2] = "Helm"
      /\ resourceTypes[3] = "Kustomize" /\ Len(resourceTypes) = 3
  BY DEF resourceTypes
<1>2. \A i \in 1..3 : i = 1 \/ i = 2 \/ i = 3
  OBVIOUS
<1> QED  BY <1>1, <1>2 DEF Types

(* What the others do while the evaluator rests keeps the invariant, as long as
   a ResourceSummary that is still owed a drift keeps asking and exists. *)
LEMMA OthersKeepReport ==
  ASSUME TypeInv, ReportInv, UNCHANGED evalVars, owed' \subseteq owed,
         \A r \in Refs, s \in Summaries : <<r, s>> \in owed' =>
           /\ summary'[s] # Gone
           /\ \A t \in Types : s \in requestors[t][r] => s \in requestors'[t][r]
  PROVE  ReportInv'
<1>1. OwedIsAsked'
  BY DEF ReportInv, OwedIsAsked
<1>2. FirstRound'
  BY DEF ReportInv, FirstRound
<1>3. ASSUME NEW s \in Summaries, <<ref, s>> \in owed', NEW k \in Nat, Ahead(s, k)
      PROVE  \E i \in 1..3 : i >= k /\ s \in requestors'[resourceTypes[i]][ref]
  <2>1. ref \in Refs
    BY <1>3 DEF TypeInv, TypeOK
  <2>2. PICK i \in 1..3 : i >= k /\ s \in requestors[resourceTypes[i]][ref]
    BY <1>3 DEF Ahead
  <2> QED  BY <1>3, <2>1, <2>2, EveryTypeHasARound
<1>4. round \in Nat
  BY DEF TypeInv, TypeOK, EvaluationTypeOK
<1>5. OwedIsAhead'
  <2> SUFFICES ASSUME NEW s \in Summaries, <<ref, s>> \in owed'
               PROVE  /\ pc = "requests" => Ahead(s, round)'
                      /\ pc = "get" => s \in visit \/ Ahead(s, round + 1)'
                      /\ pc = "update" => s \in visit \/ s = target \/ Ahead(s, round + 1)'
    BY DEF OwedIsAhead
  <2>1. Ahead(s, round) => Ahead(s, round)'
    BY <1>3, <1>4 DEF Ahead
  <2>2. Ahead(s, round + 1) => Ahead(s, round + 1)'
    BY <1>3, <1>4 DEF Ahead
  <2> QED  BY <2>1, <2>2 DEF ReportInv, OwedIsAhead
<1> QED  BY <1>1, <1>2, <1>5 DEF ReportInv

(* An evaluator step that neither adds to what is owed nor touches the registry
   keeps OwedIsAsked; outside the rounds that is all there is to show. *)
LEMMA OutsideTheRounds ==
  ASSUME TypeInv, ReportInv, UNCHANGED <<requestors, summary, owed>>,
         pc' \in {"idle", "pick", "fetch", "patches", "store"}, round' = 1
  PROVE  ReportInv'
  BY DEF ReportInv, OwedIsAsked, FirstRound, OwedIsAhead

(* The evaluator keeps the invariant. *)
LEMMA EvaluatorReports ==
  ASSUME TypeInv, ReportInv, Evaluator PROVE ReportInv'
<1> USE DEF Evaluated, EvaluationFailed, NoVerdict, NoReport
<1>0. round \in 1..4 /\ pc \in PCs /\ owed \subseteq Refs \X Summaries
  BY DEF TypeInv, TypeOK, EvaluationTypeOK
<1>1. CASE /\ \/ TakeQueue \/ RequeueFailed \/ CompareHash \/ FetchNotFound \/ FetchFound
              \/ \E r \in Refs : ReadHash(r)
           /\ UNCHANGED owed
  <2>1. pc \in {"idle", "pick", "fetch", "patches"}
    BY <1>1 DEF TakeQueue, RequeueFailed, CompareHash, FetchNotFound, FetchFound, ReadHash
  <2>2. round = 1
    BY <2>1 DEF ReportInv, FirstRound
  <2>3. /\ pc' \in {"idle", "pick", "fetch", "patches", "store"} /\ round' = 1
        /\ UNCHANGED <<requestors, summary>>
    BY <1>1, <2>2 DEF TakeQueue, RequeueFailed, CompareHash, FetchNotFound, FetchFound, ReadHash
  <2> QED  BY <1>1, <2>3, OutsideTheRounds
<1>2. CASE (UpdateConflicts \/ EvaluationFault) /\ UNCHANGED historyVars
  BY <1>2, OutsideTheRounds
  DEF UpdateConflicts, EvaluationFault, FetchFails, PatchesFail, GetSummaryFails, UpdateFails
<1>3. CASE updateResourceHash /\ DriftIsOwed
  <2>1. /\ pc' = "requests" /\ round' = 1
        /\ UNCHANGED <<requestors, summary, ref>> /\ ref \in Refs
    BY <1>3 DEF updateResourceHash, ReportInv, FirstRound, TypeInv, EvaluatorShape
  <2>2. OwedIsAsked'
    BY <1>3, <2>1 DEF ReportInv, OwedIsAsked, DriftIsOwed, getResourceSummaries
  <2>3. ASSUME NEW s \in Summaries, <<ref, s>> \in owed'
        PROVE  \E i \in 1..3 : i >= 1 /\ s \in requestors'[resourceTypes[i]][ref]
    <3>1. PICK t \in Types : s \in requestors'[t][ref]
      BY <2>1, <2>2, <2>3 DEF OwedIsAsked
    <3> QED  BY <3>1, EveryTypeHasARound
  <2>4. OwedIsAhead'
    BY <2>1, <2>3 DEF OwedIsAhead, Ahead
  <2> QED  BY <2>1, <2>2, <2>4 DEF ReportInv, FirstRound
<1>4. CASE StartRound /\ UNCHANGED historyVars
  <2>0. UNCHANGED <<requestors, summary, owed>> /\ pc = "requests"
    BY <1>4 DEF StartRound
  <2>1. CASE round > 3
    BY <1>4, <2>0, <2>1, OutsideTheRounds, EveryTypeHasARound DEF StartRound
  <2>2. CASE ~(round > 3)
    <3>1. UNCHANGED ref /\ OwedIsAsked'
      BY <1>4, <2>0, <2>2, EveryTypeHasARound DEF StartRound, ReportInv, OwedIsAsked
    <3>2. CASE requestors[resourceTypes[round]][ref] = {}
      <4>1. pc' = "requests" /\ round' = round + 1
        BY <1>4, <2>0, <2>2, <3>2, EveryTypeHasARound DEF StartRound
      <4>2. \A s \in Summaries : <<ref, s>> \in owed => Ahead(s, round)
        BY <2>0 DEF ReportInv, OwedIsAhead
      <4>3. ASSUME NEW s, Ahead(s, round) PROVE Ahead(s, round)'
        BY <1>0, <2>0, <3>1, <3>2, <4>1, <4>3 DEF Ahead
      <4>4. OwedIsAhead'
        BY <2>0, <3>1, <4>1, <4>2, <4>3 DEF OwedIsAhead
      <4> QED  BY <3>1, <4>1, <4>4 DEF ReportInv, FirstRound
    <3>3. CASE requestors[resourceTypes[round]][ref] # {}
      <4>1. /\ pc' = "get" /\ round' = round
            /\ visit' = requested \cup requestors[resourceTypes[round]][ref]
        BY <1>4, <2>0, <2>2, <3>3, EveryTypeHasARound DEF StartRound
      <4>2. \A s \in Summaries : <<ref, s>> \in owed => Ahead(s, round)
        BY <2>0 DEF ReportInv, OwedIsAhead
      <4>3. ASSUME NEW s, Ahead(s, round) PROVE s \in visit' \/ Ahead(s, round + 1)'
        BY <1>0, <2>0, <3>1, <4>1, <4>3 DEF Ahead
      <4>4. OwedIsAhead'
        BY <2>0, <3>1, <4>1, <4>2, <4>3 DEF OwedIsAhead
      <4> QED  BY <3>1, <4>1, <4>4 DEF ReportInv, FirstRound
    <3> QED  BY <3>2, <3>3
  <2> QED  BY <2>1, <2>2
<1>5. CASE EndRound /\ UNCHANGED historyVars
  <2>1. /\ UNCHANGED <<requestors, summary, owed, ref>> /\ pc = "get" /\ visit = {}
        /\ pc' = "requests" /\ round' = round + 1
    BY <1>5 DEF EndRound
  <2>2. \A s : Ahead(s, round + 1) => Ahead(s, round)'
    BY <2>1 DEF Ahead
  <2> QED  BY <2>1, <2>2 DEF ReportInv, OwedIsAsked, FirstRound, OwedIsAhead
<1>6. ASSUME NEW x \in Summaries, GetSummary(x), UNCHANGED historyVars PROVE ReportInv'
  <2>1. /\ UNCHANGED <<requestors, summary, owed, ref, round>> /\ pc = "get"
        /\ visit' = visit \ {x}
        /\ \/ summary[x] = Gone /\ pc' = "get"
           \/ pc' = "update" /\ target' = x
    BY <1>6 DEF GetSummary
  <2>2. \A s : Ahead(s, round + 1) => Ahead(s, round + 1)'
    BY <2>1 DEF Ahead
  <2>3. summary[x] = Gone => <<ref, x>> \notin owed
    BY <1>0 DEF ReportInv, OwedIsAsked
  <2>4. OwedIsAhead'
    BY <2>1, <2>2, <2>3 DEF ReportInv, OwedIsAhead
  <2> QED  BY <2>1, <2>4 DEF ReportInv, OwedIsAsked, FirstRound
<1>7. CASE UpdateSummary /\ owed' = owed \ {<<ref, target>>}
  <2>1. /\ UNCHANGED <<requestors, ref, round, visit>> /\ pc = "update" /\ pc' = "get"
        /\ target \in current
        /\ summary' = [summary EXCEPT
                         ![target] = Marked(@, resourceTypes[round], ref, newHash)]
    BY <1>7 DEF UpdateSummary
  <2>2. \A s : Ahead(s, round + 1) => Ahead(s, round + 1)'
    BY <2>1 DEF Ahead
  <2>3. \A s \in Summaries : summary[s] # Gone => summary'[s] # Gone
    <3>1. /\ resourceTypes[round] \in Types /\ summary[target] \in SummaryObjects
          /\ ref \in Refs /\ newHash \in Bytes /\ target \in Summaries
          /\ summary \in [Summaries -> SummaryObjects \cup {Gone}]
      BY <2>1, EveryTypeHasARound
      DEF TypeInv, TypeOK, EvaluatorShape, HeldExists, EvaluationTypeOK
    <3>2. Marked(summary[target], resourceTypes[round], ref, newHash) # Gone
      BY <3>1, MarkedIsSummary, SentinelsAssumption
    <3> QED  BY <2>1, <3>1, <3>2
  <2>4. OwedIsAsked'
    BY <1>7, <2>1, <2>3 DEF ReportInv, OwedIsAsked
  <2>5. OwedIsAhead'
    BY <1>7, <2>1, <2>2 DEF ReportInv, OwedIsAhead
  <2> QED  BY <2>1, <2>4, <2>5 DEF ReportInv, FirstRound
<1> QED
  BY <1>1, <1>2, <1>3, <1>4, <1>5, <1>6, <1>7 DEF Evaluator, EvaluationStep

(* Closing a scope writes the hashes of a ResourceSummary, and nothing else. *)
LEMMA CloseKeepsSummaries ==
  ASSUME TypeInv, NEW s \in Summaries, Close(s)
  PROVE  /\ \A x \in Summaries : summary[x] = Gone <=> summary'[x] = Gone
         /\ \A x \in Summaries : summary[x] # Gone => summary'[x].changed = summary[x].changed
<1>1. summary[s] \in SummaryObjects /\ summary \in [Summaries -> SummaryObjects \cup {Gone}]
  BY DEF Close, TypeInv, TypeOK
<1>2. SavedHashes(s) \in [Types -> [Refs -> Bytes \cup {Absent}]]
  BY <1>1 DEF SavedHashes, TypeInv, TypeOK, SummaryObjects
<1>3. ASSUME NEW y, y = [summary[s] EXCEPT !.hashes = SavedHashes(s)]
      PROVE  y # Gone /\ y.changed = summary[s].changed
  <2>1. y \in SummaryObjects /\ y.changed = summary[s].changed
    BY <1>1, <1>2, <1>3 DEF SummaryObjects
  <2> QED  BY <2>1, SentinelsAssumption
<1>4. \/ summary' = [summary EXCEPT ![s] = [summary[s] EXCEPT !.hashes = SavedHashes(s)]]
      \/ summary' = summary
  BY DEF Close
<1> QED  BY <1>1, <1>3, <1>4, SentinelsAssumption

(* The reconciler keeps it: a registration only adds to who asks, and an
   unregistration settles what was owed to the one that goes. *)
LEMMA ReconcilerReports ==
  ASSUME TypeInv, ReportInv, Reconciler PROVE ReportInv'
<1>0. RegistryTypeOK /\ owed \subseteq Refs \X Summaries
  BY DEF TypeInv, TypeOK
<1>1. ASSUME NEW c \in Claims, NEW out \in Outcomes, registerResources(c, out)
      PROVE  ReportInv'
  <2> PICK t \in Types, r \in Refs, s \in Summaries : c = <<t, r, s>>
    BY ClaimsAssumption
  <2>1. trackResource(r, t, s) /\ UNCHANGED <<summary, owed, evalVars>>
    BY <1>1 DEF registerResources, RegisterResource, RegisterMaps
  <2>2. \A u \in Types, q \in Refs, x \in Summaries :
          x \in requestors[u][q] => x \in requestors'[u][q]
    BY <1>0, <2>1, RegisterAdds
  <2> QED  BY <2>1, <2>2, OthersKeepReport DEF ReportInv, OwedIsAsked
<1>2. ASSUME NEW c \in Claims, unregisterResources(c) PROVE ReportInv'
  <2> PICK t \in Types, r \in Refs, s \in Summaries : c = <<t, r, s>>
    BY ClaimsAssumption
  <2>1. /\ UnRegisterResource(r, t, s) /\ UNCHANGED <<summary, evalVars>>
        /\ owed' = owed \ {<<r, s>>}
    BY <1>2 DEF unregisterResources
  <2>2. \A u \in Types, q \in Refs, x \in Summaries :
          <<q, x>> \in owed' => (x \in requestors[u][q] => x \in requestors'[u][q])
    BY <1>0, <2>1, UnregisterRemoves
  <2> QED  BY <2>1, <2>2, OthersKeepReport DEF ReportInv, OwedIsAsked
<1>3. ASSUME NEW s \in Summaries, Close(s) PROVE ReportInv'
  <2>1. UNCHANGED <<requestors, owed, evalVars>>
    BY <1>3 DEF Close
  <2>2. \A x \in Summaries : summary[x] # Gone => summary'[x] # Gone
    BY <1>3, CloseKeepsSummaries
  <2> QED  BY <2>1, <2>2, OthersKeepReport DEF ReportInv, OwedIsAsked
<1> QED  BY <1>1, <1>2, <1>3 DEF Reconciler

(* So do Sveltos, the cluster, a start and a crash. *)
LEMMA RestReports ==
  ASSUME TypeInv, ReportInv, Informers \/ Sveltos \/ Cluster \/ Startup \/ Crash
  PROVE  ReportInv'
<1>0. /\ RegistryTypeOK /\ owed \subseteq Refs \X Summaries
      /\ summary \in [Summaries -> SummaryObjects \cup {Gone}]
  BY DEF TypeInv, TypeOK
<1>1. ASSUME UNCHANGED <<requestors, owed, evalVars>>,
             \A x \in Summaries : summary[x] # Gone => summary'[x] # Gone
      PROVE  ReportInv'
  BY <1>1, OthersKeepReport DEF ReportInv, OwedIsAsked
<1>2. CASE Informers
  BY <1>1, <1>2
  DEF Informers, Listing, Delivery, Reaction, InformerFrame, InformerList, InformerAdd,
      InformerTombstone, InformerNotify, react
<1>3. ASSUME NEW s \in Summaries, ClearFlags(s) PROVE ReportInv'
  <2>1. UNCHANGED <<requestors, owed, evalVars>> /\ summary[s] \in SummaryObjects
    BY <1>0, <1>3 DEF ClearFlags
  <2>2. ASSUME NEW y, y = [summary[s] EXCEPT !.changed = {}] PROVE y # Gone
    <3>1. y \in SummaryObjects
      BY <2>1, <2>2 DEF SummaryObjects
    <3> QED  BY <3>1, SentinelsAssumption
  <2>3. summary' = [summary EXCEPT ![s] = [summary[s] EXCEPT !.changed = {}]]
    BY <1>3 DEF ClearFlags
  <2>4. \A x \in Summaries : summary[x] # Gone => summary'[x] # Gone
    BY <1>0, <2>2, <2>3
  <2> QED  BY <1>1, <2>1, <2>4
<1>4. ASSUME NEW s \in Summaries, CreateSummary(s) PROVE ReportInv'
  <2>1. \A x \in Summaries : summary[x] # Gone => summary'[x] # Gone
    BY <1>0, <1>4 DEF CreateSummary
  <2> QED  BY <1>1, <1>4, <2>1 DEF CreateSummary
<1>5. ASSUME NEW s \in Summaries, RemoveSummary(s) PROVE ReportInv'
  <2>1. /\ UNCHANGED <<requestors, evalVars>> /\ owed' = {o \in owed : o[2] # s}
        /\ summary' = [summary EXCEPT ![s] = Gone]
    BY <1>5 DEF RemoveSummary
  <2>2. \A r \in Refs, x \in Summaries : <<r, x>> \in owed' => <<r, x>> \in owed /\ x # s
    BY <2>1
  <2> QED  BY <1>0, <2>1, <2>2, OthersKeepReport DEF ReportInv, OwedIsAsked
<1>6. CASE Cluster
  BY <1>1, <1>6 DEF Cluster, ChangeObject, TouchObject
<1>7. CASE StartManager \/ FinishReading
  BY <1>1, <1>7 DEF StartManager, FinishReading
<1>8. ASSUME NEW out \in Outcomes, processResourceHashes(out) PROVE ReportInv'
  <2>1. Head(todo) \in Entries
    BY <1>8 DEF processResourceHashes, TypeInv, TypeOK
  <2> PICK r \in Refs, t \in Types, s \in Summaries :
        r = Head(todo).resource /\ t = ReadAs[Head(todo).type] /\ s = Head(todo).summary
    BY <2>1 DEF Entries, ReadAs, Types
  <2>2. trackResource(r, t, s) /\ UNCHANGED <<summary, owed, evalVars>>
    BY <1>8 DEF processResourceHashes, RegisterMaps
  <2>3. \A u \in Types, q \in Refs, x \in Summaries :
          x \in requestors[u][q] => x \in requestors'[u][q]
    BY <1>0, <2>2, RegisterAdds
  <2> QED  BY <2>2, <2>3, OthersKeepReport DEF ReportInv, OwedIsAsked
<1>9. CASE Crash \/ ReadingFails
  <2>1. owed' = {} /\ pc' = "idle" /\ round' = 1
    BY <1>9 DEF Crash, ReadingFails, ProcessReset, EvaluatorReset, NoReport
  <2> QED  BY <2>1 DEF ReportInv, OwedIsAsked, FirstRound, OwedIsAhead
<1> QED
  BY <1>2, <1>3, <1>4, <1>5, <1>6, <1>7, <1>8, <1>9 DEF Sveltos, Startup

(***************************************************************************)
(* The report of a drift is complete.  requestReconciliations reads the    *)
(* requestors of one type per round, without holding the lock from one     *)
(* round to the next; whatever is registered, unregistered, written or     *)
(* deleted between its rounds, an evaluation that ends without an error    *)
(* leaves nobody untold.                                                   *)
(***************************************************************************)
THEOREM ReportsAreComplete == Spec => ReportIsComplete
<1>1. Init => TypeInv /\ ReportInv
  <2>1. Init => ReportInv
    BY DEF Init, EvaluatorStarts, ReportInv, OwedIsAsked, FirstRound, OwedIsAhead
  <2> QED  BY <2>1, TypeInit
<1>2. TypeInv /\ ReportInv /\ [Next]_vars => (TypeInv /\ ReportInv)'
  <2>1. ASSUME TypeInv, ReportInv, UNCHANGED vars PROVE ReportInv'
    BY <2>1, OthersKeepReport DEF ReportInv, OwedIsAsked
  <2> QED  BY <2>1, TypeStep, EvaluatorReports, ReconcilerReports, RestReports DEF Next
<1>3. TypeInv /\ ReportInv /\ pc = "requests" /\ round > Len(resourceTypes)
        => \A s \in Summaries : <<ref, s>> \notin owed
  <2> SUFFICES ASSUME TypeInv, ReportInv, pc = "requests", round > 3, NEW s \in Summaries,
                      <<ref, s>> \in owed
               PROVE  FALSE
    BY EveryTypeHasARound
  <2>1. round \in 1..4
    BY DEF TypeInv, TypeOK, EvaluationTypeOK
  <2> QED  BY <2>1 DEF ReportInv, OwedIsAhead, Ahead
<1>4. TypeInv /\ ReportInv
        => (pc = "requests" /\ round > Len(resourceTypes) /\ pc' = "pick"
              => \A s \in Summaries : <<ref, s>> \notin owed)
  BY <1>3
<1> QED  BY <1>1, <1>2, <1>4, PTL DEF Spec, ReportIsComplete

-----------------------------------------------------------------------------
(***************************************************************************)
(* No false drift.  A registration takes the baseline under the patches of *)
(* one ResourceSummary, an evaluation compares under those of all that     *)
(* exist.  The two agree on an object nobody changed when the patches      *)
(* leave what the hash covers alone, as having no patches does; with other *)
(* patches they need not, and the theorem does not hold.                   *)
(***************************************************************************)
NeutralPatches ==
  \A c \in Contents, S \in SUBSET Summaries :
    unstructuredHash(c, UNION {PatchesOf[s] : s \in S}) = unstructuredHash(c, {})

Undisturbed == changes = 0 /\ restarts = 0

IsBaseline(h, r) == cluster[r] # Gone /\ h = unstructuredHash(cluster[r], {})

(* Every baseline is the hash of the object. *)
QuietBaselines == \A r \in Refs : resourceHashes[r] # Absent => IsBaseline(resourceHashes[r], r)

(* No evaluation gets as far as storing a hash. *)
QuietEvaluator ==
  /\ pc \in {"idle", "pick", "fetch", "patches"}
  /\ pc \in {"fetch", "patches"} => IsBaseline(hash, ref)
  /\ pc = "patches" => object = cluster[ref]

(* Before the first start is over nothing is saved and nothing is read back. *)
QuietStart ==
  /\ todo = <<>>
  /\ mode # "running" =>
       /\ dirty = {} /\ registering = {}
       /\ \A s \in Summaries : summary[s] # Gone =>
            \A t \in Types, r \in Refs : summary[s].hashes[t][r] = Absent

QuietFlags == \A s \in Summaries : summary[s] # Gone => summary[s].changed = {}

QuietParts == QuietBaselines /\ QuietEvaluator /\ QuietStart /\ QuietFlags

QuietInv == Undisturbed => QuietParts

(* While nothing was changed or restarted, no evaluation finds a drift. *)
LEMMA EvaluatorIsQuiet ==
  ASSUME NeutralPatches, TypeInv, QuietParts, Evaluator PROVE QuietParts'
<1> USE DEF QuietParts
<1>1. UNCHANGED othersVars /\ mode = "running"
  BY DEF Evaluator
<1>2. UNCHANGED <<resourceHashes, summary>> => (QuietBaselines /\ QuietStart /\ QuietFlags)'
  BY <1>1 DEF QuietBaselines, IsBaseline, QuietStart, QuietFlags
<1>3. pc \in {"idle", "pick", "fetch", "patches"}
  BY DEF QuietEvaluator
<1>4. CASE TakeQueue \/ RequeueFailed
  BY <1>2, <1>4 DEF TakeQueue, RequeueFailed, QuietEvaluator
<1>5. ASSUME NEW r \in Refs, ReadHash(r) PROVE QuietParts'
  <2>1. UNCHANGED <<resourceHashes, summary>> /\ pc = "pick"
    BY <1>5 DEF ReadHash
  <2>2. CASE resourceHashes[r] = Absent
    BY <1>2, <1>5, <2>1, <2>2 DEF ReadHash, QuietEvaluator
  <2>3. CASE resourceHashes[r] # Absent
    BY <1>1, <1>2, <1>5, <2>1, <2>3 DEF ReadHash, QuietEvaluator, QuietBaselines, IsBaseline
  <2> QED  BY <2>2, <2>3
<1>6. CASE FetchNotFound
  BY <1>6 DEF FetchNotFound, QuietEvaluator, IsBaseline
<1>7. CASE FetchFound
  BY <1>1, <1>2, <1>7 DEF FetchFound, QuietEvaluator, IsBaseline
<1>8. CASE CompareHash
  <2>1. /\ pc = "patches" /\ ref \in Refs /\ RegistryTypeOK
        /\ object = cluster[ref] /\ object \in Contents
        /\ hash = unstructuredHash(object, {})
    BY <1>8 DEF CompareHash, QuietEvaluator, IsBaseline, TypeInv, TypeOK, EvaluatorShape
  <2>2. getResourceSummaries(ref) \subseteq Summaries
    BY <2>1 DEF getResourceSummaries, RegistryTypeOK
  <2>3. CurrentHash = unstructuredHash(object, {})
    BY <2>1, <2>2 DEF CurrentHash, getPatches, NeutralPatches
  <2>4. Evaluated /\ UNCHANGED <<resourceHashes, summary>>
    BY <1>8, <2>1, <2>3 DEF CompareHash
  <2> QED  BY <1>2, <2>4 DEF Evaluated, QuietEvaluator
<1>9. CASE EvaluationFault
  BY <1>2, <1>3, <1>9
  DEF EvaluationFault, FetchFails, PatchesFail, GetSummaryFails, UpdateFails, EvaluationFailed,
      QuietEvaluator
<1>10. ~(\/ updateResourceHash \/ StartRound \/ EndRound \/ \E s \in Summaries : GetSummary(s)
         \/ UpdateSummary \/ UpdateConflicts)
  BY <1>3 DEF updateResourceHash, StartRound, EndRound, GetSummary, UpdateSummary,
              UpdateConflicts
<1> QED
  BY <1>4, <1>5, <1>6, <1>7, <1>8, <1>9, <1>10 DEF Evaluator, EvaluationStep

(* A registration takes the hash of the object for the baseline. *)
LEMMA ReconcilerIsQuiet ==
  ASSUME NeutralPatches, TypeInv, QuietParts, Reconciler PROVE QuietParts'
<1> USE DEF QuietParts
<1>0. RegistryTypeOK
  BY DEF TypeInv, TypeOK
<1>1. ASSUME NEW c \in Claims, NEW out \in Outcomes, registerResources(c, out)
      PROVE  QuietParts'
  <2> PICK t \in Types, r \in Refs, s \in Summaries : c = <<t, r, s>>
    BY ClaimsAssumption
  <2>1. /\ RegisterMaps(r, t, s, out) /\ mode = "running"
        /\ resourceHashes' = [resourceHashes EXCEPT ![r] = RegisteredHash(r, s, out)]
        /\ UNCHANGED <<cluster, summary, evalVars, processVars>>
    BY <1>1 DEF registerResources, RegisterResource
  <2>2. (QuietEvaluator /\ QuietStart /\ QuietFlags)'
    BY <2>1 DEF QuietEvaluator, IsBaseline, QuietStart, QuietFlags
  <2>3. CASE out \in {"watched", "startFailed"}
    <3>1. cluster[r] \in Contents
      BY <2>1, <2>3 DEF RegisterMaps, TypeInv, TypeOK
    <3>2. PICK S \in SUBSET Summaries : S = {s}
      OBVIOUS
    <3>3. UNION {PatchesOf[x] : x \in S} = PatchesOf[s]
      BY <3>2
    <3>4. unstructuredHash(cluster[r], UNION {PatchesOf[x] : x \in S})
            = unstructuredHash(cluster[r], {})
      BY <3>1 DEF NeutralPatches
    <3>5. RegisteredHash(r, s, out) = unstructuredHash(cluster[r], {})
      BY <2>3, <3>3, <3>4 DEF RegisteredHash
    <3>6. IsBaseline(RegisteredHash(r, s, out), r)
      BY <3>1, <3>5, SentinelsAssumption DEF IsBaseline
    <3>7. QuietBaselines'
      BY <1>0, <2>1, <3>6 DEF QuietBaselines, IsBaseline, RegistryTypeOK
    <3> QED  BY <2>2, <3>7
  <2>4. CASE out \notin {"watched", "startFailed"}
    <3>1. UNCHANGED resourceHashes
      BY <1>0, <2>1, <2>4 DEF RegisteredHash, RegistryTypeOK
    <3> QED  BY <2>1, <2>2, <3>1 DEF QuietBaselines, IsBaseline
  <2> QED  BY <2>3, <2>4
<1>2. ASSUME NEW c \in Claims, unregisterResources(c) PROVE QuietParts'
  <2> PICK t \in Types, r \in Refs, s \in Summaries : c = <<t, r, s>>
    BY ClaimsAssumption
  <2>1. /\ UnRegisterResource(r, t, s) /\ mode = "running"
        /\ UNCHANGED <<cluster, summary, evalVars, processVars>>
    BY <1>2 DEF unregisterResources
  <2>2. (QuietEvaluator /\ QuietStart /\ QuietFlags)'
    BY <2>1 DEF QuietEvaluator, IsBaseline, QuietStart, QuietFlags
  <2>3. \/ UNCHANGED resourceHashes
        \/ resourceHashes' = [resourceHashes EXCEPT ![r] = Absent]
    BY <2>1 DEF UnRegisterResource, stopTrackingResource
  <2>4. QuietBaselines'
    BY <1>0, <2>1, <2>3 DEF QuietBaselines, IsBaseline, RegistryTypeOK
  <2> QED  BY <2>2, <2>4
<1>3. ASSUME NEW s \in Summaries, Close(s) PROVE QuietParts'
  <2>1. /\ {c \in dirty : c[3] = s} \cup {c \in registering : c[3] = s} # {}
        /\ UNCHANGED <<cluster, resourceHashes, evalVars, processVars>>
    BY <1>3 DEF Close
  <2>2. mode = "running"
    BY <2>1 DEF QuietStart
  <2>3. QuietFlags'
    BY <1>3, CloseKeepsSummaries DEF QuietFlags
  <2> QED  BY <2>1, <2>2, <2>3 DEF QuietBaselines, QuietEvaluator, IsBaseline, QuietStart
<1> QED  BY <1>1, <1>2, <1>3 DEF Reconciler

(* Informers only queue, Sveltos and the cluster raise no flag, and there is
   nothing to read back at the first start. *)
LEMMA RestIsQuiet ==
  ASSUME TypeInv, QuietInv, Undisturbed', Informers \/ Sveltos \/ Cluster \/ Startup \/ Crash
  PROVE  QuietParts'
<1>0. /\ changes \in Nat /\ restarts \in Nat /\ RegistryTypeOK
      /\ summary \in [Summaries -> SummaryObjects \cup {Gone}]
  BY BoundsAssumption DEF TypeInv, TypeOK
<1>1. Undisturbed /\ UNCHANGED <<changes, restarts>>
  <2>1. \/ UNCHANGED <<changes, restarts>> \/ changes' = changes + 1 \/ restarts' = restarts + 1
    BY DEF Informers, Listing, Delivery, Reaction, InformerFrame, Sveltos, ClearFlags,
           CreateSummary, RemoveSummary, SveltosWrite, Cluster, ChangeObject, TouchObject,
           Startup, StartManager, processResourceHashes, FinishReading, ReadingFails, Crash
  <2> QED  BY <1>0, <2>1 DEF Undisturbed
<1>2. QuietParts
  BY <1>1 DEF QuietInv
<1> USE DEF QuietParts
<1>3. ASSUME UNCHANGED <<cluster, resourceHashes, evalVars>>
      PROVE  (QuietBaselines /\ QuietEvaluator)'
  BY <1>2, <1>3 DEF QuietBaselines, QuietEvaluator, IsBaseline
<1>4. CASE Informers
  <2>1. UNCHANGED <<cluster, resourceHashes, evalVars, summary, processVars, clientVars>>
    BY <1>4 DEF Informers, Listing, Delivery, Reaction, InformerFrame, InformerList,
                InformerAdd, InformerTombstone, InformerNotify, react
  <2> QED  BY <1>2, <1>3, <2>1 DEF QuietStart, QuietFlags
<1>5. ASSUME NEW s \in Summaries, ClearFlags(s) PROVE FALSE
  BY <1>2, <1>5 DEF ClearFlags, QuietFlags
<1>6. ASSUME NEW s \in Summaries, CreateSummary(s) PROVE QuietParts'
  <2>1. summary' = [summary EXCEPT ![s] = FreshSummary]
    BY <1>6 DEF CreateSummary
  <2>2. /\ FreshSummary.changed = {}
        /\ \A t \in Types, r \in Refs : FreshSummary.hashes[t][r] = Absent
    BY DEF FreshSummary
  <2>3. UNCHANGED <<cluster, resourceHashes, evalVars, processVars, clientVars>>
    BY <1>6 DEF CreateSummary
  <2>4. QuietStart' /\ QuietFlags'
    BY <1>0, <1>2, <2>1, <2>2, <2>3 DEF QuietStart, QuietFlags
  <2> QED  BY <1>3, <2>3, <2>4
<1>7. ASSUME NEW s \in Summaries, RemoveSummary(s) PROVE QuietParts'
  <2>1. /\ summary' = [summary EXCEPT ![s] = Gone] /\ dirty' \subseteq dirty
        /\ UNCHANGED <<cluster, resourceHashes, evalVars, processVars, registering>>
    BY <1>7 DEF RemoveSummary
  <2>2. QuietStart' /\ QuietFlags'
    BY <1>0, <1>2, <2>1 DEF QuietStart, QuietFlags
  <2> QED  BY <1>3, <2>1, <2>2
<1>8. CASE Cluster
  <2>1. UNCHANGED <<cluster, resourceHashes, evalVars, summary, processVars, clientVars>>
    BY <1>0, <1>1, <1>8 DEF Cluster, ChangeObject, TouchObject
  <2> QED  BY <1>2, <1>3, <2>1 DEF QuietStart, QuietFlags
<1>9. CASE StartManager
  <2>1. UNCHANGED <<cluster, resourceHashes, evalVars, summary, clientVars>> /\ mode # "running"
    BY <1>9 DEF StartManager
  <2>2. StoredEntries = {}
    BY <1>2, <2>1 DEF StoredEntries, QuietStart
  <2>3. Cardinality(StoredEntries) = 0
    BY <2>2, FS_EmptySet
  <2>4. PICK q \in ReadingOrders : todo' = [i \in DOMAIN q |-> StoredEntry(q[i])]
    BY <1>9 DEF StartManager
  <2>5. DOMAIN q = 1..0
    BY <2>3 DEF ReadingOrders
  <2>6. todo' \in Seq(Entries)
    BY <1>9, TypeRest DEF Startup, TypeInv, TypeOK
  <2>7. todo' = <<>>
    BY <2>4, <2>5, <2>6
  <2> QED  BY <1>2, <1>3, <2>1, <2>7 DEF QuietStart, QuietFlags
<1>10. CASE FinishReading
  BY <1>2, <1>3, <1>10 DEF FinishReading, QuietStart, QuietFlags
<1>11. ~(ReadingFails \/ \E out \in Outcomes : processResourceHashes(out))
  BY <1>2 DEF QuietStart, ReadingFails, processResourceHashes
<1>12. ~Crash
  BY <1>0, <1>1 DEF Crash
<1> QED
  BY <1>4, <1>5, <1>6, <1>7, <1>8, <1>9, <1>10, <1>11, <1>12 DEF Sveltos, Startup

(***************************************************************************)
(* No false drift.  As long as no object changed and the process did not   *)
(* restart, no ResourceSummary is asked to reconcile: through touches,     *)
(* lagging informers, failed calls, retries, and registrations from any    *)
(* number of ResourceSummaries, when their patches are neutral.            *)
(***************************************************************************)
THEOREM NoFalseDrift == NeutralPatches => (Spec => []QuietWithoutDrift)
<1> SUFFICES ASSUME NeutralPatches PROVE Spec => []QuietWithoutDrift
  OBVIOUS
<1>1. Init => TypeInv /\ QuietInv
  <2> SUFFICES ASSUME Init PROVE QuietParts
    BY TypeInit DEF QuietInv
  <2>1. QuietBaselines
    BY DEF Init, EmptyManager, QuietBaselines
  <2>2. QuietEvaluator
    BY DEF Init, EvaluatorStarts, QuietEvaluator
  <2>3. QuietStart /\ QuietFlags
    BY DEF Init, FreshSummary, QuietStart, QuietFlags
  <2> QED  BY <2>1, <2>2, <2>3 DEF QuietParts
<1>2. TypeInv /\ QuietInv /\ [Next]_vars => (TypeInv /\ QuietInv)'
  <2> SUFFICES ASSUME TypeInv, QuietInv, [Next]_vars, Undisturbed' PROVE QuietParts'
    BY TypeStep DEF QuietInv
  <2>1. CASE Evaluator \/ Reconciler
    <3>1. UNCHANGED <<changes, restarts>>
      BY <2>1 DEF Evaluator, Reconciler, registerResources, unregisterResources, Close
    <3> QED  BY <2>1, <3>1, EvaluatorIsQuiet, ReconcilerIsQuiet DEF QuietInv, Undisturbed
  <2>2. CASE UNCHANGED vars
    BY <2>2 DEF QuietInv, Undisturbed, QuietParts, QuietBaselines, QuietEvaluator, IsBaseline,
                QuietStart, QuietFlags
  <2> QED  BY <2>1, <2>2, RestIsQuiet DEF Next
<1>3. QuietInv => QuietWithoutDrift
  BY DEF QuietInv, Undisturbed, QuietParts, QuietFlags, QuietWithoutDrift
<1> QED  BY <1>1, <1>2, <1>3, PTL DEF Spec
=============================================================================
