-------------------------- MODULE ReconcilerProofs --------------------------
(***************************************************************************)
(* Proofs about Reconciler, for any number of resources, kinds, Specs,     *)
(* ResourceSummaries, workers and faults.                                  *)
(***************************************************************************)
EXTENDS Reconciler, ManagerProofs

-----------------------------------------------------------------------------
(***************************************************************************)
(* The inductive invariant behind the four invariants of Reconciler, one   *)
(* ResourceSummary at a time: no step of another ResourceSummary's worker  *)
(* touches what it speaks of.                                              *)
(***************************************************************************)
Live(x)  == x # Gone /\ ~x.deleting
Dying(x) == x # Gone /\ x.deleting

Abandoned(t, s) == {r \in Refs : <<t, r, s>> \in abandoned}

(* A worker registers for a copy that is not being deleted, with its finalizer
   added, and cleans for one that is, whose finalizer it then removes. *)
CopyFits(s) ==
  /\ step[s] \in {"update", "register", "unregister", "fail"} => Live(object[s])
  /\ step[s] \in {"delete", "clean"} => Dying(object[s])
  /\ Live(object[s]) => object[s].finalizer
  /\ step[s] = "close" /\ Dying(object[s]) => ~object[s].finalizer

(* The worker is done with the type. *)
Finished(t, s) ==
  \/ step[s] = "close"
  \/ /\ step[s] \in {"register", "unregister", "clean"}
     /\ \E i \in 1..3 : i < stage[s] /\ TypeOrder[i] = t

(* What is registered, against the maps and the Spec, as the worker goes on. *)
Progress(t, s) ==
  LET listed == currentObjRefs(object[s].spec, t)
      wanted == toRegister(object[s].spec, t)
      mine   == TypeOrder[stage[s]] = t
  IN  /\ ~InHand(t, s) => Registered(t, s) \subseteq maps[t][s] \cup Abandoned(t, s)
      /\ step[s] = "register" /\ mine =>
           /\ left[s] \subseteq wanted
           /\ wanted \ left[s] \subseteq Registered(t, s)
           /\ Registered(t, s) \subseteq maps[t][s] \cup Abandoned(t, s) \cup (wanted \ left[s])
      /\ step[s] = "unregister" /\ mine =>
           /\ left[s] \cap listed = {}
           /\ wanted \subseteq Registered(t, s)
           /\ Registered(t, s) \subseteq Abandoned(t, s) \cup listed \cup left[s]
      /\ step[s] = "clean" /\ mine => Registered(t, s) \subseteq Abandoned(t, s) \cup left[s]
      /\ Finished(t, s) /\ Live(object[s]) =>
           wanted \subseteq Registered(t, s) /\ maps[t][s] = listed
      /\ Finished(t, s) /\ Dying(object[s]) => maps[t][s] = {}

(* The ResourceSummary in the API server, the one in the cache and the copy of
   the worker, which may be of different ages and even of different objects of
   the same name: what is being deleted has its finalizer until a worker has
   cleaned up, and no worker that registers comes after it. *)
FinalizerHolds(s) ==
  /\ Dying(api[s]) => api[s].finalizer
  /\ Dying(cached[s]) /\ Live(object[s]) => Dying(api[s])
  /\ (Dying(cached[s]) \/ Dying(object[s])) /\ Live(api[s]) => ~api[s].finalizer
  /\ Dying(object[s]) /\ Live(cached[s]) => ~Dying(api[s])
  /\ api[s] = Gone /\ s \notin unguarded =>
       /\ ~Live(cached[s]) /\ ~Live(object[s])
       /\ \A t \in Types : Registered(t, s) \subseteq Abandoned(t, s)

(* Nothing is registered before there is a manager. *)
NothingBefore(s) == ~ready => \A t \in Types : Registered(t, s) = {}

SummaryInv(s) ==
  /\ CopyFits(s) /\ FinalizerHolds(s) /\ NothingBefore(s)
  /\ \A t \in Types : Progress(t, s)

ReconcilerInv == WorkerShape /\ \A s \in Summaries : SummaryInv(s)

-----------------------------------------------------------------------------
(***************************************************************************)
(* The operators Reconciler is built from.                                 *)
(***************************************************************************)
USE DEF registryVars, informerVars, managerVars, workerVars, sveltosVars, workFrame, vars

(* There are three types, in a fixed order. *)
LEMMA Order ==
  /\ Len(TypeOrder) = 3
  /\ \A i \in 1..3 : TypeOrder[i] \in Types
  /\ \A i, j \in 1..3 : TypeOrder[i] = TypeOrder[j] => i = j
  /\ \A t \in Types : \E i \in 1..3 : TypeOrder[i] = t
  BY DEF TypeOrder, Types

(* getResources, getKustomizeResources and getHelmResources return references,
   the ones to register among the ones listed. *)
LEMMA ListedAreRefs ==
  ASSUME NEW spec \in Specs, NEW t \in Types
  PROVE  toRegister(spec, t) \subseteq currentObjRefs(spec, t) /\ currentObjRefs(spec, t) \subseteq Refs
<1>1. \A r \in Refs : getChartResource(r) \in Refs
  BY ReconcilerAssumption DEF getChartResource
<1> QED  BY <1>1 DEF toRegister, currentObjRefs, Listed

(* Under Helm they have a namespace where their kind asks for one. *)
LEMMA ListedAreQualified ==
  ASSUME NEW spec \in Specs, NEW t \in Types, NEW r \in currentObjRefs(spec, t)
  PROVE  Qualified(t, r)
<1>1. ASSUME NEW q \in Refs PROVE ~(getChartResource(q) \in Unqualified /\ GVKOf[getChartResource(q)] \in Namespaced)
  BY ReconcilerAssumption DEF getChartResource
<1> QED  BY <1>1 DEF currentObjRefs, Listed, Qualified

(* Writing a field of a ResourceSummary leaves the others. *)
LEMMA FieldUpdates ==
  ASSUME NEW x \in ResourceSummaries
  PROVE  /\ x.spec \in Specs /\ x.deleting \in BOOLEAN /\ x.finalizer \in BOOLEAN
         /\ x.hashes \in [Types -> Hashes]
         /\ \A b \in BOOLEAN : LET y == [x EXCEPT !.finalizer = b] IN
              /\ y \in ResourceSummaries
              /\ y.spec = x.spec /\ y.deleting = x.deleting /\ y.finalizer = b
         /\ \A spec \in Specs : LET y == [x EXCEPT !.spec = spec] IN
              /\ y \in ResourceSummaries
              /\ y.deleting = x.deleting /\ y.finalizer = x.finalizer
         /\ LET y == [x EXCEPT !.deleting = TRUE] IN
              y \in ResourceSummaries /\ y.deleting = TRUE /\ y.finalizer = x.finalizer
         /\ \A t \in Types, h \in Hashes : LET y == [x EXCEPT !.hashes[t] = h] IN
              /\ y \in ResourceSummaries
              /\ y.spec = x.spec /\ y.deleting = x.deleting /\ y.finalizer = x.finalizer
         /\ \A b \in BOOLEAN, h \in [Types -> Hashes] :
              LET y == [x EXCEPT !.finalizer = b, !.hashes = h] IN
              /\ y \in ResourceSummaries
              /\ y.deleting = x.deleting /\ y.finalizer = b
  BY DEF ResourceSummaries

(* A new ResourceSummary is one, without a finalizer. *)
LEMMA NewIsSummary ==
  ASSUME NEW spec \in Specs
  PROVE  /\ NewSummary(spec) \in ResourceSummaries
         /\ NewSummary(spec).deleting = FALSE /\ NewSummary(spec).finalizer = FALSE
<1>1. NoHashes \in Hashes
  BY DEF NoHashes, Hashes
<1> QED  BY <1>1 DEF NewSummary, ResourceSummaries

-----------------------------------------------------------------------------
(***************************************************************************)
(* The shape of the workers, with the types.  It is inductive by itself.   *)
(***************************************************************************)
(* What a worker that is not idle holds, and has in hand. *)
LEMMA WorkerHolds ==
  ASSUME WorkerShape, NEW s \in Summaries, step[s] # "idle"
  PROVE  /\ object[s] \in ResourceSummaries /\ fetched[s] \in ResourceSummaries
         /\ object[s].spec \in Specs
         /\ stage[s] \in 1..3 /\ TypeOrder[stage[s]] \in Types
<1>1. object[s] \in ResourceSummaries /\ fetched[s] \in ResourceSummaries
  BY DEF WorkerShape, TypeOK
<1>2. stage[s] \in 1..3
  BY Order DEF WorkerShape, TypeOK
<1> QED  BY <1>1, <1>2, Order, FieldUpdates

(* Init establishes the shape. *)
LEMMA ShapeInit == Init => WorkerShape
<1> SUFFICES ASSUME Init PROVE WorkerShape
  OBVIOUS
<1>1. RegistryTypeOK
  <2>1. requestors \in [Types -> [Refs -> SUBSET Summaries]]
    BY DEF Init, EmptyManager
  <2>2. gvkResources \in [GVKs -> (SUBSET Refs) \cup {Absent}]
    BY DEF Init, EmptyManager
  <2>3. /\ resourceHashes \in [Refs -> Bytes \cup {Absent}]
        /\ view \in [Refs -> {"unlisted", "present", "missing"}]
    BY DEF Init, EmptyManager
  <2> QED  BY <2>1, <2>2, <2>3 DEF Init, EmptyManager, RegistryTypeOK
<1>2. api \in [Summaries -> ResourceSummaries \cup {Gone}]
  <2>1. {NewSummary(spec) : spec \in Specs} \subseteq ResourceSummaries
    BY NewIsSummary
  <2> QED  BY <2>1 DEF Init
<1>3. /\ maps \in [Types -> [Summaries -> SUBSET Refs]]
      /\ cached \in [Summaries -> ResourceSummaries \cup {Gone}]
      /\ fetched \in [Summaries -> ResourceSummaries \cup {Gone}]
      /\ object \in [Summaries -> ResourceSummaries \cup {Gone}]
  BY DEF Init
<1>4. step \in [Summaries -> Steps] /\ left \in [Summaries -> SUBSET Refs]
  BY DEF Init, Steps
<1>5. stage \in [Summaries -> 1..Len(TypeOrder)]
  BY Order DEF Init
<1>6. got \in [Summaries -> Hashes]
  BY DEF Init, Hashes, NoHashes
<1>7. ready \in BOOLEAN
  BY Zenon DEF Init
<1>8. faults \in 0..MaxFaults /\ edits \in 0..MaxEdits /\ changes \in 0..MaxChanges
  BY MaxFaultsAssumption, ReconcilerAssumption DEF Init
<1>9. TypeOK
  BY <1>1, <1>2, <1>3, <1>4, <1>5, <1>6, <1>7, <1>8 DEF Init, TypeOK
<1>10. \A s \in Summaries : /\ step[s] = "idle" /\ object[s] = Gone /\ fetched[s] = Gone
                            /\ mux # s
  BY SentinelsAssumption DEF Init
<1> QED  BY <1>9, <1>10 DEF WorkerShape

(* Leaving Mux keeps the types of what a worker has in hand. *)
LEMMA LeaveKeepsTypes ==
  ASSUME TypeOK, NEW s \in Summaries, NEW next \in Steps, Leave(s, next)
  PROVE  /\ step' \in [Summaries -> Steps] /\ mux' = Absent
         /\ stage' \in [Summaries -> 1..Len(TypeOrder)]
         /\ left' \in [Summaries -> SUBSET Refs] /\ got' \in [Summaries -> Hashes]
<1>1. stage' \in [Summaries -> 1..Len(TypeOrder)]
  BY Order DEF Leave, TypeOK
<1>2. got' \in [Summaries -> Hashes]
  BY DEF Leave, TypeOK, Hashes, NoHashes
<1> QED  BY <1>1, <1>2 DEF Leave, Enter, TypeOK

(* So does the begin of a type. *)
LEMMA BeginKeepsTypes ==
  ASSUME TypeOK, NEW s \in Summaries, NEW i \in 1..3, Begin(s, i),
         object[s] \in ResourceSummaries, maps' \in [Types -> [Summaries -> SUBSET Refs]]
  PROVE  /\ stage' \in [Summaries -> 1..Len(TypeOrder)]
         /\ left' \in [Summaries -> SUBSET Refs] /\ got' \in [Summaries -> Hashes]
<1>1. stage' \in [Summaries -> 1..Len(TypeOrder)]
  BY Order DEF Begin, TypeOK
<1>2. got' \in [Summaries -> Hashes]
  BY DEF Begin, TypeOK, Hashes, NoHashes
<1>3. TypeOrder[i] \in Types /\ object[s].spec \in Specs
  BY Order, FieldUpdates
<1>4. maps'[TypeOrder[i]][s] \subseteq Refs /\ toRegister(object[s].spec, TypeOrder[i]) \subseteq Refs
  BY <1>3, ListedAreRefs
<1>5. left' \in [Summaries -> SUBSET Refs]
  BY <1>4 DEF Begin, TypeOK
<1> QED  BY <1>1, <1>2, <1>5

(* Close writes the finalizer or leaves it, and the API server drops an object
   that is being deleted and has none. *)
LEMMA PatchedFields ==
  ASSUME WorkerShape, NEW s \in Summaries, step[s] # "idle", api[s] # Gone, NEW saved
  PROVE  LET f == IF "metadata" \in saved THEN object[s].finalizer ELSE api[s].finalizer IN
         \/ /\ Patched(s, saved) = Gone
            /\ api[s].deleting /\ ~f
         \/ /\ Patched(s, saved) \in ResourceSummaries
            /\ Patched(s, saved).deleting = api[s].deleting /\ Patched(s, saved).finalizer = f
            /\ ~(api[s].deleting /\ ~f)
<1> DEFINE f == IF "metadata" \in saved THEN object[s].finalizer ELSE api[s].finalizer
           h == IF "status" \in saved
                THEN [t \in Types |-> IF object[s].hashes[t] # fetched[s].hashes[t]
                                      THEN object[s].hashes[t] ELSE api[s].hashes[t]]
                ELSE api[s].hashes
           new == [api[s] EXCEPT !.finalizer = f, !.hashes = h]
<1>1. api[s] \in ResourceSummaries /\ object[s] \in ResourceSummaries
  BY WorkerHolds DEF WorkerShape, TypeOK
<1>2. /\ object[s].finalizer \in BOOLEAN /\ api[s].finalizer \in BOOLEAN
      /\ object[s].hashes \in [Types -> Hashes] /\ api[s].hashes \in [Types -> Hashes]
  BY <1>1, FieldUpdates
<1>3. f \in BOOLEAN
  BY <1>2
<1>4. h \in [Types -> Hashes]
  BY <1>2
<1>5. Patched(s, saved) = IF new.deleting /\ ~new.finalizer THEN Gone ELSE new
  BY DEF Patched
<1> HIDE DEF f, h
<1>6. new \in ResourceSummaries /\ new.deleting = api[s].deleting /\ new.finalizer = f
  BY <1>1, <1>3, <1>4 DEF ResourceSummaries
<1> HIDE DEF new
<1>7. CASE api[s].deleting /\ ~f
  BY <1>5, <1>6, <1>7 DEF f
<1>8. CASE ~(api[s].deleting /\ ~f)
  BY <1>5, <1>6, <1>8 DEF f
<1> QED  BY <1>7, <1>8

(* Reconcile and Close keep the shape. *)
LEMMA ShapeReconcileClose ==
  ASSUME WorkerShape, NEW s \in Summaries, Reconcile(s) \/ Close(s)
  PROVE  WorkerShape'
<1>1. CASE Reconcile(s)
  <2>1. CASE cached[s] = Gone
    BY <1>1, <2>1 DEF Reconcile, WorkerShape, TypeOK, RegistryTypeOK
  <2>2. CASE cached[s] # Gone
    <3> DEFINE copy == IF cached[s].deleting THEN cached[s] ELSE [cached[s] EXCEPT !.finalizer = TRUE]
    <3>1. cached[s] \in ResourceSummaries
      BY <2>2 DEF WorkerShape, TypeOK
    <3>2. copy \in ResourceSummaries /\ copy # Gone
      <4>1. [cached[s] EXCEPT !.finalizer = TRUE] \in ResourceSummaries
        BY <3>1, FieldUpdates
      <4> QED  BY <3>1, <4>1, SummariesAssumption
    <3>3. \E next \in {"delete", "update", "fail"} : step' = [step EXCEPT ![s] = next]
      BY <1>1, <2>2 DEF Reconcile, Enter
    <3>4. /\ object' = [object EXCEPT ![s] = copy] /\ fetched' = [fetched EXCEPT ![s] = cached[s]]
          /\ queued' = queued \ {s}
          /\ UNCHANGED <<cluster, managerVars, sveltosVars, cached, ready, maps, mux, changes,
                         evaluating, abandoned, stage, left, got>>
      BY <1>1, <2>2 DEF Reconcile
    <3>5. faults' \in 0..MaxFaults
      BY <1>1, <2>2, MaxFaultsAssumption DEF Reconcile, Fault, NoFault, WorkerShape, TypeOK
    <3>6. step[s] = "idle"
      BY <1>1 DEF Reconcile
    <3> HIDE DEF copy
    <3>7. /\ object' \in [Summaries -> ResourceSummaries \cup {Gone}]
          /\ fetched' \in [Summaries -> ResourceSummaries \cup {Gone}]
          /\ step' \in [Summaries -> Steps]
      BY <3>1, <3>2, <3>3, <3>4 DEF WorkerShape, TypeOK, Steps
    <3>8. TypeOK'
      BY <3>4, <3>5, <3>7 DEF WorkerShape, TypeOK, RegistryTypeOK
    <3>9. \A q \in Summaries :
            /\ step'[q] = "idle" <=> object'[q] = Gone
            /\ object'[q] = Gone <=> fetched'[q] = Gone
            /\ mux' = q <=> step'[q] \in {"register", "unregister", "clean"}
      BY <2>2, <3>2, <3>3, <3>4, <3>6 DEF WorkerShape, TypeOK
    <3> QED  BY <3>8, <3>9 DEF WorkerShape
  <2> QED  BY <2>1, <2>2
<1>2. CASE Close(s)
  <2>1. step[s] \in {"close", "fail"}
    BY <1>2 DEF Close
  <2>2. object[s] \in ResourceSummaries /\ fetched[s] \in ResourceSummaries
    BY <2>1, WorkerHolds
  <2>3. ASSUME NEW saved, api[s] # Gone PROVE Patched(s, saved) \in ResourceSummaries \cup {Gone}
    BY <2>1, <2>3, PatchedFields
  <2>4. api' \in [Summaries -> ResourceSummaries \cup {Gone}]
    BY <1>2, <2>3 DEF Close, WorkerShape, TypeOK
  <2>5. faults' \in 0..MaxFaults /\ queued' \subseteq Summaries
    BY <1>2, MaxFaultsAssumption DEF Close, Fault, NoFault, WorkerShape, TypeOK
  <2>6. /\ step' = [step EXCEPT ![s] = "idle"]
        /\ object' = [object EXCEPT ![s] = Gone] /\ fetched' = [fetched EXCEPT ![s] = Gone]
        /\ UNCHANGED <<cluster, managerVars, edits, unguarded, cached, ready, maps, mux, stage,
                       left, got, evaluating, changes, abandoned>>
    BY <1>2 DEF Close, Enter
  <2>7. TypeOK'
    BY <2>4, <2>5, <2>6 DEF WorkerShape, TypeOK, RegistryTypeOK, Steps
  <2>8. \A q \in Summaries :
          /\ step'[q] = "idle" <=> object'[q] = Gone
          /\ object'[q] = Gone <=> fetched'[q] = Gone
          /\ mux' = q <=> step'[q] \in {"register", "unregister", "clean"}
    BY <2>1, <2>6 DEF WorkerShape, TypeOK
  <2> QED  BY <2>7, <2>8 DEF WorkerShape
<1> QED  BY <1>1, <1>2

(* A worker that takes Mux, works under it or leaves it keeps the shape, given
   the types of what it writes: nobody else is under Mux. *)
LEMMA ShapeUnderMux ==
  ASSUME WorkerShape, NEW s \in Summaries, step[s] # "idle", MuxFrame,
         mux \in {s, Absent},
         RegistryTypeOK', faults' \in 0..MaxFaults,
         maps' \in [Types -> [Summaries -> SUBSET Refs]],
         NEW next \in Steps \ {"idle"}, step' = [step EXCEPT ![s] = next],
         mux' = IF next \in {"register", "unregister", "clean"} THEN s ELSE Absent,
         stage' \in [Summaries -> 1..Len(TypeOrder)],
         left' \in [Summaries -> SUBSET Refs], got' \in [Summaries -> Hashes],
         NEW x \in ResourceSummaries, object' = [object EXCEPT ![s] = x],
         abandoned' \subseteq Types \X Refs \X Summaries
  PROVE  WorkerShape'
<1>1. /\ object' \in [Summaries -> ResourceSummaries \cup {Gone}]
      /\ step' \in [Summaries -> Steps] /\ mux' \in Summaries \cup {Absent}
  BY DEF WorkerShape, TypeOK
<1>2. TypeOK'
  BY <1>1 DEF MuxFrame, WorkerShape, TypeOK
<1>3. x # Gone /\ object[s] # Gone /\ fetched[s] # Gone
  BY SummariesAssumption DEF WorkerShape
<1>4. \A q \in Summaries : q # s => step[q] \notin {"register", "unregister", "clean"}
  BY SentinelsAssumption DEF WorkerShape
<1>5. \A q \in Summaries :
        /\ step'[q] = "idle" <=> object'[q] = Gone
        /\ object'[q] = Gone <=> fetched'[q] = Gone
  BY <1>3 DEF MuxFrame, WorkerShape, TypeOK
<1>6. \A q \in Summaries : mux' = q <=> step'[q] \in {"register", "unregister", "clean"}
  BY <1>4, SentinelsAssumption DEF WorkerShape, TypeOK
<1> QED  BY <1>2, <1>5, <1>6 DEF WorkerShape

(* Each of its actions does. *)
LEMMA ShapeWork ==
  ASSUME WorkerShape, NEW s \in Summaries,
         \/ Lock(s) \/ NoManager(s) \/ Difference(s) \/ setMapValue(s) \/ removeMapEntry(s)
         \/ \E r \in Refs : \/ unregisterResources(s, r)
                            \/ \E out \in Outcomes : registerResources(s, r, out)
  PROVE  WorkerShape'
<1>0. step[s] # "idle"
  BY DEF Lock, NoManager, Difference, setMapValue, removeMapEntry, unregisterResources,
         registerResources
<1> DEFINE t == TypeOrder[stage[s]]
<1>1. /\ TypeOK /\ object[s] \in ResourceSummaries /\ object[s].spec \in Specs
      /\ stage[s] \in 1..3 /\ t \in Types
  BY <1>0, WorkerHolds DEF WorkerShape
<1>2. object = [object EXCEPT ![s] = object[s]] /\ step = [step EXCEPT ![s] = step[s]]
  BY DEF WorkerShape, TypeOK
<1>3. step[s] \in {"register", "unregister", "clean"} => mux = s
  BY DEF WorkerShape
<1> USE DEF Steps
<1>4. CASE Lock(s)
  <2>1. Begin(s, 1) /\ UNCHANGED <<maps, managerVars, faults, object, abandoned>> /\ MuxFrame
    BY <1>4 DEF Lock
  <2>2. PICK next \in {"register", "clean"} : step' = [step EXCEPT ![s] = next]
    BY <1>4 DEF Lock, Enter
  <2>3. /\ stage' \in [Summaries -> 1..Len(TypeOrder)]
        /\ left' \in [Summaries -> SUBSET Refs] /\ got' \in [Summaries -> Hashes]
    BY <1>1, <2>1, BeginKeepsTypes DEF TypeOK
  <2>4. /\ RegistryTypeOK' /\ faults' \in 0..MaxFaults
        /\ maps' \in [Types -> [Summaries -> SUBSET Refs]]
        /\ abandoned' \subseteq Types \X Refs \X Summaries
    BY <1>1, <2>1 DEF TypeOK, RegistryTypeOK
  <2>5. mux = Absent /\ mux' = s /\ object' = [object EXCEPT ![s] = object[s]]
    BY <1>2, <1>4 DEF Lock
  <2> QED  BY <1>0, <1>1, <2>1, <2>2, <2>3, <2>4, <2>5, ShapeUnderMux
<1>5. CASE NoManager(s)
  <2>1. Leave(s, "fail") /\ UNCHANGED <<maps, managerVars, faults, object, abandoned>> /\ MuxFrame
    BY <1>5 DEF NoManager
  <2>2. /\ stage' \in [Summaries -> 1..Len(TypeOrder)]
        /\ left' \in [Summaries -> SUBSET Refs] /\ got' \in [Summaries -> Hashes]
    BY <1>1, <2>1, LeaveKeepsTypes DEF TypeOK
  <2>3. /\ RegistryTypeOK' /\ faults' \in 0..MaxFaults
        /\ maps' \in [Types -> [Summaries -> SUBSET Refs]]
        /\ abandoned' \subseteq Types \X Refs \X Summaries
    BY <1>1, <2>1 DEF TypeOK, RegistryTypeOK
  <2>4. /\ mux = s /\ mux' = Absent /\ object' = [object EXCEPT ![s] = object[s]]
        /\ step' = [step EXCEPT ![s] = "fail"]
    BY <1>2, <1>3, <1>5, <2>1 DEF NoManager, Leave, Enter
  <2> QED  BY <1>0, <1>1, <2>1, <2>2, <2>3, <2>4, ShapeUnderMux
<1>6. CASE Difference(s)
  <2>1. maps[t][s] \subseteq Refs
    BY <1>1 DEF TypeOK
  <2>2. left' \in [Summaries -> SUBSET Refs]
    BY <1>6, <1>1, <2>1 DEF Difference, TypeOK
  <2> QED  BY <1>0, <1>1, <1>2, <1>3, <1>6, <2>2, ShapeUnderMux
           DEF Difference, Enter, TypeOK, RegistryTypeOK
<1>7. CASE setMapValue(s)
  <2> DEFINE now == currentObjRefs(object[s].spec, t)
             x == [object[s] EXCEPT !.hashes[t] = got[s]]
  <2>1. now \subseteq Refs
    BY <1>1, ListedAreRefs
  <2>2. x \in ResourceSummaries /\ object' = [object EXCEPT ![s] = x]
    BY <1>1, <1>7, FieldUpdates DEF setMapValue, TypeOK
  <2>3. /\ maps' = [maps EXCEPT ![t][s] = now]
        /\ abandoned' \subseteq abandoned /\ MuxFrame /\ UNCHANGED <<managerVars, faults>>
    BY <1>7 DEF setMapValue
  <2> HIDE DEF now, x
  <2>4. maps' \in [Types -> [Summaries -> SUBSET Refs]]
    BY <1>1, <2>1, <2>3 DEF TypeOK
  <2>5. /\ mux = s /\ RegistryTypeOK' /\ faults' \in 0..MaxFaults
        /\ abandoned' \subseteq Types \X Refs \X Summaries
    BY <1>1, <1>3, <1>7, <2>3 DEF setMapValue, TypeOK, RegistryTypeOK
  <2>6. CASE stage[s] < 3
    <3>1. mux' = mux /\ Enter(s, "register") /\ Begin(s, stage[s] + 1)
      BY <1>7, <2>6, Order DEF setMapValue
    <3>2. stage[s] + 1 \in 1..3
      BY <1>1, <2>6
    <3>3. /\ stage' \in [Summaries -> 1..Len(TypeOrder)]
          /\ left' \in [Summaries -> SUBSET Refs] /\ got' \in [Summaries -> Hashes]
      BY <1>1, <2>4, <3>1, <3>2, BeginKeepsTypes
    <3>4. step' = [step EXCEPT ![s] = "register"] /\ mux' = s
      BY <2>5, <3>1 DEF Enter
    <3> QED  BY <1>0, <2>2, <2>3, <2>4, <2>5, <3>3, <3>4, ShapeUnderMux
  <2>7. CASE ~(stage[s] < 3)
    <3>1. Leave(s, "close")
      BY <1>7, <2>7, Order DEF setMapValue
    <3>2. /\ stage' \in [Summaries -> 1..Len(TypeOrder)]
          /\ left' \in [Summaries -> SUBSET Refs] /\ got' \in [Summaries -> Hashes]
      BY <1>1, <3>1, LeaveKeepsTypes
    <3>3. step' = [step EXCEPT ![s] = "close"] /\ mux' = Absent
      BY <3>1 DEF Leave, Enter
    <3> QED  BY <1>0, <2>2, <2>3, <2>4, <2>5, <3>2, <3>3, ShapeUnderMux
  <2> QED  BY <2>6, <2>7
<1>8. CASE removeMapEntry(s)
  <2> DEFINE x == [object[s] EXCEPT !.finalizer = FALSE]
  <2>1. /\ maps' = [maps EXCEPT ![t][s] = {}]
        /\ MuxFrame /\ UNCHANGED <<managerVars, faults, abandoned>>
    BY <1>8 DEF removeMapEntry
  <2>2. maps' \in [Types -> [Summaries -> SUBSET Refs]]
    BY <1>1, <2>1 DEF TypeOK
  <2>3. x \in ResourceSummaries
    BY <1>1, FieldUpdates
  <2>4. /\ mux = s /\ RegistryTypeOK' /\ faults' \in 0..MaxFaults
        /\ abandoned' \subseteq Types \X Refs \X Summaries
    BY <1>1, <1>3, <1>8, <2>1 DEF removeMapEntry, TypeOK, RegistryTypeOK
  <2>5. CASE stage[s] < 3
    <3>1. UNCHANGED <<step, mux, object>> /\ Begin(s, stage[s] + 1)
      BY <1>8, <2>5, Order DEF removeMapEntry
    <3>2. stage[s] + 1 \in 1..3
      BY <1>1, <2>5
    <3>3. /\ stage' \in [Summaries -> 1..Len(TypeOrder)]
          /\ left' \in [Summaries -> SUBSET Refs] /\ got' \in [Summaries -> Hashes]
      BY <1>1, <2>2, <3>1, <3>2, BeginKeepsTypes
    <3>4. step' = [step EXCEPT ![s] = "clean"] /\ mux' = s /\ object' = [object EXCEPT ![s] = object[s]]
      BY <1>2, <1>8, <2>4, <3>1 DEF removeMapEntry
    <3> QED  BY <1>0, <1>1, <2>1, <2>2, <2>4, <3>3, <3>4, ShapeUnderMux
  <2>6. CASE ~(stage[s] < 3)
    <3>1. Leave(s, "close") /\ object' = [object EXCEPT ![s] = x]
      BY <1>8, <2>6, Order DEF removeMapEntry
    <3>2. /\ stage' \in [Summaries -> 1..Len(TypeOrder)]
          /\ left' \in [Summaries -> SUBSET Refs] /\ got' \in [Summaries -> Hashes]
      BY <1>1, <3>1, LeaveKeepsTypes
    <3>3. step' = [step EXCEPT ![s] = "close"] /\ mux' = Absent
      BY <3>1 DEF Leave, Enter
    <3> HIDE DEF x
    <3> QED  BY <1>0, <2>1, <2>2, <2>3, <2>4, <3>1, <3>2, <3>3, ShapeUnderMux
  <2> QED  BY <2>5, <2>6
<1>9. ASSUME NEW r \in Refs, unregisterResources(s, r) PROVE WorkerShape'
  <2>1. RegistryTypeOK' /\ faults' = faults
    BY <1>1, <1>9, UnregisterKeepsTypes DEF unregisterResources, TypeOK
  <2>2. left' \in [Summaries -> SUBSET Refs] /\ abandoned' \subseteq abandoned
    BY <1>9 DEF unregisterResources, WorkerShape, TypeOK
  <2> QED  BY <1>0, <1>1, <1>2, <1>3, <1>9, <2>1, <2>2, ShapeUnderMux
           DEF unregisterResources, TypeOK
<1>10. ASSUME NEW r \in Refs, NEW out \in Outcomes, registerResources(s, r, out)
       PROVE  WorkerShape'
  <2>1. RegisterResource(r, t, s, out) /\ RegisterMaps(r, t, s, out)
    BY <1>10 DEF registerResources, RegisterResource
  <2>2. RegistryTypeOK' /\ faults' \in 0..MaxFaults
    BY <1>1, <2>1, RegisterResourceKeepsTypes DEF TypeOK
  <2>3. step[s] = "register" /\ MuxFrame /\ UNCHANGED <<maps, object>>
    BY <1>10 DEF registerResources
  <2>4. CASE out \in Errors
    <3>1. Leave(s, "fail") /\ abandoned' \subseteq Types \X Refs \X Summaries
      BY <1>1, <1>10, <2>4 DEF registerResources, TypeOK
    <3> QED  BY <1>0, <1>1, <1>2, <1>3, <2>2, <2>3, <3>1, LeaveKeepsTypes, ShapeUnderMux
             DEF Leave, Enter, TypeOK
  <2>5. CASE out \notin Errors
    <3> DEFINE h == IF out = "notFound" THEN NoBytes ELSE RegisteredHash(r, s, out)
    <3>1. h \in Bytes
      BY <1>1, <2>1, <2>5, RegisteredIsBaseline DEF Outcomes, Errors, Bytes, TypeOK
    <3>2. Hex(h) \in Bytes
      BY <3>1, HexIsBytes
    <3>3. /\ left' = [left EXCEPT ![s] = @ \ {r}] /\ got' = [got EXCEPT ![s][r] = Hex(h)]
          /\ UNCHANGED <<step, mux, stage, abandoned>>
      BY <1>10, <2>5 DEF registerResources
    <3> HIDE DEF h
    <3>4. left' \in [Summaries -> SUBSET Refs] /\ got' \in [Summaries -> Hashes]
      BY <1>1, <3>2, <3>3 DEF TypeOK, Hashes
    <3> QED  BY <1>0, <1>1, <1>2, <1>3, <2>2, <2>3, <3>3, <3>4, ShapeUnderMux DEF TypeOK
  <2> QED  BY <2>4, <2>5
<1> QED  BY <1>4, <1>5, <1>6, <1>7, <1>8, <1>9, <1>10

(* The cache, the start of the manager, Sveltos and the cluster leave the
   workers alone. *)
LEMMA ShapeRest ==
  ASSUME WorkerShape,
         \/ \E s \in Summaries : CacheSync(s) \/ Resync(s)
         \/ InitializeManager \/ Sveltos \/ \E r \in Refs : ChangeObject(r)
  PROVE  WorkerShape'
<1>1. ASSUME UNCHANGED workFrame, UNCHANGED changes, UNCHANGED ready, UNCHANGED cluster,
             api' \in [Summaries -> ResourceSummaries \cup {Gone}],
             cached' \in [Summaries -> ResourceSummaries \cup {Gone}],
             queued' \subseteq Summaries, edits' \in 0..MaxEdits, unguarded' \subseteq Summaries
      PROVE  WorkerShape'
  BY <1>1 DEF WorkerShape, TypeOK, RegistryTypeOK
<1> USE DEF WorkerShape, TypeOK
<1>2. ASSUME NEW s \in Summaries, CacheSync(s) \/ Resync(s) PROVE WorkerShape'
  <2>1. /\ UNCHANGED <<cluster, sveltosVars, ready, workFrame, changes>>
        /\ queued' = queued \cup {s}
        /\ cached' = [cached EXCEPT ![s] = api[s]] \/ cached' = cached
    BY <1>2 DEF CacheSync, Resync
  <2>2. cached' \in [Summaries -> ResourceSummaries \cup {Gone}]
    BY <2>1
  <2> QED  BY <1>1, <2>1, <2>2
<1>3. CASE InitializeManager
  <2>1. ready' \in BOOLEAN
    BY <1>3, Zenon DEF InitializeManager
  <2> QED  BY <1>3, <2>1 DEF InitializeManager, RegistryTypeOK
<1>4. ASSUME Edit PROVE edits' \in 0..MaxEdits
  BY <1>4, ReconcilerAssumption DEF Edit
<1>5. ASSUME NEW s \in Summaries, CreateSummary(s) PROVE WorkerShape'
  <2>1. api' \in [Summaries -> ResourceSummaries \cup {Gone}]
    <3>1. PICK spec \in Specs : api' = [api EXCEPT ![s] = NewSummary(spec)]
      BY <1>5 DEF CreateSummary
    <3>2. NewSummary(spec) \in ResourceSummaries
      BY NewIsSummary
    <3> QED  BY <3>1, <3>2
  <2> QED  BY <1>1, <1>5, <2>1 DEF CreateSummary, SveltosFrame
<1>6. ASSUME NEW s \in Summaries, UpdateSummary(s) PROVE WorkerShape'
  <2>1. PICK spec \in Specs : api' = [api EXCEPT ![s] = [api[s] EXCEPT !.spec = spec]]
    BY <1>6 DEF UpdateSummary
  <2>2. [api[s] EXCEPT !.spec = spec] \in ResourceSummaries
    <3>1. api[s] \in ResourceSummaries
      BY <1>6 DEF UpdateSummary
    <3> QED  BY <3>1, FieldUpdates
  <2>3. api' \in [Summaries -> ResourceSummaries \cup {Gone}]
    BY <2>1, <2>2
  <2> QED  BY <1>1, <1>4, <1>6, <2>3 DEF UpdateSummary, SveltosFrame
<1>7. ASSUME NEW s \in Summaries, DeleteSummary(s) PROVE WorkerShape'
  <2>1. \/ api' = [api EXCEPT ![s] = [api[s] EXCEPT !.deleting = TRUE]]
        \/ api' = [api EXCEPT ![s] = Gone]
    BY <1>7 DEF DeleteSummary
  <2>2. [api[s] EXCEPT !.deleting = TRUE] \in ResourceSummaries
    <3>1. api[s] \in ResourceSummaries
      BY <1>7 DEF DeleteSummary
    <3> QED  BY <3>1, FieldUpdates
  <2>3. api' \in [Summaries -> ResourceSummaries \cup {Gone}]
    BY <2>1, <2>2
  <2>4. unguarded' \subseteq Summaries
    BY <1>7 DEF DeleteSummary
  <2> QED  BY <1>1, <1>4, <1>7, <2>3, <2>4 DEF DeleteSummary, SveltosFrame
<1>8. ASSUME NEW r \in Refs, ChangeObject(r) PROVE WorkerShape'
  <2>1. changes' \in 0..MaxChanges
    BY <1>8, ReconcilerAssumption DEF ChangeObject
  <2>2. cluster' \in [Refs -> Contents \cup {Gone}]
    BY <1>8 DEF ChangeObject
  <2> QED  BY <1>8, <2>1, <2>2 DEF ChangeObject, RegistryTypeOK
<1> QED  BY <1>2, <1>3, <1>5, <1>6, <1>7, <1>8 DEF Sveltos

(* The evaluator writes baselines only. *)
LEMMA ShapeEvaluator == ASSUME WorkerShape, Evaluator PROVE WorkerShape'
<1>1. ASSUME UNCHANGED evaluatorFrame, RegistryTypeOK', evaluating' \in Drifts \cup {Absent}
      PROVE  WorkerShape'
  BY <1>1 DEF evaluatorFrame, WorkerShape, TypeOK
<1>2. ASSUME NEW r \in Refs, evaluateResource(r) PROVE WorkerShape'
  <2>1. NoBytes \in Bytes
    BY DEF Bytes
  <2>2. cluster[r] = Gone \/ cluster[r] \in Contents
    BY DEF WorkerShape, TypeOK
  <2> DEFINE found == IF cluster[r] = Gone THEN {NoBytes}
                      ELSE {unstructuredHash(cluster[r], p) : p \in SUBSET Patches}
  <2>3. PICK h \in found : evaluating' = [resource |-> r, hash |-> h]
    BY <1>2 DEF evaluateResource
  <2>4. h \in Bytes
    BY <2>1, <2>2, HashIsBytes
  <2> HIDE DEF found
  <2>5. evaluating' \in Drifts
    BY <2>3, <2>4 DEF Drifts
  <2>6. RegistryTypeOK' /\ UNCHANGED evaluatorFrame
    BY <1>2 DEF evaluateResource, WorkerShape, TypeOK, RegistryTypeOK
  <2> QED  BY <1>1, <2>5, <2>6
<1>3. CASE updateResourceHash
  <2>1. evaluating.resource \in Refs /\ evaluating.hash \in Bytes
    BY <1>3 DEF updateResourceHash, WorkerShape, TypeOK, Drifts
  <2>2. RegistryTypeOK' /\ UNCHANGED evaluatorFrame /\ evaluating' = Absent
    BY <1>3, <2>1 DEF updateResourceHash, WorkerShape, TypeOK, RegistryTypeOK
  <2> QED  BY <1>1, <2>2
<1> QED  BY <1>2, <1>3 DEF Evaluator

(* Every step keeps the shape. *)
LEMMA ShapeStep == WorkerShape /\ [Next]_vars => WorkerShape'
<1>1. WorkerShape /\ UNCHANGED vars => WorkerShape'
  BY DEF WorkerShape, TypeOK, RegistryTypeOK
<1> QED  BY <1>1, ShapeReconcileClose, ShapeWork, ShapeRest, ShapeEvaluator DEF Next, Working

(***************************************************************************)
(* A worker has its copy from the Get to Close and holds Mux exactly while *)
(* it updates or cleans the maps, for any number of workers and whichever  *)
(* way a reconciliation returns; and every map, copy and status is what    *)
(* its Go type says.                                                       *)
(***************************************************************************)
THEOREM WorkersKeepShape == Spec => []WorkerShape
  BY ShapeInit, ShapeStep, PTL DEF Spec

-----------------------------------------------------------------------------
(***************************************************************************)
(* The steps of a worker are local to its ResourceSummary.                 *)
(***************************************************************************)
(* Nothing the invariant says of s has changed. *)
Same(s) ==
  /\ UNCHANGED <<api[s], cached[s], object[s], step[s], stage[s], left[s], ready>>
  /\ s \in unguarded' <=> s \in unguarded
  /\ \A t \in Types :
       /\ maps'[t][s] = maps[t][s]
       /\ Registered(t, s)' = Registered(t, s) /\ Abandoned(t, s)' = Abandoned(t, s)

(* Then the invariant goes on to hold of s. *)
LEMMA SameKeeps == ASSUME NEW s \in Summaries, SummaryInv(s), Same(s) PROVE SummaryInv(s)'
<1> USE DEF SummaryInv, Same
<1>1. CopyFits(s)'
  BY DEF CopyFits, Live, Dying
<1>2. FinalizerHolds(s)'
  BY DEF FinalizerHolds, Live, Dying
<1>3. NothingBefore(s)'
  BY DEF NothingBefore
<1>4. ASSUME NEW t \in Types PROVE Progress(t, s)'
  <2>1. Progress(t, s)
    OBVIOUS
  <2>2. InHand(t, s)' <=> InHand(t, s)
    BY DEF InHand
  <2>3. Finished(t, s)' <=> Finished(t, s)
    BY DEF Finished
  <2> QED  BY <2>1, <2>2, <2>3 DEF Progress, Live, Dying
<1> QED  BY <1>1, <1>2, <1>3, <1>4

(* Where the requestors change for s alone, so does what is registered. *)
LEMMA OthersRegistered ==
  ASSUME RegistryTypeOK, RegistryTypeOK', NEW s \in Summaries, NEW q \in Summaries, q # s,
         \A t \in Types, r \in Refs : q \in requestors'[t][r] <=> q \in requestors[t][r]
  PROVE  \A t \in Types : Registered(t, q)' = Registered(t, q)
  BY DEF Registered

(* A worker leaves other ResourceSummaries as they are. *)
LEMMA WorkIsLocal ==
  ASSUME WorkerShape, WorkerShape', NEW s \in Summaries, Working(s) \/ Lock(s),
         NEW q \in Summaries, q # s
  PROVE  Same(q)
<1>0. RegistryTypeOK /\ stage \in [Summaries -> 1..3] /\ RegistryTypeOK'
  BY Order DEF WorkerShape, TypeOK
<1>1. /\ UNCHANGED <<cached[q], ready>>
      /\ q \in unguarded' <=> q \in unguarded
  BY DEF Working, Lock, MuxFrame, Reconcile, NoManager, Difference, setMapValue,
         removeMapEntry, Close, unregisterResources, registerResources
<1>2. api'[q] = api[q]
  <2>1. CASE Close(s)
    BY <2>1 DEF Close, WorkerShape, TypeOK
  <2>2. CASE ~Close(s)
    <3>1. UNCHANGED api
      BY <2>2 DEF Working, Lock, MuxFrame, Reconcile, NoManager, Difference, setMapValue,
                  removeMapEntry, unregisterResources, registerResources
    <3> QED  BY <3>1
  <2> QED  BY <2>1, <2>2
<1>3. /\ step \in [Summaries -> Steps] /\ stage \in [Summaries -> 1..3]
      /\ left \in [Summaries -> SUBSET Refs]
      /\ object \in [Summaries -> ResourceSummaries \cup {Gone}]
  BY Order DEF WorkerShape, TypeOK
<1>4. UNCHANGED <<step[q], object[q], stage[q], left[q]>>
  <2>1. CASE Lock(s)
    BY <1>3, <2>1 DEF Lock, Enter, Begin
  <2>2. CASE Reconcile(s)
    BY <1>3, <2>2 DEF Reconcile, Enter
  <2>3. CASE NoManager(s)
    BY <1>3, <2>3 DEF NoManager, Leave, Enter
  <2>4. CASE Difference(s)
    BY <1>3, <2>4 DEF Difference, Enter
  <2>5. CASE setMapValue(s)
    BY <1>3, <2>5 DEF setMapValue, Begin, Leave, Enter
  <2>6. CASE removeMapEntry(s)
    BY <1>3, <2>6 DEF removeMapEntry, Begin, Leave, Enter
  <2>7. CASE Close(s)
    BY <1>3, <2>7 DEF Close, Enter
  <2>8. ASSUME NEW r \in Refs, unregisterResources(s, r)
        PROVE  UNCHANGED <<step[q], object[q], stage[q], left[q]>>
    BY <1>3, <2>8 DEF unregisterResources
  <2>9. ASSUME NEW r \in Refs, NEW out \in Outcomes, registerResources(s, r, out)
        PROVE  UNCHANGED <<step[q], object[q], stage[q], left[q]>>
    BY <1>3, <2>9 DEF registerResources, Leave, Enter
  <2> QED  BY <2>1, <2>2, <2>3, <2>4, <2>5, <2>6, <2>7, <2>8, <2>9 DEF Working
<1>5. \A t \in Types : maps'[t][q] = maps[t][q]
  <2>1. maps' = maps \/ \E x : maps' = [maps EXCEPT ![TypeOrder[stage[s]]][s] = x]
    BY DEF Working, Lock, Reconcile, NoManager, Difference, setMapValue,
           removeMapEntry, Close, unregisterResources, registerResources
  <2>2. ASSUME NEW x, NEW u, maps' = [maps EXCEPT ![u][s] = x]
        PROVE  \A t \in Types : maps'[t][q] = maps[t][q]
    BY <2>2 DEF WorkerShape, TypeOK
  <2> QED  BY <2>1, <2>2
<1>6. \A t \in Types : Abandoned(t, q)' = Abandoned(t, q)
  <2>1. \A t \in Types, r \in Refs : <<t, r, q>> \in abandoned' <=> <<t, r, q>> \in abandoned
    BY DEF Working, Lock, Reconcile, NoManager, Difference, setMapValue,
           removeMapEntry, Close, unregisterResources, registerResources
  <2> QED  BY <2>1 DEF Abandoned
<1>7. \A t \in Types, r \in Refs : q \in requestors'[t][r] <=> q \in requestors[t][r]
  <2> DEFINE u == TypeOrder[stage[s]]
  <2>1. u \in Types
    BY <1>0, Order
  <2>2. ASSUME NEW r \in Refs, unregisterResources(s, r)
        PROVE  \A t \in Types, p \in Refs : q \in requestors'[t][p] <=> q \in requestors[t][p]
    BY <1>0, <2>1, <2>2, UnregisterRemoves DEF unregisterResources
  <2>3. ASSUME NEW r \in Refs, NEW out \in Outcomes, registerResources(s, r, out)
        PROVE  \A t \in Types, p \in Refs : q \in requestors'[t][p] <=> q \in requestors[t][p]
    BY <1>0, <2>1, <2>3, RegisterAdds DEF registerResources, RegisterResource, RegisterMaps
  <2>4. CASE UNCHANGED requestors
    BY <2>4
  <2> QED  BY <2>2, <2>3, <2>4
           DEF Working, Lock, Reconcile, NoManager, Difference, setMapValue, removeMapEntry, Close
<1> QED  BY <1>0, <1>1, <1>2, <1>4, <1>5, <1>6, <1>7, OthersRegistered DEF Same

-----------------------------------------------------------------------------
(***************************************************************************)
(* A worker under Mux keeps the invariant of its ResourceSummary.          *)
(***************************************************************************)
(* While the worker only registers, nothing about the finalizer can change;
   while it cleans, what is registered must not outgrow what is abandoned. *)
LEMMA FinalizerKept ==
  ASSUME NEW s \in Summaries, FinalizerHolds(s), UNCHANGED <<api[s], cached[s]>>,
         s \in unguarded' <=> s \in unguarded,
         Live(object[s])' <=> Live(object[s]), Dying(object[s])' <=> Dying(object[s]),
         \/ Live(object[s])
         \/ \A t \in Types : Registered(t, s) \subseteq Abandoned(t, s)
                               => Registered(t, s)' \subseteq Abandoned(t, s)'
  PROVE  FinalizerHolds(s)'
<1>1. api[s]' = Gone /\ s \notin unguarded' =>
        \A t \in Types : Registered(t, s)' \subseteq Abandoned(t, s)'
  BY DEF FinalizerHolds
<1>2. Live(api[s])' <=> Live(api[s])
  BY DEF Live
<1>3. Dying(api[s])' <=> Dying(api[s])
  BY DEF Dying
<1>4. (Live(cached[s])' <=> Live(cached[s])) /\ (Dying(cached[s])' <=> Dying(cached[s]))
  BY DEF Live, Dying
<1> QED  BY <1>1, <1>2, <1>3, <1>4 DEF FinalizerHolds

(* A type the worker does not have in hand. *)
LEMMA OtherType ==
  ASSUME NEW s \in Summaries, NEW t \in Types, Progress(t, s), TypeOrder[stage[s]] # t,
         step[s] \in {"register", "unregister", "clean"},
         step'[s] \in {"register", "unregister", "clean"},
         UNCHANGED <<stage[s], object[s], maps[t][s]>>,
         Registered(t, s)' = Registered(t, s), Abandoned(t, s)' = Abandoned(t, s)
  PROVE  Progress(t, s)'
<1>1. ~InHand(t, s) /\ ~InHand(t, s)' /\ TypeOrder[stage'[s]] # t
  BY DEF InHand
<1>2. Finished(t, s)' <=> Finished(t, s)
  BY DEF Finished
<1> QED  BY <1>1, <1>2 DEF Progress, Live, Dying

(* A reconciliation that failed has nothing in hand. *)
LEMMA FailedType ==
  ASSUME NEW s \in Summaries, NEW t \in Types, step'[s] = "fail",
         Registered(t, s)' \subseteq maps'[t][s] \cup Abandoned(t, s)'
  PROVE  Progress(t, s)'
  BY DEF Progress, InHand, Finished

(* GetManager failed: nothing has been registered yet. *)
LEMMA NoManagerKeeps ==
  ASSUME WorkerShape, NEW s \in Summaries, SummaryInv(s), NoManager(s)
  PROVE  SummaryInv(s)'
<1>1. /\ step[s] = "register" /\ step'[s] = "fail" /\ ~ready
      /\ UNCHANGED <<api, cached, unguarded, object, requestors, abandoned, ready, maps>>
  BY DEF NoManager, Leave, Enter, MuxFrame, WorkerShape, TypeOK
<1>2. \A t \in Types : Registered(t, s)' = Registered(t, s) /\ Abandoned(t, s)' = Abandoned(t, s)
  BY <1>1 DEF Registered, Abandoned
<1>3. CopyFits(s)'
  BY <1>1 DEF SummaryInv, CopyFits, Live, Dying
<1>4. FinalizerHolds(s)'
  <2>1. (Live(object[s])' <=> Live(object[s])) /\ (Dying(object[s])' <=> Dying(object[s]))
    BY <1>1 DEF Live, Dying
  <2> QED  BY <1>1, <1>2, <2>1, FinalizerKept DEF SummaryInv
<1>5. NothingBefore(s)'
  BY <1>1, <1>2 DEF SummaryInv, NothingBefore
<1>6. \A t \in Types : Progress(t, s)'
  BY <1>1, <1>2, FailedType DEF SummaryInv, NothingBefore
<1> QED  BY <1>3, <1>4, <1>5, <1>6 DEF SummaryInv

(* registerResources: an error ends it and leaves behind what no map holds. *)
LEMMA RegisterKeeps ==
  ASSUME WorkerShape, NEW s \in Summaries, SummaryInv(s), NEW r \in Refs, NEW out \in Outcomes,
         registerResources(s, r, out)
  PROVE  SummaryInv(s)'
<1>1. /\ step[s] = "register" /\ ready /\ r \in left[s]
      /\ UNCHANGED <<api, cached, unguarded, object, maps, ready>>
  BY DEF registerResources, MuxFrame
<1>2. RegistryTypeOK /\ TypeOrder[stage[s]] \in Types
  BY <1>1, WorkerHolds DEF WorkerShape, TypeOK
<1> PICK u \in Types : u = TypeOrder[stage[s]]
  BY <1>2
<1>3. \A t \in Types, q \in Refs :
        s \in requestors'[t][q] <=> s \in requestors[t][q] \/ (t = u /\ q = r)
  BY <1>2, RegisterAdds DEF registerResources, RegisterResource, RegisterMaps
<1>4. /\ Registered(u, s)' = Registered(u, s) \cup {r}
      /\ \A t \in Types \ {u} : Registered(t, s)' = Registered(t, s)
  BY <1>2, <1>3 DEF Registered
<1>5. Live(object[s])
  BY <1>1 DEF SummaryInv, CopyFits
<1>6. (Live(object[s])' <=> Live(object[s])) /\ (Dying(object[s])' <=> Dying(object[s]))
  BY <1>1 DEF Live, Dying
<1>7. FinalizerHolds(s)'
  BY <1>1, <1>5, <1>6, FinalizerKept DEF SummaryInv
<1>8. NothingBefore(s)'
  BY <1>1 DEF NothingBefore
<1>9. CASE out \in Errors
  <2>1. /\ step'[s] = "fail"
        /\ abandoned' = abandoned \cup
             {<<u, q, s>> : q \in {p \in Refs : s \in requestors'[u][p]} \ maps[u][s]}
    BY <1>9 DEF registerResources, Leave, Enter, WorkerShape, TypeOK
  <2>2. CopyFits(s)'
    BY <1>1, <1>5, <1>6, <2>1 DEF SummaryInv, CopyFits
  <2>3. Registered(u, s)' \subseteq maps'[u][s] \cup Abandoned(u, s)'
    BY <1>1, <2>1 DEF Registered, Abandoned
  <2>4. \A t \in Types \ {u} : Registered(t, s)' \subseteq maps'[t][s] \cup Abandoned(t, s)'
    <3>1. \A t \in Types : Abandoned(t, s) \subseteq Abandoned(t, s)'
      BY <2>1 DEF Abandoned
    <3>2. \A t \in Types \ {u} : ~InHand(t, s)
      BY DEF InHand
    <3> QED  BY <1>1, <1>4, <3>1, <3>2 DEF SummaryInv, Progress
  <2> QED  BY <1>7, <1>8, <2>1, <2>2, <2>3, <2>4, FailedType DEF SummaryInv
<1>10. CASE out \notin Errors
  <2>1. /\ left'[s] = left[s] \ {r} /\ UNCHANGED <<step, stage, abandoned>>
    BY <1>10 DEF registerResources, WorkerShape, TypeOK
  <2>2. CopyFits(s)'
    BY <1>1, <1>6, <2>1 DEF SummaryInv, CopyFits
  <2>3. \A t \in Types : Abandoned(t, s)' = Abandoned(t, s)
    BY <2>1 DEF Abandoned
  <2>4. ASSUME NEW t \in Types, t # u PROVE Progress(t, s)'
    BY <1>1, <1>4, <2>1, <2>3, <2>4, OtherType DEF SummaryInv
  <2>5. Progress(u, s)'
    <3> DEFINE wanted == toRegister(object[s].spec, u)
    <3>1. /\ left[s] \subseteq wanted /\ wanted \ left[s] \subseteq Registered(u, s)
          /\ Registered(u, s) \subseteq maps[u][s] \cup Abandoned(u, s) \cup (wanted \ left[s])
      BY <1>1, <1>2 DEF SummaryInv, Progress
    <3>2. /\ left'[s] \subseteq wanted /\ wanted \ left'[s] \subseteq Registered(u, s)'
          /\ Registered(u, s)' \subseteq maps'[u][s] \cup Abandoned(u, s)' \cup (wanted \ left'[s])
      BY <1>1, <1>4, <2>1, <2>3, <3>1
    <3>3. step'[s] = "register" /\ TypeOrder[stage'[s]] = u /\ object'[s] = object[s]
      BY <1>1, <2>1
    <3>4. ~Finished(u, s)'
      <4>1. stage[s] \in 1..3
        BY <1>1, WorkerHolds
      <4> QED  BY <3>3, <2>1, <4>1, Order DEF Finished
    <3> QED  BY <3>2, <3>3, <3>4 DEF Progress, InHand
  <2> QED  BY <1>7, <1>8, <2>2, <2>4, <2>5 DEF SummaryInv
<1> QED  BY <1>9, <1>10

(* The difference with the map: what is registered for the type and not listed
   is in it, or was left behind. *)
LEMMA DifferenceKeeps ==
  ASSUME WorkerShape, NEW s \in Summaries, SummaryInv(s), Difference(s)
  PROVE  SummaryInv(s)'
<1>1. /\ step[s] = "register" /\ step'[s] = "unregister" /\ left[s] = {}
      /\ UNCHANGED <<api, cached, unguarded, object, requestors, abandoned, ready, maps, stage>>
  BY DEF Difference, Enter, MuxFrame, WorkerShape, TypeOK
<1>2. object[s].spec \in Specs /\ stage[s] \in 1..3 /\ TypeOrder[stage[s]] \in Types
  BY <1>1, WorkerHolds
<1> PICK u \in Types : u = TypeOrder[stage[s]]
  BY <1>2
<1>3. \A t \in Types : Registered(t, s)' = Registered(t, s) /\ Abandoned(t, s)' = Abandoned(t, s)
  BY <1>1 DEF Registered, Abandoned
<1>4. CopyFits(s)'
  BY <1>1 DEF SummaryInv, CopyFits, Live, Dying
<1>5. FinalizerHolds(s)'
  <2>1. (Live(object[s])' <=> Live(object[s])) /\ (Dying(object[s])' <=> Dying(object[s]))
    BY <1>1 DEF Live, Dying
  <2> QED  BY <1>1, <1>3, <2>1, FinalizerKept DEF SummaryInv
<1>6. NothingBefore(s)'
  BY <1>1, <1>3 DEF SummaryInv, NothingBefore
<1>7. ASSUME NEW t \in Types, t # u PROVE Progress(t, s)'
  BY <1>1, <1>3, <1>7, OtherType DEF SummaryInv
<1>8. Progress(u, s)'
  <2> DEFINE listed == currentObjRefs(object[s].spec, u)
             wanted == toRegister(object[s].spec, u)
  <2>1. wanted \subseteq listed
    BY <1>2, ListedAreRefs
  <2>2. left'[s] = maps[u][s] \ listed
    BY DEF Difference, WorkerShape, TypeOK
  <2>3. /\ wanted \ left[s] \subseteq Registered(u, s)
        /\ Registered(u, s) \subseteq maps[u][s] \cup Abandoned(u, s) \cup (wanted \ left[s])
    BY <1>1 DEF SummaryInv, Progress
  <2>4. /\ left'[s] \cap listed = {} /\ wanted \subseteq Registered(u, s)'
        /\ Registered(u, s)' \subseteq Abandoned(u, s)' \cup listed \cup left'[s]
    BY <1>1, <1>3, <2>1, <2>2, <2>3
  <2>5. ~Finished(u, s)'
    BY <1>1, <1>2, Order DEF Finished
  <2> QED  BY <1>1, <2>4, <2>5 DEF Progress, InHand
<1> QED  BY <1>4, <1>5, <1>6, <1>7, <1>8 DEF SummaryInv

(* unregisterResources, after an update or for a deletion. *)
LEMMA UnregisterKeeps ==
  ASSUME WorkerShape, NEW s \in Summaries, SummaryInv(s), NEW r \in Refs,
         unregisterResources(s, r)
  PROVE  SummaryInv(s)'
<1>1. /\ step[s] \in {"unregister", "clean"} /\ r \in left[s] /\ left'[s] = left[s] \ {r}
      /\ UNCHANGED <<api, cached, unguarded, object, ready, maps, stage, step>>
  BY DEF unregisterResources, MuxFrame, WorkerShape, TypeOK
<1>2. /\ object[s].spec \in Specs /\ stage[s] \in 1..3 /\ TypeOrder[stage[s]] \in Types
      /\ RegistryTypeOK
  BY <1>1, WorkerHolds DEF WorkerShape, TypeOK
<1> PICK u \in Types : u = TypeOrder[stage[s]]
  BY <1>2
<1>3. \A t \in Types, q \in Refs :
        s \in requestors'[t][q] <=> s \in requestors[t][q] /\ ~(t = u /\ q = r)
  BY <1>2, UnregisterRemoves DEF unregisterResources
<1>4. /\ Registered(u, s)' = Registered(u, s) \ {r}
      /\ \A t \in Types \ {u} : Registered(t, s)' = Registered(t, s)
  BY <1>2, <1>3 DEF Registered
<1>5. /\ Abandoned(u, s)' = Abandoned(u, s) \ {r}
      /\ \A t \in Types \ {u} : Abandoned(t, s)' = Abandoned(t, s)
  <2>1. abandoned' = abandoned \ {<<u, r, s>>}
    BY DEF unregisterResources
  <2> QED  BY <2>1 DEF Abandoned
<1>6. (Live(object[s])' <=> Live(object[s])) /\ (Dying(object[s])' <=> Dying(object[s]))
  BY <1>1 DEF Live, Dying
<1>7. CopyFits(s)'
  BY <1>1, <1>6 DEF SummaryInv, CopyFits
<1>8. FinalizerHolds(s)'
  <2>1. \A t \in Types : Registered(t, s) \subseteq Abandoned(t, s)
                           => Registered(t, s)' \subseteq Abandoned(t, s)'
    BY <1>4, <1>5
  <2> QED  BY <1>1, <1>6, <2>1, FinalizerKept DEF SummaryInv
<1>9. NothingBefore(s)'
  BY <1>1, <1>4 DEF SummaryInv, NothingBefore
<1>10. ASSUME NEW t \in Types, t # u PROVE Progress(t, s)'
  BY <1>1, <1>4, <1>5, <1>10, OtherType DEF SummaryInv
<1>11. ~Finished(u, s)' /\ TypeOrder[stage'[s]] = u
  BY <1>1, <1>2, Order DEF Finished
<1>12. CASE step[s] = "unregister"
  <2> DEFINE listed == currentObjRefs(object[s].spec, u)
             wanted == toRegister(object[s].spec, u)
  <2>1. wanted \subseteq listed
    BY <1>2, ListedAreRefs
  <2>2. /\ left[s] \cap listed = {} /\ wanted \subseteq Registered(u, s)
        /\ Registered(u, s) \subseteq Abandoned(u, s) \cup listed \cup left[s]
    BY <1>12 DEF SummaryInv, Progress
  <2>3. /\ left'[s] \cap listed = {} /\ wanted \subseteq Registered(u, s)'
        /\ Registered(u, s)' \subseteq Abandoned(u, s)' \cup listed \cup left'[s]
    BY <1>1, <1>4, <1>5, <2>1, <2>2
  <2>4. Progress(u, s)'
    BY <1>1, <1>11, <1>12, <2>3 DEF Progress, InHand
  <2> QED  BY <1>7, <1>8, <1>9, <1>10, <2>4 DEF SummaryInv
<1>13. CASE step[s] = "clean"
  <2>1. /\ Registered(u, s) \subseteq maps[u][s] \cup Abandoned(u, s)
        /\ Registered(u, s) \subseteq Abandoned(u, s) \cup left[s]
    BY <1>13 DEF SummaryInv, Progress, InHand
  <2>2. /\ Registered(u, s)' \subseteq maps'[u][s] \cup Abandoned(u, s)'
        /\ Registered(u, s)' \subseteq Abandoned(u, s)' \cup left'[s]
    BY <1>1, <1>4, <1>5, <2>1
  <2>3. Progress(u, s)'
    BY <1>1, <1>11, <1>13, <2>2 DEF Progress
  <2> QED  BY <1>7, <1>8, <1>9, <1>10, <2>3 DEF SummaryInv
<1> QED  BY <1>1, <1>12, <1>13

(* The worker goes on with the next type, or is done after the last. *)
MovesOn(s) ==
  \/ /\ stage[s] < 3 /\ stage'[s] = stage[s] + 1
     /\ step'[s] \in {"register", "clean"}
  \/ ~(stage[s] < 3) /\ step'[s] = "close"

(* It has then finished the type it had in hand, and no other. *)
LEMMA OneMoreFinished ==
  ASSUME NEW s \in Summaries, stage[s] \in 1..3, MovesOn(s),
         step[s] \in {"unregister", "clean"}, NEW u \in Types, u = TypeOrder[stage[s]]
  PROVE  /\ Finished(u, s)'
         /\ \A t \in Types \ {u} : Finished(t, s)' <=> Finished(t, s)
         /\ step'[s] # "close" => TypeOrder[stage'[s]] # u
<1>1. CASE stage[s] < 3
  <2>1. stage'[s] = stage[s] + 1 /\ step'[s] \in {"register", "clean"} /\ stage[s] \in 1..2
    BY <1>1 DEF MovesOn
  <2>2. \A i \in 1..3 : i < stage'[s] <=> i < stage[s] \/ i = stage[s]
    BY <2>1
  <2> QED  BY <2>1, <2>2, Order DEF Finished
<1>2. CASE ~(stage[s] < 3)
  <2>1. stage[s] = 3 /\ step'[s] = "close"
    BY <1>2 DEF MovesOn
  <2>2. \A t \in Types \ {u} : Finished(t, s)
    <3>1. ASSUME NEW t \in Types \ {u} PROVE \E i \in 1..3 : i < stage[s] /\ TypeOrder[i] = t
      <4>1. PICK i \in 1..3 : TypeOrder[i] = t
        BY Order
      <4>2. i # 3
        BY <2>1, <4>1
      <4> QED  BY <2>1, <4>1, <4>2
    <3> QED  BY <3>1 DEF Finished
  <2> QED  BY <2>1, <2>2 DEF Finished
<1> QED  BY <1>1, <1>2

(* setMapValue: the map takes over what is registered for the type. *)
LEMMA SetMapKeeps ==
  ASSUME WorkerShape, NEW s \in Summaries, SummaryInv(s), setMapValue(s)
  PROVE  SummaryInv(s)'
<1>1. /\ step[s] = "unregister" /\ left[s] = {}
      /\ UNCHANGED <<api, cached, unguarded, requestors, ready>>
  BY DEF setMapValue, MuxFrame
<1>2. /\ object[s] \in ResourceSummaries /\ object[s].spec \in Specs
      /\ stage[s] \in 1..3 /\ TypeOrder[stage[s]] \in Types
  BY <1>1, WorkerHolds
<1> PICK u \in Types : u = TypeOrder[stage[s]]
  BY <1>2
<1> DEFINE listed(t) == currentObjRefs(object[s].spec, t)
           wanted(t) == toRegister(object[s].spec, t)
<1>3. /\ maps'[u][s] = listed(u)
      /\ \A t \in Types \ {u} : maps'[t][s] = maps[t][s]
  <2>1. maps' = [maps EXCEPT ![u][s] = listed(u)]
    BY DEF setMapValue
  <2>2. ASSUME NEW x, maps' = [maps EXCEPT ![u][s] = x]
        PROVE  maps'[u][s] = x /\ \A t \in Types \ {u} : maps'[t][s] = maps[t][s]
    BY <2>2 DEF WorkerShape, TypeOK
  <2> HIDE DEF listed
  <2> QED  BY <2>1, <2>2
<1>4. /\ object'[s] \in ResourceSummaries /\ object'[s].spec = object[s].spec
      /\ object'[s].deleting = object[s].deleting /\ object'[s].finalizer = object[s].finalizer
  <2>1. object' = [object EXCEPT ![s] = [object[s] EXCEPT !.hashes[u] = got[s]]] /\ got[s] \in Hashes
    BY DEF setMapValue, WorkerShape, TypeOK
  <2>2. object'[s] = [object[s] EXCEPT !.hashes[u] = got[s]]
    BY <2>1 DEF WorkerShape, TypeOK
  <2>3. ASSUME NEW y, y = [object[s] EXCEPT !.hashes[u] = got[s]]
        PROVE  /\ y \in ResourceSummaries /\ y.spec = object[s].spec
               /\ y.deleting = object[s].deleting /\ y.finalizer = object[s].finalizer
    BY <1>2, <2>1, <2>3 DEF ResourceSummaries
  <2> QED  BY <2>2, <2>3
<1>5. (Live(object[s])' <=> Live(object[s])) /\ (Dying(object[s])' <=> Dying(object[s]))
  BY <1>2, <1>4, SummariesAssumption DEF Live, Dying
<1>6. Live(object[s]) /\ ~Dying(object[s])
  BY <1>1 DEF SummaryInv, CopyFits, Live, Dying
<1>7. \A t \in Types : Registered(t, s)' = Registered(t, s)
  BY <1>1 DEF Registered
<1>8. /\ Abandoned(u, s)' = Abandoned(u, s) \ listed(u)
      /\ \A t \in Types \ {u} : Abandoned(t, s)' = Abandoned(t, s)
  <2>1. abandoned' = abandoned \ {<<u, r, s>> : r \in listed(u)}
    BY DEF setMapValue
  <2> HIDE DEF listed
  <2> QED  BY <2>1 DEF Abandoned
<1>9. /\ MovesOn(s)
      /\ step'[s] \in {"register", "close"}
      /\ step'[s] = "register" => left'[s] = wanted(TypeOrder[stage'[s]])
  <2>1. CASE stage[s] < 3
    <3>1. step'[s] = "register" /\ Begin(s, stage[s] + 1)
      BY <2>1, Order DEF setMapValue, Enter, WorkerShape, TypeOK
    <3>2. stage'[s] = stage[s] + 1 /\ left'[s] = wanted(TypeOrder[stage[s] + 1])
      BY <3>1 DEF Begin, WorkerShape, TypeOK
    <3> QED  BY <2>1, <3>1, <3>2 DEF MovesOn
  <2>2. CASE ~(stage[s] < 3)
    <3>1. step'[s] = "close"
      BY <2>2, Order DEF setMapValue, Leave, Enter, WorkerShape, TypeOK
    <3> QED  BY <2>2, <3>1 DEF MovesOn
  <2> QED  BY <2>1, <2>2
<1>10. /\ Finished(u, s)'
       /\ \A t \in Types \ {u} : Finished(t, s)' <=> Finished(t, s)
       /\ step'[s] # "close" => TypeOrder[stage'[s]] # u
  BY <1>1, <1>2, <1>9, OneMoreFinished
<1>11. CopyFits(s)'
  BY <1>4, <1>5, <1>6, <1>9 DEF SummaryInv, CopyFits
<1>12. FinalizerHolds(s)'
  BY <1>1, <1>5, <1>6, FinalizerKept DEF SummaryInv
<1>13. NothingBefore(s)'
  BY <1>1, <1>7 DEF SummaryInv, NothingBefore
<1>14. Progress(u, s)'
  <2>1. wanted(u) \subseteq Registered(u, s) /\ Registered(u, s) \subseteq Abandoned(u, s) \cup listed(u)
    BY <1>1 DEF SummaryInv, Progress
  <2>2. Registered(u, s)' \subseteq maps'[u][s] \cup Abandoned(u, s)'
    BY <1>3, <1>7, <1>8, <2>1
  <2>3. wanted(u) \subseteq Registered(u, s)' /\ maps'[u][s] = listed(u)
    BY <1>3, <1>7, <2>1
  <2> QED  BY <1>4, <1>5, <1>6, <1>9, <1>10, <2>2, <2>3 DEF Progress
<1>15. ASSUME NEW t \in Types, t # u PROVE Progress(t, s)'
  <2>1. ~InHand(t, s) /\ Progress(t, s)
    BY <1>15 DEF InHand, SummaryInv
  <2>2. Registered(t, s)' \subseteq maps'[t][s] \cup Abandoned(t, s)'
    BY <1>3, <1>7, <1>8, <1>15, <2>1 DEF Progress
  <2>3. Finished(t, s)' => wanted(t) \subseteq Registered(t, s)' /\ maps'[t][s] = listed(t)
    BY <1>3, <1>6, <1>7, <1>10, <1>15, <2>1 DEF Progress
  <2>4. step'[s] = "register" /\ TypeOrder[stage'[s]] = t => left'[s] = wanted(t)
    BY <1>9
  <2> QED  BY <1>4, <1>5, <1>6, <1>9, <2>2, <2>3, <2>4 DEF Progress
<1> QED  BY <1>11, <1>12, <1>13, <1>14, <1>15 DEF SummaryInv

(* cleanMaps: the map entry goes once nothing of it is registered, and the
   finalizer once all three have gone. *)
LEMMA RemoveMapKeeps ==
  ASSUME WorkerShape, NEW s \in Summaries, SummaryInv(s), removeMapEntry(s)
  PROVE  SummaryInv(s)'
<1>1. /\ step[s] = "clean" /\ left[s] = {}
      /\ UNCHANGED <<api, cached, unguarded, requestors, ready, abandoned>>
  BY DEF removeMapEntry, MuxFrame
<1>2. /\ object[s] \in ResourceSummaries /\ object[s].spec \in Specs
      /\ stage[s] \in 1..3 /\ TypeOrder[stage[s]] \in Types
  BY <1>1, WorkerHolds
<1> PICK u \in Types : u = TypeOrder[stage[s]]
  BY <1>2
<1>3. /\ maps'[u][s] = {}
      /\ \A t \in Types \ {u} : maps'[t][s] = maps[t][s]
  <2>1. maps' = [maps EXCEPT ![u][s] = {}]
    BY DEF removeMapEntry
  <2> QED  BY <2>1 DEF WorkerShape, TypeOK
<1>4. /\ MovesOn(s)
      /\ \/ /\ step'[s] = "clean" /\ object'[s] = object[s]
            /\ left'[s] = maps'[TypeOrder[stage'[s]]][s]
         \/ /\ step'[s] = "close" /\ object'[s] \in ResourceSummaries
            /\ object'[s].deleting = object[s].deleting /\ object'[s].finalizer = FALSE
  <2>1. CASE stage[s] < 3
    <3>1. UNCHANGED <<step, object>> /\ Begin(s, stage[s] + 1)
      BY <2>1, Order DEF removeMapEntry
    <3>2. stage'[s] = stage[s] + 1 /\ left'[s] = maps'[TypeOrder[stage[s] + 1]][s]
      BY <1>1, <3>1 DEF Begin, WorkerShape, TypeOK
    <3> QED  BY <1>1, <2>1, <3>1, <3>2 DEF MovesOn
  <2>2. CASE ~(stage[s] < 3)
    <3>1. /\ step'[s] = "close"
          /\ object' = [object EXCEPT ![s] = [object[s] EXCEPT !.finalizer = FALSE]]
      BY <2>2, Order DEF removeMapEntry, Leave, Enter, WorkerShape, TypeOK
    <3>2. object'[s] = [object[s] EXCEPT !.finalizer = FALSE]
      BY <3>1 DEF WorkerShape, TypeOK
    <3>3. ASSUME NEW y, y = [object[s] EXCEPT !.finalizer = FALSE]
          PROVE  y \in ResourceSummaries /\ y.deleting = object[s].deleting /\ y.finalizer = FALSE
      BY <1>2, <3>3, FieldUpdates
    <3>4. /\ object'[s] \in ResourceSummaries
          /\ object'[s].deleting = object[s].deleting /\ object'[s].finalizer = FALSE
      BY <3>2, <3>3
    <3> QED  BY <2>2, <3>1, <3>4 DEF MovesOn
  <2> QED  BY <2>1, <2>2
<1>5. Dying(object[s]) /\ ~Live(object[s])
  BY <1>1 DEF SummaryInv, CopyFits, Live, Dying
<1>6. Dying(object[s])' /\ ~Live(object[s])'
  BY <1>4, <1>5, SummariesAssumption DEF Live, Dying
<1>7. \A t \in Types : Registered(t, s)' = Registered(t, s) /\ Abandoned(t, s)' = Abandoned(t, s)
  BY <1>1 DEF Registered, Abandoned
<1>8. /\ Finished(u, s)'
      /\ \A t \in Types \ {u} : Finished(t, s)' <=> Finished(t, s)
      /\ step'[s] # "close" => TypeOrder[stage'[s]] # u
  BY <1>1, <1>2, <1>4, OneMoreFinished
<1>9. CopyFits(s)'
  BY <1>4, <1>6 DEF CopyFits
<1>10. FinalizerHolds(s)'
  BY <1>1, <1>5, <1>6, <1>7, FinalizerKept DEF SummaryInv
<1>11. NothingBefore(s)'
  BY <1>1, <1>7 DEF SummaryInv, NothingBefore
<1>12. Progress(u, s)'
  <2>1. Registered(u, s) \subseteq Abandoned(u, s)
    BY <1>1 DEF SummaryInv, Progress
  <2>2. Registered(u, s)' \subseteq maps'[u][s] \cup Abandoned(u, s)'
    BY <1>7, <2>1
  <2> QED  BY <1>3, <1>4, <1>6, <1>8, <2>2 DEF Progress
<1>13. ASSUME NEW t \in Types, t # u PROVE Progress(t, s)'
  <2>1. ~InHand(t, s) /\ Progress(t, s)
    BY <1>13 DEF InHand, SummaryInv
  <2>2. Registered(t, s)' \subseteq maps'[t][s] \cup Abandoned(t, s)'
    BY <1>3, <1>7, <1>13, <2>1 DEF Progress
  <2>3. Finished(t, s)' => maps'[t][s] = {}
    BY <1>3, <1>5, <1>8, <1>13, <2>1 DEF Progress
  <2>4. step'[s] = "clean" /\ TypeOrder[stage'[s]] = t => left'[s] = maps'[t][s]
    BY <1>4
  <2> QED  BY <1>4, <1>6, <2>2, <2>3, <2>4 DEF Progress
<1> QED  BY <1>9, <1>10, <1>11, <1>12, <1>13 DEF SummaryInv

(* Mux is free: the worker begins with the first type. *)
LEMMA LockKeeps ==
  ASSUME WorkerShape, NEW s \in Summaries, SummaryInv(s), Lock(s)
  PROVE  SummaryInv(s)'
<1>1. UNCHANGED <<api, cached, unguarded, object, requestors, abandoned, ready, maps>>
  BY DEF Lock, MuxFrame
<1>2. \/ step[s] = "update" /\ step'[s] = "register"
      \/ step[s] = "delete" /\ step'[s] = "clean"
  BY DEF Lock, Enter, WorkerShape, TypeOK
<1>3. /\ stage'[s] = 1
      /\ left'[s] = IF step'[s] = "clean" THEN maps'[TypeOrder[1]][s]
                    ELSE toRegister(object[s].spec, TypeOrder[1])
  BY DEF Lock, Begin, WorkerShape, TypeOK
<1>4. \A t \in Types : Registered(t, s)' = Registered(t, s) /\ Abandoned(t, s)' = Abandoned(t, s)
  BY <1>1 DEF Registered, Abandoned
<1>5. (Live(object[s])' <=> Live(object[s])) /\ (Dying(object[s])' <=> Dying(object[s]))
  BY <1>1 DEF Live, Dying
<1>6. CopyFits(s)'
  BY <1>1, <1>2, <1>5 DEF SummaryInv, CopyFits
<1>7. FinalizerHolds(s)'
  BY <1>1, <1>4, <1>5, FinalizerKept DEF SummaryInv
<1>8. NothingBefore(s)'
  BY <1>1, <1>4 DEF SummaryInv, NothingBefore
<1>9. ASSUME NEW t \in Types PROVE Progress(t, s)'
  <2>1. Registered(t, s)' \subseteq maps'[t][s] \cup Abandoned(t, s)'
    BY <1>1, <1>2, <1>4 DEF SummaryInv, Progress, InHand
  <2>2. ~Finished(t, s)'
    BY <1>2, <1>3 DEF Finished
  <2>3. /\ step'[s] = "register" /\ TypeOrder[stage'[s]] = t => left'[s] = toRegister(object'[s].spec, t)
        /\ step'[s] = "clean" /\ TypeOrder[stage'[s]] = t => left'[s] = maps'[t][s]
    BY <1>1, <1>3
  <2> QED  BY <1>2, <2>1, <2>2, <2>3 DEF Progress
<1> QED  BY <1>6, <1>7, <1>8, <1>9 DEF SummaryInv

(* A worker that has nothing under way: what the maps and the history hold
   covers what is registered. *)
LEMMA RestingType ==
  ASSUME NEW s \in Summaries, NEW t \in Types, Progress(t, s),
         step[s] \notin {"register", "unregister"},
         step'[s] \in {"idle", "update", "delete", "fail"},
         maps'[t][s] = maps[t][s],
         Registered(t, s)' = Registered(t, s), Abandoned(t, s)' = Abandoned(t, s)
  PROVE  Progress(t, s)'
  BY DEF Progress, InHand, Finished

(* The Get and addFinalizer: the copy is as old as the cache. *)
LEMMA ReconcileKeeps ==
  ASSUME WorkerShape, NEW s \in Summaries, SummaryInv(s), Reconcile(s)
  PROVE  SummaryInv(s)'
<1>1. UNCHANGED <<api, cached, unguarded, requestors, abandoned, ready, maps>> /\ step[s] = "idle"
  BY DEF Reconcile
<1>2. \A t \in Types : Registered(t, s)' = Registered(t, s) /\ Abandoned(t, s)' = Abandoned(t, s)
  BY <1>1 DEF Registered, Abandoned
<1>3. CASE cached[s] = Gone
  <2>1. UNCHANGED <<step, object, stage, left>>
    BY <1>3 DEF Reconcile
  <2> QED  BY <1>1, <1>2, <2>1, SameKeeps DEF Same
<1>4. CASE cached[s] # Gone
  <2>1. cached[s] \in ResourceSummaries /\ object[s] = Gone
    BY <1>1, <1>4 DEF WorkerShape, TypeOK
  <2>2. \/ /\ cached[s].deleting /\ object'[s] = cached[s] /\ step'[s] = "delete"
        \/ /\ ~cached[s].deleting /\ object'[s] = [cached[s] EXCEPT !.finalizer = TRUE]
           /\ step'[s] \in {"update", "fail"}
    <3>1. DOMAIN object = Summaries /\ DOMAIN step = Summaries
      BY DEF WorkerShape, TypeOK
    <3> QED  BY <1>4, <3>1 DEF Reconcile, Enter
  <2>3. ASSUME NEW y, y = [cached[s] EXCEPT !.finalizer = TRUE]
        PROVE  y \in ResourceSummaries /\ y.deleting = cached[s].deleting /\ y.finalizer = TRUE
    BY <2>1, <2>3 DEF ResourceSummaries
  <2>4. \/ Dying(cached[s]) /\ Dying(object[s])' /\ ~Live(object[s])' /\ step'[s] = "delete"
        \/ /\ Live(cached[s]) /\ Live(object[s])' /\ ~Dying(object[s])'
           /\ object'[s].finalizer /\ step'[s] \in {"update", "fail"}
    BY <2>1, <2>2, <2>3, SummariesAssumption DEF Live, Dying
  <2>5. CopyFits(s)'
    BY <2>4 DEF CopyFits
  <2>6. FinalizerHolds(s)'
    <3>1. /\ Live(api[s])' <=> Live(api[s])
          /\ Dying(api[s])' <=> Dying(api[s])
          /\ Live(cached[s])' <=> Live(cached[s])
          /\ Dying(cached[s])' <=> Dying(cached[s])
          /\ ~(Live(cached[s]) /\ Dying(cached[s]))
      BY <1>1 DEF Live, Dying
    <3> QED  BY <1>1, <1>2, <2>4, <3>1 DEF SummaryInv, FinalizerHolds
  <2>7. NothingBefore(s)'
    BY <1>1, <1>2 DEF SummaryInv, NothingBefore
  <2>8. \A t \in Types : Progress(t, s)'
    BY <1>1, <1>2, <2>4, RestingType DEF SummaryInv
  <2> QED  BY <2>5, <2>6, <2>7, <2>8 DEF SummaryInv
<1> QED  BY <1>3, <1>4

(* Close: only a worker that cleaned up removes the finalizer, and by then
   nothing of what was registered is left but failed registrations. *)
LEMMA CloseKeeps ==
  ASSUME WorkerShape, NEW s \in Summaries, SummaryInv(s), Close(s)
  PROVE  SummaryInv(s)'
<1>1. /\ step[s] \in {"close", "fail"} /\ step'[s] = "idle" /\ object'[s] = Gone
      /\ UNCHANGED <<cached, unguarded, requestors, abandoned, ready, maps>>
  BY DEF Close, Enter, WorkerShape, TypeOK
<1>2. object[s] \in ResourceSummaries /\ object[s].finalizer \in BOOLEAN
  BY <1>1, WorkerHolds, FieldUpdates
<1>3. \A t \in Types : Registered(t, s)' = Registered(t, s) /\ Abandoned(t, s)' = Abandoned(t, s)
  BY <1>1 DEF Registered, Abandoned
<1>4. ~Live(object[s])' /\ ~Dying(object[s])'
  BY <1>1 DEF Live, Dying
<1>5. CopyFits(s)'
  BY <1>1, <1>4 DEF CopyFits
<1>6. NothingBefore(s)'
  BY <1>1, <1>3 DEF SummaryInv, NothingBefore
<1>7. \A t \in Types : Progress(t, s)'
  BY <1>1, <1>3, RestingType DEF SummaryInv
<1>8. /\ Live(cached[s])' <=> Live(cached[s])
      /\ Dying(cached[s])' <=> Dying(cached[s])
      /\ Live(object[s]) <=> ~Dying(object[s])
  BY <1>1, <1>2, SummariesAssumption DEF Live, Dying
<1>9. /\ Live(object[s]) => object[s].finalizer
      /\ Dying(object[s]) => step[s] = "close" /\ ~object[s].finalizer
  BY <1>1, <1>8 DEF SummaryInv, CopyFits
<1>10. Dying(object[s]) => \A t \in Types : Registered(t, s) \subseteq Abandoned(t, s)
  <2>1. ASSUME Dying(object[s]), NEW t \in Types PROVE Registered(t, s) \subseteq Abandoned(t, s)
    <3>1. Progress(t, s) /\ Finished(t, s) /\ ~InHand(t, s)
      BY <1>9, <2>1 DEF SummaryInv, Finished, InHand
    <3> QED  BY <2>1, <3>1 DEF Progress
  <2> QED  BY <2>1
<1>11. FinalizerHolds(s)'
  <2>1. PICK saved \in SUBSET Changed(s) :
          /\ api[s] = Gone => saved = {}
          /\ api' = IF saved = {} THEN api ELSE [api EXCEPT ![s] = Patched(s, saved)]
    BY DEF Close
  <2>2. CASE api'[s] = api[s]
    <3>1. (Live(api[s])' <=> Live(api[s])) /\ (Dying(api[s])' <=> Dying(api[s]))
      BY <2>2 DEF Live, Dying
    <3> QED  BY <1>1, <1>3, <1>4, <1>8, <2>2, <3>1 DEF SummaryInv, FinalizerHolds
  <2>3. CASE api'[s] # api[s]
    <3> DEFINE f == IF "metadata" \in saved THEN object[s].finalizer ELSE api[s].finalizer
    <3>1. api[s] # Gone /\ api'[s] = Patched(s, saved)
      BY <2>1, <2>3 DEF WorkerShape, TypeOK
    <3>2. \/ api'[s] = Gone /\ api[s].deleting /\ ~f
          \/ /\ api'[s] \in ResourceSummaries /\ api'[s].deleting = api[s].deleting
             /\ api'[s].finalizer = f /\ ~(api[s].deleting /\ ~f)
      BY <1>1, <3>1, PatchedFields
    <3>3. CASE api'[s] = Gone
      <4>1. Dying(api[s]) /\ ~f
        BY <3>1, <3>2, <3>3, SummariesAssumption DEF Dying
      <4>2. ~object[s].finalizer
        BY <4>1 DEF SummaryInv, FinalizerHolds
      <4>3. Dying(object[s])
        BY <1>8, <1>9, <4>2
      <4>4. ~Live(cached[s])
        BY <4>1, <4>3 DEF SummaryInv, FinalizerHolds
      <4>5. ~Live(api[s])' /\ ~Dying(api[s])'
        BY <3>3 DEF Live, Dying
      <4> QED  BY <1>3, <1>4, <1>8, <1>10, <4>3, <4>4, <4>5 DEF FinalizerHolds
    <3>4. CASE api'[s] # Gone
      <4>1. api'[s].deleting = api[s].deleting /\ api'[s].finalizer = f /\ ~(api[s].deleting /\ ~f)
        BY <3>2, <3>4
      <4>2. (Live(api[s])' <=> Live(api[s])) /\ (Dying(api[s])' => api'[s].finalizer)
        BY <3>1, <3>4, <4>1 DEF Live, Dying
      <4>3. ASSUME Dying(cached[s]), Live(api[s]) PROVE ~f
        <5>1. ~api[s].finalizer /\ ~Dying(api[s])
          BY <4>3 DEF SummaryInv, FinalizerHolds, Live, Dying
        <5>2. ~Live(object[s])
          BY <4>3, <5>1 DEF SummaryInv, FinalizerHolds
        <5> QED  BY <1>8, <1>9, <5>1, <5>2
      <4> HIDE DEF f
      <4> QED  BY <1>4, <1>8, <3>4, <4>1, <4>2, <4>3 DEF FinalizerHolds
    <3> QED  BY <3>3, <3>4
  <2> QED  BY <2>2, <2>3
<1> QED  BY <1>5, <1>6, <1>7, <1>11 DEF SummaryInv

-----------------------------------------------------------------------------
(***************************************************************************)
(* The cache, the start of the manager, Sveltos and the cluster.           *)
(***************************************************************************)
(* What they leave alone of a ResourceSummary is all but its finalizer. *)
LEMMA FrameKeeps ==
  ASSUME NEW s \in Summaries, SummaryInv(s), UNCHANGED workFrame, ready => ready',
         FinalizerHolds(s)'
  PROVE  SummaryInv(s)'
<1>1. \A t \in Types : Registered(t, s)' = Registered(t, s) /\ Abandoned(t, s)' = Abandoned(t, s)
  BY DEF Registered, Abandoned
<1>2. CopyFits(s)'
  BY DEF SummaryInv, CopyFits, Live, Dying
<1>3. NothingBefore(s)'
  BY <1>1 DEF SummaryInv, NothingBefore
<1>4. ASSUME NEW t \in Types PROVE Progress(t, s)'
  <2>1. (InHand(t, s)' <=> InHand(t, s)) /\ (Finished(t, s)' <=> Finished(t, s))
    BY DEF InHand, Finished
  <2> QED  BY <1>1, <2>1 DEF SummaryInv, Progress, Live, Dying
<1> QED  BY <1>2, <1>3, <1>4 DEF SummaryInv

(* What the finalizer depends on besides the ResourceSummary itself. *)
LEMMA FrameRegistered ==
  ASSUME NEW s \in Summaries, UNCHANGED workFrame
  PROVE  /\ \A t \in Types : /\ Registered(t, s)' = Registered(t, s)
                             /\ Abandoned(t, s)' = Abandoned(t, s)
         /\ (Live(object[s])' <=> Live(object[s])) /\ (Dying(object[s])' <=> Dying(object[s]))
  BY DEF Registered, Abandoned, Live, Dying

(* The finalizer where neither the API server nor the cache has changed. *)
LEMMA FrameFinalizer ==
  ASSUME NEW s \in Summaries, FinalizerHolds(s), UNCHANGED workFrame,
         UNCHANGED <<api[s], cached[s]>>, s \in unguarded' <=> s \in unguarded
  PROVE  FinalizerHolds(s)'
  BY FrameRegistered, FinalizerKept

(* The cache catches up with the API server. *)
LEMMA CacheSyncKeeps ==
  ASSUME WorkerShape, NEW s \in Summaries, FinalizerHolds(s), CacheSync(s)
  PROVE  FinalizerHolds(s)'
<1>1. UNCHANGED <<workFrame, api, unguarded>> /\ cached'[s] = api[s]
  BY DEF CacheSync, WorkerShape, TypeOK
<1>2. /\ (Live(api[s])' <=> Live(api[s])) /\ (Dying(api[s])' <=> Dying(api[s]))
      /\ (Live(cached[s])' <=> Live(api[s])) /\ (Dying(cached[s])' <=> Dying(api[s]))
      /\ ~(Live(api[s]) /\ Dying(api[s])) /\ (Live(api[s]) => api[s] # Gone)
  BY <1>1 DEF Live, Dying
<1> QED  BY <1>1, <1>2, FrameRegistered DEF FinalizerHolds

(* Sveltos creates, updates or deletes a ResourceSummary. *)
LEMMA SveltosKeeps ==
  ASSUME WorkerShape, NEW s \in Summaries, FinalizerHolds(s),
         CreateSummary(s) \/ UpdateSummary(s) \/ DeleteSummary(s)
  PROVE  FinalizerHolds(s)'
<1>1. UNCHANGED <<workFrame, cached>>
  BY DEF CreateSummary, UpdateSummary, DeleteSummary, SveltosFrame
<1>2. (Live(cached[s])' <=> Live(cached[s])) /\ (Dying(cached[s])' <=> Dying(cached[s]))
  BY <1>1 DEF Live, Dying
<1>3. CASE CreateSummary(s)
  <2>1. PICK spec \in Specs : api'[s] = NewSummary(spec)
    BY <1>3 DEF CreateSummary, WorkerShape, TypeOK
  <2>2. api'[s] # Gone /\ Live(api[s])' /\ ~Dying(api[s])' /\ ~api'[s].finalizer
    BY <2>1, NewIsSummary, SummariesAssumption DEF Live, Dying
  <2>3. api[s] = Gone /\ ~Dying(api[s])
    BY <1>3 DEF CreateSummary, Dying
  <2> QED  BY <1>1, <1>2, <2>2, <2>3, FrameRegistered DEF FinalizerHolds
<1>4. CASE UpdateSummary(s)
  <2>1. api[s] \in ResourceSummaries /\ Live(api[s]) /\ ~Dying(api[s]) /\ UNCHANGED unguarded
    BY <1>4 DEF UpdateSummary, WorkerShape, TypeOK, Live, Dying
  <2>2. PICK spec \in Specs : api'[s] = [api[s] EXCEPT !.spec = spec]
    BY <1>4 DEF UpdateSummary, WorkerShape, TypeOK
  <2>3. ASSUME NEW y, y = [api[s] EXCEPT !.spec = spec]
        PROVE  /\ y \in ResourceSummaries
               /\ y.deleting = api[s].deleting /\ y.finalizer = api[s].finalizer
    BY <2>1, <2>3 DEF ResourceSummaries
  <2>4. /\ api'[s] # Gone /\ Live(api[s])' /\ ~Dying(api[s])'
        /\ api'[s].finalizer = api[s].finalizer
    BY <2>1, <2>2, <2>3, SummariesAssumption DEF Live, Dying
  <2> QED  BY <1>1, <1>2, <2>1, <2>4, FrameRegistered DEF FinalizerHolds
<1>5. CASE DeleteSummary(s)
  <2>1. api[s] \in ResourceSummaries /\ Live(api[s]) /\ ~Dying(api[s])
    BY <1>5 DEF DeleteSummary, WorkerShape, TypeOK, Live, Dying
  <2>2. CASE api[s].finalizer
    <3>1. api'[s] = [api[s] EXCEPT !.deleting = TRUE] /\ UNCHANGED unguarded
      BY <1>5, <2>2 DEF DeleteSummary, WorkerShape, TypeOK
    <3>2. ASSUME NEW y, y = [api[s] EXCEPT !.deleting = TRUE]
          PROVE  y \in ResourceSummaries /\ y.deleting /\ y.finalizer = api[s].finalizer
      BY <2>1, <3>2 DEF ResourceSummaries
    <3>3. api'[s] # Gone /\ ~Live(api[s])' /\ Dying(api[s])' /\ api'[s].finalizer
      BY <2>2, <3>1, <3>2, SummariesAssumption DEF Live, Dying
    <3> QED  BY <1>1, <1>2, <2>1, <2>2, <3>3, FrameRegistered DEF FinalizerHolds
  <2>3. CASE ~api[s].finalizer
    <3>1. api'[s] = Gone /\ s \in unguarded'
      BY <1>5, <2>3 DEF DeleteSummary, WorkerShape, TypeOK
    <3>2. ~Live(api[s])' /\ ~Dying(api[s])'
      BY <3>1 DEF Live, Dying
    <3> QED  BY <1>1, <1>2, <2>1, <3>1, <3>2, FrameRegistered DEF FinalizerHolds
  <2> QED  BY <2>2, <2>3
<1> QED  BY <1>3, <1>4, <1>5

-----------------------------------------------------------------------------
(***************************************************************************)
(* The theorems.                                                           *)
(***************************************************************************)
(* Nothing is registered, cached or under way at the start. *)
LEMMA InvInit == Init => ReconcilerInv
<1> SUFFICES ASSUME Init, NEW s \in Summaries PROVE SummaryInv(s)
  BY ShapeInit DEF ReconcilerInv
<1>1. /\ step[s] = "idle" /\ object[s] = Gone /\ cached[s] = Gone
      /\ \A t \in Types : Registered(t, s) = {}
  BY DEF Init, EmptyManager, Registered
<1>2. PICK spec \in Specs : api[s] = NewSummary(spec)
  BY DEF Init
<1>3. api[s] # Gone /\ Live(api[s]) /\ ~Dying(api[s]) /\ ~api[s].finalizer
  BY <1>2, NewIsSummary, SummariesAssumption DEF Live, Dying
<1>4. ~Live(object[s]) /\ ~Dying(object[s]) /\ ~Live(cached[s]) /\ ~Dying(cached[s])
  BY <1>1 DEF Live, Dying
<1>5. CopyFits(s) /\ FinalizerHolds(s) /\ NothingBefore(s)
  BY <1>1, <1>3, <1>4 DEF CopyFits, FinalizerHolds, NothingBefore
<1>6. \A t \in Types : Progress(t, s)
  BY <1>1 DEF Progress, Finished
<1> QED  BY <1>5, <1>6 DEF SummaryInv

(* Every step keeps the invariant. *)
LEMMA InvStep == ReconcilerInv /\ [Next]_vars => ReconcilerInv'
<1> SUFFICES ASSUME ReconcilerInv, [Next]_vars, NEW q \in Summaries PROVE SummaryInv(q)'
  BY ShapeStep DEF ReconcilerInv
<1>1. WorkerShape /\ WorkerShape' /\ SummaryInv(q)
  BY ShapeStep DEF ReconcilerInv
<1>2. ASSUME NEW s \in Summaries, Working(s) \/ Lock(s) PROVE SummaryInv(q)'
  <2>1. CASE q # s
    BY <1>1, <1>2, <2>1, WorkIsLocal, SameKeeps
  <2>2. CASE q = s
    BY <1>1, <1>2, <2>2, NoManagerKeeps, RegisterKeeps, DifferenceKeeps, UnregisterKeeps,
       SetMapKeeps, RemoveMapKeeps, LockKeeps, ReconcileKeeps, CloseKeeps DEF Working
  <2> QED  BY <2>1, <2>2
<1>3. FinalizerHolds(q)
  BY <1>1 DEF SummaryInv
<1>4. ASSUME NEW s \in Summaries, CacheSync(s) PROVE SummaryInv(q)'
  <2>1. UNCHANGED <<workFrame, api, ready, unguarded>> /\ (q # s => cached'[q] = cached[q])
    BY <1>1, <1>4 DEF CacheSync, WorkerShape, TypeOK
  <2>2. FinalizerHolds(q)'
    BY <1>1, <1>3, <1>4, <2>1, CacheSyncKeeps, FrameFinalizer
  <2> QED  BY <1>1, <2>1, <2>2, FrameKeeps
<1>5. ASSUME NEW s \in Summaries, CreateSummary(s) \/ UpdateSummary(s) \/ DeleteSummary(s)
      PROVE  SummaryInv(q)'
  <2>1. /\ UNCHANGED <<workFrame, cached, ready>>
        /\ q # s => api'[q] = api[q] /\ (q \in unguarded' <=> q \in unguarded)
    BY <1>1, <1>5 DEF CreateSummary, UpdateSummary, DeleteSummary, SveltosFrame, WorkerShape, TypeOK
  <2>2. FinalizerHolds(q)'
    BY <1>1, <1>3, <1>5, <2>1, SveltosKeeps, FrameFinalizer
  <2> QED  BY <1>1, <2>1, <2>2, FrameKeeps
<1>6. ASSUME UNCHANGED <<workFrame, api, cached, unguarded>>, ready => ready' PROVE SummaryInv(q)'
  BY <1>1, <1>3, <1>6, FrameFinalizer, FrameKeeps
<1>7. ASSUME \/ \E s \in Summaries : Resync(s)
             \/ InitializeManager \/ \E r \in Refs : ChangeObject(r)
      PROVE  SummaryInv(q)'
  BY <1>6, <1>7 DEF Resync, InitializeManager, ChangeObject
<1>8. CASE Evaluator
  <2>1. UNCHANGED <<requestors, evaluatorFrame>>
    BY <1>8 DEF Evaluator, evaluateResource, updateResourceHash
  <2>2. Same(q)
    BY <2>1 DEF evaluatorFrame, Same, Registered, Abandoned
  <2> QED  BY <1>1, <2>2, SameKeeps
<1>9. CASE UNCHANGED vars
  BY <1>6, <1>9
<1> QED  BY <1>2, <1>4, <1>5, <1>7, <1>8, <1>9 DEF Next, Sveltos

(* So it is an invariant. *)
LEMMA InvHolds == Spec => []ReconcilerInv
  BY InvInit, InvStep, PTL DEF Spec

(***************************************************************************)
(* What is registered for a ResourceSummary stays in the maps that will    *)
(* unregister it, or is known to be left behind by a reconciliation that   *)
(* failed: however many workers there are, and in whichever order          *)
(* registrations, changes of the Spec and failures come.                   *)
(***************************************************************************)
THEOREM MapsCoverTheRegistry == Spec => []RegisteredIsMapped
<1>1. ReconcilerInv => RegisteredIsMapped
  BY DEF ReconcilerInv, SummaryInv, Progress, RegisteredIsMapped, Abandoned, Registered
<1> QED  BY <1>1, InvHolds, PTL

(***************************************************************************)
(* A reconciliation that succeeds has registered all that the Spec it read *)
(* asks for, with namespaces filled in, and nothing else but what failed   *)
(* reconciliations left behind.                                            *)
(***************************************************************************)
THEOREM SuccessRegistersTheSpec == Spec => []ReconciledIsListed
<1>1. ReconcilerInv => ReconciledIsListed
  <2> SUFFICES ASSUME ReconcilerInv, NEW s \in Summaries, NEW t \in Types,
                      step[s] = "close", ~object[s].deleting
               PROVE  /\ toRegister(object[s].spec, t) \subseteq Registered(t, s)
                      /\ \A r \in Registered(t, s) :
                           \/ r \in currentObjRefs(object[s].spec, t) /\ Qualified(t, r)
                           \/ <<t, r, s>> \in abandoned
    BY DEF ReconciledIsListed
  <2>1. object[s] \in ResourceSummaries /\ object[s].spec \in Specs
    BY WorkerHolds DEF ReconcilerInv
  <2>2. Live(object[s]) /\ Finished(t, s) /\ ~InHand(t, s) /\ Progress(t, s)
    BY <2>1, SummariesAssumption DEF Live, Finished, InHand, ReconcilerInv, SummaryInv
  <2>3. /\ toRegister(object[s].spec, t) \subseteq Registered(t, s)
        /\ Registered(t, s) \subseteq currentObjRefs(object[s].spec, t) \cup Abandoned(t, s)
    BY <2>2 DEF Progress
  <2> QED  BY <2>1, <2>3, ListedAreQualified DEF Abandoned
<1> QED  BY <1>1, InvHolds, PTL

(***************************************************************************)
(* The finalizer does its work: a ResourceSummary that went with one has   *)
(* left nothing registered but what failed reconciliations left behind,    *)
(* whatever the ages of the cache's copy and of the worker's were, and     *)
(* also when a ResourceSummary of the same name was created in between.    *)
(***************************************************************************)
THEOREM FinalizerCleansUp == Spec => []RemovedIsForgotten
<1>1. ReconcilerInv => RemovedIsForgotten
  BY DEF ReconcilerInv, SummaryInv, FinalizerHolds, RemovedIsForgotten, Abandoned
<1> QED  BY <1>1, InvHolds, PTL
=============================================================================
