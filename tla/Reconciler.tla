----------------------------- MODULE Reconciler -----------------------------
(***************************************************************************)
(* The ResourceSummary reconciler                                          *)
(* (controllers/resourcesummary_controller.go and pkg/scope) over the      *)
(* registry of Manager.                                                    *)
(*                                                                         *)
(* A worker reconciles one ResourceSummary at a time, and no two workers   *)
(* the same one.  It reads a copy from the client's cache, registers what  *)
(* the Spec lists type by type and unregisters what the maps hold besides, *)
(* or, for a deletion, unregisters all the maps hold; Close then patches   *)
(* what it has changed in its copy.  step[s] names what comes next:        *)
(*                                                                         *)
(*   idle        no worker has s                                           *)
(*   update      wait for Mux to update the maps                           *)
(*   register    registerResources of the type in hand                     *)
(*   unregister  unregisterResources of the type in hand                   *)
(*   delete      wait for Mux to clean the maps                            *)
(*   clean       cleanMaps of the type in hand                             *)
(*   close       Close, the reconciliation succeeded                       *)
(*   fail        Close, the reconciliation failed                          *)
(*                                                                         *)
(* Of the state read here the evaluator writes the baselines only, and it  *)
(* is here with what leads to such a write; the rest of it, and the        *)
(* informers, which write none, are left to DriftDetection.                *)
(***************************************************************************)
EXTENDS Manager

CONSTANTS
  Specs,        \* what a Spec can list: Specs \subseteq [Types -> [Refs -> Listings]]
  Unqualified,  \* references without a namespace
  Namespaced,   \* GVKs whose objects live in a namespace
  InRelease,    \* InRelease[r]: r in the namespace of the Helm release
  MaxConcurrentReconciles,
  MaxEdits,     \* bound on changes of a Spec and deletions by Sveltos
  MaxChanges    \* bound on objects that come and go

(* Not listed, listed, or listed with IgnoreForConfigurationDrift. *)
Listings == {"no", "tracked", "ignored"}

ASSUME ReconcilerAssumption ==
  /\ Specs \subseteq [Types -> [Refs -> Listings]]
  /\ Unqualified \subseteq Refs /\ Namespaced \subseteq GVKs
  /\ InRelease \in [Refs -> Refs \ Unqualified]
  /\ MaxConcurrentReconciles \in Nat /\ MaxEdits \in Nat /\ MaxChanges \in Nat

VARIABLES
  api,       \* api[s]: the ResourceSummary in the API server, or Gone
  cached,    \* cached[s]: the same in the client's cache
  queued,    \* the work queue of the controller
  ready,     \* managerInstance is set: GetManager finds it
  maps,      \* maps[t][s]: ResourceSummaryMap, KustomizeResourceSummaryMap and
             \* HelmResourceSummaryMap; {} stands for a missing entry too
  mux,       \* who holds Mux, or Absent
  step,
  fetched,   \* fetched[s]: the copy as read, kept by the patch helper
  object,    \* object[s]: the copy the reconciliation changes
  stage,     \* stage[s]: index of the type in hand
  left,      \* left[s]: resources of it still to register or unregister
  got,       \* got[s]: the hashes registered for it
  evaluating, \* the drift the evaluator has found and not stored yet, or Absent
  edits, changes,  \* counters for the bounds
  abandoned, \* history: registrations a failed reconciliation left behind
  unguarded  \* history: ResourceSummaries that went while without finalizer

workerVars  == <<step, fetched, object, stage, left, got>>
sveltosVars == <<api, edits, unguarded>>
vars == <<cluster, faults, managerVars, sveltosVars, cached, queued, ready, maps, mux,
          workerVars, evaluating, changes, abandoned>>

Steps == {"idle", "update", "register", "unregister", "delete", "clean", "close", "fail"}

(* The order of updateMapsAndResourceSummaryStatus and of cleanMaps. *)
TypeOrder == <<"Resource", "Kustomize", "Helm">>

Hashes == [Refs -> Bytes \cup {Absent}]
NoHashes == [r \in Refs |-> Absent]
Drifts == [resource : Refs, hash : Bytes]

ResourceSummaries ==
  [spec : Specs, deleting : BOOLEAN, finalizer : BOOLEAN, hashes : [Types -> Hashes]]

ASSUME SummariesAssumption == Gone \notin ResourceSummaries

NewSummary(spec) ==
  [spec |-> spec, deleting |-> FALSE, finalizer |-> FALSE, hashes |-> [t \in Types |-> NoHashes]]

TypeOK ==
  /\ cluster \in [Refs -> Contents \cup {Gone}]
  /\ faults \in 0..MaxFaults
  /\ RegistryTypeOK
  /\ api \in [Summaries -> ResourceSummaries \cup {Gone}]
  /\ cached \in [Summaries -> ResourceSummaries \cup {Gone}]
  /\ queued \subseteq Summaries
  /\ ready \in BOOLEAN
  /\ maps \in [Types -> [Summaries -> SUBSET Refs]]
  /\ mux \in Summaries \cup {Absent}
  /\ step \in [Summaries -> Steps]
  /\ fetched \in [Summaries -> ResourceSummaries \cup {Gone}]
  /\ object \in [Summaries -> ResourceSummaries \cup {Gone}]
  /\ stage \in [Summaries -> 1..Len(TypeOrder)]
  /\ left \in [Summaries -> SUBSET Refs]
  /\ got \in [Summaries -> Hashes]
  /\ evaluating \in Drifts \cup {Absent}
  /\ edits \in 0..MaxEdits /\ changes \in 0..MaxChanges
  /\ abandoned \subseteq Types \X Refs \X Summaries
  /\ unguarded \subseteq Summaries

(* Sveltos has created the ResourceSummaries before the process starts. *)
Init ==
  /\ cluster \in [Refs -> Contents \cup {Gone}]
  /\ \A r \in Unqualified : GVKOf[r] \in Namespaced => cluster[r] = Gone
  /\ faults = 0
  /\ EmptyManager
  /\ api \in [Summaries -> {NewSummary(spec) : spec \in Specs}]
  /\ cached = [s \in Summaries |-> Gone]
  /\ queued = {} /\ ready = FALSE
  /\ maps = [t \in Types |-> [s \in Summaries |-> {}]]
  /\ mux = Absent
  /\ step = [s \in Summaries |-> "idle"]
  /\ fetched = [s \in Summaries |-> Gone] /\ object = fetched
  /\ stage = [s \in Summaries |-> 1]
  /\ left = [s \in Summaries |-> {}]
  /\ got = [s \in Summaries |-> NoHashes]
  /\ evaluating = Absent
  /\ edits = 0 /\ changes = 0
  /\ abandoned = {} /\ unguarded = {}

-----------------------------------------------------------------------------
(***************************************************************************)
(* What a Spec lists.                                                      *)
(***************************************************************************)
(* getChartResource: a namespaced resource without a namespace gets the one
   of the release. *)
getChartResource(r) ==
  IF r \in Unqualified /\ GVKOf[r] \in Namespaced THEN InRelease[r] ELSE r

(* getResources, getKustomizeResources and getHelmResources *)
Listed(spec, t, how) ==
  LET chosen == {r \in Refs : spec[t][r] \in how}
  IN  IF t = "Helm" THEN {getChartResource(r) : r \in chosen} ELSE chosen

currentObjRefs(spec, t) == Listed(spec, t, {"tracked", "ignored"})
toRegister(spec, t)     == Listed(spec, t, {"tracked"})

(* Some chart lists a resource whose scope discovery has to tell. *)
NeedsMapping(spec) == \E r \in Unqualified : spec["Helm"][r] # "no"

Registered(t, s) == {r \in Refs : s \in requestors[t][r]}

-----------------------------------------------------------------------------
(***************************************************************************)
(* Reconcile.                                                              *)
(***************************************************************************)
Enter(s, next) == step' = [step EXCEPT ![s] = next]

(* The Get, addFinalizer and getHelmResources, before Mux.  The finalizer is
   added to the copy before addFinalizer makes its patch helper, so that patch
   is empty and the API server learns of it from Close. *)
Reconcile(s) ==
  /\ s \in queued /\ step[s] = "idle"
  /\ Cardinality({q \in Summaries : step[q] # "idle"}) < MaxConcurrentReconciles
  /\ queued' = queued \ {s}
  /\ IF cached[s] = Gone
     THEN UNCHANGED <<workerVars, faults>>
     ELSE /\ fetched' = [fetched EXCEPT ![s] = cached[s]]
          /\ IF cached[s].deleting
             THEN /\ object' = [object EXCEPT ![s] = cached[s]]
                  /\ Enter(s, "delete") /\ NoFault
             ELSE /\ object' = [object EXCEPT ![s] = [cached[s] EXCEPT !.finalizer = TRUE]]
                  /\ \/ Enter(s, "update") /\ NoFault
                     \/ NeedsMapping(cached[s].spec) /\ Fault /\ Enter(s, "fail")
          /\ UNCHANGED <<stage, left, got>>
  /\ UNCHANGED <<cluster, managerVars, sveltosVars, cached, ready, maps, mux, evaluating,
                 changes, abandoned>>

(* The work of a worker that holds Mux. *)
MuxFrame ==
  UNCHANGED <<cluster, sveltosVars, cached, queued, ready, fetched, evaluating, changes>>

(* Mutant: what the map holds is taken for registered. *)
RegistersOnlyNew(s, i) ==
  /\ stage' = [stage EXCEPT ![s] = i]
  /\ left' = [left EXCEPT ![s] =
       IF step'[s] = "clean" THEN maps'[TypeOrder[i]][s]
       ELSE toRegister(object[s].spec, TypeOrder[i]) \ maps[TypeOrder[i]][s]]
  /\ got' = [got EXCEPT ![s] = NoHashes]

(* updateMapsForResourceType and cleanMaps begin with a type. *)
Begin(s, i) ==
  /\ stage' = [stage EXCEPT ![s] = i]
  /\ left' = [left EXCEPT ![s] =
       IF step'[s] = "clean" THEN maps'[TypeOrder[i]][s]
       ELSE toRegister(object[s].spec, TypeOrder[i])]
  /\ got' = [got EXCEPT ![s] = NoHashes]

Leave(s, next) ==
  /\ Enter(s, next) /\ mux' = Absent
  /\ stage' = [stage EXCEPT ![s] = 1]
  /\ left' = [left EXCEPT ![s] = {}]
  /\ got' = [got EXCEPT ![s] = NoHashes]

Lock(s) ==
  /\ mux = Absent
  /\ mux' = s
  /\ \/ step[s] = "update" /\ Enter(s, "register")
     \/ step[s] = "delete" /\ Enter(s, "clean")
  /\ UNCHANGED maps /\ Begin(s, 1)
  /\ MuxFrame /\ UNCHANGED <<managerVars, faults, object, abandoned>>

(* Mutant: the error return forgets to unlock. *)
NoManagerKeepsMux(s) ==
  /\ step[s] = "register" /\ ~ready
  /\ Enter(s, "fail")
  /\ MuxFrame /\ UNCHANGED <<managerVars, faults, maps, object, mux, stage, left, got, abandoned>>

(* registerResources: GetManager fails before InitializeManager is done. *)
NoManager(s) ==
  /\ step[s] = "register" /\ ~ready
  /\ Leave(s, "fail")
  /\ MuxFrame /\ UNCHANGED <<managerVars, faults, maps, object, abandoned>>

(* registerResources, one iteration: an error that is not a NotFound ends the
   reconciliation, and what it registered of the type is in no map. *)
registerResources(s, r, out) ==
  LET t == TypeOrder[stage[s]]
  IN  /\ step[s] = "register" /\ ready /\ r \in left[s]
      /\ RegisterResource(r, t, s, out)
      /\ IF out \in Errors
         THEN /\ Leave(s, "fail")
              /\ abandoned' = abandoned \cup
                   {<<t, q, s>> : q \in {p \in Refs : s \in requestors'[t][p]} \ maps[t][s]}
         ELSE /\ left' = [left EXCEPT ![s] = @ \ {r}]
              /\ got' = [got EXCEPT ![s][r] =
                           Hex(IF out = "notFound" THEN NoBytes
                               ELSE RegisteredHash(r, s, out))]
              /\ UNCHANGED <<step, mux, stage, abandoned>>
      /\ MuxFrame /\ UNCHANGED <<maps, object>>

(* Mutant: the map is set before the difference with it is taken. *)
DiffAfterUpdate(s) ==
  LET t == TypeOrder[stage[s]]
  IN  /\ step[s] = "register" /\ ready /\ left[s] = {}
      /\ Enter(s, "unregister")
      /\ maps' = [maps EXCEPT ![t][s] = currentObjRefs(object[s].spec, t)]
      /\ left' = [left EXCEPT ![s] = {}]
      /\ MuxFrame /\ UNCHANGED <<managerVars, faults, object, mux, stage, got, abandoned>>

(* Mutant: the difference is taken the other way round. *)
DiffReversed(s) ==
  LET t == TypeOrder[stage[s]]
  IN  /\ step[s] = "register" /\ ready /\ left[s] = {}
      /\ Enter(s, "unregister")
      /\ left' = [left EXCEPT ![s] = currentObjRefs(object[s].spec, t) \ maps[t][s]]
      /\ MuxFrame
      /\ UNCHANGED <<managerVars, faults, maps, object, mux, stage, got, abandoned>>

(* All are registered: what the map holds besides is to be unregistered. *)
Difference(s) ==
  LET t == TypeOrder[stage[s]]
  IN  /\ step[s] = "register" /\ ready /\ left[s] = {}
      /\ Enter(s, "unregister")
      /\ left' = [left EXCEPT ![s] = maps[t][s] \ currentObjRefs(object[s].spec, t)]
      /\ MuxFrame
      /\ UNCHANGED <<managerVars, faults, maps, object, mux, stage, got, abandoned>>

(* unregisterResources, one iteration *)
unregisterResources(s, r) ==
  LET t == TypeOrder[stage[s]]
  IN  /\ step[s] \in {"unregister", "clean"} /\ r \in left[s]
      /\ UnRegisterResource(r, t, s)
      /\ left' = [left EXCEPT ![s] = @ \ {r}]
      /\ abandoned' = abandoned \ {<<t, r, s>>}
      /\ MuxFrame /\ UNCHANGED <<maps, object, step, mux, stage, got>>

(* The end of updateMapsForResourceType: the copy's hash list and the map. *)
setMapValue(s) ==
  LET t == TypeOrder[stage[s]]  now == currentObjRefs(object[s].spec, t)
  IN  /\ step[s] = "unregister" /\ left[s] = {}
      /\ object' = [object EXCEPT ![s].hashes[t] = got[s]]
      /\ maps' = [maps EXCEPT ![t][s] = now]
      /\ abandoned' = abandoned \ {<<t, r, s>> : r \in now}
      /\ IF stage[s] < Len(TypeOrder)
         THEN UNCHANGED mux /\ Enter(s, "register") /\ Begin(s, stage[s] + 1)
         ELSE Leave(s, "close")
      /\ MuxFrame /\ UNCHANGED <<managerVars, faults>>

(* Mutant: cleanMaps does not know of the Kustomize resources. *)
CleanSkipsKustomize(s) ==
  LET t == TypeOrder[stage[s]]
  IN  /\ step[s] = "clean" /\ left[s] = {}
      /\ maps' = [maps EXCEPT ![t][s] = {}]
      /\ IF stage[s] = 1
         THEN UNCHANGED <<step, mux, object>> /\ Begin(s, 3)
         ELSE /\ Leave(s, "close")
              /\ object' = [object EXCEPT ![s].finalizer = FALSE]
      /\ MuxFrame /\ UNCHANGED <<managerVars, faults, abandoned>>

(* cleanMaps, the end of a type, and reconcileDelete after the last. *)
removeMapEntry(s) ==
  LET t == TypeOrder[stage[s]]
  IN  /\ step[s] = "clean" /\ left[s] = {}
      /\ maps' = [maps EXCEPT ![t][s] = {}]
      /\ IF stage[s] < Len(TypeOrder)
         THEN UNCHANGED <<step, mux, object>> /\ Begin(s, stage[s] + 1)
         ELSE /\ Leave(s, "close")
              /\ object' = [object EXCEPT ![s].finalizer = FALSE]
      /\ MuxFrame /\ UNCHANGED <<managerVars, faults, abandoned>>

(* Close: the patch helper compares the copy with what was read and sends the
   finalizers and each hash list that differ, without a resourceVersion.  The
   two patches fail or not each for itself; an error puts s back in the queue. *)
Changed(s) ==
  (IF object[s].finalizer # fetched[s].finalizer THEN {"metadata"} ELSE {}) \cup
  (IF object[s].hashes # fetched[s].hashes THEN {"status"} ELSE {})

Patched(s, parts) ==
  LET new == [api[s] EXCEPT
        !.finalizer = IF "metadata" \in parts THEN object[s].finalizer ELSE @,
        !.hashes    = IF "status" \in parts
                      THEN [t \in Types |-> IF object[s].hashes[t] # fetched[s].hashes[t]
                                            THEN object[s].hashes[t] ELSE @[t]]
                      ELSE @]
  IN  IF new.deleting /\ ~new.finalizer THEN Gone ELSE new

Close(s) ==
  /\ step[s] \in {"close", "fail"}
  /\ \E saved \in SUBSET Changed(s) :
       /\ api[s] = Gone => saved = {}
       /\ IF saved = Changed(s) \/ api[s] = Gone THEN NoFault ELSE Fault
       /\ api' = IF saved = {} THEN api ELSE [api EXCEPT ![s] = Patched(s, saved)]
       /\ queued' = IF step[s] = "fail" \/ saved # Changed(s) THEN queued \cup {s} ELSE queued
  /\ Enter(s, "idle")
  /\ fetched' = [fetched EXCEPT ![s] = Gone]
  /\ object' = [object EXCEPT ![s] = Gone]
  /\ UNCHANGED <<cluster, managerVars, edits, unguarded, cached, ready, maps, mux, stage,
                 left, got, evaluating, changes, abandoned>>

Working(s) ==
  \/ Reconcile(s) \/ NoManager(s) \/ Difference(s) \/ setMapValue(s) \/ removeMapEntry(s)
  \/ Close(s)
  \/ \E r \in Refs : unregisterResources(s, r) \/ \E out \in Outcomes : registerResources(s, r, out)

-----------------------------------------------------------------------------
(***************************************************************************)
(* The evaluator as a writer of baselines.  Any resource with an entry may *)
(* be queued for it; an evaluation that fails or finds no drift writes     *)
(* nothing and is left out.                                                *)
(***************************************************************************)
evaluatorFrame ==
  <<cluster, faults, sveltosVars, cached, queued, ready, maps, mux, workerVars, changes,
    abandoned>>

(* evaluateResource finds the object missing, or with another hash under the
   patches it has collected. *)
evaluateResource(r) ==
  /\ ready /\ evaluating = Absent /\ resourceHashes[r] # Absent
  /\ \E h \in IF cluster[r] = Gone THEN {NoBytes}
              ELSE {unstructuredHash(cluster[r], p) : p \in SUBSET Patches} :
       /\ h = NoBytes \/ h # resourceHashes[r]
       /\ evaluating' = [resource |-> r, hash |-> h]
  /\ UNCHANGED <<managerVars, evaluatorFrame>>

(* It stores what it found, whatever was unregistered, registered or changed
   meanwhile. *)
updateResourceHash ==
  /\ evaluating # Absent
  /\ resourceHashes' = [resourceHashes EXCEPT ![evaluating.resource] = evaluating.hash]
  /\ evaluating' = Absent
  /\ UNCHANGED <<requestors, gvkResources, watchers, jobQueue, informerVars, evaluatorFrame>>

Evaluator == updateResourceHash \/ \E r \in Refs : evaluateResource(r)

-----------------------------------------------------------------------------
(***************************************************************************)
(* The client's cache, the start of the manager, Sveltos, the cluster.     *)
(***************************************************************************)
workFrame == <<managerVars, faults, maps, mux, workerVars, evaluating, abandoned>>

CacheSync(s) ==
  /\ cached[s] # api[s]
  /\ cached' = [cached EXCEPT ![s] = api[s]]
  /\ queued' = queued \cup {s}
  /\ UNCHANGED <<cluster, sveltosVars, ready, workFrame, changes>>

(* Every SyncPeriod the cache hands out all it holds again. *)
Resync(s) ==
  /\ cached[s] # Gone /\ s \notin queued
  /\ queued' = queued \cup {s}
  /\ UNCHANGED <<cluster, sveltosVars, cached, ready, workFrame, changes>>

(* InitializeManager: there is no saved hash to read yet. *)
InitializeManager ==
  /\ ~ready /\ ready' = TRUE
  /\ UNCHANGED <<cluster, sveltosVars, cached, queued, workFrame, changes>>

SveltosFrame == UNCHANGED <<cluster, cached, queued, ready, workFrame, changes>>

Edit == edits < MaxEdits /\ edits' = edits + 1

CreateSummary(s) ==
  /\ api[s] = Gone
  /\ \E spec \in Specs : api' = [api EXCEPT ![s] = NewSummary(spec)]
  /\ unguarded' = unguarded \ {s}
  /\ UNCHANGED edits /\ SveltosFrame

UpdateSummary(s) ==
  /\ api[s] # Gone /\ ~api[s].deleting
  /\ \E spec \in Specs \ {api[s].spec} : api' = [api EXCEPT ![s].spec = spec]
  /\ UNCHANGED unguarded
  /\ Edit /\ SveltosFrame

(* Without a finalizer the object goes at once. *)
DeleteSummary(s) ==
  /\ api[s] # Gone /\ ~api[s].deleting
  /\ IF api[s].finalizer
     THEN api' = [api EXCEPT ![s].deleting = TRUE] /\ UNCHANGED unguarded
     ELSE api' = [api EXCEPT ![s] = Gone] /\ unguarded' = unguarded \cup {s}
  /\ Edit /\ SveltosFrame

Sveltos == \E s \in Summaries : CreateSummary(s) \/ UpdateSummary(s) \/ DeleteSummary(s)

ChangeObject(r) ==
  /\ changes < MaxChanges /\ changes' = changes + 1
  /\ r \in Unqualified => GVKOf[r] \notin Namespaced
  /\ \E c \in (Contents \cup {Gone}) \ {cluster[r]} : cluster' = [cluster EXCEPT ![r] = c]
  /\ UNCHANGED <<sveltosVars, cached, queued, ready, workFrame>>

Next ==
  \/ \E s \in Summaries : Working(s) \/ Lock(s) \/ CacheSync(s) \/ Resync(s)
  \/ InitializeManager \/ Sveltos \/ Evaluator
  \/ \E r \in Refs : ChangeObject(r)

Spec == Init /\ [][Next]_vars

(***************************************************************************)
(* Fairness: a worker that has s goes on, a queued s gets a worker, Go's   *)
(* mutex starves nobody, the cache catches up and resyncs, main retries    *)
(* InitializeManager.  Nothing makes the evaluator act.                    *)
(***************************************************************************)
FairSpec ==
  /\ Spec
  /\ \A s \in Summaries :
       WF_vars(Working(s)) /\ SF_vars(Lock(s)) /\ WF_vars(CacheSync(s)) /\ WF_vars(Resync(s))
  /\ WF_vars(InitializeManager)

-----------------------------------------------------------------------------
(***************************************************************************)
(* Properties.                                                             *)
(***************************************************************************)
(* A worker has a copy of its ResourceSummary from the Get to Close, and holds
   Mux exactly while it updates or cleans the maps, whichever way it returns. *)
WorkerShape ==
  /\ TypeOK
  /\ \A s \in Summaries :
       /\ step[s] = "idle" <=> object[s] = Gone
       /\ object[s] = Gone <=> fetched[s] = Gone
       /\ mux = s <=> step[s] \in {"register", "unregister", "clean"}

InHand(t, s) == step[s] \in {"register", "unregister"} /\ TypeOrder[stage[s]] = t

(* What is registered for a ResourceSummary is in the reconciler's maps, the
   only thing that will ever unregister it, unless it is being registered or
   a failed reconciliation left it behind. *)
RegisteredIsMapped ==
  \A s \in Summaries, t \in Types : ~InHand(t, s) =>
    \A r \in Registered(t, s) : r \in maps[t][s] \/ <<t, r, s>> \in abandoned

Qualified(t, r) == t = "Helm" /\ r \in Unqualified => GVKOf[r] \notin Namespaced

(* A reconciliation that succeeds has registered all the Spec it read asks
   for, under the reference with its namespace, and of what earlier Specs
   listed nothing is left but failed registrations. *)
ReconciledIsListed ==
  \A s \in Summaries, t \in Types :
    step[s] = "close" /\ ~object[s].deleting =>
      /\ toRegister(object[s].spec, t) \subseteq Registered(t, s)
      /\ \A r \in Registered(t, s) :
           \/ r \in currentObjRefs(object[s].spec, t) /\ Qualified(t, r)
           \/ <<t, r, s>> \in abandoned

(* The finalizer holds a ResourceSummary until all its reconciliations
   registered is unregistered: one that is gone has left nothing, unless it
   went without a finalizer or a reconciliation of it failed. *)
RemovedIsForgotten ==
  \A s \in Summaries : api[s] = Gone /\ step[s] = "idle" /\ s \notin unguarded =>
    \A t \in Types : \A r \in Registered(t, s) : <<t, r, s>> \in abandoned

(* A listed resource that exists is tracked in the end, with an entry in
   resourceHashes, also when it was missing, the manager was not ready or a
   call failed when the ResourceSummary was reconciled first, and whatever the
   evaluator stores meanwhile.  The entry may be the empty hash the evaluator
   stored while the object was missing: that such an entry catches up is what
   the code does not do (AddNeedsNothing of DriftDetection). *)
Asked(t, r, s) ==
  /\ api[s] # Gone /\ ~api[s].deleting
  /\ r \in toRegister(api[s].spec, t) /\ cluster[r] # Gone

HasEntry(t, r, s) == s \in requestors[t][r] /\ resourceHashes[r] # Absent

Lacking(s) == \E t \in Types, r \in Refs : Asked(t, r, s) /\ ~HasEntry(t, r, s)

ListedIsTracked == \A s \in Summaries : []<>~Lacking(s)

(* addFinalizer: "Register the finalizer immediately to avoid orphaning
   resourcesummaries resources on delete".  Without the exception for a
   ResourceSummary that went without a finalizer. *)
NothingOrphaned ==
  \A s \in Summaries :
    api[s] = Gone /\ cached[s] = Gone /\ step[s] = "idle" /\ s \notin queued =>
      \A t \in Types : \A r \in Registered(t, s) : <<t, r, s>> \in abandoned
=============================================================================
