------------------------------ MODULE Manager ------------------------------
(***************************************************************************)
(* The registry of the drift-detection manager and its informers           *)
(* (pkg/drift-detection/manager.go and watcher.go).                        *)
(*                                                                         *)
(* Clients register and unregister (resource, type, ResourceSummary)       *)
(* triples.  The registry remembers who asked, a baseline hash per         *)
(* resource, and keeps one informer per GVK with a resource to watch.      *)
(* Every operation holds m.mu from start to end, so it is one action; an   *)
(* informer delivers its notifications from goroutines of its own and only *)
(* takes the lock in react.                                                *)
(*                                                                         *)
(* An action here constrains the variables of this module only; the module *)
(* that composes it says what the rest does.                               *)
(***************************************************************************)
EXTENDS DriftTypes

CONSTANT MaxFaults      \* bound on failed calls to the API server

ASSUME MaxFaultsAssumption == MaxFaults \in Nat

VARIABLES
  cluster,         \* cluster[r]: what the API server holds for r, or Gone
  faults,          \* API calls that failed so far
  requestors,      \* requestors[t][r]: m.resources, m.helmResources and
                   \* m.kustomizeResources; {} is a missing key
  resourceHashes,  \* resourceHashes[r]: the baseline, or Absent
  gvkResources,    \* gvkResources[g]: the resources watched through g, or Absent
  watchers,        \* keys of m.watchers
  jobQueue,        \* resources to evaluate
  view,            \* view[r]: r in the store of the informer of its GVK
  behind,          \* objects written since the informer last saw them
  inflight         \* notifications handed to react and waiting for m.mu

registryVars == <<requestors, resourceHashes, gvkResources, watchers>>
informerVars == <<view, behind, inflight>>
managerVars  == <<registryVars, jobQueue, informerVars>>

RegistryTypeOK ==
  /\ requestors \in [Types -> [Refs -> SUBSET Summaries]]
  /\ resourceHashes \in [Refs -> Bytes \cup {Absent}]
  /\ gvkResources \in [GVKs -> (SUBSET Refs) \cup {Absent}]
  /\ watchers \subseteq GVKs
  /\ jobQueue \subseteq Refs
  /\ view \in [Refs -> {"unlisted", "present", "missing"}]
  /\ behind \subseteq Refs /\ inflight \subseteq Refs

(* InitializeManager: every map of a new manager is empty. *)
EmptyManager ==
  /\ requestors = [t \in Types |-> [r \in Refs |-> {}]]
  /\ resourceHashes = [r \in Refs |-> Absent]
  /\ gvkResources = [g \in GVKs |-> Absent]
  /\ watchers = {}
  /\ jobQueue = {}
  /\ view = [r \in Refs |-> "unlisted"]
  /\ behind = {} /\ inflight = {}

(***************************************************************************)
(* An API call may fail for reasons of its own (network, throttling).      *)
(***************************************************************************)
Fault   == faults < MaxFaults /\ faults' = faults + 1
NoFault == UNCHANGED faults

(***************************************************************************)
(* Registration.                                                           *)
(***************************************************************************)
trackResource(r, t, s) ==
  requestors' = [requestors EXCEPT ![t][r] = @ \cup {s}]

(* Mutant: the types that came later are forgotten. *)
StillTrackingAsResource(who, r) == who["Resource"][r] # {}

stillTrackingResource(who, r) == \E t \in Types : who[t][r] # {}

(* How a call to RegisterResource can end. *)
Outcomes == {"known", "notFound", "failed", "startFailed", "watched"}

(* The errors that are not a NotFound. *)
Errors == {"failed", "startFailed"}

(* startWatcher: an informer that cannot be set up is an error, unless the
   GVK has one already. *)
startWatcher(g, ok) ==
  /\ ok \/ g \notin watchers
  /\ watchers' = IF ok THEN watchers \cup {g} ELSE watchers

(* Mutant: the watcher is recorded before it is known to have started. *)
WatcherRecordedFirst(r, ok) ==
  LET g     == GVKOf[r]
      known == gvkResources[g] # Absent
  IN  /\ ok \/ (~known /\ g \notin watchers)
      /\ watchers' = IF known THEN watchers ELSE watchers \cup {g}
      /\ gvkResources' = [gvkResources EXCEPT
                            ![g] = (IF known THEN @ ELSE {}) \cup IF ok THEN {r} ELSE {}]

(* updateGVKMapAndStartWatcher: the entry of a new GVK is created before its
   watcher starts, and stays, empty, if the watcher does not. *)
updateGVKMapAndStartWatcher(r, ok) ==
  LET g     == GVKOf[r]
      known == gvkResources[g] # Absent
  IN  /\ IF known THEN ok /\ UNCHANGED watchers ELSE startWatcher(g, ok)
      /\ gvkResources' = [gvkResources EXCEPT
                            ![g] = (IF known THEN @ ELSE {}) \cup (IF ok THEN {r} ELSE {})]

(* What RegisterResource does to the registry, the baseline aside. *)
RegisterMaps(r, t, s, out) ==
  /\ trackResource(r, t, s)
  /\ (out = "known") <=> (resourceHashes[r] # Absent)
  /\ out = "notFound" => cluster[r] = Gone
  /\ out \in {"watched", "startFailed"} => cluster[r] # Gone
  /\ IF out \in Errors THEN Fault ELSE NoFault
  /\ IF out \in {"watched", "startFailed"}
     THEN updateGVKMapAndStartWatcher(r, out = "watched")
     ELSE UNCHANGED <<gvkResources, watchers>>

(* The baseline RegisterResource leaves, which is also what it returns: the
   hash under the patches of the ResourceSummary that registers. *)
RegisteredHash(r, s, out) ==
  IF out \in {"watched", "startFailed"}
  THEN unstructuredHash(cluster[r], PatchesOf[s])
  ELSE resourceHashes[r]

RegisterResource(r, t, s, out) ==
  /\ RegisterMaps(r, t, s, out)
  /\ resourceHashes' = [resourceHashes EXCEPT ![r] = RegisteredHash(r, s, out)]
  /\ UNCHANGED <<jobQueue, informerVars>>

(* Mutant: the watcher of a GVK outlives its last resource. *)
StopKeepsWatcher(r) ==
  LET g    == GVKOf[r]
      left == gvkResources[g] \ {r}
  IN  /\ resourceHashes' = [resourceHashes EXCEPT ![r] = Absent]
      /\ gvkResources' = IF gvkResources[g] = Absent THEN gvkResources
                         ELSE [gvkResources EXCEPT ![g] = IF left = {} THEN Absent ELSE left]
      /\ UNCHANGED <<watchers, view, behind>>

(* Mutant: the GVK entry keeps a resource as long as others are in it. *)
StopForgetsErase(r) ==
  LET g    == GVKOf[r]
      last == gvkResources[g] = {r}
  IN  /\ resourceHashes' = [resourceHashes EXCEPT ![r] = Absent]
      /\ gvkResources' = IF last THEN [gvkResources EXCEPT ![g] = Absent] ELSE gvkResources
      /\ watchers' = IF last THEN watchers \ {g} ELSE watchers
      /\ view' = IF last THEN [q \in Refs |-> "unlisted"] ELSE view
      /\ behind' = IF last THEN {} ELSE behind

(* stopWatcher: the informer is cancelled and its store dropped; what it has
   already handed to react is still served. *)
stopWatcher(g) ==
  /\ view' = [q \in Refs |-> IF GVKOf[q] = g THEN "unlisted" ELSE view[q]]
  /\ behind' = {q \in behind : GVKOf[q] # g}

(* Mutant: the watcher of a GVK stops with any of its resources. *)
StopsSharedWatcher(r) ==
  LET g    == GVKOf[r]
      left == gvkResources[g] \ {r}
  IN  /\ resourceHashes' = [resourceHashes EXCEPT ![r] = Absent]
      /\ IF gvkResources[g] = Absent
         THEN UNCHANGED <<gvkResources, watchers, view, behind>>
         ELSE /\ gvkResources' = [gvkResources EXCEPT ![g] = IF left = {} THEN Absent ELSE left]
              /\ stopWatcher(g)
              /\ watchers' = watchers \ {g}

(* stopTrackingResource: the watcher of a GVK stops with its last resource. *)
stopTrackingResource(r) ==
  LET g    == GVKOf[r]
      left == gvkResources[g] \ {r}
  IN  /\ resourceHashes' = [resourceHashes EXCEPT ![r] = Absent]
      /\ IF gvkResources[g] = Absent
         THEN UNCHANGED <<gvkResources, watchers, view, behind>>
         ELSE IF left # {}
         THEN /\ gvkResources' = [gvkResources EXCEPT ![g] = left]
              /\ UNCHANGED <<watchers, view, behind>>
         ELSE /\ gvkResources' = [gvkResources EXCEPT ![g] = Absent]
              /\ stopWatcher(g)
              /\ watchers' = watchers \ {g}

UnRegisterResource(r, t, s) ==
  /\ IF requestors[t][r] = {}
     THEN UNCHANGED <<registryVars, view, behind>>
     ELSE /\ requestors' = [requestors EXCEPT ![t][r] = @ \ {s}]
          /\ IF stillTrackingResource(requestors', r)
             THEN UNCHANGED <<resourceHashes, gvkResources, watchers, view, behind>>
             ELSE stopTrackingResource(r)
  /\ UNCHANGED <<jobQueue, inflight, faults>>

(***************************************************************************)
(* Informers.  The first List hands every object to AddFunc, which does    *)
(* nothing; afterwards an update or a deletion goes to react.  An informer *)
(* that lags delivers the changes of an object it has missed as one event. *)
(***************************************************************************)
Seen(r) == IF cluster[r] = Gone THEN "missing" ELSE "present"

InformerList(g) ==
  /\ g \in watchers
  /\ \E r \in Refs : GVKOf[r] = g /\ view[r] = "unlisted"
  /\ view' = [r \in Refs |-> IF GVKOf[r] = g THEN Seen(r) ELSE view[r]]
  /\ behind' = {r \in behind : GVKOf[r] # g}
  /\ UNCHANGED <<registryVars, jobQueue, inflight, faults>>

(* AddFunc: the object reappeared. *)
Reappeared(r) == view[r] = "missing" /\ cluster[r] # Gone

InformerAdd(r) ==
  /\ r \in behind /\ Reappeared(r)
  /\ view' = [view EXCEPT ![r] = "present"]
  /\ behind' = behind \ {r}
  /\ UNCHANGED <<registryVars, jobQueue, inflight, faults>>

(* The informer finds out by listing again after its watch broke.  Of an object
   it had it hands DeleteFunc a tombstone, cache.DeletedFinalStateUnknown, react
   makes no key of it and returns; of one that came and went nobody is told. *)
InformerTombstone(r) ==
  /\ r \in behind /\ cluster[r] = Gone
  /\ view' = [view EXCEPT ![r] = "missing"]
  /\ behind' = behind \ {r}
  /\ UNCHANGED <<registryVars, jobQueue, inflight, faults>>

(* UpdateFunc and DeleteFunc. *)
InformerNotify(r) ==
  /\ r \in behind /\ ~Reappeared(r)
  /\ view' = [view EXCEPT ![r] = Seen(r)]
  /\ behind' = behind \ {r}
  /\ inflight' = inflight \cup {r}
  /\ UNCHANGED <<registryVars, jobQueue, faults>>

checkForConfigurationDrift(r) == jobQueue' = jobQueue \cup {r}

(* react looks into m.resources and m.helmResources. *)
ReactsTo(r) == requestors["Resource"][r] # {} \/ requestors["Helm"][r] # {}

(* Mutant: react does not look at Helm resources either. *)
ReactIgnoresHelm(r) ==
  /\ r \in inflight
  /\ inflight' = inflight \ {r}
  /\ jobQueue' = IF requestors["Resource"][r] # {} THEN jobQueue \cup {r} ELSE jobQueue
  /\ UNCHANGED <<registryVars, view, behind, faults>>

react(r) ==
  /\ r \in inflight
  /\ inflight' = inflight \ {r}
  /\ IF ReactsTo(r) THEN checkForConfigurationDrift(r) ELSE UNCHANGED jobQueue
  /\ UNCHANGED <<registryVars, view, behind, faults>>
=============================================================================
