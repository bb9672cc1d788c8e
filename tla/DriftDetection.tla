--------------------------- MODULE DriftDetection ---------------------------
(***************************************************************************)
(* The drift-detection manager at work: the registry and its informers     *)
(* (Manager), the evaluator (DriftEvaluation), the rebuild of the registry *)
(* from ResourceSummary status when the process starts                     *)
(* (readResourceSummaries), and what surrounds them:                       *)
(*   - the ResourceSummary reconciler, as the client that registers and    *)
(*     unregisters resources and saves the hashes it gets back in status;  *)
(*   - the cluster, whose objects anyone may change;                       *)
(*   - Sveltos in the management cluster, which creates and deletes        *)
(*     ResourceSummaries and clears the flags it has acted on;             *)
(*   - crashes of the process.                                             *)
(***************************************************************************)
EXTENDS DriftEvaluation

CONSTANTS
  Claims,       \* <<type, resource, ResourceSummary>> the reconciler may register
  MaxChanges,   \* bound on changes to cluster objects
  MaxWrites,    \* bound on what Sveltos writes to and deletes of ResourceSummaries
  MaxRestarts   \* bound on crashes

ASSUME FiniteAssumption == IsFiniteSet(Refs) /\ IsFiniteSet(Summaries)
ASSUME ClaimsAssumption == Claims \subseteq Types \X Refs \X Summaries
ASSUME BoundsAssumption ==
  MaxChanges \in Nat /\ MaxWrites \in Nat /\ MaxRestarts \in Nat

VARIABLES
  mode,       \* "down", "reading" (readResourceSummaries) or "running"
  todo,       \* status entries readResourceSummaries has still to process
  claimed,    \* claims in the reconciler's maps
  registering, \* claims a reconciliation has registered, not in the maps yet
  dirty,      \* claims whose status entry the reconciler has not saved yet
  returned,   \* what it will save for them: a hash, or Absent to drop the entry
  changes, writes, restarts,  \* counters for the bounds
  blind,      \* history: see Blind spots
  owed        \* history: <<resource, ResourceSummary>>, a drift stored as the new
              \* baseline of which the ResourceSummary has not been told

processVars == <<mode, todo>>
clientVars  == <<claimed, registering, dirty, returned>>
countVars   == <<changes, writes, restarts>>
historyVars == <<blind, owed>>

vars == <<cluster, faults, managerVars, summary, current, evalVars,
          processVars, clientVars, countVars, historyVars>>

(* An entry of the ResourceHashes, KustomizeResourceHashes or
   HelmResourceHashes of a ResourceSummary status. *)
Entries == [type : Types, resource : Refs, summary : Summaries, hash : Bytes]

TypeOK ==
  /\ cluster \in [Refs -> Contents \cup {Gone}]
  /\ faults \in 0..MaxFaults
  /\ RegistryTypeOK
  /\ summary \in [Summaries -> SummaryObjects \cup {Gone}]
  /\ EvaluationTypeOK
  /\ mode \in {"down", "reading", "running"}
  /\ todo \in Seq(Entries)
  /\ claimed \subseteq Claims /\ registering \subseteq Claims /\ dirty \subseteq Claims
  /\ returned \in [Claims -> Bytes \cup {Absent}]
  /\ changes \in 0..MaxChanges /\ writes \in 0..MaxWrites
  /\ restarts \in 0..MaxRestarts
  /\ blind \subseteq Refs /\ owed \subseteq Refs \X Summaries

Tracked(r) == stillTrackingResource(requestors, r)

Init ==
  /\ cluster \in [Refs -> Contents \cup {Gone}]
  /\ faults = 0
  /\ EmptyManager
  /\ summary = [s \in Summaries |-> FreshSummary]
  /\ EvaluatorStarts
  /\ mode = "down" /\ todo = <<>>
  /\ claimed = {} /\ registering = {} /\ dirty = {}
  /\ returned = [c \in Claims |-> Absent]
  /\ changes = 0 /\ writes = 0 /\ restarts = 0
  /\ blind = {} /\ owed = {}

-----------------------------------------------------------------------------
(***************************************************************************)
(* Blind spots.  blind holds the resources whose present state the manager *)
(* may never be told about, because no fetch of it lies ahead and          *)
(*   - it changed after its baseline was taken and before the informer's   *)
(*     first List, or was deleted and created again: both are Adds;        *)
(*   - it was deleted while the informer's watch was broken;               *)
(*   - its notification was dropped by react;                              *)
(*   - it was unregistered after the evaluator fetched it, or read its     *)
(*     baseline, so the evaluator goes on with, and stores, what belongs   *)
(*     to an earlier registration.                                         *)
(* An evaluation that starts from the current baseline, or a registration  *)
(* that takes a new one, ends it.                                          *)
(***************************************************************************)
FetchAhead(r) ==
  \/ r \in inflight \cup jobQueue \cup batch \cup failed
  \/ r = ref /\ pc = "fetch"

Fetched(r) == r = ref /\ pc \in {"patches", "store"}

UnseenChange(r) ==
  blind' = IF resourceHashes[r] # Absent /\ ~FetchAhead(r) THEN blind \cup {r} ELSE blind

FetchEndsBlindness ==
  blind' = IF resourceHashes[ref] = hash THEN blind \ {ref} ELSE blind \cup {ref}

Matches(b, content) ==
  IF content = Gone THEN b = NoBytes
  ELSE \E p \in SUBSET Patches : b = unstructuredHash(content, p)

-----------------------------------------------------------------------------
(***************************************************************************)
(* The reconciler.  One call of RegisterResource or UnRegisterResource per *)
(* step.  The maps and the status learn of the resources of a type once    *)
(* all of them are registered; nobody but the reconciliation of the same   *)
(* ResourceSummary reads its map entry, so the maps are written with the   *)
(* status, when the reconciliation closes its scope.                       *)
(***************************************************************************)
(* What Close will save for a claim: a patch carries only what differs. *)
Save(c, h) ==
  LET same == summary[c[3]] # Gone /\ summary[c[3]].hashes[c[1]][c[2]] = h
  IN  /\ dirty' = IF same THEN dirty \ {c} ELSE dirty \cup {c}
      /\ returned' = [returned EXCEPT ![c] = IF same THEN Absent ELSE h]

(* An error ends the reconciliation.  What it registered of the type stays
   registered, and neither the maps nor the status learn of it. *)
Abandon(t, s) ==
  LET lost == {c \in Claims : c[1] = t /\ c[3] = s}
  IN  /\ registering' = registering \ lost
      /\ dirty' = dirty \ lost
      /\ returned' = [c \in Claims |-> IF c \in lost THEN Absent ELSE returned[c]]

(* updateMapsForResourceType unregisters after it has registered: what follows
   an unregistration is the end of the reconciliation, or another type. *)
Unregistering(t, s) ==
  \E c \in dirty : c[1] = t /\ c[3] = s /\ returned[c] = Absent

(* registerResources, one iteration: a NotFound is not an error, the empty
   hash is saved. *)
registerResources(c, out) ==
  LET t == c[1]  r == c[2]  s == c[3]
  IN  /\ mode = "running" /\ summary[s] # Gone /\ ~Unregistering(t, s)
      /\ RegisterResource(r, t, s, out)
      /\ IF out \in Errors
         THEN Abandon(t, s)
         ELSE /\ registering' = registering \cup ({c} \ claimed)
              /\ Save(c, Hex(IF out = "notFound" THEN NoBytes
                             ELSE RegisteredHash(r, s, out)))
      /\ blind' = IF out = "watched" /\ ~Fetched(r) THEN blind \ {r} ELSE blind
      /\ UNCHANGED <<cluster, summary, current, evalVars, processVars, claimed, countVars,
                     owed>>

(* unregisterResources, one iteration: a claim of an earlier reconciliation. *)
unregisterResources(c) ==
  LET t == c[1]  r == c[2]  s == c[3]
  IN  /\ mode = "running" /\ c \in claimed
      /\ UnRegisterResource(r, t, s)
      /\ claimed' = claimed \ {c}
      /\ Save(c, Absent)
      /\ blind' = IF stillTrackingResource(requestors', r) \/ ~Fetched(r)
                  THEN blind ELSE blind \cup {r}
      /\ owed' = owed \ {<<r, s>>}
      /\ UNCHANGED <<cluster, summary, current, evalVars, processVars, registering,
                     countVars>>

(* ResourceSummaryScope.Close patches the hash lists the reconciliation has
   set; the patch leaves the flags alone and checks no resourceVersion.  The
   patch replaces a list as a whole, whose other entries are taken as they are
   in the API server, not in the cached copy.  A patch that fails loses the
   hashes until the next reconciliation. *)
SavedHashes(s) ==
  [t \in Types |-> [r \in Refs |->
     IF <<t, r, s>> \in dirty THEN returned[<<t, r, s>>]
     ELSE summary[s].hashes[t][r]]]

Close(s) ==
  LET mine == {c \in dirty : c[3] = s}
      done == {c \in registering : c[3] = s}
  IN  /\ summary[s] # Gone /\ mine \cup done # {}
      /\ claimed' = claimed \cup done
      /\ registering' = registering \ done
      /\ dirty' = dirty \ mine
      /\ returned' = [c \in Claims |-> IF c \in mine THEN Absent ELSE returned[c]]
      /\ \/ /\ NoFault
            /\ summary' = [summary EXCEPT ![s].hashes = SavedHashes(s)]
            /\ current' = IF mine = {} THEN current ELSE current \ {s}
         \/ Fault /\ UNCHANGED <<summary, current>>
      /\ UNCHANGED <<cluster, managerVars, evalVars, processVars, countVars, historyVars>>

-----------------------------------------------------------------------------
(***************************************************************************)
(* Sveltos in the management cluster.                                      *)
(***************************************************************************)
SveltosWrite(s) ==
  /\ writes < MaxWrites
  /\ writes' = writes + 1
  /\ current' = current \ {s}
  /\ UNCHANGED <<changes, restarts>>

ClearFlags(s) ==
  /\ summary[s] # Gone /\ summary[s].changed # {}
  /\ summary' = [summary EXCEPT ![s].changed = {}]
  /\ SveltosWrite(s)
  /\ UNCHANGED <<cluster, faults, managerVars, evalVars, processVars, clientVars,
                 historyVars>>

CreateSummary(s) ==
  /\ summary[s] = Gone
  /\ summary' = [summary EXCEPT ![s] = FreshSummary]
  /\ UNCHANGED <<cluster, faults, managerVars, current, evalVars, processVars,
                 clientVars, countVars, historyVars>>

(* The finalizer goes once the reconciler has unregistered what its maps
   hold for the ResourceSummary. *)
RemoveSummary(s) ==
  /\ summary[s] # Gone
  /\ \A c \in claimed \cup registering : c[3] # s
  /\ summary' = [summary EXCEPT ![s] = Gone]
  /\ SveltosWrite(s)
  /\ dirty' = {c \in dirty : c[3] # s}
  /\ returned' = [c \in Claims |-> IF c[3] = s THEN Absent ELSE returned[c]]
  /\ owed' = {o \in owed : o[2] # s}
  /\ UNCHANGED <<cluster, faults, managerVars, evalVars, processVars, claimed,
                 registering, blind>>

-----------------------------------------------------------------------------
(***************************************************************************)
(* The cluster.  A write that leaves what the hash covers as it is (status,*)
(* other metadata) is still an event for the informer.                     *)
(***************************************************************************)
WriteEvent(r) == behind' = IF view[r] = "unlisted" THEN behind ELSE behind \cup {r}

ChangeObject(r) ==
  /\ changes < MaxChanges
  /\ \E c \in Contents \cup {Gone} :
        c # cluster[r] /\ cluster' = [cluster EXCEPT ![r] = c]
  /\ changes' = changes + 1
  /\ WriteEvent(r)
  /\ IF view[r] = "unlisted" THEN UnseenChange(r) ELSE UNCHANGED blind
  /\ UNCHANGED <<faults, registryVars, jobQueue, view, inflight, summary, current,
                 evalVars, processVars, clientVars, writes, restarts, owed>>

TouchObject(r) ==
  /\ cluster[r] # Gone /\ view[r] # "unlisted"
  /\ WriteEvent(r)
  /\ UNCHANGED <<cluster, faults, registryVars, jobQueue, view, inflight, summary,
                 current, evalVars, processVars, clientVars, countVars, historyVars>>

-----------------------------------------------------------------------------
(***************************************************************************)
(* The process: InitializeManager, readResourceSummaries, crashes.         *)
(***************************************************************************)
(* A new manager has empty maps; the evaluator, the reconciler's maps and
   the informers went with the old process. *)
ManagerReset ==
  /\ requestors' = [t \in Types |-> [r \in Refs |-> {}]]
  /\ resourceHashes' = [r \in Refs |-> Absent]
  /\ gvkResources' = [g \in GVKs |-> Absent]
  /\ watchers' = {} /\ jobQueue' = {}
  /\ view' = [r \in Refs |-> "unlisted"] /\ behind' = {} /\ inflight' = {}

ProcessReset ==
  /\ ManagerReset
  /\ EvaluatorReset
  /\ claimed' = {} /\ registering' = {} /\ dirty' = {}
  /\ returned' = [c \in Claims |-> Absent]
  /\ mode' = "down" /\ todo' = <<>>
  /\ blind' = {} /\ owed' = {}

Crash ==
  /\ mode # "down" /\ restarts < MaxRestarts
  /\ restarts' = restarts + 1
  /\ ProcessReset
  /\ UNCHANGED <<cluster, faults, summary, changes, writes>>

StoredEntries ==
  {e \in Types \X Refs \X Summaries :
     summary[e[3]] # Gone /\ summary[e[3]].hashes[e[1]][e[2]] # Absent}

StoredEntry(e) == [type |-> e[1], resource |-> e[2], summary |-> e[3],
                   hash |-> summary[e[3]].hashes[e[1]][e[2]]]

(* readResourceSummary reads the three lists of a ResourceSummary in order. *)
ListRank == [t \in Types |-> CASE t = "Resource" -> 1 [] t = "Kustomize" -> 2 [] t = "Helm" -> 3]

(* The order of the entries: one ResourceSummary after the other. *)
ReadingOrders ==
  LET n == Cardinality(StoredEntries)
  IN  {q \in [1..n -> StoredEntries] :
         \A i, j \in 1..n : i < j =>
           /\ q[i] # q[j]
           /\ q[i][3] = q[j][3] =>
                /\ ListRank[q[i][1]] <= ListRank[q[j][1]]
                /\ \A k \in i..j : q[k][3] = q[i][3]}

(* readResourceSummaries: the List of all ResourceSummaries. *)
StartManager ==
  /\ mode = "down"
  /\ mode' = "reading"
  /\ \E q \in ReadingOrders : todo' = [i \in DOMAIN q |-> StoredEntry(q[i])]
  /\ UNCHANGED <<cluster, faults, managerVars, summary, current, evalVars, clientVars,
                 countVars, historyVars>>

(* The ResourceType readResourceSummary passes for each of the lists. *)
ReadAs == [t \in Types |-> CASE t = "Resource"  -> "Helm"
                              [] t = "Kustomize" -> "Kustomize"
                              [] t = "Helm"      -> "Resource"]

(* Mutant: only a resource that is missing is queued. *)
ProcessQueuesMissing(out) ==
  LET e == Head(todo)  r == e.resource
  IN  /\ mode = "reading" /\ todo # <<>>
      /\ out \notin Errors
      /\ RegisterMaps(r, ReadAs[e.type], e.summary, out)
      /\ resourceHashes' = [resourceHashes EXCEPT ![r] = e.hash]
      /\ IF out = "notFound" THEN checkForConfigurationDrift(r) ELSE UNCHANGED jobQueue
      /\ todo' = Tail(todo)
      /\ UNCHANGED <<cluster, informerVars, summary, current, evalVars, mode, clientVars,
                     countVars, historyVars>>

(* processResourceHashes, one iteration.  The saved string becomes the
   baseline.  currentHash is a []byte and lastKnownHash a string, so
   reflect.DeepEqual never finds them equal and the resource is queued.
   The override and the insertion are made without m.mu; of what can run
   meanwhile, react only adds to the queue, so they are part of this step. *)
processResourceHashes(out) ==
  LET e == Head(todo)  r == e.resource
  IN  /\ mode = "reading" /\ todo # <<>>
      /\ out \notin Errors
      /\ RegisterMaps(r, ReadAs[e.type], e.summary, out)
      /\ resourceHashes' = [resourceHashes EXCEPT ![r] = e.hash]
      /\ checkForConfigurationDrift(r)
      /\ todo' = Tail(todo)
      /\ UNCHANGED <<cluster, informerVars, summary, current, evalVars, mode, clientVars,
                     countVars, historyVars>>

(* Any other error: managerInstance is dropped and initialised anew. *)
ReadingFails ==
  /\ mode = "reading" /\ todo # <<>>
  /\ resourceHashes[Head(todo).resource] = Absent
  /\ Fault
  /\ ProcessReset
  /\ UNCHANGED <<cluster, summary, countVars>>

(* InitializeManager releases getManagerLock and starts the evaluator. *)
FinishReading ==
  /\ mode = "reading" /\ todo = <<>>
  /\ mode' = "running"
  /\ UNCHANGED <<cluster, faults, managerVars, summary, current, evalVars, todo,
                 clientVars, countVars, historyVars>>

-----------------------------------------------------------------------------
(***************************************************************************)
(* Composition: the informers and the evaluator with the history.          *)
(***************************************************************************)
othersVars == <<cluster, processVars, clientVars, countVars>>

InformerFrame == UNCHANGED <<othersVars, summary, current, evalVars, owed>>

Listing(g) ==
  InformerList(g) /\ UNCHANGED blind /\ InformerFrame

Delivery(r) ==
  /\ \/ InformerAdd(r) /\ UnseenChange(r)
     \/ InformerTombstone(r) /\ UnseenChange(r)
     \/ InformerNotify(r) /\ UNCHANGED blind
  /\ InformerFrame

Reaction(r) ==
  /\ react(r)
  /\ blind' = IF ReactsTo(r) THEN blind ELSE blind \cup {r}
  /\ InformerFrame

Informers == \/ \E g \in GVKs : Listing(g)
             \/ \E r \in Refs : Delivery(r) \/ Reaction(r)

(* The ResourceSummaries that reference the resource are to be told. *)
DriftIsOwed ==
  owed' = owed \cup {<<ref, s>> : s \in {q \in getResourceSummaries(ref) : summary[q] # Gone}}

EvaluationStep ==
  \/ TakeQueue /\ UNCHANGED historyVars
  \/ RequeueFailed /\ UNCHANGED historyVars
  \/ \E r \in Refs : ReadHash(r) /\ UNCHANGED historyVars
  \/ FetchNotFound /\ FetchEndsBlindness /\ UNCHANGED owed
  \/ FetchFound /\ FetchEndsBlindness /\ UNCHANGED owed
  \/ CompareHash /\ UNCHANGED historyVars
  \/ updateResourceHash /\ DriftIsOwed /\ UNCHANGED blind
  \/ StartRound /\ UNCHANGED historyVars
  \/ EndRound /\ UNCHANGED historyVars
  \/ \E s \in Summaries : GetSummary(s) /\ UNCHANGED historyVars
  \/ UpdateSummary /\ owed' = owed \ {<<ref, target>>} /\ UNCHANGED blind
  \/ UpdateConflicts /\ UNCHANGED historyVars

EvaluationFault ==
  FetchFails \/ PatchesFail \/ GetSummaryFails \/ UpdateFails

(* The goroutine starts once the registry is rebuilt. *)
Evaluator ==
  /\ mode = "running"
  /\ EvaluationStep \/ (EvaluationFault /\ UNCHANGED historyVars)
  /\ UNCHANGED othersVars

Reconciler ==
  \/ \E c \in Claims, out \in Outcomes : registerResources(c, out)
  \/ \E c \in Claims : unregisterResources(c)
  \/ \E s \in Summaries : Close(s)

Sveltos ==
  \E s \in Summaries : ClearFlags(s) \/ CreateSummary(s) \/ RemoveSummary(s)

Cluster == \E r \in Refs : ChangeObject(r) \/ TouchObject(r)

Startup ==
  \/ StartManager
  \/ \E out \in Outcomes : processResourceHashes(out)
  \/ FinishReading
  \/ ReadingFails

Next == Informers \/ Evaluator \/ Reconciler \/ Sveltos \/ Cluster \/ Startup \/ Crash

Spec == Init /\ [][Next]_vars

(***************************************************************************)
(* Fairness.  Each informer's goroutine serves its events in order, react  *)
(* gets the mutex, the evaluator's loop never ends, and main retries       *)
(* InitializeManager until it succeeds.  Nothing makes the reconciler,     *)
(* Sveltos or the cluster act.                                             *)
(***************************************************************************)
FairSpec ==
  /\ Spec
  /\ \A g \in GVKs : WF_vars(Listing(g))
  /\ \A r \in Refs : WF_vars(Delivery(r)) /\ WF_vars(Reaction(r))
  /\ WF_vars(Evaluator)
  /\ WF_vars(Startup)

-----------------------------------------------------------------------------
(***************************************************************************)
(* Properties.                                                             *)
(***************************************************************************)
(* A watcher runs only for a GVK with a resource to watch: the last
   unregistration stops it (stopTrackingResource). *)
WatcherIsNeeded ==
  \A g \in watchers : gvkResources[g] \notin {Absent, {}}

(* What a GVK's entry lists is of that GVK, somebody asked for it, and it has
   a baseline to compare with: no sequence of registrations, evaluations and
   restarts leaves a stale entry behind. *)
WatchedIsTracked ==
  \A g \in GVKs : gvkResources[g] # Absent =>
    \A r \in gvkResources[g] :
      GVKOf[r] = g /\ Tracked(r) /\ resourceHashes[r] # Absent

InGVKEntry(r) == gvkResources[GVKOf[r]] # Absent /\ r \in gvkResources[GVKOf[r]]

(* A resource with a watcher and a baseline keeps both as long as somebody asks
   for it, under any type and for any ResourceSummary: neither the end of
   another registration of it nor that of another resource of its GVK takes
   them away (UnRegisterResource, stopTrackingResource), nor does anything
   else short of the end of the process. *)
Held(r) == InGVKEntry(r) /\ GVKOf[r] \in watchers /\ resourceHashes[r] # Absent

HeldUntilReleased ==
  [][\A r \in Refs : Held(r) /\ ~Held(r)' /\ mode' # "down"
       => \A t \in Types : requestors'[t][r] = {}]_vars

Pending(r) ==
  \/ r \in behind \cup inflight \cup jobQueue \cup batch \cup failed
  \/ r = ref /\ pc \in {"fetch", "patches", "store"}

Watched(r) ==
  LET g == GVKOf[r]
  IN  g \in watchers /\ r \in gvkResources[g] /\ view[r] # "unlisted"

(* When nothing is left to do for a watched resource, its baseline is the hash
   of what the cluster holds: no notification, queue swap, failed evaluation,
   restart or concurrent registration makes the manager forget a change,
   outside the blind spots. *)
QuietIsCurrent ==
  \A r \in Refs :
    mode = "running" /\ Watched(r) /\ ~Pending(r) /\ r \notin blind
      => Matches(resourceHashes[r], cluster[r])

(* Nobody is asked to reconcile while no object has changed: touches, retries
   and re-registrations never look like a drift (evaluateResource). *)
QuietWithoutDrift ==
  changes = 0 /\ restarts = 0 =>
    \A s \in Summaries : summary[s] # Gone => summary[s].changed = {}

(* A change of a watched resource is dealt with: the baseline catches up with
   the cluster, whatever else is queued, fails or restarts meanwhile. *)
Drifted(r) ==
  /\ mode = "running" /\ Watched(r) /\ r \notin blind
  /\ ~Matches(resourceHashes[r], cluster[r])

DriftIsEvaluated == \A r \in Refs : Drifted(r) ~> ~Drifted(r)

(* An evaluation ends without an error only when every ResourceSummary that
   referenced the drifted resource when its new baseline was stored, under any
   type, has been told, is gone or has unregistered the resource: whatever is
   registered, unregistered, written or deleted between the rounds of
   requestReconciliations. *)
ReportIsComplete ==
  [][pc = "requests" /\ round > Len(resourceTypes) /\ pc' = "pick"
       => \A s \in Summaries : <<ref, s>> \notin owed]_vars

-----------------------------------------------------------------------------
(***************************************************************************)
(* The inductive invariant behind WatcherIsNeeded, WatchedIsTracked and    *)
(* QuietIsCurrent.                                                         *)
(***************************************************************************)
(* The evaluator sleeps until the registry is rebuilt, starts a pass with
   nothing failed, and fills its registers before it uses them. *)
EvaluatorShape ==
  /\ mode # "running" => pc = "idle"
  /\ pc = "idle" => batch = {} /\ failed = {}
  /\ pc \notin {"idle", "pick"} => ref \in Refs
  /\ pc \in {"fetch", "patches", "store"} => hash \in Bytes
  /\ pc = "patches" => object \in Contents
  /\ pc \in {"store", "requests", "get", "update"} => newHash \in Bytes
  /\ pc \in {"get", "update"} => round \in 1..3
  /\ pc = "update" => target \in Summaries

(* A ResourceSummary the evaluator holds the current version of exists. *)
HeldExists == \A s \in current : summary[s] # Gone

(* An informer has listed all the objects of its GVK or none, and is behind
   only on what it has listed. *)
ListedTogether ==
  /\ \A r, q \in Refs : GVKOf[r] = GVKOf[q] => (view[r] = "unlisted" <=> view[q] = "unlisted")
  /\ \A r \in behind : view[r] # "unlisted"

Settled(r) ==
  InGVKEntry(r) /\ r \notin blind \cup behind \cup inflight \cup jobQueue \cup batch \cup failed

BaselineIsCurrent ==
  \A r \in Refs :
    Settled(r) /\ ~(r = ref /\ pc \in {"fetch", "patches", "store"})
      => Matches(resourceHashes[r], cluster[r])

(* Between the fetch and the store the evaluator works on the present baseline
   and the present object, unless a notification or a fetch lies ahead. *)
FetchedIsCurrent ==
  /\ pc \in {"patches", "store"} /\ ref \notin blind => resourceHashes[ref] = hash
  /\ pc = "patches" /\ Settled(ref) => object = cluster[ref]
  /\ pc = "store" /\ Settled(ref) => Matches(newHash, cluster[ref])

(* The invariant every step preserves: the parts above, with the types. *)
IndInv ==
  /\ TypeOK /\ EvaluatorShape /\ HeldExists
  /\ WatcherIsNeeded /\ WatchedIsTracked
  /\ ListedTogether /\ BaselineIsCurrent /\ FetchedIsCurrent

-----------------------------------------------------------------------------
(***************************************************************************)
(* The manager implements DriftSpec.  A resource is watched once a GVK     *)
(* entry lists it; what is pending is Due, a blind spot is Missed, and     *)
(* anything else is known by its baseline.                                 *)
(***************************************************************************)
ByHash(b) == <<"hash", b>>

KnownAs(r) ==
  IF ~InGVKEntry(r) THEN <<"off">>
  ELSE IF Pending(r) THEN <<"due">>
  ELSE IF r \in blind THEN <<"missed">>
  ELSE ByHash(resourceHashes[r])

MatchingHashes ==
  [x \in Contents \cup {Gone} |->
     IF x = Gone THEN {ByHash(NoBytes)}
     ELSE {ByHash(unstructuredHash(x, p)) : p \in SUBSET Patches}]

Promise == INSTANCE DriftSpec WITH
  States <- Contents \cup {Gone}, HashesOf <- MatchingHashes,
  Off <- <<"off">>, Due <- <<"due">>, Missed <- <<"missed">>,
  world <- cluster, known <- [r \in Refs |-> KnownAs(r)]

(* Every step of the manager, its clients and its environment is a step of
   DriftSpec: a change always leaves a watched resource due or in a blind spot,
   a baseline changes only for a resource that was looked at or newly watched,
   and what is due ends in the hash of the present object or in a blind spot. *)
ImplementsDriftSpec == Promise!Spec

-----------------------------------------------------------------------------
(***************************************************************************)
(* What the comments and the documentation say, and the code does not do.  *)
(***************************************************************************)
(* manager: a change in a registered resource makes the manager look at it:
   react never drops the notification of a resource somebody registered. *)
NotificationIsQueued ==
  [][\A r \in Refs :
       r \in inflight \ inflight' /\ Tracked(r) /\ mode' # "down"
         => r \in jobQueue']_vars

(* react: errors "can be retried".  A drift whose report failed is evaluated,
   and so reported, again. *)
ReportIsRetried ==
  \A o \in owed : Pending(o[1]) \/ (o[1] = ref /\ pc \in {"requests", "get", "update"})

(* manager: a watcher runs for every GVK with a resource to watch.  A resource
   the reconciler registered and got a hash for is watched. *)
RegisteredIsWatched ==
  \A c \in claimed :
    mode = "running" /\ resourceHashes[c[2]] # Absent
      => /\ GVKOf[c[2]] \in watchers
         /\ c[2] \in gvkResources[GVKOf[c[2]]]

(* react: on restarts the manager detects the resources whose hash has
   changed.  Only those are reported: with every object there, and none
   changed since the first start, nobody is. *)
RestartWithoutDrift ==
  changes = 0 /\ (\A r \in Refs : cluster[r] # Gone) =>
    \A s \in Summaries : summary[s] # Gone => summary[s].changed = {}

(* AddFunc: "If an object is added, there is nothing to do".  When a watched
   object comes back, the manager does not go on with the empty baseline of a
   missing one, unless an evaluation of it lies ahead. *)
AddNeedsNothing ==
  [][\A r \in Refs :
       view[r] = "missing" /\ view'[r] = "present" /\ Watched(r)'
         => resourceHashes'[r] # NoBytes \/ Pending(r)']_vars
=============================================================================
