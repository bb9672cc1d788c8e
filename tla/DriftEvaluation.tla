-------------------------- MODULE DriftEvaluation --------------------------
(***************************************************************************)
(* The goroutine that evaluates queued resources for drift                 *)
(* (pkg/drift-detection/drift_evaluation.go, evaluateConfigurationDrift).  *)
(*                                                                         *)
(* It takes m.mu for single map accesses only and calls the API server     *)
(* outside the lock, so every lock section and every API call is a step of *)
(* its own and clients, reactions and writers come in between.  pc names   *)
(* the step that comes next:                                               *)
(*                                                                         *)
(*   idle      asleep before the next pass                                 *)
(*   pick      next resource of the batch: read its baseline               *)
(*   fetch     getUnstructured                                             *)
(*   patches   getPatches, unstructuredHash and the comparison             *)
(*   store     updateResourceHash                                          *)
(*   requests  requestReconciliations, start of a round (a ResourceType)   *)
(*   get       fetch the next ResourceSummary of the round                 *)
(*   update    Status().Update of that ResourceSummary                     *)
(***************************************************************************)
EXTENDS Manager

VARIABLES
  summary,    \* summary[s]: the ResourceSummary in the API server, or Gone
  current,    \* ResourceSummaries not written since the evaluator fetched them
              \* (their resourceVersion is the one it holds)
  pc,
  batch,      \* resources of this pass still to evaluate
  failed,     \* failedEvaluations
  ref,        \* the resource under evaluation
  hash,       \* its baseline, as read under the lock
  object,     \* the object fetched from the cluster
  newHash,    \* currentHash, to be stored and reported
  round,      \* index into resourceTypes
  requested,  \* resourceSummaries, the slice the rounds append to
  visit,      \* members of it this round still has to visit
  target      \* the ResourceSummary just fetched

passVars   == <<batch, failed>>
verdictVars == <<ref, hash, object, newHash>>
reportVars == <<round, requested, visit, target>>
evalVars   == <<pc, passVars, verdictVars, reportVars>>

PCs == {"idle", "pick", "fetch", "patches", "store", "requests", "get", "update"}

(* Mutant: nobody asks for the Helm resources. *)
HelmForgotten == <<"Resource", "Kustomize">>

resourceTypes == <<"Resource", "Helm", "Kustomize">>

EvaluationTypeOK ==
  /\ current \subseteq Summaries
  /\ pc \in PCs
  /\ batch \subseteq Refs /\ failed \subseteq Refs
  /\ ref \in Refs \cup {Absent}
  /\ hash \in Bytes \cup {Absent}
  /\ object \in Contents \cup {Absent}
  /\ newHash \in Bytes \cup {Absent}
  /\ round \in 1..4
  /\ requested \subseteq Summaries /\ visit \subseteq Summaries
  /\ target \in Summaries \cup {Absent}

NoVerdict ==
  /\ ref' = Absent /\ hash' = Absent /\ object' = Absent /\ newHash' = Absent

NoReport == round' = 1 /\ requested' = {} /\ visit' = {} /\ target' = Absent

EvaluatorStarts ==
  /\ pc = "idle" /\ batch = {} /\ failed = {}
  /\ ref = Absent /\ hash = Absent /\ object = Absent /\ newHash = Absent
  /\ round = 1 /\ requested = {} /\ visit = {} /\ target = Absent
  /\ current = {}

(* The goroutine is gone with the process, or starts anew. *)
EvaluatorReset ==
  /\ pc' = "idle" /\ batch' = {} /\ failed' = {}
  /\ NoVerdict /\ NoReport /\ current' = {}

(* evaluateResource returns, without or with an error. *)
Evaluated ==
  /\ pc' = "pick" /\ NoVerdict /\ NoReport /\ current' = {} /\ UNCHANGED passVars

EvaluationFailed ==
  /\ pc' = "pick" /\ NoVerdict /\ NoReport /\ current' = {}
  /\ failed' = failed \cup {ref} /\ UNCHANGED batch

(***************************************************************************)
(* A pass: the queue is emptied and read in one lock section; what failed  *)
(* goes back at the end.  A pass over an empty queue changes nothing.      *)
(***************************************************************************)
(* Mutant: the queue is reset before it is read. *)
ResetThenTake ==
  /\ pc = "idle" /\ jobQueue # {}
  /\ jobQueue' = {} /\ batch' = {} /\ failed' = {}
  /\ pc' = "pick"
  /\ UNCHANGED <<registryVars, informerVars, faults, summary, current,
                 verdictVars, reportVars>>

TakeQueue ==
  /\ pc = "idle"
  /\ jobQueue # {}
  /\ batch' = jobQueue
  /\ jobQueue' = {}
  /\ failed' = {}
  /\ pc' = "pick"
  /\ UNCHANGED <<registryVars, informerVars, faults, summary, current,
                 verdictVars, reportVars>>

(* Mutant: failed evaluations are not queued again. *)
RequeueNothing ==
  /\ pc = "pick" /\ batch = {}
  /\ failed' = {}
  /\ pc' = "idle"
  /\ UNCHANGED <<managerVars, faults, summary, current, batch, verdictVars, reportVars>>

RequeueFailed ==
  /\ pc = "pick" /\ batch = {}
  /\ jobQueue' = jobQueue \cup failed
  /\ failed' = {}
  /\ pc' = "idle"
  /\ UNCHANGED <<registryVars, informerVars, faults, summary, current, batch,
                 verdictVars, reportVars>>

(***************************************************************************)
(* evaluateResource.                                                       *)
(***************************************************************************)
ReadHash(r) ==
  /\ pc = "pick" /\ r \in batch
  /\ batch' = batch \ {r}
  /\ IF resourceHashes[r] = Absent
     THEN UNCHANGED <<pc, ref, hash>>          \* not tracked anymore
     ELSE pc' = "fetch" /\ ref' = r /\ hash' = resourceHashes[r]
  /\ UNCHANGED <<managerVars, faults, summary, current, failed, object, newHash,
                 reportVars>>

(* The object is gone from the cluster: a nil hash is stored and reported.  A
   kind that is gone ends here where errors.Is finds a NoKindMatchError, and is
   an error like any other (FetchFails) where it does not, as it is at
   registration and rebuild. *)
FetchNotFound ==
  /\ pc = "fetch" /\ cluster[ref] = Gone
  /\ newHash' = NoBytes
  /\ pc' = "store"
  /\ UNCHANGED <<managerVars, faults, summary, current, passVars, ref, hash, object,
                 reportVars>>

(* Mutant: the result of a Get that found nothing is used. *)
FetchUnchecked ==
  /\ pc = "fetch"
  /\ object' = cluster[ref]
  /\ pc' = "patches"
  /\ UNCHANGED <<managerVars, faults, summary, current, passVars, ref, hash, newHash,
                 reportVars>>

FetchFound ==
  /\ pc = "fetch" /\ cluster[ref] # Gone
  /\ object' = cluster[ref]
  /\ pc' = "patches"
  /\ UNCHANGED <<managerVars, faults, summary, current, passVars, ref, hash, newHash,
                 reportVars>>

FetchFails ==
  /\ pc = "fetch"
  /\ Fault
  /\ EvaluationFailed
  /\ UNCHANGED <<managerVars, summary>>

getResourceSummaries(r) == UNION {requestors[t][r] : t \in Types}

(* The patches of every ResourceSummary that asked for r and still exists. *)
getPatches(r) ==
  UNION {PatchesOf[s] : s \in {q \in getResourceSummaries(r) : summary[q] # Gone}}

CurrentHash == unstructuredHash(object, getPatches(ref))

(* Mutant: every evaluation is taken for a drift. *)
CompareNothing ==
  /\ pc = "patches"
  /\ newHash' = CurrentHash
  /\ pc' = "store"
  /\ UNCHANGED <<managerVars, faults, summary, passVars, ref, hash, object, reportVars,
                 current>>

(* getPatches and the comparison in one step: the ResourceSummaries are read
   here one after the other, which matters to the set of patches only. *)
CompareHash ==
  /\ pc = "patches"
  /\ IF hash = CurrentHash
     THEN Evaluated
     ELSE /\ newHash' = CurrentHash
          /\ pc' = "store"
          /\ UNCHANGED <<passVars, ref, hash, object, reportVars, current>>
  /\ UNCHANGED <<managerVars, faults, summary>>

(* A ResourceSummary cannot be fetched, or a patch does not apply. *)
PatchesFail ==
  /\ pc = "patches"
  /\ getResourceSummaries(ref) # {}
  /\ Fault
  /\ EvaluationFailed
  /\ UNCHANGED <<managerVars, summary>>

(* The new hash becomes the baseline whatever happened to the resource since
   its baseline was read. *)
updateResourceHash ==
  /\ pc = "store"
  /\ resourceHashes' = [resourceHashes EXCEPT ![ref] = newHash]
  /\ pc' = "requests"
  /\ hash' = Absent /\ object' = Absent
  /\ UNCHANGED <<requestors, gvkResources, watchers, jobQueue, informerVars, faults,
                 summary, current, passVars, ref, newHash, reportVars>>

(***************************************************************************)
(* requestReconciliations.                                                 *)
(***************************************************************************)
(* A round appends the ResourceSummaries of its type to the ones of the
   rounds before, and visits them all, one that is listed twice once: a second
   visit sets the same flag and hash again.  A type without a key is skipped. *)
StartRound ==
  /\ pc = "requests"
  /\ IF round > Len(resourceTypes)
     THEN Evaluated
     ELSE LET asked == requestors[resourceTypes[round]][ref]
          IN  IF asked = {}
              THEN /\ round' = round + 1
                   /\ UNCHANGED <<pc, passVars, verdictVars, requested, visit, target,
                                  current>>
              ELSE /\ requested' = requested \cup asked
                   /\ visit' = requested \cup asked
                   /\ pc' = "get"
                   /\ UNCHANGED <<passVars, verdictVars, round, target, current>>
  /\ UNCHANGED <<managerVars, faults, summary>>

EndRound ==
  /\ pc = "get" /\ visit = {}
  /\ round' = round + 1
  /\ pc' = "requests"
  /\ UNCHANGED <<managerVars, faults, summary, current, passVars, verdictVars, requested,
                 visit, target>>

GetSummary(s) ==
  /\ pc = "get" /\ s \in visit
  /\ visit' = visit \ {s}
  /\ IF summary[s] = Gone
     THEN UNCHANGED <<pc, target, current>>    \* nothing to do
     ELSE pc' = "update" /\ target' = s /\ current' = {s}
  /\ UNCHANGED <<managerVars, faults, summary, passVars, verdictVars, round, requested>>

GetSummaryFails ==
  /\ pc = "get" /\ visit # {}
  /\ Fault
  /\ EvaluationFailed
  /\ UNCHANGED <<managerVars, summary>>

(* updateResourceSummaryWithHash: only an entry that is there is updated, with
   string(currentHash). *)
updateResourceSummaryWithHash(rs, t, r, b) ==
  IF rs.hashes[t][r] = Absent THEN rs
  ELSE [rs EXCEPT !.hashes[t][r] = JSONString(b)]

Marked(rs, t, r, b) ==
  [updateResourceSummaryWithHash(rs, t, r, b) EXCEPT !.changed = @ \cup {t}]

(* requestReconciliationForResourceSummary, second half. *)
UpdateSummary ==
  /\ pc = "update" /\ target \in current
  /\ summary' = [summary EXCEPT
                   ![target] = Marked(@, resourceTypes[round], ref, newHash)]
  /\ pc' = "get" /\ target' = Absent /\ current' = {}
  /\ UNCHANGED <<managerVars, faults, passVars, verdictVars, round, requested, visit>>

(* The ResourceSummary was written or deleted since it was fetched. *)
UpdateConflicts ==
  /\ pc = "update" /\ target \notin current
  /\ EvaluationFailed
  /\ UNCHANGED <<managerVars, faults, summary>>

UpdateFails ==
  /\ pc = "update"
  /\ Fault
  /\ EvaluationFailed
  /\ UNCHANGED <<managerVars, summary>>
=============================================================================
