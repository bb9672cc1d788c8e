-------------------------- MODULE RefinementProofs --------------------------
(***************************************************************************)
(* DriftDetection implements DriftSpec, for every value of its constants.  *)
(***************************************************************************)
EXTENDS DriftDetectionProofs

Off    == <<"off">>
Due    == <<"due">>
Missed == <<"missed">>

USE DEF registryVars, informerVars, managerVars, passVars, verdictVars, reportVars,
        evalVars, processVars, clientVars, countVars, historyVars, othersVars, vars

(* In an entry with nothing to do: known by a hash, or in a blind spot. *)
Resting(r) == InGVKEntry(r) /\ ~Pending(r)

(* The four ways a resource is known are told apart. *)
LEMMA Kinds ==
  /\ Off # Due /\ Off # Missed /\ Due # Missed
  /\ \A b : ByHash(b) \notin {Off, Due, Missed}
<1>1. Off # Due /\ Off # Missed /\ Due # Missed
  BY DEF Off, Due, Missed
<1>2. ASSUME NEW b PROVE ByHash(b) \notin {Off, Due, Missed}
  <2>1. Len(ByHash(b)) = 2 /\ Len(Off) = 1 /\ Len(Due) = 1 /\ Len(Missed) = 1
    BY DEF ByHash, Off, Due, Missed
  <2> QED  BY <2>1
<1> QED  BY <1>1, <1>2

(* How a resource is known, by what it depends on: before and after a step. *)
LEMMA KnownCases ==
  ASSUME NEW r \in Refs
  PROVE  /\ KnownAs(r) = Off <=> ~InGVKEntry(r)
         /\ KnownAs(r) = Due <=> InGVKEntry(r) /\ Pending(r)
         /\ KnownAs(r)' = Off <=> ~InGVKEntry(r)'
         /\ KnownAs(r)' = Due <=> InGVKEntry(r)' /\ Pending(r)'
         /\ KnownAs(r)' = Missed <=> Resting(r)' /\ r \in blind'
         /\ Resting(r)' /\ r \notin blind' => KnownAs(r)' = ByHash(resourceHashes'[r])
<1>1. /\ KnownAs(r) = Off <=> ~InGVKEntry(r)
      /\ KnownAs(r) = Due <=> InGVKEntry(r) /\ Pending(r)
  BY Kinds DEF KnownAs, Off, Due, Missed
<1>2. /\ KnownAs(r)' = Off <=> ~InGVKEntry(r)'
      /\ KnownAs(r)' = Due <=> InGVKEntry(r)' /\ Pending(r)'
      /\ KnownAs(r)' = Missed <=> Resting(r)' /\ r \in blind'
      /\ Resting(r)' /\ r \notin blind' => KnownAs(r)' = ByHash(resourceHashes'[r])
  <2>1. KnownAs(r)' = IF ~InGVKEntry(r)' THEN Off
                      ELSE IF Pending(r)' THEN Due
                      ELSE IF r \in blind' THEN Missed
                      ELSE ByHash(resourceHashes'[r])
    BY DEF KnownAs, ByHash, Off, Due, Missed
  <2>2. Resting(r)' <=> InGVKEntry(r)' /\ ~Pending(r)'
    BY DEF Resting
  <2> QED  BY <2>1, <2>2, Kinds
<1> QED  BY <1>1, <1>2

(* A resource whose entry, work, blindness and baseline stay is known as before. *)
LEMMA SameKnown ==
  ASSUME NEW r \in Refs, InGVKEntry(r)' <=> InGVKEntry(r),
         InGVKEntry(r) =>
           /\ Pending(r)' <=> Pending(r)
           /\ ~Pending(r) => /\ r \in blind' <=> r \in blind
                             /\ resourceHashes'[r] = resourceHashes[r]
  PROVE  KnownAs(r)' = KnownAs(r)
  BY DEF KnownAs, ByHash

(* So is one that no set of work to do has gained or lost. *)
LEMMA Untouched ==
  ASSUME NEW r \in Refs, gvkResources' = gvkResources,
         resourceHashes'[r] = resourceHashes[r], r \in blind' <=> r \in blind,
         r \in behind' \cup inflight' \cup jobQueue' \cup batch' \cup failed'
           <=> r \in behind \cup inflight \cup jobQueue \cup batch \cup failed,
         r = ref' /\ pc' \in {"fetch", "patches", "store"}
           <=> r = ref /\ pc \in {"fetch", "patches", "store"}
  PROVE  KnownAs(r)' = KnownAs(r)
<1>1. InGVKEntry(r)' <=> InGVKEntry(r)
  BY DEF InGVKEntry
<1>2. Pending(r)' <=> Pending(r)
  BY DEF Pending
<1> QED  BY <1>1, <1>2, SameKnown

(* A hash that a step leaves known stands for what the cluster holds. *)
LEMMA KnownMatches ==
  ASSUME IndInv', NEW r \in Refs, Resting(r)', r \notin blind'
  PROVE  KnownAs(r)' \in MatchingHashes[cluster'[r]]
<1>1. Settled(r)' /\ ~(r = ref' /\ pc' \in {"fetch", "patches", "store"})
  BY DEF Resting, Pending, Settled
<1>2. Matches(resourceHashes'[r], cluster'[r]) /\ cluster'[r] \in Contents \cup {Gone}
  BY <1>1 DEF IndInv, BaselineIsCurrent, TypeOK, Matches
<1>3. ByHash(resourceHashes'[r]) \in MatchingHashes[cluster'[r]]
  BY <1>2 DEF Matches, MatchingHashes
<1> QED  BY <1>3, KnownCases

(* The mapped state, where one resource at most has come to be known otherwise. *)
LEMMA OneKnown ==
  ASSUME NEW r \in Refs, \A q \in Refs : q # r => KnownAs(q)' = KnownAs(q)
  PROVE  [q \in Refs |-> KnownAs(q)]' = [[q \in Refs |-> KnownAs(q)] EXCEPT ![r] = KnownAs(r)']
  OBVIOUS

(* A step that changes how one resource is known, not from one hash or blind
   spot to another, is a step of DriftSpec. *)
LEMMA OneStep ==
  ASSUME IndInv, IndInv', UNCHANGED cluster, NEW r \in Refs,
         \A q \in Refs : q # r => KnownAs(q)' = KnownAs(q),
         Resting(r) /\ Resting(r)' => KnownAs(r)' = KnownAs(r)
  PROVE  [Promise!Next]_(Promise!vars)
<1> DEFINE known == [q \in Refs |-> KnownAs(q)]
<1>1. known' = [known EXCEPT ![r] = KnownAs(r)'] /\ known[r] = KnownAs(r)
  BY OneKnown
<1>2. /\ KnownAs(r) = Off <=> ~InGVKEntry(r)
      /\ KnownAs(r) = Due <=> InGVKEntry(r) /\ Pending(r)
      /\ KnownAs(r)' = Off <=> ~InGVKEntry(r)'
      /\ KnownAs(r)' = Due <=> InGVKEntry(r)' /\ Pending(r)'
      /\ KnownAs(r)' = Missed <=> Resting(r)' /\ r \in blind'
  BY KnownCases
<1>3. (Resting(r) <=> InGVKEntry(r) /\ ~Pending(r)) /\ (Resting(r)' <=> InGVKEntry(r)' /\ ~Pending(r)')
  BY DEF Resting
<1>4. Resting(r)' /\ r \notin blind' => KnownAs(r)' \in MatchingHashes[cluster[r]]
  BY KnownMatches
<1> HIDE DEF known
<1>5. CASE KnownAs(r)' = KnownAs(r)
  <2>1. UNCHANGED Promise!vars
    <3>1. \A q \in Refs : KnownAs(q)' = KnownAs(q)
      BY <1>5
    <3> QED  BY <3>1 DEF Promise!vars
  <2> QED  BY <2>1
<1>6. CASE KnownAs(r)' # KnownAs(r)
  <2>1. \/ Promise!Watch(r) \/ Promise!Unwatch(r) \/ Promise!Notice(r)
        \/ Promise!Look(r) \/ Promise!Miss(r)
    BY <1>1, <1>2, <1>3, <1>4, <1>6, Kinds
    DEF Promise!Watch, Promise!Unwatch, Promise!Notice, Promise!Look, Promise!Miss,
        Promise!Becomes, known, Off, Due, Missed
  <2> QED  BY <2>1 DEF Promise!Next
<1> QED  BY <1>5, <1>6

(* A step that leaves every resource known as before is no step of DriftSpec. *)
LEMMA NoStep ==
  ASSUME UNCHANGED cluster, \A q \in Refs : KnownAs(q)' = KnownAs(q)
  PROVE  [Promise!Next]_(Promise!vars)
<1>1. UNCHANGED Promise!vars
  BY DEF Promise!vars
<1> QED  BY <1>1

(* The start of a process: nothing is known. *)
LEMMA ResetStep ==
  ASSUME UNCHANGED cluster, gvkResources' = [g \in GVKs |-> Absent]
  PROVE  [Promise!Next]_(Promise!vars)
<1>1. \A q \in Refs : ~InGVKEntry(q)'
  BY ConstantsAssumption DEF InGVKEntry
<1>2. \A q \in Refs : KnownAs(q)' = <<"off">>
  BY <1>1, KnownCases DEF Off
<1>3. Promise!Restart
  BY <1>2 DEF Promise!Restart
<1> QED  BY <1>3 DEF Promise!Next

-----------------------------------------------------------------------------
(***************************************************************************)
(* The steps of DriftDetection, one by one.                                *)
(***************************************************************************)
(* The informers: an object that is listed, or an event that is handed on,
   changes nothing; one that is not handed on is missed. *)
LEMMA InformersImplement ==
  ASSUME IndInv, IndInv', Informers
  PROVE  [Promise!Next]_(Promise!vars)
<1>1. ASSUME NEW g \in GVKs, Listing(g) PROVE [Promise!Next]_(Promise!vars)
  <2>1. behind' = behind
    BY <1>1 DEF Listing, InformerList, IndInv, ListedTogether, TypeOK, RegistryTypeOK
  <2>2. UNCHANGED <<cluster, gvkResources, resourceHashes, inflight, jobQueue, batch, failed, ref,
                    pc, blind>>
    BY <1>1 DEF Listing, InformerList, InformerFrame
  <2>3. \A q \in Refs : KnownAs(q)' = KnownAs(q)
    BY <2>1, <2>2, Untouched
  <2> QED  BY <2>2, <2>3, NoStep
<1>2. ASSUME NEW r \in Refs, Delivery(r) PROVE [Promise!Next]_(Promise!vars)
  <2>1. /\ UNCHANGED <<cluster, gvkResources, resourceHashes, jobQueue, batch, failed, ref, pc>>
        /\ r \in behind /\ behind' = behind \ {r}
        /\ inflight \subseteq inflight' /\ inflight' \subseteq inflight \cup {r}
        /\ blind \subseteq blind' /\ blind' \subseteq blind \cup {r}
    BY <1>2 DEF Delivery, InformerAdd, InformerTombstone, InformerNotify, InformerFrame, UnseenChange
  <2>2. \A q \in Refs : q # r => KnownAs(q)' = KnownAs(q)
    BY <2>1, Untouched
  <2>3. ~Resting(r)
    BY <2>1 DEF Resting, Pending
  <2> QED  BY <2>1, <2>2, <2>3, OneStep
<1>3. ASSUME NEW r \in Refs, Reaction(r) PROVE [Promise!Next]_(Promise!vars)
  <2>1. /\ UNCHANGED <<cluster, gvkResources, resourceHashes, behind, batch, failed, ref, pc>>
        /\ r \in inflight /\ inflight' = inflight \ {r}
        /\ jobQueue \subseteq jobQueue' /\ jobQueue' \subseteq jobQueue \cup {r}
        /\ blind \subseteq blind' /\ blind' \subseteq blind \cup {r}
    BY <1>3 DEF Reaction, react, checkForConfigurationDrift, InformerFrame
  <2>2. \A q \in Refs : q # r => KnownAs(q)' = KnownAs(q)
    BY <2>1, Untouched
  <2>3. ~Resting(r)
    BY <2>1 DEF Resting, Pending
  <2> QED  BY <2>1, <2>2, <2>3, OneStep
<1> QED  BY <1>1, <1>2, <1>3 DEF Informers

(* The evaluator: it looks at what is due, one resource at a time, and a
   resource is due until its new baseline is stored or the old one found
   right; a report that fails makes it due again. *)
LEMMA EvaluatorImplements ==
  ASSUME IndInv, IndInv', Evaluator
  PROVE  [Promise!Next]_(Promise!vars)
<1>0. /\ UNCHANGED cluster
      /\ pc = "idle" => batch = {} /\ failed = {}
      /\ pc \notin {"idle", "pick"} => ref \in Refs
  BY DEF Evaluator, IndInv, EvaluatorShape
<1>1. CASE (TakeQueue \/ RequeueFailed) /\ UNCHANGED historyVars
  <2>1. /\ UNCHANGED <<gvkResources, resourceHashes, behind, inflight, blind>>
        /\ jobQueue' \cup batch' \cup failed' = jobQueue \cup batch \cup failed
        /\ pc \in {"idle", "pick"} /\ pc' \in {"idle", "pick"}
    BY <1>0, <1>1 DEF TakeQueue, RequeueFailed
  <2>2. \A q \in Refs : q \in jobQueue' \cup batch' \cup failed' <=> q \in jobQueue \cup batch \cup failed
    BY <2>1
  <2>3. \A q \in Refs : KnownAs(q)' = KnownAs(q)
    BY <2>1, <2>2, Untouched
  <2> QED  BY <1>0, <2>3, NoStep
<1>2. ASSUME NEW r \in Refs, ReadHash(r), UNCHANGED historyVars PROVE [Promise!Next]_(Promise!vars)
  <2>1. /\ UNCHANGED <<gvkResources, resourceHashes, behind, inflight, jobQueue, failed, blind>>
        /\ r \in batch /\ batch' = batch \ {r} /\ pc = "pick"
        /\ pc' = "pick" \/ (pc' = "fetch" /\ ref' = r)
    BY <1>2 DEF ReadHash
  <2>2. \A q \in Refs : q # r => KnownAs(q)' = KnownAs(q)
    BY <2>1, Untouched
  <2>3. ~Resting(r)
    BY <2>1 DEF Resting, Pending
  <2> QED  BY <1>0, <2>2, <2>3, OneStep
<1>3. ASSUME NEW r \in Refs, r = ref, ref' = r \/ pc' \notin {"fetch", "patches", "store"},
             UNCHANGED <<gvkResources, behind, inflight, jobQueue, batch>>,
             failed \subseteq failed', failed' \subseteq failed \cup {r},
             blind \ {r} \subseteq blind', blind' \subseteq blind \cup {r},
             \A q \in Refs : q # r => resourceHashes'[q] = resourceHashes[q],
             ~Resting(r) \/ ~Resting(r)' \/ KnownAs(r)' = KnownAs(r)
      PROVE  [Promise!Next]_(Promise!vars)
  <2>1. \A q \in Refs : q # r => KnownAs(q)' = KnownAs(q)
    BY <1>3, Untouched
  <2> QED  BY <1>0, <1>3, <2>1, OneStep
<1>4. CASE \/ (FetchNotFound \/ FetchFound) /\ FetchEndsBlindness
           \/ CompareHash /\ UNCHANGED historyVars
           \/ updateResourceHash /\ UNCHANGED blind
           \/ (FetchFails \/ PatchesFail) /\ UNCHANGED historyVars
  <2> PICK r \in Refs : r = ref
    BY <1>0, <1>4 DEF FetchNotFound, FetchFound, CompareHash, updateResourceHash, FetchFails, PatchesFail
  <2>1. ~Resting(r)
    BY <1>4 DEF FetchNotFound, FetchFound, CompareHash, updateResourceHash, FetchFails, PatchesFail,
                Resting, Pending
  <2>2. \A q \in Refs : q # r => resourceHashes'[q] = resourceHashes[q]
    BY <1>4 DEF FetchNotFound, FetchFound, CompareHash, updateResourceHash, FetchFails, PatchesFail,
                IndInv, TypeOK, RegistryTypeOK
  <2>3. /\ UNCHANGED <<gvkResources, behind, inflight, jobQueue, batch>>
        /\ ref' = r \/ pc' \notin {"fetch", "patches", "store"}
        /\ failed \subseteq failed' /\ failed' \subseteq failed \cup {r}
        /\ blind \ {r} \subseteq blind' /\ blind' \subseteq blind \cup {r}
    BY <1>4 DEF FetchNotFound, FetchFound, CompareHash, updateResourceHash, FetchFails, PatchesFail,
                FetchEndsBlindness, Evaluated, EvaluationFailed, NoVerdict
  <2> QED  BY <1>3, <2>1, <2>2, <2>3
<1>5. CASE \/ StartRound /\ UNCHANGED historyVars
           \/ EndRound /\ UNCHANGED historyVars
           \/ \E s \in Summaries : GetSummary(s) /\ UNCHANGED historyVars
           \/ UpdateSummary /\ UNCHANGED blind
           \/ UpdateConflicts /\ UNCHANGED historyVars
           \/ (GetSummaryFails \/ UpdateFails) /\ UNCHANGED historyVars
  <2> USE DEF StartRound, EndRound, GetSummary, UpdateSummary, UpdateConflicts, GetSummaryFails,
              UpdateFails, Evaluated, EvaluationFailed, NoVerdict
  <2> PICK r \in Refs : r = ref
    BY <1>0, <1>5
  <2>1. /\ UNCHANGED <<gvkResources, resourceHashes, behind, inflight, jobQueue, batch, blind>>
        /\ pc \notin {"fetch", "patches", "store"} /\ pc' \notin {"fetch", "patches", "store"}
        /\ failed' = failed \/ failed' = failed \cup {r}
    BY <1>5
  <2>2. CASE failed' = failed
    BY <1>0, <2>1, <2>2, Untouched, NoStep
  <2>3. CASE failed' = failed \cup {r}
    <3>1. ~Resting(r)'
      BY <2>3 DEF Resting, Pending
    <3> QED  BY <1>3, <2>1, <2>3, <3>1
  <2> QED  BY <2>1, <2>2, <2>3
<1> QED  BY <1>1, <1>2, <1>4, <1>5 DEF Evaluator, EvaluationStep, EvaluationFault

(* Registration: a resource that gets an entry is known by the hash of the
   present object, or has work or a blind spot from before; one that has an
   entry has a baseline, and keeps it. *)
LEMMA RegisterImplements ==
  ASSUME IndInv, IndInv', NEW r \in Refs, NEW t, NEW s, NEW out, RegisterMaps(r, t, s, out),
         UNCHANGED <<cluster, behind, inflight, batch, failed, ref, pc>>,
         jobQueue \subseteq jobQueue', jobQueue' \subseteq jobQueue \cup {r},
         blind \ {r} \subseteq blind', blind' \subseteq blind,
         \A q \in Refs : q # r => resourceHashes'[q] = resourceHashes[q],
         \/ r \in jobQueue'
         \/ out = "known" => UNCHANGED <<resourceHashes, blind>>
  PROVE  [Promise!Next]_(Promise!vars)
<1> DEFINE g == GVKOf[r]
<1>1. g \in GVKs /\ gvkResources \in [GVKs -> (SUBSET Refs) \cup {Absent}]
  BY ConstantsAssumption DEF IndInv, TypeOK, RegistryTypeOK
<1>2. ASSUME NEW q \in Refs, q # r PROVE KnownAs(q)' = KnownAs(q)
  <2>1. InGVKEntry(q)' <=> InGVKEntry(q)
    <3>1. gvkResources' = gvkResources \/
          \E e \in {{}, {r}} :
            gvkResources' = [gvkResources EXCEPT ![g] =
                               (IF gvkResources[g] # Absent THEN gvkResources[g] ELSE {}) \cup e]
      BY DEF RegisterMaps, updateGVKMapAndStartWatcher
    <3>2. \A S \in SUBSET Refs : S # Absent
      BY SentinelsAssumption
    <3> QED  BY <1>1, <1>2, <3>1, <3>2, ConstantsAssumption DEF InGVKEntry
  <2>2. Pending(q)' <=> Pending(q)
    BY <1>2 DEF Pending
  <2> QED  BY <1>2, <2>1, <2>2, SameKnown
<1>3. Resting(r) /\ Resting(r)' => KnownAs(r)' = KnownAs(r)
  <2> SUFFICES ASSUME Resting(r), Resting(r)' PROVE KnownAs(r)' = KnownAs(r)
    OBVIOUS
  <2>1. resourceHashes[r] # Absent /\ r \notin jobQueue'
    BY <1>1 DEF Resting, InGVKEntry, Pending, IndInv, WatchedIsTracked
  <2>2. out = "known" /\ UNCHANGED <<resourceHashes, blind>>
    BY <2>1 DEF RegisterMaps
  <2> QED  BY <2>2, SameKnown DEF Resting
<1> QED  BY <1>2, <1>3, OneStep

(* The end of a registration: the resource loses its entry, or nothing changes
   for it; the events a stopped informer forgets are of resources without one. *)
LEMMA UnregisterImplements ==
  ASSUME IndInv, IndInv', NEW c \in Claims, unregisterResources(c)
  PROVE  [Promise!Next]_(Promise!vars)
<1> PICK r \in Refs : r = c[2]
  BY ClaimsAssumption
<1> DEFINE g == GVKOf[r]
<1>1. /\ g \in GVKs /\ gvkResources \in [GVKs -> (SUBSET Refs) \cup {Absent}]
      /\ resourceHashes \in [Refs -> Bytes \cup {Absent}]
  BY ConstantsAssumption DEF IndInv, TypeOK, RegistryTypeOK
<1>2. /\ UNCHANGED <<cluster, jobQueue, inflight, batch, failed, ref, pc>>
      /\ blind' = blind \/ (blind' = blind \cup {r} /\ Fetched(r))
  BY DEF unregisterResources, UnRegisterResource
<1>3. CASE UNCHANGED <<resourceHashes, gvkResources, behind>>
  <2>1. ASSUME NEW q \in Refs PROVE KnownAs(q)' = KnownAs(q)
    <3>1. (InGVKEntry(q)' <=> InGVKEntry(q)) /\ (Pending(q)' <=> Pending(q))
      BY <1>2, <1>3 DEF InGVKEntry, Pending
    <3>2. ~Pending(q) => (q \in blind' <=> q \in blind)
      BY <1>2 DEF Pending, Fetched
    <3> QED  BY <1>3, <3>1, <3>2, SameKnown
  <2> QED  BY <1>2, <2>1, NoStep
<1>4. CASE stopTrackingResource(r)
  <2>1. /\ \A k \in GVKs : k # g => gvkResources'[k] = gvkResources[k]
        /\ \A q \in Refs : q # r => resourceHashes'[q] = resourceHashes[q]
        /\ \/ gvkResources' = gvkResources /\ gvkResources[g] = Absent /\ behind' = behind
           \/ /\ gvkResources[g] # Absent /\ gvkResources'[g] = gvkResources[g] \ {r}
              /\ behind' = behind
           \/ /\ gvkResources[g] # Absent /\ gvkResources[g] \ {r} = {} /\ gvkResources'[g] = Absent
              /\ behind' = {q \in behind : GVKOf[q] # g}
    BY <1>1, <1>4 DEF stopTrackingResource, stopWatcher
  <2>2. gvkResources[g] # Absent => gvkResources[g] \ {r} # Absent
    BY <1>1, SentinelsAssumption
  <2>3. ~InGVKEntry(r)'
    BY <2>1 DEF InGVKEntry
  <2>4. ASSUME NEW q \in Refs, q # r PROVE KnownAs(q)' = KnownAs(q)
    <3>1. GVKOf[q] \in GVKs
      BY ConstantsAssumption
    <3>2. InGVKEntry(q)' <=> InGVKEntry(q)
      BY <2>1, <2>2, <2>4, <3>1 DEF InGVKEntry
    <3>3. InGVKEntry(q) => (q \in behind' <=> q \in behind)
      BY <2>1, <2>4 DEF InGVKEntry
    <3>4. InGVKEntry(q) => (Pending(q)' <=> Pending(q))
      BY <1>2, <3>3 DEF Pending
    <3> QED  BY <1>2, <2>1, <2>4, <3>2, <3>4, SameKnown
  <2>5. ~Resting(r)'
    BY <2>3 DEF Resting
  <2> QED  BY <1>2, <2>4, <2>5, OneStep
<1> QED  BY <1>3, <1>4 DEF unregisterResources, UnRegisterResource

(* The others. *)
LEMMA RestImplements ==
  ASSUME IndInv, IndInv',
         \/ \E s \in Summaries : Close(s)
         \/ Sveltos \/ Cluster \/ Startup \/ Crash \/ UNCHANGED vars
  PROVE  [Promise!Next]_(Promise!vars)
<1>1. ASSUME UNCHANGED <<cluster, gvkResources, resourceHashes, behind, inflight, jobQueue, batch,
                         failed, ref, pc, blind>>
      PROVE  [Promise!Next]_(Promise!vars)
  BY <1>1, Untouched, NoStep
<1>2. ASSUME NEW s \in Summaries, Close(s) PROVE [Promise!Next]_(Promise!vars)
  BY <1>1, <1>2 DEF Close
<1>3. CASE Sveltos
  BY <1>1, <1>3 DEF Sveltos, ClearFlags, CreateSummary, RemoveSummary
<1>4. ASSUME NEW r \in Refs, TouchObject(r) PROVE [Promise!Next]_(Promise!vars)
  <2>1. /\ UNCHANGED <<cluster, gvkResources, resourceHashes, inflight, jobQueue, batch, failed,
                       ref, pc, blind>>
        /\ behind' = behind \cup {r}
    BY <1>4 DEF TouchObject, WriteEvent
  <2>2. \A q \in Refs : q # r => KnownAs(q)' = KnownAs(q)
    BY <2>1, Untouched
  <2>3. ~Resting(r)'
    BY <2>1 DEF Resting, Pending
  <2> QED  BY <2>1, <2>2, <2>3, OneStep
<1>5. ASSUME NEW r \in Refs, ChangeObject(r) PROVE [Promise!Next]_(Promise!vars)
  <2>1. /\ UNCHANGED <<gvkResources, resourceHashes, inflight, jobQueue, batch, failed, ref, pc>>
        /\ behind \subseteq behind' /\ behind' \subseteq behind \cup {r}
        /\ blind \subseteq blind' /\ blind' \subseteq blind \cup {r}
    BY <1>5 DEF ChangeObject, WriteEvent, UnseenChange
  <2>2. \A q \in Refs : q # r => KnownAs(q)' = KnownAs(q)
    BY <2>1, Untouched
  <2>3. InGVKEntry(r)' <=> InGVKEntry(r)
    BY <2>1 DEF InGVKEntry
  <2>4. Pending(r) => Pending(r)'
    BY <2>1 DEF Pending
  <2>5. InGVKEntry(r) => Pending(r)' \/ r \in blind'
    <3>1. InGVKEntry(r) => resourceHashes[r] # Absent
      BY ConstantsAssumption DEF InGVKEntry, IndInv, WatchedIsTracked
    <3>2. view[r] # "unlisted" => r \in behind'
      BY <1>5 DEF ChangeObject, WriteEvent
    <3>3. view[r] = "unlisted" /\ resourceHashes[r] # Absent => r \in blind' \/ FetchAhead(r)
      BY <1>5 DEF ChangeObject, UnseenChange
    <3> QED  BY <2>1, <3>1, <3>2, <3>3 DEF FetchAhead, Pending
  <2> DEFINE known == [q \in Refs |-> KnownAs(q)]
  <2>6. known' = [known EXCEPT ![r] = KnownAs(r)'] /\ known[r] = KnownAs(r)
    BY <2>2, OneKnown
  <2>7. \E k \in {Due, Missed} : /\ KnownAs(r) = Due => k = Due
                                 /\ KnownAs(r)' = IF KnownAs(r) = Off THEN Off ELSE k
    BY <2>3, <2>4, <2>5, KnownCases DEF Resting
  <2>8. \E x \in (Contents \cup {Gone}) \ {cluster[r]} : cluster' = [cluster EXCEPT ![r] = x]
    BY <1>5 DEF ChangeObject
  <2> HIDE DEF known
  <2>9. Promise!Change(r)
    BY <2>6, <2>7, <2>8 DEF Promise!Change, Promise!Becomes, known, Off, Due, Missed
  <2> QED  BY <2>9 DEF Promise!Next
<1>6. CASE StartManager \/ FinishReading \/ UNCHANGED vars
  BY <1>1, <1>6 DEF StartManager, FinishReading
<1>7. ASSUME NEW out \in Outcomes, processResourceHashes(out) PROVE [Promise!Next]_(Promise!vars)
  <2> DEFINE e == Head(todo)
  <2>1. e.resource \in Refs
    <3>1. e \in Entries
      BY <1>7 DEF processResourceHashes, IndInv, TypeOK
    <3> QED  BY <3>1 DEF Entries
  <2> PICK r \in Refs : r = e.resource
    BY <2>1
  <2>2. /\ RegisterMaps(r, ReadAs[e.type], e.summary, out)
        /\ resourceHashes' = [resourceHashes EXCEPT ![r] = e.hash]
        /\ jobQueue' = jobQueue \cup {r}
        /\ UNCHANGED <<cluster, informerVars, evalVars, blind>>
    BY <1>7 DEF processResourceHashes, checkForConfigurationDrift
  <2> HIDE DEF e
  <2>3. \A q \in Refs : q # r => resourceHashes'[q] = resourceHashes[q]
    BY <2>2 DEF IndInv, TypeOK, RegistryTypeOK
  <2> QED  BY <2>2, <2>3, RegisterImplements
<1>8. CASE ReadingFails \/ Crash
  BY <1>8, ResetStep DEF ReadingFails, Crash, ProcessReset, ManagerReset
<1> QED  BY <1>2, <1>3, <1>4, <1>5, <1>6, <1>7, <1>8 DEF Cluster, Startup

(***************************************************************************)
(* The manager implements DriftSpec: for any number of resources, kinds,   *)
(* ResourceSummaries, patches, faults and restarts, a change leaves a      *)
(* watched resource due or in a blind spot and never known by an old hash, *)
(* what is due ends in the hash of the present object or in a blind spot,  *)
(* and a baseline changes only by looking or by starting to watch.         *)
(***************************************************************************)
THEOREM ManagerImplementsDriftSpec == Spec => ImplementsDriftSpec
<1>1. Init => Promise!Init
  <2> SUFFICES ASSUME Init PROVE Promise!Init
    OBVIOUS
  <2>1. \A r \in Refs : KnownAs(r) = <<"off">>
    BY ConstantsAssumption DEF Init, EmptyManager, KnownAs, InGVKEntry
  <2> QED  BY <2>1 DEF Promise!Init, Init
<1>2. IndInv /\ IndInv' /\ [Next]_vars => [Promise!Next]_(Promise!vars)
  <2> SUFFICES ASSUME IndInv, IndInv', [Next]_vars PROVE [Promise!Next]_(Promise!vars)
    OBVIOUS
  <2>1. ASSUME NEW c \in Claims, NEW out \in Outcomes, registerResources(c, out)
        PROVE  [Promise!Next]_(Promise!vars)
    <3> PICK r \in Refs, s \in Summaries : r = c[2] /\ s = c[3]
      BY ClaimsAssumption
    <3>1. /\ RegisterMaps(r, c[1], s, out)
          /\ resourceHashes' = [resourceHashes EXCEPT ![r] = RegisteredHash(r, s, out)]
          /\ blind' = IF out = "watched" /\ ~Fetched(r) THEN blind \ {r} ELSE blind
          /\ UNCHANGED <<cluster, behind, inflight, jobQueue, evalVars>>
      BY <2>1 DEF registerResources, RegisterResource
    <3>2. /\ \A q \in Refs : q # r => resourceHashes'[q] = resourceHashes[q]
          /\ out = "known" => UNCHANGED <<resourceHashes, blind>>
      BY <3>1 DEF RegisteredHash, IndInv, TypeOK, RegistryTypeOK
    <3> QED  BY <3>1, <3>2, RegisterImplements
  <2> QED  BY <2>1, InformersImplement, EvaluatorImplements, UnregisterImplements, RestImplements
           DEF Next, Reconciler
<1> QED  BY <1>1, <1>2, Invariance, PTL DEF Spec, ImplementsDriftSpec, Promise!Spec
=============================================================================
