--------------------------- MODULE ManagerProofs ---------------------------
(***************************************************************************)
(* Lemmas about the operators of Manager, for the proofs about the modules *)
(* that compose it.                                                        *)
(***************************************************************************)
EXTENDS Manager, TLAPS

(* fmt.Sprintf("%x", _) makes a byte string of a byte string. *)
LEMMA HexIsBytes == ASSUME NEW b \in Bytes PROVE Hex(b) \in Bytes
  BY DEF Hex, Bytes

(* So does a trip through JSON. *)
LEMMA JSONIsBytes == ASSUME NEW b \in Bytes PROVE JSONString(b) \in Bytes
  BY DEF JSONString, Bytes

(* unstructuredHash returns a byte string. *)
LEMMA HashIsBytes ==
  ASSUME NEW content \in Contents, NEW patches \in SUBSET Patches
  PROVE  unstructuredHash(content, patches) \in Bytes
<1>1. Digest[<<content, patches>>] \in Digests
  BY ConstantsAssumption
<1> QED  BY <1>1 DEF unstructuredHash, Raw, Bytes

(* What RegisterResource leaves as a baseline is one, or nothing. *)
LEMMA RegisteredIsBaseline ==
  ASSUME RegistryTypeOK, cluster \in [Refs -> Contents \cup {Gone}],
         NEW r \in Refs, NEW t \in Types, NEW s \in Summaries, NEW out,
         RegisterMaps(r, t, s, out)
  PROVE  /\ RegisteredHash(r, s, out) \in Bytes \cup {Absent}
         /\ out \in {"known", "watched", "startFailed"} => RegisteredHash(r, s, out) \in Bytes
<1>1. PatchesOf[s] \in SUBSET Patches
  BY ConstantsAssumption
<1>2. resourceHashes[r] \in Bytes \cup {Absent} /\ cluster[r] \in Contents \cup {Gone}
  BY DEF RegistryTypeOK
<1>3. CASE out \in {"watched", "startFailed"}
  <2>1. cluster[r] \in Contents
    BY <1>2, <1>3 DEF RegisterMaps
  <2> QED  BY <1>1, <1>3, <2>1, HashIsBytes DEF RegisteredHash
<1>4. CASE out \notin {"watched", "startFailed"}
  BY <1>2, <1>4 DEF RegisteredHash, RegisterMaps
<1> QED  BY <1>3, <1>4

(* Registration keeps the types of the maps. *)
LEMMA RegisterKeepsTypes ==
  ASSUME RegistryTypeOK, faults \in 0..MaxFaults,
         NEW r \in Refs, NEW t \in Types, NEW s \in Summaries, NEW out,
         RegisterMaps(r, t, s, out)
  PROVE  /\ requestors' \in [Types -> [Refs -> SUBSET Summaries]]
         /\ gvkResources' \in [GVKs -> (SUBSET Refs) \cup {Absent}]
         /\ watchers' \subseteq GVKs
         /\ faults' \in 0..MaxFaults
<1> USE DEF RegistryTypeOK
<1>1. requestors' \in [Types -> [Refs -> SUBSET Summaries]]
  BY DEF RegisterMaps, trackResource
<1>2. GVKOf[r] \in GVKs
  BY ConstantsAssumption
<1>3. faults' \in 0..MaxFaults
  BY MaxFaultsAssumption DEF RegisterMaps, Fault, NoFault
<1>4. /\ gvkResources' \in [GVKs -> (SUBSET Refs) \cup {Absent}]
      /\ watchers' \subseteq GVKs
  BY <1>2 DEF RegisterMaps, updateGVKMapAndStartWatcher, startWatcher
<1> QED  BY <1>1, <1>3, <1>4

(* So does RegisterResource as a whole. *)
LEMMA RegisterResourceKeepsTypes ==
  ASSUME RegistryTypeOK, faults \in 0..MaxFaults, cluster \in [Refs -> Contents \cup {Gone}],
         NEW r \in Refs, NEW t \in Types, NEW s \in Summaries, NEW out,
         RegisterResource(r, t, s, out)
  PROVE  RegistryTypeOK' /\ faults' \in 0..MaxFaults
<1>1. RegisterMaps(r, t, s, out)
  BY DEF RegisterResource
<1>2. resourceHashes' \in [Refs -> Bytes \cup {Absent}]
  BY <1>1, RegisteredIsBaseline DEF RegisterResource, RegistryTypeOK
<1> QED  BY <1>1, <1>2, RegisterKeepsTypes
         DEF RegisterResource, RegistryTypeOK, informerVars

(* And the end of a registration. *)
LEMMA UnregisterKeepsTypes ==
  ASSUME RegistryTypeOK, NEW r \in Refs, NEW t \in Types, NEW s \in Summaries,
         UnRegisterResource(r, t, s)
  PROVE  RegistryTypeOK' /\ faults' = faults
<1> USE DEF RegistryTypeOK, registryVars
<1>1. requestors' \in [Types -> [Refs -> SUBSET Summaries]]
  <2>1. [requestors EXCEPT ![t][r] = @ \ {s}] \in [Types -> [Refs -> SUBSET Summaries]]
    OBVIOUS
  <2> QED  BY <2>1 DEF UnRegisterResource
<1>2. GVKOf[r] \in GVKs
  BY ConstantsAssumption
<1>3. CASE UNCHANGED <<resourceHashes, gvkResources, watchers, view, behind>>
  BY <1>1, <1>3 DEF UnRegisterResource
<1>4. CASE stopTrackingResource(r)
  <2>1. resourceHashes' \in [Refs -> Bytes \cup {Absent}]
    BY <1>4 DEF stopTrackingResource
  <2>2. gvkResources' \in [GVKs -> (SUBSET Refs) \cup {Absent}]
    <3>1. /\ gvkResources \in [GVKs -> (SUBSET Refs) \cup {Absent}]
          /\ gvkResources[GVKOf[r]] # Absent => gvkResources[GVKOf[r]] \ {r} \in SUBSET Refs
      BY <1>2
    <3>2. \/ gvkResources' = gvkResources
          \/ gvkResources' = [gvkResources EXCEPT ![GVKOf[r]] = Absent]
          \/ /\ gvkResources[GVKOf[r]] # Absent
             /\ gvkResources' = [gvkResources EXCEPT ![GVKOf[r]] = gvkResources[GVKOf[r]] \ {r}]
      BY <1>4 DEF stopTrackingResource
    <3> HIDE DEF RegistryTypeOK
    <3> QED  BY <1>2, <3>1, <3>2
  <2>3. /\ watchers' \subseteq GVKs /\ behind' \subseteq Refs
        /\ view' \in [Refs -> {"unlisted", "present", "missing"}]
    BY <1>4 DEF stopTrackingResource, stopWatcher
  <2> QED  BY <1>1, <2>1, <2>2, <2>3 DEF UnRegisterResource
<1> QED  BY <1>3, <1>4 DEF UnRegisterResource

(* A registration adds the one requestor, whatever its outcome. *)
LEMMA RegisterAdds ==
  ASSUME RegistryTypeOK, NEW r \in Refs, NEW t \in Types, NEW s \in Summaries,
         trackResource(r, t, s)
  PROVE  \A u \in Types, q \in Refs, x \in Summaries :
           x \in requestors'[u][q] <=> x \in requestors[u][q] \/ (u = t /\ q = r /\ x = s)
  BY DEF RegistryTypeOK, trackResource

(* Its end removes that one. *)
LEMMA UnregisterRemoves ==
  ASSUME RegistryTypeOK, NEW r \in Refs, NEW t \in Types, NEW s \in Summaries,
         UnRegisterResource(r, t, s)
  PROVE  \A u \in Types, q \in Refs, x \in Summaries :
           x \in requestors'[u][q] <=> x \in requestors[u][q] /\ ~(u = t /\ q = r /\ x = s)
<1>1. \/ requestors[t][r] = {} /\ requestors' = requestors
      \/ requestors' = [requestors EXCEPT ![t][r] = @ \ {s}]
  BY DEF UnRegisterResource, registryVars
<1> QED  BY <1>1 DEF RegistryTypeOK
=============================================================================
