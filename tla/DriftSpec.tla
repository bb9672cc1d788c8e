----------------------------- MODULE DriftSpec -----------------------------
(***************************************************************************)
(* What drift detection promises about the resources it watches, without   *)
(* informers, queue, passes or reports.                                    *)
(*                                                                         *)
(* A watched resource is known by a hash of what the cluster holds, or is  *)
(* Due to be looked at, or Missed: it may have changed and nobody will     *)
(* look until something else draws attention to it.  A change never leaves *)
(* a resource known by the old hash, and a new hash is only ever taken by  *)
(* looking at a resource that is Due, or by starting to watch it.          *)
(***************************************************************************)
CONSTANTS
  Refs,      \* resources
  States,    \* what the cluster can hold for a resource
  HashesOf,  \* HashesOf[x]: the hashes that stand for x
  Off, Due, Missed

VARIABLES
  world,     \* world[r]: what the cluster holds
  known      \* known[r]: Off, Due, Missed or a hash

vars == <<world, known>>

Init ==
  /\ world \in [Refs -> States]
  /\ known = [r \in Refs |-> Off]

Becomes(r, k) == known' = [known EXCEPT ![r] = k]

(* A resource with work to do may have been queued before it was watched. *)
Watch(r) ==
  /\ known[r] = Off
  /\ \E k \in HashesOf[world[r]] \cup {Due, Missed} : Becomes(r, k)
  /\ UNCHANGED world

Unwatch(r) == known[r] # Off /\ Becomes(r, Off) /\ UNCHANGED world

Change(r) ==
  /\ \E x \in States \ {world[r]} : world' = [world EXCEPT ![r] = x]
  /\ \E k \in {Due, Missed} :
       /\ known[r] = Due => k = Due
       /\ Becomes(r, IF known[r] = Off THEN Off ELSE k)

Notice(r) == known[r] \notin {Off, Due} /\ Becomes(r, Due) /\ UNCHANGED world

Look(r) ==
  /\ known[r] = Due
  /\ \E k \in HashesOf[world[r]] : Becomes(r, k)
  /\ UNCHANGED world

Miss(r) == known[r] = Due /\ Becomes(r, Missed) /\ UNCHANGED world

(* The process starts anew. *)
Restart == known' = [r \in Refs |-> Off] /\ UNCHANGED world

Next ==
  \/ \E r \in Refs :
       Watch(r) \/ Unwatch(r) \/ Change(r) \/ Notice(r) \/ Look(r) \/ Miss(r)
  \/ Restart

Spec == Init /\ [][Next]_vars
=============================================================================
