--------------------------- MODULE LifecycleProofs ---------------------------
(***************************************************************************)
(* Proofs about Lifecycle, for any number of generations.                  *)
(***************************************************************************)
EXTENDS Lifecycle, TLAPS

(***************************************************************************)
(* The inductive invariant behind InstanceIsCurrent.                       *)
(***************************************************************************)
(* initializeManager of every earlier generation is done, and no later one has
   begun: main resets a manager, and goes on, only when there is one and
   nobody holds the lock. *)
EarlierAreDone ==
  /\ \A g \in Generations : g < gen => init[g] = "done"
  /\ \A g \in Generations : g > gen => init[g] = "none"
  /\ gen = 0 => main = "setup"
  /\ gen > 0 => init[gen] # "none"
  /\ gen > 0 /\ main = "setup" => init[gen] = "done" /\ instance = None

(* Who holds the lock rebuilds, and has set managerInstance. *)
LockIsHeld ==
  /\ lock \in {None, gen} /\ instance \in {None, gen}
  /\ \A g \in Generations : lock = g <=> init[g] \in {"list", "read"}
  /\ lock # None => instance = lock

(* What is done has the instance until Reset, and an evaluator. *)
DoneHasInstance ==
  /\ instance # None => init[gen] \in {"list", "read", "done"}
  /\ main # "setup" /\ init[gen] = "done" => instance = gen
  /\ main = "reset" => init[gen] = "done"
  /\ gen > 0 /\ init[gen] = "done" => evaluator[gen] \in {"top", "pass"} \/ gen \in cancelled

LifecycleInv == TypeOK /\ EarlierAreDone /\ LockIsHeld /\ DoneHasInstance

USE DEF mainVars, managerVars, workVars, countVars, vars, Generations

-----------------------------------------------------------------------------
(* Init establishes the invariant. *)
LEMMA LifecycleInit == Init => LifecycleInv
<1> SUFFICES ASSUME Init PROVE LifecycleInv
  OBVIOUS
<1>1. signalled \in BOOLEAN
  BY Zenon DEF Init
<1>2. /\ gen \in 0..MaxGenerations
      /\ expiries \in 0..MaxExpiries /\ signals \in 0..MaxSignals /\ faults \in 0..MaxFaults
  BY LifecycleAssumption DEF Init
<1>3. TypeOK
  BY <1>1, <1>2 DEF Init, TypeOK
<1>4. EarlierAreDone /\ LockIsHeld /\ DoneHasInstance
  BY LifecycleAssumption DEF Init, EarlierAreDone, LockIsHeld, DoneHasInstance
<1> QED  BY <1>3, <1>4 DEF LifecycleInv

(* So does an exit of the process, wherever its goroutines are. *)
LEMMA ExitStep ==
  ASSUME LifecycleInv, Exit, countVars' = countVars \/ Fault PROVE LifecycleInv'
<1>1. /\ gen' = 0 /\ main' = "setup" /\ lock' = None /\ instance' = None
      /\ init' = [g \in Generations |-> "none"]
  BY DEF Exit
<1>2. (EarlierAreDone /\ LockIsHeld /\ DoneHasInstance)'
  BY <1>1, LifecycleAssumption DEF EarlierAreDone, LockIsHeld, DoneHasInstance
<1>3. signalled' \in BOOLEAN
  BY Zenon DEF Exit
<1>4. expiries' \in 0..MaxExpiries /\ signals' \in 0..MaxSignals /\ faults' \in 0..MaxFaults
  BY LifecycleAssumption DEF Fault, LifecycleInv, TypeOK
<1>5. gen' \in 0..MaxGenerations
  BY <1>1, LifecycleAssumption
<1>6. TypeOK'
  BY <1>3, <1>4, <1>5 DEF Exit, TypeOK
<1> QED  BY <1>2, <1>6 DEF LifecycleInv

(* main preserves it.  The delicate step is GetManager: an instance that is set
   while nobody holds the lock belongs to a rebuild that is done. *)
LEMMA MainStep == LifecycleInv /\ Main => LifecycleInv'
<1> SUFFICES ASSUME LifecycleInv, Main PROVE LifecycleInv'
  OBVIOUS
<1> USE LifecycleAssumption DEF LifecycleInv, TypeOK, EarlierAreDone, LockIsHeld, DoneHasInstance
<1>1. CASE Boot
  BY <1>1 DEF Boot
<1>2. CASE StartIteration
  <2>1. CASE Exit /\ Fault
    BY <2>1, ExitStep
  <2>2. CASE ~(Exit /\ Fault)
    <3>1. /\ gen < MaxGenerations /\ gen' = gen + 1 /\ main = "setup" /\ main' = "serving"
          /\ cancelled' \in {cancelled, cancelled \cup {gen'}}
          /\ init' = [init EXCEPT ![gen'] = "check"]
          /\ UNCHANGED <<process, signalled, expired, lock, instance, informers, workVars,
                         countVars>>
      BY <1>2, <2>2 DEF StartIteration, NoFault
    <3>2. gen' \in Generations /\ gen \in Nat
      BY <3>1
    <3>3. TypeOK'
      BY <3>1, <3>2
    <3>4. instance = None /\ lock = None
      BY <3>1, <3>2
    <3>5. EarlierAreDone'
      BY <3>1, <3>2
    <3>6. LockIsHeld' /\ DoneHasInstance'
      BY <3>1, <3>2, <3>4
    <3> QED  BY <3>3, <3>5, <3>6
  <2> QED  BY <1>2, <2>1, <2>2 DEF StartIteration
<1>3. CASE StartReturns
  <2>1. CASE Exit /\ Fault
    BY <2>1, ExitStep
  <2>2. CASE ~(Exit /\ Fault)
    <3>1. /\ main = "serving" /\ main' = "returned"
          /\ UNCHANGED <<process, gen, signalled, cancelled, expired, managerVars, workVars,
                         countVars>>
      BY <1>3, <2>2 DEF StartReturns, NoFault
    <3>2. TypeOK' /\ EarlierAreDone'
      BY <3>1
    <3>3. LockIsHeld' /\ DoneHasInstance'
      BY <3>1
    <3> QED  BY <3>2, <3>3
  <2> QED  BY <1>3, <2>1, <2>2 DEF StartReturns
<1>4. CASE GetManager
  <2>1. CASE instance = None
    BY <1>4, <2>1, ExitStep DEF GetManager, NoFault
  <2>2. CASE instance # None
    <3>1. /\ main = "returned" /\ main' = "reset" /\ lock = None
          /\ UNCHANGED <<process, gen, signalled, cancelled, expired, managerVars, workVars,
                         countVars>>
      BY <1>4, <2>2 DEF GetManager, NoFault
    <3>2. gen \in Generations /\ init[gen] = "done"
      BY <2>2, <3>1
    <3>3. TypeOK' /\ EarlierAreDone'
      BY <3>1
    <3>4. LockIsHeld' /\ DoneHasInstance'
      BY <3>1, <3>2
    <3> QED  BY <3>3, <3>4
  <2> QED  BY <2>1, <2>2
<1>5. CASE Reset
  BY <1>5 DEF Reset
<1> QED  BY <1>1, <1>2, <1>3, <1>4, <1>5 DEF Main

(* initializeManager preserves it: it is that of the present generation that
   moves, the others are done or have not begun. *)
LEMMA InitializeStep ==
  ASSUME LifecycleInv, NEW g \in Generations, InitializeManager(g) PROVE LifecycleInv'
<1> USE LifecycleAssumption DEF LifecycleInv, TypeOK, EarlierAreDone, LockIsHeld, DoneHasInstance
<1>1. g = gen /\ gen \in Nat /\ gen > 0 /\ main # "setup"
  BY DEF InitializeManager, InitCheck, InitLock, List, RebuildFails, Rebuilt, Retry
<1>2. CASE InitCheck(g)
  BY <1>1, <1>2 DEF InitCheck, Goto, InitFrame, NoFault
<1>3. CASE InitLock(g)
  BY <1>1, <1>3 DEF InitLock, Goto, InitFrame, NoFault
<1>4. CASE List(g)
  BY <1>1, <1>4 DEF List, Goto, InitFrame, NoFault
<1>5. CASE RebuildFails(g)
  BY <1>1, <1>5 DEF RebuildFails, Goto, InitFrame, Fault, NoFault
<1>6. CASE Rebuilt(g)
  BY <1>1, <1>6 DEF Rebuilt, Goto, InitFrame, NoFault
<1>7. CASE Retry(g)
  BY <1>1, <1>7 DEF Retry, Goto, InitFrame, NoFault
<1> QED  BY <1>2, <1>3, <1>4, <1>5, <1>6, <1>7 DEF InitializeManager

(* Contexts are only ever cancelled, and an evaluator ends only with its own. *)
LEMMA RestStep ==
  ASSUME LifecycleInv,
         \/ TokenExpires \/ SIGTERM
         \/ \E g \in Generations :
              \/ restartIfNeeded(g) \/ StartWatcher(g) \/ Evaluator(g)
              \/ storeVersionForCompatibilityChecks(g) \/ InformersStop(g)
  PROVE  LifecycleInv'
<1> USE LifecycleAssumption DEF LifecycleInv, TypeOK, EarlierAreDone, LockIsHeld, DoneHasInstance
<1>1. CASE TokenExpires
  BY <1>1 DEF TokenExpires
<1>2. CASE SIGTERM
  BY <1>2 DEF SIGTERM
<1>3. ASSUME NEW g \in Generations, restartIfNeeded(g) PROVE LifecycleInv'
  BY <1>3 DEF restartIfNeeded
<1>4. ASSUME NEW g \in Generations, StartWatcher(g) PROVE LifecycleInv'
  BY <1>4 DEF StartWatcher, InitFrame, NoFault
<1>5. ASSUME NEW g \in Generations, Evaluator(g) PROVE LifecycleInv'
  <2>1. CASE EvaluatorTop(g)
    BY <1>5, <2>1 DEF EvaluatorTop
  <2>2. CASE EvaluatorPass(g)
    BY <1>5, <2>2 DEF EvaluatorPass
  <2> QED  BY <1>5, <2>1, <2>2 DEF Evaluator
<1>6. ASSUME NEW g \in Generations, storeVersionForCompatibilityChecks(g) PROVE LifecycleInv'
  BY <1>6 DEF storeVersionForCompatibilityChecks
<1>7. ASSUME NEW g \in Generations, InformersStop(g) PROVE LifecycleInv'
  BY <1>7 DEF InformersStop
<1> QED  BY <1>1, <1>2, <1>3, <1>4, <1>5, <1>6, <1>7

(* Every step preserves the invariant. *)
LEMMA LifecycleStep == LifecycleInv /\ [Next]_vars => LifecycleInv'
<1>1. LifecycleInv /\ UNCHANGED vars => LifecycleInv'
  BY DEF LifecycleInv, TypeOK, EarlierAreDone, LockIsHeld, DoneHasInstance
<1> QED  BY <1>1, MainStep, InitializeStep, RestStep DEF Next

(***************************************************************************)
(* For any number of generations, expired tokens, signals and failures:    *)
(* managerInstance is never that of an earlier generation, and once        *)
(* initializeManager is done the present one has it, with an evaluator     *)
(* that runs until the context is cancelled (InitializeManager,            *)
(* GetManager, Reset).                                                     *)
(***************************************************************************)
THEOREM InstanceStaysCurrent == Spec => []InstanceIsCurrent
<1>1. LifecycleInv => InstanceIsCurrent
  BY LifecycleAssumption
  DEF LifecycleInv, TypeOK, EarlierAreDone, LockIsHeld, DoneHasInstance, InstanceIsCurrent
<1> QED  BY <1>1, LifecycleInit, LifecycleStep, PTL DEF Spec
=============================================================================
