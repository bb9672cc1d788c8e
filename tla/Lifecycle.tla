----------------------------- MODULE Lifecycle -----------------------------
(***************************************************************************)
(* The life of the process (main.go, InitializeManager, GetManager, Reset, *)
(* the context of evaluateConfigurationDrift, the version marker).         *)
(*                                                                         *)
(* main runs a loop.  Each iteration, a generation here, has a context, a  *)
(* controller manager that runs until the context is cancelled, a          *)
(* goroutine that cancels it when the token has expired, and one that      *)
(* retries InitializeManager until there is a managerInstance.  All        *)
(* generations share that variable and getManagerLock.  A generation makes *)
(* at most one manager that comes to work, so managers are named after     *)
(* theirs.                                                                 *)
(***************************************************************************)
EXTENDS Naturals

CONSTANTS
  None,
  MaxGenerations,  \* bound on the iterations of the loop in one process
  MaxExpiries,     \* bound on tokens that expire
  MaxSignals,      \* bound on SIGTERMs
  MaxFaults        \* bound on calls that fail for other reasons

Generations == 1..MaxGenerations

ASSUME LifecycleAssumption ==
  /\ MaxGenerations \in Nat /\ MaxExpiries \in Nat /\ MaxSignals \in Nat /\ MaxFaults \in Nat
  /\ None \notin Generations

VARIABLES
  process,    \* "up" or "exited"
  main,       \* where main is: "setup", "serving" (mgr.Start), "returned" or "reset"
  gen,        \* the iteration of the loop, 0 before the first
  signalled,  \* the context of the signal handler is cancelled
  cancelled,  \* generations whose context is cancelled
  expired,    \* generations whose token has expired
  init,       \* init[g]: where initializeManager of g is
  lock,       \* who holds getManagerLock across InitializeManager, or None
  instance,   \* managerInstance
  informers,  \* informers[g]: informers run for the manager ("own"), or for
              \* managers of g whose rebuild failed ("dropped")
  evaluator,  \* evaluator[g]: where evaluateConfigurationDrift is
  passed,     \* wg.Done was called
  version,    \* version[g]: where storeVersionForCompatibilityChecks is
  expiries, signals, faults  \* counters for the bounds

mainVars    == <<process, main, gen, signalled, cancelled, expired>>
managerVars == <<init, lock, instance, informers>>
workVars    == <<evaluator, passed, version>>
countVars   == <<expiries, signals, faults>>
vars == <<mainVars, managerVars, workVars, countVars>>

TypeOK ==
  /\ process \in {"up", "exited"}
  /\ main \in {"setup", "serving", "returned", "reset"}
  /\ gen \in 0..MaxGenerations
  /\ signalled \in BOOLEAN
  /\ cancelled \subseteq Generations /\ expired \subseteq Generations
  /\ init \in [Generations -> {"none", "check", "lock", "list", "read", "sleep", "done"}]
  /\ lock \in Generations \cup {None} /\ instance \in Generations \cup {None}
  /\ informers \in [Generations -> SUBSET {"own", "dropped"}]
  /\ evaluator \in [Generations -> {"none", "top", "pass", "ended"}]
  /\ passed \subseteq Generations
  /\ version \in [Generations -> {"none", "waiting", "storing", "stored"}]
  /\ expiries \in 0..MaxExpiries /\ signals \in 0..MaxSignals /\ faults \in 0..MaxFaults

Init ==
  /\ process = "up" /\ main = "setup" /\ gen = 0
  /\ signalled = FALSE /\ cancelled = {} /\ expired = {}
  /\ init = [g \in Generations |-> "none"] /\ lock = None /\ instance = None
  /\ informers = [g \in Generations |-> {}]
  /\ evaluator = [g \in Generations |-> "none"] /\ passed = {}
  /\ version = [g \in Generations |-> "none"]
  /\ expiries = 0 /\ signals = 0 /\ faults = 0

Fault   == faults < MaxFaults /\ faults' = faults + 1 /\ UNCHANGED <<expiries, signals>>
NoFault == UNCHANGED countVars

-----------------------------------------------------------------------------
(***************************************************************************)
(* main.                                                                   *)
(***************************************************************************)
(* os.Exit(1) or a panic: every goroutine is gone. *)
Exit ==
  /\ process' = "exited" /\ main' = "setup" /\ gen' = 0
  /\ signalled' = FALSE /\ cancelled' = {} /\ expired' = {}
  /\ init' = [g \in Generations |-> "none"] /\ lock' = None /\ instance' = None
  /\ informers' = [g \in Generations |-> {}]
  /\ evaluator' = [g \in Generations |-> "none"] /\ passed' = {}
  /\ version' = [g \in Generations |-> "none"]

(* The kubelet starts the container again. *)
Boot ==
  /\ process = "exited"
  /\ process' = "up"
  /\ UNCHANGED <<main, gen, signalled, cancelled, expired, managerVars, workVars, countVars>>

(* An iteration up to mgr.Start: a new context, under the one of the signal
   handler, and a kubeconfig with a valid token. *)
StartIteration ==
  /\ process = "up" /\ main = "setup"
  /\ \/ /\ gen < MaxGenerations
        /\ gen' = gen + 1 /\ main' = "serving"
        /\ cancelled' = IF signalled THEN cancelled \cup {gen'} ELSE cancelled
        /\ init' = [init EXCEPT ![gen'] = "check"]
        /\ NoFault
        /\ UNCHANGED <<process, signalled, expired, lock, instance, informers, workVars>>
     \/ Exit /\ Fault

(* mgr.Start returns once the context is cancelled, or with an error. *)
StartReturns ==
  /\ main = "serving"
  /\ \/ /\ gen \in cancelled
        /\ main' = "returned"
        /\ NoFault
        /\ UNCHANGED <<process, gen, signalled, cancelled, expired, managerVars, workVars>>
     \/ Exit /\ Fault

(* Mutant: main goes on when there is no manager to reset. *)
MainIgnoresMissing ==
  /\ main = "returned" /\ lock = None
  /\ main' = IF instance = None THEN "setup" ELSE "reset"
  /\ NoFault
  /\ UNCHANGED <<process, gen, signalled, cancelled, expired, managerVars, workVars>>

(* GetManager *)
GetManager ==
  /\ main = "returned" /\ lock = None
  /\ IF instance = None
     THEN Exit
     ELSE /\ main' = "reset"
          /\ UNCHANGED <<process, gen, signalled, cancelled, expired, managerVars, workVars>>
  /\ NoFault

Reset ==
  /\ main = "reset" /\ lock = None
  /\ instance' = None
  /\ main' = "setup"
  /\ UNCHANGED <<process, gen, signalled, cancelled, expired, init, lock, informers,
                 workVars, countVars>>

(* restartIfNeeded, in the iteration in which the call is refused. *)
restartIfNeeded(g) ==
  /\ g \in expired \ cancelled
  /\ cancelled' = cancelled \cup {g}
  /\ UNCHANGED <<process, main, gen, signalled, expired, managerVars, workVars, countVars>>

TokenExpires ==
  /\ main = "serving" /\ gen \notin expired /\ expiries < MaxExpiries
  /\ expired' = expired \cup {gen}
  /\ expiries' = expiries + 1
  /\ UNCHANGED <<process, main, gen, signalled, cancelled, managerVars, workVars, signals,
                 faults>>

SIGTERM ==
  /\ process = "up" /\ ~signalled /\ signals < MaxSignals
  /\ signalled' = TRUE
  /\ cancelled' = 1..gen
  /\ signals' = signals + 1
  /\ UNCHANGED <<process, main, gen, expired, managerVars, workVars, expiries, faults>>

Main == Boot \/ StartIteration \/ StartReturns \/ GetManager \/ Reset

-----------------------------------------------------------------------------
(***************************************************************************)
(* initializeManager and InitializeManager of generation g.                *)
(***************************************************************************)
InitFrame == UNCHANGED <<mainVars, passed>>

Goto(g, where) == init' = [init EXCEPT ![g] = where]

(* The first look at managerInstance is made without the lock. *)
InitCheck(g) ==
  /\ init[g] = "check"
  /\ Goto(g, IF instance = None THEN "lock" ELSE "done")
  /\ InitFrame /\ NoFault /\ UNCHANGED <<lock, instance, informers, evaluator, version>>

InitLock(g) ==
  /\ init[g] = "lock" /\ lock = None
  /\ IF instance = None
     THEN Goto(g, "list") /\ lock' = g /\ instance' = g
     ELSE Goto(g, "done") /\ UNCHANGED <<lock, instance>>
  /\ InitFrame /\ NoFault /\ UNCHANGED <<informers, evaluator, version>>

(* readResourceSummaries lists with a context that is not cancelled. *)
List(g) ==
  /\ init[g] = "list" /\ g \notin cancelled
  /\ Goto(g, "read")
  /\ InitFrame /\ NoFault /\ UNCHANGED <<lock, instance, informers, evaluator, version>>

(* An entry is registered, and a watcher with it. *)
StartWatcher(g) ==
  /\ init[g] = "read" \/ (main = "serving" /\ instance = g /\ lock = None)
  /\ g \notin cancelled /\ "own" \notin informers[g]
  /\ informers' = [informers EXCEPT ![g] = @ \cup {"own"}]
  /\ InitFrame /\ NoFault /\ UNCHANGED <<init, lock, instance, evaluator, version>>

(* The manager is dropped; its informers, which have the context of the
   generation, are not stopped. *)
RebuildFails(g) ==
  /\ init[g] \in {"list", "read"}
  /\ IF g \in cancelled \cup expired THEN NoFault ELSE Fault
  /\ Goto(g, "sleep")
  /\ lock' = None /\ instance' = None
  /\ informers' = [informers EXCEPT ![g] = IF @ = {} THEN {} ELSE {"dropped"}]
  /\ InitFrame /\ UNCHANGED <<evaluator, version>>

(* Every entry is read: the two goroutines start. *)
Rebuilt(g) ==
  /\ init[g] = "read"
  /\ Goto(g, "done")
  /\ lock' = None
  /\ evaluator' = [evaluator EXCEPT ![g] = "top"]
  /\ version' = [version EXCEPT ![g] = "waiting"]
  /\ InitFrame /\ NoFault /\ UNCHANGED <<instance, informers>>

(* The retry does not look at the context. *)
Retry(g) ==
  /\ init[g] = "sleep"
  /\ Goto(g, "check")
  /\ InitFrame /\ NoFault /\ UNCHANGED <<lock, instance, informers, evaluator, version>>

InitializeManager(g) ==
  InitCheck(g) \/ InitLock(g) \/ List(g) \/ RebuildFails(g) \/ Rebuilt(g) \/ Retry(g)

-----------------------------------------------------------------------------
(***************************************************************************)
(* What a manager runs.                                                    *)
(***************************************************************************)
(* Mutant: the loop does not look at the context. *)
EvaluatorGoesOn(g) ==
  /\ evaluator[g] = "top"
  /\ evaluator' = [evaluator EXCEPT ![g] = "pass"]
  /\ UNCHANGED <<mainVars, managerVars, passed, version, countVars>>

(* The context is looked at between two passes only. *)
EvaluatorTop(g) ==
  /\ evaluator[g] = "top"
  /\ evaluator' = [evaluator EXCEPT ![g] = IF g \in cancelled THEN "ended" ELSE "pass"]
  /\ UNCHANGED <<mainVars, managerVars, passed, version, countVars>>

(* Mutant: nobody is told of the first pass. *)
PassForgetsDone(g) ==
  /\ evaluator[g] = "pass"
  /\ evaluator' = [evaluator EXCEPT ![g] = "top"]
  /\ UNCHANGED <<mainVars, managerVars, passed, version, countVars>>

EvaluatorPass(g) ==
  /\ evaluator[g] = "pass"
  /\ evaluator' = [evaluator EXCEPT ![g] = "top"]
  /\ passed' = passed \cup {g}
  /\ UNCHANGED <<mainVars, managerVars, version, countVars>>

(* storeVersionForCompatibilityChecks waits for the first pass; a write that
   fails is tried again, whatever the context. *)
storeVersionForCompatibilityChecks(g) ==
  /\ \/ version[g] = "waiting" /\ g \in passed
        /\ version' = [version EXCEPT ![g] = "storing"]
     \/ version[g] = "storing" /\ g \notin cancelled \cup expired
        /\ version' = [version EXCEPT ![g] = "stored"]
  /\ UNCHANGED <<mainVars, managerVars, evaluator, passed, countVars>>

InformersStop(g) ==
  /\ g \in cancelled /\ informers[g] # {}
  /\ informers' = [informers EXCEPT ![g] = {}]
  /\ UNCHANGED <<mainVars, init, lock, instance, workVars, countVars>>

Evaluator(g) == EvaluatorTop(g) \/ EvaluatorPass(g)

-----------------------------------------------------------------------------
Next ==
  \/ Main \/ TokenExpires \/ SIGTERM
  \/ \E g \in Generations :
       \/ restartIfNeeded(g) \/ InitializeManager(g) \/ StartWatcher(g)
       \/ Evaluator(g) \/ storeVersionForCompatibilityChecks(g) \/ InformersStop(g)

Spec == Init /\ [][Next]_vars

(***************************************************************************)
(* Fairness: every goroutine runs, sleeps end, Go's mutex starves nobody,  *)
(* the kubelet restarts the container.  Tokens need not expire and nobody  *)
(* need send a signal.                                                     *)
(***************************************************************************)
FairSpec ==
  /\ Spec
  /\ WF_vars(Main) /\ SF_vars(GetManager) /\ SF_vars(Reset)
  /\ \A g \in Generations :
       /\ WF_vars(restartIfNeeded(g))
       /\ WF_vars(InitializeManager(g)) /\ SF_vars(InitLock(g))
       /\ WF_vars(Evaluator(g)) /\ WF_vars(storeVersionForCompatibilityChecks(g))
       /\ WF_vars(InformersStop(g))

-----------------------------------------------------------------------------
(***************************************************************************)
(* Properties.                                                             *)
(***************************************************************************)
(* managerInstance never belongs to an earlier generation, and a generation
   whose initializeManager is done has the instance, with an evaluator that
   runs until the context is cancelled: no goroutine of an earlier generation
   gets between Reset and InitializeManager, though neither looks at the
   context and the first look at managerInstance is made without the lock. *)
InstanceIsCurrent ==
  /\ TypeOK
  /\ instance \in {None, gen}
  /\ main = "serving" /\ init[gen] = "done" =>
       /\ instance = gen
       /\ evaluator[gen] \in {"top", "pass"} \/ gen \in cancelled

(* main: closing the context "terminates the manager and the evaluation
   manager": what a cancelled generation left running ends. *)
Lingers(g) ==
  /\ g \in cancelled
  /\ \/ evaluator[g] \in {"top", "pass"}
     \/ informers[g] # {}
     \/ init[g] \notin {"none", "done"}

CancelledEnds ==
  (\E g \in Generations : Lingers(g)) ~> (\A g \in Generations : ~Lingers(g))

(* Expired tokens, failed rebuilds, exits and signals are survived: in the end
   a manager of the present generation works, with a valid token, and has
   stored the version after its first pass. *)
Works ==
  /\ process = "up" /\ main = "serving"
  /\ instance = gen /\ gen \notin cancelled \cup expired
  /\ evaluator[gen] \in {"top", "pass"} /\ version[gen] = "stored"

Recovers == <>[]Works
=============================================================================
