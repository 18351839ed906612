-------------------------- MODULE SharedReconciler --------------------------
(***************************************************************************)
(* internal/reconciler/reconciler.go: the loop that runs full passes, one  *)
(* at a time, on a timer and on request.  Trigger hands its request over   *)
(* an unbuffered channel without waiting, so it is received only when the  *)
(* loop is at its select.  cmd/main.go starts Run in a goroutine after     *)
(* SetupWithManager has already called Trigger.                            *)
(***************************************************************************)
EXTENDS Naturals

CONSTANT MaxTriggers               \* bound on calls of Trigger

ASSUME TriggerAssumption == MaxTriggers \in Nat

VARIABLES
  loop,       \* Run: "notStarted", "select", "lock", "pass", "stopped"
  triggered,  \* the flag of the same name: asked for, and no pass begun since
  cancelled,  \* the context is done
  triggers    \* calls of Trigger so far

loopVars == <<loop, triggered, cancelled, triggers>>

LoopInit ==
  /\ loop = "notStarted"
  /\ triggered = FALSE /\ cancelled = FALSE
  /\ triggers = 0

(* With r.mu held: the flag, then a send that succeeds only if the loop    *)
(* waits at its select; otherwise the request is dropped.                  *)
Trigger ==
  /\ triggers < MaxTriggers
  /\ triggers' = triggers + 1
  /\ triggered' = TRUE
  /\ IF loop = "select"
       THEN loop' = "lock"
       ELSE UNCHANGED loop
  /\ UNCHANGED cancelled

(* Run creates the ticker and enters its loop.                             *)
Run ==
  /\ loop = "notStarted"
  /\ loop' = "select"
  /\ UNCHANGED <<triggered, cancelled, triggers>>

Cancel ==
  /\ ~cancelled
  /\ cancelled' = TRUE
  /\ UNCHANGED <<loop, triggered, triggers>>

(* Mutant: a tick is left to the request that is already marked.           *)
TakeTickUnlessTriggered ==
  /\ loop = "select" /\ ~triggered
  /\ loop' = "lock"
  /\ UNCHANGED <<triggered, cancelled, triggers>>

(* The select of Run, its timer: a tick that waits since the last pass, or *)
(* one that comes when GCInterval has elapsed.  (The case of a request is  *)
(* the receiving half of Trigger.)                                         *)
TakeTick ==
  /\ loop = "select"
  /\ loop' = "lock"
  /\ UNCHANGED <<triggered, cancelled, triggers>>

(* The select of Run, its context.                                         *)
Stop ==
  /\ loop = "select" /\ cancelled
  /\ loop' = "stopped"
  /\ UNCHANGED <<triggered, cancelled, triggers>>

(* reconcile: clear the flag under r.mu, then run the pass.                *)
BeginPass ==
  /\ loop = "lock"
  /\ loop' = "pass" /\ triggered' = FALSE
  /\ UNCHANGED <<cancelled, triggers>>

FinishPass ==
  /\ loop = "pass"
  /\ loop' = "select"
  /\ UNCHANGED <<triggered, cancelled, triggers>>

Loop == Run \/ TakeTick \/ Stop \/ BeginPass

-----------------------------------------------------------------------------
(* Every request, dropped or not, is followed by a pass that begins after  *)
(* it, unless the process is told to end: the timer makes up for the       *)
(* unbuffered channel.                                                     *)
EveryTriggerServed == triggered ~> (~triggered \/ cancelled)

=============================================================================
