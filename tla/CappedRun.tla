------------------------------ MODULE CappedRun ------------------------------
(***************************************************************************)
(* metrics/_subprocess.py: run_capped(), a tool in a session of its own    *)
(* under a wall-clock cap, and _kill_tree() on POSIX.  The tool's          *)
(* processes run, fork and exit on their own; subprocess.Popen is modelled *)
(* from how run_capped() uses it (CPython's communicate() and __exit__()). *)
(* A process that is sent SIGKILL is taken to die.                         *)
(*                                                                         *)
(* A definition X_suffix just before X is a seeded bug for mutation runs.  *)
(***************************************************************************)
EXTENDS Naturals

CONSTANTS Capped,         \* is there a timeout?
          MaxInterrupts,  \* bound: signals delivered to one call
          InterruptAt     \* steps at which one may be delivered

Steps == {"spawn", "body", "communicate", "caught", "reap", "exit", "ended"}

ASSUME CappedRunAssumption ==
  /\ Capped \in BOOLEAN /\ MaxInterrupts \in Nat
  /\ InterruptAt \subseteq {"body", "communicate", "caught", "reap", "exit"}

VARIABLES
  pc,         \* the caller, by the step it takes next
  child,      \* the tool: "none", "running", "zombie" or "reaped"
  helpers,    \* what it forked and still runs: in its group, or escaped by setsid()
  raising,    \* the exception under way: "none", "timeout", "int" or "term"
  outcome,    \* how the call ended: "none", "completed", "oserror" or the exception
  interrupts, \* signals delivered so far
  cause       \* history: the first exception

vars == <<pc, child, helpers, raising, outcome, interrupts, cause>>
tool == <<child, helpers>>

Init ==
  /\ pc = "spawn" /\ child = "none" /\ helpers = {}
  /\ raising = "none" /\ outcome = "none" /\ interrupts = 0
  /\ cause = "none"

-----------------------------------------------------------------------------
(* The tool.  Every process of it holds the captured pipes.                *)

Fork ==
  /\ \E h \in {"group", "escaped"} :
       /\ child = "running" \/ "group" \in helpers \/ (h = "escaped" /\ h \in helpers)
       /\ helpers' = helpers \cup {h}
  /\ UNCHANGED <<pc, child, raising, outcome, interrupts, cause>>

ChildExits ==
  /\ child = "running" /\ child' = "zombie"
  /\ UNCHANGED <<pc, helpers, raising, outcome, interrupts, cause>>

HelperExits ==
  /\ \E h \in helpers : helpers' = helpers \ {h}
  /\ UNCHANGED <<pc, child, raising, outcome, interrupts, cause>>

-----------------------------------------------------------------------------
(* The caller.                                                             *)

Spawn ==
  /\ pc = "spawn"
  /\ \/ pc' = "body" /\ child' = "running" /\ UNCHANGED outcome
     \/ pc' = "ended" /\ outcome' = "oserror" /\ UNCHANGED child
  /\ UNCHANGED <<helpers, raising, interrupts, cause>>

EnterTry ==
  /\ pc = "body" /\ pc' = "communicate"
  /\ UNCHANGED <<tool, raising, outcome, interrupts, cause>>

(* communicate() reads until every holder of the pipes is gone, then reaps.*)
PipesClosed == child # "running" /\ helpers = {}

Communicate ==
  /\ pc = "communicate" /\ PipesClosed
  /\ child' = "reaped" /\ pc' = "exit"
  /\ UNCHANGED <<helpers, raising, outcome, interrupts, cause>>

Raise(e) == raising' = e /\ cause' = IF cause = "none" THEN e ELSE cause

CapReached ==
  /\ pc = "communicate" /\ Capped
  /\ Raise("timeout") /\ pc' = "caught"
  /\ UNCHANGED <<tool, outcome, interrupts>>

(* _kill_tree(): SIGKILL to the process group.  Without the child's pid    *)
(* there is no group to find, and Popen.kill() does nothing.               *)
Survivors_child_only == helpers
Survivors == helpers \ {"group"}

KillTree ==
  /\ pc = "caught" /\ pc' = "reap"
  /\ IF child = "reaped"
     THEN UNCHANGED tool
     ELSE child' = "zombie" /\ helpers' = Survivors
  /\ UNCHANGED <<raising, outcome, interrupts, cause>>

Reap ==
  /\ pc = "reap" /\ PipesClosed
  /\ child' = "reaped" /\ pc' = "exit"
  /\ UNCHANGED <<helpers, raising, outcome, interrupts, cause>>

(* An escaped process may hold the pipes for ever: the reap is bounded.    *)
ReapBounded_unbounded == FALSE
ReapBounded == TRUE

ReapTimesOut ==
  /\ pc = "reap" /\ ReapBounded
  /\ pc' = "exit"
  /\ UNCHANGED <<tool, raising, outcome, interrupts, cause>>

(* How the call ends once nothing more can raise.                          *)
Outcome == IF raising = "none" THEN "completed" ELSE raising

(* The end of the with statement: Popen waits for the child, but not under *)
(* a KeyboardInterrupt.                                                    *)
Exit ==
  /\ pc = "exit" /\ pc' = "ended"
  /\ \/ child # "running" /\ child' = "reaped"
     \/ raising = "int" /\ UNCHANGED child
  /\ outcome' = Outcome
  /\ UNCHANGED <<helpers, raising, interrupts, cause>>

(* A signal's exception.  communicate() waits a moment for the child       *)
(* before it passes a KeyboardInterrupt on, and reaps it if it has exited. *)
ReapsFirst(sig) == sig = "int" /\ pc \in {"communicate", "reap"}

(* Only communicate() is guarded by the handler that kills the tool.       *)
AfterSignal ==
  CASE pc = "communicate" -> "caught"
    [] pc = "exit"        -> "ended"
    [] OTHER              -> "exit"

Interrupt(sig) ==
  /\ pc \in InterruptAt /\ interrupts < MaxInterrupts
  /\ interrupts' = interrupts + 1
  /\ Raise(sig)
  /\ pc' = AfterSignal
  /\ outcome' = IF pc = "exit" THEN sig ELSE outcome
  /\ child' = IF ReapsFirst(sig) /\ child = "zombie" THEN "reaped" ELSE child
  /\ UNCHANGED helpers

Call == \/ Spawn \/ EnterTry \/ Communicate \/ CapReached \/ KillTree
        \/ Reap \/ ReapTimesOut \/ Exit

Ended == pc = "ended" /\ UNCHANGED vars

Next == \/ Call \/ Fork \/ ChildExits \/ HelperExits \/ Ended
        \/ \E sig \in {"int", "term"} : Interrupt(sig)

Spec == Init /\ [][Next]_vars

-----------------------------------------------------------------------------
(* Properties.                                                             *)

TypeOK ==
  /\ pc \in Steps
  /\ child \in {"none", "running", "zombie", "reaped"}
  /\ helpers \subseteq {"group", "escaped"}
  /\ raising \in {"none", "timeout", "int", "term"}
  /\ outcome \in {"none", "completed", "oserror", "timeout", "int", "term"}
  /\ pc = "ended" <=> outcome # "none"
  /\ interrupts \in 0..MaxInterrupts
  /\ cause \in {"none", "timeout", "int", "term"}

TornDown == child # "running" /\ "group" \notin helpers

(* When the cap or a SIGTERM stops the tool, it is gone when the call has  *)
(* ended, with every process that stayed in its group: those it forked     *)
(* while it was being stopped too, and whatever interrupts the reap.       *)
CapTearsDown == (pc = "ended" /\ cause \in {"timeout", "term"}) => TornDown

(* _subprocess.py:89: any abnormal exit tears the process tree down, so    *)
(* cancelling the caller cannot leave a profiler and its GPU workload      *)
(* running.                                                                *)
CancelTearsDown == (pc = "ended" /\ cause # "none") => TornDown
=============================================================================
