------------------------------ MODULE EventWait ------------------------------
(***************************************************************************)
(* TaskScheduler::WaitOnEventDirectArmed with DirectEvent and EventPool    *)
(* (DirectEvent.h): a fiber takes an event from the pool, becomes          *)
(* parkable, publishes itself as the waiter, arms the external wake-up and *)
(* switches out; whoever is armed signals the event; the resumed fiber     *)
(* returns the event to the pool.  Extends the fiber life cycle: every     *)
(* step is a step of Fiber or leaves the fibers alone.  NamedEvent adds    *)
(* the named events and says who runs when.                                *)
(*                                                                         *)
(* fired is a history variable: the waits whose signal has been given.     *)
(***************************************************************************)
EXTENDS Fiber

CONSTANTS
  Events,     \* EventPool::storage
  MaxUses,    \* bound on the tasks and waits a fiber starts
  Copies      \* how often the armed party calls Signal for one wait

ASSUME WaitBounds == MaxUses \in Nat /\ Copies \in Nat \ {0}

VARIABLES
  waiter,   \* DirectEvent::waiter
  freeq,    \* EventPool::freeq
  fpc,      \* where a fiber is in WaitOnEventDirectArmed
  fev,      \* its local e
  uses,     \* tasks and waits the fiber has started, numbers its waits
  armed,    \* Signal calls that external parties still have to make
  fired

waitVars == <<waiter, freeq, fpc, fev, uses, armed, fired>>
vars == <<fiberVars, waitVars>>

EventInit ==
  /\ FiberInit
  /\ waiter = [e \in Events |-> None] /\ freeq = Events
  /\ fpc = [f \in Fibers |-> "run"] /\ fev = [f \in Fibers |-> None]
  /\ uses = [f \in Fibers |-> 0]
  /\ armed = {} /\ fired = {}

FiberAt(f, pc) == fpc' = [fpc EXCEPT ![f] = pc]
\* The identity of the wait that f is in.
Wait(f) == [fiber |-> f, event |-> fev[f], number |-> uses[f]]
-----------------------------------------------------------------------------
(* The waiting fiber, on the worker that runs it.                          *)

\* The fiber calls WaitOnEventDirectArmed.
CallWait(w) ==
  LET f == wfib[w] IN
  /\ wpc[w] = "on" /\ fpc[f] = "run" /\ uses[f] < MaxUses
  /\ FiberAt(f, "acquire") /\ uses' = [uses EXCEPT ![f] = @ + 1]
  /\ UNCHANGED <<fiberVars, waiter, freeq, fev, armed, fired>>

\* eventPool.Acquire()
Acquire(w, e) ==
  LET f == wfib[w] IN
  /\ wpc[w] = "on" /\ fpc[f] = "acquire" /\ e \in freeq
  /\ freeq' = freeq \ {e} /\ waiter' = [waiter EXCEPT ![e] = None]
  /\ fev' = [fev EXCEPT ![f] = e] /\ FiberAt(f, "acquired")
  /\ UNCHANGED <<fiberVars, uses, armed, fired>>

\* 1. become parkable
BecomeParkable(w) ==
  LET f == wfib[w] IN
  /\ wpc[w] = "on" /\ fpc[f] = "acquired" /\ AskSuspend(w)
  /\ FiberAt(f, "parkable")
  /\ UNCHANGED <<waiter, freeq, fev, uses, armed, fired>>

\* 2. publish the waiter
Publish(w) ==
  LET f == wfib[w] IN
  /\ wpc[w] = "leaving" /\ fpc[f] = "parkable"
  /\ waiter' = [waiter EXCEPT ![fev[f]] = f]
  /\ FiberAt(f, "published")
  /\ UNCHANGED <<fiberVars, freeq, fev, uses, armed, fired>>

\* Mutant: the event goes back to the pool as soon as it is armed.
ArmReleases(w) ==
  LET f == wfib[w] IN
  /\ wpc[w] = "leaving" /\ fpc[f] = "published"
  /\ armed' = armed \cup {[wait |-> Wait(f), copy |-> c] : c \in 1 .. Copies}
  /\ freeq' = freeq \cup {fev[f]} /\ FiberAt(f, "armed")
  /\ UNCHANGED <<fiberVars, waiter, fev, uses, fired>>

\* 3. arm(e): from now on the external party may signal
Arm(w) ==
  LET f == wfib[w] IN
  /\ wpc[w] = "leaving" /\ fpc[f] = "published"
  /\ armed' = armed \cup {[wait |-> Wait(f), copy |-> c] : c \in 1 .. Copies}
  /\ FiberAt(f, "armed")
  /\ UNCHANGED <<fiberVars, waiter, freeq, fev, uses, fired>>

\* 4. suspend; a task that is done leaves the same way
Leave(w) ==
  /\ wpc[w] = "leaving" /\ fpc[wfib[w]] \in {"armed", "run"} /\ SwitchOut(w)
  /\ UNCHANGED waitVars

\* Resumed: eventPool.Release(e)
Release(w) ==
  LET f == wfib[w] IN
  /\ wpc[w] = "on" /\ fpc[f] = "armed"
  /\ freeq' = freeq \cup {fev[f]}
  /\ FiberAt(f, "run") /\ fev' = [fev EXCEPT ![f] = None]
  /\ UNCHANGED <<fiberVars, waiter, uses, armed, fired>>

TaskDone(w) ==
  /\ wpc[w] = "on" /\ fpc[wfib[w]] = "run" /\ Finish(w)
  /\ UNCHANGED waitVars

\* Fiber::CoYield; it counts as a use, for the bound.
Yield(w) ==
  LET f == wfib[w] IN
  /\ wpc[w] = "on" /\ fpc[f] = "run" /\ uses[f] < MaxUses /\ AskYield(w)
  /\ uses' = [uses EXCEPT ![f] = @ + 1]
  /\ UNCHANGED <<waiter, freeq, fpc, fev, armed, fired>>

NewTask(w, f) ==
  /\ uses[f] < MaxUses /\ StartTask(w, f)
  /\ uses' = [uses EXCEPT ![f] = @ + 1]
  /\ UNCHANGED <<waiter, freeq, fpc, fev, armed, fired>>
-----------------------------------------------------------------------------
\* DirectEvent::Signal: exchange the waiter with null, resume it if there was
\* one.
Signal(r, s) ==
  LET e == s.wait.event IN
  /\ rpc[r] = "idle" /\ s \in armed
  /\ armed' = armed \ {s} /\ fired' = fired \cup {s.wait}
  /\ waiter' = [waiter EXCEPT ![e] = None]
  /\ IF waiter[e] # None THEN ResumeCall(r, waiter[e]) ELSE UNCHANGED resumeVars
  /\ UNCHANGED <<status, saved, pool, queue, workerVars, freeq, fpc, fev, uses>>

\* What a fiber does once it has called WaitOnEventDirectArmed, and its end.
FiberCode(w) ==
  \/ \E e \in Events : Acquire(w, e)
  \/ BecomeParkable(w) \/ Publish(w) \/ Arm(w) \/ Leave(w) \/ Release(w)
  \/ TaskDone(w)
-----------------------------------------------------------------------------
(* Properties.                                                             *)

\* A wait ends only by the signal that was armed for it: events are recycled
\* through the pool, and only one Signal call wins a waiter.
WokenByOwnSignal ==
  \A w \in Workers :
    wpc[w] = "on" /\ fpc[wfib[w]] = "armed" /\ fev[wfib[w]] # None =>
      Wait(wfib[w]) \in fired
=============================================================================
