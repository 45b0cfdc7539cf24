----------------------------- MODULE NamedEvent -----------------------------
(***************************************************************************)
(* Event (Event.h) and the registry of named events: WaitOnEvent and       *)
(* WaitOnEventArmed, beside the direct events of EventWait.  Many fibers   *)
(* may wait on one name; SignalAll takes all of them out of the set under  *)
(* the event's mutex and resumes them one after the other outside of it.   *)
(* GetEvent creates an event when it is first asked for, so every name has *)
(* one.  Which of the calls a behaviour makes is its plan.                 *)
(***************************************************************************)
EXTENDS EventWait

CONSTANTS
  Names,    \* names of events
  Plans     \* what the fibers may do: [calls, uses]

ASSUME NamesAssumption == None \notin Names \cup Events
\* Whoever calls Fiber::Suspend and Fiber::Resume itself leaves events alone.
ASSUME BareApart ==
  \A p \in Plans :
    "bare" \in p.calls => p.calls \cap {"armed", "plain", "one", "direct"} = {}

VARIABLES
  plan,     \* the plan of this behaviour: its calls, and its bound on them
  waiters,  \* Event::waiters of each name
  wname,    \* the name a fiber waits on
  armedAll, \* SignalAll calls that armed parties still have to make
  toWake    \* SignalAll's to_wake, by the thread that has called it

namedVars == <<plan, waiters, wname, armedAll, toWake>>
allVars == <<vars, namedVars>>

NamedInit ==
  /\ EventInit /\ plan \in Plans
  /\ waiters = [n \in Names |-> {}] /\ wname = [f \in Fibers |-> None]
  /\ armedAll = {} /\ toWake = [r \in Resumers |-> {}]

May(f, call) == call \in plan.calls /\ uses[f] < plan.uses
-----------------------------------------------------------------------------
(* The waiting fiber.  BecomeParkable and Leave are those of EventWait.     *)

\* WaitOnEvent and WaitOnEventArmed find the event.
CallNamed(w, n) ==
  LET f == wfib[w] IN
  /\ wpc[w] = "on" /\ fpc[f] = "run" /\ (May(f, "plain") \/ May(f, "armed"))
  /\ FiberAt(f, "acquired") /\ wname' = [wname EXCEPT ![f] = n]
  /\ uses' = [uses EXCEPT ![f] = @ + 1]
  /\ UNCHANGED <<fiberVars, waiter, freeq, fev, armed, fired, plan, waiters, armedAll, toWake>>

\* Mutant: the fiber registers before it is parkable.
AddWaiterEarly(w) ==
  LET f == wfib[w] IN
  /\ wpc[w] \in {"on", "leaving"} /\ wname[f] # None /\ fpc[f] \in {"acquired", "parkable"}
  /\ waiters' = [waiters EXCEPT ![wname[f]] = @ \cup {f}]
  /\ IF fpc[f] = "parkable" THEN FiberAt(f, "published") ELSE UNCHANGED fpc
  /\ UNCHANGED <<fiberVars, waiter, freeq, fev, uses, armed, fired, plan, wname, armedAll, toWake>>

AddWaiter(w) ==
  LET f == wfib[w] IN
  /\ wpc[w] = "leaving" /\ wname[f] # None /\ fpc[f] = "parkable"
  /\ waiters' = [waiters EXCEPT ![wname[f]] = @ \cup {f}] /\ FiberAt(f, "published")
  /\ UNCHANGED <<fiberVars, waiter, freeq, fev, uses, armed, fired, plan, wname, armedAll, toWake>>

\* if (arm) arm(): somebody will call SignalAll for this wait, or not.
ArmNamed(w) ==
  LET f == wfib[w] IN
  /\ wpc[w] = "leaving" /\ wname[f] # None /\ fpc[f] = "published" /\ FiberAt(f, "armed")
  /\ \/ "armed" \in plan.calls
        /\ armedAll' = armedAll \cup {[fiber |-> f, name |-> wname[f], number |-> uses[f]]}
     \/ "plain" \in plan.calls /\ UNCHANGED armedAll
  /\ UNCHANGED <<fiberVars, waiter, freeq, fev, uses, armed, fired, plan, waiters, wname, toWake>>

NamedReturn(w) ==
  LET f == wfib[w] IN
  /\ wpc[w] = "on" /\ wname[f] # None /\ fpc[f] = "armed"
  /\ FiberAt(f, "run") /\ wname' = [wname EXCEPT ![f] = None]
  /\ UNCHANGED <<fiberVars, waiter, freeq, fev, uses, armed, fired, plan, waiters, armedAll, toWake>>
-----------------------------------------------------------------------------
(* Event::SignalAll and Event::Signal(task).                               *)

Free(r) == rpc[r] = "idle" /\ toWake[r] = {}

\* Mutant: the set of waiters is copied and not cleared.
SignalAllKeeps(r, s) ==
  /\ Free(r) /\ s \in armedAll /\ armedAll' = armedAll \ {s}
  /\ toWake' = [toWake EXCEPT ![r] = waiters[s.name]]
  /\ UNCHANGED <<vars, plan, wname, waiters>>

SignalAll(r, s) ==
  /\ Free(r) /\ s \in armedAll /\ armedAll' = armedAll \ {s}
  /\ toWake' = [toWake EXCEPT ![r] = waiters[s.name]]
  /\ waiters' = [waiters EXCEPT ![s.name] = {}]
  /\ UNCHANGED <<vars, plan, wname>>

\* The loop over to_wake.
WakeNext(r) ==
  /\ rpc[r] = "idle"
  /\ \E f \in toWake[r] :
       ResumeCall(r, f) /\ toWake' = [toWake EXCEPT ![r] = @ \ {f}]
  /\ UNCHANGED <<status, saved, pool, queue, workerVars, waitVars, plan, waiters, wname, armedAll>>

\* Signal(t) wakes one task, if it is waiting.
SignalOne(r, f, n) ==
  /\ Free(r) /\ f \in waiters[n] /\ "one" \in plan.calls
  /\ waiters' = [waiters EXCEPT ![n] = @ \ {f}] /\ ResumeCall(r, f)
  /\ UNCHANGED <<status, saved, pool, queue, workerVars, waitVars, plan, wname, armedAll, toWake>>
-----------------------------------------------------------------------------
(* Fiber::Suspend and Fiber::Resume themselves: a fiber that suspends      *)
(* without an event, and any number of calls that resume any fiber.        *)

BareSuspend(w) ==
  /\ wpc[w] = "on" /\ fpc[wfib[w]] = "run" /\ "bare" \in plan.calls /\ AskSuspend(w)
  /\ UNCHANGED <<waitVars, namedVars>>

BareResume(r, f) ==
  /\ Free(r) /\ "bare" \in plan.calls /\ ResumeCall(r, f)
  /\ UNCHANGED <<status, saved, pool, queue, workerVars, waitVars, namedVars>>
-----------------------------------------------------------------------------
DirectCode(w) ==
  /\ wname[wfib[w]] = None
  /\ \/ FiberCode(w)
     \/ (May(wfib[w], "direct") /\ CallWait(w))
     \/ (May(wfib[w], "yield") /\ Yield(w))
  /\ UNCHANGED namedVars

NamedCode(w) ==
  \/ \E n \in Names : CallNamed(w, n)
  \/ AddWaiter(w) \/ ArmNamed(w) \/ NamedReturn(w)
  \/ wname[wfib[w]] # None /\ (BecomeParkable(w) \/ Leave(w)) /\ UNCHANGED namedVars

WorkerCode(w) ==
  \/ wpc[w] # "loop" /\ (DirectCode(w) \/ NamedCode(w))
  \/ WorkerStep(w) /\ UNCHANGED <<waitVars, namedVars>>

ResumerCode(r) ==
  \/ Resume(r) /\ UNCHANGED <<waitVars, namedVars>>
  \/ WakeNext(r)
  \/ Free(r) /\ \E s \in armed : Signal(r, s) /\ UNCHANGED namedVars
  \/ \E s \in armedAll : SignalAll(r, s)

NamedNext ==
  \/ \E w \in Workers :
       \/ WorkerCode(w) \/ BareSuspend(w)
       \/ \E f \in Fibers : uses[f] < plan.uses /\ NewTask(w, f) /\ UNCHANGED namedVars
  \/ \E r \in Resumers :
       \/ ResumerCode(r)
       \/ \E f \in Fibers : BareResume(r, f) \/ \E n \in Names : SignalOne(r, f, n)

\* Workers and signalling threads run, and the party that was armed signals
\* in the end.  Which queued fiber a worker takes is left open: the number of
\* starts is bounded, so each gets its turn.
NamedSpec ==
  /\ NamedInit /\ [][NamedNext]_allVars
  /\ \A w \in Workers : WF_allVars(WorkerCode(w))
  /\ \A r \in Resumers : WF_allVars(ResumerCode(r))
-----------------------------------------------------------------------------
(* Properties.                                                             *)

\* A fiber is registered with an event only while it waits for that event: one
\* that has been woken, by whatever signal, is in no set any more, so that no
\* later SignalAll can end another wait of it.
RegisteredIsWaiting ==
  \A n \in Names : \A f \in waiters[n] :
    /\ wname[f] = n /\ fpc[f] \in {"published", "armed"}
    /\ status[f] \in {"WANTS_SUSPEND", "SUSPENDED"}
    /\ \A r \in Resumers : f \notin toWake[r]

\* Every wait that somebody was armed for ends, whichever way it waits.
WaitEnds ==
  \A f \in Fibers : fpc[f] # "run" /\ "plain" \notin plan.calls ~> fpc[f] = "run"
=============================================================================
