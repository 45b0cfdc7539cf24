----------------------------- MODULE FiberProofs -----------------------------
(***************************************************************************)
(* The fiber life cycle for any number of fibers, workers and concurrent   *)
(* Resume calls.  FiberInv ties the status of a fiber to the place where   *)
(* it is; it is inductive as it stands.                                    *)
(***************************************************************************)
EXTENDS Fiber, TLAPS

(* One lemma per action. *)

LEMMA StartTaskStep ==
  ASSUME FiberInv, NEW w \in Workers, NEW f \in Fibers, StartTask(w, f)
  PROVE  FiberInv'
<1> USE NoneAssumption DEF FiberInv, StartTask,
      SetStatus, WorkerAt, ResumerAt, workerVars, resumeVars, FiberTypeOK, FiberStatus
<1>1. FiberTypeOK'
  BY SMT
<1>2. AtMostOnePlace'
  BY SMT DEF AtMostOnePlace, WithWorker, WithResumer
<1>3. NeverDropped'
  BY SMT DEF NeverDropped, WithWorker, WithResumer
<1>4. NeverRunUnsaved'
  BY SMT DEF AtMostOnePlace, NeverRunUnsaved
<1>5. WorkerStatus'
  BY SMT DEF AtMostOnePlace, WorkerStatus, WithWorker
<1>6. RestingStatus'
  BY SMT DEF AtMostOnePlace, RestingStatus, WithResumer
<1> QED BY <1>1, <1>2, <1>3, <1>4, <1>5, <1>6

LEMMA SwitchInStep ==
  ASSUME FiberInv, NEW w \in Workers, NEW f \in Fibers, SwitchIn(w, f)
  PROVE  FiberInv'
<1> USE NoneAssumption DEF FiberInv, SwitchIn,
      SetStatus, WorkerAt, ResumerAt, workerVars, resumeVars, FiberTypeOK, FiberStatus
<1>1. FiberTypeOK'
  BY SMT
<1>2. AtMostOnePlace'
  BY SMT DEF AtMostOnePlace, WithWorker, WithResumer
<1>3. NeverDropped'
  BY SMT DEF NeverDropped, WithWorker, WithResumer
<1>4. NeverRunUnsaved'
  BY SMT DEF AtMostOnePlace, NeverRunUnsaved
<1>5. WorkerStatus'
  BY SMT DEF AtMostOnePlace, WorkerStatus, WithWorker
<1>6. RestingStatus'
  BY SMT DEF AtMostOnePlace, RestingStatus, WithResumer
<1> QED BY <1>1, <1>2, <1>3, <1>4, <1>5, <1>6

LEMMA AskStep ==
  ASSUME FiberInv, NEW w \in Workers,
         NEW s \in {"WANTS_YIELD", "WANTS_SUSPEND", "DEAD"}, Ask(w, s)
  PROVE  FiberInv'
<1> USE NoneAssumption DEF FiberInv, Ask,
      SetStatus, WorkerAt, ResumerAt, workerVars, resumeVars, FiberTypeOK, FiberStatus
<1>1. FiberTypeOK'
  BY SMT DEF WorkerStatus
<1>2. AtMostOnePlace'
  BY SMT DEF AtMostOnePlace, WithWorker, WithResumer
<1>3. NeverDropped'
  BY SMT DEF NeverDropped, WithWorker, WithResumer
<1>4. NeverRunUnsaved'
  BY SMT DEF NeverRunUnsaved
<1>5. WorkerStatus'
  BY SMT DEF AtMostOnePlace, WorkerStatus, WithWorker
<1>6. RestingStatus'
  BY SMT DEF WorkerStatus, RestingStatus
<1> QED BY <1>1, <1>2, <1>3, <1>4, <1>5, <1>6

LEMMA SwitchOutStep ==
  ASSUME FiberInv, NEW w \in Workers, SwitchOut(w)
  PROVE  FiberInv'
<1> USE NoneAssumption DEF FiberInv, SwitchOut,
      SetStatus, WorkerAt, ResumerAt, workerVars, resumeVars, FiberTypeOK, FiberStatus
<1>1. FiberTypeOK'
  BY SMT DEF WorkerStatus
<1>2. AtMostOnePlace'
  BY SMT DEF AtMostOnePlace, WithWorker, WithResumer
<1>3. NeverDropped'
  BY SMT DEF NeverDropped, WithWorker, WithResumer
<1>4. NeverRunUnsaved'
  BY SMT DEF NeverRunUnsaved
<1>5. WorkerStatus'
  BY SMT DEF WorkerStatus
<1>6. RestingStatus'
  BY SMT DEF RestingStatus
<1> QED BY <1>1, <1>2, <1>3, <1>4, <1>5, <1>6

LEMMA RetireStep ==
  ASSUME FiberInv, NEW w \in Workers, Retire(w)
  PROVE  FiberInv'
<1> USE NoneAssumption DEF FiberInv, Retire,
      SetStatus, WorkerAt, ResumerAt, workerVars, resumeVars, FiberTypeOK, FiberStatus
<1>1. FiberTypeOK'
  BY SMT DEF WorkerStatus
<1>2. AtMostOnePlace'
  BY SMT DEF AtMostOnePlace, WithWorker, WithResumer
<1>3. NeverDropped'
  BY SMT DEF NeverDropped, WithWorker, WithResumer
<1>4. NeverRunUnsaved'
  BY SMT DEF NeverRunUnsaved
<1>5. WorkerStatus'
  BY SMT DEF WorkerStatus
<1>6. RestingStatus'
  BY SMT DEF RestingStatus
<1> QED BY <1>1, <1>2, <1>3, <1>4, <1>5, <1>6

LEMMA MakeReadyStep ==
  ASSUME FiberInv, NEW w \in Workers, MakeReady(w)
  PROVE  FiberInv'
<1> USE NoneAssumption DEF FiberInv, MakeReady,
      SetStatus, WorkerAt, ResumerAt, workerVars, resumeVars, FiberTypeOK, FiberStatus
<1>1. FiberTypeOK'
  BY SMT DEF WorkerStatus
<1>2. AtMostOnePlace'
  BY SMT DEF AtMostOnePlace, WithWorker, WithResumer
<1>3. NeverDropped'
  BY SMT DEF NeverDropped, WithWorker, WithResumer
<1>4. NeverRunUnsaved'
  BY SMT DEF NeverRunUnsaved
<1>5. WorkerStatus'
  BY SMT DEF AtMostOnePlace, WorkerStatus, WithWorker
<1>6. RestingStatus'
  BY SMT DEF RestingStatus
<1> QED BY <1>1, <1>2, <1>3, <1>4, <1>5, <1>6

LEMMA PushBackStep ==
  ASSUME FiberInv, NEW w \in Workers, PushBack(w)
  PROVE  FiberInv'
<1> USE NoneAssumption DEF FiberInv, PushBack,
      SetStatus, WorkerAt, ResumerAt, workerVars, resumeVars, FiberTypeOK, FiberStatus
<1>1. FiberTypeOK'
  BY SMT DEF WorkerStatus
<1>2. AtMostOnePlace'
  BY SMT DEF AtMostOnePlace, WithWorker, WithResumer
<1>3. NeverDropped'
  BY SMT DEF NeverDropped, WithWorker, WithResumer
<1>4. NeverRunUnsaved'
  BY SMT DEF NeverRunUnsaved, WorkerStatus
<1>5. WorkerStatus'
  BY SMT DEF WorkerStatus
<1>6. RestingStatus'
  BY SMT DEF WorkerStatus, RestingStatus
<1> QED BY <1>1, <1>2, <1>3, <1>4, <1>5, <1>6

LEMMA ParkStep ==
  ASSUME FiberInv, NEW w \in Workers, Park(w)
  PROVE  FiberInv'
<1> USE NoneAssumption DEF FiberInv, Park,
      SetStatus, WorkerAt, ResumerAt, workerVars, resumeVars, FiberTypeOK, FiberStatus
<1>1. FiberTypeOK'
  BY SMT DEF WorkerStatus
<1>2. AtMostOnePlace'
  BY SMT DEF AtMostOnePlace, WithWorker, WithResumer
<1>3. NeverDropped'
  BY SMT DEF AtMostOnePlace, NeverDropped, WithWorker, WithResumer
<1>4. NeverRunUnsaved'
  BY SMT DEF NeverRunUnsaved
<1>5. WorkerStatus'
  BY SMT DEF AtMostOnePlace, WorkerStatus, WithWorker
<1>6. RestingStatus'
  BY SMT DEF WorkerStatus, RestingStatus
<1> QED BY <1>1, <1>2, <1>3, <1>4, <1>5, <1>6

LEMMA ResumeCallStep ==
  ASSUME FiberInv, NEW r \in Resumers, NEW f \in Fibers, ResumeCall(r, f),
         UNCHANGED <<status, saved, pool, queue, workerVars>>
  PROVE  FiberInv'
<1> USE NoneAssumption DEF FiberInv, ResumeCall,
      SetStatus, WorkerAt, ResumerAt, workerVars, resumeVars, FiberTypeOK, FiberStatus
<1>1. FiberTypeOK'
  BY SMT
<1>2. AtMostOnePlace'
  BY SMT DEF AtMostOnePlace, WithWorker, WithResumer
<1>3. NeverDropped'
  BY SMT DEF NeverDropped, WithWorker, WithResumer
<1>4. NeverRunUnsaved'
  BY SMT DEF NeverRunUnsaved
<1>5. WorkerStatus'
  BY SMT DEF WorkerStatus
<1>6. RestingStatus'
  BY SMT DEF RestingStatus
<1> QED BY <1>1, <1>2, <1>3, <1>4, <1>5, <1>6

LEMMA ResumeLoadStep ==
  ASSUME FiberInv, NEW r \in Resumers, ResumeLoad(r)
  PROVE  FiberInv'
<1> USE NoneAssumption DEF FiberInv, ResumeLoad,
      SetStatus, WorkerAt, ResumerAt, workerVars, resumeVars, FiberTypeOK, FiberStatus
<1>1. FiberTypeOK'
  BY SMT
<1>2. AtMostOnePlace'
  BY SMT DEF AtMostOnePlace, WithWorker, WithResumer
<1>3. NeverDropped'
  BY SMT DEF NeverDropped, WithWorker, WithResumer
<1>4. NeverRunUnsaved'
  BY SMT DEF NeverRunUnsaved
<1>5. WorkerStatus'
  BY SMT DEF WorkerStatus
<1>6. RestingStatus'
  BY SMT DEF RestingStatus
<1> QED BY <1>1, <1>2, <1>3, <1>4, <1>5, <1>6

LEMMA ResumeCasSuspendedStep ==
  ASSUME FiberInv, NEW r \in Resumers, ResumeCasSuspended(r)
  PROVE  FiberInv'
<1> USE NoneAssumption DEF FiberInv, ResumeCasSuspended,
      SetStatus, WorkerAt, ResumerAt, workerVars, resumeVars, FiberTypeOK, FiberStatus
<1>1. FiberTypeOK'
  BY SMT
<1>2. AtMostOnePlace'
  BY SMT DEF AtMostOnePlace, WorkerStatus, RestingStatus, WithWorker, WithResumer
<1>3. NeverDropped'
  BY SMT DEF NeverDropped, WithWorker, WithResumer
<1>4. NeverRunUnsaved'
  BY SMT DEF NeverRunUnsaved
<1>5. WorkerStatus'
  BY SMT DEF WorkerStatus
<1>6. RestingStatus'
  BY SMT DEF RestingStatus
<1> QED BY <1>1, <1>2, <1>3, <1>4, <1>5, <1>6

LEMMA ResumeCasWantsStep ==
  ASSUME FiberInv, NEW r \in Resumers, ResumeCasWants(r)
  PROVE  FiberInv'
<1> USE NoneAssumption DEF FiberInv, ResumeCasWants,
      SetStatus, WorkerAt, ResumerAt, workerVars, resumeVars, FiberTypeOK, FiberStatus
<1>1. FiberTypeOK'
  BY SMT
<1>2. AtMostOnePlace'
  BY SMT DEF AtMostOnePlace, WithWorker, WithResumer
<1>3. NeverDropped'
  BY SMT DEF NeverDropped, WithWorker, WithResumer
<1>4. NeverRunUnsaved'
  BY SMT DEF NeverRunUnsaved
<1>5. WorkerStatus'
  BY SMT DEF WorkerStatus
<1>6. RestingStatus'
  BY SMT DEF RestingStatus
<1> QED BY <1>1, <1>2, <1>3, <1>4, <1>5, <1>6

LEMMA ResumeRequeueStep ==
  ASSUME FiberInv, NEW r \in Resumers, ResumeRequeue(r)
  PROVE  FiberInv'
<1> USE NoneAssumption DEF FiberInv, ResumeRequeue,
      SetStatus, WorkerAt, ResumerAt, workerVars, resumeVars, FiberTypeOK, FiberStatus
<1>1. FiberTypeOK'
  BY SMT DEF RestingStatus
<1>2. AtMostOnePlace'
  BY SMT DEF AtMostOnePlace, WithWorker, WithResumer
<1>3. NeverDropped'
  BY SMT DEF NeverDropped, WithWorker, WithResumer
<1>4. NeverRunUnsaved'
  BY SMT DEF NeverRunUnsaved, RestingStatus
<1>5. WorkerStatus'
  BY SMT DEF WorkerStatus
<1>6. RestingStatus'
  BY SMT DEF RestingStatus
<1> QED BY <1>1, <1>2, <1>3, <1>4, <1>5, <1>6
-----------------------------------------------------------------------------
LEMMA FiberInitInv == FiberInit => FiberInv
BY NoneAssumption, SMT
   DEF FiberInit, FiberInv, FiberTypeOK, FiberStatus, AtMostOnePlace, NeverDropped,
       NeverRunUnsaved, WorkerStatus, RestingStatus, WithWorker, WithResumer

LEMMA FiberStep == FiberInv /\ [FiberNext]_fiberVars => FiberInv'
<1> SUFFICES ASSUME FiberInv, [FiberNext]_fiberVars PROVE FiberInv'
  OBVIOUS
<1>1. ASSUME NEW w \in Workers, WorkerStep(w) PROVE FiberInv'
  BY <1>1, SwitchInStep, RetireStep, MakeReadyStep, PushBackStep, ParkStep DEF WorkerStep
<1>2. ASSUME NEW w \in Workers, NEW f \in Fibers, StartTask(w, f) PROVE FiberInv'
  BY <1>2, StartTaskStep
<1>3. ASSUME NEW w \in Workers, AskYield(w) \/ AskSuspend(w) \/ Finish(w) PROVE FiberInv'
  BY <1>3, AskStep DEF AskYield, AskSuspend, Finish
<1>4. ASSUME NEW w \in Workers, SwitchOut(w) PROVE FiberInv'
  BY <1>4, SwitchOutStep
<1>5. ASSUME NEW r \in Resumers, Resume(r) PROVE FiberInv'
  BY <1>5, ResumeLoadStep, ResumeCasSuspendedStep, ResumeCasWantsStep, ResumeRequeueStep
     DEF Resume
<1>6. ASSUME NEW r \in Resumers, NEW f \in Fibers, ResumeCall(r, f),
             UNCHANGED <<status, saved, pool, queue, workerVars>>
      PROVE  FiberInv'
  BY <1>6, ResumeCallStep
<1>7. CASE UNCHANGED fiberVars
  BY <1>7 DEF fiberVars, FiberInv, FiberTypeOK, AtMostOnePlace, NeverDropped,
     NeverRunUnsaved, WorkerStatus, RestingStatus, WithWorker, WithResumer
<1> QED
  BY <1>1, <1>2, <1>3, <1>4, <1>5, <1>6, <1>7 DEF FiberNext

\* The life cycle is type correct.
THEOREM FiberTypeCorrect == FiberSpec => []FiberTypeOK
<1>1. FiberInv => FiberTypeOK   BY DEF FiberInv
<1> QED                         BY <1>1, FiberInitInv, FiberStep, PTL DEF FiberSpec

\* Whatever fibers do and however many Resume calls race with each other and
\* with Thread::Worker's park step: no fiber is ever in two places, none is
\* dropped, and none can be picked up before its context is saved.
THEOREM FiberSafe == FiberSpec => [](AtMostOnePlace /\ NeverDropped /\ NeverRunUnsaved)
<1>1. FiberInv => AtMostOnePlace /\ NeverDropped /\ NeverRunUnsaved
                                BY DEF FiberInv
<1> QED                         BY <1>1, FiberInitInv, FiberStep, PTL DEF FiberSpec
=============================================================================
