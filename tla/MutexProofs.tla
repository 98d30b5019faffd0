---------------------------- MODULE MutexProofs ----------------------------
(***************************************************************************)
(* Theorems about Mutex, for any set of tasks, with and without lazy       *)
(* initialization.                                                         *)
(***************************************************************************)
EXTENDS Mutex, TLAPS

\* From the first task on, Boot's operations are real.
LEMMA CreateTaskStep ==
  ASSUME IInv, CreateTask
  PROVE  IInv'
<1> USE StatesAssumption, BootAssumption, LazyAssumption
    DEF IInv, TypeOK, InCritical, Operations, Scheduled, Goto, Lasting, kernel, CreateTask
<1>1. TypeOK'
  OBVIOUS
<1>2. InitializationSound'
  BY DEF InitializationSound
<1>3. BootSound'
  BY DEF BootSound, CallSound, OwnerHolds
<1>4. OwnerHolds'
  BY DEF BootSound, CallSound, OwnerHolds
<1>5. CallSound'
  BY DEF BootSound, CallSound
<1>6. CreatedOnce'
  BY DEF CreatedOnce, InitializationSound
<1> QED
  BY <1>1, <1>2, <1>3, <1>4, <1>5, <1>6

\* Boot hands over to the tasks with nothing in progress.
LEMMA StartSchedulerStep ==
  ASSUME IInv, StartScheduler
  PROVE  IInv'
<1> USE StatesAssumption, BootAssumption, LazyAssumption
    DEF IInv, TypeOK, InCritical, Operations, Scheduled, Goto, Lasting, kernel, StartScheduler
<1>1. TypeOK'
  OBVIOUS
<1>2. InitializationSound'
  BY DEF InitializationSound
<1>3. BootSound'
  BY DEF BootSound, CallSound, OwnerHolds
<1>4. OwnerHolds'
  BY DEF BootSound, CallSound, OwnerHolds
<1>5. CallSound'
  BY DEF BootSound, CallSound
<1>6. CreatedOnce'
  BY DEF CreatedOnce, InitializationSound
<1> QED
  BY <1>1, <1>2, <1>3, <1>4, <1>5, <1>6

\* An operation begins with its caller owning the mutex or not, as it needs.
LEMMA CallStep ==
  ASSUME IInv, NEW t \in Threads, Scheduled(t), NEW o \in Operations, Call(t, o)
  PROVE  IInv'
<1> USE StatesAssumption, BootAssumption, LazyAssumption
    DEF IInv, TypeOK, InCritical, Operations, Scheduled, Goto, Lasting, kernel, Call
<1>1. TypeOK'
  OBVIOUS
<1>2. InitializationSound'
  BY DEF InitializationSound
<1>3. BootSound'
  BY DEF BootSound, CallSound, OwnerHolds
<1>4. OwnerHolds'
  BY DEF BootSound, CallSound, OwnerHolds
<1>5. CallSound'
  BY DEF BootSound, CallSound
<1>6. CreatedOnce'
  BY DEF CreatedOnce, InitializationSound
<1> QED
  BY <1>1, <1>2, <1>3, <1>4, <1>5, <1>6

\* The unsynchronized check is right when it skips the initialization.
LEMMA FirstCheckStep ==
  ASSUME IInv, NEW t \in Threads, Scheduled(t), FirstCheck(t)
  PROVE  IInv'
<1> USE StatesAssumption, BootAssumption, LazyAssumption
    DEF IInv, TypeOK, InCritical, Operations, Scheduled, Goto, Lasting, kernel, FirstCheck
<1>1. TypeOK'
  OBVIOUS
<1>2. InitializationSound'
  BY DEF InitializationSound
<1>3. BootSound'
  BY DEF BootSound, CallSound, OwnerHolds
<1>4. OwnerHolds'
  BY DEF BootSound, CallSound, OwnerHolds
<1>5. CallSound'
  BY DEF BootSound, CallSound
<1>6. CreatedOnce'
  BY DEF CreatedOnce, InitializationSound
<1> QED
  BY <1>1, <1>2, <1>3, <1>4, <1>5, <1>6

\* The second check is exact: a thread goes on to create the mutex only if
\* nobody has.
LEMMA EnterCriticalStep ==
  ASSUME IInv, NEW t \in Threads, Scheduled(t), EnterCritical(t)
  PROVE  IInv'
<1> USE StatesAssumption, BootAssumption, LazyAssumption
    DEF IInv, TypeOK, InCritical, Operations, Scheduled, Goto, Lasting, kernel, EnterCritical
<1>1. TypeOK'
  OBVIOUS
<1>2. InitializationSound'
  BY DEF InitializationSound
<1>3. BootSound'
  BY DEF BootSound, CallSound, OwnerHolds
<1>4. OwnerHolds'
  BY DEF BootSound, CallSound, OwnerHolds
<1>5. CallSound'
  BY DEF BootSound, CallSound
<1>6. CreatedOnce'
  BY DEF CreatedOnce, InitializationSound
<1> QED
  BY <1>1, <1>2, <1>3, <1>4, <1>5, <1>6

\* Nobody can use the mutex while it is created.
LEMMA CreateStep ==
  ASSUME IInv, NEW t \in Threads, Scheduled(t), Create(t)
  PROVE  IInv'
<1> USE StatesAssumption, BootAssumption, LazyAssumption
    DEF IInv, TypeOK, InCritical, Operations, Scheduled, Goto, Lasting, kernel, Create
<1>1. TypeOK'
  BY DEF CreatedOnce
<1>2. InitializationSound'
  BY DEF CreatedOnce, InitializationSound
<1>3. BootSound'
  BY DEF BootSound, CallSound, CreatedOnce, OwnerHolds
<1>4. OwnerHolds'
  BY DEF BootSound, CallSound, CreatedOnce, OwnerHolds
<1>5. CallSound'
  BY DEF BootSound, CallSound, CreatedOnce
<1>6. CreatedOnce'
  BY DEF CreatedOnce, InitializationSound
<1> QED
  BY <1>1, <1>2, <1>3, <1>4, <1>5, <1>6

\* The flag is set for a mutex that exists.
LEMMA PublishStep ==
  ASSUME IInv, NEW t \in Threads, Scheduled(t), Publish(t)
  PROVE  IInv'
<1> USE StatesAssumption, BootAssumption, LazyAssumption
    DEF IInv, TypeOK, InCritical, Operations, Scheduled, Goto, Lasting, kernel, Publish
<1>1. TypeOK'
  OBVIOUS
<1>2. InitializationSound'
  BY DEF InitializationSound
<1>3. BootSound'
  BY DEF BootSound, CallSound, OwnerHolds
<1>4. OwnerHolds'
  BY DEF BootSound, CallSound, OwnerHolds
<1>5. CallSound'
  BY DEF BootSound, CallSound
<1>6. CreatedOnce'
  BY DEF CreatedOnce, InitializationSound
<1> QED
  BY <1>1, <1>2, <1>3, <1>4, <1>5, <1>6

\* Whoever leaves the critical section leaves a mutex behind.
LEMMA LeaveCriticalStep ==
  ASSUME IInv, NEW t \in Threads, Scheduled(t), LeaveCritical(t)
  PROVE  IInv'
<1> USE StatesAssumption, BootAssumption, LazyAssumption
    DEF IInv, TypeOK, InCritical, Operations, Scheduled, Goto, Lasting, kernel, LeaveCritical
<1>1. TypeOK'
  OBVIOUS
<1>2. InitializationSound'
  BY DEF InitializationSound
<1>3. BootSound'
  BY DEF BootSound, CallSound, OwnerHolds
<1>4. OwnerHolds'
  BY DEF BootSound, CallSound, OwnerHolds
<1>5. CallSound'
  BY DEF BootSound, CallSound
<1>6. CreatedOnce'
  BY DEF CreatedOnce, InitializationSound
<1> QED
  BY <1>1, <1>2, <1>3, <1>4, <1>5, <1>6

\* Before the scheduler runs the kernel mutex stays untouched.
LEMMA NotStartedStep ==
  ASSUME IInv, NEW t \in Threads, Scheduled(t), NotStarted(t)
  PROVE  IInv'
<1> USE StatesAssumption, BootAssumption, LazyAssumption
    DEF IInv, TypeOK, InCritical, Operations, Scheduled, Goto, Lasting, kernel, NotStarted
<1>1. TypeOK'
  OBVIOUS
<1>2. InitializationSound'
  BY DEF InitializationSound
<1>3. BootSound'
  BY DEF BootSound, CallSound, OwnerHolds
<1>4. OwnerHolds'
  BY DEF BootSound, CallSound, OwnerHolds
<1>5. CallSound'
  BY DEF BootSound, CallSound
<1>6. CreatedOnce'
  BY DEF CreatedOnce, InitializationSound
<1> QED
  BY <1>1, <1>2, <1>3, <1>4, <1>5, <1>6

\* The kernel gives the mutex to one task.
LEMMA TakeStep ==
  ASSUME IInv, NEW t \in Threads, Scheduled(t), Take(t)
  PROVE  IInv'
<1> USE StatesAssumption, BootAssumption, LazyAssumption
    DEF IInv, TypeOK, InCritical, Operations, Scheduled, Goto, Lasting, kernel, Take
<1>1. TypeOK'
  OBVIOUS
<1>2. InitializationSound'
  BY DEF InitializationSound
<1>3. BootSound'
  BY DEF BootSound, CallSound, OwnerHolds
<1>4. OwnerHolds'
  BY DEF BootSound, CallSound, OwnerHolds
<1>5. CallSound'
  BY DEF BootSound, CallSound
<1>6. CreatedOnce'
  BY DEF CreatedOnce, InitializationSound
<1> QED
  BY <1>1, <1>2, <1>3, <1>4, <1>5, <1>6

\* A failed try_lock changes nothing.
LEMMA TryFailsStep ==
  ASSUME IInv, NEW t \in Threads, Scheduled(t), TryFails(t)
  PROVE  IInv'
<1> USE StatesAssumption, BootAssumption, LazyAssumption
    DEF IInv, TypeOK, InCritical, Operations, Scheduled, Goto, Lasting, kernel, TryFails
<1>1. TypeOK'
  OBVIOUS
<1>2. InitializationSound'
  BY DEF InitializationSound
<1>3. BootSound'
  BY DEF BootSound, CallSound, OwnerHolds
<1>4. OwnerHolds'
  BY DEF BootSound, CallSound, OwnerHolds
<1>5. CallSound'
  BY DEF BootSound, CallSound
<1>6. CreatedOnce'
  BY DEF CreatedOnce, InitializationSound
<1> QED
  BY <1>1, <1>2, <1>3, <1>4, <1>5, <1>6

\* The owner is the task that the kernel knows as the holder.
LEMMA GiveStep ==
  ASSUME IInv, NEW t \in Threads, Scheduled(t), Give(t)
  PROVE  IInv'
<1> USE StatesAssumption, BootAssumption, LazyAssumption
    DEF IInv, TypeOK, InCritical, Operations, Scheduled, Goto, Lasting, kernel, Give
<1>1. TypeOK'
  OBVIOUS
<1>2. InitializationSound'
  BY DEF InitializationSound
<1>3. BootSound'
  BY DEF BootSound, CallSound, OwnerHolds
<1>4. OwnerHolds'
  BY DEF BootSound, CallSound, OwnerHolds
<1>5. CallSound'
  BY DEF BootSound, CallSound
<1>6. CreatedOnce'
  BY DEF CreatedOnce, InitializationSound
<1> QED
  BY <1>1, <1>2, <1>3, <1>4, <1>5, <1>6

-----------------------------------------------------------------------------

\* Every reachable state satisfies the inductive invariant.
THEOREM Invariance == Spec => []IInv
<1>1. Init => IInv
  <2> SUFFICES ASSUME Init PROVE IInv
    OBVIOUS
  <2> USE StatesAssumption, BootAssumption, LazyAssumption DEF Init
  <2>1. TypeOK /\ InitializationSound /\ CallSound /\ CreatedOnce
    BY DEF TypeOK, InCritical, Operations, InitializationSound, CallSound, CreatedOnce
  <2>2. BootSound
    BY DEF BootSound
  <2>3. OwnerHolds
    BY DEF OwnerHolds, Lasting
  <2> QED
    BY <2>1, <2>2, <2>3 DEF IInv
<1>2. IInv /\ [Next]_vars => IInv'
  <2> SUFFICES ASSUME IInv, [Next]_vars PROVE IInv'
    OBVIOUS
  <2>1. CASE CreateTask \/ StartScheduler
    BY <2>1, CreateTaskStep, StartSchedulerStep
  <2>2. ASSUME NEW t \in Threads, Scheduled(t), NEW o \in Operations, Call(t, o)
        PROVE  IInv'
    BY <2>2, CallStep
  <2>3. ASSUME NEW t \in Threads, Progress(t)
        PROVE  IInv'
    BY <2>3, FirstCheckStep, EnterCriticalStep, CreateStep, PublishStep,
       LeaveCriticalStep, NotStartedStep, TakeStep, TryFailsStep, GiveStep
    DEF Progress
  <2>4. CASE UNCHANGED vars
    BY <2>4 DEF vars, kernel, IInv, TypeOK, InCritical, InitializationSound,
       BootSound, OwnerHolds, Lasting, CallSound, CreatedOnce
  <2> QED
    BY <2>1, <2>2, <2>3, <2>4 DEF Next
<1> QED
  BY <1>1, <1>2, PTL DEF Spec

\* Every variable keeps its type.
THEOREM TypeCorrectness == Spec => []TypeOK
<1>1. IInv => TypeOK
  BY DEF IInv
<1> QED
  BY <1>1, Invariance, PTL

\* Two threads never hold the mutex, but for what Boot locked before the first
\* task was created.
THEOREM Exclusion == Spec => []MutualExclusion
<1>1. IInv => MutualExclusion
  BY DEF IInv, OwnerHolds, MutualExclusion
<1> QED
  BY <1>1, Invariance, PTL

\* The kernel never operates on a mutex that does not exist.
THEOREM NoUseBeforeCreation == Spec => []CreatedBeforeUse
<1>1. IInv => CreatedBeforeUse
  BY DEF IInv, InitializationSound, CreatedBeforeUse
<1> QED
  BY <1>1, Invariance, PTL

\* The mutex is never created again.
THEOREM NoSecondCreation == Spec => []CreatedOnce
<1>1. IInv => CreatedOnce
  BY DEF IInv
<1> QED
  BY <1>1, Invariance, PTL

-----------------------------------------------------------------------------
(* Refinement of AbstractMutex *)

\* Where one thread at most holds the mutex, that thread is its owner.
LEMMA TheOwner ==
  ASSUME NEW holds \in [Threads -> BOOLEAN],
         \A t, u \in Threads : holds[t] /\ holds[u] => t = u
  PROVE  /\ \A t \in Threads : OwnerIn(holds) = t <=> holds[t]
         /\ OwnerIn(holds) = nullptr <=> \A t \in Threads : ~holds[t]
<1>1. CASE \E t \in Threads : holds[t]
  <2>1. PICK u \in Threads : holds[u]
    BY <1>1
  <2>2. OwnerIn(holds) = u
    BY <2>1 DEF OwnerIn
  <2> QED
    BY <2>1, <2>2, StatesAssumption
<1>2. CASE ~\E t \in Threads : holds[t]
  BY <1>2, StatesAssumption DEF OwnerIn
<1> QED
  BY <1>1, <1>2

\* The owner that AbstractMutex knows is the thread that holds the mutex: while
\* Boot holds it to no effect nobody else does.
LEMMA OwnerHolding ==
  ASSUME IInv
  PROVE  /\ \A t \in Threads : absOwner = t <=> holding[t]
         /\ absOwner = nullptr <=> \A t \in Threads : ~holding[t]
<1>1. holding \in [Threads -> BOOLEAN]
  BY DEF holding, Lasting, absEarly, IInv, TypeOK
<1>2. \A t, u \in Threads : holding[t] /\ holding[u] => t = u
  <2>1. CASE started
    BY <2>1 DEF holding, absEarly, IInv, OwnerHolds
  <2>2. CASE ~started
    BY <2>2 DEF holding, Lasting, IInv, BootSound
  <2> QED
    BY <2>1, <2>2
<1> QED
  BY <1>1, <1>2, TheOwner DEF absOwner

LEMMA OwnerHoldingNext ==
  ASSUME IInv'
  PROVE  /\ \A t \in Threads : absOwner' = t <=> holding'[t]
         /\ absOwner' = nullptr <=> \A t \in Threads : ~holding'[t]
<1>1. holding' \in [Threads -> BOOLEAN]
  BY DEF holding, Lasting, absEarly, IInv, TypeOK
<1>2. \A t, u \in Threads : holding'[t] /\ holding'[u] => t = u
  <2>1. CASE started'
    BY <2>1 DEF holding, absEarly, IInv, OwnerHolds
  <2>2. CASE ~started'
    BY <2>2 DEF holding, Lasting, IInv, BootSound
  <2> QED
    BY <2>1, <2>2
<1> QED
  BY <1>1, <1>2, TheOwner DEF absOwner

\* A thread that runs holds the mutex when it owns it, to itself.
LEMMA RunningHolds ==
  ASSUME IInv, NEW t \in Threads, Scheduled(t)
  PROVE  holding[t] <=> owns[t]
BY BootAssumption DEF holding, Lasting, absEarly, Scheduled, IInv, BootSound

\* A step that leaves ownership alone.
LEMMA SameOwner ==
  ASSUME UNCHANGED <<owns, early, started>>
  PROVE  UNCHANGED <<absOwner, absEarly>>
BY DEF absOwner, absEarly, holding, Lasting, OwnerIn

\* The initialization shows to nobody.
LEMMA HiddenStep ==
  ASSUME IInv,
         \E t \in Threads :
           \/ FirstCheck(t)
           \/ EnterCritical(t)
           \/ Create(t)
           \/ Publish(t)
           \/ LeaveCritical(t)
  PROVE  UNCHANGED <<absOwner, absRequest, handle, started, absEarly>>
<1>1. UNCHANGED <<owns, early, handle, started>>
  BY DEF FirstCheck, EnterCritical, Create, Publish, LeaveCritical, kernel
<1>2. UNCHANGED op
  BY DEF FirstCheck, EnterCritical, Create, Publish, LeaveCritical
<1>3. \A t \in Threads : pc'[t] = "idle" <=> pc[t] = "idle"
  BY DEF FirstCheck, EnterCritical, Create, Publish, LeaveCritical, Goto, IInv,
     TypeOK
<1> QED
  BY <1>1, <1>2, <1>3, SameOwner DEF absRequest

\* The first task.
LEMMA CreateTaskMapped ==
  ASSUME CreateTask
  PROVE  AM!CreateTask
BY SameOwner DEF CreateTask, AM!CreateTask, absRequest

\* What Boot holds by a lock from before the first task ends here, and what it
\* locked later it keeps.
LEMMA StartSchedulerMapped ==
  ASSUME IInv, IInv', StartScheduler
  PROVE  AM!StartScheduler
<1>1. absRequest[Boot] = "none" /\ UNCHANGED absRequest
  BY BootAssumption DEF StartScheduler, absRequest
<1>2. ~absEarly'
  BY DEF StartScheduler, absEarly
<1>3. CASE absEarly
  <2>1. \A t \in Threads : ~holding'[t]
    BY <1>3 DEF StartScheduler, holding, absEarly, Lasting, IInv, BootSound
  <2> QED
    BY <1>1, <1>2, <1>3, <2>1, OwnerHoldingNext DEF StartScheduler, AM!StartScheduler
<1>4. CASE ~absEarly
  <2>1. ~early
    BY <1>4 DEF StartScheduler, absEarly
  <2>2. UNCHANGED absOwner
    BY <2>1 DEF StartScheduler, absOwner, holding, absEarly, Lasting, OwnerIn
  <2> QED
    BY <1>1, <1>2, <1>4, <2>2 DEF StartScheduler, AM!StartScheduler, absEarly, IInv,
       TypeOK
<1> QED
  BY <1>3, <1>4

\* An operation begins.
LEMMA CallMapped ==
  ASSUME IInv, NEW t \in Threads, Scheduled(t), NEW o \in Operations, Call(t, o)
  PROVE  AM!Call(t, o)
<1>1. absOwner = t <=> o = "unlock"
  BY OwnerHolding, RunningHolds DEF Call
<1>2. UNCHANGED <<absOwner, handle, started, absEarly>>
  BY SameOwner DEF Call, kernel
<1>3. absRequest[t] = "none"
  BY DEF Call, Goto, absRequest
<1>4. absRequest' = [absRequest EXCEPT ![t] = o]
  BY DEF Call, Goto, absRequest, IInv, TypeOK
<1> QED
  BY <1>1, <1>2, <1>3, <1>4 DEF AM!Call

\* Whatever ends an operation of t ends its request.
LEMMA EndOfCall ==
  ASSUME IInv, NEW t \in Threads, Goto(t, "call", "idle"), UNCHANGED <<op, kernel>>
  PROVE  /\ absRequest[t] = op[t]
         /\ AM!Return(t)
  BY DEF Goto, absRequest, AM!Return, kernel, IInv, TypeOK

\* An operation of t that ends with t as the owner has acquired the mutex.
LEMMA AcquireMapped ==
  ASSUME IInv, IInv', NEW t \in Threads, Scheduled(t), Goto(t, "call", "idle"),
         UNCHANGED <<op, kernel>>,
         op[t] \in {"lock", "try_lock"},
         \A u \in Threads : ~holding[u],
         owns' = [owns EXCEPT ![t] = TRUE],
         absEarly' = ~handle
  PROVE  AM!Acquire(t)
<1>1. absOwner = nullptr
  BY OwnerHolding
<1>2. owns'[t] /\ Scheduled(t)'
  BY DEF IInv, TypeOK, Scheduled, kernel
<1>3. holding'[t]
  BY <1>2, BootAssumption DEF holding, Lasting, absEarly, Scheduled, IInv, BootSound
<1>4. absOwner' = t
  BY <1>3, OwnerHoldingNext
<1> QED
  BY <1>1, <1>4, EndOfCall DEF AM!Acquire

\* An unlock leaves the mutex without an owner.
LEMMA ReleaseMapped ==
  ASSUME IInv, IInv', NEW t \in Threads, Scheduled(t), Goto(t, "call", "idle"),
         UNCHANGED <<op, kernel>>,
         op[t] = "unlock",
         owns' = [owns EXCEPT ![t] = FALSE],
         early' = (early /\ t # Boot)
  PROVE  AM!Release(t)
<1>1. owns[t]
  BY DEF Goto, IInv, CallSound
<1>2. absOwner = t
  BY <1>1, OwnerHolding, RunningHolds
<1>3. \A u \in Threads : u # t => ~holding[u]
  BY <1>2, OwnerHolding
<1>4. ~absEarly'
  BY DEF absEarly, Scheduled, kernel
<1>5. \A u \in Threads : ~holding'[u]
  BY <1>3, <1>4 DEF holding, Lasting, absEarly, Scheduled, kernel, IInv, TypeOK
<1>6. absOwner' = nullptr
  BY <1>5, OwnerHoldingNext
<1> QED
  BY <1>2, <1>4, <1>6, EndOfCall DEF AM!Release

\* Before the first task there is nobody to contend with.
LEMMA NotStartedMapped ==
  ASSUME IInv, IInv', NEW t \in Threads, Scheduled(t), NotStarted(t)
  PROVE  AM!Acquire(t) \/ AM!Release(t)
<1>1. op[t] \in Operations /\ early \in BOOLEAN
  BY DEF IInv, TypeOK
<1>2. ~handle /\ ~started /\ t = Boot
  BY BootAssumption DEF NotStarted, Scheduled, IInv, BootSound, TypeOK
<1>3. CASE op[t] = "unlock"
  BY <1>2, <1>3, ReleaseMapped DEF NotStarted
<1>4. CASE op[t] \in {"lock", "try_lock"}
  <2>1. ~owns[t]
    BY <1>4 DEF NotStarted, Goto, IInv, CallSound
  <2>2. \A u \in Threads : ~holding[u]
    BY <1>2, <2>1 DEF holding, Lasting, absEarly, IInv, BootSound
  <2>3. absEarly' = ~handle
    BY <1>2, <1>4 DEF NotStarted, absEarly, kernel
  <2> QED
    BY <1>4, <2>2, <2>3, AcquireMapped DEF NotStarted
<1> QED
  BY <1>1, <1>3, <1>4 DEF Operations

\* The kernel gives the mutex when nobody owns it.
LEMMA TakeMapped ==
  ASSUME IInv, IInv', NEW t \in Threads, Scheduled(t), Take(t)
  PROVE  AM!Acquire(t)
<1>1. ~owns[t]
  BY DEF Take, Goto, IInv, CallSound
<1>2. \A u \in Threads : ~Lasting(u)
  BY StatesAssumption DEF Take, IInv, OwnerHolds
<1>3. ~absEarly
  BY <1>1 DEF Scheduled, absEarly, IInv, BootSound
<1>4. \A u \in Threads : ~holding[u]
  BY <1>2, <1>3 DEF holding
<1>5. absEarly' = ~handle
  BY <1>3 DEF Take, absEarly, kernel, IInv, TypeOK
<1> QED
  BY <1>4, <1>5, AcquireMapped DEF Take

\* try_lock() fails because of an owner: the kernel mutex is created by then,
\* so what is not free is held.
LEMMA TryFailsMapped ==
  ASSUME IInv, NEW t \in Threads, TryFails(t)
  PROVE  AM!TryFails(t)
<1>1. mutex_ \in Threads
  BY DEF TryFails, Goto, IInv, TypeOK, InitializationSound
<1>2. holding[mutex_]
  BY <1>1 DEF holding, IInv, OwnerHolds
<1>3. absOwner # nullptr
  BY <1>1, <1>2, OwnerHolding
<1>4. UNCHANGED <<absOwner, absEarly>>
  BY SameOwner DEF TryFails, kernel
<1> QED
  BY <1>3, <1>4, EndOfCall DEF TryFails, AM!TryFails

\* The owner's unlock gives the mutex back.
LEMMA GiveMapped ==
  ASSUME IInv, IInv', NEW t \in Threads, Scheduled(t), Give(t)
  PROVE  AM!Release(t)
  BY ReleaseMapped DEF Give

\* The mutex implements AbstractMutex: each operation happens in one step, the
\* first ones too, and only what Boot locked before the first task lapses.
THEOREM Refinement == Spec => ImplementsMutex
<1>1. Init => AM!Init
  <2> SUFFICES ASSUME Init PROVE AM!Init
    OBVIOUS
  <2>1. absOwner = nullptr
    BY DEF Init, absOwner, holding, Lasting, absEarly, OwnerIn
  <2>2. absRequest = [t \in Threads |-> "none"]
    BY DEF Init, absRequest
  <2> QED
    BY <2>1, <2>2 DEF Init, AM!Init, absEarly
<1>2. IInv /\ IInv' /\ [Next]_vars => [AM!Next]_(AM!vars)
  <2> SUFFICES ASSUME IInv, IInv', [Next]_vars
               PROVE  \/ AM!Next
                      \/ UNCHANGED <<absOwner, absRequest, handle, started, absEarly>>
    BY DEF AM!vars
  <2>1. CASE CreateTask \/ StartScheduler
    BY <2>1, CreateTaskMapped, StartSchedulerMapped DEF AM!Next
  <2>2. ASSUME NEW t \in Threads, Scheduled(t), NEW o \in Operations, Call(t, o)
        PROVE  AM!Next
    BY <2>2, CallMapped DEF AM!Next, AM!Runs, Scheduled, Operations
  <2>3. ASSUME NEW t \in Threads, Progress(t)
        PROVE  \/ AM!Next
               \/ UNCHANGED <<absOwner, absRequest, handle, started, absEarly>>
    <3>1. Scheduled(t) /\ AM!Runs(t)
      BY <2>3 DEF Progress, Scheduled, AM!Runs
    <3>2. CASE \/ FirstCheck(t)
               \/ EnterCritical(t)
               \/ Create(t)
               \/ Publish(t)
               \/ LeaveCritical(t)
      BY <3>2, HiddenStep
    <3>3. CASE NotStarted(t)
      BY <3>1, <3>3, NotStartedMapped DEF AM!Next
    <3>4. CASE Take(t)
      BY <3>1, <3>4, TakeMapped DEF AM!Next
    <3>5. CASE TryFails(t)
      BY <3>1, <3>5, TryFailsMapped DEF AM!Next
    <3>6. CASE Give(t)
      BY <3>1, <3>6, GiveMapped DEF AM!Next
    <3> QED
      BY <2>3, <3>2, <3>3, <3>4, <3>5, <3>6 DEF Progress
  <2>4. CASE UNCHANGED vars
    BY <2>4, SameOwner DEF vars, kernel, absRequest
  <2> QED
    BY <2>1, <2>2, <2>3, <2>4 DEF Next
<1> QED
  BY <1>1, <1>2, Invariance, PTL DEF Spec, AM!Spec, ImplementsMutex
=============================================================================
