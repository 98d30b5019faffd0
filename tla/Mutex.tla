------------------------------- MODULE Mutex -------------------------------
(***************************************************************************)
(* The FreeRTOS mutex (impl/freertos/mutex.{h,cpp}) with its lazy, double- *)
(* checked initialization.                                                 *)
(*                                                                         *)
(* The kernel mutex lives in memory of the object.  It is created by the   *)
(* constructor, or with ROO_THREADS_FREERTOS_LAZY_INITIALIZE by the first  *)
(* operation of any thread.  Before the scheduler runs there is one        *)
(* thread, Boot (static constructors, main).  The code takes the scheduler *)
(* to be off as long as the kernel knows no current task, which it does    *)
(* from the creation of the first task on: until then the operations       *)
(* create the kernel mutex but do not touch it.  So a lock that Boot took  *)
(* before it created a task holds nobody off once the scheduler runs.      *)
(*                                                                         *)
(* Threads use the mutex as lock_guard and unique_lock do: only an owner   *)
(* unlocks, and an owner does not lock again.                              *)
(***************************************************************************)
EXTENDS Integers

CONSTANTS
  Threads,        \* the tasks, and Boot
  Boot,           \* what runs before the scheduler does
  LazyInitialize, \* the configuration macro
  raw, free,      \* states of the kernel mutex: not created, not held
  nullptr         \* no holder of the critical section

ASSUME BootAssumption == Boot \in Threads
ASSUME LazyAssumption == LazyInitialize \in BOOLEAN
ASSUME StatesAssumption ==
  /\ raw \notin Threads /\ free \notin Threads /\ raw # free
  /\ nullptr \notin Threads

VARIABLES
  mutex_,             \* the kernel mutex: raw, free, or the task that holds it
  initialized_,       \* the flag of that name
  s_mutex_init_lock,  \* the thread inside of the initialization's critical section
  handle,             \* xTaskGetCurrentTaskHandle() is not nullptr
  started,            \* the scheduler runs, and the tasks with it
  pc,                 \* where each thread is; "idle" is outside of an operation
  op,                 \* the operation of each thread
  owns,               \* owns[t]: to its caller, t holds the mutex
  early               \* Boot owns it by a lock() that had no effect

kernel == <<handle, started>>

vars == <<mutex_, initialized_, s_mutex_init_lock, kernel, pc, op, owns, early>>

Operations == {"lock", "try_lock", "unlock"}

TypeOK ==
  /\ mutex_ \in Threads \cup {raw, free}
  /\ initialized_ \in BOOLEAN
  /\ s_mutex_init_lock \in Threads \cup {nullptr}
  /\ handle \in BOOLEAN
  /\ started \in BOOLEAN
  /\ pc \in [Threads -> {"idle", "check", "enter", "create", "publish", "leave",
                         "call"}]
  /\ op \in [Threads -> Operations]
  /\ owns \in [Threads -> BOOLEAN]
  /\ early \in BOOLEAN

Init ==
  /\ mutex_ = IF LazyInitialize THEN raw ELSE free
  /\ initialized_ = FALSE
  /\ s_mutex_init_lock = nullptr
  /\ handle = FALSE
  /\ started = FALSE
  /\ pc = [t \in Threads |-> "idle"]
  /\ op = [t \in Threads |-> "lock"]
  /\ owns = [t \in Threads |-> FALSE]
  /\ early = FALSE

\* Boot creates the first task, which does not run yet, and the kernel takes
\* Boot for it.
CreateTask ==
  /\ ~handle
  /\ pc[Boot] = "idle"
  /\ handle' = TRUE
  /\ UNCHANGED <<mutex_, initialized_, s_mutex_init_lock, started, pc, op, owns,
                 early>>

\* Boot runs until it starts the scheduler, which does not return: what Boot
\* owns then it owns forever.
StartScheduler ==
  /\ ~started
  /\ pc[Boot] = "idle"
  /\ started' = TRUE
  /\ handle' = TRUE
  /\ UNCHANGED <<mutex_, initialized_, s_mutex_init_lock, pc, op, owns, early>>

Scheduled(t) == started <=> t # Boot

Goto(t, from, to) ==
  /\ pc[t] = from
  /\ pc' = [pc EXCEPT ![t] = to]

Call(t, o) ==
  /\ Goto(t, "idle", IF LazyInitialize THEN "check" ELSE "call")
  /\ owns[t] <=> o = "unlock"
  /\ op' = [op EXCEPT ![t] = o]
  /\ UNCHANGED <<mutex_, initialized_, s_mutex_init_lock, kernel, owns, early>>

-----------------------------------------------------------------------------
(* ensureInitialized *)

\* The read is not synchronized with the write: it can miss it.
FirstCheck(t) ==
  /\ \/ initialized_ /\ Goto(t, "check", "call")
     \/ Goto(t, "check", "enter")
  /\ UNCHANGED <<mutex_, initialized_, s_mutex_init_lock, kernel, op, owns, early>>

\* Mutant: the flag is not checked again.
EnterCriticalUnchecked(t) ==
  /\ s_mutex_init_lock = nullptr
  /\ s_mutex_init_lock' = t
  /\ Goto(t, "enter", "create")
  /\ UNCHANGED <<mutex_, initialized_, kernel, op, owns, early>>

\* Mutant: the flag is set before the mutex is created.
EnterCriticalAndPublish(t) ==
  /\ s_mutex_init_lock = nullptr
  /\ s_mutex_init_lock' = t
  /\ Goto(t, "enter", IF initialized_ THEN "leave" ELSE "create")
  /\ initialized_' = TRUE
  /\ UNCHANGED <<mutex_, kernel, op, owns, early>>

\* Mutant: a thread that finds the mutex created does not leave the section.
EnterCriticalForever(t) ==
  /\ s_mutex_init_lock = nullptr
  /\ s_mutex_init_lock' = t
  /\ Goto(t, "enter", IF initialized_ THEN "call" ELSE "create")
  /\ UNCHANGED <<mutex_, initialized_, kernel, op, owns, early>>

EnterCritical(t) ==
  /\ s_mutex_init_lock = nullptr
  /\ s_mutex_init_lock' = t
  /\ Goto(t, "enter", IF initialized_ THEN "leave" ELSE "create")
  /\ UNCHANGED <<mutex_, initialized_, kernel, op, owns, early>>

\* xSemaphoreCreateMutexStatic: a free mutex, whatever was there.
Create(t) ==
  /\ Goto(t, "create", "publish")
  /\ mutex_' = free
  /\ UNCHANGED <<initialized_, s_mutex_init_lock, kernel, op, owns, early>>

Publish(t) ==
  /\ Goto(t, "publish", "leave")
  /\ initialized_' = TRUE
  /\ UNCHANGED <<mutex_, s_mutex_init_lock, kernel, op, owns, early>>

LeaveCritical(t) ==
  /\ Goto(t, "leave", "call")
  /\ s_mutex_init_lock' = nullptr
  /\ UNCHANGED <<mutex_, initialized_, kernel, op, owns, early>>

-----------------------------------------------------------------------------
(* The operation itself *)

\* Without a current task, locking succeeds and unlocking does nothing.
NotStarted(t) ==
  /\ ~handle
  /\ Goto(t, "call", "idle")
  /\ owns' = [owns EXCEPT ![t] = (op[t] # "unlock")]
  /\ early' = (op[t] # "unlock")
  /\ UNCHANGED <<mutex_, initialized_, s_mutex_init_lock, kernel, op>>

Take(t) ==
  /\ handle
  /\ op[t] \in {"lock", "try_lock"}
  /\ mutex_ = free
  /\ Goto(t, "call", "idle")
  /\ mutex_' = t
  /\ owns' = [owns EXCEPT ![t] = TRUE]
  /\ UNCHANGED <<initialized_, s_mutex_init_lock, kernel, op, early>>

TryFails(t) ==
  /\ handle
  /\ op[t] = "try_lock"
  /\ mutex_ # free
  /\ Goto(t, "call", "idle")
  /\ UNCHANGED <<mutex_, initialized_, s_mutex_init_lock, kernel, op, owns, early>>

\* The kernel's mutex is free afterwards.  It refuses to give a free one back,
\* which happens to a lock that Boot took before the first task was created.
Give(t) ==
  /\ handle
  /\ op[t] = "unlock"
  /\ Goto(t, "call", "idle")
  /\ mutex_' = free
  /\ owns' = [owns EXCEPT ![t] = FALSE]
  /\ early' = (early /\ t # Boot)
  /\ UNCHANGED <<initialized_, s_mutex_init_lock, kernel, op>>

-----------------------------------------------------------------------------

\* A call in progress.
Progress(t) ==
  /\ Scheduled(t)
  /\ \/ FirstCheck(t)
     \/ EnterCritical(t)
     \/ Create(t)
     \/ Publish(t)
     \/ LeaveCritical(t)
     \/ NotStarted(t)
     \/ Take(t)
     \/ TryFails(t)
     \/ Give(t)

Next ==
  \/ CreateTask
  \/ StartScheduler
  \/ \E t \in Threads :
       \/ Scheduled(t) /\ \E o \in Operations : Call(t, o)
       \/ Progress(t)

Spec == Init /\ [][Next]_vars

\* Every task that can run does, and a task that waits for the mutex gets it if
\* it becomes free again and again: what is assumed is that no task is starved
\* by others of a higher priority.  A holder may keep the mutex forever.
Fairness == \A t \in Threads : SF_vars(Progress(t))

FairSpec == Spec /\ Fairness

-----------------------------------------------------------------------------
(* Properties *)

\* The mutex that t owns is one that the kernel keeps for it.
Lasting(t) == owns[t] /\ ~(t = Boot /\ early)

\* Two threads never hold the mutex, whichever of them created it and however
\* their first operations overlap (mutex.cpp:37-76); only a lock that Boot took
\* before there was a task is no longer one when the tasks run
\* (mutex.cpp:53-56, 62-65).  One that it took later stays.
MutualExclusion ==
  \A t, u \in Threads : Lasting(t) /\ Lasting(u) => t = u

\* The kernel never operates on a mutex that is not created yet: the flag is
\* set after the creation, never before (mutex.cpp:38-42).
CreatedBeforeUse ==
  \A t \in Threads : pc[t] = "call" => mutex_ # raw

\* The mutex is created once: a second creation would free a mutex that is held
\* or that others wait for (mutex.cpp:40-41).
CreatedOnce ==
  \A t \in Threads : pc[t] = "create" => mutex_ = raw

\* An operation that does not wait for the mutex returns: nobody is stuck in
\* the initialization (mutex.cpp:37-46, 60-76).
TryAndUnlockReturn ==
  \A t \in Threads \ {Boot} :
    started /\ pc[t] # "idle" /\ op[t] # "lock" ~> pc[t] = "idle"

-----------------------------------------------------------------------------
(* The inductive invariant *)

InCritical(t) == pc[t] \in {"create", "publish", "leave"}

\* The flag, the kernel mutex and the critical section together.
InitializationSound ==
  /\ \A t \in Threads : s_mutex_init_lock = t <=> InCritical(t)
  /\ LazyInitialize /\ mutex_ # raw =>
       initialized_ \/ \E t \in Threads : pc[t] = "publish"
  /\ \A t \in Threads : pc[t] \in {"check", "enter"} => LazyInitialize
  /\ ~LazyInitialize \/ initialized_ => mutex_ # raw
  /\ \A t \in Threads : pc[t] \in {"create", "publish"} => ~initialized_
  /\ \A t \in Threads : pc[t] \in {"publish", "leave", "call"} => mutex_ # raw

\* Only Boot runs before the scheduler, and only what it locks before it
\* creates a task is locked to no effect.
BootSound ==
  /\ ~started => \A t \in Threads : t # Boot => pc[t] = "idle" /\ ~owns[t]
  /\ started => handle /\ pc[Boot] = "idle"
  /\ ~handle => (owns[Boot] <=> early)
  /\ early => owns[Boot]

\* The owner is who the kernel says.
OwnerHolds ==
  \A t \in Threads : Lasting(t) <=> mutex_ = t

\* The operation in progress fits what the caller holds.
CallSound ==
  \A t \in Threads : pc[t] # "idle" => (owns[t] <=> op[t] = "unlock")

IInv ==
  /\ TypeOK
  /\ InitializationSound
  /\ BootSound
  /\ OwnerHolds
  /\ CallSound
  /\ CreatedOnce

-----------------------------------------------------------------------------
(* Refinement of AbstractMutex *)

\* Who owns the mutex, to the threads that run, and what each of them is doing
\* with it.
OwnerIn(holds) ==
  IF \E t \in Threads : holds[t] THEN CHOOSE t \in Threads : holds[t] ELSE nullptr

absEarly == early /\ ~started

holding == [t \in Threads |-> Lasting(t) \/ (t = Boot /\ absEarly)]

absOwner == OwnerIn(holding)

absRequest == [t \in Threads |-> IF pc[t] = "idle" THEN "none" ELSE op[t]]

AM == INSTANCE AbstractMutex WITH owner <- absOwner, request <- absRequest,
                                  early <- absEarly

\* Each operation happens in one step, the first ones too: nobody gets a mutex
\* that is owned, try_lock() does not fail for any other reason, such as a
\* kernel mutex that is about to be created, and the one ownership that ends
\* without an unlock() is that of a lock from before the first task
\* (mutex.cpp:37-76).
ImplementsMutex == AM!Spec
=============================================================================
