----------------------------- MODULE CondVarOpt -----------------------------
(***************************************************************************)
(* The optimized FreeRTOS condition variable                               *)
(* (impl/freertos/condition_variable_opt.{h,cpp}): a fixed table of the    *)
(* waiting tasks per condition variable, one critical section shared by    *)
(* all condition variables, and the task notification of each task as the  *)
(* wakeup.                                                                 *)
(*                                                                         *)
(* A task has one notification (index 0), which every condition variable   *)
(* uses: it can be pending when the task starts a wait, and it outlives    *)
(* the wait it was sent to.                                                *)
(*                                                                         *)
(* Threads are arbitrary clients: they lock and unlock the mutex, wait on  *)
(* any condition variable while they hold it, and notify with or without   *)
(* it.  CondVar.tla is the abstract specification.                         *)
(***************************************************************************)
EXTENDS Integers, FiniteSets

CONSTANTS
  Threads,             \* the tasks that use the mutex
  CVs,                 \* the condition variables used with the mutex
  kMaxWaitingThreads,  \* the length of tasks_waiting_
  Priority,            \* the priority of each task
  nullptr              \* an empty slot, the holder of a free lock, no cv

ASSUME ThreadsAssumption == IsFiniteSet(Threads)
ASSUME NullAssumption == nullptr \notin Threads \cup CVs
ASSUME CapacityAssumption == kMaxWaitingThreads \in Nat \ {0}
ASSUME PriorityAssumption == Priority \in [Threads -> Nat]

VARIABLES
  mutex,          \* the holder of the user's mutex
  s_cond_lock,    \* the task inside of the critical section
  tasks_waiting,  \* tasks_waiting[c][i]: the table of condition variable c
  notified,       \* notified[t]: the kernel's pending notification of task t
  pc,             \* where task t is; "client" is outside of the module
  cv,             \* the condition variable of the call t is in, or nullptr
  timed,          \* t is in wait_until_impl, not in wait
  queued,         \* the local variable of that name
  status,         \* what the last wait_until_impl of t returned or will return
  scan            \* the loop index of the notify_all in progress

vars == <<mutex, s_cond_lock, tasks_waiting, notified, pc, cv, timed, queued,
          status, scan>>

locks == <<mutex, s_cond_lock>>
locals == <<cv, timed, queued, status>>

Slots == 0 .. (kMaxWaitingThreads - 1)

-----------------------------------------------------------------------------

TypeOK ==
  /\ mutex \in Threads \cup {nullptr}
  /\ s_cond_lock \in Threads \cup {nullptr}
  /\ tasks_waiting \in [CVs -> [Slots -> Threads \cup {nullptr}]]
  /\ notified \in [Threads -> BOOLEAN]
  /\ pc \in [Threads -> {"client", "release", "exit", "assert", "blocked",
                         "relock", "dequeue", "notifyAll", "aborted"}]
  /\ cv \in [Threads -> CVs \cup {nullptr}]
  /\ timed \in [Threads -> BOOLEAN]
  /\ queued \in [Threads -> BOOLEAN]
  /\ status \in [Threads -> {"timeout", "no_timeout"}]
  /\ scan \in 0 .. kMaxWaitingThreads

\* The condition variables are constructed by running tasks: some can have a
\* notification pending that another condition variable left them.
Init ==
  /\ mutex = nullptr
  /\ s_cond_lock = nullptr
  /\ tasks_waiting = [c \in CVs |-> [i \in Slots |-> nullptr]]
  /\ notified \in [Threads -> BOOLEAN]
  /\ pc = [t \in Threads |-> "client"]
  /\ cv = [t \in Threads |-> nullptr]
  /\ timed = [t \in Threads |-> FALSE]
  /\ queued = [t \in Threads |-> FALSE]
  /\ status = [t \in Threads |-> "no_timeout"]
  /\ scan = 0

\* Slot i is where a loop over table c from 0 up first meets x.
FirstSlot(c, x, i) ==
  /\ tasks_waiting[c][i] = x
  /\ \A j \in Slots : j < i => tasks_waiting[c][j] # x

\* Mutant: the registration does not look at the last slot.
FullButLast(c) ==
  \A i \in Slots \ {kMaxWaitingThreads - 1} : tasks_waiting[c][i] # nullptr

Full(c) == \A i \in Slots : tasks_waiting[c][i] # nullptr

\* Mutant: the removal of one's own entry is forgotten.
OverwrittenIfFree(c, x, y) ==
  [i \in Slots |-> IF x = nullptr /\ FirstSlot(c, x, i) THEN y
                                                        ELSE tasks_waiting[c][i]]

\* Mutant: the loops run to i <= kMaxWaitingThreads.
OverwrittenBeyond(c, x, y) ==
  [i \in 0 .. kMaxWaitingThreads |->
     IF i \in Slots /\ ~FirstSlot(c, x, i) THEN tasks_waiting[c][i] ELSE y]

\* Table c with the first slot that holds x overwritten, if there is one.
Overwritten(c, x, y) ==
  [i \in Slots |-> IF FirstSlot(c, x, i) THEN y ELSE tasks_waiting[c][i]]

Lock(t) ==
  /\ pc[t] = "client"
  /\ mutex = nullptr
  /\ mutex' = t
  /\ UNCHANGED <<s_cond_lock, tasks_waiting, notified, pc, locals, scan>>

Unlock(t) ==
  /\ pc[t] = "client"
  /\ mutex = t
  /\ mutex' = nullptr
  /\ UNCHANGED <<s_cond_lock, tasks_waiting, notified, pc, locals, scan>>

-----------------------------------------------------------------------------
(* wait and wait_until_impl *)

\* The critical section is entered and the first free slot taken, if any.
Wait(t, c, isTimed) ==
  /\ pc[t] = "client"
  /\ mutex = t
  /\ s_cond_lock = nullptr
  /\ s_cond_lock' = t
  /\ tasks_waiting' = [tasks_waiting EXCEPT ![c] = Overwritten(c, nullptr, t)]
  /\ queued' = [queued EXCEPT ![t] = ~Full(c)]
  /\ pc' = [pc EXCEPT ![t] = "release"]
  /\ cv' = [cv EXCEPT ![t] = c]
  /\ timed' = [timed EXCEPT ![t] = isTimed]
  /\ status' = [status EXCEPT ![t] = "timeout"]
  /\ UNCHANGED <<mutex, notified, scan>>

\* The deadline has passed when wait_until_impl is called.
WaitExpired(t) ==
  /\ pc[t] = "client"
  /\ mutex = t
  /\ status' = [status EXCEPT ![t] = "timeout"]
  /\ UNCHANGED <<locks, tasks_waiting, notified, pc, cv, timed, queued, scan>>

\* lock.unlock() inside of the critical section.
UnlockInWait(t) ==
  /\ pc[t] = "release"
  /\ mutex' = nullptr
  /\ pc' = [pc EXCEPT ![t] = "exit"]
  /\ UNCHANGED <<s_cond_lock, tasks_waiting, notified, locals, scan>>

\* The critical section is left.  assert(queued) comes after it: what it looks
\* at is a local variable, so only its failure is a step of its own.
ExitCritical(t) ==
  /\ pc[t] = "exit"
  /\ s_cond_lock' = nullptr
  /\ pc' = [pc EXCEPT ![t] = IF queued[t] THEN "blocked" ELSE "assert"]
  /\ UNCHANGED <<mutex, tasks_waiting, notified, locals, scan>>

\* assert(queued) stops the program.  Other tasks can have run since the
\* critical section was left: there may well be a free slot by now.
AssertFails(t) ==
  /\ pc[t] = "assert"
  /\ pc' = [pc EXCEPT ![t] = "aborted"]
  /\ UNCHANGED <<locks, tasks_waiting, notified, locals, scan>>

\* xTaskNotifyWait returns pdPASS: at once if a notification was pending.
NotifyWaitReturn(t) ==
  /\ pc[t] = "blocked"
  /\ notified[t]
  /\ notified' = [notified EXCEPT ![t] = FALSE]
  /\ status' = [status EXCEPT ![t] = "no_timeout"]
  /\ pc' = [pc EXCEPT ![t] = "relock"]
  /\ UNCHANGED <<locks, tasks_waiting, cv, timed, queued, scan>>

\* Mutant: a notification that arrives with the deadline is thrown away.
NotifyWaitTimeoutClears(t) ==
  /\ pc[t] = "blocked"
  /\ timed[t]
  /\ notified' = [notified EXCEPT ![t] = FALSE]
  /\ pc' = [pc EXCEPT ![t] = "relock"]
  /\ UNCHANGED <<locks, tasks_waiting, locals, scan>>

\* The last xTaskNotifyWait of the loop fails and the deadline has passed.
\* (A failure before the deadline goes round the loop: no change.)
NotifyWaitTimeout(t) ==
  /\ pc[t] = "blocked"
  /\ timed[t]
  /\ ~notified[t]
  /\ pc' = [pc EXCEPT ![t] = "relock"]
  /\ UNCHANGED <<locks, tasks_waiting, notified, locals, scan>>

Relock(t) ==
  /\ pc[t] = "relock"
  /\ mutex = nullptr
  /\ mutex' = t
  /\ pc' = [pc EXCEPT ![t] = "dequeue"]
  /\ UNCHANGED <<s_cond_lock, tasks_waiting, notified, locals, scan>>

\* The second critical section, and the return.
Dequeue(t) ==
  /\ pc[t] = "dequeue"
  /\ s_cond_lock = nullptr
  /\ tasks_waiting' =
       [tasks_waiting EXCEPT ![cv[t]] = Overwritten(cv[t], t, nullptr)]
  /\ pc' = [pc EXCEPT ![t] = "client"]
  /\ cv' = [cv EXCEPT ![t] = nullptr]
  /\ timed' = [timed EXCEPT ![t] = FALSE]
  /\ queued' = [queued EXCEPT ![t] = FALSE]
  /\ UNCHANGED <<locks, notified, status, scan>>

-----------------------------------------------------------------------------
(* notify_one and notify_all *)

\* The slot the loop of notify_one ends with: the first one that holds a task
\* of the highest priority.
IsTarget(c, i) ==
  /\ tasks_waiting[c][i] # nullptr
  /\ \A j \in Slots : tasks_waiting[c][j] # nullptr =>
       /\ Priority[tasks_waiting[c][j]] =< Priority[tasks_waiting[c][i]]
       /\ j < i => Priority[tasks_waiting[c][j]] < Priority[tasks_waiting[c][i]]

\* One critical section with one kernel call that others can observe.  With no
\* task in the table it changes nothing.
NotifyOne(t, c) ==
  /\ pc[t] = "client"
  /\ s_cond_lock = nullptr
  /\ \E i \in Slots :
       /\ IsTarget(c, i)
       /\ notified' = [notified EXCEPT ![tasks_waiting[c][i]] = TRUE]
       /\ tasks_waiting' = [tasks_waiting EXCEPT ![c][i] = nullptr]
  /\ UNCHANGED <<locks, pc, locals, scan>>

\* Mutant: the loop of notify_all stops one slot early.
ScanDoneEarly == scan = kMaxWaitingThreads - 1

ScanDone == scan = kMaxWaitingThreads

NotifyAll(t, c) ==
  /\ pc[t] = "client"
  /\ s_cond_lock = nullptr
  /\ s_cond_lock' = t
  /\ pc' = [pc EXCEPT ![t] = "notifyAll"]
  /\ cv' = [cv EXCEPT ![t] = c]
  /\ UNCHANGED <<mutex, tasks_waiting, notified, timed, queued, status, scan>>

\* One iteration of the loop: a task it notifies can run before the next one.
NotifyAllSlot(t) ==
  /\ pc[t] = "notifyAll"
  /\ ~ScanDone
  /\ LET task == tasks_waiting[cv[t]][scan] IN
       \/ /\ task # nullptr
          /\ notified' = [notified EXCEPT ![task] = TRUE]
          /\ tasks_waiting' = [tasks_waiting EXCEPT ![cv[t]][scan] = nullptr]
       \/ /\ task = nullptr
          /\ UNCHANGED <<notified, tasks_waiting>>
  /\ scan' = scan + 1
  /\ UNCHANGED <<locks, pc, locals>>

NotifyAllExit(t) ==
  /\ pc[t] = "notifyAll"
  /\ ScanDone
  /\ s_cond_lock' = nullptr
  /\ scan' = 0
  /\ pc' = [pc EXCEPT ![t] = "client"]
  /\ cv' = [cv EXCEPT ![t] = nullptr]
  /\ UNCHANGED <<mutex, tasks_waiting, notified, timed, queued, status>>

-----------------------------------------------------------------------------

\* A failed assert ends the program.
Running == \A t \in Threads : pc[t] # "aborted"

\* The steps of a call in progress.
Internal(t) ==
  \/ UnlockInWait(t)
  \/ ExitCritical(t)
  \/ AssertFails(t)
  \/ NotifyWaitReturn(t)
  \/ NotifyWaitTimeout(t)
  \/ Relock(t)
  \/ Dequeue(t)
  \/ NotifyAllSlot(t)
  \/ NotifyAllExit(t)

Next ==
  /\ Running
  /\ \E t \in Threads :
       \/ Lock(t)
       \/ Unlock(t)
       \/ \E c \in CVs :
            \/ \E isTimed \in BOOLEAN : Wait(t, c, isTimed)
            \/ NotifyOne(t, c)
            \/ NotifyAll(t, c)
       \/ WaitExpired(t)
       \/ Internal(t)

Spec == Init /\ [][Next]_vars

-----------------------------------------------------------------------------
(* Properties *)

Registered(t, c) == \E i \in Slots : tasks_waiting[c][i] = t

\* The calls of wait and wait_until_impl after their first critical section
\* began.
InWait(t) == pc[t] \in {"release", "exit", "blocked", "relock", "dequeue"}

\* A task that sleeps in a wait, or that gave up waiting but has not said so
\* yet, can still be reached: it is in the table of its condition variable, or
\* whoever took it out left it a notification.  Nothing between the
\* registration, the unlock and xTaskNotifyWait loses a wakeup
\* (condition_variable_opt.cpp:63-77, 98-120).
NoLostWakeup ==
  \A t \in Threads :
    pc[t] = "blocked" \/ (pc[t] \in {"relock", "dequeue"} /\ status[t] = "timeout")
      => Registered(t, cv[t]) \/ notified[t]

\* A table never holds a task that is not inside of a wait on that condition
\* variable, nor one twice: a stale entry would send the wakeup of a waiting
\* task to one that left (condition_variable_opt.cpp:79-86, 122-129).
RegistrationSound ==
  \A c \in CVs, i \in Slots :
    tasks_waiting[c][i] # nullptr =>
      /\ InWait(tasks_waiting[c][i])
      /\ cv[tasks_waiting[c][i]] = c
      /\ \A j \in Slots : tasks_waiting[c][j] = tasks_waiting[c][i] => i = j

\* A wait whose entry has begun still holds the mutex until it is registered,
\* and a wait that is about to return holds it again, so the caller's data are
\* protected on both sides (condition_variable_opt.cpp:71, 78, 106, 121).
WaitHoldsLock ==
  \A t \in Threads : pc[t] \in {"release", "dequeue"} => mutex = t

\* A task finds no slot, which will fail its assert(queued), only when
\* kMaxWaitingThreads other tasks are inside of waits on the same condition
\* variable (condition_variable_opt.cpp:63-72, 98-107).  That is so while it is
\* in the critical section; when the assert fails, outside of it, some of them
\* may have left.
OverflowOnlyWhenFull ==
  \A t \in Threads :
    pc[t] \in {"release", "exit"} /\ ~queued[t] =>
      Cardinality({u \in Threads \ {t} : InWait(u) /\ cv[u] = cv[t]})
        >= kMaxWaitingThreads

\* With no more tasks than slots the assertion never fails, not even through
\* entries of tasks that timed out and wait for the mutex.
NoOverflow == Cardinality(Threads) =< kMaxWaitingThreads => Running

-----------------------------------------------------------------------------
(* The inductive invariant: the properties above follow from it. *)

\* The critical section is held exactly between its entry and its exit.
CriticalSection ==
  \A t \in Threads :
    s_cond_lock = t <=> pc[t] \in {"release", "exit", "notifyAll"}

\* The locals of a call in progress.
LocalsSound ==
  \A t \in Threads :
    /\ pc[t] # "client" => cv[t] \in CVs
    /\ pc[t] \in {"blocked", "relock", "dequeue"} => queued[t]
    /\ pc[t] \in {"client", "assert", "notifyAll", "aborted"} => ~queued[t]

\* The tables only hold tasks inside of their waits, each one once.
TableSound ==
  \A c \in CVs, i \in Slots :
    tasks_waiting[c][i] # nullptr =>
      /\ InWait(tasks_waiting[c][i])
      /\ queued[tasks_waiting[c][i]]
      /\ cv[tasks_waiting[c][i]] = c
      /\ \A j \in Slots : tasks_waiting[c][j] = tasks_waiting[c][i] => i = j

\* NoLostWakeup, from the registration on: until the task leaves the critical
\* section nobody can take it out of the table.
Reachable ==
  \A t \in Threads :
    /\ pc[t] \in {"release", "exit"} /\ queued[t] => Registered(t, cv[t])
    /\ pc[t] = "blocked" \/ (pc[t] \in {"relock", "dequeue"} /\ status[t] = "timeout")
         => Registered(t, cv[t]) \/ notified[t]

\* A task that found no slot found every slot taken, and they stay taken as
\* long as it holds the critical section.
NoSlotMeansFull ==
  \A t \in Threads :
    pc[t] \in {"release", "exit"} /\ ~queued[t] =>
      \A i \in Slots : tasks_waiting[cv[t]][i] # nullptr

\* What is left of that afterwards: there are more tasks than slots.
OverflowNeedsManyTasks ==
  \A t \in Threads :
    pc[t] \in {"assert", "aborted"} => Cardinality(Threads) > kMaxWaitingThreads

\* What the loop of notify_all has passed is empty; without one, scan is 0.
NotifyAllSwept ==
  /\ \A t \in Threads :
       pc[t] = "notifyAll" =>
         \A i \in Slots : i < scan => tasks_waiting[cv[t]][i] = nullptr
  /\ scan # 0 => \E t \in Threads : pc[t] = "notifyAll"

IInv ==
  /\ TypeOK
  /\ CriticalSection
  /\ LocalsSound
  /\ TableSound
  /\ WaitHoldsLock
  /\ Reachable
  /\ NoSlotMeansFull
  /\ OverflowNeedsManyTasks
  /\ NotifyAllSwept

-----------------------------------------------------------------------------
(* The refinement of CondVar *)

\* A wait begins when the mutex is released: before, nobody can notice.  With
\* no slot it never begins, and the program stops.
absPhase ==
  [t \in Threads |->
     CASE pc[t] \in {"exit", "blocked", "relock"} /\ queued[t] -> "wait"
       [] pc[t] = "dequeue" -> "return"
       [] OTHER -> "client"]

\* notify_all takes effect when it enters the critical section.
absWaiting ==
  [c \in CVs |->
     {t \in Threads :
        /\ Registered(t, c)
        /\ pc[t] # "release"
        /\ \A n \in Threads : pc[n] = "notifyAll" => cv[n] # c}]

CV == INSTANCE CondVar WITH phase <- absPhase, waiting <- absWaiting

\* The table, the critical section and the notifications together behave as
\* the abstract condition variable: waiting is atomic with the unlock,
\* notify_one takes one waiting task and notify_all all of them.
ImplementsCondVar == CV!Spec
=============================================================================
