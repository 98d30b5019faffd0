------------------------------- MODULE Latch -------------------------------
(***************************************************************************)
(* roo::latch (latch.h) on top of the optimized condition variable.        *)
(*                                                                         *)
(* A thread in Counters calls count_down(Decrement[t]) once, a thread in   *)
(* Waiters calls wait(); one in both does it in that order.  The mutex of  *)
(* CondVarOpt is the latch's mutex_, its one condition variable the        *)
(* latch's cv_: the actions below are the latch's own steps, each together *)
(* with the step of CondVarOpt that it calls.                              *)
(***************************************************************************)
EXTENDS CondVarOpt

CONSTANTS
  Counters,   \* the threads that count down
  Waiters,    \* the threads that wait
  Decrement,  \* what each of the Counters passes to count_down
  latchCv     \* the latch's condition variable

\* What the threads of S count down, one by one.
Units(S) == UNION {{t} \X (1 .. Decrement[t]) : t \in S}

\* The documented use: what is counted down in total is the initial count.
Count == Cardinality(Units(Counters))

ASSUME RolesAssumption == Counters \cup Waiters = Threads
ASSUME DecrementAssumption == Decrement \in [Counters -> Nat \ {0}]
ASSUME CvAssumption == CVs = {latchCv}

VARIABLES
  count_,  \* the latch's counter
  at       \* where each thread is in the latch's operations

latchVars == <<count_, at>>
allVars == <<vars, count_, at>>

TypeOKLatch ==
  /\ TypeOK
  /\ count_ \in 0 .. Count
  /\ at \in [Threads -> {"count_down", "decrement", "notify_all", "notifying",
                         "unlock", "wait", "check", "waiting", "leave", "done"}]

InitLatch ==
  /\ Init
  /\ count_ = Count
  /\ at = [t \in Threads |-> IF t \in Counters THEN "count_down" ELSE "wait"]

\* Thread t's latch step from one place to another.
Goto(t, from, to) ==
  /\ at[t] = from
  /\ at' = [at EXCEPT ![t] = to]

-----------------------------------------------------------------------------
(* count_down *)

CountDownLock(t) ==
  /\ Goto(t, "count_down", "decrement")
  /\ Lock(t)
  /\ UNCHANGED count_

\* Mutant: the old value of the counter is compared with zero.
CountDownOldValue(t) ==
  /\ at[t] = "decrement"
  /\ count_' = count_ - Decrement[t]
  /\ at' = [at EXCEPT ![t] = IF count_ = 0 THEN "notify_all" ELSE "unlock"]
  /\ UNCHANGED vars

\* Mutant: the mutex is released before the notification.
CountDownUnlocked(t) ==
  /\ at[t] = "decrement"
  /\ count_' = count_ - Decrement[t]
  /\ at' = [at EXCEPT ![t] = IF count_' = 0 THEN "notify_all" ELSE "done"]
  /\ Unlock(t)

\* Mutant: the counter is decremented once too often.
CountDownTwice(t) ==
  /\ at[t] = "decrement"
  /\ count_' = count_ - Decrement[t] - 1
  /\ at' = [at EXCEPT ![t] = IF count_' = 0 THEN "notify_all" ELSE "unlock"]
  /\ UNCHANGED vars

CountDown(t) ==
  /\ at[t] = "decrement"
  /\ count_' = count_ - Decrement[t]
  /\ at' = [at EXCEPT ![t] = IF count_' = 0 THEN "notify_all" ELSE "unlock"]
  /\ UNCHANGED vars

\* Mutant: notify_one in the place of notify_all.
CountDownNotifyOne(t) ==
  /\ Goto(t, "notify_all", "unlock")
  /\ \/ NotifyOne(t, latchCv)
     \/ (\A u \in Threads : ~Registered(u, latchCv)) /\ UNCHANGED vars
  /\ UNCHANGED count_

CountDownNotify(t) ==
  /\ Goto(t, "notify_all", "notifying")
  /\ NotifyAll(t, latchCv)
  /\ UNCHANGED count_

CountDownNotified(t) ==
  /\ Goto(t, "notifying", "unlock")
  /\ NotifyAllExit(t)
  /\ UNCHANGED count_

CountDownUnlock(t) ==
  /\ Goto(t, "unlock", IF t \in Waiters THEN "wait" ELSE "done")
  /\ Unlock(t)
  /\ UNCHANGED count_

-----------------------------------------------------------------------------
(* wait: while (!pred()) wait(lock); *)

WaitLock(t) ==
  /\ Goto(t, "wait", "check")
  /\ Lock(t)
  /\ UNCHANGED count_

WaitCheck(t) ==
  \/ /\ count_ = 0
     /\ Goto(t, "check", "leave")
     /\ UNCHANGED <<vars, count_>>
  \/ /\ count_ # 0
     /\ Goto(t, "check", "waiting")
     /\ Wait(t, latchCv, FALSE)
     /\ UNCHANGED count_

\* Mutant: an if in the place of the while.
WaitReturnUnchecked(t) ==
  /\ Goto(t, "waiting", "leave")
  /\ Dequeue(t)
  /\ UNCHANGED count_

WaitReturn(t) ==
  /\ Goto(t, "waiting", "check")
  /\ Dequeue(t)
  /\ UNCHANGED count_

WaitUnlock(t) ==
  /\ Goto(t, "leave", "done")
  /\ Unlock(t)
  /\ UNCHANGED count_

-----------------------------------------------------------------------------

\* The steps of CondVarOpt that neither begin nor end a call of the latch.
CondVarStep(t) ==
  /\ \/ UnlockInWait(t)
     \/ ExitCritical(t)
     \/ AssertFails(t)
     \/ NotifyWaitReturn(t)
     \/ Relock(t)
     \/ NotifyAllSlot(t)
  /\ UNCHANGED latchVars

Step(t) ==
  /\ Running
  /\ \/ CountDownLock(t)
     \/ CountDown(t)
     \/ CountDownNotify(t)
     \/ CountDownNotified(t)
     \/ CountDownUnlock(t)
     \/ WaitLock(t)
     \/ WaitCheck(t)
     \/ WaitReturn(t)
     \/ WaitUnlock(t)
     \/ CondVarStep(t)

Done == \A t \in Threads : at[t] = "done"

Terminating == Done /\ UNCHANGED allVars

NextLatch == Terminating \/ \E t \in Threads : Step(t)

\* The scheduler runs every ready task, a mutex that stays free is taken.
Fairness == \A t \in Threads : WF_allVars(Step(t))

SpecLatch == InitLatch /\ [][NextLatch]_allVars /\ Fairness

-----------------------------------------------------------------------------
(* The inductive invariant: the safety properties below follow from it. *)

\* Where a thread is in the latch and where it is in the condition variable.
Positions ==
  \A t \in Threads :
    /\ at[t] = "waiting" <=> pc[t] \notin {"client", "notifyAll"}
    /\ at[t] = "notifying" <=> pc[t] = "notifyAll"
    /\ at[t] \in {"decrement", "notify_all", "notifying", "unlock", "check", "leave"}
         => mutex = t
    /\ at[t] \in {"wait", "check", "waiting", "leave"} => t \in Waiters
    /\ at[t] \in {"count_down", "decrement", "notify_all", "notifying", "unlock"}
         => t \in Counters

\* The threads that have not counted down yet.
Pending == {t \in Counters : at[t] \in {"count_down", "decrement"}}

\* The counter is what they will count down.
Counted ==
  /\ count_ = Cardinality(Units(Pending))
  /\ \A t \in Threads : at[t] \in {"notify_all", "notifying"} => count_ = 0

\* NoSleeperAfterZero, from the registration on and until the notification.
SleepersSound ==
  \A t \in Threads :
    Registered(t, latchCv) =>
      count_ # 0 \/ \E u \in Threads : at[u] \in {"notify_all", "notifying"}

\* A waiter that leaves found the mutex free and the count zero: every counter
\* was through with the latch.
LeaversSound ==
  \A t \in Waiters :
    at[t] \in {"leave", "done"} =>
      /\ count_ = 0
      /\ \A u \in Counters :
           at[u] \notin {"count_down", "decrement", "notify_all", "notifying",
                         "unlock"}

IInvLatch ==
  /\ TypeOKLatch
  /\ Positions
  /\ Counted
  /\ SleepersSound
  /\ LeaversSound

-----------------------------------------------------------------------------
(* Properties *)

\* Nobody leaves wait() before everybody has counted down, spurious wakeups
\* included (latch.h:27).
NotBeforeZero ==
  \A t \in Waiters : at[t] \in {"leave", "done"} => count_ = 0

\* As soon as one thread has returned from wait(), no count_down touches the
\* latch any more, neither its condition variable nor its mutex; this is why
\* notify_all is called under the lock (latch.h:17-22).  Other threads can still
\* be inside of wait(): only the last one to return, such as the only one that
\* waits, may destroy the latch.
NoCounterInside ==
  (\E t \in Waiters : at[t] = "done") =>
    \A u \in Counters :
      at[u] \notin {"count_down", "decrement", "notify_all", "notifying", "unlock"}

\* Once the counter that reached zero has notified, whoever still sleeps has a
\* wakeup pending: nobody slept in between the check of the count and the
\* notification.
NoSleeperAfterZero ==
  (count_ = 0 /\ \A t \in Threads : at[t] \notin {"notify_all", "notifying"})
    => \A t \in Threads : pc[t] = "blocked" => notified[t]

\* Every wait() returns and every count_down() too: no wakeup is lost between
\* the check of the count and the sleep (latch.h:25-28).
Terminates == <>Done
=============================================================================
