----------------------------- MODULE LatchProofs -----------------------------
(***************************************************************************)
(* Theorems about Latch, for any finite set of threads, any assignment of  *)
(* roles and decrements, and any length of the table of waiting tasks.     *)
(***************************************************************************)
EXTENDS Latch, CondVarOptProofs

\* Every step of the latch is a step of the condition variable, or none.
LEMMA StepOfCondVar == [NextLatch]_allVars => [Next]_vars
<1> SUFFICES ASSUME [NextLatch]_allVars PROVE [Next]_vars
  OBVIOUS
<1>1. CASE UNCHANGED allVars \/ Terminating
  BY <1>1 DEF allVars, Terminating
<1>2. ASSUME NEW t \in Threads, Step(t)
      PROVE  [Next]_vars
  <2> USE <1>2, CvAssumption DEF Step, Next
  <2>1. CASE CountDownLock(t) \/ WaitLock(t)
    BY <2>1 DEF CountDownLock, WaitLock
  <2>2. CASE CountDown(t)
    BY <2>2 DEF CountDown
  <2>3. CASE CountDownNotify(t)
    BY <2>3 DEF CountDownNotify
  <2>4. CASE CountDownNotified(t) \/ WaitReturn(t)
    BY <2>4 DEF CountDownNotified, WaitReturn, Internal
  <2>5. CASE CountDownUnlock(t) \/ WaitUnlock(t)
    BY <2>5 DEF CountDownUnlock, WaitUnlock
  <2>6. CASE WaitCheck(t)
    BY <2>6 DEF WaitCheck
  <2>7. CASE CondVarStep(t)
    BY <2>7 DEF CondVarStep, Internal
  <2> QED
    BY <2>1, <2>2, <2>3, <2>4, <2>5, <2>6, <2>7
<1> QED
  BY <1>1, <1>2 DEF NextLatch

\* What holds of the condition variables holds of that of the latch.
LEMMA ImplementsCondVarOpt == SpecLatch => Spec
<1>1. InitLatch => Init
  BY DEF InitLatch
<1> QED
  BY <1>1, StepOfCondVar, PTL DEF SpecLatch, Spec

-----------------------------------------------------------------------------
(* Units *)

\* A part of the counters counts down finitely many units.
LEMMA UnitsFinite ==
  ASSUME NEW S \in SUBSET Counters
  PROVE  IsFiniteSet(Units(S)) /\ Cardinality(Units(S)) \in 0 .. Count
<1>1. \A t \in Counters : IsFiniteSet({t} \X (1 .. Decrement[t]))
  <2> SUFFICES ASSUME NEW t \in Counters
               PROVE  IsFiniteSet({t} \X (1 .. Decrement[t]))
    OBVIOUS
  <2>1. IsFiniteSet({t})
    BY FS_Singleton
  <2>2. Decrement[t] \in Int /\ 1 \in Int
    BY DecrementAssumption
  <2>3. IsFiniteSet(1 .. Decrement[t])
    BY <2>2, FS_Interval
  <2> QED
    BY <2>1, <2>3, FS_Product
<1>2. IsFiniteSet(Counters)
  BY ThreadsAssumption, RolesAssumption, FS_Subset
<1>3. IsFiniteSet({{t} \X (1 .. Decrement[t]) : t \in Counters})
  <2> DEFINE T == {{t} \X (1 .. Decrement[t]) : t \in Counters}
             f == [t \in Counters |-> {t} \X (1 .. Decrement[t])]
  <2>1. f \in [Counters -> T] /\ \A x \in T : \E t \in Counters : f[t] = x
    OBVIOUS
  <2> HIDE DEF f, T
  <2>2. f \in Surjection(Counters, T)
    BY <2>1, Fun_IsSurj
  <2> QED
    BY <1>2, <2>2, FS_Surjection DEF T
<1>4. IsFiniteSet(Units(Counters))
  BY <1>1, <1>3, FS_UNION DEF Units
<1>5. Units(S) \in SUBSET Units(Counters)
  BY DEF Units
<1>6. IsFiniteSet(Units(S)) /\ Cardinality(Units(S)) =< Count
  BY <1>4, <1>5, FS_Subset DEF Count
<1> QED
  BY <1>4, <1>6, FS_CardinalityType DEF Count

\* A counter takes its own units out.
LEMMA UnitsWithout ==
  ASSUME NEW S \in SUBSET Counters, NEW t \in S
  PROVE  Cardinality(Units(S \ {t})) = Cardinality(Units(S)) - Decrement[t]
<1> DEFINE own == {t} \X (1 .. Decrement[t])
<1>1. Units(S \ {t}) = Units(S) \ own
  BY DEF Units
<1>2. Units(S) \cap own = own
  BY DEF Units
<1>3. IsFiniteSet(Units(S))
  BY UnitsFinite
<1>4. Cardinality(own) = Decrement[t]
  <2>1. IsFiniteSet({t}) /\ Cardinality({t}) = 1
    BY FS_Singleton
  <2>2. Decrement[t] \in Nat \ {0} /\ 1 \in Int
    BY DecrementAssumption
  <2>3. IsFiniteSet(1 .. Decrement[t]) /\ Cardinality(1 .. Decrement[t]) = Decrement[t]
    BY <2>2, FS_Interval
  <2>4. Cardinality(own) = Cardinality({t}) * Cardinality(1 .. Decrement[t])
    BY <2>1, <2>3, FS_Product
  <2> QED
    BY <2>1, <2>2, <2>3, <2>4
<1> HIDE DEF own
<1>5. Cardinality(Units(S) \ own)
        = Cardinality(Units(S)) - Cardinality(Units(S) \cap own)
  BY <1>3, FS_Difference
<1> QED
  BY <1>1, <1>2, <1>4, <1>5

\* At zero nobody has anything to count down any more.
LEMMA NonePending ==
  ASSUME Counted, count_ = 0
  PROVE  Pending = {}
<1> SUFFICES ASSUME NEW t \in Pending PROVE FALSE
  OBVIOUS
<1>1. Pending \in SUBSET Counters
  BY DEF Pending
<1>2. Units(Pending) = {}
  BY <1>1, UnitsFinite, FS_EmptySet DEF Counted
<1>3. <<t, 1>> \in Units(Pending)
  BY <1>1, DecrementAssumption DEF Units
<1> QED
  BY <1>2, <1>3

-----------------------------------------------------------------------------
(* The latch's own steps *)

\* What the mutex protects is done by its holder.
LEMMA OneInside ==
  ASSUME IInvLatch, NEW t \in Threads, NEW u \in Threads, mutex = t,
         at[u] \in {"decrement", "notify_all", "notifying", "unlock", "check", "leave"}
  PROVE  u = t
BY DEF IInvLatch, Positions

\* count_down begins under the mutex.
LEMMA CountDownLockStep ==
  ASSUME IInv, IInv', IInvLatch, NEW t \in Threads, CountDownLock(t)
  PROVE  IInvLatch'
<1> USE NullAssumption, RolesAssumption DEF IInvLatch, TypeOKLatch
<1>1. TypeOKLatch'
  BY DEF IInv, CountDownLock, Goto
<1>2. Positions'
  BY DEF Positions, CountDownLock, Goto, TypeOK, Lock, locals
<1>3. Counted'
  <2>1. Pending' = Pending /\ count_' = count_
    BY DEF Pending, CountDownLock, Goto
  <2> QED
    BY <2>1 DEF Counted, Units, CountDownLock, Goto
<1>4. SleepersSound'
  <2>1. \A w \in Threads : Registered(w, latchCv)' => Registered(w, latchCv)
    BY DEF Registered, CountDownLock, Lock, locals
  <2>2. \A u \in Threads : at[u] \in {"notify_all", "notifying"} =>
                              at'[u] \in {"notify_all", "notifying"}
    BY DEF CountDownLock, Goto
  <2> QED
    BY <2>1, <2>2 DEF SleepersSound, CountDownLock
<1>5. LeaversSound'
  BY DEF LeaversSound, CountDownLock, Goto
<1> QED
  BY <1>1, <1>2, <1>3, <1>4, <1>5

\* The count goes down by what this thread had pending, and whoever brings it
\* to zero is the one who notifies.
LEMMA CountDownStep ==
  ASSUME IInv, IInv', IInvLatch, NEW t \in Threads, CountDown(t)
  PROVE  IInvLatch'
<1> USE NullAssumption, RolesAssumption DEF IInvLatch, TypeOKLatch
<1>a. /\ at[t] = "decrement" /\ t \in Counters /\ mutex = t
      /\ at' = [at EXCEPT ![t] = IF count_' = 0 THEN "notify_all" ELSE "unlock"]
      /\ count_' = count_ - Decrement[t] /\ UNCHANGED vars
  BY DEF Positions, CountDown
<1>b. /\ Pending \in SUBSET Counters /\ t \in Pending
      /\ Pending' = Pending \ {t}
  BY <1>a DEF Pending
<1>c. /\ count_' = Cardinality(Units(Pending \ {t}))
      /\ count_' \in 0 .. Count
  BY <1>a, <1>b, UnitsFinite, UnitsWithout DEF Counted
<1>1. TypeOKLatch'
  BY <1>a, <1>c DEF IInv
<1>2. Positions'
  BY <1>a DEF Positions, vars
<1>3. Counted'
  <2>1. \A u \in Threads : at'[u] \in {"notify_all", "notifying"} => count_' = 0
    <3>1. \A u \in Threads : at[u] \in {"notify_all", "notifying"} => u = t
      BY <1>a, OneInside
    <3> QED
      BY <1>a, <3>1
  <2>2. Units(Pending)' = Units(Pending \ {t})
    BY <1>b DEF Units
  <2> QED
    BY <1>c, <2>1, <2>2 DEF Counted
<1>4. SleepersSound'
  BY <1>a DEF SleepersSound
<1>5. LeaversSound'
  BY <1>a DEF LeaversSound
<1> QED
  BY <1>1, <1>2, <1>3, <1>4, <1>5

\* The notification begins under the mutex.
LEMMA CountDownNotifyStep ==
  ASSUME IInv, IInv', IInvLatch, NEW t \in Threads, CountDownNotify(t)
  PROVE  IInvLatch'
<1> USE NullAssumption, RolesAssumption DEF IInvLatch, TypeOKLatch
<1>1. TypeOKLatch'
  BY DEF IInv, CountDownNotify, Goto
<1>2. Positions'
  BY DEF Positions, CountDownNotify, Goto, TypeOK, NotifyAll
<1>3. Counted'
  <2>1. Pending' = Pending /\ count_' = count_
    BY DEF Pending, CountDownNotify, Goto
  <2> QED
    BY <2>1 DEF Counted, Units, CountDownNotify, Goto
<1>4. SleepersSound'
  <2>1. \A w \in Threads : Registered(w, latchCv)' => Registered(w, latchCv)
    BY DEF Registered, CountDownNotify, NotifyAll
  <2>2. \A u \in Threads : at[u] \in {"notify_all", "notifying"} =>
                              at'[u] \in {"notify_all", "notifying"}
    BY DEF CountDownNotify, Goto
  <2> QED
    BY <2>1, <2>2 DEF SleepersSound, CountDownNotify
<1>5. LeaversSound'
  BY DEF LeaversSound, CountDownNotify, Goto
<1> QED
  BY <1>1, <1>2, <1>3, <1>4, <1>5

\* When the notification ends, nobody is registered any more.
LEMMA CountDownNotifiedStep ==
  ASSUME IInv, IInv', IInvLatch, NEW t \in Threads, CountDownNotified(t)
  PROVE  IInvLatch'
<1> USE NullAssumption, RolesAssumption DEF IInvLatch, TypeOKLatch
<1>1. TypeOKLatch'
  BY DEF IInv, CountDownNotified, Goto
<1>2. Positions'
  BY DEF Positions, CountDownNotified, Goto, TypeOK, NotifyAllExit
<1>3. Counted'
  <2>1. Pending' = Pending /\ count_' = count_
    BY DEF Pending, CountDownNotified, Goto
  <2> QED
    BY <2>1 DEF Counted, Units, CountDownNotified, Goto
<1>4. SleepersSound'
  <2>1. /\ pc[t] = "notifyAll" /\ cv[t] = latchCv /\ scan = kMaxWaitingThreads
    BY CvAssumption DEF CountDownNotified, NotifyAllExit, ScanDone, IInv, LocalsSound
  <2>2. \A i \in Slots : tasks_waiting[latchCv][i] = nullptr
    BY <2>1, CapacityAssumption DEF IInv, NotifyAllSwept, Slots
  <2> QED
    BY <2>2 DEF SleepersSound, Registered, CountDownNotified, NotifyAllExit
<1>5. LeaversSound'
  BY DEF LeaversSound, CountDownNotified, Goto
<1> QED
  BY <1>1, <1>2, <1>3, <1>4, <1>5

\* count_down is over, or becomes a wait.
LEMMA CountDownUnlockStep ==
  ASSUME IInv, IInv', IInvLatch, NEW t \in Threads, CountDownUnlock(t)
  PROVE  IInvLatch'
<1> USE NullAssumption, RolesAssumption DEF IInvLatch, TypeOKLatch
<1>1. TypeOKLatch'
  BY DEF IInv, CountDownUnlock, Goto
<1>2. Positions'
  BY DEF Positions, CountDownUnlock, Goto, TypeOK, Unlock, locals
<1>3. Counted'
  <2>1. Pending' = Pending /\ count_' = count_
    BY DEF Pending, CountDownUnlock, Goto
  <2> QED
    BY <2>1 DEF Counted, Units, CountDownUnlock, Goto
<1>4. SleepersSound'
  <2>1. \A w \in Threads : Registered(w, latchCv)' => Registered(w, latchCv)
    BY DEF Registered, CountDownUnlock, Unlock, locals
  <2>2. \A u \in Threads : at[u] \in {"notify_all", "notifying"} =>
                              at'[u] \in {"notify_all", "notifying"}
    BY DEF CountDownUnlock, Goto
  <2> QED
    BY <2>1, <2>2 DEF SleepersSound, CountDownUnlock
<1>5. LeaversSound'
  BY DEF LeaversSound, CountDownUnlock, Goto
<1> QED
  BY <1>1, <1>2, <1>3, <1>4, <1>5

\* wait begins under the mutex.
LEMMA WaitLockStep ==
  ASSUME IInv, IInv', IInvLatch, NEW t \in Threads, WaitLock(t)
  PROVE  IInvLatch'
<1> USE NullAssumption, RolesAssumption DEF IInvLatch, TypeOKLatch
<1>1. TypeOKLatch'
  BY DEF IInv, WaitLock, Goto
<1>2. Positions'
  BY DEF Positions, WaitLock, Goto, TypeOK, Lock, locals
<1>3. Counted'
  <2>1. Pending' = Pending /\ count_' = count_
    BY DEF Pending, WaitLock, Goto
  <2> QED
    BY <2>1 DEF Counted, Units, WaitLock, Goto
<1>4. SleepersSound'
  <2>1. \A w \in Threads : Registered(w, latchCv)' => Registered(w, latchCv)
    BY DEF Registered, WaitLock, Lock, locals
  <2>2. \A u \in Threads : at[u] \in {"notify_all", "notifying"} =>
                              at'[u] \in {"notify_all", "notifying"}
    BY DEF WaitLock, Goto
  <2> QED
    BY <2>1, <2>2 DEF SleepersSound, WaitLock
<1>5. LeaversSound'
  BY DEF LeaversSound, WaitLock, Goto
<1> QED
  BY <1>1, <1>2, <1>3, <1>4, <1>5

\* A thread that finds the count at zero leaves, and is alone then; one that
\* does not registers while the count is above zero.
LEMMA WaitCheckStep ==
  ASSUME IInv, IInv', IInvLatch, NEW t \in Threads, WaitCheck(t)
  PROVE  IInvLatch'
<1> USE NullAssumption, RolesAssumption DEF IInvLatch, TypeOKLatch
<1>a. at[t] = "check" /\ t \in Waiters /\ mutex = t
  BY DEF Positions, WaitCheck, Goto
<1>1. TypeOKLatch'
  BY DEF IInv, WaitCheck, Goto
<1>2. Positions'
  BY DEF Positions, WaitCheck, Goto, TypeOK, Wait, vars
<1>3. Counted'
  <2>1. Pending' = Pending /\ count_' = count_
    BY DEF Pending, WaitCheck, Goto
  <2> QED
    BY <2>1 DEF Counted, Units, WaitCheck, Goto
<1>4. SleepersSound'
  <2>1. CASE count_ # 0
    BY <2>1 DEF SleepersSound, WaitCheck
  <2>2. CASE count_ = 0
    BY <1>a, <2>2 DEF SleepersSound, WaitCheck, Goto, Registered, vars
  <2> QED
    BY <2>1, <2>2
<1>5. LeaversSound'
  <2>1. CASE count_ # 0
    BY <1>a, <2>1 DEF LeaversSound, WaitCheck, Goto
  <2>2. CASE count_ = 0
    <3>1. at' = [at EXCEPT ![t] = "leave"] /\ count_' = 0
      BY <2>2 DEF WaitCheck, Goto
    <3>2. \A u \in Counters : at[u] \notin {"count_down", "decrement"}
      BY <2>2, NonePending DEF Pending
    <3>3. \A u \in Counters : at[u] \notin {"notify_all", "notifying", "unlock"}
      BY <1>a, OneInside
    <3> QED
      BY <3>1, <3>2, <3>3 DEF LeaversSound
  <2> QED
    BY <2>1, <2>2
<1> QED
  BY <1>1, <1>2, <1>3, <1>4, <1>5

\* A thread that has woken up holds the mutex and checks again.
LEMMA WaitReturnStep ==
  ASSUME IInv, IInv', IInvLatch, NEW t \in Threads, WaitReturn(t)
  PROVE  IInvLatch'
<1> USE NullAssumption, RolesAssumption DEF IInvLatch, TypeOKLatch
<1>1. TypeOKLatch'
  BY DEF IInv, WaitReturn, Goto
<1>2. Positions'
  BY DEF Positions, WaitReturn, Goto, TypeOK, Dequeue, locks, IInv, WaitHoldsLock
<1>3. Counted'
  <2>1. Pending' = Pending /\ count_' = count_
    BY DEF Pending, WaitReturn, Goto
  <2> QED
    BY <2>1 DEF Counted, Units, WaitReturn, Goto
<1>4. SleepersSound'
  <2>1. \A w \in Threads : Registered(w, latchCv)' => Registered(w, latchCv)
    BY CvAssumption DEF Registered, WaitReturn, Dequeue, IInv, LocalsSound, TypeOK,
                        Overwritten, FirstSlot
  <2>2. \A u \in Threads : at[u] \in {"notify_all", "notifying"} =>
                              at'[u] \in {"notify_all", "notifying"}
    BY DEF WaitReturn, Goto
  <2> QED
    BY <2>1, <2>2 DEF SleepersSound, WaitReturn
<1>5. LeaversSound'
  BY DEF LeaversSound, WaitReturn, Goto
<1> QED
  BY <1>1, <1>2, <1>3, <1>4, <1>5

\* The thread has left.
LEMMA WaitUnlockStep ==
  ASSUME IInv, IInv', IInvLatch, NEW t \in Threads, WaitUnlock(t)
  PROVE  IInvLatch'
<1> USE NullAssumption, RolesAssumption DEF IInvLatch, TypeOKLatch
<1>1. TypeOKLatch'
  BY DEF IInv, WaitUnlock, Goto
<1>2. Positions'
  BY DEF Positions, WaitUnlock, Goto, TypeOK, Unlock, locals
<1>3. Counted'
  <2>1. Pending' = Pending /\ count_' = count_
    BY DEF Pending, WaitUnlock, Goto
  <2> QED
    BY <2>1 DEF Counted, Units, WaitUnlock, Goto
<1>4. SleepersSound'
  <2>1. \A w \in Threads : Registered(w, latchCv)' => Registered(w, latchCv)
    BY DEF Registered, WaitUnlock, Unlock, locals
  <2>2. \A u \in Threads : at[u] \in {"notify_all", "notifying"} =>
                              at'[u] \in {"notify_all", "notifying"}
    BY DEF WaitUnlock, Goto
  <2> QED
    BY <2>1, <2>2 DEF SleepersSound, WaitUnlock
<1>5. LeaversSound'
  BY DEF LeaversSound, WaitUnlock, Goto
<1> QED
  BY <1>1, <1>2, <1>3, <1>4, <1>5

\* What happens inside of a call of the condition variable registers nobody and
\* leaves the latch alone.
LEMMA CondVarStepStep ==
  ASSUME IInv, IInv', IInvLatch, NEW t \in Threads, CondVarStep(t)
  PROVE  IInvLatch'
<1> USE NullAssumption, RolesAssumption DEF IInvLatch, TypeOKLatch
<1>a. UNCHANGED latchVars
  BY DEF CondVarStep
<1>1. TypeOKLatch'
  BY <1>a DEF IInv, latchVars
<1>2. Positions'
  <2> USE <1>a DEF Positions, TypeOK, latchVars
  <2>1. CASE UnlockInWait(t)
    BY <2>1 DEF UnlockInWait, locals, IInv, WaitHoldsLock
  <2>2. CASE ExitCritical(t) \/ AssertFails(t)
    BY <2>2 DEF ExitCritical, AssertFails, locals, locks
  <2>3. CASE NotifyWaitReturn(t)
    BY <2>3 DEF NotifyWaitReturn, locks
  <2>4. CASE Relock(t)
    BY <2>4 DEF Relock, locals
  <2>5. CASE NotifyAllSlot(t)
    BY <2>5 DEF NotifyAllSlot, locks, locals
  <2> QED
    BY <2>1, <2>2, <2>3, <2>4, <2>5 DEF CondVarStep
<1>3. Counted'
  BY <1>a DEF Counted, Units, Pending, latchVars
<1>4. SleepersSound'
  <2>1. \A w \in Threads : Registered(w, latchCv)' => Registered(w, latchCv)
    <3>1. CASE NotifyAllSlot(t)
      <4>1. scan \in Slots /\ cv[t] \in CVs
        BY <3>1, CapacityAssumption
           DEF IInv, TypeOK, LocalsSound, NotifyAllSlot, ScanDone, Slots
      <4>2. \A c \in CVs, i \in Slots :
              tasks_waiting'[c][i] \in {tasks_waiting[c][i], nullptr}
        BY <3>1, <4>1 DEF IInv, TypeOK, NotifyAllSlot
      <4> QED
        BY <4>2, CvAssumption DEF Registered
    <3>2. CASE UNCHANGED tasks_waiting
      BY <3>2 DEF Registered
    <3> QED
      BY <3>1, <3>2 DEF CondVarStep, UnlockInWait, ExitCritical, AssertFails,
         NotifyWaitReturn, Relock
  <2> QED
    BY <1>a, <2>1 DEF SleepersSound, latchVars
<1>5. LeaversSound'
  BY <1>a DEF LeaversSound, latchVars
<1> QED
  BY <1>1, <1>2, <1>3, <1>4, <1>5

-----------------------------------------------------------------------------
(* The theorems *)

\* The inductive invariant of the latch, over the one of the condition variable
\* (latch.h:16-29).
THEOREM LatchInvariance == SpecLatch => []IInvLatch
<1>1. InitLatch => IInvLatch
  <2> SUFFICES ASSUME InitLatch PROVE IInvLatch
    OBVIOUS
  <2> USE RolesAssumption, NullAssumption, CapacityAssumption DEF InitLatch
  <2>1. Pending = Counters
    BY DEF Pending
  <2>2. TypeOKLatch
    BY UnitsFinite DEF TypeOKLatch, TypeOK, Init, Count
  <2>3. Positions
    BY DEF Positions, Init
  <2>4. Counted
    BY <2>1 DEF Counted, Count
  <2>5. SleepersSound
    BY CvAssumption DEF SleepersSound, Registered, Init
  <2>6. LeaversSound
    BY DEF LeaversSound
  <2> QED
    BY <2>2, <2>3, <2>4, <2>5, <2>6 DEF IInvLatch
<1>2. IInv /\ IInv' /\ IInvLatch /\ [NextLatch]_allVars => IInvLatch'
  <2> SUFFICES ASSUME IInv, IInv', IInvLatch, [NextLatch]_allVars
               PROVE  IInvLatch'
    OBVIOUS
  <2>1. CASE UNCHANGED allVars
    BY <2>1 DEF IInvLatch, TypeOKLatch, TypeOK, Positions, Counted, Units, Pending,
                SleepersSound, LeaversSound, Registered, allVars, vars
  <2>2. ASSUME NEW t \in Threads, Step(t)
        PROVE  IInvLatch'
    BY <2>2, CountDownLockStep, CountDownStep, CountDownNotifyStep,
       CountDownNotifiedStep, CountDownUnlockStep, WaitLockStep, WaitCheckStep,
       WaitReturnStep, WaitUnlockStep, CondVarStepStep
    DEF Step
  <2> QED
    BY <2>1, <2>2 DEF NextLatch, Terminating
<1> QED
  BY <1>1, <1>2, ImplementsCondVarOpt, Invariance, PTL DEF SpecLatch

\* Nobody leaves wait() while something is still to be counted down, whatever
\* wakes the thread (latch.h:25-28).
THEOREM NobodyTooEarly == SpecLatch => []NotBeforeZero
<1>1. IInvLatch => NotBeforeZero
  BY DEF IInvLatch, LeaversSound, NotBeforeZero
<1> QED
  BY <1>1, LatchInvariance, PTL

\* Once a thread has returned from wait() every count_down is through with the
\* condition variable and with the mutex (latch.h:17-22).
THEOREM CountersAreThrough == SpecLatch => []NoCounterInside
<1>1. IInvLatch => NoCounterInside
  BY DEF IInvLatch, LeaversSound, NoCounterInside
<1> QED
  BY <1>1, LatchInvariance, PTL

\* Once the thread that brought the count to zero has notified, every thread
\* that sleeps has its wakeup pending (latch.h:19-20, 25-28).
THEOREM NobodySleepsOn == SpecLatch => []NoSleeperAfterZero
<1>1. IInv /\ IInvLatch => NoSleeperAfterZero
  <2> SUFFICES ASSUME IInv, IInvLatch, count_ = 0,
                      \A u \in Threads : at[u] \notin {"notify_all", "notifying"},
                      NEW t \in Threads, pc[t] = "blocked"
               PROVE  notified[t]
    BY DEF NoSleeperAfterZero
  <2>1. Registered(t, cv[t]) \/ notified[t]
    BY DEF IInv, Reachable
  <2>2. cv[t] = latchCv
    BY CvAssumption DEF IInv, LocalsSound
  <2> QED
    BY <2>1, <2>2 DEF IInvLatch, SleepersSound
<1> QED
  BY <1>1, LatchInvariance, ImplementsCondVarOpt, Invariance, PTL
=============================================================================
