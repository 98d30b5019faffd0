-------------------------- MODULE CondVarOptProofs --------------------------
(***************************************************************************)
(* Theorems about CondVarOpt, for any finite set of tasks, any set of      *)
(* condition variables, any table length and any priorities.               *)
(***************************************************************************)
EXTENDS CondVarOpt, FiniteSetTheorems, FunctionTheorems, WellFoundedInduction,
        TLAPS

\* A set of natural numbers has a least element.
LEMMA LeastElement ==
  ASSUME NEW T \in SUBSET Nat, T # {}
  PROVE  \E x \in T : \A y \in T : x =< y
<1> DEFINE R == {ss \in Nat \X Nat : ss[1] < ss[2]}
<1>1. IsWellFoundedOn(R, Nat)
  BY NatLessThanWellFounded DEF OpToRel
<1> HIDE DEF R
<1>2. PICK x \in T : \A y \in T : ~ (<<y, x>> \in R)
  BY <1>1, WFMin
<1>3. ASSUME NEW y \in T PROVE x =< y
  <2>1. x \in Nat /\ y \in Nat
    OBVIOUS
  <2>2. <<y, x>> \in R <=> y < x
    BY <2>1 DEF R
  <2> QED
    BY <1>2, <2>1, <2>2
<1> QED
  BY <1>3

\* The loops over a table: a search for x that is there stops at one slot.
LEMMA FirstSlotExists ==
  ASSUME NEW c, NEW x, NEW k \in Slots, tasks_waiting[c][k] = x
  PROVE  \E i \in Slots : FirstSlot(c, x, i)
<1> DEFINE T == {i \in Slots : tasks_waiting[c][i] = x}
<1>1. T \in SUBSET Nat /\ T # {}
  BY DEF Slots
<1>2. PICK i \in T : \A j \in T : i =< j
  BY <1>1, LeastElement
<1>3. \A j \in Slots : j < i => ~(i =< j)
  BY DEF Slots
<1> QED
  BY <1>2, <1>3 DEF FirstSlot

\* The search for a slot stops at the first one.
LEMMA FirstSlotUnique ==
  ASSUME NEW c, NEW x, NEW i \in Slots, NEW j \in Slots,
         FirstSlot(c, x, i), FirstSlot(c, x, j)
  PROVE  i = j
BY DEF FirstSlot, Slots

\* The tables after such a loop overwrote the slot it stopped at.
LEMMA OverwrittenTable ==
  ASSUME TypeOK, NEW c \in CVs, NEW x, NEW y \in Threads \cup {nullptr},
         tasks_waiting' = [tasks_waiting EXCEPT ![c] = Overwritten(c, x, y)]
  PROVE  /\ tasks_waiting' \in [CVs -> [Slots -> Threads \cup {nullptr}]]
         /\ \A d \in CVs, j \in Slots :
              tasks_waiting'[d][j] =
                IF d = c /\ FirstSlot(c, x, j) THEN y ELSE tasks_waiting[d][j]
BY DEF TypeOK, Overwritten

\* Every step keeps the type of every variable.
LEMMA TypeStep == TypeOK /\ [Next]_vars => TypeOK'
<1> USE NullAssumption, CapacityAssumption
<1> SUFFICES ASSUME TypeOK, [Next]_vars PROVE TypeOK'
  OBVIOUS
<1> USE DEF TypeOK, locks, locals
<1>1. ASSUME NEW t \in Threads, Lock(t) \/ Unlock(t) \/ WaitExpired(t)
      PROVE  TypeOK'
  BY <1>1 DEF Lock, Unlock, WaitExpired
<1>2. ASSUME NEW t \in Threads, NEW c \in CVs, NEW isTimed \in BOOLEAN,
             Wait(t, c, isTimed)
      PROVE  TypeOK'
  <2>1. tasks_waiting' \in [CVs -> [Slots -> Threads \cup {nullptr}]]
    BY <1>2, OverwrittenTable DEF Wait
  <2>2. queued' \in [Threads -> BOOLEAN]
    BY <1>2 DEF Wait
  <2>3. /\ mutex' \in Threads \cup {nullptr}
        /\ s_cond_lock' \in Threads \cup {nullptr}
        /\ notified' \in [Threads -> BOOLEAN]
        /\ pc' \in [Threads -> {"client", "release", "exit", "assert",
                                "blocked", "relock", "dequeue", "notifyAll",
                                "aborted"}]
        /\ scan' \in 0 .. kMaxWaitingThreads
    BY <1>2 DEF Wait
  <2>4. /\ cv' \in [Threads -> CVs \cup {nullptr}]
        /\ timed' \in [Threads -> BOOLEAN]
        /\ status' \in [Threads -> {"timeout", "no_timeout"}]
    BY <1>2 DEF Wait
  <2> QED
    BY <2>1, <2>2, <2>3, <2>4
<1>3. ASSUME NEW t \in Threads, NEW c \in CVs, NotifyOne(t, c)
      PROVE  TypeOK'
  BY <1>3 DEF NotifyOne, IsTarget
<1>4. ASSUME NEW t \in Threads, NEW c \in CVs, NotifyAll(t, c)
      PROVE  TypeOK'
  BY <1>4 DEF NotifyAll
<1>5. ASSUME NEW t \in Threads, Internal(t)
      PROVE  TypeOK'
  <2>1. CASE UnlockInWait(t) \/ ExitCritical(t) \/ AssertFails(t) \/ Relock(t)
    BY <2>1 DEF UnlockInWait, ExitCritical, AssertFails, Relock
  <2>2. CASE NotifyWaitReturn(t) \/ NotifyWaitTimeout(t)
    BY <2>2 DEF NotifyWaitReturn, NotifyWaitTimeout
  <2>3. CASE Dequeue(t)
    <3>1. tasks_waiting' \in [CVs -> [Slots -> Threads \cup {nullptr}]]
      <4>1. CASE cv[t] \in CVs
        BY <2>3, <4>1, OverwrittenTable DEF Dequeue
      <4>2. CASE cv[t] \notin CVs
        BY <2>3, <4>2 DEF Dequeue
      <4> QED
        BY <4>1, <4>2
    <3> QED
      BY <2>3, <3>1 DEF Dequeue, ScanDone
  <2>4. CASE NotifyAllSlot(t)
    <3>1. tasks_waiting' \in [CVs -> [Slots -> Threads \cup {nullptr}]]
      BY <2>4 DEF NotifyAllSlot, ScanDone
    <3>2. notified' \in [Threads -> BOOLEAN]
      BY <2>4 DEF NotifyAllSlot, ScanDone
    <3>3. scan' \in 0 .. kMaxWaitingThreads
      BY <2>4 DEF NotifyAllSlot, ScanDone
    <3> QED
      BY <2>4, <3>1, <3>2, <3>3 DEF NotifyAllSlot, ScanDone
  <2>5. CASE NotifyAllExit(t)
    BY <2>5 DEF NotifyAllExit, ScanDone
  <2> QED
    BY <1>5, <2>1, <2>2, <2>3, <2>4, <2>5 DEF Internal
<1>6. CASE UNCHANGED vars
  BY <1>6 DEF vars
<1> QED
  BY <1>1, <1>2, <1>3, <1>4, <1>5, <1>6 DEF Next

\* A failed registration is accounted for by as many other waits as there are
\* slots: the entries of the table are distinct tasks.
LEMMA FullTable ==
  ASSUME IInv, NEW t \in Threads, pc[t] \in {"release", "exit"}, ~queued[t]
  PROVE  Cardinality({u \in Threads \ {t} : InWait(u) /\ cv[u] = cv[t]})
           >= kMaxWaitingThreads
<1> DEFINE others == {u \in Threads \ {t} : InWait(u) /\ cv[u] = cv[t]}
           entry == [i \in Slots |-> tasks_waiting[cv[t]][i]]
<1>1. cv[t] \in CVs /\ \A i \in Slots : tasks_waiting[cv[t]][i] # nullptr
  BY DEF IInv, LocalsSound, NoSlotMeansFull
<1>2. entry \in [Slots -> others]
  <2> SUFFICES ASSUME NEW i \in Slots PROVE tasks_waiting[cv[t]][i] \in others
    OBVIOUS
  <2>1. tasks_waiting[cv[t]][i] \in Threads
    BY <1>1 DEF IInv, TypeOK
  <2> QED
    BY <1>1, <2>1 DEF IInv, TableSound, InWait
<1>3. \A i, j \in Slots : entry[i] = entry[j] => i = j
  BY <1>1 DEF IInv, TableSound
<1>4. entry \in Injection(Slots, others)
  BY <1>2, <1>3, Fun_IsInj
<1>5. IsFiniteSet(others)
  BY ThreadsAssumption, FS_Subset
<1>6. Cardinality(Slots) = kMaxWaitingThreads
  BY CapacityAssumption, FS_Interval DEF Slots
<1>7. Cardinality(Slots) =< Cardinality(others)
  BY <1>4, <1>5, FS_Injection
<1>8. Cardinality(others) \in Nat
  BY <1>5, FS_CardinalityType
<1> HIDE DEF others
<1>9. Cardinality(others) >= kMaxWaitingThreads
  BY <1>6, <1>7, <1>8, CapacityAssumption
<1> QED
  BY <1>9 DEF others

\* So a failed registration needs more tasks than slots.
LEMMA ManyTasks ==
  ASSUME IInv, NEW t \in Threads, pc[t] \in {"release", "exit"}, ~queued[t]
  PROVE  Cardinality(Threads) > kMaxWaitingThreads
<1> DEFINE others == {u \in Threads \ {t} : InWait(u) /\ cv[u] = cv[t]}
<1>1. Cardinality(others) >= kMaxWaitingThreads
  BY FullTable
<1>2. others \in SUBSET (Threads \ {t})
  OBVIOUS
<1>3. /\ IsFiniteSet(Threads \ {t})
      /\ Cardinality(Threads \ {t}) = Cardinality(Threads) - 1
  BY ThreadsAssumption, FS_RemoveElement
<1> HIDE DEF others
<1>4. Cardinality(others) =< Cardinality(Threads) - 1 /\ IsFiniteSet(others)
  BY <1>2, <1>3, FS_Subset
<1>5. Cardinality(others) \in Nat /\ Cardinality(Threads) \in Nat
  BY <1>4, ThreadsAssumption, FS_CardinalityType
<1> QED
  BY <1>1, <1>4, <1>5, CapacityAssumption

\* lock.unlock() keeps the registration made under the critical section.
LEMMA UnlockInWaitStep ==
  ASSUME IInv, Running, TypeOK', NEW t \in Threads, UnlockInWait(t)
  PROVE  IInv'
<1> USE NullAssumption DEF IInv, TypeOK, locks, locals, UnlockInWait, InWait
<1>1. CriticalSection'
  BY DEF CriticalSection
<1>2. LocalsSound'
  BY DEF LocalsSound
<1>3. TableSound'
  BY DEF TableSound
<1>4. WaitHoldsLock'
  BY DEF WaitHoldsLock
<1>5. Reachable'
  BY DEF Reachable, Registered
<1>6. NoSlotMeansFull'
  BY DEF NoSlotMeansFull
<1>7. OverflowNeedsManyTasks'
  BY DEF OverflowNeedsManyTasks
<1>8. NotifyAllSwept'
  BY DEF NotifyAllSwept
<1> QED
  BY <1>1, <1>2, <1>3, <1>4, <1>5, <1>6, <1>7, <1>8

\* Leaving the critical section: a registered task goes to sleep reachable,
\* an unregistered one stops the program.
LEMMA ExitCriticalStep ==
  ASSUME IInv, Running, TypeOK', NEW t \in Threads, ExitCritical(t)
  PROVE  IInv'
<1> USE NullAssumption DEF IInv, TypeOK, locks, locals, ExitCritical, InWait
<1>1. CriticalSection'
  BY DEF CriticalSection
<1>2. LocalsSound'
  BY DEF LocalsSound
<1>3. TableSound'
  BY DEF TableSound
<1>4. WaitHoldsLock'
  BY DEF WaitHoldsLock
<1>5. Reachable'
  BY DEF Reachable, Registered
<1>6. NoSlotMeansFull'
  BY DEF NoSlotMeansFull
<1>7. OverflowNeedsManyTasks'
  <2>1. ~queued[t] => Cardinality(Threads) > kMaxWaitingThreads
    BY ManyTasks
  <2> QED
    BY <2>1 DEF OverflowNeedsManyTasks
<1>8. NotifyAllSwept'
  BY DEF NotifyAllSwept
<1> QED
  BY <1>1, <1>2, <1>3, <1>4, <1>5, <1>6, <1>7, <1>8

\* The failed assert changes nothing but the life of the program.
LEMMA AssertFailsStep ==
  ASSUME IInv, Running, TypeOK', NEW t \in Threads, AssertFails(t)
  PROVE  IInv'
<1> USE NullAssumption DEF IInv, TypeOK, locks, locals, AssertFails, InWait
<1>1. CriticalSection'
  BY DEF CriticalSection
<1>2. LocalsSound'
  BY DEF LocalsSound
<1>3. TableSound'
  BY DEF TableSound
<1>4. WaitHoldsLock'
  BY DEF WaitHoldsLock
<1>5. Reachable'
  BY DEF Reachable, Registered
<1>6. NoSlotMeansFull'
  BY DEF NoSlotMeansFull
<1>7. OverflowNeedsManyTasks'
  BY DEF OverflowNeedsManyTasks
<1>8. NotifyAllSwept'
  BY DEF NotifyAllSwept
<1> QED
  BY <1>1, <1>2, <1>3, <1>4, <1>5, <1>6, <1>7, <1>8

\* A task that consumes its notification no longer needs to be reached.
LEMMA NotifyWaitReturnStep ==
  ASSUME IInv, Running, TypeOK', NEW t \in Threads, NotifyWaitReturn(t)
  PROVE  IInv'
<1> USE NullAssumption DEF IInv, TypeOK, locks, locals, NotifyWaitReturn, InWait
<1>1. CriticalSection'
  BY DEF CriticalSection
<1>2. LocalsSound'
  BY DEF LocalsSound
<1>3. TableSound'
  BY DEF TableSound
<1>4. WaitHoldsLock'
  BY DEF WaitHoldsLock
<1>5. Reachable'
  BY DEF Reachable, Registered
<1>6. NoSlotMeansFull'
  BY DEF NoSlotMeansFull
<1>7. OverflowNeedsManyTasks'
  BY DEF OverflowNeedsManyTasks
<1>8. NotifyAllSwept'
  BY DEF NotifyAllSwept
<1> QED
  BY <1>1, <1>2, <1>3, <1>4, <1>5, <1>6, <1>7, <1>8

\* A task that times out stays reachable until it removes itself.
LEMMA NotifyWaitTimeoutStep ==
  ASSUME IInv, Running, TypeOK', NEW t \in Threads, NotifyWaitTimeout(t)
  PROVE  IInv'
<1> USE NullAssumption DEF IInv, TypeOK, locks, locals, NotifyWaitTimeout, InWait
<1>1. CriticalSection'
  BY DEF CriticalSection
<1>2. LocalsSound'
  BY DEF LocalsSound
<1>3. TableSound'
  BY DEF TableSound
<1>4. WaitHoldsLock'
  BY DEF WaitHoldsLock
<1>5. Reachable'
  BY DEF Reachable, Registered
<1>6. NoSlotMeansFull'
  BY DEF NoSlotMeansFull
<1>7. OverflowNeedsManyTasks'
  BY DEF OverflowNeedsManyTasks
<1>8. NotifyAllSwept'
  BY DEF NotifyAllSwept
<1> QED
  BY <1>1, <1>2, <1>3, <1>4, <1>5, <1>6, <1>7, <1>8

\* Relocking the mutex disturbs no table.
LEMMA RelockStep ==
  ASSUME IInv, Running, TypeOK', NEW t \in Threads, Relock(t)
  PROVE  IInv'
<1> USE NullAssumption DEF IInv, TypeOK, locks, locals, Relock, InWait
<1>1. CriticalSection'
  BY DEF CriticalSection
<1>2. LocalsSound'
  BY DEF LocalsSound
<1>3. TableSound'
  BY DEF TableSound
<1>4. WaitHoldsLock'
  BY DEF WaitHoldsLock
<1>5. Reachable'
  BY DEF Reachable, Registered
<1>6. NoSlotMeansFull'
  BY DEF NoSlotMeansFull
<1>7. OverflowNeedsManyTasks'
  BY DEF OverflowNeedsManyTasks
<1>8. NotifyAllSwept'
  BY DEF NotifyAllSwept
<1> QED
  BY <1>1, <1>2, <1>3, <1>4, <1>5, <1>6, <1>7, <1>8

\* The second critical section removes every trace of the task and of nobody
\* else.
LEMMA DequeueStep ==
  ASSUME IInv, Running, TypeOK', NEW t \in Threads, Dequeue(t)
  PROVE  IInv'
<1> USE NullAssumption DEF IInv, TypeOK, locks, locals, Dequeue, InWait
<1>a. cv[t] \in CVs
  BY DEF LocalsSound
<1>b. \A u \in Threads : pc[u] \notin {"release", "exit", "notifyAll"}
  BY DEF CriticalSection
<1>c. /\ \A d \in CVs, j \in Slots : tasks_waiting'[d][j] # t
      /\ \A d \in CVs, j \in Slots :
           tasks_waiting[d][j] # t => tasks_waiting'[d][j] = tasks_waiting[d][j]
      /\ \A d \in CVs, j \in Slots :
           tasks_waiting'[d][j] # nullptr =>
             tasks_waiting'[d][j] = tasks_waiting[d][j]
  <2>1. \A d \in CVs, j \in Slots : tasks_waiting[d][j] = t => d = cv[t]
    <3>1. t # nullptr /\ TableSound
      OBVIOUS
    <3> HIDE DEF IInv, TypeOK, Dequeue, InWait, locks, locals
    <3> QED
      BY <3>1 DEF TableSound
  <2>2. \A d \in CVs, j \in Slots :
          tasks_waiting'[d][j] =
            IF d = cv[t] /\ FirstSlot(cv[t], t, j) THEN nullptr
                                                   ELSE tasks_waiting[d][j]
    BY <1>a DEF Overwritten
  <2>3. \A j \in Slots :
          tasks_waiting[cv[t]][j] = t => FirstSlot(cv[t], t, j)
    <3>1. ASSUME NEW j \in Slots, tasks_waiting[cv[t]][j] = t
          PROVE  FirstSlot(cv[t], t, j)
      <4>1. PICK i \in Slots : FirstSlot(cv[t], t, i)
        BY <3>1, FirstSlotExists
      <4>2. i = j
        BY <1>a, <3>1, <4>1 DEF TableSound, FirstSlot
      <4> QED
        BY <4>1, <4>2
    <3> QED
      BY <3>1
  <2> QED
    BY <2>1, <2>2, <2>3 DEF FirstSlot
<1>1. CriticalSection'
  BY DEF CriticalSection
<1>2. LocalsSound'
  BY DEF LocalsSound
<1>3. TableSound'
  BY <1>c DEF TableSound
<1>4. WaitHoldsLock'
  BY DEF WaitHoldsLock
<1>5. Reachable'
  <2>1. \A u \in Threads \ {t}, d \in CVs :
          Registered(u, d) => Registered(u, d)'
    BY <1>c DEF Registered
  <2> QED
    BY <1>b, <2>1 DEF Reachable, LocalsSound
<1>6. NoSlotMeansFull'
  BY <1>b DEF NoSlotMeansFull
<1>7. OverflowNeedsManyTasks'
  BY DEF OverflowNeedsManyTasks
<1>8. NotifyAllSwept'
  BY <1>b DEF NotifyAllSwept
<1> QED
  BY <1>1, <1>2, <1>3, <1>4, <1>5, <1>6, <1>7, <1>8

\* An iteration of notify_all leaves a notification for the task it removes.
LEMMA NotifyAllSlotStep ==
  ASSUME IInv, Running, TypeOK', NEW t \in Threads, NotifyAllSlot(t)
  PROVE  IInv'
<1> USE NullAssumption DEF IInv, TypeOK, locks, locals, NotifyAllSlot, ScanDone, InWait
<1>a. cv[t] \in CVs /\ scan \in Slots
  BY CapacityAssumption DEF LocalsSound, Slots
<1>b. \A u \in Threads : u # t => pc[u] \notin {"release", "exit", "notifyAll"}
  BY DEF CriticalSection
<1>c. \A d \in CVs, j \in Slots :
        tasks_waiting'[d][j] =
          IF d = cv[t] /\ j = scan THEN nullptr ELSE tasks_waiting[d][j]
  BY <1>a
<1>1. CriticalSection'
  BY DEF CriticalSection
<1>2. LocalsSound'
  BY DEF LocalsSound
<1>3. TableSound'
  BY <1>a, <1>c DEF TableSound
<1>4. WaitHoldsLock'
  BY DEF WaitHoldsLock
<1>5. Reachable'
  <2> SUFFICES ASSUME NEW u \in Threads,
                      Registered(u, cv[u]) \/ notified[u],
                      cv[u] \in CVs
               PROVE  (Registered(u, cv[u]) \/ notified[u])'
    BY <1>b DEF Reachable, LocalsSound
  <2>1. CASE notified[u]
    BY <2>1
  <2>2. ASSUME NEW j \in Slots, tasks_waiting[cv[u]][j] = u
        PROVE  (Registered(u, cv[u]) \/ notified[u])'
    <3>1. CASE cv[u] = cv[t] /\ j = scan
      BY <2>2, <3>1
    <3>2. CASE ~(cv[u] = cv[t] /\ j = scan)
      BY <1>c, <2>2, <3>2 DEF Registered
    <3> QED
      BY <3>1, <3>2
  <2> QED
    BY <2>1, <2>2 DEF Registered
<1>6. NoSlotMeansFull'
  BY <1>b DEF NoSlotMeansFull
<1>7. OverflowNeedsManyTasks'
  BY DEF OverflowNeedsManyTasks
<1>8. NotifyAllSwept'
  <2>1. \A j \in Slots : j < scan + 1 => j < scan \/ j = scan
    BY DEF Slots
  <2> QED
    BY <1>a, <1>b, <1>c, <2>1 DEF NotifyAllSwept
<1> QED
  BY <1>1, <1>2, <1>3, <1>4, <1>5, <1>6, <1>7, <1>8

\* The end of notify_all.
LEMMA NotifyAllExitStep ==
  ASSUME IInv, Running, TypeOK', NEW t \in Threads, NotifyAllExit(t)
  PROVE  IInv'
<1> USE NullAssumption DEF IInv, TypeOK, locks, locals, NotifyAllExit, ScanDone, InWait
<1>1. CriticalSection'
  BY DEF CriticalSection
<1>2. LocalsSound'
  BY DEF LocalsSound
<1>3. TableSound'
  BY DEF TableSound
<1>4. WaitHoldsLock'
  BY DEF WaitHoldsLock
<1>5. Reachable'
  BY DEF Reachable, Registered
<1>6. NoSlotMeansFull'
  BY DEF NoSlotMeansFull
<1>7. OverflowNeedsManyTasks'
  BY DEF OverflowNeedsManyTasks
<1>8. NotifyAllSwept'
  BY CapacityAssumption DEF NotifyAllSwept, CriticalSection, Slots
<1> QED
  BY <1>1, <1>2, <1>3, <1>4, <1>5, <1>6, <1>7, <1>8

\* The client locks the mutex.
LEMMA LockStep ==
  ASSUME IInv, Running, TypeOK', NEW t \in Threads, Lock(t)
  PROVE  IInv'
<1> USE NullAssumption DEF IInv, TypeOK, locks, locals, Lock, InWait
<1>1. CriticalSection'
  BY DEF CriticalSection
<1>2. LocalsSound'
  BY DEF LocalsSound
<1>3. TableSound'
  BY DEF TableSound
<1>4. WaitHoldsLock'
  BY DEF WaitHoldsLock
<1>5. Reachable'
  BY DEF Reachable, Registered
<1>6. NoSlotMeansFull'
  BY DEF NoSlotMeansFull
<1>7. OverflowNeedsManyTasks'
  BY DEF OverflowNeedsManyTasks
<1>8. NotifyAllSwept'
  BY DEF NotifyAllSwept
<1> QED
  BY <1>1, <1>2, <1>3, <1>4, <1>5, <1>6, <1>7, <1>8

\* The client unlocks the mutex.
LEMMA UnlockStep ==
  ASSUME IInv, Running, TypeOK', NEW t \in Threads, Unlock(t)
  PROVE  IInv'
<1> USE NullAssumption DEF IInv, TypeOK, locks, locals, Unlock, InWait
<1>1. CriticalSection'
  BY DEF CriticalSection
<1>2. LocalsSound'
  BY DEF LocalsSound
<1>3. TableSound'
  BY DEF TableSound
<1>4. WaitHoldsLock'
  BY DEF WaitHoldsLock
<1>5. Reachable'
  BY DEF Reachable, Registered
<1>6. NoSlotMeansFull'
  BY DEF NoSlotMeansFull
<1>7. OverflowNeedsManyTasks'
  BY DEF OverflowNeedsManyTasks
<1>8. NotifyAllSwept'
  BY DEF NotifyAllSwept
<1> QED
  BY <1>1, <1>2, <1>3, <1>4, <1>5, <1>6, <1>7, <1>8

\* A wait whose deadline has passed returns with nothing changed.
LEMMA WaitExpiredStep ==
  ASSUME IInv, Running, TypeOK', NEW t \in Threads, WaitExpired(t)
  PROVE  IInv'
<1> USE NullAssumption DEF IInv, TypeOK, locks, locals, WaitExpired, InWait
<1>1. CriticalSection'
  BY DEF CriticalSection
<1>2. LocalsSound'
  BY DEF LocalsSound
<1>3. TableSound'
  BY DEF TableSound
<1>4. WaitHoldsLock'
  BY DEF WaitHoldsLock
<1>5. Reachable'
  BY DEF Reachable, Registered
<1>6. NoSlotMeansFull'
  BY DEF NoSlotMeansFull
<1>7. OverflowNeedsManyTasks'
  BY DEF OverflowNeedsManyTasks
<1>8. NotifyAllSwept'
  BY DEF NotifyAllSwept
<1> QED
  BY <1>1, <1>2, <1>3, <1>4, <1>5, <1>6, <1>7, <1>8

\* The beginning of notify_all.
LEMMA NotifyAllStep ==
  ASSUME IInv, Running, TypeOK', NEW t \in Threads, NEW c \in CVs, NotifyAll(t, c)
  PROVE  IInv'
<1> USE NullAssumption DEF IInv, TypeOK, locks, locals, NotifyAll, InWait
<1>1. CriticalSection'
  BY DEF CriticalSection
<1>2. LocalsSound'
  BY DEF LocalsSound
<1>3. TableSound'
  BY DEF TableSound
<1>4. WaitHoldsLock'
  BY DEF WaitHoldsLock
<1>5. Reachable'
  BY DEF Reachable, Registered
<1>6. NoSlotMeansFull'
  BY DEF NoSlotMeansFull
<1>7. OverflowNeedsManyTasks'
  BY DEF OverflowNeedsManyTasks
<1>8. NotifyAllSwept'
  BY CapacityAssumption DEF NotifyAllSwept, CriticalSection, Slots
<1> QED
  BY <1>1, <1>2, <1>3, <1>4, <1>5, <1>6, <1>7, <1>8

\* notify_one leaves a notification for the one task it removes.
LEMMA NotifyOneStep ==
  ASSUME IInv, Running, TypeOK', NEW t \in Threads, NEW c \in CVs, NotifyOne(t, c)
  PROVE  IInv'
<1> USE NullAssumption DEF IInv, TypeOK, locks, locals, NotifyOne, InWait
<1>a. \A u \in Threads : pc[u] \notin {"release", "exit", "notifyAll"}
  BY DEF CriticalSection
<1>1. CriticalSection'
  BY DEF CriticalSection
<1>2. LocalsSound'
  BY DEF LocalsSound
<1>3. TableSound'
  BY DEF TableSound
<1>4. WaitHoldsLock'
  BY DEF WaitHoldsLock
<1>5. Reachable'
  BY <1>a DEF Reachable, Registered, LocalsSound
<1>6. NoSlotMeansFull'
  BY <1>a DEF NoSlotMeansFull
<1>7. OverflowNeedsManyTasks'
  BY DEF OverflowNeedsManyTasks
<1>8. NotifyAllSwept'
  BY <1>a DEF NotifyAllSwept
<1> QED
  BY <1>1, <1>2, <1>3, <1>4, <1>5, <1>6, <1>7, <1>8

\* The registration takes a free slot or finds all of them taken.
LEMMA WaitStep ==
  ASSUME IInv, Running, TypeOK', NEW t \in Threads, NEW c \in CVs, NEW isTimed \in BOOLEAN, Wait(t, c, isTimed)
  PROVE  IInv'
<1>p. pc[t] = "client"
  BY DEF Wait
<1>b. \A d \in CVs, j \in Slots : tasks_waiting[d][j] # t
  BY <1>p, NullAssumption DEF IInv, TableSound, InWait
<1>q. queued'[t] <=> ~Full(c)
  <2>1. queued' = [queued EXCEPT ![t] = ~Full(c)] /\ queued \in [Threads -> BOOLEAN]
    BY DEF Wait, IInv, TypeOK
  <2> QED
    BY <2>1, Zenon
<1> USE NullAssumption DEF IInv, TypeOK, locks, locals, Wait, InWait
<1>a. \A u \in Threads : pc[u] \notin {"release", "exit", "notifyAll"}
  BY DEF CriticalSection
<1>c. \/ /\ \A i \in Slots : tasks_waiting[c][i] # nullptr
         /\ \A d \in CVs, j \in Slots :
              tasks_waiting'[d][j] = tasks_waiting[d][j]
         /\ ~queued'[t]
      \/ /\ queued'[t]
         /\ \E i \in Slots :
              /\ tasks_waiting[c][i] = nullptr
              /\ \A d \in CVs, j \in Slots :
                   tasks_waiting'[d][j] =
                     IF d = c /\ j = i THEN t ELSE tasks_waiting[d][j]
  <2>1. \A d \in CVs, j \in Slots :
          tasks_waiting'[d][j] =
            IF d = c /\ FirstSlot(c, nullptr, j) THEN t ELSE tasks_waiting[d][j]
    BY DEF Overwritten
  <2>2. CASE Full(c)
    BY <1>q, <2>1, <2>2 DEF Full, FirstSlot
  <2>3. CASE ~Full(c)
    <3>1. PICK i \in Slots : FirstSlot(c, nullptr, i)
      BY <2>3, FirstSlotExists DEF Full
    <3>2. \A j \in Slots : FirstSlot(c, nullptr, j) => j = i
      BY <3>1, FirstSlotUnique
    <3>3. /\ tasks_waiting[c][i] = nullptr
          /\ \A d \in CVs, j \in Slots :
               tasks_waiting'[d][j] =
                 IF d = c /\ j = i THEN t ELSE tasks_waiting[d][j]
      BY <2>1, <3>1, <3>2 DEF FirstSlot
    <3> QED
      BY <1>q, <2>3, <3>3
  <2> QED
    BY <2>2, <2>3
<1>d. /\ \A u \in Threads : u # t => queued'[u] = queued[u] /\ cv'[u] = cv[u]
                                      /\ pc'[u] = pc[u] /\ status'[u] = status[u]
      /\ cv'[t] = c /\ pc'[t] = "release"
  OBVIOUS
<1>1. CriticalSection'
  BY DEF CriticalSection
<1>2. LocalsSound'
  BY DEF LocalsSound
<1>3. TableSound'
  BY <1>b, <1>c, <1>d DEF TableSound
<1>4. WaitHoldsLock'
  BY DEF WaitHoldsLock
<1>5. Reachable'
  <2>1. \A u \in Threads, d \in CVs :
          u # t /\ Registered(u, d) => Registered(u, d)'
    BY <1>c DEF Registered
  <2>2. queued'[t] => Registered(t, c)'
    BY <1>c DEF Registered
  <2> QED
    BY <1>d, <2>1, <2>2 DEF Reachable, LocalsSound
<1>6. NoSlotMeansFull'
  BY <1>a, <1>c, <1>d DEF NoSlotMeansFull
<1>7. OverflowNeedsManyTasks'
  BY DEF OverflowNeedsManyTasks
<1>8. NotifyAllSwept'
  BY <1>a, <1>d DEF NotifyAllSwept
<1> QED
  BY <1>1, <1>2, <1>3, <1>4, <1>5, <1>6, <1>7, <1>8

-----------------------------------------------------------------------------
(* The invariant and what follows from it *)

\* Every reachable state satisfies the inductive invariant.
THEOREM Invariance == Spec => []IInv
<1>1. Init => IInv
  BY NullAssumption, CapacityAssumption
  DEF Init, IInv, TypeOK, CriticalSection, LocalsSound, TableSound, WaitHoldsLock,
      Reachable, NoSlotMeansFull, OverflowNeedsManyTasks, NotifyAllSwept, Slots
<1>2. IInv /\ [Next]_vars => IInv'
  <2> SUFFICES ASSUME IInv, [Next]_vars PROVE IInv'
    OBVIOUS
  <2>1. TypeOK'
    BY TypeStep DEF IInv
  <2>2. CASE UNCHANGED vars
    BY <2>2 DEF vars, IInv, TypeOK, CriticalSection, LocalsSound, TableSound, InWait,
       WaitHoldsLock, Reachable, Registered, NoSlotMeansFull, OverflowNeedsManyTasks,
       NotifyAllSwept
  <2>3. ASSUME Running, NEW t \in Threads, Internal(t)
        PROVE  IInv'
    BY <2>1, <2>3, UnlockInWaitStep, ExitCriticalStep, AssertFailsStep,
       NotifyWaitReturnStep, NotifyWaitTimeoutStep, RelockStep, DequeueStep, NotifyAllSlotStep,
       NotifyAllExitStep
    DEF Internal
  <2>4. ASSUME Running, NEW t \in Threads,
               Lock(t) \/ Unlock(t) \/ WaitExpired(t)
        PROVE  IInv'
    BY <2>1, <2>4, LockStep, UnlockStep, WaitExpiredStep
  <2>5. ASSUME Running, NEW t \in Threads, NEW c \in CVs,
               \/ \E isTimed \in BOOLEAN : Wait(t, c, isTimed)
               \/ NotifyOne(t, c)
               \/ NotifyAll(t, c)
        PROVE  IInv'
    BY <2>1, <2>5, WaitStep, NotifyOneStep, NotifyAllStep
  <2> QED
    BY <2>2, <2>3, <2>4, <2>5 DEF Next
<1> QED
  BY <1>1, <1>2, PTL DEF Spec

\* Every variable keeps its type.
THEOREM TypeCorrectness == Spec => []TypeOK
<1>1. IInv => TypeOK
  BY DEF IInv
<1> QED
  BY <1>1, Invariance, PTL

\* No wakeup is lost, whatever the interleaving of waits, timeouts and
\* notifications of all condition variables.
THEOREM NoWakeupIsLost == Spec => []NoLostWakeup
<1>1. IInv => NoLostWakeup
  BY DEF IInv, Reachable, NoLostWakeup
<1> QED
  BY <1>1, Invariance, PTL

\* No table holds a task that is not in a wait on that condition variable.
THEOREM NoStaleRegistration == Spec => []RegistrationSound
<1>1. IInv => RegistrationSound
  BY DEF IInv, TableSound, RegistrationSound
<1> QED
  BY <1>1, Invariance, PTL

\* The mutex is held on both sides of the wait.
THEOREM MutexHeldAroundWait == Spec => []WaitHoldsLock
<1>1. IInv => WaitHoldsLock
  BY DEF IInv
<1> QED
  BY <1>1, Invariance, PTL

\* A task finds no slot only when the capacity is exhausted.
THEOREM OverflowNeedsFullTable == Spec => []OverflowOnlyWhenFull
<1>1. IInv => OverflowOnlyWhenFull
  BY FullTable DEF OverflowOnlyWhenFull
<1> QED
  BY <1>1, Invariance, PTL

\* With at most kMaxWaitingThreads tasks the assertion never fails.
THEOREM EnoughSlots == Spec => []NoOverflow
<1>1. IInv => NoOverflow
  <2>1. Cardinality(Threads) \in Nat
    BY ThreadsAssumption, FS_CardinalityType
  <2> QED
    BY <2>1, CapacityAssumption DEF IInv, OverflowNeedsManyTasks, NoOverflow, Running
<1> QED
  BY <1>1, Invariance, PTL

-----------------------------------------------------------------------------
(* CondVarOpt implements CondVar: every step of the table, the critical    *)
(* section and the notifications is a step of the abstract condition       *)
(* variable, or changes nothing that its users can see.                    *)

\* A step that leaves a thread where the mapping does not look.
LEMMA SamePhase ==
  ASSUME \A u \in Threads :
           /\ pc'[u] \in {"exit", "blocked", "relock"} /\ queued'[u]
                <=> pc[u] \in {"exit", "blocked", "relock"} /\ queued[u]
           /\ pc'[u] = "dequeue" <=> pc[u] = "dequeue"
  PROVE  absPhase' = absPhase
BY DEF absPhase

\* A step that keeps the waiting tasks keeps their abstraction.
LEMMA SameWaiting ==
  ASSUME \A u \in Threads, d \in CVs :
           u \in absWaiting'[d] <=> u \in absWaiting[d]
  PROVE  absWaiting' = absWaiting
BY DEF absWaiting

\* Locking and unlocking are what they are.
LEMMA LockRefines ==
  ASSUME NEW t \in Threads, Lock(t) \/ Unlock(t)
  PROVE  CV!Lock(t) \/ CV!Unlock(t)
<1>1. absPhase[t] = "client"
  BY DEF absPhase, Lock, Unlock
<1>2. absPhase' = absPhase /\ absWaiting' = absWaiting
  BY DEF Lock, Unlock, absPhase, absWaiting, Registered, locals
<1> QED
  BY <1>1, <1>2 DEF Lock, Unlock, CV!Lock, CV!Unlock

\* The registration is not visible before the mutex is released.
LEMMA WaitRefines ==
  ASSUME IInv, NEW t \in Threads, NEW c \in CVs, NEW isTimed \in BOOLEAN,
         Wait(t, c, isTimed)
  PROVE  UNCHANGED <<mutex, absPhase, absWaiting>>
<1>0. TypeOK
  BY DEF IInv
<1>1. pc' = [pc EXCEPT ![t] = "release"] /\ pc[t] = "client"
      /\ cv' = [cv EXCEPT ![t] = c]
  BY DEF Wait
<1>2. \A u \in Threads : u # t => queued'[u] = queued[u]
  BY DEF Wait, IInv, TypeOK
<1>3. absPhase' = absPhase
  BY <1>1, <1>2, SamePhase DEF IInv, TypeOK
<1>4. \A u \in Threads, d \in CVs :
        u # t => (Registered(u, d)' <=> Registered(u, d))
  <2>1. \A d \in CVs, j \in Slots :
          tasks_waiting'[d][j] =
            IF d = c /\ FirstSlot(c, nullptr, j) THEN t ELSE tasks_waiting[d][j]
    <3>1. tasks_waiting' = [tasks_waiting EXCEPT ![c] = Overwritten(c, nullptr, t)]
      BY DEF Wait
    <3> QED
      BY <1>0, <3>1 DEF TypeOK, Overwritten
  <2> QED
    BY <2>1, NullAssumption DEF Registered, FirstSlot
<1>5. \A d \in CVs : ~Registered(t, d)
  BY <1>1, NullAssumption DEF IInv, TableSound, Registered, InWait
<1>6. \A n \in Threads : pc[n] # "notifyAll" /\ pc'[n] # "notifyAll"
  BY <1>1, NullAssumption DEF Wait, IInv, CriticalSection, TypeOK
<1>7. \A u \in Threads, d \in CVs : u \in absWaiting'[d] <=> u \in absWaiting[d]
  BY <1>1, <1>4, <1>5, <1>6 DEF absWaiting, IInv, TypeOK
<1>8. absWaiting' = absWaiting
  BY <1>7, SameWaiting
<1> QED
  BY <1>3, <1>8 DEF Wait

\* The unlock is the atomic beginning of the wait; without a slot it is just an
\* unlock, and the program stops next.
LEMMA UnlockInWaitRefines ==
  ASSUME IInv, NEW t \in Threads, UnlockInWait(t)
  PROVE  CV!Unlock(t) \/ CV!Wait(t, cv[t])
<1>1. /\ pc[t] = "release" /\ mutex = t /\ mutex' = nullptr
      /\ pc' = [pc EXCEPT ![t] = "exit"]
      /\ UNCHANGED <<tasks_waiting, cv, queued>>
      /\ cv[t] \in CVs
  BY DEF UnlockInWait, IInv, WaitHoldsLock, LocalsSound, locals
<1>2. absPhase[t] = "client"
  BY <1>1 DEF absPhase
<1>3. \A n \in Threads : pc[n] # "notifyAll" /\ pc'[n] # "notifyAll"
  BY <1>1, NullAssumption DEF IInv, CriticalSection, TypeOK
<1>4. \A u \in Threads, d \in CVs : Registered(u, d)' <=> Registered(u, d)
  BY <1>1 DEF Registered
<1>5. \A d \in CVs : Registered(t, d) => d = cv[t] /\ queued[t]
  BY NullAssumption DEF IInv, TableSound, Registered
<1>6. CASE ~queued[t]
  <2>1. absPhase' = absPhase
    BY <1>1, <1>6, SamePhase DEF IInv, TypeOK
  <2>2. absWaiting' = absWaiting
    BY <1>1, <1>3, <1>4, <1>5, <1>6 DEF absWaiting, IInv, TypeOK
  <2> QED
    BY <1>1, <1>2, <2>1, <2>2 DEF CV!Unlock
<1>7. CASE queued[t]
  <2>1. absPhase' = [absPhase EXCEPT ![t] = "wait"]
    BY <1>1, <1>7 DEF absPhase, IInv, TypeOK
  <2>2. Registered(t, cv[t])
    BY <1>1, <1>7 DEF IInv, Reachable
  <2>3. absWaiting' = [absWaiting EXCEPT ![cv[t]] = @ \cup {t}]
    <3>1. \A u \in Threads :
            pc'[u] # "release" <=> pc[u] # "release" \/ u = t
      BY <1>1 DEF IInv, TypeOK
    <3> QED
      BY <1>3, <1>4, <1>5, <2>2, <3>1 DEF absWaiting
  <2> QED
    BY <1>1, <1>2, <2>1, <2>3 DEF CV!Wait
<1> QED
  BY <1>6, <1>7

\* Leaving the critical section, waking up and timing out are not visible.
LEMMA SilentStepRefines ==
  ASSUME IInv, NEW t \in Threads,
         ExitCritical(t) \/ AssertFails(t) \/ NotifyWaitReturn(t)
           \/ NotifyWaitTimeout(t) \/ WaitExpired(t)
  PROVE  UNCHANGED <<mutex, absPhase, absWaiting>>
<1>1. /\ UNCHANGED <<mutex, tasks_waiting, cv, queued>>
      /\ \A u \in Threads \ {t} : pc'[u] = pc[u]
      /\ \/ pc'[t] = pc[t]
         \/ pc[t] = "exit" /\ pc'[t] = IF queued[t] THEN "blocked" ELSE "assert"
         \/ pc[t] = "assert" /\ pc'[t] = "aborted"
         \/ pc[t] = "blocked" /\ pc'[t] = "relock"
  BY DEF ExitCritical, AssertFails, NotifyWaitReturn, NotifyWaitTimeout, WaitExpired,
         locks, locals, IInv, TypeOK
<1>2. absPhase' = absPhase
  BY <1>1, SamePhase
<1>3. absWaiting' = absWaiting
  BY <1>1 DEF absWaiting, Registered
<1> QED
  BY <1>1, <1>2, <1>3

\* Relocking is the reacquisition.
LEMMA RelockRefines ==
  ASSUME IInv, NEW t \in Threads, Relock(t)
  PROVE  CV!Reacquire(t)
<1>1. absPhase[t] = "wait"
  BY DEF absPhase, Relock, IInv, LocalsSound
<1>2. absPhase' = [absPhase EXCEPT ![t] = "return"]
  BY DEF absPhase, Relock, IInv, TypeOK, locals
<1>3. absWaiting' = absWaiting
  BY DEF absWaiting, Registered, Relock, IInv, TypeOK, locals
<1> QED
  BY <1>1, <1>2, <1>3 DEF Relock, CV!Reacquire

\* The removal of one's own entry is the return.
LEMMA DequeueRefines ==
  ASSUME IInv, NEW t \in Threads, Dequeue(t)
  PROVE  CV!Return(t)
<1>0. TypeOK
  BY DEF IInv
<1>1. /\ pc[t] = "dequeue" /\ cv[t] \in CVs
      /\ pc' = [pc EXCEPT ![t] = "client"]
      /\ cv' = [cv EXCEPT ![t] = nullptr]
      /\ queued' = [queued EXCEPT ![t] = FALSE]
      /\ mutex' = mutex
  BY DEF Dequeue, IInv, LocalsSound, locks
<1>2. absPhase[t] = "return"
  BY <1>1 DEF absPhase
<1>3. absPhase' = [absPhase EXCEPT ![t] = "client"]
  BY <1>1 DEF absPhase, IInv, TypeOK
<1>4. \A n \in Threads : pc[n] # "notifyAll" /\ pc'[n] # "notifyAll"
  BY <1>1, NullAssumption DEF Dequeue, IInv, CriticalSection, TypeOK
<1>5. \A u \in Threads, d \in CVs :
        Registered(u, d)' <=> Registered(u, d) /\ u # t
  <2>1. \A d \in CVs, j \in Slots : tasks_waiting[d][j] = t => d = cv[t]
    BY NullAssumption DEF IInv, TableSound
  <2>2. \A d \in CVs, j \in Slots :
          tasks_waiting'[d][j] =
            IF d = cv[t] /\ FirstSlot(cv[t], t, j) THEN nullptr
                                                   ELSE tasks_waiting[d][j]
    <3>1. tasks_waiting' =
            [tasks_waiting EXCEPT ![cv[t]] = Overwritten(cv[t], t, nullptr)]
      BY DEF Dequeue
    <3> QED
      BY <1>0, <1>1, <3>1 DEF TypeOK, Overwritten
  <2>3. ASSUME NEW j \in Slots, tasks_waiting[cv[t]][j] = t
        PROVE  FirstSlot(cv[t], t, j)
    <3>1. PICK i \in Slots : FirstSlot(cv[t], t, i)
      BY <2>3, FirstSlotExists
    <3>2. i = j
      BY <1>1, <2>3, <3>1, NullAssumption DEF IInv, TableSound, FirstSlot
    <3> QED
      BY <3>1, <3>2
  <2> QED
    BY <2>1, <2>2, <2>3, NullAssumption DEF Registered, FirstSlot
<1>6. absWaiting' = [d \in CVs |-> absWaiting[d] \ {t}]
  BY <1>1, <1>4, <1>5 DEF absWaiting, IInv, TypeOK
<1> QED
  BY <1>1, <1>2, <1>3, <1>6 DEF CV!Return

\* notify_one takes out the one task it wakes.
LEMMA NotifyOneRefines ==
  ASSUME IInv, NEW t \in Threads, NEW c \in CVs, NotifyOne(t, c)
  PROVE  CV!NotifyOne(t, c)
<1>0. TypeOK
  BY DEF IInv
<1>1. /\ pc[t] = "client"
      /\ UNCHANGED <<mutex, pc, cv, queued>>
  BY DEF NotifyOne, locks, locals
<1>2. absPhase[t] = "client" /\ absPhase' = absPhase
  BY <1>1 DEF absPhase
<1>3. \A n \in Threads : pc[n] \notin {"release", "notifyAll"}
  BY NullAssumption DEF NotifyOne, IInv, CriticalSection
<1>4. PICK i \in Slots :
        /\ tasks_waiting[c][i] \in Threads
        /\ tasks_waiting' = [tasks_waiting EXCEPT ![c][i] = nullptr]
  <2>1. \A j \in Slots : tasks_waiting[c][j] \in Threads \cup {nullptr}
    BY <1>0 DEF TypeOK
  <2> QED
    BY <2>1 DEF NotifyOne, IsTarget
<1> DEFINE w == tasks_waiting[c][i]
<1>5. \A d \in CVs, j \in Slots :
        tasks_waiting'[d][j] =
          IF d = c /\ j = i THEN nullptr ELSE tasks_waiting[d][j]
  BY <1>0, <1>4 DEF TypeOK
<1>6. \A j \in Slots : tasks_waiting[c][j] = w => j = i
  BY <1>4, NullAssumption DEF IInv, TableSound
<1>7. \A u \in Threads, d \in CVs :
        Registered(u, d)' <=> Registered(u, d) /\ ~(d = c /\ u = w)
  BY <1>4, <1>5, <1>6, NullAssumption DEF Registered
<1>8. w \in absWaiting[c]
  BY <1>3, <1>4 DEF absWaiting, Registered
<1>9. absWaiting' = [absWaiting EXCEPT ![c] = @ \ {w}]
  BY <1>1, <1>3, <1>7 DEF absWaiting
<1> HIDE DEF w
<1> QED
  BY <1>1, <1>2, <1>8, <1>9 DEF CV!NotifyOne

\* notify_all takes effect when it enters the critical section.
LEMMA NotifyAllRefines ==
  ASSUME IInv, NEW t \in Threads, NEW c \in CVs, NotifyAll(t, c)
  PROVE  CV!NotifyAll(t, c)
<1>1. /\ pc[t] = "client"
      /\ pc' = [pc EXCEPT ![t] = "notifyAll"]
      /\ cv' = [cv EXCEPT ![t] = c]
      /\ UNCHANGED <<mutex, tasks_waiting, queued>>
  BY DEF NotifyAll
<1>2. absPhase[t] = "client"
  BY <1>1 DEF absPhase
<1>3. absPhase' = absPhase
  BY <1>1, SamePhase DEF IInv, TypeOK
<1>4. \A n \in Threads : pc[n] \notin {"release", "notifyAll"}
  BY NullAssumption DEF NotifyAll, IInv, CriticalSection
<1>5. \A u \in Threads, d \in CVs : Registered(u, d)' <=> Registered(u, d)
  BY <1>1 DEF Registered
<1>6. absWaiting' = [absWaiting EXCEPT ![c] = {}]
  BY <1>1, <1>4, <1>5 DEF absWaiting, IInv, TypeOK
<1> QED
  BY <1>1, <1>2, <1>3, <1>6 DEF CV!NotifyAll

\* The iterations only touch a table that already counts as empty.
LEMMA NotifyAllSlotRefines ==
  ASSUME IInv, NEW t \in Threads, NotifyAllSlot(t)
  PROVE  UNCHANGED <<mutex, absPhase, absWaiting>>
<1>0. TypeOK
  BY DEF IInv
<1>1. /\ pc[t] = "notifyAll" /\ cv[t] \in CVs /\ scan \in Slots
      /\ UNCHANGED <<mutex, pc, cv, queued>>
  BY CapacityAssumption
  DEF NotifyAllSlot, ScanDone, IInv, TypeOK, LocalsSound, locks, locals, Slots
<1>2. absPhase' = absPhase
  BY <1>1 DEF absPhase
<1>3. \A d \in CVs, j \in Slots :
        d # cv[t] => tasks_waiting'[d][j] = tasks_waiting[d][j]
  BY <1>0, <1>1 DEF NotifyAllSlot, TypeOK
<1>4. \A u \in Threads, d \in CVs : u \in absWaiting'[d] <=> u \in absWaiting[d]
  BY <1>1, <1>3 DEF absWaiting, Registered
<1> QED
  BY <1>1, <1>2, <1>4, SameWaiting

\* At its end notify_all has emptied the table.
LEMMA NotifyAllExitRefines ==
  ASSUME IInv, NEW t \in Threads, NotifyAllExit(t)
  PROVE  UNCHANGED <<mutex, absPhase, absWaiting>>
<1>1. /\ pc[t] = "notifyAll"
      /\ pc' = [pc EXCEPT ![t] = "client"]
      /\ cv' = [cv EXCEPT ![t] = nullptr]
      /\ UNCHANGED <<mutex, tasks_waiting, queued>>
  BY DEF NotifyAllExit
<1>2. absPhase' = absPhase
  BY <1>1, SamePhase DEF IInv, TypeOK
<1>3. \A j \in Slots : tasks_waiting[cv[t]][j] = nullptr
  BY CapacityAssumption DEF NotifyAllExit, ScanDone, IInv, NotifyAllSwept, Slots
<1>4. \A n \in Threads : n # t => pc[n] # "notifyAll"
  BY <1>1, NullAssumption DEF IInv, CriticalSection
<1>5. \A u \in Threads, d \in CVs : u \in absWaiting'[d] <=> u \in absWaiting[d]
  BY <1>1, <1>3, <1>4, NullAssumption DEF absWaiting, Registered, IInv, TypeOK
<1> QED
  BY <1>1, <1>2, <1>5, SameWaiting

\* The optimized condition variable keeps the promise of CondVar.
THEOREM Refinement == Spec => ImplementsCondVar
<1>1. Init => CV!Init
  BY NullAssumption
  DEF Init, CV!Init, absPhase, absWaiting, Registered
<1>2. IInv /\ [Next]_vars => [CV!Next]_(CV!vars)
  <2> SUFFICES ASSUME IInv, [Next]_vars PROVE [CV!Next]_(CV!vars)
    OBVIOUS
  <2> USE DEF CV!vars
  <2>1. CASE UNCHANGED vars
    BY <2>1 DEF vars, absPhase, absWaiting, Registered
  <2>2. ASSUME NEW t \in Threads, Lock(t) \/ Unlock(t)
        PROVE  CV!Next
    BY <2>2, LockRefines DEF CV!Next
  <2>3. ASSUME NEW t \in Threads, NEW c \in CVs, NEW isTimed \in BOOLEAN,
               Wait(t, c, isTimed)
        PROVE  UNCHANGED CV!vars
    BY <2>3, WaitRefines
  <2>4. ASSUME NEW t \in Threads, NEW c \in CVs,
               NotifyOne(t, c) \/ NotifyAll(t, c)
        PROVE  CV!Next
    BY <2>4, NotifyOneRefines, NotifyAllRefines DEF CV!Next
  <2>5. ASSUME NEW t \in Threads, WaitExpired(t)
        PROVE  UNCHANGED CV!vars
    BY <2>5, SilentStepRefines
  <2>6. ASSUME NEW t \in Threads, Internal(t)
        PROVE  [CV!Next]_(CV!vars)
    <3>1. CASE UnlockInWait(t)
      <4>1. cv[t] \in CVs
        BY <3>1 DEF UnlockInWait, IInv, LocalsSound
      <4> QED
        BY <3>1, <4>1, UnlockInWaitRefines DEF CV!Next
    <3>2. CASE ExitCritical(t) \/ AssertFails(t) \/ NotifyWaitReturn(t)
                  \/ NotifyWaitTimeout(t)
      BY <3>2, SilentStepRefines
    <3>3. CASE Relock(t) \/ Dequeue(t)
      BY <3>3, RelockRefines, DequeueRefines DEF CV!Next
    <3>4. CASE NotifyAllSlot(t) \/ NotifyAllExit(t)
      BY <3>4, NotifyAllSlotRefines, NotifyAllExitRefines
    <3> QED
      BY <2>6, <3>1, <3>2, <3>3, <3>4 DEF Internal
  <2> QED
    BY <2>1, <2>2, <2>3, <2>4, <2>5, <2>6 DEF Next
<1> QED
  BY <1>1, <1>2, Invariance, PTL DEF Spec, CV!Spec, ImplementsCondVar
=============================================================================
