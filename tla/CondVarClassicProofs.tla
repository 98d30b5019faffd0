------------------------ MODULE CondVarClassicProofs ------------------------
(***************************************************************************)
(* Theorems about CondVarClassic, for any finite set of threads and any    *)
(* semaphore that can hold a token for each of them.                       *)
(***************************************************************************)
EXTENDS CondVarClassic, FiniteSetTheorems, TLAPS

\* The cardinalities that the invariant compares are natural numbers.
LEMMA UnresolvedFinite ==
  /\ IsFiniteSet(Unresolved)
  /\ Cardinality(Unresolved) \in Nat
  /\ Cardinality(Unresolved) =< kMaxTokens
<1>1. Unresolved \in SUBSET Threads
  BY DEF Unresolved
<1>2. /\ IsFiniteSet(Unresolved)
      /\ Cardinality(Unresolved) =< Cardinality(Threads)
  BY <1>1, ThreadsAssumption, FS_Subset
<1>3. Cardinality(Unresolved) \in Nat /\ Cardinality(Threads) \in Nat
  BY <1>2, ThreadsAssumption, FS_CardinalityType
<1> QED
  BY <1>2, <1>3, TokensAssumption, BoundsAssumption

\* A step that adds a thread to the unresolved ones, or takes one away.
LEMMA UnresolvedAdded ==
  ASSUME NEW t \in Threads, t \notin Unresolved, Unresolved' = Unresolved \cup {t}
  PROVE  Cardinality(Unresolved)' = Cardinality(Unresolved) + 1
BY UnresolvedFinite, FS_AddElement

\* One unresolved wait less.
LEMMA UnresolvedRemoved ==
  ASSUME NEW t \in Threads, t \in Unresolved, Unresolved' = Unresolved \ {t}
  PROVE  Cardinality(Unresolved)' = Cardinality(Unresolved) - 1
BY UnresolvedFinite, FS_RemoveElement

\* Every step keeps the type of every variable.
LEMMA TypeStep == IInv /\ [Next]_vars => TypeOK'
<1> SUFFICES ASSUME IInv, [Next]_vars PROVE TypeOK'
  OBVIOUS
<1> USE BoundsAssumption DEF IInv, TypeOK
<1>1. ASSUME NEW t \in Threads, Lock(t) \/ Unlock(t) \/ Relock(t)
      PROVE  TypeOK'
  BY <1>1 DEF Lock, Unlock, Relock
<1>2. ASSUME NEW t \in Threads, NEW isTimed \in BOOLEAN, Wait(t, isTimed)
      PROVE  TypeOK'
  BY <1>2 DEF Wait
<1>3. ASSUME NEW t \in Threads, UnlockInWait(t) \/ ExitGuard(t) \/ Uncount(t)
      PROVE  TypeOK'
  BY <1>3 DEF UnlockInWait, ExitGuard, Uncount
<1>4. ASSUME NEW t \in Threads, Acquire(t) \/ AcquireTimeout(t)
      PROVE  TypeOK'
  <2>1. CASE Acquire(t)
    <3>1. waitlist_' \in 0 .. kMaxTokens
      BY <2>1 DEF Acquire
    <3> QED
      BY <2>1, <3>1 DEF Acquire
  <2>2. CASE AcquireTimeout(t)
    BY <2>2 DEF AcquireTimeout
  <2> QED
    BY <1>4, <2>1, <2>2
<1>5. ASSUME NEW t \in Threads, NotifyOne(t) \/ NotifyAll(t)
      PROVE  TypeOK'
  BY <1>5 DEF NotifyOne, NotifyAll, Release
<1>6. ASSUME NEW t \in Threads, NotifyAllRelease(t) \/ NotifyAllExit(t)
      PROVE  TypeOK'
  BY <1>6 DEF NotifyAllRelease, NotifyAllExit, Release
<1>7. CASE UNCHANGED vars
  BY <1>7 DEF vars
<1> QED
  BY <1>1, <1>2, <1>3, <1>4, <1>5, <1>6, <1>7 DEF Next

\* The locks and the loop index: what every step keeps besides the cover.
LEMMA LocksStep ==
  ASSUME IInv, [Next]_vars, TypeOK'
  PROVE  InternalMutex' /\ ScanOfNotifyAll' /\ WaitHoldsLock'
<1> USE NullAssumption
    DEF IInv, TypeOK, InternalMutex, ScanOfNotifyAll, WaitHoldsLock
<1>1. ASSUME NEW t \in Threads, Lock(t) \/ Unlock(t) \/ Relock(t)
      PROVE  InternalMutex' /\ ScanOfNotifyAll' /\ WaitHoldsLock'
  BY <1>1 DEF Lock, Unlock, Relock
<1>2. ASSUME NEW t \in Threads, NEW isTimed \in BOOLEAN, Wait(t, isTimed)
      PROVE  InternalMutex' /\ ScanOfNotifyAll' /\ WaitHoldsLock'
  BY <1>2 DEF Wait
<1>3. ASSUME NEW t \in Threads, UnlockInWait(t) \/ ExitGuard(t) \/ Uncount(t)
      PROVE  InternalMutex' /\ ScanOfNotifyAll' /\ WaitHoldsLock'
  BY <1>3 DEF UnlockInWait, ExitGuard, Uncount
<1>4. ASSUME NEW t \in Threads, Acquire(t) \/ AcquireTimeout(t)
      PROVE  InternalMutex' /\ ScanOfNotifyAll' /\ WaitHoldsLock'
  BY <1>4 DEF Acquire, AcquireTimeout
<1>5. ASSUME NEW t \in Threads, NotifyOne(t) \/ NotifyAll(t)
      PROVE  InternalMutex' /\ ScanOfNotifyAll' /\ WaitHoldsLock'
  BY <1>5 DEF NotifyOne, NotifyAll
<1>6. ASSUME NEW t \in Threads, NotifyAllRelease(t) \/ NotifyAllExit(t)
      PROVE  InternalMutex' /\ ScanOfNotifyAll' /\ WaitHoldsLock'
  BY <1>6 DEF NotifyAllRelease, NotifyAllExit
<1>7. CASE UNCHANGED vars
  BY <1>7 DEF vars
<1> QED
  BY <1>1, <1>2, <1>3, <1>4, <1>5, <1>6, <1>7 DEF Next

\* The cover is kept: the heart of the invariant.
LEMMA CoverStep ==
  ASSUME IInv, [Next]_vars, TypeOK'
  PROVE  Cover'
<1> DEFINE n == Cardinality(Unresolved)
<1>0. n \in Nat /\ n =< kMaxTokens
  BY UnresolvedFinite
<1> USE NullAssumption, BoundsAssumption
<1>a. ASSUME Unresolved' = Unresolved,
             waitlist_' + waitcount_' - scan' >= waitlist_ + waitcount_ - scan
      PROVE  Cover'
  <2> DEFINE sum == waitlist_ + waitcount_ - scan
  <2>1. n' = n /\ sum' >= sum /\ n =< sum
    BY <1>a DEF Cover, IInv
  <2>2. sum \in Int /\ sum' \in Int
    BY DEF IInv, TypeOK
  <2> HIDE DEF sum
  <2>3. n' =< sum'
    BY <1>0, <2>1, <2>2
  <2> QED
    BY <2>3 DEF Cover, sum
<1>1. ASSUME NEW t \in Threads, Lock(t) \/ Unlock(t)
      PROVE  Cover'
  BY <1>1 DEF Lock, Unlock, Unresolved, Cover, IInv
<1>2. ASSUME NEW t \in Threads, NEW isTimed \in BOOLEAN, Wait(t, isTimed)
      PROVE  Cover'
  <2>1. t \notin Unresolved /\ Unresolved' = Unresolved \cup {t}
    BY <1>2 DEF Wait, Unresolved, IInv, TypeOK
  <2>2. n' = n + 1
    BY <2>1, UnresolvedAdded
  <2> QED
    BY <1>0, <1>2, <2>2 DEF Wait, Cover, IInv, TypeOK
<1>3. ASSUME NEW t \in Threads,
             UnlockInWait(t) \/ ExitGuard(t) \/ AcquireTimeout(t)
      PROVE  Cover'
  <2>1. Unresolved' = Unresolved
    BY <1>3 DEF UnlockInWait, ExitGuard, AcquireTimeout, Unresolved, IInv, TypeOK
  <2> QED
    BY <1>3, <2>1 DEF UnlockInWait, ExitGuard, AcquireTimeout, Cover, IInv
<1>4. ASSUME NEW t \in Threads, Acquire(t)
      PROVE  Cover'
  <2>1. t \in Unresolved /\ Unresolved' = Unresolved \ {t}
    BY <1>4 DEF Acquire, Unresolved, IInv, TypeOK
  <2>2. n' = n - 1
    BY <2>1, UnresolvedRemoved
  <2> QED
    BY <1>0, <1>4, <2>2 DEF Acquire, Cover, IInv, TypeOK
<1>5. ASSUME NEW t \in Threads, Relock(t)
      PROVE  Cover'
  <2>1. Unresolved' = Unresolved
    BY <1>5 DEF Relock, Unresolved, IInv, TypeOK
  <2> QED
    BY <1>5, <2>1 DEF Relock, Cover, IInv
<1>6. ASSUME NEW t \in Threads, Uncount(t)
      PROVE  Cover'
  <2>1. t \in Unresolved /\ Unresolved' = Unresolved \ {t}
    BY <1>6 DEF Uncount, Unresolved, IInv, TypeOK
  <2>2. n' = n - 1
    BY <2>1, UnresolvedRemoved
  <2> QED
    BY <1>0, <1>6, <2>2 DEF Uncount, Cover, IInv, TypeOK
<1>7. ASSUME NEW t \in Threads, NotifyOne(t)
      PROVE  Cover'
  <2>1. Unresolved' = Unresolved
    BY <1>7 DEF NotifyOne, Unresolved
  <2>2. scan = 0
    BY <1>7 DEF NotifyOne, IInv, TypeOK, InternalMutex, ScanOfNotifyAll
  <2>3. CASE waitlist_ < kMaxTokens
    BY <1>a, <1>7, <2>1, <2>2, <2>3 DEF NotifyOne, Release, IInv, TypeOK
  <2>4. CASE waitlist_ >= kMaxTokens
    BY <1>0, <1>7, <2>1, <2>2, <2>4
    DEF NotifyOne, Release, Cover, IInv, TypeOK
  <2> QED
    BY <2>3, <2>4 DEF IInv, TypeOK
<1>8. ASSUME NEW t \in Threads, NotifyAll(t)
      PROVE  Cover'
  <2>1. Unresolved' = Unresolved
    BY <1>8 DEF NotifyAll, Unresolved, IInv, TypeOK
  <2> QED
    BY <1>8, <2>1 DEF NotifyAll, Cover, IInv
<1>9. ASSUME NEW t \in Threads, NotifyAllRelease(t)
      PROVE  Cover'
  <2>1. Unresolved' = Unresolved
    BY <1>9 DEF NotifyAllRelease, Unresolved
  <2>2. CASE waitlist_ < kMaxTokens
    BY <1>a, <1>9, <2>1, <2>2 DEF NotifyAllRelease, Release, IInv, TypeOK
  <2>3. CASE waitlist_ >= kMaxTokens
    BY <1>0, <1>9, <2>1, <2>3
    DEF NotifyAllRelease, Release, Cover, IInv, TypeOK
  <2> QED
    BY <2>2, <2>3 DEF IInv, TypeOK
<1>10. ASSUME NEW t \in Threads, NotifyAllExit(t)
       PROVE  Cover'
  <2>1. Unresolved' = Unresolved
    BY <1>10 DEF NotifyAllExit, Unresolved, IInv, TypeOK
  <2> QED
    BY <1>a, <1>10, <2>1 DEF NotifyAllExit, IInv, TypeOK
<1>11. CASE UNCHANGED vars
  BY <1>11 DEF vars, Unresolved, Cover, IInv
<1> QED
  BY <1>1, <1>2, <1>3, <1>4, <1>5, <1>6, <1>7, <1>8, <1>9, <1>10, <1>11 DEF Next

\* Every reachable state satisfies the inductive invariant.
THEOREM Invariance == Spec => []IInv
<1>1. Init => IInv
  <2> SUFFICES ASSUME Init PROVE IInv
    OBVIOUS
  <2>1. Unresolved = {}
    BY DEF Init, Unresolved
  <2>2. Cover
    BY <2>1, FS_EmptySet DEF Init, Cover
  <2> QED
    BY <2>2, NullAssumption, BoundsAssumption
    DEF Init, IInv, TypeOK, InternalMutex, ScanOfNotifyAll, WaitHoldsLock
<1>2. IInv /\ [Next]_vars => IInv'
  BY TypeStep, LocksStep, CoverStep DEF IInv
<1> QED
  BY <1>1, <1>2, PTL DEF Spec

\* Every variable keeps its type.
THEOREM TypeCorrectness == Spec => []TypeOK
<1>1. IInv => TypeOK
  BY DEF IInv
<1> QED
  BY <1>1, Invariance, PTL

\* No notification is refused while a thread sleeps without a token.
THEOREM NotificationReaches == Spec => []NotifyReaches
<1>1. IInv => NotifyReaches
  <2> SUFFICES ASSUME IInv, Cardinality(Sleeping) > waitlist_
               PROVE  waitcount_ > scan
    BY DEF NotifyReaches
  <2>1. Sleeping \in SUBSET Unresolved
    BY DEF Sleeping, Unresolved
  <2>2. IsFiniteSet(Sleeping) /\ Cardinality(Sleeping) =< Cardinality(Unresolved)
    BY <2>1, UnresolvedFinite, FS_Subset
  <2>3. Cardinality(Sleeping) \in Nat /\ Cardinality(Unresolved) \in Nat
    BY <2>2, UnresolvedFinite, FS_CardinalityType
  <2> QED
    BY <2>2, <2>3 DEF IInv, TypeOK, Cover
<1> QED
  BY <1>1, Invariance, PTL

\* The mutex is held on both sides of a wait.
THEOREM MutexHeldAroundWait == Spec => []WaitHoldsLock
<1>1. IInv => WaitHoldsLock
  BY DEF IInv
<1> QED
  BY <1>1, Invariance, PTL
=============================================================================
