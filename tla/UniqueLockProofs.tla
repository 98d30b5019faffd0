-------------------------- MODULE UniqueLockProofs --------------------------
(***************************************************************************)
(* Theorems about UniqueLock, for any sets of threads, mutexes and lock    *)
(* objects, in every backend.                                               *)
(***************************************************************************)
EXTENDS UniqueLock, TLAPS

\* A thread that locks a free mutex becomes its owner.
LEMMA DirectLockStep ==
  ASSUME IInv, UNCHANGED backend,
         NEW t \in Threads, NEW m \in Mutexes, DirectLock(t, m)
  PROVE  IInv'
<1> USE NullAssumption, NoneAssumption, OwnerAssumption
    DEF IInv, TypeOK, singlethreaded, DirectLock, Acquire
<1>1. TypeOK'
  OBVIOUS
<1>2. OwnsSomething'
  BY DEF OwnsSomething
<1>3. ASSUME ~singlethreaded
      PROVE  Sound'
  <2> USE <1>3 DEF Sound
  <2>1. LocksSound'
    BY DEF OwnsSomething, LocksSound, DirectSound, Owning
  <2>2. DirectSound'
    BY DEF OwnsSomething, LocksSound, DirectSound, Owning
  <2>3. HolderSound'
    BY DEF OwnsSomething, LocksSound, DirectSound, HolderSound, Owning
  <2> QED
    BY <2>1, <2>2, <2>3
<1> QED
  BY <1>1, <1>2, <1>3

\* A thread that unlocks is the holder, so the mutex becomes free.
LEMMA DirectUnlockStep ==
  ASSUME IInv, UNCHANGED backend,
         NEW t \in Threads, NEW m \in Mutexes, DirectUnlock(t, m)
  PROVE  IInv'
<1> USE NullAssumption, NoneAssumption, OwnerAssumption
    DEF IInv, TypeOK, singlethreaded, DirectUnlock, Give
<1>1. TypeOK'
  OBVIOUS
<1>2. OwnsSomething'
  BY DEF OwnsSomething
<1>3. ASSUME ~singlethreaded
      PROVE  Sound'
  <2> USE <1>3 DEF Sound
  <2>1. LocksSound'
    BY DEF OwnsSomething, LocksSound, DirectSound, Owning
  <2>2. DirectSound'
    BY DEF OwnsSomething, LocksSound, DirectSound, Owning
  <2>3. HolderSound'
    BY DEF OwnsSomething, LocksSound, DirectSound, HolderSound, Owning
  <2> QED
    BY <2>1, <2>2, <2>3
<1> QED
  BY <1>1, <1>2, <1>3

\* A dead object owns nothing that could be forgotten.
LEMMA ConstructUnownedStep ==
  ASSUME IInv, UNCHANGED backend,
         NEW l \in Locks, NEW m \in Mutexes \cup {nullptr}, ConstructUnowned(l, m)
  PROVE  IInv'
<1> USE NullAssumption, NoneAssumption, OwnerAssumption
    DEF IInv, TypeOK, singlethreaded, ConstructUnowned, Set, Dead
<1>1. TypeOK'
  OBVIOUS
<1>2. OwnsSomething'
  BY DEF OwnsSomething
<1>3. ASSUME ~singlethreaded
      PROVE  Sound'
  <2> USE <1>3 DEF Sound
  <2>1. LocksSound'
    BY DEF OwnsSomething, LocksSound, DirectSound, Owning
  <2>2. DirectSound'
    BY DEF OwnsSomething, LocksSound, DirectSound, Owning
  <2>3. HolderSound'
    BY DEF OwnsSomething, LocksSound, DirectSound, HolderSound, Owning
  <2> QED
    BY <2>1, <2>2, <2>3
<1> QED
  BY <1>1, <1>2, <1>3

\* The mutex was free, so it had no other owner.
LEMMA ConstructLockedStep ==
  ASSUME IInv, UNCHANGED backend,
         NEW l \in Locks, NEW m \in Mutexes, ConstructLocked(l, m)
  PROVE  IInv'
<1> USE NullAssumption, NoneAssumption, OwnerAssumption
    DEF IInv, TypeOK, singlethreaded, ConstructLocked, Set, Dead, Acquire
<1>1. TypeOK'
  OBVIOUS
<1>2. OwnsSomething'
  BY DEF OwnsSomething
<1>3. ASSUME ~singlethreaded
      PROVE  Sound'
  <2> USE <1>3 DEF Sound
  <2>1. LocksSound'
    <3>1. \A x \in Locks, k \in Mutexes :
            Owning(x, k)' <=> (x = l /\ k = m) \/ (x # l /\ Owning(x, k))
      BY DEF OwnsSomething, Owning
    <3>2. ASSUME NEW x \in Locks, Owning(x, m)
          PROVE  FALSE
      <4>1. holder[m] = Owner[x] /\ Owner[x] \in Threads
        BY <3>2 DEF LocksSound
      <4>2. holder[m] = nullptr
        OBVIOUS
      <4> QED
        BY <4>1, <4>2
    <3>3. \A t \in Threads : m \notin direct[t]
      BY DEF DirectSound
    <3> QED
      BY <3>1, <3>2, <3>3 DEF LocksSound
  <2>2. DirectSound'
    BY DEF OwnsSomething, LocksSound, DirectSound, Owning
  <2>3. HolderSound'
    BY DEF OwnsSomething, LocksSound, DirectSound, HolderSound, Owning
  <2> QED
    BY <2>1, <2>2, <2>3
<1> QED
  BY <1>1, <1>2, <1>3

\* The same, and nothing if the mutex was held.
LEMMA ConstructTryStep ==
  ASSUME IInv, UNCHANGED backend,
         NEW l \in Locks, NEW m \in Mutexes, ConstructTry(l, m)
  PROVE  IInv'
<1> USE NullAssumption, NoneAssumption, OwnerAssumption
    DEF IInv, TypeOK, singlethreaded, ConstructTry, Set, Dead, Acquire, TryFails
<1>1. TypeOK'
  <2>1. holder' \in [Mutexes -> Threads \cup {nullptr}]
    OBVIOUS
  <2>2. /\ lock_' \in [Locks -> Mutexes \cup {nullptr, none}]
        /\ owns_' \in [Locks -> BOOLEAN]
    OBVIOUS
  <2> QED
    BY <2>1, <2>2
<1>2. OwnsSomething'
  BY DEF OwnsSomething
<1>3. ASSUME ~singlethreaded
      PROVE  Sound'
  <2> USE <1>3 DEF Sound
  <2>1. LocksSound'
    BY DEF OwnsSomething, LocksSound, DirectSound, Owning
  <2>2. DirectSound'
    BY DEF OwnsSomething, LocksSound, DirectSound, Owning
  <2>3. HolderSound'
    BY DEF OwnsSomething, LocksSound, DirectSound, HolderSound, Owning
  <2> QED
    BY <2>1, <2>2, <2>3
<1> QED
  BY <1>1, <1>2, <1>3

\* Ownership passes from the thread to its lock object.
LEMMA ConstructAdoptStep ==
  ASSUME IInv, UNCHANGED backend,
         NEW l \in Locks, NEW m \in Mutexes, ConstructAdopt(l, m)
  PROVE  IInv'
<1> USE NullAssumption, NoneAssumption, OwnerAssumption
    DEF IInv, TypeOK, singlethreaded, ConstructAdopt, Set, Dead
<1>1. TypeOK'
  OBVIOUS
<1>2. OwnsSomething'
  BY DEF OwnsSomething
<1>3. ASSUME ~singlethreaded
      PROVE  Sound'
  <2> USE <1>3 DEF Sound
  <2>1. LocksSound'
    <3>1. \A x \in Locks, k \in Mutexes :
            Owning(x, k)' <=> (x = l /\ k = m) \/ (x # l /\ Owning(x, k))
      BY DEF OwnsSomething, Owning
    <3>2. \A x \in Locks : ~Owning(x, m)
      BY DEF LocksSound
    <3>3. \A t \in Threads, k \in Mutexes :
            k \in direct'[t] <=> k \in direct[t] /\ ~(t = Owner[l] /\ k = m)
      OBVIOUS
    <3>4. holder[m] = Owner[l] /\ holder' = holder
      BY DEF DirectSound
    <3>5. \A t \in Threads : m \notin direct'[t]
      BY <3>3, <3>4 DEF DirectSound
    <3> QED
      BY <3>1, <3>2, <3>3, <3>4, <3>5 DEF LocksSound
  <2>2. DirectSound'
    BY DEF OwnsSomething, LocksSound, DirectSound, Owning
  <2>3. HolderSound'
    BY DEF OwnsSomething, LocksSound, DirectSound, HolderSound, Owning
  <2> QED
    BY <2>1, <2>2, <2>3
<1> QED
  BY <1>1, <1>2, <1>3

\* What a dying object owns is unlocked.
LEMMA DestroyStep ==
  ASSUME IInv, UNCHANGED backend,
         NEW l \in Locks, Destroy(l)
  PROVE  IInv'
<1> USE NullAssumption, NoneAssumption, OwnerAssumption
    DEF IInv, TypeOK, singlethreaded, Destroy, Set, Dead, GiveIfOwned, Give
<1>1. TypeOK'
  OBVIOUS
<1>2. OwnsSomething'
  BY DEF OwnsSomething
<1>3. ASSUME ~singlethreaded
      PROVE  Sound'
  <2> USE <1>3 DEF Sound
  <2>1. LocksSound'
    BY DEF OwnsSomething, LocksSound, DirectSound, Owning
  <2>2. DirectSound'
    BY DEF OwnsSomething, LocksSound, DirectSound, Owning
  <2>3. HolderSound'
    BY DEF OwnsSomething, LocksSound, DirectSound, HolderSound, Owning
  <2> QED
    BY <2>1, <2>2, <2>3
<1> QED
  BY <1>1, <1>2, <1>3

\* Ownership passes between two objects of the same thread.
LEMMA MoveConstructStep ==
  ASSUME IInv, UNCHANGED backend,
         NEW l \in Locks, NEW other \in Locks, MoveConstruct(l, other)
  PROVE  IInv'
<1> USE NullAssumption, NoneAssumption, OwnerAssumption
    DEF IInv, TypeOK, singlethreaded, MoveConstruct, Moved, Dead
<1>1. TypeOK'
  OBVIOUS
<1>2. OwnsSomething'
  BY DEF OwnsSomething
<1>3. ASSUME ~singlethreaded
      PROVE  Sound'
  <2> USE <1>3 DEF Sound
  <2>1. LocksSound'
    BY DEF OwnsSomething, LocksSound, DirectSound, Owning
  <2>2. DirectSound'
    BY DEF OwnsSomething, LocksSound, DirectSound, Owning
  <2>3. HolderSound'
    BY DEF OwnsSomething, LocksSound, DirectSound, HolderSound, Owning
  <2> QED
    BY <2>1, <2>2, <2>3
<1> QED
  BY <1>1, <1>2, <1>3

\* What the left side owned is unlocked before it takes over.
LEMMA MoveAssignStep ==
  ASSUME IInv, UNCHANGED backend,
         NEW l \in Locks, NEW other \in Locks, MoveAssign(l, other)
  PROVE  IInv'
<1> USE NullAssumption, NoneAssumption, OwnerAssumption DEF IInv, TypeOK, singlethreaded
<1>1. TypeOK'
  <2>1. holder' \in [Mutexes -> Threads \cup {nullptr}]
    BY DEF MoveAssign, GiveIfOwned, Give
  <2>2. /\ lock_' \in [Locks -> Mutexes \cup {nullptr, none}]
        /\ owns_' \in [Locks -> BOOLEAN]
    BY DEF MoveAssign, Set, Moved
  <2> QED
    BY <2>1, <2>2 DEF MoveAssign
<1>2. OwnsSomething'
  <2>1. CASE l = other
    BY <2>1 DEF OwnsSomething, MoveAssign, Set
  <2>2. CASE l # other
    <3>1. \A x \in Locks :
            /\ lock_'[x] = IF x = l THEN lock_[other]
                                    ELSE IF x = other THEN nullptr ELSE lock_[x]
            /\ owns_'[x] = IF x = l THEN owns_[other]
                                    ELSE x # other /\ owns_[x]
      <4>1. Moved(l, other)
        BY <2>2 DEF MoveAssign
      <4> HIDE DEF IInv, TypeOK
      <4>2. lock_ \in [Locks -> Mutexes \cup {nullptr, none}]
            /\ owns_ \in [Locks -> BOOLEAN]
        BY DEF IInv, TypeOK
      <4> QED
        BY <2>2, <4>1, <4>2 DEF Moved
    <3> QED
      BY <3>1 DEF OwnsSomething
  <2> QED
    BY <2>1, <2>2
<1>3. ASSUME ~singlethreaded
      PROVE  Sound'
  <2> USE <1>3 DEF Sound
  <2>1. \A k \in Mutexes :
          holder'[k] = IF Owning(l, k) THEN nullptr ELSE holder[k]
    BY DEF MoveAssign, GiveIfOwned, Give, OwnsSomething, LocksSound, Owning
  <2>2. \A x \in Locks, k \in Mutexes :
          Owning(x, k)' <=> \/ x = l /\ l # other /\ Owning(other, k)
                            \/ x # l /\ x # other /\ Owning(x, k)
    <3>1. CASE l = other
      BY <3>1 DEF MoveAssign, Set, Owning
    <3>2. CASE l # other
      BY <3>2 DEF MoveAssign, Moved, Owning
    <3> QED
      BY <3>1, <3>2
  <2>3. direct' = direct /\ Owner[l] = Owner[other]
    BY DEF MoveAssign
  <2>4. LocksSound'
    BY <2>1, <2>2, <2>3 DEF LocksSound
  <2>5. DirectSound'
    BY <2>1, <2>3 DEF LocksSound, DirectSound
  <2>6. HolderSound'
    <3> SUFFICES ASSUME NEW m \in Mutexes, holder'[m] # nullptr
                 PROVE  \/ \E x \in Locks : Owning(x, m)'
                        \/ \E t \in Threads : m \in direct'[t]
      BY DEF HolderSound
    <3>1. holder[m] # nullptr /\ ~Owning(l, m)
      BY <2>1
    <3>2. CASE Owning(other, m)
      BY <3>1, <3>2, <2>2
    <3>3. CASE ~Owning(other, m)
      BY <3>1, <3>3, <2>2, <2>3 DEF HolderSound
    <3> QED
      BY <3>2, <3>3
  <2> QED
    BY <2>4, <2>5, <2>6
<1> QED
  BY <1>1, <1>2, <1>3

\* The mutex was free, so it had no other owner.
LEMMA LockStep ==
  ASSUME IInv, UNCHANGED backend,
         NEW l \in Locks, Lock(l)
  PROVE  IInv'
<1> USE NullAssumption, NoneAssumption, OwnerAssumption
    DEF IInv, TypeOK, singlethreaded, Lock, Set, Acquire
<1>1. TypeOK'
  <2>1. holder' \in [Mutexes -> Threads \cup {nullptr}]
    OBVIOUS
  <2>2. lock_' \in [Locks -> Mutexes \cup {nullptr, none}]
    OBVIOUS
  <2>3. owns_' \in [Locks -> BOOLEAN]
    OBVIOUS
  <2> QED
    BY <2>1, <2>2, <2>3
<1>2. OwnsSomething'
  BY DEF OwnsSomething
<1>3. ASSUME ~singlethreaded
      PROVE  Sound'
  <2> USE <1>3 DEF Sound
  <2>1. LocksSound'
    <3>1. \A x \in Locks, k \in Mutexes :
            Owning(x, k)' <=> (x = l /\ k = lock_[l]) \/ (x # l /\ Owning(x, k))
      BY DEF OwnsSomething, Owning
    <3>2. ASSUME NEW x \in Locks, Owning(x, lock_[l])
          PROVE  FALSE
      <4>1. holder[lock_[l]] = Owner[x] /\ Owner[x] \in Threads
        BY <3>2 DEF LocksSound
      <4>2. holder[lock_[l]] = nullptr
        OBVIOUS
      <4> QED
        BY <4>1, <4>2
    <3>3. \A t \in Threads : lock_[l] \notin direct[t]
      BY DEF DirectSound
    <3> QED
      BY <3>1, <3>2, <3>3 DEF LocksSound
  <2>2. DirectSound'
    BY DEF OwnsSomething, LocksSound, DirectSound, Owning
  <2>3. HolderSound'
    BY DEF OwnsSomething, LocksSound, DirectSound, HolderSound, Owning
  <2> QED
    BY <2>1, <2>2, <2>3
<1> QED
  BY <1>1, <1>2, <1>3

\* A lock object that unlocks is the only owner.
LEMMA UnlockStep ==
  ASSUME IInv, UNCHANGED backend,
         NEW l \in Locks, Unlock(l)
  PROVE  IInv'
<1> USE NullAssumption, NoneAssumption, OwnerAssumption
    DEF IInv, TypeOK, singlethreaded, Unlock, Set, Give
<1>1. TypeOK'
  OBVIOUS
<1>2. OwnsSomething'
  BY DEF OwnsSomething
<1>3. ASSUME ~singlethreaded
      PROVE  Sound'
  <2> USE <1>3 DEF Sound
  <2>1. LocksSound'
    BY DEF OwnsSomething, LocksSound, DirectSound, Owning
  <2>2. DirectSound'
    BY DEF OwnsSomething, LocksSound, DirectSound, Owning
  <2>3. HolderSound'
    BY DEF OwnsSomething, LocksSound, DirectSound, HolderSound, Owning
  <2> QED
    BY <2>1, <2>2, <2>3
<1> QED
  BY <1>1, <1>2, <1>3

\* The owners of two mutexes trade places.
LEMMA SwapStep ==
  ASSUME IInv, UNCHANGED backend,
         NEW l \in Locks, NEW other \in Locks, Swap(l, other)
  PROVE  IInv'
<1> USE NullAssumption, NoneAssumption, OwnerAssumption
    DEF IInv, TypeOK, singlethreaded, Swap, Dead
<1>1. TypeOK'
  OBVIOUS
<1>2. OwnsSomething'
  BY DEF OwnsSomething
<1>3. ASSUME ~singlethreaded
      PROVE  Sound'
  <2> USE <1>3 DEF Sound
  <2>1. LocksSound'
    BY DEF OwnsSomething, LocksSound, DirectSound, Owning
  <2>2. DirectSound'
    BY DEF OwnsSomething, LocksSound, DirectSound, Owning
  <2>3. HolderSound'
    BY DEF OwnsSomething, LocksSound, DirectSound, HolderSound, Owning
  <2> QED
    BY <2>1, <2>2, <2>3
<1> QED
  BY <1>1, <1>2, <1>3

\* Ownership passes from the lock object to its thread.
LEMMA ReleaseStep ==
  ASSUME IInv, UNCHANGED backend,
         NEW l \in Locks, Release(l)
  PROVE  IInv'
<1> USE NullAssumption, NoneAssumption, OwnerAssumption
    DEF IInv, TypeOK, singlethreaded, Release, Set, Dead
<1>1. TypeOK'
  OBVIOUS
<1>2. OwnsSomething'
  BY DEF OwnsSomething
<1>3. ASSUME ~singlethreaded
      PROVE  Sound'
  <2> USE <1>3 DEF Sound
  <2>1. LocksSound'
    BY DEF OwnsSomething, LocksSound, DirectSound, Owning
  <2>2. DirectSound'
    BY DEF OwnsSomething, LocksSound, DirectSound, Owning
  <2>3. HolderSound'
    BY DEF OwnsSomething, LocksSound, DirectSound, HolderSound, Owning
  <2> QED
    BY <2>1, <2>2, <2>3
<1> QED
  BY <1>1, <1>2, <1>3

\* A lock object without a mutex says what it likes, where nothing checks it.
LEMMA LockNothingStep ==
  ASSUME IInv, UNCHANGED backend,
         NEW l \in Locks, LockNothing(l)
  PROVE  IInv'
BY DEF IInv, TypeOK, singlethreaded, LockNothing, Set, OwnsSomething

\* A failed assert changes nothing but that the program stops, an exception and
\* a failed try_lock nothing at all.
LEMMA RefuseStep ==
  ASSUME IInv, UNCHANGED backend, Refuse
  PROVE  IInv'
BY DEF IInv, TypeOK, Refuse, OwnsSomething, Sound, LocksSound, DirectSound,
       HolderSound, Owning, singlethreaded

\* Nothing changes.
LEMMA StutterStep ==
  ASSUME IInv, UNCHANGED vars
  PROVE  IInv'
BY DEF IInv, TypeOK, vars, singlethreaded, OwnsSomething, Sound, LocksSound, DirectSound,
       HolderSound, Owning

\* The inductive invariant: every mutex that is held is owned once, by the
\* thread that holds it or by one of its lock objects, over every sequence of
\* operations (mutex.h:108-216).
THEOREM Invariance == Spec => []IInv
<1>1. Init => IInv
  BY NullAssumption, NoneAssumption, OwnerAssumption
     DEF Init, IInv, TypeOK, OwnsSomething, Sound, LocksSound, DirectSound,
         HolderSound, Owning
<1>2. IInv /\ [Next]_vars => IInv'
  <2> SUFFICES ASSUME IInv, [Next]_vars
               PROVE  IInv'
    OBVIOUS
  <2>1. CASE UNCHANGED vars
    BY <2>1, StutterStep
  <2>2. CASE Next
    <3>1. UNCHANGED backend
      BY <2>2 DEF Next
    <3>2. ASSUME NEW t \in Threads, NEW m \in Mutexes,
                 DirectLock(t, m) \/ DirectUnlock(t, m)
          PROVE  IInv'
      BY <3>1, <3>2, DirectLockStep, DirectUnlockStep
    <3>3. ASSUME NEW l \in Locks, Construct(l)
          PROVE  IInv'
      BY <3>1, <3>3, ConstructLockedStep, ConstructTryStep, ConstructAdoptStep,
         ConstructUnownedStep DEF Construct
    <3>4. ASSUME NEW l \in Locks, Use(l)
          PROVE  IInv'
      <4>1. CASE Lock(l) \/ Unlock(l) \/ Release(l) \/ Destroy(l)
        BY <3>1, <4>1, LockStep, UnlockStep, ReleaseStep, DestroyStep
      <4>2. CASE LockRefused(l) \/ UnlockRefused(l)
        BY <3>1, <4>2, RefuseStep DEF LockRefused, UnlockRefused
      <4>3. CASE TryLockFails(l) \/ UnlockNothing(l)
        BY <3>1, <4>3, StutterStep DEF TryLockFails, TryFails, UnlockNothing, vars
      <4>4. CASE LockNothing(l)
        BY <3>1, <4>4, LockNothingStep
      <4> QED
        BY <3>4, <4>1, <4>2, <4>3, <4>4 DEF Use
    <3>5. ASSUME NEW l \in Locks, NEW other \in Locks,
                 Transfer(l, other)
          PROVE  IInv'
      BY <3>1, <3>5, MoveConstructStep, MoveAssignStep, SwapStep DEF Transfer
    <3>6. ASSUME NEW l \in Locks, SelfAssign(l)
          PROVE  IInv'
      BY <3>1, <3>6, StutterStep DEF SelfAssign, vars
    <3> QED
      BY <2>2, <3>2, <3>3, <3>4, <3>5, <3>6 DEF Next
  <2> QED
    BY <2>1, <2>2
<1> QED
  BY <1>1, <1>2, PTL DEF Spec

\* With FreeRTOS and with cppstd no lock object ever unlocks through a pointer
\* to no mutex (mutex.h:141-216).
THEOREM NoNullUnlock == Spec => []OwnsSomething
<1>1. IInv => OwnsSomething
  BY DEF IInv
<1> QED
  BY <1>1, Invariance, PTL

\* Nothing is left locked for ever, unlocked twice, or unlocked for somebody
\* else: a held mutex has exactly one owner to unlock it, of the thread that
\* holds it, and a free one has none (mutex.h:108-216).
THEOREM OwnedOnce == Spec => []HeldByOne
<1>1. IInv => HeldByOne
  <2> SUFFICES ASSUME IInv, ~singlethreaded, NEW m \in Mutexes
               PROVE  IF holder[m] = nullptr
                      THEN Responsible(m) = {}
                      ELSE \E x \in Responsible(m) :
                             Responsible(m) = {x} /\ ThreadOf(x) = holder[m]
    BY DEF HeldByOne
  <2> USE NullAssumption, OwnerAssumption, DisjointAssumption
      DEF IInv, Sound, TypeOK
  <2>1. CASE holder[m] = nullptr
    BY <2>1 DEF Responsible, LocksSound, DirectSound, Owning
  <2>2. ASSUME holder[m] # nullptr, NEW l \in Locks, Owning(l, m)
        PROVE  Responsible(m) = {l} /\ ThreadOf(l) = holder[m]
    BY <2>2 DEF Responsible, ThreadOf, LocksSound, Owning
  <2>3. ASSUME holder[m] # nullptr, NEW t \in Threads, m \in direct[t]
        PROVE  Responsible(m) = {t} /\ ThreadOf(t) = holder[m]
    BY <2>3 DEF Responsible, ThreadOf, LocksSound, DirectSound, Owning
  <2> QED
    BY <2>1, <2>2, <2>3 DEF HolderSound
<1> QED
  BY <1>1, Invariance, PTL
=============================================================================
