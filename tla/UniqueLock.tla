----------------------------- MODULE UniqueLock -----------------------------
(***************************************************************************)
(* unique_lock and lock_guard over a mutex, in the three backends; a       *)
(* program is built for one of them.  FreeRTOS's (impl/freertos/mutex.h)   *)
(* asserts how it is used.  The single-threaded one                        *)
(* (impl/singlethreaded/mutex.h) checks nothing, and its mutex has no      *)
(* state: a lock object without a mutex can be locked there, and claims to *)
(* own one then.  The one of cppstd (impl/cppstd/mutex.h) wraps            *)
(* std::unique_lock, which throws where FreeRTOS asserts.                  *)
(*                                                                         *)
(* Every lock object belongs to one thread; it is used, moved and swapped  *)
(* by that thread, which also locks and unlocks mutexes directly or        *)
(* through a lock_guard, takes over what release() returned and hands over *)
(* what it holds with adopt_lock.                                          *)
(***************************************************************************)
EXTENDS Integers

CONSTANTS
  Threads,  \* the threads
  Mutexes,  \* the mutexes
  Locks,    \* the unique_lock objects
  Owner,    \* the thread each lock object belongs to
  nullptr,  \* no mutex; the holder of a free one
  none      \* no lock object lives there

ASSUME NullAssumption == nullptr \notin Threads \cup Mutexes /\ none \notin Mutexes
ASSUME NoneAssumption == nullptr # none
ASSUME DisjointAssumption == Locks \cap Threads = {}
ASSUME OwnerAssumption == Owner \in [Locks -> Threads]

VARIABLES
  backend,  \* the one the program is built for
  holder,   \* the holder of each mutex, as the kernel knows it
  lock_,    \* the mutex of each lock object, nullptr, or none
  owns_,    \* the flag of that name
  direct,   \* the mutexes each thread holds without a unique_lock
  aborted   \* an assert failed

vars == <<backend, holder, lock_, owns_, direct, aborted>>

TypeOK ==
  /\ backend \in {"freertos", "singlethreaded", "cppstd"}
  /\ holder \in [Mutexes -> Threads \cup {nullptr}]
  /\ lock_ \in [Locks -> Mutexes \cup {nullptr, none}]
  /\ owns_ \in [Locks -> BOOLEAN]
  /\ direct \in [Threads -> SUBSET Mutexes]
  /\ aborted \in BOOLEAN

Init ==
  /\ backend \in {"freertos", "singlethreaded", "cppstd"}
  /\ holder = [m \in Mutexes |-> nullptr]
  /\ lock_ = [l \in Locks |-> none]
  /\ owns_ = [l \in Locks |-> FALSE]
  /\ direct = [t \in Threads |-> {}]
  /\ aborted = FALSE

singlethreaded == backend = "singlethreaded"

Dead(l) == lock_[l] = none

\* An operation that is not allowed ends the program, or throws an exception
\* and has changed nothing.
Refuse ==
  /\ \/ backend = "freertos" /\ aborted' = TRUE
     \/ backend = "cppstd" /\ UNCHANGED aborted
  /\ UNCHANGED <<holder, lock_, owns_, direct>>

-----------------------------------------------------------------------------
(* The mutex *)

\* A lock() that returns, and a try_lock() that returns true.
Acquire(t, m) ==
  \/ singlethreaded /\ UNCHANGED holder
  \/ ~singlethreaded /\ holder[m] = nullptr /\ holder' = [holder EXCEPT ![m] = t]

\* A try_lock() that returns false.
TryFails(m) == ~singlethreaded /\ holder[m] # nullptr /\ UNCHANGED holder

\* The kernel refuses to give back what the thread does not hold.
Give(t, m) ==
  holder' = IF holder[m] = t THEN [holder EXCEPT ![m] = nullptr] ELSE holder

\* mutex::lock, try_lock and lock_guard's constructor.
DirectLock(t, m) ==
  /\ Acquire(t, m)
  /\ direct' = [direct EXCEPT ![t] = @ \cup {m}]
  /\ UNCHANGED <<lock_, owns_, aborted>>

\* mutex::unlock and lock_guard's destructor, by who locked.
DirectUnlock(t, m) ==
  /\ m \in direct[t]
  /\ Give(t, m)
  /\ direct' = [direct EXCEPT ![t] = @ \ {m}]
  /\ UNCHANGED <<lock_, owns_, aborted>>

-----------------------------------------------------------------------------
(* unique_lock: constructors and destructor *)

Set(l, m, owns) ==
  /\ lock_' = [lock_ EXCEPT ![l] = m]
  /\ owns_' = [owns_ EXCEPT ![l] = owns]

\* unique_lock() and unique_lock(m, defer_lock).
ConstructUnowned(l, m) ==
  /\ Dead(l)
  /\ Set(l, m, FALSE)
  /\ UNCHANGED <<holder, direct, aborted>>

ConstructLocked(l, m) ==
  /\ Dead(l)
  /\ Acquire(Owner[l], m)
  /\ Set(l, m, TRUE)
  /\ UNCHANGED <<direct, aborted>>

ConstructTry(l, m) ==
  /\ Dead(l)
  /\ \/ Acquire(Owner[l], m) /\ Set(l, m, TRUE)
     \/ TryFails(m) /\ Set(l, m, FALSE)
  /\ UNCHANGED <<direct, aborted>>

\* Adopting is for a mutex that the thread holds.
ConstructAdopt(l, m) ==
  /\ Dead(l)
  /\ m \in direct[Owner[l]]
  /\ Set(l, m, TRUE)
  /\ direct' = [direct EXCEPT ![Owner[l]] = @ \ {m}]
  /\ UNCHANGED <<holder, aborted>>

\* unlock() of a lock object that owns its mutex, or nothing.
GiveIfOwned(l) ==
  \/ owns_[l] /\ lock_[l] # nullptr /\ Give(Owner[l], lock_[l])
  \/ (~owns_[l] \/ lock_[l] = nullptr) /\ UNCHANGED holder

Destroy(l) ==
  /\ ~Dead(l)
  /\ GiveIfOwned(l)
  /\ Set(l, none, FALSE)
  /\ UNCHANGED <<direct, aborted>>

\* Mutant: the source keeps its flag.
MovedKeepsFlag(l, other) ==
  /\ lock_' = [lock_ EXCEPT ![l] = lock_[other], ![other] = nullptr]
  /\ owns_' = [owns_ EXCEPT ![l] = owns_[other]]

\* l takes what other has, and other has nothing.
Moved(l, other) ==
  /\ lock_' = [lock_ EXCEPT ![l] = lock_[other], ![other] = nullptr]
  /\ owns_' = [owns_ EXCEPT ![l] = owns_[other], ![other] = FALSE]

MoveConstruct(l, other) ==
  /\ Dead(l)
  /\ ~Dead(other)
  /\ Owner[l] = Owner[other]
  /\ Moved(l, other)
  /\ UNCHANGED <<holder, direct, aborted>>

\* Mutant: what the left side owns is not unlocked.
MoveAssignOver(l, other) ==
  /\ ~Dead(l)
  /\ ~Dead(other)
  /\ Owner[l] = Owner[other]
  /\ IF l = other THEN Set(l, nullptr, FALSE) ELSE Moved(l, other)
  /\ UNCHANGED <<holder, direct, aborted>>

\* Assigned to itself, a lock object unlocks and lets go of its mutex.
MoveAssign(l, other) ==
  /\ ~Dead(l)
  /\ ~Dead(other)
  /\ Owner[l] = Owner[other]
  /\ GiveIfOwned(l)
  /\ IF l = other THEN Set(l, nullptr, FALSE) ELSE Moved(l, other)
  /\ UNCHANGED <<direct, aborted>>

\* Newer standard libraries leave an object alone that is assigned to itself.
SelfAssign(l) ==
  /\ backend = "cppstd"
  /\ ~Dead(l)
  /\ UNCHANGED <<holder, lock_, owns_, direct, aborted>>

-----------------------------------------------------------------------------
(* unique_lock: operations *)

\* checkLockUnowned, in lock() and try_lock().
LockRefused(l) ==
  /\ lock_[l] = nullptr \/ owns_[l]
  /\ Refuse

Lock(l) ==
  /\ lock_[l] \in Mutexes
  /\ singlethreaded \/ ~owns_[l]
  /\ Acquire(Owner[l], lock_[l])
  /\ Set(l, lock_[l], TRUE)
  /\ UNCHANGED <<direct, aborted>>

\* lock() and try_lock() without a mutex, where nothing looks whether there is
\* one: what they call on it is empty.
LockNothing(l) ==
  /\ singlethreaded
  /\ lock_[l] = nullptr
  /\ Set(l, nullptr, TRUE)
  /\ UNCHANGED <<holder, direct, aborted>>

\* try_lock() that returns false.  (When it returns true it is Lock.)
TryLockFails(l) ==
  /\ lock_[l] \in Mutexes
  /\ ~owns_[l]
  /\ TryFails(lock_[l])
  /\ UNCHANGED <<lock_, owns_, direct, aborted>>

\* checkLockOwned, in unlock().
UnlockRefused(l) ==
  /\ ~Dead(l)
  /\ ~owns_[l]
  /\ Refuse

Unlock(l) ==
  /\ lock_[l] \in Mutexes
  /\ singlethreaded \/ owns_[l]
  /\ Give(Owner[l], lock_[l])
  /\ Set(l, lock_[l], FALSE)
  /\ UNCHANGED <<direct, aborted>>

\* unlock() without a mutex: the flag stays as it is.
UnlockNothing(l) ==
  /\ singlethreaded
  /\ lock_[l] = nullptr
  /\ UNCHANGED <<holder, lock_, owns_, direct, aborted>>

Swap(l, other) ==
  /\ ~Dead(l)
  /\ ~Dead(other)
  /\ Owner[l] = Owner[other]
  /\ lock_' = [lock_ EXCEPT ![l] = lock_[other], ![other] = lock_[l]]
  /\ owns_' = [owns_ EXCEPT ![l] = owns_[other], ![other] = owns_[l]]
  /\ UNCHANGED <<holder, direct, aborted>>

\* What release() returns stays locked: unlocking is up to the caller.
Release(l) ==
  /\ ~Dead(l)
  /\ Set(l, nullptr, FALSE)
  /\ direct' = IF owns_[l] /\ lock_[l] # nullptr
               THEN [direct EXCEPT ![Owner[l]] = @ \cup {lock_[l]}]
               ELSE direct
  /\ UNCHANGED <<holder, aborted>>

-----------------------------------------------------------------------------

Construct(l) ==
  \/ \E m \in Mutexes :
       \/ ConstructLocked(l, m)
       \/ ConstructTry(l, m)
       \/ ConstructAdopt(l, m)
  \/ \E m \in Mutexes \cup {nullptr} : ConstructUnowned(l, m)

Use(l) ==
  \/ Lock(l)
  \/ LockNothing(l)
  \/ LockRefused(l)
  \/ TryLockFails(l)
  \/ Unlock(l)
  \/ UnlockNothing(l)
  \/ UnlockRefused(l)
  \/ Release(l)
  \/ Destroy(l)

Transfer(l, other) ==
  \/ MoveConstruct(l, other)
  \/ MoveAssign(l, other)
  \/ Swap(l, other)

Next ==
  /\ ~aborted
  /\ UNCHANGED backend
  /\ \/ \E t \in Threads, m \in Mutexes : DirectLock(t, m) \/ DirectUnlock(t, m)
     \/ \E l \in Locks :
          \/ Construct(l)
          \/ Use(l)
          \/ SelfAssign(l)
          \/ \E other \in Locks : Transfer(l, other)

Spec == Init /\ [][Next]_vars

-----------------------------------------------------------------------------
(* Properties *)

\* Who is responsible for unlocking m: lock objects, and threads themselves.
Responsible(m) ==
  {l \in Locks : owns_[l] /\ lock_[l] = m} \cup {t \in Threads : m \in direct[t]}

ThreadOf(x) == IF x \in Locks THEN Owner[x] ELSE x

\* A mutex that is held has exactly one owner to unlock it, a lock object of
\* its holder or its holder itself, and a free one has none: no sequence of
\* moves, swaps, adoptions and releases leaves a mutex locked for ever, unlocks
\* it twice, or unlocks another thread's (mutex.h:108-216).
HeldByOne ==
  ~singlethreaded => \A m \in Mutexes :
    IF holder[m] = nullptr
    THEN Responsible(m) = {}
    ELSE \E x \in Responsible(m) :
           Responsible(m) = {x} /\ ThreadOf(x) = holder[m]

\* A lock object that owns has a mutex: with FreeRTOS and with cppstd a lock
\* object that was moved from, released or destroyed does not unlock through a
\* null pointer.  Their checks are why (mutex.h:167-202): without them, as in the
\* single-threaded backend, it is not so.
OwnsSomething ==
  ~singlethreaded => \A l \in Locks : owns_[l] => lock_[l] \in Mutexes

-----------------------------------------------------------------------------
(* The inductive invariant *)

Owning(l, m) == owns_[l] /\ lock_[l] = m

\* A lock object that owns a mutex is its only owner, and its thread holds it.
LocksSound ==
  \A l \in Locks, m \in Mutexes :
    Owning(l, m) =>
      /\ holder[m] = Owner[l]
      /\ \A other \in Locks : Owning(other, m) => other = l
      /\ \A t \in Threads : m \notin direct[t]

DirectSound == \A t \in Threads, m \in Mutexes : m \in direct[t] => holder[m] = t

\* No mutex that is held is forgotten.
HolderSound ==
  \A m \in Mutexes :
    holder[m] # nullptr =>
      \/ \E l \in Locks : Owning(l, m)
      \/ \E t \in Threads : m \in direct[t]

Sound ==
  /\ LocksSound
  /\ DirectSound
  /\ HolderSound

IInv ==
  /\ TypeOK
  /\ OwnsSomething
  /\ ~singlethreaded => Sound
=============================================================================
