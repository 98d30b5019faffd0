--------------------------- MODULE CondVarClassic ---------------------------
(***************************************************************************)
(* The classic FreeRTOS condition variable                                 *)
(* (impl/freertos/condition_variable_classic.{h,cpp}): a counting          *)
(* semaphore whose tokens are wakeups, a count of the threads to wake, and *)
(* an internal mutex that protects the count.                              *)
(*                                                                         *)
(* A token is not addressed to a thread: whoever acquires first gets it.   *)
(* A timed wait that fails to acquire takes itself out of the count later, *)
(* when a notification may already have counted it.                        *)
(***************************************************************************)
EXTENDS Integers, FiniteSets

CONSTANTS
  Threads,       \* the threads that use the mutex and the condition variable
  kMaxTokens,    \* the largest count of the semaphore: BaseType_t's maximum
  MaxWaitCount,  \* a bound on waitcount_, in the code INT_MAX
  nullptr        \* the holder of a free mutex

ASSUME ThreadsAssumption == IsFiniteSet(Threads)
ASSUME NullAssumption == nullptr \notin Threads
ASSUME BoundsAssumption == kMaxTokens \in Nat /\ MaxWaitCount \in Nat
ASSUME TokensAssumption == kMaxTokens >= Cardinality(Threads)

VARIABLES
  mutex,       \* the holder of the user's mutex
  mutex_,      \* the holder of the internal mutex
  waitlist_,   \* the count of the semaphore
  waitcount_,  \* the number of threads to wake, as the code counts it
  pc,          \* where thread t is; "client" is outside of the module
  timed,       \* t is in wait_until, not in wait
  acquired,    \* the local variable of that name
  scan         \* the loop index of the notify_all in progress

vars == <<mutex, mutex_, waitlist_, waitcount_, pc, timed, acquired, scan>>

TypeOK ==
  /\ mutex \in Threads \cup {nullptr}
  /\ mutex_ \in Threads \cup {nullptr}
  /\ waitlist_ \in 0 .. kMaxTokens
  /\ waitcount_ \in Int
  /\ pc \in [Threads -> {"client", "release", "exit", "acquire", "relock",
                         "uncount", "notifyAll"}]
  /\ timed \in [Threads -> BOOLEAN]
  /\ acquired \in [Threads -> BOOLEAN]
  /\ scan \in Nat

Init ==
  /\ mutex = nullptr
  /\ mutex_ = nullptr
  /\ waitlist_ = 0
  /\ waitcount_ = 0
  /\ pc = [t \in Threads |-> "client"]
  /\ timed = [t \in Threads |-> FALSE]
  /\ acquired = [t \in Threads |-> FALSE]
  /\ scan = 0

Lock(t) ==
  /\ pc[t] = "client"
  /\ mutex = nullptr
  /\ mutex' = t
  /\ UNCHANGED <<mutex_, waitlist_, waitcount_, pc, timed, acquired, scan>>

Unlock(t) ==
  /\ pc[t] = "client"
  /\ mutex = t
  /\ mutex' = nullptr
  /\ UNCHANGED <<mutex_, waitlist_, waitcount_, pc, timed, acquired, scan>>

-----------------------------------------------------------------------------
(* wait and wait_until *)

Wait(t, isTimed) ==
  /\ pc[t] = "client"
  /\ mutex = t
  /\ mutex_ = nullptr
  /\ waitcount_ < MaxWaitCount
  /\ mutex_' = t
  /\ waitcount_' = waitcount_ + 1
  /\ pc' = [pc EXCEPT ![t] = "release"]
  /\ timed' = [timed EXCEPT ![t] = isTimed]
  /\ UNCHANGED <<mutex, waitlist_, acquired, scan>>

\* lock.unlock() under the internal mutex.
UnlockInWait(t) ==
  /\ pc[t] = "release"
  /\ mutex' = nullptr
  /\ pc' = [pc EXCEPT ![t] = "exit"]
  /\ UNCHANGED <<mutex_, waitlist_, waitcount_, timed, acquired, scan>>

ExitGuard(t) ==
  /\ pc[t] = "exit"
  /\ mutex_' = nullptr
  /\ pc' = [pc EXCEPT ![t] = "acquire"]
  /\ UNCHANGED <<mutex, waitlist_, waitcount_, timed, acquired, scan>>

Acquire(t) ==
  /\ pc[t] = "acquire"
  /\ waitlist_ > 0
  /\ waitlist_' = waitlist_ - 1
  /\ acquired' = [acquired EXCEPT ![t] = TRUE]
  /\ pc' = [pc EXCEPT ![t] = "relock"]
  /\ UNCHANGED <<mutex, mutex_, waitcount_, timed, scan>>

\* try_acquire_until returns false when the deadline has passed, also with
\* tokens to take: it looks at the time first.
AcquireTimeout(t) ==
  /\ pc[t] = "acquire"
  /\ timed[t]
  /\ acquired' = [acquired EXCEPT ![t] = FALSE]
  /\ pc' = [pc EXCEPT ![t] = "relock"]
  /\ UNCHANGED <<mutex, mutex_, waitlist_, waitcount_, timed, scan>>

\* Mutant: a thread that got a token counts itself out, too.
RelockAndUncount(t) ==
  /\ pc[t] = "relock"
  /\ mutex = nullptr
  /\ mutex' = t
  /\ pc' = [pc EXCEPT ![t] = "uncount"]
  /\ UNCHANGED <<mutex_, waitlist_, waitcount_, timed, acquired, scan>>

Relock(t) ==
  /\ pc[t] = "relock"
  /\ mutex = nullptr
  /\ mutex' = t
  /\ pc' = [pc EXCEPT ![t] = IF acquired[t] THEN "client" ELSE "uncount"]
  /\ UNCHANGED <<mutex_, waitlist_, waitcount_, timed, acquired, scan>>

\* --waitcount_ under the internal mutex, and the return of timeout.
Uncount(t) ==
  /\ pc[t] = "uncount"
  /\ mutex_ = nullptr
  /\ waitcount_' = waitcount_ - 1
  /\ pc' = [pc EXCEPT ![t] = "client"]
  /\ UNCHANGED <<mutex, mutex_, waitlist_, timed, acquired, scan>>

-----------------------------------------------------------------------------
(* notify_one and notify_all *)

\* counting_semaphore::release: a full semaphore refuses the token.
Release == waitlist_' = IF waitlist_ < kMaxTokens THEN waitlist_ + 1 ELSE waitlist_

\* Under the internal mutex; with nobody to wake it changes nothing.
NotifyOne(t) ==
  /\ pc[t] = "client"
  /\ mutex_ = nullptr
  /\ waitcount_ > 0
  /\ Release
  /\ waitcount_' = waitcount_ - 1
  /\ UNCHANGED <<mutex, mutex_, pc, timed, acquired, scan>>

NotifyAll(t) ==
  /\ pc[t] = "client"
  /\ mutex_ = nullptr
  /\ mutex_' = t
  /\ pc' = [pc EXCEPT ![t] = "notifyAll"]
  /\ UNCHANGED <<mutex, waitlist_, waitcount_, timed, acquired, scan>>

NotifyAllRelease(t) ==
  /\ pc[t] = "notifyAll"
  /\ scan < waitcount_
  /\ Release
  /\ scan' = scan + 1
  /\ UNCHANGED <<mutex, mutex_, waitcount_, pc, timed, acquired>>

\* Mutant: the loop ends one waiter too early.
NotifyAllExitEarly(t) ==
  /\ pc[t] = "notifyAll"
  /\ scan >= waitcount_ - 1
  /\ waitcount_' = 0
  /\ scan' = 0
  /\ mutex_' = nullptr
  /\ pc' = [pc EXCEPT ![t] = "client"]
  /\ UNCHANGED <<mutex, waitlist_, timed, acquired>>

NotifyAllExit(t) ==
  /\ pc[t] = "notifyAll"
  /\ scan >= waitcount_
  /\ waitcount_' = 0
  /\ scan' = 0
  /\ mutex_' = nullptr
  /\ pc' = [pc EXCEPT ![t] = "client"]
  /\ UNCHANGED <<mutex, waitlist_, timed, acquired>>

-----------------------------------------------------------------------------

Next ==
  \E t \in Threads :
    \/ Lock(t)
    \/ Unlock(t)
    \/ \E isTimed \in BOOLEAN : Wait(t, isTimed)
    \/ UnlockInWait(t)
    \/ ExitGuard(t)
    \/ Acquire(t)
    \/ AcquireTimeout(t)
    \/ Relock(t)
    \/ Uncount(t)
    \/ NotifyOne(t)
    \/ NotifyAll(t)
    \/ NotifyAllRelease(t)
    \/ NotifyAllExit(t)

Spec == Init /\ [][Next]_vars

-----------------------------------------------------------------------------
(* Properties *)

Sleeping == {t \in Threads : pc[t] = "acquire"}

\* The threads that counted themselves in and have neither taken a token nor
\* counted themselves out.
Unresolved ==
  {t \in Threads :
     \/ pc[t] \in {"release", "exit", "acquire", "uncount"}
     \/ pc[t] = "relock" /\ ~acquired[t]}

\* A notification is never refused while somebody sleeps without a token to
\* wake up by: the count, for all the races with timeouts that drive it below
\* the number of waiting threads and even below zero, is positive then
\* (condition_variable_classic.cpp:15, 23, 52).
NotifyReaches == Cardinality(Sleeping) > waitlist_ => waitcount_ > scan

\* A thread that returns from a wait, or counts itself out, holds the mutex,
\* and one that begins a wait holds it until it is counted
\* (condition_variable_classic.cpp:30-34, 47-53).
WaitHoldsLock ==
  \A t \in Threads : pc[t] \in {"release", "uncount"} => mutex = t

-----------------------------------------------------------------------------
(* The inductive invariant *)

InternalMutex ==
  \A t \in Threads : mutex_ = t <=> pc[t] \in {"release", "exit", "notifyAll"}

\* Every unresolved wait is paid for, by a token or by the count.  A
\* notification turns one into the other, a wakeup and a timeout take one away.
Cover == Cardinality(Unresolved) =< waitlist_ + waitcount_ - scan

ScanOfNotifyAll ==
  /\ scan # 0 => scan =< waitcount_
  /\ scan # 0 => \E t \in Threads : pc[t] = "notifyAll"

IInv ==
  /\ TypeOK
  /\ InternalMutex
  /\ Cover
  /\ ScanOfNotifyAll
  /\ WaitHoldsLock
=============================================================================
