---------------------------- MODULE AbstractMutex ----------------------------
(***************************************************************************)
(* What a mutex promises to the threads that use it.                       *)
(*                                                                         *)
(* It has one owner at most.  lock() ends when its caller has become the   *)
(* owner, unlock() when it is none any more, and try_lock() fails only     *)
(* while somebody owns the mutex.  The first operations are no different   *)
(* from the later ones.                                                    *)
(*                                                                         *)
(* There is one exception: Boot, which runs alone until it starts the      *)
(* scheduler, loses what it locked before it created a task when the tasks *)
(* begin to run.                                                           *)
(***************************************************************************)
CONSTANTS
  Threads,    \* the threads that use the mutex
  Boot,       \* the one that runs before the others
  nullptr     \* nobody owns it

VARIABLES
  owner,      \* the thread that owns the mutex, or nullptr
  request,    \* the operation that each thread is in, or "none"
  handle,     \* Boot has created a task
  started,    \* the tasks run, and Boot does not any more
  early       \* the owner locked it before there was a task

vars == <<owner, request, handle, started, early>>

Runs(t) == started <=> t # Boot

Init ==
  /\ handle = FALSE
  /\ started = FALSE
  /\ early = FALSE
  /\ owner = nullptr
  /\ request = [t \in Threads |-> "none"]

CreateTask ==
  /\ ~handle
  /\ handle' = TRUE
  /\ UNCHANGED <<owner, request, started, early>>

StartScheduler ==
  /\ ~started
  /\ request[Boot] = "none"
  /\ started' = TRUE
  /\ handle' = TRUE
  /\ owner' = IF early THEN nullptr ELSE owner
  /\ early' = FALSE
  /\ UNCHANGED request

Call(t, o) ==
  /\ request[t] = "none"
  /\ owner = t <=> o = "unlock"
  /\ request' = [request EXCEPT ![t] = o]
  /\ UNCHANGED <<owner, handle, started, early>>

Return(t) ==
  /\ request' = [request EXCEPT ![t] = "none"]
  /\ UNCHANGED <<handle, started>>

Acquire(t) ==
  /\ request[t] \in {"lock", "try_lock"}
  /\ owner = nullptr
  /\ owner' = t
  /\ early' = ~handle
  /\ Return(t)

TryFails(t) ==
  /\ request[t] = "try_lock"
  /\ owner # nullptr
  /\ Return(t)
  /\ UNCHANGED <<owner, early>>

Release(t) ==
  /\ request[t] = "unlock"
  /\ owner = t
  /\ owner' = nullptr
  /\ early' = FALSE
  /\ Return(t)

Next ==
  \/ CreateTask
  \/ StartScheduler
  \/ \E t \in Threads :
       /\ Runs(t)
       /\ \/ \E o \in {"lock", "try_lock", "unlock"} : Call(t, o)
          \/ Acquire(t)
          \/ TryFails(t)
          \/ Release(t)

Spec == Init /\ [][Next]_vars
=============================================================================
