------------------------------ MODULE CondVar ------------------------------
(***************************************************************************)
(* What a condition variable promises to the threads that use it.          *)
(*                                                                         *)
(* Waiting is atomic: the step that gives the mutex back is the step that  *)
(* puts the thread among the waiting ones, so no notification issued after *)
(* it can miss the thread.  notify_one takes one thread out of the waiting *)
(* ones if there is any, notify_all takes out all of them, and nothing     *)
(* else does but the return of the thread's own wait.  A wait returns with *)
(* the mutex held; it may do so without a notification (a timeout, or a    *)
(* spurious wakeup).                                                       *)
(***************************************************************************)
EXTENDS Integers

CONSTANTS
  Threads,    \* the threads that share the mutex and the condition variables
  CVs,        \* the condition variables used with that mutex
  nullptr     \* the holder of a free mutex

VARIABLES
  mutex,      \* the thread that holds the mutex, or nullptr
  phase,      \* phase[t]: "client" (outside of a wait), "wait", "return"
  waiting     \* waiting[c]: the threads a notification of c can be given to

vars == <<mutex, phase, waiting>>

TypeOK ==
  /\ mutex \in Threads \cup {nullptr}
  /\ phase \in [Threads -> {"client", "wait", "return"}]
  /\ waiting \in [CVs -> SUBSET Threads]

Init ==
  /\ mutex = nullptr
  /\ phase = [t \in Threads |-> "client"]
  /\ waiting = [c \in CVs |-> {}]

Lock(t) ==
  /\ phase[t] = "client"
  /\ mutex = nullptr
  /\ mutex' = t
  /\ UNCHANGED <<phase, waiting>>

Unlock(t) ==
  /\ phase[t] = "client"
  /\ mutex = t
  /\ mutex' = nullptr
  /\ UNCHANGED <<phase, waiting>>

Wait(t, c) ==
  /\ phase[t] = "client"
  /\ mutex = t
  /\ mutex' = nullptr
  /\ phase' = [phase EXCEPT ![t] = "wait"]
  /\ waiting' = [waiting EXCEPT ![c] = @ \cup {t}]

NotifyOne(t, c) ==
  /\ phase[t] = "client"
  /\ \E w \in waiting[c] : waiting' = [waiting EXCEPT ![c] = @ \ {w}]
  /\ UNCHANGED <<mutex, phase>>

NotifyAll(t, c) ==
  /\ phase[t] = "client"
  /\ waiting' = [waiting EXCEPT ![c] = {}]
  /\ UNCHANGED <<mutex, phase>>

Reacquire(t) ==
  /\ phase[t] = "wait"
  /\ mutex = nullptr
  /\ mutex' = t
  /\ phase' = [phase EXCEPT ![t] = "return"]
  /\ UNCHANGED waiting

Return(t) ==
  /\ phase[t] = "return"
  /\ phase' = [phase EXCEPT ![t] = "client"]
  /\ waiting' = [c \in CVs |-> waiting[c] \ {t}]
  /\ UNCHANGED mutex

Next ==
  \E t \in Threads :
    \/ Lock(t)
    \/ Unlock(t)
    \/ \E c \in CVs : Wait(t, c) \/ NotifyOne(t, c) \/ NotifyAll(t, c)
    \/ Reacquire(t)
    \/ Return(t)

Spec == Init /\ [][Next]_vars
=============================================================================
