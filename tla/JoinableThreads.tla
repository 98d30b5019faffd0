--------------------------- MODULE JoinableThreads ---------------------------
(***************************************************************************)
(* What thread objects promise to the code that uses them.                 *)
(*                                                                         *)
(* A thread that is started belongs to one object, and stays with one      *)
(* object until it is joined, however the objects are moved and swapped.   *)
(* join() lets go of a thread that is over, and of no other.               *)
(***************************************************************************)
CONSTANTS
  Tasks,      \* the threads
  Objects,    \* where thread objects can live
  nullptr,    \* the object owns no thread
  none        \* no object lives there

VARIABLES
  handle,     \* handle[o]: the thread that o owns, nullptr, or none
  life        \* life[t]: "unused", "running", "over"

vars == <<handle, life>>

Init ==
  /\ handle = [o \in Objects |-> none]
  /\ life = [t \in Tasks |-> "unused"]

DefaultConstruct(o) ==
  /\ handle[o] = none
  /\ handle' = [handle EXCEPT ![o] = nullptr]
  /\ UNCHANGED life

Start(o, t) ==
  /\ handle[o] = none
  /\ life[t] = "unused"
  /\ handle' = [handle EXCEPT ![o] = t]
  /\ life' = [life EXCEPT ![t] = "running"]

MoveConstruct(o, other) ==
  /\ handle[o] = none
  /\ handle[other] # none
  /\ handle' = [handle EXCEPT ![o] = handle[other], ![other] = nullptr]
  /\ UNCHANGED life

\* A move assignment is a swap with an object that owns nothing.
Swap(o, other) ==
  /\ handle[o] # none
  /\ handle[other] # none
  /\ handle' = [handle EXCEPT ![o] = handle[other], ![other] = handle[o]]
  /\ UNCHANGED life

Destroy(o) ==
  /\ handle[o] = nullptr
  /\ handle' = [handle EXCEPT ![o] = none]
  /\ UNCHANGED life

Finish(t) ==
  /\ life[t] = "running"
  /\ life' = [life EXCEPT ![t] = "over"]
  /\ UNCHANGED handle

Join(o) ==
  /\ handle[o] \in Tasks
  /\ life[handle[o]] = "over"
  /\ handle' = [handle EXCEPT ![o] = nullptr]
  /\ UNCHANGED life

Next ==
  \/ \E o \in Objects :
       \/ DefaultConstruct(o)
       \/ \E t \in Tasks : Start(o, t)
       \/ \E other \in Objects : MoveConstruct(o, other) \/ Swap(o, other)
       \/ Destroy(o)
       \/ Join(o)
  \/ \E t \in Tasks : Finish(t)

Spec == Init /\ [][Next]_vars
=============================================================================
