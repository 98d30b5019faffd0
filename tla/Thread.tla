------------------------------- MODULE Thread -------------------------------
(***************************************************************************)
(* roo::thread on FreeRTOS (impl/freertos/thread.{h,cpp}): the objects     *)
(* that own a thread, the heap record (thread_state) that an object and    *)
(* its task share, and the tasks.                                          *)
(*                                                                         *)
(* The record of a thread bears the name of its task.  Main and the bodies *)
(* of the started threads run client code: they construct, move, swap,     *)
(* join and destroy objects.  attributes has no setter for joinable_: every *)
(* thread is joinable, and the other branch of run_thread is dead code.    *)
(*                                                                         *)
(* With Together = FALSE clients keep an object to themselves while its    *)
(* constructor or join runs.  With TRUE they may call join() on an object  *)
(* while another task constructs or joins it, which join_mutex and the     *)
(* asserts of join() are there for.                                        *)
(***************************************************************************)
EXTENDS Integers, FiniteSets

CONSTANTS
  Tasks,     \* the tasks that constructors start
  Main,      \* the task that runs from the beginning
  Objects,   \* where thread objects can live
  Together,  \* clients call join() while others construct or join the object
  nullptr,   \* no record
  garbage,   \* an uninitialized state_
  none       \* no object lives there

ASSUME TasksAssumption ==
  Main \notin Tasks /\ {nullptr, garbage, none} \cap (Tasks \cup {Main}) = {}
ASSUME ValuesAssumption ==
  nullptr # garbage /\ nullptr # none /\ garbage # none
ASSUME TogetherAssumption == Together \in BOOLEAN

VARIABLES
  state_,        \* state_[o]: the record object o owns, or none
  heap,          \* the thread_state records: "unused", "live", "deleted"
  callable,      \* what the task calls: "unused", "live", "destroyed"
  join_barrier,  \* the tokens of each record's join_barrier
  join_mutex,    \* the holder of each record's join_mutex
  pc,            \* where each task is; "client" is in client code
  obj,           \* the object of the constructor or join in progress
  state,         \* the local variable state of the constructor or join
  aborted        \* an assert failed

vars == <<state_, heap, callable, join_barrier, join_mutex, pc, obj, state,
          aborted>>

record == <<heap, callable, join_barrier, join_mutex>>

Actors == Tasks \cup {Main}

TypeOK ==
  /\ state_ \in [Objects -> Tasks \cup {nullptr, garbage, none}]
  /\ heap \in [Tasks -> {"unused", "live", "deleted"}]
  /\ callable \in [Tasks -> {"unused", "live", "destroyed"}]
  /\ join_barrier \in [Tasks -> {0, 1}]
  /\ join_mutex \in [Tasks -> Actors \cup {nullptr}]
  /\ pc \in [Actors ->
       {"none", "entry", "client", "dispose", "give", "suspend", "suspended",
        "deleted", "create", "assign", "lock", "wait", "regive", "clear",
        "unlock", "kill", "free"}]
  /\ obj \in [Actors -> Objects \cup {none}]
  /\ state \in [Actors -> Tasks \cup {nullptr, garbage}]
  /\ aborted \in BOOLEAN

Init ==
  /\ state_ = [o \in Objects |-> none]
  /\ heap = [t \in Tasks |-> "unused"]
  /\ callable = [t \in Tasks |-> "unused"]
  /\ join_barrier = [t \in Tasks |-> 0]
  /\ join_mutex = [t \in Tasks |-> nullptr]
  /\ pc = [a \in Actors |-> IF a = Main THEN "client" ELSE "none"]
  /\ obj = [a \in Actors |-> none]
  /\ state = [a \in Actors |-> nullptr]
  /\ aborted = FALSE

Goto(a, from, to) ==
  /\ pc[a] = from
  /\ pc' = [pc EXCEPT ![a] = to]

\* Nobody constructs or joins o.
Idle(o) == \A a \in Actors : obj[a] # o

joinable(o) == state_[o] # nullptr

Abort ==
  /\ aborted' = TRUE
  /\ UNCHANGED <<state_, record, pc, obj, state>>

-----------------------------------------------------------------------------
(* Constructors, assignment, swap and the destructor *)

DefaultConstruct(a, o) ==
  /\ pc[a] = "client"
  /\ Idle(o) /\ state_[o] = none
  /\ state_' = [state_ EXCEPT ![o] = nullptr]
  /\ UNCHANGED <<record, pc, obj, state, aborted>>

MoveConstruct(a, o, other) ==
  /\ pc[a] = "client"
  /\ Idle(o) /\ state_[o] = none
  /\ Idle(other) /\ state_[other] # none
  /\ state_' = [state_ EXCEPT ![o] = state_[other], ![other] = nullptr]
  /\ UNCHANGED <<record, pc, obj, state, aborted>>

Swapped(o, other) == [state_ EXCEPT ![o] = state_[other], ![other] = state_[o]]

Swap(a, o, other) ==
  /\ pc[a] = "client"
  /\ Idle(o) /\ state_[o] # none
  /\ Idle(other) /\ state_[other] # none
  /\ state_' = Swapped(o, other)
  /\ UNCHANGED <<record, pc, obj, state, aborted>>

\* Mutant: the handle of the left side is overwritten.
MoveAssignOver(a, o, other) ==
  /\ pc[a] = "client"
  /\ Idle(o) /\ state_[o] # none
  /\ Idle(other) /\ state_[other] # none
  /\ state_' = [state_ EXCEPT ![o] = state_[other], ![other] = nullptr]
  /\ UNCHANGED <<record, pc, obj, state, aborted>>

MoveAssign(a, o, other) ==
  /\ pc[a] = "client"
  /\ Idle(o) /\ state_[o] # none
  /\ Idle(other) /\ state_[other] # none
  /\ \/ joinable(o) /\ Abort
     \/ /\ ~joinable(o)
        /\ state_' = Swapped(o, other)
        /\ UNCHANGED <<record, pc, obj, state, aborted>>

Destroy(a, o) ==
  /\ pc[a] = "client"
  /\ Idle(o) /\ state_[o] # none
  /\ \/ joinable(o) /\ Abort
     \/ /\ ~joinable(o)
        /\ state_' = [state_ EXCEPT ![o] = none]
        /\ UNCHANGED <<record, pc, obj, state, aborted>>

-----------------------------------------------------------------------------
(* start *)

\* The record is allocated and filled.  The constructor does not initialize
\* state_.
Construct(a, o, t) ==
  /\ Goto(a, "client", "create")
  /\ Idle(o) /\ state_[o] = none
  /\ heap[t] = "unused"
  /\ state_' = [state_ EXCEPT ![o] = garbage]
  /\ heap' = [heap EXCEPT ![t] = "live"]
  /\ callable' = [callable EXCEPT ![t] = "live"]
  /\ obj' = [obj EXCEPT ![a] = o]
  /\ state' = [state EXCEPT ![a] = t]
  /\ UNCHANGED <<join_barrier, join_mutex, aborted>>

\* xTaskCreate stores the handle in the record before the task can run.
Create(a) ==
  /\ pc[a] = "create"
  /\ pc' = [pc EXCEPT ![a] = "assign", ![state[a]] = "entry"]
  /\ UNCHANGED <<state_, record, obj, state, aborted>>

\* xTaskCreate fails: the record is deleted, and assert(false).
CreateFails(a) ==
  /\ Goto(a, "create", "client")
  /\ heap' = [heap EXCEPT ![state[a]] = "deleted"]
  /\ callable' = [callable EXCEPT ![state[a]] = "destroyed"]
  /\ obj' = [obj EXCEPT ![a] = none]
  /\ state' = [state EXCEPT ![a] = nullptr]
  /\ aborted' = TRUE
  /\ UNCHANGED <<state_, join_barrier, join_mutex>>

\* state_ = state; the constructor returns.
Assign(a) ==
  /\ Goto(a, "assign", "client")
  /\ state_' = [state_ EXCEPT ![obj[a]] = state[a]]
  /\ obj' = [obj EXCEPT ![a] = none]
  /\ state' = [state EXCEPT ![a] = nullptr]
  /\ UNCHANGED <<record, aborted>>

-----------------------------------------------------------------------------
(* run_thread *)

\* The callable is moved out of the record and called.
Enter(t) ==
  /\ Goto(t, "entry", "client")
  /\ UNCHANGED <<state_, record, obj, state, aborted>>

\* The callable returns.
Return(t) ==
  /\ Goto(t, "client", "dispose")
  /\ UNCHANGED <<state_, record, obj, state, aborted>>

\* Mutant: the callable is destroyed at the end of the scope.
DisposeLate(t) ==
  /\ Goto(t, "dispose", "give")
  /\ UNCHANGED <<state_, record, obj, state, aborted>>

Dispose(t) ==
  /\ Goto(t, "dispose", "give")
  /\ callable' = [callable EXCEPT ![t] = "destroyed"]
  /\ UNCHANGED <<state_, heap, join_barrier, join_mutex, obj, state, aborted>>

\* Mutant: the task deletes the record, whoever joins it.
GiveAndDelete(t) ==
  /\ Goto(t, "give", "suspend")
  /\ join_barrier' = [join_barrier EXCEPT ![t] = 1]
  /\ heap' = [heap EXCEPT ![t] = "deleted"]
  /\ UNCHANGED <<state_, callable, join_mutex, obj, state, aborted>>

\* Mutant: join_mutex is given, which the task does not hold.
GiveMutex(t) ==
  /\ Goto(t, "give", "suspend")
  /\ UNCHANGED <<state_, record, obj, state, aborted>>

Give(t) ==
  /\ Goto(t, "give", "suspend")
  /\ join_barrier' = [join_barrier EXCEPT ![t] = 1]
  /\ UNCHANGED <<state_, heap, callable, join_mutex, obj, state, aborted>>

Suspend(t) ==
  /\ Goto(t, "suspend", "suspended")
  /\ UNCHANGED <<state_, record, obj, state, aborted>>

-----------------------------------------------------------------------------
(* join *)

\* Task a may call join() on o.  The object that is under construction can be
\* known to the new task only.
MayJoin(a, o) ==
  \/ Idle(o)
  \/ /\ Together
     /\ \A b \in Actors : obj[b] = o /\ pc[b] \in {"create", "assign"} => state[b] = a

Join(a, o) ==
  /\ pc[a] = "client"
  /\ MayJoin(a, o) /\ state_[o] # none
  /\ \/ ~joinable(o) /\ Abort
     \/ /\ joinable(o)
        /\ Goto(a, "client", "lock")
        /\ obj' = [obj EXCEPT ![a] = o]
        /\ state' = [state EXCEPT ![a] = state_[o]]
        /\ UNCHANGED <<state_, record, aborted>>

\* xSemaphoreTake(join_mutex, 0), and the check for joining oneself.
JoinLock(a) ==
  /\ pc[a] = "lock"
  /\ state[a] \in Tasks
  /\ \/ join_mutex[state[a]] # nullptr /\ Abort
     \/ join_mutex[state[a]] = nullptr /\ state[a] = a /\ Abort
     \/ /\ join_mutex[state[a]] = nullptr
        /\ state[a] # a
        /\ Goto(a, "lock", "wait")
        /\ join_mutex' = [join_mutex EXCEPT ![state[a]] = a]
        /\ UNCHANGED <<state_, heap, callable, join_barrier, obj, state, aborted>>

JoinWait(a) ==
  /\ Goto(a, "wait", "regive")
  /\ join_barrier[state[a]] = 1
  /\ join_barrier' = [join_barrier EXCEPT ![state[a]] = 0]
  /\ UNCHANGED <<state_, heap, callable, join_mutex, obj, state, aborted>>

JoinRegive(a) ==
  /\ Goto(a, "regive", "clear")
  /\ join_barrier' = [join_barrier EXCEPT ![state[a]] = 1]
  /\ UNCHANGED <<state_, heap, callable, join_mutex, obj, state, aborted>>

\* Mutant: the object keeps the record.
JoinKeep(a) ==
  /\ Goto(a, "clear", "unlock")
  /\ UNCHANGED <<state_, record, obj, state, aborted>>

JoinClear(a) ==
  /\ Goto(a, "clear", "unlock")
  /\ state_' = [state_ EXCEPT ![obj[a]] = nullptr]
  /\ UNCHANGED <<record, obj, state, aborted>>

JoinUnlock(a) ==
  /\ Goto(a, "unlock", "kill")
  /\ join_mutex' = [join_mutex EXCEPT ![state[a]] = nullptr]
  /\ UNCHANGED <<state_, heap, callable, join_barrier, obj, state, aborted>>

\* vTaskDelete
JoinKill(a) ==
  /\ pc[a] = "kill"
  /\ pc' = [pc EXCEPT ![a] = "free", ![state[a]] = "deleted"]
  /\ UNCHANGED <<state_, record, obj, state, aborted>>

\* delete state; join() returns.
JoinFree(a) ==
  /\ Goto(a, "free", "client")
  /\ heap' = [heap EXCEPT ![state[a]] = "deleted"]
  /\ obj' = [obj EXCEPT ![a] = none]
  /\ state' = [state EXCEPT ![a] = nullptr]
  /\ UNCHANGED <<state_, callable, join_barrier, join_mutex, aborted>>

-----------------------------------------------------------------------------

Client(a) ==
  \E o, other \in Objects :
    \/ DefaultConstruct(a, o)
    \/ MoveConstruct(a, o, other)
    \/ Swap(a, o, other)
    \/ MoveAssign(a, o, other)
    \/ Destroy(a, o)
    \/ \E t \in Tasks : Construct(a, o, t)
    \/ Join(a, o)

\* The steps of a constructor or join in progress.
Call(a) ==
  \/ Create(a)
  \/ CreateFails(a)
  \/ Assign(a)
  \/ JoinLock(a)
  \/ JoinWait(a)
  \/ JoinRegive(a)
  \/ JoinClear(a)
  \/ JoinUnlock(a)
  \/ JoinKill(a)
  \/ JoinFree(a)

\* run_thread outside of the callable.
run_thread(t) ==
  \/ Enter(t)
  \/ Dispose(t)
  \/ Give(t)
  \/ Suspend(t)

Next ==
  /\ ~aborted
  /\ \/ \E a \in Actors : Client(a) \/ Call(a)
     \/ \E t \in Tasks : Return(t) \/ run_thread(t)

Spec == Init /\ [][Next]_vars

\* Every ready task runs.  What client code does is up to it.
Fairness ==
  /\ \A a \in Actors : WF_vars(~aborted /\ Call(a))
  /\ \A t \in Tasks : WF_vars(~aborted /\ run_thread(t))

FairSpec == Spec /\ Fairness

-----------------------------------------------------------------------------
(* Properties *)

\* Task a's next step reads or writes the record of t.
Uses(a, t) ==
  \/ a = t /\ pc[a] \in {"entry", "give"}
  \/ /\ state[a] = t
     /\ pc[a] \in {"create", "lock", "wait", "regive", "unlock", "kill", "free"}

\* "Nothing else should be dereferencing state anymore" (thread.cpp:118): a
\* record is deleted when neither its task nor a join has a use for it.
NoUseAfterDelete ==
  \A a \in Actors, t \in Tasks : Uses(a, t) => heap[t] = "live"

Joining(a, t) ==
  state[a] = t /\ pc[a] \in {"regive", "clear", "unlock", "kill", "free"}

\* When join() goes on, and when it has returned, the thread's callable has
\* returned and is destroyed, its arguments too, and the task does nothing any
\* more but suspend itself: its deletion stops nothing half-way
\* (thread.cpp:61-65, 106-116).
JoinedIsOver ==
  \A t \in Tasks :
    heap[t] = "deleted" \/ (\E a \in Actors : Joining(a, t)) =>
      /\ callable[t] = "destroyed"
      /\ pc[t] \in {"none", "suspend", "suspended", "deleted"}

\* The owners of the record of t: objects, constructors, joins.
Owners(t) ==
  {o \in Objects : state_[o] = t}
    \cup {a \in Actors : state[a] = t /\ pc[a] \in {"create", "assign",
                                                    "unlock", "kill", "free"}}

\* Moves, swaps, assignments and joins neither lose a thread nor share it: a
\* live record has exactly one owner, a deleted one none, except where the
\* program stops (thread.cpp:35, 44-48, 92, 112).
OneOwner ==
  \A t \in Tasks :
    ~aborted => Cardinality(Owners(t)) = IF heap[t] = "live" THEN 1 ELSE 0

\* A join of a thread that has returned from its callable returns
\* (thread.cpp:63-65, 107).
JoinReturns ==
  \A a \in Actors, t \in Tasks :
    /\ pc[a] = "wait" /\ state[a] = t
    /\ pc[t] \in {"dispose", "give", "suspend", "suspended"}
    ~> pc[a] = "client" \/ aborted

\* A join reads a state_ that is initialized: the check for joining oneself
\* (thread.cpp:102-104, test/thread_test.cpp:113) sees the record.
NoGarbageJoined == \A a \in Actors : pc[a] = "lock" => state[a] # garbage

-----------------------------------------------------------------------------
(* The inductive invariant, for clients that do not share objects *)

Constructing == {"create", "assign"}
BeforeClear == {"lock", "wait", "regive", "clear"}
AfterClear == {"unlock", "kill", "free"}
InCall == Constructing \cup BeforeClear \cup AfterClear

\* The locals of a call in progress, and what they say of its object.
CallSound ==
  /\ \A a \in Actors :
       /\ pc[a] \in InCall <=> obj[a] # none
       /\ pc[a] \in InCall <=> state[a] \in Tasks
       /\ pc[a] \notin InCall => state[a] = nullptr
       /\ pc[a] \in Constructing => state_[obj[a]] = garbage
       /\ pc[a] \in BeforeClear => state_[obj[a]] = state[a]
       /\ pc[a] \in AfterClear => state_[obj[a]] = nullptr
  /\ \A a, b \in Actors : obj[a] = obj[b] /\ obj[a] # none => a = b
  /\ \A o \in Objects :
       ~aborted /\ state_[o] = garbage =>
         \E a \in Actors : obj[a] = o /\ pc[a] \in Constructing

Holds(a, t) == state[a] = t /\ pc[a] \in Constructing \cup AfterClear

\* OneOwner, without counting.
Ownership ==
  /\ \A o, other \in Objects :
       state_[o] = state_[other] /\ state_[o] \in Tasks => o = other
  /\ \A a, b \in Actors : state[a] = state[b] /\ state[a] \in Tasks => a = b
  /\ \A o \in Objects, a \in Actors, t \in Tasks :
       ~(state_[o] = t /\ Holds(a, t))
  /\ \A t \in Tasks :
       /\ (\E o \in Objects : state_[o] = t) \/ (\E a \in Actors : Holds(a, t))
            => heap[t] = "live"
       /\ heap[t] = "live"
            => (\E o \in Objects : state_[o] = t) \/ (\E a \in Actors : Holds(a, t))

\* The task, its callable and its record: what a join may rely on.
Lifecycle ==
  \A t \in Tasks :
    /\ heap[t] = "unused" <=> callable[t] = "unused"
    /\ heap[t] = "unused" => pc[t] = "none"
    /\ heap[t] = "deleted" => pc[t] \in {"none", "deleted"}
    /\ heap[t] = "deleted" \/ pc[t] \in {"give", "suspend", "suspended", "deleted"}
         => callable[t] = "destroyed"
    /\ join_barrier[t] = 1 => pc[t] \in {"suspend", "suspended", "deleted"}
    /\ \A a \in Actors :
         /\ state[a] = t /\ pc[a] = "create" => pc[t] = "none"
         /\ Joining(a, t) =>
              pc[t] \in {"suspend", "suspended", "deleted"}
         /\ state[a] = t /\ pc[a] = "free" => pc[t] = "deleted"
         /\ join_mutex[t] = a <=>
              state[a] = t /\ pc[a] \in {"wait", "regive", "clear", "unlock"}
    /\ pc[t] = "deleted" /\ heap[t] # "deleted" =>
         \E a \in Actors : state[a] = t /\ pc[a] = "free"

IInv ==
  /\ TypeOK
  /\ CallSound
  /\ Ownership
  /\ Lifecycle

-----------------------------------------------------------------------------
(* Refinement of JoinableThreads *)

Over == {"give", "suspend", "suspended", "deleted"}

\* The constructor in progress for o, which has started its task.
Started(a, o) == obj[a] = o /\ pc[a] = "assign"

\* The new object owns the task as soon as it is created, before state_ says so.
absHandle ==
  [o \in Objects |->
     IF state_[o] # garbage THEN state_[o]
     ELSE IF \E a \in Actors : Started(a, o)
          THEN state[CHOOSE a \in Actors : Started(a, o)]
          ELSE none]

absLife ==
  [t \in Tasks |->
     CASE pc[t] = "none" -> "unused"
       [] pc[t] \in Over -> "over"
       [] OTHER -> "running"]

JT == INSTANCE JoinableThreads WITH handle <- absHandle, life <- absLife

\* Every step is one of JoinableThreads or shows to nobody: a task is with one
\* object from its creation on, even before its constructor returns, until a join
\* lets go of it, and it is over then (thread.cpp:35, 44-48, 85-95, 106-116).
ImplementsThreads == JT!Spec
=============================================================================
