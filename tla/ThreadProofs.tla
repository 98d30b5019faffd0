---------------------------- MODULE ThreadProofs ----------------------------
(***************************************************************************)
(* Theorems about Thread, for any sets of tasks and objects, and clients   *)
(* that do not share an object while its constructor or join runs.         *)
(***************************************************************************)
EXTENDS Thread, TLAPS, FiniteSetTheorems

\* A failed assert changes nothing but that the program stops.
LEMMA AbortStep ==
  ASSUME IInv, Abort
  PROVE  IInv'
BY DEF IInv, TypeOK, CallSound, Ownership, Lifecycle, Holds, Joining, Abort,
       record, Constructing, BeforeClear, AfterClear, InCall

\* A default-constructed object owns nothing.
LEMMA DefaultConstructStep ==
  ASSUME IInv, ~aborted, NEW a \in Actors, NEW o \in Objects,
         DefaultConstruct(a, o)
  PROVE  IInv'
<1> USE TasksAssumption, ValuesAssumption
    DEF IInv, TypeOK, Actors, record, DefaultConstruct, Idle
<1>1. TypeOK'
  OBVIOUS
<1>2. CallSound'
  BY DEF CallSound, Constructing, BeforeClear, AfterClear, InCall
<1>3. Ownership'
  BY DEF Ownership, CallSound, Holds, Constructing, BeforeClear, AfterClear,
         InCall
<1>4. Lifecycle'
  BY DEF Lifecycle, Ownership, CallSound, Joining, Holds,
         Constructing, BeforeClear, AfterClear, InCall
<1> QED
  BY <1>1, <1>2, <1>3, <1>4

\* A record passes from one idle object to another.
LEMMA MoveConstructStep ==
  ASSUME IInv, ~aborted, NEW a \in Actors, NEW o \in Objects,
         NEW other \in Objects,
         MoveConstruct(a, o, other)
  PROVE  IInv'
<1> USE TasksAssumption, ValuesAssumption
    DEF IInv, TypeOK, Actors, record, MoveConstruct, Idle
<1>1. TypeOK'
  OBVIOUS
<1>2. CallSound'
  BY DEF CallSound, Constructing, BeforeClear, AfterClear, InCall
<1>3. Ownership'
  <2>1. o # other /\ state_[o] = none /\ {nullptr, none} \cap Tasks = {}
    OBVIOUS
  <2>2. /\ state_'[o] = state_[other] /\ state_'[other] = nullptr
        /\ \A x \in Objects : x # o /\ x # other => state_'[x] = state_[x]
    BY <2>1
  <2>3. \A b \in Actors, t \in Tasks : Holds(b, t)' <=> Holds(b, t)
    BY DEF Holds
  <2>4. \A x, y \in Objects :
          state_'[x] = state_'[y] /\ state_'[x] \in Tasks => x = y
    BY <2>1, <2>2 DEF Ownership
  <2>5. \A x \in Objects, b \in Actors, t \in Tasks :
          ~(state_'[x] = t /\ Holds(b, t)')
    BY <2>1, <2>2, <2>3 DEF Ownership
  <2>6. ASSUME NEW t \in Tasks
        PROVE  (\E x \in Objects : state_'[x] = t)
                 <=> (\E x \in Objects : state_[x] = t)
    <3>1. ASSUME NEW x \in Objects, state_'[x] = t
          PROVE  \E y \in Objects : state_[y] = t
      BY <3>1, <2>1, <2>2
    <3>2. ASSUME NEW x \in Objects, state_[x] = t
          PROVE  \E y \in Objects : state_'[y] = t
      BY <3>2, <2>1, <2>2
    <3> QED
      BY <3>1, <3>2
  <2>7. Ownership /\ UNCHANGED <<heap, state>>
    BY DEF record
  <2> HIDE DEF IInv, TypeOK, MoveConstruct, Idle, record
  <2> QED
    BY <2>3, <2>4, <2>5, <2>6, <2>7 DEF Ownership
<1>4. Lifecycle'
  BY DEF Lifecycle, Ownership, CallSound, Joining, Holds,
         Constructing, BeforeClear, AfterClear, InCall
<1> QED
  BY <1>1, <1>2, <1>3, <1>4

\* Two idle objects trade their records.
LEMMA SwapStep ==
  ASSUME IInv, ~aborted, NEW a \in Actors, NEW o \in Objects,
         NEW other \in Objects,
         Swap(a, o, other)
  PROVE  IInv'
<1> USE TasksAssumption, ValuesAssumption
    DEF IInv, TypeOK, Actors, record, Swap, Idle, Swapped
<1>1. TypeOK'
  OBVIOUS
<1>2. CallSound'
  BY DEF CallSound, Constructing, BeforeClear, AfterClear, InCall
<1>3. Ownership'
  <2>1. \A x \in Objects :
          state_'[x] = IF x = other THEN state_[o]
                       ELSE IF x = o THEN state_[other] ELSE state_[x]
    OBVIOUS
  <2>2. \A b \in Actors, t \in Tasks : Holds(b, t)' <=> Holds(b, t)
    BY DEF Holds
  <2> QED
    BY <2>1, <2>2 DEF Ownership
<1>4. Lifecycle'
  BY DEF Lifecycle, Ownership, CallSound, Joining, Holds,
         Constructing, BeforeClear, AfterClear, InCall
<1> QED
  BY <1>1, <1>2, <1>3, <1>4

\* An object that is destroyed owns nothing, or the program stops.
LEMMA DestroyStep ==
  ASSUME IInv, ~aborted, NEW a \in Actors, NEW o \in Objects,
         Destroy(a, o)
  PROVE  IInv'
<1> USE TasksAssumption, ValuesAssumption DEF Actors
<1>a. CASE Abort
  BY <1>a, AbortStep
<1>b. CASE ~joinable(o)
  <2>a. /\ state_[o] = nullptr /\ \A b \in Actors : obj[b] # o
        /\ state_' = [state_ EXCEPT ![o] = none]
        /\ UNCHANGED <<heap, callable, join_barrier, join_mutex, pc, obj, state,
                      aborted>>
    BY <1>b DEF IInv, TypeOK, Destroy, Idle, joinable, Abort, record
  <2>1. TypeOK'
    BY <2>a DEF IInv, TypeOK
  <2>2. CallSound'
    BY <2>a DEF IInv, TypeOK, CallSound, Constructing, BeforeClear, AfterClear,
                InCall
  <2>3. Ownership'
    <3>1. \A b \in Actors, t \in Tasks : Holds(b, t)' <=> Holds(b, t)
      BY <2>a DEF Holds
    <3>2. \A x \in Objects, t \in Tasks : state_'[x] = t <=> state_[x] = t
      BY <2>a DEF IInv, TypeOK
    <3> QED
      BY <2>a, <3>1, <3>2 DEF IInv, TypeOK, Ownership
  <2>4. Lifecycle'
    BY <2>a DEF IInv, Lifecycle, Joining
  <2> QED
    BY <2>1, <2>2, <2>3, <2>4 DEF IInv
<1> QED
  BY <1>a, <1>b DEF Destroy

\* The constructor holds the new record; the object is not initialized.
LEMMA ConstructStep ==
  ASSUME IInv, ~aborted, NEW a \in Actors, NEW o \in Objects, NEW t \in Tasks,
         Construct(a, o, t)
  PROVE  IInv'
<1> USE TasksAssumption, ValuesAssumption
    DEF IInv, TypeOK, Actors, record, Construct, Idle, Goto
<1>1. TypeOK'
  OBVIOUS
<1>2. CallSound'
  BY DEF CallSound, Constructing, BeforeClear, AfterClear, InCall
<1>3. Ownership'
  <2>0. \A x \in Objects : state_[x] # t
    BY DEF Ownership
  <2>1. /\ \A x \in Objects : state_[x] # t
        /\ \A b \in Actors : state[b] # t
    <3> SUFFICES ASSUME NEW b \in Actors, state[b] = t
                 PROVE  FALSE
      BY <2>0
    <3>1. /\ pc[b] \in InCall /\ obj[b] \in Objects
          /\ pc[b] \in BeforeClear => state_[obj[b]] = t
      BY DEF CallSound
    <3>2. Holds(b, t)
      BY <2>0, <3>1 DEF Holds, InCall
    <3> QED
      BY <3>2 DEF Ownership
  <2>2. \A b \in Actors, u \in Tasks :
          Holds(b, u)' <=> Holds(b, u) \/ (b = a /\ u = t)
    BY DEF Holds, CallSound, Constructing, AfterClear, InCall
  <2>3. /\ state_'[o] = garbage /\ state_[o] = none
        /\ \A x \in Objects : x # o => state_'[x] = state_[x]
        /\ state'[a] = t /\ state[a] = nullptr
        /\ \A b \in Actors : b # a => state'[b] = state[b]
        /\ heap'[t] = "live" /\ \A u \in Tasks : u # t => heap'[u] = heap[u]
    BY DEF CallSound, InCall, Constructing, BeforeClear, AfterClear
  <2>4. \A x, y \in Objects :
          state_'[x] = state_'[y] /\ state_'[x] \in Tasks => x = y
    BY <2>3 DEF Ownership
  <2>5. \A b, c \in Actors :
          state'[b] = state'[c] /\ state'[b] \in Tasks => b = c
    BY <2>1, <2>3 DEF Ownership
  <2>6. \A x \in Objects, b \in Actors, u \in Tasks :
          ~(state_'[x] = u /\ Holds(b, u)')
    BY <2>1, <2>2, <2>3 DEF Ownership
  <2>7. \A u \in Tasks, x \in Objects : state_'[x] = u <=> state_[x] = u
    BY <2>3
  <2> QED
    BY <2>1, <2>2, <2>3, <2>4, <2>5, <2>6, <2>7 DEF Ownership
<1>4. Lifecycle'
  BY DEF Lifecycle, Ownership, CallSound, Joining, Holds,
         Constructing, BeforeClear, AfterClear, InCall
<1> QED
  BY <1>1, <1>2, <1>3, <1>4

\* An idle object that can be joined owns a record.
LEMMA JoinStep ==
  ASSUME IInv, Together = FALSE, ~aborted, NEW a \in Actors, NEW o \in Objects,
         Join(a, o)
  PROVE  IInv'
<1> USE TasksAssumption, ValuesAssumption
    DEF IInv, TypeOK, Actors, record, Join, MayJoin, Idle, joinable, Goto
<1>a. CASE joinable(o)
  <2>a. /\ \A b \in Actors : obj[b] # o
        /\ state_[o] \in Tasks
        /\ pc' = [pc EXCEPT ![a] = "lock"]
        /\ obj' = [obj EXCEPT ![a] = o]
        /\ state' = [state EXCEPT ![a] = state_[o]]
        /\ UNCHANGED <<state_, record, aborted>>
    BY <1>a DEF CallSound
  <2>1. TypeOK'
    BY <2>a
  <2>2. CallSound'
    BY <2>a DEF CallSound, Constructing, BeforeClear, AfterClear, InCall
  <2>3. Ownership'
    BY <2>a DEF Ownership, CallSound, Holds, Constructing, BeforeClear, AfterClear,
         InCall
  <2>4. Lifecycle'
    BY <2>a DEF Lifecycle, Ownership, CallSound, Joining, Holds,
         Constructing, BeforeClear, AfterClear, InCall
  <2> QED
    BY <2>1, <2>2, <2>3, <2>4
<1>b. CASE ~joinable(o)
  BY <1>b, AbortStep
<1> QED
  BY <1>a, <1>b

\* The task of a record that is being created has not run.
LEMMA CreateStep ==
  ASSUME IInv, ~aborted, NEW a \in Actors,
         Create(a)
  PROVE  IInv'
<1> USE TasksAssumption, ValuesAssumption
    DEF IInv, TypeOK, Actors, record, Create
<1>a. /\ state[a] \in Tasks /\ state[a] # a
      /\ pc[state[a]] = "none"
  BY DEF CallSound, Lifecycle, Constructing, BeforeClear, AfterClear, InCall
<1>1. TypeOK'
  OBVIOUS
<1>2. CallSound'
  BY <1>a DEF CallSound, Constructing, BeforeClear, AfterClear, InCall
<1>3. Ownership'
  <2>1. \A b \in Actors, t \in Tasks : Holds(b, t)' <=> Holds(b, t)
    BY <1>a DEF Holds, Constructing, AfterClear
  <2> QED
    BY <2>1 DEF Ownership
<1>4. Lifecycle'
  BY <1>a DEF Lifecycle, Ownership, CallSound, Joining, Holds,
         Constructing, BeforeClear, AfterClear, InCall
<1> QED
  BY <1>1, <1>2, <1>3, <1>4

\* The record goes with the task that could not be created.
LEMMA CreateFailsStep ==
  ASSUME IInv, ~aborted, NEW a \in Actors,
         CreateFails(a)
  PROVE  IInv'
<1> USE TasksAssumption, ValuesAssumption
    DEF IInv, TypeOK, Actors, record, CreateFails, Goto
<1>1. TypeOK'
  OBVIOUS
<1>2. CallSound'
  BY DEF CallSound, Constructing, BeforeClear, AfterClear, InCall
<1>3. Ownership'
  <2> DEFINE u == state[a]
  <2>1. /\ u \in Tasks /\ pc[a] = "create" /\ state'[a] = nullptr
        /\ \A b \in Actors : b # a => state'[b] = state[b]
        /\ heap'[u] = "deleted" /\ \A t \in Tasks : t # u => heap'[t] = heap[t]
        /\ state_' = state_
    BY DEF CallSound, InCall, Constructing
  <2>2. /\ Holds(a, u)
        /\ \A b \in Actors, t \in Tasks : Holds(b, t)' <=> Holds(b, t) /\ b # a
    BY <2>1 DEF Holds, Constructing, AfterClear
  <2>3. /\ \A x \in Objects : state_[x] # u
        /\ \A b \in Actors : state[b] = u => b = a
    BY <2>1, <2>2 DEF Ownership
  <2>4. /\ \A t \in Tasks : Holds(a, t) => t = u
        /\ \A b \in Actors : Holds(b, u) => b = a
    BY <2>3 DEF Holds
  <2>5. Ownership
    OBVIOUS
  <2> HIDE DEF u, IInv, TypeOK, record, CreateFails, Goto
  <2> QED
    BY <2>1, <2>2, <2>3, <2>4, <2>5 DEF Ownership
<1>4. Lifecycle'
  BY DEF Lifecycle, Ownership, CallSound, Joining, Holds,
         Constructing, BeforeClear, AfterClear, InCall
<1> QED
  BY <1>1, <1>2, <1>3, <1>4

\* The record passes from the constructor to the object.
LEMMA AssignStep ==
  ASSUME IInv, ~aborted, NEW a \in Actors,
         Assign(a)
  PROVE  IInv'
<1> USE TasksAssumption, ValuesAssumption
    DEF IInv, TypeOK, Actors, record, Assign, Goto
<1>1. TypeOK'
  OBVIOUS
<1>2. CallSound'
  BY DEF CallSound, Constructing, BeforeClear, AfterClear, InCall
<1>3. Ownership'
  <2> DEFINE u == state[a]
             o == obj[a]
  <2>1. /\ u \in Tasks /\ o \in Objects /\ pc[a] = "assign"
        /\ state'[a] = nullptr /\ state_[o] = garbage /\ state_'[o] = u
        /\ \A b \in Actors : b # a => state'[b] = state[b]
        /\ \A x \in Objects : x # o => state_'[x] = state_[x]
        /\ heap' = heap
    BY DEF CallSound, InCall, Constructing
  <2>2. /\ Holds(a, u)
        /\ \A b \in Actors, t \in Tasks : Holds(b, t)' <=> Holds(b, t) /\ b # a
    BY <2>1 DEF Holds, Constructing, AfterClear
  <2>3. /\ \A x \in Objects : state_[x] # u
        /\ \A b \in Actors : state[b] = u => b = a
    BY <2>1, <2>2 DEF Ownership
  <2>4. /\ \A t \in Tasks : Holds(a, t) => t = u
        /\ \A b \in Actors : Holds(b, u) => b = a
    BY <2>3 DEF Holds
  <2>5. Ownership /\ garbage \notin Tasks /\ nullptr \notin Tasks
    OBVIOUS
  <2> HIDE DEF u, o, IInv, TypeOK, record, Assign, Goto
  <2> QED
    BY <2>1, <2>2, <2>3, <2>4, <2>5 DEF Ownership
<1>4. Lifecycle'
  BY DEF Lifecycle, Ownership, CallSound, Joining, Holds,
         Constructing, BeforeClear, AfterClear, InCall
<1> QED
  BY <1>1, <1>2, <1>3, <1>4

\* The join is alone with its record.
LEMMA JoinLockStep ==
  ASSUME IInv, ~aborted, NEW a \in Actors,
         JoinLock(a)
  PROVE  IInv'
<1> USE TasksAssumption, ValuesAssumption
    DEF IInv, TypeOK, Actors, record, JoinLock, Goto
<1>a. CASE Abort
  BY <1>a, AbortStep
<1>b. CASE ~Abort
  <2>a. /\ state[a] # a /\ join_mutex[state[a]] = nullptr
        /\ pc' = [pc EXCEPT ![a] = "wait"]
        /\ join_mutex' = [join_mutex EXCEPT ![state[a]] = a]
        /\ UNCHANGED <<state_, heap, callable, join_barrier, obj, state, aborted>>
    BY <1>b
  <2>1. TypeOK'
    BY <2>a
  <2>2. CallSound'
    BY <2>a DEF CallSound, Constructing, BeforeClear, AfterClear, InCall
  <2>3. Ownership'
    BY <2>a DEF Ownership, CallSound, Holds, Constructing, BeforeClear, AfterClear,
         InCall
  <2>4. Lifecycle'
    BY <2>a DEF Lifecycle, Ownership, CallSound, Joining, Holds,
         Constructing, BeforeClear, AfterClear, InCall
  <2> QED
    BY <2>1, <2>2, <2>3, <2>4
<1> QED
  BY <1>a, <1>b

\* A token means that the task has done all but suspend itself.
LEMMA JoinWaitStep ==
  ASSUME IInv, ~aborted, NEW a \in Actors,
         JoinWait(a)
  PROVE  IInv'
<1> USE TasksAssumption, ValuesAssumption
    DEF IInv, TypeOK, Actors, record, JoinWait, Goto
<1>1. TypeOK'
  OBVIOUS
<1>2. CallSound'
  BY DEF CallSound, Constructing, BeforeClear, AfterClear, InCall
<1>3. Ownership'
  BY DEF Ownership, CallSound, Holds, Constructing, BeforeClear, AfterClear,
         InCall
<1>4. Lifecycle'
  BY DEF Lifecycle, Ownership, CallSound, Joining, Holds,
         Constructing, BeforeClear, AfterClear, InCall
<1> QED
  BY <1>1, <1>2, <1>3, <1>4

\* The token is put back.
LEMMA JoinRegiveStep ==
  ASSUME IInv, ~aborted, NEW a \in Actors,
         JoinRegive(a)
  PROVE  IInv'
<1> USE TasksAssumption, ValuesAssumption
    DEF IInv, TypeOK, Actors, record, JoinRegive, Goto
<1>1. TypeOK'
  OBVIOUS
<1>2. CallSound'
  BY DEF CallSound, Constructing, BeforeClear, AfterClear, InCall
<1>3. Ownership'
  BY DEF Ownership, CallSound, Holds, Constructing, BeforeClear, AfterClear,
         InCall
<1>4. Lifecycle'
  BY DEF Lifecycle, Ownership, CallSound, Joining, Holds,
         Constructing, BeforeClear, AfterClear, InCall
<1> QED
  BY <1>1, <1>2, <1>3, <1>4

\* The record passes from the object to the join.
LEMMA JoinClearStep ==
  ASSUME IInv, ~aborted, NEW a \in Actors,
         JoinClear(a)
  PROVE  IInv'
<1> USE TasksAssumption, ValuesAssumption
    DEF IInv, TypeOK, Actors, record, JoinClear, Goto
<1>1. TypeOK'
  OBVIOUS
<1>2. CallSound'
  BY DEF CallSound, Constructing, BeforeClear, AfterClear, InCall
<1>3. Ownership'
  BY DEF Ownership, CallSound, Holds, Constructing, BeforeClear, AfterClear,
         InCall
<1>4. Lifecycle'
  BY DEF Lifecycle, Ownership, CallSound, Joining, Holds,
         Constructing, BeforeClear, AfterClear, InCall
<1> QED
  BY <1>1, <1>2, <1>3, <1>4

\* The join gives the mutex of its own record back.
LEMMA JoinUnlockStep ==
  ASSUME IInv, ~aborted, NEW a \in Actors,
         JoinUnlock(a)
  PROVE  IInv'
<1> USE TasksAssumption, ValuesAssumption
    DEF IInv, TypeOK, Actors, record, JoinUnlock, Goto
<1>1. TypeOK'
  OBVIOUS
<1>2. CallSound'
  BY DEF CallSound, Constructing, BeforeClear, AfterClear, InCall
<1>3. Ownership'
  BY DEF Ownership, CallSound, Holds, Constructing, BeforeClear, AfterClear,
         InCall
<1>4. Lifecycle'
  BY DEF Lifecycle, Ownership, CallSound, Joining, Holds,
         Constructing, BeforeClear, AfterClear, InCall
<1> QED
  BY <1>1, <1>2, <1>3, <1>4

\* The task that is deleted had only to suspend itself.
LEMMA JoinKillStep ==
  ASSUME IInv, ~aborted, NEW a \in Actors,
         JoinKill(a)
  PROVE  IInv'
<1> USE TasksAssumption, ValuesAssumption
    DEF IInv, TypeOK, Actors, record, JoinKill
<1>a. /\ state[a] \in Tasks /\ state[a] # a
      /\ pc[state[a]] \in {"suspend", "suspended", "deleted"}
  BY DEF CallSound, Lifecycle, Joining, Constructing, BeforeClear, AfterClear,
         InCall
<1>1. TypeOK'
  OBVIOUS
<1>2. CallSound'
  <2>1. \A b \in Actors :
          /\ pc'[b] \in Constructing <=> pc[b] \in Constructing
          /\ pc'[b] \in BeforeClear <=> pc[b] \in BeforeClear
          /\ pc'[b] \in AfterClear <=> pc[b] \in AfterClear
    BY <1>a DEF Constructing, BeforeClear, AfterClear
  <2>2. CallSound /\ UNCHANGED <<state_, obj, state, aborted>>
    OBVIOUS
  <2> HIDE DEF IInv, TypeOK, JoinKill, record
  <2> QED
    BY <2>1, <2>2 DEF CallSound, InCall
<1>3. Ownership'
  <2>1. \A b \in Actors, t \in Tasks : Holds(b, t)' <=> Holds(b, t)
    BY <1>a DEF Holds, Constructing, AfterClear
  <2> QED
    BY <2>1 DEF Ownership
<1>4. Lifecycle'
  <2>1. /\ pc[a] = "kill" /\ pc'[a] = "free" /\ pc'[state[a]] = "deleted"
        /\ \A b \in Actors : b # a /\ b # state[a] => pc'[b] = pc[b]
    BY <1>a
  <2>2. \A b \in Actors, t \in Tasks : Joining(b, t)' <=> Joining(b, t)
    BY <1>a, <2>1 DEF Joining
  <2>3. ASSUME NEW t \in Tasks, NEW b \in Actors
        PROVE  state[b] = t /\ pc'[b] \in {"wait", "regive", "clear", "unlock"}
                 <=> state[b] = t /\ pc[b] \in {"wait", "regive", "clear", "unlock"}
    BY <1>a, <2>1
  <2>4. callable[state[a]] = "destroyed" /\ heap[state[a]] # "unused"
    BY <1>a DEF Lifecycle
  <2>5. ASSUME NEW t \in Tasks, NEW b \in Actors, state[b] = t, pc'[b] = "free"
        PROVE  pc'[t] = "deleted"
    BY <1>a, <2>1, <2>5 DEF Lifecycle
  <2>6. ASSUME NEW t \in Tasks, NEW b \in Actors, state[b] = t, pc'[b] = "create"
        PROVE  pc'[t] = "none"
    BY <1>a, <2>1, <2>6 DEF Lifecycle, Ownership
  <2>7. ASSUME NEW t \in Tasks, t # state[a], t # a
        PROVE  pc'[t] = pc[t]
    BY <2>1, <2>7
  <2>8. ASSUME NEW t \in Tasks, pc'[t] = "deleted", heap[t] # "deleted"
        PROVE  \E b \in Actors : state[b] = t /\ pc'[b] = "free"
    <3>1. CASE t = state[a]
      BY <3>1, <2>1
    <3>2. CASE t # state[a]
      <4>1. pc[t] = "deleted"
        BY <3>2, <2>1, <2>7, <2>8
      <4>2. PICK b \in Actors : state[b] = t /\ pc[b] = "free"
        BY <4>1, <2>8 DEF Lifecycle
      <4>3. pc'[b] = "free"
        BY <4>2, <2>1, <1>a
      <4> QED
        BY <4>2, <4>3
    <3> QED
      BY <3>1, <3>2
  <2>9. ASSUME NEW t \in Tasks
        PROVE  /\ pc[t] = "none" => pc'[t] = "none"
               /\ pc[t] \in {"none", "deleted"} => pc'[t] \in {"none", "deleted"}
               /\ pc[t] \in {"suspend", "suspended", "deleted"} =>
                    pc'[t] \in {"suspend", "suspended", "deleted"}
               /\ pc'[t] \in {"give", "suspend", "suspended", "deleted"} =>
                    pc[t] \in {"give", "suspend", "suspended", "deleted"}
    BY <1>a, <2>1, <2>7
  <2>10. Lifecycle /\ UNCHANGED <<heap, callable, join_barrier, join_mutex, state>>
    BY DEF record
  <2> HIDE DEF IInv, TypeOK, JoinKill, record
  <2> QED
    BY <2>2, <2>3, <2>5, <2>6, <2>8, <2>9, <2>10 DEF Lifecycle
<1> QED
  BY <1>1, <1>2, <1>3, <1>4

\* The record is deleted by its only owner.
LEMMA JoinFreeStep ==
  ASSUME IInv, ~aborted, NEW a \in Actors,
         JoinFree(a)
  PROVE  IInv'
<1> USE TasksAssumption, ValuesAssumption
    DEF IInv, TypeOK, Actors, record, JoinFree, Goto
<1>1. TypeOK'
  OBVIOUS
<1>2. CallSound'
  BY DEF CallSound, Constructing, BeforeClear, AfterClear, InCall
<1>3. Ownership'
  BY DEF Ownership, CallSound, Holds, Constructing, BeforeClear, AfterClear,
         InCall
<1>4. Lifecycle'
  BY DEF Lifecycle, Ownership, CallSound, Joining, Holds,
         Constructing, BeforeClear, AfterClear, InCall
<1> QED
  BY <1>1, <1>2, <1>3, <1>4

\* The task calls the callable.
LEMMA EnterStep ==
  ASSUME IInv, ~aborted, NEW t \in Tasks,
         Enter(t)
  PROVE  IInv'
<1> USE TasksAssumption, ValuesAssumption
    DEF IInv, TypeOK, Actors, record, Enter, Goto
<1>1. TypeOK'
  OBVIOUS
<1>2. CallSound'
  BY DEF CallSound, Constructing, BeforeClear, AfterClear, InCall
<1>3. Ownership'
  BY DEF Ownership, CallSound, Holds, Constructing, BeforeClear, AfterClear,
         InCall
<1>4. Lifecycle'
  BY DEF Lifecycle, Ownership, CallSound, Joining, Holds,
         Constructing, BeforeClear, AfterClear, InCall
<1> QED
  BY <1>1, <1>2, <1>3, <1>4

\* The callable has returned.
LEMMA ReturnStep ==
  ASSUME IInv, ~aborted, NEW t \in Tasks,
         Return(t)
  PROVE  IInv'
<1> USE TasksAssumption, ValuesAssumption
    DEF IInv, TypeOK, Actors, record, Return, Goto
<1>1. TypeOK'
  OBVIOUS
<1>2. CallSound'
  BY DEF CallSound, Constructing, BeforeClear, AfterClear, InCall
<1>3. Ownership'
  BY DEF Ownership, CallSound, Holds, Constructing, BeforeClear, AfterClear,
         InCall
<1>4. Lifecycle'
  BY DEF Lifecycle, Ownership, CallSound, Joining, Holds,
         Constructing, BeforeClear, AfterClear, InCall
<1> QED
  BY <1>1, <1>2, <1>3, <1>4

\* The callable is destroyed before the token is given.
LEMMA DisposeStep ==
  ASSUME IInv, ~aborted, NEW t \in Tasks,
         Dispose(t)
  PROVE  IInv'
<1> USE TasksAssumption, ValuesAssumption
    DEF IInv, TypeOK, Actors, record, Dispose, Goto
<1>1. TypeOK'
  OBVIOUS
<1>2. CallSound'
  BY DEF CallSound, Constructing, BeforeClear, AfterClear, InCall
<1>3. Ownership'
  BY DEF Ownership, CallSound, Holds, Constructing, BeforeClear, AfterClear,
         InCall
<1>4. Lifecycle'
  BY DEF Lifecycle, Ownership, CallSound, Joining, Holds,
         Constructing, BeforeClear, AfterClear, InCall
<1> QED
  BY <1>1, <1>2, <1>3, <1>4

\* The token is given when the callable is gone.
LEMMA GiveStep ==
  ASSUME IInv, ~aborted, NEW t \in Tasks,
         Give(t)
  PROVE  IInv'
<1> USE TasksAssumption, ValuesAssumption
    DEF IInv, TypeOK, Actors, record, Give, Goto
<1>1. TypeOK'
  OBVIOUS
<1>2. CallSound'
  BY DEF CallSound, Constructing, BeforeClear, AfterClear, InCall
<1>3. Ownership'
  BY DEF Ownership, CallSound, Holds, Constructing, BeforeClear, AfterClear,
         InCall
<1>4. Lifecycle'
  BY DEF Lifecycle, Ownership, CallSound, Joining, Holds,
         Constructing, BeforeClear, AfterClear, InCall
<1> QED
  BY <1>1, <1>2, <1>3, <1>4

\* The task suspends itself.
LEMMA SuspendStep ==
  ASSUME IInv, ~aborted, NEW t \in Tasks,
         Suspend(t)
  PROVE  IInv'
<1> USE TasksAssumption, ValuesAssumption
    DEF IInv, TypeOK, Actors, record, Suspend, Goto
<1>1. TypeOK'
  OBVIOUS
<1>2. CallSound'
  BY DEF CallSound, Constructing, BeforeClear, AfterClear, InCall
<1>3. Ownership'
  BY DEF Ownership, CallSound, Holds, Constructing, BeforeClear, AfterClear,
         InCall
<1>4. Lifecycle'
  BY DEF Lifecycle, Ownership, CallSound, Joining, Holds,
         Constructing, BeforeClear, AfterClear, InCall
<1> QED
  BY <1>1, <1>2, <1>3, <1>4

\* The inductive invariant: who owns a record, who waits for its task, and how
\* far the task has come (thread.cpp:35-120).
THEOREM Invariance ==
  ASSUME Together = FALSE
  PROVE  Spec => []IInv
<1>1. Init => IInv
  <2> SUFFICES ASSUME Init
               PROVE  IInv
    OBVIOUS
  <2> USE TasksAssumption, ValuesAssumption DEF Init, Actors
  <2>1. TypeOK
    BY DEF TypeOK
  <2>2. CallSound
    BY DEF CallSound, Constructing, BeforeClear, AfterClear, InCall
  <2>3. Ownership
    BY DEF Ownership, Holds
  <2>4. Lifecycle
    BY DEF Lifecycle, Joining
  <2> QED
    BY <2>1, <2>2, <2>3, <2>4 DEF IInv
<1>2. IInv /\ [Next]_vars => IInv'
  <2> SUFFICES ASSUME IInv, [Next]_vars
               PROVE  IInv'
    OBVIOUS
  <2>1. CASE UNCHANGED vars
    BY <2>1 DEF IInv, TypeOK, CallSound, Ownership, Lifecycle, Holds, Joining,
                vars
  <2>2. ASSUME ~aborted, NEW a \in Actors, Client(a)
        PROVE  IInv'
    <3>1. PICK o \in Objects, other \in Objects :
            \/ DefaultConstruct(a, o) \/ MoveConstruct(a, o, other)
            \/ Swap(a, o, other) \/ MoveAssign(a, o, other) \/ Destroy(a, o)
            \/ (\E t \in Tasks : Construct(a, o, t)) \/ Join(a, o)
      BY <2>2 DEF Client
    <3>2. CASE MoveAssign(a, o, other)
      <4>1. Abort \/ Swap(a, o, other)
        BY <3>2 DEF MoveAssign, Swap
      <4> QED
        BY <2>2, <4>1, AbortStep, SwapStep
    <3> QED
      BY <2>2, <3>1, <3>2, DefaultConstructStep, MoveConstructStep, SwapStep,
         DestroyStep, ConstructStep, JoinStep
  <2>3. ASSUME ~aborted, NEW a \in Actors, Call(a)
        PROVE  IInv'
    BY <2>3, CreateStep, CreateFailsStep, AssignStep, JoinLockStep, JoinWaitStep,
       JoinRegiveStep, JoinClearStep, JoinUnlockStep, JoinKillStep, JoinFreeStep
       DEF Call
  <2>4. ASSUME ~aborted, NEW t \in Tasks, Return(t) \/ run_thread(t)
        PROVE  IInv'
    BY <2>4, EnterStep, ReturnStep, DisposeStep, GiveStep, SuspendStep
       DEF run_thread
  <2> QED
    BY <2>1, <2>2, <2>3, <2>4 DEF Next
<1> QED
  BY <1>1, <1>2, PTL DEF Spec

\* No task and no join uses a record that has been deleted, and none is deleted
\* while its task or a join still needs it (thread.cpp:63-64, 99-119).
THEOREM RecordOutlivesItsUse ==
  ASSUME Together = FALSE
  PROVE  Spec => []NoUseAfterDelete
<1>1. IInv => NoUseAfterDelete
  <2> SUFFICES ASSUME IInv, NEW a \in Actors, NEW t \in Tasks, Uses(a, t)
               PROVE  heap[t] = "live"
    BY DEF NoUseAfterDelete
  <2> USE DEF IInv
  <2>1. heap[t] \in {"unused", "live", "deleted"}
    BY DEF TypeOK
  <2>2. CASE a = t /\ pc[a] \in {"entry", "give"}
    BY <2>1, <2>2 DEF Lifecycle
  <2>3. CASE state[a] = t /\ pc[a] \in {"lock", "wait", "regive"}
    <3>1. obj[a] \in Objects /\ state_[obj[a]] = t
      BY <2>3 DEF TypeOK, CallSound, BeforeClear, InCall
    <3> QED
      BY <3>1 DEF Ownership
  <2>4. CASE state[a] = t /\ pc[a] \in {"create", "unlock", "kill", "free"}
    BY <2>4 DEF Ownership, Holds, Constructing, AfterClear
  <2> QED
    BY <2>2, <2>3, <2>4 DEF Uses
<1> QED
  BY <1>1, Invariance, PTL

\* join() goes on only when the thread has nothing left to do but to suspend
\* itself, and its callable is destroyed (thread.cpp:61-65, 106-116).
THEOREM JoinMeansOver ==
  ASSUME Together = FALSE
  PROVE  Spec => []JoinedIsOver
<1>1. IInv => JoinedIsOver
  BY DEF IInv, Lifecycle, JoinedIsOver
<1> QED
  BY <1>1, Invariance, PTL

\* Every live record has exactly one owner, an object, a constructor or a join,
\* and a deleted one has none (thread.cpp:35, 44-48, 92, 112).
THEOREM OwnedOnce ==
  ASSUME Together = FALSE
  PROVE  Spec => []OneOwner
<1>1. IInv => OneOwner
  <2> SUFFICES ASSUME IInv, NEW t \in Tasks
               PROVE  Cardinality(Owners(t)) = IF heap[t] = "live" THEN 1 ELSE 0
    BY DEF OneOwner
  <2>1. Owners(t) =
          {o \in Objects : state_[o] = t} \cup {a \in Actors : Holds(a, t)}
    BY DEF Owners, Holds, Constructing, AfterClear
  <2>2. CASE heap[t] # "live"
    <3>1. Owners(t) = {}
      BY <2>1, <2>2 DEF IInv, Ownership
    <3> QED
      BY <2>2, <3>1, FS_EmptySet
  <2>3. ASSUME NEW o \in Objects, state_[o] = t
        PROVE  Owners(t) = {o}
    BY <2>1, <2>3 DEF IInv, Ownership
  <2>4. ASSUME NEW a \in Actors, Holds(a, t)
        PROVE  Owners(t) = {a}
    BY <2>1, <2>4 DEF IInv, Ownership, Holds
  <2>5. CASE heap[t] = "live"
    <3>1. \E x : Owners(t) = {x}
      BY <2>3, <2>4, <2>5 DEF IInv, Ownership
    <3> QED
      BY <2>5, <3>1, FS_Singleton
  <2> QED
    BY <2>2, <2>5
<1> QED
  BY <1>1, Invariance, PTL

-----------------------------------------------------------------------------
(* Refinement of JoinableThreads *)

\* What absHandle is, without CHOOSE.
HandleSound ==
  /\ absHandle = [o \in Objects |-> absHandle[o]]
  /\ \A o \in Objects :
       /\ state_[o] # garbage => absHandle[o] = state_[o]
       /\ \A a \in Actors : Started(a, o) => absHandle[o] = state[a]
       /\ state_[o] = garbage /\ (\A a \in Actors : ~Started(a, o))
            => absHandle[o] = none

\* One constructor at most runs for an object.
LEMMA HandleIsSound == IInv => HandleSound
<1> SUFFICES ASSUME IInv
             PROVE  HandleSound
  OBVIOUS
<1>1. absHandle = [o \in Objects |-> absHandle[o]]
  BY DEF absHandle
<1>2. ASSUME NEW o \in Objects, state_[o] # garbage
      PROVE  absHandle[o] = state_[o]
  BY <1>2 DEF absHandle
<1>3. ASSUME NEW o \in Objects, NEW a \in Actors, Started(a, o)
      PROVE  absHandle[o] = state[a] /\ state_[o] = garbage
  <2>1. state_[o] = garbage
    BY <1>3 DEF Started, IInv, CallSound, Constructing
  <2>2. obj[a] # none
    BY <1>3 DEF Started, IInv, CallSound, Constructing, InCall
  <2>3. \A b \in Actors : Started(b, o) => b = a
    BY <1>3, <2>2 DEF Started, IInv, CallSound
  <2>4. (CHOOSE b \in Actors : Started(b, o)) = a
    BY <1>3, <2>3
  <2> QED
    BY <1>3, <2>1, <2>4 DEF absHandle
<1>4. ASSUME NEW o \in Objects, state_[o] = garbage,
             \A a \in Actors : ~Started(a, o)
      PROVE  absHandle[o] = none
  BY <1>4 DEF absHandle
<1> QED
  BY <1>1, <1>2, <1>3, <1>4 DEF HandleSound

LEMMA HandleIsSoundNext ==
  ASSUME IInv'
  PROVE  HandleSound'
BY HandleIsSound, PTL

\* A step that leaves an object and its constructor alone leaves its thread.
LEMMA SameHandle ==
  ASSUME HandleSound, HandleSound', NEW o \in Objects,
         state_'[o] = state_[o],
         \A a \in Actors :
           /\ Started(a, o)' <=> Started(a, o)
           /\ Started(a, o) => state'[a] = state[a]
  PROVE  absHandle'[o] = absHandle[o]
<1>1. CASE state_[o] # garbage
  BY <1>1 DEF HandleSound
<1>2. CASE state_[o] = garbage /\ \E a \in Actors : Started(a, o)
  BY <1>2 DEF HandleSound
<1>3. CASE state_[o] = garbage /\ \A a \in Actors : ~Started(a, o)
  BY <1>3 DEF HandleSound
<1> QED
  BY <1>1, <1>2, <1>3

LEMMA SameHandles ==
  ASSUME HandleSound, HandleSound',
         UNCHANGED state_,
         \A a \in Actors, o \in Objects :
           /\ Started(a, o)' <=> Started(a, o)
           /\ Started(a, o) => state'[a] = state[a]
  PROVE  UNCHANGED absHandle
<1>1. \A o \in Objects : absHandle'[o] = absHandle[o]
  BY SameHandle
<1>2. /\ absHandle = [o \in Objects |-> absHandle[o]]
      /\ absHandle' = [o \in Objects |-> absHandle'[o]]
  BY DEF HandleSound
<1> QED
  BY <1>1, <1>2

\* A step that starts and ends no task leaves the life of all.
LEMMA SameLife ==
  ASSUME \A t \in Tasks : /\ pc'[t] = "none" <=> pc[t] = "none"
                          /\ pc'[t] \in Over <=> pc[t] \in Over
  PROVE  UNCHANGED absLife
BY DEF absLife

\* An object that nobody constructs or joins owns what state_ says.
LEMMA IdleHandle ==
  ASSUME IInv, ~aborted, NEW o \in Objects, Idle(o)
  PROVE  state_[o] # garbage /\ absHandle[o] = state_[o]
BY HandleIsSound DEF IInv, CallSound, Idle, HandleSound

\* Client code moves threads between idle objects, and nothing else.
LEMMA ClientMapped ==
  ASSUME IInv, IInv', ~aborted, NEW o \in Objects, NEW other \in Objects,
         Idle(o), Idle(other), UNCHANGED <<pc, obj, state>>,
         NEW f, NEW g, f # garbage, g # garbage,
         state_' = [state_ EXCEPT ![o] = f, ![other] = g]
  PROVE  /\ absHandle' = [absHandle EXCEPT ![o] = f, ![other] = g]
         /\ UNCHANGED absLife
<1> USE HandleIsSound, HandleIsSoundNext
<1>1. UNCHANGED absLife
  BY DEF absLife
<1>2. /\ state_'[other] = g
      /\ o # other => state_'[o] = f
      /\ \A x \in Objects : x # o /\ x # other => state_'[x] = state_[x]
  BY DEF IInv, TypeOK
<1>3. /\ absHandle'[other] = g
      /\ o # other => absHandle'[o] = f
  BY <1>2 DEF HandleSound
<1>4. \A x \in Objects : x # o /\ x # other => absHandle'[x] = absHandle[x]
  BY <1>2, SameHandle DEF Started
<1>5. /\ absHandle = [x \in Objects |-> absHandle[x]]
      /\ absHandle' = [x \in Objects |-> absHandle'[x]]
  BY DEF HandleSound
<1>6. absHandle' = [absHandle EXCEPT ![o] = f, ![other] = g]
  BY <1>3, <1>4, <1>5
<1> QED
  BY <1>1, <1>6

LEMMA DefaultConstructMapped ==
  ASSUME IInv, IInv', ~aborted, NEW a \in Actors, NEW o \in Objects,
         DefaultConstruct(a, o)
  PROVE  JT!DefaultConstruct(o)
<1>1. absHandle[o] = none
  BY IdleHandle DEF DefaultConstruct
<1>2. /\ state_' = [state_ EXCEPT ![o] = nullptr, ![o] = nullptr]
      /\ Idle(o) /\ UNCHANGED <<pc, obj, state>>
      /\ nullptr # garbage
  BY ValuesAssumption DEF DefaultConstruct
<1>3. /\ absHandle' = [absHandle EXCEPT ![o] = nullptr, ![o] = nullptr]
      /\ UNCHANGED absLife
  BY <1>2, ClientMapped
<1> QED
  BY <1>1, <1>3 DEF JT!DefaultConstruct

LEMMA MoveConstructMapped ==
  ASSUME IInv, IInv', ~aborted, NEW a \in Actors, NEW o \in Objects,
         NEW other \in Objects, MoveConstruct(a, o, other)
  PROVE  JT!MoveConstruct(o, other)
<1>1. /\ absHandle[o] = none
      /\ absHandle[other] = state_[other]
      /\ state_[other] # none /\ state_[other] # garbage
  BY IdleHandle DEF MoveConstruct
<1>2. /\ absHandle' = [absHandle EXCEPT ![o] = state_[other], ![other] = nullptr]
      /\ UNCHANGED absLife
  BY <1>1, ClientMapped, ValuesAssumption DEF MoveConstruct
<1> QED
  BY <1>1, <1>2 DEF JT!MoveConstruct

LEMMA SwapMapped ==
  ASSUME IInv, IInv', ~aborted, NEW a \in Actors, NEW o \in Objects,
         NEW other \in Objects, Swap(a, o, other)
  PROVE  JT!Swap(o, other)
<1>1. /\ absHandle[o] = state_[o] /\ absHandle[other] = state_[other]
      /\ state_[o] # none /\ state_[other] # none
      /\ state_[o] # garbage /\ state_[other] # garbage
  BY IdleHandle DEF Swap
<1>2. /\ absHandle' = [absHandle EXCEPT ![o] = state_[other], ![other] = state_[o]]
      /\ UNCHANGED absLife
  BY <1>1, ClientMapped DEF Swap, Swapped
<1> QED
  BY <1>1, <1>2 DEF JT!Swap

LEMMA DestroyMapped ==
  ASSUME IInv, IInv', ~aborted, NEW a \in Actors, NEW o \in Objects,
         Destroy(a, o), ~Abort
  PROVE  JT!Destroy(o)
<1>1. absHandle[o] = nullptr
  BY IdleHandle DEF Destroy, joinable
<1>2. /\ state_' = [state_ EXCEPT ![o] = none, ![o] = none]
      /\ Idle(o) /\ UNCHANGED <<pc, obj, state>>
      /\ none # garbage
  BY ValuesAssumption DEF Destroy
<1>3. /\ absHandle' = [absHandle EXCEPT ![o] = none, ![o] = none]
      /\ UNCHANGED absLife
  BY <1>2, ClientMapped
<1> QED
  BY <1>1, <1>3 DEF JT!Destroy

\* A new task starts, for the object that is under construction.
LEMMA CreateMapped ==
  ASSUME IInv, IInv', NEW a \in Actors, Create(a)
  PROVE  JT!Start(obj[a], state[a])
<1> USE HandleIsSound, HandleIsSoundNext DEF IInv
<1> DEFINE o == obj[a]
           t == state[a]
<1>1. /\ o \in Objects /\ t \in Tasks /\ o # none
      /\ state_[o] = garbage
      /\ \A b \in Actors : obj[b] = o => b = a
      /\ pc[a] = "create" /\ pc[t] = "none"
      /\ t \in Actors /\ t # a
  <2>1. pc[a] = "create"
    BY DEF Create
  <2>2. t \in Tasks /\ o # none /\ state_[o] = garbage
    BY <2>1 DEF CallSound, Constructing, InCall
  <2>3. o \in Objects
    BY <2>2 DEF TypeOK
  <2>4. \A b \in Actors : obj[b] = o => b = a
    BY <2>2 DEF CallSound
  <2>5. pc[t] = "none"
    BY <2>1, <2>2 DEF Lifecycle
  <2> QED
    BY <2>1, <2>2, <2>3, <2>4, <2>5 DEF Actors
<1>2. /\ pc'[a] = "assign" /\ pc'[t] = "entry"
      /\ \A b \in Actors : b # a /\ b # t => pc'[b] = pc[b]
      /\ UNCHANGED <<state_, obj, state>>
  BY <1>1 DEF Create, TypeOK
<1>3. absHandle[o] = none
  BY <1>1 DEF HandleSound, Started, Create
<1>4. absHandle'[o] = t
  BY <1>1, <1>2 DEF HandleSound, Started
<1>5. \A x \in Objects : x # o => absHandle'[x] = absHandle[x]
  <2> SUFFICES ASSUME NEW x \in Objects, x # o
               PROVE  absHandle'[x] = absHandle[x]
    OBVIOUS
  <2>1. \A b \in Actors : Started(b, x)' <=> Started(b, x)
    BY <1>1, <1>2 DEF Started
  <2> QED
    BY <1>2, <2>1, SameHandle
<1>6. absHandle' = [absHandle EXCEPT ![o] = t]
  BY <1>1, <1>3, <1>4, <1>5 DEF HandleSound
<1>7. absLife[t] = "unused" /\ absLife'[t] = "running"
  BY <1>1, <1>2 DEF absLife, Over
<1>8. \A x \in Tasks : x # t => absLife'[x] = absLife[x]
  BY <1>1, <1>2 DEF absLife, Over, Actors
<1>9. absLife' = [absLife EXCEPT ![t] = "running"]
  BY <1>1, <1>7, <1>8 DEF absLife
<1> QED
  BY <1>3, <1>6, <1>7, <1>9 DEF JT!Start

\* A join lets go of its thread, which is over.
LEMMA JoinClearMapped ==
  ASSUME IInv, IInv', NEW a \in Actors, JoinClear(a)
  PROVE  JT!Join(obj[a])
<1> USE HandleIsSound, HandleIsSoundNext DEF IInv
<1> DEFINE o == obj[a]
           t == state[a]
<1>1. /\ o \in Objects /\ t \in Tasks /\ o # none
      /\ state_[o] = t /\ t # garbage
      /\ pc[a] = "clear"
  BY TasksAssumption
  DEF JoinClear, Goto, TypeOK, CallSound, BeforeClear, InCall
<1>2. pc[t] \in Over
  BY <1>1 DEF Lifecycle, Joining, Over
<1>3. absHandle[o] = t
  BY <1>1 DEF HandleSound
<1>4. /\ UNCHANGED <<obj, state>>
      /\ pc'[a] = "unlock"
      /\ \A b \in Actors : b # a => pc'[b] = pc[b]
      /\ state_'[o] = nullptr
      /\ \A x \in Objects : x # o => state_'[x] = state_[x]
  BY <1>1 DEF JoinClear, Goto, TypeOK
<1>5. absHandle'[o] = nullptr
  BY <1>1, <1>4, ValuesAssumption DEF HandleSound
<1>6. \A x \in Objects : x # o => absHandle'[x] = absHandle[x]
  <2>1. \A x \in Objects, b \in Actors : Started(b, x)' <=> Started(b, x)
    BY <1>1, <1>4 DEF Started
  <2> QED
    BY <1>4, <2>1, SameHandle
<1>7. absHandle' = [absHandle EXCEPT ![o] = nullptr]
  BY <1>5, <1>6 DEF HandleSound
<1>8. UNCHANGED absLife
  <2>1. ASSUME NEW b \in Tasks
        PROVE  /\ pc'[b] = "none" <=> pc[b] = "none"
               /\ pc'[b] \in Over <=> pc[b] \in Over
    BY <1>1, <1>4 DEF Over, Actors
  <2> QED
    BY <2>1, SameLife
<1>9. absLife[t] = "over"
  BY <1>1, <1>2 DEF absLife, Over
<1> QED
  BY <1>1, <1>3, <1>7, <1>8, <1>9 DEF JT!Join

\* A thread is over when its callable has returned and is destroyed.
LEMMA DisposeMapped ==
  ASSUME IInv, IInv', NEW t \in Tasks, Dispose(t)
  PROVE  JT!Finish(t)
<1> USE HandleIsSound, HandleIsSoundNext
<1>1. /\ pc[t] = "dispose" /\ pc'[t] = "give"
      /\ \A b \in Actors : b # t => pc'[b] = pc[b]
      /\ UNCHANGED <<state_, obj, state>>
  BY DEF Dispose, Goto, IInv, TypeOK, Actors
<1>2. UNCHANGED absHandle
  BY <1>1, SameHandles DEF Started
<1>3. absLife[t] = "running" /\ absLife' = [absLife EXCEPT ![t] = "over"]
  BY <1>1 DEF absLife, Over, Actors
<1> QED
  BY <1>2, <1>3 DEF JT!Finish

\* A step of one actor that starts, ends and hands over nothing.
LEMMA HiddenGoto ==
  ASSUME IInv, IInv', NEW b \in Actors,
         UNCHANGED state_,
         pc[b] \notin {"none", "assign"},
         pc'[b] \notin {"none", "assign"},
         pc'[b] \in Over <=> pc[b] \in Over,
         \A a \in Actors : a # b => UNCHANGED <<pc[a], obj[a], state[a]>>
  PROVE  UNCHANGED <<absHandle, absLife>>
<1> USE HandleIsSound, HandleIsSoundNext
<1>1. UNCHANGED absHandle
  <2>1. ASSUME NEW a \in Actors, NEW o \in Objects
        PROVE  /\ Started(a, o)' <=> Started(a, o)
               /\ Started(a, o) => state'[a] = state[a]
    BY DEF Started
  <2> QED
    BY <2>1, SameHandles
<1>2. UNCHANGED absLife
  <2>1. ASSUME NEW t \in Tasks
        PROVE  /\ pc'[t] = "none" <=> pc[t] = "none"
               /\ pc'[t] \in Over <=> pc[t] \in Over
    BY DEF Actors
  <2> QED
    BY <2>1, SameLife
<1> QED
  BY <1>1, <1>2

\* A failed assert shows to nobody: the program stops.
LEMMA AbortHidden ==
  ASSUME IInv, IInv', UNCHANGED <<state_, pc, obj, state>>
  PROVE  UNCHANGED <<absHandle, absLife>>
<1>1. UNCHANGED absHandle
  BY SameHandles, HandleIsSound, HandleIsSoundNext DEF Started
<1>2. UNCHANGED absLife
  BY DEF absLife
<1> QED
  BY <1>1, <1>2

\* Until its task is created the new object is not there.
LEMMA ConstructHidden ==
  ASSUME IInv, IInv', ~aborted, NEW a \in Actors, NEW o \in Objects,
         NEW t \in Tasks, Construct(a, o, t)
  PROVE  UNCHANGED <<absHandle, absLife>>
<1> USE HandleIsSound, HandleIsSoundNext
<1>1. /\ pc[a] = "client" /\ pc'[a] = "create"
      /\ state_[o] = none /\ state_'[o] = garbage
      /\ obj'[a] = o
      /\ \A b \in Actors : obj[b] # o
      /\ \A b \in Actors : b # a => UNCHANGED <<pc[b], obj[b], state[b]>>
      /\ \A x \in Objects : x # o => state_'[x] = state_[x]
  BY DEF Construct, Goto, Idle, IInv, TypeOK
<1>2. \A b \in Actors : ~Started(b, o)'
  BY <1>1 DEF Started
<1>3. absHandle[o] = none /\ absHandle'[o] = none
  BY <1>1, <1>2, ValuesAssumption DEF HandleSound
<1>4. \A x \in Objects : x # o => absHandle'[x] = absHandle[x]
  <2>1. \A x \in Objects, b \in Actors :
          /\ Started(b, x)' <=> Started(b, x)
          /\ Started(b, x) => state'[b] = state[b]
    BY <1>1 DEF Started
  <2> QED
    BY <1>1, <2>1, SameHandle
<1>5. UNCHANGED absHandle
  BY <1>3, <1>4 DEF HandleSound
<1>6. UNCHANGED absLife
  BY <1>1, SameLife DEF Actors, Over
<1> QED
  BY <1>5, <1>6

\* state_ now says what has been so since the task was created.
LEMMA AssignHidden ==
  ASSUME IInv, IInv', NEW a \in Actors, Assign(a)
  PROVE  UNCHANGED <<absHandle, absLife>>
<1> USE HandleIsSound, HandleIsSoundNext
<1> DEFINE o == obj[a]
           t == state[a]
<1>1. /\ o \in Objects /\ t \in Tasks /\ t # garbage /\ o # none
      /\ pc[a] = "assign" /\ pc'[a] = "client"
      /\ state_'[o] = t
      /\ \A b \in Actors : b # a => UNCHANGED <<pc[b], obj[b], state[b]>>
      /\ \A x \in Objects : x # o => state_'[x] = state_[x]
  BY TasksAssumption
  DEF Assign, Goto, IInv, TypeOK, CallSound, Constructing, InCall
<1>2. absHandle[o] = t
  BY <1>1 DEF HandleSound, Started
<1>3. absHandle'[o] = t
  BY <1>1 DEF HandleSound
<1>4. \A x \in Objects : x # o => absHandle'[x] = absHandle[x]
  <2>1. \A x \in Objects, b \in Actors :
          x # o => /\ Started(b, x)' <=> Started(b, x)
                   /\ Started(b, x) => state'[b] = state[b]
    BY <1>1 DEF Started
  <2> QED
    BY <1>1, <2>1, SameHandle
<1>5. UNCHANGED absHandle
  BY <1>2, <1>3, <1>4 DEF HandleSound
<1>6. UNCHANGED absLife
  BY <1>1, SameLife DEF Actors, Over
<1> QED
  BY <1>5, <1>6

\* vTaskDelete deletes a task that is over.
LEMMA JoinKillHidden ==
  ASSUME IInv, IInv', NEW a \in Actors, JoinKill(a)
  PROVE  UNCHANGED <<absHandle, absLife>>
<1> USE HandleIsSound, HandleIsSoundNext
<1> DEFINE t == state[a]
<1>1. /\ t \in Tasks /\ t \in Actors /\ t # a
      /\ pc[a] = "kill" /\ pc[t] \in {"suspend", "suspended", "deleted"}
  BY DEF JoinKill, IInv, TypeOK, CallSound, AfterClear, InCall, Lifecycle, Joining,
     Actors
<1>2. /\ pc'[a] = "free" /\ pc'[t] = "deleted"
      /\ \A b \in Actors : b # a /\ b # t => pc'[b] = pc[b]
      /\ UNCHANGED <<state_, obj, state>>
  BY <1>1 DEF JoinKill, IInv, TypeOK
<1>3. UNCHANGED absHandle
  <2>1. \A b \in Actors, o \in Objects : Started(b, o)' <=> Started(b, o)
    BY <1>1, <1>2 DEF Started
  <2> QED
    BY <1>2, <2>1, SameHandles
<1>4. UNCHANGED absLife
  <2>1. ASSUME NEW b \in Tasks
        PROVE  /\ pc'[b] = "none" <=> pc[b] = "none"
               /\ pc'[b] \in Over <=> pc[b] \in Over
    BY <1>1, <1>2 DEF Actors, Over
  <2> QED
    BY <2>1, SameLife
<1> QED
  BY <1>3, <1>4

\* The other steps of constructors and joins.
LEMMA CallHidden ==
  ASSUME IInv, IInv', NEW a \in Actors,
         \/ CreateFails(a)
         \/ JoinLock(a)
         \/ JoinWait(a)
         \/ JoinRegive(a)
         \/ JoinUnlock(a)
         \/ JoinFree(a)
         \/ \E o \in Objects : Join(a, o)
  PROVE  UNCHANGED <<absHandle, absLife>>
<1>1. CASE Abort
  BY <1>1, AbortHidden DEF Abort
<1>2. CASE ~Abort
  <2>1. /\ UNCHANGED state_
        /\ pc[a] \in {"client", "create", "lock", "wait", "regive", "unlock", "free"}
        /\ pc'[a] \in {"client", "lock", "wait", "regive", "clear", "kill"}
        /\ \A b \in Actors : b # a => UNCHANGED <<pc[b], obj[b], state[b]>>
    BY <1>2 DEF CreateFails, JoinLock, JoinWait, JoinRegive, JoinUnlock, JoinFree,
       Join, Goto, IInv, TypeOK
  <2> QED
    BY <2>1, HiddenGoto DEF Over
<1> QED
  BY <1>1, <1>2

\* The steps of a task that show to nobody.
LEMMA TaskHidden ==
  ASSUME IInv, IInv', NEW t \in Tasks,
         \/ Enter(t)
         \/ Return(t)
         \/ Give(t)
         \/ Suspend(t)
  PROVE  UNCHANGED <<absHandle, absLife>>
<1>1. /\ UNCHANGED <<state_, obj, state>>
      /\ t \in Actors
      /\ \/ pc[t] \in {"entry", "client"} /\ pc'[t] \in {"client", "dispose"}
         \/ pc[t] \in {"give", "suspend"} /\ pc'[t] \in {"suspend", "suspended"}
      /\ \A b \in Actors : b # t => pc'[b] = pc[b]
  BY DEF Enter, Return, Give, Suspend, Goto, IInv, TypeOK, Actors
<1> QED
  BY <1>1, HiddenGoto DEF Over

\* What client code does is a step of JoinableThreads, or the begin of a
\* constructor or join, or a failed assert.
LEMMA ClientStepMapped ==
  ASSUME IInv, IInv', ~aborted, NEW a \in Actors, Client(a)
  PROVE  JT!Next \/ UNCHANGED <<absHandle, absLife>>
<1>1. PICK o \in Objects, other \in Objects :
        \/ DefaultConstruct(a, o) \/ MoveConstruct(a, o, other)
        \/ Swap(a, o, other) \/ MoveAssign(a, o, other) \/ Destroy(a, o)
        \/ (\E t \in Tasks : Construct(a, o, t)) \/ Join(a, o)
  BY DEF Client
<1>2. CASE Abort
  BY <1>2, AbortHidden DEF Abort
<1>3. CASE DefaultConstruct(a, o)
  BY <1>3, DefaultConstructMapped DEF JT!Next
<1>4. CASE MoveConstruct(a, o, other)
  BY <1>4, MoveConstructMapped DEF JT!Next
<1>5. CASE Swap(a, o, other)
  BY <1>5, SwapMapped DEF JT!Next
<1>6. CASE MoveAssign(a, o, other) /\ ~Abort
  <2>1. Swap(a, o, other)
    BY <1>6 DEF MoveAssign, Swap
  <2> QED
    BY <2>1, SwapMapped DEF JT!Next
<1>7. CASE Destroy(a, o) /\ ~Abort
  BY <1>7, DestroyMapped DEF JT!Next
<1>8. CASE \E t \in Tasks : Construct(a, o, t)
  BY <1>8, ConstructHidden
<1>9. CASE Join(a, o)
  BY <1>9, CallHidden
<1> QED
  BY <1>1, <1>2, <1>3, <1>4, <1>5, <1>6, <1>7, <1>8, <1>9

\* Thread implements JoinableThreads: objects neither lose nor share a thread,
\* and join() lets go of one that is over (thread.cpp:35, 44-48, 58-116).
THEOREM Refinement ==
  ASSUME Together = FALSE
  PROVE  Spec => ImplementsThreads
<1>1. Init => JT!Init
  <2> SUFFICES ASSUME Init
               PROVE  JT!Init
    OBVIOUS
  <2>1. absHandle = [o \in Objects |-> none]
    BY ValuesAssumption DEF Init, absHandle
  <2>2. \A t \in Tasks : pc[t] = "none"
    BY TasksAssumption DEF Init, Actors
  <2>3. absLife = [t \in Tasks |-> "unused"]
    <3>1. \A t \in Tasks : absLife[t] = "unused"
      BY <2>2 DEF absLife, Over
    <3> QED
      BY <3>1 DEF absLife
  <2> QED
    BY <2>1, <2>3 DEF JT!Init
<1>2. IInv /\ IInv' /\ [Next]_vars => [JT!Next]_(JT!vars)
  <2> SUFFICES ASSUME IInv, IInv', [Next]_vars
               PROVE  JT!Next \/ UNCHANGED <<absHandle, absLife>>
    BY DEF JT!vars
  <2>1. CASE UNCHANGED vars
    BY <2>1, AbortHidden DEF vars
  <2>2. ASSUME ~aborted, NEW a \in Actors, Client(a)
        PROVE  JT!Next \/ UNCHANGED <<absHandle, absLife>>
    BY <2>2, ClientStepMapped
  <2>3. ASSUME NEW a \in Actors, Create(a) \/ JoinClear(a)
        PROVE  JT!Next
    <3>1. obj[a] \in Objects /\ state[a] \in Tasks
      BY <2>3 DEF Create, JoinClear, Goto, IInv, TypeOK, CallSound, Constructing,
         BeforeClear, InCall
    <3> QED
      BY <2>3, <3>1, CreateMapped, JoinClearMapped DEF JT!Next
  <2>4. ASSUME NEW a \in Actors, Call(a)
        PROVE  JT!Next \/ UNCHANGED <<absHandle, absLife>>
    BY <2>3, <2>4, CallHidden, AssignHidden, JoinKillHidden DEF Call
  <2>5. ASSUME NEW t \in Tasks, Return(t) \/ run_thread(t)
        PROVE  JT!Next \/ UNCHANGED <<absHandle, absLife>>
    BY <2>5, TaskHidden, DisposeMapped DEF run_thread, JT!Next
  <2> QED
    BY <2>1, <2>2, <2>4, <2>5 DEF Next
<1> QED
  BY <1>1, <1>2, Invariance, PTL DEF Spec, JT!Spec, ImplementsThreads
=============================================================================
