----------------------------- MODULE QueueProofs -----------------------------
(***************************************************************************)
(* Theorems about Queue, for any finite sets of producers and consumers,   *)
(* any capacity, any number of values and any length of the tables of      *)
(* waiting tasks: nobody waits in vain, and the queue implements Channel.  *)
(***************************************************************************)
EXTENDS Queue, CondVarOptProofs

\* Every step of the queue is a step of the condition variables, or none.
LEMMA StepOfCondVar == [NextQueue]_allVars => [Next]_vars
<1> SUFFICES ASSUME [NextQueue]_allVars PROVE [Next]_vars
  OBVIOUS
<1>1. CASE UNCHANGED allVars \/ Quiescent
  BY <1>1 DEF allVars, Quiescent
<1>2. ASSUME NEW t \in Threads, Step(t)
      PROVE  [Next]_vars
  <2> USE <1>2, CVsAssumption DEF Step, Next
  <2>1. CASE Begin(t)
    BY <2>1 DEF Begin
  <2>2. CASE Await(t)
    BY <2>2 DEF Await, WaitsOn
  <2>3. CASE Awake(t)
    BY <2>3 DEF Awake, Internal
  <2>4. CASE Put(t) \/ Published(t) \/ Take(t) \/ Consumed(t)
    BY <2>4 DEF Put, Published, Take, Consumed
  <2>5. CASE Notify(t)
    BY <2>5 DEF Notify, Notifies
  <2>6. CASE Notified(t)
    BY <2>6 DEF Notified, Internal
  <2>7. CASE End(t)
    BY <2>7 DEF End
  <2>8. CASE CondVarStep(t)
    BY <2>8 DEF CondVarStep, Internal
  <2> QED
    BY <2>1, <2>2, <2>3, <2>4, <2>5, <2>6, <2>7, <2>8
<1> QED
  BY <1>1, <1>2 DEF NextQueue

\* What holds of the condition variables holds of those of the queue.
LEMMA ImplementsCondVarOpt == SpecQueue => Spec
<1>1. InitQueue => Init
  BY DEF InitQueue
<1> QED
  BY <1>1, StepOfCondVar, PTL DEF SpecQueue, Spec

-----------------------------------------------------------------------------
(* The queue's own steps *)

\* The mutex is held from the check on: at most one thread has checked and not
\* yet notified.
LEMMA OneNotifier ==
  ASSUME IInv, WaitingSound, NEW t \in Threads, NEW u \in Threads,
         mutex = t, at[u] \in {"check", "notify", "notifying", "unlock"}
  PROVE  u = t
BY DEF WaitingSound, Positions

\* A thread registers while its reason to wait holds.
LEMMA AwaitStep ==
  ASSUME IInv, IInv', WaitingSound, NEW t \in Threads, Await(t)
  PROVE  WaitingSound'
<1> USE DEF WaitingSound, TypeOKQueue
<1>1. TypeOKQueue' /\ Bounded'
  BY DEF IInv, Await, Goto, Bounded
<1>2. Positions'
  BY DEF Positions, Await, Goto, Wait, WaitsOn, Notifies, TypeOK
<1>3. WaitersSound'
  <2> SUFFICES ASSUME NEW w \in Threads, Registered(w, WaitsOn(w))'
               PROVE  \/ MustWait(w)'
                      \/ \E u \in Threads :
                           /\ at'[u] \in {"notify", "notifying"}
                           /\ Notifies(u) = WaitsOn(w)
    BY DEF WaitersSound, Notifies, WaitsOn
  <2>1. MustWait(w)' <=> MustWait(w)
    BY DEF Await, MustWait
  <2>2. CASE w = t
    BY <2>1, <2>2 DEF Await
  <2>3. CASE w # t
    <3>1. Registered(w, WaitsOn(w))
      BY <2>3, NullAssumption DEF Registered, WaitsOn, Await, Wait, Overwritten,
                                  FirstSlot, TypeOK
    <3>2. \A u \in Threads : at[u] \in {"notify", "notifying"} => at'[u] = at[u]
      BY DEF Await, Goto
    <3> QED
      BY <2>1, <3>1, <3>2 DEF WaitersSound
  <2> QED
    BY <2>2, <2>3
<1> QED
  BY <1>1, <1>2, <1>3

\* The mutex is taken before the check.
LEMMA BeginStep ==
  ASSUME IInv, IInv', WaitingSound, NEW t \in Threads, Begin(t)
  PROVE  WaitingSound'
<1> USE DEF WaitingSound, TypeOKQueue
<1>1. TypeOKQueue' /\ Bounded'
  BY DEF IInv, Begin, Goto, Bounded
<1>2. Positions'
  BY NullAssumption DEF Positions, Begin, Goto, WaitsOn, Notifies, TypeOK, Lock,
                        locals
<1>3. WaitersSound'
  <2>1. \A w \in Threads : Registered(w, WaitsOn(w))' => Registered(w, WaitsOn(w))
    BY NullAssumption DEF Registered, WaitsOn, Begin, Lock, locals
  <2>2. \A w \in Threads : MustWait(w)' <=> MustWait(w)
    BY DEF MustWait, Begin
  <2>3. \A u \in Threads : at[u] \in {"notify", "notifying"} =>
                              at'[u] \in {"notify", "notifying"}
    BY DEF Begin, Goto
  <2> QED
    BY <2>1, <2>2, <2>3 DEF WaitersSound, WaitsOn, Notifies
<1> QED
  BY <1>1, <1>2, <1>3

\* A thread that has woken up holds the mutex and checks again.
LEMMA AwakeStep ==
  ASSUME IInv, IInv', WaitingSound, NEW t \in Threads, Awake(t)
  PROVE  WaitingSound'
<1> USE DEF WaitingSound, TypeOKQueue
<1>1. TypeOKQueue' /\ Bounded'
  BY DEF IInv, Awake, Goto, Bounded
<1>2. Positions'
  BY DEF Positions, Awake, Goto, WaitsOn, Notifies, TypeOK, Dequeue, locks, IInv,
         WaitHoldsLock
<1>3. WaitersSound'
  <2>1. \A w \in Threads : Registered(w, WaitsOn(w))' => Registered(w, WaitsOn(w))
    BY NullAssumption DEF Registered, WaitsOn, Awake, Dequeue, IInv, LocalsSound,
                          TypeOK, Overwritten, FirstSlot
  <2>2. \A w \in Threads : MustWait(w)' <=> MustWait(w)
    BY DEF MustWait, Awake
  <2>3. \A u \in Threads : at[u] \in {"notify", "notifying"} =>
                              at'[u] \in {"notify", "notifying"}
    BY DEF Awake, Goto
  <2> QED
    BY <2>1, <2>2, <2>3 DEF WaitersSound, WaitsOn, Notifies
<1> QED
  BY <1>1, <1>2, <1>3

\* The notification begins under the mutex.
LEMMA NotifyStep ==
  ASSUME IInv, IInv', WaitingSound, NEW t \in Threads, Notify(t)
  PROVE  WaitingSound'
<1> USE DEF WaitingSound, TypeOKQueue
<1>1. TypeOKQueue' /\ Bounded'
  BY DEF IInv, Notify, Goto, Bounded
<1>2. Positions'
  BY DEF Positions, Notify, Goto, WaitsOn, Notifies, TypeOK, NotifyAll
<1>3. WaitersSound'
  <2>1. \A w \in Threads : Registered(w, WaitsOn(w))' => Registered(w, WaitsOn(w))
    BY NullAssumption DEF Registered, WaitsOn, Notify, NotifyAll
  <2>2. \A w \in Threads : MustWait(w)' <=> MustWait(w)
    BY DEF MustWait, Notify
  <2>3. \A u \in Threads : at[u] \in {"notify", "notifying"} =>
                              at'[u] \in {"notify", "notifying"}
    BY DEF Notify, Goto
  <2> QED
    BY <2>1, <2>2, <2>3 DEF WaitersSound, WaitsOn, Notifies
<1> QED
  BY <1>1, <1>2, <1>3

\* The mutex is given back.
LEMMA EndStep ==
  ASSUME IInv, IInv', WaitingSound, NEW t \in Threads, End(t)
  PROVE  WaitingSound'
<1> USE DEF WaitingSound, TypeOKQueue
<1>1. TypeOKQueue' /\ Bounded'
  BY DEF IInv, End, Goto, Bounded
<1>2. Positions'
  BY DEF Positions, End, Goto, WaitsOn, Notifies, TypeOK, Unlock, locals
<1>3. WaitersSound'
  <2>1. \A w \in Threads : Registered(w, WaitsOn(w))' => Registered(w, WaitsOn(w))
    BY NullAssumption DEF Registered, WaitsOn, End, Unlock, locals
  <2>2. \A w \in Threads : MustWait(w)' <=> MustWait(w)
    BY DEF MustWait, End
  <2>3. \A u \in Threads : at[u] \in {"notify", "notifying"} =>
                              at'[u] \in {"notify", "notifying"}
    BY DEF End, Goto
  <2> QED
    BY <2>1, <2>2, <2>3 DEF WaitersSound, WaitsOn, Notifies
<1> QED
  BY <1>1, <1>2, <1>3

\* The next value is due, or none.
LEMMA PublishedStep ==
  ASSUME IInv, IInv', WaitingSound, NEW p \in Producers, Published(p)
  PROVE  WaitingSound'
<1> USE RolesAssumption, ValuesAssumption DEF WaitingSound, TypeOKQueue
<1>a. p \in Threads /\ val[p] \in Nat /\ val[p] < Values
  BY DEF Positions, Published, Goto
<1>1. TypeOKQueue' /\ Bounded'
  BY <1>a DEF IInv, Published, Goto, Bounded
<1>2. Positions'
  BY <1>a DEF Positions, Published, Goto, WaitsOn, Notifies, TypeOK, vars
<1>3. WaitersSound'
  <2>1. \A w \in Threads : Registered(w, WaitsOn(w))' => Registered(w, WaitsOn(w))
    BY NullAssumption DEF Registered, WaitsOn, Published, vars
  <2>2. \A w \in Threads : MustWait(w)' <=> MustWait(w)
    BY DEF MustWait, Published
  <2>3. \A u \in Threads : at[u] \in {"notify", "notifying"} =>
                              at'[u] \in {"notify", "notifying"}
    BY DEF Published, Goto
  <2> QED
    BY <2>1, <2>2, <2>3 DEF WaitersSound, WaitsOn, Notifies
<1> QED
  BY <1>1, <1>2, <1>3

\* The item has been printed.
LEMMA ConsumedStep ==
  ASSUME IInv, IInv', WaitingSound, NEW c \in Consumers, Consumed(c)
  PROVE  WaitingSound'
<1> USE DEF WaitingSound, TypeOKQueue
<1>1. TypeOKQueue' /\ Bounded'
  BY DEF IInv, Consumed, Goto, Bounded
<1>2. Positions'
  BY DEF Positions, Consumed, Goto, WaitsOn, Notifies, TypeOK, vars
<1>3. WaitersSound'
  <2>1. \A w \in Threads : Registered(w, WaitsOn(w))' => Registered(w, WaitsOn(w))
    BY NullAssumption DEF Registered, WaitsOn, Consumed, vars
  <2>2. \A w \in Threads : MustWait(w)' <=> MustWait(w)
    BY DEF MustWait, Consumed
  <2>3. \A u \in Threads : at[u] \in {"notify", "notifying"} =>
                              at'[u] \in {"notify", "notifying"}
    BY DEF Consumed, Goto
  <2> QED
    BY <2>1, <2>2, <2>3 DEF WaitersSound, WaitsOn, Notifies
<1> QED
  BY <1>1, <1>2, <1>3

\* A thread that finds the queue not full knows of no other producer that is
\* registered: such a one would wait for nothing.
LEMMA PutStep ==
  ASSUME IInv, IInv', WaitingSound, NEW p \in Producers, Put(p)
  PROVE  WaitingSound'
<1> USE RolesAssumption, MaxCapacityAssumption DEF WaitingSound, TypeOKQueue
<1>a. /\ p \in Threads /\ at[p] = "check" /\ mutex = p
      /\ val[p] \in 0 .. (Values - 1)
      /\ ~MustWait(p) /\ UNCHANGED vars
  BY ValuesAssumption DEF Positions, Put, Goto
<1>b. /\ deque_' = Append(deque_, [tag |-> p, value |-> val[p]])
      /\ [tag |-> p, value |-> val[p]] \in Item
      /\ at' = [at EXCEPT ![p] = "notify"] /\ UNCHANGED <<val, result>>
  BY <1>a DEF Put, Goto, Item
<1>c. Len(deque_) \in Nat /\ Len(deque_') = Len(deque_) + 1 /\ deque_' \in Seq(Item)
  BY <1>b
<1>1. TypeOKQueue' /\ Bounded'
  <2>1. Len(deque_) < max_capacity_
    BY <1>a, <1>c DEF Bounded, MustWait
  <2> QED
    BY <1>a, <1>b, <1>c, <2>1 DEF IInv, Bounded
<1>2. Positions'
  BY <1>a, <1>b DEF Positions, WaitsOn, Notifies, vars
<1>3. WaitersSound'
  <2> SUFFICES ASSUME NEW w \in Threads, Registered(w, WaitsOn(w))'
               PROVE  \/ MustWait(w)'
                      \/ \E u \in Threads :
                           /\ at'[u] \in {"notify", "notifying"}
                           /\ Notifies(u) = WaitsOn(w)
    BY DEF WaitersSound, Notifies, WaitsOn
  <2>1. Registered(w, WaitsOn(w))
    BY <1>a DEF Registered, WaitsOn, vars
  <2>2. CASE w \in Consumers
    BY <1>a, <1>b, <2>2 DEF Notifies, WaitsOn
  <2>3. CASE w \in Producers
    <3>1. ~MustWait(w)
      BY <1>a, <2>3 DEF MustWait
    <3>2. PICK u \in Threads : at[u] \in {"notify", "notifying"}
      BY <2>1, <3>1 DEF WaitersSound
    <3> QED
      BY <1>a, <3>2, OneNotifier
  <2> QED
    BY <2>2, <2>3
<1> QED
  BY <1>1, <1>2, <1>3

\* And likewise for a consumer that finds an item.
LEMMA TakeStep ==
  ASSUME IInv, IInv', WaitingSound, NEW c \in Consumers, Take(c)
  PROVE  WaitingSound'
<1> USE RolesAssumption, MaxCapacityAssumption DEF WaitingSound, TypeOKQueue
<1>a. /\ c \in Threads /\ c \notin Producers /\ at[c] = "check" /\ mutex = c
      /\ ~MustWait(c) /\ UNCHANGED vars
  BY DEF Positions, Take, Goto
<1>b. /\ deque_ # <<>> /\ deque_' = Tail(deque_)
      /\ result' = [result EXCEPT ![c] = Head(deque_)]
      /\ at' = [at EXCEPT ![c] = "notify"] /\ val' = val
  BY <1>a DEF Take, Goto, MustWait
<1>c. /\ Head(deque_) \in Item /\ deque_' \in Seq(Item)
      /\ Len(deque_) \in Nat /\ Len(deque_') \in Nat /\ Len(deque_') =< Len(deque_)
  BY <1>b
<1>1. TypeOKQueue' /\ Bounded'
  BY <1>a, <1>b, <1>c DEF IInv, Bounded
<1>2. Positions'
  BY <1>a, <1>b DEF Positions, WaitsOn, Notifies, vars
<1>3. WaitersSound'
  <2> SUFFICES ASSUME NEW w \in Threads, Registered(w, WaitsOn(w))'
               PROVE  \/ MustWait(w)'
                      \/ \E u \in Threads :
                           /\ at'[u] \in {"notify", "notifying"}
                           /\ Notifies(u) = WaitsOn(w)
    BY DEF WaitersSound, Notifies, WaitsOn
  <2>1. Registered(w, WaitsOn(w))
    BY <1>a DEF Registered, WaitsOn, vars
  <2>2. CASE w \in Producers
    BY <1>a, <1>b, <2>2 DEF Notifies, WaitsOn
  <2>3. CASE w \notin Producers
    <3>1. ~MustWait(w)
      BY <1>a, <2>3 DEF MustWait
    <3>2. PICK u \in Threads : at[u] \in {"notify", "notifying"}
      BY <2>1, <3>1 DEF WaitersSound
    <3> QED
      BY <1>a, <3>2, OneNotifier
  <2> QED
    BY <2>2, <2>3
<1> QED
  BY <1>1, <1>2, <1>3

\* When the notification ends, nobody it was for is registered any more.
LEMMA NotifiedStep ==
  ASSUME IInv, IInv', WaitingSound, NEW t \in Threads, Notified(t)
  PROVE  WaitingSound'
<1> USE DEF WaitingSound, TypeOKQueue
<1>1. TypeOKQueue' /\ Bounded'
  BY DEF IInv, Notified, Goto, Bounded
<1>2. Positions'
  BY DEF Positions, Notified, Goto, WaitsOn, Notifies, TypeOK, NotifyAllExit
<1>3. WaitersSound'
  <2> SUFFICES ASSUME NEW w \in Threads, Registered(w, WaitsOn(w))'
               PROVE  MustWait(w)'
    BY DEF WaitersSound
  <2>1. Registered(w, WaitsOn(w)) /\ (MustWait(w)' <=> MustWait(w))
    BY DEF Registered, WaitsOn, MustWait, Notified, NotifyAllExit
  <2>2. /\ mutex = t /\ pc[t] = "notifyAll" /\ cv[t] = Notifies(t)
        /\ scan = kMaxWaitingThreads
    BY DEF Positions, Notified, Goto, NotifyAllExit, ScanDone
  <2>3. \A i \in Slots : tasks_waiting[Notifies(t)][i] = nullptr
    BY <2>2, CapacityAssumption DEF IInv, NotifyAllSwept, Slots
  <2>4. WaitsOn(w) # Notifies(t)
    BY <2>1, <2>3, NullAssumption DEF Registered
  <2>5. \A u \in Threads : at[u] \in {"notify", "notifying"} => u = t
    BY <2>2, OneNotifier
  <2> QED
    BY <2>1, <2>4, <2>5 DEF WaitersSound
<1> QED
  BY <1>1, <1>2, <1>3

\* What happens inside of a call of the condition variable registers nobody and
\* leaves the queue alone.
LEMMA CondVarStepStep ==
  ASSUME IInv, IInv', WaitingSound, NEW t \in Threads, CondVarStep(t)
  PROVE  WaitingSound'
<1> USE DEF WaitingSound, TypeOKQueue
<1>a. UNCHANGED queueVars
  BY DEF CondVarStep
<1>1. TypeOKQueue' /\ Bounded'
  BY <1>a DEF IInv, Bounded, queueVars
<1>2. Positions'
  <2> USE <1>a, NullAssumption DEF Positions, WaitsOn, Notifies, TypeOK, queueVars
  <2>1. CASE UnlockInWait(t)
    BY <2>1 DEF UnlockInWait, locals, IInv, WaitHoldsLock
  <2>2. CASE ExitCritical(t) \/ AssertFails(t)
    BY <2>2 DEF ExitCritical, AssertFails, locals, locks
  <2>3. CASE NotifyWaitReturn(t)
    BY <2>3 DEF NotifyWaitReturn, locks
  <2>4. CASE Relock(t)
    BY <2>4 DEF Relock, locals
  <2>5. CASE NotifyAllSlot(t)
    BY <2>5 DEF NotifyAllSlot, locks, locals
  <2> QED
    BY <2>1, <2>2, <2>3, <2>4, <2>5 DEF CondVarStep
<1>3. WaitersSound'
  <2>1. \A w \in Threads : Registered(w, WaitsOn(w))' => Registered(w, WaitsOn(w))
    <3>1. CASE NotifyAllSlot(t)
      <4>1. scan \in Slots /\ cv[t] \in CVs
        BY <3>1, CapacityAssumption
           DEF IInv, TypeOK, LocalsSound, NotifyAllSlot, ScanDone, Slots
      <4>2. \A c \in CVs, i \in Slots :
              tasks_waiting'[c][i] \in {tasks_waiting[c][i], nullptr}
        BY <3>1, <4>1 DEF IInv, TypeOK, NotifyAllSlot
      <4> QED
        BY <4>2, CVsAssumption, NullAssumption DEF Registered, WaitsOn
    <3>2. CASE UNCHANGED tasks_waiting
      BY <3>2 DEF Registered, WaitsOn
    <3> QED
      BY <3>1, <3>2 DEF CondVarStep, UnlockInWait, ExitCritical, AssertFails,
         NotifyWaitReturn, Relock
  <2> QED
    BY <1>a, <2>1 DEF WaitersSound, MustWait, WaitsOn, Notifies, queueVars
<1> QED
  BY <1>1, <1>2, <1>3

-----------------------------------------------------------------------------
(* The order of the items *)

\* How many numbers an interval leaves out below its end.
LEMMA LeftOut ==
  ASSUME NEW s \in Nat, NEW n \in 0 .. s, NEW Q, Q = n .. (s - 1)
  PROVE  s - Cardinality(Q) = n
<1>1. Cardinality(n .. (s - 1)) = IF n > s - 1 THEN 0 ELSE (s - 1) - n + 1
  BY FS_Interval
<1> QED
  BY <1>1

\* Which values of a producer stand in the deque.
LEMMA InQueued ==
  ASSUME NEW p, NEW v
  PROVE  v \in Queued(p) <=>
           \E i \in 1 .. Len(deque_) : deque_[i].tag = p /\ deque_[i].value = v
BY DEF Queued

\* A producer has put at most Values, of which the one under way counts.
LEMMA SentType ==
  ASSUME WaitingSound
  PROVE  \A p \in Producers :
           absSent[p] \in Nat /\ (at[p] # "done" => absSent[p] =< Values)
<1> SUFFICES ASSUME NEW p \in Producers
             PROVE  absSent[p] \in Nat /\ (at[p] # "done" => absSent[p] =< Values)
  OBVIOUS
<1> QED
  BY RolesAssumption, ValuesAssumption
     DEF WaitingSound, TypeOKQueue, Positions, absSent

\* The deque tells how many values have been taken out of it.
LEMMA ReceivedIs ==
  ASSUME WaitingSound, NEW p \in Producers, NEW n \in 0 .. absSent[p],
         QueuedFrom(p, n)
  PROVE  absReceived[p] = n
BY SentType, LeftOut DEF absReceived, QueuedFrom

\* put() appends the next value of the producer.
LEMMA PutOrder ==
  ASSUME WaitingSound, OrderSound, NEW p \in Producers, Put(p)
  PROVE  /\ absSent' = [absSent EXCEPT ![p] = @ + 1]
         /\ absSent[p] = val[p]
         /\ \A q \in Producers : \A n \in 0 .. absSent[q] :
              QueuedFrom(q, n) => n \in 0 .. absSent'[q] /\ QueuedFrom(q, n)'
         /\ OrderSound'
<1> DEFINE new == [tag |-> p, value |-> val[p]]
<1>1. /\ p \in Threads /\ at[p] = "check" /\ val[p] \in Nat
      /\ deque_ \in Seq(Item) /\ Len(deque_) \in Nat /\ p \notin Consumers
      /\ at \in [Threads -> {"call", "check", "waiting", "notify", "notifying",
                             "unlock", "return", "done"}]
  BY RolesAssumption DEF Put, Goto, WaitingSound, TypeOKQueue
<1>2. /\ deque_' = Append(deque_, new) /\ UNCHANGED <<val, result>>
      /\ at' = [at EXCEPT ![p] = "notify"]
  BY DEF Put, Goto
<1>3. /\ absSent' = [absSent EXCEPT ![p] = @ + 1]
      /\ absSent[p] = val[p] /\ absSent'[p] = val[p] + 1
      /\ \A q \in Producers : q # p => absSent'[q] = absSent[q]
  <2>1. absSent[p] = val[p]
    BY <1>1 DEF absSent
  <2>2. absSent'[p] = val[p] + 1
    BY <1>1, <1>2 DEF absSent
  <2>3. \A q \in Producers : q # p => absSent'[q] = absSent[q]
    BY <1>1, <1>2, RolesAssumption DEF absSent
  <2> QED
    BY <2>1, <2>2, <2>3 DEF absSent
<1>4. /\ Len(deque_') = Len(deque_) + 1 /\ deque_'[Len(deque_) + 1] = new
      /\ \A i \in 1 .. Len(deque_) : deque_'[i] = deque_[i]
  BY <1>1, <1>2
<1>5. \A q \in Producers : \A v : v \in Queued(q)' <=> v \in Queued(q) \/ (q = p /\ v = val[p])
  <2> SUFFICES ASSUME NEW q \in Producers, NEW v
               PROVE  v \in Queued(q)' <=> v \in Queued(q) \/ (q = p /\ v = val[p])
    OBVIOUS
  <2>1. v \in Queued(q)' <=> \E i \in 1 .. (Len(deque_) + 1) :
                               deque_'[i].tag = q /\ deque_'[i].value = v
    BY <1>4 DEF Queued
  <2>2. /\ Len(deque_) + 1 \in 1 .. (Len(deque_) + 1)
        /\ \A i \in 1 .. Len(deque_) : i \in 1 .. (Len(deque_) + 1)
        /\ \A i \in 1 .. (Len(deque_) + 1) :
             i \in 1 .. Len(deque_) \/ i = Len(deque_) + 1
    BY <1>1
  <2>3. v \in Queued(q) <=> \E i \in 1 .. Len(deque_) :
                              deque_'[i].tag = q /\ deque_'[i].value = v
    BY <1>4, InQueued
  <2>4. deque_'[Len(deque_) + 1].tag = p /\ deque_'[Len(deque_) + 1].value = val[p]
    BY <1>4
  <2>5. v \in Queued(q) \/ (q = p /\ v = val[p]) => v \in Queued(q)'
    BY <2>1, <2>2, <2>3, <2>4
  <2>6. ASSUME NEW i \in 1 .. (Len(deque_) + 1),
               deque_'[i].tag = q, deque_'[i].value = v
        PROVE  v \in Queued(q) \/ (q = p /\ v = val[p])
    BY <2>2, <2>3, <2>4, <2>6
  <2> QED
    BY <2>1, <2>5, <2>6
<1>6. ASSUME NEW q \in Producers, NEW n \in 0 .. absSent[q], QueuedFrom(q, n)
      PROVE  n \in 0 .. absSent'[q] /\ QueuedFrom(q, n)'
  <2>1. absSent[q] \in Nat
    BY SentType
  <2>2. n \in 0 .. absSent'[q]
    BY <1>3, <2>1
  <2>3. CASE q = p
    <3>1. \A v : v \in Queued(p)' <=> v \in n .. (val[p] - 1) \/ v = val[p]
      BY <1>3, <1>5, <1>6, <2>3 DEF QueuedFrom
    <3>2. absSent'[p] - 1 = val[p]
      BY <1>1, <1>3
    <3>3. \A v : v \in n .. val[p] <=> v \in n .. (val[p] - 1) \/ v = val[p]
      BY <1>1, <1>3, <2>3
    <3> QED
      BY <2>2, <2>3, <3>1, <3>2, <3>3 DEF QueuedFrom
  <2>4. CASE q # p
    <3>1. absSent'[q] = absSent[q]
      BY <1>3, <2>4 DEF absSent
    <3> QED
      BY <1>5, <1>6, <2>2, <2>4, <3>1 DEF QueuedFrom
  <2> QED
    BY <2>3, <2>4
<1>7. ASSUME NEW i \in 1 .. (Len(deque_) + 1), NEW j \in 1 .. (Len(deque_) + 1),
             i < j, deque_'[i].tag = deque_'[j].tag
      PROVE  deque_'[i].value < deque_'[j].value
  <2>1. i \in 1 .. Len(deque_)
    BY <1>1, <1>7
  <2>2. CASE j \in 1 .. Len(deque_)
    BY <1>4, <1>7, <2>1, <2>2 DEF OrderSound
  <2>3. CASE j = Len(deque_) + 1
    <3>1. deque_[i].tag = p /\ deque_[i].value \in Queued(p)
      BY <1>4, <1>7, <2>1, <2>3, InQueued
    <3>2. PICK n \in 0 .. absSent[p] : QueuedFrom(p, n)
      BY DEF OrderSound
    <3>3. deque_[i].value < val[p]
      BY <1>1, <1>3, <3>1, <3>2 DEF QueuedFrom
    <3> QED
      BY <1>4, <2>1, <2>3, <3>3
  <2> QED
    BY <1>1, <2>2, <2>3
<1>8. OrderSound'
  <2>1. \A q \in Producers : \E n \in 0 .. absSent'[q] : QueuedFrom(q, n)'
    BY <1>6 DEF OrderSound
  <2>2. \A c \in Consumers : at'[c] = at[c] /\ result'[c] = result[c]
    BY <1>1, <1>2, RolesAssumption
  <2> QED
    BY <1>4, <1>7, <2>1, <2>2 DEF OrderSound
<1> QED
  BY <1>3, <1>6, <1>8

\* take() hands out the first value of its producer that is left.
LEMMA TakeOrder ==
  ASSUME WaitingSound, OrderSound, NEW c \in Consumers, Take(c), NEW p, NEW h,
         Head(deque_).tag = p, Head(deque_).value = h
  PROVE  /\ p \in Producers
         /\ absSent' = absSent
         /\ \A n \in 0 .. absSent[p] :
              QueuedFrom(p, n) => /\ h = n
                                  /\ n + 1 \in 0 .. absSent[p]
                                  /\ QueuedFrom(p, n + 1)'
         /\ \A q \in Producers \ {p} : \A n \in 0 .. absSent[q] :
              QueuedFrom(q, n) => QueuedFrom(q, n)'
         /\ OrderSound'
<1>1. /\ c \in Threads /\ c \notin Producers /\ at[c] = "check"
      /\ deque_ \in Seq(Item) /\ deque_ # <<>>
      /\ at \in [Threads -> {"call", "check", "waiting", "notify", "notifying",
                             "unlock", "return", "done"}]
      /\ result \in [Consumers -> Item \cup {nullptr}]
  BY RolesAssumption DEF Take, Goto, MustWait, WaitingSound, TypeOKQueue
<1>2. /\ deque_' = Tail(deque_) /\ val' = val
      /\ result' = [result EXCEPT ![c] = Head(deque_)]
      /\ at' = [at EXCEPT ![c] = "notify"]
  BY DEF Take, Goto
<1>3. /\ Len(deque_) \in Nat \ {0} /\ Head(deque_) = deque_[1]
      /\ Head(deque_) \in Item
      /\ Len(deque_') = Len(deque_) - 1
      /\ \A i \in 1 .. (Len(deque_) - 1) : deque_'[i] = deque_[i + 1]
  BY <1>1, <1>2
<1>4. p \in Producers /\ h \in Nat
  BY <1>3, ValuesAssumption DEF Item
<1>5. absSent' = absSent
  BY <1>1, <1>2, RolesAssumption DEF absSent
<1>6. ASSUME NEW q \in Producers, NEW v
      PROVE  v \in Queued(q)' <=> \E i \in 2 .. Len(deque_) :
                                    deque_[i].tag = q /\ deque_[i].value = v
  <2>1. v \in Queued(q)' <=> \E i \in 1 .. (Len(deque_) - 1) :
                               deque_'[i].tag = q /\ deque_'[i].value = v
    BY <1>3 DEF Queued
  <2>2. ASSUME NEW i \in 1 .. (Len(deque_) - 1)
        PROVE  i + 1 \in 2 .. Len(deque_) /\ deque_'[i] = deque_[i + 1]
    BY <1>3
  <2>3. ASSUME NEW i \in 2 .. Len(deque_)
        PROVE  i - 1 \in 1 .. (Len(deque_) - 1) /\ deque_'[i - 1] = deque_[i]
    <3>1. i - 1 \in 1 .. (Len(deque_) - 1) /\ (i - 1) + 1 = i
      BY <1>3
    <3> QED
      BY <1>3, <3>1
  <2> QED
    BY <2>1, <2>2, <2>3
<1>7. \A i : i \in 1 .. Len(deque_) <=> i = 1 \/ i \in 2 .. Len(deque_)
  BY <1>3
<1>8. ASSUME NEW n \in 0 .. absSent[p], QueuedFrom(p, n)
      PROVE  /\ h = n /\ n + 1 \in 0 .. absSent[p]
             /\ QueuedFrom(p, n + 1)'
  <2>1. absSent[p] \in Nat /\ n \in Nat
    BY <1>4, SentType
  <2>2. h \in n .. (absSent[p] - 1)
    BY <1>3, <1>7, <1>8, InQueued DEF QueuedFrom
  <2>3. \A i \in 2 .. Len(deque_) : deque_[i].tag = p => h < deque_[i].value
    <3> SUFFICES ASSUME NEW i \in 2 .. Len(deque_), deque_[i].tag = p
                 PROVE  h < deque_[i].value
      OBVIOUS
    <3>1. 1 \in 1 .. Len(deque_) /\ i \in 1 .. Len(deque_) /\ 1 < i
      BY <1>3
    <3> QED
      BY <1>3, <3>1 DEF OrderSound
  <2>4. PICK i \in 1 .. Len(deque_) : deque_[i].tag = p /\ deque_[i].value = n
    <3>1. n \in Queued(p)
      BY <1>8, <2>1, <2>2 DEF QueuedFrom
    <3> QED
      BY <3>1, InQueued
  <2>5. h = n
    <3>1. CASE i = 1
      BY <1>3, <2>4, <3>1
    <3>2. CASE i \in 2 .. Len(deque_)
      BY <2>1, <2>2, <2>3, <2>4, <3>2
    <3> QED
      BY <1>7, <3>1, <3>2
  <2>6. n + 1 \in 0 .. absSent[p]
    BY <2>1, <2>2, <2>5
  <2>7. \A v : v \in Queued(p) <=> v = n \/ v \in Queued(p)'
    BY <1>3, <1>4, <1>6, <1>7, <2>5, InQueued
  <2>8. n \notin Queued(p)'
    BY <1>4, <1>6, <2>3, <2>5
  <2>9. \A v : v \in (n + 1) .. (absSent[p] - 1) <=>
                 v \in n .. (absSent[p] - 1) /\ v # n
    BY <2>1
  <2>10. \A v : v \in Queued(p)' <=> v \in (n + 1) .. (absSent[p] - 1)
    BY <1>8, <2>7, <2>8, <2>9 DEF QueuedFrom
  <2> QED
    BY <1>5, <2>5, <2>6, <2>10 DEF QueuedFrom
<1>9. ASSUME NEW q \in Producers \ {p}, NEW n \in 0 .. absSent[q],
             QueuedFrom(q, n)
      PROVE  QueuedFrom(q, n)'
  <2>1. \A v : v \in Queued(q)' <=> v \in Queued(q)
    BY <1>3, <1>6, <1>7, InQueued
  <2> QED
    BY <1>5, <1>9, <2>1 DEF QueuedFrom
<1>10. OrderSound'
  <2>1. ASSUME NEW i \in 1 .. Len(deque_'), NEW j \in 1 .. Len(deque_'),
               i < j, deque_'[i].tag = deque_'[j].tag
        PROVE  deque_'[i].value < deque_'[j].value
    <3>1. /\ i + 1 \in 1 .. Len(deque_) /\ j + 1 \in 1 .. Len(deque_)
          /\ i + 1 < j + 1
          /\ deque_'[i] = deque_[i + 1] /\ deque_'[j] = deque_[j + 1]
      BY <1>3, <2>1
    <3> QED
      BY <2>1, <3>1 DEF OrderSound
  <2>2. \A q \in Producers : \E n \in 0 .. absSent'[q] : QueuedFrom(q, n)'
    BY <1>5, <1>8, <1>9 DEF OrderSound
  <2>3. \A d \in Consumers :
          result'[d] # nullptr <=>
            at'[d] \in {"notify", "notifying", "unlock", "return"}
    <3>1. Head(deque_) # nullptr
      BY <1>3, ItemAssumption
    <3> QED
      BY <1>1, <1>2, <3>1, RolesAssumption DEF OrderSound
  <2> QED
    BY <2>1, <2>2, <2>3 DEF OrderSound
<1> QED
  BY <1>4, <1>5, <1>8, <1>9, <1>10

\* A step that leaves the deque, the values and the items alone, and moves no
\* thread over the edge of its call of put or take.
LEMMA QuietOrder ==
  ASSUME OrderSound, UNCHANGED <<deque_, result, absSent>>,
         \A c \in Consumers :
           at'[c] \in {"notify", "notifying", "unlock", "return"} <=>
             at[c] \in {"notify", "notifying", "unlock", "return"}
  PROVE  OrderSound' /\ UNCHANGED absReceived
<1>1. \A p \in Producers : Queued(p)' = Queued(p)
  BY DEF Queued
<1>2. \A p \in Producers : \A n : QueuedFrom(p, n)' <=> QueuedFrom(p, n)
  BY <1>1 DEF QueuedFrom
<1>3. absReceived' = absReceived
  BY <1>1 DEF absReceived
<1> QED
  BY <1>2, <1>3 DEF OrderSound

\* The output is written, or nothing happens to the queue.
LEMMA OtherOrder ==
  ASSUME WaitingSound, OrderSound, NEW t \in Threads,
         \/ Begin(t) \/ Await(t) \/ Awake(t) \/ Notify(t) \/ Notified(t)
         \/ End(t) \/ CondVarStep(t) \/ (t \in Producers /\ Published(t))
  PROVE  /\ UNCHANGED <<deque_, result, absSent>>
         /\ OrderSound' /\ UNCHANGED absReceived
<1> USE RolesAssumption
<1>1. /\ at \in [Threads -> {"call", "check", "waiting", "notify", "notifying",
                             "unlock", "return", "done"}]
      /\ val \in [Producers -> 0 .. Values]
  BY DEF WaitingSound, TypeOKQueue
<1>2. /\ UNCHANGED <<deque_, result, absSent>>
      /\ \A c \in Consumers :
           at'[c] \in {"notify", "notifying", "unlock", "return"} <=>
             at[c] \in {"notify", "notifying", "unlock", "return"}
  <2>1. CASE Begin(t)
    BY <1>1, <2>1 DEF Begin, Goto, absSent
  <2>2. CASE Await(t)
    BY <1>1, <2>2 DEF Await, Goto, absSent
  <2>3. CASE Awake(t)
    BY <1>1, <2>3 DEF Awake, Goto, absSent
  <2>4. CASE Notify(t)
    BY <1>1, <2>4 DEF Notify, Goto, absSent
  <2>5. CASE Notified(t)
    BY <1>1, <2>5 DEF Notified, Goto, absSent
  <2>6. CASE End(t)
    BY <1>1, <2>6 DEF End, Goto, absSent
  <2>7. CASE CondVarStep(t)
    BY <2>7 DEF CondVarStep, queueVars, absSent
  <2>8. CASE t \in Producers /\ Published(t)
    BY <1>1, <2>8, ValuesAssumption DEF Published, Goto, absSent
  <2> QED
    BY <2>1, <2>2, <2>3, <2>4, <2>5, <2>6, <2>7, <2>8
<1> QED
  BY <1>2, QuietOrder

\* The item has been printed, and the consumer has none.
LEMMA ConsumedOrder ==
  ASSUME WaitingSound, OrderSound, NEW c \in Consumers, Consumed(c)
  PROVE  /\ UNCHANGED <<deque_, absSent>>
         /\ OrderSound' /\ UNCHANGED absReceived
<1>1. /\ at \in [Threads -> {"call", "check", "waiting", "notify", "notifying",
                             "unlock", "return", "done"}]
      /\ result \in [Consumers -> Item \cup {nullptr}]
      /\ c \in Threads /\ c \notin Producers
  BY RolesAssumption DEF WaitingSound, TypeOKQueue
<1>2. /\ UNCHANGED <<deque_, val>> /\ at' = [at EXCEPT ![c] = "call"]
      /\ result' = [result EXCEPT ![c] = nullptr]
  BY DEF Consumed, Goto
<1>3. absSent' = absSent
  BY <1>1, <1>2, RolesAssumption DEF absSent
<1>a. \A p \in Producers : Queued(p)' = Queued(p)
  BY <1>2 DEF Queued
<1>4. \A p \in Producers : \A n : QueuedFrom(p, n)' <=> QueuedFrom(p, n)
  BY <1>3, <1>a DEF QueuedFrom
<1>5. absReceived' = absReceived
  BY <1>3, <1>a DEF absReceived
<1>6. \A d \in Consumers :
        result'[d] # nullptr <=>
          at'[d] \in {"notify", "notifying", "unlock", "return"}
  BY <1>1, <1>2, RolesAssumption DEF OrderSound
<1> QED
  BY <1>2, <1>3, <1>4, <1>5, <1>6 DEF OrderSound

-----------------------------------------------------------------------------
(* The theorems *)

\* The part of the inductive invariant that is about who waits, over the one of
\* the condition variables (ProducerConsumer.ino:24-42).
LEMMA WaitingInvariance == SpecQueue => []WaitingSound
<1>1. InitQueue => WaitingSound
  <2> SUFFICES ASSUME InitQueue
               PROVE  WaitingSound
    OBVIOUS
  <2> USE RolesAssumption, MaxCapacityAssumption, ValuesAssumption, NullAssumption,
          CapacityAssumption
      DEF InitQueue
  <2>1. TypeOKQueue
    BY DEF TypeOKQueue, TypeOK, Init
  <2>2. Bounded
    BY DEF Bounded
  <2>3. Positions
    BY DEF Positions, Init
  <2>4. WaitersSound
    BY CVsAssumption DEF WaitersSound, Registered, WaitsOn, Init
  <2> QED
    BY <2>1, <2>2, <2>3, <2>4 DEF WaitingSound
<1>2. IInv /\ IInv' /\ WaitingSound /\ [NextQueue]_allVars => WaitingSound'
  <2> SUFFICES ASSUME IInv, IInv', WaitingSound, [NextQueue]_allVars
               PROVE  WaitingSound'
    OBVIOUS
  <2>1. CASE UNCHANGED allVars
    BY <2>1 DEF WaitingSound, TypeOKQueue, TypeOK, Bounded, Positions, WaitersSound,
                MustWait, WaitsOn, Notifies, Registered, allVars, vars, queueVars
  <2>2. ASSUME NEW t \in Threads, Step(t)
        PROVE  WaitingSound'
    BY <2>2, BeginStep, AwaitStep, AwakeStep, PutStep, PublishedStep, TakeStep,
       ConsumedStep, NotifyStep, NotifiedStep, EndStep, CondVarStepStep DEF Step
  <2> QED
    BY <2>1, <2>2 DEF NextQueue, Quiescent
<1> QED
  BY <1>1, <1>2, ImplementsCondVarOpt, Invariance, PTL DEF SpecQueue

\* The queue never holds more than max_capacity_ items, with any number of
\* producers that race for the room that one take made
\* (ProducerConsumer.ino:26-29).
THEOREM CapacityKept == SpecQueue => []Bounded
<1>1. WaitingSound => Bounded
  BY DEF WaitingSound
<1> QED
  BY <1>1, WaitingInvariance, PTL

\* No producer sleeps while there is room and no consumer while there is an
\* item, unless a notification is about to follow
\* (ProducerConsumer.ino:26-30, 35-40).
THEOREM NoVainSleep == SpecQueue => []NobodySleepsInVain
<1>1. IInv /\ WaitingSound => NobodySleepsInVain
  <2> SUFFICES ASSUME IInv, WaitingSound, NEW t \in Threads,
                      pc[t] = "blocked", ~notified[t], ~MustWait(t)
               PROVE  \E u \in Threads :
                        /\ at[u] \in {"notify", "notifying"}
                        /\ Notifies(u) = WaitsOn(t)
    BY DEF NobodySleepsInVain
  <2>1. Registered(t, cv[t])
    BY DEF IInv, Reachable
  <2>2. cv[t] = WaitsOn(t)
    BY DEF WaitingSound, Positions
  <2> QED
    BY <2>1, <2>2 DEF WaitingSound, WaitersSound
<1> QED
  BY <1>1, WaitingInvariance, ImplementsCondVarOpt, Invariance, PTL

Asleep(t) == pc[t] = "blocked" /\ ~notified[t]

\* Producers and consumers never all wait for each other: a producer and a
\* consumer can be asleep at once only until a notification that is about to be
\* sent (ProducerConsumer.ino:24-42).
THEOREM NotAllAsleep ==
  SpecQueue => [](\A p \in Producers, c \in Consumers :
                    Asleep(p) /\ Asleep(c) =>
                      \E u \in Threads : at[u] \in {"notify", "notifying"})
<1>1. WaitingSound /\ NobodySleepsInVain =>
        \A p \in Producers, c \in Consumers :
          Asleep(p) /\ Asleep(c) =>
            \E u \in Threads : at[u] \in {"notify", "notifying"}
  <2> SUFFICES ASSUME WaitingSound, NobodySleepsInVain, NEW p \in Producers,
                      NEW c \in Consumers, Asleep(p), Asleep(c)
               PROVE  \E u \in Threads : at[u] \in {"notify", "notifying"}
    OBVIOUS
  <2>1. p \in Threads /\ c \in Threads /\ c \notin Producers
    BY RolesAssumption
  <2>2. ~MustWait(p) \/ ~MustWait(c)
    BY <2>1, MaxCapacityAssumption DEF MustWait
  <2> QED
    BY <2>1, <2>2 DEF NobodySleepsInVain, Asleep
<1> QED
  BY <1>1, WaitingInvariance, NoVainSleep, PTL

-----------------------------------------------------------------------------
(* The queue implements the channel *)

\* The whole inductive invariant: who waits, and what the deque holds
\* (ProducerConsumer.ino:24-42).
THEOREM QueueInvariance == SpecQueue => []IInvQueue
<1>1. InitQueue /\ WaitingSound => OrderSound
  <2> SUFFICES ASSUME InitQueue, WaitingSound
               PROVE  OrderSound
    OBVIOUS
  <2>1. \A p \in Producers : absSent[p] = 0 /\ Queued(p) = {}
    BY RolesAssumption DEF InitQueue, absSent, Queued
  <2>2. \A p \in Producers : 0 \in 0 .. absSent[p] /\ QueuedFrom(p, 0)
    BY <2>1 DEF QueuedFrom
  <2> QED
    BY <2>2, RolesAssumption DEF OrderSound, InitQueue
<1>2. WaitingSound /\ OrderSound /\ [NextQueue]_allVars => OrderSound'
  <2> SUFFICES ASSUME WaitingSound, OrderSound, [NextQueue]_allVars
               PROVE  OrderSound'
    OBVIOUS
  <2>1. CASE UNCHANGED allVars
    BY <2>1, QuietOrder DEF allVars, queueVars, absSent
  <2>2. ASSUME NEW t \in Threads, Step(t)
        PROVE  OrderSound'
    BY <2>2, OtherOrder, PutOrder, TakeOrder, ConsumedOrder DEF Step
  <2> QED
    BY <2>1, <2>2 DEF NextQueue, Quiescent
<1> QED
  BY <1>1, <1>2, WaitingInvariance, PTL DEF SpecQueue, IInvQueue

\* Where the received values of a producer end, the ones in the deque begin.
LEMMA ReceivedType ==
  ASSUME WaitingSound, OrderSound, NEW p \in Producers
  PROVE  absReceived[p] \in 0 .. absSent[p] /\ QueuedFrom(p, absReceived[p])
<1>1. PICK n \in 0 .. absSent[p] : QueuedFrom(p, n)
  BY DEF OrderSound
<1> QED
  BY <1>1, ReceivedIs

\* What is under way stands in the deque.
LEMMA UnderWayInDeque ==
  ASSUME WaitingSound, OrderSound
  PROVE  Cardinality(Ch!UnderWay) \in Nat /\ Cardinality(Ch!UnderWay) =< Len(deque_)
<1> DEFINE I == 1 .. Len(deque_)
           T == {deque_[k] : k \in I}
           f == [k \in I |-> deque_[k]]
<1>1. deque_ \in Seq(Item) /\ Len(deque_) \in Nat
  BY DEF WaitingSound, TypeOKQueue
<1>2. IsFiniteSet(I) /\ Cardinality(I) = Len(deque_)
  BY <1>1, FS_Interval
<1>3. f \in Surjection(I, T)
  BY Fun_IsSurj
<1>4. IsFiniteSet(T) /\ Cardinality(T) =< Len(deque_)
  BY <1>2, <1>3, FS_Surjection
<1>5. Ch!UnderWay \subseteq T
  <2> SUFFICES ASSUME NEW x \in Item,
                      absReceived[x.tag] =< x.value, x.value < absSent[x.tag]
               PROVE  x \in T
    BY DEF Ch!UnderWay, Ch!Item, Item
  <2>1. x.tag \in Producers /\ x.value \in Nat
    BY ValuesAssumption DEF Item
  <2>2. x.value \in Queued(x.tag)
    BY <2>1, ReceivedType, SentType DEF QueuedFrom
  <2>3. PICK k \in I : deque_[k].tag = x.tag /\ deque_[k].value = x.value
    BY <2>2, InQueued
  <2>4. deque_[k] \in Item
    BY <1>1
  <2> QED
    BY <2>3, <2>4 DEF Item
<1>6. IsFiniteSet(Ch!UnderWay) /\ Cardinality(Ch!UnderWay) =< Cardinality(T)
  BY <1>4, <1>5, FS_Subset
<1>7. Cardinality(Ch!UnderWay) \in Nat /\ Cardinality(T) \in Nat
  BY <1>4, <1>6, FS_CardinalityType
<1> QED
  BY <1>1, <1>4, <1>6, <1>7

\* put() sends: there is room in the channel because there is in the deque.
LEMMA PutSends ==
  ASSUME WaitingSound, OrderSound, NEW p \in Producers, Put(p)
  PROVE  Ch!Send(p)
<1>1. /\ absSent' = [absSent EXCEPT ![p] = @ + 1] /\ absSent[p] = val[p]
      /\ \A q \in Producers : \A n \in 0 .. absSent[q] :
           QueuedFrom(q, n) => n \in 0 .. absSent'[q] /\ QueuedFrom(q, n)'
  BY PutOrder
<1>2. val[p] < Values
  BY RolesAssumption DEF WaitingSound, Positions, Put, Goto
<1>3. Len(deque_) < max_capacity_
  BY MaxCapacityAssumption
     DEF WaitingSound, TypeOKQueue, Bounded, Put, MustWait
<1>4. Cardinality(Ch!UnderWay) < max_capacity_
  BY <1>3, UnderWayInDeque, MaxCapacityAssumption DEF WaitingSound, TypeOKQueue
<1>5. ASSUME NEW q \in Producers
      PROVE  absReceived'[q] = absReceived[q]
  <2>1. PICK n \in 0 .. absSent[q] : QueuedFrom(q, n)
    BY DEF OrderSound
  <2>2. n \in 0 .. absSent'[q] /\ Queued(q)' = n .. (absSent'[q] - 1)
    BY <1>1, <2>1 DEF QueuedFrom
  <2>3. absSent'[q] \in Nat
    <3>1. absSent[q] \in Nat
      BY SentType
    <3> QED
      BY <1>1, <3>1
  <2>4. absSent'[q] - Cardinality(Queued(q)') = n
    BY <2>2, <2>3, LeftOut
  <2>5. absReceived'[q] = n
    BY <2>4 DEF absReceived
  <2> QED
    BY <2>1, <2>5, ReceivedIs
<1>6. absReceived' = absReceived
  BY <1>5 DEF absReceived
<1> QED
  <2>1. absSent[p] < Values /\ absSent' = [absSent EXCEPT ![p] = absSent[p] + 1]
    BY <1>1, <1>2
  <2>2. UNCHANGED <<absReceived, result>>
    BY <1>6 DEF Put
  \* The module that is instantiated has the operator under a name of its own.
  <2>3. Ch!Cardinality(Ch!UnderWay) = Cardinality(Ch!UnderWay)
    BY DEF Ch!Cardinality, Cardinality
  <2> QED
    BY <1>4, <2>1, <2>2, <2>3 DEF Ch!Send

\* take() receives the next value of the producer whose item is the oldest.
LEMMA TakeReceives ==
  ASSUME WaitingSound, OrderSound, NEW c \in Consumers, Take(c)
  PROVE  \E p \in Producers : Ch!Receive(c, p)
<1>1. Head(deque_) \in Item
  <2>1. deque_ \in Seq(Item) /\ deque_ # <<>>
    BY RolesAssumption DEF WaitingSound, TypeOKQueue, Take, MustWait
  <2> QED
    BY <2>1
<1>2. PICK p \in Producers, h \in 0 .. (Values - 1) :
        Head(deque_) = [tag |-> p, value |-> h]
  BY <1>1 DEF Item
<1>3. /\ absSent' = absSent
      /\ \A n \in 0 .. absSent[p] :
           QueuedFrom(p, n) => h = n /\ n + 1 \in 0 .. absSent[p]
                               /\ QueuedFrom(p, n + 1)'
      /\ \A q \in Producers \ {p} : \A n \in 0 .. absSent[q] :
           QueuedFrom(q, n) => QueuedFrom(q, n)'
  BY <1>2, TakeOrder
<1>4. /\ h = absReceived[p] /\ absReceived[p] + 1 =< absSent[p]
      /\ h \in 0 .. absSent[p] /\ h + 1 \in 0 .. absSent[p]
      /\ QueuedFrom(p, h + 1)'
  BY <1>3, ReceivedType
<1>5. ASSUME NEW q \in Producers, NEW n \in 0 .. absSent[q], QueuedFrom(q, n)'
      PROVE  absReceived'[q] = n
  <2>1. absSent[q] \in Nat /\ Queued(q)' = n .. (absSent[q] - 1)
    BY <1>3, <1>5, SentType DEF QueuedFrom
  <2>2. absSent[q] - Cardinality(Queued(q)') = n
    BY <2>1, LeftOut
  <2> QED
    BY <1>3, <2>2 DEF absReceived
<1>6. absReceived'[p] = absReceived[p] + 1
  BY <1>4, <1>5
<1>7. ASSUME NEW q \in Producers, q # p
      PROVE  absReceived'[q] = absReceived[q]
  <2>1. PICK n \in 0 .. absSent[q] : QueuedFrom(q, n)
    BY DEF OrderSound
  <2>2. absReceived'[q] = n
    BY <1>3, <1>5, <1>7, <2>1
  <2> QED
    BY <2>1, <2>2, ReceivedIs
<1>8. absReceived' = [absReceived EXCEPT ![p] = @ + 1]
  BY <1>6, <1>7 DEF absReceived
<1>9. result[c] = nullptr
  BY DEF OrderSound, Take, Goto
<1>10. result' = [result EXCEPT ![c] = [tag |-> p, value |-> absReceived[p]]]
  BY <1>2, <1>4 DEF Take
<1>11. absReceived[p] < absSent[p]
  <2>1. absSent[p] \in Nat /\ absReceived[p] \in Nat
    BY SentType, ReceivedType
  <2> QED
    BY <1>4, <2>1
<1> QED
  BY <1>3, <1>8, <1>9, <1>10, <1>11 DEF Ch!Receive

\* Printing consumes the item.
LEMMA ConsumedConsumes ==
  ASSUME WaitingSound, OrderSound, NEW c \in Consumers, Consumed(c)
  PROVE  Ch!Consume(c)
<1>1. UNCHANGED <<absSent, absReceived>>
  BY ConsumedOrder
<1>2. result[c] # nullptr /\ result' = [result EXCEPT ![c] = nullptr]
  BY DEF OrderSound, Consumed, Goto
<1> QED
  BY <1>1, <1>2 DEF Ch!Consume

\* The values of every producer arrive, each of them once and in the order of
\* publication, and at most max_capacity_ are under way, with any number of
\* producers and consumers (ProducerConsumer.ino:24-42).
THEOREM DeliversInOrder == SpecQueue => ImplementsChannel
<1>1. InitQueue => Ch!Init
  <2> SUFFICES ASSUME InitQueue
               PROVE  Ch!Init
    OBVIOUS
  <2>1. \A p \in Producers : absSent[p] = 0 /\ Queued(p) = {}
    BY RolesAssumption DEF InitQueue, absSent, Queued
  <2>2. \A p \in Producers : absReceived[p] = 0
    <3> SUFFICES ASSUME NEW p \in Producers PROVE absReceived[p] = 0
      OBVIOUS
    <3>1. 0 - Cardinality({}) = 0
      BY FS_EmptySet
    <3> QED
      BY <2>1, <3>1 DEF absReceived
  <2>3. absSent = [p \in Producers |-> 0]
    BY <2>1 DEF absSent
  <2>4. absReceived = [p \in Producers |-> 0]
    BY <2>2 DEF absReceived
  <2> QED
    BY <2>3, <2>4 DEF Ch!Init, InitQueue
<1>2. IInvQueue /\ [NextQueue]_allVars => [Ch!Next]_(Ch!channelVars)
  <2> SUFFICES ASSUME WaitingSound, OrderSound, [NextQueue]_allVars
               PROVE  Ch!Next \/ UNCHANGED <<absSent, absReceived, result>>
    BY DEF IInvQueue, Ch!channelVars
  <2>1. CASE UNCHANGED allVars
    BY <2>1, QuietOrder DEF allVars, queueVars, absSent
  <2>2. ASSUME NEW t \in Threads, Step(t)
        PROVE  Ch!Next \/ UNCHANGED <<absSent, absReceived, result>>
    <3>1. CASE t \in Producers /\ Put(t)
      BY <3>1, PutSends DEF Ch!Next
    <3>2. CASE t \in Consumers /\ Take(t)
      BY <3>2, TakeReceives DEF Ch!Next
    <3>3. CASE t \in Consumers /\ Consumed(t)
      BY <3>3, ConsumedConsumes DEF Ch!Next
    <3>4. CASE \/ Begin(t) \/ Await(t) \/ Awake(t) \/ Notify(t) \/ Notified(t)
               \/ End(t) \/ CondVarStep(t) \/ (t \in Producers /\ Published(t))
      BY <3>4, OtherOrder
    <3> QED
      BY <2>2, <3>1, <3>2, <3>3, <3>4 DEF Step
  <2> QED
    BY <2>1, <2>2 DEF NextQueue, Quiescent
<1> QED
  BY <1>1, <1>2, QueueInvariance, PTL DEF SpecQueue, ImplementsChannel, Ch!Spec
=============================================================================
