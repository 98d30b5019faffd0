------------------------------- MODULE Queue -------------------------------
(***************************************************************************)
(* The bounded blocking queue of examples/ProducerConsumer, with the       *)
(* threads that use it, on top of the optimized condition variable.        *)
(*                                                                         *)
(* Two condition variables are used with one mutex: producers wait on      *)
(* nonfull_ and notify nonempty_, consumers the other way round.  put and  *)
(* take are the same steps with the roles exchanged; each step is joined   *)
(* with the step of CondVarOpt that it calls.                              *)
(***************************************************************************)
EXTENDS CondVarOpt, Sequences

CONSTANTS
  Producers,      \* the threads that run()
  Consumers,      \* the threads that take, as loop() does
  max_capacity_,  \* of the deque
  Values,         \* bound: how many values a producer publishes
  nonfull_,
  nonempty_

ASSUME RolesAssumption ==
  Producers \cup Consumers = Threads /\ Producers \cap Consumers = {}
ASSUME CVsAssumption == CVs = {nonfull_, nonempty_}
ASSUME MaxCapacityAssumption == max_capacity_ \in Nat \ {0}
ASSUME ValuesAssumption == Values \in Nat \ {0}

Item == [tag : Producers, value : 0 .. (Values - 1)]

ASSUME ItemAssumption == nullptr \notin Item

VARIABLES
  deque_,  \* the items in the queue
  val,     \* the next value of each producer
  result,  \* the item a consumer has taken and not printed yet, or nullptr
  at       \* where each thread is in its loop

queueVars == <<deque_, val, result, at>>
allVars == <<vars, queueVars>>

TypeOKQueue ==
  /\ TypeOK
  /\ deque_ \in Seq(Item)
  /\ val \in [Producers -> 0 .. Values]
  /\ result \in [Consumers -> Item \cup {nullptr}]
  /\ at \in [Threads -> {"call", "check", "waiting", "notify", "notifying",
                         "unlock", "return", "done"}]

InitQueue ==
  /\ Init
  /\ deque_ = <<>>
  /\ val = [p \in Producers |-> 0]
  /\ result = [c \in Consumers |-> nullptr]
  /\ at = [t \in Threads |-> "call"]

Goto(t, from, to) ==
  /\ at[t] = from
  /\ at' = [at EXCEPT ![t] = to]

\* The condition variable that t waits on, and the one it notifies.
WaitsOn(t) == IF t \in Producers THEN nonfull_ ELSE nonempty_

\* Mutant: take notifies those who wait for an item.
NotifiesNonempty(t) == nonempty_

Notifies(t) == IF t \in Producers THEN nonempty_ ELSE nonfull_

MustWait(t) ==
  IF t \in Producers THEN Len(deque_) = max_capacity_ ELSE deque_ = <<>>

-----------------------------------------------------------------------------
(* put and take *)

Begin(t) ==
  /\ Goto(t, "call", "check")
  /\ Lock(t)
  /\ UNCHANGED <<deque_, val, result>>

Await(t) ==
  /\ MustWait(t)
  /\ Goto(t, "check", "waiting")
  /\ Wait(t, WaitsOn(t), FALSE)
  /\ UNCHANGED <<deque_, val, result>>

\* Mutant: an if in the place of the while of put.
AwakeUnchecked(t) ==
  /\ at[t] = "waiting"
  /\ Dequeue(t)
  /\ \/ /\ t \in Producers
        /\ at' = [at EXCEPT ![t] = "notify"]
        /\ deque_' = Append(deque_, [tag |-> t, value |-> val[t]])
     \/ /\ t \in Consumers
        /\ at' = [at EXCEPT ![t] = "check"]
        /\ UNCHANGED deque_
  /\ UNCHANGED <<val, result>>

Awake(t) ==
  /\ Goto(t, "waiting", "check")
  /\ Dequeue(t)
  /\ UNCHANGED <<deque_, val, result>>

\* Mutant: the value is counted up before it is published.
PutNext(p) ==
  /\ ~MustWait(p)
  /\ Goto(p, "check", "notify")
  /\ deque_' = Append(deque_, [tag |-> p, value |-> val[p] + 1])
  /\ UNCHANGED <<vars, val, result>>

Put(p) ==
  /\ ~MustWait(p)
  /\ Goto(p, "check", "notify")
  /\ deque_' = Append(deque_, [tag |-> p, value |-> val[p]])
  /\ UNCHANGED <<vars, val, result>>

\* Mutant: take hands out the newest item.
TakeLast(c) ==
  /\ ~MustWait(c)
  /\ Goto(c, "check", "notify")
  /\ result' = [result EXCEPT ![c] = deque_[Len(deque_)]]
  /\ deque_' = SubSeq(deque_, 1, Len(deque_) - 1)
  /\ UNCHANGED <<vars, val>>

Take(c) ==
  /\ ~MustWait(c)
  /\ Goto(c, "check", "notify")
  /\ result' = [result EXCEPT ![c] = Head(deque_)]
  /\ deque_' = Tail(deque_)
  /\ UNCHANGED <<vars, val>>

\* Mutant: notify_one in the place of notify_all.
NotifyOnlyOne(t) ==
  /\ Goto(t, "notify", "unlock")
  /\ \/ NotifyOne(t, Notifies(t))
     \/ (\A u \in Threads : ~Registered(u, Notifies(t))) /\ UNCHANGED vars
  /\ UNCHANGED <<deque_, val, result>>

Notify(t) ==
  /\ Goto(t, "notify", "notifying")
  /\ NotifyAll(t, Notifies(t))
  /\ UNCHANGED <<deque_, val, result>>

Notified(t) ==
  /\ Goto(t, "notifying", "unlock")
  /\ NotifyAllExit(t)
  /\ UNCHANGED <<deque_, val, result>>

End(t) ==
  /\ Goto(t, "unlock", "return")
  /\ Unlock(t)
  /\ UNCHANGED <<deque_, val, result>>

\* The output is written, and the next value is due.
Published(p) ==
  /\ Goto(p, "return", IF val[p] + 1 = Values THEN "done" ELSE "call")
  /\ val' = [val EXCEPT ![p] = @ + 1]
  /\ UNCHANGED <<vars, deque_, result>>

Consumed(c) ==
  /\ Goto(c, "return", "call")
  /\ result' = [result EXCEPT ![c] = nullptr]
  /\ UNCHANGED <<vars, deque_, val>>

-----------------------------------------------------------------------------

\* The steps of CondVarOpt that neither begin nor end a call of the queue.
CondVarStep(t) ==
  /\ \/ UnlockInWait(t)
     \/ ExitCritical(t)
     \/ AssertFails(t)
     \/ NotifyWaitReturn(t)
     \/ Relock(t)
     \/ NotifyAllSlot(t)
  /\ UNCHANGED queueVars

Step(t) ==
  /\ Running
  /\ \/ Begin(t)
     \/ Await(t)
     \/ Awake(t)
     \/ t \in Producers /\ (Put(t) \/ Published(t))
     \/ t \in Consumers /\ (Take(t) \/ Consumed(t))
     \/ Notify(t)
     \/ Notified(t)
     \/ End(t)
     \/ CondVarStep(t)

\* Everything published is printed, and the consumers sleep.
AllConsumed ==
  /\ \A p \in Producers : at[p] = "done"
  /\ deque_ = <<>>
  /\ \A c \in Consumers : pc[c] = "blocked" /\ ~notified[c]

Quiescent == AllConsumed /\ UNCHANGED allVars

NextQueue == Quiescent \/ \E t \in Threads : Step(t)

\* The scheduler runs every ready thread, a mutex that stays free is taken.
Fairness == \A t \in Threads : WF_allVars(Step(t))

SpecQueue == InitQueue /\ [][NextQueue]_allVars /\ Fairness

-----------------------------------------------------------------------------
(* The inductive invariant: the safety properties below follow from it. *)

\* Where a thread is in the queue and where it is in the condition variable.
Positions ==
  \A t \in Threads :
    /\ at[t] = "waiting" <=> pc[t] \notin {"client", "notifyAll"}
    /\ at[t] = "waiting" => cv[t] = WaitsOn(t)
    /\ at[t] = "notifying" <=> pc[t] = "notifyAll"
    /\ at[t] = "notifying" => cv[t] = Notifies(t)
    /\ at[t] \in {"check", "notify", "notifying", "unlock"} => mutex = t
    /\ t \in Producers /\ at[t] # "done" => val[t] < Values

\* NobodySleepsInVain, from the registration on and until the notification.
WaitersSound ==
  \A t \in Threads :
    Registered(t, WaitsOn(t)) =>
      \/ MustWait(t)
      \/ \E u \in Threads :
           at[u] \in {"notify", "notifying"} /\ Notifies(u) = WaitsOn(t)

\* How many values of each producer have been put into the queue.
absSent ==
  [p \in Producers |->
     val[p] + IF at[p] \in {"notify", "notifying", "unlock", "return"} THEN 1
                                                                      ELSE 0]

\* The values of p in the queue.
Queued(p) ==
  {deque_[i].value : i \in {j \in 1 .. Len(deque_) : deque_[j].tag = p}}

\* The values of p in the queue are the last ones it has put, from n on.
QueuedFrom(p, n) == Queued(p) = n .. (absSent[p] - 1)

\* How many values of each producer have been taken out of it.
absReceived == [p \in Producers |-> absSent[p] - Cardinality(Queued(p))]

\* The values of a producer leave the queue in the order in which they were put,
\* and none is missing; a consumer has an item while it hands it out.
OrderSound ==
  /\ \A i, j \in 1 .. Len(deque_) :
       i < j /\ deque_[i].tag = deque_[j].tag => deque_[i].value < deque_[j].value
  /\ \A p \in Producers : \E n \in 0 .. absSent[p] : QueuedFrom(p, n)
  /\ \A c \in Consumers :
       result[c] # nullptr <=> at[c] \in {"notify", "notifying", "unlock", "return"}

-----------------------------------------------------------------------------
(* Properties *)

\* The queue never holds more than max_capacity_ items, although a producer
\* that was woken finds that others have been faster, and although wakeups come
\* from the notifications of any condition variable (ProducerConsumer.ino:26).
Bounded == Len(deque_) =< max_capacity_

\* Nobody sleeps on while there is something for it to do: a thread that sleeps
\* without a notification has a reason to, or the one who took the reason away
\* is about to notify (ProducerConsumer.ino:30, 40).
NobodySleepsInVain ==
  \A t \in Threads :
    pc[t] = "blocked" /\ ~notified[t] /\ ~MustWait(t) =>
      \E u \in Threads :
        at[u] \in {"notify", "notifying"} /\ Notifies(u) = WaitsOn(t)

\* What the threads wait for, and what passes through the queue.
WaitingSound ==
  /\ TypeOKQueue
  /\ Bounded
  /\ Positions
  /\ WaitersSound

IInvQueue == WaitingSound /\ OrderSound

\* What is published is consumed in the end, with the queue full and empty in
\* between; producers and consumers never all wait for each other
\* (ProducerConsumer.ino:24-42).
Delivers == <>AllConsumed

\* The refinement of Channel: a value is sent when it is in the deque, and
\* received when it is out of it.
Ch == INSTANCE Channel WITH
        sent <- absSent, received <- absReceived, item <- result,
        Capacity <- max_capacity_

\* Every consumer gets the values of a producer in the order in which they were
\* published, none of them twice and none of them lost, whoever waits and wakes
\* in between (ProducerConsumer.ino:29, 38-39).
ImplementsChannel == Ch!Spec
=============================================================================
