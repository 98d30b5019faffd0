------------------------------ MODULE Channel ------------------------------
(***************************************************************************)
(* What the ProducerConsumer example is built for: the values of every     *)
(* producer arrive, each of them once and in the order of publication, and *)
(* at most Capacity of them are under way.  Queue.tla implements it.       *)
(***************************************************************************)
EXTENDS Integers, FiniteSets

CONSTANTS
  Producers,
  Consumers,
  Values,    \* how many values a producer sends: 0 .. Values - 1
  Capacity,  \* how many of them can be under way
  nullptr    \* a consumer that has no item

VARIABLES
  sent,      \* how many values each producer has sent
  received,  \* how many values of each producer have been received
  item       \* the item that a consumer has received and not yet printed

channelVars == <<sent, received, item>>

Init ==
  /\ sent = [p \in Producers |-> 0]
  /\ received = [p \in Producers |-> 0]
  /\ item = [c \in Consumers |-> nullptr]

Item == [tag : Producers, value : 0 .. (Values - 1)]

UnderWay == {i \in Item : received[i.tag] =< i.value /\ i.value < sent[i.tag]}

Send(p) ==
  /\ sent[p] < Values
  /\ Cardinality(UnderWay) < Capacity
  /\ sent' = [sent EXCEPT ![p] = @ + 1]
  /\ UNCHANGED <<received, item>>

\* Consumer c receives the next value of producer p.
Receive(c, p) ==
  /\ item[c] = nullptr
  /\ received[p] < sent[p]
  /\ item' = [item EXCEPT ![c] = [tag |-> p, value |-> received[p]]]
  /\ received' = [received EXCEPT ![p] = @ + 1]
  /\ UNCHANGED sent

Consume(c) ==
  /\ item[c] # nullptr
  /\ item' = [item EXCEPT ![c] = nullptr]
  /\ UNCHANGED <<sent, received>>

Next ==
  \/ \E p \in Producers : Send(p)
  \/ \E c \in Consumers :
       \/ Consume(c)
       \/ \E p \in Producers : Receive(c, p)

Spec == Init /\ [][Next]_channelVars
=============================================================================
