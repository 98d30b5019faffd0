----------------------- MODULE CondVarClassicHistory -----------------------
(***************************************************************************)
(* CondVarClassic with a history variable: the threads that a notify_all   *)
(* found asleep and that are asleep still.                                 *)
(***************************************************************************)
EXTENDS CondVarClassic

VARIABLE
  owed    \* threads asleep since before the last notify_all ended

historyVars == <<vars, owed>>

InitHistory == Init /\ owed = {}

NotifyAllEnds == \E t \in Threads : pc[t] = "notifyAll" /\ pc'[t] = "client"

NextHistory ==
  /\ Next
  /\ owed' = (IF NotifyAllEnds THEN Sleeping ELSE owed) \cap Sleeping'

SpecHistory == InitHistory /\ [][NextHistory]_historyVars

\* notify_all "wakes all waiting threads" (doc/condition_variable_api.h:36):
\* every thread it found asleep has a token to wake up by.  In the code a thread
\* that begins to wait later can take the token of an earlier one.
NotifyAllWakesAll == Cardinality(owed) =< waitlist_
=============================================================================
