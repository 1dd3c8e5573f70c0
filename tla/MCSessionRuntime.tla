-------------------------- MODULE MCSessionRuntime --------------------------
EXTENDS SessionRuntime, TLC

TwoListeners == {"near", "far"}
Arriving == {"first", "second", "third"}
Competing == {"task"}
TheOperation == "operation"

\* Two connections of a service that are handed over, and one of a service that
\* the task and the operation use as well.
ServiceOf ==
  [j \in Arriving \union Competing \union {TheOperation} |->
     IF j \in {"first", "second"} THEN "viewer" ELSE "control"]
\* The third connection has another idea of the budget.
BudgetOf ==
  [j \in Arriving \union Competing \union {TheOperation} |-> IF j \in {"task", TheOperation} THEN 1 ELSE 2]
HandedOver == {"viewer"}

\* An operation that competes with a task, or two listeners.
OperationOrListeners ==
  {[operation |-> TRUE, listeners |-> {}, jobs |-> Competing],
   [operation |-> FALSE, listeners |-> TwoListeners, jobs |-> Arriving \union Competing]}
=============================================================================
