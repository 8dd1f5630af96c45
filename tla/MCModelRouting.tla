--------------------------- MODULE MCModelRouting ---------------------------
EXTENDS ModelRouting, TLC

CONSTANTS r1, r2, r3

Kind(wants, model_, fits) == [wants |-> wants, model |-> model_, fits |-> fits]

MCCapacity == [m \in 1 .. NModels |-> 1]

First == Kind("generate", 1, {1, 2})
Second == Kind("generate", 1, {2})
Neither == Kind("generate", 1, {})

\* Requests that compete for both models, for the one that fits, or for a place in
\* the queue, next to some that only count tokens or name no model.
Workload(a, b, c) == r1 :> a @@ r2 :> b @@ r3 :> c

MCWorkloads ==
    {Workload(First, First, First), Workload(First, Second, Second), Workload(Second, Neither, First),
     Workload(Second, First, Kind("count", 2, {})), Workload(First, Kind("unknown", 1, {}), Kind("unnamed", 1, {}))}
=============================================================================
