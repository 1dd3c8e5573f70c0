---------------------------- MODULE SingleResult ----------------------------
(***************************************************************************)
(* What an Operation promises its owner (weld-session, operation.rs): of   *)
(* all the resources its producers create, the owner receives at most one, *)
(* and a resource is retired exactly when the owner will never receive it. *)
(***************************************************************************)
CONSTANT Values

VARIABLES fate,     \* value -> "unborn" | "made" | "claimed" | "retired"
          outcome   \* what the owner has seen of the operation

absVars == <<fate, outcome>>

Outcomes == {"pending", "claimed", "failed", "stopped", "cancelled"}

AbsInit == /\ fate = [v \in Values |-> "unborn"]
           /\ outcome = "pending"

Make(v) == /\ fate[v] = "unborn"
           /\ fate' = [fate EXCEPT ![v] = "made"]
           /\ UNCHANGED outcome

\* Ownership moves to the caller at most once, and only while it still asks.
Claim(v) == /\ outcome = "pending"
            /\ fate[v] = "made"
            /\ fate' = [fate EXCEPT ![v] = "claimed"]
            /\ outcome' = "claimed"

Retire(v) == /\ fate[v] = "made"
             /\ fate' = [fate EXCEPT ![v] = "retired"]
             /\ UNCHANGED outcome

Conclude(o) == /\ outcome = "pending"
               /\ outcome' = o
               /\ UNCHANGED fate

AbsNext == \/ \E v \in Values : Make(v) \/ Claim(v) \/ Retire(v)
           \/ \E o \in {"failed", "stopped", "cancelled"} : Conclude(o)

AbsSpec == AbsInit /\ [][AbsNext]_absVars
=============================================================================
