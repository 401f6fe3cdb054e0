----------------------------- MODULE MCDispatch -----------------------------
(***************************************************************************)
(* Constants of the model-checking runs of Dispatch.                       *)
(***************************************************************************)
EXTENDS Dispatch, TLC

CONSTANTS r1, r2, r3, n1, n2, t1, t2, c1, c2

\* Every request may use every node, for the same target.
WholePool == [r \in Requests |-> Nodes]

\* r3 matches an empty group: it only competes for the global permits.
PoolWithoutR3 == [r \in Requests |-> IF r = r3 THEN {} ELSE Nodes]

SameTarget == [r \in Requests |-> t1]

\* r1 has a target of its own.
OwnTarget == [r \in Requests |-> IF r = r1 THEN t1 ELSE t2]

RequestSymmetry == Permutations(Requests)

\* A request is exchanged together with its target.
Kept == [x \in {r1, r2, t1, t2} |-> x]
Swapped == (r1 :> r2) @@ (r2 :> r1) @@ (t1 :> t2) @@ (t2 :> t1)

OwnTargetSymmetry ==
    {f @@ g : f \in {Kept, Swapped}, g \in Permutations({c1, c2})}
=============================================================================
