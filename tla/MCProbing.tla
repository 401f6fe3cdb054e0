----------------------------- MODULE MCProbing -----------------------------
(***************************************************************************)
(* Constants of the model-checking runs of Probing.                        *)
(***************************************************************************)
EXTENDS Probing

CONSTANTS n1, n2, m1
=============================================================================
