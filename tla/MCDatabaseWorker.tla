-------------------------- MODULE MCDatabaseWorker --------------------------
(***************************************************************************)
(* Small instances of DatabaseWorker for TLC.                              *)
(***************************************************************************)
EXTENDS DatabaseWorker, TLC

CONSTANTS c1, c2, n1, n2

ClearerSymmetry == Permutations(Clearers)
=============================================================================
