---------------------------- MODULE ProgramStore ----------------------------
(***************************************************************************)
(* What an update promises about the program on disk, whatever fails and   *)
(* wherever it is interrupted: there is always a complete program, and it  *)
(* is one that was there before or one whose content was verified against  *)
(* its signed manifest.  Nothing is said about how files are moved.        *)
(***************************************************************************)
CONSTANTS Versions, First

VARIABLES
  program,  \* the version a user can start, possibly after restoring it by hand
  trusted   \* the versions whose content was ever verified, and the first

storeVars == << program, trusted >>

StoreInit == program = First /\ trusted = {First}

Verify(v) == trusted' = trusted \union {v} /\ UNCHANGED program

\* Installing, rolling back.
Replace(v) == v \in trusted /\ program' = v /\ UNCHANGED trusted

StoreNext == \E v \in Versions : Verify(v) \/ Replace(v)

StoreSpec == StoreInit /\ [][StoreNext]_storeVars
=============================================================================
