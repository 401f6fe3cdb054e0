------------------------------ MODULE LogStore ------------------------------
(***************************************************************************)
(* What the application promises about its request logs to those who write *)
(* them and to a caller of clear_logs, with no word about the queue, its   *)
(* barrier and the thread that serves it.  Logs get into the table in the  *)
(* order in which they came, a group at a time or not at all.  A clear     *)
(* takes effect at one moment, and takes then every log that was offered   *)
(* before it was asked for and no other; its caller is told the truth, or  *)
(* that it is not known.                                                   *)
(***************************************************************************)
EXTENDS Integers

CONSTANTS Callers  \* calls of clear_logs

VARIABLES
    last,    \* how many logs were offered so far
    coming,  \* those that were accepted and not yet stored
    kept,    \* those a reader of the log finds
    before,  \* for every call, how many logs were offered before it
    fate,    \* what became of the call
    told     \* what its caller was told

storeVars == <<last, coming, kept, before, fate, told>>

StoreInit ==
    /\ last = 0
    /\ coming = {}
    /\ kept = {}
    /\ before = [c \in Callers |-> 0]
    /\ fate = [c \in Callers |-> "none"]
    /\ told = [c \in Callers |-> "nothing"]

\* A log is accepted, turned away, or takes the place of another one.
Arrive ==
    /\ last' = last + 1
    /\ \/ coming' = coming
       \/ coming' = coming \cup {last + 1}
       \/ \E x \in coming : coming' = (coming \ {x}) \cup {last + 1}
    /\ UNCHANGED <<kept, before, fate, told>>

\* Those that came first are stored, all or none of them.
Store(upTo) ==
    /\ coming' = {x \in coming : x > upTo}
    /\ \/ kept' = kept
       \/ kept' = kept \cup {x \in coming : x <= upTo}
    /\ UNCHANGED <<last, before, fate, told>>

Ask(c) ==
    /\ fate[c] = "none"
    /\ fate' = [fate EXCEPT ![c] = "pending"]
    /\ before' = [before EXCEPT ![c] = last]
    /\ UNCHANGED <<last, coming, kept, told>>

Clear(c) ==
    /\ fate[c] = "pending"
    /\ fate' = [fate EXCEPT ![c] = "cleared"]
    /\ coming' = {x \in coming : x > before[c]}
    /\ kept' = {x \in kept : x > before[c]}
    /\ UNCHANGED <<last, before, told>>

Fail(c) ==
    /\ fate[c] = "pending"
    /\ fate' = [fate EXCEPT ![c] = "refused"]
    /\ UNCHANGED <<last, coming, kept, before, told>>

Withdraw(c) ==
    /\ fate[c] = "pending"
    /\ fate' = [fate EXCEPT ![c] = "withdrawn"]
    /\ \/ UNCHANGED told
       \/ told[c] = "nothing" /\ told' = [told EXCEPT ![c] = "withdrawn"]
    /\ UNCHANGED <<last, coming, kept, before>>

Tell(c) ==
    /\ fate[c] # "none"
    /\ told[c] = "nothing"
    /\ \/ fate[c] # "pending" /\ told' = [told EXCEPT ![c] = fate[c]]
       \/ told' = [told EXCEPT ![c] = "uncertain"]
    /\ UNCHANGED <<last, coming, kept, before, fate>>

StoreNext ==
    \/ Arrive
    \/ \E upTo \in 0..last : Store(upTo)
    \/ \E c \in Callers : Ask(c) \/ Clear(c) \/ Fail(c) \/ Withdraw(c) \/ Tell(c)

StoreSpec == StoreInit /\ [][StoreNext]_storeVars
=============================================================================
