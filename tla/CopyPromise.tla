---------------------------- MODULE CopyPromise ----------------------------
(***************************************************************************)
(* What the engine is promised of each thing it enforces from memory: what *)
(* it holds is what the table held as a whole at one moment since the      *)
(* process began, or the value the process begins with.  The copy may be   *)
(* old, and may go back to an older one.  It goes back to the initial      *)
(* value only by a restart or, once something has failed, by that failure. *)
(***************************************************************************)
EXTENDS Naturals

CONSTANT Blank      \* what the process begins with

VARIABLES
    table,      \* what is stored, changed by others
    copy,       \* what is enforced
    past,       \* what the table has held since the process began
    failed,     \* a failure that may empty the copy has happened
    restarts    \* how often the process has begun again

copyVars == <<table, copy, past, failed, restarts>>

CopyInit == copy = Blank /\ past = {table} /\ failed = FALSE /\ restarts = 0

Change == past' = past \cup {table'} /\ UNCHANGED <<copy, failed, restarts>>
Fail == failed' = TRUE /\ UNCHANGED <<table, copy, past, restarts>>
Take == copy' \in past /\ UNCHANGED <<table, past, failed, restarts>>
Lose == failed /\ copy' = Blank /\ UNCHANGED <<table, past, failed, restarts>>
Reboot ==
    /\ restarts' = restarts + 1
    /\ copy' = Blank /\ past' = {table} /\ UNCHANGED <<table, failed>>

CopyNext == Change \/ Fail \/ Take \/ Lose \/ Reboot
CopySpec == CopyInit /\ [][CopyNext]_copyVars
=============================================================================
