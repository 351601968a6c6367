--------------------------- MODULE WindowLimiter ---------------------------
(***************************************************************************)
(* What a rate limit promises: each key has a budget, a request admitted   *)
(* under the key takes one unit, and the budget comes back as a whole when *)
(* the window of the key has run down, which takes Window[k] ticks from    *)
(* the moment it starts to run.  Nothing gives units back earlier and      *)
(* nothing prolongs a window, unless the store lost its keys.              *)
(***************************************************************************)
EXTENDS Naturals

CONSTANTS Keys, Budget, Window

VARIABLES
    used,   \* units taken in the window of each key
    rest,   \* ticks the window has left: 0 closed, Waiting(k) not yet running
    lost    \* has the store ever lost its keys?

vars == <<used, rest, lost>>

Waiting(k) == Window[k] + 1

Init ==
    /\ used = [k \in Keys |-> 0]
    /\ rest = [k \in Keys |-> 0]
    /\ lost = FALSE

\* The step is about k alone.
Only(k) ==
    /\ used' = [used EXCEPT ![k] = used'[k]]
    /\ rest' = [rest EXCEPT ![k] = rest'[k]]
    /\ UNCHANGED lost

Open(k) ==
    /\ rest[k] = 0 /\ rest'[k] = Waiting(k)
    /\ used'[k] = used[k]
    /\ Only(k)

Take(k) ==
    /\ used[k] < Budget[k] /\ used'[k] = used[k] + 1
    /\ rest'[k] = rest[k]
    /\ Only(k)

\* A window starts to run once; only after a loss may one be started again.
Start(k) ==
    /\ rest'[k] = Window[k]
    /\ rest[k] = Waiting(k) \/ (lost /\ rest[k] > 0)
    /\ used'[k] = used[k]
    /\ Only(k)

\* The budgets whose windows are over come back.
Renewed == used' = [k \in Keys |-> IF rest'[k] = 0 THEN 0 ELSE used[k]]

Pass ==
    /\ rest' = [k \in Keys |-> IF rest[k] \in 1 .. Window[k] THEN rest[k] - 1 ELSE rest[k]]
    /\ Renewed
    /\ UNCHANGED lost

Lose ==
    /\ lost' = TRUE
    /\ rest' = [k \in Keys |-> 0]
    /\ Renewed

Next ==
    \/ \E k \in Keys : Open(k) \/ Take(k) \/ Start(k)
    \/ Pass
    \/ Lose

Spec == Init /\ [][Next]_vars

=============================================================================
