----------------------------- MODULE MCPipeline -----------------------------
(* Small instances of Pipeline for TLC.                                    *)
EXTENDS Pipeline, TLC

Symmetry == Permutations(Requests)

\* The keys are determined by the other constants.
AllKeys == {Key(kind, ip, path) : kind \in Kinds, ip \in Clients, path \in Paths}

\* 120 requests and 60 per route become 2 and 1; the other limits are 1.
SmallLimits == [kind \in Limiters |-> IF kind = "ip" THEN 2 ELSE 1]
EqualLimits == [kind \in Limiters |-> 1]

\* 60 seconds become one tick or two, 300 seconds of autoban two.
ShortPeriods == [kind \in Kinds |-> 1]
Periods == [kind \in Kinds |-> 2]
=============================================================================
