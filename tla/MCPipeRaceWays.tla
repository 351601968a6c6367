---------------------------- MODULE MCPipeRaceWays ---------------------------
EXTENDS MCPipeline

(***************************************************************************)
(* Two scenarios of one run.  "race": the requests race on one plain path  *)
(* while Redis fails and loses keys or a reply.  "ways": one request at a  *)
(* time takes every way through the pipeline while Redis answers, and no   *)
(* more than two counters exist together.                                  *)
(***************************************************************************)
CONSTANT PlainPaths
VARIABLE scenario

Race ==
    /\ UNCHANGED lists
    /\ reasons' = [ip \in Clients |-> {}]
    /\ \A r \in Requests :
        request'[r] # Idle => request'[r].ip # NoIp /\ request'[r].path \in PlainPaths

Ways ==
    /\ faults' = 0
    /\ Cardinality({r \in Requests : request'[r] # Idle}) <= 1
    /\ Cardinality({k \in Keys : count'[k] > 0}) <= 2
    /\ \A r \in Requests : request'[r].path \notin PlainPaths

ScenarioSpec ==
    /\ Init /\ scenario \in {"race", "ways"}
    /\ [][/\ Next
          /\ UNCHANGED scenario
          /\ IF scenario = "race" THEN Race ELSE Ways]_<<vars, scenario>>
=============================================================================
