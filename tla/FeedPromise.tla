---------------------------- MODULE FeedPromise ----------------------------
(***************************************************************************)
(* What a page that listens to the live traffic is promised: events come   *)
(* in the order they were broadcast, and between subscribing and leaving   *)
(* one is skipped only when QueueSize newer ones were waiting behind it.   *)
(***************************************************************************)
EXTENDS Integers

CONSTANT QueueSize

VARIABLES
    newest,     \* how many events were broadcast
    at          \* the last event of the page's subscription, or Off

promiseVars == <<newest, at>>

Off == -1

PromiseInit == newest = 0 /\ at = Off

Publish == newest' = newest + 1 /\ UNCHANGED at
Subscribe == at = Off /\ at' = newest /\ UNCHANGED newest
Unsubscribe == at' = Off /\ UNCHANGED newest
Deliver ==
    /\ at # Off
    /\ at' \in at + 1 .. newest
    /\ \A m \in at + 1 .. at' - 1 : m + QueueSize <= newest
    /\ UNCHANGED newest

PromiseNext == Publish \/ Subscribe \/ Unsubscribe \/ Deliver
PromiseSpec == PromiseInit /\ [][PromiseNext]_promiseVars
=============================================================================
