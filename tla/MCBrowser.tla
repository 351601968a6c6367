----------------------------- MODULE MCBrowser -----------------------------
(* Two tabs and two calls in flight together. *)
EXTENDS BrowserSession, TLC
Symmetry == Permutations(Tabs) \cup Permutations(CallIds)
=============================================================================
