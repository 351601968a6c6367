----------------------------- MODULE MCSessions -----------------------------
(* Small instances of Sessions for TLC.                                    *)
EXTENDS Sessions, TLC

Symmetry == Permutations(Requests)

\* The keys are determined by the other constants.
AllKeys == {Token(kind, s) : kind \in {"access", "refresh"}, s \in Sessions \cup {NoSession}}
=============================================================================
