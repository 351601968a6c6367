--------------------------- MODULE MCRuntimeSync ---------------------------
(* Small instances of RuntimeSync for TLC; the configurations give every   *)
(* constant its value.                                                     *)
EXTENDS RuntimeSync
=============================================================================
