------------------------------- MODULE MCFeed -------------------------------
(* Two sockets: a page connects again while the one it lost still hangs.    *)
EXTENDS LiveFeed
=============================================================================
