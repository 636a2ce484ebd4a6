------------------------- MODULE MCSessionLifecycle -------------------------
(* Small instances of SessionLifecycle. *)
EXTENDS SessionLifecycle, TLC

Symmetric == Permutations(Client) \cup Permutations(Interactive)
=============================================================================
