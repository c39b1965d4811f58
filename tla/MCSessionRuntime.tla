------------------------- MODULE MCSessionRuntime -------------------------
(***************************************************************************)
(* Two processes that share a session, one or two nodes.                     *)
(***************************************************************************)
EXTENDS SessionRuntime, TLC

CONSTANTS m, n, p1, p2

Symmetry == Permutations({m, n}) \cup Permutations({p1, p2})
=============================================================================
