--------------------------- MODULE MCCoordinator ----------------------------
(* Instances of Coordinator for TLC. *)
EXTENDS Coordinator

CONSTANTS l1, l2, w1, k1, k2

\* Readings called twice and Close once, the other way round, or one watch and one Close.
MCMixes == {{l1, l2, k1}, {l1, k1, k2}, {w1, k1}}
=============================================================================
