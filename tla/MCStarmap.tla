----------------------------- MODULE MCStarmap -----------------------------
(* A map of five sectors: two blocks, a hub of two, two rounds of dead ends. *)
EXTENDS Starmap
=============================================================================
