--------------------------- MODULE MCPersistence ----------------------------
(* TLC instances of Persistence. *)
EXTENDS Persistence

\* Two tables are enough for a save to stop half-way.
MCTables == {"players", "commodities"}
=============================================================================
