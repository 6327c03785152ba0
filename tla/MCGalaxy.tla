------------------------------ MODULE MCGalaxy ------------------------------
(* Small galaxies for TLC. *)
EXTENDS GalaxyNight, TLC

CONSTANTS p1, p2, g1, g2, i1, i2

\* Three sectors in a row, the first one Federation space.
Line == {<<1, 2>>, <<2, 1>>, <<2, 3>>, <<3, 2>>}

Kit(f, m, others) == [good \in Goods |-> CASE good = "FIGHTERS" -> f
                                            [] good = "MINES" -> m
                                            [] good \in others -> 1
                                            [] OTHER -> 0]

\* Ships at war: they fight, mine, hide, escape, and send fleets that sweep a
\* minefield of two.
WarKits == {Kit(2, 2, {"EMWARP"}), Kit(1, 1, {"CLOAK", "MINEDEFLECTOR"})}
\* Prey of the factions.
PreyKits == {Kit(1, 0, {"EMWARP"})}
\* Settlers who may stay away: planets are created, fortified, bombed, taken,
\* inherited, and a Fusion Cell banks turns.
HomeKits == {Kit(1, 1, {"GENESIS", "EMWARP"}), Kit(2, 0, {"PULSAR", "PULSARTUBE", "FUSIONCELL"})}
Starter == Kit(1, 0, {})

Symmetry == Permutations(Players) \union Permutations(Gids) \union Permutations(Pids)
=============================================================================
