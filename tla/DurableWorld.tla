---------------------------- MODULE DurableWorld ----------------------------
(***************************************************************************)
(* What the persistence layer of galwar2025 promises, without saying how.  *)
(*                                                                         *)
(* `world` is the universe as every command sees it: it only ever shows    *)
(* the state between two commands.  `worlds` is the set of those states    *)
(* this process has been in.  `durable` is the state a restart would load. *)
(* A world is named by a version number that grows with every command.     *)
(***************************************************************************)
EXTENDS Naturals

VARIABLES world, worlds, durable

dwVars == <<world, worlds, durable>>

Init ==
    /\ world = 0
    /\ worlds = {0}
    /\ durable = 0

\* A command runs to completion: the universe reaches a later version.
Execute ==
    /\ world' \in Nat /\ world' > world
    /\ worlds' = worlds \union {world'}
    /\ UNCHANGED durable

\* A later world, one that existed between two commands, becomes durable.
Persist ==
    /\ durable' \in worlds /\ durable' > durable
    /\ UNCHANGED <<world, worlds>>

\* The process dies.  Whatever comes back is exactly the durable world.
Recover ==
    /\ world' = durable
    /\ worlds' = {durable}
    /\ UNCHANGED durable

Next == Execute \/ Persist \/ Recover

Spec == Init /\ [][Next]_dwVars
=============================================================================
