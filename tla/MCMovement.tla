----------------------------- MODULE MCMovement -----------------------------
(***************************************************************************)
(* Small maps of 4 x 5 tiles for MapParsing and Movement.                  *)
(***************************************************************************)
EXTENDS Movement

Ring   == {q \in Grid : q[1] \in {0, Width - 1} \/ q[2] \in {0, Height - 1}}
Inside == Grid \ Ring

Walls(laid)  == [laid |-> laid, solid |-> TRUE, marksSpawn |-> FALSE, interesting |-> {}]
Ground(laid) == [laid |-> laid, solid |-> FALSE, marksSpawn |-> FALSE, interesting |-> {<<1, 2>>}]
Spawns(laid) == [laid |-> laid, solid |-> FALSE, marksSpawn |-> TRUE, interesting |-> {}]

\* Walled in with one tile or none solid inside; ground above or below the walls, on all
\* tiles; one or two tiles laid for the spawn point.  Or only one wall, or no spawn point.
SmallMaps ==
    {<<Ground(Grid), Walls(Ring \cup s), Spawns({a, b})>> : s \in {{}} \cup {{q} : q \in Inside}, a, b \in Inside}
        \cup {<<Walls(Ring), Spawns({a}), Spawns({b}), Ground({<<0, 3>>, <<1, 2>>})>> : a, b \in Inside}
        \cup {<<Walls({q \in Ring : q[2] = 0}), Spawns({<<1, 1>>})>>, <<Walls({<<1, 0>>})>>}

SmallIndoorSpawns == {<<2, 3>>, <<1, 2>>, <<3, 1>>}

\* An unwalled map is endless: the model goes a little beyond the map.
NearTheMap == p # Unset => p[1] \in -2..Width+1 /\ p[2] \in -2..Height+1

=============================================================================
