------------------------- MODULE MCSpawnSupervisor -------------------------
(* SpawnSupervisor with one caller.                                        *)
EXTENDS SpawnSupervisor

CONSTANT c1

MCOneClient == {c1}
=============================================================================
