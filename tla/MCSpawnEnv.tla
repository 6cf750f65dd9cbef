------------------------------ MODULE MCSpawnEnv ------------------------------
(***************************************************************************)
(* The constants of the runs of SpawnEnv.                                  *)
(***************************************************************************)
EXTENDS SpawnEnv

CONSTANTS launchd, p1

MCProcs     == {launchd, p1}
MCLibraries == {"payload.dylib"}
MCDirs      == {"dir"}

AllAttrs   == {"none", "limited", "driver"}

=============================================================================
