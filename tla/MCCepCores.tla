----------------------------- MODULE MCCepCores ------------------------------
(* CepCores on small instances: the numbers of the .cfg, core 0 at fault or *)
(* none, and a core less for the playback team.                             *)
EXTENDS CepCores

MCFaulty == {0}
MCNone   == {}
MCWatched == {1, 2}
MCMask   == [p \in Programs |-> IF p = "playback" THEN {0, 1} ELSE Cores]
==============================================================================
