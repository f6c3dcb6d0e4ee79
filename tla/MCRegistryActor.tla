-------------------------- MODULE MCRegistryActor --------------------------
(* Model-checking instance of RegistryActor: two callers, three kinds.     *)
EXTENDS RegistryActor

CONSTANTS c1, c2

MCCallers == {c1, c2}
MCKinds   == {"RegisterActor", "UnregisterActor", "LookupActor"}
=============================================================================
