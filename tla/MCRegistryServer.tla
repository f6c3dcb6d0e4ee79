-------------------------- MODULE MCRegistryServer --------------------------
(* Model-checking instance of RegistryServer: two managers, two names.     *)
EXTENDS RegistryServer

CONSTANTS m1, m2, a, b

MCManagers == {m1, m2}
MCNames    == {a, b}
=============================================================================
