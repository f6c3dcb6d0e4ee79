-------------------------- MODULE MCRegistryClient --------------------------
(* Model-checking instance of RegistryClient: one manager (both of its     *)
(* threads) and two names; the registry's handling of several managers   *)
(* is checked in RegistryAtomic.                                           *)
EXTENDS RegistryClient

CONSTANTS m1, a, b

MCManagers == {m1}
MCNames    == {a, b}
=============================================================================
