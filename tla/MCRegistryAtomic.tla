-------------------------- MODULE MCRegistryAtomic --------------------------
(* Model-checking instance of RegistryAtomic: two managers, two names.     *)
EXTENDS RegistryAtomic

CONSTANTS m1, m2, a, b

MCManagers == {m1, m2}
MCNames    == {a, b}

\* Managers and names are interchangeable model values (safety runs only).
Symmetry == Permutations(MCManagers) \cup Permutations(MCNames)
=============================================================================
