-------------------------- MODULE MCProcessManager --------------------------
(* ProcessManager for TLC: the identities it is instantiated with are       *)
(* interchangeable.                                                         *)
EXTENDS ProcessManager, TLC

Symmetry == Permutations(Procs) \cup Permutations(Asgs) \cup Permutations(Fillers)
                \cup Permutations(Sites) \cup Permutations(Tabs)

=============================================================================
