---------------------------- MODULE MCProvision ----------------------------
(* An instance of Provision for TLC: the processes are interchangeable. *)
EXTENDS Provision, TLC

Symmetric == Permutations(Procs)
============================================================================
