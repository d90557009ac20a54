----------------------------- MODULE MC_SidStore -----------------------------
(* Small instances of SidStore for TLC. *)
EXTENDS SidStore, TLC

(* Pods and switches are interchangeable. *)
Symmetry == Permutations(Pods) \cup Permutations(Switches)
=============================================================================
