----------------------------- MODULE MCSupervisor -----------------------------
(* Instances of Supervisor for TLC. *)
EXTENDS Supervisor, TLC

\* The Process objects of an id are interchangeable.
Symmetry == Permutations(Objects)
===============================================================================
