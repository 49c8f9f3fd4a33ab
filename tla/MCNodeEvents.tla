---------------------------- MODULE MCNodeEvents ------------------------------
(* Instances of NodeEvents for TLC. *)
EXTENDS NodeEvents, TLC

\* The Process objects of an id are interchangeable, and so are the handlers.
Symmetry == Permutations(Objects) \cup Permutations(Handlers)
===============================================================================
