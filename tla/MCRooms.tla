------------------------------- MODULE MCRooms -------------------------------
(* Instances of Rooms for TLC. *)
EXTENDS Rooms, TLC

\* Sockets, ids and threads are interchangeable; names are fixed by object.
Symmetry == Permutations(Sockets) \cup Permutations(Ids) \cup Permutations(Threads)
==============================================================================
