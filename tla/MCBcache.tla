------------------------------ MODULE MCBcache ------------------------------
(* Bcache with its symmetries: nothing in it tells two processes, two       *)
(* sectors or two contents apart.  Buffers have an order, that of the list. *)
EXTENDS Bcache, TLC

Symmetry == Permutations(Procs) \cup Permutations(Sectors) \cup Permutations(Data)
=============================================================================
