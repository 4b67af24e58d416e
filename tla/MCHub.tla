-------------------------------- MODULE MCHub --------------------------------
(* Small instances of Hub: clients are interchangeable.                     *)
EXTENDS Hub, TLC

CONSTANTS c1, c2
Symmetry == Permutations(Client)
=============================================================================
