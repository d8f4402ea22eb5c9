---------------------------- MODULE MCMemCache ----------------------------
(***************************************************************************)
(* MemCache with room for two of three keys, and a few bytes to spare.     *)
(***************************************************************************)
EXTENDS MemCache, TLC

Symmetry == Permutations(Keys) \cup Permutations(Values)

===========================================================================
