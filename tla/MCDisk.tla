-------------------------------- MODULE MCDisk --------------------------------
(***************************************************************************)
(* CowDisk with one disk whose requests compete for a cache of one page.   *)
(***************************************************************************)
EXTENDS CowDisk, TLC

CONSTANTS d1

BlockSymmetry == Permutations(Threads) \cup Permutations(Blocks)
==============================================================================
