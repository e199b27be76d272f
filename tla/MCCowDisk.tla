------------------------------ MODULE MCCowDisk ------------------------------
(* CowDisk with a fresh disk and its template. *)
EXTENDS CowDisk

CONSTANTS d1, d2

(* A template that covers the first block of d1. *)
FirstBlock == {<<d1, 1>>}
=============================================================================
