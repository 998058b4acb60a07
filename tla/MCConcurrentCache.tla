------------------------- MODULE MCConcurrentCache --------------------------
(***************************************************************************)
(* ConcurrentCache with limits below, at and above the number of keys.     *)
(***************************************************************************)
EXTENDS ConcurrentCache

MCSizes == 0..2
=============================================================================
