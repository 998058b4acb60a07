----------------------------- MODULE MCZimSplit -----------------------------
(***************************************************************************)
(* Instances of ZimSplit for TLC.                                          *)
(***************************************************************************)
EXTENDS ZimSplit

\* --size from 0 (every chunk is too large) to more than most archives.
MCPartSizes == 0..5

=============================================================================
