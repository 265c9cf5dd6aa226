----------------------------- MODULE MCBeadStore -----------------------------
(***************************************************************************)
(* A small instance of BeadStore for TLC.                                  *)
(***************************************************************************)
EXTENDS BeadStore, TLC

\* The clients are interchangeable.
Symmetry == Permutations(Sessions)
=============================================================================
