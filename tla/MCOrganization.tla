---------------------------- MODULE MCOrganization ----------------------------
(***************************************************************************)
(* A small instance of Organization for TLC.                               *)
(***************************************************************************)
EXTENDS Organization

CONSTANTS tone, budget, given

\* Each sets one key.
SomeDocuments == {[Empty EXCEPT ![k] = given] : k \in {tone, budget}}
=============================================================================
