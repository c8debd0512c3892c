------------------------------ MODULE MCTable ------------------------------
(* An instance of Table for TLC; the bootstrap node never answers. *)
EXTENDS Table

CONSTANTS n1, n2, n3

MCNursery == <<n3>>

=============================================================================
