----------------------------- MODULE MCWriters ------------------------------
(* Instances of CredentialWriters for TLC. *)
EXTENDS CredentialWriters
CONSTANTS p1, p2
=============================================================================
