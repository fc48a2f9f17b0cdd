----------------------------- MODULE MCRefresh ------------------------------
(* Instances of CredentialRefresh for TLC. *)
EXTENDS CredentialRefresh
CONSTANTS p1, p2
=============================================================================
