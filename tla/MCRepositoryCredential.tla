----------------------- MODULE MCRepositoryCredential -----------------------
(* Instances of RepositoryCredential for TLC. *)
EXTENDS RepositoryCredential
=============================================================================
