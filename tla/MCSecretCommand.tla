------------------------- MODULE MCSecretCommand -------------------------
(* A small instance of SecretCommand for TLC.                              *)
EXTENDS SecretCommand
=============================================================================
