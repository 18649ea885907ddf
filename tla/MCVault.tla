------------------------------ MODULE MCVault -------------------------------
(* Three crashes, and the two keys that a first start and a loss can use.   *)
EXTENDS Vault

=============================================================================
