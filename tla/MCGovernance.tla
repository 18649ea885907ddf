---------------------------- MODULE MCGovernance ----------------------------
(* Two identities, two ids of which one may be submitted twice, a timelock  *)
(* of one clock tick.                                                       *)
EXTENDS Governance

=============================================================================
