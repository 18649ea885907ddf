----------------------------- MODULE MCTabPool -----------------------------
(* Four tabs for three cached views, two setups, one web page and one page  *)
(* the core renders.                                                        *)
EXTENDS TabPool

=============================================================================
