--------------------------- MODULE MCSocksServer ----------------------------
(* Three connections against the core's task, two mode switches.            *)
EXTENDS SocksServer

=============================================================================
