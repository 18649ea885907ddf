------------------------------ MODULE MCVortex ------------------------------
(* A V2Ray outbound, and a profile name to save twice or next to a bridge;  *)
(* two ports of our own, so that the preferred port and the last one are    *)
(* both reached.  A Snowflake mode, its line, and a line of the user's: a   *)
(* bridge that needs no helper, or an obfs4 one.                            *)
EXTENDS Vortex, TLC

CONSTANTS snowflake, sfLine, userLine, sfClient, lyrebird

SnowflakeLine == snowflake :> sfLine
PlainBridge   == (sfLine :> sfClient) @@ (userLine :> None)
Obfs4Bridge   == (sfLine :> sfClient) @@ (userLine :> lyrebird)
=============================================================================
