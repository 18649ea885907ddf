------------------------------- MODULE MCHorus -------------------------------
(* A page indexed twice under different titles, found again by SearXNG, and *)
(* one that Ahmia and the DHT both know; three results fill the list.       *)
EXTENDS Horus

Hit(u, b, v, t) == [url |-> u, badge |-> b, verified |-> v, title |-> t]

Local  == {<<>>, <<Hit("page", "Local", TRUE, 2), Hit("page", "Local", TRUE, 1)>>}
Onions == {<<>>, <<Hit("service", "Onion", TRUE, 1)>>}
Meta   == {<<>>, <<Hit("page", "Clearnet", FALSE, 1)>>}
Peers  == {<<>>, <<Hit("service", "Onion", FALSE, 2), Hit("other", "Ipfs", FALSE, 2)>>}
=============================================================================
