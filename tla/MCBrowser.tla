------------------------------ MODULE MCBrowser ------------------------------
(* The addresses and modes of the runs of Browser.                          *)
EXTENDS Browser

CONSTANTS toTor, toClear, toV2Ray, toI2P, toSaved, site, menu, word

NoWords  == <<>>
OneWord  == word :> site

NoModes  == <<>>
Saved    == [a \in {toSaved} |-> CHOOSE c \in Configs : TRUE]
TorClear == (toTor :> Tor) @@ (toClear :> Clear) @@ (toI2P :> Unsupported)
AllModes == TorClear @@ [a \in {toV2Ray} |-> CHOOSE c \in Configs : TRUE]
=============================================================================
