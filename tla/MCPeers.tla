-------------------------------- MODULE MCPeers --------------------------------
EXTENDS Peers, TLC

CONSTANTS alice, bob, t1, t2

\* Alice logs in twice; her store fits the buffer, Bob's does not.
MCLogins == alice :> {t1, t2} @@ bob :> {t1}
MCStoreSize == alice :> 3 @@ bob :> 5
=============================================================================
