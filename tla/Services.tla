------------------------------ MODULE Services ------------------------------
(***************************************************************************)
(* The explorer's smaller services, which share no state: the wallet's RPC *)
(* client, the supply page, the copy of the relay, the cache of IPFS       *)
(* objects and the rebuilds after an upgrade.  A behaviour is about one of *)
(* them, the subject; the others rest.                                     *)
(***************************************************************************)
EXTENDS RpcClient, Supply, MetadataCache, RelayTrades, Rebuilds

VARIABLES subject

vars == <<subject, rpcVars, supplyVars, cacheVars, relayVars, rebuildVars>>

Init ==
    /\ subject \in {"rpc", "supply", "cache", "relay", "rebuild"}
    /\ RpcInit /\ SupplyInit /\ CacheInit /\ RelayInit /\ RebuildInit
    /\ subject = "rebuild" \/ ~stored.shareV    \* one state of those that rest

Next ==
    /\ UNCHANGED subject
    /\ \/ subject = "rpc" /\ RpcNext /\ UNCHANGED <<supplyVars, cacheVars, relayVars, rebuildVars>>
       \/ subject = "supply" /\ SupplyNext /\ UNCHANGED <<rpcVars, cacheVars, relayVars, rebuildVars>>
       \/ subject = "cache" /\ CacheNext /\ UNCHANGED <<rpcVars, supplyVars, relayVars, rebuildVars>>
       \/ subject = "relay" /\ RelayNext /\ UNCHANGED <<rpcVars, supplyVars, cacheVars, rebuildVars>>
       \/ subject = "rebuild" /\ RebuildNext /\ UNCHANGED <<rpcVars, supplyVars, cacheVars, relayVars>>

Spec == Init /\ [][Next]_vars
FairSpec == Spec /\ (subject = "rpc" => RpcFairness)
=============================================================================
