------------------------------- MODULE MCEdge -------------------------------
(***************************************************************************)
(* What stands between clients and the services: the gateway, tokens, API  *)
(* keys and rate limits, and the RPCs between the services.  They share    *)
(* operators and no variable, so a behaviour moves one of them, which      *)
(* `focus' names, and the state space is the sum of theirs.                *)
(***************************************************************************)
EXTENDS MCGateway, Access, Rpc

VARIABLE focus

allVars == <<focus, edgeVars, accessVars, rpcVars>>

EdgesInit ==
    /\ EdgeInit /\ AccessInit /\ RpcInit
    /\ focus \in {"gateway", "access", "rpc"}

Others(moving) ==
    /\ focus = moving /\ UNCHANGED focus
    /\ moving # "gateway" => UNCHANGED edgeVars
    /\ moving # "access" => UNCHANGED accessVars
    /\ moving # "rpc" => UNCHANGED rpcVars

\* Bound: calls meet only in a bucket of a server, which those of one client
\* to one server share, so the calls of a behaviour are of such a pair.
ShareBucket ==
    \A c, d \in CallSlot :
        calls[c].client # "idle" /\ calls[d].client # "idle" =>
          /\ calls[c].wired.client = calls[d].wired.client
          /\ calls[c].wired.server = calls[d].wired.server

EdgesNext ==
    \/ Others("gateway") /\ EdgeNext
    \/ Others("access") /\ AccessNext
    \/ Others("rpc") /\ RpcNext /\ ShareBucket'

EdgesSpec == EdgesInit /\ [][EdgesNext]_allVars

-----------------------------------------------------------------------------
(* Instances *)

MCRateRule == [r \in {"admin", "operator"} |-> 2] @@ ("read-only" :> 1)
=============================================================================
