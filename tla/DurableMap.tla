----------------------------- MODULE DurableMap -----------------------------
(***************************************************************************)
(* What the storage engine promises its callers about acknowledged writes, *)
(* whatever it does inside: a map that can stop and come back.             *)
(*                                                                         *)
(* maybe[k] is the set of values a restart may show for k.  It is {v}      *)
(* right after a write of v was acknowledged, and grows only by writes     *)
(* that were not acknowledged: they "may or may not be present".           *)
(***************************************************************************)
CONSTANTS MapKey, MapVal, Absent

VARIABLES
    store,   \* what a reader sees; every key Absent while the map is down
    maybe,   \* what a restart may show
    up

mapVars == <<store, maybe, up>>

Contents == [MapKey -> MapVal \cup {Absent}]

MapInit ==
    /\ store = [k \in MapKey |-> Absent]
    /\ maybe = [k \in MapKey |-> {Absent}]
    /\ up = FALSE

(* A write or a delete (v = Absent) that was acknowledged. *)
Acknowledged(k, v) ==
    /\ up
    /\ store' = [store EXCEPT ![k] = v]
    /\ maybe'[k] = {v}
    /\ \A j \in MapKey \ {k} : maybe'[j] # {} /\ maybe'[j] \subseteq maybe[j]
    /\ up' = TRUE

(* A write that was reported as failed, or was in flight when the map went *)
(* down.                                                                   *)
Unacknowledged(k, v) ==
    /\ up
    /\ \A j \in MapKey :
          /\ maybe'[j] # {}
          /\ maybe'[j] \subseteq maybe[j] \cup (IF j = k THEN {v} ELSE {})
    /\ \/ up' = TRUE /\ store' = store
       \/ up' = FALSE /\ store' = [j \in MapKey |-> Absent]

(* It may also stop while it is coming back. *)
GoDown ==
    /\ \A j \in MapKey : maybe'[j] # {} /\ maybe'[j] \subseteq maybe[j]
    /\ store' = [j \in MapKey |-> Absent]
    /\ up' = FALSE

ComeBack ==
    /\ ~up
    /\ store' \in Contents
    /\ \A k \in MapKey : store'[k] \in maybe[k]
    /\ maybe' = maybe
    /\ up' = TRUE

MapNext ==
    \/ \E k \in MapKey, v \in MapVal \cup {Absent} : Acknowledged(k, v) \/ Unacknowledged(k, v)
    \/ GoDown
    \/ ComeBack

MapSpec == MapInit /\ [][MapNext]_mapVars
=============================================================================
