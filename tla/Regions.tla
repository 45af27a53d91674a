------------------------------ MODULE Regions -------------------------------
(***************************************************************************)
(* The rules about regions, as operators: the health of a region and the   *)
(* order in which others stand in for it (metadata-service/region), the    *)
(* gateway's choice of a region (gateway/router), the scheduler's choice   *)
(* of a node with regional fallback (scheduler/placement) and the election *)
(* of a new leader region (control-plane/election).                        *)
(*                                                                         *)
(* A list of nodes is a sequence of records, and a part of it the set of   *)
(* its places; the candidates of an election are a set, for their order    *)
(* does not matter.  The text of a cluster id or of a host name is reduced *)
(* to the region whose name it contains, "" when there is none.  Loads are *)
(* integers, and a score is ten times the code's.                          *)
(***************************************************************************)
EXTENDS Naturals, Sequences, FiniteSets, SequencesExt

RegionIndia == "india"

SupportedRegions == <<"india", "us-east", "us-west", "europe", "japan">>

Region == ToSet(SupportedRegions)

\* External: strings.ToLower, on the one name that tests spell in capitals.
ToLower(s) == IF s = "JAPAN" THEN "japan" ELSE s

IndexOf(r) == CHOOSE i \in 1..5 : SupportedRegions[i] = r

\* Milliseconds between regions, in the order of SupportedRegions.
Latencies ==
    << <<0, 180, 220, 110, 130>>,
       <<180, 0, 60, 90, 160>>,
       <<220, 60, 0, 140, 110>>,
       <<110, 90, 140, 0, 210>>,
       <<130, 160, 110, 210, 0>> >>

LatencyMatrix ==
    [r \in Region |-> [s \in Region |-> Latencies[IndexOf(r)][IndexOf(s)]]]

\* Where GetFallbackRegions starts: an unknown hint counts as india.
Home(hint) == IF ToLower(hint) \in Region THEN ToLower(hint) ELSE RegionIndia

\* The regions by their distance; no row has two equal distances.
ByDistance ==
    [r \in Region |->
       CHOOSE order \in [1..5 -> Region] :
         \A i, j \in 1..5 :
           i < j => LatencyMatrix[r][order[i]] < LatencyMatrix[r][order[j]]]

GetFallbackRegions(hint) == ByDistance[Home(hint)]

-----------------------------------------------------------------------------
(* The health of regions *)

\* A region is as healthy as its nodes; one without a healthy node is down.
\* Any status but "healthy" and "dead" counts as unhealthy.
RollupRegionHealth(reg, states) ==
    LET mine == {i \in 1..Len(states) : ToLower(states[i].region) = reg}
        healthy == {i \in mine : states[i].status = "healthy"}
    IN IF healthy = {} THEN "down"
       ELSE IF healthy # mine THEN "degraded"
       ELSE "healthy"

RegionHealth(states) == [r \in Region |-> RollupRegionHealth(r, states)]

Live(status) == status \in {"healthy", "degraded"}

-----------------------------------------------------------------------------
(* Routing *)

NoRoute == [preferred |-> "", served |-> "", rerouted |-> FALSE]

FirstOf(S) == CHOOSE i \in S : \A j \in S : i <= j

\* The first live region of the fallback order; ErrNoHealthyRegions otherwise.
SelectRegion(hint, health) ==
    LET pref == IF ToLower(hint) = "" THEN RegionIndia ELSE ToLower(hint)
        order == GetFallbackRegions(pref)
        live == {i \in 1..5 : Live(health[order[i]])}
    IN IF live = {} THEN NoRoute
       ELSE [preferred |-> pref, served |-> order[FirstOf(live)],
             rerouted |-> FirstOf(live) > 1]

\* The gateway's guess where a node is: the first supported region that its
\* cluster id or its host name contains.
resolveNodeRegion(cluster, host) ==
    LET named == {i \in 1..5 : SupportedRegions[i] \in {cluster, host}}
    IN IF named = {} THEN RegionIndia ELSE SupportedRegions[FirstOf(named)]

-----------------------------------------------------------------------------
(* Placement *)

\* Mutant: a node's name is trusted before its registered region.
inferByName(n) == resolveNodeRegion(n.cluster, n.host)

\* The scheduler's: the registered region first, when it is a supported one.
inferNodeRegion(n) ==
    IF ToLower(n.region) \in Region THEN ToLower(n.region)
    ELSE resolveNodeRegion(n.cluster, n.host)

\* 0.4, 0.3 and 0.3 of what is left of the CPU, the memory and the disk.
CalculateScore(cpu, mem, disk) ==
    (100 - cpu) * 4 + (100 - mem) * 3 + (100 - disk) * 3

\* The first of the nodes at the places S with the best score.
BestOf(ns, S) ==
    LET score(i) == CalculateScore(ns[i].cpu, ns[i].mem, ns[i].disk)
        best == {i \in S : \A j \in S : score(j) <= score(i)}
    IN ns[FirstOf(best)].id

\* What ScheduleNode chooses from: overloaded nodes only when there is no other.
Placeable(ns, S) ==
    LET eligible == {i \in S : ns[i].status \notin {"dead", "draining"}}
        calm == {i \in eligible : ns[i].status # "overloaded"}
    IN IF calm # {} THEN calm ELSE eligible

\* ScheduleNode, for the nodes at the places S; "" for ErrNoNodesAvailable.
ScheduleNode(ns, S) ==
    IF Placeable(ns, S) = {} THEN "" ELSE BestOf(ns, Placeable(ns, S))

NoPlacement == [node |-> "", served |-> "", fallback |-> FALSE]

\* The first region of the fallback order with a node that can be scheduled.
ScheduleNodeWithRegionFallback(ns, hint) ==
    LET order == GetFallbackRegions(IF hint = "" THEN RegionIndia ELSE hint)
        in(r) == {i \in 1..Len(ns) : inferNodeRegion(ns[i]) = r}
        usable == {i \in 1..5 : Placeable(ns, in(order[i])) # {}}
    IN IF usable = {} THEN NoPlacement
       ELSE [node |-> ScheduleNode(ns, in(order[FirstOf(usable)])),
             served |-> order[FirstOf(usable)],
             fallback |-> FirstOf(usable) > 1]

-----------------------------------------------------------------------------
(* Leader election *)

RegionPriority == [r \in Region |-> IndexOf(r)]

Eligible(candidates, health) ==
    {c \in candidates :
        ToLower(c.region) \in Region /\ Live(health[ToLower(c.region)])}

\* Mutant: the priority of the region before the LSN.
PrecedesByPriority(c, d) ==
    LET p(x) == RegionPriority[ToLower(x.region)]
    IN IF p(c) # p(d) THEN p(c) < p(d) ELSE c.lsn > d.lsn

\* The order of sort.Slice: LSN descending, then priority ascending.
Precedes(c, d) ==
    LET p(x) == RegionPriority[ToLower(x.region)]
    IN IF c.lsn # d.lsn THEN c.lsn > d.lsn ELSE p(c) < p(d)

\* The candidates the sort may put first: more than one only if equal in both.
ElectNewLeaderRegion(candidates, health) ==
    LET eligible == Eligible(candidates, health)
    IN {c \in eligible : \A d \in eligible : ~ Precedes(d, c)}
=============================================================================
