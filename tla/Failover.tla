------------------------------ MODULE Failover ------------------------------
(***************************************************************************)
(* The regions when nodes fail: the health manager's verdicts move, a      *)
(* leader region is lost, control-plane/election picks the follower to     *)
(* promote, and the gateway and the scheduler choose regions from the same *)
(* verdicts.  Who calls the election is not in the repository but in its   *)
(* integration tests (rollup, election, reroute), and FailOver follows     *)
(* them; shipping entries to followers is the replication's and external.  *)
(***************************************************************************)
EXTENDS Regions

CONSTANTS
    FleetNode,     \* the nodes: a sequence of records without status
    FleetStatus,   \* the statuses a node may have
    Hint,          \* the region hints of clients
    MaxEntries     \* bound: entries appended by leaders

\* The nodes as the registry has them: ids are unique.
ASSUME FailoverConstants ==
    /\ FleetNode \in Seq([id : STRING, region : STRING, cluster : STRING, host : STRING,
                          cpu : 0..100, mem : 0..100, disk : 0..100])
    /\ \A i, j \in 1..Len(FleetNode) : FleetNode[i].id = FleetNode[j].id => i = j
    /\ MaxEntries \in Nat

VARIABLES
    verdict,       \* the status of each node, by its place in FleetNode
    appliedLsn,    \* the LSN each node has applied
    leader         \* the place of the leader

failoverVars == <<verdict, appliedLsn, leader>>

Place == 1..Len(FleetNode)

Followers == Place \ {leader}

\* The nodes as ListNodes and GetNodes report them.
Fleet ==
    [i \in Place |->
       [id |-> FleetNode[i].id, region |-> FleetNode[i].region,
        cluster |-> FleetNode[i].cluster, host |-> FleetNode[i].host,
        cpu |-> FleetNode[i].cpu, mem |-> FleetNode[i].mem, disk |-> FleetNode[i].disk,
        status |-> verdict[i]]]

FleetHealth == RegionHealth(Fleet)

RegionOf(i) == ToLower(FleetNode[i].region)

FollowerCandidates ==
    {[region |-> FleetNode[i].region, id |-> FleetNode[i].id, lsn |-> appliedLsn[i]] :
       i \in Followers}

FailoverInit ==
    /\ verdict = [i \in Place |-> "healthy"]
    /\ appliedLsn = [i \in Place |-> 0]
    /\ leader \in Place

VerdictChanges(i, s) ==
    /\ verdict[i] # s
    /\ verdict' = [verdict EXCEPT ![i] = s]
    /\ UNCHANGED <<appliedLsn, leader>>

LeaderAppends ==
    /\ verdict[leader] # "dead"
    /\ appliedLsn[leader] < MaxEntries
    /\ appliedLsn' = [appliedLsn EXCEPT ![leader] = @ + 1]
    /\ UNCHANGED <<verdict, leader>>

FollowerApplies(i) ==
    /\ i # leader
    /\ verdict[i] # "dead" /\ verdict[leader] # "dead"
    /\ appliedLsn[i] < appliedLsn[leader]
    /\ appliedLsn' = [appliedLsn EXCEPT ![i] = @ + 1]
    /\ UNCHANGED <<verdict, leader>>

\* The leader's region is down: a candidate is elected and promoted.
FailOver ==
    /\ RegionOf(leader) \in Region /\ FleetHealth[RegionOf(leader)] = "down"
    /\ \E c \in ElectNewLeaderRegion(FollowerCandidates, FleetHealth) :
         leader' = CHOOSE i \in Place : FleetNode[i].id = c.id
    /\ UNCHANGED <<verdict, appliedLsn>>

FailoverNext ==
    \/ \E i \in Place, s \in FleetStatus : VerdictChanges(i, s)
    \/ LeaderAppends
    \/ \E i \in Place : FollowerApplies(i)
    \/ FailOver

FailoverSpec == FailoverInit /\ [][FailoverNext]_failoverVars

-----------------------------------------------------------------------------
(* Properties *)

Distance(hint, r) == LatencyMatrix[Home(hint)][r]

\* The scheduler's fallback never places a database farther from the hint
\* than the gateway routes for it, though the two judge regions and nodes by
\* different rules: the region with a healthy node can always take it.
PlacedNoFarther ==
    LET health == FleetHealth
        fleet == Fleet
    IN \A hint \in Hint :
         LET served == SelectRegion(hint, health).served
             placed == ScheduleNodeWithRegionFallback(fleet, hint).served
         IN served # "" => /\ placed # ""
                           /\ Distance(hint, placed) <= Distance(hint, served)

\* A failover loses no entry that some follower of a live region holds, and
\* never happens while the leader's region still has a healthy node.
FailoverKeeps ==
    [][leader' # leader =>
         /\ \A i \in Place : RegionOf(i) = RegionOf(leader) => verdict[i] # "healthy"
         /\ \A i \in Followers : RegionOf(i) \in Region /\ Live(FleetHealth[RegionOf(i)])
                                => appliedLsn[i] <= appliedLsn[leader']]_failoverVars

\* What the integration test says (multi_region_test.go:95): once the region
\* of the leader is lost, the gateway routes its clients to the new leader.
ReroutedToLeader ==
    [][leader' # leader =>
         SelectRegion(FleetNode[leader].region, FleetHealth).served
            = FleetNode[leader'].region]_failoverVars
=============================================================================
