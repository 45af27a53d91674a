---------------------------- MODULE FleetProofs -----------------------------
(***************************************************************************)
(* Proofs about what the operators of a fleet rely on: the autoscaler, for *)
(* every fleet, threshold and cooldown; the service processes, for any     *)
(* number of calls; placement and failover between regions, for every      *)
(* fleet and every hint; the SLA monitor and the capacity planner, for     *)
(* every history; and the deployment controller, for any number of         *)
(* concurrent deployments, checks and restarts.                            *)
(***************************************************************************)
EXTENDS AutoScaler, Lifecycle, Failover, Deployment, SlaMonitor, CapacityPlanner,
        SumsProofs

-----------------------------------------------------------------------------
(* The autoscaler *)

\* The autoscaler's own count of ticks is the true one: after the first
\* decision both start together, and before it nothing is cooling down.
CountsAgree ==
    /\ sinceScaled \in Int /\ quiet \in Nat
    /\ quiet <= Cooldown
    /\ quiet = IF sinceScaled = -1 THEN Cooldown ELSE sinceScaled

\* Every step keeps CountsAgree.
LEMMA CountsStep ==
    ASSUME CountsAgree, [ScalerNext]_scalerVars
    PROVE  CountsAgree'
<1>c. Cooldown \in Nat
  BY ScalerConstants
<1>1. CASE Evaluate
  BY <1>c, <1>1 DEF Evaluate, Decides, CountsAgree
<1>2. CASE CooldownTick
  BY <1>c, <1>2 DEF CooldownTick, Cooling, CountsAgree
<1>3. CASE UNCHANGED <<sinceScaled, quiet>>
  BY <1>3 DEF CountsAgree
<1> QED BY <1>1, <1>2, <1>3 DEF ScalerNext, scalerVars, EvaluateNone, DrainTarget, LoadMoves,
           StatusMoves

\* No decision to scale comes within the cooldown of the one before, for any
\* fleet, any loads and any cooldown, however long callers take to act
\* (lastScaledAt, autoscaler.go:51).
THEOREM CooldownAlwaysHolds == ScalerSpec => CooldownHolds
<1>1. ScalerInit => CountsAgree
  BY ScalerConstants DEF ScalerInit, CountsAgree
<1>2. CountsAgree /\ [ScalerNext]_scalerVars => CountsAgree'
  BY CountsStep
<1>3. CountsAgree /\ [ScalerNext]_scalerVars
        => [decisions' # decisions => quiet >= Cooldown]_scalerVars
  <2> SUFFICES ASSUME CountsAgree, ScalerNext, decisions' # decisions
               PROVE  quiet >= Cooldown
    BY DEF scalerVars
  <2>1. Evaluate
    BY DEF ScalerNext, EvaluateNone, DrainTarget, LoadMoves, StatusMoves, CooldownTick
  <2> QED BY <2>1, ScalerConstants DEF Evaluate, Cooling, CountsAgree
<1> QED BY <1>1, <1>2, <1>3, PTL DEF ScalerSpec, CooldownHolds

-----------------------------------------------------------------------------
(* The service processes *)

\* The service has a gRPC server.
HasGrpc(s) == \E i \in 1..Len(Main[s].steps) : Main[s].steps[i] = "grpc"

\* Every main that has a gRPC server stops it, and last.
LEMMA GrpcStopsLast ==
    ASSUME NEW s \in ServiceName
    PROVE  /\ Main[s].stops \in Seq(Server)
           /\ HasGrpc(s) => Main[s].stops[Len(Main[s].stops)] = "grpc"
<1>0. /\ <<"http", "grpc">> \in Seq(Server) /\ Len(<<"http", "grpc">>) = 2
      /\ <<"http">> \in Seq(Server) /\ Len(<<"http">>) = 1
      /\ <<"grpc">> \in Seq(Server) /\ Len(<<"grpc">>) = 1
  BY DEF Server
<1>1. CASE s \in {"metadata", "worker", "deployment", "capacity", "sla"}
  <2>1. Main[s].stops = <<"http", "grpc">>
    BY <1>1 DEF Main, MetadataMain, WorkerMain, DeploymentMain, CapacityMain, SlaMain
  <2> QED BY <1>0, <2>1
<1>2. CASE s = "scheduler"
  <2>1. Main[s].stops = <<"grpc">>
    BY <1>2 DEF Main, SchedulerMain
  <2> QED BY <1>0, <2>1
<1>3. CASE s \in {"controlPlane", "gateway", "auth"}
  <2>1. Main[s].stops = <<"http">>
    BY <1>3 DEF Main, ControlPlaneMain, GatewayMain, AuthMain
  <2>2. ~ HasGrpc(s)
    <3>1. CASE s = "controlPlane"
      <4>1. Main[s].steps = <<"dial", "dial", "loop", "http">>
        BY <3>1 DEF Main, ControlPlaneMain
      <4> QED BY <4>1 DEF HasGrpc
    <3>2. CASE s = "gateway"
      <4>1. Main[s].steps = <<"dial", "http">>
        BY <3>2 DEF Main, GatewayMain
      <4> QED BY <4>1 DEF HasGrpc
    <3>3. CASE s = "auth"
      <4>1. Main[s].steps = <<"http">>
        BY <3>3 DEF Main, AuthMain
      <4> QED BY <4>1 DEF HasGrpc
    <3> QED BY <1>3, <3>1, <3>2, <3>3
  <2> QED BY <1>0, <2>1, <2>2
<1> QED BY <1>1, <1>2, <1>3 DEF ServiceName

\* Only a gRPC server that was started takes RPCs, and while servers are being
\* stopped it is the last of them.
LifecycleInv ==
    /\ service \in ServiceName
    /\ step \in Nat \ {0}
    /\ inflight \in [Server -> Nat]
    /\ "grpc" \in ready => HasGrpc(service)
    /\ inflight["grpc"] > 0 => HasGrpc(service)
    /\ stopping \in Seq(Server)
    /\ HasGrpc(service) /\ stopping # <<>> => stopping[Len(stopping)] = "grpc"

\* The servers that are left still end with the gRPC server.
LEMMA StillLast ==
    ASSUME LifecycleInv, stopping # <<>>, StoppedFirst, UNCHANGED <<service, step>>,
           inflight' \in [Server -> Nat], inflight'["grpc"] = inflight["grpc"]
    PROVE  LifecycleInv'
<1>1. /\ stopping' \in Seq(Server)
      /\ stopping' # <<>> => stopping'[Len(stopping')] = stopping[Len(stopping)]
  BY DEF StoppedFirst, LifecycleInv
<1>2. "grpc" \in ready' => "grpc" \in ready
  BY DEF StoppedFirst
<1> QED BY <1>1, <1>2 DEF LifecycleInv

\* Every step keeps LifecycleInv.
LEMMA LifecycleStep ==
    ASSUME LifecycleInv, [LifecycleNext]_lifecycleVars
    PROVE  LifecycleInv'
<1>1. CASE StepSucceeds
  <2>1. "grpc" \in ready' => HasGrpc(service)
    BY <1>1 DEF StepSucceeds, Starting, Now, LifecycleInv, HasGrpc
  <2> QED BY <1>1, <2>1 DEF StepSucceeds, LifecycleInv
<1>2. CASE StepFails \/ Signal
  BY <1>2 DEF StepFails, Signal, LifecycleInv
<1>3. CASE StopBegins
  BY <1>3, GrpcStopsLast DEF StopBegins, LifecycleInv
<1>4. CASE StopEnds
  BY <1>4, StillLast DEF StopEnds, LifecycleInv
<1>5. CASE StopTimesOut
  <2>1. stopping # <<>> /\ StoppedFirst /\ UNCHANGED <<service, step>>
    BY <1>5 DEF StopTimesOut, BeingStopped
  <2>2. inflight' \in [Server -> Nat] /\ inflight'["grpc"] = inflight["grpc"]
    BY <1>5 DEF StopTimesOut, LifecycleInv, Server
  <2> QED BY <2>1, <2>2, StillLast
<1>6. ASSUME NEW s \in Server, ServerFails(s) PROVE LifecycleInv'
  BY <1>6 DEF ServerFails, LifecycleInv
<1>7. ASSUME NEW s \in Server, CallBegins(s) PROVE LifecycleInv'
  <2>1. inflight' \in [Server -> Nat] /\ (inflight'["grpc"] > 0 => HasGrpc(service))
    BY <1>7 DEF CallBegins, LifecycleInv, Server
  <2> QED BY <1>7, <2>1 DEF CallBegins, LifecycleInv
<1>8. ASSUME NEW s \in Server, CallEnds(s) PROVE LifecycleInv'
  <2>1. inflight' \in [Server -> Nat] /\ (inflight'["grpc"] > 0 => inflight["grpc"] > 0)
    BY <1>8 DEF CallEnds, LifecycleInv, Server
  <2> QED BY <1>8, <2>1 DEF CallEnds, LifecycleInv
<1>9. CASE UNCHANGED lifecycleVars
  BY <1>9 DEF lifecycleVars, LifecycleInv
<1> QED BY <1>1, <1>2, <1>3, <1>4, <1>5, <1>6, <1>7, <1>8, <1>9 DEF LifecycleNext

\* When the last server has stopped, no RPC is running.
LEMMA LastIsIdle ==
    ASSUME LifecycleInv, LifecycleNext, exit = "no", exit' = "clean"
    PROVE  inflight["grpc"] = 0
<1>1. \/ StopEnds /\ Tail(stopping) = <<>>
      \/ StopTimesOut /\ Tail(stopping) = <<>>
  BY DEF LifecycleNext, StepSucceeds, StepFails, Signal, StopBegins, StopEnds, StopTimesOut,
     StoppedFirst, ServerFails, CallBegins, CallEnds
<1>2. stopping # <<>> /\ stopping \in Seq(Server)
  BY <1>1 DEF StopEnds, StopTimesOut, BeingStopped, LifecycleInv
<1>3. Head(stopping) = stopping[Len(stopping)]
  <2>1. Len(stopping) \in Nat /\ Len(stopping) # 0 /\ Len(Tail(stopping)) = Len(stopping) - 1
    BY <1>2
  <2>2. Tail(stopping) = <<>>
    BY <1>1
  <2>3. Len(stopping) = 1
    BY <2>1, <2>2
  <2> QED BY <1>2, <2>3
<1>4. Head(stopping) = "grpc" \/ ~ HasGrpc(service)
  BY <1>2, <1>3 DEF LifecycleInv
<1>5. CASE ~ HasGrpc(service)
  BY <1>5 DEF LifecycleInv, Server
<1>6. CASE Head(stopping) = "grpc"
  BY <1>1, <1>2, <1>6 DEF StopEnds, StopTimesOut, BeingStopped
<1> QED BY <1>4, <1>5, <1>6

\* A clean exit drops no RPC that was taken: for every service of the
\* repository, any number of calls, and whichever server fails, stops in time or
\* is cut off (the ends of the mains, GracefulStop last).
THEOREM RpcsAlwaysFinished == LifecycleSpec => RpcsFinished
<1>1. LifecycleInit => LifecycleInv
  BY LifecycleConstants DEF LifecycleInit, LifecycleInv, Server
<1>2. LifecycleInv /\ [LifecycleNext]_lifecycleVars => LifecycleInv'
  BY LifecycleStep
<1>3. LifecycleInv /\ [LifecycleNext]_lifecycleVars
        => [(exit = "no" /\ exit' = "clean") => inflight["grpc"] = 0]_lifecycleVars
  BY LastIsIdle DEF lifecycleVars
<1> QED BY <1>1, <1>2, <1>3, PTL DEF LifecycleSpec, RpcsFinished

-----------------------------------------------------------------------------
(* Regions *)

\* The places of the regions in SupportedRegions.
LEMMA RegionIndex ==
    /\ Region = {"india", "us-east", "us-west", "europe", "japan"}
    /\ IndexOf("india") = 1 /\ IndexOf("us-east") = 2 /\ IndexOf("us-west") = 3
    /\ IndexOf("europe") = 4 /\ IndexOf("japan") = 5
<1>1. /\ SupportedRegions[1] = "india" /\ SupportedRegions[2] = "us-east"
      /\ SupportedRegions[3] = "us-west" /\ SupportedRegions[4] = "europe"
      /\ SupportedRegions[5] = "japan" /\ DOMAIN SupportedRegions = 1..5
  BY DEF SupportedRegions
<1>2. Region = {"india", "us-east", "us-west", "europe", "japan"}
  BY <1>1 DEF Region, ToSet
<1>3. ASSUME NEW k \in 1..5 PROVE IndexOf(SupportedRegions[k]) = k
  BY <1>1 DEF IndexOf
<1> QED BY <1>1, <1>2, <1>3

\* Every region has an order by distance, and ByDistance is one: the regions
\* that come later are farther.
LEMMA DistanceOrdered ==
    ASSUME NEW h \in Region
    PROVE  /\ ByDistance[h] \in [1..5 -> Region]
           /\ \A i, j \in 1..5 :
                i <= j => LatencyMatrix[h][ByDistance[h][i]] <= LatencyMatrix[h][ByDistance[h][j]]
<1> DEFINE Sorted(o) == \A i, j \in 1..5 : i < j => LatencyMatrix[h][o[i]] < LatencyMatrix[h][o[j]]
<1>1. \E o \in [1..5 -> Region] : Sorted(o)
  <2>l. \A s \in Region : LatencyMatrix[h][s] = Latencies[IndexOf(h)][IndexOf(s)]
    BY DEF LatencyMatrix
  <2>1. CASE h = "india"
    <3> DEFINE o == <<"india", "europe", "japan", "us-east", "us-west">>
    <3>1. o \in [1..5 -> Region]
      BY RegionIndex
    <3>2. Sorted(o)
      BY <2>l, <2>1, RegionIndex DEF Latencies
    <3> QED BY <3>1, <3>2
  <2>2. CASE h = "us-east"
    <3> DEFINE o == <<"us-east", "us-west", "europe", "japan", "india">>
    <3>1. o \in [1..5 -> Region]
      BY RegionIndex
    <3>2. Sorted(o)
      BY <2>l, <2>2, RegionIndex DEF Latencies
    <3> QED BY <3>1, <3>2
  <2>3. CASE h = "us-west"
    <3> DEFINE o == <<"us-west", "us-east", "japan", "europe", "india">>
    <3>1. o \in [1..5 -> Region]
      BY RegionIndex
    <3>2. Sorted(o)
      BY <2>l, <2>3, RegionIndex DEF Latencies
    <3> QED BY <3>1, <3>2
  <2>4. CASE h = "europe"
    <3> DEFINE o == <<"europe", "us-east", "india", "us-west", "japan">>
    <3>1. o \in [1..5 -> Region]
      BY RegionIndex
    <3>2. Sorted(o)
      BY <2>l, <2>4, RegionIndex DEF Latencies
    <3> QED BY <3>1, <3>2
  <2>5. CASE h = "japan"
    <3> DEFINE o == <<"japan", "us-west", "india", "us-east", "europe">>
    <3>1. o \in [1..5 -> Region]
      BY RegionIndex
    <3>2. Sorted(o)
      BY <2>l, <2>5, RegionIndex, SMTT(30) DEF Latencies
    <3> QED BY <3>1, <3>2
  <2> QED BY <2>1, <2>2, <2>3, <2>4, <2>5, RegionIndex
<1>2. ByDistance[h] = CHOOSE o \in [1..5 -> Region] : Sorted(o)
  BY Zenon DEF ByDistance
<1> HIDE DEF Sorted
<1>3. ByDistance[h] \in [1..5 -> Region] /\ Sorted(ByDistance[h])
  BY <1>1, <1>2
<1>4. \A s \in Region : LatencyMatrix[h][s] \in Nat
  BY RegionIndex DEF LatencyMatrix, Latencies
<1>5. ASSUME NEW i \in 1..5, NEW j \in 1..5, i <= j
      PROVE  LatencyMatrix[h][ByDistance[h][i]] <= LatencyMatrix[h][ByDistance[h][j]]
  <2>1. CASE i = j
    BY <1>3, <1>4, <2>1
  <2>2. CASE i < j
    <3>1. LatencyMatrix[h][ByDistance[h][i]] < LatencyMatrix[h][ByDistance[h][j]]
      BY <1>3, <2>2 DEF Sorted
    <3> QED BY <1>3, <1>4, <3>1
  <2> QED BY <1>5, <2>1, <2>2
<1> QED BY <1>3, <1>5

\* The first place of a set of places is one of them, and no place is before it.
LEMMA FirstIsFirst ==
    ASSUME NEW S \in SUBSET (1..5), S # {}
    PROVE  FirstOf(S) \in S /\ \A j \in S : FirstOf(S) <= j
<1> DEFINE Least(i) == i \in S /\ \A j \in S : i <= j
<1>0. \A j \in S : j \in Nat /\ (j = 1 \/ j = 2 \/ j = 3 \/ j = 4 \/ j = 5)
  OBVIOUS
<1>1. \/ Least(1) \/ Least(2) \/ Least(3) \/ Least(4) \/ Least(5)
  <2>1. CASE 1 \in S
    BY <1>0, <2>1
  <2>2. CASE 1 \notin S /\ 2 \in S
    BY <1>0, <2>2
  <2>3. CASE 1 \notin S /\ 2 \notin S /\ 3 \in S
    BY <1>0, <2>3
  <2>4. CASE 1 \notin S /\ 2 \notin S /\ 3 \notin S /\ 4 \in S
    BY <1>0, <2>4
  <2>5. CASE 1 \notin S /\ 2 \notin S /\ 3 \notin S /\ 4 \notin S
    <3>1. 5 \in S
      BY <1>0, <2>5
    <3> QED BY <1>0, <2>5, <3>1
  <2> QED BY <2>1, <2>2, <2>3, <2>4, <2>5
<1>2. \E i \in S : \A j \in S : i <= j
  BY <1>1
<1> QED BY <1>2 DEF FirstOf

\* The gateway and the scheduler try regions in the same order for a hint.
LEMMA SameOrder ==
    ASSUME NEW hint
    PROVE  /\ Home(hint) \in Region
           /\ GetFallbackRegions(IF ToLower(hint) = "" THEN RegionIndia ELSE ToLower(hint))
                = ByDistance[Home(hint)]
           /\ GetFallbackRegions(IF hint = "" THEN RegionIndia ELSE hint)
                = ByDistance[Home(hint)]
BY RegionIndex DEF Home, GetFallbackRegions, ToLower, RegionIndia

\* A region with a healthy node has a node that can be scheduled: its nodes are
\* inferred to be where they are registered.
LEMMA LiveIsUsable ==
    ASSUME NEW r \in Region, Live(FleetHealth[r])
    PROVE  Placeable(Fleet, {i \in 1..Len(Fleet) : inferNodeRegion(Fleet[i]) = r}) # {}
<1>1. Len(FleetNode) \in Nat /\ Place = 1..Len(FleetNode)
  BY FailoverConstants DEF Place
<1>2. Len(Fleet) = Len(FleetNode)
  BY <1>1 DEF Fleet
<1>3. PICK i \in 1..Len(Fleet) : ToLower(Fleet[i].region) = r /\ Fleet[i].status = "healthy"
  BY DEF FleetHealth, RegionHealth, RollupRegionHealth, Live
<1>4. inferNodeRegion(Fleet[i]) = r
  BY <1>3 DEF inferNodeRegion
<1> QED BY <1>3, <1>4 DEF Placeable

\* The scheduler's fallback never places a database farther from the hint than
\* the gateway routes for it: for every fleet, in whatever state, and every hint
\* (region_scheduler.go, router.go).
THEOREM AlwaysPlacedNoFarther == FailoverSpec => []PlacedNoFarther
<1>1. PlacedNoFarther
  <2> SUFFICES ASSUME NEW hint \in Hint, SelectRegion(hint, FleetHealth).served # ""
               PROVE  LET placed == ScheduleNodeWithRegionFallback(Fleet, hint).served
                      IN /\ placed # ""
                         /\ Distance(hint, placed)
                              <= Distance(hint, SelectRegion(hint, FleetHealth).served)
    BY DEF PlacedNoFarther
  <2> DEFINE h == Home(hint)
             order == ByDistance[h]
             live == {i \in 1..5 : Live(FleetHealth[order[i]])}
             in(r) == {i \in 1..Len(Fleet) : inferNodeRegion(Fleet[i]) = r}
             usable == {i \in 1..5 : Placeable(Fleet, in(order[i])) # {}}
             routed == SelectRegion(hint, FleetHealth)
             placed == ScheduleNodeWithRegionFallback(Fleet, hint)
  <2>1. h \in Region /\ order \in [1..5 -> Region]
    BY SameOrder, DistanceOrdered
  <2>2. live # {} /\ routed.served = order[FirstOf(live)]
    BY SameOrder DEF SelectRegion, NoRoute
  <2>3. live \subseteq usable
    BY <2>1, LiveIsUsable
  <2>4. placed.served = order[FirstOf(usable)]
    <3>1. usable # {}
      BY <2>2, <2>3
    <3>2. placed = IF usable = {} THEN NoPlacement
                   ELSE [node |-> ScheduleNode(Fleet, in(order[FirstOf(usable)])),
                         served |-> order[FirstOf(usable)],
                         fallback |-> FirstOf(usable) > 1]
      BY SameOrder, ZenonT(40) DEF ScheduleNodeWithRegionFallback
    <3> HIDE DEF usable, placed
    <3>3. placed = [node |-> ScheduleNode(Fleet, in(order[FirstOf(usable)])),
                    served |-> order[FirstOf(usable)],
                    fallback |-> FirstOf(usable) > 1]
      BY <3>1, <3>2, Zenon
    <3> QED BY <3>3
  <2> HIDE DEF live, usable, routed, placed
  <2>5. live \in SUBSET (1..5) /\ usable \in SUBSET (1..5)
    BY DEF live, usable
  <2>6. /\ FirstOf(live) \in 1..5 /\ FirstOf(usable) \in 1..5
        /\ FirstOf(usable) <= FirstOf(live)
    BY <2>2, <2>3, <2>5, FirstIsFirst
  <2>7. placed.served \in Region /\ placed.served # ""
    BY <2>1, <2>4, <2>6, RegionIndex
  <2>8. LatencyMatrix[h][order[FirstOf(usable)]] <= LatencyMatrix[h][order[FirstOf(live)]]
    BY <2>1, <2>6, DistanceOrdered
  <2>9. Distance(hint, placed.served) <= Distance(hint, routed.served)
    BY <2>2, <2>4, <2>8 DEF Distance
  <2> QED BY <2>7, <2>9 DEF routed, placed
<1> QED BY <1>1, PTL

\* The leader is a node, and LSNs are numbers.
FailoverTyped ==
    /\ appliedLsn \in [Place -> Nat]
    /\ leader \in Place

\* Who is elected is a follower, and the new leader is the node that was elected.
LEMMA Elected ==
    ASSUME FailoverTyped, FailOver
    PROVE  /\ leader' \in Followers
           /\ \A i \in Followers :
                RegionOf(i) \in Region /\ Live(FleetHealth[RegionOf(i)])
                  => appliedLsn[i] <= appliedLsn[leader']
<1> DEFINE at(i) == [region |-> FleetNode[i].region, id |-> FleetNode[i].id,
                     lsn |-> appliedLsn[i]]
           eligible == Eligible(FollowerCandidates, FleetHealth)
<1>1. PICK c \in ElectNewLeaderRegion(FollowerCandidates, FleetHealth) :
        leader' = CHOOSE i \in Place : FleetNode[i].id = c.id
  BY DEF FailOver
<1>2. c \in FollowerCandidates /\ \A d \in eligible : ~ Precedes(d, c)
  BY <1>1 DEF ElectNewLeaderRegion, Eligible
<1>3. PICK k \in Followers : c = at(k)
  BY <1>2 DEF FollowerCandidates
<1>4. c.id = FleetNode[k].id /\ c.lsn = appliedLsn[k] /\ k \in Place
  BY <1>3 DEF Followers
<1>5. leader' = k
  <2>1. \A i \in Place : FleetNode[i].id = c.id => i = k
    BY <1>4, FailoverConstants DEF Place
  <2> QED BY <1>1, <1>4, <2>1
<1>6. ASSUME NEW i \in Followers, RegionOf(i) \in Region, Live(FleetHealth[RegionOf(i)])
      PROVE  appliedLsn[i] <= appliedLsn[k]
  <2>1. at(i) \in eligible
    <3>1. at(i) \in FollowerCandidates
      BY DEF FollowerCandidates
    <3>2. at(i).region = FleetNode[i].region
      OBVIOUS
    <3> HIDE DEF at
    <3> QED BY <1>6, <3>1, <3>2 DEF Eligible, RegionOf
  <2>2. ~ Precedes(at(i), c) /\ at(i).lsn = appliedLsn[i]
    BY <1>2, <2>1
  <2>3. appliedLsn[i] \in Nat /\ appliedLsn[k] \in Nat
    BY <1>4 DEF FailoverTyped, Followers
  <2> HIDE DEF at
  <2> QED BY <1>4, <2>2, <2>3 DEF Precedes
<1> QED BY <1>3, <1>5, <1>6

\* Every step keeps FailoverTyped.
LEMMA FailoverTypedStep ==
    ASSUME FailoverTyped, [FailoverNext]_failoverVars
    PROVE  FailoverTyped'
<1>1. CASE FailOver
  BY <1>1, Elected DEF FailOver, FailoverTyped, Followers
<1>2. CASE LeaderAppends
  BY <1>2 DEF LeaderAppends, FailoverTyped
<1>3. ASSUME NEW i \in Place, FollowerApplies(i) PROVE FailoverTyped'
  BY <1>3 DEF FollowerApplies, FailoverTyped
<1>4. CASE UNCHANGED <<appliedLsn, leader>>
  BY <1>4 DEF FailoverTyped
<1> QED BY <1>1, <1>2, <1>3, <1>4 DEF FailoverNext, VerdictChanges, failoverVars

\* A region that is down has no healthy node.
LEMMA DownHasNone ==
    ASSUME NEW r \in Region, FleetHealth[r] = "down", NEW i \in Place, RegionOf(i) = r
    PROVE  verdict[i] # "healthy"
<1>1. Len(FleetNode) \in Nat /\ Place = 1..Len(FleetNode)
  BY FailoverConstants DEF Place
<1>2. Len(Fleet) = Len(FleetNode)
  BY <1>1 DEF Fleet
<1>3. Fleet[i].region = FleetNode[i].region /\ Fleet[i].status = verdict[i]
  BY DEF Fleet
<1>4. ~ (ToLower(Fleet[i].region) = r /\ Fleet[i].status = "healthy")
  BY <1>1, <1>2 DEF FleetHealth, RegionHealth, RollupRegionHealth
<1> QED BY <1>3, <1>4 DEF RegionOf

\* A failover loses no entry that some follower of a live region holds, and
\* never happens while the leader's region still has a healthy node: for every
\* fleet, every order of candidates, and followers that lag by any number of
\* entries (election.go, ElectNewLeaderRegion).
THEOREM FailoverAlwaysKeeps == FailoverSpec => FailoverKeeps
<1> DEFINE Keeps ==
      leader' # leader =>
         /\ \A i \in Place : RegionOf(i) = RegionOf(leader) => verdict[i] # "healthy"
         /\ \A i \in Followers : RegionOf(i) \in Region /\ Live(FleetHealth[RegionOf(i)])
                                => appliedLsn[i] <= appliedLsn[leader']
<1>1. FailoverInit => FailoverTyped
  BY DEF FailoverInit, FailoverTyped
<1>2. FailoverTyped /\ [FailoverNext]_failoverVars => FailoverTyped'
  BY FailoverTypedStep
<1>3. FailoverTyped /\ [FailoverNext]_failoverVars => [Keeps]_failoverVars
  <2> SUFFICES ASSUME FailoverTyped, FailoverNext, leader' # leader PROVE Keeps
    BY DEF failoverVars
  <2>1. FailOver
    BY DEF FailoverNext, VerdictChanges, LeaderAppends, FollowerApplies
  <2>2. RegionOf(leader) \in Region /\ FleetHealth[RegionOf(leader)] = "down"
    BY <2>1 DEF FailOver
  <2> QED BY <2>1, <2>2, Elected, DownHasNone
<1> QED BY <1>1, <1>2, <1>3, PTL DEF FailoverSpec, FailoverKeeps

-----------------------------------------------------------------------------
(* The SLA monitor *)

Request == [at : Int, success : BOOLEAN, latency : Latency, times : Nat \ {0}]

Outage == [start : Int, resolved : Int]

\* What the outages say they took.
OutageTimes(os) == [i \in 1..Len(os) |-> RecoveryTime(os[i])]

\* The inductive invariant: DowntimeAccounted, with the types.
SlaInv ==
    /\ minute \in Nat /\ downMinutes \in Int /\ activeOutageAt \in Int
    /\ records \in Seq(Request) /\ outages \in Seq(Outage)
    /\ DowntimeAccounted

LEMMA OutageTimesType ==
    ASSUME NEW os \in Seq(Outage)
    PROVE  OutageTimes(os) \in Seq(Int) /\ Len(OutageTimes(os)) = Len(os)
<1>1. ASSUME NEW i \in 1..Len(os) PROVE RecoveryTime(os[i]) \in Int
  <2>1. os[i] \in Outage
    OBVIOUS
  <2> QED BY <2>1 DEF Outage, RecoveryTime
<1> QED BY <1>1 DEF OutageTimes

LEMMA OutageAppended ==
    ASSUME NEW os \in Seq(Outage), NEW o \in Outage
    PROVE  Total(OutageTimes(Append(os, o))) = Total(OutageTimes(os)) + RecoveryTime(o)
<1> DEFINE os1 == Append(os, o)
<1>1. os1 \in Seq(Outage) /\ Len(os1) = Len(os) + 1 /\ os1[Len(os1)] = o
      /\ \A i \in 1..Len(os) : os1[i] = os[i]
  OBVIOUS
<1>2. Len(os) \in Nat /\ \A i \in 1..Len(os) : i \in 1..(Len(os) + 1)
  OBVIOUS
<1> HIDE DEF os1
<1>3. /\ OutageTimes(os) \in Seq(Int) /\ Len(OutageTimes(os)) = Len(os)
      /\ OutageTimes(os1) \in Seq(Int) /\ Len(OutageTimes(os1)) = Len(os) + 1
  BY <1>1, OutageTimesType
<1>4. \A i \in 1..Len(OutageTimes(os)) : OutageTimes(os1)[i] = OutageTimes(os)[i]
  BY <1>1, <1>2, <1>3 DEF OutageTimes
<1>5. OutageTimes(os1)[Len(os) + 1] = RecoveryTime(o)
  <2>1. Len(os) + 1 \in 1..Len(os1)
    BY <1>1, <1>2
  <2> QED BY <1>1, <2>1 DEF OutageTimes
<1>6. Total(OutageTimes(os1)) = Total(OutageTimes(os)) + OutageTimes(os1)[Len(OutageTimes(os1))]
  BY ONLY <1>3, <1>4, TotalLonger
<1> QED BY <1>3, <1>5, <1>6 DEF os1

LEMMA SlaStep == ASSUME SlaInv, [SlaNext]_slaVars PROVE SlaInv'
<1> USE SlaConstants
<1>t. Total(OutageTimes(outages)) \in Int
  BY OutageTimesType, TotalType DEF SlaInv
<1>d. DowntimeAccounted <=>
        Total(OutageTimes(outages)) + (IF activeOutageAt = -1 THEN 0 ELSE minute - activeOutageAt)
           = downMinutes
  BY DEF DowntimeAccounted, OutageTimes
<1>e. DowntimeAccounted' <=>
        Total(OutageTimes(outages')) + (IF activeOutageAt' = -1 THEN 0 ELSE minute' - activeOutageAt')
           = downMinutes'
  BY DEF DowntimeAccounted, OutageTimes
<1>1. ASSUME NEW success \in BOOLEAN, NEW latency \in Latency, NEW times \in Burst,
             RecordRequests(success, latency, times)
      PROVE  SlaInv'
  <2>1. [at |-> minute, success |-> success, latency |-> latency, times |-> times] \in Request
    BY DEF Request, SlaInv
  <2>2. records' \in Seq(Request)
    BY <1>1, <2>1 DEF RecordRequests, SlaInv
  <2> QED BY <1>1, <1>d, <1>e, <2>2 DEF RecordRequests, SlaInv
<1>2. CASE OutageStart
  BY <1>2, <1>d, <1>e, <1>t DEF OutageStart, SlaInv
<1>3. CASE OutageResolved
  <2> DEFINE o == [start |-> activeOutageAt, resolved |-> minute]
  <2>1. o \in Outage /\ RecoveryTime(o) = minute - activeOutageAt
    BY DEF Outage, RecoveryTime, SlaInv
  <2>2. outages' = Append(outages, o)
    BY <1>3 DEF OutageResolved
  <2> HIDE DEF o
  <2>3. outages' \in Seq(Outage)
    BY <2>1, <2>2 DEF SlaInv
  <2>4. Total(OutageTimes(outages')) = Total(OutageTimes(outages)) + RecoveryTime(o)
    BY <2>1, <2>2, OutageAppended DEF SlaInv
  <2> QED BY <1>3, <1>d, <1>e, <1>t, <2>1, <2>3, <2>4 DEF OutageResolved, SlaInv
<1>4. CASE MinutePasses
  BY <1>4, <1>d, <1>e, <1>t DEF MinutePasses, SlaInv
<1>5. CASE UNCHANGED slaVars
  BY <1>5 DEF slaVars, SlaInv, DowntimeAccounted
<1> QED BY <1>1, <1>2, <1>3, <1>4, <1>5 DEF SlaNext

LEMMA SlaAlways == SlaSpec => []SlaInv
<1>1. SlaInit => SlaInv
  <2> SUFFICES ASSUME SlaInit PROVE SlaInv
    OBVIOUS
  <2>1. OutageTimes(outages) = <<>>
    BY DEF SlaInit, OutageTimes
  <2>2. Total(OutageTimes(outages)) = 0
    BY <2>1, TotalEmpty
  <2>3. DowntimeAccounted
    BY <2>2 DEF DowntimeAccounted, OutageTimes, SlaInit
  <2> QED BY <2>3 DEF SlaInit, SlaInv
<1> QED BY <1>1, SlaStep, PTL DEF SlaSpec

\* A single value is the total.
LEMMA TotalOne ==
    ASSUME NEW p \in Seq(Int), Len(p) = 1
    PROVE  Total(p) = p[1]
<1>1. /\ <<>> \in Seq(Int) /\ Len(<<>>) = 0
      /\ \A i \in 1..Len(<<>>) : p[i] = <<>>[i]
  OBVIOUS
<1>2. Len(p) = Len(<<>>) + 1
  BY <1>1
<1>3. Total(p) = Total(<<>>) + p[Len(p)]
  BY ONLY <1>1, <1>2, p \in Seq(Int), TotalLonger
<1>4. p[1] \in Int
  OBVIOUS
<1> QED BY <1>3, <1>4, TotalEmpty

\* The one outage there was is all of the mean.
LEMMA LongCounted == SlaInv => LongOutageCounted
<1> SUFFICES ASSUME SlaInv, NEW i \in 1..Len(outages), NEW w \in 1..MaxMinutes,
                    outages[i].resolved > minute - w, Len(outages) = 1
             PROVE  GetSLAReport(w).mttr = RecoveryTime(outages[i])
  BY DEF LongOutageCounted
<1> DEFINE ones == [j \in 1..Len(outages) |-> IF ResolvedIn(w, outages[j]) THEN 1 ELSE 0]
           times == [j \in 1..Len(outages) |->
                       IF ResolvedIn(w, outages[j]) THEN RecoveryTime(outages[j]) ELSE 0]
<1>1. i = 1 /\ outages[1] \in Outage /\ ResolvedIn(w, outages[1])
  <2>1. i = 1
    OBVIOUS
  <2>2. outages \in Seq(Outage) /\ 1 \in 1..Len(outages)
    BY DEF SlaInv
  <2>3. outages[1] \in Outage
    BY ONLY <2>2
  <2> QED BY <2>1, <2>3 DEF ResolvedIn
<1>2. RecoveryTime(outages[1]) \in Int
  BY <1>1 DEF Outage, RecoveryTime
<1>3. ones \in Seq(Int) /\ Len(ones) = 1 /\ ones[1] = 1
  BY <1>1
<1>4. times \in Seq(Int) /\ Len(times) = 1 /\ times[1] = RecoveryTime(outages[1])
  BY <1>1, <1>2
<1>5. ResolvedCount(w) = 1
  <2>1. ResolvedCount(w) = Total(ones)
    BY DEF ResolvedCount
  <2> HIDE DEF ones
  <2> QED BY <1>3, <2>1, TotalOne
<1>6. ResolvedTime(w) = RecoveryTime(outages[1])
  <2>1. ResolvedTime(w) = Total(times)
    BY DEF ResolvedTime
  <2> HIDE DEF times
  <2> QED BY <1>4, <2>1, TotalOne
<1>7. MeanTimeToRecover(w) = RecoveryTime(outages[1])
  BY <1>2, <1>5, <1>6 DEF MeanTimeToRecover
<1>8. ReportWindow(w) = w
  BY DEF ReportWindow
<1> QED BY <1>1, <1>7, <1>8 DEF GetSLAReport

\* The counts that the percentiles are made of, as totals: the requests of a
\* window with a latency of at most l, and below l.
WithinSeq(w, l) ==
    [i \in 1..Len(records) |->
       IF records[i].at > minute - w /\ (records[i].latency > 0 /\ records[i].latency <= l)
       THEN records[i].times ELSE 0]

BelowSeq(w, l) ==
    [i \in 1..Len(records) |->
       IF records[i].at > minute - w /\ (records[i].latency > 0 /\ records[i].latency < l)
       THEN records[i].times ELSE 0]

AllSeq(w) ==
    [i \in 1..Len(records) |->
       IF records[i].at > minute - w /\ records[i].latency > 0 THEN records[i].times ELSE 0]

Within(w, l) == Count(w, LAMBDA r : r.latency > 0 /\ r.latency <= l)

LEMMA CountsAreTotals ==
    /\ \A w, l : Within(w, l) = Total(WithinSeq(w, l))
    /\ \A w, l : Count(w, LAMBDA r : r.latency > 0 /\ r.latency < l) = Total(BelowSeq(w, l))
    /\ \A w : LatencyCount(w) = Total(AllSeq(w))
<1>1. \A w, l : Within(w, l) = Total(WithinSeq(w, l))
  BY DEF Within, Count, WithinSeq
<1>2. \A w, l : Count(w, LAMBDA r : r.latency > 0 /\ r.latency < l) = Total(BelowSeq(w, l))
  BY DEF Count, BelowSeq
<1>3. \A w : LatencyCount(w) = Total(AllSeq(w))
  BY DEF Count, LatencyCount, AllSeq
<1> QED BY <1>1, <1>2, <1>3

LEMMA LatencyAtIs ==
    \A w, index : LatencyAt(w, index) =
        CHOOSE l \in Latency \ {0} :
            Total(BelowSeq(w, l)) <= index /\ Total(WithinSeq(w, l)) > index
  BY DEF LatencyAt, Count, BelowSeq, WithinSeq

LEMMA CountTypes ==
    ASSUME SlaInv, NEW w
    PROVE  /\ \A l \in Nat : /\ WithinSeq(w, l) \in Seq(Int) /\ Len(WithinSeq(w, l)) = Len(records)
                            /\ BelowSeq(w, l) \in Seq(Int) /\ Len(BelowSeq(w, l)) = Len(records)
           /\ AllSeq(w) \in Seq(Int) /\ Len(AllSeq(w)) = Len(records)
           /\ Len(records) \in Nat
           /\ \A i \in 1..Len(records) : /\ records[i].times \in Nat /\ records[i].latency \in Nat
                                         /\ records[i].latency \in Latency
<1>1. ASSUME NEW i \in 1..Len(records)
      PROVE  /\ records[i].times \in Nat /\ records[i].latency \in Nat
             /\ records[i].latency \in Latency
  <2>1. records \in Seq(Request)
    BY DEF SlaInv
  <2>2. records[i] \in Request
    BY ONLY <2>1, i \in 1..Len(records)
  <2> QED BY <2>2, SlaConstants DEF Request
<1>2. Len(records) \in Nat
  BY DEF SlaInv
<1>3. ASSUME NEW l \in Nat
      PROVE  /\ WithinSeq(w, l) \in Seq(Int) /\ Len(WithinSeq(w, l)) = Len(records)
             /\ BelowSeq(w, l) \in Seq(Int) /\ Len(BelowSeq(w, l)) = Len(records)
  BY <1>1, <1>2 DEF WithinSeq, BelowSeq
<1>4. AllSeq(w) \in Seq(Int) /\ Len(AllSeq(w)) = Len(records)
  BY <1>1, <1>2 DEF AllSeq
<1> QED BY <1>1, <1>2, <1>3, <1>4

\* More requests are within a higher latency, all are within some, and as many
\* are below one as within one less.
LEMMA WithinGrows ==
    ASSUME SlaInv, NEW w, NEW k \in Nat, NEW l \in Nat, k <= l
    PROVE  Total(WithinSeq(w, k)) <= Total(WithinSeq(w, l))
<1>1. ASSUME NEW i \in 1..Len(records)
      PROVE  WithinSeq(w, k)[i] <= WithinSeq(w, l)[i]
  BY CountTypes DEF WithinSeq
<1>2. /\ WithinSeq(w, k) \in Seq(Int) /\ Len(WithinSeq(w, k)) = Len(records)
      /\ WithinSeq(w, l) \in Seq(Int) /\ Len(WithinSeq(w, l)) = Len(records)
  BY CountTypes
<1> QED BY ONLY <1>1, <1>2, TotalMonotone

LEMMA BelowWithin ==
    ASSUME SlaInv, NEW w, NEW k \in Nat, NEW l \in Nat, k < l
    PROVE  Total(WithinSeq(w, k)) <= Total(BelowSeq(w, l))
<1>1. ASSUME NEW i \in 1..Len(records)
      PROVE  WithinSeq(w, k)[i] <= BelowSeq(w, l)[i]
  BY CountTypes DEF WithinSeq, BelowSeq
<1>2. /\ WithinSeq(w, k) \in Seq(Int) /\ Len(WithinSeq(w, k)) = Len(records)
      /\ BelowSeq(w, l) \in Seq(Int) /\ Len(BelowSeq(w, l)) = Len(records)
  BY CountTypes
<1> QED BY ONLY <1>1, <1>2, TotalMonotone

LEMMA AllWithin ==
    ASSUME SlaInv, NEW w
    PROVE  \E l \in Nat : WithinSeq(w, l) = AllSeq(w)
<1> DEFINE s == [i \in 1..Len(records) |-> records[i].latency]
<1>1. s \in Seq(Int) /\ Len(s) = Len(records) /\ \A i \in 1..Len(s) : s[i] >= 0
  BY CountTypes
<1>2. \A i \in 1..Len(records) : s[i] = records[i].latency
  OBVIOUS
<1> HIDE DEF s
<1>3. Total(s) >= 0 /\ \A i \in 1..Len(s) : s[i] <= Total(s)
  BY <1>1, TotalAtLeast
<1>4. Total(s) \in Nat
  BY <1>1, <1>3, TotalType
<1>5. WithinSeq(w, Total(s)) = AllSeq(w)
  BY <1>1, <1>2, <1>3 DEF WithinSeq, AllSeq
<1> QED BY <1>4, <1>5

\* The latency of a percentile exists: the least one that has more than `index'
\* latencies within it.
LEMMA LatencyAtExists ==
    ASSUME SlaInv, NEW w, NEW index \in Nat, index < LatencyCount(w)
    PROVE  /\ LatencyAt(w, index) \in Latency \ {0}
           /\ Total(BelowSeq(w, LatencyAt(w, index))) <= index
           /\ Total(WithinSeq(w, LatencyAt(w, index))) > index
<1> DEFINE T == {l \in Nat : Total(WithinSeq(w, l)) > index}
<1>1. T # {}
  <2>1. PICK l \in Nat : WithinSeq(w, l) = AllSeq(w)
    BY AllWithin
  <2>2. Total(AllSeq(w)) > index
    <3>1. Total(AllSeq(w)) \in Int
      BY CountTypes, TotalType
    <3> QED BY <3>1, CountsAreTotals
  <2> QED BY <2>1, <2>2
<1>2. PICK l \in T : \A k \in T : l <= k
  <2>1. T \in SUBSET Nat
    OBVIOUS
  <2> HIDE DEF T
  <2> QED BY <1>1, <2>1, LeastNat
<1>3. \A k \in Nat : Total(WithinSeq(w, k)) \in Int /\ Total(BelowSeq(w, k)) \in Int
  BY CountTypes, TotalType
<1>4. l # 0
  <2>1. ASSUME NEW i \in 1..Len(WithinSeq(w, 0)) PROVE WithinSeq(w, 0)[i] = 0
    BY CountTypes DEF WithinSeq
  <2>2. Total(WithinSeq(w, 0)) = 0
    BY <2>1, CountTypes, TotalZero
  <2> QED BY <2>2
<1>5. l - 1 \in Nat /\ Total(WithinSeq(w, l - 1)) <= index
  <2>1. l - 1 \in Nat /\ ~ (l <= l - 1)
    BY <1>4
  <2>2. l - 1 \notin T
    <3> HIDE DEF T
    <3> QED BY <1>2, <2>1
  <2> QED BY <1>3, <2>1, <2>2
<1>6. BelowSeq(w, l) = WithinSeq(w, l - 1)
  BY <1>5, CountTypes DEF BelowSeq, WithinSeq
<1>7. l \in Latency
  <2> SUFFICES ASSUME l \notin Latency PROVE FALSE
    OBVIOUS
  <2>1. ASSUME NEW i \in 1..Len(records) PROVE records[i].latency # l
    BY CountTypes
  <2>2. WithinSeq(w, l) = WithinSeq(w, l - 1)
    BY <1>5, <2>1, CountTypes DEF WithinSeq
  <2>3. l \in T /\ Total(WithinSeq(w, l)) > index
    BY <1>2
  <2> QED BY <1>3, <1>5, <2>2, <2>3
<1>8. Total(BelowSeq(w, l)) <= index /\ Total(WithinSeq(w, l)) > index
  BY <1>2, <1>5, <1>6
<1> DEFINE P(k) == Total(BelowSeq(w, k)) <= index /\ Total(WithinSeq(w, k)) > index
<1>9. \E k \in Latency \ {0} : P(k)
  BY <1>4, <1>7, <1>8
<1>10. LatencyAt(w, index) = CHOOSE k \in Latency \ {0} : P(k)
  BY LatencyAtIs
<1> QED
  <2>1. LatencyAt(w, index) \in Latency \ {0} /\ P(LatencyAt(w, index))
    <3> HIDE DEF P
    <3> QED BY <1>9, <1>10
  <2> QED BY <2>1

\* The index of a percentile is in the slice, and covers its share.
LEMMA IndexCovers ==
    ASSUME NEW n \in Nat \ {0}
    PROVE  /\ PercentileIndex(n, 95) \in 0..(n - 1) /\ PercentileIndex(n, 99) \in 0..(n - 1)
           /\ PercentileIndex(n, 95) <= PercentileIndex(n, 99)
           /\ 100 * (PercentileIndex(n, 95) + 1) >= 95 * n
           /\ 100 * (PercentileIndex(n, 99) + 1) >= 99 * n
  BY DEF PercentileIndex

LEMMA Covered == SlaInv => PercentilesCover
<1> SUFFICES ASSUME SlaInv,
                    NEW w
             PROVE  /\ 100 * Within(w, Percentile(w, 95)) >= 95 * LatencyCount(w)
                    /\ 100 * Within(w, Percentile(w, 99)) >= 99 * LatencyCount(w)
                    /\ Percentile(w, 95) <= Percentile(w, 99)
  <2>1. \A w0 : /\ GetSLAReport(w0).p95 = Percentile(ReportWindow(w0), 95)
                /\ GetSLAReport(w0).p99 = Percentile(ReportWindow(w0), 99)
    BY DEF GetSLAReport
  <2>2. ASSUME \A w0 \in Windows :
                 LET w == ReportWindow(w0) IN
                 /\ 100 * Within(w, GetSLAReport(w0).p95) >= 95 * LatencyCount(w)
                 /\ 100 * Within(w, GetSLAReport(w0).p99) >= 99 * LatencyCount(w)
                 /\ GetSLAReport(w0).p95 <= GetSLAReport(w0).p99
        PROVE  PercentilesCover
    BY <2>2 DEF PercentilesCover, Within
  <2> QED BY <2>1, <2>2
<1> DEFINE n == LatencyCount(w)
<1>1. n \in Nat
  <2>1. \A i \in 1..Len(AllSeq(w)) : AllSeq(w)[i] >= 0
    BY CountTypes DEF AllSeq
  <2>2. Total(AllSeq(w)) \in Int /\ Total(AllSeq(w)) >= 0
    BY <2>1, CountTypes, TotalType, TotalAtLeast
  <2> QED BY <2>2, CountsAreTotals
<1>2. CASE n = 0
  <2>1. Percentile(w, 95) = 0 /\ Percentile(w, 99) = 0
    BY <1>2 DEF Percentile
  <2>2. Within(w, 0) \in Int /\ Within(w, 0) >= 0
    <3>1. \A i \in 1..Len(WithinSeq(w, 0)) : WithinSeq(w, 0)[i] >= 0
      BY CountTypes DEF WithinSeq
    <3>2. Total(WithinSeq(w, 0)) \in Int /\ Total(WithinSeq(w, 0)) >= 0
      BY <3>1, CountTypes, TotalType, TotalAtLeast
    <3> QED BY <3>2, CountsAreTotals
  <2> QED BY <1>2, <2>1, <2>2
<1>3. CASE n # 0
  <2> DEFINE i95 == PercentileIndex(n, 95)
             i99 == PercentileIndex(n, 99)
             p95 == LatencyAt(w, i95)
             p99 == LatencyAt(w, i99)
  <2>1. Percentile(w, 95) = p95 /\ Percentile(w, 99) = p99
    BY <1>3 DEF Percentile
  <2>2. /\ i95 \in Nat /\ i95 < n /\ i99 \in Nat /\ i99 < n /\ i95 <= i99
        /\ 100 * (i95 + 1) >= 95 * n /\ 100 * (i99 + 1) >= 99 * n
    <3> HIDE DEF n
    <3>1. n \in Nat \ {0}
      BY <1>1, <1>3
    <3> QED BY <3>1, IndexCovers
  <2> HIDE DEF i95, i99
  <2>3. /\ p95 \in Latency \ {0} /\ p99 \in Latency \ {0}
        /\ Total(BelowSeq(w, p95)) <= i95
        /\ Total(WithinSeq(w, p95)) > i95 /\ Total(WithinSeq(w, p99)) > i99
    BY <2>2, LatencyAtExists
  <2> HIDE DEF p95, p99, n
  <2>4. p95 \in Nat /\ p99 \in Nat
    BY <2>3, SlaConstants
  <2>5. /\ Within(w, p95) = Total(WithinSeq(w, p95)) /\ Within(w, p95) \in Int
        /\ Within(w, p99) = Total(WithinSeq(w, p99)) /\ Within(w, p99) \in Int
        /\ Total(BelowSeq(w, p95)) \in Int
    BY <2>4, CountsAreTotals, CountTypes, TotalType
  <2>6. p95 <= p99
    <3> SUFFICES ASSUME p99 < p95 PROVE FALSE
      BY <2>4
    <3>1. Total(WithinSeq(w, p99)) <= Total(BelowSeq(w, p95))
      BY <2>4, BelowWithin
    <3> QED BY <2>2, <2>3, <2>5, <3>1
  <2>7. 100 * Within(w, p95) >= 95 * n /\ 100 * Within(w, p99) >= 99 * n
    BY <1>1, <2>2, <2>3, <2>5
  <2> QED BY <2>1, <2>6, <2>7 DEF n
<1> QED BY <1>2, <1>3

\* What a report says is what happened: no downtime is lost or counted twice,
\* no outage is hidden by a window, and the percentiles cover their share of
\* the requests, however many requests and outages there are and whatever their
\* latencies (monitor.go, RecordEvent, GetSLAReport).
THEOREM ReportsAlwaysTrue == SlaSpec => []ReportsTrue
<1>1. SlaInv => ReportsTrue
  BY LongCounted, Covered DEF SlaInv, ReportsTrue
<1> QED BY <1>1, SlaAlways, PTL

-----------------------------------------------------------------------------
(* The capacity planner *)

\* The columns of a history: days since the first sample, values, ones.
Days(data) == [i \in 1..Len(data) |-> X(data, data[i])]

Values(data) == [i \in 1..Len(data) |-> data[i].value]

Ones(data) == [i \in 1..Len(data) |-> 1]

LEMMA Columns ==
    ASSUME NEW data \in Seq(Sample)
    PROVE  /\ Len(data) \in Nat
           /\ \A i \in 1..Len(data) : /\ data[i].value \in Nat /\ data[i].day \in Int
                                      /\ X(data, data[i]) \in Int
           /\ Days(data) \in Seq(Int) /\ Len(Days(data)) = Len(data)
           /\ Values(data) \in Seq(Int) /\ Len(Values(data)) = Len(data)
           /\ Ones(data) \in Seq(Int) /\ Len(Ones(data)) = Len(data)
           /\ \A i \in 1..Len(data) : /\ Days(data)[i] = X(data, data[i])
                                      /\ Values(data)[i] = data[i].value
                                      /\ Ones(data)[i] = 1
<1>1. ASSUME NEW i \in 1..Len(data)
      PROVE  data[i].value \in Nat /\ data[i].day \in Int /\ X(data, data[i]) \in Int
  <2>1. 1 \in 1..Len(data)
    OBVIOUS
  <2>2. data[i] \in Sample /\ data[1] \in Sample
    BY ONLY data \in Seq(Sample), <2>1, i \in 1..Len(data)
  <2>3. \A s \in Sample : s.value \in Nat /\ s.day \in Int
    BY PlannerConstants DEF Sample
  <2> QED BY <2>2, <2>3 DEF X
<1>2. Len(data) \in Nat
  OBVIOUS
<1>3. Days(data) \in Seq(Int) /\ Len(Days(data)) = Len(data)
      /\ \A i \in 1..Len(data) : Days(data)[i] = X(data, data[i])
  BY <1>1, <1>2 DEF Days
<1>4. Values(data) \in Seq(Int) /\ Len(Values(data)) = Len(data)
      /\ \A i \in 1..Len(data) : Values(data)[i] = data[i].value
  BY <1>1, <1>2 DEF Values
<1>5. Ones(data) \in Seq(Int) /\ Len(Ones(data)) = Len(data)
      /\ \A i \in 1..Len(data) : Ones(data)[i] = 1
  BY <1>1, <1>2 DEF Ones
<1> QED BY <1>1, <1>2, <1>3, <1>4, <1>5

\* A total of ones is their number.
LEMMA TotalOnes ==
    ASSUME NEW p \in Seq(Int), \A i \in 1..Len(p) : p[i] = 1
    PROVE  Total(p) = Len(p)
<1> DEFINE u == [i \in 0..Len(p) |-> i]
<1>1. Len(p) \in Nat /\ u \in [0..Len(p) -> Int]
  OBVIOUS
<1>2. \A i \in 0..Len(p) : u[i] = i
  OBVIOUS
<1>3. Runs(u, p)
  <2> HIDE DEF u
  <2> QED BY <1>1, <1>2 DEF Runs
<1>4. Total(p) = u[Len(p)]
  <2> HIDE DEF u
  <2> QED BY <1>3, TotalIs
<1> QED BY <1>1, <1>2, <1>4

\* The sums of the regression are products of the columns.
LEMMA SumsAre ==
    ASSUME NEW data \in Seq(Sample)
    PROVE  /\ SumX(data) = Total(Days(data)) /\ SumY(data) = Total(Values(data))
           /\ SumXY(data) = Product(Days(data), Values(data))
           /\ SumXX(data) = Product(Days(data), Days(data))
           /\ Len(data) = Product(Ones(data), Ones(data))
           /\ SumX(data) = Product(Ones(data), Days(data))
<1> USE Columns
<1>1. SumX(data) = Total(Days(data)) /\ SumY(data) = Total(Values(data))
  BY DEF SumX, SumY, SumOver, Days, Values
<1>2. SumXY(data) = Product(Days(data), Values(data))
  <2>1. [i \in 1..Len(Days(data)) |-> Days(data)[i] * Values(data)[i]]
          = [i \in 1..Len(data) |-> X(data, data[i]) * data[i].value]
    OBVIOUS
  <2> QED BY <2>1 DEF SumXY, SumOver, Product
<1>3. SumXX(data) = Product(Days(data), Days(data))
  <2>1. [i \in 1..Len(Days(data)) |-> Days(data)[i] * Days(data)[i]]
          = [i \in 1..Len(data) |-> X(data, data[i]) * X(data, data[i])]
    OBVIOUS
  <2> QED BY <2>1 DEF SumXX, SumOver, Product
<1>4. Len(data) = Product(Ones(data), Ones(data))
  <2>1. [i \in 1..Len(Ones(data)) |-> Ones(data)[i] * Ones(data)[i]] = Ones(data)
    BY DEF Ones
  <2>2. Total(Ones(data)) = Len(data)
    <3>1. \A i \in 1..Len(Ones(data)) : Ones(data)[i] = 1
      OBVIOUS
    <3> QED BY <3>1, TotalOnes
  <2> QED BY <2>1, <2>2 DEF Product
<1>5. SumX(data) = Product(Ones(data), Days(data))
  <2>1. [i \in 1..Len(Ones(data)) |-> Ones(data)[i] * Days(data)[i]] = Days(data)
    BY DEF Ones, Days
  <2> QED BY <1>1, <2>1 DEF Product
<1> QED BY <1>1, <1>2, <1>3, <1>4, <1>5

LEMMA SumTypes ==
    ASSUME NEW data \in Seq(Sample)
    PROVE  SumX(data) \in Int /\ SumY(data) \in Int /\ SumXY(data) \in Int /\ SumXX(data) \in Int
  BY SumsAre, Columns, TotalType, ProductType

\* The denominator is not negative, and 0 only for samples of a single day.
LEMMA DenomIs ==
    ASSUME NEW data \in Seq(Sample), data # <<>>
    PROVE  /\ Denom(data) \in Int /\ Denom(data) >= 0
           /\ Denom(data) = 0 => \A i \in 1..Len(data) : X(data, data[i]) = 0
<1>1. Denom(data) = Gram(Ones(data), Days(data))
  BY SumsAre DEF Denom, Gram
<1>2. Schwarz(Ones(data), Days(data))
  BY Columns, CauchySchwarz
<1>3. Denom(data) \in Int
  <2>1. ASSUME NEW n \in Int, NEW x \in Int, NEW y \in Int PROVE n * x - y * y \in Int
    OBVIOUS
  <2> QED BY <2>1, SumTypes, Columns DEF Denom
<1>4. ASSUME Denom(data) = 0, NEW i \in 1..Len(data) PROVE X(data, data[i]) = 0
  <2>1. Parallel(Ones(data), Days(data))
    BY <1>1, <1>2, <1>4 DEF Schwarz
  <2>2. 1 \in 1..Len(data)
    BY Columns
  <2>3. Ones(data)[1] * Days(data)[i] = Ones(data)[i] * Days(data)[1]
    BY <2>1, <2>2, Columns DEF Parallel
  <2>4. 1 * X(data, data[i]) = 1 * X(data, data[1])
    BY <2>2, <2>3, Columns
  <2>5. X(data, data[1]) = 0
    BY <2>2, Columns DEF X
  <2> QED BY <2>4, <2>5, Columns
<1> QED BY <1>1, <1>2, <1>3, <1>4 DEF Schwarz

\* The residuals of a line, and the residuals weighted with the days.
Residuals(data, a, b, c) ==
    [i \in 1..Len(data) |-> a * data[i].value - (b * X(data, data[i]) + c)]

Weighted(data, a, b, c) ==
    [i \in 1..Len(data) |->
       X(data, data[i]) * (a * data[i].value - (b * X(data, data[i]) + c))]

\* A function on 1..n is a list of n.
LEMMA ListOf ==
    ASSUME NEW n \in Nat, NEW f \in [1..n -> Int]
    PROVE  f \in Seq(Int) /\ Len(f) = n
OBVIOUS

LEMMA ResidualsAddUp ==
    ASSUME NEW data \in Seq(Sample), NEW a \in Int, NEW b \in Int, NEW c \in Int
    PROVE  Total(Residuals(data, a, b, c)) = a * SumY(data) - b * SumX(data) - c * Len(data)
<1> DEFINE r == Residuals(data, a, b, c)
<1>1. ASSUME NEW i \in 1..Len(data)
      PROVE  /\ a * data[i].value - (b * X(data, data[i]) + c) \in Int
             /\ a * data[i].value - (b * X(data, data[i]) + c)
                   = Mix(a, data[i].value, -b, X(data, data[i]), -c, 1)
  <2>1. data[i].value \in Int /\ X(data, data[i]) \in Int
    BY Columns
  <2>2. ASSUME NEW x \in Int, NEW y \in Int
        PROVE  a * y - (b * x + c) \in Int /\ a * y - (b * x + c) = Mix(a, y, -b, x, -c, 1)
    BY DEF Mix
  <2> QED BY ONLY <2>1, <2>2
<1>2. /\ r \in Seq(Int) /\ Len(r) = Len(data)
      /\ \A i \in 1..Len(data) : r[i] = a * data[i].value - (b * X(data, data[i]) + c)
  <2>1. r = [i \in 1..Len(data) |-> a * data[i].value - (b * X(data, data[i]) + c)]
    BY DEF Residuals
  <2> HIDE DEF r
  <2>2. Len(data) \in Nat
    OBVIOUS
  <2>3. r \in [1..Len(data) -> Int]
    BY ONLY <1>1, <2>1
  <2> QED BY ONLY <2>1, <2>2, <2>3, ListOf
<1> HIDE DEF r
<1>3. Combines(r, a, Values(data), -b, Days(data), -c, Ones(data))
  BY <1>1, <1>2, Columns DEF Combines
<1>4. -b \in Int /\ -c \in Int
  OBVIOUS
<1>5. TotalsCombine(r, a, Values(data), -b, Days(data), -c, Ones(data))
  <2>1. Values(data) \in Seq(Int) /\ Days(data) \in Seq(Int) /\ Ones(data) \in Seq(Int)
    BY Columns
  <2> QED BY ONLY a \in Int, <1>4, <1>2, <1>3, <2>1, TotalLinear
<1>6. Total(r) = Mix(a, SumY(data), -b, SumX(data), -c, Len(data))
  <2>1. Total(Ones(data)) = Len(data)
    BY Columns, TotalOnes
  <2> QED BY <1>5, <2>1, SumsAre DEF TotalsCombine
<1>7. ASSUME NEW x \in Int, NEW y \in Int, NEW n \in Int
      PROVE  Mix(a, y, -b, x, -c, n) = a * y - b * x - c * n
  BY DEF Mix
<1>8. SumX(data) \in Int /\ SumY(data) \in Int /\ Len(data) \in Int
  BY SumTypes, Columns
<1>9. Total(r) = a * SumY(data) - b * SumX(data) - c * Len(data)
  BY ONLY <1>6, <1>7, <1>8
<1> QED BY ONLY <1>9 DEF r

LEMMA WeightedAddUp ==
    ASSUME NEW data \in Seq(Sample), NEW a \in Int, NEW b \in Int, NEW c \in Int
    PROVE  Total(Weighted(data, a, b, c)) = a * SumXY(data) - b * SumXX(data) - c * SumX(data)
<1> DEFINE r == Weighted(data, a, b, c)
<1>1. ASSUME NEW i \in 1..Len(data), NEW x, NEW y, x = X(data, data[i]), y = data[i].value
      PROVE  /\ x * (a * y - (b * x + c)) \in Int
             /\ x * (a * y - (b * x + c)) = Mix(a, x * y, -b, x * x, -c, x)
  <2>1. x \in Int /\ y \in Int
    BY <1>1, Columns
  <2>2. ASSUME NEW k \in Int, NEW l \in Int
        PROVE  /\ k * (a * l - (b * k + c)) \in Int
               /\ k * (a * l - (b * k + c)) = Mix(a, k * l, -b, k * k, -c, k)
    BY DEF Mix
  <2> QED BY ONLY <2>1, <2>2
<1>2. /\ r \in Seq(Int) /\ Len(r) = Len(data)
      /\ \A i \in 1..Len(data) :
            r[i] = X(data, data[i]) * (a * data[i].value - (b * X(data, data[i]) + c))
  <2>1. r = [i \in 1..Len(data) |->
               X(data, data[i]) * (a * data[i].value - (b * X(data, data[i]) + c))]
    BY DEF Weighted
  <2> HIDE DEF r
  <2>2. Len(data) \in Nat
    OBVIOUS
  <2>3. r \in [1..Len(data) -> Int]
    BY ONLY <1>1, <2>1
  <2> QED BY ONLY <2>1, <2>2, <2>3, ListOf
<1> HIDE DEF r
<1>3. PICK p \in Seq(Int) :
         /\ Len(p) = Len(data) /\ Product(Days(data), Values(data)) = Total(p)
         /\ \A i \in 1..Len(data) : p[i] = Days(data)[i] * Values(data)[i]
  <2>1. PICK p \in Seq(Int) :
           /\ Len(p) = Len(Days(data)) /\ Product(Days(data), Values(data)) = Total(p)
           /\ \A i \in 1..Len(Days(data)) : p[i] = Days(data)[i] * Values(data)[i]
    BY Columns, ProductSeq
  <2> QED BY <2>1, Columns
<1>4. PICK q \in Seq(Int) :
         /\ Len(q) = Len(data) /\ Product(Days(data), Days(data)) = Total(q)
         /\ \A i \in 1..Len(data) : q[i] = Days(data)[i] * Days(data)[i]
  <2>1. PICK q \in Seq(Int) :
           /\ Len(q) = Len(Days(data)) /\ Product(Days(data), Days(data)) = Total(q)
           /\ \A i \in 1..Len(Days(data)) : q[i] = Days(data)[i] * Days(data)[i]
    BY Columns, ProductSeq
  <2> QED BY <2>1, Columns
<1>5. Combines(r, a, p, -b, q, -c, Days(data))
  <2>1. ASSUME NEW i \in 1..Len(data)
        PROVE  r[i] = Mix(a, p[i], -b, q[i], -c, Days(data)[i])
    <3>1. /\ p[i] = X(data, data[i]) * data[i].value
          /\ q[i] = X(data, data[i]) * X(data, data[i])
          /\ Days(data)[i] = X(data, data[i])
          /\ r[i] = X(data, data[i]) * (a * data[i].value - (b * X(data, data[i]) + c))
      BY <1>2, <1>3, <1>4, Columns
    <3> QED BY ONLY <1>1, <3>1, i \in 1..Len(data)
  <2> QED BY <1>2, <1>3, <1>4, <2>1, Columns DEF Combines
<1>6. -b \in Int /\ -c \in Int
  OBVIOUS
<1>7. TotalsCombine(r, a, p, -b, q, -c, Days(data))
  <2>1. Days(data) \in Seq(Int)
    BY Columns
  <2> QED BY ONLY a \in Int, p \in Seq(Int), q \in Seq(Int), <1>2, <1>5, <1>6, <2>1, TotalLinear
<1>8. Total(r) = Mix(a, SumXY(data), -b, SumXX(data), -c, SumX(data))
  BY <1>3, <1>4, <1>7, SumsAre DEF TotalsCombine
<1>9. ASSUME NEW x \in Int, NEW y \in Int, NEW z \in Int
      PROVE  Mix(a, y, -b, x, -c, z) = a * y - b * x - c * z
  BY DEF Mix
<1> QED BY <1>8, <1>9, SumTypes DEF r

\* Where the samples share a day, the sums with their days are 0.
LEMMA OneDay ==
    ASSUME NEW data \in Seq(Sample), \A i \in 1..Len(data) : X(data, data[i]) = 0
    PROVE  SumX(data) = 0 /\ SumXY(data) = 0 /\ SumXX(data) = 0
<1>1. SumX(data) = 0
  BY Columns, SumsAre, TotalZero
<1>2. SumXX(data) = 0
  <2>1. PICK q \in Seq(Int) :
           /\ Len(q) = Len(Days(data)) /\ Product(Days(data), Days(data)) = Total(q)
           /\ \A i \in 1..Len(Days(data)) : q[i] = Days(data)[i] * Days(data)[i]
    BY Columns, ProductSeq
  <2>2. \A i \in 1..Len(q) : q[i] = 0
    BY <2>1, Columns, SMTT(30)
  <2>3. Total(q) = 0
    BY <2>2, TotalZero
  <2> QED BY <2>1, <2>3, SumsAre
<1>3. SumXY(data) = 0
  <2>1. PICK q \in Seq(Int) :
           /\ Len(q) = Len(Days(data)) /\ Product(Days(data), Values(data)) = Total(q)
           /\ \A i \in 1..Len(Days(data)) : q[i] = Days(data)[i] * Values(data)[i]
    BY Columns, ProductSeq
  <2>2. \A i \in 1..Len(q) : q[i] = 0
    BY <2>1, Columns, SMTT(30)
  <2>3. Total(q) = 0
    BY <2>2, TotalZero
  <2> QED BY <2>1, <2>3, SumsAre
<1> QED BY <1>1, <1>2, <1>3

\* The normal equations of a line over the sums n, x, y, xy and xx.
Normal(n, x, y, xy, xx, a, b, c) ==
    /\ a \in Int /\ b \in Int /\ c \in Int /\ a > 0
    /\ a * y - b * x - c * n = 0
    /\ a * xy - b * xx - c * x = 0

\* The line of a history that is not empty is the one of least squares.
LEMMA LineIsLeast ==
    ASSUME NEW data \in Seq(Sample), data # <<>>, NEW line,
           line = calculateLinearRegression(data)
    PROVE  /\ line.over \in Int /\ line.slope \in Int /\ line.intercept \in Int /\ line.over > 0
           /\ Total(Residuals(data, line.over, line.slope, line.intercept)) = 0
           /\ Total(Weighted(data, line.over, line.slope, line.intercept)) = 0
<1>1. /\ Len(data) \in Int /\ Len(data) > 0
      /\ SumX(data) \in Int /\ SumY(data) \in Int /\ SumXY(data) \in Int /\ SumXX(data) \in Int
      /\ Denom(data) \in Int /\ Denom(data) >= 0
  <2>1. Len(data) \in Nat /\ Len(data) # 0
    OBVIOUS
  <2> QED BY <2>1, SumTypes, DenomIs
<1> DEFINE These(n, x, y, xy, xx, d, a, b, c) ==
             /\ n = Len(data) /\ x = SumX(data) /\ y = SumY(data) /\ xy = SumXY(data)
             /\ xx = SumXX(data) /\ d = Denom(data)
             /\ a = line.over /\ b = line.slope /\ c = line.intercept
<1>2. ASSUME NEW n \in Int, NEW x \in Int, NEW y \in Int, NEW xy \in Int, NEW xx \in Int,
             NEW d \in Int, NEW a, NEW b, NEW c, These(n, x, y, xy, xx, d, a, b, c)
      PROVE  Normal(n, x, y, xy, xx, a, b, c)
  <2>1. n > 0 /\ d >= 0 /\ d = n * xx - x * x
    BY ONLY <1>1, <1>2 DEF Denom
  <2>2. CASE d = 0
    <3>1. a = n /\ b = 0 /\ c = y
      BY <2>2, <1>2 DEF calculateLinearRegression
    <3>2. x = 0 /\ xy = 0 /\ xx = 0
      BY <2>2, <1>2, DenomIs, OneDay
    <3>3. n * y - 0 * 0 - y * n = 0 /\ n * 0 - 0 * 0 - y * 0 = 0
      OBVIOUS
    <3> QED BY ONLY <2>1, <3>1, <3>2, <3>3, n \in Int, y \in Int DEF Normal
  <2>3. CASE d # 0
    <3> DEFINE rise == n * xy - x * y
    <3>1. rise \in Int
      OBVIOUS
    <3>2. a = n * d /\ b = n * rise /\ c = y * d - rise * x
      BY <2>3, <1>2 DEF calculateLinearRegression
    <3>3. d > 0
      BY ONLY <2>1, <2>3, d \in Int
    <3>4. n * d > 0
      BY ONLY <2>1, <3>3, d \in Int, n \in Int
    <3>5. n * d \in Int /\ n * rise \in Int /\ y * d - rise * x \in Int
      <4> HIDE DEF rise
      <4> QED BY <3>1
    <3>6. (n * d) * y - (n * rise) * x - (y * d - rise * x) * n = 0
      <4> HIDE DEF rise
      <4> QED BY ONLY <3>1, d \in Int, n \in Int, x \in Int, y \in Int
    <3>7. (n * d) * xy - (n * rise) * xx - (y * d - rise * x) * x = 0
      <4>1. ASSUME NEW r \in Int, r = n * xy - x * y
            PROVE  (n * d) * xy - (n * r) * xx - (y * d - r * x) * x = 0
        <5>1. (n * d) * xy - (n * r) * xx - (y * d - r * x) * x
                = d * (n * xy - x * y) - r * (n * xx - x * x)
          OBVIOUS
        <5>2. d * (n * xy - x * y) - r * (n * xx - x * x) = d * r - r * d
          BY ONLY <4>1, <2>1
        <5>3. d * r - r * d = 0
          OBVIOUS
        <5> QED BY ONLY <5>1, <5>2, <5>3
      <4> QED BY ONLY <4>1, <3>1
    <3> QED BY ONLY <3>2, <3>4, <3>5, <3>6, <3>7 DEF Normal
  <2> QED BY ONLY <2>2, <2>3
<1>3. Normal(Len(data), SumX(data), SumY(data), SumXY(data), SumXX(data),
             line.over, line.slope, line.intercept)
  <2>1. These(Len(data), SumX(data), SumY(data), SumXY(data), SumXX(data), Denom(data),
              line.over, line.slope, line.intercept)
    OBVIOUS
  <2> HIDE DEF These
  <2> QED BY ONLY <1>1, <1>2, <2>1
<1>4. Total(Residuals(data, line.over, line.slope, line.intercept))
        = line.over * SumY(data) - line.slope * SumX(data) - line.intercept * Len(data)
  BY <1>3, ResidualsAddUp DEF Normal
<1>5. Total(Weighted(data, line.over, line.slope, line.intercept))
        = line.over * SumXY(data) - line.slope * SumXX(data) - line.intercept * SumX(data)
  BY <1>3, WeightedAddUp DEF Normal
<1> QED BY ONLY <1>3, <1>4, <1>5 DEF Normal

\* The history is one.
HistoryOK == historicalData \in Seq(Sample)

LEMMA LeastSquaresHolds == HistoryOK => LeastSquares
<1> SUFFICES ASSUME HistoryOK, historicalData # <<>>,
                    NEW line, line = calculateLinearRegression(historicalData)
             PROVE  /\ line.over > 0
                    /\ Total(Residuals(historicalData, line.over, line.slope, line.intercept)) = 0
                    /\ Total(Weighted(historicalData, line.over, line.slope, line.intercept)) = 0
  BY DEF LeastSquares, SumOver, Residuals, Weighted
<1> QED BY LineIsLeast DEF HistoryOK

LEMMA CeilExact ==
    ASSUME NEW q \in Int, NEW k \in Int, q > 0
    PROVE  Ceil(q * k, q) = k
<1>1. - (q * k) = q * (-k)
  OBVIOUS
<1>2. (q * (-k)) \div q = -k
  OBVIOUS
<1> QED BY <1>1, <1>2 DEF Ceil

\* Numbers for LineContinued: n samples with the sums x, y, xy and xx lie on the
\* line of growth g through c.
Fitted(n, x, y, xy, xx, g, c, d) ==
    /\ d = n * xx - x * x
    /\ 1 * y - g * x - c * n = 0 /\ 1 * xy - g * xx - c * x = 0

Continues(n, x, y, xy, g, c, d) ==
    n * xy - x * y = g * d /\ y * d - (g * d) * x = (n * d) * c

LEMMA OnTheLine ==
    ASSUME NEW n \in Int, NEW x \in Int, NEW y \in Int, NEW xy \in Int, NEW xx \in Int,
           NEW g \in Int, NEW c \in Int, NEW d \in Int, Fitted(n, x, y, xy, xx, g, c, d)
    PROVE  Continues(n, x, y, xy, g, c, d)
<1> USE DEF Fitted, Continues
<1>1. y = g * x + c * n /\ xy = g * xx + c * x
  <2>1. ASSUME NEW k \in Int, NEW l \in Int, NEW m \in Int, 1 * k - l - m = 0 PROVE k = l + m
    BY <2>1
  <2>2. g * x \in Int /\ c * n \in Int /\ g * xx \in Int /\ c * x \in Int
    OBVIOUS
  <2>3. y = g * x + c * n
    BY ONLY <2>1, <2>2, y \in Int, Fitted(n, x, y, xy, xx, g, c, d)
  <2>4. xy = g * xx + c * x
    BY ONLY <2>1, <2>2, xy \in Int, Fitted(n, x, y, xy, xx, g, c, d)
  <2> QED BY ONLY <2>3, <2>4
<1>2. n * xy - x * y = g * d
  <2>1. n * xy - x * y = n * (g * xx + c * x) - x * (g * x + c * n)
    BY ONLY <1>1
  <2>2. n * (g * xx + c * x) - x * (g * x + c * n) = g * (n * xx - x * x)
    BY ONLY n \in Int, x \in Int, xx \in Int, g \in Int, c \in Int
  <2> QED BY ONLY <2>1, <2>2, Fitted(n, x, y, xy, xx, g, c, d)
<1>3. y * d - (g * d) * x = (n * d) * c
  <2>1. y * d - (g * d) * x = (g * x + c * n) * d - (g * d) * x
    BY ONLY <1>1
  <2>2. (g * x + c * n) * d - (g * d) * x = (n * d) * c
    BY ONLY n \in Int, x \in Int, d \in Int, g \in Int, c \in Int
  <2> QED BY ONLY <2>1, <2>2
<1> QED BY <1>2, <1>3

LEMMA LineContinuedHolds == HistoryOK => LineContinued
<1> SUFFICES ASSUME HistoryOK, NEW g \in 0..6, NEW days \in HorizonDays,
                    NEW data, data = historicalData, NEW last, last = data[Len(data)],
                    \A i \in 1..Len(data) :
                       data[i].value - last.value = g * (data[i].day - last.day),
                    Len(data) >= 2, Denom(data) # 0
             PROVE  PredictCapacity(days).projected = last.value + g * Horizon(days)
  BY DEF LineContinued
<1> DEFINE H == Horizon(days)
           xl == X(data, last)
           c == last.value - g * xl
<1>1. data \in Seq(Sample) /\ data # <<>> /\ Len(data) \in Int
  BY DEF HistoryOK
<1>2. H \in Int /\ H > 0 /\ g \in Int /\ g >= 0
  BY PlannerConstants DEF Horizon
<1>3. /\ 1 \in 1..Len(data) /\ Len(data) \in 1..Len(data)
      /\ last.value \in Int /\ last.day \in Int /\ xl \in Int /\ c \in Int
      /\ data[1].day \in Int /\ xl = last.day - data[1].day
  <2>1. 1 \in 1..Len(data) /\ Len(data) \in 1..Len(data)
    BY <1>1
  <2>2. \A i \in 1..Len(data) : /\ data[i].value \in Nat /\ data[i].day \in Int
                               /\ X(data, data[i]) \in Int
    BY ONLY <1>1, Columns
  <2>3. last.value \in Int /\ last.day \in Int /\ xl \in Int /\ data[1].day \in Int
    BY <2>1, <2>2
  <2>4. ASSUME NEW k \in Int PROVE last.value - g * k \in Int
    BY <1>2, <2>3
  <2> QED BY <2>1, <2>3, <2>4 DEF X
<1>4. ASSUME NEW i \in 1..Len(data)
      PROVE  1 * data[i].value - (g * X(data, data[i]) + c) = 0
  <2>1. /\ data[i].value \in Int /\ data[i].day \in Int
        /\ data[i].value - last.value = g * (data[i].day - last.day)
        /\ X(data, data[i]) = data[i].day - data[1].day
    <3>1. data[i].value \in Nat /\ data[i].day \in Int
      BY ONLY <1>1, Columns, i \in 1..Len(data)
    <3> QED BY <3>1 DEF X
  <2> DEFINE Rises(v, e, v0, e0, h) == v - v0 = h * (e - e0)
             Off(v, e, v0, e0, f, h) == 1 * v - (h * (e - f) + (v0 - h * (e0 - f))) = 0
  <2>2. ASSUME NEW v \in Int, NEW e \in Int, NEW v0 \in Int, NEW e0 \in Int, NEW f \in Int,
               NEW h \in Int, Rises(v, e, v0, e0, h)
        PROVE  Off(v, e, v0, e0, f, h)
    <3>1. h * (e - f) + (v0 - h * (e0 - f)) = v0 + h * (e - e0)
      OBVIOUS
    <3>2. h * (e - e0) \in Int
      OBVIOUS
    <3> QED BY ONLY <3>1, <3>2, v \in Int, v0 \in Int, v - v0 = h * (e - e0)
  <2>3. Rises(data[i].value, data[i].day, last.value, last.day, g)
    BY <2>1
  <2>4. Off(data[i].value, data[i].day, last.value, last.day, data[1].day, g)
    <3> HIDE DEF Rises, Off
    <3> QED BY ONLY <1>2, <1>3, <2>1, <2>2, <2>3
  <2> QED BY <1>3, <2>1, <2>4
<1> HIDE DEF c
<1>5. 1 * SumY(data) - g * SumX(data) - c * Len(data) = 0
  <2>1. ASSUME NEW i \in 1..Len(data) PROVE Residuals(data, 1, g, c)[i] = 0
    BY <1>4 DEF Residuals
  <2>2. Residuals(data, 1, g, c) \in Seq(Int) /\ Len(Residuals(data, 1, g, c)) = Len(data)
    BY <1>1, <1>4 DEF Residuals
  <2>3. Total(Residuals(data, 1, g, c)) = 0
    BY <2>1, <2>2, TotalZero
  <2>4. Total(Residuals(data, 1, g, c)) = 1 * SumY(data) - g * SumX(data) - c * Len(data)
    BY ONLY <1>1, <1>2, <1>3, ResidualsAddUp
  <2> QED BY ONLY <2>3, <2>4
<1>6. 1 * SumXY(data) - g * SumXX(data) - c * SumX(data) = 0
  <2>1. ASSUME NEW i \in 1..Len(data) PROVE Weighted(data, 1, g, c)[i] = 0
    <3>1. X(data, data[i]) \in Int
      BY ONLY <1>1, Columns, i \in 1..Len(data)
    <3>2. X(data, data[i]) * 0 = 0
      BY ONLY <3>1
    <3>3. X(data, data[i]) * (1 * data[i].value - (g * X(data, data[i]) + c)) = 0
      BY ONLY <1>4, <3>2, i \in 1..Len(data)
    <3> QED BY ONLY <3>3, i \in 1..Len(data) DEF Weighted
  <2>2. Weighted(data, 1, g, c) \in Seq(Int) /\ Len(Weighted(data, 1, g, c)) = Len(data)
    <3>1. ASSUME NEW i \in 1..Len(data)
          PROVE  X(data, data[i]) * (1 * data[i].value - (g * X(data, data[i]) + c)) = 0
      <4>1. X(data, data[i]) \in Int
        BY ONLY <1>1, Columns, i \in 1..Len(data)
      <4>2. X(data, data[i]) * 0 = 0
        BY ONLY <4>1
      <4> QED BY ONLY <1>4, <4>2, i \in 1..Len(data)
    <3> QED BY <1>1, <3>1 DEF Weighted
  <2>3. Total(Weighted(data, 1, g, c)) = 0
    BY <2>1, <2>2, TotalZero
  <2>4. Total(Weighted(data, 1, g, c)) = 1 * SumXY(data) - g * SumXX(data) - c * SumX(data)
    BY ONLY <1>1, <1>2, <1>3, WeightedAddUp
  <2> QED BY ONLY <2>3, <2>4
<1> DEFINE n == Len(data)
           d == Denom(data)
           line == calculateLinearRegression(data)
           v == last.value + g * H
<1>7. /\ n \in Int /\ n > 0 /\ d \in Int /\ d > 0
      /\ SumX(data) \in Int /\ SumY(data) \in Int /\ SumXY(data) \in Int /\ SumXX(data) \in Int
  <2>1. d \in Int /\ d >= 0 /\ d # 0
    BY <1>1, DenomIs
  <2> QED BY <1>1, <2>1, SumTypes
<1>8. /\ n * SumXY(data) - SumX(data) * SumY(data) = g * d
      /\ SumY(data) * d - (g * d) * SumX(data) = (n * d) * c
  <2>1. d = n * SumXX(data) - SumX(data) * SumX(data)
    BY DEF Denom
  <2>2. Fitted(n, SumX(data), SumY(data), SumXY(data), SumXX(data), g, c, d)
    BY <1>5, <1>6, <2>1 DEF Fitted
  <2> HIDE DEF n, d
  <2>3. Continues(n, SumX(data), SumY(data), SumXY(data), g, c, d)
    BY ONLY <1>2, <1>3, <1>7, <2>2, OnTheLine
  <2> QED BY <2>3 DEF Continues
<1>9. line.slope = n * (g * d) /\ line.intercept = (n * d) * c /\ line.over = n * d
  BY <1>8 DEF calculateLinearRegression
<1>10. n * d \in Int /\ n * d > 0 /\ v \in Int /\ v >= last.value
  <2>1. ASSUME NEW k \in Int, NEW l \in Int, k > 0, l > 0 PROVE k * l \in Int /\ k * l > 0
    BY <2>1
  <2>2. ASSUME NEW k \in Int, NEW l \in Int, k >= 0, l > 0 PROVE k * l \in Int /\ k * l >= 0
    BY <2>2
  <2>3. g * H \in Int /\ g * H >= 0
    BY ONLY <1>2, <2>2
  <2>4. n * d \in Int /\ n * d > 0
    <3> HIDE DEF n, d
    <3> QED BY ONLY <1>7, <2>1
  <2>5. last.value + g * H \in Int /\ last.value + g * H >= last.value
    <3> HIDE DEF H
    <3> QED BY ONLY <1>3, <2>3
  <2> QED BY ONLY <2>4, <2>5
<1>11. line.slope * (last.day + H - data[1].day) + line.intercept = (n * d) * v
  <2>1. last.day + H - data[1].day = xl + H /\ last.value = g * xl + c
    <3>1. ASSUME NEW k \in Int, NEW l \in Int PROVE k = l + (k - l)
      OBVIOUS
    <3>2. g * xl \in Int
      BY <1>2, <1>3
    <3>3. last.value = g * xl + c
      BY ONLY <1>3, <3>1, <3>2 DEF c
    <3>4. last.day + H - data[1].day = xl + H
      <4> HIDE DEF H
      <4> QED BY ONLY <1>2, <1>3
    <3> QED BY ONLY <3>3, <3>4
  <2> HIDE DEF n, d, H, xl, line
  <2>2. ASSUME NEW n1 \in Int, NEW d1 \in Int, NEW g1 \in Int, NEW x1 \in Int, NEW h1 \in Int,
               NEW c1 \in Int
        PROVE  (n1 * (g1 * d1)) * (x1 + h1) + (n1 * d1) * c1
                 = (n1 * d1) * ((g1 * x1 + c1) + g1 * h1)
    BY ONLY n1 \in Int, d1 \in Int, g1 \in Int, x1 \in Int, h1 \in Int, c1 \in Int, SMTT(30)
  <2>3. (n * (g * d)) * (xl + H) + (n * d) * c = (n * d) * ((g * xl + c) + g * H)
    BY ONLY <1>2, <1>3, <1>7, <2>2, SMTT(40)
  <2> QED BY ONLY <1>9, <2>1, <2>3 DEF v
<1>12. Ceil(last.value, 1) = last.value
  <2>1. 1 * last.value = last.value
    BY ONLY <1>3
  <2>2. Ceil(1 * last.value, 1) = last.value
    <3>1. 1 \in Int /\ 1 > 0 /\ last.value \in Int
      BY ONLY <1>3
    <3> QED BY ONLY <3>1, CeilExact
  <2> QED BY ONLY <2>1, <2>2
<1>13. Ceil((n * d) * v, n * d) = v
  <2> HIDE DEF n, d, v
  <2> QED BY <1>10, CeilExact
<1>14. ~ ((n * d) * v < last.value * (n * d))
  <2>1. ASSUME NEW k \in Int, NEW l \in Int, NEW m \in Int, k > 0, l >= m
        PROVE  ~ (k * l < m * k)
    BY <2>1
  <2> HIDE DEF n, d, v
  <2> QED BY ONLY <1>3, <1>10, <2>1
<1>15. Projection(data, 1, H).projected = v
  <2>1. 1 * line.over = n * d
    BY <1>9, <1>10
  <2>2. Projection(data, 1, H).projected
          = IF line.slope * (last.day + H - data[1].day) + line.intercept
                 < Ceil(last.value, 1) * (1 * line.over)
            THEN Ceil(last.value, 1)
            ELSE Ceil(line.slope * (last.day + H - data[1].day) + line.intercept, 1 * line.over)
    BY DEF Projection
  <2> HIDE DEF n, d, v, H, line
  <2> QED BY ONLY <1>11, <1>12, <1>13, <1>14, <2>1, <2>2
<1>16. PredictCapacity(days) = Projection(data, 1, H)
  BY <1>1 DEF PredictCapacity
<1> QED BY <1>15, <1>16

\* The plan follows the data: the line is the best one through the samples, and
\* the projection stays on it, for every history, whatever the order, the number
\* and the days of its samples (planner.go, calculateLinearRegression,
\* PredictCapacity).
THEOREM PlansAlwaysSound == PlannerSpec => []PlanSound
<1>1. PlannerInit => HistoryOK
  BY DEF PlannerInit, HistoryOK
<1>2. ASSUME HistoryOK, [PlannerNext]_plannerVars PROVE HistoryOK'
  BY <1>2 DEF HistoryOK, PlannerNext, SetHistoricalData, plannerVars
<1>3. HistoryOK => PlanSound
  BY LeastSquaresHolds, LineContinuedHolds DEF PlanSound
<1> QED BY <1>1, <1>2, <1>3, PTL DEF PlannerSpec

-----------------------------------------------------------------------------
(* The deployment controller: what holds of a record depends on how far its  *)
(* goroutine is, so the invariant says, for each value of pc, which records  *)
(* the handlers and the goroutine can leave.                                 *)

\* A record while its goroutine runs: in progress or rolled back by a request;
\* only a canary has traffic before its end.
RunningOK(d) ==
    /\ recs[d].status \in {"in_progress", "rolled_back"}
    /\ run[d].type # "canary" => recs[d].split = 0

\* A record when its goroutine is over.
DoneOK(d) ==
    recs[d] \in {[status |-> "completed", split |-> 100],
                 [status |-> "failed", split |-> 0],
                 [status |-> "rolled_back", split |-> 0]}

\* By pc: what the record is, and that only a rollout that is over, and did not
\* complete, may have failed a check.
OutcomeOK(d) ==
    /\ run[d].pc \in {"new", "lost"} => recs[d] = NoRecord
    /\ run[d].pc \in {"started", "checking"} => RunningOK(d) /\ d \notin breached
    /\ run[d].pc = "done" => DoneOK(d)
    /\ run[d].pc = "new" => d \notin breached
    /\ d \in breached => recs[d].status # "completed"

\* The inductive invariant.
OutcomeInv == DeploymentTypeOK /\ \A d \in Deployment : OutcomeOK(d)

USE DeploymentConstants

\* Initially nothing was deployed.
LEMMA OutcomeInvInit == DeployInit => OutcomeInv
  BY DEF DeployInit, OutcomeInv, OutcomeOK, DeploymentTypeOK, NoRecord, NoRun, Known,
         DeploymentRecord, Type, DeployStatus

\* StartDeployment takes an id that was never used, and makes it active.
LEMMA StartStep ==
    ASSUME OutcomeInv, NEW d \in Deployment, NEW type \in Type,
           NEW weight \in Weights, StartDeployment(d, type, weight)
    PROVE  OutcomeInv'
<1> USE DEF OutcomeInv, StartDeployment
<1>1. DeploymentTypeOK'
  BY DEF DeploymentTypeOK, DeploymentRecord, DeployStatus, Known, NoRecord
<1>2. ASSUME NEW e \in Deployment PROVE OutcomeOK(e)'
  BY DEF DeploymentTypeOK, OutcomeOK, RunningOK, DoneOK, NoRecord
<1> QED BY <1>1, <1>2

\* TriggerRollback writes the one record that every pc but "new" and "lost"
\* allows: the deployment it finds is known.
LEMMA TriggerStep ==
    ASSUME OutcomeInv, NEW id \in Deployment, TriggerRollback(id)
    PROVE  OutcomeInv'
<1> DEFINE d == RollbackTarget(id)
<1>1. d \in Known
  BY DEF OutcomeInv, DeploymentTypeOK, TriggerRollback, RollbackTarget
<1>2. /\ recs' = [recs EXCEPT ![d] = [status |-> "rolled_back", split |-> 0]]
      /\ UNCHANGED <<active, run, breached, restarts>>
  BY DEF TriggerRollback, RolledBack
<1> HIDE DEF d
<1>3. d \in Deployment /\ recs[d].status # "none"
  BY <1>1 DEF Known
<1>4. Known' = Known
  BY <1>1, <1>2, <1>3 DEF Known, OutcomeInv, DeploymentTypeOK
<1>5. DeploymentTypeOK'
  BY <1>2, <1>3, <1>4
  DEF OutcomeInv, DeploymentTypeOK, DeploymentRecord, DeployStatus
<1>6. ASSUME NEW e \in Deployment PROVE OutcomeOK(e)'
  BY <1>2, <1>3
  DEF OutcomeInv, DeploymentTypeOK, OutcomeOK, RunningOK, DoneOK, NoRecord
<1> QED BY <1>5, <1>6 DEF OutcomeInv

\* The goroutine's steps: only a canary's first write and a rollout's last one
\* change its record.
LEMMA RunStep ==
    ASSUME OutcomeInv, NEW d \in Deployment, RunDeployment(d)
    PROVE  OutcomeInv'
<1> USE DEF OutcomeInv
<1>0. recs[d].status # "none" \/ run[d].pc \notin {"started", "checking"}
  BY DEF OutcomeOK, RunningOK
<1>1. ASSUME NEW checks \in 1..MaxChecks, Begin(d, checks) PROVE OutcomeInv'
  <2>1. CanaryWeight(run[d].weight) \in Int
    BY DEF CanaryWeight, DeploymentTypeOK
  <2>2. recs[d] # NoRecord
    BY <1>0, <1>1 DEF Begin, NoRecord
  <2>3. /\ recs' \in [Deployment -> DeploymentRecord]
        /\ \A e \in Deployment : recs'[e].status = recs[e].status
    BY <1>1, <2>1, <2>2
    DEF Begin, DeploymentTypeOK, DeploymentRecord, NoRecord
  <2>4. DeploymentTypeOK'
    <3>1. run[d] \in [pc: {"new", "started", "checking", "done", "lost"},
                      type: Type, weight: Int, left: 0..MaxChecks]
      BY DEF DeploymentTypeOK
    <3>2. Checking(run[d], checks)
            \in [pc: {"new", "started", "checking", "done", "lost"},
                 type: Type, weight: Int, left: 0..MaxChecks]
      BY <3>1 DEF Checking
    <3>3. run' = [run EXCEPT ![d] = Checking(run[d], checks)]
      BY <1>1 DEF Begin
    <3>4. Known' = Known
      BY <2>3 DEF Known
    <3>5. run' \in [Deployment ->
                     [pc: {"new", "started", "checking", "done", "lost"},
                      type: Type, weight: Int, left: 0..MaxChecks]]
      BY <3>2, <3>3 DEF DeploymentTypeOK
    <3> QED BY <1>1, <2>3, <3>4, <3>5 DEF Begin, DeploymentTypeOK
  <2>5. ASSUME NEW e \in Deployment PROVE OutcomeOK(e)'
    BY <1>1, <2>3
    DEF Begin, Checking, DeploymentTypeOK, OutcomeOK, RunningOK, DoneOK, NoRecord
  <2> QED BY <2>4, <2>5
<1>2. CASE CheckPasses(d)
  <2>1. DeploymentTypeOK'
    BY <1>2 DEF CheckPasses, DeploymentTypeOK, Known
  <2>2. ASSUME NEW e \in Deployment PROVE OutcomeOK(e)'
    BY <1>2 DEF CheckPasses, DeploymentTypeOK, OutcomeOK, RunningOK, DoneOK
  <2> QED BY <2>1, <2>2
<1>3. CASE CheckFails(d)
  <2> DEFINE r == IF run[d].type = "rolling" THEN Halted(recs[d])
                  ELSE RolledBack(recs[d])
  <2>1. r \in {[status |-> "failed", split |-> 0],
               [status |-> "rolled_back", split |-> 0]}
    <3>1. RunningOK(d) /\ recs[d] \in [status: DeployStatus, split: Int]
      BY <1>3 DEF CheckFails, OutcomeOK, DeploymentTypeOK, DeploymentRecord,
                  NoRecord, RunningOK
    <3> QED BY <3>1 DEF Halted, RolledBack, RunningOK
  <2>2. /\ recs' = [recs EXCEPT ![d] = r]
        /\ run' = [run EXCEPT ![d].pc = "done"]
        /\ breached' = breached \cup {d}
        /\ UNCHANGED <<active, restarts>>
    BY <1>3 DEF CheckFails
  <2> HIDE DEF r
  <2>3. r \in DeploymentRecord /\ r.status # "none"
    BY <2>1 DEF DeploymentRecord, DeployStatus
  <2>4. recs[d].status # "none"
    BY <1>0, <1>3 DEF CheckFails
  <2>5. Known' = Known
    BY <2>2, <2>3, <2>4 DEF Known, DeploymentTypeOK
  <2>6. DeploymentTypeOK'
    BY <2>2, <2>3, <2>5 DEF DeploymentTypeOK
  <2>7. ASSUME NEW e \in Deployment PROVE OutcomeOK(e)'
    BY <2>1, <2>2 DEF DeploymentTypeOK, OutcomeOK, RunningOK, DoneOK
  <2> QED BY <2>6, <2>7
<1>4. CASE Complete(d)
  <2>1. recs[d].status # "none"
    BY <1>0, <1>4 DEF Complete
  <2>2. Known' = Known
    BY <1>4, <2>1 DEF Complete, Completed, Known, DeploymentTypeOK
  <2>3. DeploymentTypeOK'
    BY <1>4, <2>2
    DEF Complete, Completed, DeploymentTypeOK, DeploymentRecord, DeployStatus
  <2>4. ASSUME NEW e \in Deployment PROVE OutcomeOK(e)'
    BY <1>4 DEF Complete, Completed, DeploymentTypeOK, OutcomeOK, RunningOK, DoneOK
  <2> QED BY <2>3, <2>4
<1> QED BY <1>1, <1>2, <1>3, <1>4 DEF RunDeployment

\* A restart leaves no record.
LEMMA RestartStep == ASSUME OutcomeInv, Restart PROVE OutcomeInv'
<1> USE DEF OutcomeInv, Restart
<1>1. DeploymentTypeOK'
  BY DEF DeploymentTypeOK, DeploymentRecord, NoRecord, Known
<1>2. ASSUME NEW e \in Deployment PROVE OutcomeOK(e)'
  BY DEF DeploymentTypeOK, OutcomeOK, NoRecord
<1> QED BY <1>1, <1>2

\* Every step keeps the invariant.
LEMMA OutcomeInvStep == OutcomeInv /\ [DeployNext]_deployVars => OutcomeInv'
<1> SUFFICES ASSUME OutcomeInv, [DeployNext]_deployVars PROVE OutcomeInv'
  OBVIOUS
<1>1. CASE UNCHANGED deployVars
  BY <1>1 DEF deployVars, OutcomeInv, OutcomeOK, DeploymentTypeOK, RunningOK, DoneOK,
              Known
<1>2. CASE DeployNext
  BY <1>2, StartStep, TriggerStep, RunStep, RestartStep DEF DeployNext
<1> QED BY <1>1, <1>2

\* The invariant holds throughout every execution of the controller.
LEMMA OutcomeInvariant == DeploySpec => []OutcomeInv
  BY OutcomeInvInit, OutcomeInvStep, PTL DEF DeploySpec

\* The types of the controller's state, and that a rollback request finds a
\* deployment whenever there is one.
THEOREM DeploymentTypeCorrect == DeploySpec => []DeploymentTypeOK
  BY OutcomeInvariant, PTL DEF OutcomeInv

\* A deployment that failed a check is never completed: executeRolling halts,
\* executeCanary and executeBlueGreen roll back and return.
THEOREM BreachNeverPromoted == DeploySpec => []BreachNotPromoted
<1>1. OutcomeInv => BreachNotPromoted
  <2> SUFFICES ASSUME OutcomeInv, NEW d \in breached
               PROVE  recs[d].status \notin {"in_progress", "completed"}
    BY DEF BreachNotPromoted
  <2>1. d \in Deployment /\ OutcomeOK(d)
    BY DEF OutcomeInv, DeploymentTypeOK
  <2>2. run[d].pc \in {"done", "lost"}
    BY <2>1 DEF OutcomeInv, OutcomeOK, DeploymentTypeOK
  <2> QED BY <2>1, <2>2 DEF OutcomeOK, DoneOK, NoRecord
<1> QED BY <1>1, OutcomeInvariant, PTL

\* When a rollout's goroutine is over, status and traffic split agree.
THEOREM TrafficSettled == DeploySpec => []TrafficAtRest
<1>1. OutcomeInv => TrafficAtRest
  BY DEF OutcomeInv, OutcomeOK, DoneOK, TrafficAtRest
<1> QED BY <1>1, OutcomeInvariant, PTL
=============================================================================
