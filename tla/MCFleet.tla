------------------------------ MODULE MCFleet -------------------------------
(***************************************************************************)
(* What the operators of a fleet rely on: node health, rollouts, failover  *)
(* between regions, autoscaling, the SLA monitor, the capacity planner and *)
(* the life of a service process.  The components share no variable and no *)
(* property is about two of them, so a behaviour moves one of them, which  *)
(* `focus' names, and the state space is the sum of theirs.                *)
(***************************************************************************)
EXTENDS NodeHealth, Deployment, MCFailover, AutoScaler, SlaMonitor,
        CapacityPlanner, Lifecycle

CONSTANTS n1, d1, d2, none

VARIABLE focus

fleetVars == <<focus, healthVars, deployVars, failoverVars, scalerVars, slaVars,
               plannerVars, lifecycleVars>>

FleetInit ==
    /\ HealthInit /\ DeployInit /\ ScalerInit /\ SlaInit /\ PlannerInit
    /\ FailoverInit /\ LifecycleInit
    /\ focus \in {"health", "deploy", "failover", "scaler", "sla", "planner", "lifecycle"}
    /\ focus # "failover" => leader = 1
    /\ focus # "lifecycle" => service = "auth"
    /\ focus # "scaler" => \A i \in NodeNo : fleetLoad[i].cpu = 10 /\ fleetLoad[i].mem = 10

Others(moving) ==
    /\ focus = moving /\ UNCHANGED focus
    /\ moving # "health" => UNCHANGED healthVars
    /\ moving # "deploy" => UNCHANGED deployVars
    /\ moving # "failover" => UNCHANGED failoverVars
    /\ moving # "scaler" => UNCHANGED scalerVars
    /\ moving # "sla" => UNCHANGED slaVars
    /\ moving # "planner" => UNCHANGED plannerVars
    /\ moving # "lifecycle" => UNCHANGED lifecycleVars

FleetNext ==
    \/ Others("health") /\ HealthNext
    \/ Others("deploy") /\ DeployNext
    \/ Others("failover") /\ FailoverNext
    \/ Others("scaler") /\ ScalerNext
    \/ Others("sla") /\ SlaNext
    \/ Others("planner") /\ PlannerNext
    \/ Others("lifecycle") /\ LifecycleNext

\* HealthFairness, DeployFairness and LifecycleFairness, each for the
\* behaviours that move its component: a step of one that stands still is not
\* owed.
FleetFairness ==
    /\ WF_fleetVars(Others("health") /\ SweepBegin)
    /\ \A n \in Node :
         /\ WF_fleetVars(Others("health") /\ \E s \in sweep : s.id = n /\ SweepNode(s))
         /\ WF_fleetVars(Others("health") /\ SomeHeartbeat(n))
         /\ WF_fleetVars(Others("health") /\ n \notin up /\ Tick(n))
    /\ \A d \in Deployment : WF_fleetVars(Others("deploy") /\ RunDeployment(d))
    /\ WF_fleetVars(Others("lifecycle") /\ signalled /\ (StepSucceeds \/ StepFails))
    /\ WF_fleetVars(Others("lifecycle") /\ (StopBegins \/ StopEnds \/ StopTimesOut))
    /\ WF_fleetVars(Others("lifecycle") /\ service \notin Waiting /\ CallEnds("grpc"))

FleetSpec == FleetInit /\ [][FleetNext]_fleetVars /\ FleetFairness
=============================================================================
