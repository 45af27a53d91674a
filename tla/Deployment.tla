----------------------------- MODULE Deployment -----------------------------
(***************************************************************************)
(* The deployment controller (services/deployment-controller/controller):  *)
(* every StartDeployment leaves a record and starts a goroutine that       *)
(* carries the rollout out (rolling, canary or blue-green) and writes its  *)
(* outcome into the record; TriggerRollback writes the same record from a  *)
(* request handler.  The mutex is held for each write, never across a      *)
(* wait, so handlers and goroutines interleave between their writes.       *)
(*                                                                         *)
(* The health checks and the error rate are inputs: a check passes or it   *)
(* does not.  `left' counts the checks of a rollout that are still to      *)
(* come: nodes of a rolling deployment, samples of a canary's observation  *)
(* window, one verification of a green environment.                        *)
(***************************************************************************)
EXTENDS Integers

CONSTANTS
    Deployment,     \* the deployment ids, each given out once
    NoDeployment,   \* activeDeployment == nil
    Weights,        \* the values of canary_weight that requests carry
    MaxChecks,      \* bound on the nodes and on the samples of one rollout
    MaxRestarts     \* bound on restarts of the controller

ASSUME DeploymentConstants ==
    /\ NoDeployment \notin Deployment
    /\ Weights \subseteq Int
    /\ MaxChecks \in Nat \ {0} /\ MaxRestarts \in Nat

VARIABLES
    recs,           \* deployments: id -> DeploymentRecord
    active,         \* activeDeployment
    run,            \* the goroutine of each deployment
    breached,       \* deployments one of whose checks failed
    restarts        \* how much of MaxRestarts is used up

deployVars == <<recs, active, run, breached, restarts>>

Type == {"rolling", "canary", "blue-green"}

DeployStatus == {"in_progress", "completed", "failed", "rolled_back"}

\* The record of an id not in the map: never given out, or lost in a restart.
NoRecord == [status |-> "none", split |-> 0]

DeploymentRecord == {NoRecord} \cup [status: DeployStatus, split: Int]

NoRun == [pc |-> "new", type |-> "rolling", weight |-> 0, left |-> 0]

Known == {d \in Deployment : recs[d].status # "none"}

\* What a rollout writes when all of its checks have passed.
Completed == [status |-> "completed", split |-> 100]

\* Mutant: the traffic stays where it was.
StatusRolledBack(r) == [r EXCEPT !.status = "rolled_back"]

\* performRollback and TriggerRollback write the same.
RolledBack(r) == [status |-> "rolled_back", split |-> 0]

\* Mutant: the rollout is halted without a status.
HaltedSilently(r) == r

\* A failed check of a rolling deployment leaves the traffic split alone.
Halted(r) == [r EXCEPT !.status = "failed"]

-----------------------------------------------------------------------------
(* Requests *)

\* StartDeployment, and what runDeployment reads of the record; a deployment
\* may start while others are still in progress.
StartDeployment(d, type, weight) ==
    /\ run[d].pc = "new"
    /\ recs' = [recs EXCEPT ![d] = [status |-> "in_progress", split |-> 0]]
    /\ active' = d
    /\ run' = [run EXCEPT ![d] = [pc |-> "started", type |-> type,
                                  weight |-> weight, left |-> 0]]
    /\ UNCHANGED <<breached, restarts>>

\* An id the map does not hold falls back to the active deployment.
RollbackTarget(id) == IF id \in Known THEN id ELSE active

\* TriggerRollback, whatever the state of the deployment; an error when there
\* is none at all.  The goroutine is not told.
TriggerRollback(id) ==
    LET d == RollbackTarget(id) IN
    /\ d # NoDeployment
    /\ recs' = [recs EXCEPT ![d] = RolledBack(recs[d])]
    /\ UNCHANGED <<active, run, breached, restarts>>

-----------------------------------------------------------------------------
(* The goroutine of a deployment *)

\* A weight that is not positive stands for 10; there is no upper bound.
CanaryWeight(weight) == IF weight <= 0 THEN 10 ELSE weight

Checking(g, checks) ==
    [pc |-> "checking", type |-> g.type, weight |-> g.weight, left |-> checks]

\* executeRolling gets the list of nodes (never empty), executeCanary sets the
\* initial split without a look at the status, executeBlueGreen has one check.
Begin(d, checks) ==
    /\ run[d].pc = "started"
    /\ run[d].type = "blue-green" => checks = 1
    /\ run' = [run EXCEPT ![d] = Checking(run[d], checks)]
    /\ recs' = IF run[d].type = "canary"
               THEN [recs EXCEPT ![d].split = CanaryWeight(run[d].weight)]
               ELSE recs
    /\ UNCHANGED <<active, breached, restarts>>

\* The next node, sample or environment is healthy.
CheckPasses(d) ==
    /\ run[d].pc = "checking" /\ run[d].left > 0
    /\ run' = [run EXCEPT ![d].left = @ - 1]
    /\ UNCHANGED <<recs, active, breached, restarts>>

\* Mutant: the observation loop goes on after the automatic rollback.
CheckFailsAndGoesOn(d) ==
    /\ run[d].pc = "checking" /\ run[d].left > 0
    /\ run' = [run EXCEPT ![d].left = @ - 1]
    /\ breached' = breached \cup {d}
    /\ recs' = [recs EXCEPT ![d] = IF run[d].type = "rolling" THEN Halted(@)
                                   ELSE RolledBack(@)]
    /\ UNCHANGED <<active, restarts>>

\* A check fails: a rolling deployment halts, the others roll back.
CheckFails(d) ==
    /\ run[d].pc = "checking" /\ run[d].left > 0
    /\ run' = [run EXCEPT ![d].pc = "done"]
    /\ breached' = breached \cup {d}
    /\ recs' = [recs EXCEPT ![d] = IF run[d].type = "rolling" THEN Halted(@)
                                   ELSE RolledBack(@)]
    /\ UNCHANGED <<active, restarts>>

\* Every node is updated, the window is over, or green is healthy: all traffic
\* goes to the new version, without a look at the status.
Complete(d) ==
    /\ run[d].pc = "checking" /\ run[d].left = 0
    /\ run' = [run EXCEPT ![d].pc = "done"]
    /\ recs' = [recs EXCEPT ![d] = Completed]
    /\ UNCHANGED <<active, breached, restarts>>

RunDeployment(d) ==
    \/ \E checks \in 1..MaxChecks : Begin(d, checks)
    \/ CheckPasses(d) \/ CheckFails(d) \/ Complete(d)

\* The process is restarted: records and goroutines are only in memory.
Restart ==
    /\ restarts < MaxRestarts /\ restarts' = restarts + 1
    /\ recs' = [d \in Deployment |-> NoRecord]
    /\ active' = NoDeployment
    /\ run' = [d \in Deployment |->
                 IF run[d].pc = "new" THEN run[d] ELSE [run[d] EXCEPT !.pc = "lost"]]
    /\ UNCHANGED breached

-----------------------------------------------------------------------------

DeployInit ==
    /\ recs = [d \in Deployment |-> NoRecord]
    /\ active = NoDeployment
    /\ run = [d \in Deployment |-> NoRun]
    /\ breached = {}
    /\ restarts = 0

DeployNext ==
    \/ \E d \in Deployment, type \in Type, weight \in Weights :
          StartDeployment(d, type, weight)
    \/ \E id \in Deployment : TriggerRollback(id)
    \/ \E d \in Deployment : RunDeployment(d)
    \/ Restart

DeploySpec == DeployInit /\ [][DeployNext]_deployVars

\* Go runs every goroutine that is ready, and no step of a rollout waits for
\* anything but a timer: the deployed main gives the controller no metadata
\* client, whose GetNodes (controller.go:142) would be called without a deadline.
DeployFairness == \A d \in Deployment : WF_deployVars(RunDeployment(d))

DeployFairSpec == DeploySpec /\ DeployFairness

-----------------------------------------------------------------------------
(* Properties *)

\* The types, and that active is a known deployment whenever one is known.
DeploymentTypeOK ==
    /\ recs \in [Deployment -> DeploymentRecord]
    /\ active \in Known \cup {NoDeployment}
    /\ active = NoDeployment => Known = {}
    /\ run \in [Deployment -> [pc: {"new", "started", "checking", "done", "lost"},
                               type: Type, weight: Int,
                               left: 0..MaxChecks]]
    /\ breached \subseteq Deployment
    /\ restarts \in 0..MaxRestarts

\* "traffic never fully shifts to the broken version" (ai-docs/PHASE_7.md:194):
\* a deployment one of whose checks failed is never completed, whatever
\* requests, restarts and other deployments do around it (controller.go,
\* executeRolling, executeCanary, executeBlueGreen).
BreachNotPromoted ==
    \A d \in breached : recs[d].status \notin {"in_progress", "completed"}

\* Once the goroutine of a deployment is over, its status and its traffic agree:
\* all of the traffic when completed, none when failed or rolled back, by
\* whichever mix of handler and goroutine the record was last written
\* (controller.go, performRollback, TriggerRollback, the execute functions).
TrafficAtRest ==
    \A d \in Deployment : run[d].pc = "done" =>
        recs[d] \in {[status |-> "completed", split |-> 100],
                     [status |-> "failed", split |-> 0],
                     [status |-> "rolled_back", split |-> 0]}

\* Every deployment that is in progress comes to an end (controller.go,
\* runDeployment).
Ends ==
    \A d \in Deployment :
        recs[d].status = "in_progress" ~> recs[d].status # "in_progress"
=============================================================================
