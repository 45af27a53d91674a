----------------------------- MODULE AutoScaler -----------------------------
(***************************************************************************)
(* The scheduler's AutoScaler: Evaluate looks at the nodes' loads, as the  *)
(* registry last had them, and decides to add a node, to drain one, or     *)
(* nothing; after a decision it keeps still for the cooldown.  Its callers *)
(* (tests, in this repository) may take any time to act on a decision;     *)
(* meanwhile loads and statuses move.                                      *)
(***************************************************************************)
EXTENDS Integers, Sequences, FiniteSets, SequencesExt

CONSTANTS
    ScaleLoad,         \* CPU and memory percentages a node may report
    ScaleStatus,       \* statuses a node may have
    ScaleNodes,        \* number of nodes
    ScaleOutThresh,
    ScaleInThresh,
    Cooldown,          \* ticks
    MaxDecisions       \* bound: scaling decisions in a behaviour

ASSUME ScalerConstants == ScaleInThresh < ScaleOutThresh /\ Cooldown \in Nat

VARIABLES
    fleetLoad,         \* the status and loads of each node
    sinceScaled,       \* ticks since lastScaledAt, up to the cooldown; -1 never
    decision,          \* the last one: action and target
    decisions,         \* scaling decisions so far
    quiet              \* ticks since the last scaling decision, up to Cooldown

scalerVars == <<fleetLoad, sinceScaled, decision, decisions, quiet>>

NodeNo == 1..ScaleNodes

NoDecision == [action |-> "none", target |-> 0]

ScalerInit ==
    /\ fleetLoad \in [NodeNo -> [status : {"healthy"}, cpu : ScaleLoad, mem : ScaleLoad]]
    /\ sinceScaled = -1
    /\ decision = NoDecision
    /\ decisions = 0
    /\ quiet = Cooldown

Active == {i \in NodeNo : fleetLoad[i].status \notin {"dead", "draining", "drained"}}

\* Sums instead of averages: both sides are taken times the active nodes.
SumActive(f(_)) == FoldSeq(+, 0, [i \in NodeNo |-> IF i \in Active THEN f(i) ELSE 0])

CPU == SumActive(LAMBDA i : fleetLoad[i].cpu)

Mem == SumActive(LAMBDA i : fleetLoad[i].mem)

High == \/ CPU >= ScaleOutThresh * Cardinality(Active)
        \/ Mem >= ScaleOutThresh * Cardinality(Active)

Low == /\ Cardinality(Active) > 1
       /\ CPU <= ScaleInThresh * Cardinality(Active)
       /\ Mem <= ScaleInThresh * Cardinality(Active)

\* The first active node with the least CPU.
ScaleInTarget ==
    CHOOSE i \in Active : \A j \in Active :
        \/ fleetLoad[i].cpu < fleetLoad[j].cpu
        \/ fleetLoad[i].cpu = fleetLoad[j].cpu /\ i <= j

Cooling == sinceScaled # -1 /\ sinceScaled < Cooldown

Decides(action, target) ==
    /\ decision' = [action |-> action, target |-> target]
    /\ decisions' = decisions + 1
    /\ quiet' = 0

\* Mutant: a scale-in does not start a cooldown.
EvaluateNoReset ==
    /\ ~ Cooling /\ Active # {} /\ decisions < MaxDecisions
    /\ \/ High /\ Decides("scale_out", 0) /\ sinceScaled' = 0
       \/ ~ High /\ Low /\ Decides("scale_in", ScaleInTarget) /\ UNCHANGED sinceScaled
    /\ UNCHANGED fleetLoad

\* Evaluate, when it decides to scale; under its lock from start to end.
Evaluate ==
    /\ ~ Cooling /\ Active # {} /\ decisions < MaxDecisions
    /\ sinceScaled' = 0
    /\ \/ High /\ Decides("scale_out", 0)
       \/ ~ High /\ Low /\ Decides("scale_in", ScaleInTarget)
    /\ UNCHANGED fleetLoad

\* Evaluate, when it does not.
EvaluateNone ==
    /\ Cooling \/ Active = {} \/ ~ (High \/ Low)
    /\ decision' = NoDecision
    /\ UNCHANGED <<fleetLoad, sinceScaled, decisions, quiet>>

LoadMoves(i, cpu, mem) ==
    /\ fleetLoad' = [fleetLoad EXCEPT ![i].cpu = cpu, ![i].mem = mem]
    /\ UNCHANGED <<sinceScaled, decision, decisions, quiet>>

StatusMoves(i, s) ==
    /\ fleetLoad' = [fleetLoad EXCEPT ![i].status = s]
    /\ UNCHANGED <<sinceScaled, decision, decisions, quiet>>

\* The caller drains the node it was told to, if it is still there.
DrainTarget ==
    /\ decision.action = "scale_in"
    /\ fleetLoad[decision.target].status = "healthy"
    /\ fleetLoad' = [fleetLoad EXCEPT ![decision.target].status = "draining"]
    /\ decision' = NoDecision
    /\ UNCHANGED <<sinceScaled, decisions, quiet>>

CooldownTick ==
    /\ Cooling \/ quiet < Cooldown
    /\ sinceScaled' = IF Cooling THEN sinceScaled + 1 ELSE sinceScaled
    /\ quiet' = IF quiet < Cooldown THEN quiet + 1 ELSE quiet
    /\ UNCHANGED <<fleetLoad, decision, decisions>>

ScalerNext ==
    \/ Evaluate \/ EvaluateNone \/ DrainTarget \/ CooldownTick
    \/ \E i \in NodeNo, cpu, mem \in ScaleLoad : LoadMoves(i, cpu, mem)
    \/ \E i \in NodeNo, s \in ScaleStatus : StatusMoves(i, s)

ScalerSpec == ScalerInit /\ [][ScalerNext]_scalerVars

-----------------------------------------------------------------------------
(* Properties *)

\* No decision to scale, in or out, comes within the cooldown of another,
\* however callers and loads interleave (lastScaledAt, autoscaler.go:51).
CooldownHolds == [][decisions' # decisions => quiet >= Cooldown]_scalerVars
=============================================================================
