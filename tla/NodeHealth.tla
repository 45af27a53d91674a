----------------------------- MODULE NodeHealth -----------------------------
(***************************************************************************)
(* The status of worker nodes: registration and heartbeats                 *)
(* (services/worker-node, metadata-service/grpc), the background sweep of  *)
(* the HealthManager (metadata-service/db), the drain of a node by the     *)
(* deployment controller, and which nodes the scheduler places on.         *)
(*                                                                         *)
(* A sweep reads every node in one query and then decides node by node     *)
(* from what it read, with an UPDATE of its own for each: heartbeats and   *)
(* drains may come between.  Loads are abstracted to whether one of the    *)
(* three percentages is above 90, times to the classes the sweep tells     *)
(* apart: under 15s, 15s to 60s, 60s and more.                             *)
(***************************************************************************)
EXTENDS Naturals, Sequences

CONSTANTS
    Node,           \* the worker nodes
    Drains,         \* whether operators drain nodes
    SelfReports,    \* the values of "healthy" that heartbeats carry
    MaxFaults       \* bound on lost heartbeats, slow sweeps and failing
                    \* registry calls

ASSUME NodeHealthConstants ==
    Drains \in BOOLEAN /\ SelfReports \subseteq BOOLEAN /\ MaxFaults \in Nat

VARIABLES
    status,         \* nodes.status; "absent" before the node registers
    beat,           \* the age of nodes.last_heartbeat: never, fresh, late, old
    recent,         \* heartbeats: was the node hot in each of the last three
    up,             \* nodes whose worker process runs and sends heartbeats
    sweep,          \* what CheckHealth read and has not decided on yet: the age
                    \* of the timestamp it read, which grows as the loop waits
    drain,          \* the progress of DrainNode for each node
    faults          \* how much of MaxFaults is used up

healthVars == <<status, beat, recent, up, sweep, drain, faults>>

\* The rows of the nodes table, which GetNodes lists.
Registered == {n \in Node : status[n] # "absent"}

Fault == faults < MaxFaults /\ faults' = faults + 1

-----------------------------------------------------------------------------
(* The worker process *)

\* RegisterNode: a new row is healthy without a heartbeat; a hostname that is
\* known is AlreadyExists and changes nothing.
RegisterNode(n) ==
    status' = [status EXCEPT ![n] = IF @ = "absent" THEN "healthy" ELSE @]

\* A worker starts and registers, or re-attaches to the row it finds.
Start(n) ==
    /\ n \notin up
    /\ up' = up \cup {n}
    /\ RegisterNode(n)
    /\ UNCHANGED <<beat, recent, sweep, drain, faults>>

\* The worker is killed, or its heartbeats are paused.
Stop(n) ==
    /\ n \in up
    /\ up' = up \ {n}
    /\ UNCHANGED <<status, beat, recent, sweep, drain, faults>>

\* The row of n is renewed: what a sweep has read of it is of an older heartbeat.
ReadBefore(n) ==
    {IF s.id = n THEN [s EXCEPT !.latest = FALSE] ELSE s : s \in sweep}

\* Mutant: a heartbeat of a node in trouble does not renew last_heartbeat.
HeartbeatNotRenewed(n, hot, healthy) ==
    /\ n \in up
    /\ recent' = [recent EXCEPT ![n] =
                    IF Len(@) < 3 THEN Append(@, hot) ELSE Append(Tail(@), hot)]
    /\ beat' = IF status[n] \in {"dead", "unhealthy"} THEN beat
               ELSE [beat EXCEPT ![n] = "fresh"]
    /\ status' = [status EXCEPT ![n] =
                    IF ~ healthy THEN "unhealthy"
                    ELSE IF @ \in {"dead", "unhealthy", "unknown"}
                         THEN "healthy" ELSE @]
    /\ sweep' = ReadBefore(n)
    /\ UNCHANGED <<up, drain, faults>>

\* SendHeartbeat, one transaction.  An unhealthy report overwrites any status;
\* a healthy one revives a dead, unhealthy or unknown node.
Heartbeat(n, hot, healthy) ==
    /\ n \in up
    /\ recent' = [recent EXCEPT ![n] =
                    IF Len(@) < 3 THEN Append(@, hot) ELSE Append(Tail(@), hot)]
    /\ beat' = [beat EXCEPT ![n] = "fresh"]
    /\ status' = [status EXCEPT ![n] =
                    IF ~ healthy THEN "unhealthy"
                    ELSE IF @ \in {"dead", "unhealthy", "unknown"}
                         THEN "healthy" ELSE @]
    /\ sweep' = ReadBefore(n)
    /\ UNCHANGED <<up, drain, faults>>

\* The age of a heartbeat once 15s, or then 60s, have passed.
Aged(age) == IF age = "fresh" THEN "late" ELSE "old"

\* They pass since the last heartbeat, for the row and for what a sweep read of
\* it; of a running worker this means that several of its heartbeats got lost.
Tick(n) ==
    /\ beat[n] \in {"fresh", "late"}
    /\ beat' = [beat EXCEPT ![n] = Aged(@)]
    /\ sweep' = {IF s.id = n /\ (s.latest \/ s.beat = beat[n])
                 THEN [s EXCEPT !.beat = Aged(@)] ELSE s : s \in sweep}
    /\ IF n \in up THEN Fault ELSE UNCHANGED faults
    /\ UNCHANGED <<status, recent, up, drain>>

\* They pass for a heartbeat that a sweep has read and the row no longer has:
\* time.Since is computed when the node's turn comes.
ReadAges(s) ==
    /\ s \in sweep /\ s.beat \in {"fresh", "late"} /\ ~ s.latest
    /\ sweep' = (sweep \ {s}) \cup {[s EXCEPT !.beat = Aged(@)]}
    /\ IF s.id \in up THEN Fault ELSE UNCHANGED faults
    /\ UNCHANGED <<status, beat, recent, up, drain>>

-----------------------------------------------------------------------------
(* HealthManager.CheckHealth *)

\* SELECT id, status, last_heartbeat FROM nodes.
SweepBegin ==
    /\ sweep = {} /\ Registered # {}
    /\ sweep' = {[id |-> n, status |-> status[n], beat |-> beat[n],
                 latest |-> TRUE] : n \in Registered}
    /\ UNCHANGED <<status, beat, recent, up, drain, faults>>

\* checkIfOverloaded, which reads the heartbeats when the node's turn comes.
Overloaded(n) == Len(recent[n]) >= 3 /\ \A i \in 1..Len(recent[n]) : recent[n][i]

\* Mutant: a node already found unhealthy is not looked at again.
TargetStopsEarly(s) ==
    CASE s.beat = "never" -> "unknown"
      [] s.beat = "old" -> IF s.status = "unhealthy" THEN "unhealthy" ELSE "dead"
      [] s.beat = "late" -> "unhealthy"
      [] s.beat = "fresh" -> IF Overloaded(s.id) THEN "overloaded"
                             ELSE "healthy"

\* The classification of a node by what the sweep read of it.
Target(s) ==
    CASE s.beat = "never" -> "unknown"
      [] s.beat = "old" -> "dead"
      [] s.beat = "late" -> "unhealthy"
      [] s.beat = "fresh" -> IF Overloaded(s.id) THEN "overloaded"
                             ELSE "healthy"

\* One turn of the loop: draining nodes are skipped, and the status is written
\* when the target differs from the status that was read.  A failing UPDATE or
\* overload query is logged and the loop goes on.
SweepNode(s) ==
    /\ s \in sweep
    /\ sweep' = sweep \ {s}
    /\ \/ /\ s.status # "draining" /\ s.status # Target(s)
          /\ status' = [status EXCEPT ![s.id] = Target(s)]
          /\ UNCHANGED faults
       \/ /\ s.status = "draining" \/ s.status = Target(s)
          /\ UNCHANGED <<status, faults>>
       \/ Fault /\ UNCHANGED status
    /\ UNCHANGED <<beat, recent, up, drain>>

\* The metadata service restarts in the middle of a sweep.
SweepAbort ==
    /\ sweep # {} /\ Fault
    /\ sweep' = {}
    /\ UNCHANGED <<status, beat, recent, up, drain>>

Sweep == SweepBegin \/ \E s \in sweep : SweepNode(s)

-----------------------------------------------------------------------------
(* Draining and placement *)

\* UpdateNodeStatus, or a call of it that fails.
UpdateNodeStatus(n, s) ==
    \/ status' = [status EXCEPT ![n] = s] /\ UNCHANGED faults
    \/ Fault /\ UNCHANGED status

\* DrainNode: the status becomes "draining", a failure being ignored ...
DrainBegin(n) ==
    /\ Drains /\ n \in Registered /\ drain[n] = "no"
    /\ UpdateNodeStatus(n, "draining")
    /\ drain' = [drain EXCEPT ![n] = "running"]
    /\ UNCHANGED <<beat, recent, up, sweep>>

\* ... then "drained"; no agent is called, since no dialer is configured.
DrainFinish(n) ==
    /\ drain[n] = "running"
    /\ UpdateNodeStatus(n, "drained")
    /\ drain' = [drain EXCEPT ![n] = "done"]
    /\ UNCHANGED <<beat, recent, up, sweep>>

\* ScheduleNode: neither dead nor draining, overloaded ones only if need be;
\* which of the candidates scores best depends on the loads.
Candidates == {n \in Registered : status[n] \notin {"dead", "draining"}}

Schedulable ==
    LET calm == {n \in Candidates : status[n] # "overloaded"}
    IN IF calm # {} THEN calm ELSE Candidates

-----------------------------------------------------------------------------

HealthInit ==
    /\ status = [n \in Node |-> "absent"]
    /\ beat = [n \in Node |-> "never"]
    /\ recent = [n \in Node |-> <<>>]
    /\ up = {}
    /\ sweep = {}
    /\ drain = [n \in Node |-> "no"]
    /\ faults = 0

SomeHeartbeat(n) ==
    \E hot \in BOOLEAN, healthy \in SelfReports : Heartbeat(n, hot, healthy)

HealthNext ==
    \/ \E n \in Node : Start(n) \/ Stop(n) \/ Tick(n) \/ DrainBegin(n)
                       \/ DrainFinish(n) \/ SomeHeartbeat(n)
    \/ Sweep
    \/ \E s \in sweep : ReadAges(s)
    \/ SweepAbort

\* Running workers keep sending heartbeats, the HealthManager's ticker keeps
\* ticking, its queries return, and time passes.
HealthFairness ==
    /\ WF_healthVars(SweepBegin)
    /\ \A n \in Node : WF_healthVars(\E s \in sweep : s.id = n /\ SweepNode(s))
    /\ \A n \in Node : /\ WF_healthVars(SomeHeartbeat(n))
                       /\ WF_healthVars(n \notin up /\ Tick(n))

HealthSpec == HealthInit /\ [][HealthNext]_healthVars

HealthFairSpec == HealthSpec /\ HealthFairness

-----------------------------------------------------------------------------
(* Properties *)

\* A worker that stops for good gets, in the end, no more placements: sweeps
\* that decide on data out of date by then do not hide it for ever.  The
\* exception is a worker that stops before its first heartbeat, which stays
\* "unknown" and a candidate (health_manager.go, CheckHealth; scheduler.go).
Detects ==
    \A n \in Node :
      <>[](n \notin up /\ n \in Registered)
        => <>[](n \notin Schedulable \/ beat[n] = "never")

\* A worker that runs for good is in the end schedulable and stays so, unless
\* a drain has begun (server.go, SendHeartbeat, with CheckHealth).
Recovers ==
    \A n \in Node :
      <>[](n \in up)
        => <>[](status[n] \in {"healthy", "overloaded", "draining"})
=============================================================================
