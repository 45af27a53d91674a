---------------------------- MODULE Provisioning ----------------------------
(***************************************************************************)
(* The provisioning of databases by the control plane                      *)
(* (services/control-plane) over the registry of the metadata service     *)
(* (services/metadata-service) and the worker agents                       *)
(* (services/worker-node).                                                 *)
(*                                                                         *)
(* A request inserts a registry row and starts a goroutine that runs       *)
(* Orchestrator.ProvisionDatabase (a provisioner); the Reconciler starts   *)
(* more of them for rows that look stuck; DELETE runs beside both.  Every  *)
(* remote call is a step of its own, so that any two of these actors may   *)
(* interleave between calls.  A node is its own endpoint: the endpoint of  *)
(* a database is the name of the host that created it.                     *)
(***************************************************************************)
EXTENDS Naturals, FiniteSets

CONSTANTS
    DB,             \* the database ids gen_random_uuid() will hand out
    Node,           \* the registered worker nodes
    NoNode,         \* the empty node id and the empty endpoint
    Name,           \* the names clients choose; not unique in the registry
    NameOf,         \* the name a request gave each database
    Bad,            \* nodes whose agent refuses every CreateDatabase
    Outable,        \* nodes that may turn dead or draining, and back
    Worker,         \* slots for the ProvisionDatabase goroutines
    Deleter,        \* slots for the DELETE handlers of the control plane
    MaxAttempts,    \* the code's maxAttempts, 3
    Requests,       \* the client requests that happen
    AgentsForget,   \* whether agents restart or drain, losing their databases
    MaxFaults,      \* bound on failing calls, timeouts, crashes, restarts and
                    \* calls without a deadline that never return
    MaxSlow         \* how often a row ages past 30s under a live provisioner

RequestKind == {"create", "gatewayCreate", "delete", "gatewayDelete"}

ASSUME ProvisioningConstants ==
    /\ IsFiniteSet(Node) /\ NoNode \notin Node
    /\ NameOf \in [DB -> Name]
    /\ Bad \subseteq Node /\ Outable \subseteq Node
    /\ MaxAttempts \in Nat \ {0}
    /\ Requests \subseteq RequestKind
    /\ AgentsForget \in BOOLEAN
    /\ MaxFaults \in Nat /\ MaxSlow \in Nat

VARIABLES
    rows,           \* databases table: a row for each id
    replicas,       \* replicas table: the leader nodes of each database
    hosted,         \* dbsByID/dbsByName of each worker agent
    dropped,        \* history: what agents dropped and did not create again
    late,           \* CreateDatabase calls given up on, perhaps still running
    out,            \* nodes listed as dead or draining
    workers,        \* the running ProvisionDatabase calls
    recon,          \* what the reconciler's sweep has still to dispatch
    deleters,       \* the running DELETE handlers
    faults, slow    \* how much of MaxFaults and MaxSlow is used up

registry == <<rows, replicas>>
agents == <<hosted, dropped>>
vars == <<rows, replicas, hosted, dropped, late, out, workers, recon, deleters,
          faults, slow>>

-----------------------------------------------------------------------------
(* The registry *)

\* "none": the id is not used yet.  "gone": the row was deleted.
Status == {"none", "provisioning", "active", "failed", "deleting", "gone"}

\* A row of the databases table; stale: updated_at is over 30s old.
Row == [status: Status, node: Node \cup {NoNode}, endpoint: Node \cup {NoNode},
        attempts: 0..MaxAttempts, stale: BOOLEAN]

Absent(status) == [status |-> status, node |-> NoNode, endpoint |-> NoNode,
                   attempts |-> 0, stale |-> FALSE]

Exists(d) == rows[d].status \notin {"none", "gone"}

\* CreateDatabaseRecord, as both callers use it: no node, attempts = 1.
CreateDatabaseRecord(d) ==
    /\ rows[d].status = "none"
    /\ rows' = [rows EXCEPT ![d] =
                  [status |-> "provisioning", node |-> NoNode,
                   endpoint |-> NoNode, attempts |-> 1, stale |-> FALSE]]
    /\ UNCHANGED replicas

\* Mutant: an empty endpoint leaves the stored one alone, like an empty node.
UpdateKeepsEndpoint(d, status, node, endpoint, attempts) ==
    IF Exists(d)
    THEN /\ rows' = [rows EXCEPT ![d] =
                       [status |-> status,
                        node |-> IF node = NoNode THEN @.node ELSE node,
                        endpoint |-> IF endpoint = NoNode THEN @.endpoint
                                     ELSE endpoint,
                        attempts |-> attempts, stale |-> FALSE]]
         /\ replicas' = IF node = NoNode THEN replicas
                        ELSE [replicas EXCEPT ![d] = {node}]
    ELSE UNCHANGED registry

\* Mutant: an update that inserts the row when there is none.
UpdateUpserts(d, status, node, endpoint, attempts) ==
    /\ rows' = [rows EXCEPT ![d] =
                  [status |-> status,
                   node |-> IF node = NoNode THEN @.node ELSE node,
                   endpoint |-> endpoint, attempts |-> attempts,
                   stale |-> FALSE]]
    /\ replicas' = IF node = NoNode THEN replicas
                   ELSE [replicas EXCEPT ![d] = {node}]

\* UpdateDatabaseStatus: one transaction.  An empty node id leaves node_id and
\* the replicas alone; the endpoint is overwritten whatever it is; an id
\* without a row is NotFound and changes nothing.
UpdateDatabaseStatus(d, status, node, endpoint, attempts) ==
    IF Exists(d)
    THEN /\ rows' = [rows EXCEPT ![d] =
                       [status |-> status,
                        node |-> IF node = NoNode THEN @.node ELSE node,
                        endpoint |-> endpoint, attempts |-> attempts,
                        stale |-> FALSE]]
         /\ replicas' = IF node = NoNode THEN replicas
                        ELSE [replicas EXCEPT ![d] = {node}]
    ELSE UNCHANGED registry

\* DeleteDatabaseRecord: the replicas and the row, in one transaction.
DeleteDatabaseRecord(d) ==
    IF Exists(d)
    THEN /\ rows' = [rows EXCEPT ![d] = Absent("gone")]
         /\ replicas' = [replicas EXCEPT ![d] = {}]
    ELSE UNCHANGED registry

\* A call that fails, times out or never returns, of a bounded number.
Fault == faults < MaxFaults /\ faults' = faults + 1

NoFault == UNCHANGED faults

\* 30s pass without an update of the row.  While a provisioner works on it
\* this means that the provisioner is slow, which MaxSlow bounds.
Age(d) ==
    /\ rows[d].status = "provisioning" /\ ~ rows[d].stale
    /\ \/ (\A w \in Worker : workers[w].db # d) /\ UNCHANGED slow
       \/ (\E w \in Worker : workers[w].db = d)
          /\ slow < MaxSlow /\ slow' = slow + 1
    /\ rows' = [rows EXCEPT ![d].stale = TRUE]
    /\ UNCHANGED <<replicas, agents, late, out, workers, recon, deleters,
                   faults>>

-----------------------------------------------------------------------------
(* ProvisionDatabase: one goroutine per slot *)

NoDb == "nodb"

Idle == [pc |-> "idle", db |-> NoDb, attempts |-> 0, tried |-> {},
         node |-> NoNode]

Started(d) == [pc |-> "schedule", db |-> d, attempts |-> 1, tried |-> {},
               node |-> NoNode]

\* The next turn of the attempts loop, or its end.
NextAttempt(wk) ==
    IF wk.attempts < MaxAttempts
    THEN [wk EXCEPT !.pc = "schedule", !.node = NoNode,
                    !.attempts = wk.attempts + 1]
    ELSE [wk EXCEPT !.pc = "fail", !.node = NoNode]

Step(w, wk) == workers' = [workers EXCEPT ![w] = wk]

ElseUnchanged == UNCHANGED <<out, recon, deleters, slow>>

\* The scheduler's choice: any node that is neither dead nor draining.
Schedule(w) ==
    /\ workers[w].pc = "schedule"
    /\ \E n \in Node \ out :
         Step(w, [workers[w] EXCEPT !.pc = "choose", !.node = n])
    /\ NoFault
    /\ UNCHANGED <<registry, agents, late>> /\ ElseUnchanged

\* The scheduler fails, or has no node to offer: the attempt is used up.
ScheduleFails(w) ==
    /\ workers[w].pc = "schedule"
    /\ Step(w, NextAttempt(workers[w]))
    /\ \/ Node \ out = {} /\ NoFault
       \/ Fault
    /\ UNCHANGED <<registry, agents, late>> /\ ElseUnchanged

\* The listed nodes a provisioner turns to after failing on its first choice.
Alternates(wk) == Node \ (wk.tried \cup out)

\* Mutant: the scheduler's choice is taken as it is.
ChooseAsScheduled(w) ==
    /\ workers[w].pc = "choose"
    /\ Step(w, [workers[w] EXCEPT !.pc = "claim"])
    /\ NoFault
    /\ UNCHANGED <<registry, agents, late>> /\ ElseUnchanged

\* GetNodes; a node that failed already gives way to an eligible untried one.
Choose(w) ==
    /\ workers[w].pc = "choose"
    /\ LET wk == workers[w]
           candidates == IF wk.node \in wk.tried /\ Alternates(wk) # {}
                         THEN Alternates(wk) ELSE {wk.node}
       IN \E n \in candidates :
            Step(w, [wk EXCEPT !.pc = "claim", !.node = n])
    /\ NoFault
    /\ UNCHANGED <<registry, agents, late>> /\ ElseUnchanged

\* GetNodes fails, or does not list the chosen node.
ChooseFails(w) ==
    /\ workers[w].pc = "choose"
    /\ Step(w, NextAttempt(workers[w]))
    /\ Fault
    /\ UNCHANGED <<registry, agents, late>> /\ ElseUnchanged

\* The choice is recorded; a failing update is logged and ignored.
Claim(w) ==
    LET wk == workers[w] IN
    /\ wk.pc = "claim"
    /\ \/ UpdateDatabaseStatus(wk.db, "provisioning", wk.node, NoNode,
                               wk.attempts)
          /\ NoFault
       \/ Fault /\ UNCHANGED registry
    /\ Step(w, [wk EXCEPT !.pc = "create"])
    /\ UNCHANGED <<agents, late>> /\ ElseUnchanged

\* The agent's answer to CreateDatabase: an error when it is told to fail, or
\* when another database of the name is there; a known id is created again.
Refuses(n, d) ==
    \/ n \in Bad
    \/ \E e \in hosted[n] \ {d} : NameOf[e] = NameOf[d]

Hosts(n, d) ==
    /\ hosted' = [hosted EXCEPT ![n] = @ \cup {d}]
    /\ dropped' = dropped \ {<<d, n>>}

\* An agent loses the databases D: told to, or in a restart.
Drops(n, D) ==
    /\ hosted' = [hosted EXCEPT ![n] = @ \ D]
    /\ dropped' = dropped \cup ((hosted[n] \cap D) \X {n})

CreateOk(w) ==
    LET wk == workers[w] IN
    /\ wk.pc = "create"
    /\ ~ Refuses(wk.node, wk.db)
    /\ Hosts(wk.node, wk.db)
    /\ Step(w, [wk EXCEPT !.pc = "activate"])
    /\ NoFault
    /\ UNCHANGED <<registry, late>> /\ ElseUnchanged

\* Mutant: an answer with success = false is taken for a success.
CreateRefusalIgnored(w) ==
    LET wk == workers[w] IN
    /\ wk.pc = "create"
    /\ Refuses(wk.node, wk.db)
    /\ Step(w, [wk EXCEPT !.pc = "activate"])
    /\ NoFault
    /\ UNCHANGED <<registry, agents, late>> /\ ElseUnchanged

CreateRefused(w) ==
    LET wk == workers[w] IN
    /\ wk.pc = "create"
    /\ Refuses(wk.node, wk.db)
    /\ Step(w, NextAttempt([wk EXCEPT !.tried = @ \cup {wk.node}]))
    /\ NoFault
    /\ UNCHANGED <<registry, agents, late>> /\ ElseUnchanged

\* 10s without an answer: the agent may still be about to do the work.
CreateTimesOut(w) ==
    LET wk == workers[w] IN
    /\ wk.pc = "create"
    /\ Fault
    /\ late' = late \cup {<<wk.db, wk.node>>}
    /\ Step(w, NextAttempt([wk EXCEPT !.tried = @ \cup {wk.node}]))
    /\ UNCHANGED <<registry, agents>> /\ ElseUnchanged

\* The dial fails: the attempt is used up, the node not marked as tried.
DialFails(w) ==
    /\ workers[w].pc = "create"
    /\ Fault
    /\ Step(w, NextAttempt(workers[w]))
    /\ UNCHANGED <<registry, agents, late>> /\ ElseUnchanged

\* Success is recorded with the endpoint; a failing update is only logged.
Activate(w) ==
    LET wk == workers[w] IN
    /\ wk.pc = "activate"
    /\ \/ UpdateDatabaseStatus(wk.db, "active", wk.node, wk.node, wk.attempts)
          /\ NoFault
       \/ Fault /\ UNCHANGED registry
    /\ Step(w, Idle)
    /\ UNCHANGED <<agents, late>> /\ ElseUnchanged

\* All attempts are used up; the row keeps the last node.
Fail(w) ==
    LET wk == workers[w] IN
    /\ wk.pc = "fail"
    /\ \/ UpdateDatabaseStatus(wk.db, "failed", NoNode, NoNode, wk.attempts)
          /\ NoFault
       \/ Fault /\ UNCHANGED registry
    /\ Step(w, Idle)
    /\ UNCHANGED <<agents, late>> /\ ElseUnchanged

ProvisionDatabase(w) ==
    \/ Schedule(w) \/ ScheduleFails(w)
    \/ Choose(w) \/ ChooseFails(w)
    \/ Claim(w)
    \/ CreateOk(w) \/ CreateRefused(w) \/ CreateTimesOut(w) \/ DialFails(w)
    \/ Activate(w) \/ Fail(w)

\* Schedule, GetNodes and UpdateDatabaseStatus are called without a deadline:
\* one that never returns, done or not, is the end of the goroutine.  (At
\* "activate" and "fail" no step follows the call: Activate and Fail say it.)
ProvisionHangs(w) ==
    LET wk == workers[w] IN
    /\ wk.pc \in {"schedule", "choose", "claim"}
    /\ Fault
    /\ \/ UNCHANGED registry
       \/ wk.pc = "claim"
          /\ UpdateDatabaseStatus(wk.db, "provisioning", wk.node, NoNode,
                                  wk.attempts)
    /\ Step(w, Idle)
    /\ UNCHANGED <<agents, late>> /\ ElseUnchanged

\* A CreateDatabase call the caller gave up on: done after all, or never.
LateCreate ==
    \E call \in late :
      LET d == call[1]
          n == call[2]
      IN /\ late' = late \ {call}
         /\ \/ ~ Refuses(n, d) /\ Hosts(n, d)
            \/ UNCHANGED agents
         /\ UNCHANGED <<registry, out, workers, recon, deleters, faults, slow>>

-----------------------------------------------------------------------------
(* Requests *)

\* POST /v1/databases at the control plane: the row and its provisioner.
CreateDatabase(d, w) ==
    /\ "create" \in Requests
    /\ workers[w].pc = "idle"
    /\ CreateDatabaseRecord(d)
    /\ Step(w, Started(d))
    /\ UNCHANGED <<agents, late, faults>> /\ ElseUnchanged

\* POST /v1/databases at the gateway: the row only.
GatewayCreateDatabase(d) ==
    /\ "gatewayCreate" \in Requests
    /\ CreateDatabaseRecord(d)
    /\ UNCHANGED <<agents, late, workers, faults>> /\ ElseUnchanged

\* DELETE /v1/databases/{id} at the gateway: the row only.
GatewayDeleteDatabase(d) ==
    /\ "gatewayDelete" \in Requests
    /\ Exists(d)
    /\ DeleteDatabaseRecord(d)
    /\ UNCHANGED <<agents, late, workers, faults>> /\ ElseUnchanged

NotDeleting == [pc |-> "idle", db |-> NoDb, node |-> NoNode]

DeleterStep(t, dl) == deleters' = [deleters EXCEPT ![t] = dl]

\* DELETE /v1/databases/{id} at the control plane: the row is read ...
DeleteDatabase(t, d) ==
    /\ "delete" \in Requests
    /\ deleters[t].pc = "idle"
    /\ Exists(d)
    /\ DeleterStep(t, [pc |-> "mark", db |-> d, node |-> rows[d].node])
    /\ UNCHANGED <<registry, agents, late, out, workers, recon, faults, slow>>

\* ... marked as deleting, a failure being ignored ...
DeleteMark(t) ==
    /\ deleters[t].pc = "mark"
    /\ \/ UpdateDatabaseStatus(deleters[t].db, "deleting", NoNode, NoNode, 0)
          /\ NoFault
       \/ Fault /\ UNCHANGED registry
    /\ DeleterStep(t, [deleters[t] EXCEPT !.pc = "agent"])
    /\ UNCHANGED <<agents, late, out, workers, recon, slow>>

\* Mutant: without a node the handler returns before it removes the record.
DeleteReturnsEarly(t) ==
    LET dl == deleters[t] IN
    /\ dl.pc = "agent"
    /\ \/ dl.node # NoNode /\ NoFault
          /\ Drops(dl.node, {dl.db})
          /\ DeleterStep(t, [dl EXCEPT !.pc = "record"])
       \/ dl.node = NoNode /\ NoFault /\ UNCHANGED agents
          /\ DeleterStep(t, NotDeleting)
    /\ UNCHANGED <<registry, late, out, workers, recon, slow>>

\* ... dropped by the agent of the node that was read, a failure ignored ...
DeleteAtAgent(t) ==
    LET dl == deleters[t] IN
    /\ dl.pc = "agent"
    /\ \/ dl.node # NoNode /\ NoFault
          /\ Drops(dl.node, {dl.db})
       \/ dl.node = NoNode /\ NoFault /\ UNCHANGED agents
       \/ dl.node # NoNode /\ Fault /\ UNCHANGED agents
    /\ DeleterStep(t, [dl EXCEPT !.pc = "record"])
    /\ UNCHANGED <<registry, late, out, workers, recon, slow>>

\* ... and removed from the registry.
DeleteRecord(t) ==
    /\ deleters[t].pc = "record"
    /\ \/ DeleteDatabaseRecord(deleters[t].db) /\ NoFault
       \/ Fault /\ UNCHANGED registry
    /\ DeleterStep(t, NotDeleting)
    /\ UNCHANGED <<agents, late, out, workers, recon, slow>>

\* The calls of the handler and its goroutine to the metadata service have no
\* deadline: the deletion ends where one of them never returns, done or not.
DeleteHangs(t) ==
    /\ deleters[t].pc \in {"mark", "agent"}
    /\ Fault
    /\ \/ UNCHANGED registry
       \/ deleters[t].pc = "mark"
          /\ UpdateDatabaseStatus(deleters[t].db, "deleting", NoNode, NoNode, 0)
    /\ DeleterStep(t, NotDeleting)
    /\ UNCHANGED <<agents, late, out, workers, recon, slow>>

DeleteSteps(t) == DeleteMark(t) \/ DeleteAtAgent(t) \/ DeleteRecord(t)

-----------------------------------------------------------------------------
(* The reconciler *)

\* What is left of a sweep whose call never returns: there is one reconciler,
\* and it waits for the sweep to end.
Halted == [db |-> NoDb, attempts |-> 0]

\* Mutant: only rows that never got a node are resumed.
DueUnplaced(d) == rows[d].status = "provisioning" /\ rows[d].node = NoNode

\* Rows a sweep dispatches: without a node yet, or not updated for 30s.
Due(d) == /\ rows[d].status = "provisioning"
          /\ rows[d].node = NoNode \/ rows[d].stale

\* Reconcile lists the databases once; a sweep that finds nothing due changes
\* nothing.  The loop then works from this list.
ReconcileList ==
    /\ recon = {}
    /\ {d \in DB : Due(d)} # {}
    /\ recon' = {[db |-> d, attempts |-> rows[d].attempts] :
                   d \in {e \in DB : Due(e)}}
    /\ UNCHANGED <<registry, agents, late, out, workers, deleters, faults,
                   slow>>

\* The row is touched, whatever it holds by now, and a provisioner started; a
\* touch that fails, or finds no row, skips the database.
ReconcileDispatch(e, w) ==
    /\ e \in recon \ {Halted}
    /\ workers[w].pc = "idle"
    /\ recon' = recon \ {e}
    /\ \/ /\ UpdateDatabaseStatus(e.db, "provisioning", NoNode, NoNode,
                                  e.attempts)
          /\ IF Exists(e.db) THEN Step(w, Started(e.db))
                             ELSE UNCHANGED workers
          /\ NoFault
       \/ /\ Fault
          /\ UNCHANGED workers
          /\ \/ UNCHANGED registry
             \/ UpdateDatabaseStatus(e.db, "provisioning", NoNode, NoNode,
                                     e.attempts)
    /\ UNCHANGED <<agents, late, out, deleters, slow>>

\* ListDatabases and the touch of a row are called without a deadline too: when
\* one never returns, done or not, no sweep follows until a restart.
ReconcileHangs ==
    /\ Halted \notin recon
    /\ Fault
    /\ \/ UNCHANGED registry
       \/ \E e \in recon : UpdateDatabaseStatus(e.db, "provisioning", NoNode,
                                               NoNode, e.attempts)
    /\ recon' = {Halted}
    /\ UNCHANGED <<agents, late, out, workers, deleters, slow>>

Reconcile ==
    \/ ReconcileList
    \/ \E e \in recon, w \in Worker : ReconcileDispatch(e, w)

\* A call without a deadline never returns.
Hangs ==
    \/ \E w \in Worker : ProvisionHangs(w)
    \/ \E t \in Deleter : DeleteHangs(t)
    \/ ReconcileHangs

-----------------------------------------------------------------------------
(* Crashes, and what the rest of the cluster does *)

\* The control plane dies and restarts: its goroutines are gone.
ControlPlaneCrash ==
    /\ Fault
    /\ workers' = [w \in Worker |-> Idle]
    /\ deleters' = [t \in Deleter |-> NotDeleting]
    /\ recon' = {}
    /\ UNCHANGED <<registry, agents, late, out, slow>>

\* A worker agent restarts, or drains: its maps are empty afterwards.
AgentForgets(n) ==
    /\ AgentsForget /\ Fault
    /\ Drops(n, DB)
    /\ UNCHANGED <<registry, late, out, workers, recon, deleters, slow>>

\* The health manager or an operator changes a node's status.
NodeStatusChanges(n) ==
    /\ n \in Outable
    /\ out' = IF n \in out THEN out \ {n} ELSE out \cup {n}
    /\ UNCHANGED <<registry, agents, late, workers, recon, deleters, faults,
                   slow>>

-----------------------------------------------------------------------------

Init ==
    /\ rows = [d \in DB |-> Absent("none")]
    /\ replicas = [d \in DB |-> {}]
    /\ hosted = [n \in Node |-> {}]
    /\ dropped = {}
    /\ late = {}
    /\ out = {}
    /\ workers = [w \in Worker |-> Idle]
    /\ recon = {}
    /\ deleters = [t \in Deleter |-> NotDeleting]
    /\ faults = 0 /\ slow = 0

Next ==
    \/ \E d \in DB, w \in Worker : CreateDatabase(d, w)
    \/ \E d \in DB : GatewayCreateDatabase(d) \/ GatewayDeleteDatabase(d)
    \/ \E t \in Deleter, d \in DB : DeleteDatabase(t, d)
    \/ \E t \in Deleter : DeleteSteps(t)
    \/ \E w \in Worker : ProvisionDatabase(w)
    \/ LateCreate
    \/ Reconcile
    \/ Hangs
    \/ \E d \in DB : Age(d)
    \/ ControlPlaneCrash
    \/ \E n \in Node : AgentForgets(n) \/ NodeStatusChanges(n)

\* Goroutines keep running while the process does, the reconciler's ticker
\* keeps ticking and time keeps passing.  A call returns in the end unless it is
\* one of those that hang for good, which the Hangs actions take from MaxFaults:
\* no deadline ends them (only the calls to agents have one), and no fairness
\* speaks of them.  Nothing makes a client ask, a call fail or hang, a late call
\* finish or a node change its status.
Fairness ==
    /\ \A w \in Worker : WF_vars(ProvisionDatabase(w))
    /\ \A t \in Deleter : WF_vars(DeleteSteps(t))
    /\ WF_vars(Reconcile)
    /\ \A d \in DB : WF_vars(Age(d))

Spec == Init /\ [][Next]_vars

FairSpec == Spec /\ Fairness

-----------------------------------------------------------------------------
(* Properties *)

WorkerState == [pc: {"idle", "schedule", "choose", "claim", "create",
                     "activate", "fail"},
                db: DB \cup {NoDb}, attempts: 0..MaxAttempts,
                tried: SUBSET Node, node: Node \cup {NoNode}]

DeleterState == [pc: {"idle", "mark", "agent", "record"},
                 db: DB \cup {NoDb}, node: Node \cup {NoNode}]

\* A running provisioner works on a database, and from the choice of a node
\* until the call's outcome it has a node.
Placed(wk) == wk.pc \in {"choose", "claim", "create", "activate"}
                => wk.node \in Node

\* The types, with the loop's bound on attempts and what each pc implies.
ProvisioningTypeOK ==
    /\ rows \in [DB -> Row]
    /\ replicas \in [DB -> SUBSET Node]
    /\ hosted \in [Node -> SUBSET DB]
    /\ dropped \subseteq DB \X Node /\ late \subseteq DB \X Node
    /\ out \subseteq Outable
    /\ workers \in [Worker -> WorkerState]
    /\ \A w \in Worker : Placed(workers[w])
                         /\ (workers[w].pc # "idle" => workers[w].db \in DB)
    /\ recon \subseteq [db: DB, attempts: 0..MaxAttempts] \cup {Halted}
    /\ deleters \in [Deleter -> DeleterState]
    /\ \A t \in Deleter : deleters[t].pc # "idle" => deleters[t].db \in DB
    /\ faults \in 0..MaxFaults /\ slow \in 0..MaxSlow

\* The columns of a row and the replicas table agree, whichever provisioners,
\* deleters and reconciler sweeps wrote to them in whichever order: there is an
\* endpoint exactly when the database is active, it is the endpoint of the
\* row's node, and that node is the one leader replica
\* (metadata-service/grpc/server.go, UpdateDatabaseStatus).
RegistryAgrees ==
    \A d \in DB :
      /\ rows[d].endpoint = IF rows[d].status = "active" THEN rows[d].node
                            ELSE NoNode
      /\ rows[d].status = "active" => rows[d].node \in Node
      /\ replicas[d] = IF rows[d].node = NoNode THEN {} ELSE {rows[d].node}

\* The agent of n has created d and has it, or has dropped it itself since.
CreatedAt(d, n) == d \in hosted[n] \/ <<d, n>> \in dropped

\* An active database is hosted by the node its endpoint names, unless that very
\* agent has dropped it, however many provisioners raced for it and whatever
\* calls timed out, failed or were done late (orchestrator.go, the order of
\* CreateDatabase and the update to "active").
ActiveIsHosted ==
    \A d \in DB : rows[d].status = "active" => CreatedAt(d, rows[d].node)

\* Deleting a row is final: no provisioner, deleter or reconciler that still
\* holds the id brings the row back (the RowsAffected() == 0 branch of
\* UpdateDatabaseStatus).
NoResurrection ==
    [][\A d \in DB : rows[d].status = "gone" => rows'[d].status = "gone"]_vars

\* The nodes that refuse a database are as many as a provisioner has attempts,
\* or they are all there are.
Refused(d) ==
    \/ \A n \in Node : Refuses(n, d)
    \/ Cardinality({n \in Node : Refuses(n, d)}) >= MaxAttempts

\* "A failed node should not be retried while another eligible node is
\* available" (orchestrator.go:82): as long as no call has failed and all nodes
\* are listed, a provisioner gives up only on a database that is Refused.
GoodNodeFound ==
    faults = 0 /\ Outable = {} =>
      \A d \in DB : rows[d].status = "failed" => Refused(d)

Quiet == /\ \A w \in Worker : workers[w].pc = "idle"
         /\ \A t \in Deleter : deleters[t].pc = "idle"
         /\ late = {} /\ recon \subseteq {Halted}

\* "metadata always reflects ground truth" (ai-docs/PHASE_2.md:29): when nothing
\* is running, no node hosts a database whose record was deleted.
NothingLeftBehind ==
    Quiet => \A n \in Node : \A d \in hosted[n] : rows[d].status # "gone"

\* In the end no database is in provisioning any more, although the control
\* plane crashes, calls fail, time out and hang, sweeps start second provisioners
\* and databases are deleted under them, unless the reconciler itself waits for
\* ever for a call (reconciliation.go, Reconcile).
Settles ==
    <>[](\/ \A d \in DB : rows[d].status # "provisioning"
         \/ Halted \in recon)

\* A database that is being deleted does not stay so, whichever provisioners and
\* sweeps write to its row meanwhile; once a call has failed or hung or the
\* control plane has crashed nothing is promised, since nobody resumes a
\* deletion (handlers.go, handleDeleteDatabase, whose last step removes the
\* record).
DeleteCompletes ==
    \A d \in DB : (rows[d].status = "deleting")
                     ~> (rows[d].status # "deleting" \/ faults > 0)
=============================================================================
