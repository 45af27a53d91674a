------------------------- MODULE ProvisioningProofs -------------------------
(***************************************************************************)
(* Proofs about Provisioning, for every number of databases, nodes,        *)
(* provisioners and deleters, and every number of faults.                  *)
(***************************************************************************)
EXTENDS Provisioning, FiniteSetTheorems, TLAPS

\* The registry's part of ProvisioningTypeOK.
RegistryOK == rows \in [DB -> Row] /\ replicas \in [DB -> SUBSET Node]

\* What ProvisioningTypeOK says of one provisioner.
WorkerOK(wk) == /\ wk \in WorkerState /\ Placed(wk)
                /\ wk.pc # "idle" => wk.db \in DB

\* The provisioners' part of ProvisioningTypeOK.
WorkersOK == /\ workers \in [Worker -> WorkerState]
             /\ \A w \in Worker : WorkerOK(workers[w])

\* The deleters' part of ProvisioningTypeOK.
DeletersOK ==
    /\ deleters \in [Deleter -> DeleterState]
    /\ \A t \in Deleter : deleters[t].pc # "idle" => deleters[t].db \in DB

\* The rest of ProvisioningTypeOK.
ClusterOK == /\ hosted \in [Node -> SUBSET DB]
             /\ dropped \subseteq DB \X Node
             /\ late \subseteq DB \X Node
             /\ out \subseteq Outable
             /\ recon \subseteq [db: DB, attempts: 0..MaxAttempts] \cup {Halted}

CountersOK == faults \in 0..MaxFaults /\ slow \in 0..MaxSlow

\* ProvisioningTypeOK is the conjunction of its parts.
LEMMA TypeParts ==
    ProvisioningTypeOK <=>
      RegistryOK /\ WorkersOK /\ DeletersOK /\ ClusterOK /\ CountersOK
BY Zenon DEF ProvisioningTypeOK, RegistryOK, WorkersOK, WorkerOK, DeletersOK,
   ClusterOK, CountersOK

\* The same of the next state.
LEMMA TypePartsNext ==
    RegistryOK' /\ WorkersOK' /\ DeletersOK' /\ ClusterOK' /\ CountersOK'
      => ProvisioningTypeOK'
BY Zenon DEF ProvisioningTypeOK, RegistryOK, WorkersOK, WorkerOK, DeletersOK,
   ClusterOK, CountersOK

-----------------------------------------------------------------------------
(* The registry's operations and the provisioner's steps keep their types *)

\* UpdateDatabaseStatus keeps the types of the tables.
LEMMA UpdateTyped ==
    ASSUME RegistryOK, NEW d \in DB, NEW s \in Status,
           NEW n \in Node \cup {NoNode}, NEW e \in Node \cup {NoNode},
           NEW a \in 0..MaxAttempts, UpdateDatabaseStatus(d, s, n, e, a)
    PROVE  RegistryOK'
<1>1. CASE ~ Exists(d)
  BY <1>1 DEF RegistryOK, UpdateDatabaseStatus, registry
<1>2. CASE Exists(d)
  <2> DEFINE r == [status |-> s, node |-> IF n = NoNode THEN rows[d].node ELSE n,
                   endpoint |-> e, attempts |-> a, stale |-> FALSE]
  <2>1. r \in Row
    BY DEF RegistryOK, Row
  <2>2. rows' = [rows EXCEPT ![d] = r]
    BY <1>2 DEF UpdateDatabaseStatus
  <2>3. replicas' \in [DB -> SUBSET Node]
    BY <1>2 DEF UpdateDatabaseStatus, RegistryOK
  <2> QED BY <2>1, <2>2, <2>3 DEF RegistryOK
<1> QED BY <1>1, <1>2

\* CreateDatabaseRecord keeps the types of the tables.
LEMMA CreateTyped ==
    ASSUME RegistryOK, NEW d \in DB, CreateDatabaseRecord(d)
    PROVE  RegistryOK'
<1> DEFINE r == [status |-> "provisioning", node |-> NoNode,
                 endpoint |-> NoNode, attempts |-> 1, stale |-> FALSE]
<1>1. r \in Row
  BY ProvisioningConstants DEF Row, Status
<1> QED BY <1>1 DEF RegistryOK, CreateDatabaseRecord

\* DeleteDatabaseRecord keeps the types of the tables.
LEMMA DeleteTyped ==
    ASSUME RegistryOK, NEW d \in DB, DeleteDatabaseRecord(d)
    PROVE  RegistryOK'
<1>1. Absent("gone") \in Row
  BY ProvisioningConstants DEF Row, Status, Absent
<1> QED BY <1>1 DEF RegistryOK, DeleteDatabaseRecord, registry

\* A step of one provisioner leaves the others as they are.
LEMMA StepTyped ==
    ASSUME WorkersOK, NEW w \in Worker, NEW wk, WorkerOK(wk), Step(w, wk)
    PROVE  WorkersOK'
BY DEF WorkersOK, Step, WorkerOK

\* An idle provisioner, and a new one, are well formed.
LEMMA IdleTyped ==
    /\ WorkerOK(Idle)
    /\ \A d \in DB : WorkerOK(Started(d))
<1>1. WorkerOK(Idle)
  BY ProvisioningConstants DEF WorkerOK, Idle, WorkerState, Placed, NoDb
<1>2. ASSUME NEW d \in DB
      PROVE  WorkerOK(Started(d))
  BY ProvisioningConstants DEF WorkerOK, Started, WorkerState, Placed
<1> QED BY <1>1, <1>2

\* The attempts loop stays within its bound.
LEMMA NextAttemptTyped ==
    ASSUME NEW wk \in WorkerState, wk.db \in DB
    PROVE  WorkerOK(NextAttempt(wk))
<1>1. wk.attempts \in 0..MaxAttempts /\ MaxAttempts \in Nat
  BY ProvisioningConstants DEF WorkerState
<1>2. CASE wk.attempts < MaxAttempts
  <2>1. wk.attempts + 1 \in 0..MaxAttempts
    BY <1>1, <1>2
  <2> DEFINE v == [wk EXCEPT !.pc = "schedule", !.node = NoNode,
                             !.attempts = wk.attempts + 1]
  <2>2. v \in WorkerState /\ v.db \in DB /\ v.pc = "schedule"
    BY <2>1 DEF WorkerState
  <2> QED BY <1>2, <2>2 DEF NextAttempt, WorkerOK, Placed
<1>3. CASE ~ (wk.attempts < MaxAttempts)
  <2> DEFINE v == [wk EXCEPT !.pc = "fail", !.node = NoNode]
  <2>1. v \in WorkerState /\ v.db \in DB /\ v.pc = "fail"
    BY DEF WorkerState
  <2> QED BY <1>3, <2>1 DEF NextAttempt, WorkerOK, Placed
<1> QED BY <1>2, <1>3

\* A provisioner that fails on a node remembers it and goes on.
LEMMA TriedTyped ==
    ASSUME NEW wk \in WorkerState, wk.db \in DB, wk.node \in Node
    PROVE  WorkerOK(NextAttempt([wk EXCEPT !.tried = @ \cup {wk.node}]))
<1> DEFINE v == [wk EXCEPT !.tried = @ \cup {wk.node}]
<1>1. v \in WorkerState /\ v.db \in DB
  BY DEF WorkerState
<1> QED BY <1>1, NextAttemptTyped

\* A fault is counted within its bound.
LEMMA FaultTyped ==
    ASSUME CountersOK, UNCHANGED slow, Fault \/ NoFault
    PROVE  CountersOK'
BY ProvisioningConstants DEF CountersOK, Fault, NoFault

\* Every step of a provisioner keeps the types.
LEMMA ProvisionTyped ==
    ASSUME ProvisioningTypeOK, NEW w \in Worker, ProvisionDatabase(w)
    PROVE  ProvisioningTypeOK'
<1> USE TypeParts, TypePartsNext
<1> DEFINE wk == workers[w]
<1>p. RegistryOK /\ WorkersOK /\ DeletersOK /\ ClusterOK /\ CountersOK
  OBVIOUS
<1>0. WorkerOK(wk) /\ wk \in WorkerState
  BY <1>p DEF WorkersOK
<1>n. wk.pc # "idle" => wk.db \in DB
  BY <1>0 DEF WorkerOK
<1>a. wk.attempts \in 0..MaxAttempts
  BY <1>0 DEF WorkerState
<1>d. DeletersOK'
  <2>1. UNCHANGED deleters
    BY Zenon DEF ProvisionDatabase, Schedule, ScheduleFails, Choose,
       ChooseFails, Claim, CreateOk, CreateRefused, CreateTimesOut, DialFails,
       Activate, Fail, ElseUnchanged
  <2> QED BY <1>p, <2>1 DEF DeletersOK
<1>c. CountersOK'
  <2>1. UNCHANGED slow /\ (Fault \/ NoFault)
    BY Zenon DEF ProvisionDatabase, Schedule, ScheduleFails, Choose,
       ChooseFails, Claim, CreateOk, CreateRefused, CreateTimesOut, DialFails,
       Activate, Fail, ElseUnchanged
  <2> QED BY <1>p, <2>1, FaultTyped
<1>1. CASE Schedule(w)
  <2>1. PICK n \in Node \ out :
          Step(w, [wk EXCEPT !.pc = "choose", !.node = n])
    BY <1>1 DEF Schedule
  <2>2. wk.pc = "schedule"
    BY <1>1 DEF Schedule
  <2>3. WorkerOK([wk EXCEPT !.pc = "choose", !.node = n])
    BY <1>0, <1>n, <2>2 DEF WorkerOK, WorkerState, Placed
  <2>4. WorkersOK'
    BY <1>p, <2>1, <2>3, StepTyped
  <2>5. RegistryOK' /\ ClusterOK'
    BY <1>p, <1>1 DEF Schedule, ElseUnchanged, RegistryOK, ClusterOK, registry,
       agents
  <2> QED BY <1>d, <1>c, <2>4, <2>5
<1>2. CASE ScheduleFails(w)
  <2>1. Step(w, NextAttempt(wk)) /\ wk.db \in DB
    BY <1>2, <1>n DEF ScheduleFails
  <2>2. WorkersOK'
    BY <1>p, <1>0, <2>1, NextAttemptTyped, StepTyped
  <2>3. RegistryOK' /\ ClusterOK'
    BY <1>p, <1>2 DEF ScheduleFails, ElseUnchanged, RegistryOK, ClusterOK,
       registry, agents
  <2> QED BY <1>d, <1>c, <2>2, <2>3
<1>3. CASE Choose(w)
  <2>1. wk.pc = "choose" /\ wk.node \in Node
    BY <1>3, <1>0 DEF Choose, WorkerOK, Placed
  <2>2. PICK n \in Node : Step(w, [wk EXCEPT !.pc = "claim", !.node = n])
    BY <1>3, <2>1 DEF Choose, Alternates
  <2>3. WorkerOK([wk EXCEPT !.pc = "claim", !.node = n])
    BY <1>0, <1>n, <2>1 DEF WorkerOK, WorkerState, Placed
  <2>4. WorkersOK'
    BY <1>p, <2>2, <2>3, StepTyped
  <2>5. RegistryOK' /\ ClusterOK'
    BY <1>p, <1>3 DEF Choose, ElseUnchanged, RegistryOK, ClusterOK, registry,
       agents
  <2> QED BY <1>d, <1>c, <2>4, <2>5
<1>4. CASE ChooseFails(w)
  <2>1. Step(w, NextAttempt(wk)) /\ wk.db \in DB
    BY <1>4, <1>n DEF ChooseFails
  <2>2. WorkersOK'
    BY <1>p, <1>0, <2>1, NextAttemptTyped, StepTyped
  <2>3. RegistryOK' /\ ClusterOK'
    BY <1>p, <1>4 DEF ChooseFails, ElseUnchanged, RegistryOK, ClusterOK,
       registry, agents
  <2> QED BY <1>d, <1>c, <2>2, <2>3
<1>5. CASE Claim(w)
  <2>1. wk.pc = "claim" /\ wk.node \in Node /\ wk.db \in DB
    BY <1>5, <1>0, <1>n DEF Claim, WorkerOK, Placed
  <2>2. RegistryOK'
    <3>1. CASE UNCHANGED registry
      BY <1>p, <3>1 DEF RegistryOK, registry
    <3>2. CASE UpdateDatabaseStatus(wk.db, "provisioning", wk.node, NoNode,
                                    wk.attempts)
      <4>1. "provisioning" \in Status
        BY DEF Status
      <4> QED BY <1>p, <1>a, <2>1, <3>2, <4>1, UpdateTyped
    <3> QED BY <1>5, <3>1, <3>2 DEF Claim
  <2>3. WorkerOK([wk EXCEPT !.pc = "create"])
    BY <1>0, <2>1 DEF WorkerOK, WorkerState, Placed
  <2>4. WorkersOK'
    BY <1>p, <1>5, <2>3, StepTyped DEF Claim
  <2>5. ClusterOK'
    BY <1>p, <1>5 DEF Claim, ElseUnchanged, ClusterOK, agents
  <2> QED BY <1>d, <1>c, <2>2, <2>4, <2>5
<1>6. CASE CreateOk(w)
  <2>1. wk.pc = "create" /\ wk.node \in Node /\ wk.db \in DB
    BY <1>6, <1>0, <1>n DEF CreateOk, WorkerOK, Placed
  <2>2. WorkerOK([wk EXCEPT !.pc = "activate"])
    BY <1>0, <2>1 DEF WorkerOK, WorkerState, Placed
  <2>3. WorkersOK'
    BY <1>p, <1>6, <2>2, StepTyped DEF CreateOk
  <2>4. RegistryOK' /\ ClusterOK'
    BY <1>p, <1>6, <2>1 DEF CreateOk, ElseUnchanged, RegistryOK, ClusterOK,
       registry, Hosts, agents
  <2> QED BY <1>d, <1>c, <2>3, <2>4
<1>7. CASE CreateRefused(w)
  <2>1. wk.pc = "create" /\ wk.node \in Node /\ wk.db \in DB
    BY <1>7, <1>0, <1>n DEF CreateRefused, WorkerOK, Placed
  <2>2. WorkersOK'
    BY <1>p, <1>0, <1>7, <2>1, TriedTyped, StepTyped DEF CreateRefused
  <2>3. RegistryOK' /\ ClusterOK'
    BY <1>p, <1>7 DEF CreateRefused, ElseUnchanged, RegistryOK, ClusterOK,
       registry, agents
  <2> QED BY <1>d, <1>c, <2>2, <2>3
<1>8. CASE CreateTimesOut(w)
  <2>1. wk.pc = "create" /\ wk.node \in Node /\ wk.db \in DB
    BY <1>8, <1>0, <1>n DEF CreateTimesOut, WorkerOK, Placed
  <2>2. WorkersOK'
    BY <1>p, <1>0, <1>8, <2>1, TriedTyped, StepTyped DEF CreateTimesOut
  <2>3. RegistryOK' /\ ClusterOK'
    BY <1>p, <1>8, <2>1 DEF CreateTimesOut, ElseUnchanged, RegistryOK,
       ClusterOK, registry, agents
  <2> QED BY <1>d, <1>c, <2>2, <2>3
<1>9. CASE DialFails(w)
  <2>1. Step(w, NextAttempt(wk)) /\ wk.db \in DB
    BY <1>9, <1>n DEF DialFails
  <2>2. WorkersOK'
    BY <1>p, <1>0, <2>1, NextAttemptTyped, StepTyped
  <2>3. RegistryOK' /\ ClusterOK'
    BY <1>p, <1>9 DEF DialFails, ElseUnchanged, RegistryOK, ClusterOK, registry,
       agents
  <2> QED BY <1>d, <1>c, <2>2, <2>3
<1>10. CASE Activate(w)
  <2>1. wk.pc = "activate" /\ wk.node \in Node /\ wk.db \in DB
    BY <1>10, <1>0, <1>n DEF Activate, WorkerOK, Placed
  <2>2. RegistryOK'
    <3>1. CASE UNCHANGED registry
      BY <1>p, <3>1 DEF RegistryOK, registry
    <3>2. CASE UpdateDatabaseStatus(wk.db, "active", wk.node, wk.node,
                                    wk.attempts)
      <4>1. "active" \in Status
        BY DEF Status
      <4> QED BY <1>p, <1>a, <2>1, <3>2, <4>1, UpdateTyped
    <3> QED BY <1>10, <3>1, <3>2 DEF Activate
  <2>3. WorkersOK'
    BY <1>p, <1>10, IdleTyped, StepTyped DEF Activate
  <2>4. ClusterOK'
    BY <1>p, <1>10 DEF Activate, ElseUnchanged, ClusterOK, agents
  <2> QED BY <1>d, <1>c, <2>2, <2>3, <2>4
<1>11. CASE Fail(w)
  <2>1. wk.pc = "fail" /\ wk.db \in DB
    BY <1>11, <1>n DEF Fail
  <2>2. RegistryOK'
    <3>1. CASE UNCHANGED registry
      BY <1>p, <3>1 DEF RegistryOK, registry
    <3>2. CASE UpdateDatabaseStatus(wk.db, "failed", NoNode, NoNode,
                                    wk.attempts)
      <4>1. "failed" \in Status
        BY DEF Status
      <4> QED BY <1>p, <1>a, <2>1, <3>2, <4>1, UpdateTyped
    <3> QED BY <1>11, <3>1, <3>2 DEF Fail
  <2>3. WorkersOK'
    BY <1>p, <1>11, IdleTyped, StepTyped DEF Fail
  <2>4. ClusterOK'
    BY <1>p, <1>11 DEF Fail, ElseUnchanged, ClusterOK, agents
  <2> QED BY <1>d, <1>c, <2>2, <2>3, <2>4
<1> QED BY <1>1, <1>2, <1>3, <1>4, <1>5, <1>6, <1>7, <1>8, <1>9, <1>10, <1>11
        DEF ProvisionDatabase

\* An update that does not activate: by a provisioner's claim or failure, by a
\* deleter's mark or by the reconciler's touch.
Touch(d) ==
    \E s \in {"provisioning", "failed", "deleting"},
       n \in Node \cup {NoNode}, a \in 0..MaxAttempts :
      UpdateDatabaseStatus(d, s, n, NoNode, a)

\* A step in which a call never returns.
LEMMA HangsEffect ==
    ASSUME ProvisioningTypeOK, Hangs
    PROVE  /\ UNCHANGED registry \/ \E d \in DB : Touch(d)
           /\ \/ UNCHANGED workers
              \/ \E w \in Worker : Step(w, Idle)
           /\ \/ UNCHANGED deleters
              \/ \E t \in Deleter : DeleterStep(t, NotDeleting)
           /\ recon' = recon \/ recon' = {Halted}
           /\ Fault /\ UNCHANGED <<agents, late, out, slow>>
<1>p. WorkersOK /\ DeletersOK /\ ClusterOK
  BY TypeParts
<1>s. 0 \in 0..MaxAttempts
  BY ProvisioningConstants
<1>1. ASSUME NEW w \in Worker, ProvisionHangs(w)
      PROVE  UNCHANGED registry \/ \E d \in DB : Touch(d)
  <2> DEFINE wk == workers[w]
  <2>1. WorkerOK(wk) /\ wk \in WorkerState
    BY <1>p DEF WorkersOK
  <2>2. CASE /\ wk.pc = "claim"
             /\ UpdateDatabaseStatus(wk.db, "provisioning", wk.node, NoNode,
                                     wk.attempts)
    <3>1. wk.db \in DB /\ wk.node \in Node /\ wk.attempts \in 0..MaxAttempts
      BY <2>1, <2>2 DEF WorkerOK, Placed, WorkerState
    <3> QED BY <2>2, <3>1 DEF Touch
  <2> QED BY <1>1, <2>2 DEF ProvisionHangs
<1>2. ASSUME NEW t \in Deleter, DeleteHangs(t)
      PROVE  UNCHANGED registry \/ \E d \in DB : Touch(d)
  <2>1. CASE UpdateDatabaseStatus(deleters[t].db, "deleting", NoNode, NoNode, 0)
    <3>1. deleters[t].db \in DB
      BY <1>p, <1>2 DEF DeletersOK, DeleteHangs
    <3>2. Touch(deleters[t].db)
      BY <1>s, <2>1 DEF Touch
    <3> QED BY <3>1, <3>2
  <2> QED BY <1>2, <2>1 DEF DeleteHangs
<1>3. ASSUME ReconcileHangs
      PROVE  UNCHANGED registry \/ \E d \in DB : Touch(d)
  <2>1. ASSUME NEW e \in recon,
               UpdateDatabaseStatus(e.db, "provisioning", NoNode, NoNode,
                                    e.attempts)
        PROVE  \E d \in DB : Touch(d)
    <3>1. e.db \in DB /\ e.attempts \in 0..MaxAttempts
      BY <1>p, <1>3 DEF ClusterOK, ReconcileHangs
    <3>2. Touch(e.db)
      BY <2>1, <3>1 DEF Touch
    <3> QED BY <3>1, <3>2
  <2> QED BY <1>3, <2>1 DEF ReconcileHangs
<1>4. ASSUME NEW w \in Worker, ProvisionHangs(w)
      PROVE  /\ Step(w, Idle) /\ Fault
             /\ UNCHANGED <<agents, late, out, recon, deleters, slow>>
  BY <1>4 DEF ProvisionHangs, ElseUnchanged
<1>5. ASSUME NEW t \in Deleter, DeleteHangs(t)
      PROVE  /\ DeleterStep(t, NotDeleting) /\ Fault
             /\ UNCHANGED <<agents, late, out, workers, recon, slow>>
  BY <1>5 DEF DeleteHangs
<1>6. ASSUME ReconcileHangs
      PROVE  /\ recon' = {Halted} /\ Fault
             /\ UNCHANGED <<agents, late, out, workers, deleters, slow>>
  BY <1>6 DEF ReconcileHangs
<1> QED BY <1>1, <1>2, <1>3, <1>4, <1>5, <1>6, Zenon DEF Hangs

\* It keeps the types.
LEMMA HangsTyped ==
    ASSUME ProvisioningTypeOK, Hangs
    PROVE  ProvisioningTypeOK'
<1> USE TypeParts, TypePartsNext
<1>p. RegistryOK /\ WorkersOK /\ DeletersOK /\ ClusterOK /\ CountersOK
  OBVIOUS
<1>1. RegistryOK'
  <2>1. CASE UNCHANGED registry
    BY <1>p, <2>1 DEF RegistryOK, registry
  <2>2. ASSUME NEW d \in DB, Touch(d)
        PROVE  RegistryOK'
    <3>1. {"provisioning", "failed", "deleting"} \subseteq Status
      BY DEF Status
    <3>2. PICK s \in Status, n \in Node \cup {NoNode}, a \in 0..MaxAttempts :
            UpdateDatabaseStatus(d, s, n, NoNode, a)
      BY <2>2, <3>1 DEF Touch
    <3> QED BY <1>p, <3>2, UpdateTyped
  <2> QED BY <2>1, <2>2, HangsEffect
<1>2. WorkersOK'
  <2>1. CASE UNCHANGED workers
    BY <1>p, <2>1 DEF WorkersOK
  <2>2. ASSUME NEW w \in Worker, Step(w, Idle)
        PROVE  WorkersOK'
    BY <1>p, <2>2, IdleTyped, StepTyped
  <2> QED BY <2>1, <2>2, HangsEffect
<1>3. DeletersOK'
  <2>1. CASE UNCHANGED deleters
    BY <1>p, <2>1 DEF DeletersOK
  <2>2. ASSUME NEW t \in Deleter, DeleterStep(t, NotDeleting)
        PROVE  DeletersOK'
    BY <1>p, <2>2 DEF DeleterStep, DeletersOK, DeleterState, NotDeleting, NoDb
  <2> QED BY <2>1, <2>2, HangsEffect
<1>4. ClusterOK'
  BY <1>p, HangsEffect DEF ClusterOK, agents
<1>5. CountersOK'
  BY <1>p, HangsEffect, FaultTyped
<1> QED BY <1>1, <1>2, <1>3, <1>4, <1>5

\* Every other step keeps the types, too.
LEMMA TypeStep ==
    ASSUME ProvisioningTypeOK, [Next]_vars
    PROVE  ProvisioningTypeOK'
<1> USE TypeParts, TypePartsNext
<1>p. RegistryOK /\ WorkersOK /\ DeletersOK /\ ClusterOK /\ CountersOK
  OBVIOUS
<1>s. /\ "provisioning" \in Status /\ "deleting" \in Status
      /\ 0 \in 0..MaxAttempts
  BY ProvisioningConstants DEF Status
<1>1. ASSUME NEW d \in DB, NEW w \in Worker, CreateDatabase(d, w)
      PROVE  ProvisioningTypeOK'
  <2>1. RegistryOK'
    BY <1>p, <1>1, CreateTyped DEF CreateDatabase
  <2>2. WorkersOK'
    BY <1>p, <1>1, IdleTyped, StepTyped DEF CreateDatabase
  <2>3. DeletersOK' /\ ClusterOK' /\ CountersOK'
    BY <1>p, <1>1
       DEF CreateDatabase, ElseUnchanged, DeletersOK, ClusterOK, CountersOK,
       agents
  <2> QED BY <2>1, <2>2, <2>3
<1>2. ASSUME NEW d \in DB, GatewayCreateDatabase(d)
      PROVE  ProvisioningTypeOK'
  <2>1. RegistryOK'
    BY <1>p, <1>2, CreateTyped DEF GatewayCreateDatabase
  <2>2. WorkersOK'
    BY <1>p, <1>2 DEF GatewayCreateDatabase, WorkersOK
  <2>3. DeletersOK' /\ ClusterOK' /\ CountersOK'
    BY <1>p, <1>2 DEF GatewayCreateDatabase, ElseUnchanged, DeletersOK,
       ClusterOK, CountersOK, agents
  <2> QED BY <2>1, <2>2, <2>3
<1>3. ASSUME NEW d \in DB, GatewayDeleteDatabase(d)
      PROVE  ProvisioningTypeOK'
  <2>1. RegistryOK'
    BY <1>p, <1>3, DeleteTyped DEF GatewayDeleteDatabase
  <2>2. WorkersOK'
    BY <1>p, <1>3 DEF GatewayDeleteDatabase, WorkersOK
  <2>3. DeletersOK' /\ ClusterOK' /\ CountersOK'
    BY <1>p, <1>3 DEF GatewayDeleteDatabase, ElseUnchanged, DeletersOK,
       ClusterOK, CountersOK, agents
  <2> QED BY <2>1, <2>2, <2>3
<1>4. ASSUME NEW t \in Deleter, NEW d \in DB, DeleteDatabase(t, d)
      PROVE  ProvisioningTypeOK'
  <2>1. rows[d].node \in Node \cup {NoNode}
    BY <1>p DEF RegistryOK, Row
  <2>2. DeletersOK'
    BY <1>p, <1>4, <2>1
       DEF DeleteDatabase, DeletersOK, DeleterState, DeleterStep
  <2>3. RegistryOK' /\ WorkersOK' /\ ClusterOK' /\ CountersOK'
    BY <1>p, <1>4 DEF DeleteDatabase, registry, RegistryOK, WorkersOK,
       ClusterOK, CountersOK, agents
  <2> QED BY <2>2, <2>3
<1>5. ASSUME NEW t \in Deleter, DeleteMark(t)
      PROVE  ProvisioningTypeOK'
  <2>1. deleters[t].db \in DB
    BY <1>p, <1>5 DEF DeleteMark, DeletersOK
  <2>2. RegistryOK'
    <3>1. CASE UNCHANGED registry
      BY <1>p, <3>1 DEF RegistryOK, registry
    <3>2. CASE UpdateDatabaseStatus(deleters[t].db, "deleting", NoNode, NoNode,
                                    0)
      BY <1>p, <1>s, <2>1, <3>2, UpdateTyped
    <3> QED BY <1>5, <3>1, <3>2 DEF DeleteMark
  <2>3. DeletersOK'
    BY <1>p, <1>5, <2>1 DEF DeleteMark, DeletersOK, DeleterState, DeleterStep
  <2>4. CountersOK'
    BY <1>p, <1>5, FaultTyped DEF DeleteMark
  <2>5. WorkersOK' /\ ClusterOK'
    BY <1>p, <1>5 DEF DeleteMark, WorkersOK, ClusterOK, agents
  <2> QED BY <2>2, <2>3, <2>4, <2>5
<1>6. ASSUME NEW t \in Deleter, DeleteAtAgent(t)
      PROVE  ProvisioningTypeOK'
  <2>1. deleters[t].db \in DB /\ deleters[t].node \in Node \cup {NoNode}
    BY <1>p, <1>6 DEF DeleteAtAgent, DeletersOK, DeleterState
  <2>2. ClusterOK'
    BY <1>p, <1>6, <2>1 DEF DeleteAtAgent, ClusterOK, Drops, agents
  <2>3. DeletersOK'
    BY <1>p, <1>6, <2>1 DEF DeleteAtAgent, DeletersOK, DeleterState, DeleterStep
  <2>4. CountersOK'
    BY <1>p, <1>6, FaultTyped DEF DeleteAtAgent
  <2>5. RegistryOK' /\ WorkersOK'
    BY <1>p, <1>6 DEF DeleteAtAgent, RegistryOK, registry, WorkersOK
  <2> QED BY <2>2, <2>3, <2>4, <2>5
<1>7. ASSUME NEW t \in Deleter, DeleteRecord(t)
      PROVE  ProvisioningTypeOK'
  <2>1. deleters[t].db \in DB
    BY <1>p, <1>7 DEF DeleteRecord, DeletersOK
  <2>2. RegistryOK'
    <3>1. CASE UNCHANGED registry
      BY <1>p, <3>1 DEF RegistryOK, registry
    <3>2. CASE DeleteDatabaseRecord(deleters[t].db)
      BY <1>p, <2>1, <3>2, DeleteTyped
    <3> QED BY <1>7, <3>1, <3>2 DEF DeleteRecord
  <2>3. DeletersOK'
    BY <1>p, <1>7 DEF DeleteRecord, DeletersOK, DeleterState, DeleterStep,
       NotDeleting, NoDb
  <2>4. CountersOK'
    BY <1>p, <1>7, FaultTyped DEF DeleteRecord
  <2>5. WorkersOK' /\ ClusterOK'
    BY <1>p, <1>7 DEF DeleteRecord, WorkersOK, ClusterOK, agents
  <2> QED BY <2>2, <2>3, <2>4, <2>5
<1>8. CASE LateCreate
  <2>1. PICK call \in late :
          /\ late' = late \ {call}
          /\ Hosts(call[2], call[1]) \/ UNCHANGED agents
    BY <1>8 DEF LateCreate
  <2>2. call[1] \in DB /\ call[2] \in Node
    BY <1>p, <2>1 DEF ClusterOK, agents
  <2>3. /\ hosted' \in [Node -> SUBSET DB]
        /\ dropped' \subseteq DB \X Node /\ late' \subseteq DB \X Node
    BY <1>p, <2>1, <2>2 DEF ClusterOK, Hosts, agents
  <2>4. ClusterOK'
    BY <1>p, <1>8, <2>3 DEF ClusterOK, LateCreate, agents
  <2>5. RegistryOK' /\ WorkersOK' /\ DeletersOK' /\ CountersOK'
    BY <1>p, <1>8 DEF LateCreate, registry, RegistryOK, WorkersOK, DeletersOK,
       CountersOK
  <2> QED BY <2>4, <2>5
<1>9. CASE ReconcileList
  <2>1. \A d \in DB : rows[d].attempts \in 0..MaxAttempts
    BY <1>p DEF RegistryOK, Row
  <2>2. recon' \subseteq [db: DB, attempts: 0..MaxAttempts] \cup {Halted}
    BY <1>9, <2>1 DEF ReconcileList
  <2>3. ClusterOK'
    BY <1>p, <1>9, <2>2 DEF ReconcileList, ClusterOK, agents
  <2>4. RegistryOK' /\ WorkersOK' /\ DeletersOK' /\ CountersOK'
    BY <1>p, <1>9 DEF ReconcileList, registry, RegistryOK, WorkersOK,
       DeletersOK, CountersOK
  <2> QED BY <2>3, <2>4
<1>10. ASSUME NEW e \in recon, NEW w \in Worker, ReconcileDispatch(e, w)
       PROVE  ProvisioningTypeOK'
  <2>1. e.db \in DB /\ e.attempts \in 0..MaxAttempts
    BY <1>p, <1>10 DEF ClusterOK, ReconcileDispatch
  <2>2. RegistryOK'
    <3>1. CASE UNCHANGED registry
      BY <1>p, <3>1 DEF RegistryOK, registry
    <3>2. CASE UpdateDatabaseStatus(e.db, "provisioning", NoNode, NoNode,
                                    e.attempts)
      BY <1>p, <1>s, <2>1, <3>2, UpdateTyped
    <3> QED BY <1>10, <3>1, <3>2 DEF ReconcileDispatch
  <2>3. WorkersOK'
    <3>1. CASE UNCHANGED workers
      BY <1>p, <3>1 DEF WorkersOK
    <3>2. CASE Step(w, Started(e.db))
      BY <1>p, <2>1, <3>2, IdleTyped, StepTyped
    <3> QED BY <1>10, <3>1, <3>2 DEF ReconcileDispatch
  <2>4. CountersOK'
    BY <1>p, <1>10, FaultTyped DEF ReconcileDispatch
  <2>5. DeletersOK' /\ ClusterOK'
    BY <1>p, <1>10 DEF ReconcileDispatch, DeletersOK, ClusterOK, agents
  <2> QED BY <2>2, <2>3, <2>4, <2>5
<1>11. ASSUME NEW d \in DB, Age(d)
       PROVE  ProvisioningTypeOK'
  <2>1. RegistryOK'
    BY <1>p, <1>11, ZenonT(40) DEF Age, RegistryOK, Row
  <2>2. CountersOK'
    BY <1>p, <1>11, ProvisioningConstants DEF Age, CountersOK
  <2>3. WorkersOK' /\ DeletersOK' /\ ClusterOK'
    BY <1>p, <1>11 DEF Age, WorkersOK, DeletersOK, ClusterOK, agents
  <2> QED BY <2>1, <2>2, <2>3
<1>12. CASE ControlPlaneCrash
  <2>1. WorkersOK'
    BY <1>12, IdleTyped DEF ControlPlaneCrash, WorkersOK, WorkerOK
  <2>2. DeletersOK'
    BY <1>12 DEF ControlPlaneCrash, DeletersOK, DeleterState, NotDeleting, NoDb
  <2>3. CountersOK'
    BY <1>p, <1>12, FaultTyped DEF ControlPlaneCrash
  <2>4. RegistryOK' /\ ClusterOK'
    BY <1>p, <1>12 DEF ControlPlaneCrash, RegistryOK, registry, ClusterOK,
       agents
  <2> QED BY <2>1, <2>2, <2>3, <2>4
<1>13. ASSUME NEW n \in Node, AgentForgets(n)
       PROVE  ProvisioningTypeOK'
  <2>1. CountersOK'
    BY <1>p, <1>13, FaultTyped DEF AgentForgets
  <2>2. RegistryOK' /\ WorkersOK' /\ DeletersOK' /\ ClusterOK'
    BY <1>p, <1>13 DEF AgentForgets, Drops, RegistryOK, registry, WorkersOK,
       DeletersOK, ClusterOK, agents
  <2> QED BY <2>1, <2>2
<1>14. ASSUME NEW n \in Node, NodeStatusChanges(n)
       PROVE  ProvisioningTypeOK'
  BY <1>p, <1>14 DEF NodeStatusChanges, RegistryOK, registry, WorkersOK,
     DeletersOK, ClusterOK, CountersOK, agents
<1>15. CASE UNCHANGED vars
  BY <1>p, <1>15 DEF vars, RegistryOK, WorkersOK, DeletersOK, ClusterOK,
     CountersOK, agents
<1>16. CASE Next
  BY <1>16, <1>1, <1>2, <1>3, <1>4, <1>5, <1>6, <1>7, <1>8, <1>9, <1>10,
     <1>11, <1>12, <1>13, <1>14, ProvisionTyped, HangsTyped
     DEF Next, DeleteSteps, Reconcile
<1> QED BY <1>15, <1>16

\* ProvisioningTypeOK holds initially.
LEMMA TypeInit == Init => ProvisioningTypeOK
<1> SUFFICES ASSUME Init PROVE ProvisioningTypeOK
  OBVIOUS
<1>1. Absent("none") \in Row
  BY ProvisioningConstants DEF Row, Status, Absent
<1>2. RegistryOK
  BY <1>1 DEF Init, RegistryOK
<1>3. WorkersOK
  BY IdleTyped DEF Init, WorkersOK, WorkerOK
<1>4. DeletersOK
  BY DEF Init, DeletersOK, DeleterState, NotDeleting, NoDb
<1>5. ClusterOK /\ CountersOK
  BY ProvisioningConstants DEF Init, ClusterOK, CountersOK
<1> QED BY <1>2, <1>3, <1>4, <1>5, TypeParts

\* Type correctness of the control plane, the registry and the agents, the
\* bound on provisioning attempts included, whatever interleaves.
THEOREM ProvisioningTypeCorrect == Spec => []ProvisioningTypeOK
<1>1. ProvisioningTypeOK /\ [Next]_vars => ProvisioningTypeOK'
  BY TypeStep
<1> QED BY <1>1, TypeInit, PTL DEF Spec

-----------------------------------------------------------------------------
(* What the steps do to the registry *)

\* The update of a provisioner that succeeded.
Activation(w) ==
    /\ workers[w].pc = "activate"
    /\ workers[w].db \in DB /\ workers[w].node \in Node
    /\ UpdateDatabaseStatus(workers[w].db, "active", workers[w].node,
                            workers[w].node, workers[w].attempts)

\* The row's update time passes the reconciler's threshold.
Aging(d) == /\ rows[d].status = "provisioning"
            /\ rows' = [rows EXCEPT ![d].stale = TRUE]
            /\ UNCHANGED replicas

\* Everything a step can do to the registry.
RegistryStep ==
    \/ UNCHANGED registry
    \/ \E d \in DB : \/ CreateDatabaseRecord(d) \/ DeleteDatabaseRecord(d)
                     \/ Touch(d) \/ Aging(d)
    \/ \E w \in Worker : Activation(w)

\* Every step of the system is one of these for the registry.
LEMMA StepsOnRegistry ==
    ASSUME ProvisioningTypeOK, [Next]_vars
    PROVE  RegistryStep
<1>p. RegistryOK /\ WorkersOK /\ DeletersOK /\ ClusterOK
  BY TypeParts
<1>1. ASSUME NEW d \in DB, NEW w \in Worker, CreateDatabase(d, w)
      PROVE  RegistryStep
  BY <1>1 DEF CreateDatabase, RegistryStep
<1>2. ASSUME NEW d \in DB, GatewayCreateDatabase(d) \/ GatewayDeleteDatabase(d)
      PROVE  RegistryStep
  BY <1>2 DEF GatewayCreateDatabase, GatewayDeleteDatabase, RegistryStep
<1>3. ASSUME NEW t \in Deleter, DeleteSteps(t)
      PROVE  RegistryStep
  <2>1. deleters[t].pc # "idle" => deleters[t].db \in DB
    BY <1>p DEF DeletersOK
  <2>2. CASE DeleteMark(t)
    <3>1. deleters[t].db \in DB
      BY <2>1, <2>2 DEF DeleteMark
    <3>2. CASE UNCHANGED registry
      BY <3>2 DEF RegistryStep
    <3>3. CASE UpdateDatabaseStatus(deleters[t].db, "deleting", NoNode, NoNode,
                                    0)
      <4>1. 0 \in 0..MaxAttempts
        BY ProvisioningConstants
      <4>2. Touch(deleters[t].db)
        BY <3>3, <4>1 DEF Touch
      <4> QED BY <3>1, <4>2 DEF RegistryStep
    <3> QED BY <2>2, <3>2, <3>3 DEF DeleteMark
  <2>3. CASE DeleteAtAgent(t)
    BY <2>3 DEF DeleteAtAgent, RegistryStep
  <2>4. CASE DeleteRecord(t)
    BY <2>1, <2>4 DEF DeleteRecord, RegistryStep
  <2> QED BY <1>3, <2>2, <2>3, <2>4 DEF DeleteSteps
<1>4. ASSUME NEW w \in Worker, ProvisionDatabase(w)
      PROVE  RegistryStep
  <2> DEFINE wk == workers[w]
  <2>1. /\ wk.pc # "idle" => wk.db \in DB
        /\ wk.attempts \in 0..MaxAttempts
        /\ wk.pc \in {"claim", "activate"} => wk.node \in Node
    BY <1>p DEF WorkersOK, WorkerOK, WorkerState, Placed
  <2>2. CASE Claim(w)
    <3>1. CASE UNCHANGED registry
      BY <3>1 DEF RegistryStep
    <3>2. CASE UpdateDatabaseStatus(wk.db, "provisioning", wk.node, NoNode,
                                    wk.attempts)
      <4>1. Touch(wk.db) /\ wk.db \in DB
        BY <2>1, <2>2, <3>2 DEF Touch, Claim
      <4> QED BY <4>1 DEF RegistryStep
    <3> QED BY <2>2, <3>1, <3>2 DEF Claim
  <2>3. CASE Fail(w)
    <3>1. CASE UNCHANGED registry
      BY <3>1 DEF RegistryStep
    <3>2. CASE UpdateDatabaseStatus(wk.db, "failed", NoNode, NoNode,
                                    wk.attempts)
      <4>1. Touch(wk.db) /\ wk.db \in DB
        BY <2>1, <2>3, <3>2 DEF Touch, Fail
      <4> QED BY <4>1 DEF RegistryStep
    <3> QED BY <2>3, <3>1, <3>2 DEF Fail
  <2>4. CASE Activate(w)
    BY <2>1, <2>4 DEF Activate, Activation, RegistryStep
  <2>5. CASE UNCHANGED registry
    BY <2>5 DEF RegistryStep
  <2> QED BY Zenon, <1>4, <2>2, <2>3, <2>4, <2>5 DEF ProvisionDatabase,
          Schedule, ScheduleFails, Choose, ChooseFails, CreateOk,
          CreateRefused, CreateTimesOut, DialFails
<1>5. ASSUME NEW e \in recon, NEW w \in Worker, ReconcileDispatch(e, w)
      PROVE  RegistryStep
  <2>1. e.db \in DB /\ e.attempts \in 0..MaxAttempts
    BY <1>p, <1>5 DEF ClusterOK, ReconcileDispatch
  <2>2. CASE UNCHANGED registry
    BY <2>2 DEF RegistryStep
  <2>3. CASE UpdateDatabaseStatus(e.db, "provisioning", NoNode, NoNode,
                                  e.attempts)
    <3>1. Touch(e.db)
      BY <2>1, <2>3 DEF Touch
    <3> QED BY <2>1, <3>1 DEF RegistryStep
  <2> QED BY <1>5, <2>2, <2>3 DEF ReconcileDispatch
<1>6. ASSUME NEW d \in DB, Age(d)
      PROVE  RegistryStep
  BY <1>6 DEF Age, Aging, RegistryStep
<1>7. CASE UNCHANGED registry
  BY <1>7 DEF RegistryStep
<1>8. (\E t \in Deleter, d \in DB : DeleteDatabase(t, d)) => UNCHANGED registry
  BY DEF DeleteDatabase
<1>9. LateCreate \/ ReconcileList \/ ControlPlaneCrash => UNCHANGED registry
  BY DEF LateCreate, ReconcileList, ControlPlaneCrash
<1>10. (\E n \in Node : AgentForgets(n) \/ NodeStatusChanges(n))
         => UNCHANGED registry
  BY DEF AgentForgets, NodeStatusChanges
<1>11. UNCHANGED vars => UNCHANGED registry
  BY DEF vars, registry
<1>12. Hangs => RegistryStep
  BY HangsEffect DEF RegistryStep
<1> QED BY <1>1, <1>2, <1>3, <1>4, <1>5, <1>6, <1>7, <1>8, <1>9, <1>10, <1>11,
           <1>12
        DEF Next, Reconcile

-----------------------------------------------------------------------------
(* The rows and the replicas agree *)

\* RegistryAgrees is inductive together with this: an id without a row has no
\* node, so that a new row starts without replicas.
RegistryInv ==
    /\ RegistryAgrees
    /\ \A d \in DB : rows[d].status \in {"none", "gone"} => rows[d].node = NoNode

\* RegistryAgrees of one row and its replicas.
RowAgrees(row, reps) ==
    /\ row.endpoint = IF row.status = "active" THEN row.node ELSE NoNode
    /\ row.status = "active" => row.node \in Node
    /\ reps = IF row.node = NoNode THEN {} ELSE {row.node}

\* An update keeps RegistryInv when it sets an endpoint exactly if it
\* activates the database.
LEMMA UpdateAgrees ==
    ASSUME RegistryOK, RegistryInv, NEW d \in DB, NEW s \in Status \ {"none", "gone"},
           NEW n \in Node \cup {NoNode}, NEW e, NEW a \in 0..MaxAttempts,
           e = IF s = "active" THEN n ELSE NoNode,
           s = "active" => n \in Node,
           UpdateDatabaseStatus(d, s, n, e, a)
    PROVE  RegistryInv'
<1>1. CASE ~ Exists(d)
  BY <1>1 DEF UpdateDatabaseStatus, registry, RegistryInv, RegistryAgrees
<1>2. CASE Exists(d)
  <2> DEFINE m == IF n = NoNode THEN rows[d].node ELSE n
  <2>1. /\ rows'[d].status = s /\ rows'[d].node = m
        /\ rows'[d].endpoint = e
        /\ \A x \in DB : x # d => rows'[x] = rows[x]
    BY <1>2 DEF UpdateDatabaseStatus, RegistryOK
  <2>2. /\ replicas'[d] = IF n = NoNode THEN replicas[d] ELSE {n}
        /\ \A x \in DB : x # d => replicas'[x] = replicas[x]
    BY <1>2 DEF UpdateDatabaseStatus, RegistryOK
  <2>3. replicas'[d] = IF m = NoNode THEN {} ELSE {m}
    BY <2>2 DEF RegistryInv, RegistryAgrees
  <2>4. e = IF s = "active" THEN m ELSE NoNode
    BY ProvisioningConstants
  <2>5. s = "active" => m \in Node
    BY ProvisioningConstants
  <2>6. ASSUME NEW x \in DB
        PROVE  RowAgrees(rows'[x], replicas'[x])
    <3>1. CASE x = d
      BY <2>1, <2>3, <2>4, <2>5, <3>1 DEF RowAgrees
    <3>2. CASE x # d
      BY <2>1, <2>2, <3>2 DEF RegistryInv, RegistryAgrees, RowAgrees
    <3> QED BY <3>1, <3>2
  <2>7. (\A x \in DB : rows[x].status \in {"none", "gone"}
                         => rows[x].node = NoNode)'
    BY <2>1 DEF RegistryInv
  <2>8. RegistryAgrees'
    BY <2>6 DEF RegistryAgrees, RowAgrees
  <2> QED BY <2>7, <2>8 DEF RegistryInv
<1> QED BY <1>1, <1>2

\* Every step keeps RegistryInv.
LEMMA RegistryInvStep ==
    ASSUME ProvisioningTypeOK, RegistryInv, [Next]_vars
    PROVE  RegistryInv'
<1>p. RegistryOK /\ WorkersOK
  BY TypeParts
<1>1. CASE UNCHANGED registry
  BY <1>1 DEF registry, RegistryInv, RegistryAgrees
<1>2. ASSUME NEW d \in DB, CreateDatabaseRecord(d)
      PROVE  RegistryInv'
  BY <1>p, <1>2 DEF CreateDatabaseRecord, RegistryOK, RegistryInv,
     RegistryAgrees
<1>3. ASSUME NEW d \in DB, DeleteDatabaseRecord(d)
      PROVE  RegistryInv'
  <2>1. CASE ~ Exists(d)
    BY <1>1, <1>3, <2>1 DEF DeleteDatabaseRecord
  <2>2. CASE Exists(d)
    <3>1. /\ rows'[d].status = "gone" /\ rows'[d].node = NoNode
          /\ rows'[d].endpoint = NoNode /\ replicas'[d] = {}
          /\ \A x \in DB : x # d => rows'[x] = rows[x]
                                   /\ replicas'[x] = replicas[x]
      BY <1>p, <1>3, <2>2 DEF DeleteDatabaseRecord, Absent, RegistryOK
    <3> QED BY <3>1, ZenonT(40) DEF RegistryInv, RegistryAgrees
  <2> QED BY <2>1, <2>2
<1>4. ASSUME NEW d \in DB, Touch(d)
      PROVE  RegistryInv'
  <2>1. PICK s \in {"provisioning", "failed", "deleting"},
             n \in Node \cup {NoNode}, a \in 0..MaxAttempts :
               UpdateDatabaseStatus(d, s, n, NoNode, a)
    BY <1>4 DEF Touch
  <2>2. s \in Status \ {"none", "gone"} /\ s # "active"
    BY DEF Status
  <2> QED BY <1>p, <2>1, <2>2, UpdateAgrees
<1>5. ASSUME NEW d \in DB, Aging(d)
      PROVE  RegistryInv'
  <2>1. /\ rows'[d].status = rows[d].status /\ rows'[d].node = rows[d].node
        /\ rows'[d].endpoint = rows[d].endpoint
        /\ \A x \in DB : x # d => rows'[x] = rows[x]
        /\ replicas' = replicas
    BY <1>p, <1>5 DEF Aging, RegistryOK, Row
  <2>2. \A x \in DB : RowAgrees(rows'[x], replicas'[x])
    BY <2>1 DEF RegistryInv, RegistryAgrees, RowAgrees
  <2>3. RegistryAgrees'
    BY <2>2 DEF RegistryAgrees, RowAgrees
  <2>4. (\A x \in DB : rows[x].status \in {"none", "gone"}
                         => rows[x].node = NoNode)'
    BY <2>1 DEF RegistryInv
  <2> QED BY <2>3, <2>4 DEF RegistryInv
<1>6. ASSUME NEW w \in Worker, Activation(w)
      PROVE  RegistryInv'
  <2>1. workers[w].attempts \in 0..MaxAttempts
    BY <1>p DEF WorkersOK, WorkerState
  <2>2. "active" \in Status \ {"none", "gone"}
    BY DEF Status
  <2> QED BY <1>p, <1>6, <2>1, <2>2, UpdateAgrees DEF Activation
<1> QED BY <1>1, <1>2, <1>3, <1>4, <1>5, <1>6, StepsOnRegistry DEF RegistryStep

\* The columns of a row and the replicas table agree at all times.
THEOREM RegistryAgreement == Spec => []RegistryAgrees
<1>1. Init => RegistryInv
  BY DEF Init, RegistryInv, RegistryAgrees, Absent
<1>2. ProvisioningTypeOK /\ RegistryInv /\ [Next]_vars => RegistryInv'
  BY RegistryInvStep
<1>3. RegistryInv => RegistryAgrees
  BY DEF RegistryInv
<1> QED BY <1>1, <1>2, <1>3, ProvisioningTypeCorrect, PTL DEF Spec

\* A deleted row never comes back, whoever still works on its id.
THEOREM DeletionFinal == Spec => NoResurrection
<1> DEFINE Final == \A d \in DB : rows[d].status = "gone"
                                    => rows'[d].status = "gone"
<1>1. ASSUME ProvisioningTypeOK, [Next]_vars
      PROVE  [Final]_vars
  <2>p. RegistryOK
    BY <1>1, TypeParts
  <2>1. CASE UNCHANGED registry
    BY <2>1 DEF registry
  <2>2. ASSUME NEW d \in DB, CreateDatabaseRecord(d)
        PROVE  Final
    BY <2>p, <2>2 DEF CreateDatabaseRecord, RegistryOK
  <2>3. ASSUME NEW d \in DB, DeleteDatabaseRecord(d)
        PROVE  Final
    BY <2>p, <2>3 DEF DeleteDatabaseRecord, Absent, registry, RegistryOK
  <2>4. ASSUME NEW d \in DB, Touch(d)
        PROVE  Final
    BY <2>p, <2>4 DEF Touch, UpdateDatabaseStatus, Exists, registry, RegistryOK
  <2>5. ASSUME NEW d \in DB, Aging(d)
        PROVE  Final
    BY <2>p, <2>5 DEF Aging, RegistryOK, Row
  <2>6. ASSUME NEW w \in Worker, Activation(w)
        PROVE  Final
    BY <2>p, <2>6
       DEF Activation, UpdateDatabaseStatus, Exists, registry, RegistryOK
  <2> QED BY <1>1, <2>1, <2>2, <2>3, <2>4, <2>5, <2>6, StepsOnRegistry
          DEF RegistryStep
<1> QED BY <1>1, ProvisioningTypeCorrect, PTL DEF Spec, NoResurrection

-----------------------------------------------------------------------------
(* An active database is where its endpoint says *)

\* What ActiveIsHosted needs to be inductive: a provisioner about to report
\* success has created the database on its node.
HostedInv ==
    /\ ActiveIsHosted
    /\ \A w \in Worker : workers[w].pc = "activate"
                           => CreatedAt(workers[w].db, workers[w].node)

\* Creating a database at one agent is not forgotten, there or elsewhere.
LEMMA HostsKeeps ==
    ASSUME ClusterOK, NEW m \in Node, NEW c \in DB, Hosts(m, c)
    PROVE  /\ CreatedAt(c, m)'
           /\ \A d \in DB, n \in Node : CreatedAt(d, n) => CreatedAt(d, n)'
<1>1. /\ hosted'[m] = hosted[m] \cup {c}
      /\ \A n \in Node : n # m => hosted'[n] = hosted[n]
      /\ dropped' = dropped \ {<<c, m>>}
  BY DEF Hosts, ClusterOK
<1> QED BY <1>1 DEF CreatedAt

\* An agent that loses databases is on record for having dropped them.
LEMMA DropsKeeps ==
    ASSUME ClusterOK, NEW m \in Node, NEW D, Drops(m, D)
    PROVE  \A d \in DB, n \in Node : CreatedAt(d, n) => CreatedAt(d, n)'
<1>1. /\ hosted'[m] = hosted[m] \ D
      /\ \A n \in Node : n # m => hosted'[n] = hosted[n]
      /\ dropped' = dropped \cup ((hosted[m] \cap D) \X {m})
  BY DEF Drops, ClusterOK
<1> QED BY <1>1 DEF CreatedAt

\* No step forgets that an agent has created a database.
LEMMA CreatedKept ==
    ASSUME ProvisioningTypeOK, [Next]_vars
    PROVE  \A d \in DB, n \in Node : CreatedAt(d, n) => CreatedAt(d, n)'
<1> DEFINE Kept == \A d \in DB, n \in Node : CreatedAt(d, n) => CreatedAt(d, n)'
<1>p. WorkersOK /\ DeletersOK /\ ClusterOK
  BY TypeParts
<1>0. UNCHANGED agents => Kept
  BY DEF agents, CreatedAt
<1>1. ASSUME NEW w \in Worker, CreateOk(w)
      PROVE  Kept
  <2>1. workers[w].node \in Node /\ workers[w].db \in DB
    BY <1>p, <1>1 DEF CreateOk, WorkersOK, WorkerOK, Placed
  <2> QED BY <1>p, <1>1, <2>1, HostsKeeps DEF CreateOk
<1>2. ASSUME LateCreate
      PROVE  Kept
  <2>1. PICK call \in late : Hosts(call[2], call[1]) \/ UNCHANGED agents
    BY <1>2 DEF LateCreate
  <2>2. call[1] \in DB /\ call[2] \in Node
    BY <1>p, <2>1 DEF ClusterOK
  <2> QED BY <1>p, <1>0, <2>1, <2>2, HostsKeeps
<1>3. ASSUME NEW t \in Deleter, DeleteSteps(t)
      PROVE  Kept
  <2>1. CASE DeleteAtAgent(t)
    <3>1. \/ UNCHANGED agents
          \/ deleters[t].node # NoNode
             /\ Drops(deleters[t].node, {deleters[t].db})
      BY <2>1 DEF DeleteAtAgent
    <3>2. deleters[t].node \in Node \cup {NoNode}
      BY <1>p DEF DeletersOK, DeleterState
    <3> QED BY <1>p, <1>0, <3>1, <3>2, DropsKeeps
  <2>2. CASE DeleteMark(t) \/ DeleteRecord(t)
    BY <1>0, <2>2 DEF DeleteMark, DeleteRecord
  <2> QED BY <1>3, <2>1, <2>2 DEF DeleteSteps
<1>4. ASSUME NEW w \in Worker, ProvisionDatabase(w)
      PROVE  CreateOk(w) \/ UNCHANGED agents
  BY Zenon, <1>4 DEF ProvisionDatabase, Schedule, ScheduleFails, Choose,
     ChooseFails, Claim, CreateOk, CreateRefused, CreateTimesOut, DialFails,
     Activate, Fail
<1>5. Reconcile \/ ControlPlaneCrash => UNCHANGED agents
  BY DEF Reconcile, ReconcileList, ReconcileDispatch, ControlPlaneCrash
<1>6. ASSUME NEW d \in DB,
             \/ GatewayCreateDatabase(d) \/ GatewayDeleteDatabase(d) \/ Age(d)
             \/ \E w \in Worker : CreateDatabase(d, w)
             \/ \E t \in Deleter : DeleteDatabase(t, d)
      PROVE  UNCHANGED agents
  BY <1>6 DEF GatewayCreateDatabase, GatewayDeleteDatabase, Age,
     CreateDatabase, DeleteDatabase
<1>7. ASSUME NEW n \in Node, AgentForgets(n)
      PROVE  Kept
  BY <1>p, <1>7, DropsKeeps DEF AgentForgets
<1>8. ASSUME NEW n \in Node, NodeStatusChanges(n)
      PROVE  UNCHANGED agents
  BY <1>8 DEF NodeStatusChanges
<1>9. UNCHANGED vars => UNCHANGED agents
  BY DEF vars, agents
<1>10. Hangs => UNCHANGED agents
  BY HangsEffect
<1> QED BY <1>0, <1>1, <1>2, <1>3, <1>4, <1>5, <1>6, <1>7, <1>8, <1>9, <1>10
        DEF Next

\* A provisioner that is about to report success has created the database.
LEMMA ActivatorsHosted ==
    ASSUME ProvisioningTypeOK, HostedInv, [Next]_vars, NEW v \in Worker,
           workers'[v].pc = "activate"
    PROVE  CreatedAt(workers[v].db, workers[v].node)'
<1>p. WorkersOK /\ ClusterOK
  BY TypeParts
<1>g. \A d \in DB, n \in Node : CreatedAt(d, n) => CreatedAt(d, n)'
  BY CreatedKept
<1>1. CASE workers'[v] = workers[v]
  <2>1. /\ workers[v].db \in DB /\ workers[v].node \in Node
        /\ CreatedAt(workers[v].db, workers[v].node)
    BY <1>p, <1>1 DEF WorkersOK, WorkerOK, Placed, HostedInv
  <2> QED BY <1>1, <1>g, <2>1 DEF CreatedAt
<1>2. ASSUME NEW w \in Worker, NEW wk, wk.pc # "activate", Step(w, wk)
      PROVE  workers'[v] = workers[v]
  BY <1>p, <1>2 DEF Step, WorkersOK
<1>3. ASSUME NEW w \in Worker, ProvisionDatabase(w)
      PROVE  CreatedAt(workers[v].db, workers[v].node)'
  <2> DEFINE wk == workers[w]
  <2>0. wk \in WorkerState /\ Placed(wk) /\ (wk.pc # "idle" => wk.db \in DB)
    BY <1>p DEF WorkersOK, WorkerOK
  <2>a. NextAttempt(wk).pc # "activate"
    BY <2>0 DEF NextAttempt, WorkerState
  <2>t. NextAttempt([wk EXCEPT !.tried = @ \cup {wk.node}]).pc # "activate"
    BY <2>0 DEF NextAttempt, WorkerState
  <2>i. Idle.pc # "activate"
    BY DEF Idle
  <2>1. CASE CreateOk(w)
    <3>1. CASE v = w
      <4>1. wk.node \in Node /\ wk.db \in DB
        BY <2>0, <2>1 DEF CreateOk, Placed
      <4>2. workers'[v].db = wk.db /\ workers'[v].node = wk.node
        BY <1>p, <2>0, <2>1, <3>1 DEF CreateOk, Step, WorkersOK, WorkerState
      <4>3. wk.db \in hosted'[wk.node]
        BY <1>p, <2>1, <4>1 DEF CreateOk, Hosts, ClusterOK
      <4> QED BY <4>2, <4>3 DEF CreatedAt
    <3>2. CASE v # w
      <4>1. workers'[v] = workers[v]
        BY <1>p, <2>1, <3>2 DEF CreateOk, Step, WorkersOK
      <4> QED BY <1>1, <4>1
    <3> QED BY <3>1, <3>2
  <2>2. CASE Schedule(w)
    <3>1. PICK n \in Node : Step(w, [wk EXCEPT !.pc = "choose", !.node = n])
      BY <2>2 DEF Schedule
    <3>2. [wk EXCEPT !.pc = "choose", !.node = n].pc # "activate"
      BY <2>0 DEF WorkerState
    <3> QED BY <1>1, <1>2, <3>1, <3>2
  <2>3. CASE Choose(w)
    <3>1. PICK n : Step(w, [wk EXCEPT !.pc = "claim", !.node = n])
      BY <2>3 DEF Choose
    <3>2. [wk EXCEPT !.pc = "claim", !.node = n].pc # "activate"
      BY <2>0 DEF WorkerState
    <3> QED BY <1>1, <1>2, <3>1, <3>2
  <2>4. CASE Claim(w)
    <3>1. [wk EXCEPT !.pc = "create"].pc # "activate"
      BY <2>0 DEF WorkerState
    <3> QED BY <1>1, <1>2, <2>4, <3>1 DEF Claim
  <2>5. CASE ScheduleFails(w) \/ ChooseFails(w) \/ DialFails(w)
    BY <1>1, <1>2, <2>5, <2>a DEF ScheduleFails, ChooseFails, DialFails
  <2>6. CASE CreateRefused(w) \/ CreateTimesOut(w)
    BY <1>1, <1>2, <2>6, <2>t DEF CreateRefused, CreateTimesOut
  <2>7. CASE Activate(w) \/ Fail(w)
    BY <1>1, <1>2, <2>7, <2>i DEF Activate, Fail
  <2> QED BY <1>3, <2>1, <2>2, <2>3, <2>4, <2>5, <2>6, <2>7
          DEF ProvisionDatabase
<1>4. ASSUME NEW d \in DB, NEW w \in Worker, CreateDatabase(d, w)
      PROVE  workers'[v] = workers[v]
  <2>1. Started(d).pc # "activate"
    BY DEF Started
  <2> QED BY <1>2, <1>4, <2>1 DEF CreateDatabase
<1>5. ASSUME NEW e \in recon, NEW w \in Worker, ReconcileDispatch(e, w)
      PROVE  workers'[v] = workers[v]
  <2>1. Started(e.db).pc # "activate"
    BY DEF Started
  <2>2. UNCHANGED workers \/ Step(w, Started(e.db))
    BY <1>5 DEF ReconcileDispatch
  <2> QED BY <1>2, <2>1, <2>2
<1>6. ~ ControlPlaneCrash
  BY DEF ControlPlaneCrash, Idle
<1>7. ASSUME NEW d \in DB,
             \/ GatewayCreateDatabase(d) \/ GatewayDeleteDatabase(d) \/ Age(d)
             \/ \E t \in Deleter : DeleteDatabase(t, d)
      PROVE  UNCHANGED workers
  BY <1>7 DEF GatewayCreateDatabase, GatewayDeleteDatabase, Age, DeleteDatabase
<1>8. ASSUME NEW n \in Node, AgentForgets(n) \/ NodeStatusChanges(n)
      PROVE  UNCHANGED workers
  BY <1>8 DEF AgentForgets, NodeStatusChanges
<1>9. ASSUME NEW t \in Deleter, DeleteSteps(t)
      PROVE  UNCHANGED workers
  BY <1>9 DEF DeleteSteps, DeleteMark, DeleteAtAgent, DeleteRecord
<1>10. LateCreate \/ ReconcileList \/ UNCHANGED vars => UNCHANGED workers
  BY DEF LateCreate, ReconcileList, vars
<1>11. Hangs => workers'[v] = workers[v]
  <2>1. Idle.pc # "activate"
    BY DEF Idle
  <2> QED BY <1>2, <2>1, HangsEffect
<1> QED BY <1>1, <1>3, <1>4, <1>5, <1>6, <1>7, <1>8, <1>9, <1>10, <1>11
        DEF Next, Reconcile

\* Every step keeps HostedInv.
LEMMA HostedInvStep ==
    ASSUME ProvisioningTypeOK, RegistryInv, HostedInv, [Next]_vars
    PROVE  HostedInv'
<1>p. RegistryOK
  BY TypeParts
<1>g. \A d \in DB, n \in Node : CreatedAt(d, n) => CreatedAt(d, n)'
  BY CreatedKept
<1>w. (\A v \in Worker : workers[v].pc = "activate"
                           => CreatedAt(workers[v].db, workers[v].node))'
  BY ActivatorsHosted
<1> DEFINE CreatedNext(d, n) == d \in hosted'[n] \/ <<d, n>> \in dropped'
<1>c. \A d \in DB, n \in Node : CreatedAt(d, n) => CreatedNext(d, n)
  BY <1>g DEF CreatedAt
<1>k. \A d \in DB : rows[d].status = "active" => CreatedNext(d, rows[d].node)
  BY <1>c DEF HostedInv, ActiveIsHosted, RegistryInv, RegistryAgrees
<1>n. ActiveIsHosted' <=>
        \A d \in DB : rows'[d].status = "active" => CreatedNext(d, rows'[d].node)
  BY DEF ActiveIsHosted, CreatedAt
<1> HIDE DEF CreatedNext
<1>1. ActiveIsHosted'
  <2>1. CASE UNCHANGED registry
    BY <1>k, <1>n, <2>1 DEF registry
  <2>2. ASSUME NEW d \in DB, CreateDatabaseRecord(d)
        PROVE  ActiveIsHosted'
    BY <1>p, <1>k, <1>n, <2>2 DEF CreateDatabaseRecord, RegistryOK
  <2>3. ASSUME NEW d \in DB, DeleteDatabaseRecord(d)
        PROVE  ActiveIsHosted'
    BY <1>p, <1>k, <1>n, <2>3 DEF DeleteDatabaseRecord, Absent, registry, RegistryOK
  <2>4. ASSUME NEW d \in DB, Touch(d)
        PROVE  ActiveIsHosted'
    BY <1>p, <1>k, <1>n, <2>4 DEF Touch, UpdateDatabaseStatus, registry, RegistryOK
  <2>5. ASSUME NEW d \in DB, Aging(d)
        PROVE  ActiveIsHosted'
    BY <1>p, <1>k, <1>n, <2>5 DEF Aging, RegistryOK, Row
  <2>6. ASSUME NEW w \in Worker, Activation(w)
        PROVE  ActiveIsHosted'
    <3>1. CreatedNext(workers[w].db, workers[w].node)
      BY <1>c, <2>6 DEF Activation, HostedInv
    <3>2. workers[w].node # NoNode
      BY <2>6, ProvisioningConstants DEF Activation
    <3>3. \A d \in DB : \/ rows'[d] = rows[d]
                        \/ d = workers[w].db /\ rows'[d].node = workers[w].node
      BY <1>p, <2>6, <3>2
         DEF Activation, UpdateDatabaseStatus, registry, RegistryOK
    <3> QED BY <1>k, <1>n, <3>1, <3>3
  <2> QED BY <2>1, <2>2, <2>3, <2>4, <2>5, <2>6, StepsOnRegistry
          DEF RegistryStep
<1> QED BY <1>1, <1>w DEF HostedInv

\* An active database is hosted by the node its endpoint names unless that agent
\* has dropped it itself: for any number of provisioners racing for it, deletes,
\* timeouts, late answers, crashes and reconciler sweeps.
THEOREM ActiveHosted == Spec => []ActiveIsHosted
<1>1. Init => HostedInv /\ RegistryInv
  <2> SUFFICES ASSUME Init PROVE HostedInv /\ RegistryInv
    OBVIOUS
  <2>1. ActiveIsHosted
    BY DEF Init, ActiveIsHosted, Absent
  <2>2. \A w \in Worker : workers[w].pc = "idle"
    BY DEF Init, Idle
  <2>3. RegistryInv
    BY DEF Init, RegistryInv, RegistryAgrees, Absent
  <2> QED BY <2>1, <2>2, <2>3 DEF HostedInv
<1>2. ProvisioningTypeOK /\ RegistryInv /\ [Next]_vars => RegistryInv'
  BY RegistryInvStep
<1>3. ProvisioningTypeOK /\ RegistryInv /\ HostedInv /\ [Next]_vars
        => HostedInv'
  BY HostedInvStep
<1>4. HostedInv => ActiveIsHosted
  BY DEF HostedInv
<1> QED BY <1>1, <1>2, <1>3, <1>4, ProvisioningTypeCorrect, PTL DEF Spec

-----------------------------------------------------------------------------
(* The search for a node that takes the database *)

\* A provisioner has been refused on as many nodes as it has used up attempts,
\* and turns to one that has not refused yet; or there is none.
Searched(wk) ==
    wk.pc # "idle" =>
      \/ Node \subseteq wk.tried
      \/ /\ IF wk.pc = "fail" THEN MaxAttempts <= Cardinality(wk.tried)
            ELSE wk.attempts <= Cardinality(wk.tried) + 1
         /\ wk.pc \in {"claim", "create"} => wk.node \notin wk.tried

Refusers(d) == {n \in Node : Refuses(n, d)}

TriedRefused(wk) == wk.pc # "idle" => wk.tried \subseteq Refusers(wk.db)

SearchInv ==
    faults = 0 /\ Outable = {} =>
      /\ \A w \in Worker : Searched(workers[w]) /\ TriedRefused(workers[w])
      /\ \A d \in DB : rows[d].status = "failed" => Refused(d)

\* A set of nodes, and a node that is not in it.
LEMMA NodeSets ==
    ASSUME NEW S \in SUBSET Node
    PROVE  /\ IsFiniteSet(S) /\ Cardinality(S) \in Nat
           /\ \A n \in Node : n \notin S => Cardinality(S \cup {n}) = Cardinality(S) + 1
           /\ \A T \in SUBSET Node : S \subseteq T => Cardinality(S) <= Cardinality(T)
<1>1. IsFiniteSet(Node)
  BY ProvisioningConstants
<1>2. IsFiniteSet(S) /\ \A T \in SUBSET Node : IsFiniteSet(T)
  BY <1>1, FS_Subset
<1> QED BY <1>2, FS_CardinalityType, FS_AddElement, FS_Subset

\* A provisioner that has used up its attempts has been Refused.
LEMMA SearchedIsRefused ==
    ASSUME NEW wk \in WorkerState, wk.pc = "fail", Searched(wk), TriedRefused(wk)
    PROVE  Refused(wk.db)
<1>1. wk.tried \in SUBSET Node /\ wk.tried \subseteq Refusers(wk.db)
  BY DEF WorkerState, TriedRefused
<1>2. CASE Node \subseteq wk.tried
  BY <1>1, <1>2 DEF Refused, Refusers
<1>3. CASE MaxAttempts <= Cardinality(wk.tried)
  <2>1. Refusers(wk.db) \in SUBSET Node
    BY DEF Refusers
  <2>2. Cardinality(wk.tried) <= Cardinality(Refusers(wk.db))
        /\ Cardinality(wk.tried) \in Nat /\ Cardinality(Refusers(wk.db)) \in Nat
    BY <1>1, <2>1, NodeSets
  <2>3. Cardinality(Refusers(wk.db)) >= MaxAttempts
    BY <1>3, <2>2, ProvisioningConstants
  <2> QED BY <2>3 DEF Refused, Refusers
<1> QED BY <1>2, <1>3 DEF Searched

\* Being refused by the node it turned to uses up an attempt.
LEMMA RefusalSearched ==
    ASSUME NEW wk \in WorkerState, wk.pc = "create", wk.node \in Node, Searched(wk)
    PROVE  LET v == NextAttempt([wk EXCEPT !.tried = @ \cup {wk.node}]) IN
           Searched(v) /\ v.tried = wk.tried \cup {wk.node} /\ v.db = wk.db
<1> DEFINE u == [wk EXCEPT !.tried = @ \cup {wk.node}]
           v == NextAttempt(u)
<1>1. wk.tried \in SUBSET Node /\ wk.attempts \in Nat /\ MaxAttempts \in Nat
      /\ wk.attempts <= MaxAttempts
  BY ProvisioningConstants DEF WorkerState
<1>2. /\ u \in WorkerState /\ u.tried = wk.tried \cup {wk.node}
      /\ u.attempts = wk.attempts /\ u.db = wk.db
  BY DEF WorkerState
<1> HIDE DEF u
<1>3. /\ v.tried = wk.tried \cup {wk.node} /\ v.db = wk.db
      /\ \/ wk.attempts < MaxAttempts /\ v.pc = "schedule" /\ v.attempts = wk.attempts + 1
         \/ ~ (wk.attempts < MaxAttempts) /\ v.pc = "fail"
  BY <1>2 DEF NextAttempt, WorkerState
<1> HIDE DEF v
<1>4. Searched(v)
  <2>1. CASE Node \subseteq wk.tried
    BY <1>3, <2>1 DEF Searched
  <2>2. CASE ~ (Node \subseteq wk.tried)
    <3>1. wk.node \notin wk.tried /\ wk.attempts <= Cardinality(wk.tried) + 1
      BY <2>2 DEF Searched
    <3>2. Cardinality(v.tried) = Cardinality(wk.tried) + 1 /\ Cardinality(wk.tried) \in Nat
      BY <1>1, <1>3, <3>1, NodeSets
    <3>3. CASE v.pc = "fail"
      <4>1. MaxAttempts <= Cardinality(v.tried)
        BY <1>1, <1>3, <3>1, <3>2, <3>3
      <4> QED BY <3>3, <4>1 DEF Searched
    <3>4. CASE v.pc = "schedule" /\ v.attempts = wk.attempts + 1
      <4>1. v.attempts <= Cardinality(v.tried) + 1
        BY <1>1, <3>1, <3>2, <3>4
      <4> QED BY <3>4, <4>1 DEF Searched
    <3> QED BY <1>3, <3>3, <3>4
  <2> QED BY <2>1, <2>2
<1> QED BY <1>3, <1>4 DEF u, v

\* Every step of a provisioner, unless a call fails, keeps its search.
LEMMA SearchStep ==
    ASSUME ProvisioningTypeOK, NEW w \in Worker, ProvisionDatabase(w), faults = 0, faults' = 0,
           Outable = {}, Searched(workers[w]), TriedRefused(workers[w])
    PROVE  \E wk : Step(w, wk) /\ Searched(wk) /\ TriedRefused(wk)
<1> DEFINE wk == workers[w]
<1>p. WorkersOK /\ ClusterOK
  BY TypeParts
<1>0. wk \in WorkerState /\ Placed(wk) /\ (wk.pc # "idle" => wk.db \in DB)
  BY <1>p DEF WorkersOK, WorkerOK
<1>o. out = {}
  BY <1>p DEF ClusterOK
<1>f. ~ Fault
  BY DEF Fault
<1>g. Searched(wk) /\ TriedRefused(wk)
  OBVIOUS
<1>1. CASE Schedule(w)
  <2>1. wk.pc = "schedule"
    BY <1>1 DEF Schedule
  <2>2. PICK n \in Node : Step(w, [wk EXCEPT !.pc = "choose", !.node = n])
    BY <1>1 DEF Schedule
  <2> DEFINE v == [wk EXCEPT !.pc = "choose", !.node = n]
  <2>3. v.pc = "choose" /\ v.tried = wk.tried /\ v.attempts = wk.attempts /\ v.db = wk.db
    BY <1>0 DEF WorkerState
  <2>4. Step(w, v)
    BY <2>2
  <2> HIDE DEF v, wk
  <2>5. Searched(v) /\ TriedRefused(v)
    BY <1>g, <2>1, <2>3 DEF Searched, TriedRefused
  <2> QED BY <2>4, <2>5
<1>2. CASE ScheduleFails(w)
  <2>1. wk.pc = "schedule" /\ Step(w, NextAttempt(wk)) /\ Node = {}
    BY <1>2, <1>o, <1>f DEF ScheduleFails
  <2> DEFINE v == NextAttempt(wk)
  <2>2. v.tried = wk.tried /\ v.db = wk.db
    BY <1>0 DEF NextAttempt, WorkerState
  <2>3. Step(w, v)
    BY <2>1
  <2> HIDE DEF v, wk
  <2>4. Searched(v) /\ TriedRefused(v)
    BY <1>g, <2>1, <2>2 DEF Searched, TriedRefused
  <2> QED BY <2>3, <2>4
<1>3. CASE Choose(w)
  <2>1. wk.pc = "choose" /\ wk.node \in Node
    BY <1>0, <1>3 DEF Choose, Placed
  <2> DEFINE cs == IF wk.node \in wk.tried /\ Alternates(wk) # {} THEN Alternates(wk) ELSE {wk.node}
  <2>2. PICK n \in cs : Step(w, [wk EXCEPT !.pc = "claim", !.node = n])
    BY <1>3 DEF Choose
  <2>3. n \notin wk.tried \/ Node \subseteq wk.tried
    BY <1>o, <2>2 DEF Alternates
  <2> DEFINE v == [wk EXCEPT !.pc = "claim", !.node = n]
  <2>4. /\ v.pc = "claim" /\ v.tried = wk.tried /\ v.attempts = wk.attempts /\ v.db = wk.db
        /\ v.node = n
    BY <1>0 DEF WorkerState
  <2>5. Step(w, v)
    BY <2>2
  <2> HIDE DEF v, wk, cs
  <2>6. Searched(v) /\ TriedRefused(v)
    BY <1>g, <2>1, <2>3, <2>4 DEF Searched, TriedRefused
  <2> QED BY <2>5, <2>6
<1>4. CASE Claim(w)
  <2> DEFINE v == [wk EXCEPT !.pc = "create"]
  <2>1. wk.pc = "claim" /\ Step(w, v)
    BY <1>4 DEF Claim
  <2>2. /\ v.pc = "create" /\ v.tried = wk.tried /\ v.attempts = wk.attempts /\ v.db = wk.db
        /\ v.node = wk.node
    BY <1>0 DEF WorkerState
  <2> HIDE DEF v, wk
  <2>3. Searched(v) /\ TriedRefused(v)
    BY <1>g, <2>1, <2>2 DEF Searched, TriedRefused
  <2> QED BY <2>1, <2>3
<1>5. CASE CreateOk(w)
  <2> DEFINE v == [wk EXCEPT !.pc = "activate"]
  <2>1. wk.pc = "create" /\ Step(w, v)
    BY <1>5 DEF CreateOk
  <2>2. v.pc = "activate" /\ v.tried = wk.tried /\ v.attempts = wk.attempts /\ v.db = wk.db
    BY <1>0 DEF WorkerState
  <2> HIDE DEF v, wk
  <2>3. Searched(v) /\ TriedRefused(v)
    BY <1>g, <2>1, <2>2 DEF Searched, TriedRefused
  <2> QED BY <2>1, <2>3
<1>6. CASE CreateRefused(w)
  <2> DEFINE v == NextAttempt([wk EXCEPT !.tried = @ \cup {wk.node}])
  <2>1. wk.pc = "create" /\ Step(w, v) /\ Refuses(wk.node, wk.db) /\ wk.node \in Node
    BY <1>0, <1>6 DEF CreateRefused, Placed
  <2>2. Searched(v) /\ v.tried = wk.tried \cup {wk.node} /\ v.db = wk.db
    BY <1>0, <1>g, <2>1, RefusalSearched
  <2> HIDE DEF v, wk
  <2>3. TriedRefused(v)
    BY <1>g, <2>1, <2>2 DEF TriedRefused, Refusers
  <2> QED BY <2>1, <2>2, <2>3
<1>7. CASE Activate(w) \/ Fail(w)
  <2>1. Step(w, Idle) /\ Idle.pc = "idle"
    BY <1>7 DEF Activate, Fail, Idle
  <2> QED BY <2>1 DEF Searched, TriedRefused
<1>8. ~ ChooseFails(w) /\ ~ CreateTimesOut(w) /\ ~ DialFails(w)
  BY <1>f DEF ChooseFails, CreateTimesOut, DialFails
<1> QED BY <1>1, <1>2, <1>3, <1>4, <1>5, <1>6, <1>7, <1>8 DEF ProvisionDatabase

\* No request to delete, no deleter.
NoDeleters == "delete" \notin Requests => \A t \in Deleter : deleters[t].pc = "idle"

LEMMA NoDeletersStep ==
    ASSUME ProvisioningTypeOK, NoDeleters, [Next]_vars
    PROVE  NoDeleters'
<1> SUFFICES ASSUME "delete" \notin Requests PROVE \A t \in Deleter : deleters'[t].pc = "idle"
  BY DEF NoDeleters
<1>0. \A t \in Deleter : deleters[t].pc = "idle"
  BY DEF NoDeleters
<1>1. ASSUME NEW t \in Deleter, DeleteSteps(t) PROVE FALSE
  BY <1>0, <1>1 DEF DeleteSteps, DeleteMark, DeleteAtAgent, DeleteRecord
<1>2. ASSUME NEW t \in Deleter, NEW d \in DB, DeleteDatabase(t, d) PROVE FALSE
  BY <1>2 DEF DeleteDatabase
<1>3. CASE ControlPlaneCrash
  BY <1>3, SMTT(30) DEF ControlPlaneCrash, NotDeleting
<1>4. ASSUME NEW w \in Worker, ProvisionDatabase(w) PROVE UNCHANGED deleters
  BY <1>4 DEF ProvisionDatabase, Schedule, ScheduleFails, Choose, ChooseFails, Claim, CreateOk,
     CreateRefused, CreateTimesOut, DialFails, Activate, Fail, ElseUnchanged
<1>5. ASSUME NEW d \in DB,
             \/ GatewayCreateDatabase(d) \/ GatewayDeleteDatabase(d) \/ Age(d)
             \/ \E w \in Worker : CreateDatabase(d, w)
      PROVE UNCHANGED deleters
  BY <1>5 DEF GatewayCreateDatabase, GatewayDeleteDatabase, Age, CreateDatabase, ElseUnchanged
<1>6. ASSUME NEW e \in recon, NEW w \in Worker, ReconcileDispatch(e, w) PROVE UNCHANGED deleters
  BY <1>6 DEF ReconcileDispatch
<1>7. ASSUME NEW n \in Node, AgentForgets(n) \/ NodeStatusChanges(n) PROVE UNCHANGED deleters
  BY <1>7 DEF AgentForgets, NodeStatusChanges
<1>8. LateCreate \/ ReconcileList \/ UNCHANGED vars => UNCHANGED deleters
  BY DEF LateCreate, ReconcileList, vars
<1>9. CASE Hangs
  <2>1. CASE UNCHANGED deleters
    BY <1>0, <2>1
  <2>2. ASSUME NEW t \in Deleter, DeleterStep(t, NotDeleting)
        PROVE  \A v \in Deleter : deleters'[v].pc = "idle"
    BY <1>0, <2>2, TypeParts DEF DeleterStep, DeletersOK, NotDeleting
  <2> QED BY <1>9, <2>1, <2>2, HangsEffect
<1> QED BY <1>0, <1>1, <1>2, <1>3, <1>4, <1>5, <1>6, <1>7, <1>8, <1>9
        DEF Next, Reconcile

\* A step in which no call fails takes a database from an agent only at the
\* end of a deletion.
LEMMA HostedKept ==
    ASSUME ProvisioningTypeOK, [Next]_vars, faults = 0, faults' = 0,
           \A t \in Deleter : deleters[t].pc = "idle"
    PROVE  \A n \in Node : hosted[n] \subseteq hosted'[n]
<1>p. hosted \in [Node -> SUBSET DB] /\ WorkersOK /\ ClusterOK
  BY TypeParts DEF ClusterOK
<1>f. ~ Fault
  BY DEF Fault
<1>0. UNCHANGED hosted => \A n \in Node : hosted[n] \subseteq hosted'[n]
  OBVIOUS
<1>h. ASSUME NEW m, NEW c, Hosts(m, c) PROVE \A n \in Node : hosted[n] \subseteq hosted'[n]
  BY <1>p, <1>h DEF Hosts
<1>1. ASSUME NEW w \in Worker, ProvisionDatabase(w)
      PROVE  \A n \in Node : hosted[n] \subseteq hosted'[n]
  <2>1. CASE CreateOk(w)
    BY <1>h, <2>1, SMTT(30) DEF CreateOk
  <2>2. CASE ~ CreateOk(w)
    BY <1>0, <1>1, <2>2 DEF ProvisionDatabase, Schedule, ScheduleFails, Choose, ChooseFails,
       Claim, CreateRefused, CreateTimesOut, DialFails, Activate, Fail, agents
  <2> QED BY <2>1, <2>2
<1>2. CASE LateCreate
  BY <1>0, <1>h, <1>2 DEF LateCreate, agents
<1>3. ASSUME NEW t \in Deleter, DeleteSteps(t) PROVE FALSE
  BY <1>3 DEF DeleteSteps, DeleteMark, DeleteAtAgent, DeleteRecord
<1>4. ASSUME NEW d \in DB,
             \/ GatewayCreateDatabase(d) \/ GatewayDeleteDatabase(d) \/ Age(d)
             \/ \E w \in Worker : CreateDatabase(d, w)
             \/ \E t \in Deleter : DeleteDatabase(t, d)
      PROVE UNCHANGED hosted
  BY <1>4 DEF GatewayCreateDatabase, GatewayDeleteDatabase, Age, CreateDatabase, DeleteDatabase,
     agents
<1>5. ASSUME NEW e \in recon, NEW w \in Worker, ReconcileDispatch(e, w) PROVE UNCHANGED hosted
  BY <1>5 DEF ReconcileDispatch, agents
<1>6. ASSUME NEW n \in Node, NodeStatusChanges(n) PROVE UNCHANGED hosted
  BY <1>6 DEF NodeStatusChanges, agents
<1>7. ASSUME NEW n \in Node, AgentForgets(n) PROVE FALSE
  BY <1>f, <1>7 DEF AgentForgets
<1>8. ~ ControlPlaneCrash
  BY <1>f DEF ControlPlaneCrash
<1>9. ReconcileList \/ UNCHANGED vars => UNCHANGED hosted
  BY DEF ReconcileList, vars, agents
<1>10. ~ Hangs
  BY <1>f, HangsEffect
<1> QED BY <1>0, <1>1, <1>2, <1>3, <1>4, <1>5, <1>6, <1>7, <1>8, <1>9, <1>10
        DEF Next, Reconcile

\* Distinct names, or no deletions: a node that refuses goes on refusing.
NamesStay == \/ \A d, e \in DB : NameOf[d] = NameOf[e] => d = e
             \/ "delete" \notin Requests

LEMMA RefusersKept ==
    ASSUME ProvisioningTypeOK, NoDeleters, [Next]_vars, faults = 0, faults' = 0, NamesStay
    PROVE  \A n \in Node, d \in DB : Refuses(n, d) => Refuses(n, d)'
<1>p. hosted \in [Node -> SUBSET DB]
  BY TypeParts DEF ClusterOK
<1>1. CASE \A d, e \in DB : NameOf[d] = NameOf[e] => d = e
  <2>1. \A n \in Node, d \in DB : Refuses(n, d) => n \in Bad
    BY <1>p, <1>1 DEF Refuses
  <2> QED BY <2>1 DEF Refuses
<1>2. CASE "delete" \notin Requests
  <2>1. \A n \in Node : hosted[n] \subseteq hosted'[n]
    BY <1>2, HostedKept DEF NoDeleters
  <2> QED BY <2>1 DEF Refuses
<1> QED BY <1>1, <1>2 DEF NamesStay

LEMMA RefusedKept ==
    ASSUME NEW d, \A n \in Node : Refuses(n, d) => Refuses(n, d)', Refused(d)
    PROVE  Refused(d)'
<1> DEFINE S == {n \in Node : Refuses(n, d)}
           T == {n \in Node : Refuses(n, d)'}
<1>1. S \in SUBSET Node /\ T \in SUBSET Node /\ S \subseteq T
  OBVIOUS
<1>2. CASE \A n \in Node : Refuses(n, d)
  BY <1>2 DEF Refused
<1>3. CASE Cardinality(S) >= MaxAttempts
  <2> HIDE DEF S, T
  <2>1. Cardinality(S) <= Cardinality(T) /\ Cardinality(S) \in Nat /\ Cardinality(T) \in Nat
    BY <1>1, NodeSets
  <2>2. Cardinality(T) >= MaxAttempts
    BY <1>3, <2>1, ProvisioningConstants
  <2> QED BY <2>2 DEF Refused, T
<1> QED BY <1>2, <1>3 DEF Refused

\* A row turns to failed only when a provisioner has given up.
LEMMA FailedRows ==
    ASSUME ProvisioningTypeOK, [Next]_vars, NEW d \in DB, rows'[d].status = "failed"
    PROVE  \/ rows[d].status = "failed"
           \/ \E w \in Worker : workers[w].pc = "fail" /\ workers[w].db = d
<1> DEFINE Was == rows[d].status = "failed"
<1>p. RegistryOK /\ rows \in [DB -> Row]
  BY TypeParts DEF RegistryOK
<1>0. rows' = rows => Was
  OBVIOUS
<1>u. ASSUME NEW c, NEW s, NEW n, NEW e, NEW a, UpdateDatabaseStatus(c, s, n, e, a),
             s # "failed" \/ c # d
      PROVE  Was
  <2>1. CASE c = d
    BY <1>p, <1>u, <2>1 DEF UpdateDatabaseStatus, registry
  <2>2. CASE c # d
    BY <1>p, <1>u, <2>2 DEF UpdateDatabaseStatus, registry
  <2> QED BY <2>1, <2>2
<1>1. ASSUME NEW w \in Worker, ProvisionDatabase(w)
      PROVE  Was \/ (workers[w].pc = "fail" /\ workers[w].db = d)
  <2>1. CASE Claim(w)
    BY <1>0, <1>u, <2>1 DEF Claim, registry
  <2>2. CASE Activate(w)
    BY <1>0, <1>u, <2>2 DEF Activate, registry
  <2>3. CASE Fail(w)
    BY <1>0, <1>u, <2>3, SMTT(30) DEF Fail, registry
  <2>4. CASE ~ (Claim(w) \/ Activate(w) \/ Fail(w))
    BY <1>0, <1>1, <2>4 DEF ProvisionDatabase, Schedule, ScheduleFails, Choose, ChooseFails,
       CreateOk, CreateRefused, CreateTimesOut, DialFails, registry
  <2> QED BY <2>1, <2>2, <2>3, <2>4
<1>2. ASSUME NEW t \in Deleter, DeleteSteps(t) PROVE Was
  <2>1. CASE DeleteMark(t)
    BY <1>0, <1>u, <2>1 DEF DeleteMark, registry
  <2>2. CASE DeleteAtAgent(t)
    BY <1>0, <2>2 DEF DeleteAtAgent, registry
  <2>3. CASE DeleteRecord(t)
    BY <1>0, <1>p, <2>3 DEF DeleteRecord, DeleteDatabaseRecord, Absent, registry
  <2> QED BY <1>2, <2>1, <2>2, <2>3 DEF DeleteSteps
<1>3. ASSUME NEW c \in DB,
             GatewayCreateDatabase(c) \/ \E w \in Worker : CreateDatabase(c, w)
      PROVE  Was
  BY <1>p, <1>3 DEF GatewayCreateDatabase, CreateDatabase, CreateDatabaseRecord
<1>4. ASSUME NEW c \in DB, GatewayDeleteDatabase(c) PROVE Was
  BY <1>p, <1>4 DEF GatewayDeleteDatabase, DeleteDatabaseRecord, Absent
<1>5. ASSUME NEW c \in DB, Age(c) PROVE Was
  BY <1>p, <1>5 DEF Age, Row
<1>6. ASSUME NEW e \in recon, NEW w \in Worker, ReconcileDispatch(e, w) PROVE Was
  BY <1>0, <1>u, <1>6 DEF ReconcileDispatch, registry
<1>7. ASSUME NEW n \in Node, AgentForgets(n) \/ NodeStatusChanges(n) PROVE Was
  BY <1>0, <1>7 DEF AgentForgets, NodeStatusChanges, registry
<1>8. ASSUME NEW t \in Deleter, NEW c \in DB, DeleteDatabase(t, c) PROVE Was
  BY <1>0, <1>8 DEF DeleteDatabase, registry
<1>9. LateCreate \/ ReconcileList \/ ControlPlaneCrash \/ UNCHANGED vars => Was
  BY <1>0 DEF LateCreate, ReconcileList, ControlPlaneCrash, vars, registry
<1>10. CASE Hangs
  <2>1. ASSUME NEW w \in Worker, ProvisionHangs(w) PROVE Was
    BY <1>0, <1>u, <2>1 DEF ProvisionHangs, registry
  <2>2. ASSUME NEW t \in Deleter, DeleteHangs(t) PROVE Was
    BY <1>0, <1>u, <2>2 DEF DeleteHangs, registry
  <2>3. ASSUME ReconcileHangs PROVE Was
    BY <1>0, <1>u, <2>3 DEF ReconcileHangs, registry
  <2> QED BY <1>10, <2>1, <2>2, <2>3 DEF Hangs
<1> QED BY <1>1, <1>2, <1>3, <1>4, <1>5, <1>6, <1>7, <1>8, <1>9, <1>10
        DEF Next, Reconcile

\* The count of failed calls never falls.
LEMMA FaultsGrow ==
    ASSUME ProvisioningTypeOK, [Next]_vars, faults' = 0
    PROVE  faults = 0
<1>p. faults \in Nat
  BY TypeParts, ProvisioningConstants DEF CountersOK
<1>f. ~ Fault
  BY <1>p, SMTT(30) DEF Fault
<1>1. ASSUME NEW w \in Worker, ProvisionDatabase(w) PROVE UNCHANGED faults
  BY <1>f, <1>1 DEF ProvisionDatabase, Schedule, ScheduleFails, Choose, ChooseFails, Claim,
     CreateOk, CreateRefused, CreateTimesOut, DialFails, Activate, Fail, NoFault
<1>2. ASSUME NEW t \in Deleter, DeleteSteps(t) PROVE UNCHANGED faults
  BY <1>f, <1>2 DEF DeleteSteps, DeleteMark, DeleteAtAgent, DeleteRecord, NoFault
<1>3. ASSUME NEW d \in DB,
             \/ GatewayCreateDatabase(d) \/ GatewayDeleteDatabase(d) \/ Age(d)
             \/ \E w \in Worker : CreateDatabase(d, w)
             \/ \E t \in Deleter : DeleteDatabase(t, d)
      PROVE  UNCHANGED faults
  BY <1>3 DEF GatewayCreateDatabase, GatewayDeleteDatabase, Age, CreateDatabase, DeleteDatabase
<1>4. ASSUME NEW e \in recon, NEW w \in Worker, ReconcileDispatch(e, w) PROVE UNCHANGED faults
  BY <1>f, <1>4 DEF ReconcileDispatch, NoFault
<1>5. ASSUME NEW n \in Node, AgentForgets(n) \/ NodeStatusChanges(n) PROVE UNCHANGED faults
  BY <1>f, <1>5 DEF AgentForgets, NodeStatusChanges
<1>6. LateCreate \/ ReconcileList \/ ControlPlaneCrash \/ UNCHANGED vars => UNCHANGED faults
  BY <1>f DEF LateCreate, ReconcileList, ControlPlaneCrash, vars
<1>7. ~ Hangs
  BY <1>f, HangsEffect
<1> QED BY <1>1, <1>2, <1>3, <1>4, <1>5, <1>6, <1>7 DEF Next, Reconcile

\* Without a failing call every step keeps the search of every provisioner.
LEMMA SearchersKept ==
    ASSUME ProvisioningTypeOK, [Next]_vars, faults = 0, faults' = 0, Outable = {},
           \A w \in Worker : Searched(workers[w]) /\ TriedRefused(workers[w])
    PROVE  \A w \in Worker : Searched(workers'[w]) /\ TriedRefused(workers'[w])
<1> DEFINE Good(wk) == Searched(wk) /\ TriedRefused(wk)
           Kept == \A w \in Worker : Good(workers'[w])
<1>p. workers \in [Worker -> WorkerState]
  BY TypeParts DEF WorkersOK
<1>f. ~ Fault
  BY DEF Fault
<1>g. \A w \in Worker : Good(workers[w])
  OBVIOUS
<1>s. \A d : Good(Started(d))
  <2> TAKE d
  <2>1. Started(d).pc = "schedule" /\ Started(d).tried = {} /\ Started(d).attempts = 1
    BY DEF Started
  <2>2. Cardinality({}) = 0
    BY FS_EmptySet
  <2> QED BY <2>1, <2>2 DEF Searched, TriedRefused
<1> HIDE DEF Good
<1>0. UNCHANGED workers => Kept
  BY <1>g
<1>t. ASSUME NEW w \in Worker, NEW wk, Step(w, wk), Good(wk) PROVE Kept
  BY <1>p, <1>g, <1>t DEF Step
<1>1. ASSUME NEW w \in Worker, ProvisionDatabase(w) PROVE Kept
  <2>1. Searched(workers[w]) /\ TriedRefused(workers[w])
    OBVIOUS
  <2>2. PICK wk : Step(w, wk) /\ Searched(wk) /\ TriedRefused(wk)
    BY <1>1, <2>1, SearchStep
  <2> QED BY <1>t, <2>2 DEF Good
<1>2. ASSUME NEW d \in DB, NEW w \in Worker, CreateDatabase(d, w) PROVE Kept
  BY <1>s, <1>t, <1>2 DEF CreateDatabase
<1>3. ASSUME NEW e \in recon, NEW w \in Worker, ReconcileDispatch(e, w) PROVE Kept
  <2>1. UNCHANGED workers \/ Step(w, Started(e.db))
    BY <1>3 DEF ReconcileDispatch
  <2> QED BY <1>0, <1>s, <1>t, <2>1
<1>4. ASSUME NEW d \in DB,
             \/ GatewayCreateDatabase(d) \/ GatewayDeleteDatabase(d) \/ Age(d)
             \/ \E t \in Deleter : DeleteDatabase(t, d)
      PROVE  Kept
  BY <1>0, <1>4 DEF GatewayCreateDatabase, GatewayDeleteDatabase, Age, DeleteDatabase
<1>5. ASSUME NEW t \in Deleter, DeleteSteps(t) PROVE Kept
  BY <1>0, <1>5 DEF DeleteSteps, DeleteMark, DeleteAtAgent, DeleteRecord
<1>6. ASSUME NEW n \in Node, AgentForgets(n) \/ NodeStatusChanges(n) PROVE Kept
  BY <1>0, <1>6 DEF AgentForgets, NodeStatusChanges
<1>7. ~ ControlPlaneCrash
  BY <1>f DEF ControlPlaneCrash
<1>8. LateCreate \/ ReconcileList \/ UNCHANGED vars => Kept
  BY <1>0 DEF LateCreate, ReconcileList, vars
<1>9. ~ Hangs
  BY <1>f, HangsEffect
<1>10. Kept
  BY <1>1, <1>2, <1>3, <1>4, <1>5, <1>6, <1>7, <1>8, <1>9 DEF Next, Reconcile
<1> QED BY <1>10 DEF Good

\* Every step keeps SearchInv.
LEMMA SearchInvStep ==
    ASSUME ProvisioningTypeOK, NoDeleters, SearchInv, [Next]_vars, NamesStay
    PROVE  SearchInv'
<1> SUFFICES ASSUME faults' = 0, Outable = {}
             PROVE  /\ \A w \in Worker : Searched(workers'[w]) /\ TriedRefused(workers[w])'
                    /\ \A d \in DB : rows'[d].status = "failed" => Refused(d)'
  BY DEF SearchInv, Searched
<1>0. faults = 0
  BY FaultsGrow
<1>1. /\ \A w \in Worker : Searched(workers[w]) /\ TriedRefused(workers[w])
      /\ \A d \in DB : rows[d].status = "failed" => Refused(d)
  BY <1>0 DEF SearchInv
<1>2. \A n \in Node, d \in DB : Refuses(n, d) => Refuses(n, d)'
  BY <1>0, RefusersKept
<1>3. \A w \in Worker : Searched(workers'[w]) /\ TriedRefused(workers'[w])
  BY <1>0, <1>1, SearchersKept
<1>4. \A w \in Worker : workers'[w].pc # "idle" => workers'[w].db \in DB
  <2>1. ProvisioningTypeOK'
    BY TypeStep
  <2> QED BY <2>1 DEF ProvisioningTypeOK
<1>5. ASSUME NEW w \in Worker PROVE TriedRefused(workers[w])'
  BY <1>2, <1>3, <1>4 DEF TriedRefused, Refusers
<1>6. ASSUME NEW d \in DB, rows'[d].status = "failed" PROVE Refused(d)'
  <2>1. CASE rows[d].status = "failed"
    BY <1>1, <1>2, <2>1, RefusedKept
  <2>2. CASE \E w \in Worker : workers[w].pc = "fail" /\ workers[w].db = d
    <3>1. PICK w \in Worker : workers[w].pc = "fail" /\ workers[w].db = d
      BY <2>2
    <3>2. workers[w] \in WorkerState
      BY TypeParts DEF WorkersOK
    <3>3. Refused(d)
      BY <1>1, <3>1, <3>2, SearchedIsRefused
    <3> QED BY <1>2, <3>3, RefusedKept
  <2> QED BY <1>6, <2>1, <2>2, FailedRows
<1> QED BY <1>3, <1>5, <1>6

\* "A failed node should not be retried while another eligible node is
\* available" (orchestrator.go:82): for any number of nodes, attempts and racing
\* provisioners, a database is marked failed only when all nodes refuse it, or
\* as many of them as there are attempts.  The names must be distinct, or the
\* control plane not asked to delete: a deletion frees the name on a node that
\* refused it, and the provisioner does not ask that node again.
THEOREM GoodNodeAlwaysFound ==
    ASSUME NamesStay
    PROVE  Spec => []GoodNodeFound
<1>1. Init => NoDeleters /\ SearchInv
  BY DEF Init, NoDeleters, SearchInv, NotDeleting, Idle, Absent, Searched, TriedRefused
<1>2. ProvisioningTypeOK /\ NoDeleters /\ [Next]_vars => NoDeleters'
  BY NoDeletersStep
<1>3. ProvisioningTypeOK /\ NoDeleters /\ SearchInv /\ [Next]_vars => SearchInv'
  BY SearchInvStep
<1>4. SearchInv => GoodNodeFound
  BY DEF SearchInv, GoodNodeFound
<1> QED BY <1>1, <1>2, <1>3, <1>4, ProvisioningTypeCorrect, PTL DEF Spec
=============================================================================
