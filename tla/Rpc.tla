-------------------------------- MODULE Rpc ---------------------------------
(***************************************************************************)
(* A call from one service to another: the generated client stub behind    *)
(* UnaryClientInterceptor, the network, UnaryServerInterceptor with the    *)
(* server's role map, the generated handler, the service's checks of the   *)
(* message, and the way back.  A caller may give up at its deadline while  *)
(* the server goes on; a call may be lost on either way; nobody retries at *)
(* this level.  What the handlers do otherwise is in the services' own     *)
(* modules; here a handler has run or it has not.                          *)
(***************************************************************************)
EXTENDS Credentials, Messages, FiniteSets

CONSTANTS
    CallSlot,      \* calls in flight at one time
    Linked,        \* the wired calls of this instance
    MaxCalls,      \* bound: calls in a behaviour
    MaxRpcTime     \* bound: ticks in a behaviour

VARIABLES
    rpcNow,        \* ticks since the start
    calls,         \* what each call is doing
    begun,         \* calls begun so far
    limiter        \* the bucket of each client id at each server

rpcVars == <<rpcNow, calls, begun, limiter>>

-----------------------------------------------------------------------------
(* The services: method, messages, and the generated handlers' names *)

Method(in, out) == [in |-> in, out |-> out]

MetadataService ==
    [RegisterNode |-> Method(RegisterNodeRequest, RegisterNodeResponse),
     SendHeartbeat |-> Method(SendHeartbeatRequest, SendHeartbeatResponse),
     GetNodes |-> Method(GetNodesRequest, GetNodesResponse),
     CreateDatabaseRecord |->
        Method(CreateDatabaseRecordRequest, CreateDatabaseRecordResponse),
     UpdateDatabaseStatus |->
        Method(UpdateDatabaseStatusRequest, UpdateDatabaseStatusResponse),
     GetDatabase |-> Method(GetDatabaseRequest, GetDatabaseResponse),
     ListDatabases |-> Method(ListDatabasesRequest, ListDatabasesResponse),
     DeleteDatabaseRecord |->
        Method(DeleteDatabaseRecordRequest, DeleteDatabaseRecordResponse),
     UpdateNodeStatus |->
        Method(UpdateNodeStatusRequest, UpdateNodeStatusResponse)]

SchedulerService == [Schedule |-> Method(ScheduleRequest, ScheduleResponse)]

NodeAgent ==
    [CreateDatabase |-> Method(CreateDatabaseRequest, CreateDatabaseResponse),
     DeleteDatabase |-> Method(DeleteDatabaseRequest, DeleteDatabaseResponse),
     BackupDatabase |-> Method(BackupDatabaseRequest, BackupDatabaseResponse),
     RestoreDatabase |->
        Method(RestoreDatabaseRequest, RestoreDatabaseResponse),
     InsertVector |-> Method(InsertVectorRequest, InsertVectorResponse),
     SearchVector |-> Method(SearchVectorRequest, SearchVectorResponse),
     DrainNode |-> Method(DrainNodeRequest, DrainNodeResponse)]

DeploymentControllerService ==
    [StartDeployment |->
        Method(StartDeploymentRequest, StartDeploymentResponse),
     GetDeploymentStatus |->
        Method(GetDeploymentStatusRequest, GetDeploymentStatusResponse),
     TriggerRollback |->
        Method(TriggerRollbackRequest, TriggerRollbackResponse),
     DrainNode |-> Method(OpsDrainNodeRequest, OpsDrainNodeResponse)]

CapacityPlannerService ==
    [PredictCapacity |->
        Method(PredictCapacityRequest, PredictCapacityResponse)]

SLAMonitorService ==
    [RecordEvent |-> Method(RecordEventRequest, RecordEventResponse),
     GetSLAReport |-> Method(GetSLAReportRequest, GetSLAReportResponse)]

Service ==
    [metadata |-> MetadataService, scheduler |-> SchedulerService,
     agent |-> NodeAgent, deployment |-> DeploymentControllerService,
     capacity |-> CapacityPlannerService, sla |-> SLAMonitorService]

-----------------------------------------------------------------------------
(* The calls the services are wired to make: who, as which role, to which   *)
(* server, and the fields always and possibly set.                          *)

Stub(client, role, server, method, sends, may) ==
    [client |-> client, role |-> role, server |-> server, method |-> method,
     sends |-> sends, may |-> may]

GatewayCalls ==
    LET meta(m, sends, may) == Stub("gateway", "read-only", "metadata", m, sends, may)
    IN {meta("GetNodes", {}, {}),
        meta("CreateDatabaseRecord", {"name", "cluster_id", "status", "attempts"}, {}),
        meta("GetDatabase", {"database_id"}, {}),
        meta("ListDatabases", {}, {"cluster_id"}),
        meta("DeleteDatabaseRecord", {"database_id"}, {}),
        Stub("gateway", "operator", "agent", "InsertVector",
             {"database_id", "id"}, {"embedding"}),
        Stub("gateway", "read-only", "agent", "SearchVector",
             {"database_id"}, {"query_embedding"})}

SchedulerCalls ==
    {Stub("scheduler", "read-only", "metadata", "GetNodes", {"cluster_id"}, {})}

ControlPlaneCalls ==
    LET meta(m, sends, may) == Stub("control-plane", "admin", "metadata", m, sends, may)
    IN {meta("GetNodes", {}, {"cluster_id"}),
        meta("CreateDatabaseRecord", {"name", "cluster_id", "status", "attempts"}, {}),
        meta("GetDatabase", {"database_id"}, {}),
        meta("ListDatabases", {}, {"cluster_id"}),
        meta("UpdateDatabaseStatus", {"database_id", "status"},
             {"node_id", "endpoint", "attempts"}),
        meta("DeleteDatabaseRecord", {"database_id"}, {})}

ControlPlaneAgentCalls ==
    {Stub("control-plane", "operator", "agent", "CreateDatabase",
          {"name", "database_id"}, {}),
     Stub("control-plane", "operator", "agent", "DeleteDatabase",
          {"database_id"}, {})}

PlacementCalls ==
    {Stub("control-plane", "operator", "scheduler", "Schedule", {"cluster_id"}, {})}

WorkerCalls ==
    {Stub("worker-node", "operator", "metadata", "RegisterNode",
          {"cluster_id", "hostname"}, {}),
     Stub("worker-node", "operator", "metadata", "GetNodes", {"cluster_id"}, {}),
     Stub("worker-node", "operator", "metadata", "SendHeartbeat",
          {"node_id", "healthy"}, {"cpu_pct", "memory_pct", "disk_pct"})}

\* Calls no service makes, from an operator's tools, with any fields or none.
OperationsCalls ==
    {Stub("tools", "admin", t[1], t[2], {}, Service[t[1]][t[2]].in) :
        t \in ({"deployment"} \X DOMAIN DeploymentControllerService)
         \cup ({"capacity"} \X DOMAIN CapacityPlannerService)
         \cup ({"sla"} \X DOMAIN SLAMonitorService)
         \cup ({"agent"} \X {"BackupDatabase", "RestoreDatabase", "DrainNode"})
         \cup {<<"metadata", "UpdateNodeStatus">>}}

Wired == GatewayCalls \cup SchedulerCalls \cup ControlPlaneCalls
         \cup ControlPlaneAgentCalls \cup PlacementCalls \cup WorkerCalls
         \cup OperationsCalls

ASSUME RpcConstants == Linked \subseteq Wired

-----------------------------------------------------------------------------
(* Roles: a server's map is keyed by full method names, package first. *)

Package == [metadata |-> "metadata", scheduler |-> "metadata",
            agent |-> "nodeagent", deployment |-> "operations",
            capacity |-> "operations", sla |-> "operations"]

MetaRoleMap ==
    [m \in DOMAIN MetadataService |->
        CASE m \in {"GetNodes", "GetDatabase", "ListDatabases"} -> "read-only"
          [] m = "UpdateNodeStatus" -> "admin"
          [] OTHER -> "operator"]

SchedRoleMap == [Schedule |-> "operator"]

NodeRoleMap ==
    [m \in DOMAIN NodeAgent |->
        CASE m = "SearchVector" -> "read-only"
          [] m = "DrainNode" -> "admin"
          [] OTHER -> "operator"]

DeployRoleMap ==
    [m \in DOMAIN DeploymentControllerService |->
        IF m = "GetDeploymentStatus" THEN "read-only" ELSE "admin"]

CapRoleMap == [PredictCapacity |-> "read-only"]

SlaRoleMap == [RecordEvent |-> "operator", GetSLAReport |-> "read-only"]

RoleMap == [metadata |-> MetaRoleMap, scheduler |-> SchedRoleMap,
            agent |-> NodeRoleMap, deployment |-> DeployRoleMap,
            capacity |-> CapRoleMap, sla |-> SlaRoleMap]

\* The maps say /proto.Service/Method, a call is /package.Service/Method, and
\* a name the map does not have asks for read-only.
RequiredRole(server, method) ==
    IF Package[server] = "proto" THEN RoleMap[server][method] ELSE "read-only"

-----------------------------------------------------------------------------
(* A call *)

Refusals == {"Unauthenticated", "ResourceExhausted", "PermissionDenied",
             "InvalidArgument", "Unimplemented"}

NoCall == [wired |-> BadToken, msg |-> NoFields, token |-> BadToken,
           client |-> "idle", server |-> "idle", code |-> "", out |-> NoFields,
           ran |-> 0]

RpcInit ==
    /\ rpcNow = 0
    /\ calls = [c \in CallSlot |-> NoCall]
    /\ begun = 0
    /\ limiter = [s \in DOMAIN Service |-> [i \in {w.client : w \in Linked} |-> NoBucket]]

\* A stub's method: the interceptor signs a token for its service and role,
\* the message is encoded and sent.
Invoke(c, w, extra) ==
    /\ calls[c].client # "waiting" /\ calls[c].server \in {"idle", "done"}
    /\ begun < MaxCalls
    /\ begun' = begun + 1
    /\ calls' = [calls EXCEPT ![c] =
         [wired |-> w, msg |-> w.sends \cup extra,
          token |-> IssueToken(w.client, w.role, rpcNow), client |-> "waiting",
          server |-> "queued", code |-> "", out |-> NoFields, ran |-> 0]]
    /\ UNCHANGED <<rpcNow, limiter>>

Answers(c, code, out, ran) ==
    calls' = [calls EXCEPT ![c] =
        [calls[c] EXCEPT !.server = "answered", !.code = code, !.out = out,
                         !.ran = calls[c].ran + ran]]

\* Mutant: the handler has run before the limit is asked.
InterceptLate(c) ==
    LET r == calls[c]  b == limiter[r.wired.server][r.token.sub] IN
    /\ r.server = "queued"
    /\ limiter' = [limiter EXCEPT ![r.wired.server][r.token.sub] = Allow(b, r.token.role)]
    /\ IF Allowed(b) THEN calls' = [calls EXCEPT ![c].server = "admitted"]
       ELSE Answers(c, "ResourceExhausted", NoFields, 1)
    /\ UNCHANGED <<rpcNow, begun>>

\* UnaryServerInterceptor, straight through: token, limit, role.
Intercept(c) ==
    LET r == calls[c]  b == limiter[r.wired.server][r.token.sub] IN
    /\ r.server = "queued"
    /\ IF ~ VerifyToken(r.token, rpcNow)
       THEN Answers(c, "Unauthenticated", NoFields, 0) /\ UNCHANGED limiter
       ELSE /\ limiter' = [limiter EXCEPT ![r.wired.server][r.token.sub] =
                                Allow(b, r.token.role)]
            /\ IF ~ Allowed(b) THEN Answers(c, "ResourceExhausted", NoFields, 0)
               ELSE IF ~ RoleSatisfies(r.token.role,
                                       RequiredRole(r.wired.server, r.wired.method))
               THEN Answers(c, "PermissionDenied", NoFields, 0)
               ELSE calls' = [calls EXCEPT ![c].server = "admitted"]
    /\ UNCHANGED <<rpcNow, begun>>

\* What the services ask for as not empty, and answer InvalidArgument without.
Demanded(method) ==
    CASE method = "RegisterNode" -> {"cluster_id", "hostname"}
      [] method = "SendHeartbeat" -> {"node_id"}
      [] method = "CreateDatabaseRecord" -> {"name", "cluster_id", "status"}
      [] method = "UpdateDatabaseStatus" -> {"database_id", "status"}
      [] method \in {"GetDatabase", "DeleteDatabaseRecord"} -> {"database_id"}
      [] method = "UpdateNodeStatus" -> {"node_id", "status"}
      [] method = "Schedule" -> {"cluster_id"}
      [] method = "CreateDatabase" -> {"name", "database_id"}
      [] method = "DeleteDatabase" -> {"database_id"}
      [] method = "InsertVector" -> {"id"}
      [] OTHER -> NoFields

\* The generated handler decodes the message and calls the service, which
\* refuses it, fails, or does its work; Internal stands for every code of a
\* failure.  The methods not written yet are the agent's backup and restore.
Handle(c) ==
    LET r == calls[c]  m == r.wired.method  s == r.wired.server IN
    /\ r.server = "admitted"
    /\ \/ /\ ~ \A f \in Demanded(m) : Carries(r.msg, f)
          /\ Answers(c, "InvalidArgument", NoFields, 0)
       \/ /\ \A f \in Demanded(m) : Carries(r.msg, f)
          /\ IF m \in {"BackupDatabase", "RestoreDatabase"}
             THEN Answers(c, "Unimplemented", NoFields, 0)
             ELSE \/ Answers(c, "OK", Service[s][m].out \ {"error"}, 1)
                  \/ \E did \in {0, 1} : Answers(c, "Internal", NoFields, did)
    /\ UNCHANGED <<rpcNow, begun, limiter>>

Return(c) ==
    /\ calls[c].client = "waiting" /\ calls[c].server = "answered"
    /\ calls' = [calls EXCEPT ![c].server = "done", ![c].client = calls[c].code]
    /\ UNCHANGED <<rpcNow, begun, limiter>>

\* The deadline passes, or the connection breaks: the stub returns an error
\* and no message.
GiveUp(c) ==
    /\ calls[c].client = "waiting"
    /\ calls' = [calls EXCEPT ![c].client = "DeadlineExceeded"]
    /\ UNCHANGED <<rpcNow, begun, limiter>>

\* The request never gets there, or the answer does not get back.
Drop(c) ==
    /\ calls[c].server \in {"queued", "answered"}
    /\ calls' = [calls EXCEPT ![c].server = "done"]
    /\ UNCHANGED <<rpcNow, begun, limiter>>

RpcTick ==
    /\ rpcNow < MaxRpcTime
    /\ rpcNow' = rpcNow + 1
    /\ limiter' = [s \in DOMAIN limiter |->
                     [i \in DOMAIN limiter[s] |-> Aged(limiter[s][i])]]
    /\ UNCHANGED <<calls, begun>>

RpcNext ==
    \/ \E c \in CallSlot :
         \/ \E w \in Linked : \E extra \in {NoFields, w.may} : Invoke(c, w, extra)
         \/ Intercept(c) \/ Handle(c) \/ Return(c) \/ GiveUp(c) \/ Drop(c)
    \/ RpcTick

RpcSpec == RpcInit /\ [][RpcNext]_rpcVars

-----------------------------------------------------------------------------
(* Properties *)

\* A caller that is told OK had its call run, exactly once; a caller that is
\* refused had nothing run, and nothing will: only DeadlineExceeded and
\* Internal leave it open (stubs, interceptors and network together).
AnswersTrue ==
    \A c \in CallSlot :
        /\ calls[c].client = "OK" => calls[c].ran = 1
        /\ calls[c].client \in Refusals => calls[c].ran = 0 /\ calls[c].server = "done"
        /\ calls[c].ran <= 1

=============================================================================
