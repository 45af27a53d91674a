------------------------------ MODULE Messages ------------------------------
(***************************************************************************)
(* The messages of the services (proto/*.proto and the Go code generated   *)
(* from them), each as the set of its fields.  A message on its way is the *)
(* set of the fields that carry something: proto3 sends no zero, "" or     *)
(* empty list, and the generated getters return just that for a field that *)
(* did not come, and for a message that is nil.  So a field left out and a *)
(* field set to its zero value are one message, and what a handler asks    *)
(* for as not empty is a field of this set.                                *)
(***************************************************************************)

\* A getter's answer is zero exactly when the field did not come.
Carries(msg, field) == field \in msg

\* nil, or a message of which nothing was set.
NoFields == {}

-----------------------------------------------------------------------------
(* The metadata service and the scheduler *)

UpdateNodeStatusRequest == {"node_id", "status"}
UpdateNodeStatusResponse == {"success"}
RegisterNodeRequest == {"cluster_id", "hostname"}
RegisterNodeResponse == {"node_id", "heartbeat_interval_seconds"}
SendHeartbeatRequest == {
    "node_id", "cpu_pct", "memory_pct", "disk_pct", "healthy"}
SendHeartbeatResponse == {"success"}
GetNodesRequest == {"cluster_id"}
NodeInfo == {
    "id", "cluster_id", "hostname", "status", "cpu_pct", "memory_pct",
    "disk_pct", "last_heartbeat", "registered_at", "region"}
GetNodesResponse == {"nodes"}
ScheduleRequest == {"cluster_id"}
ScheduleResponse == {"node_id", "score", "score_breakdown"}
CreateDatabaseRecordRequest == {
    "name", "cluster_id", "node_id", "status", "attempts"}
CreateDatabaseRecordResponse == {"database_id"}
UpdateDatabaseStatusRequest == {
    "database_id", "status", "node_id", "endpoint", "attempts"}
UpdateDatabaseStatusResponse == {"success"}
GetDatabaseRequest == {"database_id"}
DatabaseInfo == {
    "id", "name", "cluster_id", "node_id", "status", "endpoint", "attempts",
    "created_at", "updated_at"}
GetDatabaseResponse == {"database"}
ListDatabasesRequest == {"cluster_id"}
ListDatabasesResponse == {"databases"}
DeleteDatabaseRecordRequest == {"database_id"}
DeleteDatabaseRecordResponse == {"success"}

-----------------------------------------------------------------------------
(* The node agent *)

DrainNodeRequest == {"node_id"}
DrainNodeResponse == {"success", "databases_moved", "error"}
CreateDatabaseRequest == {"name", "database_id"}
CreateDatabaseResponse == {"success", "endpoint", "error"}
DeleteDatabaseRequest == {"database_id"}
DeleteDatabaseResponse == {"success", "error"}
BackupDatabaseRequest == {"database_id"}
BackupDatabaseResponse == {"success", "backup_path", "error"}
RestoreDatabaseRequest == {"database_id", "backup_path"}
RestoreDatabaseResponse == {"success", "error"}
InsertVectorRequest == {"database_id", "id", "data", "embedding", "metadata"}
InsertVectorResponse == {"success", "lsn", "error"}

SearchVectorRequest == {
    "database_id", "query_embedding", "top_k", "filter_expression", "exact"}

VectorSearchResult == {"id", "similarity"}
SearchVectorResponse == {"success", "results", "error"}

-----------------------------------------------------------------------------
(* Deployments, capacity and SLA *)

StartDeploymentRequest == {
    "deployment_type", "target_version", "canary_weight",
    "observation_seconds"}
StartDeploymentResponse == {"deployment_id", "status"}
GetDeploymentStatusRequest == {"deployment_id"}
GetDeploymentStatusResponse == {
    "deployment_id", "deployment_type", "target_version", "status",
    "traffic_split", "error_message"}
TriggerRollbackRequest == {"deployment_id", "reason"}
TriggerRollbackResponse == {"success", "status"}
OpsDrainNodeRequest == {"node_id"}
OpsDrainNodeResponse == {"success", "databases_moved", "error"}
PredictCapacityRequest == {"horizon_days", "metric"}
PredictCapacityResponse == {
    "current_nodes", "projected_nodes", "growth_rate_pct", "method",
    "horizon_date"}
RecordEventRequest == {"event_type", "latency_ms", "service"}
RecordEventResponse == {"success"}
GetSLAReportRequest == {"window_minutes"}
GetSLAReportResponse == {
    "availability_pct", "p95_latency_ms", "p99_latency_ms", "total_requests",
    "failed_requests", "mttr_seconds", "slo_met"}
=============================================================================
