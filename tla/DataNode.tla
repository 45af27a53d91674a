------------------------------ MODULE DataNode ------------------------------
(***************************************************************************)
(* The parts of a data node that the storage engine does not tie together: *)
(* the write-ahead log, the HNSW index, the replication of log records,    *)
(* and the worker agent with its databases and its vectors.  They share no *)
(* variable here and no property is about two of them, so a behaviour      *)
(* moves one of them, which `focus' names, and the state space is the sum  *)
(* of theirs.                                                              *)
(***************************************************************************)
EXTENDS Wal, Hnsw, Replication, WorkerAgent, VectorStore

VARIABLE focus

nodeVars == <<focus, walVars, hnswVars, replVars, agentVars, vectorVars>>

NodeInit ==
    /\ WalInit /\ HnswInit /\ ReplInit /\ AgentInit /\ VectorInit
    /\ focus \in {"wal", "hnsw", "replication", "agent", "vectors"}
    /\ focus # "wal" => policy = "Batched"

Others(moving) ==
    /\ focus = moving /\ UNCHANGED focus
    /\ moving # "wal" => UNCHANGED walVars
    /\ moving # "hnsw" => UNCHANGED hnswVars
    /\ moving # "replication" => UNCHANGED replVars
    /\ moving # "agent" => UNCHANGED agentVars
    /\ moving # "vectors" => UNCHANGED vectorVars

NodeNext ==
    \/ Others("wal") /\ WalNext
    \/ Others("hnsw") /\ HnswNext
    \/ Others("replication") /\ ReplNext
    \/ Others("agent") /\ AgentNext
    \/ Others("vectors") /\ VectorNext

NodeSpec == NodeInit /\ [][NodeNext]_nodeVars

\* The type invariants of the log, of replication and of the agent, whose part
\* says by how much racing creates may overdraw the injected failures.
NodeTypeOK == WalTypeOK /\ ReplicationTypeOK /\ AgentTypeOK
=============================================================================
