----------------------------- MODULE MCGateway ------------------------------
(* A node whose region shows in its host name, and one whose does not.       *)
EXTENDS Gateway, TLC

MCEdgeNode == <<[region |-> "us-east", cluster |-> "", host |-> "us-east"],
                [region |-> "europe", cluster |-> "", host |-> ""]>>

EdgeSymmetry == Permutations(Client) \cup Permutations(EdgeWorker)
=============================================================================
