----------------------------- MODULE MCFailover -----------------------------
(* Four nodes of four regions: one's region shows in its host name, one's    *)
(* cluster is named after another region, one says nothing of its region.    *)
EXTENDS Failover

N(id, region, cluster, host, cpu) ==
    [id |-> id, region |-> region, cluster |-> cluster, host |-> host,
     cpu |-> cpu, mem |-> 20, disk |-> 20]

MCFleetNode == <<N("n1", "us-east", "", "us-east", 10), N("n2", "us-west", "europe", "", 20),
                 N("n3", "india", "", "", 50), N("n4", "india", "", "japan", 30)>>
=============================================================================
