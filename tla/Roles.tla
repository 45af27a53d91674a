------------------------------- MODULE Roles --------------------------------
(***************************************************************************)
(* The roles of the auth package (services/auth-service/auth), which every *)
(* service links.                                                          *)
(***************************************************************************)

Role == {"admin", "operator", "read-only"}

\* Whether a presented role meets or exceeds the required one; a presented
\* role of any other name satisfies nothing.
RoleSatisfies(presented, required) ==
    \/ presented = "admin"
    \/ presented = "operator" /\ required \in {"operator", "read-only"}
    \/ presented = "read-only" /\ required = "read-only"
=============================================================================
