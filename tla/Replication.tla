---------------------------- MODULE Replication -----------------------------
(***************************************************************************)
(* ReplicationEngine (services/node-agent/src/storage/replication.rs): the *)
(* leader pushes a log record to the stream of every registered follower   *)
(* and waits until as many followers as it pushed to have acknowledged the *)
(* record's LSN, or until the ACK timeout, after which the write counts as *)
(* degraded.                                                               *)
(*                                                                         *)
(* replicate_record takes &self: threads may run it side by side, and it   *)
(* gives up the lock between copying the follower table, pushing to the    *)
(* streams and each look at the acknowledgements.  The follower process is *)
(* not part of the repository; it is modelled after the tests: it takes    *)
(* records from its stream in order and acknowledges each one's LSN.       *)
(* Acknowledgements may arrive late, out of order and more than once.      *)
(***************************************************************************)
EXTENDS Naturals, Sequences, FiniteSets

CONSTANTS
    Follower,       \* the follower ids
    Caller,         \* the threads that write through the leader
    Joins,          \* whether followers register and leave at any time
    MaxWrites          \* bound on the number of records written

ASSUME ReplicationConstants ==
    IsFiniteSet(Follower) /\ Joins \in BOOLEAN /\ MaxWrites \in Nat

VARIABLES
    followers,      \* follower_id -> last_acked_lsn, of the registered ones
    streams,        \* followers_state: the records pushed to each follower
    applied,        \* the LSNs in each follower's log
    acks,           \* acknowledgements on their way to the leader
    calls,          \* the replicate_record call of each thread
    leader_lsn,       \* the LSN the leader's log gives to its next record
    results         \* what the finished calls reported

replVars == <<followers, streams, applied, acks, calls, leader_lsn, results>>

Lsn == 1..MaxWrites

NoCall == [pc |-> "idle", lsn |-> 0, waiting |-> {}]

-----------------------------------------------------------------------------
(* The follower table *)

\* Mutant: a follower joins at the leader's last LSN instead of 0.
RegisterCaughtUp(f) ==
    /\ Joins
    /\ followers' = [g \in DOMAIN followers \cup {f} |->
                       IF g = f THEN leader_lsn - 1 ELSE followers[g]]
    /\ UNCHANGED <<streams, applied, acks, calls, leader_lsn, results>>

\* register_follower: insert(id, 0), which forgets what a known one had acked.
RegisterFollower(f) ==
    /\ Joins
    /\ followers' = [g \in DOMAIN followers \cup {f} |->
                       IF g = f THEN 0 ELSE followers[g]]
    /\ UNCHANGED <<streams, applied, acks, calls, leader_lsn, results>>

RemoveFollower(f) ==
    /\ Joins /\ f \in DOMAIN followers
    /\ followers' = [g \in DOMAIN followers \ {f} |-> followers[g]]
    /\ UNCHANGED <<streams, applied, acks, calls, leader_lsn, results>>

\* process_follower_ack: only for a registered follower, and only forward.  The
\* acknowledgement may come again.
ProcessFollowerAck(f, lsn) ==
    /\ <<f, lsn>> \in acks
    /\ followers' = [g \in DOMAIN followers |->
                       IF g = f /\ lsn > followers[g] THEN lsn
                       ELSE followers[g]]
    /\ UNCHANGED <<streams, applied, acks, calls, leader_lsn, results>>

\* An acknowledgement does not come (again).
LoseAck(f, lsn) ==
    /\ <<f, lsn>> \in acks
    /\ acks' = acks \ {<<f, lsn>>}
    /\ UNCHANGED <<followers, streams, applied, calls, leader_lsn, results>>

\* External: the follower applies the next record of its stream to its own log
\* (apply_replicated_record) and acknowledges it.
Apply(f) ==
    /\ streams[f] # <<>>
    /\ streams' = [streams EXCEPT ![f] = Tail(@)]
    /\ applied' = [applied EXCEPT ![f] = @ \cup {Head(streams[f])}]
    /\ acks' = acks \cup {<<f, Head(streams[f])>>}
    /\ UNCHANGED <<followers, calls, leader_lsn, results>>

-----------------------------------------------------------------------------
(* replicate_record *)

\* A thread has appended a record and copies the follower table; with no
\* follower the call is over.
ReplicateBegin(c) ==
    /\ calls[c].pc = "idle" /\ leader_lsn <= MaxWrites
    /\ leader_lsn' = leader_lsn + 1
    /\ IF DOMAIN followers = {}
       THEN /\ results' = results \cup {[lsn |-> leader_lsn, waited |-> {},
                                         degraded |-> FALSE]}
            /\ UNCHANGED calls
       ELSE /\ calls' = [calls EXCEPT ![c] =
                           [pc |-> "push", lsn |-> leader_lsn,
                            waiting |-> DOMAIN followers]]
            /\ UNCHANGED results
    /\ UNCHANGED <<followers, streams, applied, acks>>

\* The record is pushed to the streams of the followers that were copied.
Push(c) ==
    /\ calls[c].pc = "push"
    /\ streams' = [f \in Follower |->
                     IF f \in calls[c].waiting
                     THEN Append(streams[f], calls[c].lsn) ELSE streams[f]]
    /\ calls' = [calls EXCEPT ![c].pc = "wait"]
    /\ UNCHANGED <<followers, applied, acks, leader_lsn, results>>

Finish(c, degraded) ==
    /\ results' = results \cup {[lsn |-> calls[c].lsn,
                                 waited |-> calls[c].waiting,
                                 degraded |-> degraded]}
    /\ calls' = [calls EXCEPT ![c] = NoCall]
    /\ UNCHANGED <<followers, streams, applied, acks, leader_lsn>>

\* acked_count: the registered followers at or past the record.
Acked(c) == {f \in DOMAIN followers : followers[f] >= calls[c].lsn}

\* The number of acknowledgements reaches the number of followers copied.
WaitSucceeds(c) ==
    /\ calls[c].pc = "wait"
    /\ Cardinality(Acked(c)) = Cardinality(calls[c].waiting)
    /\ Finish(c, FALSE)

\* The deadline passes: degraded if the last count was too low.
WaitTimesOut(c) ==
    /\ calls[c].pc = "wait"
    /\ Cardinality(Acked(c)) # Cardinality(calls[c].waiting)
    /\ Finish(c, Cardinality(Acked(c)) < Cardinality(calls[c].waiting))

-----------------------------------------------------------------------------

\* Without Joins every follower is registered from the start.
ReplInit ==
    /\ followers = [f \in (IF Joins THEN {} ELSE Follower) |-> 0]
    /\ streams = [f \in Follower |-> <<>>]
    /\ applied = [f \in Follower |-> {}]
    /\ acks = {}
    /\ calls = [c \in Caller |-> NoCall]
    /\ leader_lsn = 1
    /\ results = {}

ReplNext ==
    \/ \E f \in Follower : RegisterFollower(f) \/ RemoveFollower(f) \/ Apply(f)
    \/ \E f \in Follower, lsn \in Lsn : ProcessFollowerAck(f, lsn)
                                        \/ LoseAck(f, lsn)
    \/ \E c \in Caller : \/ ReplicateBegin(c) \/ Push(c)
                         \/ WaitSucceeds(c) \/ WaitTimesOut(c)

ReplSpec == ReplInit /\ [][ReplNext]_replVars

-----------------------------------------------------------------------------
(* Properties *)

\* The types; a call waits only for followers it pushed to.
ReplicationTypeOK ==
    /\ DOMAIN followers \subseteq Follower
    /\ \A f \in DOMAIN followers : followers[f] \in 0..MaxWrites
    /\ \A f \in Follower : \A i \in 1..Len(streams[f]) : streams[f][i] \in Lsn
    /\ applied \in [Follower -> SUBSET Lsn]
    /\ acks \subseteq Follower \X Lsn
    /\ calls \in [Caller -> [pc: {"idle", "push", "wait"}, lsn: 0..MaxWrites,
                             waiting: SUBSET Follower]]
    /\ leader_lsn \in 1..(MaxWrites + 1)
    /\ results \subseteq [lsn: Lsn, waited: SUBSET Follower, degraded: BOOLEAN]

\* "the leader waits for ACKs from all active registered followers before
\* returning success" (docs/decisions/ack-quorum-policy.md:7): a write that is
\* reported without degraded mode is in the log of every follower that was
\* registered when it began (replication.rs, replicate_record).
AllFollowersHave ==
    \A r \in results : ~ r.degraded =>
        \A f \in r.waited : r.lsn \in applied[f]
=============================================================================
