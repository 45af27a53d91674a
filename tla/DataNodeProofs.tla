--------------------------- MODULE DataNodeProofs ---------------------------
(***************************************************************************)
(* Theorems about a data node: the replication of log records              *)
(* (Replication), the vector index (Hnsw) and the worker's vectors         *)
(* (VectorStore), for any number of followers, vectors, levels, calls and  *)
(* changes; and that the parts of a node keep side by side what each of    *)
(* them keeps alone (DataNode).                                            *)
(***************************************************************************)
EXTENDS DataNode, WalProofs, WorkerAgentProofs, SumsProofs,
        FiniteSetTheorems, SequenceTheorems, TLAPS

-----------------------------------------------------------------------------
(* Replication *)

\* The types, with streams as sequences.
ReplTypes ==
    /\ ReplicationTypeOK
    /\ streams \in [Follower -> Seq(Lsn)]

CallType == [pc : {"idle", "push", "wait"}, lsn : 0..MaxWrites, waiting : SUBSET Follower]

\* Under way a call has an LSN that was given.
UnderWay ==
    \A c \in Caller : calls[c].pc # "idle" => calls[c].lsn \in 1..(leader_lsn - 1)

\* Nothing is on its way or applied that was not given an LSN; what is
\* acknowledged was applied.
GivenOnly ==
    /\ \A f \in Follower : /\ applied[f] \subseteq 1..(leader_lsn - 1)
                           /\ \A i \in 1..Len(streams[f]) : streams[f][i] < leader_lsn
    /\ \A a \in acks : a[2] \in applied[a[1]]
    /\ \A f \in DOMAIN followers : followers[f] # 0 => followers[f] \in applied[f]

\* Initially there is nothing.
LEMMA ReplTypesInit == ReplInit => ReplTypes /\ UnderWay /\ GivenOnly
  BY ReplicationConstants
     DEF ReplInit, ReplTypes, ReplicationTypeOK, UnderWay, GivenOnly, NoCall, Lsn

\* The head and the tail of a stream that is not empty.
LEMMA StreamTail ==
    ASSUME NEW S, NEW s \in Seq(S), s # <<>>
    PROVE  /\ Head(s) \in S /\ Tail(s) \in Seq(S) /\ Len(s) \in Nat \ {0}
           /\ Head(s) = s[1] /\ Len(Tail(s)) = Len(s) - 1
           /\ \A i \in 1..Len(Tail(s)) : Tail(s)[i] = s[i + 1]
  OBVIOUS

\* A call turns into another.
LEMMA CallsStep ==
    ASSUME calls \in [Caller -> CallType], NEW c \in Caller, NEW n \in CallType,
           calls' = [calls EXCEPT ![c] = n]
    PROVE  calls' \in [Caller -> CallType]
  OBVIOUS

\* What each step does to the types.
LEMMA ReplTypesStep ==
    ASSUME ReplTypes, UnderWay, [ReplNext]_replVars
    PROVE  ReplTypes'
<1> USE ReplicationConstants
<1>a. ReplicationTypeOK /\ streams \in [Follower -> Seq(Lsn)]
  BY DEF ReplTypes
<1>1. ASSUME NEW f \in Follower, RegisterFollower(f) PROVE ReplTypes'
  BY <1>a, <1>1 DEF RegisterFollower, ReplTypes, ReplicationTypeOK
<1>2. ASSUME NEW f \in Follower, RemoveFollower(f) PROVE ReplTypes'
  BY <1>a, <1>2 DEF RemoveFollower, ReplTypes, ReplicationTypeOK
<1>3. ASSUME NEW f \in Follower, NEW lsn \in Lsn, ProcessFollowerAck(f, lsn)
      PROVE  ReplTypes'
  BY <1>a, <1>3 DEF ProcessFollowerAck, ReplTypes, ReplicationTypeOK, Lsn
<1>4. ASSUME NEW f \in Follower, NEW lsn \in Lsn, LoseAck(f, lsn) PROVE ReplTypes'
  BY <1>a, <1>4 DEF LoseAck, ReplTypes, ReplicationTypeOK
<1>5. ASSUME NEW f \in Follower, Apply(f) PROVE ReplTypes'
  <2>1. /\ streams[f] \in Seq(Lsn) /\ streams[f] # <<>>
        /\ streams' = [streams EXCEPT ![f] = Tail(streams[f])]
        /\ applied' = [applied EXCEPT ![f] = applied[f] \cup {Head(streams[f])}]
        /\ acks' = acks \cup {<<f, Head(streams[f])>>}
        /\ UNCHANGED <<followers, calls, leader_lsn, results>>
    BY <1>a, <1>5 DEF Apply
  <2>2. Head(streams[f]) \in Lsn /\ Tail(streams[f]) \in Seq(Lsn)
    BY <2>1, StreamTail
  <2>3. streams' \in [Follower -> Seq(Lsn)]
    BY <1>a, <2>1, <2>2
  <2>4. applied' \in [Follower -> SUBSET Lsn] /\ acks' \subseteq Follower \X Lsn
    BY <1>a, <2>1, <2>2 DEF ReplicationTypeOK
  <2>5. \A g \in Follower : \A i \in 1..Len(streams'[g]) : streams'[g][i] \in Lsn
    BY <2>3
  <2> QED BY <1>a, <2>1, <2>3, <2>4, <2>5 DEF ReplTypes, ReplicationTypeOK
<1>6. ASSUME NEW c \in Caller, ReplicateBegin(c) PROVE ReplTypes'
  <2>1. leader_lsn \in Lsn /\ leader_lsn' = leader_lsn + 1 /\ leader_lsn' \in 1..(MaxWrites + 1)
        /\ UNCHANGED <<followers, streams, applied, acks>>
    BY <1>a, <1>6 DEF ReplicateBegin, ReplicationTypeOK, Lsn
  <2>2. calls' \in [Caller -> CallType]
    BY <1>a, <1>6, <2>1 DEF ReplicateBegin, ReplicationTypeOK, CallType, Lsn
  <2>3. results' \subseteq [lsn: Lsn, waited: SUBSET Follower, degraded: BOOLEAN]
    <3>1. [lsn |-> leader_lsn, waited |-> {}, degraded |-> FALSE]
            \in [lsn: Lsn, waited: SUBSET Follower, degraded: BOOLEAN]
      BY <2>1
    <3>2. results' \subseteq results \cup {[lsn |-> leader_lsn, waited |-> {}, degraded |-> FALSE]}
      BY <1>6 DEF ReplicateBegin
    <3> QED BY <1>a, <3>1, <3>2 DEF ReplicationTypeOK
  <2> QED BY <1>a, <2>1, <2>2, <2>3 DEF ReplTypes, ReplicationTypeOK, CallType
<1>7. ASSUME NEW c \in Caller, Push(c) PROVE ReplTypes'
  <2>1. /\ calls[c] \in CallType /\ calls[c].lsn \in Lsn
        /\ streams' = [f \in Follower |->
                     IF f \in calls[c].waiting
                     THEN Append(streams[f], calls[c].lsn) ELSE streams[f]]
        /\ calls' = [calls EXCEPT ![c].pc = "wait"]
        /\ UNCHANGED <<followers, applied, acks, leader_lsn, results>>
    BY <1>a, <1>7 DEF Push, UnderWay, ReplicationTypeOK, CallType, Lsn
  <2>2. streams' \in [Follower -> Seq(Lsn)]
    BY <1>a, <2>1
  <2>3. calls' \in [Caller -> CallType]
    BY <1>a, <2>1 DEF ReplicationTypeOK, CallType
  <2>4. \A g \in Follower : \A i \in 1..Len(streams'[g]) : streams'[g][i] \in Lsn
    BY <2>2
  <2> QED BY <1>a, <2>1, <2>2, <2>3, <2>4 DEF ReplTypes, ReplicationTypeOK, CallType
<1>8. ASSUME NEW c \in Caller, NEW degraded \in BOOLEAN, calls[c].pc = "wait",
             Finish(c, degraded)
      PROVE  ReplTypes'
  <2>1. /\ calls[c] \in CallType /\ calls[c].lsn \in Lsn
        /\ results' = results \cup {[lsn |-> calls[c].lsn, waited |-> calls[c].waiting,
                                     degraded |-> degraded]}
        /\ calls' = [calls EXCEPT ![c] = NoCall]
        /\ UNCHANGED <<followers, streams, applied, acks, leader_lsn>>
    BY <1>a, <1>8 DEF Finish, UnderWay, ReplicationTypeOK, CallType, Lsn
  <2>2. calls' \in [Caller -> CallType]
    BY <1>a, <2>1 DEF ReplicationTypeOK, CallType, NoCall
  <2>3. results' \subseteq [lsn: Lsn, waited: SUBSET Follower, degraded: BOOLEAN]
    BY <1>a, <2>1 DEF ReplicationTypeOK, CallType
  <2> QED BY <1>a, <2>1, <2>2, <2>3 DEF ReplTypes, ReplicationTypeOK, CallType
<1>9. ASSUME NEW c \in Caller, WaitSucceeds(c) \/ WaitTimesOut(c) PROVE ReplTypes'
  <2> DEFINE late == Cardinality(Acked(c)) < Cardinality(calls[c].waiting)
  <2>1. late \in BOOLEAN /\ FALSE \in BOOLEAN
    OBVIOUS
  <2>2. calls[c].pc = "wait" /\ (Finish(c, FALSE) \/ Finish(c, late))
    BY <1>9 DEF WaitSucceeds, WaitTimesOut
  <2> HIDE DEF late
  <2> QED BY <1>8, <2>1, <2>2
<1>10. CASE UNCHANGED replVars
  BY <1>a, <1>10 DEF replVars, ReplTypes, ReplicationTypeOK
<1> QED BY <1>1, <1>2, <1>3, <1>4, <1>5, <1>6, <1>7, <1>9, <1>10 DEF ReplNext

\* LSNs only grow, and what is applied stays applied.
LEMMA GivenStep ==
    ASSUME ReplTypes, UnderWay, GivenOnly, [ReplNext]_replVars
    PROVE  UnderWay' /\ GivenOnly'
<1> USE ReplicationConstants
<1>a. /\ streams \in [Follower -> Seq(Lsn)] /\ applied \in [Follower -> SUBSET Lsn]
      /\ acks \subseteq Follower \X Lsn /\ calls \in [Caller -> CallType]
      /\ leader_lsn \in 1..(MaxWrites + 1) /\ DOMAIN followers \subseteq Follower
      /\ \A f \in DOMAIN followers : followers[f] \in 0..MaxWrites
  BY DEF ReplTypes, ReplicationTypeOK, CallType
<1>1. ASSUME NEW f \in Follower, RegisterFollower(f) \/ RemoveFollower(f)
      PROVE  UnderWay' /\ GivenOnly'
  BY <1>1 DEF RegisterFollower, RemoveFollower, UnderWay, GivenOnly
<1>2. ASSUME NEW f \in Follower, NEW lsn \in Lsn, ProcessFollowerAck(f, lsn)
      PROVE  UnderWay' /\ GivenOnly'
  BY <1>2 DEF ProcessFollowerAck, UnderWay, GivenOnly
<1>3. ASSUME NEW f \in Follower, NEW lsn \in Lsn, LoseAck(f, lsn)
      PROVE  UnderWay' /\ GivenOnly'
  BY <1>3 DEF LoseAck, UnderWay, GivenOnly
<1>4. ASSUME NEW f \in Follower, Apply(f)
      PROVE  UnderWay' /\ GivenOnly'
  <2> DEFINE s == streams[f]
  <2>1. /\ s \in Seq(Lsn) /\ s # <<>>
        /\ streams' = [streams EXCEPT ![f] = Tail(s)]
        /\ applied' = [applied EXCEPT ![f] = applied[f] \cup {Head(s)}]
        /\ acks' = acks \cup {<<f, Head(s)>>}
        /\ UNCHANGED <<followers, calls, leader_lsn, results>>
    BY <1>a, <1>4 DEF Apply
  <2>2. Head(s) \in Lsn /\ Head(s) < leader_lsn
        /\ \A i \in 1..Len(Tail(s)) : Tail(s)[i] < leader_lsn
    <3>1. /\ Head(s) \in Lsn /\ Tail(s) \in Seq(Lsn) /\ Len(s) \in Nat \ {0}
          /\ Head(s) = s[1] /\ Len(Tail(s)) = Len(s) - 1
          /\ \A i \in 1..Len(Tail(s)) : Tail(s)[i] = s[i + 1]
      BY <2>1, StreamTail
    <3>2. \A i \in 1..Len(s) : s[i] < leader_lsn
      BY DEF GivenOnly
    <3> HIDE DEF s
    <3> QED BY <3>1, <3>2
  <2> HIDE DEF s
  <2>3. Head(s) \in 1..(leader_lsn - 1)
    BY <1>a, <2>2 DEF Lsn
  <2>4. \A g \in Follower : applied[g] \subseteq applied'[g]
    BY <1>a, <2>1
  <2>5. ASSUME NEW g \in Follower
        PROVE  /\ applied'[g] \subseteq 1..(leader_lsn - 1)
               /\ \A i \in 1..Len(streams'[g]) : streams'[g][i] < leader_lsn
    BY <1>a, <2>1, <2>2, <2>3 DEF GivenOnly
  <2>6. ASSUME NEW a \in acks' PROVE a[2] \in applied'[a[1]]
    <3>1. CASE a \in acks
      BY <1>a, <2>4, <3>1 DEF GivenOnly
    <3>2. CASE a = <<f, Head(s)>>
      BY <1>a, <2>1, <3>2
    <3> QED BY <2>1, <3>1, <3>2
  <2>7. ASSUME NEW g \in DOMAIN followers, followers[g] # 0 PROVE followers[g] \in applied'[g]
    BY <1>a, <2>4, <2>7 DEF GivenOnly
  <2> QED BY <2>1, <2>5, <2>6, <2>7 DEF UnderWay, GivenOnly
<1>5. ASSUME NEW c \in Caller, ReplicateBegin(c)
      PROVE  UnderWay' /\ GivenOnly'
  <2>1. /\ leader_lsn' = leader_lsn + 1 /\ leader_lsn \in Nat \ {0}
        /\ UNCHANGED <<followers, streams, applied, acks>>
    BY <1>a, <1>5 DEF ReplicateBegin
  <2>2. UnderWay'
    <3> SUFFICES ASSUME NEW d \in Caller, calls'[d].pc # "idle"
                 PROVE  calls'[d].lsn \in 1..(leader_lsn' - 1)
      BY DEF UnderWay
    <3>1. \/ calls'[d] = calls[d]
          \/ calls'[d] = [pc |-> "push", lsn |-> leader_lsn, waiting |-> DOMAIN followers]
      BY <1>a, <1>5 DEF ReplicateBegin
    <3>2. calls'[d] = calls[d] => calls'[d].lsn \in 1..(leader_lsn - 1)
      BY DEF UnderWay
    <3> QED BY <2>1, <3>1, <3>2
  <2>3. \A f \in Follower : /\ applied[f] \subseteq 1..(leader_lsn' - 1)
                             /\ \A i \in 1..Len(streams[f]) : streams[f][i] < leader_lsn'
    <3> TAKE f \in Follower
    <3>1. applied[f] \subseteq 1..(leader_lsn' - 1)
      BY <2>1 DEF GivenOnly
    <3>2. ASSUME NEW i \in 1..Len(streams[f]) PROVE streams[f][i] < leader_lsn'
      <4>1. streams[f][i] < leader_lsn /\ streams[f][i] \in Nat
        BY <1>a DEF GivenOnly, Lsn
      <4> QED BY <2>1, <4>1
    <3> QED BY <3>1, <3>2
  <2> QED BY <2>1, <2>2, <2>3 DEF GivenOnly
<1>6. ASSUME NEW c \in Caller, Push(c)
      PROVE  UnderWay' /\ GivenOnly'
  <2> DEFINE n == calls[c].lsn
  <2>1. /\ n \in 1..(leader_lsn - 1)
        /\ streams' = [f \in Follower |->
                     IF f \in calls[c].waiting THEN Append(streams[f], n) ELSE streams[f]]
        /\ calls' = [calls EXCEPT ![c].pc = "wait"]
        /\ UNCHANGED <<followers, applied, acks, leader_lsn, results>>
    BY <1>6 DEF Push, UnderWay
  <2>2. UnderWay'
    BY <1>a, <1>6, <2>1 DEF UnderWay, CallType, Push
  <2> HIDE DEF n
  <2>3. ASSUME NEW f \in Follower, NEW i \in 1..Len(streams'[f])
        PROVE  streams'[f][i] < leader_lsn
    <3>1. streams[f] \in Seq(Lsn) /\ n < leader_lsn
      BY <1>a, <2>1
    <3>2. \A j \in 1..Len(streams[f]) : streams[f][j] < leader_lsn
      BY DEF GivenOnly
    <3>3. streams'[f] = Append(streams[f], n) \/ streams'[f] = streams[f]
      BY <2>1
    <3> QED BY <3>1, <3>2, <3>3
  <2> QED BY <2>1, <2>2, <2>3 DEF GivenOnly
<1>7. ASSUME NEW c \in Caller, WaitSucceeds(c) \/ WaitTimesOut(c)
      PROVE  UnderWay' /\ GivenOnly'
  <2>1. calls' = [calls EXCEPT ![c] = NoCall]
        /\ UNCHANGED <<followers, streams, applied, acks, leader_lsn>>
    BY <1>7 DEF WaitSucceeds, WaitTimesOut, Finish
  <2> QED BY <1>a, <2>1 DEF UnderWay, GivenOnly, NoCall
<1>8. CASE UNCHANGED replVars
  BY <1>8 DEF replVars, UnderWay, GivenOnly
<1> QED BY <1>1, <1>2, <1>3, <1>4, <1>5, <1>6, <1>7, <1>8 DEF ReplNext

\* The types of the follower table, the streams, the calls and their results,
\* for any number of threads that call replicate_record.
THEOREM ReplicationTyped == ReplSpec => []ReplicationTypeOK
<1>1. ReplTypes /\ UnderWay /\ GivenOnly /\ [ReplNext]_replVars
        => (ReplTypes /\ UnderWay /\ GivenOnly)'
  BY ReplTypesStep, GivenStep
<1>2. ReplTypes => ReplicationTypeOK
  BY DEF ReplTypes
<1> QED BY ReplTypesInit, <1>1, <1>2, PTL DEF ReplSpec

\* replicate_record counts acknowledgements and does not look whose they are.
\* The count stands for the followers copied as long as writes come one by one:
\* then nobody else can have the record.
SingleWriter == \A c, d \in Caller : c = d

InStream(stream, lsn) == \E i \in 1..Len(stream) : stream[i] = lsn

\* The last LSN is that of the call under way, and only the followers it copied
\* have it or will get it.
PushedTo(c) ==
    /\ calls[c].pc # "idle" => calls[c].lsn = leader_lsn - 1
    /\ \A f \in Follower :
         calls[c].lsn \in applied[f] \/ InStream(streams[f], calls[c].lsn) =>
           /\ calls[c].pc # "push"
           /\ calls[c].pc = "wait" => f \in calls[c].waiting

OnlyPushed == \A c \in Caller : PushedTo(c)

\* What is in a stream or a log after a follower took a record was there before.
LEMMA ApplyKeeps ==
    ASSUME ReplTypes, NEW f \in Follower, Apply(f), NEW g \in Follower, NEW lsn,
           lsn \in applied'[g] \/ InStream(streams'[g], lsn)
    PROVE  lsn \in applied[g] \/ InStream(streams[g], lsn)
<1> DEFINE s == streams[f]
<1>1. /\ s \in Seq(Lsn) /\ s # <<>> /\ streams \in [Follower -> Seq(Lsn)]
      /\ applied \in [Follower -> SUBSET Lsn]
      /\ streams' = [streams EXCEPT ![f] = Tail(s)]
      /\ applied' = [applied EXCEPT ![f] = applied[f] \cup {Head(s)}]
  BY DEF Apply, ReplTypes, ReplicationTypeOK
<1>2. /\ Len(s) \in Nat \ {0} /\ Head(s) = s[1] /\ Len(Tail(s)) = Len(s) - 1
      /\ \A i \in 1..Len(Tail(s)) : Tail(s)[i] = s[i + 1]
  BY <1>1, StreamTail
<1>3. CASE g # f
  BY <1>1, <1>3 DEF InStream
<1>4. CASE g = f
  <2>1. CASE lsn \in applied'[g] /\ lsn \notin applied[g]
    <3>1. lsn = s[1] /\ 1 \in 1..Len(s)
      BY <1>1, <1>2, <1>4, <2>1
    <3> QED BY <1>4, <3>1 DEF InStream
  <2>2. CASE InStream(streams'[g], lsn)
    <3>1. PICK i \in 1..Len(Tail(s)) : Tail(s)[i] = lsn
      BY <1>1, <1>4, <2>2 DEF InStream
    <3> HIDE DEF s
    <3>2. i + 1 \in 1..Len(s) /\ s[i + 1] = lsn
      BY <1>2, <3>1
    <3> QED BY <1>4, <3>2 DEF InStream, s
  <2> QED BY <2>1, <2>2
<1> QED BY <1>3, <1>4

\* The followers counted by acked_count are among those the call copied, and
\* have the record.
LEMMA AckedPushed ==
    ASSUME ReplTypes, GivenOnly, UnderWay, NEW c \in Caller, PushedTo(c),
           calls[c].pc = "wait"
    PROVE  /\ Acked(c) \subseteq calls[c].waiting
           /\ \A f \in Acked(c) : calls[c].lsn \in applied[f]
<1> SUFFICES ASSUME NEW f \in Acked(c)
             PROVE  f \in calls[c].waiting /\ calls[c].lsn \in applied[f]
  OBVIOUS
<1> DEFINE lsn == calls[c].lsn
<1>1. f \in DOMAIN followers /\ followers[f] >= lsn
  BY DEF Acked
<1>2. /\ f \in Follower /\ followers[f] \in Nat /\ leader_lsn \in Nat
      /\ lsn = leader_lsn - 1 /\ lsn \in Nat \ {0}
  BY <1>1, ReplicationConstants DEF ReplTypes, ReplicationTypeOK, PushedTo, UnderWay
<1>3. followers[f] \in applied[f] /\ followers[f] \in 1..(leader_lsn - 1)
  BY <1>1, <1>2 DEF GivenOnly
<1>4. followers[f] = lsn
  <2> HIDE DEF lsn
  <2> QED BY <1>1, <1>2, <1>3
<1> QED BY <1>2, <1>3, <1>4 DEF PushedTo

\* So the count is right when it equals the number of followers copied, and
\* never larger.
LEMMA CountRight ==
    ASSUME ReplTypes, GivenOnly, UnderWay, NEW c \in Caller, PushedTo(c),
           calls[c].pc = "wait"
    PROVE  /\ Cardinality(Acked(c)) = Cardinality(calls[c].waiting)
                => \A f \in calls[c].waiting : calls[c].lsn \in applied[f]
           /\ Cardinality(Acked(c)) # Cardinality(calls[c].waiting)
                => Cardinality(Acked(c)) < Cardinality(calls[c].waiting)
<1>1. Acked(c) \in SUBSET calls[c].waiting
  BY AckedPushed
<1>2. calls[c].waiting \in SUBSET Follower /\ IsFiniteSet(Follower)
  BY ReplicationConstants DEF ReplTypes, ReplicationTypeOK
<1>3. IsFiniteSet(calls[c].waiting)
  BY <1>2, FS_Subset
<1>4. /\ IsFiniteSet(Acked(c)) /\ Cardinality(Acked(c)) <= Cardinality(calls[c].waiting)
      /\ Cardinality(calls[c].waiting) = Cardinality(Acked(c)) => calls[c].waiting = Acked(c)
  BY <1>1, <1>3, FS_Subset
<1>5. Cardinality(Acked(c)) \in Nat /\ Cardinality(calls[c].waiting) \in Nat
  BY <1>3, <1>4, FS_CardinalityType
<1> QED BY <1>4, <1>5, AckedPushed

\* What each step does to the record of the call under way.
LEMMA OnlyPushedStep ==
    ASSUME SingleWriter, ReplTypes, UnderWay, GivenOnly, OnlyPushed, [ReplNext]_replVars
    PROVE  OnlyPushed'
<1>a. /\ streams \in [Follower -> Seq(Lsn)] /\ applied \in [Follower -> SUBSET Lsn]
      /\ calls \in [Caller -> CallType] /\ leader_lsn \in Nat \ {0}
  BY ReplicationConstants DEF ReplTypes, ReplicationTypeOK, CallType
<1> SUFFICES ASSUME NEW d \in Caller PROVE PushedTo(d)'
  BY DEF OnlyPushed
<1>b. PushedTo(d)
  BY DEF OnlyPushed
<1>1. CASE UNCHANGED <<streams, applied, calls, leader_lsn>>
  BY <1>b, <1>1 DEF PushedTo, InStream
<1>2. ASSUME NEW f \in Follower, Apply(f) PROVE PushedTo(d)'
  <2>1. UNCHANGED <<calls, leader_lsn>>
    BY <1>2 DEF Apply
  <2>2. ASSUME NEW g \in Follower, calls[d].lsn \in applied'[g] \/ InStream(streams'[g], calls[d].lsn)
        PROVE  calls[d].lsn \in applied[g] \/ InStream(streams[g], calls[d].lsn)
    BY <1>2, <2>2, ApplyKeeps
  <2> QED BY <1>b, <2>1, <2>2 DEF PushedTo
<1>3. ASSUME NEW c \in Caller, ReplicateBegin(c) PROVE PushedTo(d)'
  <2>1. d = c /\ UNCHANGED <<streams, applied>> /\ leader_lsn' = leader_lsn + 1
        /\ calls[c].pc = "idle"
    BY <1>3 DEF SingleWriter, ReplicateBegin
  <2>2. CASE calls' = calls
    BY <1>a, <1>b, <2>1, <2>2 DEF PushedTo, InStream
  <2>3. CASE calls' # calls
    <3>1. calls'[d] = [pc |-> "push", lsn |-> leader_lsn, waiting |-> DOMAIN followers]
      BY <1>a, <1>3, <2>1, <2>3 DEF ReplicateBegin
    <3>2. calls'[d].pc = "push" /\ calls'[d].lsn = leader_lsn
      BY <3>1
    <3>3. ASSUME NEW f \in Follower
          PROVE  leader_lsn \notin applied[f] /\ ~ InStream(streams[f], leader_lsn)
      <4>1. leader_lsn \notin applied[f]
        BY <1>a DEF GivenOnly
      <4>2. ASSUME NEW i \in 1..Len(streams[f]) PROVE streams[f][i] # leader_lsn
        BY <1>a DEF GivenOnly
      <4> QED BY <4>1, <4>2 DEF InStream
    <3>4. leader_lsn = leader_lsn' - 1
      BY <1>a, <2>1
    <3> QED BY <2>1, <3>2, <3>3, <3>4 DEF PushedTo, InStream
  <2> QED BY <2>2, <2>3
<1>4. ASSUME NEW c \in Caller, Push(c) PROVE PushedTo(d)'
  <2> DEFINE n == calls[c].lsn
  <2>1. /\ d = c /\ calls[c].pc = "push" /\ calls[c] \in CallType
        /\ streams' = [f \in Follower |->
                     IF f \in calls[c].waiting THEN Append(streams[f], n) ELSE streams[f]]
        /\ calls' = [calls EXCEPT ![c].pc = "wait"]
        /\ UNCHANGED <<applied, leader_lsn>>
    BY <1>a, <1>4 DEF Push, SingleWriter
  <2>2. /\ calls'[c].pc = "wait" /\ calls'[c].lsn = n
        /\ calls'[c].waiting = calls[c].waiting
    BY <1>a, <2>1 DEF CallType
  <2>3. n = leader_lsn - 1 /\ \A f \in Follower : n \notin applied[f] /\ ~ InStream(streams[f], n)
    BY <1>b, <2>1 DEF PushedTo
  <2>4. ASSUME NEW f \in Follower, f \notin calls[c].waiting
        PROVE  streams'[f] = streams[f]
    BY <2>1, <2>4
  <2> HIDE DEF n
  <2> QED BY <2>1, <2>2, <2>3, <2>4 DEF PushedTo, InStream
<1>5. ASSUME NEW c \in Caller, WaitSucceeds(c) \/ WaitTimesOut(c) PROVE PushedTo(d)'
  <2>1. /\ d = c /\ calls' = [calls EXCEPT ![c] = NoCall]
        /\ UNCHANGED <<streams, applied, leader_lsn>>
    BY <1>5 DEF WaitSucceeds, WaitTimesOut, Finish, SingleWriter
  <2>2. calls'[d].pc = "idle"
    BY <1>a, <2>1 DEF NoCall
  <2> QED BY <2>2 DEF PushedTo
<1> QED BY <1>1, <1>2, <1>3, <1>4, <1>5
     DEF ReplNext, replVars, RegisterFollower, RemoveFollower, ProcessFollowerAck, LoseAck

\* What each step does to the results.
LEMMA ResultsStep ==
    ASSUME ReplTypes, UnderWay, GivenOnly, OnlyPushed, AllFollowersHave, [ReplNext]_replVars
    PROVE  AllFollowersHave'
<1>a. applied \in [Follower -> SUBSET Lsn] /\ streams \in [Follower -> Seq(Lsn)]
      /\ results \subseteq [lsn: Lsn, waited: SUBSET Follower, degraded: BOOLEAN]
  BY DEF ReplTypes, ReplicationTypeOK
<1>1. \A f \in Follower : applied[f] \subseteq applied'[f]
  BY <1>a DEF ReplNext, replVars, RegisterFollower, RemoveFollower, ProcessFollowerAck,
              LoseAck, Apply, ReplicateBegin, Push, WaitSucceeds, WaitTimesOut, Finish
<1> SUFFICES ASSUME NEW r \in results', ~ r.degraded, NEW f \in r.waited
             PROVE  r.lsn \in applied'[f]
  BY DEF AllFollowersHave
<1>2. CASE r \in results
  BY <1>a, <1>1, <1>2 DEF AllFollowersHave
<1>3. CASE r \notin results
  <2>1. ASSUME NEW c \in Caller, ReplicateBegin(c) PROVE FALSE
    BY <1>3, <2>1 DEF ReplicateBegin
  <2>2. ASSUME NEW c \in Caller, WaitSucceeds(c) PROVE r.lsn \in applied'[f]
    <3>1. /\ r.lsn = calls[c].lsn /\ r.waited = calls[c].waiting /\ calls[c].pc = "wait"
          /\ Cardinality(Acked(c)) = Cardinality(calls[c].waiting) /\ applied' = applied
      BY <1>3, <2>2 DEF WaitSucceeds, Finish
    <3> QED BY <3>1, CountRight DEF OnlyPushed
  <2>3. ASSUME NEW c \in Caller, WaitTimesOut(c) PROVE FALSE
    <3> DEFINE late == Cardinality(Acked(c)) < Cardinality(calls[c].waiting)
    <3>1. late /\ calls[c].pc = "wait"
      BY <2>3, CountRight DEF OnlyPushed, WaitTimesOut
    <3>2. r = [lsn |-> calls[c].lsn, waited |-> calls[c].waiting, degraded |-> late]
      BY <1>3, <2>3 DEF WaitTimesOut, Finish
    <3>3. r.degraded = late
      BY <3>2
    <3> QED BY <3>1, <3>3
  <2>4. results' = results \/ \E c \in Caller :
           ReplicateBegin(c) \/ WaitSucceeds(c) \/ WaitTimesOut(c)
    BY DEF ReplNext, replVars, RegisterFollower, RemoveFollower, ProcessFollowerAck,
           LoseAck, Apply, Push
  <2> QED BY <1>3, <2>1, <2>2, <2>3, <2>4
<1> QED BY <1>2, <1>3

\* A write reported without degraded mode is in the log of every follower that
\* was registered when it began, as long as one thread at a time writes through
\* the leader; followers join, leave and join again at any time, and
\* acknowledgements come late, twice, out of order or never
\* (replication.rs, replicate_record; docs/decisions/ack-quorum-policy.md:7).
THEOREM SingleWriterReplicates ==
    ASSUME SingleWriter
    PROVE  ReplSpec => []AllFollowersHave
<1> DEFINE Inv == ReplTypes /\ UnderWay /\ GivenOnly /\ OnlyPushed /\ AllFollowersHave
<1>1. ReplInit => Inv
  <2>1. ReplInit => OnlyPushed
    BY DEF ReplInit, OnlyPushed, PushedTo, NoCall, InStream
  <2>2. ReplInit => AllFollowersHave
    BY DEF ReplInit, AllFollowersHave
  <2> QED BY <2>1, <2>2, ReplTypesInit
<1>2. Inv /\ [ReplNext]_replVars => Inv'
  BY ReplTypesStep, GivenStep, OnlyPushedStep, ResultsStep
<1> QED BY <1>1, <1>2, PTL DEF ReplSpec

-----------------------------------------------------------------------------
(* Hnsw: the entry point *)

\* What the invariant says of any index, together with the types it rests on.
IndexOK(ix) ==
    /\ ix.entry = NoEntry <=> Ids(ix) = {}
    /\ Ids(ix) # {} => ix.entry \in Ids(ix)
    /\ Ids(ix) \subseteq VecId /\ ix.max \in Nat
    /\ \A x \in Ids(ix) : ix.nodes[x].level \in Nat /\ ix.nodes[x].level <= ix.max

\* remove picks another entry point whenever it removes the old one, and keeps
\* the level of every node.
LEMMA RemovedOK ==
    ASSUME NEW ix, IndexOK(ix), NEW id \in Ids(ix), NEW jx \in Removed(ix, id)
    PROVE  IndexOK(jx)
<1>1. PICK e \in EntryAfter(ix, id) :
         jx = [nodes |-> Unlinked(ix, id), entry |-> e, max |-> ix.max]
  BY DEF Removed
<1>2. Ids(jx) = Ids(ix) \ {id} /\ jx.entry = e /\ jx.max = ix.max
  BY <1>1 DEF Ids, Unlinked
<1>3. \A x \in Ids(jx) : jx.nodes[x].level = ix.nodes[x].level
  BY <1>1, <1>2 DEF Unlinked, Rewired
<1>4. /\ e = NoEntry <=> Ids(jx) = {}
      /\ Ids(jx) # {} => e \in Ids(jx)
  BY <1>2, HnswConstants DEF EntryAfter, IndexOK
<1> QED BY <1>2, <1>3, <1>4 DEF IndexOK

\* insert keeps the nodes and their levels whatever links it makes, and raises
\* the top layer together with the entry point.
LEMMA InsertedOK ==
    ASSUME NEW ix, IndexOK(ix), NEW id \in VecId, NEW emb, NEW level \in Nat
    PROVE  IndexOK(Inserted(ix, id, emb, level))
<1> DEFINE jx == Inserted(ix, id, emb, level)
<1> SUFFICES IndexOK(jx)
  OBVIOUS
<1>1. Ids(jx) = Ids(ix) \cup {id}
  BY DEF Ids, Inserted
<1>2. jx.nodes[id].level = level
  BY DEF Inserted
<1>3. ASSUME NEW x \in Ids(ix), x # id PROVE jx.nodes[x].level = ix.nodes[x].level
  BY <1>3 DEF Inserted, Rewired
<1>4. CASE ix.entry = NoEntry
  <2>1. jx.entry = id /\ jx.max = level /\ Ids(ix) = {}
    BY <1>4 DEF Inserted, IndexOK
  <2> HIDE DEF jx
  <2> QED BY <1>1, <1>2, <2>1, HnswConstants DEF IndexOK
<1>5. CASE ix.entry # NoEntry
  <2>1. /\ jx.entry = IF level > ix.max THEN id ELSE ix.entry
        /\ jx.max = IF level > ix.max THEN level ELSE ix.max
    BY <1>5 DEF Inserted
  <2>2. ix.max \in Nat /\ ix.entry \in Ids(ix) /\ Ids(ix) \subseteq VecId
    BY <1>5 DEF IndexOK
  <2> HIDE DEF jx
  <2>3. jx.max \in Nat /\ level <= jx.max /\ ix.max <= jx.max
    BY <2>1, <2>2
  <2>4. ASSUME NEW x \in Ids(jx)
        PROVE  jx.nodes[x].level \in Nat /\ jx.nodes[x].level <= jx.max
    <3>1. CASE x = id
      BY <1>2, <2>3, <3>1
    <3>2. CASE x # id
      <4>1. jx.nodes[x].level = ix.nodes[x].level /\ ix.nodes[x].level \in Nat
            /\ ix.nodes[x].level <= ix.max
        BY <1>1, <1>3, <3>2 DEF IndexOK
      <4> QED BY <2>2, <2>3, <4>1
    <3> QED BY <3>1, <3>2
  <2>5. jx.entry \in Ids(jx) /\ jx.entry # NoEntry /\ Ids(jx) \subseteq VecId
    BY <1>1, <2>1, <2>2, HnswConstants
  <2> QED BY <2>3, <2>4, <2>5 DEF IndexOK
<1> QED BY <1>4, <1>5

LEMMA HnswStep == IndexOK(index) /\ [HnswNext]_hnswVars => IndexOK(index)'
<1> SUFFICES ASSUME IndexOK(index), [HnswNext]_hnswVars PROVE IndexOK(index')
  OBVIOUS
<1>1. ASSUME NEW id \in VecId, NEW level \in 0..MaxLevel, NEW emb,
             InsertCall(id, emb, level)
      PROVE  IndexOK(index')
  <2>1. PICK ix \in IF id \in Ids(index) THEN Removed(index, id) ELSE {index} :
           index' = Inserted(ix, id, emb, level)
    BY <1>1 DEF InsertCall
  <2>2. IndexOK(ix)
    BY RemovedOK
  <2>3. level \in Nat
    BY HnswConstants
  <2> QED BY <2>1, <2>2, <2>3, InsertedOK
<1>2. ASSUME NEW id \in VecId, RemoveCall(id) PROVE IndexOK(index')
  BY <1>2, RemovedOK DEF RemoveCall
<1>3. CASE Clear
  BY <1>3 DEF Clear, Empty, IndexOK, Ids
<1>4. CASE UNCHANGED index
  BY <1>4
<1>5. ASSUME NEW q, NEW k, SearchCall(q, k) PROVE IndexOK(index')
  BY <1>5 DEF SearchCall
<1> QED BY <1>1, <1>2, <1>3, <1>4, <1>5 DEF HnswNext, hnswVars

-----------------------------------------------------------------------------
(* Hnsw: exact as long as it is small *)

\* A list without repetitions.
Distinct(s) == \A i, j \in 1..Len(s) : i < j => s[i] # s[j]

\* It is as long as the set of its elements is large.
LEMMA DistinctLength ==
    ASSUME NEW S, NEW s \in Seq(S), Distinct(s)
    PROVE  IsFiniteSet(ToSet(s)) /\ Cardinality(ToSet(s)) = Len(s)
<1> DEFINE n == Len(s)
           T == ToSet(s)
<1>1. n \in Nat /\ IsFiniteSet(1..n) /\ Cardinality(1..n) = n
  <2>1. n \in Nat
    OBVIOUS
  <2> HIDE DEF n
  <2>2. 1 \in Int /\ n \in Int /\ Cardinality(1..n) = IF 1 > n THEN 0 ELSE n - 1 + 1
    BY <2>1, FS_Interval
  <2> QED BY <2>1, <2>2, FS_Interval
<1>2. s \in [1..n -> T]
  BY DEF ToSet
<1>3. \A i, j \in 1..n : s[i] = s[j] => i = j
  BY <1>1 DEF Distinct
<1>4. \A t \in T : \E i \in 1..n : s[i] = t
  BY DEF ToSet
<1>5. s \in Bijection(1..n, T)
  <2> HIDE DEF T, n
  <2> QED BY <1>2, <1>3, <1>4 DEF Bijection, Injection, Surjection, IsInjective
<1>6. ExistsBijection(1..n, T)
  BY <1>5 DEF ExistsBijection
<1> HIDE DEF T, n
<1> QED BY <1>1, <1>6, FS_Bijection DEF T, n

\* Among finitely many there is one with the greatest value.
LEMMA Greatest ==
    ASSUME NEW S, IsFiniteSet(S), S # {}, NEW f \in [S -> Int]
    PROVE  \E x \in S : \A y \in S : f[x] >= f[y]
<1> DEFINE above(x) == {y \in S : f[y] > f[x]}
           T == {Cardinality(above(x)) : x \in S}
<1>1. ASSUME NEW x \in S PROVE IsFiniteSet(above(x)) /\ Cardinality(above(x)) \in Nat
  <2>1. above(x) \subseteq S
    OBVIOUS
  <2> HIDE DEF above
  <2> QED BY <2>1, FS_Subset, FS_CardinalityType
<1>2. PICK n \in T : \A m \in T : n <= m
  <2>1. T \in SUBSET Nat /\ T # {}
    <3> HIDE DEF above
    <3> QED BY <1>1
  <2> HIDE DEF T
  <2> QED BY <2>1, LeastNat
<1>3. PICK x \in S : n = Cardinality(above(x))
  OBVIOUS
<1>4. ASSUME NEW y \in S, f[y] > f[x] PROVE FALSE
  <2>1. above(y) \subseteq above(x) /\ y \in above(x) /\ y \notin above(y)
    BY <1>4
  <2>2. n <= Cardinality(above(y))
    <3> HIDE DEF above
    <3> QED BY <1>2
  <2> HIDE DEF above, T
  <2>3. Cardinality(above(y)) <= n /\ (Cardinality(above(y)) = n => above(y) = above(x))
    BY <1>1, <1>3, <2>1, FS_Subset
  <2> QED BY <1>1, <1>3, <2>1, <2>2, <2>3
<1>5. \A y \in S : f[x] >= f[y]
  BY <1>4
<1> QED BY <1>5

\* The similarities of a set of nodes are integers.
Comparable(ix, q, S) == IsFiniteSet(S) /\ \A x \in S : SimTo(ix, q, x) \in Int

LEMMA NearestOf ==
    ASSUME NEW ix, NEW q, NEW S, Comparable(ix, q, S), S # {}
    PROVE  /\ Nearest(ix, q, S) \in S
           /\ \A y \in S : SimTo(ix, q, Nearest(ix, q, S)) >= SimTo(ix, q, y)
<1> DEFINE f == [x \in S |-> SimTo(ix, q, x)]
<1>1. f \in [S -> Int] /\ IsFiniteSet(S)
  BY DEF Comparable
<1>2. \E x \in S : \A y \in S : f[x] >= f[y]
  <2> HIDE DEF f
  <2> QED BY <1>1, Greatest
<1>3. \E x \in S : \A y \in S : SimTo(ix, q, x) >= SimTo(ix, q, y)
  BY <1>2
<1> QED BY <1>3 DEF Nearest

\* s starts a ranking of S: what is not yet in it is no more similar to q.
Ordered(ix, q, S, s) ==
    /\ s \in Seq(S) /\ Distinct(s)
    /\ \A j \in 1..Len(s) : \A y \in S :
          (\E l \in 1..(j - 1) : s[l] = y) \/ SimTo(ix, q, s[j]) >= SimTo(ix, q, y)

LEMMA RankingGrows ==
    ASSUME NEW ix, NEW q, NEW S, Comparable(ix, q, S), NEW s, Ordered(ix, q, S, s),
           Len(s) < Cardinality(S)
    PROVE  /\ S \ ToSet(s) # {}
           /\ Ordered(ix, q, S, Append(s, Nearest(ix, q, S \ ToSet(s))))
<1>1. s \in Seq(S) /\ Distinct(s) /\ Len(s) \in Nat
  BY DEF Ordered
<1>2. S \ ToSet(s) # {}
  <2> SUFFICES ASSUME S \ ToSet(s) = {} PROVE FALSE
    OBVIOUS
  <2>1. ToSet(s) = S
    BY <1>1 DEF ToSet
  <2>2. Cardinality(ToSet(s)) = Len(s)
    BY <1>1, DistinctLength
  <2> QED BY <1>1, <2>1, <2>2
<1>3. Comparable(ix, q, S \ ToSet(s))
  BY FS_Subset DEF Comparable
<1>4. PICK x : x = Nearest(ix, q, S \ ToSet(s))
  OBVIOUS
<1>5. x \in S \ ToSet(s) /\ \A y \in S \ ToSet(s) : SimTo(ix, q, x) >= SimTo(ix, q, y)
  BY <1>2, <1>3, <1>4, NearestOf
<1> DEFINE t == Append(s, x)
<1>6. /\ t \in Seq(S) /\ Len(t) = Len(s) + 1 /\ t[Len(s) + 1] = x
      /\ \A i \in 1..Len(s) : t[i] = s[i]
  BY <1>1, <1>5
<1> HIDE DEF t
<1>7. \A i \in 1..Len(s) : s[i] # x
  BY <1>5 DEF ToSet
<1>8. Distinct(t)
  <2> SUFFICES ASSUME NEW i \in 1..Len(t), NEW j \in 1..Len(t), i < j PROVE t[i] # t[j]
    BY DEF Distinct
  <2>1. i \in 1..Len(s) /\ (j \in 1..Len(s) \/ j = Len(s) + 1)
    BY <1>1, <1>6
  <2>2. CASE j \in 1..Len(s)
    BY <1>1, <1>6, <2>1, <2>2 DEF Distinct
  <2>3. CASE j = Len(s) + 1
    BY <1>6, <1>7, <2>1, <2>3
  <2> QED BY <2>1, <2>2, <2>3
<1>9. ASSUME NEW j \in 1..Len(t), NEW y \in S
      PROVE  (\E l \in 1..(j - 1) : t[l] = y) \/ SimTo(ix, q, t[j]) >= SimTo(ix, q, y)
  <2>1. j \in 1..Len(s) \/ j = Len(s) + 1
    BY <1>1, <1>6
  <2>2. CASE j \in 1..Len(s)
    <3>1. (\E l \in 1..(j - 1) : s[l] = y) \/ SimTo(ix, q, s[j]) >= SimTo(ix, q, y)
      BY <2>2 DEF Ordered
    <3>2. \A l \in 1..(j - 1) : t[l] = s[l]
      BY <1>1, <1>6, <2>2
    <3> QED BY <1>6, <2>2, <3>1, <3>2
  <2>3. CASE j = Len(s) + 1
    <3>1. CASE y \in ToSet(s)
      <4>1. PICK l \in 1..Len(s) : s[l] = y
        BY <3>1 DEF ToSet
      <4>2. l \in 1..(j - 1) /\ t[l] = y
        BY <1>1, <1>6, <2>3, <4>1
      <4> QED BY <4>2
    <3>2. CASE y \notin ToSet(s)
      BY <1>5, <1>6, <2>3, <3>2
    <3> QED BY <3>1, <3>2
  <2> QED BY <2>1, <2>2, <2>3
<1>10. Ordered(ix, q, S, t)
  BY <1>6, <1>8, <1>9 DEF Ordered
<1> QED BY <1>2, <1>4, <1>10 DEF t

\* All of a set is ranked, each element once, the most similar first.
LEMMA RankedAll ==
    ASSUME NEW ix, NEW q, NEW S, Comparable(ix, q, S)
    PROVE  /\ Ordered(ix, q, S, Ranked(ix, q, S))
           /\ Len(Ranked(ix, q, S)) = Cardinality(S)
<1> DEFINE n == Cardinality(S)
           next(s) == Append(s, Nearest(ix, q, S \ ToSet(s)))
           g == [p \in (1..n) \X Seq(S) |->
                   IF S \ ToSet(p[2]) = {} THEN p[2] ELSE next(p[2])]
           P(f) == f = [i \in 0..n |-> IF i = 0 THEN <<>> ELSE next(f[i - 1])]
           u == CHOOSE f : P(f)
<1>1. n \in Nat /\ IsFiniteSet(S)
  BY FS_CardinalityType DEF Comparable
<1>2. g \in [(1..n) \X Seq(S) -> Seq(S)]
  <2>1. ASSUME NEW s \in Seq(S), S \ ToSet(s) # {} PROVE next(s) \in Seq(S)
    <3>1. Comparable(ix, q, S \ ToSet(s))
      BY FS_Subset DEF Comparable
    <3>2. Nearest(ix, q, S \ ToSet(s)) \in S
      BY <2>1, <3>1, NearestOf
    <3> QED BY <3>2
  <2> HIDE DEF next
  <2> QED BY <2>1
<1>3. PICK f \in [0..n -> Seq(S)] : Follows(f, n, <<>>, g)
  <2>1. <<>> \in Seq(S)
    OBVIOUS
  <2> HIDE DEF n, g
  <2> QED BY <1>1, <1>2, <2>1, Recursion
<1>4. \A i \in 0..n : Ordered(ix, q, S, f[i]) /\ Len(f[i]) = i
  <2> DEFINE T == {i \in 0..n : Ordered(ix, q, S, f[i]) /\ Len(f[i]) = i}
  <2>1. f[0] = <<>> /\ \A i \in 1..n : f[i] = g[<<i, f[i - 1]>>]
    BY <1>3 DEF Follows
  <2>2. 0 \in T
    <3>1. Ordered(ix, q, S, <<>>)
      BY DEF Ordered, Distinct
    <3> HIDE DEF n, g
    <3> QED BY <1>1, <2>1, <3>1
  <2>3. ASSUME NEW i \in 1..n, i - 1 \in T PROVE i \in T
    <3>1. Ordered(ix, q, S, f[i - 1]) /\ Len(f[i - 1]) = i - 1 /\ Len(f[i - 1]) < n
      <4> HIDE DEF n
      <4> QED BY <1>1, <2>3
    <3>2. S \ ToSet(f[i - 1]) # {} /\ Ordered(ix, q, S, next(f[i - 1]))
      BY <3>1, RankingGrows
    <3>3. f[i - 1] \in Seq(S)
      BY <1>3, <2>3
    <3>4. f[i] = next(f[i - 1])
      <4> HIDE DEF next, n
      <4> QED BY <2>1, <3>2, <3>3
    <3>5. Len(next(f[i - 1])) = i
      BY <3>1, <3>3
    <3> HIDE DEF next
    <3> QED BY <3>2, <3>4, <3>5
  <2> HIDE DEF T, n
  <2>4. 0..n \subseteq T
    BY <1>1, <2>2, <2>3, UpTo
  <2> QED BY <2>4 DEF T
<1>5. P(f)
  <2>1. ASSUME NEW i \in 1..n PROVE f[i] = next(f[i - 1])
    <3>1. i - 1 \in 0..n /\ f[i - 1] \in Seq(S)
      <4> HIDE DEF n
      <4> QED BY <1>1, <1>3
    <3>2. Ordered(ix, q, S, f[i - 1]) /\ Len(f[i - 1]) < n
      <4> HIDE DEF n
      <4> QED BY <1>1, <1>4, <3>1
    <3>3. S \ ToSet(f[i - 1]) # {}
      BY <3>2, RankingGrows
    <3> HIDE DEF next
    <3> QED BY <1>3, <3>1, <3>3 DEF Follows
  <2>2. f[0] = <<>>
    BY <1>3 DEF Follows
  <2>3. ASSUME NEW i \in 0..n PROVE f[i] = IF i = 0 THEN <<>> ELSE next(f[i - 1])
    <3> HIDE DEF next, n
    <3> QED BY <1>1, <2>1, <2>2
  <2>4. f = [i \in 0..n |-> f[i]]
    BY <1>3
  <2> HIDE DEF next
  <2> QED BY <2>3, <2>4
<1>6. P(u)
  <2> HIDE DEF P
  <2> QED BY <1>5
<1>7. \A i \in 0..n : u[i] = f[i]
  <2>1. \A i \in 0..n : u[i] = IF i = 0 THEN <<>> ELSE next(u[i - 1])
    <3> HIDE DEF u, n, next
    <3> QED BY <1>6
  <2>2. \A i \in 0..n : f[i] = IF i = 0 THEN <<>> ELSE next(f[i - 1])
    <3> HIDE DEF u, n, next
    <3> QED BY <1>5
  <2> HIDE DEF u, n, next, P
  <2>3. u[0] = f[0] /\ \A i \in 1..n : u[i - 1] = f[i - 1] => u[i] = f[i]
    BY <1>1, <2>1, <2>2
  <2> QED BY <1>1, <2>3, SameUpTo
<1>8. Ranked(ix, q, S) = u[n]
  BY DEF Ranked
<1> HIDE DEF u
<1> QED BY <1>1, <1>4, <1>7, <1>8

\* A walk on a level ends at a node.
LEMMA WalkStays ==
    ASSUME NEW ix, NEW q, Comparable(ix, q, Ids(ix)), NEW start \in Ids(ix), NEW level
    PROVE  SearchLayerClosest(ix, q, start, level) \in Ids(ix)
<1> DEFINE n == Cardinality(Ids(ix))
           better(x) == {y \in Alive(ix, x, level) : SimTo(ix, q, y) > SimTo(ix, q, x)}
           next(x) == IF better(x) = {} THEN x ELSE Nearest(ix, q, better(x))
           g == [p \in (1..n) \X Ids(ix) |-> next(p[2])]
           P(f) == f = [i \in 0..n |-> IF i = 0 THEN start ELSE next(f[i - 1])]
           u == CHOOSE f : P(f)
<1>1. n \in Nat /\ IsFiniteSet(Ids(ix))
  BY FS_CardinalityType DEF Comparable
<1>2. ASSUME NEW x \in Ids(ix) PROVE next(x) \in Ids(ix)
  <2>1. better(x) \subseteq Ids(ix)
    BY DEF Alive
  <2> HIDE DEF better
  <2>2. better(x) # {} => Nearest(ix, q, better(x)) \in better(x)
    <3>1. Comparable(ix, q, better(x))
      BY <2>1, FS_Subset DEF Comparable
    <3> QED BY <3>1, NearestOf
  <2> QED BY <2>1, <2>2
<1>3. g \in [(1..n) \X Ids(ix) -> Ids(ix)]
  <2> HIDE DEF next
  <2> QED BY <1>2
<1>4. PICK f \in [0..n -> Ids(ix)] : Follows(f, n, start, g)
  <2> HIDE DEF n, g
  <2> QED BY <1>1, <1>3, Recursion
<1>5. P(f)
  <2> HIDE DEF n, next
  <2>1. ASSUME NEW i \in 1..n PROVE f[i] = next(f[i - 1])
    <3>1. i \in 1..n /\ i - 1 \in 0..n
      BY <1>1
    <3>2. f[i] = g[<<i, f[i - 1]>>]
      <4> HIDE DEF g
      <4> QED BY <1>4, <3>1 DEF Follows
    <3> QED BY <1>4, <3>1, <3>2
  <2>2. \A i \in 0..n : f[i] = IF i = 0 THEN start ELSE next(f[i - 1])
    BY <1>1, <1>4, <2>1 DEF Follows
  <2> QED BY <1>4, <2>2
<1>6. P(u)
  <2> HIDE DEF P
  <2> QED BY <1>5
<1>7. u[0] = start /\ \A i \in 1..n : u[i] = next(u[i - 1])
  <2> HIDE DEF u, n, next
  <2>1. \A i \in 0..n : u[i] = IF i = 0 THEN start ELSE next(u[i - 1])
    BY <1>6
  <2>2. u[0] = start
    BY <1>1, <2>1
  <2>3. ASSUME NEW i \in 1..n PROVE u[i] = next(u[i - 1])
    <3>1. i \in 0..n /\ i # 0
      BY <1>1
    <3> QED BY <2>1, <3>1
  <2> QED BY <2>2, <2>3
<1> DEFINE T == {i \in 0..n : u[i] \in Ids(ix)}
<1>8. 0..n \subseteq T
  <2> HIDE DEF u, n, next
  <2>1. 0 \in T /\ \A i \in 1..n : i - 1 \in T => i \in T
    BY <1>1, <1>2, <1>7
  <2> HIDE DEF T
  <2> QED BY <1>1, <2>1, UpTo
<1>9. SearchLayerClosest(ix, q, start, level) = u[n]
  BY DEF SearchLayerClosest
<1> HIDE DEF u, n, next
<1> QED BY <1>1, <1>8, <1>9

\* So does the way down.
LEMMA DescentStays ==
    ASSUME NEW ix, NEW q, Comparable(ix, q, Ids(ix)), NEW start \in Ids(ix),
           NEW top \in Nat, NEW last \in Nat
    PROVE  Descend(ix, q, start, top, last) \in Ids(ix)
<1>1. CASE ~ (top > last)
  BY <1>1 DEF Descend
<1>2. CASE top > last
  <2> DEFINE n == top - last
             next(x, i) == SearchLayerClosest(ix, q, x, top + 1 - i)
             g == [p \in (1..n) \X Ids(ix) |-> next(p[2], p[1])]
             P(f) == f = [i \in 0..n |-> IF i = 0 THEN start ELSE next(f[i - 1], i)]
             u == CHOOSE f : P(f)
  <2>1. n \in Nat
    BY <1>2
  <2>2. ASSUME NEW x \in Ids(ix), NEW i \in 1..n PROVE next(x, i) \in Ids(ix)
    BY WalkStays
  <2>3. g \in [(1..n) \X Ids(ix) -> Ids(ix)]
    <3> HIDE DEF next
    <3> QED BY <2>2
  <2>4. PICK f \in [0..n -> Ids(ix)] : Follows(f, n, start, g)
    <3> HIDE DEF n, g
    <3> QED BY <2>1, <2>3, Recursion
  <2>5. P(f)
    <3> HIDE DEF n, next
    <3>1. ASSUME NEW i \in 1..n PROVE f[i] = next(f[i - 1], i)
      <4>1. i \in 1..n /\ i - 1 \in 0..n
        BY <2>1
      <4>2. f[i] = g[<<i, f[i - 1]>>]
        <5> HIDE DEF g
        <5> QED BY <2>4, <4>1 DEF Follows
      <4> QED BY <2>4, <4>1, <4>2
    <3>2. \A i \in 0..n : f[i] = IF i = 0 THEN start ELSE next(f[i - 1], i)
      BY <2>1, <2>4, <3>1 DEF Follows
    <3> QED BY <2>4, <3>2
  <2>6. P(u)
    <3> HIDE DEF P
    <3> QED BY <2>5
  <2>7. u[0] = start /\ \A i \in 1..n : u[i] = next(u[i - 1], i)
    <3> HIDE DEF u, n, next
    <3>1. \A i \in 0..n : u[i] = IF i = 0 THEN start ELSE next(u[i - 1], i)
      BY <2>6
    <3>2. u[0] = start
      BY <2>1, <3>1
    <3>3. ASSUME NEW i \in 1..n PROVE u[i] = next(u[i - 1], i)
      <4>1. i \in 0..n /\ i # 0
        BY <2>1
      <4> QED BY <3>1, <4>1
    <3> QED BY <3>2, <3>3
  <2> DEFINE T == {i \in 0..n : u[i] \in Ids(ix)}
  <2>8. 0..n \subseteq T
    <3> HIDE DEF u, n, next
    <3>1. 0 \in T /\ \A i \in 1..n : i - 1 \in T => i \in T
      BY <2>1, <2>2, <2>7
    <3> HIDE DEF T
    <3> QED BY <2>1, <3>1, UpTo
  <2>9. Descend(ix, q, start, top, last) = u[n]
    BY <1>2 DEF Descend
  <2> HIDE DEF u, n, next
  <2> QED BY <2>1, <2>8, <2>9
<1> QED BY <1>1, <1>2

\* Each node is linked to all others on a level.
AllLinked(ix, level) == \A x \in Ids(ix) : Alive(ix, x, level) = Ids(ix) \ {x}

\* What is reached on a level are nodes, the start among them; all of them where
\* each is linked to all others.
LEMMA Reached ==
    ASSUME NEW ix, IsFiniteSet(Ids(ix)), NEW start \in Ids(ix), NEW level
    PROVE  /\ Reach(ix, start, level) \subseteq Ids(ix)
           /\ AllLinked(ix, level) => Reach(ix, start, level) = Ids(ix)
<1> DEFINE n == Cardinality(Ids(ix))
           next(T) == T \cup UNION {Alive(ix, x, level) : x \in T}
           g == [p \in (1..n) \X SUBSET Ids(ix) |-> next(p[2])]
           P(f) == f = [i \in 0..n |-> IF i = 0 THEN {start} ELSE next(f[i - 1])]
           u == CHOOSE f : P(f)
<1>1. n \in Nat /\ n # 0 /\ {start} \in SUBSET Ids(ix)
  BY FS_CardinalityType, FS_EmptySet
<1>2. ASSUME NEW T \in SUBSET Ids(ix) PROVE next(T) \in SUBSET Ids(ix)
  BY DEF Alive
<1>3. g \in [(1..n) \X SUBSET Ids(ix) -> SUBSET Ids(ix)]
  <2> HIDE DEF next
  <2> QED BY <1>2
<1>4. PICK f \in [0..n -> SUBSET Ids(ix)] : Follows(f, n, {start}, g)
  <2> HIDE DEF n, g
  <2> QED BY <1>1, <1>3, Recursion
<1>5. P(f)
  <2> HIDE DEF n, next
  <2>1. ASSUME NEW i \in 1..n PROVE f[i] = next(f[i - 1])
    <3>1. i \in 1..n /\ i - 1 \in 0..n
      BY <1>1
    <3>2. f[i] = g[<<i, f[i - 1]>>]
      <4> HIDE DEF g
      <4> QED BY <1>4, <3>1 DEF Follows
    <3> QED BY <1>4, <3>1, <3>2
  <2>2. \A i \in 0..n : f[i] = IF i = 0 THEN {start} ELSE next(f[i - 1])
    BY <1>1, <1>4, <2>1 DEF Follows
  <2> QED BY <1>4, <2>2
<1>6. P(u)
  <2> HIDE DEF P
  <2> QED BY <1>5
<1>7. u[0] = {start} /\ \A i \in 1..n : u[i] = next(u[i - 1])
  <2> HIDE DEF u, n, next
  <2>1. \A i \in 0..n : u[i] = IF i = 0 THEN {start} ELSE next(u[i - 1])
    BY <1>6
  <2>2. u[0] = {start}
    BY <1>1, <2>1
  <2>3. ASSUME NEW i \in 1..n PROVE u[i] = next(u[i - 1])
    <3>1. i \in 0..n /\ i # 0
      BY <1>1
    <3> QED BY <2>1, <3>1
  <2> QED BY <2>2, <2>3
<1> DEFINE T == {i \in 0..n : start \in u[i] /\ u[i] \subseteq Ids(ix)}
<1>8. 0..n \subseteq T
  <2>1. ASSUME NEW U PROVE U \subseteq next(U)
    OBVIOUS
  <2> HIDE DEF u, n, next
  <2>2. 0 \in T
    BY <1>1, <1>7
  <2>3. ASSUME NEW i \in 1..n, i - 1 \in T PROVE i \in T
    BY <1>1, <1>2, <1>7, <2>1, <2>3
  <2> HIDE DEF T
  <2> QED BY <1>1, <2>2, <2>3, UpTo
<1>9. Reach(ix, start, level) = u[n]
  BY DEF Reach
<1>10. u[n] \subseteq Ids(ix)
  <2> HIDE DEF u, n
  <2> QED BY <1>1, <1>8
<1>11. ASSUME AllLinked(ix, level) PROVE Ids(ix) \subseteq u[n]
  <2>1. n \in 1..n /\ n - 1 \in 0..n
    <3> HIDE DEF n
    <3> QED BY <1>1
  <2> HIDE DEF u, n
  <2>2. start \in u[n - 1] /\ u[n] = next(u[n - 1])
    BY <1>7, <1>8, <2>1
  <2>3. Alive(ix, start, level) = Ids(ix) \ {start}
    BY <1>11 DEF AllLinked
  <2> QED BY <2>2, <2>3
<1> HIDE DEF u, n, next
<1> QED BY <1>9, <1>10, <1>11

\* A list grows by a value that it does not have.
LEMMA ListGrows ==
    ASSUME NEW S, NEW T, NEW s \in Seq(S), Distinct(s), ToSet(s) = T,
           NEW id \in S, id \notin T
    PROVE  LET t == Append(s, id)
           IN t \in Seq(S) /\ Distinct(t) /\ ToSet(t) = T \cup {id} /\ Len(t) = Len(s) + 1
<1> DEFINE t == Append(s, id)
<1>1. Len(s) \in Nat
  OBVIOUS
<1>2. /\ t \in Seq(S) /\ Len(t) = Len(s) + 1 /\ t[Len(s) + 1] = id
      /\ \A i \in 1..Len(s) : t[i] = s[i]
  BY <1>1
<1>3. DOMAIN t = 1..(Len(s) + 1) /\ DOMAIN s = 1..Len(s)
  BY <1>1, <1>2
<1> HIDE DEF t
<1>4. ToSet(t) = T \cup {id}
  <2>1. DOMAIN t = (1..Len(s)) \cup {Len(s) + 1}
    BY <1>1, <1>3
  <2> QED BY <1>2, <1>3, <2>1 DEF ToSet
<1>5. \A i \in 1..Len(s) : s[i] # id
  BY <1>3 DEF ToSet
<1>6. Distinct(t)
  <2> SUFFICES ASSUME NEW i \in 1..Len(t), NEW j \in 1..Len(t), i < j PROVE t[i] # t[j]
    BY DEF Distinct
  <2>1. i \in 1..Len(s) /\ (j \in 1..Len(s) \/ j = Len(s) + 1)
    BY <1>1, <1>2
  <2>2. CASE j \in 1..Len(s)
    BY <1>1, <1>2, <2>1, <2>2 DEF Distinct
  <2>3. CASE j = Len(s) + 1
    BY <1>2, <1>5, <2>1, <2>3
  <2> QED BY <2>1, <2>2, <2>3
<1> QED BY <1>2, <1>4, <1>6 DEF t

\* A list without a value: no repetition arises, and the rest stays.
LEMMA WithoutKeeps ==
    ASSUME NEW V, NEW s \in Seq(V), Distinct(s), NEW id
    PROVE  LET t == Without(s, id)
           IN t \in Seq(V) /\ Distinct(t) /\ ToSet(t) = ToSet(s) \ {id}
<1> DEFINE n == Len(s)
           next(t, i) == IF s[i] = id THEN t ELSE Append(t, s[i])
           g == [p \in (1..n) \X Seq(V) |-> next(p[2], p[1])]
           P(f) == f = [i \in 0..n |-> IF i = 0 THEN <<>> ELSE next(f[i - 1], i)]
           u == CHOOSE f : P(f)
<1>1. n \in Nat /\ <<>> \in Seq(V)
  OBVIOUS
<1>2. g \in [(1..n) \X Seq(V) -> Seq(V)]
  <2>1. ASSUME NEW t \in Seq(V), NEW i \in 1..n PROVE next(t, i) \in Seq(V)
    OBVIOUS
  <2> HIDE DEF next
  <2> QED BY <2>1
<1>3. PICK f \in [0..n -> Seq(V)] : Follows(f, n, <<>>, g)
  <2> HIDE DEF n, g
  <2> QED BY <1>1, <1>2, Recursion
<1>4. P(f)
  <2> HIDE DEF n, next
  <2>1. ASSUME NEW i \in 1..n PROVE f[i] = next(f[i - 1], i)
    <3>1. i \in 1..n /\ i - 1 \in 0..n
      BY <1>1
    <3>2. f[i] = g[<<i, f[i - 1]>>]
      <4> HIDE DEF g
      <4> QED BY <1>3, <3>1 DEF Follows
    <3> QED BY <1>3, <3>1, <3>2
  <2>2. \A i \in 0..n : f[i] = IF i = 0 THEN <<>> ELSE next(f[i - 1], i)
    BY <1>1, <1>3, <2>1 DEF Follows
  <2> QED BY <1>3, <2>2
<1>5. P(u)
  <2> HIDE DEF P
  <2> QED BY <1>4
<1>6. u[0] = <<>> /\ \A i \in 1..n : u[i] = next(u[i - 1], i)
  <2> HIDE DEF u, n, next
  <2>1. \A i \in 0..n : u[i] = IF i = 0 THEN <<>> ELSE next(u[i - 1], i)
    BY <1>5
  <2>2. u[0] = <<>>
    <3>1. 0 \in 0..n
      BY <1>1
    <3> QED BY <2>1, <3>1
  <2>3. ASSUME NEW i \in 1..n PROVE u[i] = next(u[i - 1], i)
    <3>1. i \in 0..n /\ i # 0
      BY <1>1
    <3> QED BY <2>1, <3>1
  <2> QED BY <2>2, <2>3
<1> DEFINE Good(t, i) == /\ t \in Seq(V) /\ Distinct(t)
                         /\ ToSet(t) = {s[j] : j \in 1..i} \ {id}
           T == {i \in 0..n : Good(u[i], i)}
<1>7. 0..n \subseteq T
  <2>1. Good(<<>>, 0)
    BY DEF Distinct, ToSet
  <2>2. ASSUME NEW i \in 1..n, NEW t, Good(t, i - 1) PROVE Good(next(t, i), i)
    <3>1. {s[j] : j \in 1..i} = {s[j] : j \in 1..(i - 1)} \cup {s[i]}
      <4>1. 1..i = (1..(i - 1)) \cup {i}
        BY <1>1
      <4> QED BY <4>1
    <3>2. CASE s[i] = id
      BY <2>2, <3>1, <3>2
    <3>3. CASE s[i] # id
      <4>1. s[i] \in V /\ s[i] \notin ToSet(t)
        <5>1. \A j \in 1..(i - 1) : s[j] # s[i]
          BY <1>1 DEF Distinct
        <5> QED BY <2>2, <5>1
      <4>2. /\ Append(t, s[i]) \in Seq(V) /\ Distinct(Append(t, s[i]))
            /\ ToSet(Append(t, s[i])) = ToSet(t) \cup {s[i]}
        BY <2>2, <4>1, ListGrows
      <4>3. next(t, i) = Append(t, s[i])
        BY <3>3
      <4> HIDE DEF next
      <4> QED BY <2>2, <3>1, <3>3, <4>2, <4>3
    <3> QED BY <3>2, <3>3
  <2> HIDE DEF u, n, next, Good
  <2>3. 0 \in T /\ \A i \in 1..n : i - 1 \in T => i \in T
    BY <1>1, <1>6, <2>1, <2>2
  <2> HIDE DEF T
  <2> QED BY <1>1, <2>3, UpTo
<1>8. Without(s, id) = u[n]
  BY DEF Without
<1>9. {s[j] : j \in 1..n} = ToSet(s)
  BY DEF ToSet
<1>10. Good(u[n], n)
  <2> HIDE DEF u, n, Good
  <2> QED BY <1>1, <1>7
<1> HIDE DEF u, n
<1> QED BY <1>8, <1>9, <1>10

\* A list of the elements of T, each once.
Lists(s, T) == s \in Seq(VecId) /\ Distinct(s) /\ ToSet(s) = T

\* A node, linked to all others on the lowest layer.
NodeOK(n, others) ==
    /\ n = Rewired(n, n.nb) /\ n.emb \in Emb /\ n.level \in Nat
    /\ DOMAIN n.nb = 0..n.level
    /\ Lists(n.nb[0], others)

\* An index of at most M + 1 nodes, each of them linked to all others.
SmallOK(ix) ==
    /\ "nodes" \in DOMAIN ix
    /\ IsFiniteSet(Ids(ix)) /\ Cardinality(Ids(ix)) <= M + 1
    /\ \A x \in Ids(ix) : NodeOK(ix.nodes[x], Ids(ix) \ {x})

LEMMA SmallComparable ==
    ASSUME NEW ix, SmallOK(ix), NEW q \in Emb
    PROVE  Comparable(ix, q, Ids(ix))
<1>1. \A x \in Ids(ix) : ix.nodes[x].emb \in Emb
  BY DEF SmallOK, NodeOK
<1>2. IsFiniteSet(Ids(ix))
  BY DEF SmallOK
<1> QED BY <1>1, <1>2, HnswConstants DEF Comparable, SimTo

LEMMA SmallLinked ==
    ASSUME NEW ix, \A x \in Ids(ix) : NodeOK(ix.nodes[x], Ids(ix) \ {x})
    PROVE  AllLinked(ix, 0)
<1>1. ASSUME NEW x \in Ids(ix) PROVE Alive(ix, x, 0) = Ids(ix) \ {x}
  <2>1. NodeOK(ix.nodes[x], Ids(ix) \ {x})
    OBVIOUS
  <2>2. 0 <= ix.nodes[x].level
    BY <2>1 DEF NodeOK
  <2>3. ToSet(ix.nodes[x].nb[0]) = Ids(ix) \ {x}
    BY <2>1 DEF NodeOK, Lists
  <2> QED BY <2>2, <2>3 DEF Alive, Links
<1> QED BY <1>1 DEF AllLinked

\* remove keeps the other nodes linked to one another.
LEMMA RemovedSmall ==
    ASSUME NEW ix, SmallOK(ix), NEW id \in Ids(ix), NEW jx \in Removed(ix, id)
    PROVE  SmallOK(jx) /\ Cardinality(Ids(jx)) <= M /\ id \notin Ids(jx)
<1>1. PICK e \in EntryAfter(ix, id) :
         jx = [nodes |-> Unlinked(ix, id), entry |-> e, max |-> ix.max]
  BY DEF Removed
<1>2. Ids(jx) = Ids(ix) \ {id}
  BY <1>1 DEF Ids, Unlinked
<1>3. IsFiniteSet(Ids(jx)) /\ Cardinality(Ids(jx)) <= M
  <2>1. IsFiniteSet(Ids(ix)) /\ Cardinality(Ids(ix)) <= M + 1
    BY DEF SmallOK
  <2>2. /\ IsFiniteSet(Ids(ix) \ {id})
        /\ Cardinality(Ids(ix) \ {id}) = Cardinality(Ids(ix)) - 1
    BY <2>1, FS_RemoveElement
  <2>3. Cardinality(Ids(ix)) \in Nat /\ M \in Nat
    BY <2>1, FS_CardinalityType, HnswConstants
  <2> QED BY <1>2, <2>1, <2>2, <2>3
<1>4. ASSUME NEW x \in Ids(jx) PROVE NodeOK(jx.nodes[x], Ids(jx) \ {x})
  <2> DEFINE n == ix.nodes[x]
             nb == [l \in DOMAIN n.nb |->
                      IF x \in ToSet(Links(ix, id, l)) THEN Without(n.nb[l], id) ELSE n.nb[l]]
  <2>1. jx.nodes[x] = Rewired(n, nb)
    BY <1>1, <1>2 DEF Unlinked
  <2>2. x \in Ids(ix) /\ x # id
    BY <1>2
  <2>3. NodeOK(n, Ids(ix) \ {x}) /\ NodeOK(ix.nodes[id], Ids(ix) \ {id})
    BY <2>2 DEF SmallOK
  <2> HIDE DEF n
  <2>4. n.level \in Nat /\ n.emb \in Emb /\ DOMAIN n.nb = 0..n.level /\ 0 \in DOMAIN n.nb
    BY <2>3 DEF NodeOK
  <2>5. x \in ToSet(Links(ix, id, 0))
    BY <2>2, <2>3 DEF NodeOK, Links, Lists
  <2>6. nb[0] = Without(n.nb[0], id) /\ DOMAIN nb = 0..n.level
    BY <2>4, <2>5
  <2>7. Lists(Without(n.nb[0], id), Ids(jx) \ {x})
    BY <1>2, <2>3, WithoutKeeps DEF NodeOK, Lists
  <2> HIDE DEF nb
  <2> QED BY <2>1, <2>4, <2>6, <2>7 DEF NodeOK, Rewired
<1>5. "nodes" \in DOMAIN jx
  BY <1>1
<1>6. M \in Nat /\ Cardinality(Ids(jx)) \in Nat
  BY <1>3, FS_CardinalityType, HnswConstants
<1> QED BY <1>2, <1>3, <1>4, <1>5, <1>6 DEF SmallOK

\* The first of a list are elements of it.
LEMMA Taken ==
    ASSUME NEW S, NEW s \in Seq(S), NEW n \in Nat
    PROVE  /\ Take(s, n) \in Seq(S)
           /\ Len(Take(s, n)) = IF Len(s) > n THEN n ELSE Len(s)
           /\ \A i \in 1..Len(Take(s, n)) : i \in 1..Len(s) /\ Take(s, n)[i] = s[i]
           /\ Len(s) <= n => Take(s, n) = s
<1> DEFINE m == IF Len(s) > n THEN n ELSE Len(s)
<1>1. Len(s) \in Nat /\ m \in 0..Len(s) /\ (Len(s) <= n => m = Len(s))
  OBVIOUS
<1>2. SubSeq(s, 1, m) \in Seq(S) /\ Len(SubSeq(s, 1, m)) = m
      /\ \A i \in 1..m : SubSeq(s, 1, m)[i] = s[i]
  <2> HIDE DEF m
  <2> QED BY <1>1, SubSeqProperties
<1>3. Take(s, n) = SubSeq(s, 1, m)
  BY DEF Take
<1> HIDE DEF m
<1>4. Len(s) <= n => SubSeq(s, 1, m) = s
  BY <1>1, SubSeqFull
<1>5. \A i \in 1..m : i \in 1..Len(s)
  BY <1>1
<1> QED BY <1>1, <1>2, <1>3, <1>4, <1>5 DEF m

\* jx is ix with the links that are made on a layer.
IsLinkedBack(jx, ix, nbs, level, id, emb) ==
    /\ "nodes" \in DOMAIN jx /\ Ids(jx) = Ids(ix)
    /\ \A x \in Ids(ix) :
         jx.nodes[x] =
           IF x \in ToSet(nbs) /\ level <= ix.nodes[x].level
           THEN [ix.nodes[x] EXCEPT !.nb[level] =
                   Prune(ix, x, id, emb, Append(ix.nodes[x].nb[level], id))]
           ELSE ix.nodes[x]

LEMMA LinkedBack ==
    ASSUME NEW ix, "nodes" \in DOMAIN ix, NEW nbs, NEW level, NEW id, NEW emb,
           NEW jx, jx = LinkBack(ix, nbs, level, id, emb)
    PROVE  IsLinkedBack(jx, ix, nbs, level, id, emb)
<1> DEFINE F == [x \in Ids(ix) |->
                   IF x \in ToSet(nbs) /\ level <= ix.nodes[x].level
                   THEN [ix.nodes[x] EXCEPT !.nb[level] =
                           Prune(ix, x, id, emb, Append(ix.nodes[x].nb[level], id))]
                   ELSE ix.nodes[x]]
<1>1. jx = [ix EXCEPT !.nodes = F]
  BY DEF LinkBack
<1>2. "nodes" \in DOMAIN jx /\ jx.nodes = F
  <2> HIDE DEF F
  <2> QED BY <1>1
<1>3. Ids(jx) = Ids(ix) /\ Ids(ix) = DOMAIN ix.nodes
  BY <1>2 DEF Ids
<1> QED BY <1>2, <1>3 DEF IsLinkedBack

\* The neighbours that a layer gives are nodes; all of them, each once, if every
\* node is linked to all others there and there are no more than m.
LEMMA Neighbours ==
    ASSUME NEW ix, NEW q, Comparable(ix, q, Ids(ix)), NEW cur \in Ids(ix),
           NEW ef \in Nat, NEW level,
           NEW nbs, nbs = Take(SearchLayer(ix, q, cur, ef, level), M)
    PROVE  /\ nbs \in Seq(Ids(ix))
           /\ AllLinked(ix, level) /\ Cardinality(Ids(ix)) <= M /\ Cardinality(Ids(ix)) <= ef
                => Distinct(nbs) /\ ToSet(nbs) = Ids(ix)
<1> DEFINE R == Reach(ix, cur, level)
           r == Ranked(ix, q, R)
<1>1. R \subseteq Ids(ix) /\ (AllLinked(ix, level) => R = Ids(ix))
  BY Reached DEF Comparable
<1>2. Comparable(ix, q, R)
  <2> HIDE DEF R
  <2> QED BY <1>1, FS_Subset DEF Comparable
<1>3. Ordered(ix, q, R, r) /\ Len(r) = Cardinality(R)
  <2> HIDE DEF R
  <2> QED BY <1>2, RankedAll
<1>4. SearchLayer(ix, q, cur, ef, level) = Take(r, ef)
  BY DEF SearchLayer
<1> HIDE DEF R, r
<1>5. r \in Seq(Ids(ix)) /\ M \in Nat
  BY <1>1, <1>3, SeqMonotonic, HnswConstants DEF Ordered
<1>6. Take(r, ef) \in Seq(Ids(ix)) /\ (Len(r) <= ef => Take(r, ef) = r)
  BY <1>5, Taken
<1>7. nbs \in Seq(Ids(ix)) /\ (Len(Take(r, ef)) <= M => nbs = Take(r, ef))
  BY <1>4, <1>5, <1>6, Taken
<1>8. ASSUME AllLinked(ix, level), Cardinality(Ids(ix)) <= M, Cardinality(Ids(ix)) <= ef
      PROVE  Distinct(nbs) /\ ToSet(nbs) = Ids(ix)
  <2>1. R = Ids(ix) /\ nbs = r
    BY <1>1, <1>3, <1>6, <1>7, <1>8
  <2>2. Distinct(r) /\ r \in Seq(R)
    BY <1>3 DEF Ordered
  <2>3. Cardinality(ToSet(r)) = Cardinality(R)
    BY <1>3, <2>2, DistinctLength
  <2>a. ToSet(r) \subseteq R
    BY <2>2 DEF ToSet
  <2>4. ToSet(r) = R
    BY <1>2, <2>3, <2>a, FS_Subset DEF Comparable
  <2> QED BY <2>1, <2>2, <2>4
<1> QED BY <1>7, <1>8

\* While an insert goes down the layers: the nodes with their levels are there,
\* the walk is at one of them, and the lowest layer is as it was.
Going(ix, t, level) ==
    /\ "nodes" \in DOMAIN t.ix /\ Ids(t.ix) = Ids(ix) /\ t.cur \in Ids(ix)
    /\ DOMAIN t.nb = 0..level
    /\ \A x \in Ids(ix) : /\ NodeOK(t.ix.nodes[x], Ids(ix) \ {x})
                          /\ t.ix.nodes[x].level = ix.nodes[x].level

LEMMA GoingComparable ==
    ASSUME NEW ix, NEW t, NEW level, IsFiniteSet(Ids(ix)), Going(ix, t, level), NEW q \in Emb
    PROVE  Comparable(t.ix, q, Ids(t.ix))
<1>1. \A x \in Ids(ix) : t.ix.nodes[x].emb \in Emb
  BY DEF Going, NodeOK
<1>2. Ids(t.ix) = Ids(ix)
  BY DEF Going
<1> QED BY <1>1, <1>2, HnswConstants DEF Comparable, SimTo

\* A layer above the lowest one changes neither the levels nor the lowest lists.
LEMMA ConnectAbove ==
    ASSUME NEW ix, NEW t, NEW level \in Nat, IsFiniteSet(Ids(ix)), Going(ix, t, level),
           NEW l \in 1..level, NEW id, NEW emb \in Emb
    PROVE  Going(ix, Connect(t, l, id, emb), level)
<1> DEFINE nbs == Take(SearchLayer(t.ix, emb, t.cur, EfConstruction, l), M)
           jx == LinkBack(t.ix, nbs, l, id, emb)
           cur == IF nbs = <<>> THEN t.cur ELSE nbs[1]
           nb == [t.nb EXCEPT ![l] = nbs]
           r == Connect(t, l, id, emb)
<1>1. r = [ix |-> jx, cur |-> cur, nb |-> nb]
  BY DEF Connect
<1>2. r.ix = jx /\ r.cur = cur /\ r.nb = nb
  <2> HIDE DEF jx, cur, nb, r
  <2> QED BY <1>1
<1>3. /\ "nodes" \in DOMAIN t.ix /\ Ids(t.ix) = Ids(ix) /\ t.cur \in Ids(ix)
      /\ DOMAIN t.nb = 0..level
  BY DEF Going
<1>4. nbs \in Seq(Ids(ix))
  <2>1. Comparable(t.ix, emb, Ids(t.ix)) /\ EfConstruction \in Nat
    BY GoingComparable, HnswConstants
  <2> HIDE DEF nbs
  <2> QED BY <1>3, <2>1, Neighbours DEF nbs
<1>5. cur \in Ids(ix)
  <2> HIDE DEF nbs
  <2>1. nbs # <<>> => nbs[1] \in Ids(ix)
    BY <1>4
  <2> QED BY <1>3, <2>1
<1>6. DOMAIN nb = 0..level
  <2> HIDE DEF nbs
  <2> QED BY <1>3
<1>7. IsLinkedBack(jx, t.ix, nbs, l, id, emb)
  BY <1>3, LinkedBack
<1>8. ASSUME NEW x \in Ids(ix)
      PROVE  /\ NodeOK(jx.nodes[x], Ids(ix) \ {x})
             /\ jx.nodes[x].level = ix.nodes[x].level
  <2>1. PICK n : n = t.ix.nodes[x]
    OBVIOUS
  <2>2. NodeOK(n, Ids(ix) \ {x}) /\ n.level = ix.nodes[x].level
    BY <2>1 DEF Going
  <2>3. PICK p : \/ jx.nodes[x] = [n EXCEPT !.nb[l] = p]
                 \/ jx.nodes[x] = n
    <3> HIDE DEF jx, nbs
    <3> QED BY <1>3, <1>7, <2>1 DEF IsLinkedBack
  <2>4. CASE jx.nodes[x] = n
    BY <2>2, <2>4
  <2>5. CASE jx.nodes[x] = [n EXCEPT !.nb[l] = p]
    <3>1. PICK m : m = [n.nb EXCEPT ![l] = p]
      OBVIOUS
    <3>2. n = [emb |-> n.emb, level |-> n.level, nb |-> n.nb]
      BY <2>2 DEF NodeOK, Rewired
    <3>3. [n EXCEPT !.nb[l] = p] = [emb |-> n.emb, level |-> n.level, nb |-> m]
      BY <3>1, <3>2
    <3>4. DOMAIN m = DOMAIN n.nb /\ 0 \in DOMAIN n.nb /\ m[0] = n.nb[0]
      <4>1. 0 \in DOMAIN n.nb /\ 0 # l
        BY <2>2 DEF NodeOK
      <4> QED BY <3>1, <4>1
    <3>5. PICK k : k = jx.nodes[x]
      OBVIOUS
    <3>6. /\ k.emb = n.emb /\ k.level = n.level /\ k.nb = m
          /\ k = [emb |-> k.emb, level |-> k.level, nb |-> k.nb]
      BY <2>5, <3>3, <3>5
    <3>7. NodeOK(k, Ids(ix) \ {x})
      BY <2>2, <3>4, <3>6 DEF NodeOK, Rewired
    <3> QED BY <2>2, <3>5, <3>6, <3>7
  <2> QED BY <2>3, <2>4, <2>5
<1> HIDE DEF nbs, jx, cur, nb, r
<1>9. Going(ix, r, level)
  BY <1>2, <1>3, <1>5, <1>6, <1>7, <1>8 DEF Going, IsLinkedBack
<1> QED BY <1>9 DEF r

\* The new links of the lowest layer: every node and the new one, both ways.
Linked(ix, t, level, id) ==
    /\ \A x \in Ids(ix) : /\ DOMAIN t.ix.nodes[x].nb = 0..ix.nodes[x].level
                          /\ Lists(t.ix.nodes[x].nb[0], (Ids(ix) \ {x}) \cup {id})
    /\ DOMAIN t.nb = 0..level /\ Lists(t.nb[0], Ids(ix))

LEMMA ConnectLowest ==
    ASSUME NEW ix, NEW t, NEW level \in Nat, IsFiniteSet(Ids(ix)), Ids(ix) \subseteq VecId,
           Cardinality(Ids(ix)) <= M, Going(ix, t, level),
           NEW id \in VecId, id \notin Ids(ix), NEW emb \in Emb
    PROVE  Linked(ix, Connect(t, 0, id, emb), level, id)
<1> DEFINE nbs == Take(SearchLayer(t.ix, emb, t.cur, EfConstruction, 0), M)
           jx == LinkBack(t.ix, nbs, 0, id, emb)
           cur == IF nbs = <<>> THEN t.cur ELSE nbs[1]
           nb == [t.nb EXCEPT ![0] = nbs]
           r == Connect(t, 0, id, emb)
<1>1. r = [ix |-> jx, cur |-> cur, nb |-> nb]
  BY DEF Connect
<1>2. r.ix = jx /\ r.nb = nb
  <2> HIDE DEF jx, cur, nb, r
  <2> QED BY <1>1
<1>3. /\ "nodes" \in DOMAIN t.ix /\ Ids(t.ix) = Ids(ix) /\ t.cur \in Ids(ix)
      /\ DOMAIN t.nb = 0..level
  BY DEF Going
<1>4. nbs \in Seq(Ids(ix)) /\ Distinct(nbs) /\ ToSet(nbs) = Ids(ix)
  <2>1. Comparable(t.ix, emb, Ids(t.ix))
    BY GoingComparable
  <2>2. AllLinked(t.ix, 0)
    BY <1>3, SmallLinked DEF Going
  <2>3. /\ EfConstruction \in Nat /\ Cardinality(Ids(t.ix)) <= M
        /\ Cardinality(Ids(t.ix)) <= EfConstruction
    <3>1. Cardinality(Ids(ix)) \in Nat
      BY FS_CardinalityType
    <3> QED BY <1>3, <3>1, HnswConstants
  <2> HIDE DEF nbs
  <2> QED BY <1>3, <2>1, <2>2, <2>3, Neighbours DEF nbs
<1>5. DOMAIN nb = 0..level /\ Lists(nb[0], Ids(ix))
  <2> HIDE DEF nbs
  <2>1. nb[0] = nbs /\ DOMAIN nb = 0..level
    BY <1>3
  <2>2. nbs \in Seq(VecId)
    BY <1>4, SeqMonotonic
  <2> HIDE DEF nb
  <2> QED BY <1>4, <2>1, <2>2 DEF Lists
<1>6. IsLinkedBack(jx, t.ix, nbs, 0, id, emb)
  BY <1>3, LinkedBack
<1>7. ASSUME NEW x \in Ids(ix)
      PROVE  /\ DOMAIN jx.nodes[x].nb = 0..ix.nodes[x].level
             /\ Lists(jx.nodes[x].nb[0], (Ids(ix) \ {x}) \cup {id})
  <2>1. PICK n : n = t.ix.nodes[x]
    OBVIOUS
  <2>2. NodeOK(n, Ids(ix) \ {x}) /\ n.level = ix.nodes[x].level
    BY <2>1 DEF Going
  <2>3. n.level \in Nat /\ 0 <= n.level
    BY <2>2 DEF NodeOK
  <2>4. jx.nodes[x] = [n EXCEPT !.nb[0] = Prune(t.ix, x, id, emb, Append(n.nb[0], id))]
    <3> HIDE DEF jx, nbs
    <3> QED BY <1>3, <1>4, <1>6, <2>1, <2>3 DEF IsLinkedBack
  <2>5. PICK s : s = n.nb[0]
    OBVIOUS
  <2>6. Lists(s, Ids(ix) \ {x})
    BY <2>2, <2>5 DEF NodeOK
  <2>7. /\ Append(s, id) \in Seq(VecId) /\ Distinct(Append(s, id))
        /\ ToSet(Append(s, id)) = (Ids(ix) \ {x}) \cup {id}
        /\ Len(Append(s, id)) = Len(s) + 1
    BY <2>6, ListGrows DEF Lists
  <2>8. Len(Append(s, id)) <= M
    <3>1. Cardinality(Ids(ix) \ {x}) = Cardinality(Ids(ix)) - 1
      BY FS_RemoveElement
    <3>2. Cardinality(Ids(ix) \ {x}) = Len(s)
      BY <2>6, DistinctLength DEF Lists
    <3>3. Cardinality(Ids(ix)) \in Nat /\ M \in Nat
      BY FS_CardinalityType, HnswConstants
    <3> QED BY <2>7, <3>1, <3>2, <3>3
  <2>9. Prune(t.ix, x, id, emb, Append(s, id)) = Append(s, id)
    BY <2>8 DEF Prune
  <2>10. PICK m : m = [n.nb EXCEPT ![0] = Append(s, id)]
    OBVIOUS
  <2>11. n = [emb |-> n.emb, level |-> n.level, nb |-> n.nb]
    BY <2>2 DEF NodeOK, Rewired
  <2>12. jx.nodes[x] = [emb |-> n.emb, level |-> n.level, nb |-> m]
    <3> HIDE DEF jx
    <3> QED BY <2>4, <2>5, <2>9, <2>10, <2>11
  <2>13. jx.nodes[x].nb = m
    <3> HIDE DEF jx
    <3> QED BY <2>12
  <2>14. DOMAIN m = DOMAIN n.nb /\ m[0] = Append(s, id)
    <3>1. 0 \in DOMAIN n.nb
      BY <2>2, <2>3 DEF NodeOK
    <3> QED BY <2>10, <3>1
  <2>15. DOMAIN m = 0..ix.nodes[x].level
    BY <2>2, <2>14 DEF NodeOK
  <2> HIDE DEF jx
  <2> QED BY <2>7, <2>13, <2>14, <2>15 DEF Lists
<1> HIDE DEF nbs, jx, cur, nb, r
<1>8. Linked(ix, r, level, id)
  BY <1>2, <1>5, <1>7 DEF Linked
<1> QED BY <1>8 DEF r

\* insert of a new id links it and the other nodes to one another.
LEMMA InsertedSmall ==
    ASSUME NEW ix, IndexOK(ix), SmallOK(ix), Cardinality(Ids(ix)) <= M,
           NEW id \in VecId, id \notin Ids(ix), NEW emb \in Emb, NEW level \in Nat
    PROVE  SmallOK(Inserted(ix, id, emb, level))
<1> DEFINE none == [l \in 0..level |-> <<>>]
           node(nb) == [emb |-> emb, level |-> level, nb |-> nb]
           add(jx, nb) == [v \in Ids(ix) \cup {id} |->
                             IF v = id THEN node(nb) ELSE Rewired(ix.nodes[v], jx.nodes[v].nb)]
           start == IF level < ix.max THEN level ELSE ix.max
           s0 == [ix |-> ix, nb |-> none, cur |-> Descend(ix, emb, ix.entry, ix.max, level)]
           next(t, i) == Connect(t, start + 1 - i, id, emb)
           n == start + 1
           P(f) == f = [i \in 0..n |-> IF i = 0 THEN s0 ELSE next(f[i - 1], i)]
           u == CHOOSE f : P(f)
           new == Ids(ix) \cup {id}
           r == Inserted(ix, id, emb, level)
<1>1. /\ IsFiniteSet(Ids(ix)) /\ Ids(ix) \subseteq VecId /\ ix.max \in Nat
      /\ "nodes" \in DOMAIN ix /\ M \in Nat
  BY HnswConstants DEF IndexOK, SmallOK
<1>2. IsFiniteSet(new) /\ Cardinality(new) <= M + 1
  <2>1. IsFiniteSet(new) /\ Cardinality(new) = Cardinality(Ids(ix)) + 1
    BY <1>1, FS_AddElement, SMTT(30)
  <2>2. Cardinality(Ids(ix)) \in Nat
    BY <1>1, FS_CardinalityType
  <2> HIDE DEF new
  <2> QED BY <1>1, <2>1, <2>2
<1>3. Ids(r) = new /\ "nodes" \in DOMAIN r
  BY DEF Inserted, Ids
<1>4. CASE ix.entry = NoEntry
  <2>1. Ids(ix) = {}
    BY <1>4 DEF IndexOK
  <2>2. r.nodes = add(ix, none)
    BY <1>4 DEF Inserted
  <2>3. r.nodes[id] = node(none)
    <3> HIDE DEF r, none
    <3> QED BY <2>2
  <2>4. NodeOK(r.nodes[id], {})
    <3>1. 0 \in 0..level
      OBVIOUS
    <3>2. none[0] = <<>> /\ DOMAIN none = 0..level
      BY <3>1
    <3>3. Lists(<<>>, {})
      BY DEF Lists, Distinct, ToSet
    <3> HIDE DEF r, none
    <3> QED BY <2>3, <3>2, <3>3 DEF NodeOK, Rewired
  <2>5. new = {id} /\ new \ {id} = {}
    BY <2>1
  <2> HIDE DEF r, new
  <2>6. SmallOK(r)
    BY <1>2, <1>3, <2>4, <2>5 DEF SmallOK
  <2> QED BY <2>6 DEF r
<1>5. CASE ix.entry # NoEntry
  <2>1. n \in Nat \ {0} /\ start \in 0..level
    BY <1>1
  <2>2. Going(ix, s0, level)
    <3>1. ix.entry \in Ids(ix) /\ Comparable(ix, emb, Ids(ix))
      BY <1>5, SmallComparable DEF IndexOK
    <3>2. Descend(ix, emb, ix.entry, ix.max, level) \in Ids(ix)
      BY <1>1, <3>1, DescentStays
    <3>3. \A x \in Ids(ix) : NodeOK(ix.nodes[x], Ids(ix) \ {x})
      BY DEF SmallOK
    <3> QED BY <1>1, <3>2, <3>3 DEF Going
  <2>3. \E f : P(f)
    <3> DEFINE Q(f, k) == f = [i \in 0..k |-> IF i = 0 THEN s0 ELSE next(f[i - 1], i)]
               T == {k \in 0..n : \E f : Q(f, k)}
    <3> HIDE DEF n, s0, next
    <3>1. 0 \in T
      <4>1. Q([i \in 0..0 |-> s0], 0)
        OBVIOUS
      <4>2. 0 \in 0..n
        BY <2>1
      <4> HIDE DEF Q
      <4> QED BY <4>1, <4>2
    <3>2. ASSUME NEW k \in 1..n, k - 1 \in T PROVE k \in T
      <4>1. PICK f : Q(f, k - 1)
        BY <3>2
      <4> DEFINE h == [i \in 0..k |-> IF i = k THEN next(f[k - 1], k) ELSE f[i]]
      <4>2. \A i \in 0..(k - 1) : f[i] = IF i = 0 THEN s0 ELSE next(f[i - 1], i)
        BY <4>1
      <4>3. ASSUME NEW i \in 0..k PROVE h[i] = IF i = 0 THEN s0 ELSE next(h[i - 1], i)
        <5>1. CASE i = 0
          <6>1. 0 \in 0..(k - 1) /\ i # k
            BY <2>1, <5>1
          <6> QED BY <4>2, <5>1, <6>1
        <5>2. CASE i # 0 /\ i # k
          <6>1. i \in 0..(k - 1) /\ i - 1 \in 0..k /\ i - 1 # k
            BY <2>1, <5>2
          <6>2. h[i] = f[i] /\ h[i - 1] = f[i - 1]
            BY <5>2, <6>1
          <6> HIDE DEF h
          <6> QED BY <4>2, <5>2, <6>1, <6>2
        <5>3. CASE i = k
          <6>1. k - 1 \in 0..k /\ k - 1 # k /\ k # 0
            BY <2>1
          <6>2. h[k] = next(f[k - 1], k) /\ h[k - 1] = f[k - 1]
            BY <6>1
          <6> HIDE DEF h
          <6> QED BY <5>3, <6>1, <6>2
        <5> QED BY <5>1, <5>2, <5>3
      <4>4. h = [i \in 0..k |-> h[i]]
        OBVIOUS
      <4>5. Q(h, k)
        <5> HIDE DEF h
        <5> QED BY <4>3, <4>4
      <4>6. k \in 0..n
        BY <2>1
      <4> HIDE DEF Q, h
      <4> QED BY <4>5, <4>6
    <3>3. 0..n \subseteq T
      <4> HIDE DEF T
      <4> QED BY <2>1, <3>1, <3>2, UpTo
    <3>4. n \in 0..n
      BY <2>1
    <3> QED BY <3>3, <3>4
  <2>4. P(u)
    <3> HIDE DEF P
    <3> QED BY <2>3
  <2>5. u[0] = s0 /\ \A i \in 1..n : u[i] = next(u[i - 1], i)
    <3> HIDE DEF u, n, next, s0
    <3>1. \A i \in 0..n : u[i] = IF i = 0 THEN s0 ELSE next(u[i - 1], i)
      BY <2>4
    <3>2. u[0] = s0
      BY <2>1, <3>1
    <3>3. ASSUME NEW i \in 1..n PROVE u[i] = next(u[i - 1], i)
      <4>1. i \in 0..n /\ i # 0
        BY <2>1
      <4> QED BY <3>1, <4>1
    <3> QED BY <3>2, <3>3
  <2>6. Going(ix, u[start], level)
    <3> DEFINE T == {i \in 0..start : Going(ix, u[i], level)}
    <3>1. 0 \in T
      <4> HIDE DEF u, s0
      <4> QED BY <2>1, <2>2, <2>5
    <3>2. ASSUME NEW i \in 1..start, i - 1 \in T PROVE i \in T
      <4>1. i \in 1..n /\ start + 1 - i \in 1..level
        BY <1>1
      <4>2. Going(ix, u[i - 1], level)
        BY <3>2
      <4> HIDE DEF u, start
      <4>3. Going(ix, Connect(u[i - 1], start + 1 - i, id, emb), level)
        BY <1>1, <4>1, <4>2, ConnectAbove
      <4>4. u[i] = Connect(u[i - 1], start + 1 - i, id, emb)
        BY <2>5, <4>1
      <4> QED BY <4>3, <4>4
    <3>3. start \in Nat /\ start \in 0..start
      BY <1>1
    <3>4. 0..start \subseteq T
      <4> HIDE DEF T, start
      <4> QED BY <3>1, <3>2, <3>3, UpTo
    <3> HIDE DEF start
    <3> QED BY <3>3, <3>4
  <2>7. Linked(ix, u[n], level, id)
    <3>1. n \in 1..n /\ n - 1 = start /\ start + 1 - n = 0
      BY <1>1
    <3>2. u[n] = Connect(u[start], 0, id, emb)
      <4> HIDE DEF u, n, start
      <4> QED BY <2>5, <3>1
    <3> HIDE DEF u
    <3> QED BY <1>1, <2>6, <3>2, ConnectLowest
  <2>8. r.nodes = add(u[n].ix, u[n].nb)
    BY <1>5 DEF Inserted
  <2> HIDE DEF u, n, s0, start, next
  <2>9. ASSUME NEW x \in new PROVE NodeOK(r.nodes[x], new \ {x})
    <3>1. CASE x = id
      <4>1. r.nodes[x] = node(u[n].nb)
        <5> HIDE DEF r
        <5> QED BY <2>8, <3>1
      <4>2. new \ {x} = Ids(ix)
        BY <3>1
      <4>3. PICK k : k = r.nodes[x]
        OBVIOUS
      <4>4. PICK nb : nb = u[n].nb
        OBVIOUS
      <4>5. k = [emb |-> emb, level |-> level, nb |-> nb]
        <5> HIDE DEF r
        <5> QED BY <4>1, <4>3, <4>4
      <4>6. DOMAIN nb = 0..level /\ Lists(nb[0], new \ {x})
        BY <2>7, <4>2, <4>4 DEF Linked
      <4>7. k.emb = emb /\ k.level = level /\ k.nb = nb
        BY ONLY <4>5
      <4> HIDE DEF r, new
      <4>8. NodeOK(k, new \ {x})
        BY <4>5, <4>6, <4>7 DEF NodeOK, Rewired
      <4> QED BY <4>3, <4>8
    <3>2. CASE x # id
      <4>1. x \in Ids(ix) /\ new \ {x} = (Ids(ix) \ {x}) \cup {id}
        BY <3>2
      <4>2. r.nodes[x] = Rewired(ix.nodes[x], u[n].ix.nodes[x].nb)
        <5> HIDE DEF r
        <5> QED BY <2>8, <3>2
      <4>3. ix.nodes[x].emb \in Emb /\ ix.nodes[x].level \in Nat
        BY <4>1 DEF SmallOK, NodeOK
      <4>4. PICK k : k = r.nodes[x]
        OBVIOUS
      <4>5. PICK nb : nb = u[n].ix.nodes[x].nb
        OBVIOUS
      <4>6. PICK m : m = ix.nodes[x]
        OBVIOUS
      <4>7. k = [emb |-> m.emb, level |-> m.level, nb |-> nb]
        <5> HIDE DEF r
        <5> QED BY <4>2, <4>4, <4>5, <4>6 DEF Rewired
      <4>8. DOMAIN nb = 0..m.level /\ Lists(nb[0], new \ {x})
        <5> HIDE DEF new
        <5> QED BY <2>7, <4>1, <4>5, <4>6 DEF Linked
      <4>9. k.emb = m.emb /\ k.level = m.level /\ k.nb = nb
        BY ONLY <4>7
      <4> HIDE DEF r, new
      <4>10. NodeOK(k, new \ {x})
        BY <4>3, <4>6, <4>7, <4>8, <4>9 DEF NodeOK, Rewired
      <4> QED BY <4>4, <4>10
    <3> QED BY <3>1, <3>2
  <2> HIDE DEF r, new
  <2>10. SmallOK(r)
    BY <1>2, <1>3, <2>9 DEF SmallOK
  <2> QED BY <2>10 DEF r
<1> QED BY <1>4, <1>5

\* A search of such an index finds the most similar.
LEMMA SearchExact ==
    ASSUME NEW ix, IndexOK(ix), SmallOK(ix), NEW q \in Emb, NEW k \in Nat
    PROVE  Exact(ix, q, k, Search(ix, q, k))
<1>1. IsFiniteSet(Ids(ix)) /\ Cardinality(Ids(ix)) \in Nat /\ Cardinality(Ids(ix)) <= M + 1
  BY FS_CardinalityType DEF SmallOK
<1>2. CASE Ids(ix) = {}
  <2>1. Search(ix, q, k) = <<>> /\ Cardinality(Ids(ix)) = 0
    BY <1>2, FS_EmptySet DEF Search
  <2>2. Len(<<>>) = IF 0 > k THEN k ELSE 0
    OBVIOUS
  <2> QED BY <1>2, <2>1, <2>2 DEF Exact, ToSet
<1>3. CASE Ids(ix) # {}
  <2> DEFINE ef == IF k > EfSearch THEN k ELSE EfSearch
             start == Descend(ix, q, ix.entry, ix.max, 0)
             r == Ranked(ix, q, Ids(ix))
  <2>1. Comparable(ix, q, Ids(ix))
    BY SmallComparable
  <2>2. ix.entry # NoEntry /\ start \in Ids(ix)
    BY <1>3, <2>1, DescentStays DEF IndexOK
  <2>3. Reach(ix, start, 0) = Ids(ix)
    <3>1. AllLinked(ix, 0)
      BY SmallLinked DEF SmallOK
    <3> HIDE DEF start
    <3> QED BY <1>1, <2>2, <3>1, Reached
  <2>4. Search(ix, q, k) = Take(Take(r, ef), k)
    BY <1>3, <2>2, <2>3 DEF Search, SearchLayer
  <2>5. Ordered(ix, q, Ids(ix), r) /\ Len(r) = Cardinality(Ids(ix))
    BY <2>1, RankedAll
  <2>6. ef \in Nat /\ Cardinality(Ids(ix)) <= ef
    BY <1>1, HnswConstants
  <2> HIDE DEF ef, start, r
  <2>7. r \in Seq(Ids(ix)) /\ Distinct(r)
    BY <2>5 DEF Ordered
  <2>8. Take(r, ef) = r
    BY <2>5, <2>6, <2>7, Taken
  <2>9. PICK ids : ids = Take(r, k)
    OBVIOUS
  <2>10. /\ ids \in Seq(Ids(ix)) /\ Len(ids) = IF Len(r) > k THEN k ELSE Len(r)
         /\ \A i \in 1..Len(ids) : i \in 1..Len(r) /\ ids[i] = r[i]
    BY <2>7, <2>9, Taken
  <2>11. ASSUME NEW i \in 1..Len(ids), NEW j \in 1..Len(ids), i < j
         PROVE  ids[i] # ids[j] /\ SimTo(ix, q, ids[i]) >= SimTo(ix, q, ids[j])
    <3>1. i \in 1..Len(r) /\ j \in 1..Len(r) /\ ids[i] = r[i] /\ ids[j] = r[j]
      BY <2>10
    <3>2. r[i] # r[j] /\ r[j] \in Ids(ix)
      BY <2>7, <2>11, <3>1 DEF Distinct
    <3>3. \A l \in 1..(i - 1) : r[l] # r[j]
      <4> SUFFICES ASSUME NEW l \in 1..(i - 1) PROVE r[l] # r[j]
        OBVIOUS
      <4>1. l \in 1..Len(r) /\ l < j
        BY <2>7, <2>11, <3>1
      <4> QED BY <2>7, <3>1, <4>1 DEF Distinct
    <3>4. SimTo(ix, q, r[i]) >= SimTo(ix, q, r[j])
      BY <2>5, <3>1, <3>2, <3>3 DEF Ordered
    <3> QED BY <3>1, <3>2, <3>4
  <2>12. ToSet(ids) \subseteq Ids(ix)
    BY <2>10 DEF ToSet
  <2>13. ASSUME NEW x \in Ids(ix) \ ToSet(ids), NEW y \in ToSet(ids)
         PROVE  SimTo(ix, q, y) >= SimTo(ix, q, x)
    <3>1. PICK j \in 1..Len(ids) : ids[j] = y
      BY DEF ToSet
    <3>2. j \in 1..Len(r) /\ r[j] = y
      BY <2>10, <3>1
    <3>3. \A l \in 1..(j - 1) : r[l] # x
      <4> SUFFICES ASSUME NEW l \in 1..(j - 1) PROVE r[l] # x
        OBVIOUS
      <4>1. l \in 1..Len(ids)
        BY <2>10, <3>1
      <4>2. ids[l] # x
        BY <2>10, <4>1 DEF ToSet
      <4> QED BY <2>10, <4>1, <4>2
    <3> QED BY <2>5, <3>2, <3>3 DEF Ordered
  <2>14. Exact(ix, q, k, ids)
    BY <2>5, <2>10, <2>11, <2>12, <2>13 DEF Exact
  <2> QED BY <2>4, <2>8, <2>9, <2>14
<1> QED BY <1>2, <1>3

\* The invariant of the index.
HnswInv ==
    /\ IndexOK(index)
    /\ simple => SmallOK(index)
    /\ ExactWhileSmall

LEMMA HnswInvStep == HnswInv /\ [HnswNext]_hnswVars => HnswInv'
<1> SUFFICES ASSUME HnswInv, [HnswNext]_hnswVars PROVE HnswInv'
  OBVIOUS
<1>1. IndexOK(index)'
  BY HnswStep DEF HnswInv
<1>2. ASSUME NEW id \in VecId, NEW level \in 0..MaxLevel, NEW emb \in EmbOf[id],
             InsertCall(id, emb, level)
      PROVE  HnswInv'
  <2>1. PICK ix \in IF id \in Ids(index) THEN Removed(index, id) ELSE {index} :
           index' = Inserted(ix, id, emb, level) /\ simple' = (simple /\ Cardinality(Ids(ix)) <= M)
    BY <1>2 DEF InsertCall
  <2>2. answer' = NoAnswer
    BY <1>2 DEF InsertCall, Change
  <2>3. ASSUME simple' PROVE SmallOK(index')
    <3>1. simple /\ Cardinality(Ids(ix)) <= M /\ SmallOK(index)
      BY <2>1, <2>3 DEF HnswInv
    <3>2. IndexOK(ix) /\ SmallOK(ix) /\ id \notin Ids(ix)
      <4>1. CASE id \in Ids(index)
        BY <2>1, <3>1, <4>1, RemovedOK, RemovedSmall DEF HnswInv
      <4>2. CASE id \notin Ids(index)
        BY <2>1, <3>1, <4>2 DEF HnswInv
      <4> QED BY <4>1, <4>2
    <3>3. emb \in Emb /\ level \in Nat
      BY HnswConstants
    <3> QED BY <2>1, <3>1, <3>2, <3>3, InsertedSmall
  <2> QED BY <1>1, <2>2, <2>3 DEF HnswInv, ExactWhileSmall
<1>3. ASSUME NEW id \in VecId, RemoveCall(id) PROVE HnswInv'
  BY <1>1, <1>3, RemovedSmall DEF RemoveCall, Change, HnswInv, ExactWhileSmall
<1>4. CASE Clear
  <2>1. Ids(Empty) = {} /\ "nodes" \in DOMAIN Empty
    BY DEF Empty, Ids
  <2>2. SmallOK(Empty)
    BY <2>1, FS_EmptySet, HnswConstants DEF SmallOK
  <2> QED BY <1>1, <1>4, <2>2 DEF Clear, Change, HnswInv, ExactWhileSmall
<1>5. ASSUME NEW q \in Emb, NEW k \in 1..2, SearchCall(q, k) PROVE HnswInv'
  <2>1. /\ index' = index /\ simple' = simple
        /\ answer' = [query |-> q, k |-> k, ids |-> Search(index, q, k)]
    BY <1>5 DEF SearchCall
  <2>2. answer'.query = q /\ answer'.k = k /\ answer'.ids = Search(index, q, k)
    BY <2>1
  <2>3. simple => Exact(index, q, k, Search(index, q, k))
    BY SearchExact DEF HnswInv
  <2> QED BY <1>1, <2>1, <2>2, <2>3 DEF HnswInv, ExactWhileSmall
<1>6. CASE UNCHANGED hnswVars
  <2>1. UNCHANGED <<index, simple, answer>>
    BY <1>6 DEF hnswVars
  <2> QED BY <2>1 DEF HnswInv, ExactWhileSmall, IndexOK, Exact, SimTo, SmallOK, Ids
<1> QED BY <1>2, <1>3, <1>4, <1>5, <1>6 DEF HnswNext

\* No walk of the index starts from an id that is gone: the entry point is an
\* indexed node, whatever levels are drawn and whichever nodes the removals make
\* the entry point.  And as long as the index has held at most m + 1 vectors since
\* it was cleared, every search returns the most similar, in order, for any
\* embeddings and similarities, ties included (hnsw.rs, insert, remove, clear,
\* search; the unwraps of search_layer_closest and search_layer).
THEOREM IndexAlwaysSound == HnswSpec => []IndexSound
<1>1. HnswInit => HnswInv
  <2>1. Ids(Empty) = {} /\ "nodes" \in DOMAIN Empty
    BY DEF Empty, Ids
  <2>2. SmallOK(Empty)
    BY <2>1, FS_EmptySet, HnswConstants DEF SmallOK
  <2>3. IndexOK(Empty)
    BY DEF Empty, IndexOK, Ids
  <2> QED BY <2>2, <2>3 DEF HnswInit, HnswInv, ExactWhileSmall
<1>2. HnswInv => IndexSound
  BY DEF HnswInv, IndexOK, IndexSound, EntryIndexed
<1> QED BY <1>1, <1>2, HnswInvStep, PTL DEF HnswSpec

-----------------------------------------------------------------------------
(* VectorStore: the filter of a search *)

\* Filters whose clauses compare with some value: a clause "key=" also matches
\* the vectors that lack the key.
ValuesGiven == \A e \in Filter : \A i \in 1..Len(e.clauses) : e.clauses[i].val # NoValue

\* The first entries of a sequence are entries of the sequence.
LEMMA PrefixElements ==
    ASSUME NEW S, NEW s \in Seq(S), NEW n \in 0..Len(s)
    PROVE  ToSet(SubSeq(s, 1, n)) \subseteq S
<1>1. SubSeq(s, 1, n) \in Seq(S)
  BY SubSeqProperties
<1> DEFINE t == SubSeq(s, 1, n)
<1>2. t \in Seq(S)
  BY <1>1
<1> HIDE DEF t
<1>3. ToSet(t) \subseteq S
  BY <1>2 DEF ToSet
<1> QED BY <1>3 DEF t

\* A search returns entries that match, however the others are sorted and cut.
LEMMA ResultsMatch ==
    ASSUME NEW store, IsFiniteSet(DOMAIN store), NEW q, NEW k \in Nat, NEW expr,
           NEW r \in Results(store, q, k, expr)
    PROVE  \A v \in ToSet(r) : v \in DOMAIN store /\ matchesFilter(store[v].meta, expr)
<1> DEFINE matching == {v \in DOMAIN store : matchesFilter(store[v].meta, expr)}
<1>1. PICK s \in SetToSeqs(matching) : r = SubSeq(s, 1, TopK(k, Len(s)))
  BY DEF Results
<1>2. Cardinality(matching) \in Nat
  <2>1. matching \subseteq DOMAIN store
    OBVIOUS
  <2> HIDE DEF matching
  <2>2. IsFiniteSet(matching)
    BY <2>1, FS_Subset
  <2> QED BY <2>2, FS_CardinalityType
<1>3. s \in Seq(matching)
  <2> HIDE DEF matching
  <2>1. s \in [1..Cardinality(matching) -> matching]
    BY DEF SetToSeqs
  <2> QED BY <1>2, <2>1
<1>4. TopK(k, Len(s)) \in 0..Len(s)
  <2>1. Len(s) \in Nat
    BY <1>3
  <2> QED BY <2>1 DEF TopK
<1>5. ToSet(r) \subseteq matching
  BY <1>1, <1>3, <1>4, PrefixElements
<1> QED BY <1>5

\* The collections hold embeddings, and the last answer is one that a search of
\* the collection it copied may give.
StoreOK(store) ==
    IsFiniteSet(DOMAIN store) /\ \A v \in DOMAIN store : store[v].emb \in Seq(Int)

VectorsOK == DOMAIN vectors = VecDb /\ \A db \in VecDb : StoreOK(vectors[db])

AnswerOK(f) ==
    /\ StoreOK(f.store) /\ f.query \in Seq(Int) /\ f.k \in Nat
    /\ f.ids \in Results(f.store, f.query, f.k, f.filter)
    /\ ToSet(f.ids) # {} => f.filter \in Filter

FoundOK == AnswerOK(found)

LEMMA NothingFound == AnswerOK(NoSearch)
<1>1. ASSUME NEW f, f = NoSearch PROVE AnswerOK(f)
  <2>1. /\ f.query = <<>> /\ f.k = 0 /\ f.ids = <<>> /\ f.filter.clauses = <<>>
        /\ DOMAIN f.store = {}
    BY <1>1 DEF NoSearch
  <2>2. StoreOK(f.store) /\ ToSet(f.ids) = {}
    BY <2>1, FS_EmptySet DEF StoreOK, ToSet
  <2>3. <<>> \in Results(f.store, f.query, f.k, f.filter)
    <3> DEFINE matching == {v \in DOMAIN f.store : matchesFilter(f.store[v].meta, f.filter)}
               e == [i \in 1..0 |-> 0]
    <3>1. matching = {} /\ Cardinality({}) = 0
      BY <2>1, FS_EmptySet
    <3>2. e \in SetToSeqs({})
      BY <3>1 DEF SetToSeqs
    <3>3. e = <<>> /\ Len(<<>>) = 0 /\ TopK(0, 0) = 0 /\ SubSeq(<<>>, 1, 0) = <<>>
      BY DEF TopK
    <3>4. <<>> \in SetToSeqs(matching)
      BY <3>1, <3>2, <3>3
    <3> HIDE DEF matching, e
    <3> QED BY <3>3, <3>4, <2>1 DEF Results, matching
  <2> QED BY <2>1, <2>2, <2>3 DEF AnswerOK
<1> QED BY <1>1

LEMMA VectorsStep ==
    ASSUME VectorsOK, FoundOK, [VectorNext]_vectorVars
    PROVE  (VectorsOK /\ FoundOK)'
<1>1. found' = NoSearch => FoundOK'
  BY NothingFound DEF FoundOK
<1>2. ASSUME NEW db \in VecDb, NEW v \in Vec, NEW entry \in Entry,
             InsertVector(db, v, entry)
      PROVE  (VectorsOK /\ FoundOK)'
  <2>1. /\ found' = NoSearch
        /\ DOMAIN vectors' = DOMAIN vectors
        /\ DOMAIN vectors'[db] = DOMAIN vectors[db] \cup {v}
        /\ \A u \in DOMAIN vectors'[db] :
              vectors'[db][u] = IF u = v THEN entry ELSE vectors[db][u]
        /\ \A d \in VecDb \ {db} : vectors'[d] = vectors[d]
    BY <1>2 DEF InsertVector, Store, VectorsOK
  <2>2. StoreOK(vectors[db]) /\ entry.emb \in Seq(Int)
    BY VectorConstants DEF VectorsOK
  <2>3. StoreOK(vectors'[db])
    BY <2>1, <2>2, FS_AddElement, ZenonT(40) DEF StoreOK
  <2> QED BY <1>1, <2>1, <2>3 DEF VectorsOK
<1>3. ASSUME NEW db \in VecDb, NEW q \in Query, NEW k \in 0..2, NEW expr \in Filter,
             SearchVector(db, q, k, expr)
      PROVE  (VectorsOK /\ FoundOK)'
  <2>1. PICK r \in Results(vectors[db], q, k, expr) :
           found' = [query |-> q, k |-> k, filter |-> expr,
                     store |-> vectors[db], ids |-> r]
    BY <1>3 DEF SearchVector
  <2>2. /\ found'.ids = r /\ found'.store = vectors[db] /\ found'.filter = expr
        /\ found'.query = q /\ found'.k = k
    BY <2>1
  <2>3. StoreOK(vectors[db]) /\ k \in Nat /\ q \in Seq(Int)
    BY VectorConstants DEF VectorsOK
  <2>4. FoundOK'
    BY <2>1, <2>2, <2>3 DEF FoundOK, AnswerOK
  <2> QED BY <1>3, <2>4 DEF SearchVector, VectorsOK
<1>4. CASE VectorsLost
  BY <1>1, <1>4, FS_EmptySet DEF VectorsLost, VectorsOK, StoreOK
<1>5. CASE UNCHANGED vectorVars
  BY <1>5 DEF vectorVars, VectorsOK, FoundOK
<1> QED BY <1>2, <1>3, <1>4, <1>5 DEF VectorNext

LEMMA VectorsAlways == VectorSpec => [](VectorsOK /\ FoundOK)
<1>1. VectorInit => VectorsOK /\ FoundOK
  BY NothingFound, FS_EmptySet DEF VectorInit, VectorsOK, FoundOK, StoreOK
<1> QED BY <1>1, VectorsStep, PTL DEF VectorSpec

\* Every clause that matchesFilter passed, in the syntax that it knows, holds of
\* the metadata itself.
LEMMA FilterHolds ==
    ASSUME NEW meta, NEW expr, expr.join = "AND", matchesFilter(meta, expr),
           NEW i \in 1..Len(expr.clauses), NEW c, c = expr.clauses[i],
           c.op \in {"=", "==", "!="}, c.val # NoValue
    PROVE  (c.op # "!=") <=> (c.key \in DOMAIN meta /\ meta[c.key] = c.val)
<1>1. expr.clauses # <<>>
  <2>1. Len(<<>>) = 0
    OBVIOUS
  <2>2. ASSUME expr.clauses = <<>> PROVE FALSE
    <3>1. i \in 1..0
      BY <2>1, <2>2
    <3> QED BY <3>1
  <2> QED BY <2>2
<1>2. MatchesClause(meta, c)
  BY <1>1 DEF matchesFilter
<1> QED BY <1>2 DEF MatchesClause, Lookup

\* Numbers for AlignedFirst: x, y, z are the squared lengths of a query and of
\* two vectors, d and g the products of the query with the two.
LEMMA NoCloser ==
    ASSUME NEW x \in Int, NEW y \in Int, NEW z \in Int, NEW d \in Int, NEW g \in Int,
           d > 0, x * y = d * d, x * z >= g * g, x * z # 0,
           ~ ((d * d) * (x * z) > (IF g < 0 THEN - g * g ELSE g * g) * (x * y))
    PROVE  g > 0 /\ x * z = g * g
<1>1. ASSUME NEW p \in Int, NEW c \in Int, NEW h \in Int, p > 0, ~ (p * c > h * p)
      PROVE  c <= h
  BY <1>1
<1>2. d * d \in Int /\ d * d > 0 /\ x * z \in Int /\ g * g \in Int /\ g * g >= 0
  <2>1. d * d \in Int /\ x * z \in Int /\ g * g \in Int
    OBVIOUS
  <2>2. d * d > 0
    OBVIOUS
  <2>3. g * g >= 0
    OBVIOUS
  <2> QED BY <2>1, <2>2, <2>3
<1> DEFINE h == IF g < 0 THEN - g * g ELSE g * g
<1>3. h \in Int /\ (g < 0 => h = - (g * g)) /\ (g >= 0 => h = g * g)
  <2>1. - g * g = - (g * g)
    OBVIOUS
  <2> QED BY <1>2, <2>1
<1>4. ~ ((d * d) * (x * z) > h * (d * d))
  OBVIOUS
<1> HIDE DEF h
<1>5. x * z <= h
  BY ONLY <1>1, <1>2, <1>3, <1>4
<1>6. g >= 0
  BY ONLY <1>2, <1>3, <1>5, x * z >= g * g, x * z # 0, g \in Int
<1>7. x * z = g * g
  BY ONLY <1>2, <1>3, <1>5, <1>6, x * z >= g * g
<1>8. g # 0
  BY <1>7
<1> QED BY ONLY <1>6, <1>7, <1>8, g \in Int

\* A vector in the direction of the query is exceeded by none, and equalled only
\* by vectors in the same direction.
LEMMA AlignedUnexceeded ==
    ASSUME NEW q \in Seq(Int), NEW e \in Seq(Int), NEW f \in Seq(Int), Aligned(q, e),
           ~ Exceeds(cosineSimilarity(q, e), cosineSimilarity(q, f))
    PROVE  Aligned(q, f)
<1>1. Len(e) = Len(q) /\ Dot(q, e) > 0 /\ Parallel(q, e)
  BY DEF Aligned, Parallel
<1>2. Dot(q, q) \in Int /\ Dot(e, e) \in Int /\ Dot(q, e) \in Int /\ Dot(f, f) \in Int
  BY <1>1, ProductType DEF Dot
<1>3. Dot(q, q) * Dot(e, e) = Dot(q, e) * Dot(q, e)
  <2>1. Schwarz(q, e)
    BY <1>1, CauchySchwarz
  <2>2. Gram(q, e) = 0
    BY <1>1, <2>1 DEF Schwarz
  <2>3. ASSUME NEW k \in Int, NEW l \in Int, k - l = 0 PROVE k = l
    BY <2>3
  <2>4. Dot(q, q) * Dot(e, e) \in Int /\ Dot(q, e) * Dot(q, e) \in Int
    BY <1>2
  <2> QED BY <2>2, <2>3, <2>4 DEF Gram, Dot
<1>4. ASSUME NEW x \in Int, NEW y \in Int, NEW d \in Int,
             x = Dot(q, q), y = Dot(e, e), d = Dot(q, e)
      PROVE  Aligned(q, f)
  <2>1. d > 0 /\ x * y = d * d
    BY ONLY <1>1, <1>3, <1>4
  <2>2. x # 0 /\ y # 0
    <3>1. d * d > 0
      BY ONLY <2>1, d \in Int
    <3>2. x = 0 \/ y = 0 => x * y = 0
      OBVIOUS
    <3> QED BY ONLY <2>1, <3>1, <3>2
  <2>3. Len(q) # 0
    <3> SUFFICES ASSUME Len(q) = 0 PROVE FALSE
      OBVIOUS
    <3>1. PICK w \in Seq(Int) : Len(w) = Len(q) /\ Product(q, e) = Total(w)
      BY <1>1, ProductSeq
    <3>2. \A i \in 1..Len(w) : w[i] = 0
      BY <3>1
    <3>3. Total(w) = 0
      BY ONLY w \in Seq(Int), <3>2, TotalZero
    <3> QED BY <1>1, <3>1, <3>3 DEF Dot
  <2>4. cosineSimilarity(q, e) = [dot |-> d, sq |-> x * y]
    BY <1>1, <1>4, <2>2, <2>3 DEF cosineSimilarity
  <2>5. Len(f) = Len(q) /\ Dot(f, f) # 0
    <3> SUFFICES ASSUME ~ (Len(f) = Len(q) /\ Dot(f, f) # 0) PROVE FALSE
      OBVIOUS
    <3>1. cosineSimilarity(q, f) = [dot |-> 0, sq |-> 1]
      BY DEF cosineSimilarity
    <3>2. ~ ((d * d) * 1 > (0 * 0) * (x * y))
      <4>1. /\ cosineSimilarity(q, e).dot = d /\ cosineSimilarity(q, e).sq = x * y
            /\ cosineSimilarity(q, f).dot = 0 /\ cosineSimilarity(q, f).sq = 1
        BY ONLY <2>4, <3>1
      <4>2. ~ (d < 0) /\ ~ (0 < 0)
        BY <2>1
      <4> QED BY <4>1, <4>2 DEF Exceeds
    <3>3. d * d > 0 /\ d * d \in Int /\ x * y \in Int
      <4>1. d * d > 0 /\ d * d \in Int
        BY ONLY <2>1, d \in Int
      <4> QED BY ONLY <4>1, <2>1
    <3> QED BY ONLY <3>2, <3>3
  <2>6. Dot(q, f) \in Int
    BY <2>5, ProductType DEF Dot
  <2>7. ASSUME NEW z \in Int, NEW g \in Int, z = Dot(f, f), g = Dot(q, f)
        PROVE  Aligned(q, f)
    <3>1. cosineSimilarity(q, f) = [dot |-> g, sq |-> x * z]
      BY <1>4, <2>2, <2>3, <2>5, <2>7 DEF cosineSimilarity
    <3>2. ~ ((d * d) * (x * z) > (IF g < 0 THEN - g * g ELSE g * g) * (x * y))
      <4>1. ~ (d < 0)
        BY <2>1
      <4> QED BY <2>4, <3>1, <4>1 DEF Exceeds
    <3>3. Schwarz(q, f)
      BY <2>5, CauchySchwarz
    <3>4. Gram(q, f) = x * z - g * g
      BY ONLY <1>4, <2>7 DEF Gram, Dot
    <3>5. x * z >= g * g
      <4>1. x * z \in Int /\ g * g \in Int
        OBVIOUS
      <4>2. x * z - g * g >= 0
        BY ONLY <3>3, <3>4 DEF Schwarz
      <4> QED BY ONLY <4>1, <4>2
    <3>6. x * z # 0
      <4>1. z # 0
        BY ONLY <2>5, <2>7
      <4> QED BY <2>2, <4>1
    <3>7. g > 0 /\ x * z = g * g
      BY ONLY <2>1, <3>2, <3>5, <3>6, NoCloser, x \in Int, y \in Int, z \in Int,
              d \in Int, g \in Int
    <3>8. Gram(q, f) = 0
      <4>1. g * g - g * g = 0
        OBVIOUS
      <4> QED BY ONLY <3>4, <3>7, <4>1
    <3>9. Parallel(q, f)
      BY <3>3, <3>8 DEF Schwarz
    <3> QED BY <2>5, <2>7, <3>7, <3>9 DEF Aligned, Parallel
  <2> QED BY <1>2, <2>6, <2>7
<1> QED BY <1>2, <1>4

\* A sequence of the elements of a set, each of them once, has all of them.
LEMMA SetToSeqsAll ==
    ASSUME NEW S, IsFiniteSet(S), NEW s \in SetToSeqs(S)
    PROVE  /\ s \in Seq(S) /\ Len(s) = Cardinality(S)
           /\ \A u \in S : \E i \in 1..Len(s) : s[i] = u
<1> DEFINE n == Cardinality(S)
<1>1. n \in Nat
  BY FS_CardinalityType
<1>2. s \in Injection(1..n, S)
  BY DEF SetToSeqs, Injection, IsInjective
<1>3. IsFiniteSet(1..n) /\ Cardinality(1..n) = n
  BY <1>1, FS_Interval
<1>4. s \in Surjection(1..n, S)
  <2> HIDE DEF n
  <2> QED BY <1>2, <1>3, FS_Injection DEF n
<1>5. s \in Seq(S) /\ Len(s) = n
  BY <1>1, <1>2 DEF Injection
<1> QED BY <1>4, <1>5 DEF Surjection

\* A search that leaves out a match has returned top_k of them, and those it
\* returned come before it in the order of similarity.
LEMMA BestKept ==
    ASSUME NEW store, StoreOK(store), NEW q, NEW k \in Nat, NEW expr,
           NEW r \in Results(store, q, k, expr), NEW v \in DOMAIN store \ ToSet(r),
           matchesFilter(store[v].meta, expr)
    PROVE  /\ Len(r) = IF k <= 0 THEN 10 ELSE k
           /\ \A w \in ToSet(r) :
                 ~ Exceeds(cosineSimilarity(q, store[v].emb), cosineSimilarity(q, store[w].emb))
<1> DEFINE matching == {u \in DOMAIN store : matchesFilter(store[u].meta, expr)}
           sim(u) == cosineSimilarity(q, store[u].emb)
<1>1. PICK s \in SetToSeqs(matching) :
         /\ r = SubSeq(s, 1, TopK(k, Len(s)))
         /\ \A i, j \in 1..Len(s) : i < j => ~ Exceeds(sim(s[j]), sim(s[i]))
  BY DEF Results
<1>2. IsFiniteSet(matching) /\ Cardinality(matching) \in Nat
  <2>1. matching \subseteq DOMAIN store
    OBVIOUS
  <2> HIDE DEF matching
  <2> QED BY <2>1, FS_Subset, FS_CardinalityType DEF StoreOK
<1>3. s \in Seq(matching) /\ \A u \in matching : \E i \in 1..Len(s) : s[i] = u
  <2> HIDE DEF matching
  <2> QED BY <1>1, <1>2, SetToSeqsAll
<1> DEFINE m == TopK(k, Len(s))
<1>4. /\ m \in 0..Len(s) /\ Len(s) \in Nat
      /\ m < Len(s) => m = IF k <= 0 THEN 10 ELSE k
  <2>1. Len(s) \in Nat
    BY <1>3
  <2> QED BY <2>1 DEF TopK
<1>5. Len(r) = m /\ \A i \in 1..m : r[i] = s[i]
  <2> HIDE DEF matching, m
  <2> QED BY <1>1, <1>3, <1>4, SubSeqProperties DEF m
<1>6. PICK j \in 1..Len(s) : s[j] = v
  BY <1>3
<1>7. j > m
  <2> SUFFICES ASSUME j <= m PROVE FALSE
    BY <1>4
  <2>1. j \in 1..m /\ r[j] = v
    BY <1>4, <1>5, <1>6
  <2> QED BY <1>5, <2>1 DEF ToSet
<1>8. ASSUME NEW w \in ToSet(r) PROVE ~ Exceeds(sim(v), sim(w))
  <2>1. PICK i \in 1..Len(r) : r[i] = w
    BY SMTT(30) DEF ToSet
  <2>2. i \in 1..m /\ s[i] = w
    BY <1>5, <2>1
  <2>3. i \in 1..Len(s) /\ i < j
    BY <1>4, <1>7, <2>2
  <2> HIDE DEF sim, m
  <2> QED BY <1>1, <1>6, <2>2, <2>3
<1> QED BY <1>4, <1>5, <1>7, <1>8

\* "Pre-filtered vector search guaranteeing 0% non-matching record leakage"
\* (docs/benchmarks.md:87): for filters that compare with some value, in the
\* syntax that the code knows, a search returns only vectors that satisfy every
\* clause, whatever the collections hold and however equal similarities are
\* ordered (server.go, SearchVector, matchesFilter).
THEOREM FiltersNeverLeak ==
    ASSUME ValuesGiven
    PROVE  VectorSpec => []NoLeakage
<1>1. FoundOK => NoLeakage
  <2> SUFFICES ASSUME FoundOK, found.filter.join = "AND",
                      \A i \in 1..Len(found.filter.clauses) :
                        found.filter.clauses[i].op \in {"=", "==", "!="},
                      NEW v \in ToSet(found.ids),
                      NEW i \in 1..Len(found.filter.clauses)
               PROVE  (found.filter.clauses[i].op # "!=") <=>
                        (found.filter.clauses[i].key \in DOMAIN found.store[v].meta
                          /\ found.store[v].meta[found.filter.clauses[i].key]
                               = found.filter.clauses[i].val)
    BY DEF NoLeakage
  <2>1. found.filter \in Filter /\ matchesFilter(found.store[v].meta, found.filter)
    BY ResultsMatch DEF FoundOK, AnswerOK, StoreOK
  <2>2. found.filter.clauses[i].val # NoValue
    BY <2>1 DEF ValuesGiven
  <2> DEFINE meta == found.store[v].meta
             expr == found.filter
             c == expr.clauses[i]
  <2>3. /\ expr.join = "AND" /\ matchesFilter(meta, expr) /\ i \in 1..Len(expr.clauses)
        /\ c = expr.clauses[i] /\ c.op \in {"=", "==", "!="} /\ c.val # NoValue
    BY <2>1, <2>2
  <2> HIDE DEF meta, expr, c
  <2>4. (c.op # "!=") <=> (c.key \in DOMAIN meta /\ meta[c.key] = c.val)
    BY <2>3, FilterHolds
  <2> QED BY <2>4 DEF meta, expr, c
<1> QED BY <1>1, VectorsAlways, PTL

\* A search never leaves out a matching vector that points along the query for
\* the sake of one that does not, whatever their lengths and however equal
\* similarities are ordered, and returns as many as there are up to top_k
\* (server.go, SearchVector, cosineSimilarity).
THEOREM NearestFound == VectorSpec => []AlignedFirst
<1>1. FoundOK => AlignedFirst
  <2> SUFFICES ASSUME FoundOK, NEW v \in DOMAIN found.store \ ToSet(found.ids),
                      matchesFilter(found.store[v].meta, found.filter)
               PROVE  /\ Aligned(found.query, found.store[v].emb) =>
                            \A w \in ToSet(found.ids) :
                               Aligned(found.query, found.store[w].emb)
                      /\ Len(found.ids) = IF found.k <= 0 THEN 10 ELSE found.k
    BY DEF AlignedFirst
  <2>1. /\ Len(found.ids) = IF found.k <= 0 THEN 10 ELSE found.k
        /\ \A w \in ToSet(found.ids) :
              ~ Exceeds(cosineSimilarity(found.query, found.store[v].emb),
                        cosineSimilarity(found.query, found.store[w].emb))
    BY BestKept DEF FoundOK, AnswerOK
  <2>2. ASSUME Aligned(found.query, found.store[v].emb), NEW w \in ToSet(found.ids)
        PROVE  Aligned(found.query, found.store[w].emb)
    <3>1. w \in DOMAIN found.store
      BY ResultsMatch DEF FoundOK, AnswerOK, StoreOK
    <3>2. /\ found.query \in Seq(Int) /\ found.store[v].emb \in Seq(Int)
          /\ found.store[w].emb \in Seq(Int)
      BY <3>1 DEF FoundOK, AnswerOK, StoreOK
    <3> QED BY <2>1, <2>2, <3>2, AlignedUnexceeded
  <2> QED BY <2>1, <2>2
<1> QED BY <1>1, VectorsAlways, PTL

\* What a search returns matches its filter, and nothing nearer was left out, for
\* filters that compare with some value (server.go, SearchVector).
THEOREM SearchesSound ==
    ASSUME ValuesGiven
    PROVE  VectorSpec => []SearchSound
  BY FiltersNeverLeak, NearestFound, PTL DEF SearchSound

-----------------------------------------------------------------------------
(* The parts side by side *)

\* A step of the node is, for each of its parts, a step of it or none.
LEMMA StepOfEach ==
    ASSUME [NodeNext]_nodeVars
    PROVE  /\ [WalNext]_walVars /\ [HnswNext]_hnswVars /\ [ReplNext]_replVars
           /\ [AgentNext]_agentVars /\ [VectorNext]_vectorVars
<1>1. ASSUME Others("wal"), WalNext
      PROVE  /\ UNCHANGED hnswVars /\ UNCHANGED replVars
             /\ UNCHANGED agentVars /\ UNCHANGED vectorVars
  BY ONLY <1>1 DEF Others
<1>2. ASSUME Others("hnsw"), HnswNext
      PROVE  /\ UNCHANGED walVars /\ UNCHANGED replVars
             /\ UNCHANGED agentVars /\ UNCHANGED vectorVars
  BY ONLY <1>2 DEF Others
<1>3. ASSUME Others("replication"), ReplNext
      PROVE  /\ UNCHANGED walVars /\ UNCHANGED hnswVars
             /\ UNCHANGED agentVars /\ UNCHANGED vectorVars
  BY ONLY <1>3 DEF Others
<1>4. ASSUME Others("agent"), AgentNext
      PROVE  /\ UNCHANGED walVars /\ UNCHANGED hnswVars
             /\ UNCHANGED replVars /\ UNCHANGED vectorVars
  BY ONLY <1>4 DEF Others
<1>5. ASSUME Others("vectors"), VectorNext
      PROVE  /\ UNCHANGED walVars /\ UNCHANGED hnswVars
             /\ UNCHANGED replVars /\ UNCHANGED agentVars
  BY ONLY <1>5 DEF Others
<1>6. ASSUME UNCHANGED nodeVars
      PROVE  /\ UNCHANGED walVars /\ UNCHANGED hnswVars /\ UNCHANGED replVars
             /\ UNCHANGED agentVars /\ UNCHANGED vectorVars
  BY ONLY <1>6 DEF nodeVars
<1> QED
  BY ONLY [NodeNext]_nodeVars, <1>1, <1>2, <1>3, <1>4, <1>5, <1>6 DEF NodeNext

\* A data node implements each of its parts: the log, the index, the replication
\* engine, the agent with its databases and the vectors (DataNode.tla), which
\* makes every theorem about one of them a theorem about the node.
THEOREM NodeImplementsParts ==
    NodeSpec => WalSpec /\ HnswSpec /\ ReplSpec /\ AgentSpec /\ VectorSpec
<1>1. NodeInit => WalInit /\ HnswInit /\ ReplInit /\ AgentInit /\ VectorInit
  BY ONLY DEF NodeInit
<1> QED
  BY <1>1, StepOfEach, PTL
     DEF NodeSpec, WalSpec, HnswSpec, ReplSpec, AgentSpec, VectorSpec

\* The types of the log, of replication and of the agent in a data node, the
\* last one with the overdraft of the injected failures (worker-node agent.go,
\* chaos.go; wal.rs; replication engine.rs).
THEOREM NodeTypeCorrect == NodeSpec => []NodeTypeOK
<1>1. WalTypeOK /\ ReplicationTypeOK /\ AgentTypeOK => NodeTypeOK
  BY ONLY DEF NodeTypeOK
<1> QED
  BY <1>1, NodeImplementsParts, WalTypeCorrect, ReplicationTyped,
     AgentTypeCorrect, PTL
=============================================================================
