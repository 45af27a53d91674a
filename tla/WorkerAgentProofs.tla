------------------------- MODULE WorkerAgentProofs --------------------------
(***************************************************************************)
(* The worker agent's maps are inverse to each other, its disk agrees with *)
(* them and a drain empties it of what it found: for any number of names,  *)
(* databases and handlers, and any interleaving of creations, deletions,   *)
(* drains, injected failures and restarts.                                 *)
(*                                                                         *)
(* MapsInverse is inductive with the types alone.  DirsMatch needs that a  *)
(* database which is registered while a handler removes its directory is   *)
(* noted as clashed (ClashNoted), and DrainEmpties that a drain under way  *)
(* has unregistered what is no longer on its list (DrainProgress).  The    *)
(* bound on the counters of injected failures needs that each handler that *)
(* has read a counter and not yet decremented it is one of the handlers by *)
(* which the counter may be overdrawn (Covered).                           *)
(***************************************************************************)
EXTENDS WorkerAgent, FiniteSetTheorems, TLAPS

CreatingCall ==
    [pc : {"fail", "tryHang", "hang", "create"}, name : DbName, db : DbId]

RemovingCall == [pc : {"remove"}, db : DbId]

DrainCall ==
    [pc : {"drain", "evacuate", "drained"}, ids : SUBSET DbId,
     left : SUBSET DbId, db : DbId \cup {NoDb}, since : SUBSET DbId, moved : Nat]

Types ==
    /\ dbsByName \in [DbName -> DbId \cup {NoDb}]
    /\ dbsByID \in [DbId -> DbName \cup {NoDb}]
    /\ dirs \subseteq DbId
    /\ call \in [Call -> [pc : {"free"}] \cup CreatingCall \cup RemovingCall
                          \cup DrainCall]
    /\ \A c \in Call : call[c].pc = "evacuate" => call[c].db \in DbId

ClashNoted == \A d \in DbId : Removing(d) /\ Registered(d) => d \in clashed

Draining(c) == call[c].pc \in {"drain", "evacuate", "drained"}

DrainProgress ==
    \A c \in Call : Draining(c) =>
        /\ \A d \in call[c].ids \ (call[c].left \cup call[c].since) : ~ Registered(d)
        /\ call[c].pc = "evacuate" /\ call[c].db \notin call[c].since
              => ~ Registered(call[c].db)
        /\ call[c].pc = "drained" => call[c].left = {}

AgentInv == Types /\ MapsInverse /\ ClashNoted /\ DirsMatch /\ DrainProgress

-----------------------------------------------------------------------------
(* The types *)

\* The steps of handlers keep the handlers' records in shape.
LEMMA TypesKept == Types /\ [AgentNext]_agentVars => Types'
<1> SUFFICES ASSUME Types, [AgentNext]_agentVars PROVE Types'
  OBVIOUS
<1> USE AgentConstants
<1>1. ASSUME NEW c \in Call, NEW n \in DbName, NEW d \in DbId, CreateArrives(c, n, d)
      PROVE  Types'
  BY <1>1 DEF Types, CreateArrives, Become, Creating, CreatingCall, RemovingCall, DrainCall, maps, counters
<1>2. ASSUME NEW c \in Call, CreateFails(c) PROVE Types'
  BY <1>2 DEF Types, CreateFails, Become, FreeCall, maps
<1>3. ASSUME NEW c \in Call, CreateTriesHang(c) PROVE Types'
  <2>1. call[c] \in CreatingCall
    BY <1>3 DEF Types, CreateTriesHang, CreatingCall, RemovingCall, DrainCall
  <2> QED BY <1>3, <2>1 DEF Types, CreateTriesHang, Become, CreatingCall, maps, counters
<1>4. ASSUME NEW c \in Call, CreateHangs(c) PROVE Types'
  <2>1. call[c] \in CreatingCall
    BY <1>4 DEF Types, CreateHangs, CreatingCall, RemovingCall, DrainCall
  <2> QED BY <1>4, <2>1 DEF Types, CreateHangs, Become, CreatingCall, maps, FreeCall
<1>5. ASSUME NEW c \in Call, CreateRefused(c) PROVE Types'
  BY <1>5 DEF Types, CreateRefused, Become, FreeCall, maps, counters
<1>6. ASSUME NEW c \in Call, CreateRegisters(c) PROVE Types'
  <2>1. call[c] \in CreatingCall
    BY <1>6 DEF Types, CreateRegisters, CreatingCall, RemovingCall, DrainCall
  <2>2. call[c].name \in DbName /\ call[c].db \in DbId
    BY <2>1 DEF CreatingCall
  <2>3. \A e \in Call : call'[e] \in [pc : {"free"}] \cup CreatingCall \cup RemovingCall \cup DrainCall
                         /\ (call'[e].pc = "evacuate" => call'[e].db \in DbId)
    <3> SUFFICES ASSUME NEW e \in Call
                 PROVE  call'[e] \in [pc : {"free"}] \cup CreatingCall \cup RemovingCall \cup DrainCall
                         /\ (call'[e].pc = "evacuate" => call'[e].db \in DbId)
      OBVIOUS
    <3>1. CASE e = c
      BY <1>6, <3>1 DEF CreateRegisters, NoteCreated, FreeCall, Types
    <3>2. CASE e # c /\ call[e].pc \in {"drain", "evacuate", "drained"}
      <4>1. call[e] \in DrainCall
        BY <3>2 DEF Types, DrainCall, CreatingCall, RemovingCall
      <4>2. call'[e] = [call[e] EXCEPT !.since = @ \cup {call[c].db}]
        BY <1>6, <3>2 DEF CreateRegisters, NoteCreated, Types
      <4> QED BY <4>1, <4>2, <2>2 DEF DrainCall, Types
    <3>3. CASE e # c /\ call[e].pc \notin {"drain", "evacuate", "drained"}
      BY <1>6, <3>3 DEF CreateRegisters, NoteCreated, Types
    <3> QED BY <3>1, <3>2, <3>3
  <2>4. call' \in [Call -> [pc : {"free"}] \cup CreatingCall \cup RemovingCall \cup DrainCall]
    <3>1. call' = [e \in Call |-> call'[e]]
      BY <1>6 DEF CreateRegisters, NoteCreated
    <3> QED BY <3>1, <2>3
  <2>5. dbsByName' \in [DbName -> DbId \cup {NoDb}] /\ dbsByID' \in [DbId -> DbName \cup {NoDb}]
        /\ dirs' \subseteq DbId
    BY <1>6, <2>2 DEF CreateRegisters, Types
  <2> QED BY <2>3, <2>4, <2>5 DEF Types
<1>7. ASSUME NEW c \in Call, NEW d \in DbId, DeleteUnregisters(c, d) PROVE Types'
  BY <1>7 DEF Types, DeleteUnregisters, Unregister, Become, RemovingCall, CreatingCall, DrainCall, counters
<1>8. ASSUME NEW c \in Call, DeleteRemoves(c) PROVE Types'
  BY <1>8 DEF Types, DeleteRemoves, RemoveAll, Become, FreeCall, maps, counters
<1>9. ASSUME NEW c \in Call, DrainBegins(c) PROVE Types'
  BY <1>9 DEF Types, DrainBegins, Become, DrainCall, maps, counters
<1>10. ASSUME NEW c \in Call, NEW d \in DbId, DrainUnregisters(c, d) PROVE Types'
  <2>1. call[c] \in DrainCall
    BY <1>10 DEF Types, DrainUnregisters, CreatingCall, RemovingCall, DrainCall
  <2>2. [call[c] EXCEPT !.pc = "evacuate", !.db = d, !.since = @ \ {d}] \in DrainCall
    BY <2>1 DEF DrainCall
  <2>3. [call[c] EXCEPT !.pc = "evacuate", !.db = d, !.since = @ \ {d}].db \in DbId
    BY <2>1 DEF DrainCall
  <2> QED BY <1>10, <2>2, <2>3 DEF Types, DrainUnregisters, Unregister, Become, counters
<1>11. ASSUME NEW c \in Call, DrainRemoves(c) PROVE Types'
  <2>1. call[c] \in DrainCall
    BY <1>11 DEF Types, DrainRemoves, CreatingCall, RemovingCall, DrainCall
  <2> DEFINE r == [call[c] EXCEPT !.pc = "drain", !.left = @ \ {call[c].db}, !.moved = @ + 1]
  <2>2. r \in DrainCall /\ r.pc = "drain"
    <3>1. call[c].moved + 1 \in Nat /\ call[c].left \ {call[c].db} \in SUBSET DbId
      BY <2>1 DEF DrainCall
    <3>2. r = [call[c] EXCEPT !.pc = "drain", !.left = call[c].left \ {call[c].db},
                              !.moved = call[c].moved + 1]
      BY <2>1 DEF DrainCall
    <3> QED BY <2>1, <3>1, <3>2 DEF DrainCall
  <2>3. call' = [call EXCEPT ![c] = r]
    BY <1>11 DEF DrainRemoves, Become
  <2> HIDE DEF r
  <2> QED BY <1>11, <2>2, <2>3 DEF Types, DrainRemoves, RemoveAll, maps, counters
<1>12. ASSUME NEW c \in Call, DrainAnswers(c) PROVE Types'
  <2>1. call[c] \in DrainCall
    BY <1>12 DEF Types, DrainAnswers, CreatingCall, RemovingCall, DrainCall
  <2>2. [call[c] EXCEPT !.pc = "drained"] \in DrainCall /\ [call[c] EXCEPT !.pc = "drained"].pc = "drained"
    BY <2>1 DEF DrainCall
  <2> QED BY <1>12, <2>2 DEF Types, DrainAnswers, Become, maps, counters
<1>13. ASSUME NEW c \in Call, DrainEnds(c) PROVE Types'
  BY <1>13 DEF Types, DrainEnds, Become, FreeCall, maps, counters
<1>14. ASSUME NEW a \in 0..MaxInject, NEW h \in 0..MaxInject, InjectFailure(a, h) PROVE Types'
  BY <1>14 DEF Types, InjectFailure, maps
<1>15. CASE AgentRestarts
  BY <1>15 DEF Types, AgentRestarts, FreeCall
<1>16. CASE UNCHANGED agentVars
  BY <1>16 DEF Types, agentVars
<1> QED
  BY <1>1, <1>2, <1>3, <1>4, <1>5, <1>6, <1>7, <1>8, <1>9, <1>10, <1>11, <1>12,
     <1>13, <1>14, <1>15, <1>16 DEF AgentNext

-----------------------------------------------------------------------------
(* The maps *)

\* Taking a database out of both maps leaves them inverse (Unregister).
LEMMA UnregisterKeeps ==
    ASSUME Types, MapsInverse, NEW d \in DbId, Unregister(d)
    PROVE  MapsInverse'
<1> USE AgentConstants
<1>1. \A n \in DbName : dbsByName'[n] = IF n = dbsByID[d] THEN NoDb ELSE dbsByName[n]
  BY DEF Unregister
<1>2. \A e \in DbId : dbsByID'[e] = IF e = d THEN NoDb ELSE dbsByID[e]
  BY DEF Unregister, Types
<1> QED BY <1>1, <1>2 DEF MapsInverse, Types

\* No step of the agent breaks the correspondence of its two maps.
LEMMA MapsKept == Types /\ MapsInverse /\ [AgentNext]_agentVars => MapsInverse'
<1> SUFFICES ASSUME Types, MapsInverse, [AgentNext]_agentVars PROVE MapsInverse'
  OBVIOUS
<1> USE AgentConstants
<1>1. ASSUME NEW c \in Call, CreateRegisters(c) PROVE MapsInverse'
  <2>1. call[c].name \in DbName /\ call[c].db \in DbId
    BY <1>1 DEF Types, CreateRegisters, CreatingCall, RemovingCall, DrainCall
  <2>2. \A n \in DbName : dbsByName'[n] = IF n = call[c].name THEN call[c].db ELSE dbsByName[n]
    BY <1>1 DEF CreateRegisters, Types
  <2>3. \A e \in DbId : dbsByID'[e] = IF e = call[c].db THEN call[c].name ELSE dbsByID[e]
    BY <1>1 DEF CreateRegisters, Types
  <2>4. /\ dbsByName[call[c].name] \in {NoDb, call[c].db}
        /\ dbsByID[call[c].db] \in {NoDb, call[c].name}
    BY <1>1 DEF CreateRegisters, Clashes
  <2> QED BY <2>1, <2>2, <2>3, <2>4 DEF MapsInverse, Types
<1>2. ASSUME NEW c \in Call, NEW d \in DbId, DeleteUnregisters(c, d) \/ DrainUnregisters(c, d)
      PROVE  MapsInverse'
  BY <1>2, UnregisterKeeps DEF DeleteUnregisters, DrainUnregisters
<1>3. CASE AgentRestarts
  BY <1>3 DEF MapsInverse, AgentRestarts
<1>4. CASE UNCHANGED maps
  BY <1>4 DEF MapsInverse, maps
<1>5. CASE UNCHANGED agentVars
  BY <1>5 DEF MapsInverse, agentVars
<1> QED
  BY <1>1, <1>2, <1>3, <1>4, <1>5 DEF AgentNext, CreateArrives, CreateFails,
     CreateTriesHang, CreateHangs, CreateRefused, DeleteRemoves, DrainBegins,
     DrainRemoves, DrainAnswers, DrainEnds, InjectFailure

-----------------------------------------------------------------------------
(* The disk *)

Busy(pc) == pc \in {"remove", "evacuate"}

\* A step of a handler that has no directory to remove, before or after it,
\* and that leaves maps and disk alone, does not concern the disk.
LEMMA DiskUnconcerned ==
    ASSUME ClashNoted, DirsMatch, NEW c \in Call,
           UNCHANGED <<dbsByID, dirs, clashed, leftover>>,
           \A e \in Call \ {c} : call'[e] = call[e],
           ~ Busy(call[c].pc), ~ Busy(call'[c].pc)
    PROVE  ClashNoted' /\ DirsMatch'
<1>1. \A d \in DbId : Removing(d)' <=> Removing(d)
  BY DEF Removing, Busy
<1> QED BY <1>1 DEF ClashNoted, DirsMatch, Registered

\* A handler that unregisters a database has its directory to remove.
LEMMA DiskUnregister ==
    ASSUME Types, ClashNoted, DirsMatch, NEW c \in Call, NEW d \in DbId, Unregister(d),
           UNCHANGED <<dirs, clashed, leftover>>,
           \A e \in Call \ {c} : call'[e] = call[e],
           ~ Busy(call[c].pc), Busy(call'[c].pc), call'[c].db = d
    PROVE  ClashNoted' /\ DirsMatch'
<1>1. \A e \in DbId : dbsByID'[e] = IF e = d THEN NoDb ELSE dbsByID[e]
  BY DEF Unregister, Types
<1>2. Removing(d)'
  BY DEF Removing, Busy
<1>3. \A e \in DbId \ {d} : Removing(e)' <=> Removing(e)
  BY DEF Removing, Busy
<1> QED BY <1>1, <1>2, <1>3 DEF ClashNoted, DirsMatch, Registered

\* The directory goes, and the database with it unless it has come back; or it
\* stays behind, which leftover notes.
LEMMA DiskRemove ==
    ASSUME Types, ClashNoted, DirsMatch, NEW c \in Call, NEW d \in DbId, RemoveAll(d),
           UNCHANGED dbsByID,
           \A e \in Call \ {c} : call'[e] = call[e],
           Busy(call[c].pc), call[c].db = d, ~ Busy(call'[c].pc)
    PROVE  ClashNoted' /\ DirsMatch'
<1>1. Removing(d)
  BY DEF Removing, Busy
<1>2. \A e \in DbId \ {d} : Removing(e)' <=> Removing(e)
  BY DEF Removing, Busy
<1>3. \A e \in DbId \ {d} : /\ (e \in dirs' <=> e \in dirs)
                          /\ (e \in clashed' <=> e \in clashed)
                          /\ (e \in leftover' <=> e \in leftover)
  BY DEF RemoveAll
<1>4. Registered(d) => d \in clashed'
  BY <1>1 DEF RemoveAll, ClashNoted
<1>5. d \in dirs' => Registered(d) \/ d \in leftover'
  BY DEF RemoveAll
<1>6. \A e \in DbId : Registered(e)' <=> Registered(e)
  BY DEF Registered
<1> QED BY <1>1, <1>2, <1>3, <1>4, <1>5, <1>6 DEF ClashNoted, DirsMatch

\* No step lets the disk and the maps disagree unnoticed.
LEMMA DiskKept ==
    Types /\ ClashNoted /\ DirsMatch /\ [AgentNext]_agentVars => ClashNoted' /\ DirsMatch'
<1> SUFFICES ASSUME Types, ClashNoted, DirsMatch, [AgentNext]_agentVars
             PROVE  ClashNoted' /\ DirsMatch'
  OBVIOUS
<1> USE AgentConstants
<1>1. ASSUME NEW c \in Call, NEW n \in DbName, NEW d \in DbId, CreateArrives(c, n, d)
      PROVE  ClashNoted' /\ DirsMatch'
  <2>1. call'[c].pc \in {"fail", "tryHang"}
    BY <1>1 DEF CreateArrives, Become, Creating, Types
  <2> QED BY <1>1, <2>1, DiskUnconcerned DEF CreateArrives, Become, Busy, Types, maps
<1>2. ASSUME NEW c \in Call, CreateFails(c) \/ CreateRefused(c) \/ DrainEnds(c)
      PROVE  ClashNoted' /\ DirsMatch'
  <2>1. call' = [call EXCEPT ![c] = FreeCall]
    BY <1>2 DEF CreateFails, CreateRefused, DrainEnds, Become
  <2> QED BY <1>2, <2>1, DiskUnconcerned
          DEF CreateFails, CreateRefused, DrainEnds, Busy, Types, maps, FreeCall
<1>3. ASSUME NEW c \in Call, CreateTriesHang(c) PROVE ClashNoted' /\ DirsMatch'
  <2>1. call[c] \in CreatingCall
    BY <1>3 DEF Types, CreateTriesHang, CreatingCall, RemovingCall, DrainCall
  <2>2. call'[c].pc \in {"hang", "create"}
    BY <1>3, <2>1 DEF CreateTriesHang, Become, Types, CreatingCall
  <2> QED BY <1>3, <2>2, DiskUnconcerned DEF CreateTriesHang, Become, Busy, Types, maps
<1>4. ASSUME NEW c \in Call, CreateHangs(c) PROVE ClashNoted' /\ DirsMatch'
  <2>1. call[c] \in CreatingCall
    BY <1>4 DEF Types, CreateHangs, CreatingCall, RemovingCall, DrainCall
  <2>2. call'[c].pc \in {"free", "create"}
    BY <1>4, <2>1 DEF CreateHangs, Become, Types, CreatingCall, FreeCall
  <2> QED BY <1>4, <2>2, DiskUnconcerned DEF CreateHangs, Become, Busy, Types, maps
<1>5. ASSUME NEW c \in Call, CreateRegisters(c) PROVE ClashNoted' /\ DirsMatch'
  <2> DEFINE d == call[c].db
  <2>1. d \in DbId /\ call[c].name \in DbName /\ ~ Busy(call[c].pc)
    BY <1>5 DEF Types, CreateRegisters, CreatingCall, RemovingCall, DrainCall, Busy
  <2>2. ASSUME NEW e \in Call
        PROVE  \/ call'[e].pc = call[e].pc /\ (Busy(call[e].pc) => call'[e].db = call[e].db)
               \/ ~ Busy(call'[e].pc) /\ ~ Busy(call[e].pc)
    <3>1. CASE e = c
      BY <1>5, <2>1, <3>1 DEF CreateRegisters, NoteCreated, FreeCall, Types, Busy
    <3>2. CASE e # c /\ Draining(e)
      <4>1. call[e] \in DrainCall
        BY <3>2 DEF Types, DrainCall, CreatingCall, RemovingCall, Draining
      <4>2. call'[e] = [call[e] EXCEPT !.since = @ \cup {d}]
        BY <1>5, <3>2 DEF CreateRegisters, NoteCreated, Types, Draining
      <4> QED BY <4>1, <4>2 DEF DrainCall
    <3>3. CASE e # c /\ ~ Draining(e)
      BY <1>5, <3>3 DEF CreateRegisters, NoteCreated, Types, Draining
    <3> QED BY <3>1, <3>2, <3>3
  <2>3. \A x \in DbId : Removing(x)' <=> Removing(x)
    <3> TAKE x \in DbId
    <3>1. ASSUME NEW e \in Call
          PROVE  (call'[e].pc \in {"remove", "evacuate"} /\ call'[e].db = x)
                   <=> (call[e].pc \in {"remove", "evacuate"} /\ call[e].db = x)
      BY <2>2, <3>1 DEF Busy
    <3> QED BY <3>1 DEF Removing
  <2>4. /\ \A x \in DbId : dbsByID'[x] = IF x = d THEN call[c].name ELSE dbsByID[x]
        /\ dirs' = dirs \cup {d} /\ leftover' = leftover \ {d}
        /\ clashed' = IF Removing(d) THEN clashed \cup {d} ELSE clashed \ {d}
    BY <1>5, <2>1 DEF CreateRegisters, Types
  <2> HIDE DEF d
  <2> QED BY <2>1, <2>3, <2>4 DEF ClashNoted, DirsMatch, Registered
<1>6. ASSUME NEW c \in Call, NEW d \in DbId, DeleteUnregisters(c, d)
      PROVE  ClashNoted' /\ DirsMatch'
  <2>1. call'[c] = [pc |-> "remove", db |-> d]
    BY <1>6 DEF DeleteUnregisters, Become, Types
  <2> QED BY <1>6, <2>1, DiskUnregister DEF DeleteUnregisters, Become, Busy, Types
<1>7. ASSUME NEW c \in Call, NEW d \in DbId, DrainUnregisters(c, d)
      PROVE  ClashNoted' /\ DirsMatch'
  <2>1. call[c] \in DrainCall
    BY <1>7 DEF Types, DrainUnregisters, CreatingCall, RemovingCall, DrainCall
  <2>2. call'[c].pc = "evacuate" /\ call'[c].db = d
    BY <1>7, <2>1 DEF DrainUnregisters, Become, Types, DrainCall
  <2> QED BY <1>7, <2>2, DiskUnregister DEF DrainUnregisters, Become, Busy, Types
<1>8. ASSUME NEW c \in Call, DeleteRemoves(c) PROVE ClashNoted' /\ DirsMatch'
  <2>1. call[c].db \in DbId
    BY <1>8 DEF Types, DeleteRemoves, CreatingCall, RemovingCall, DrainCall
  <2>2. call'[c].pc = "free"
    BY <1>8 DEF DeleteRemoves, Become, FreeCall, Types
  <2> QED BY <1>8, <2>1, <2>2, DiskRemove DEF DeleteRemoves, Become, Busy, Types, maps
<1>9. ASSUME NEW c \in Call, DrainRemoves(c) PROVE ClashNoted' /\ DirsMatch'
  <2>1. call[c] \in DrainCall /\ call[c].db \in DbId
    BY <1>9 DEF Types, DrainRemoves, CreatingCall, RemovingCall, DrainCall
  <2>2. call'[c].pc = "drain"
    BY <1>9, <2>1 DEF DrainRemoves, Become, Types, DrainCall
  <2> QED BY <1>9, <2>1, <2>2, DiskRemove DEF DrainRemoves, Become, Busy, Types, maps
<1>10. ASSUME NEW c \in Call, DrainBegins(c) PROVE ClashNoted' /\ DirsMatch'
  <2>1. call'[c].pc = "drain"
    BY <1>10 DEF DrainBegins, Become, Types
  <2> QED BY <1>10, <2>1, DiskUnconcerned DEF DrainBegins, Become, Busy, Types, maps
<1>11. ASSUME NEW c \in Call, DrainAnswers(c) PROVE ClashNoted' /\ DirsMatch'
  <2>1. call[c] \in DrainCall
    BY <1>11 DEF Types, DrainAnswers, CreatingCall, RemovingCall, DrainCall
  <2>2. call'[c].pc = "drained"
    BY <1>11, <2>1 DEF DrainAnswers, Become, Types, DrainCall
  <2> QED BY <1>11, <2>2, DiskUnconcerned DEF DrainAnswers, Become, Busy, Types, maps
<1>12. ASSUME NEW a \in 0..MaxInject, NEW h \in 0..MaxInject, InjectFailure(a, h)
       PROVE  ClashNoted' /\ DirsMatch'
  BY <1>12 DEF InjectFailure, maps, ClashNoted, DirsMatch, Removing, Registered
<1>13. CASE AgentRestarts
  <2>1. \A d \in DbId : ~ Removing(d)' /\ ~ Registered(d)'
    BY <1>13 DEF AgentRestarts, Removing, Registered, FreeCall
  <2> QED BY <1>13, <2>1 DEF AgentRestarts, ClashNoted, DirsMatch
<1>14. CASE UNCHANGED agentVars
  BY <1>14 DEF agentVars, ClashNoted, DirsMatch, Removing, Registered
<1> QED
  BY <1>1, <1>2, <1>3, <1>4, <1>5, <1>6, <1>7, <1>8, <1>9, <1>10, <1>11, <1>12,
     <1>13, <1>14 DEF AgentNext

-----------------------------------------------------------------------------
(* Drains *)

DrainPc == {"drain", "evacuate", "drained"}

\* What DrainProgress says of one handler.
Progress(c) ==
    call[c].pc \in DrainPc =>
        /\ \A d \in call[c].ids \ (call[c].left \cup call[c].since) : ~ Registered(d)
        /\ call[c].pc = "evacuate" /\ call[c].db \notin call[c].since
              => ~ Registered(call[c].db)
        /\ call[c].pc = "drained" => call[c].left = {}

\* A handler that stands still keeps its progress while nothing is created.
LEMMA ProgressStands ==
    ASSUME Types, NEW c \in Call, Progress(c), call'[c] = call[c],
           \A d \in DbId : Registered(d)' => Registered(d)
    PROVE  Progress(c)'
<1>1. CASE call[c].pc \notin DrainPc
  BY <1>1 DEF Progress
<1>2. CASE call[c].pc \in DrainPc
  <2>1. call[c] \in DrainCall
    BY <1>2 DEF Types, DrainCall, CreatingCall, RemovingCall, DrainPc
  <2>2. call[c].pc = "evacuate" => call[c].db \in DbId
    BY DEF Types
  <2>3. call[c].ids \subseteq DbId
    BY <2>1 DEF DrainCall
  <2> QED BY <1>2, <2>2, <2>3 DEF Progress
<1> QED BY <1>1, <1>2

\* Every step keeps the progress of the drains under way.
LEMMA DrainKept ==
    Types /\ DrainProgress /\ [AgentNext]_agentVars => DrainProgress'
<1> SUFFICES ASSUME Types, DrainProgress, [AgentNext]_agentVars, NEW e \in Call
             PROVE  Progress(e)'
  BY DEF DrainProgress, Progress, Draining, DrainPc
<1> USE AgentConstants
<1>p. Progress(e)
  BY DEF DrainProgress, Progress, Draining, DrainPc
<1>f. ASSUME NEW c \in Call, call'[c].pc \notin DrainPc, e = c PROVE Progress(e)'
  BY <1>f DEF Progress
<1>s. ASSUME UNCHANGED dbsByID, call'[e] = call[e] PROVE Progress(e)'
  BY <1>s, <1>p, ProgressStands DEF Registered
<1>1. ASSUME NEW c \in Call, NEW n \in DbName, NEW d \in DbId, CreateArrives(c, n, d)
      PROVE  Progress(e)'
  <2>1. call'[c].pc \in {"fail", "tryHang"}
    BY <1>1 DEF CreateArrives, Become, Creating, Types
  <2> QED BY <1>1, <1>f, <1>s, <2>1 DEF CreateArrives, Become, Types, maps, DrainPc
<1>2. ASSUME NEW c \in Call, CreateFails(c) \/ CreateRefused(c) \/ DrainEnds(c) \/ DeleteRemoves(c)
      PROVE  Progress(e)'
  <2>1. call' = [call EXCEPT ![c] = FreeCall] /\ UNCHANGED dbsByID
    BY <1>2 DEF CreateFails, CreateRefused, DrainEnds, DeleteRemoves, Become, maps
  <2> QED BY <1>f, <1>s, <2>1 DEF Types, FreeCall, DrainPc
<1>3. ASSUME NEW c \in Call, CreateTriesHang(c) PROVE Progress(e)'
  <2>1. call[c] \in CreatingCall
    BY <1>3 DEF Types, CreateTriesHang, CreatingCall, RemovingCall, DrainCall
  <2>2. call'[c].pc \in {"hang", "create"}
    BY <1>3, <2>1 DEF CreateTriesHang, Become, Types, CreatingCall
  <2> QED BY <1>3, <1>f, <1>s, <2>2 DEF CreateTriesHang, Become, Types, maps, DrainPc
<1>4. ASSUME NEW c \in Call, CreateHangs(c) PROVE Progress(e)'
  <2>1. call[c] \in CreatingCall
    BY <1>4 DEF Types, CreateHangs, CreatingCall, RemovingCall, DrainCall
  <2>2. call'[c].pc \in {"free", "create"}
    BY <1>4, <2>1 DEF CreateHangs, Become, Types, CreatingCall, FreeCall
  <2> QED BY <1>4, <1>f, <1>s, <2>2 DEF CreateHangs, Become, Types, maps, DrainPc
<1>5. ASSUME NEW c \in Call, CreateRegisters(c) PROVE Progress(e)'
  <2>1. call[c].db \in DbId /\ call[c].name \in DbName
    BY <1>5 DEF Types, CreateRegisters, CreatingCall, RemovingCall, DrainCall
  <2>2. \A x \in DbId : Registered(x)' => Registered(x) \/ x = call[c].db
    BY <1>5 DEF CreateRegisters, Types, Registered
  <2>3. CASE e = c
    BY <1>5, <1>f, <2>3 DEF CreateRegisters, NoteCreated, FreeCall, Types, DrainPc
  <2>4. CASE e # c /\ call[e].pc \in DrainPc
    <3>1. call[e] \in DrainCall
      BY <2>4 DEF Types, DrainCall, CreatingCall, RemovingCall, DrainPc
    <3>2. call'[e] = [call[e] EXCEPT !.since = @ \cup {call[c].db}]
      BY <1>5, <2>4 DEF CreateRegisters, NoteCreated, Types, DrainPc
    <3>3. /\ call'[e].pc = call[e].pc /\ call'[e].ids = call[e].ids
          /\ call'[e].left = call[e].left /\ call'[e].db = call[e].db
          /\ call'[e].since = call[e].since \cup {call[c].db}
      BY <3>1, <3>2 DEF DrainCall
    <3>4. call[e].ids \subseteq DbId /\ (call[e].pc = "evacuate" => call[e].db \in DbId)
      BY <3>1 DEF DrainCall, Types
    <3> QED BY <1>p, <2>2, <2>4, <3>3, <3>4 DEF Progress
  <2>5. CASE e # c /\ call[e].pc \notin DrainPc
    <3>1. call'[e] = call[e]
      BY <1>5, <2>5 DEF CreateRegisters, NoteCreated, Types, DrainPc
    <3> QED BY <2>5, <3>1 DEF Progress
  <2> QED BY <2>3, <2>4, <2>5
<1>6. ASSUME NEW c \in Call, NEW d \in DbId, DeleteUnregisters(c, d) PROVE Progress(e)'
  <2>1. \A x \in DbId : Registered(x)' => Registered(x)
    BY <1>6 DEF DeleteUnregisters, Unregister, Registered, Types
  <2>2. call'[c].pc = "remove"
    BY <1>6 DEF DeleteUnregisters, Become, Types
  <2>3. CASE e = c
    BY <1>f, <2>2, <2>3 DEF DrainPc
  <2>4. CASE e # c
    BY <1>6, <1>p, <2>1, <2>4, ProgressStands DEF DeleteUnregisters, Become, Types
  <2> QED BY <2>3, <2>4
<1>7. ASSUME NEW c \in Call, NEW d \in DbId, DrainUnregisters(c, d) PROVE Progress(e)'
  <2>1. \A x \in DbId : Registered(x)' => Registered(x) /\ x # d
    BY <1>7 DEF DrainUnregisters, Unregister, Registered, Types
  <2>2. CASE e # c
    BY <1>7, <1>p, <2>1, <2>2, ProgressStands DEF DrainUnregisters, Become, Types
  <2>3. CASE e = c
    <3>1. call[c] \in DrainCall /\ call[c].pc = "drain" /\ d \in call[c].left
      BY <1>7 DEF Types, DrainUnregisters, CreatingCall, RemovingCall, DrainCall
    <3>2. call'[c] = [call[c] EXCEPT !.pc = "evacuate", !.db = d, !.since = @ \ {d}]
      BY <1>7 DEF DrainUnregisters, Become, Types
    <3>3. /\ call'[c].pc = "evacuate" /\ call'[c].ids = call[c].ids
          /\ call'[c].left = call[c].left /\ call'[c].db = d
          /\ call'[c].since = call[c].since \ {d}
      BY <3>1, <3>2 DEF DrainCall
    <3>4. call[c].ids \subseteq DbId
      BY <3>1 DEF DrainCall
    <3> QED BY <1>p, <2>1, <2>3, <3>1, <3>3, <3>4 DEF Progress, DrainPc
  <2> QED BY <2>2, <2>3
<1>8. ASSUME NEW c \in Call, DrainRemoves(c) PROVE Progress(e)'
  <2>1. CASE e # c
    BY <1>8, <1>s, <2>1 DEF DrainRemoves, Become, Types, maps
  <2>2. CASE e = c
    <3>1. call[c] \in DrainCall /\ call[c].pc = "evacuate"
      BY <1>8 DEF Types, DrainRemoves, CreatingCall, RemovingCall, DrainCall
    <3>2. call'[c] = [call[c] EXCEPT !.pc = "drain", !.left = @ \ {call[c].db}, !.moved = @ + 1]
      BY <1>8 DEF DrainRemoves, Become, Types
    <3>3. /\ call'[c].pc = "drain" /\ call'[c].ids = call[c].ids
          /\ call'[c].left = call[c].left \ {call[c].db}
          /\ call'[c].since = call[c].since
      BY <3>1, <3>2 DEF DrainCall
    <3>4. \A x : Registered(x)' <=> Registered(x)
      BY <1>8 DEF DrainRemoves, maps, Registered
    <3> QED BY <1>p, <2>2, <3>1, <3>3, <3>4 DEF Progress, DrainPc
  <2> QED BY <2>1, <2>2
<1>9. ASSUME NEW c \in Call, DrainBegins(c) PROVE Progress(e)'
  <2>1. CASE e # c
    BY <1>9, <1>s, <2>1 DEF DrainBegins, Become, Types, maps
  <2>2. CASE e = c
    <3>1. call'[c].pc = "drain" /\ call'[c].left = call'[c].ids
      BY <1>9 DEF DrainBegins, Become, Types
    <3> QED BY <2>2, <3>1 DEF Progress
  <2> QED BY <2>1, <2>2
<1>10. ASSUME NEW c \in Call, DrainAnswers(c) PROVE Progress(e)'
  <2>1. CASE e # c
    BY <1>10, <1>s, <2>1 DEF DrainAnswers, Become, Types, maps
  <2>2. CASE e = c
    <3>1. call[c] \in DrainCall /\ call[c].pc = "drain" /\ call[c].left = {}
      BY <1>10 DEF Types, DrainAnswers, CreatingCall, RemovingCall, DrainCall
    <3>2. /\ call'[c].pc = "drained" /\ call'[c].ids = call[c].ids
          /\ call'[c].left = call[c].left /\ call'[c].since = call[c].since
      BY <1>10, <3>1 DEF DrainAnswers, Become, Types, DrainCall
    <3>3. \A x : Registered(x)' <=> Registered(x)
      BY <1>10 DEF DrainAnswers, maps, Registered
    <3> QED BY <1>p, <2>2, <3>1, <3>2, <3>3 DEF Progress, DrainPc
  <2> QED BY <2>1, <2>2
<1>11. ASSUME NEW a \in 0..MaxInject, NEW h \in 0..MaxInject, InjectFailure(a, h)
       PROVE  Progress(e)'
  BY <1>11, <1>s DEF InjectFailure, maps
<1>12. CASE AgentRestarts
  <2>1. call'[e].pc = "free"
    BY <1>12 DEF AgentRestarts, FreeCall
  <2> QED BY <2>1 DEF Progress, DrainPc
<1>13. CASE UNCHANGED agentVars
  BY <1>13, <1>s DEF agentVars
<1> QED
  BY <1>1, <1>2, <1>3, <1>4, <1>5, <1>6, <1>7, <1>8, <1>9, <1>10, <1>11, <1>12,
     <1>13 DEF AgentNext

-----------------------------------------------------------------------------
(* The counters of injected failures *)

\* The handlers that have read a counter and have it to decrement.
Due(pc) == {c \in Call : call[c].pc = pc}

\* A counter is above what it may fall to by the number of those handlers.
Covered(counter, pc) ==
    /\ counter \in Int /\ counter <= MaxInject
    /\ counter >= Cardinality(Due(pc)) - Cardinality(Call)

CountersOK == Covered(failAttempts, "fail") /\ Covered(hangAttempts, "hang")

LEMMA DueFinite ==
    \A pc : /\ IsFiniteSet(Due(pc)) /\ Cardinality(Due(pc)) \in Nat
            /\ Cardinality(Call) \in Nat /\ Cardinality(Due(pc)) <= Cardinality(Call)
<1> TAKE pc
<1>1. Due(pc) \subseteq Call /\ IsFiniteSet(Call)
  BY AgentConstants DEF Due
<1> QED BY <1>1, FS_Subset, FS_CardinalityType

\* A counter that stays, while as many handlers are due ...
LEMMA CoveredStands ==
    ASSUME NEW counter, NEW pc, Covered(counter, pc),
           \A c \in Call : call'[c].pc = pc <=> call[c].pc = pc
    PROVE  /\ counter \in Int /\ counter <= MaxInject
           /\ counter >= Cardinality(Due(pc)') - Cardinality(Call)
<1>1. Due(pc)' = Due(pc)
  BY DEF Due
<1> QED BY <1>1 DEF Covered

\* ... a counter that was above 0 when a handler read it ...
LEMMA CoveredRead ==
    ASSUME NEW counter, NEW pc, Covered(counter, pc), counter > 0,
           NEW c \in Call, \A e \in Call : e # c => call'[e].pc = call[e].pc,
           call'[c].pc = pc
    PROVE  /\ counter \in Int /\ counter <= MaxInject
           /\ counter >= Cardinality(Due(pc)') - Cardinality(Call)
<1>1. Due(pc)' \subseteq Call /\ IsFiniteSet(Call)
  BY AgentConstants DEF Due
<1>2. Cardinality(Due(pc)') \in Nat /\ Cardinality(Call) \in Nat
      /\ Cardinality(Due(pc)') <= Cardinality(Call)
  BY <1>1, FS_Subset, FS_CardinalityType
<1> QED BY <1>2 DEF Covered

\* ... and a counter that one of the handlers decrements.
LEMMA CoveredTaken ==
    ASSUME NEW counter, NEW pc, Covered(counter, pc),
           NEW c \in Call, \A e \in Call : e # c => call'[e].pc = call[e].pc,
           call[c].pc = pc, call'[c].pc # pc
    PROVE  /\ counter - 1 \in Int /\ counter - 1 <= MaxInject
           /\ counter - 1 >= Cardinality(Due(pc)') - Cardinality(Call)
<1>1. Due(pc)' = Due(pc) \ {c} /\ c \in Due(pc)
  BY DEF Due
<1>2. Cardinality(Due(pc)') = Cardinality(Due(pc)) - 1
  BY <1>1, DueFinite, FS_RemoveElement
<1> QED BY <1>2, DueFinite, AgentConstants DEF Covered

\* An injection sets a counter to a value from 0 to MaxInject.
LEMMA CoveredSet ==
    ASSUME NEW counter \in 0..MaxInject, NEW pc
    PROVE  Covered(counter, pc)
  BY DueFinite, AgentConstants DEF Covered

LEMMA CountersKept == Types /\ CountersOK /\ [AgentNext]_agentVars => CountersOK'
<1> SUFFICES ASSUME Types, CountersOK, [AgentNext]_agentVars PROVE CountersOK'
  OBVIOUS
<1>s. ASSUME UNCHANGED counters,
             \A e \in Call : call'[e].pc \in {"fail", "hang"} \/ call[e].pc \in {"fail", "hang"}
                               => call'[e].pc = call[e].pc
      PROVE  CountersOK'
  <2>1. \A pc \in {"fail", "hang"} : \A e \in Call : call'[e].pc = pc <=> call[e].pc = pc
    BY <1>s
  <2>2. Covered(failAttempts, "fail") /\ Covered(hangAttempts, "hang")
    BY DEF CountersOK
  <2> QED BY <1>s, <2>1, <2>2, CoveredStands DEF CountersOK, Covered, counters
<1>1. ASSUME NEW c \in Call, NEW n \in DbName, NEW d \in DbId, CreateArrives(c, n, d)
      PROVE  CountersOK'
  <2>1. /\ call[c].pc = "free" /\ UNCHANGED counters
        /\ \A e \in Call : e # c => call'[e].pc = call[e].pc
        /\ call'[c].pc = IF failAttempts > 0 THEN "fail" ELSE "tryHang"
    BY <1>1 DEF CreateArrives, Become, Creating, Types
  <2>2. CASE failAttempts > 0
    <3>1. /\ failAttempts \in Int /\ failAttempts <= MaxInject
          /\ failAttempts >= Cardinality(Due("fail")') - Cardinality(Call)
      BY <2>1, <2>2, CoveredRead DEF CountersOK
    <3>2. /\ hangAttempts \in Int /\ hangAttempts <= MaxInject
          /\ hangAttempts >= Cardinality(Due("hang")') - Cardinality(Call)
      BY <2>1, <2>2, CoveredStands DEF CountersOK
    <3> QED BY <2>1, <3>1, <3>2 DEF CountersOK, Covered, counters
  <2>3. CASE ~ (failAttempts > 0)
    BY <2>1, <2>3, <1>s
  <2> QED BY <2>2, <2>3
<1>2. ASSUME NEW c \in Call, CreateFails(c) PROVE CountersOK'
  <2>1. /\ call[c].pc = "fail" /\ call'[c].pc = "free"
        /\ failAttempts' = failAttempts - 1 /\ hangAttempts' = hangAttempts
        /\ \A e \in Call : e # c => call'[e].pc = call[e].pc
    BY <1>2 DEF CreateFails, Become, FreeCall, Types
  <2>2. /\ failAttempts - 1 \in Int /\ failAttempts - 1 <= MaxInject
        /\ failAttempts - 1 >= Cardinality(Due("fail")') - Cardinality(Call)
    BY <2>1, CoveredTaken DEF CountersOK
  <2>3. /\ hangAttempts \in Int /\ hangAttempts <= MaxInject
        /\ hangAttempts >= Cardinality(Due("hang")') - Cardinality(Call)
    BY <2>1, CoveredStands DEF CountersOK
  <2> QED BY <2>1, <2>2, <2>3 DEF CountersOK, Covered
<1>3. ASSUME NEW c \in Call, CreateTriesHang(c) PROVE CountersOK'
  <2>0. call[c] \in CreatingCall
    BY <1>3 DEF Types, CreateTriesHang, CreatingCall, RemovingCall, DrainCall
  <2>1. /\ call[c].pc = "tryHang" /\ UNCHANGED counters
        /\ \A e \in Call : e # c => call'[e].pc = call[e].pc
        /\ call'[c].pc = IF hangAttempts > 0 THEN "hang" ELSE "create"
    BY <1>3, <2>0 DEF CreateTriesHang, Become, CreatingCall, Types
  <2>2. CASE hangAttempts > 0
    <3>1. /\ hangAttempts \in Int /\ hangAttempts <= MaxInject
          /\ hangAttempts >= Cardinality(Due("hang")') - Cardinality(Call)
      BY <2>1, <2>2, CoveredRead DEF CountersOK
    <3>2. /\ failAttempts \in Int /\ failAttempts <= MaxInject
          /\ failAttempts >= Cardinality(Due("fail")') - Cardinality(Call)
      BY <2>1, <2>2, CoveredStands DEF CountersOK
    <3> QED BY <2>1, <3>1, <3>2 DEF CountersOK, Covered, counters
  <2>3. CASE ~ (hangAttempts > 0)
    BY <2>1, <2>3, <1>s
  <2> QED BY <2>2, <2>3
<1>4. ASSUME NEW c \in Call, CreateHangs(c) PROVE CountersOK'
  <2>0. call[c] \in CreatingCall
    BY <1>4 DEF Types, CreateHangs, CreatingCall, RemovingCall, DrainCall
  <2>1. /\ call[c].pc = "hang" /\ call'[c].pc \in {"free", "create"}
        /\ hangAttempts' = hangAttempts - 1 /\ failAttempts' = failAttempts
        /\ \A e \in Call : e # c => call'[e].pc = call[e].pc
    BY <1>4, <2>0 DEF CreateHangs, Become, FreeCall, CreatingCall, Types
  <2>2. /\ hangAttempts - 1 \in Int /\ hangAttempts - 1 <= MaxInject
        /\ hangAttempts - 1 >= Cardinality(Due("hang")') - Cardinality(Call)
    BY <2>1, CoveredTaken DEF CountersOK
  <2>3. /\ failAttempts \in Int /\ failAttempts <= MaxInject
        /\ failAttempts >= Cardinality(Due("fail")') - Cardinality(Call)
    BY <2>1, CoveredStands DEF CountersOK
  <2> QED BY <2>1, <2>2, <2>3 DEF CountersOK, Covered
<1>5. ASSUME NEW c \in Call, CreateRefused(c) \/ DrainEnds(c) \/ DeleteRemoves(c) PROVE CountersOK'
  <2>1. /\ call[c].pc \notin {"fail", "hang"} /\ call'[c].pc = "free" /\ UNCHANGED counters
        /\ \A e \in Call : e # c => call'[e].pc = call[e].pc
    BY <1>5 DEF CreateRefused, DrainEnds, DeleteRemoves, Become, FreeCall, Types
  <2> QED BY <2>1, <1>s
<1>6. ASSUME NEW c \in Call, CreateRegisters(c) PROVE CountersOK'
  <2>1. call[c].pc = "create" /\ UNCHANGED counters /\ call'[c].pc = "free"
    BY <1>6 DEF CreateRegisters, NoteCreated, FreeCall, Types
  <2>2. ASSUME NEW e \in Call, e # c PROVE call'[e].pc = call[e].pc
    <3>1. CASE call[e].pc \in {"drain", "evacuate", "drained"}
      <4>1. call[e] \in DrainCall
        BY <3>1 DEF Types, DrainCall, CreatingCall, RemovingCall
      <4>2. call'[e] = [call[e] EXCEPT !.since = @ \cup {call[c].db}]
        BY <1>6, <2>2, <3>1 DEF CreateRegisters, NoteCreated, Types
      <4> QED BY <4>1, <4>2 DEF DrainCall
    <3>2. CASE call[e].pc \notin {"drain", "evacuate", "drained"}
      BY <1>6, <2>2, <3>2 DEF CreateRegisters, NoteCreated, Types
    <3> QED BY <3>1, <3>2
  <2> QED BY <2>1, <2>2, <1>s
<1>7. ASSUME NEW c \in Call, NEW d \in DbId, DeleteUnregisters(c, d) \/ DrainUnregisters(c, d)
      PROVE  CountersOK'
  <2>1. /\ call[c].pc \notin {"fail", "hang"} /\ UNCHANGED counters
        /\ call'[c].pc \in {"remove", "evacuate"}
        /\ \A e \in Call : e # c => call'[e].pc = call[e].pc
    <3>1. CASE DeleteUnregisters(c, d)
      BY <3>1 DEF DeleteUnregisters, Become, Types
    <3>2. CASE DrainUnregisters(c, d)
      <4>1. call[c] \in DrainCall
        BY <3>2 DEF Types, DrainUnregisters, CreatingCall, RemovingCall, DrainCall
      <4> QED BY <3>2, <4>1 DEF DrainUnregisters, Become, DrainCall, Types
    <3> QED BY <1>7, <3>1, <3>2
  <2> QED BY <2>1, <1>s
<1>8. ASSUME NEW c \in Call, DrainBegins(c) \/ DrainRemoves(c) \/ DrainAnswers(c)
      PROVE  CountersOK'
  <2>1. /\ call[c].pc \notin {"fail", "hang"} /\ UNCHANGED counters
        /\ call'[c].pc \in {"drain", "drained"}
        /\ \A e \in Call : e # c => call'[e].pc = call[e].pc
    <3>1. CASE DrainBegins(c)
      BY <3>1 DEF DrainBegins, Become, Types
    <3>2. CASE DrainRemoves(c)
      <4>1. call[c] \in DrainCall
        BY <3>2 DEF Types, DrainRemoves, CreatingCall, RemovingCall, DrainCall
      <4> QED BY <3>2, <4>1 DEF DrainRemoves, Become, DrainCall, Types
    <3>3. CASE DrainAnswers(c)
      <4>1. call[c] \in DrainCall
        BY <3>3 DEF Types, DrainAnswers, CreatingCall, RemovingCall, DrainCall
      <4> QED BY <3>3, <4>1 DEF DrainAnswers, Become, DrainCall, Types
    <3> QED BY <1>8, <3>1, <3>2, <3>3
  <2> QED BY <2>1, <1>s
<1>9. ASSUME NEW a \in 0..MaxInject, NEW h \in 0..MaxInject, InjectFailure(a, h)
      PROVE  CountersOK'
  <2>1. \A pc : Due(pc)' = Due(pc)
    BY <1>9 DEF InjectFailure, Due
  <2>2. Covered(failAttempts', "fail") /\ Covered(hangAttempts', "hang")
    BY <1>9, CoveredSet DEF InjectFailure, CountersOK
  <2> QED BY <2>1, <2>2 DEF CountersOK, Covered
<1>10. CASE AgentRestarts
  <2>1. Due("fail")' = {} /\ Due("hang")' = {}
    BY <1>10 DEF AgentRestarts, Due, FreeCall
  <2>2. Cardinality(Call) \in Nat /\ Cardinality({}) = 0
    BY DueFinite, FS_EmptySet
  <2> QED BY <1>10, <2>1, <2>2, AgentConstants DEF AgentRestarts, CountersOK, Covered
<1>11. CASE UNCHANGED agentVars
  BY <1>11, <1>s DEF agentVars, counters
<1> QED
  BY <1>1, <1>2, <1>3, <1>4, <1>5, <1>6, <1>7, <1>8, <1>9, <1>10, <1>11 DEF AgentNext

-----------------------------------------------------------------------------
(* The theorems *)

\* The inductive invariant of the agent (server.go, all handlers).
THEOREM AgentInvariance == AgentSpec => []AgentInv
<1>1. AgentInit => AgentInv
  BY AgentConstants DEF AgentInit, AgentInv, Types, MapsInverse, ClashNoted,
     DirsMatch, DrainProgress, Draining, Removing, Registered, FreeCall
<1>2. AgentInv /\ [AgentNext]_agentVars => AgentInv'
  BY TypesKept, MapsKept, DiskKept, DrainKept DEF AgentInv
<1> QED BY <1>1, <1>2, PTL DEF AgentSpec

\* Names and ids stay inverse to each other under every interleaving of
\* CreateDatabase, DeleteDatabase and DrainNode.
THEOREM MapsStayInverse == AgentSpec => []MapsInverse
BY AgentInvariance, PTL DEF AgentInv

\* A registered database has its directory unless a removal overtakes the
\* creation of the same id, and a directory without a database is being removed
\* or was left by a restart or by a removal that failed (server.go:141, 178).
THEOREM DirectoriesAgree == AgentSpec => []DirsMatch
BY AgentInvariance, PTL DEF AgentInv

\* A drain that has answered left none of the databases it found registered,
\* unless they were created again.
THEOREM DrainIsComplete == AgentSpec => []DrainEmpties
<1>1. AgentInv => DrainEmpties
  BY DEF AgentInv, DrainProgress, Draining, DrainEmpties
<1> QED BY <1>1, AgentInvariance, PTL

\* The types of the agent's state, and that racing creations overdraw the
\* counters of injected failures by no more than the handlers there are, however
\* they interleave with each other and with injections (server.go,
\* CreateDatabase: the counter is read and then decremented).
THEOREM AgentTypeCorrect == AgentSpec => []AgentTypeOK
<1>1. AgentInit => Types /\ CountersOK
  <2> SUFFICES ASSUME AgentInit PROVE Types /\ CountersOK
    OBVIOUS
  <2>1. Covered(0, "fail") /\ Covered(0, "hang")
    BY CoveredSet, AgentConstants
  <2> QED BY <2>1, AgentConstants DEF AgentInit, CountersOK, Types, FreeCall
<1>2. Types /\ CountersOK /\ [AgentNext]_agentVars => (Types /\ CountersOK)'
  BY TypesKept, CountersKept
<1>3. Types /\ CountersOK => AgentTypeOK
  <2> SUFFICES ASSUME Types, CountersOK PROVE AgentTypeOK
    OBVIOUS
  <2>1. ASSUME NEW counter, NEW pc, Covered(counter, pc)
        PROVE  counter \in -Cardinality(Call)..MaxInject
    <3>1. Cardinality(Due(pc)) \in Nat /\ Cardinality(Call) \in Nat
      BY DueFinite
    <3> QED BY <2>1, <3>1, AgentConstants DEF Covered
  <2> QED BY <2>1 DEF CountersOK, AgentTypeOK, Types
<1> QED BY <1>1, <1>2, <1>3, PTL DEF AgentSpec
=============================================================================
