---------------------------- MODULE WorkerAgent -----------------------------
(***************************************************************************)
(* The databases of one worker agent (services/worker-node/agent): the two *)
(* maps under the agent's mutex, the directories on disk, and the calls    *)
(* CreateDatabase, DeleteDatabase and DrainNode that run side by side.     *)
(*                                                                         *)
(* The mutex is held across a creation, directory included, but given up   *)
(* before a directory is removed, and between the databases of a drain.    *)
(* The counters of the failure injection are read and then decremented, in *)
(* two atomic operations.  A restart loses the maps and keeps the disk.    *)
(***************************************************************************)
EXTENDS Integers, FiniteSets

CONSTANTS
    DbName,         \* names of databases
    DbId,           \* ids of databases
    NoDb,           \* a key that is not in a map
    Call,           \* slots for the running RPC handlers
    MaxInject,      \* the number of failures or hangs one injection asks for
    MaxMoves        \* bound on restarts and injections

ASSUME AgentConstants ==
    /\ NoDb \notin DbId /\ NoDb \notin DbName
    /\ MaxInject \in Nat /\ MaxMoves \in Nat
    /\ IsFiniteSet(Call)

VARIABLES
    dbsByName,      \* name -> id
    dbsByID,        \* id -> name
    dirs,           \* the ids whose directory is on disk
    failAttempts,   \* FailAttempts
    hangAttempts,   \* HangAttempts
    call,           \* the running handlers
    clashed,        \* history: ids created while their removal was under way
    leftover,       \* history: directories of before a restart, or that a
                    \* removal failed to take away
    moves           \* how much of MaxMoves is used up

agentVars == <<dbsByName, dbsByID, dirs, failAttempts, hangAttempts, call,
               clashed, leftover, moves>>

maps == <<dbsByName, dbsByID>>

counters == <<failAttempts, hangAttempts>>

FreeCall == [pc |-> "free"]

Registered(d) == dbsByID[d] # NoDb

Become(c, r) == call' = [call EXCEPT ![c] = r]

\* Some handler has taken d out of the maps and has its directory to remove.
Removing(d) ==
    \E c \in Call : call[c].pc \in {"remove", "evacuate"} /\ call[c].db = d

\* The drains that are under way learn which databases are created meanwhile.
NoteCreated(f, d) ==
    [c \in Call |-> IF f[c].pc \in {"drain", "evacuate", "drained"}
                    THEN [f[c] EXCEPT !.since = @ \cup {d}] ELSE f[c]]

-----------------------------------------------------------------------------
(* CreateDatabase *)

Creating(pc, n, d) == [pc |-> pc, name |-> n, db |-> d]

\* The request arrives, with a name and an id; FailAttempts is read.
CreateArrives(c, n, d) ==
    /\ call[c].pc = "free"
    /\ Become(c, Creating(IF failAttempts > 0 THEN "fail" ELSE "tryHang", n, d))
    /\ UNCHANGED <<maps, dirs, counters, clashed, leftover, moves>>

\* An injected failure is counted, and answered without an error code.
CreateFails(c) ==
    /\ call[c].pc = "fail"
    /\ failAttempts' = failAttempts - 1
    /\ Become(c, FreeCall)
    /\ UNCHANGED <<maps, dirs, hangAttempts, clashed, leftover, moves>>

\* HangAttempts is read, and decremented in the step after.
CreateTriesHang(c) ==
    /\ call[c].pc = "tryHang"
    /\ Become(c, [call[c] EXCEPT !.pc = IF hangAttempts > 0 THEN "hang"
                                        ELSE "create"])
    /\ UNCHANGED <<maps, dirs, counters, clashed, leftover, moves>>

\* Mutant: the handler looks at the counter again when it wakes up.
CreateHangsAgain(c) ==
    /\ call[c].pc = "hang"
    /\ hangAttempts' = hangAttempts - 1
    /\ UNCHANGED <<maps, dirs, failAttempts, call, clashed, leftover, moves>>

\* 15 seconds later the call goes on, unless its caller has given up.
CreateHangs(c) ==
    /\ call[c].pc = "hang"
    /\ hangAttempts' = hangAttempts - 1
    /\ \E r \in {FreeCall, [call[c] EXCEPT !.pc = "create"]} : Become(c, r)
    /\ UNCHANGED <<maps, dirs, failAttempts, clashed, leftover, moves>>

\* AlreadyExists: the name has another id, or the id another name.
Clashes(n, d) == dbsByName[n] \notin {NoDb, d} \/ dbsByID[d] \notin {NoDb, n}

\* Under the mutex: refused as a duplicate, or failed with the directory ...
CreateRefused(c) ==
    /\ call[c].pc = "create"
    /\ Become(c, FreeCall)
    /\ UNCHANGED <<maps, dirs, counters, clashed, leftover, moves>>

\* Mutant: the error of MkdirAll is only logged.
CreateIgnoresDir(c) ==
    /\ call[c].pc = "create"
    /\ LET n == call[c].name
           d == call[c].db
       IN /\ ~ Clashes(n, d)
          /\ dirs' \in {dirs, dirs \cup {d}}
          /\ dbsByName' = [dbsByName EXCEPT ![n] = d]
          /\ dbsByID' = [dbsByID EXCEPT ![d] = n]
          /\ clashed' = IF Removing(d) THEN clashed \cup {d} ELSE clashed \ {d}
          /\ leftover' = leftover \ {d}
          /\ call' = NoteCreated([call EXCEPT ![c] = FreeCall], d)
    /\ UNCHANGED <<counters, moves>>

\* ... or registered, with its directory; a known pair is created again.
CreateRegisters(c) ==
    /\ call[c].pc = "create"
    /\ LET n == call[c].name
           d == call[c].db
       IN /\ ~ Clashes(n, d)
          /\ dirs' = dirs \cup {d}
          /\ dbsByName' = [dbsByName EXCEPT ![n] = d]
          /\ dbsByID' = [dbsByID EXCEPT ![d] = n]
          /\ clashed' = IF Removing(d) THEN clashed \cup {d} ELSE clashed \ {d}
          /\ leftover' = leftover \ {d}
          /\ call' = NoteCreated([call EXCEPT ![c] = FreeCall], d)
    /\ UNCHANGED <<counters, moves>>

-----------------------------------------------------------------------------
(* DeleteDatabase and DrainNode *)

\* Mutant: a deletion forgets the id and leaves the name.
UnregisterId(d) ==
    /\ dbsByID' = [dbsByID EXCEPT ![d] = NoDb]
    /\ UNCHANGED dbsByName

\* delete(dbsByID, d) and delete(dbsByName, the name it had): a database that
\* is gone already has no name, and nothing changes.
Unregister(d) ==
    /\ dbsByName' = [n \in DbName |-> IF n = dbsByID[d] THEN NoDb
                                      ELSE dbsByName[n]]
    /\ dbsByID' = [dbsByID EXCEPT ![d] = NoDb]

\* The maps forget the database under the mutex; NotFound changes nothing.
DeleteUnregisters(c, d) ==
    /\ call[c].pc = "free" /\ Registered(d)
    /\ Unregister(d)
    /\ Become(c, [pc |-> "remove", db |-> d])
    /\ UNCHANGED <<dirs, counters, clashed, leftover, moves>>

\* os.RemoveAll, which takes the directory of whoever has the id by now, or
\* fails and leaves it there: its error is discarded, and nobody tries again.
RemoveAll(d) ==
    /\ \/ dirs' = dirs \ {d} /\ leftover' = leftover \ {d}
       \/ /\ d \in dirs /\ UNCHANGED dirs
          /\ leftover' = IF Registered(d) THEN leftover ELSE leftover \cup {d}
    /\ clashed' = IF Registered(d) THEN clashed ELSE clashed \ {d}

\* The directory goes after the mutex was given up.
DeleteRemoves(c) ==
    /\ call[c].pc = "remove"
    /\ RemoveAll(call[c].db)
    /\ Become(c, FreeCall)
    /\ UNCHANGED <<maps, counters, moves>>

\* The ids are copied under the mutex.
DrainBegins(c) ==
    /\ call[c].pc = "free"
    /\ Become(c, [pc |-> "drain", ids |-> {d \in DbId : Registered(d)},
                  left |-> {d \in DbId : Registered(d)}, db |-> NoDb,
                  since |-> {}, moved |-> 0])
    /\ UNCHANGED <<maps, dirs, counters, clashed, leftover, moves>>

\* Mutant: the drain stops at the first database that is gone.
DrainStops(c, d) ==
    /\ call[c].pc = "drain" /\ d \in call[c].left
    /\ IF Registered(d)
       THEN /\ Unregister(d)
            /\ Become(c, [call[c] EXCEPT !.pc = "evacuate", !.db = d])
       ELSE /\ Become(c, [call[c] EXCEPT !.pc = "drained", !.left = {}])
            /\ UNCHANGED maps
    /\ UNCHANGED <<dirs, counters, clashed, leftover, moves>>

\* The next of them leaves the maps, whether or not it is still there ...
DrainUnregisters(c, d) ==
    /\ call[c].pc = "drain" /\ d \in call[c].left
    /\ Unregister(d)
    /\ Become(c, [call[c] EXCEPT !.pc = "evacuate", !.db = d,
                                 !.since = @ \ {d}])
    /\ UNCHANGED <<dirs, counters, clashed, leftover, moves>>

\* ... and then its directory.
DrainRemoves(c) ==
    /\ call[c].pc = "evacuate"
    /\ RemoveAll(call[c].db)
    /\ Become(c, [call[c] EXCEPT !.pc = "drain", !.left = @ \ {call[c].db},
                                 !.moved = @ + 1])
    /\ UNCHANGED <<maps, counters, moves>>

\* The answer, with the number of databases moved.
DrainAnswers(c) ==
    /\ call[c].pc = "drain" /\ call[c].left = {}
    /\ Become(c, [call[c] EXCEPT !.pc = "drained"])
    /\ UNCHANGED <<maps, dirs, counters, clashed, leftover, moves>>

DrainEnds(c) ==
    /\ call[c].pc = "drained"
    /\ Become(c, FreeCall)
    /\ UNCHANGED <<maps, dirs, counters, clashed, leftover, moves>>

-----------------------------------------------------------------------------
(* The process *)

\* POST /debug/inject-failure, with one counter or both.
InjectFailure(attempts, hang) ==
    /\ moves < MaxMoves /\ moves' = moves + 1
    /\ failAttempts' \in {attempts, failAttempts}
    /\ hangAttempts' \in {hang, hangAttempts}
    /\ UNCHANGED <<maps, dirs, call, clashed, leftover>>

\* NewServer, after the process was stopped: everything but the disk is new.
AgentRestarts ==
    /\ moves < MaxMoves /\ moves' = moves + 1
    /\ dbsByName' = [n \in DbName |-> NoDb] /\ dbsByID' = [d \in DbId |-> NoDb]
    /\ failAttempts' = 0 /\ hangAttempts' = 0
    /\ call' = [c \in Call |-> FreeCall]
    /\ clashed' = {} /\ leftover' = dirs
    /\ UNCHANGED dirs

AgentInit ==
    /\ dbsByName = [n \in DbName |-> NoDb] /\ dbsByID = [d \in DbId |-> NoDb]
    /\ dirs = {} /\ clashed = {} /\ leftover = {}
    /\ failAttempts = 0 /\ hangAttempts = 0 /\ moves = 0
    /\ call = [c \in Call |-> FreeCall]

AgentNext ==
    \/ \E c \in Call, n \in DbName, d \in DbId : CreateArrives(c, n, d)
    \/ \E c \in Call : \/ CreateFails(c) \/ CreateTriesHang(c)
                       \/ CreateHangs(c) \/ CreateRefused(c)
                       \/ CreateRegisters(c)
                       \/ DeleteRemoves(c)
                       \/ DrainBegins(c) \/ DrainRemoves(c)
                       \/ DrainAnswers(c) \/ DrainEnds(c)
    \/ \E c \in Call, d \in DbId :
          DeleteUnregisters(c, d) \/ DrainUnregisters(c, d)
    \/ \E attempts, hang \in 0..MaxInject : InjectFailure(attempts, hang)
    \/ AgentRestarts

AgentSpec == AgentInit /\ [][AgentNext]_agentVars

-----------------------------------------------------------------------------
(* Properties *)

\* The types of the agent's state; concurrent creations may take an injected
\* failure twice, so that the counters go below zero, but never by more than
\* the callers there are.
AgentTypeOK ==
    /\ dbsByName \in [DbName -> DbId \cup {NoDb}]
    /\ dbsByID \in [DbId -> DbName \cup {NoDb}]
    /\ dirs \subseteq DbId
    /\ failAttempts \in -Cardinality(Call)..MaxInject
    /\ hangAttempts \in -Cardinality(Call)..MaxInject

\* Every name leads to one id and back, whatever creations, deletions and
\* drains interleave: no name is held by a database that is gone, and no two
\* databases share one (server.go, CreateDatabase, DeleteDatabase, DrainNode).
MapsInverse ==
    /\ \A n \in DbName : dbsByName[n] # NoDb => dbsByID[dbsByName[n]] = n
    /\ \A d \in DbId : dbsByID[d] # NoDb => dbsByName[dbsByID[d]] = d

\* The disk follows the maps, whichever handlers run beside each other without
\* the mutex: a registered database has its directory, unless it was created
\* while a removal of the same id was under way, which takes the new directory
\* (clashed); and a directory belongs to a registered database or to one whose
\* removal is under way, unless a restart or a failed os.RemoveAll left it
\* (server.go:104, 141, 178).
DirsMatch ==
    \A d \in DbId :
        /\ Registered(d) => d \in dirs \cup clashed
        /\ d \in dirs => Registered(d) \/ Removing(d) \/ d \in leftover

\* A drain that has answered has emptied the agent of what it found: only what
\* was created again during the drain is left (server.go, DrainNode).
DrainEmpties ==
    \A c \in Call : call[c].pc = "drained" =>
        \A d \in call[c].ids \ call[c].since : ~ Registered(d)
=============================================================================
