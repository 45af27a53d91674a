------------------------------ MODULE Gateway -------------------------------
(***************************************************************************)
(* The API gateway (services/gateway): its routes and the roles they ask   *)
(* for, the creation of a database in the nearest live region, and the     *)
(* insertion and search of vectors at the worker the registry names.       *)
(*                                                                         *)
(* A handler is a sequence of steps, cut where it calls another service;   *)
(* between the steps nodes change, databases get, change and lose their    *)
(* endpoint, and workers restart with empty memory.  A call may fail, and  *)
(* may have had its effect when it does.  Limits and tokens are Access's;  *)
(* what a worker stores is VectorStore's, here only which vectors it has.  *)
(***************************************************************************)
EXTENDS Regions, Roles

CONSTANTS
    Client,        \* requests in flight at one time
    EdgeNode,      \* the nodes: a sequence of records without status
    EdgeStatus,    \* the statuses a node may have
    EdgeHint,      \* preferredRegion of clients
    EdgeWorker,    \* the workers' addresses
    EdgeDb,        \* the ids the registry can give to databases
    EdgeVec,       \* the ids of vectors
    MaxRequests    \* bound: requests in a behaviour

VARIABLES
    edgeNodes,     \* the status of each node in the registry
    rows,          \* the endpoint of each registered database
    memory,        \* the vectors in each worker's memory, as <<db, vec>>
    req,           \* what each client's request is doing
    sent,          \* requests begun so far
    tally,         \* creates answered 202, creates answered 500, rows made
    acked          \* <<db, vec>> inserts acknowledged by db's endpoint that
                   \* neither moved nor restarted since the insert began

edgeVars == <<edgeNodes, rows, memory, req, sent, tally, acked>>

NoRow == "no row"            \* an id not given yet
Gone == "gone"               \* deleted; ids are not given again
Unset == ""                  \* no endpoint yet
WorkersService == "service"  \* the address of the workers' service
DefaultDb == "default"

\* An endpoint is an address of its own, none of the above.
ASSUME GatewayConstants == EdgeWorker \cap {NoRow, Gone, Unset, WorkersService} = {}

Routes == [createDatabase |-> "operator", getDatabase |-> "read-only",
           listDatabases |-> "read-only", deleteDatabase |-> "operator",
           listRegions |-> "read-only",   insertVector |-> "operator",
           searchVector |-> "read-only",
           deployRolling |-> "admin",     deployCanary |-> "admin",
           deployBlueGreen |-> "admin",   rollback |-> "admin",
           drainNode |-> "admin",         capacity |-> "read-only",
           sla |-> "read-only"]

\* These answer without a call and change nothing, whatever is asked.
FixedAnswer == [deployRolling |-> 202, deployCanary |-> 202,
                deployBlueGreen |-> 202, rollback |-> 200, drainNode |-> 200,
                capacity |-> 200, sla |-> 200]

Placed(d) == rows[d] \notin {NoRow, Gone, Unset}

InRegistry(d) == rows[d] \notin {NoRow, Gone}

Answer(code) == [at |-> "answered", code |-> code]

Free(c) == req[c].at = "answered"

EdgeInit ==
    /\ edgeNodes = [i \in 1..Len(EdgeNode) |-> "healthy"]
    /\ rows = [d \in EdgeDb |-> NoRow]
    /\ memory = [w \in EdgeWorker |-> {}]
    /\ req = [c \in Client |-> Answer(0)]
    /\ sent = 0
    /\ tally = [accepted |-> 0, failed |-> 0, made |-> 0]
    /\ acked = {}

-----------------------------------------------------------------------------
(* Requests *)

\* A request of this client begins; presented is the role of its token, ""
\* for a request without a valid one.
Begins(c, presented, route) ==
    /\ Free(c) /\ sent < MaxRequests
    /\ sent' = sent + 1
    /\ presented \in Role /\ RoleSatisfies(presented, Routes[route])

Refuse(c, presented, route) ==
    /\ Free(c) /\ sent < MaxRequests
    /\ ~ RoleSatisfies(presented, Routes[route])
    /\ sent' = sent + 1
    /\ req' = [req EXCEPT ![c] = Answer(IF presented \in Role THEN 403 ELSE 401)]
    /\ UNCHANGED <<edgeNodes, rows, memory, tally, acked>>

Reports(c, presented, route) ==
    /\ Begins(c, presented, route)
    /\ req' = [req EXCEPT ![c] = Answer(FixedAnswer[route])]
    /\ UNCHANGED <<edgeNodes, rows, memory, tally, acked>>

\* GET /v1/databases, /v1/regions and /v1/nodes answer with the registry's
\* rows.  Without them regions are all down, the other two are errors; the
\* nodes are shown to anyone.
ListDatabases(c, presented) ==
    /\ Begins(c, presented, "listDatabases")
    /\ \E code \in {200, 500} : req' = [req EXCEPT ![c] = Answer(code)]
    /\ UNCHANGED <<edgeNodes, rows, memory, tally, acked>>

ListRegions(c, presented) ==
    /\ Begins(c, presented, "listRegions")
    /\ req' = [req EXCEPT ![c] = Answer(200)]
    /\ UNCHANGED <<edgeNodes, rows, memory, tally, acked>>

ListNodes(c) ==
    /\ Free(c) /\ sent < MaxRequests
    /\ sent' = sent + 1
    /\ \E code \in {200, 500} : req' = [req EXCEPT ![c] = Answer(code)]
    /\ UNCHANGED <<edgeNodes, rows, memory, tally, acked>>

EdgeFleet == [i \in 1..Len(EdgeNode) |-> EdgeNode[i] @@ [status |-> edgeNodes[i]]]

\* The region a create takes a node to be in, guessed from its cluster and its
\* host, and the region GET /v1/regions reports it in: the registry's.
NamedRegion(n) == resolveNodeRegion(n.cluster, n.host)

ReportedRegion(n) == IF n.region # "" THEN n.region ELSE NamedRegion(n)

HealthBy(nodes, where(_)) ==
    RegionHealth([i \in 1..Len(nodes) |->
        [region |-> where(nodes[i]), status |-> nodes[i].status]])

\* handleCreateDatabase: the nodes are read (none when the call fails), the
\* region is chosen, and the answer is 400, 503, or the record is asked for.
\* wasDown: GET /v1/regions would have shown the preferred region down.
CreateDatabase(c, presented, named, hint) ==
    /\ Begins(c, presented, "createDatabase")
    /\ \E nodes \in {EdgeFleet, <<>>} :
         LET r == SelectRegion(hint, HealthBy(nodes, NamedRegion))
             shown == HealthBy(EdgeFleet, ReportedRegion)
         IN req' = [req EXCEPT ![c] =
              IF ~ named THEN Answer(400)
              ELSE IF r = NoRoute THEN Answer(503)
              ELSE [at |-> "record", route |-> r,
                    wasDown |-> ~ Live(shown[Home(r.preferred)])]]
    /\ UNCHANGED <<edgeNodes, rows, memory, tally, acked>>

\* Mutant: a call that got no answer is made again.
RegisterRecordTwice(c) ==
    /\ req[c].at = "record"
    /\ \E d \in EdgeDb, told \in BOOLEAN :
         /\ rows[d] = NoRow
         /\ rows' = [rows EXCEPT ![d] = Unset]
         /\ req' = [req EXCEPT ![c] = IF told THEN Answer(202) ELSE @]
         /\ tally' = [tally EXCEPT !.made = @ + 1,
                       !.accepted = IF told THEN @ + 1 ELSE @]
    /\ UNCHANGED <<edgeNodes, memory, sent, acked>>

\* CreateDatabaseRecord: a row with no endpoint.  The error may be the
\* registry's or a lost answer.
RegisterRecord(c) ==
    /\ req[c].at = "record"
    /\ \/ \E d \in EdgeDb, told \in BOOLEAN :
            /\ rows[d] = NoRow
            /\ rows' = [rows EXCEPT ![d] = Unset]
            /\ req' = [req EXCEPT ![c] = Answer(IF told THEN 202 ELSE 500)]
            /\ tally' = [made |-> tally.made + 1,
                          accepted |-> tally.accepted + (IF told THEN 1 ELSE 0),
                          failed |-> tally.failed + (IF told THEN 0 ELSE 1)]
       \/ /\ req' = [req EXCEPT ![c] = Answer(500)]
          /\ tally' = [tally EXCEPT !.failed = @ + 1]
          /\ UNCHANGED rows
    /\ UNCHANGED <<edgeNodes, memory, sent, acked>>

GetDatabase(c, presented, d) ==
    /\ Begins(c, presented, "getDatabase")
    /\ \E code \in {404} \cup (IF InRegistry(d) THEN {200} ELSE {}) :
         req' = [req EXCEPT ![c] = Answer(code)]
    /\ UNCHANGED <<edgeNodes, rows, memory, tally, acked>>

\* The row goes; an error may come after it went.
DeleteDatabase(c, presented, d) ==
    /\ Begins(c, presented, "deleteDatabase")
    /\ \/ /\ InRegistry(d)
          /\ rows' = [rows EXCEPT ![d] = Gone]
          /\ acked' = {a \in acked : a[1] # d}
          /\ \E code \in {200, 500} : req' = [req EXCEPT ![c] = Answer(code)]
       \/ /\ req' = [req EXCEPT ![c] = Answer(500)]
          /\ UNCHANGED <<rows, acked>>
    /\ UNCHANGED <<edgeNodes, memory, tally>>

-----------------------------------------------------------------------------
(* Vectors *)

\* Mutant: always the address of the service.
AddrService(d, found) == WorkersService

\* The endpoint the registry has for the database, or the service's address,
\* which is any worker's: for "default", without an endpoint, and when
\* GetDatabase fails.
resolveWorkerNodeAddr(d, found) ==
    IF d # DefaultDb /\ found /\ Placed(d) THEN rows[d] ELSE WorkersService

Reached(addr) == IF addr = WorkersService THEN EdgeWorker ELSE {addr}

\* handleInsertVector and handleSearchVector until the worker is called.
\* settled: the registry named an endpoint and has not changed it since.
ResolveWorker(c, presented, route, d, v) ==
    /\ Begins(c, presented, route)
    /\ \E found \in BOOLEAN :
         req' = [req EXCEPT ![c] =
             [at |-> route, db |-> d, vec |-> v,
              addr |-> resolveWorkerNodeAddr(d, found),
              settled |-> found /\ d # DefaultDb /\ Placed(d),
              must |-> {a \in acked : a[1] = d}]]
    /\ UNCHANGED <<edgeNodes, rows, memory, tally, acked>>

\* An unreadable body, or an insert without an id.
BadVector(c, presented, route) ==
    /\ Begins(c, presented, route)
    /\ req' = [req EXCEPT ![c] = Answer(400)]
    /\ UNCHANGED <<edgeNodes, rows, memory, tally, acked>>

InsertVector(c) ==
    /\ req[c].at = "insertVector"
    /\ \/ \E w \in Reached(req[c].addr), told \in BOOLEAN :
            /\ memory' = [memory EXCEPT ![w] = @ \cup {<<req[c].db, req[c].vec>>}]
            /\ req' = [req EXCEPT ![c] = Answer(IF told THEN 200 ELSE 500)]
            /\ acked' = IF told /\ req[c].settled
                        THEN acked \cup {<<req[c].db, req[c].vec>>} ELSE acked
       \/ /\ req' = [req EXCEPT ![c] = Answer(500)]
          /\ UNCHANGED <<memory, acked>>
    /\ UNCHANGED <<edgeNodes, rows, sent, tally>>

\* The answer keeps what was found and what should have been.  topK is taken
\* to be no smaller than what the worker has, and there is no filter.
SearchVector(c) ==
    /\ req[c].at = "searchVector"
    /\ \/ \E w \in Reached(req[c].addr) :
            req' = [req EXCEPT ![c] =
                [at |-> "answered", code |-> 200,
                 results |-> {a \in memory[w] : a[1] = req[c].db},
                 must |-> IF req[c].settled THEN req[c].must ELSE {}]]
       \/ req' = [req EXCEPT ![c] = Answer(500)]
    /\ UNCHANGED <<edgeNodes, rows, memory, sent, tally, acked>>

-----------------------------------------------------------------------------
(* What happens around the gateway *)

NodeTurns(i, s) ==
    /\ edgeNodes[i] # s
    /\ edgeNodes' = [edgeNodes EXCEPT ![i] = s]
    /\ UNCHANGED <<rows, memory, req, sent, tally, acked>>

\* Requests under way that this hits lose the claim that nothing changed.
Unsettle(hit(_)) ==
    req' = [c \in Client |->
              IF req[c].at \in {"insertVector", "searchVector"} /\ hit(req[c])
              THEN [req[c] EXCEPT !.settled = FALSE] ELSE req[c]]

\* The control plane places a database, or moves it (without its vectors).
EndpointSet(d, w) ==
    /\ InRegistry(d) /\ rows[d] # w
    /\ rows' = [rows EXCEPT ![d] = w]
    /\ acked' = {a \in acked : a[1] # d}
    /\ Unsettle(LAMBDA r : r.db = d)
    /\ UNCHANGED <<edgeNodes, memory, sent, tally>>

WorkerRestarts(w) ==
    /\ memory[w] # {}
    /\ memory' = [memory EXCEPT ![w] = {}]
    /\ acked' = {a \in acked : rows[a[1]] # w}
    /\ Unsettle(LAMBDA r : r.addr = w)
    /\ UNCHANGED <<edgeNodes, rows, sent, tally>>

EdgeNext ==
    \/ \E c \in Client, p \in Role \cup {""} :
         \/ \E route \in DOMAIN Routes : Refuse(c, p, route)
         \/ \E route \in DOMAIN FixedAnswer : Reports(c, p, route)
         \/ ListDatabases(c, p) \/ ListRegions(c, p)
         \/ \E hint \in EdgeHint, named \in BOOLEAN : CreateDatabase(c, p, named, hint)
         \/ \E d \in EdgeDb : GetDatabase(c, p, d) \/ DeleteDatabase(c, p, d)
         \/ \E route \in {"insertVector", "searchVector"} :
              \/ \E d \in EdgeDb \cup {DefaultDb}, v \in EdgeVec :
                   ResolveWorker(c, p, route, d, v)
              \/ BadVector(c, p, route)
    \/ \E c \in Client : \/ ListNodes(c) \/ RegisterRecord(c)
                         \/ InsertVector(c) \/ SearchVector(c)
    \/ \E i \in 1..Len(EdgeNode), s \in EdgeStatus : NodeTurns(i, s)
    \/ \E d \in EdgeDb, w \in EdgeWorker : EndpointSet(d, w)
    \/ \E w \in EdgeWorker : WorkerRestarts(w)

EdgeSpec == EdgeInit /\ [][EdgeNext]_edgeVars

-----------------------------------------------------------------------------
(* Properties *)

\* Creates, retried by clients or answered with an error after they took
\* effect, never register more databases than they answer for: every row is a
\* 202's or, at most one each, a 500's (handleCreateDatabase calls once).
RowsAccounted ==
    /\ tally.accepted <= tally.made
    /\ tally.made <= tally.accepted + tally.failed

\* What an insert acknowledged (200) is found by every search of the same
\* database begun later, whatever runs beside them, as long as the registry
\* answered with the database's endpoint (resolveWorkerNodeAddr), and it
\* neither moved nor restarted since the insert began.
SearchComplete ==
    \A c \in Client :
        req[c].at = "answered" /\ "results" \in DOMAIN req[c]
        => req[c].must \subseteq req[c].results

\* What services/gateway/README.md:9 says: a create is rerouted only if its
\* preferred region is down, in the report of GET /v1/regions at that moment.
ReroutedOnlyWhenDown ==
    \A c \in Client :
        req[c].at = "record" /\ req[c].route.rerouted => req[c].wasDown
=============================================================================
