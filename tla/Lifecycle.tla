----------------------------- MODULE Lifecycle ------------------------------
(***************************************************************************)
(* How the Go services start and stop: the main functions, and what        *)
(* metadata-service/db does for them.  A main takes its steps in order,    *)
(* most of which may fail; then it waits for a signal (or, in two of the   *)
(* services, for a server to fail) and stops its servers one by one.       *)
(* Calls arrive at the servers, run and end all the while.                 *)
(*                                                                         *)
(* Steps: "migrate" (RunMigrations), "pool" (Connect), "dial" (a client    *)
(* connection, which does not wait for its peer), "register" (the worker's *)
(* loop), "loop" (a background loop), "listen" (net.Listen), "http" and    *)
(* "grpc" (a server is started in a goroutine of its own).                 *)
(***************************************************************************)
EXTENDS Naturals, Sequences

CONSTANTS
    Started,           \* the services to look at
    MaxInFlight        \* bound: calls that one server has at a time

ServiceName == {"metadata", "scheduler", "controlPlane", "gateway", "auth", "worker",
                "deployment", "capacity", "sla"}

ASSUME LifecycleConstants == Started \subseteq ServiceName /\ MaxInFlight \in Nat \ {0}

VARIABLES
    service,           \* which service this process is
    step,              \* the next step of its main
    ready,             \* the steps whose effect is there: "pool", "http", ...
    inflight,          \* calls that each server is working on
    signalled,         \* a signal has come and is handled
    stopping,          \* the servers still to be stopped; <<>> before
    exit               \* "no", then "clean", "failed" or "killed"

lifecycleVars == <<service, step, ready, inflight, signalled, stopping, exit>>

Server == {"http", "grpc"}

\* The services whose RPC handlers wait for another process, the scheduler for
\* the metadata service and that one for Postgres, with the context of their
\* caller, which need not have a deadline.  The handlers of the others wait for
\* nobody (the deployed controller has no metadata client to call).
Waiting == {"scheduler", "metadata"}

-----------------------------------------------------------------------------
(* The main functions.  catches: the step from which on signals are handled; *)
(* fatal: the servers whose failure ends the process; stops: the servers it  *)
(* stops, in order.                                                          *)

MetadataMain ==
    [steps |-> <<"migrate", "pool", "loop", "listen", "http", "grpc">>, catches |-> 2,
     fatal |-> {"http", "grpc"}, stops |-> <<"http", "grpc">>]

SchedulerMain ==
    [steps |-> <<"http", "dial", "listen", "grpc">>, catches |-> 1,
     fatal |-> {"grpc"}, stops |-> <<"grpc">>]

ControlPlaneMain ==
    [steps |-> <<"dial", "dial", "loop", "http">>, catches |-> 1,
     fatal |-> {}, stops |-> <<"http">>]

GatewayMain ==
    [steps |-> <<"dial", "http">>, catches |-> 3, fatal |-> {}, stops |-> <<"http">>]

AuthMain ==
    [steps |-> <<"http">>, catches |-> 1, fatal |-> {}, stops |-> <<"http">>]

WorkerMain ==
    [steps |-> <<"dial", "register", "http", "listen", "grpc", "loop">>, catches |-> 1,
     fatal |-> {}, stops |-> <<"http", "grpc">>]

DeploymentMain ==
    [steps |-> <<"http", "listen", "grpc">>, catches |-> 1,
     fatal |-> {}, stops |-> <<"http", "grpc">>]

CapacityMain ==
    [steps |-> <<"http", "listen", "grpc">>, catches |-> 1,
     fatal |-> {}, stops |-> <<"http", "grpc">>]

SlaMain ==
    [steps |-> <<"http", "listen", "grpc">>, catches |-> 1,
     fatal |-> {}, stops |-> <<"http", "grpc">>]

Main ==
    [metadata |-> MetadataMain, scheduler |-> SchedulerMain,
     controlPlane |-> ControlPlaneMain, gateway |-> GatewayMain, auth |-> AuthMain,
     worker |-> WorkerMain, deployment |-> DeploymentMain,
     capacity |-> CapacityMain, sla |-> SlaMain]

LifecycleInit ==
    /\ service \in Started
    /\ step = 1
    /\ ready = {}
    /\ inflight = [s \in Server |-> 0]
    /\ signalled = FALSE
    /\ stopping = <<>>
    /\ exit = "no"

-----------------------------------------------------------------------------
(* Starting *)

Running == exit = "no"

Starting == Running /\ step <= Len(Main[service].steps)

Serving == Running /\ step > Len(Main[service].steps)

Now == Main[service].steps[step]

\* The next step succeeds.  After a signal the context is cancelled: the
\* pool's ping and the worker's registration can no longer succeed.
StepSucceeds ==
    /\ Starting
    /\ signalled => Now \notin {"pool", "register"}
    /\ ready' = ready \cup {Now}
    /\ step' = step + 1
    /\ UNCHANGED <<service, inflight, signalled, stopping, exit>>

\* RunMigrations, Connect, DialContext or net.Listen fails: os.Exit(1).  The
\* registration is repeated until it succeeds or a signal comes.
StepFails ==
    /\ Starting
    /\ Now \in {"migrate", "pool", "dial", "listen"} \/ (Now = "register" /\ signalled)
    /\ exit' = "failed"
    /\ UNCHANGED <<service, step, ready, inflight, signalled, stopping>>

\* ListenAndServe or Serve returns an error: the servers of `fatal' tell main,
\* which looks once it has taken all steps and until it stops; the others log
\* it, and the process goes on without them.
ServerFails(s) ==
    /\ Running /\ s \in ready
    /\ s \in Main[service].fatal => Serving
    /\ ready' = ready \ {s}
    /\ exit' = IF s \in Main[service].fatal /\ stopping = <<>> THEN "failed" ELSE exit
    /\ UNCHANGED <<service, step, inflight, signalled, stopping>>

-----------------------------------------------------------------------------
(* Calls *)

BeingStopped == IF stopping = <<>> THEN "none" ELSE Head(stopping)

\* Mutant: calls are still taken while the server waits for the others.
CallBeginsLate(s) ==
    /\ Running /\ s \in ready
    /\ inflight[s] < MaxInFlight
    /\ inflight' = [inflight EXCEPT ![s] = @ + 1]
    /\ UNCHANGED <<service, step, ready, signalled, stopping, exit>>

\* A server takes calls from when it serves until it is being stopped.
CallBegins(s) ==
    /\ Running /\ s \in ready
    /\ s # BeingStopped
    /\ inflight[s] < MaxInFlight
    /\ inflight' = [inflight EXCEPT ![s] = @ + 1]
    /\ UNCHANGED <<service, step, ready, signalled, stopping, exit>>

CallEnds(s) ==
    /\ Running /\ inflight[s] > 0
    /\ inflight' = [inflight EXCEPT ![s] = @ - 1]
    /\ UNCHANGED <<service, step, ready, signalled, stopping, exit>>

-----------------------------------------------------------------------------
(* Stopping *)

Signal ==
    /\ Running /\ ~ signalled
    /\ IF step >= Main[service].catches
       THEN signalled' = TRUE /\ UNCHANGED exit
       ELSE exit' = "killed" /\ UNCHANGED signalled
    /\ UNCHANGED <<service, step, ready, inflight, stopping>>

\* main sees ctx.Done() once it has come to its end.
StopBegins ==
    /\ Serving /\ signalled /\ stopping = <<>>
    /\ stopping' = Main[service].stops
    /\ UNCHANGED <<service, step, ready, inflight, signalled, exit>>

\* The last server has stopped: main returns, which closes pool and clients.
StoppedFirst ==
    /\ ready' = ready \ {Head(stopping)}
    /\ stopping' = Tail(stopping)
    /\ exit' = IF Tail(stopping) = <<>> THEN "clean" ELSE "no"

\* Shutdown and GracefulStop return when the server has no call left.
StopEnds ==
    /\ Running /\ stopping # <<>> /\ inflight[Head(stopping)] = 0
    /\ StoppedFirst
    /\ UNCHANGED <<service, step, inflight, signalled>>

\* Mutant: GracefulStop, too, is given up after a time.
StopTimesOutAll ==
    /\ Running /\ stopping # <<>> /\ inflight[Head(stopping)] > 0
    /\ inflight' = [inflight EXCEPT ![Head(stopping)] = 0]
    /\ StoppedFirst
    /\ UNCHANGED <<service, step, signalled>>

\* 2s, 3s or 5s are over before the HTTP requests are: they are cut off, by
\* Close or by the end of the process.  GracefulStop waits without a limit.
StopTimesOut ==
    /\ Running /\ BeingStopped = "http"
    /\ inflight["http"] > 0
    /\ inflight' = [inflight EXCEPT !["http"] = 0]
    /\ StoppedFirst
    /\ UNCHANGED <<service, step, signalled>>

LifecycleNext ==
    \/ StepSucceeds \/ StepFails \/ Signal \/ StopBegins \/ StopEnds \/ StopTimesOut
    \/ \E s \in Server : ServerFails(s) \/ CallBegins(s) \/ CallEnds(s)

LifecycleSpec == LifecycleInit /\ [][LifecycleNext]_lifecycleVars

\* What is owed.  Steps, once a signal has cancelled what they wait for: until
\* then Postgres or the metadata service may leave pool and registration waiting.
\* The steps of stopping.  The end of an RPC whose handler waits for nobody: one
\* of `Waiting' may hang, and so may an HTTP request.
LifecycleFairness ==
    /\ WF_lifecycleVars(signalled /\ (StepSucceeds \/ StepFails))
    /\ WF_lifecycleVars(StopBegins \/ StopEnds \/ StopTimesOut)
    /\ WF_lifecycleVars(service \notin Waiting /\ CallEnds("grpc"))

-----------------------------------------------------------------------------
(* Properties *)

\* A clean exit drops no RPC that was taken: GracefulStop comes before main
\* returns in every service with a gRPC server.
RpcsFinished == [][(exit = "no" /\ exit' = "clean") => inflight["grpc"] = 0]_lifecycleVars

\* GracefulStop waits for an RPC that waits for another process.
HeldUp == service \in Waiting /\ BeingStopped = "grpc" /\ inflight["grpc"] > 0

\* A service that handles a signal exits, also when the signal comes while it
\* starts or registers, however many calls arrive and whatever HTTP requests
\* hang (the mains' last part).  Nothing but a hanging RPC of the scheduler or
\* the metadata service keeps it from that: GracefulStop has no limit.
SignalStops == <>[](signalled => exit # "no" \/ HeldUp)
=============================================================================
