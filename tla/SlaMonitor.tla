----------------------------- MODULE SlaMonitor -----------------------------
(***************************************************************************)
(* The SLA monitor: RecordEvent collects requests and outages, and         *)
(* GetSLAReport computes availability, latency percentiles and the mean    *)
(* time to recover over a window that ends now.  Every call holds the      *)
(* monitor's lock, so calls are steps; several reporters send events, and  *)
(* an outage may be announced more than once or resolved without a start.  *)
(*                                                                         *)
(* Records commute in a report, so they are counted per time, outcome and  *)
(* latency instead of listed, and one step records a burst of alike ones.  *)
(***************************************************************************)
EXTENDS Integers, Sequences, Sums

CONSTANTS
    Latency,           \* latencies in ms that requests carry, 0 for none
    Burst,             \* how many alike requests are recorded in a row
    MaxBursts,         \* bound: bursts in a behaviour
    MaxOutages,        \* bound: outages in a behaviour
    MaxMinutes         \* bound: minutes in a behaviour

ASSUME SlaConstants == Latency \subseteq Nat /\ Burst \subseteq Nat \ {0}

VARIABLES
    minute,            \* the clock
    records,           \* Monitor.records, as sets of equal ones with a count
    outages,           \* Monitor.outages
    activeOutageAt,    \* when the current outage started; -1 for nil
    downMinutes        \* minutes that passed while an outage was known

slaVars == <<minute, records, outages, activeOutageAt, downMinutes>>

DefaultWindow == 60

SlaInit ==
    /\ minute = 0
    /\ records = <<>> /\ outages = <<>>
    /\ activeOutageAt = -1
    /\ downMinutes = 0

-----------------------------------------------------------------------------
(* RecordEvent *)

\* request_success and request_failure, `times' in a row.
RecordRequests(success, latency, times) ==
    /\ Len(records) < MaxBursts
    /\ records' = Append(records, [at |-> minute, success |-> success,
                                   latency |-> latency, times |-> times])
    /\ UNCHANGED <<minute, outages, activeOutageAt, downMinutes>>

\* Mutant: a second start moves the time of the first.
OutageRestarts ==
    /\ activeOutageAt' = minute
    /\ UNCHANGED <<minute, records, outages, downMinutes>>

\* outage_start: ignored while an outage is active.
OutageStart ==
    /\ activeOutageAt' = IF activeOutageAt = -1 THEN minute ELSE activeOutageAt
    /\ UNCHANGED <<minute, records, outages, downMinutes>>

\* outage_resolved: ignored when there is none.
OutageResolved ==
    /\ activeOutageAt # -1 /\ Len(outages) < MaxOutages
    /\ outages' = Append(outages, [start |-> activeOutageAt, resolved |-> minute])
    /\ activeOutageAt' = -1
    /\ UNCHANGED <<minute, records, downMinutes>>

MinutePasses ==
    /\ minute < MaxMinutes
    /\ minute' = minute + 1
    /\ downMinutes' = downMinutes + (IF activeOutageAt # -1 THEN 1 ELSE 0)
    /\ UNCHANGED <<records, outages, activeOutageAt>>

SlaNext ==
    \/ \E success \in BOOLEAN, latency \in Latency, times \in Burst :
          RecordRequests(success, latency, times)
    \/ OutageStart \/ OutageResolved \/ MinutePasses

SlaSpec == SlaInit /\ [][SlaNext]_slaVars

-----------------------------------------------------------------------------
(* GetSLAReport *)

ReportWindow(w) == IF w <= 0 THEN DefaultWindow ELSE w

\* The requests in the window that satisfy P.
Count(w, P(_)) ==
    Total([i \in 1..Len(records) |->
             IF records[i].at > minute - w /\ P(records[i]) THEN records[i].times ELSE 0])

TotalRequests(w) == Count(w, LAMBDA r : TRUE)

FailedRequests(w) == Count(w, LAMBDA r : ~ r.success)

\* Requests without a latency are left out of the percentiles.
LatencyCount(w) == Count(w, LAMBDA r : r.latency > 0)

\* The latency at a 0-based index of the sorted latencies.
LatencyAt(w, index) ==
    CHOOSE l \in Latency \ {0} :
        /\ Count(w, LAMBDA r : r.latency > 0 /\ r.latency < l) <= index
        /\ Count(w, LAMBDA r : r.latency > 0 /\ r.latency <= l) > index

\* int(n * pct), kept inside the slice.
PercentileIndex(n, pct) ==
    IF (n * pct) \div 100 >= n THEN n - 1 ELSE (n * pct) \div 100

Percentile(w, pct) ==
    IF LatencyCount(w) = 0 THEN 0
    ELSE LatencyAt(w, PercentileIndex(LatencyCount(w), pct))

\* availPct >= 99.9, without the division; no request at all counts as met.
SloMet(w) == 1000 * FailedRequests(w) <= TotalRequests(w)

\* Whether an outage was resolved in the window, wherever it began.
ResolvedIn(w, o) == o.resolved > minute - w

RecoveryTime(o) == o.resolved - o.start

\* The outages that were resolved in the window, and what they took together.
ResolvedCount(w) ==
    Total([i \in 1..Len(outages) |-> IF ResolvedIn(w, outages[i]) THEN 1 ELSE 0])

ResolvedTime(w) ==
    Total([i \in 1..Len(outages) |->
             IF ResolvedIn(w, outages[i]) THEN RecoveryTime(outages[i]) ELSE 0])

MeanTimeToRecover(w) ==
    IF ResolvedCount(w) = 0 THEN 0 ELSE ResolvedTime(w) \div ResolvedCount(w)

GetSLAReport(w0) ==
    LET w == ReportWindow(w0) IN
    [total |-> TotalRequests(w), failed |-> FailedRequests(w),
     p95 |-> Percentile(w, 95), p99 |-> Percentile(w, 99),
     mttr |-> MeanTimeToRecover(w), sloMet |-> SloMet(w)]

-----------------------------------------------------------------------------
(* Properties *)

Windows == {0} \cup 1..MaxMinutes + 1

\* At least 95% (99%) of the latencies in a report's window are within its p95
\* (p99), and p95 is no more than p99: for one request as for many, and as
\* requests leave the window (monitor.go, GetSLAReport).
PercentilesCover ==
    \A w0 \in Windows :
      LET w == ReportWindow(w0)
          rep == GetSLAReport(w0)
          within(l) == Count(w, LAMBDA r : r.latency > 0 /\ r.latency <= l)
      IN /\ 100 * within(rep.p95) >= 95 * LatencyCount(w)
         /\ 100 * within(rep.p99) >= 99 * LatencyCount(w)
         /\ rep.p95 <= rep.p99

\* Over all time the outages, the current one included, account for every
\* minute of downtime once, in whatever order reporters announce and resolve
\* them (monitor.go, RecordEvent).
DowntimeAccounted ==
    Total([i \in 1..Len(outages) |-> RecoveryTime(outages[i])])
      + (IF activeOutageAt = -1 THEN 0 ELSE minute - activeOutageAt)
        = downMinutes

\* A report whose window ends with the resolution of an outage counts all of
\* it, also what lies before the window: a long outage is not hidden by a
\* short window (monitor.go, GetSLAReport, o.ResolvedTime.After(cutoff)).
LongOutageCounted ==
    \A i \in 1..Len(outages), w \in 1..MaxMinutes :
        (outages[i].resolved > minute - w /\ Len(outages) = 1)
            => GetSLAReport(w).mttr = RecoveryTime(outages[i])

\* What a report says is what happened: no downtime is lost or counted twice,
\* no outage is hidden by a window, and the percentiles cover their share of
\* the requests (monitor.go, RecordEvent, GetSLAReport).
ReportsTrue == DowntimeAccounted /\ LongOutageCounted /\ PercentilesCover
=============================================================================
