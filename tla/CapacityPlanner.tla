-------------------------- MODULE CapacityPlanner ---------------------------
(***************************************************************************)
(* The capacity planner: PredictCapacity fits a line through the samples   *)
(* of the node count by least squares and reads it off at the horizon.     *)
(*                                                                         *)
(* Times are whole days.  The code computes with floats; here slope and    *)
(* intercept are fractions over one common denominator, so the equations   *)
(* are exact.  Samples need not be sorted or have distinct times: x is     *)
(* counted from the first sample and may be negative.                      *)
(***************************************************************************)
EXTENDS Integers, Sequences, Sums

CONSTANTS
    SampleDay,         \* days that samples are taken on
    SampleValue,       \* values of samples
    MaxSamples,        \* bound: samples in the history
    HorizonDays        \* values of horizon_days in requests

ASSUME PlannerConstants ==
    SampleDay \subseteq Int /\ SampleValue \subseteq Nat /\ HorizonDays \subseteq Int

VARIABLES
    historicalData     \* Planner.historicalData

plannerVars == <<historicalData>>

Sample == [day : SampleDay, value : SampleValue]

\* The data set that stands in for fewer than two samples: 4.0, 4.2, ... 5.2
\* on seven days, here as fifths of a node.
SyntheticFifths == [i \in 1..7 |-> [day |-> i - 7, value |-> 19 + i]]

-----------------------------------------------------------------------------
(* calculateLinearRegression *)

SumOver(data, f(_)) == Total([i \in 1..Len(data) |-> f(data[i])])

X(data, s) == s.day - data[1].day

SumX(data) == SumOver(data, LAMBDA s : X(data, s))

SumY(data) == SumOver(data, LAMBDA s : s.value)

SumXY(data) == SumOver(data, LAMBDA s : X(data, s) * s.value)

SumXX(data) == SumOver(data, LAMBDA s : X(data, s) * X(data, s))

Denom(data) == Len(data) * SumXX(data) - SumX(data) * SumX(data)

\* Mutant: no special case for samples that share one day.
RegressionNaive(data) ==
    LET n == Len(data)
        rise == n * SumXY(data) - SumX(data) * SumY(data)
    IN [slope |-> n * rise, intercept |-> SumY(data) * Denom(data) - rise * SumX(data),
        over |-> n * Denom(data)]

\* Slope and intercept are slope/over and intercept/over.
calculateLinearRegression(data) ==
    LET n == Len(data)
        d == Denom(data)
        rise == n * SumXY(data) - SumX(data) * SumY(data)
    IN IF d = 0
       THEN [slope |-> 0, intercept |-> SumY(data), over |-> n]
       ELSE [slope |-> n * rise, intercept |-> SumY(data) * d - rise * SumX(data),
             over |-> n * d]

-----------------------------------------------------------------------------
(* PredictCapacity *)

Horizon(days) == IF days <= 0 THEN 7 ELSE days

Ceil(p, q) == - ((- p) \div q)

\* `unit' values make a node: 1 for real samples, 5 for the synthetic ones.
Projection(data, unit, days) ==
    LET line == calculateLinearRegression(data)
        last == data[Len(data)]
        current == Ceil(last.value, unit)
        at == line.slope * (last.day + days - data[1].day) + line.intercept
        over == unit * line.over
    IN [current |-> current, horizon |-> days,
        projected |-> IF at < current * over THEN current ELSE Ceil(at, over)]

\* The answer to a request; nothing is remembered.
PredictCapacity(days) ==
    IF Len(historicalData) < 2
    THEN Projection(SyntheticFifths, 5, Horizon(days))
    ELSE Projection(historicalData, 1, Horizon(days))

SetHistoricalData(data) == historicalData' = data

PlannerInit == historicalData = <<>>

PlannerNext ==
    \E n \in 0..MaxSamples : \E data \in [1..n -> Sample] : SetHistoricalData(data)

PlannerSpec == PlannerInit /\ [][PlannerNext]_plannerVars

-----------------------------------------------------------------------------
(* Properties *)

\* The line is the least-squares line, whatever the order and the spacing of
\* the samples, all on one day included: its residuals sum to zero, also when
\* weighted with the days (planner.go, calculateLinearRegression).
LeastSquares ==
    historicalData # <<>> =>
      LET line == calculateLinearRegression(historicalData)
          residual(s) == line.over * s.value
                           - (line.slope * X(historicalData, s) + line.intercept)
      IN /\ line.over > 0
         /\ SumOver(historicalData, residual) = 0
         /\ SumOver(historicalData, LAMBDA s : X(historicalData, s) * residual(s)) = 0

\* Where two or more days' samples lie on a line that does not fall, the plan
\* continues it: at the horizon there are as many nodes more as the line says,
\* in whatever order the samples were taken (planner.go, PredictCapacity).
LineContinued ==
    \A growth \in 0..6, days \in HorizonDays :
      LET last == historicalData[Len(historicalData)]
          onLine == \A i \in 1..Len(historicalData) :
                      historicalData[i].value - last.value
                        = growth * (historicalData[i].day - last.day)
      IN (Len(historicalData) >= 2 /\ Denom(historicalData) # 0 /\ onLine) =>
            PredictCapacity(days).projected = last.value + growth * Horizon(days)

\* The plan follows the data: the line is the best one through the samples,
\* and the projection stays on it (planner.go, calculateLinearRegression,
\* PredictCapacity).
PlanSound == LeastSquares /\ LineContinued
=============================================================================
