------------------------------- MODULE Analytics -------------------------------
(***************************************************************************)
(* PerformanceAnalyticsService.summarize and BacktestingService.run of     *)
(* engine/research.py: the report on a sequence of results, split at a     *)
(* date, and the request that supplies them as observations.  One step is  *)
(* one observation.  Rates of winning and their interval, which are        *)
(* floating-point numbers, are left out.                                   *)
(***************************************************************************)
EXTENDS Integers, Sequences, SequencesExt, Functions

CONSTANTS
    Profile,        \* PROFILES[profile]: the equity to begin with
    Split,          \* out_of_sample_start
    Times,          \* when an observation may be
    Gross, Costs,   \* what it may have earned and what its execution may have cost
    MaxTrades       \* the most observations a request may have, 10000 in the code

ASSUME AnalyticsAssumption ==
    /\ Profile \in Nat \ {0}
    /\ Split \in Nat /\ Times \subseteq Nat
    /\ Gross \subseteq Int /\ Costs \subseteq Nat
    /\ MaxTrades \in Nat \ {0}

VARIABLES
    observations,   \* trades of the payload: what was read so far
    in_sample, out_of_sample,   \* groups: the net results before the split, and from it
    curve,          \* all net results
    answer          \* "NONE", "REFUSED" or "SUMMARIZED"

reportVars == <<in_sample, out_of_sample, curve>>

analyticsVars == <<observations, reportVars, answer>>

Observations == [timestamp : Times, gross_pnl : Gross, cost : Costs]

AnalyticsTypeOK ==
    /\ observations \in Seq(Observations) /\ Len(observations) <= MaxTrades
    /\ {in_sample, out_of_sample, curve} \subseteq Seq(Int)
    /\ answer \in {"NONE", "REFUSED", "SUMMARIZED"}

AnalyticsInit ==
    /\ observations = <<>>
    /\ in_sample = <<>> /\ out_of_sample = <<>> /\ curve = <<>>
    /\ answer = "NONE"

-----------------------------------------------------------------------------
\* Fractions, which the code keeps as decimal numbers.
AtLeast(x, y) == x.num * y.den >= y.num * x.den

Larger(x, y) == IF AtLeast(x, y) THEN x ELSE y

Start == [equity |-> Profile, peak |-> Profile, max_drawdown |-> [num |-> 0, den |-> 1]]

\* A variant that measures the loss of the highest point on the money paid in.
AddedToProfile(s, pnl) ==
    LET equity == s.equity + pnl
        peak == IF equity > s.peak THEN equity ELSE s.peak
    IN  [equity |-> equity, peak |-> peak,
         max_drawdown |-> Larger(s.max_drawdown, [num |-> peak - equity, den |-> Profile])]

Added(s, pnl) ==
    LET equity == s.equity + pnl
        peak == IF equity > s.peak THEN equity ELSE s.peak
    IN  [equity |-> equity, peak |-> peak,
         max_drawdown |-> Larger(s.max_drawdown, [num |-> peak - equity, den |-> peak])]

\* PerformanceAnalyticsService.summarize.
Summary(pnls) ==
    LET after[k \in 0 .. Len(pnls)] == IF k = 0 THEN Start ELSE Added(after[k - 1], pnls[k])
    IN  after[Len(pnls)]

-----------------------------------------------------------------------------
\* A variant that takes observations in any order.
AnyOrder(when) == TRUE

Chronological(when) == observations # <<>> => Last(observations).timestamp <= when

Observe(t) ==
    /\ answer = "NONE" /\ Len(observations) < MaxTrades
    /\ Chronological(t.timestamp)
    /\ observations' = Append(observations, t)
    /\ LET net == t.gross_pnl - t.cost
       IN  /\ curve' = Append(curve, net)
           /\ IF t.timestamp >= Split
              THEN out_of_sample' = Append(out_of_sample, net) /\ UNCHANGED in_sample
              ELSE in_sample' = Append(in_sample, net) /\ UNCHANGED out_of_sample
    /\ UNCHANGED answer

\* InvalidData: an observation out of order, or a list that is too short or too long.
Refuse ==
    /\ answer = "NONE"
    /\ \/ \E t \in Observations : ~Chronological(t.timestamp)
       \/ observations = <<>>
       \/ Len(observations) = MaxTrades
    /\ answer' = "REFUSED"
    /\ UNCHANGED <<observations, reportVars>>

Summarize ==
    /\ answer = "NONE" /\ observations # <<>>
    /\ answer' = "SUMMARIZED"
    /\ UNCHANGED <<observations, reportVars>>

ObservationsNext == (\E t \in Observations : Observe(t)) \/ Refuse \/ Summarize

-----------------------------------------------------------------------------
Summarized == answer = "SUMMARIZED"

(***************************************************************************)
(* The two samples are the results before one instant and those after it,  *)
(* each in the order in which they came: no later result is judged in      *)
(* sample (research.py, lines 32 to 38 and 119).                           *)
(***************************************************************************)
SamplesAreConsecutive == Summarized => curve = in_sample \o out_of_sample

Equity(k) == Profile + SumFunction([j \in 1 .. k |-> curve[j]])

(***************************************************************************)
(* The drawdown is the largest: equity never fell by a larger share from   *)
(* one moment to a later one, as long as it was not negative, and by that  *)
(* share it did fall (summarize, research.py, lines 12 to 15).             *)
(***************************************************************************)
DrawdownIsLargest ==
    Summarized =>
        LET drawdown == Summary(curve).max_drawdown
            Fall(i, j) == [num |-> Equity(i) - Equity(j), den |-> Equity(i)]
        IN  /\ \A i \in 0 .. Len(curve) : \A j \in i .. Len(curve) :
                  Equity(i) > 0 /\ Equity(j) >= 0 => AtLeast(drawdown, Fall(i, j))
            /\ \E i \in 0 .. Len(curve) : \E j \in i .. Len(curve) :
                  Equity(i) > 0 /\ AtLeast(Fall(i, j), drawdown)
=============================================================================
