------------------------------- MODULE Evidence -------------------------------
(***************************************************************************)
(* What a candidate must show before engine/domain.py thinks of money: the *)
(* validators of signal, broker and market, and the evidence score.  It    *)
(* refines what RiskEngine calls the fault of a request.                   *)
(*                                                                         *)
(* A candidate gets worse: it loses one piece of evidence after the other, *)
(* or time passes, as it does between the preview of an alert and its      *)
(* evaluation.  Fractions are percents, spreads tenths of a pip, and the   *)
(* reward a percentage of three times the risk.                            *)
(***************************************************************************)
EXTENDS Integers, Sequences, FiniteSetsExt, Functions

CONSTANTS
    Shipped,        \* the defaults of the Policy dataclass
    Policies,       \* the policies a server may be started with
    Ladder,         \* Ladder[f]: the values of field f from good to bad
    Stamps,         \* the times at which a candidate's four stamps may lie
    MaxLosses,      \* how many rungs a candidate goes down at most
    Horizon,        \* the last moment of the clock
    UNKNOWN         \* missing, of another type, or out of range

\* Fields a score or a limit is computed from, and fields that are right or not.
Penalties == {"news_risk", "correlation", "volatility", "spread_pips"}

Merits == {"technical_score", "regime_score", "macro_score", "execution_quality",
           "data_quality", "reward_risk"}

Conditions == {"texts", "symbol", "prices", "broker_evidence", "broker_numbers", "costs",
               "quote_symbol", "session_open", "liquid", "edge_validated",
               "conflicting_signals", "quote"}

Fields == Penalties \cup Merits \cup Conditions

StampNames == {"timestamp", "expires_at", "market", "context"}

Weighted == Penalties \cup Merits

Percent == 0 .. 100

Limits == {"news_risk", "correlation", "volatility", "spread_pips", "execution_quality",
           "reward_risk"}

(***************************************************************************)
(* Policy.validate, for the limits of this module: 10 pips of spread at    *)
(* most, a reward of at least the risk, and evidence weights that sum to   *)
(* one.                                                                    *)
(***************************************************************************)
Validates(p) ==
    /\ p.limit \in [Limits -> Percent]
    /\ \A f \in Limits : p.limit[f] > 0
    /\ p.limit["reward_risk"] >= 33
    /\ p.min_score \in 1 .. 100
    /\ p.weight \in [Weighted -> Percent]
    /\ MapThenSumSet(LAMBDA f : p.weight[f], Merits) = 100
    /\ p.max_signal_age \in Nat \ {0} /\ p.max_market_age \in Nat \ {0}

\* Each rung of a ladder is as bad as the one before it, or worse.
Descends(f) ==
    \A i \in 1 .. Len(Ladder[f]) - 1 :
        LET from == Ladder[f][i]
            to == Ladder[f][i + 1]
        IN  IF f \in Conditions
            THEN /\ to = "right" => from = "right"
                 /\ to = "fixture" => from \in {"right", "fixture"}
            ELSE to # UNKNOWN =>
                    from # UNKNOWN /\ IF f \in Penalties THEN from <= to ELSE from >= to

ASSUME EvidenceAssumption ==
    /\ UNKNOWN \notin Int \cup {"right", "fixture"}
    /\ Shipped \in Policies
    /\ \A p \in Policies : Validates(p)
    /\ DOMAIN Ladder = Fields
    /\ \A f \in Weighted : Ladder[f] \in Seq(Percent \cup {UNKNOWN})
    /\ \A f \in Conditions : Ladder[f] \in Seq({"right", "fixture", "wrong", UNKNOWN})
    /\ \A f \in Fields : Ladder[f] # <<>> /\ Descends(f)
    /\ Stamps \subseteq Nat \cup {UNKNOWN}
    /\ MaxLosses \in Nat /\ Horizon \in Nat

VARIABLES
    policy,         \* the policy the server was started with
    rung,           \* rung[f]: where on its ladder field f is
    stamp,          \* the four times of the candidate, each in Stamps
    now             \* in 0 .. Horizon

evidenceVars == <<policy, rung, stamp, now>>

EvidenceInit ==
    /\ policy \in Policies
    /\ rung = [f \in Fields |-> 1]
    /\ stamp \in [StampNames -> Stamps]
    /\ now = 0

Value(f) == Ladder[f][rung[f]]

-----------------------------------------------------------------------------
\* fresh: neither older than allowed nor from the future.
Fresh(name, seconds) ==
    stamp[name] # UNKNOWN /\ now - stamp[name] \in 0 .. seconds

\* SignalValidationService.validate.
SignalSound(p) ==
    /\ Value("texts") = "right"
    /\ Value("symbol") = "right"
    /\ Fresh("timestamp", p.max_signal_age)
    /\ stamp["expires_at"] # UNKNOWN
    /\ stamp["expires_at"] > now /\ stamp["expires_at"] > stamp["timestamp"]
    /\ Value("prices") = "right"
    /\ Value("reward_risk") # UNKNOWN
    /\ Value("reward_risk") >= p.limit["reward_risk"]

\* BrokerResearchService.validate; a fixture is excused from the evidence, not the numbers.
BrokerSound ==
    /\ Value("broker_evidence") \in {"right", "fixture"}
    /\ Value("broker_numbers") = "right"

WithinLimits(p) ==
    /\ \A f \in Penalties : Value(f) # UNKNOWN /\ Value(f) <= p.limit[f]
    /\ Value("execution_quality") # UNKNOWN
    /\ Value("execution_quality") >= p.limit["execution_quality"]

\* A variant in which signals conflict only where the request says so.
ConditionsMetUnlessStated ==
    /\ \A f \in {"costs", "quote_symbol", "session_open", "liquid", "edge_validated", "quote"} :
          Value(f) = "right"
    /\ Value("conflicting_signals") # "wrong"

ConditionsMet ==
    \A f \in {"costs", "quote_symbol", "session_open", "liquid", "edge_validated", "quote",
              "conflicting_signals"} : Value(f) = "right"

\* ExecutionValidator.validate.
MarketSound(p) ==
    /\ Fresh("market", p.max_market_age)
    /\ Fresh("context", p.max_signal_age)
    /\ \A f \in {"technical_score", "regime_score", "macro_score"} : Value(f) # UNKNOWN
    /\ ConditionsMet
    /\ WithinLimits(p)

\* ProviderScoringService.validate, as far as the score uses it.
ProviderReliable == Value("data_quality") # UNKNOWN /\ Value("data_quality") >= 70

WeightedSum(p, fields) == SumFunction([f \in fields |-> p.weight[f] * Value(f)])

\* A variant in which the news speak for the candidate.
ScoreWithNews(p) ==
    WeightedSum(p, Merits \cup {"news_risk"}) - WeightedSum(p, Penalties \ {"news_risk"})

\* The score of DecisionEngine.evaluate, times 10000.
Score(p) == WeightedSum(p, Merits) - WeightedSum(p, Penalties)

(***************************************************************************)
(* The fault of RiskEngine: the score is computed, and can make a          *)
(* candidate weak, only where nothing else was found.                      *)
(***************************************************************************)
Fault(p) ==
    IF ~(SignalSound(p) /\ BrokerSound /\ ProviderReliable /\ MarketSound(p)) THEN "unsound"
    ELSE IF Score(p) < 100 * p.min_score THEN "weak"
    ELSE "none"

-----------------------------------------------------------------------------
Losses == MapThenSumSet(LAMBDA f : rung[f] - 1, Fields)

Worsen(f) ==
    /\ Losses < MaxLosses
    /\ rung[f] < Len(Ladder[f])
    /\ rung' = [rung EXCEPT ![f] = @ + 1]
    /\ UNCHANGED <<policy, stamp, now>>

Tick ==
    /\ now < Horizon
    /\ now' = now + 1
    /\ UNCHANGED <<policy, rung, stamp>>

EvidenceNext == (\E f \in Fields : Worsen(f)) \/ Tick

EvidenceSpec == EvidenceInit /\ [][EvidenceNext]_evidenceVars

-----------------------------------------------------------------------------
(***************************************************************************)
(* "Missing or stale timestamps, missing stops, invalid numbers, unknown   *)
(* ... symbols" are never traded (README.md, line 100): whatever is        *)
(* missing of a candidate, and however good the rest, it is unsound, and   *)
(* never merely weak.                                                      *)
(***************************************************************************)
FailClosed ==
    \/ \E f \in Fields : Value(f) = UNKNOWN
    \/ \E name \in StampNames : stamp[name] = UNKNOWN
    => Fault(policy) = "unsound"

Rank(fault) == CASE fault = "none" -> 2 [] fault = "weak" -> 1 [] fault = "unsound" -> 0

(***************************************************************************)
(* A candidate that loses evidence or grows older is judged no better:     *)
(* limits, penalties and merits all point the same way, so that what the   *)
(* preview of an alert refuses for its evidence is refused at its          *)
(* evaluation too, which "repeats every check" (service.py, lines 42 to    *)
(* 44).  A stamp that lies in the future is the exception: waiting makes   *)
(* it valid.                                                               *)
(***************************************************************************)
NoFuture == \A name \in StampNames \ {"expires_at"} : stamp[name] # UNKNOWN => stamp[name] <= now

NeverImproves ==
    [][NoFuture => Rank(Fault(policy)') <= Rank(Fault(policy))]_evidenceVars

(***************************************************************************)
(* "Configuration can tighten the conservative baseline, never silently    *)
(* loosen it" (domain.py, line 99): what a server accepts under a policy   *)
(* that validates it would have accepted under the defaults.               *)
(***************************************************************************)
ConfigurationOnlyTightens == Fault(policy) = "none" => Fault(Shipped) = "none"
=============================================================================
