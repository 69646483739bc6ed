------------------------------ MODULE RiskEngine ------------------------------
(***************************************************************************)
(* The decision pipeline of engine/domain.py: the loss budget of an        *)
(* account, the position size it buys on the broker's volume grid, the     *)
(* final veto and the provider checks, as operators without state.         *)
(*                                                                         *)
(* Decimals are modelled by integers.  Money is counted in the smallest    *)
(* unit that occurs, lots in units of the finest volume step, and a policy *)
(* fraction f is the integer f * Scale.  A budget is therefore counted in  *)
(* 1/Scale of a unit of money, and no quotient of the code is rounded here *)
(* that the code does not round: the only division of PositionSizer whose  *)
(* rounding matters is the floor onto the volume grid.                     *)
(***************************************************************************)
EXTENDS Integers

CONSTANTS
    Policy,     \* the Policy dataclass, fractions as integers over Scale
    Scale       \* the denominator of every policy fraction

Fraction == 1 .. Scale

(***************************************************************************)
(* What Policy.validate enforces: fractions in (0, 1], the three capped    *)
(* ones no looser than the shipped defaults, one position per account and  *)
(* a margin level of at least 500 percent.                                 *)
(***************************************************************************)
ValidPolicy ==
    /\ Policy \in [risk_fraction : Fraction,
                   daily_fraction : Fraction,
                   weekly_fraction : Fraction,
                   provider_daily_fraction : Fraction,
                   provider_weekly_fraction : Fraction,
                   max_cost_fraction : Fraction,
                   max_margin_fraction : Fraction,
                   provider_allocation_fraction : Fraction,
                   max_positions : {1},
                   min_margin_level : Nat,
                   max_active_providers : Nat \ {0},
                   provider_circuit_breaker_losses : Nat \ {0}]
    /\ 1000 * Policy.risk_fraction <= 5 * Scale
    /\ 1000 * Policy.daily_fraction <= 20 * Scale
    /\ 1000 * Policy.weekly_fraction <= 40 * Scale
    /\ Policy.min_margin_level >= 500

ASSUME ScaleAssumption == Scale \in Nat \ {0}

ASSUME PolicyAssumption == ValidPolicy

Lesser(x, y) == IF x <= y THEN x ELSE y

(***************************************************************************)
(* An offer is what a signal, its broker and its market quote amount to    *)
(* for sizing: the loss per lot at the stop that PositionSizer assumes     *)
(* (stop distance plus every cost), the cost and margin per lot, the       *)
(* broker's grid, and the net result per lot that close_position computes  *)
(* at either exit.  The realised loss is never above the assumed one: the  *)
(* sizer converts a yen quote at the lower of entry and stop, the close at *)
(* the exit price, and both charge the same cost.                          *)
(***************************************************************************)
Exits == {"stop", "target"}

IsOffer(o) ==
    /\ o \in [unit_loss : Nat \ {0}, cost : Nat, margin : Nat,
              minimum : Nat \ {0}, maximum : Nat, increment : Nat \ {0},
              net : [Exits -> Int]]
    /\ o.minimum <= o.maximum
    /\ \A exit \in Exits : -o.unit_loss <= o.net[exit]

-----------------------------------------------------------------------------
(***************************************************************************)
(* RiskManager.budget.  An account view v is the accounts row as refresh   *)
(* has just rewritten it, with the losses and the open exposure it         *)
(* recomputed; v.profile is the equity PROFILES names for the account.     *)
(***************************************************************************)
\* A variant that leaves the configured profile out of the basis.
BaselineOfEquity(v) == v.equity

Baseline(v) == Lesser(v.equity, v.profile)

\* What is left of a cap: the loss booked and the risk reserved are taken off.
Remainder(v, fraction, loss) ==
    Baseline(v) * fraction - Scale * (loss + v.reserved_risk)

DailyRemainder(v) == Remainder(v, Policy.daily_fraction, v.daily_loss)

WeeklyRemainder(v) == Remainder(v, Policy.weekly_fraction, v.weekly_loss)

\* A variant that forgets the provider's daily cap.
ProviderRemainderOfTheWeek(v) ==
    Remainder(v, Policy.provider_weekly_fraction, v.provider_weekly_loss)

\* The provider caps are enforced per account: the losses are those the
\* provider's signals made in this account.
ProviderRemainder(v) ==
    Lesser(Remainder(v, Policy.provider_daily_fraction, v.provider_daily_loss),
           Remainder(v, Policy.provider_weekly_fraction, v.provider_weekly_loss))

Budget(v) ==
    Lesser(Baseline(v) * Policy.risk_fraction,
           Lesser(Lesser(DailyRemainder(v), WeeklyRemainder(v)),
                  ProviderRemainder(v)))

-----------------------------------------------------------------------------
(***************************************************************************)
(* PositionSizer.calculate: zero when the budget does not buy the minimum  *)
(* lot, otherwise the minimum plus a whole number of increments, rounded   *)
(* down, and never above the maximum lot.                                  *)
(***************************************************************************)
ScaledLoss(o, lots) == lots * o.unit_loss * Scale

\* A variant that rounds to the nearest increment instead of down.
IncrementsToNearest(o, budget) ==
    LET step == o.increment * o.unit_loss * Scale
    IN  IF budget >= ScaledLoss(o, o.maximum)
        THEN (o.maximum - o.minimum) \div o.increment
        ELSE (2 * (budget - ScaledLoss(o, o.minimum)) + step) \div (2 * step)

IncrementsBought(o, budget) ==
    IF budget >= ScaledLoss(o, o.maximum)
    THEN (o.maximum - o.minimum) \div o.increment
    ELSE (budget - ScaledLoss(o, o.minimum)) \div (o.increment * o.unit_loss * Scale)
PositionSize(o, budget) ==
    IF budget < ScaledLoss(o, o.minimum)
    THEN 0
    ELSE o.minimum + IncrementsBought(o, budget) * o.increment

\* The volumes the broker accepts, and the none of a refused candidate.
LotGrid(o) ==
    {0} \cup {lots \in o.minimum .. o.maximum : (lots - o.minimum) % o.increment = 0}

(***************************************************************************)
(* What the sizing is for: the largest volume the broker accepts whose     *)
(* assumed loss is within the budget, so the rounding neither overspends   *)
(* the budget nor leaves a whole increment of it unused.                   *)
(***************************************************************************)
Affordable(o, budget) == {lots \in LotGrid(o) : ScaledLoss(o, lots) <= budget}

IsLargestAffordable(lots, o, budget) ==
    /\ lots \in Affordable(o, budget)
    /\ \A other \in Affordable(o, budget) : other <= lots

-----------------------------------------------------------------------------
\* The reason, as a set, when the condition raises it.
When(condition, reason) == {r \in {reason} : condition}

(***************************************************************************)
(* RiskManager.veto, in three parts: the stops and the position limit, the *)
(* sized volume against the budget, and the margin.  The comparison of the *)
(* two remainders with zero is repeated by the code although a positive    *)
(* budget rules both out.                                                  *)
(***************************************************************************)
\* A variant that counts open positions one too late.
PositionLimitOffByOne(v) == v.open_positions > Policy.max_positions

PositionLimit(v) == v.open_positions >= Policy.max_positions

StopVeto(v) ==
    When(v.status # "ACTIVE", "ACCOUNT_SUSPENDED")
        \cup When(DailyRemainder(v) <= 0, "DAILY_LOSS_STOP")
        \cup When(WeeklyRemainder(v) <= 0, "WEEKLY_LOSS_STOP")
        \cup When(PositionLimit(v), "MAX_OPEN_POSITIONS")

SizeVeto(o, lots, budget) ==
    When(lots < o.minimum, "BELOW_BROKER_MINIMUM")
        \cup When(ScaledLoss(o, lots) > budget \/ budget <= 0, "RISK_BUDGET_EXCEEDED")
        \cup When(lots * o.cost * Scale * Scale > budget * Policy.max_cost_fraction,
                  "TRANSACTION_COST_VETO")

\* A variant that compares the margin with the free margin only.
MarginVetoFreeOnly(v, o, lots) ==
    When(lots * o.margin > v.free_margin, "MARGIN_UNSAFE")

MarginVeto(v, o, lots) ==
    LET margin == lots * o.margin
        used == v.used_margin + margin
        stressed == v.equity - lots * o.unit_loss - v.reserved_risk
    IN  When(\/ used * Scale > v.equity * Policy.max_margin_fraction
             \/ margin > v.free_margin, "MARGIN_UNSAFE")
            \cup When(margin * Scale > v.equity * Policy.provider_allocation_fraction,
                      "PROVIDER_ALLOCATION_LIMIT")
            \cup When(used # 0 /\ stressed * 100 < used * Policy.min_margin_level,
                      "MARGIN_LEVEL_UNSAFE")

\* RiskManager's stage of DecisionEngine.evaluate, for a budget and the volume it buys.
RiskReasons(v, o) ==
    LET budget == Budget(v)
        lots == PositionSize(o, budget)
    IN  IF budget <= 0
        THEN When(DailyRemainder(v) <= 0, "DAILY_LOSS_STOP")
               \cup When(WeeklyRemainder(v) <= 0, "WEEKLY_LOSS_STOP")
               \cup {"RISK_BUDGET_EXHAUSTED"}
        ELSE StopVeto(v) \cup SizeVeto(o, lots, budget) \cup MarginVeto(v, o, lots)

-----------------------------------------------------------------------------
(***************************************************************************)
(* ProviderScoringService.validate.  A provider's research metrics matter  *)
(* through the reasons they raise: "good" none; "thin" too few trades or   *)
(* days; "unreliable" a low or missing metric other than the drawdown;     *)
(* "flagged" a forbidden behaviour, or a drawdown at its breaker or        *)
(* unknown.  A missing providers row is the record ABSENT.                 *)
(***************************************************************************)
Qualities == {"good", "thin", "unreliable", "flagged"}

ABSENT == [status |-> "ABSENT", verified |-> FALSE, live |-> "UNKNOWN",
           quality |-> "unreliable", consecutive_losses |-> 0]

ProviderReasons(p) ==
    When(p.status # "ACTIVE" \/ ~p.verified, "PROVIDER_UNAVAILABLE_OR_SUSPENDED")
        \cup When(p.live \notin {"LIVE", "SYNTHETIC"}, "PROVIDER_HISTORY_NOT_LIVE")
        \cup When(p.quality = "flagged", "PROVIDER_FORBIDDEN_BEHAVIOR")
        \cup When(p.quality = "unreliable", "PROVIDER_DATA_UNRELIABLE")
        \cup When(p.quality = "thin", "PROVIDER_SAMPLE_TOO_SMALL")
        \cup When(p.consecutive_losses >= Policy.provider_circuit_breaker_losses,
                  "PROVIDER_LOSS_BREAKER")

\* The reasons for which Application.evaluate suspends the provider.
SuspendingReasons ==
    {"PROVIDER_FORBIDDEN_BEHAVIOR", "PROVIDER_LOSS_BREAKER", "PROVIDER_DATA_UNRELIABLE"}

(***************************************************************************)
(* DecisionEngine.evaluate.  The risk stage runs only when no earlier      *)
(* stage objects, and the evidence score only when there is a budget.  The *)
(* candidate's fault stands for what the stages read from the request:     *)
(* "unsound" for a broker, signal or market check that fails, "weak" for   *)
(* an evidence score below the minimum.                                    *)
(***************************************************************************)
EngineReasons(v, p, o, fault) ==
    LET early == When(v.status # "ACTIVE", "ACCOUNT_SUSPENDED")
                   \cup ProviderReasons(p)
                   \cup When(fault = "unsound", "SIGNAL_BROKER_OR_MARKET_UNSOUND")
    IN  IF v.equity < 0
        THEN {"INVALID_OR_INCOMPLETE_DATA"}
        ELSE IF early # {}
             THEN early
             ELSE RiskReasons(v, o)
                    \cup When(fault = "weak" /\ Budget(v) > 0, "INSUFFICIENT_EVIDENCE")
=============================================================================
