--------------------------- MODULE RiskEngineProofs ---------------------------
(***************************************************************************)
(* What the sizing and the budget guarantee for every policy, every offer  *)
(* and every budget; and sums over finite sets, which whoever hands the    *)
(* engine an account needs to say what has been lost so far.               *)
(***************************************************************************)
EXTENDS RiskEngine, Functions, FiniteSetTheorems, WellFoundedInduction, TLAPS

(***************************************************************************)
(* Arithmetic: a quotient times its divisor is the largest multiple of the *)
(* divisor below the dividend.                                             *)
(***************************************************************************)
LEMMA FloorIsLargest ==
    ASSUME NEW x \in Nat, NEW y \in Nat \ {0}
    PROVE  /\ x \div y \in Nat
           /\ (x \div y) * y <= x
           /\ x < (x \div y + 1) * y
  BY SMT

LEMMA ProductMonotone ==
    ASSUME NEW x \in Int, NEW y \in Int, NEW k \in Nat, x <= y
    PROVE  x * k <= y * k
  BY SMT

LEMMA ProductStrict ==
    ASSUME NEW x \in Int, NEW y \in Int, NEW k \in Nat \ {0}, x * k <= y * k
    PROVE  x <= y
  BY SMT

LEMMA ProductOfPositives ==
    ASSUME NEW x \in Nat \ {0}, NEW y \in Nat \ {0}
    PROVE  x * y \in Nat \ {0}
  BY SMT

LEMMA MultipleLeavesNoRest ==
    ASSUME NEW n \in Nat, NEW y \in Nat \ {0}
    PROVE  (n * y) % y = 0
  BY SMT

LEMMA NoRestIsMultiple ==
    ASSUME NEW x \in Nat, NEW y \in Nat \ {0}, x % y = 0
    PROVE  x = (x \div y) * y
  BY SMT

(***************************************************************************)
(* What IsOffer and the assumption on Scale say of the numbers below.      *)
(***************************************************************************)
LEMMA OfferNumbers ==
    ASSUME NEW o, IsOffer(o)
    PROVE  /\ o.unit_loss \in Nat \ {0}
           /\ o.minimum \in Nat \ {0}
           /\ o.maximum \in Nat
           /\ o.increment \in Nat \ {0}
           /\ o.minimum <= o.maximum
           /\ o.unit_loss * Scale \in Nat \ {0}
  <1>1. o.unit_loss \in Nat \ {0} /\ o.minimum \in Nat \ {0} /\ o.maximum \in Nat
          /\ o.increment \in Nat \ {0} /\ o.minimum <= o.maximum
    BY DEF IsOffer
  <1>2. o.unit_loss * Scale \in Nat \ {0}
    BY <1>1, ScaleAssumption, ProductOfPositives
  <1> QED
    BY <1>1, <1>2

\* The assumed loss is linear in the volume.
LEMMA LossIsLinear ==
    ASSUME NEW o, IsOffer(o), NEW lots \in Int
    PROVE  ScaledLoss(o, lots) = lots * (o.unit_loss * Scale)
  BY OfferNumbers, ScaleAssumption, SMT DEF ScaledLoss

\* A point of the grid other than zero is the minimum plus a multiple of the increment.
LEMMA GridPoint ==
    ASSUME NEW o, IsOffer(o), NEW lots \in LotGrid(o), lots # 0
    PROVE  \E m \in Nat : lots = o.minimum + m * o.increment
  <1>1. lots \in o.minimum .. o.maximum /\ (lots - o.minimum) % o.increment = 0
    BY DEF LotGrid
  <1>2. lots - o.minimum \in Nat
    BY <1>1, OfferNumbers, SMT
  <1>3. lots - o.minimum = ((lots - o.minimum) \div o.increment) * o.increment
    BY <1>1, <1>2, OfferNumbers, NoRestIsMultiple
  <1>4. (lots - o.minimum) \div o.increment \in Nat
    BY <1>2, OfferNumbers, FloorIsLargest
  <1>5. lots \in Int
    BY <1>1, OfferNumbers, SMT
  <1> WITNESS (lots - o.minimum) \div o.increment \in Nat
  <1> QED
    BY <1>3, <1>4, <1>5, OfferNumbers, SMT

\* Conversely, such a volume is on the grid unless it is above the maximum.
LEMMA OnTheGrid ==
    ASSUME NEW o, IsOffer(o), NEW n \in Nat, o.minimum + n * o.increment <= o.maximum
    PROVE  o.minimum + n * o.increment \in LotGrid(o)
  <1>1. n * o.increment \in Nat
    BY OfferNumbers, SMT
  <1>2. (n * o.increment) % o.increment = 0
    BY OfferNumbers, MultipleLeavesNoRest
  <1>3. (o.minimum + n * o.increment) - o.minimum = n * o.increment
    BY <1>1, OfferNumbers, SMT
  <1>4. o.minimum + n * o.increment \in o.minimum .. o.maximum
    BY <1>1, OfferNumbers, SMT
  <1> QED
    BY <1>2, <1>3, <1>4 DEF LotGrid

LEMMA GridType ==
    ASSUME NEW o, IsOffer(o)
    PROVE  LotGrid(o) \subseteq Nat
  BY OfferNumbers, SMT DEF LotGrid

-----------------------------------------------------------------------------
(***************************************************************************)
(* The number of increments bought is the largest one that stays within    *)
(* both the budget and the maximum lot, once the minimum lot is affordable.*)
(***************************************************************************)
LEMMA IncrementsAreLargest ==
    ASSUME NEW o, IsOffer(o), NEW budget \in Nat, budget >= ScaledLoss(o, o.minimum)
    PROVE  LET n == IncrementsBought(o, budget)
               Fit(m) == /\ o.minimum + m * o.increment <= o.maximum
                         /\ ScaledLoss(o, o.minimum + m * o.increment) <= budget
           IN  n \in Nat /\ Fit(n) /\ \A m \in Nat : Fit(m) => m <= n
  <1> DEFINE n == IncrementsBought(o, budget)
             U == o.unit_loss * Scale
             Fit(m) == /\ o.minimum + m * o.increment <= o.maximum
                       /\ ScaledLoss(o, o.minimum + m * o.increment) <= budget
  <1>1. /\ o.minimum \in Nat \ {0} /\ o.maximum \in Nat /\ o.increment \in Nat \ {0}
        /\ o.minimum <= o.maximum /\ U \in Nat \ {0}
    BY OfferNumbers
  <1>2. \A lots \in Int : ScaledLoss(o, lots) = lots * U
    BY LossIsLinear
  <1>3. CASE budget >= ScaledLoss(o, o.maximum)
    <2> DEFINE x == o.maximum - o.minimum
    <2>1. n = x \div o.increment
      BY <1>3 DEF IncrementsBought
    <2>2. x \in Nat
      BY <1>1, SMT
    <2> HIDE DEF x
    <2>3. n \in Nat /\ n * o.increment <= x /\ x < (n + 1) * o.increment
      BY <2>1, <2>2, <1>1, FloorIsLargest
    <2>4. o.minimum + n * o.increment <= o.maximum
      BY <2>3, <1>1, SMT DEF x
    <2>5. o.minimum + n * o.increment \in Int /\ o.maximum \in Int
      BY <2>3, <1>1, SMT
    <2>6. (o.minimum + n * o.increment) * U <= o.maximum * U
      BY <2>4, <2>5, <1>1, ProductMonotone
    <2>7. o.maximum * U <= budget
      BY <1>3, <1>2, <1>1, SMT
    <2>8. ScaledLoss(o, o.minimum + n * o.increment) <= budget
      BY <2>5, <2>6, <2>7, <1>1, <1>2, SMT
    <2>9. ASSUME NEW m \in Nat, Fit(m) PROVE m <= n
      <3>1. m * o.increment <= x
        BY <2>9, <1>1, SMT DEF x
      <3>2. SUFFICES ASSUME m >= n + 1 PROVE FALSE
        BY <2>3, SMT
      <3>3. (n + 1) * o.increment <= m * o.increment
        BY <3>2, <2>3, <1>1, ProductMonotone
      <3> QED
        BY <3>1, <3>3, <2>2, <2>3, <1>1, SMT
    <2> QED
      BY <2>3, <2>4, <2>8, <2>9
  <1>4. CASE ~(budget >= ScaledLoss(o, o.maximum))
    <2> DEFINE x == budget - ScaledLoss(o, o.minimum)
               y == o.increment * U
    <2>1. n = x \div y
      <3>1. o.increment * o.unit_loss * Scale = y
        BY OfferNumbers, ScaleAssumption, SMT
      <3> QED
        BY <3>1, <1>4 DEF IncrementsBought
    <2>2. x \in Nat /\ x = budget - o.minimum * U
      BY <1>1, <1>2, SMT
    <2>3. y \in Nat \ {0}
      BY <1>1, ProductOfPositives
    <2> HIDE DEF x, y
    <2>4. n \in Nat /\ n * y <= x /\ x < (n + 1) * y
      BY <2>1, <2>2, <2>3, FloorIsLargest
    <2>5. \A m \in Nat : /\ o.minimum + m * o.increment \in Int
                         /\ ScaledLoss(o, o.minimum + m * o.increment) = o.minimum * U + m * y
      <3>1. TAKE m \in Nat
      <3>2. o.minimum + m * o.increment \in Int
        BY <1>1, SMT
      <3>3. (o.minimum + m * o.increment) * U = o.minimum * U + m * (o.increment * U)
        BY <1>1, SMT
      <3> QED
        BY <3>2, <3>3, <1>2 DEF y
    <2>6. o.minimum * U \in Nat /\ n * y \in Nat
      BY <1>1, <2>3, <2>4, SMT
    <2>7. ScaledLoss(o, o.minimum + n * o.increment) <= budget
      BY <2>2, <2>4, <2>5, <2>6, SMT
    <2>8. o.minimum + n * o.increment <= o.maximum
      <3>1. (o.minimum + n * o.increment) * U <= o.maximum * U
        BY <2>4, <2>5, <2>7, <1>1, <1>2, <1>4, SMT
      <3> QED
        BY <3>1, <2>4, <2>5, <1>1, ProductStrict
    <2>9. ASSUME NEW m \in Nat, Fit(m) PROVE m <= n
      <3>1. m * y <= x
        <4>1. m * y \in Nat
          BY <2>3, SMT
        <4> QED
          BY <4>1, <2>9, <2>2, <2>5, <2>6, SMT
      <3>2. SUFFICES ASSUME m >= n + 1 PROVE FALSE
        BY <2>4, SMT
      <3>3. (n + 1) * y <= m * y
        BY <3>2, <2>3, <2>4, ProductMonotone
      <3> QED
        BY <3>1, <3>3, <2>2, <2>3, <2>4, SMT
    <2> QED
      BY <2>4, <2>7, <2>8, <2>9
  <1> QED
    BY <1>3, <1>4

(***************************************************************************)
(* PositionSizer.calculate: for every offer and every budget the size is   *)
(* the largest volume on the broker's grid, up to its maximum, whose       *)
(* assumed loss is within the budget, or none.                             *)
(***************************************************************************)
THEOREM SizeIsLargest ==
    ASSUME NEW o, IsOffer(o), NEW budget \in Nat
    PROVE  IsLargestAffordable(PositionSize(o, budget), o, budget)
  <1> DEFINE U == o.unit_loss * Scale
  <1>1. /\ o.minimum \in Nat \ {0} /\ o.maximum \in Nat /\ o.increment \in Nat \ {0}
        /\ U \in Nat \ {0}
    BY OfferNumbers
  <1>2. \A lots \in Int : ScaledLoss(o, lots) = lots * U
    BY LossIsLinear
  <1>3. CASE budget < ScaledLoss(o, o.minimum)
    <2>1. PositionSize(o, budget) = 0
      BY <1>3 DEF PositionSize
    <2>2. 0 \in Affordable(o, budget)
      BY <1>1, <1>2, SMT DEF Affordable, LotGrid
    <2>3. ASSUME NEW other \in Affordable(o, budget) PROVE other <= 0
      <3>1. SUFFICES ASSUME other # 0 PROVE FALSE
        BY SMT
      <3>2. other \in Nat /\ other >= o.minimum /\ ScaledLoss(o, other) <= budget
        BY <3>1, <1>1, SMT DEF Affordable, LotGrid
      <3>3. o.minimum * U <= other * U
        BY <3>2, <1>1, ProductMonotone
      <3> QED
        BY <3>2, <3>3, <1>1, <1>2, <1>3, SMT
    <2> QED
      BY <2>1, <2>2, <2>3 DEF IsLargestAffordable
  <1>4. CASE ~(budget < ScaledLoss(o, o.minimum))
    <2> DEFINE n == IncrementsBought(o, budget)
    <2>1. PositionSize(o, budget) = o.minimum + n * o.increment
      BY <1>4 DEF PositionSize
    <2>2. /\ n \in Nat
          /\ o.minimum + n * o.increment <= o.maximum
          /\ ScaledLoss(o, o.minimum + n * o.increment) <= budget
          /\ \A m \in Nat :
               /\ o.minimum + m * o.increment <= o.maximum
               /\ ScaledLoss(o, o.minimum + m * o.increment) <= budget
               => m <= n
      <3>1. ScaledLoss(o, o.minimum) \in Int
        BY <1>1, <1>2, SMT
      <3>2. budget >= ScaledLoss(o, o.minimum)
        BY <3>1, <1>4, SMT
      <3> QED
        BY <3>2, IncrementsAreLargest
    <2> HIDE DEF n
    <2>3. o.minimum + n * o.increment \in Affordable(o, budget)
      BY <2>2, OnTheGrid DEF Affordable
    <2>4. ASSUME NEW other \in Affordable(o, budget)
          PROVE  other <= o.minimum + n * o.increment
      <3>1. CASE other = 0
        BY <3>1, <2>2, <1>1, SMT
      <3>2. CASE other # 0
        <4>1. PICK m \in Nat : other = o.minimum + m * o.increment
          BY <3>2, GridPoint DEF Affordable
        <4>2. other <= o.maximum /\ ScaledLoss(o, other) <= budget
          BY <3>2, <1>1, SMT DEF Affordable, LotGrid
        <4>3. m <= n
          BY <4>1, <4>2, <2>2
        <4>4. m * o.increment <= n * o.increment
          BY <4>3, <2>2, <1>1, ProductMonotone
        <4> QED
          BY <4>1, <4>4, <2>2, <1>1, SMT
      <3> QED
        BY <3>1, <3>2
    <2> QED
      BY <2>1, <2>3, <2>4 DEF IsLargestAffordable
  <1> QED
    BY <1>3, <1>4

-----------------------------------------------------------------------------
\* What the ledger hands to the engine: the columns of an account as refresh fills them.
IsView(v) ==
    /\ v.equity \in Int
    /\ v.profile \in Nat
    /\ v.daily_loss \in Nat
    /\ v.weekly_loss \in Nat
    /\ v.provider_daily_loss \in Nat
    /\ v.provider_weekly_loss \in Nat
    /\ v.reserved_risk \in Nat
    /\ v.used_margin \in Nat
    /\ v.free_margin \in Nat
    /\ v.open_positions \in Nat

LEMMA WhenRaises == ASSUME NEW c \in BOOLEAN, NEW r PROVE (When(c, r) = {}) <=> ~c
  BY Zenon DEF When

LEMMA PolicyNumbers ==
    /\ Scale \in Nat \ {0}
    /\ Policy.risk_fraction \in Nat \ {0}
    /\ Policy.daily_fraction \in Nat \ {0}
    /\ Policy.weekly_fraction \in Nat \ {0}
    /\ Policy.provider_daily_fraction \in Nat \ {0}
    /\ Policy.provider_weekly_fraction \in Nat \ {0}
    /\ Policy.max_margin_fraction \in Nat \ {0}
    /\ Policy.provider_allocation_fraction \in Nat \ {0}
    /\ Policy.max_cost_fraction \in Nat \ {0}
    /\ Policy.min_margin_level \in Nat
    /\ Policy.max_active_providers \in Nat \ {0}
    /\ Policy.provider_circuit_breaker_losses \in Nat \ {0}
    /\ Policy.max_positions = 1
    /\ 1000 * Policy.risk_fraction <= 5 * Scale
  BY ScaleAssumption, PolicyAssumption DEF ValidPolicy, Fraction

\* What is left of every cap is an integer.
LEMMA RemaindersAreIntegers ==
    ASSUME NEW v, IsView(v)
    PROVE  /\ Baseline(v) \in Int
           /\ Baseline(v) <= v.equity
           /\ Baseline(v) * Policy.risk_fraction \in Int
           /\ DailyRemainder(v) \in Int
           /\ WeeklyRemainder(v) \in Int
           /\ Remainder(v, Policy.provider_daily_fraction, v.provider_daily_loss) \in Int
           /\ Remainder(v, Policy.provider_weekly_fraction, v.provider_weekly_loss) \in Int
  <1>1. Baseline(v) \in Int /\ Baseline(v) <= v.equity
    BY DEF IsView, Baseline, Lesser
  <1>2. ASSUME NEW f \in Nat, NEW loss \in Nat PROVE Remainder(v, f, loss) \in Int
    <2>1. Baseline(v) * f \in Int
      BY <1>1
    <2>2. Scale * (loss + v.reserved_risk) \in Int
      BY ScaleAssumption DEF IsView
    <2> QED
      BY <2>1, <2>2 DEF Remainder
  <1>3. Baseline(v) * Policy.risk_fraction \in Int
    BY <1>1, PolicyNumbers
  <1> QED
    BY <1>1, <1>2, <1>3, PolicyNumbers DEF IsView, DailyRemainder, WeeklyRemainder

(***************************************************************************)
(* RiskManager.budget is no more than the risk of one trade and no more    *)
(* than what is left of any of the four caps.                              *)
(***************************************************************************)
LEMMA BudgetIsLeast ==
    ASSUME NEW v, IsView(v)
    PROVE  /\ Budget(v) \in Int
           /\ Budget(v) <= Baseline(v) * Policy.risk_fraction
           /\ Budget(v) <= DailyRemainder(v)
           /\ Budget(v) <= WeeklyRemainder(v)
           /\ Budget(v) <= Remainder(v, Policy.provider_daily_fraction, v.provider_daily_loss)
           /\ Budget(v) <= Remainder(v, Policy.provider_weekly_fraction, v.provider_weekly_loss)
  <1> DEFINE risk == Baseline(v) * Policy.risk_fraction
             daily == DailyRemainder(v)
             weekly == WeeklyRemainder(v)
             pdaily == Remainder(v, Policy.provider_daily_fraction, v.provider_daily_loss)
             pweekly == Remainder(v, Policy.provider_weekly_fraction, v.provider_weekly_loss)
  <1>1. risk \in Int /\ daily \in Int /\ weekly \in Int /\ pdaily \in Int /\ pweekly \in Int
    BY RemaindersAreIntegers
  <1>2. Budget(v) = Lesser(risk, Lesser(Lesser(daily, weekly), Lesser(pdaily, pweekly)))
    BY DEF Budget, ProviderRemainder
  <1> HIDE DEF risk, daily, weekly, pdaily, pweekly
  <1>3. /\ Budget(v) \in Int
        /\ Budget(v) <= risk /\ Budget(v) <= daily /\ Budget(v) <= weekly
        /\ Budget(v) <= pdaily /\ Budget(v) <= pweekly
    BY <1>1, <1>2 DEF Lesser
  <1> QED
    BY <1>3 DEF risk, daily, weekly, pdaily, pweekly

(***************************************************************************)
(* DecisionEngine.evaluate raises no reason only if the account is active, *)
(* the provider passes, and the sized position fits the risk of one trade, *)
(* what is left of all four caps and the margin rules.                     *)
(***************************************************************************)
THEOREM ApprovalFitsEveryBudget ==
    ASSUME NEW v, IsView(v), NEW p, NEW o, IsOffer(o), NEW fault,
           EngineReasons(v, p, o, fault) = {}
    PROVE  LET lots == PositionSize(o, Budget(v))
               margin == lots * o.margin
           IN  /\ v.status = "ACTIVE"
               /\ ProviderReasons(p) = {}
               /\ v.open_positions = 0
               /\ Budget(v) > 0
               /\ lots \in LotGrid(o) /\ lots >= o.minimum
               /\ ScaledLoss(o, lots) <= Budget(v)
               /\ (v.used_margin + margin) * Scale <= v.equity * Policy.max_margin_fraction
               /\ margin * Scale <= v.equity * Policy.provider_allocation_fraction
               /\ v.used_margin + margin # 0 =>
                     (v.used_margin + margin) * Policy.min_margin_level
                       <= (v.equity - lots * o.unit_loss - v.reserved_risk) * 100
  <1> DEFINE budget == Budget(v)
             lots == PositionSize(o, budget)
             margin == lots * o.margin
             used == v.used_margin + margin
             stressed == v.equity - lots * o.unit_loss - v.reserved_risk
  <1>1. /\ v.status = "ACTIVE"
        /\ ProviderReasons(p) = {}
        /\ RiskReasons(v, o) = {}
    <2>1. ~ (v.equity < 0)
      BY DEF EngineReasons
    <2>2. When(v.status # "ACTIVE", "ACCOUNT_SUSPENDED") \cup ProviderReasons(p)
            \cup When(fault = "unsound", "SIGNAL_BROKER_OR_MARKET_UNSOUND") = {}
      BY <2>1, Zenon DEF EngineReasons
    <2>3. RiskReasons(v, o) = {}
      BY <2>1, <2>2, Zenon DEF EngineReasons
    <2>4. When(v.status # "ACTIVE", "ACCOUNT_SUSPENDED") = {}
      BY <2>2, Zenon
    <2> QED
      BY <2>2, <2>3, <2>4, WhenRaises
  <1>2. budget \in Int /\ budget > 0
    <2>1. budget \in Int
      BY BudgetIsLeast
    <2>2. ~ (budget <= 0)
      BY <1>1, Zenon DEF RiskReasons
    <2> QED
      BY <2>1, <2>2
  <1>3. StopVeto(v) = {} /\ SizeVeto(o, lots, budget) = {} /\ MarginVeto(v, o, lots) = {}
    <2>1. ~ (budget <= 0)
      BY <1>2
    <2> QED
      BY <1>1, <2>1, Zenon DEF RiskReasons
  <1>4. v.open_positions = 0
    <2>1. When(PositionLimit(v), "MAX_OPEN_POSITIONS") = {}
      BY <1>3, Zenon DEF StopVeto
    <2>2. ~ PositionLimit(v)
      BY <2>1, WhenRaises DEF PositionLimit
    <2> QED
      BY <2>2, PolicyNumbers DEF PositionLimit, IsView
  <1>5. lots \in LotGrid(o) /\ ScaledLoss(o, lots) <= budget
    <2>1. budget \in Nat
      BY <1>2
    <2>2. IsLargestAffordable(lots, o, budget)
      BY <2>1, SizeIsLargest
    <2> QED
      BY <2>2 DEF IsLargestAffordable, Affordable
  <1>6. lots \in Nat /\ o.unit_loss \in Nat /\ o.margin \in Nat /\ o.minimum \in Nat
    BY <1>5, GridType, OfferNumbers DEF IsOffer
  <1>7. lots >= o.minimum
    <2>1. When(lots < o.minimum, "BELOW_BROKER_MINIMUM") = {}
      BY <1>3, Zenon DEF SizeVeto
    <2>2. ~ (lots < o.minimum)
      BY <2>1, WhenRaises, Zenon
    <2> HIDE DEF lots
    <2> QED
      BY <1>6, <2>2
  <1> HIDE DEF lots
  <1>8. margin \in Nat /\ used \in Nat /\ stressed \in Int /\ lots * o.unit_loss \in Nat
    BY <1>6 DEF IsView
  <1>9. used * Scale <= v.equity * Policy.max_margin_fraction
    <2>1. When(\/ used * Scale > v.equity * Policy.max_margin_fraction
               \/ margin > v.free_margin, "MARGIN_UNSAFE") = {}
      BY <1>3, Zenon DEF MarginVeto
    <2>2. ~ (used * Scale > v.equity * Policy.max_margin_fraction)
      BY <2>1, WhenRaises
    <2>3. used * Scale \in Int /\ v.equity * Policy.max_margin_fraction \in Int
      BY <1>8, PolicyNumbers DEF IsView
    <2> QED
      BY <2>2, <2>3
  <1>10. margin * Scale <= v.equity * Policy.provider_allocation_fraction
    <2>1. When(margin * Scale > v.equity * Policy.provider_allocation_fraction,
               "PROVIDER_ALLOCATION_LIMIT") = {}
      BY <1>3, Zenon DEF MarginVeto
    <2>2. ~ (margin * Scale > v.equity * Policy.provider_allocation_fraction)
      BY <2>1, WhenRaises
    <2>3. margin * Scale \in Int /\ v.equity * Policy.provider_allocation_fraction \in Int
      BY <1>8, PolicyNumbers DEF IsView
    <2> QED
      BY <2>2, <2>3
  <1>11. used # 0 => used * Policy.min_margin_level <= stressed * 100
    <2>1. When(used # 0 /\ stressed * 100 < used * Policy.min_margin_level,
               "MARGIN_LEVEL_UNSAFE") = {}
      BY <1>3, Zenon DEF MarginVeto
    <2>2. ~ (used # 0 /\ stressed * 100 < used * Policy.min_margin_level)
      BY <2>1, WhenRaises
    <2>3. stressed * 100 \in Int /\ used * Policy.min_margin_level \in Int
      BY <1>8, PolicyNumbers
    <2>4. used # 0 => ~ (stressed * 100 < used * Policy.min_margin_level)
      BY <2>2, Zenon
    <2> HIDE DEF stressed, used
    <2> QED
      BY <2>3, <2>4
  <1> QED
    BY <1>1, <1>2, <1>4, <1>5, <1>7, <1>9, <1>10, <1>11 DEF lots

(***************************************************************************)
(* An engine that has no objection was shown a candidate without a fault:  *)
(* an evidence score too low is excused by nothing, although it is only    *)
(* computed where there is a budget.                                       *)
(***************************************************************************)
LEMMA FaultIsRefused ==
    ASSUME NEW v, NEW p, NEW o, NEW fault, EngineReasons(v, p, o, fault) = {}
    PROVE  fault # "unsound" /\ (Budget(v) > 0 => fault # "weak")
  <1>1. ~ (v.equity < 0)
    BY DEF EngineReasons
  <1>2. When(v.status # "ACTIVE", "ACCOUNT_SUSPENDED") \cup ProviderReasons(p)
          \cup When(fault = "unsound", "SIGNAL_BROKER_OR_MARKET_UNSOUND") = {}
    BY <1>1, Zenon DEF EngineReasons
  <1>3. When(fault = "unsound", "SIGNAL_BROKER_OR_MARKET_UNSOUND") = {}
    BY <1>2, Zenon
  <1>4. When(fault = "weak" /\ Budget(v) > 0, "INSUFFICIENT_EVIDENCE") = {}
    BY <1>1, <1>2, Zenon DEF EngineReasons
  <1>5. fault # "unsound"
    BY <1>3, Zenon DEF When
  <1>6. ~ (fault = "weak" /\ Budget(v) > 0)
    BY <1>4, Zenon DEF When
  <1> QED
    BY <1>5, <1>6

-----------------------------------------------------------------------------
(***************************************************************************)
(* w is an account that has lost more than v, over any day or week, holds  *)
(* no more equity and has no less risk open.                               *)
(***************************************************************************)
LostMore(v, w) ==
    /\ w.profile = v.profile
    /\ w.equity <= v.equity
    /\ w.daily_loss >= v.daily_loss /\ w.weekly_loss >= v.weekly_loss
    /\ w.provider_daily_loss >= v.provider_daily_loss
    /\ w.provider_weekly_loss >= v.provider_weekly_loss
    /\ w.reserved_risk >= v.reserved_risk

\* Less of a smaller baseline is left when more is lost of it.
LEMMA RemainderFalls ==
    ASSUME NEW v, IsView(v), NEW w, IsView(w), LostMore(v, w),
           NEW f \in Nat, NEW loss \in Nat, NEW more \in Nat, more >= loss
    PROVE  Remainder(w, f, more) <= Remainder(v, f, loss)
  <1>1. /\ Baseline(v) \in Int /\ Baseline(w) \in Int /\ Baseline(w) <= Baseline(v)
        /\ v.reserved_risk \in Nat /\ w.reserved_risk \in Nat
        /\ w.reserved_risk >= v.reserved_risk
    BY DEF IsView, LostMore, Baseline, Lesser
  <1>2. Baseline(w) * f <= Baseline(v) * f
    BY <1>1, ProductMonotone
  <1>3. (loss + v.reserved_risk) * Scale <= (more + w.reserved_risk) * Scale
    BY <1>1, ScaleAssumption, ProductMonotone
  <1>4. /\ Scale * (loss + v.reserved_risk) = (loss + v.reserved_risk) * Scale
        /\ Scale * (more + w.reserved_risk) = (more + w.reserved_risk) * Scale
        /\ (loss + v.reserved_risk) * Scale \in Int /\ (more + w.reserved_risk) * Scale \in Int
        /\ Baseline(w) * f \in Int /\ Baseline(v) * f \in Int
    BY <1>1, ScaleAssumption
  <1> QED
    BY <1>2, <1>3, <1>4 DEF Remainder

LEMMA BudgetFalls ==
    ASSUME NEW v, IsView(v), NEW w, IsView(w), LostMore(v, w)
    PROVE  Budget(w) <= Budget(v)
  <1> DEFINE risk(x) == Baseline(x) * Policy.risk_fraction
             daily(x) == Remainder(x, Policy.daily_fraction, x.daily_loss)
             weekly(x) == Remainder(x, Policy.weekly_fraction, x.weekly_loss)
             pdaily(x) == Remainder(x, Policy.provider_daily_fraction, x.provider_daily_loss)
             pweekly(x) == Remainder(x, Policy.provider_weekly_fraction, x.provider_weekly_loss)
  <1>1. /\ risk(v) \in Int /\ daily(v) \in Int /\ weekly(v) \in Int
        /\ pdaily(v) \in Int /\ pweekly(v) \in Int
        /\ risk(w) \in Int /\ daily(w) \in Int /\ weekly(w) \in Int
        /\ pdaily(w) \in Int /\ pweekly(w) \in Int
    BY RemaindersAreIntegers DEF DailyRemainder, WeeklyRemainder
  <1>2. risk(w) <= risk(v)
    <2>1. Baseline(v) \in Int /\ Baseline(w) \in Int /\ Baseline(w) <= Baseline(v)
      BY DEF IsView, LostMore, Baseline, Lesser
    <2> QED
      BY <2>1, PolicyNumbers, ProductMonotone
  <1>3. /\ daily(w) <= daily(v) /\ weekly(w) <= weekly(v)
        /\ pdaily(w) <= pdaily(v) /\ pweekly(w) <= pweekly(v)
    <2>1. /\ \A x \in {v, w} : /\ x.daily_loss \in Nat /\ x.weekly_loss \in Nat
                               /\ x.provider_daily_loss \in Nat
                               /\ x.provider_weekly_loss \in Nat
          /\ w.daily_loss >= v.daily_loss /\ w.weekly_loss >= v.weekly_loss
          /\ w.provider_daily_loss >= v.provider_daily_loss
          /\ w.provider_weekly_loss >= v.provider_weekly_loss
      BY DEF IsView, LostMore
    <2> QED
      BY <2>1, PolicyNumbers, RemainderFalls
  <1>4. /\ Budget(v) = Lesser(risk(v), Lesser(Lesser(daily(v), weekly(v)),
                                              Lesser(pdaily(v), pweekly(v))))
        /\ Budget(w) = Lesser(risk(w), Lesser(Lesser(daily(w), weekly(w)),
                                              Lesser(pdaily(w), pweekly(w))))
    BY DEF Budget, ProviderRemainder, DailyRemainder, WeeklyRemainder
  <1> HIDE DEF risk, daily, weekly, pdaily, pweekly
  <1> QED
    BY <1>1, <1>2, <1>3, <1>4 DEF Lesser

\* A larger budget buys no smaller a volume.
LEMMA SizeIsMonotone ==
    ASSUME NEW o, IsOffer(o), NEW b \in Int, NEW c \in Int, b <= c
    PROVE  PositionSize(o, b) <= PositionSize(o, c)
  <1>1. CASE b < 0
    <2>1. PositionSize(o, b) = 0
      <3>1. ScaledLoss(o, o.minimum) >= 0 /\ ScaledLoss(o, o.minimum) \in Int
        <4>1. o.minimum \in Nat /\ o.unit_loss \in Nat /\ Scale \in Nat
          BY OfferNumbers, ScaleAssumption DEF IsOffer
        <4> QED
          BY <4>1 DEF ScaledLoss
      <3> QED
        BY <1>1, <3>1 DEF PositionSize
    <2>2. PositionSize(o, c) \in Nat
      <3>1. CASE c < ScaledLoss(o, o.minimum)
        BY <3>1 DEF PositionSize
      <3>2. CASE c >= 0
        <4>1. PositionSize(o, c) \in LotGrid(o)
          BY <3>2, SizeIsLargest DEF IsLargestAffordable, Affordable
        <4> QED
          BY <4>1, GridType
      <3>3. ScaledLoss(o, o.minimum) >= 0 /\ ScaledLoss(o, o.minimum) \in Int
        <4>1. o.minimum \in Nat /\ o.unit_loss \in Nat /\ Scale \in Nat
          BY OfferNumbers, ScaleAssumption DEF IsOffer
        <4> QED
          BY <4>1 DEF ScaledLoss
      <3> QED
        BY <3>1, <3>2, <3>3
    <2> QED
      BY <2>1, <2>2
  <1>2. CASE b >= 0
    <2>1. b \in Nat /\ c \in Nat
      BY <1>2
    <2>2. /\ PositionSize(o, b) \in Affordable(o, b)
          /\ \A other \in Affordable(o, c) : other <= PositionSize(o, c)
      BY <2>1, SizeIsLargest DEF IsLargestAffordable
    <2>3. PositionSize(o, b) \in Affordable(o, c)
      <3> DEFINE lots == PositionSize(o, b)
      <3>1. lots \in LotGrid(o) /\ ScaledLoss(o, lots) <= b
        BY <2>2 DEF Affordable
      <3>2. ScaledLoss(o, lots) \in Int
        <4>1. lots \in Nat /\ o.unit_loss \in Nat /\ Scale \in Nat
          BY <3>1, GridType, OfferNumbers, ScaleAssumption
        <4> HIDE DEF lots
        <4> QED
          BY <4>1 DEF ScaledLoss
      <3> HIDE DEF lots
      <3> QED
        BY <3>1, <3>2 DEF Affordable, lots
    <2> QED
      BY <2>2, <2>3
  <1> QED
    BY <1>1, <1>2

(***************************************************************************)
(* "loss-recovery lot-size escalation" is a reason to refuse a provider    *)
(* (specs/requirements.txt, line 418), and the engine has none of its own: *)
(* whatever is lost, a later position on the same offer is no larger.      *)
(***************************************************************************)
THEOREM LossesNeverEnlarge ==
    ASSUME NEW v, IsView(v), NEW w, IsView(w), LostMore(v, w), NEW o, IsOffer(o)
    PROVE  PositionSize(o, Budget(w)) <= PositionSize(o, Budget(v))
  BY BudgetFalls, BudgetIsLeast, SizeIsMonotone

-----------------------------------------------------------------------------
(***************************************************************************)
(* Sums over finite sets.  SumFunctionOnSet of the community modules is a  *)
(* fold whose recursive function is given by CHOOSE; these lemmas show     *)
(* that it exists and satisfies its equation, and derive what its users    *)
(* need: the sum's type, the empty sum, one more summand, larger summands. *)
(* Induction is by a minimal counterexample among the finite subsets.      *)
(***************************************************************************)
\* The fold's recursion, as a predicate of the function g it defines on SUBSET S.
Picked(s) == CHOOSE x \in s : TRUE

IsPartialSum(g, f, S) ==
    g = [s \in SUBSET S |-> IF s = {} THEN 0 ELSE f[Picked(s)] + g[s \ {Picked(s)}]]

PartialSum(f, S) == CHOOSE g : IsPartialSum(g, f, S)

LEMMA SumIsPartialSum ==
    ASSUME NEW f, NEW S
    PROVE  SumFunctionOnSet(f, S) = PartialSum(f, S)[S]
  BY DEF SumFunctionOnSet, FoldFunctionOnSet, MapThenFoldSet, PartialSum, IsPartialSum, Picked

LEMMA PickedIsElement ==
    ASSUME NEW s, s # {}
    PROVE  Picked(s) \in s
  BY DEF Picked

(***************************************************************************)
(* Every non-empty set of finite subsets of a set has a minimal element.   *)
(***************************************************************************)
LEMMA MinimalSubset ==
    ASSUME NEW S, IsFiniteSet(S), NEW Bad \in SUBSET (SUBSET S), Bad # {}
    PROVE  \E s \in Bad : \A t \in Bad : t \subseteq s => t = s
  <1>1. Bad \subseteq FiniteSubsetsOf(S)
    BY FS_Subset DEF FiniteSubsetsOf
  <1>2. PICK s \in Bad : \A t \in Bad : ~ (<<t, s>> \in StrictSubsetOrdering(S))
    BY <1>1, FS_StrictSubsetOrderingWellFounded, WFMin
  <1> QED
    BY <1>2 DEF StrictSubsetOrdering

LEMMA PartialSumValue ==
    ASSUME NEW g, NEW f, NEW S, IsPartialSum(g, f, S), NEW s \in SUBSET S
    PROVE  g[s] = IF s = {} THEN 0 ELSE f[Picked(s)] + g[s \ {Picked(s)}]
  BY DEF IsPartialSum

\* Partial sums over two sets agree on the subsets of both.
LEMMA PartialSumsAgree ==
    ASSUME NEW f, NEW S, IsFiniteSet(S), NEW T \in SUBSET S,
           NEW g, IsPartialSum(g, f, S), NEW h, IsPartialSum(h, f, T)
    PROVE  \A s \in SUBSET T : g[s] = h[s]
  <1> DEFINE Bad == {s \in SUBSET T : g[s] # h[s]}
  <1>1. SUFFICES ASSUME Bad # {} PROVE FALSE
    OBVIOUS
  <1>2. Bad \in SUBSET (SUBSET S)
    OBVIOUS
  <1>3. PICK s \in Bad : \A t \in Bad : t \subseteq s => t = s
    <2> HIDE DEF Bad
    <2> QED
      BY <1>1, <1>2, MinimalSubset
  <1>4. s \in SUBSET T /\ s \in SUBSET S /\ g[s] # h[s]
    OBVIOUS
  <1>5. g[s] = IF s = {} THEN 0 ELSE f[Picked(s)] + g[s \ {Picked(s)}]
    BY <1>4, PartialSumValue
  <1>6. h[s] = IF s = {} THEN 0 ELSE f[Picked(s)] + h[s \ {Picked(s)}]
    BY <1>4, PartialSumValue
  <1>7. s # {}
    BY <1>4, <1>5, <1>6
  <1>8. s \ {Picked(s)} \subseteq s /\ s \ {Picked(s)} # s
    BY <1>7, PickedIsElement
  <1>9. g[s \ {Picked(s)}] = h[s \ {Picked(s)}]
    BY <1>3, <1>4, <1>8
  <1> QED
    BY <1>4, <1>5, <1>6, <1>9

\* The recursion has a solution over every finite set.
LEMMA PartialSumExists ==
    ASSUME NEW f, NEW S, IsFiniteSet(S)
    PROVE  IsPartialSum(PartialSum(f, S), f, S)
  <1> DEFINE Bad == {T \in SUBSET S : ~ \E g : IsPartialSum(g, f, T)}
  <1>1. SUFFICES Bad = {}
    BY DEF PartialSum
  <1>2. SUFFICES ASSUME Bad # {} PROVE FALSE
    OBVIOUS
  <1>3. PICK T \in Bad : \A U \in Bad : U \subseteq T => U = T
    <2>1. Bad \in SUBSET (SUBSET S)
      OBVIOUS
    <2> HIDE DEF Bad
    <2> QED
      BY <1>2, <2>1, MinimalSubset
  <1>4. T \in SUBSET S /\ ~ \E g : IsPartialSum(g, f, T)
    OBVIOUS
  <1>5. \A U \in SUBSET T : U # T => IsPartialSum(PartialSum(f, U), f, U)
    <2>1. \A U \in SUBSET T : U # T => \E g : IsPartialSum(g, f, U)
      BY <1>3, <1>4
    <2> QED
      BY <2>1 DEF PartialSum
  <1> DEFINE rest == T \ {Picked(T)}
             g == [s \in SUBSET T |->
                     IF s = T
                     THEN IF s = {} THEN 0 ELSE f[Picked(T)] + PartialSum(f, rest)[rest]
                     ELSE PartialSum(f, s)[s]]
  <1>6. ASSUME NEW s \in SUBSET T
        PROVE  g[s] = IF s = {} THEN 0 ELSE f[Picked(s)] + g[s \ {Picked(s)}]
    <2>1. CASE s = {}
      <3>1. CASE s = T
        BY <2>1, <3>1
      <3>2. CASE s # T
        <4>1. PartialSum(f, s)[s] = 0
          BY <1>5, <2>1, <3>2, PartialSumValue
        <4> QED
          BY <2>1, <3>2, <4>1
      <3> QED
        BY <3>1, <3>2
    <2>2. CASE s # {}
      <3> DEFINE less == s \ {Picked(s)}
      <3>1. less \in SUBSET T /\ less # T /\ less \subseteq s /\ less # s
        BY <2>2, PickedIsElement
      <3>2. g[less] = PartialSum(f, less)[less]
        BY <3>1
      <3>3. CASE s = T
        BY <2>2, <3>2, <3>3
      <3>4. CASE s # T
        <4>1. IsPartialSum(PartialSum(f, s), f, s)
          BY <1>5, <3>4
        <4>2. IsPartialSum(PartialSum(f, less), f, less)
          BY <1>5, <3>1
        <4>3. PartialSum(f, s)[s] = f[Picked(s)] + PartialSum(f, s)[less]
          BY <2>2, <4>1, PartialSumValue
        <4>4. IsFiniteSet(s)
          BY <1>4, FS_Subset
        <4>5. PartialSum(f, s)[less] = PartialSum(f, less)[less]
          BY <3>1, <4>1, <4>2, <4>4, PartialSumsAgree
        <4> QED
          BY <2>2, <3>2, <3>4, <4>3, <4>5
      <3> QED
        BY <3>3, <3>4
    <2> QED
      BY <2>1, <2>2
  <1>7. IsPartialSum(g, f, T)
    <2>1. g = [s \in SUBSET T |->
                 IF s = {} THEN 0 ELSE f[Picked(s)] + g[s \ {Picked(s)}]]
      <3>1. \A s \in SUBSET T :
               g[s] = IF s = {} THEN 0 ELSE f[Picked(s)] + g[s \ {Picked(s)}]
        BY <1>6
      <3>2. g = [s \in SUBSET T |-> g[s]]
        OBVIOUS
      <3> HIDE DEF g
      <3> QED
        BY <3>1, <3>2
    <2> HIDE DEF g
    <2> QED
      BY <2>1 DEF IsPartialSum
  <1> QED
    BY <1>4, <1>7

-----------------------------------------------------------------------------
\* The sum over a finite set is its picked element plus the sum over the rest.
LEMMA SumUnfold ==
    ASSUME NEW f, NEW S, IsFiniteSet(S)
    PROVE  SumFunctionOnSet(f, S) =
             IF S = {} THEN 0
             ELSE f[Picked(S)] + SumFunctionOnSet(f, S \ {Picked(S)})
  <1> DEFINE rest == S \ {Picked(S)}
  <1>1. IsFiniteSet(rest) /\ rest \in SUBSET S
    BY FS_Subset
  <1>2. IsPartialSum(PartialSum(f, S), f, S) /\ IsPartialSum(PartialSum(f, rest), f, rest)
    BY <1>1, PartialSumExists
  <1>3. PartialSum(f, S)[rest] = PartialSum(f, rest)[rest]
    BY <1>1, <1>2, PartialSumsAgree
  <1>4. PartialSum(f, S)[S] = IF S = {} THEN 0 ELSE f[Picked(S)] + PartialSum(f, S)[rest]
    BY <1>2, PartialSumValue
  <1> QED
    BY <1>3, <1>4, SumIsPartialSum

LEMMA SumEmpty == ASSUME NEW f PROVE SumFunctionOnSet(f, {}) = 0
  BY SumUnfold, FS_EmptySet

\* A sum of integers is an integer.
LEMMA SumType ==
    ASSUME NEW D, NEW f \in [D -> Int], NEW S \in SUBSET D, IsFiniteSet(S)
    PROVE  SumFunctionOnSet(f, S) \in Int
  <1> DEFINE Bad == {s \in SUBSET S : SumFunctionOnSet(f, s) \notin Int}
  <1>1. SUFFICES ASSUME Bad # {} PROVE FALSE
    OBVIOUS
  <1>2. PICK s \in Bad : \A t \in Bad : t \subseteq s => t = s
    <2>1. Bad \in SUBSET (SUBSET S)
      OBVIOUS
    <2> HIDE DEF Bad
    <2> QED
      BY <1>1, <2>1, MinimalSubset
  <1>3. IsFiniteSet(s) /\ s \in SUBSET S /\ SumFunctionOnSet(f, s) \notin Int
    BY FS_Subset
  <1>4. SumFunctionOnSet(f, s) =
          IF s = {} THEN 0 ELSE f[Picked(s)] + SumFunctionOnSet(f, s \ {Picked(s)})
    BY <1>3, SumUnfold
  <1>5. CASE s = {}
    BY <1>3, <1>4, <1>5
  <1>6. CASE s # {}
    <2>1. Picked(s) \in s
      BY <1>6, PickedIsElement
    <2>2. SumFunctionOnSet(f, s \ {Picked(s)}) \in Int
      BY <1>2, <1>3, <2>1
    <2>3. f[Picked(s)] \in Int
      BY <1>3, <2>1
    <2> QED
      BY <1>3, <1>4, <1>6, <2>2, <2>3
  <1> QED
    BY <1>5, <1>6

\* A sum of natural numbers is a natural number.
LEMMA SumOfNaturals ==
    ASSUME NEW D, NEW f \in [D -> Nat], NEW S \in SUBSET D, IsFiniteSet(S)
    PROVE  SumFunctionOnSet(f, S) \in Nat
  <1> DEFINE Bad == {s \in SUBSET S : SumFunctionOnSet(f, s) \notin Nat}
  <1>1. SUFFICES ASSUME Bad # {} PROVE FALSE
    OBVIOUS
  <1>2. PICK s \in Bad : \A t \in Bad : t \subseteq s => t = s
    <2>1. Bad \in SUBSET (SUBSET S)
      OBVIOUS
    <2> HIDE DEF Bad
    <2> QED
      BY <1>1, <2>1, MinimalSubset
  <1>3. IsFiniteSet(s) /\ s \in SUBSET S /\ SumFunctionOnSet(f, s) \notin Nat
    BY FS_Subset
  <1>4. SumFunctionOnSet(f, s) =
          IF s = {} THEN 0 ELSE f[Picked(s)] + SumFunctionOnSet(f, s \ {Picked(s)})
    BY <1>3, SumUnfold
  <1>5. CASE s = {}
    BY <1>3, <1>4, <1>5
  <1>6. CASE s # {}
    <2>1. Picked(s) \in s
      BY <1>6, PickedIsElement
    <2>2. SumFunctionOnSet(f, s \ {Picked(s)}) \in Nat
      BY <1>2, <1>3, <2>1
    <2>3. f[Picked(s)] \in Nat
      BY <1>3, <2>1
    <2> QED
      BY <1>3, <1>4, <1>6, <2>2, <2>3
  <1> QED
    BY <1>5, <1>6

\* Only the values on the set matter.
LEMMA SumAgrees ==
    ASSUME NEW f, NEW g, NEW S, IsFiniteSet(S), \A x \in S : f[x] = g[x]
    PROVE  SumFunctionOnSet(f, S) = SumFunctionOnSet(g, S)
  <1> DEFINE Bad == {s \in SUBSET S : SumFunctionOnSet(f, s) # SumFunctionOnSet(g, s)}
  <1>1. SUFFICES ASSUME Bad # {} PROVE FALSE
    OBVIOUS
  <1>2. PICK s \in Bad : \A t \in Bad : t \subseteq s => t = s
    <2>1. Bad \in SUBSET (SUBSET S)
      OBVIOUS
    <2> HIDE DEF Bad
    <2> QED
      BY <1>1, <2>1, MinimalSubset
  <1>3. IsFiniteSet(s) /\ s \in SUBSET S /\ SumFunctionOnSet(f, s) # SumFunctionOnSet(g, s)
    BY FS_Subset
  <1>4. /\ SumFunctionOnSet(f, s) =
             IF s = {} THEN 0 ELSE f[Picked(s)] + SumFunctionOnSet(f, s \ {Picked(s)})
        /\ SumFunctionOnSet(g, s) =
             IF s = {} THEN 0 ELSE g[Picked(s)] + SumFunctionOnSet(g, s \ {Picked(s)})
    BY <1>3, SumUnfold
  <1>5. s # {}
    BY <1>3, <1>4
  <1>6. Picked(s) \in s
    BY <1>5, PickedIsElement
  <1>7. SumFunctionOnSet(f, s \ {Picked(s)}) = SumFunctionOnSet(g, s \ {Picked(s)})
    BY <1>2, <1>3, <1>6
  <1> QED
    BY <1>3, <1>4, <1>6, <1>7

(***************************************************************************)
(* The order of summation does not matter: any element may be split off.   *)
(***************************************************************************)
LEMMA SumRemove ==
    ASSUME NEW D, NEW f \in [D -> Int], NEW S \in SUBSET D, IsFiniteSet(S), NEW e \in S
    PROVE  SumFunctionOnSet(f, S) = f[e] + SumFunctionOnSet(f, S \ {e})
  <1> DEFINE Bad == {s \in SUBSET S :
                       \E x \in s : SumFunctionOnSet(f, s) # f[x] + SumFunctionOnSet(f, s \ {x})}
  <1>1. SUFFICES ASSUME Bad # {} PROVE FALSE
    OBVIOUS
  <1>2. PICK s \in Bad : \A t \in Bad : t \subseteq s => t = s
    <2>1. Bad \in SUBSET (SUBSET S)
      OBVIOUS
    <2> HIDE DEF Bad
    <2> QED
      BY <1>1, <2>1, MinimalSubset
  <1>3. PICK x \in s : SumFunctionOnSet(f, s) # f[x] + SumFunctionOnSet(f, s \ {x})
    OBVIOUS
  <1> DEFINE y == Picked(s)
             both == s \ {x, y}
  <1>4. IsFiniteSet(s) /\ s \in SUBSET S /\ y \in s
    BY FS_Subset, PickedIsElement
  <1>5. SumFunctionOnSet(f, s) = f[y] + SumFunctionOnSet(f, s \ {y})
    BY <1>4, SumUnfold
  <1>6. x # y
    BY <1>3, <1>5
  <1> HIDE DEF y
  <1>7. \A t \in SUBSET S : t \subseteq s /\ t # s =>
           \A z \in t : SumFunctionOnSet(f, t) = f[z] + SumFunctionOnSet(f, t \ {z})
    BY <1>2
  <1>8. SumFunctionOnSet(f, s \ {y}) = f[x] + SumFunctionOnSet(f, both)
    <2>1. s \ {y} \in SUBSET S /\ s \ {y} \subseteq s /\ s \ {y} # s /\ x \in s \ {y}
      BY <1>4, <1>6
    <2>2. (s \ {y}) \ {x} = both
      OBVIOUS
    <2> QED
      BY <1>7, <2>1, <2>2
  <1>9. SumFunctionOnSet(f, s \ {x}) = f[y] + SumFunctionOnSet(f, both)
    <2>1. s \ {x} \in SUBSET S /\ s \ {x} \subseteq s /\ s \ {x} # s /\ y \in s \ {x}
      BY <1>4, <1>6
    <2>2. (s \ {x}) \ {y} = both
      OBVIOUS
    <2> QED
      BY <1>7, <2>1, <2>2
  <1>10. f[x] \in Int /\ f[y] \in Int /\ SumFunctionOnSet(f, both) \in Int
    <2>1. both \in SUBSET D /\ IsFiniteSet(both)
      BY <1>4, FS_Subset
    <2> QED
      BY <1>4, <2>1, SumType
  <1> QED
    BY <1>3, <1>5, <1>8, <1>9, <1>10

\* One more summand.
LEMMA SumAdd ==
    ASSUME NEW D, NEW f \in [D -> Int], NEW S \in SUBSET D, IsFiniteSet(S),
           NEW e \in D, e \notin S
    PROVE  SumFunctionOnSet(f, S \cup {e}) = f[e] + SumFunctionOnSet(f, S)
  <1>1. S \cup {e} \in SUBSET D /\ IsFiniteSet(S \cup {e}) /\ e \in S \cup {e}
    BY FS_AddElement
  <1>2. (S \cup {e}) \ {e} = S
    OBVIOUS
  <1> QED
    BY <1>1, <1>2, SumRemove

\* The same for the sum over a function's whole domain.
LEMMA WholeSumOfNaturals ==
    ASSUME NEW S, IsFiniteSet(S), NEW f \in [S -> Nat]
    PROVE  SumFunction(f) \in Nat
  BY SumOfNaturals DEF SumFunction

LEMMA WholeSumEmpty ==
    ASSUME NEW f, DOMAIN f = {}
    PROVE  SumFunction(f) = 0
  BY SumEmpty DEF SumFunction

\* A new element adds its value to the whole sum.
LEMMA WholeSumAdd ==
    ASSUME NEW S, IsFiniteSet(S), NEW e, e \notin S,
           NEW f \in [S \cup {e} -> Int], NEW g \in [S -> Int],
           \A x \in S : f[x] = g[x]
    PROVE  SumFunction(f) = f[e] + SumFunction(g)
  <1>1. SumFunctionOnSet(f, S \cup {e}) = f[e] + SumFunctionOnSet(f, S)
    BY SumAdd
  <1>2. SumFunctionOnSet(f, S) = SumFunctionOnSet(g, S)
    BY SumAgrees
  <1> QED
    BY <1>1, <1>2 DEF SumFunction
\* A sum whose summands are at most those of another is at most that.
LEMMA SumMonotone ==
    ASSUME NEW S, IsFiniteSet(S), NEW f \in [S -> Int], NEW g \in [S -> Int],
           \A x \in S : f[x] <= g[x]
    PROVE  SumFunctionOnSet(f, S) <= SumFunctionOnSet(g, S)
  <1> DEFINE Bad == {s \in SUBSET S : ~(SumFunctionOnSet(f, s) <= SumFunctionOnSet(g, s))}
  <1>1. SUFFICES ASSUME Bad # {} PROVE FALSE
    OBVIOUS
  <1>2. PICK s \in Bad : \A t \in Bad : t \subseteq s => t = s
    <2>1. Bad \in SUBSET (SUBSET S)
      OBVIOUS
    <2> HIDE DEF Bad
    <2> QED
      BY <1>1, <2>1, MinimalSubset
  <1> DEFINE rest == s \ {Picked(s)}
  <1>3. /\ IsFiniteSet(s) /\ s \in SUBSET S
        /\ ~(SumFunctionOnSet(f, s) <= SumFunctionOnSet(g, s))
    BY FS_Subset
  <1>4. /\ SumFunctionOnSet(f, s) =
              IF s = {} THEN 0 ELSE f[Picked(s)] + SumFunctionOnSet(f, rest)
        /\ SumFunctionOnSet(g, s) =
              IF s = {} THEN 0 ELSE g[Picked(s)] + SumFunctionOnSet(g, rest)
    BY <1>3, SumUnfold
  <1>5. CASE s = {}
    BY <1>3, <1>4, <1>5
  <1>6. CASE s # {}
    <2>1. Picked(s) \in s /\ rest \in SUBSET S /\ IsFiniteSet(rest)
      BY <1>3, <1>6, PickedIsElement, FS_Subset
    <2>2. SumFunctionOnSet(f, rest) <= SumFunctionOnSet(g, rest)
      BY <1>2, <1>3, <2>1
    <2>3. SumFunctionOnSet(f, rest) \in Int /\ SumFunctionOnSet(g, rest) \in Int
      BY <2>1, SumType
    <2>4. /\ f[Picked(s)] \in Int /\ g[Picked(s)] \in Int
          /\ f[Picked(s)] <= g[Picked(s)]
      BY <1>3, <2>1
    <2> HIDE DEF rest
    <2> QED
      BY <1>3, <1>4, <1>6, <2>2, <2>3, <2>4
  <1> QED
    BY <1>5, <1>6

LEMMA WholeSumMonotone ==
    ASSUME NEW S, IsFiniteSet(S), NEW f \in [S -> Int], NEW g \in [S -> Int],
           \A x \in S : f[x] <= g[x]
    PROVE  /\ SumFunction(f) <= SumFunction(g)
           /\ SumFunction(f) \in Int /\ SumFunction(g) \in Int
  <1>1. DOMAIN f = S /\ DOMAIN g = S
    OBVIOUS
  <1> QED
    BY <1>1, SumMonotone, SumType DEF SumFunction
=============================================================================
