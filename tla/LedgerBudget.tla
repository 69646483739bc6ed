----------------------------- MODULE LedgerBudget -----------------------------
(***************************************************************************)
(* Ledger implements LossBudget: the losses booked against a budget are    *)
(* the sum over the outcomes that fall into its scope and period, and the  *)
(* reservation of an account is the assumed loss of its open position.     *)
(* The budgets are those of the starting equity, the largest a baseline    *)
(* can be, so the mapping also says that the caps printed for a profile    *)
(* are never exceeded although the code recomputes them from a baseline    *)
(* that shrinks with every loss.                                           *)
(***************************************************************************)
EXTENDS Ledger

CONSTANTS Everyone, Nobody

ASSUME BudgetAssumption ==
    /\ Everyone \notin Providers
    /\ Nobody \notin Providers \cup {Everyone}

WeekOf(d) == d \div 7

InScope(o, s) == s = Everyone \/ o.provider = s

InPeriod(o, h, t) == IF h = "day" THEN o.day = t ELSE WeekOf(o.day) = t

BookedAgainst(a, s, h, t) ==
    Scale * TotalLoss({o \in outcomes : o.account = a /\ InScope(o, s) /\ InPeriod(o, h, t)})

Periods == Days \cup {WeekOf(d) : d \in Days}

BudgetKeys == Accounts \X (Providers \cup {Everyone}) \X {"day", "week"} \X Periods

Reservation(a) ==
    IF OpenPositions(a) = {}
    THEN [provider |-> Nobody, amount |-> 0]
    ELSE LET row == CHOOSE row \in OpenPositions(a) : TRUE
         IN  [provider |-> row.provider, amount |-> ScaledLoss(row.offer, row.lots)]

LossesPerLot(o) ==
    {o.unit_loss} \cup {IF o.net[e] < 0 THEN -o.net[e] ELSE 0 : e \in Exits}

\* The losses a position can reserve or realise.
TradeLosses ==
    UNION {{Scale * lots * x : lots \in LotGrid(o), x \in LossesPerLot(o)} : o \in Offers}

FractionOfProfile(fraction) == [a \in Accounts |-> Profiles[a] * fraction]

LossBudget ==
    INSTANCE LossBudget WITH
        Amounts <- TradeLosses,
        TradeCap <- FractionOfProfile(Policy.risk_fraction),
        DayCap <- [account |-> FractionOfProfile(Policy.daily_fraction),
                   provider |-> FractionOfProfile(Policy.provider_daily_fraction)],
        WeekCap <- [account |-> FractionOfProfile(Policy.weekly_fraction),
                    provider |-> FractionOfProfile(Policy.provider_weekly_fraction)],
        lost <- [key \in BudgetKeys |-> BookedAgainst(key[1], key[2], key[3], key[4])],
        reserved <- [a \in Accounts |-> Reservation(a)]

(***************************************************************************)
(* Every run of the ledger is a run of the loss budget: no sequence of     *)
(* approvals, closes, reviews and days overdraws a daily or weekly budget  *)
(* of an account or of a provider in it.                                   *)
(***************************************************************************)
ImplementsLossBudget == LossBudget!Spec
=============================================================================
