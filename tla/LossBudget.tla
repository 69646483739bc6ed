------------------------------ MODULE LossBudget ------------------------------
(***************************************************************************)
(* What the risk rules promise, without accounts rows, sums or statuses:   *)
(* a position may be opened only if its whole assumed loss fits into what  *)
(* is left of every budget it draws on, so no budget is ever overdrawn,    *)
(* whenever and however the position is settled.                           *)
(*                                                                         *)
(* The budgets of an account have a scope, either the whole account or one *)
(* provider's signals in it, and a horizon, the day or the week.  The      *)
(* detailed specification, module Ledger, is shown to implement this one.  *)
(***************************************************************************)
EXTENDS Integers

CONSTANTS
    Accounts,       \* the account profiles
    Providers,      \* the signal providers
    Everyone,       \* the scope of an account's own budgets
    Nobody,         \* the holder of the reservation of a flat account
    Days,           \* the days on which something happens, day 0 a Monday
    Amounts,        \* the losses a position can reserve or realise
    TradeCap,       \* TradeCap[a]: the most one position may lose
    DayCap,         \* DayCap[s][a]: the daily budget, by kind of scope
    WeekCap         \* WeekCap[s][a]: the weekly budget, by kind of scope

Scopes == Providers \cup {Everyone}

Horizons == {"day", "week"}

WeekOf(d) == d \div 7

Period(h, d) == IF h = "day" THEN d ELSE WeekOf(d)

Periods == Days \cup {WeekOf(d) : d \in Days}

ScopeKinds == {"account", "provider"}

ASSUME LossBudgetAssumption ==
    /\ Everyone \notin Providers
    /\ Nobody \notin Scopes
    /\ Days \subseteq Nat
    /\ 0 \in Days
    /\ Amounts \subseteq Nat
    /\ TradeCap \in [Accounts -> Nat]
    /\ DayCap \in [ScopeKinds -> [Accounts -> Nat]]
    /\ WeekCap \in [ScopeKinds -> [Accounts -> Nat]]

\* The budget of account a with scope s and horizon h.
Cap(a, s, h) ==
    LET kind == IF s = Everyone THEN "account" ELSE "provider"
    IN  IF h = "day" THEN DayCap[kind][a] ELSE WeekCap[kind][a]

VARIABLES
    today,          \* the current day
    lost,           \* lost[<<a, s, h, t>>]: the losses booked against a budget in period t
    reserved        \* reserved[a]: the provider and the assumed loss of a's open position

vars == <<today, lost, reserved>>

Flat == [provider |-> Nobody, amount |-> 0]

TypeOK ==
    /\ today \in Days
    /\ lost \in [Accounts \X Scopes \X Horizons \X Periods -> Nat]
    /\ reserved \in [Accounts -> [provider : Providers \cup {Nobody}, amount : Nat]]

Init ==
    /\ today = 0
    /\ lost = [budget \in Accounts \X Scopes \X Horizons \X Periods |-> 0]
    /\ reserved = [a \in Accounts |-> Flat]

-----------------------------------------------------------------------------
\* A step may end on a later day than it began: midnight is not excluded from it.
ClockAdvances == today' \in {d \in Days : d >= today}

\* The scopes a position opened on provider p's signal draws on.
ScopesOf(p) == {Everyone, p}

\* A variant that forgets the provider's own budgets.
FitsTheAccount(a, p, x) ==
    \A h \in Horizons : lost[<<a, Everyone, h, Period(h, today)>>] + x <= Cap(a, Everyone, h)

\* Whether a loss of x still fits every budget the position would draw on.
Fits(a, p, x) ==
    \A s \in ScopesOf(p), h \in Horizons :
        lost[<<a, s, h, Period(h, today)>>] + x <= Cap(a, s, h)

\* Reserve the assumed loss x of a position opened on p's signal.
Reserve(a, p, x) ==
    /\ reserved[a] = Flat
    /\ x <= TradeCap[a]
    /\ reserved' = [reserved EXCEPT ![a] = [provider |-> p, amount |-> x]]
    /\ Fits(a, p, x)
    /\ UNCHANGED lost
    /\ ClockAdvances

\* The budgets a loss of provider p in account a, on day d, is booked against.
BooksOn(a, p, d) ==
    {<<a, s, h, Period(h, d)>> : s \in ScopesOf(p), h \in Horizons}

\* A variant that books a loss as if it were a profit.
BookedAsProfit(budget, books, x) == lost[budget] - (IF budget \in books THEN x ELSE 0)

Booked(budget, books, x) == lost[budget] + (IF budget \in books THEN x ELSE 0)

\* A variant that leaves the position open, so that it can be settled again.
SettledButOpen(a) == reserved

Settled(a) == [reserved EXCEPT ![a] = Flat]

\* Settle the open position with a loss of x, booked on the day it began on.
Settle(a, x) ==
    /\ reserved[a] # Flat
    /\ x <= reserved[a].amount
    /\ reserved' = Settled(a)
    /\ lost' = [budget \in DOMAIN lost |->
                   Booked(budget, BooksOn(a, reserved[a].provider, today), x)]
    /\ ClockAdvances

Tick ==
    /\ ClockAdvances
    /\ UNCHANGED <<lost, reserved>>

Next ==
    \/ \E a \in Accounts, p \in Providers, x \in Amounts : Reserve(a, p, x)
    \/ \E a \in Accounts, x \in Amounts : Settle(a, x)
    \/ Tick

Spec == Init /\ [][Next]_vars

-----------------------------------------------------------------------------
(***************************************************************************)
(* No budget of any scope or horizon is overdrawn in any period, also when *)
(* a position is carried over midnight or over the end of the week:        *)
(* RiskManager.budget with the reservation that refresh recomputes.        *)
(***************************************************************************)
WithinBudget ==
    \A a \in Accounts, s \in Scopes, h \in Horizons, t \in Periods :
        lost[<<a, s, h, t>>] <= Cap(a, s, h)

\* What the open position of account a may still take from the budget of scope s.
Claim(a, s) ==
    IF reserved[a] # Flat /\ s \in ScopesOf(reserved[a].provider)
    THEN reserved[a].amount
    ELSE 0

(***************************************************************************)
(* An open position never claims more than its account still has: if it    *)
(* lost its whole reservation now, no budget of the current day or week    *)
(* would be overdrawn ("open risk is reserved immediately").               *)
(***************************************************************************)
ReservationsCovered ==
    \A a \in Accounts, s \in Scopes, h \in Horizons :
        lost[<<a, s, h, Period(h, today)>>] + Claim(a, s) <= Cap(a, s, h)
=============================================================================
