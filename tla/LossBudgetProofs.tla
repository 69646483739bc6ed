--------------------------- MODULE LossBudgetProofs ---------------------------
(***************************************************************************)
(* No budget is overdrawn, for every set of accounts, providers and days   *)
(* and every value of the caps.                                            *)
(*                                                                         *)
(* WithinBudget alone is not inductive: that a settlement fits needs       *)
(* ReservationsCovered, and that a reservation carried over midnight or    *)
(* over a weekend still fits needs FutureEmpty.                            *)
(***************************************************************************)
EXTENDS LossBudget, TLAPS

\* Nothing is ever booked against a period that has not begun.
FutureEmpty ==
    \A a \in Accounts, s \in Scopes, h \in Horizons, t \in Periods :
        t > Period(h, today) => lost[<<a, s, h, t>>] = 0

IInv == TypeOK /\ WithinBudget /\ ReservationsCovered /\ FutureEmpty

LEMMA WeekMonotone ==
    ASSUME NEW d \in Nat, NEW e \in Nat, d <= e
    PROVE  /\ WeekOf(d) \in Nat
           /\ WeekOf(d) <= WeekOf(e)
  BY SMT DEF WeekOf

LEMMA PeriodType ==
    ASSUME NEW h \in Horizons, NEW d \in Days
    PROVE  Period(h, d) \in Periods /\ Period(h, d) \in Nat
  BY LossBudgetAssumption, WeekMonotone DEF Period, Periods

LEMMA PeriodMonotone ==
    ASSUME NEW h \in Horizons, NEW d \in Days, NEW e \in Days, d <= e
    PROVE  Period(h, d) <= Period(h, e)
  BY LossBudgetAssumption, WeekMonotone DEF Period

LEMMA LaterPeriod ==
    ASSUME NEW h \in Horizons, NEW d \in Days, NEW e \in Days, d <= e,
           Period(h, d) # Period(h, e)
    PROVE  Period(h, e) > Period(h, d)
  <1>1. Period(h, d) \in Nat /\ Period(h, e) \in Nat /\ Period(h, d) <= Period(h, e)
    BY PeriodType, PeriodMonotone
  <1> QED
    BY <1>1

LEMMA PeriodsAreNumbers == Periods \subseteq Nat
  <1>1. \A d \in Days : WeekOf(d) \in Nat
    BY LossBudgetAssumption, SMT DEF WeekOf
  <1> QED
    BY <1>1, LossBudgetAssumption DEF Periods

LEMMA CapType ==
    ASSUME NEW a \in Accounts, NEW s \in Scopes, NEW h \in Horizons
    PROVE  Cap(a, s, h) \in Nat
  <1>1. /\ DayCap \in [{"account", "provider"} -> [Accounts -> Nat]]
        /\ WeekCap \in [{"account", "provider"} -> [Accounts -> Nat]]
    BY LossBudgetAssumption DEF ScopeKinds
  <1>2. /\ DayCap["account"] \in [Accounts -> Nat] /\ DayCap["provider"] \in [Accounts -> Nat]
        /\ WeekCap["account"] \in [Accounts -> Nat] /\ WeekCap["provider"] \in [Accounts -> Nat]
    BY <1>1
  <1> QED
    BY <1>2 DEF Cap

LEMMA ClaimType ==
    ASSUME TypeOK, NEW a \in Accounts, NEW s
    PROVE  Claim(a, s) \in Nat
  BY DEF TypeOK, Claim

LEMMA LostType ==
    ASSUME TypeOK, NEW a \in Accounts, NEW s \in Scopes, NEW h \in Horizons, NEW t \in Periods
    PROVE  lost[<<a, s, h, t>>] \in Nat
  BY DEF TypeOK

(***************************************************************************)
(* A day later, what an open position claims still fits: either the period *)
(* is the same, or nothing has been booked against the new one.            *)
(***************************************************************************)
LEMMA ClaimsCarryOver ==
    ASSUME IInv, NEW d \in Days, d >= today,
           NEW a \in Accounts, NEW s \in Scopes, NEW h \in Horizons
    PROVE  lost[<<a, s, h, Period(h, d)>>] + Claim(a, s) <= Cap(a, s, h)
  <1>1. /\ lost[<<a, s, h, Period(h, today)>>] \in Nat
        /\ Claim(a, s) \in Nat /\ Cap(a, s, h) \in Nat
    BY PeriodType, LostType, ClaimType, CapType DEF IInv, TypeOK
  <1>2. lost[<<a, s, h, Period(h, today)>>] + Claim(a, s) <= Cap(a, s, h)
    BY DEF IInv, ReservationsCovered
  <1>3. CASE Period(h, d) = Period(h, today)
    BY <1>2, <1>3
  <1>4. CASE Period(h, d) # Period(h, today)
    <2>1. today \in Days /\ today <= d
      BY LossBudgetAssumption DEF IInv, TypeOK
    <2>2. Period(h, d) > Period(h, today)
      BY <1>4, <2>1, LaterPeriod
    <2>3. lost[<<a, s, h, Period(h, d)>>] = 0
      BY <2>2, PeriodType DEF IInv, FutureEmpty
    <2> QED
      BY <1>1, <1>2, <2>3
  <1> QED
    BY <1>3, <1>4

\* The same for a loss that fits now.
LEMMA FittingCarriesOver ==
    ASSUME IInv, NEW d \in Days, d >= today,
           NEW a \in Accounts, NEW p \in Providers, NEW x \in Nat, Fits(a, p, x),
           NEW s \in ScopesOf(p), NEW h \in Horizons
    PROVE  lost[<<a, s, h, Period(h, d)>>] + x <= Cap(a, s, h)
  <1>1. s \in Scopes
    BY DEF Scopes, ScopesOf
  <1>2. lost[<<a, s, h, Period(h, today)>>] \in Nat /\ Cap(a, s, h) \in Nat
    BY <1>1, PeriodType, LostType, CapType DEF IInv, TypeOK
  <1>3. lost[<<a, s, h, Period(h, today)>>] + x <= Cap(a, s, h)
    BY DEF Fits
  <1>4. CASE Period(h, d) = Period(h, today)
    BY <1>3, <1>4
  <1>5. CASE Period(h, d) # Period(h, today)
    <2>1. today \in Days /\ today <= d
      BY LossBudgetAssumption DEF IInv, TypeOK
    <2>2. Period(h, d) > Period(h, today)
      BY <1>5, <2>1, LaterPeriod
    <2>3. lost[<<a, s, h, Period(h, d)>>] = 0
      BY <1>1, <2>2, PeriodType DEF IInv, FutureEmpty
    <2> QED
      BY <1>2, <1>3, <2>3
  <1> QED
    BY <1>4, <1>5

-----------------------------------------------------------------------------
LEMMA InitInvariant == Init => IInv
  <1> SUFFICES ASSUME Init PROVE IInv
    OBVIOUS
  <1>1. TypeOK
    BY LossBudgetAssumption DEF Init, TypeOK, Flat
  <1>2. \A a \in Accounts, s \in Scopes, h \in Horizons, t \in Periods :
           lost[<<a, s, h, t>>] = 0
    BY DEF Init
  <1>3. \A a \in Accounts, s \in Scopes : Claim(a, s) = 0
    BY DEF Init, Claim
  <1>4. WithinBudget
    <2> SUFFICES ASSUME NEW a \in Accounts, NEW s \in Scopes, NEW h \in Horizons,
                        NEW t \in Periods
                 PROVE  lost[<<a, s, h, t>>] <= Cap(a, s, h)
      BY DEF WithinBudget
    <2> QED
      BY <1>2, CapType
  <1>5. ReservationsCovered
    BY <1>1, <1>2, <1>3, CapType, PeriodType DEF ReservationsCovered, TypeOK
  <1>6. FutureEmpty
    BY <1>2 DEF FutureEmpty
  <1> QED
    BY <1>1, <1>4, <1>5, <1>6 DEF IInv

LEMMA TickInvariant == ASSUME IInv, Tick PROVE IInv'
  <1>1. today' \in Days /\ today' >= today /\ lost' = lost /\ reserved' = reserved
    BY DEF Tick, ClockAdvances
  <1>2. TypeOK'
    BY <1>1 DEF IInv, TypeOK
  <1>3. WithinBudget'
    BY <1>1 DEF IInv, WithinBudget
  <1>4. ReservationsCovered'
    BY <1>1, ClaimsCarryOver DEF ReservationsCovered, Claim
  <1>5. FutureEmpty'
    <2> SUFFICES ASSUME NEW a \in Accounts, NEW s \in Scopes, NEW h \in Horizons,
                        NEW t \in Periods, t > Period(h, today')
                 PROVE  lost[<<a, s, h, t>>] = 0
      BY <1>1 DEF FutureEmpty
    <2>1. t > Period(h, today)
      BY <1>1, PeriodMonotone, PeriodType, PeriodsAreNumbers, LossBudgetAssumption DEF IInv, TypeOK
    <2> QED
      BY <2>1 DEF IInv, FutureEmpty
  <1> QED
    BY <1>2, <1>3, <1>4, <1>5 DEF IInv

LEMMA ReserveInvariant ==
    ASSUME IInv, NEW a \in Accounts, NEW p \in Providers, NEW x \in Amounts, Reserve(a, p, x)
    PROVE  IInv'
  <1>1. /\ today' \in Days /\ today' >= today /\ lost' = lost
        /\ reserved' = [reserved EXCEPT ![a] = [provider |-> p, amount |-> x]]
        /\ Fits(a, p, x) /\ x \in Nat
    BY LossBudgetAssumption DEF Reserve, ClockAdvances
  <1>2. TypeOK'
    BY <1>1 DEF IInv, TypeOK
  <1>3. WithinBudget'
    BY <1>1 DEF IInv, WithinBudget
  <1>4. ReservationsCovered'
    <2> SUFFICES ASSUME NEW b \in Accounts, NEW s \in Scopes, NEW h \in Horizons
                 PROVE  lost[<<b, s, h, Period(h, today')>>] + Claim(b, s)' <= Cap(b, s, h)
      BY <1>1 DEF ReservationsCovered
    <2>1. CASE b # a
      <3>1. Claim(b, s)' = Claim(b, s)
        BY <1>1, <2>1 DEF Claim, IInv, TypeOK
      <3> QED
        BY <1>1, <3>1, ClaimsCarryOver
    <2>2. CASE b = a /\ s \in ScopesOf(p)
      <3>1. Claim(b, s)' = x
        BY <1>1, <2>2 DEF Claim, IInv, TypeOK, Flat
      <3> QED
        BY <1>1, <2>2, <3>1, FittingCarriesOver
    <2>3. CASE b = a /\ s \notin ScopesOf(p)
      <3>1. Claim(b, s)' = 0
        BY <1>1, <2>3 DEF Claim, IInv, TypeOK, Flat
      <3>2. /\ lost[<<b, s, h, Period(h, today')>>] \in Nat
            /\ lost[<<b, s, h, Period(h, today')>>] <= Cap(b, s, h)
        BY <1>1, PeriodType, LostType DEF IInv, WithinBudget
      <3> QED
        BY <3>1, <3>2
    <2> QED
      BY <2>1, <2>2, <2>3
  <1>5. FutureEmpty'
    <2> SUFFICES ASSUME NEW b \in Accounts, NEW s \in Scopes, NEW h \in Horizons,
                        NEW t \in Periods, t > Period(h, today')
                 PROVE  lost[<<b, s, h, t>>] = 0
      BY <1>1 DEF FutureEmpty
    <2>1. t > Period(h, today)
      BY <1>1, PeriodMonotone, PeriodType, PeriodsAreNumbers, LossBudgetAssumption DEF IInv, TypeOK
    <2> QED
      BY <2>1 DEF IInv, FutureEmpty
  <1> QED
    BY <1>2, <1>3, <1>4, <1>5 DEF IInv

LEMMA SettleInvariant ==
    ASSUME IInv, NEW a \in Accounts, NEW x \in Amounts, Settle(a, x)
    PROVE  IInv'
  <1> DEFINE p == reserved[a].provider
             books == BooksOn(a, p, today)
  <1>1. /\ today' \in Days /\ today' >= today
        /\ lost' = [budget \in DOMAIN lost |-> Booked(budget, books, x)]
        /\ reserved' = [reserved EXCEPT ![a] = Flat]
        /\ reserved[a] # Flat /\ x <= reserved[a].amount /\ x \in Nat
    BY LossBudgetAssumption DEF Settle, Settled, ClockAdvances
  <1>2. ASSUME NEW b \in Accounts, NEW s \in Scopes, NEW h \in Horizons, NEW t \in Periods
        PROVE  /\ lost[<<b, s, h, t>>] \in Nat
               /\ lost'[<<b, s, h, t>>] = lost[<<b, s, h, t>>]
                    + (IF b = a /\ s \in ScopesOf(p) /\ t = Period(h, today) THEN x ELSE 0)
    <2>1. <<b, s, h, t>> \in DOMAIN lost
      BY DEF IInv, TypeOK
    <2>2. <<b, s, h, t>> \in books <=> b = a /\ s \in ScopesOf(p) /\ t = Period(h, today)
      BY DEF BooksOn
    <2>3. lost'[<<b, s, h, t>>] = Booked(<<b, s, h, t>>, books, x)
      BY <1>1, <2>1
    <2> QED
      BY <2>2, <2>3, LostType DEF IInv, Booked
  <1>3. TypeOK'
    <2>1. lost' \in [Accounts \X Scopes \X Horizons \X Periods -> Nat]
      BY <1>1 DEF IInv, TypeOK, Booked
    <2>2. reserved' \in [Accounts -> [provider : Providers \cup {Nobody}, amount : Nat]]
      BY <1>1 DEF IInv, TypeOK, Flat
    <2> QED
      BY <1>1, <2>1, <2>2 DEF TypeOK
  <1>4. WithinBudget'
    <2> SUFFICES ASSUME NEW b \in Accounts, NEW s \in Scopes, NEW h \in Horizons,
                        NEW t \in Periods
                 PROVE  lost'[<<b, s, h, t>>] <= Cap(b, s, h)
      BY DEF WithinBudget
    <2>1. CASE b = a /\ s \in ScopesOf(p) /\ t = Period(h, today)
      <3>1. Claim(a, s) = reserved[a].amount
        BY <1>1, <2>1 DEF Claim
      <3>2. lost[<<a, s, h, t>>] + reserved[a].amount <= Cap(a, s, h)
        BY <2>1, <3>1 DEF IInv, ReservationsCovered
      <3>3. reserved[a].amount \in Nat /\ Cap(a, s, h) \in Nat
        BY CapType DEF IInv, TypeOK
      <3> QED
        BY <1>1, <1>2, <2>1, <3>2, <3>3
    <2>2. CASE ~ (b = a /\ s \in ScopesOf(p) /\ t = Period(h, today))
      BY <1>2, <2>2 DEF IInv, WithinBudget
    <2> QED
      BY <2>1, <2>2
  <1>5. ReservationsCovered'
    <2> SUFFICES ASSUME NEW b \in Accounts, NEW s \in Scopes, NEW h \in Horizons
                 PROVE  lost'[<<b, s, h, Period(h, today')>>] + Claim(b, s)' <= Cap(b, s, h)
      BY DEF ReservationsCovered
    <2>1. Period(h, today') \in Periods
      BY <1>1, PeriodType
    <2>2. CASE b = a
      <3>1. Claim(b, s)' = 0
        BY <1>1, <2>2 DEF Claim, IInv, TypeOK
      <3>2. lost'[<<b, s, h, Period(h, today')>>] \in Nat
        BY <1>1, <1>2, <2>1
      <3> QED
        BY <1>4, <2>1, <3>1, <3>2 DEF WithinBudget
    <2>3. CASE b # a
      <3>1. Claim(b, s)' = Claim(b, s)
        BY <1>1, <2>3 DEF Claim, IInv, TypeOK
      <3>2. lost'[<<b, s, h, Period(h, today')>>] = lost[<<b, s, h, Period(h, today')>>]
        BY <1>2, <2>1, <2>3
      <3> QED
        BY <1>1, <3>1, <3>2, ClaimsCarryOver
    <2> QED
      BY <2>2, <2>3
  <1>6. FutureEmpty'
    <2> SUFFICES ASSUME NEW b \in Accounts, NEW s \in Scopes, NEW h \in Horizons,
                        NEW t \in Periods, t > Period(h, today')
                 PROVE  lost'[<<b, s, h, t>>] = 0
      BY DEF FutureEmpty
    <2>1. t > Period(h, today) /\ t # Period(h, today)
      BY <1>1, PeriodMonotone, PeriodType, PeriodsAreNumbers, LossBudgetAssumption DEF IInv, TypeOK
    <2>2. lost[<<b, s, h, t>>] = 0
      BY <2>1 DEF IInv, FutureEmpty
    <2> QED
      BY <1>2, <2>1, <2>2
  <1> QED
    BY <1>3, <1>4, <1>5, <1>6 DEF IInv

LEMMA NextInvariant == IInv /\ [Next]_vars => IInv'
  <1> SUFFICES ASSUME IInv, [Next]_vars PROVE IInv'
    OBVIOUS
  <1>1. CASE \E a \in Accounts, p \in Providers, x \in Amounts : Reserve(a, p, x)
    BY <1>1, ReserveInvariant
  <1>2. CASE \E a \in Accounts, x \in Amounts : Settle(a, x)
    BY <1>2, SettleInvariant
  <1>3. CASE Tick
    BY <1>3, TickInvariant
  <1>4. CASE UNCHANGED vars
    BY <1>4 DEF vars, IInv, TypeOK, WithinBudget, ReservationsCovered, Claim, FutureEmpty
  <1> QED
    BY <1>1, <1>2, <1>3, <1>4 DEF Next

(***************************************************************************)
(* No budget of any scope or horizon is overdrawn in any period, whatever  *)
(* the caps: what RiskManager.budget with a reserved open risk promises.   *)
(***************************************************************************)
THEOREM BudgetsHold == Spec => []WithinBudget
  <1>1. IInv => WithinBudget
    BY DEF IInv
  <1> QED
    BY <1>1, InitInvariant, NextInvariant, PTL DEF Spec

(***************************************************************************)
(* The open position of an account never claims more than is left of a     *)
(* budget, also across midnight and the end of the week.                   *)
(***************************************************************************)
THEOREM ReservationsHold == Spec => []ReservationsCovered
  <1>1. IInv => ReservationsCovered
    BY DEF IInv
  <1> QED
    BY <1>1, InitInvariant, NextInvariant, PTL DEF Spec

\* The type invariant of the loss budget.
THEOREM BudgetTypes == Spec => []TypeOK
  <1>1. IInv => TypeOK
    BY DEF IInv
  <1> QED
    BY <1>1, InitInvariant, NextInvariant, PTL DEF Spec
=============================================================================
