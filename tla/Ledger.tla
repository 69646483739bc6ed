-------------------------------- MODULE Ledger --------------------------------
(***************************************************************************)
(* The paper-trading ledger of engine/service.py: evaluate, close_position,*)
(* snapshot and review of class Application, and the research edit of a    *)
(* provider in server.py.  Every operation runs in one BEGIN IMMEDIATE     *)
(* transaction, so it is one action here; but it reads the clock several   *)
(* times, and midnight may pass between two of the readings.               *)
(*                                                                         *)
(* Reports that no rule reads back (decisions, veto_reasons, audit_logs,   *)
(* provider_status) are left out, and so are the columns of an accounts    *)
(* row that refresh recomputes before every use: View holds them.          *)
(***************************************************************************)
EXTENDS RiskEngine, FiniteSets, Functions

CONSTANTS
    Accounts,       \* the account profiles
    Profiles,       \* PROFILES: the equity every profile starts with
    Providers,      \* provider ids that requests name
    SeedProviders,  \* the synthetic fixtures seed() creates; no edit reaches them
    Signals,        \* the signal ids clients submit
    LongIds,        \* those of more than 200 characters
    UUIDs,          \* what uuid4() may return
    Offers,         \* what signal, broker and market amount to for sizing
    SizedOffers,    \* further offers, which are only sized and never traded
    Days,           \* the days on which something happens; day 0 is a Monday
    NoDay           \* the daily_stop_date of an account that was never stopped

ASSUME LedgerAssumption ==
    /\ Profiles \in [Accounts -> Nat \ {0}]
    /\ SeedProviders \subseteq Providers
    /\ IsFiniteSet(Providers)
    /\ LongIds \subseteq Signals
    /\ UUIDs \cap Signals = {}
    /\ \A o \in Offers \cup SizedOffers : IsOffer(o)
    /\ Days \subseteq Nat
    /\ 0 \in Days
    /\ NoDay \notin Days

VARIABLES
    today,          \* the local calendar day
    accounts,       \* table accounts
    providers,      \* table providers
    signals,        \* table signals: the verdict recorded under a stored id
    positions,      \* tables positions and paper_trades, one row for both
    outcomes,       \* table signal_outcomes
    performance     \* table provider_daily_performance: the trades a row sums up

vars == <<today, accounts, providers, signals, positions, outcomes, performance>>

Ids == Signals \cup UUIDs

Verdicts == {"APPROVED_SIMULATED_TRADE", "WATCHLIST", "NO_TRADE"}

AccountRow == [equity : Int, starting_equity : Nat,
               status : {"ACTIVE", "SUSPENDED"}, daily_stop_date : Days \cup {NoDay}]

ProviderRow == [status : {"ACTIVE", "SUSPENDED", "UNVERIFIED", "ABSENT"}, verified : BOOLEAN,
                live : {"SYNTHETIC", "LIVE", "UNKNOWN"}, quality : Qualities,
                consecutive_losses : Nat]

PositionRow == [id : Ids, signal : Signals, account : Accounts, provider : Providers,
                offer : Offers, lots : Nat, status : {"OPEN", "CLOSED"}]

OutcomeRow == [id : Ids, account : Accounts, provider : Providers, day : Days, net : Int]

TypeOK ==
    /\ today \in Days
    /\ accounts \in [Accounts -> AccountRow]
    /\ providers \in [Providers -> ProviderRow]
    /\ signals \in [Ids -> Verdicts \cup {"NONE"}]
    /\ positions \subseteq PositionRow
    /\ outcomes \subseteq OutcomeRow
    /\ performance \in [Providers \X Accounts \X Days -> SUBSET Ids]

\* seed(): the accounts of PROFILES and the synthetic provider.
Fixture == [status |-> "ACTIVE", verified |-> TRUE, live |-> "SYNTHETIC",
            quality |-> "good", consecutive_losses |-> 0]

Init ==
    /\ today = 0
    /\ accounts = [a \in Accounts |->
                      [equity |-> Profiles[a], starting_equity |-> Profiles[a],
                       status |-> "ACTIVE", daily_stop_date |-> NoDay]]
    /\ providers = [p \in Providers |-> IF p \in SeedProviders THEN Fixture ELSE ABSENT]
    /\ signals = [id \in Ids |-> "NONE"]
    /\ positions = {}
    /\ outcomes = {}
    /\ performance = [key \in Providers \X Accounts \X Days |-> {}]

-----------------------------------------------------------------------------
(***************************************************************************)
(* Application.refresh.  Losses are summed over the outcomes, profits do   *)
(* not offset them, and the week begins on Monday.  A stop is only ever    *)
(* set here: status and daily_stop_date are cleared by no refresh.         *)
(***************************************************************************)
Monday(d) == d - (d % 7)

\* A variant in which a profit offsets the losses of its day and week.
NetLoss(o) == -o.net

Loss(o) == IF o.net < 0 THEN -o.net ELSE 0

TotalLoss(rows) == SumFunction([o \in rows |-> Loss(o)])

DailyLoss(rows, a, d) == TotalLoss({o \in rows : o.account = a /\ o.day = d})

WeeklyLoss(rows, a, d) == TotalLoss({o \in rows : o.account = a /\ o.day >= Monday(d)})

StopBaseline(acct) == Lesser(acct.equity, acct.starting_equity)

\* A variant that latches the daily stop for the next day.
RefreshedOneDayLate(acct, a, rows, d) ==
    [acct EXCEPT
        !.status = IF Scale * WeeklyLoss(rows, a, d)
                        >= StopBaseline(acct) * Policy.weekly_fraction
                   THEN "SUSPENDED" ELSE @,
        !.daily_stop_date = IF Scale * DailyLoss(rows, a, d)
                                 >= StopBaseline(acct) * Policy.daily_fraction
                            THEN d + 1 ELSE @]

Refreshed(acct, a, rows, d) ==
    [acct EXCEPT
        !.status = IF Scale * WeeklyLoss(rows, a, d)
                        >= StopBaseline(acct) * Policy.weekly_fraction
                   THEN "SUSPENDED" ELSE @,
        !.daily_stop_date = IF Scale * DailyLoss(rows, a, d)
                                 >= StopBaseline(acct) * Policy.daily_fraction
                            THEN d ELSE @]

OpenPositions(a) == {row \in positions : row.account = a /\ row.status = "OPEN"}

ReservedRisk(a) ==
    SumFunction([row \in OpenPositions(a) |-> row.lots * row.offer.unit_loss])

UsedMargin(a) ==
    SumFunction([row \in OpenPositions(a) |-> row.lots * row.offer.margin])

\* The row refresh returns: the stored columns and those recomputed for provider p.
View(acct, a, p, d) ==
    LET provided == {o \in outcomes : o.provider = p}
        free == acct.equity - UsedMargin(a)
    IN  [equity |-> acct.equity, status |-> acct.status, profile |-> Profiles[a],
         daily_loss |-> DailyLoss(outcomes, a, d),
         weekly_loss |-> WeeklyLoss(outcomes, a, d),
         provider_daily_loss |-> DailyLoss(provided, a, d),
         provider_weekly_loss |-> WeeklyLoss(provided, a, d),
         reserved_risk |-> ReservedRisk(a),
         used_margin |-> UsedMargin(a),
         open_positions |-> Cardinality(OpenPositions(a)),
         free_margin |-> IF free > 0 THEN free ELSE 0]

(***************************************************************************)
(* The days that successive readings of the clock inside one transaction   *)
(* see: all the same, or midnight passes between two of them.              *)
(***************************************************************************)
Readings ==
    {<<today, today, today>>}
        \cup (IF today + 1 \in Days
              THEN {<<today, today, today + 1>>, <<today, today + 1, today + 1>>}
              ELSE {})

-----------------------------------------------------------------------------
(***************************************************************************)
(* Application.evaluate.  A request names an account, a provider, a signal *)
(* and an offer, and carries at most one fault: "unsound" and "weak" as in *)
(* RiskEngine, "gated" for one that the persistent safety controls see     *)
(* (system mode, live flag, audit integrity, unsupported symbol).  The     *)
(* operators take the accounts and the providers rows as the transaction   *)
(* sees them when the evaluation begins.                                   *)
(***************************************************************************)
Faults == {"none", "weak", "unsound", "gated"}

Requests == [account : Accounts, provider : Providers, signal : Signals,
             offer : Offers, fault : Faults]

\* An overlong signal id is replaced by a fresh UUID before duplicates are looked up.
StoredIds(signal) ==
    IF signal \in LongIds THEN {u \in UUIDs : signals[u] = "NONE"} ELSE {signal}

\* A variant that looks a duplicate up among the open positions only.
DuplicateOfOpen(id) == \E row \in positions : row.id = id /\ row.status = "OPEN"

Duplicate(id) == signals[id] # "NONE"

ActiveProviders(provs) == {p \in Providers : provs[p].status = "ACTIVE"}

\* A variant that counts the active providers too late.
TooManyProvidersOffByOne(provs) ==
    Cardinality(ActiveProviders(provs)) > Policy.max_active_providers + 1

TooManyProviders(provs) ==
    Cardinality(ActiveProviders(provs)) > Policy.max_active_providers

SafetyReasons(acct, provs, r, id, d) ==
    When(Duplicate(id), "DUPLICATE_SIGNAL")
        \cup When(provs[r.provider].live # "SYNTHETIC", "REAL_DATA_ADAPTER_NOT_CONFIGURED")
        \cup When(r.fault = "gated", "SAFETY_GATE_CLOSED")
        \cup When(acct.daily_stop_date = d, "DAILY_LOSS_STOP_LATCHED")
        \cup When(TooManyProviders(provs), "ACTIVE_PROVIDER_LIMIT")

\* The account's row and view as the first refresh of the transaction leaves them.
AccountSeen(accts, r, clock) ==
    Refreshed(accts[r.account], r.account, outcomes, clock[1])

ViewSeen(accts, r, clock) ==
    View(AccountSeen(accts, r, clock), r.account, r.provider, clock[1])

Reasons(accts, provs, r, id, clock) ==
    EngineReasons(ViewSeen(accts, r, clock), provs[r.provider], r.offer, r.fault)
        \cup SafetyReasons(AccountSeen(accts, r, clock), provs, r, id, clock[2])

\* Nothing objects: the signal is recorded and its position opened.
Approve(accts, provs, r, id, clock) ==
    /\ Reasons(accts, provs, r, id, clock) = {}
    /\ \E lots \in LotGrid(r.offer) :
          /\ lots = PositionSize(r.offer, Budget(ViewSeen(accts, r, clock)))
          /\ positions' = positions \cup
                {[id |-> id, signal |-> r.signal, account |-> r.account,
                  provider |-> r.provider, offer |-> r.offer, lots |-> lots,
                  status |-> "OPEN"]}
    /\ signals' = [signals EXCEPT ![id] = "APPROVED_SIMULATED_TRADE"]
    /\ accounts' = [accts EXCEPT ![r.account] =
                       Refreshed(AccountSeen(accts, r, clock), r.account, outcomes, clock[3])]
    /\ providers' = provs
    /\ today' = clock[3]
    /\ UNCHANGED <<outcomes, performance>>

\* Something objects: the signal is recorded unless its id already was, and the
\* provider is suspended for the reasons that call for it.
Refuse(accts, provs, r, id, clock) ==
    LET reasons == Reasons(accts, provs, r, id, clock)
    IN  /\ reasons # {}
        /\ signals' = [signals EXCEPT ![id] =
              IF @ # "NONE" THEN @
              ELSE IF reasons = {"INSUFFICIENT_EVIDENCE"} THEN "WATCHLIST" ELSE "NO_TRADE"]
        /\ accounts' = [accts EXCEPT ![r.account] = AccountSeen(accts, r, clock)]
        /\ providers' = [provs EXCEPT ![r.provider].status =
              IF reasons \cap SuspendingReasons # {} /\ @ # "ABSENT" THEN "SUSPENDED" ELSE @]
        /\ today' = clock[3]
        /\ UNCHANGED <<positions, outcomes, performance>>

\* A profile outside PROFILES fails closed before any rule is applied; a duplicate id
\* then leaves nothing behind.
RefuseUnknownAccount(id) ==
    /\ signals[id] = "NONE"
    /\ signals' = [signals EXCEPT ![id] = "NO_TRADE"]
    /\ UNCHANGED <<today, accounts, providers, positions, outcomes, performance>>

-----------------------------------------------------------------------------
\* A variant that pays out a position without marking it closed.
ClosedRowKeptOpen(row) == row

ClosedRow(row) == [row EXCEPT !.status = "CLOSED"]

\* A variant whose breaker trips one loss late.
BreakerTripsLate(losses) == losses > Policy.provider_circuit_breaker_losses

BreakerTrips(losses) == losses >= Policy.provider_circuit_breaker_losses

\* The providers row after an outcome of its signal: the consecutive-loss breaker.
AfterOutcome(prov, net) ==
    LET losses == IF net < 0 THEN prov.consecutive_losses + 1 ELSE 0
    IN  [prov EXCEPT !.consecutive_losses = losses,
                     !.status = IF BreakerTrips(losses) THEN "SUSPENDED" ELSE @]

\* A variant that writes the accounts row back as it was read before the stops were
\* recomputed, so that the refresh is lost.
AfterCloseStale(acct, a, rows, net, d) == [acct EXCEPT !.equity = @ + net]

\* A variant whose refresh writes back the row as it was before the payout.
AfterCloseUnpaid(acct, a, rows, net, d) == Refreshed(acct, a, rows, d)

\* The accounts row after an outcome: the result is paid out, then refresh runs.
AfterClose(acct, a, rows, net, d) ==
    Refreshed([acct EXCEPT !.equity = @ + net], a, rows, d)

\* A variant that sums up the trades on record before this close.
FiledTradesBefore(rows, p, a, d) ==
    {o.id : o \in {x \in outcomes : x.provider = p /\ x.account = a /\ x.day = d}}

\* The trades a provider_daily_performance row sums up.
FiledTrades(rows, p, a, d) ==
    {o.id : o \in {x \in rows : x.provider = p /\ x.account = a /\ x.day = d}}

(***************************************************************************)
(* Application.close_position at the stop or the target.  The clock is     *)
(* read for closed_at, then by refresh, then for the performance row.      *)
(***************************************************************************)
Close(row, exit, clock) ==
    LET a == row.account
        p == row.provider
        net == row.lots * row.offer.net[exit]
        rows == outcomes \cup
                  {[id |-> row.id, account |-> a, provider |-> p, day |-> clock[1], net |-> net]}
    IN  /\ row.status = "OPEN"
        /\ positions' = (positions \ {row}) \cup {ClosedRow(row)}
        /\ outcomes' = rows
        /\ accounts' = [accounts EXCEPT ![a] = AfterClose(@, a, rows, net, clock[2])]
        /\ providers' = [providers EXCEPT ![p] = AfterOutcome(@, net)]
        /\ performance' = [performance EXCEPT ![<<p, a, clock[3]>>] =
                              FiledTrades(rows, p, a, clock[3])]
        /\ today' = clock[3]
        /\ UNCHANGED signals

\* Application.snapshot refreshes every account; midnight may pass between two of them.
Snapshot(late, d) ==
    /\ d \in {today, today + 1} \cap Days
    /\ accounts' = [a \in Accounts |->
                       Refreshed(accounts[a], a, outcomes, IF a \in late THEN d ELSE today)]
    /\ today' = d
    /\ UNCHANGED <<providers, signals, positions, outcomes, performance>>

\* Application.review of a provider: refused, without effect, while its risk is unresolved.
ReviewProvider(p) ==
    /\ providers[p].status # "ABSENT"
    /\ providers[p].quality # "flagged"
    /\ providers' = [providers EXCEPT ![p].status = "ACTIVE", ![p].consecutive_losses = 0]
    /\ UNCHANGED <<today, accounts, signals, positions, outcomes, performance>>

\* Application.review of an account: refused, without effect, while the week's budget is spent.
ReviewAccount(a) ==
    LET acct == Refreshed(accounts[a], a, outcomes, today)
    IN  /\ Scale * WeeklyLoss(outcomes, a, today)
             < StopBaseline(acct) * Policy.weekly_fraction
        /\ accounts' = [accounts EXCEPT ![a] = [acct EXCEPT !.status = "ACTIVE"]]
        /\ UNCHANGED <<today, providers, signals, positions, outcomes, performance>>

\* A variant in which the edited provider keeps its status.
ResearchedRowOfActive(quality, losses) ==
    [status |-> "ACTIVE", verified |-> FALSE, live |-> "UNKNOWN",
     quality |-> quality, consecutive_losses |-> losses]

ResearchedRow(quality, losses) ==
    [status |-> "UNVERIFIED", verified |-> FALSE, live |-> "UNKNOWN",
     quality |-> quality, consecutive_losses |-> losses]

\* A research edit replaces the row and never grants verification.
ResearchProvider(p, quality, losses) ==
    /\ p \notin SeedProviders
    /\ providers' = [providers EXCEPT ![p] = ResearchedRow(quality, losses)]
    /\ UNCHANGED <<today, accounts, signals, positions, outcomes, performance>>

\* Time passes between transactions.
Tick ==
    /\ today' \in {d \in Days : d > today}
    /\ UNCHANGED <<accounts, providers, signals, positions, outcomes, performance>>

-----------------------------------------------------------------------------
Evaluate ==
    \E r \in Requests :
        \E id \in StoredIds(r.signal), clock \in Readings :
            \/ Approve(accounts, providers, r, id, clock)
            \/ Refuse(accounts, providers, r, id, clock)

EvaluateUnknownAccount ==
    \E signal \in Signals : \E id \in StoredIds(signal) : RefuseUnknownAccount(id)

ClosePosition ==
    \E row \in positions, exit \in Exits, clock \in Readings : Close(row, exit, clock)

Review ==
    \/ \E p \in Providers : ReviewProvider(p)
    \/ \E a \in Accounts : ReviewAccount(a)

Research ==
    \E p \in Providers, quality \in Qualities,
       losses \in 0 .. Policy.provider_circuit_breaker_losses :
           ResearchProvider(p, quality, losses)

Next ==
    \/ Evaluate
    \/ EvaluateUnknownAccount
    \/ ClosePosition
    \/ \E late \in SUBSET Accounts, d \in Days : Snapshot(late, d)
    \/ Review
    \/ Research
    \/ Tick

Spec == Init /\ [][Next]_vars

-----------------------------------------------------------------------------
(***************************************************************************)
(* An account never holds two open positions, whatever sequence of         *)
(* requests, closes, reviews and days led there: the veto of RiskManager,  *)
(* applied to positions recounted inside the transaction, is enough, and   *)
(* the unique index one_open_position never has to refuse an insert.       *)
(***************************************************************************)
OneOpenPosition ==
    \A row1, row2 \in positions :
        row1.account = row2.account /\ row1.status = "OPEN" /\ row2.status = "OPEN"
            => row1 = row2

(***************************************************************************)
(* The floor formula of PositionSizer.calculate yields the largest volume  *)
(* on the broker's grid whose assumed loss is within the budget, for the   *)
(* budgets that a history of trades leaves, as long as they are not        *)
(* overdrawn: then the engine does not ask for a size.                     *)
(***************************************************************************)
SizeIsLargestAffordable ==
    \A a \in Accounts, p \in Providers, o \in Offers \cup SizedOffers :
        LET budget == Budget(View(accounts[a], a, p, today))
        IN  budget >= 0 => IsLargestAffordable(PositionSize(o, budget), o, budget)

RiskFits(row, acct) ==
    LET loss == row.lots * row.offer.unit_loss
        margin == row.lots * row.offer.margin
    IN  /\ loss * Scale <= StopBaseline(acct) * Policy.risk_fraction
        /\ margin * Scale <= acct.equity * Policy.max_margin_fraction
        /\ margin * Scale <= acct.equity * Policy.provider_allocation_fraction
        /\ margin * Policy.min_margin_level <= 100 * (acct.equity - loss)

(***************************************************************************)
(* While a position is open its assumed loss stays within the risk of one  *)
(* trade and its margin within the account's margin rules, both measured   *)
(* against the equity of the moment and not of the approval.               *)
(***************************************************************************)
OpenRiskBounded ==
    \A row \in positions : row.status = "OPEN" => RiskFits(row, accounts[row.account])

(***************************************************************************)
(* The tables agree: an approved signal has exactly one position and no    *)
(* other signal has one, a closed position has exactly one outcome and an  *)
(* open one none, and no outcome lost more than its position reserved.     *)
(***************************************************************************)
OutcomesSettlePositions ==
    /\ {id \in Ids : signals[id] = "APPROVED_SIMULATED_TRADE"} = {row.id : row \in positions}
    /\ \A row1, row2 \in positions : row1.id = row2.id => row1 = row2
    /\ \A o1, o2 \in outcomes : o1.id = o2.id => o1 = o2
    /\ \A row \in positions : row.status = "CLOSED" <=> \E o \in outcomes : o.id = row.id
    /\ \A o \in outcomes : \E row \in positions :
          /\ row.id = o.id
          /\ row.account = o.account /\ row.provider = o.provider
          /\ -o.net <= row.lots * row.offer.unit_loss

(***************************************************************************)
(* "If signal is stale, duplicate, ...: NO TRADE" (specs/requirements.txt, *)
(* line 111): one submitted signal id opens at most one position, over all *)
(* accounts and days.                                                      *)
(***************************************************************************)
SignalOpensOnce ==
    \A row1, row2 \in positions : row1.signal = row2.signal => row1 = row2

(***************************************************************************)
(* A provider whose losses in a row reached the breaker does not trade on, *)
(* whichever accounts the losses fell in, and neither a research edit nor  *)
(* a review leaves it active with the count still at the limit.            *)
(***************************************************************************)
BreakerHolds ==
    \A p \in Providers :
        providers[p].consecutive_losses >= Policy.provider_circuit_breaker_losses
            => providers[p].status # "ACTIVE"

BookedIn(a) == {o \in outcomes : o.account = a}

(***************************************************************************)
(* Equity is the starting equity plus every booked result: no refresh,     *)
(* review or evaluation writes an older row back over a payout.            *)
(***************************************************************************)
EquityReconciles ==
    \A a \in Accounts :
        accounts[a].equity = accounts[a].starting_equity
                               + SumFunction([o \in BookedIn(a) |-> o.net])

(***************************************************************************)
(* The daily stop and the weekly suspension are already in force whenever  *)
(* no transaction is running: refreshing an account that nobody looked at  *)
(* would change nothing, on whatever day it is.                            *)
(***************************************************************************)
StopsInForce ==
    \A a \in Accounts : Refreshed(accounts[a], a, outcomes, today) = accounts[a]

BelowCaps(row) ==
    LET a == row.account
        p == row.provider
        base == StopBaseline(accounts[a])
        provided == {o \in outcomes : o.provider = p}
    IN  /\ Scale * DailyLoss(outcomes, a, today) < base * Policy.daily_fraction
        /\ Scale * WeeklyLoss(outcomes, a, today) < base * Policy.weekly_fraction
        /\ Scale * DailyLoss(provided, a, today) < base * Policy.provider_daily_fraction
        /\ Scale * WeeklyLoss(provided, a, today) < base * Policy.provider_weekly_fraction
        /\ providers[p].status = "ACTIVE" /\ providers[p].verified
        /\ Cardinality(ActiveProviders(providers)) <= Policy.max_active_providers

(***************************************************************************)
(* A position is opened only while the losses of the day and of the week,  *)
(* in the account and by the provider in the account, are below their      *)
(* caps, and while the provider is active, verified and one of no more     *)
(* than max_active_providers.                                              *)
(***************************************************************************)
OpensBelowCaps ==
    [][\A row \in positions' \ positions : row.status = "OPEN" => BelowCaps(row)]_vars

WeekLoss(rows, a, w) == TotalLoss({o \in rows : o.account = a /\ o.day \div 7 = w})

CapSuspends ==
    \A a \in Accounts : LET w == today \div 7 IN
        /\ WeekLoss(outcomes', a, w) > WeekLoss(outcomes, a, w)
        /\ Scale * WeekLoss(outcomes', a, w)
              >= StopBaseline(accounts'[a]) * Policy.weekly_fraction
        => accounts'[a].status = "SUSPENDED"

(***************************************************************************)
(* "If weekly loss cap is reached: suspend trading until review"           *)
(* (specs/requirements.txt, line 109): a step that books a loss and brings *)
(* the losses of the week it is booked in to the cap leaves the account    *)
(* suspended.                                                              *)
(***************************************************************************)
WeeklyCapSuspends == [][CapSuspends]_vars

(***************************************************************************)
(* A provider_daily_performance row never sums up a trade of another day,  *)
(* account or provider, and it lacks none that closed on its day, except   *)
(* where the next midnight may have passed inside a close: that trade is   *)
(* booked on the day before the row which its close writes.                *)
(***************************************************************************)
PerformanceExact ==
    \A p \in Providers, a \in Accounts, d \in Days :
        LET filed == performance[<<p, a, d>>]
            closed == FiledTrades(outcomes, p, a, d)
        IN  /\ filed \subseteq closed
            /\ d + 1 \notin Days => filed = closed
=============================================================================
