----------------------------- MODULE LedgerProofs -----------------------------
(***************************************************************************)
(* The ledger, for every set of accounts, providers, signals and days,     *)
(* every offer and every valid policy: its types, its safety properties,   *)
(* and that it implements the loss budget.  A step is an approval, a close *)
(* or a quiet step, which leaves positions and outcomes alone (StepKinds). *)
(***************************************************************************)
EXTENDS LedgerBudget, RiskEngineProofs

(***************************************************************************)
(* The tables hold finitely many rows: what the sums over them need beyond *)
(* the types.                                                              *)
(***************************************************************************)
TypeInv == TypeOK /\ IsFiniteSet(positions) /\ IsFiniteSet(outcomes)

-----------------------------------------------------------------------------
\* What the operators of the ledger yield.

LEMMA ClockType ==
    ASSUME TypeOK, NEW clock \in Readings
    PROVE  /\ clock[1] \in Days /\ clock[2] \in Days /\ clock[3] \in Days
           /\ clock[1] = today
           /\ today <= clock[2] /\ clock[2] <= clock[3]
  <1>1. today \in Nat /\ today \in Days
    BY LedgerAssumption DEF TypeOK
  <1>2. CASE clock = <<today, today, today>>
    BY <1>1, <1>2
  <1>3. CASE today + 1 \in Days /\ clock = <<today, today, today + 1>>
    BY <1>1, <1>3
  <1>4. CASE today + 1 \in Days /\ clock = <<today, today + 1, today + 1>>
    BY <1>1, <1>4
  <1> QED
    BY <1>2, <1>3, <1>4 DEF Readings

LEMMA RefreshedType ==
    ASSUME NEW acct \in AccountRow, NEW a, NEW rows, NEW d \in Days
    PROVE  /\ Refreshed(acct, a, rows, d) \in AccountRow
           /\ Refreshed(acct, a, rows, d).equity = acct.equity
           /\ Refreshed(acct, a, rows, d).starting_equity = acct.starting_equity
  BY DEF Refreshed, AccountRow

LEMMA LossType == ASSUME NEW o \in OutcomeRow PROVE Loss(o) \in Nat
  BY DEF Loss, OutcomeRow

LEMMA TotalLossType ==
    ASSUME NEW rows \in SUBSET OutcomeRow, IsFiniteSet(rows)
    PROVE  TotalLoss(rows) \in Nat
  <1>1. [o \in rows |-> Loss(o)] \in [rows -> Nat]
    BY LossType
  <1> QED
    BY <1>1, WholeSumOfNaturals DEF TotalLoss

LEMMA LossesType ==
    ASSUME NEW rows \in SUBSET OutcomeRow, IsFiniteSet(rows), NEW a, NEW d
    PROVE  DailyLoss(rows, a, d) \in Nat /\ WeeklyLoss(rows, a, d) \in Nat
  <1>1. /\ {o \in rows : o.account = a /\ o.day = d} \in SUBSET OutcomeRow
        /\ IsFiniteSet({o \in rows : o.account = a /\ o.day = d})
    BY FS_Subset
  <1>2. /\ {o \in rows : o.account = a /\ o.day >= Monday(d)} \in SUBSET OutcomeRow
        /\ IsFiniteSet({o \in rows : o.account = a /\ o.day >= Monday(d)})
    BY FS_Subset
  <1> QED
    BY <1>1, <1>2, TotalLossType DEF DailyLoss, WeeklyLoss

LEMMA OffersAreOffers == ASSUME NEW o \in Offers PROVE IsOffer(o)
  BY LedgerAssumption

LEMMA OfferRecord ==
    ASSUME NEW o \in Offers
    PROVE  /\ o.unit_loss \in Nat \ {0} /\ o.margin \in Nat
           /\ \A exit \in Exits : o.net[exit] \in Int /\ -o.unit_loss <= o.net[exit]
  BY OffersAreOffers DEF IsOffer

LEMMA ExposureType ==
    ASSUME TypeInv, NEW a
    PROVE  /\ IsFiniteSet(OpenPositions(a))
           /\ ReservedRisk(a) \in Nat
           /\ UsedMargin(a) \in Nat
           /\ Cardinality(OpenPositions(a)) \in Nat
  <1>1. IsFiniteSet(OpenPositions(a)) /\ OpenPositions(a) \subseteq PositionRow
    BY FS_Subset DEF OpenPositions, TypeInv, TypeOK
  <1>2. ASSUME NEW row \in OpenPositions(a)
        PROVE  row.lots * row.offer.unit_loss \in Nat /\ row.lots * row.offer.margin \in Nat
    BY <1>1, OfferRecord DEF PositionRow
  <1>3. /\ [row \in OpenPositions(a) |-> row.lots * row.offer.unit_loss]
              \in [OpenPositions(a) -> Nat]
        /\ [row \in OpenPositions(a) |-> row.lots * row.offer.margin]
              \in [OpenPositions(a) -> Nat]
    BY <1>2
  <1>4. ReservedRisk(a) \in Nat /\ UsedMargin(a) \in Nat
    BY <1>1, <1>3, WholeSumOfNaturals DEF ReservedRisk, UsedMargin
  <1> QED
    BY <1>1, <1>4, FS_CardinalityType

LEMMA ViewType ==
    ASSUME TypeInv, NEW a \in Accounts, NEW acct \in AccountRow, NEW p, NEW d \in Days
    PROVE  IsView(View(acct, a, p, d))
  <1> DEFINE provided == {o \in outcomes : o.provider = p}
             free == acct.equity - UsedMargin(a)
  <1>1. /\ outcomes \in SUBSET OutcomeRow /\ IsFiniteSet(outcomes)
        /\ provided \in SUBSET OutcomeRow /\ IsFiniteSet(provided)
    BY FS_Subset DEF TypeInv, TypeOK
  <1>2. /\ DailyLoss(outcomes, a, d) \in Nat /\ WeeklyLoss(outcomes, a, d) \in Nat
        /\ DailyLoss(provided, a, d) \in Nat /\ WeeklyLoss(provided, a, d) \in Nat
    BY <1>1, LossesType
  <1>3. acct.equity \in Int /\ Profiles[a] \in Nat
    BY LedgerAssumption DEF AccountRow
  <1>4. /\ ReservedRisk(a) \in Nat /\ UsedMargin(a) \in Nat
        /\ Cardinality(OpenPositions(a)) \in Nat
    BY ExposureType
  <1>5. (IF free > 0 THEN free ELSE 0) \in Nat
    BY <1>3, <1>4
  <1> QED
    BY <1>2, <1>3, <1>4, <1>5 DEF View, IsView

(***************************************************************************)
(* A request that no reason objects to: its id is new, its account is flat *)
(* and the position it opens is the one the engine approved.  The lemmas   *)
(* on an evaluation speak of the rows and the readings of its transaction, *)
(* which need not be those of the tables when the transaction begins.      *)
(***************************************************************************)
SeenOnDays(clock) == clock[1] \in Days /\ clock[2] \in Days /\ clock[3] \in Days

LEMMA ReadingsAreDays ==
    ASSUME TypeInv, NEW clock \in Readings
    PROVE  /\ SeenOnDays(clock) /\ clock[1] = today /\ today <= clock[3]
           /\ accounts \in [Accounts -> AccountRow] /\ providers \in [Providers -> ProviderRow]
  <1>1. clock[1] \in Days /\ clock[2] \in Days /\ clock[3] \in Days /\ clock[1] = today
    BY ClockType DEF TypeInv
  <1>2. today <= clock[2] /\ clock[2] <= clock[3]
    BY ClockType DEF TypeInv
  <1>3. today <= clock[3]
    <2>1. today \in Nat /\ clock[2] \in Nat /\ clock[3] \in Nat
      BY <1>1, LedgerAssumption DEF TypeInv, TypeOK
    <2> QED
      BY <1>2, <2>1
  <1> QED
    BY <1>1, <1>3 DEF SeenOnDays, TypeInv, TypeOK

LEMMA ViewSeenType ==
    ASSUME TypeInv, NEW accts \in [Accounts -> AccountRow], NEW r \in Requests,
           NEW clock, clock[1] \in Days
    PROVE  /\ AccountSeen(accts, r, clock) \in AccountRow
           /\ IsView(ViewSeen(accts, r, clock))
  <1>1. r.account \in Accounts
    BY DEF Requests
  <1>2. AccountSeen(accts, r, clock) \in AccountRow
    BY <1>1, RefreshedType DEF AccountSeen
  <1> QED
    BY <1>1, <1>2, ViewType DEF ViewSeen

LEMMA ApprovalFacts ==
    ASSUME TypeInv, NEW accts \in [Accounts -> AccountRow], NEW provs,
           NEW r \in Requests, NEW id \in Ids, NEW clock, clock[1] \in Days,
           Reasons(accts, provs, r, id, clock) = {}
    PROVE  /\ signals[id] = "NONE"
           /\ OpenPositions(r.account) = {}
           /\ IsView(ViewSeen(accts, r, clock))
           /\ IsOffer(r.offer)
           /\ EngineReasons(ViewSeen(accts, r, clock), provs[r.provider], r.offer, r.fault) = {}
           /\ SafetyReasons(AccountSeen(accts, r, clock), provs, r, id, clock[2]) = {}
  <1> DEFINE v == ViewSeen(accts, r, clock)
  <1>1. r.account \in Accounts /\ r.offer \in Offers
    BY DEF Requests
  <1>2. IsView(v)
    BY ViewSeenType
  <1>3. IsOffer(r.offer)
    BY <1>1, OffersAreOffers
  <1>4. /\ EngineReasons(v, provs[r.provider], r.offer, r.fault) = {}
        /\ SafetyReasons(AccountSeen(accts, r, clock), provs, r, id, clock[2]) = {}
    BY Zenon DEF Reasons
  <1>5. signals[id] = "NONE"
    <2>1. When(Duplicate(id), "DUPLICATE_SIGNAL") = {}
      BY <1>4, Zenon DEF SafetyReasons
    <2> QED
      BY <2>1, WhenRaises DEF Duplicate
  <1>6. OpenPositions(r.account) = {}
    <2>1. v.open_positions = 0
      BY <1>2, <1>3, <1>4, ApprovalFitsEveryBudget
    <2>2. v.open_positions = Cardinality(OpenPositions(r.account))
      BY DEF ViewSeen, View
    <2> QED
      BY <2>1, <2>2, ExposureType, FS_EmptySet
  <1> QED
    BY <1>2, <1>3, <1>4, <1>5, <1>6

-----------------------------------------------------------------------------
\* Type correctness: the initial state and one lemma per action.

LEMMA InitTypes == Init => TypeInv
  <1> SUFFICES ASSUME Init PROVE TypeInv
    OBVIOUS
  <1>1. accounts \in [Accounts -> AccountRow]
    BY LedgerAssumption DEF Init, AccountRow
  <1>2. Fixture \in ProviderRow /\ ABSENT \in ProviderRow
    BY DEF Fixture, ABSENT, ProviderRow, Qualities
  <1>3. providers \in [Providers -> ProviderRow]
    BY <1>2 DEF Init
  <1>4. /\ today \in Days
        /\ signals \in [Ids -> Verdicts \cup {"NONE"}]
        /\ positions \subseteq PositionRow /\ outcomes \subseteq OutcomeRow
        /\ performance \in [Providers \X Accounts \X Days -> SUBSET Ids]
    BY LedgerAssumption DEF Init
  <1>5. IsFiniteSet(positions) /\ IsFiniteSet(outcomes)
    BY FS_EmptySet DEF Init
  <1> QED
    BY <1>1, <1>3, <1>4, <1>5 DEF TypeInv, TypeOK

LEMMA StoredIdsType == ASSUME NEW signal \in Signals PROVE StoredIds(signal) \subseteq Ids
  BY DEF StoredIds, Ids

\* The position an approved request opens.
Opened(r, id, lots) ==
    [id |-> id, signal |-> r.signal, account |-> r.account, provider |-> r.provider,
     offer |-> r.offer, lots |-> lots, status |-> "OPEN"]

\* A step that opens a position of the volume lots, for a new id and a flat account.
Opening(r, id, lots) ==
    /\ lots \in LotGrid(r.offer)
    /\ signals[id] = "NONE"
    /\ OpenPositions(r.account) = {}
    /\ positions' = positions \cup {Opened(r, id, lots)}
    /\ signals' = [signals EXCEPT ![id] = "APPROVED_SIMULATED_TRADE"]
    /\ outcomes' = outcomes

LEMMA OpenedType ==
    ASSUME NEW r \in Requests, NEW id \in Ids, NEW lots \in LotGrid(r.offer)
    PROVE  lots \in Nat /\ Opened(r, id, lots) \in PositionRow
  <1>1. /\ r.account \in Accounts /\ r.provider \in Providers
        /\ r.signal \in Signals /\ r.offer \in Offers
    BY DEF Requests
  <1>2. lots \in Nat
    BY <1>1, OffersAreOffers, GridType
  <1> QED
    BY <1>1, <1>2 DEF Opened, PositionRow

\* What an approval does, with the sized volume named.
LEMMA ApproveOpens ==
    ASSUME TypeInv, NEW accts \in [Accounts -> AccountRow], NEW provs,
           NEW r \in Requests, NEW id \in Ids, NEW clock, clock[1] \in Days,
           Approve(accts, provs, r, id, clock)
    PROVE  \E lots \in Nat :
             /\ lots = PositionSize(r.offer, Budget(ViewSeen(accts, r, clock)))
             /\ Opening(r, id, lots)
             /\ Opened(r, id, lots) \in PositionRow
  <1>1. PICK lots \in LotGrid(r.offer) :
           /\ lots = PositionSize(r.offer, Budget(ViewSeen(accts, r, clock)))
           /\ positions' = positions \cup {Opened(r, id, lots)}
    BY DEF Approve, Opened
  <1>2. signals[id] = "NONE" /\ OpenPositions(r.account) = {}
    <2>1. Reasons(accts, provs, r, id, clock) = {}
      BY DEF Approve
    <2> QED
      BY <2>1, ApprovalFacts
  <1>3. /\ signals' = [signals EXCEPT ![id] = "APPROVED_SIMULATED_TRADE"]
        /\ outcomes' = outcomes
    BY DEF Approve
  <1> QED
    BY <1>1, <1>2, <1>3, OpenedType DEF Opening

LEMMA ApproveTypes ==
    ASSUME TypeInv, NEW accts \in [Accounts -> AccountRow],
           NEW provs \in [Providers -> ProviderRow],
           NEW r \in Requests, NEW id \in Ids, NEW clock, SeenOnDays(clock),
           Approve(accts, provs, r, id, clock)
    PROVE  TypeInv'
  <1>1. r.account \in Accounts /\ clock[1] \in Days /\ clock[3] \in Days
    BY DEF Requests, SeenOnDays
  <1>2. accounts' \in [Accounts -> AccountRow]
    <2>1. AccountSeen(accts, r, clock) \in AccountRow
      BY <1>1, ViewSeenType
    <2>2. Refreshed(AccountSeen(accts, r, clock), r.account, outcomes, clock[3]) \in AccountRow
      BY <1>1, <2>1, RefreshedType
    <2> QED
      BY <2>2 DEF Approve
  <1>3. positions' \subseteq PositionRow /\ IsFiniteSet(positions')
    <2>1. PICK lots \in Nat : Opening(r, id, lots) /\ Opened(r, id, lots) \in PositionRow
      BY <1>1, ApproveOpens
    <2> QED
      BY <2>1, FS_AddElement DEF Opening, TypeInv, TypeOK
  <1>4. /\ signals' \in [Ids -> Verdicts \cup {"NONE"}]
        /\ today' \in Days
        /\ providers' = provs
        /\ UNCHANGED <<outcomes, performance>>
    BY <1>1 DEF Approve, TypeInv, TypeOK, Verdicts
  <1> QED
    BY <1>2, <1>3, <1>4 DEF TypeInv, TypeOK

LEMMA RefuseTypes ==
    ASSUME TypeInv, NEW accts \in [Accounts -> AccountRow],
           NEW provs \in [Providers -> ProviderRow],
           NEW r \in Requests, NEW id \in Ids, NEW clock, SeenOnDays(clock),
           Refuse(accts, provs, r, id, clock)
    PROVE  TypeInv'
  <1> DEFINE reasons == Reasons(accts, provs, r, id, clock)
  <1>1. r.account \in Accounts /\ r.provider \in Providers
    BY DEF Requests
  <1>2. accounts' \in [Accounts -> AccountRow]
    <2>1. AccountSeen(accts, r, clock) \in AccountRow
      BY ViewSeenType DEF SeenOnDays
    <2> QED
      BY <2>1 DEF Refuse
  <1>3. providers' \in [Providers -> ProviderRow]
    <2>1. providers' = [provs EXCEPT ![r.provider].status =
              IF reasons \cap SuspendingReasons # {} /\ @ # "ABSENT" THEN "SUSPENDED" ELSE @]
      BY DEF Refuse
    <2> HIDE DEF reasons
    <2> QED
      BY <1>1, <2>1 DEF ProviderRow
  <1>4. signals' \in [Ids -> Verdicts \cup {"NONE"}]
    <2>1. signals' = [signals EXCEPT ![id] =
              IF @ # "NONE" THEN @
              ELSE IF reasons = {"INSUFFICIENT_EVIDENCE"} THEN "WATCHLIST" ELSE "NO_TRADE"]
      BY DEF Refuse
    <2> HIDE DEF reasons
    <2> QED
      BY <2>1 DEF TypeInv, TypeOK, Verdicts
  <1>5. today' \in Days /\ UNCHANGED <<positions, outcomes, performance>>
    BY DEF Refuse, SeenOnDays
  <1> QED
    BY <1>2, <1>3, <1>4, <1>5 DEF TypeInv, TypeOK

LEMMA RefuseUnknownAccountTypes ==
    ASSUME TypeInv, NEW id \in Ids, RefuseUnknownAccount(id)
    PROVE  TypeInv'
  BY DEF RefuseUnknownAccount, TypeInv, TypeOK, Verdicts

\* The outcome a close books.
Booked(row, exit, clock) ==
    [id |-> row.id, account |-> row.account, provider |-> row.provider, day |-> clock[1],
     net |-> row.lots * row.offer.net[exit]]

LEMMA BookedType ==
    ASSUME TypeInv, NEW row \in positions, NEW exit \in Exits, NEW clock \in Readings
    PROVE  Booked(row, exit, clock) \in OutcomeRow
  <1>1. row \in PositionRow
    BY DEF TypeInv, TypeOK
  <1>2. row.lots \in Nat /\ row.offer.net[exit] \in Int
    BY <1>1, OfferRecord DEF PositionRow
  <1>3. row.lots * row.offer.net[exit] \in Int
    BY <1>2
  <1> QED
    BY <1>1, <1>3, ClockType DEF Booked, OutcomeRow, PositionRow, TypeInv

LEMMA CloseBooks ==
    ASSUME NEW row, NEW exit, NEW clock, Close(row, exit, clock)
    PROVE  /\ row.status = "OPEN"
           /\ positions' = (positions \ {row}) \cup {[row EXCEPT !.status = "CLOSED"]}
           /\ outcomes' = outcomes \cup {Booked(row, exit, clock)}
           /\ accounts' = [accounts EXCEPT ![row.account] =
                 AfterClose(@, row.account, outcomes', row.lots * row.offer.net[exit], clock[2])]
           /\ providers' = [providers EXCEPT ![row.provider] =
                 AfterOutcome(@, row.lots * row.offer.net[exit])]
           /\ performance' = [performance EXCEPT ![<<row.provider, row.account, clock[3]>>] =
                 FiledTrades(outcomes', row.provider, row.account, clock[3])]
           /\ today' = clock[3]
           /\ signals' = signals
  BY DEF Close, Booked, ClosedRow

LEMMA AfterOutcomeType ==
    ASSUME NEW prov \in ProviderRow, NEW net
    PROVE  AfterOutcome(prov, net) \in ProviderRow
  <1> DEFINE losses == IF net < 0 THEN prov.consecutive_losses + 1 ELSE 0
  <1>1. losses \in Nat
    BY DEF ProviderRow
  <1>2. AfterOutcome(prov, net) =
          [prov EXCEPT !.consecutive_losses = losses,
                       !.status = IF BreakerTrips(losses) THEN "SUSPENDED" ELSE @]
    BY DEF AfterOutcome
  <1> HIDE DEF losses
  <1> QED
    BY <1>1, <1>2 DEF ProviderRow

LEMMA CloseTypes ==
    ASSUME TypeInv, NEW row \in positions, NEW exit \in Exits, NEW clock \in Readings,
           Close(row, exit, clock)
    PROVE  TypeInv'
  <1> DEFINE net == row.lots * row.offer.net[exit]
  <1>1. row \in PositionRow
    BY DEF TypeInv, TypeOK
  <1>2. net \in Int
    BY <1>1, OfferRecord DEF PositionRow
  <1>3. positions' \subseteq PositionRow /\ IsFiniteSet(positions')
    <2>1. [row EXCEPT !.status = "CLOSED"] \in PositionRow
      BY <1>1 DEF PositionRow
    <2>2. IsFiniteSet(positions \ {row})
      BY FS_Subset DEF TypeInv
    <2>3. positions' = (positions \ {row}) \cup {[row EXCEPT !.status = "CLOSED"]}
      BY CloseBooks
    <2>4. IsFiniteSet(positions')
      BY <2>2, <2>3, FS_AddElement
    <2> QED
      BY <2>1, <2>3, <2>4 DEF TypeInv, TypeOK
  <1>4. outcomes' \subseteq OutcomeRow /\ IsFiniteSet(outcomes')
    <2>1. outcomes' = outcomes \cup {Booked(row, exit, clock)}
      BY DEF Close, Booked
    <2>2. Booked(row, exit, clock) \in OutcomeRow
      BY BookedType
    <2>3. IsFiniteSet(outcomes')
      BY <2>1, FS_AddElement DEF TypeInv
    <2> QED
      BY <2>1, <2>2, <2>3 DEF TypeInv, TypeOK
  <1> HIDE DEF net
  <1>5. accounts' \in [Accounts -> AccountRow]
    <2>1. row.account \in Accounts
      BY <1>1 DEF PositionRow
    <2>2. [accounts[row.account] EXCEPT !.equity = @ + net] \in AccountRow
      BY <1>2, <2>1 DEF TypeInv, TypeOK, AccountRow
    <2>3. AfterClose(accounts[row.account], row.account, outcomes', net, clock[2]) \in AccountRow
      <3>1. clock[2] \in Days
        BY ClockType DEF TypeInv
      <3> QED
        BY <2>2, <3>1, RefreshedType DEF AfterClose
    <2>4. accounts' = [accounts EXCEPT ![row.account] =
                          AfterClose(@, row.account, outcomes', net, clock[2])]
      BY CloseBooks DEF net
    <2> QED
      BY <2>3, <2>4 DEF TypeInv, TypeOK
  <1>6. providers' \in [Providers -> ProviderRow]
    <2>1. row.provider \in Providers
      BY <1>1 DEF PositionRow
    <2>2. providers[row.provider] \in ProviderRow
      BY <2>1 DEF TypeInv, TypeOK
    <2>3. AfterOutcome(providers[row.provider], net) \in ProviderRow
      BY <2>2, AfterOutcomeType
    <2>4. providers' = [providers EXCEPT ![row.provider] = AfterOutcome(@, net)]
      BY CloseBooks DEF net
    <2> QED
      BY <2>3, <2>4 DEF TypeInv, TypeOK
  <1>7. performance' \in [Providers \X Accounts \X Days -> SUBSET Ids]
    <2>1. FiledTrades(outcomes', row.provider, row.account, clock[3]) \subseteq Ids
      BY <1>4 DEF FiledTrades, OutcomeRow
    <2>2. performance' = [performance EXCEPT ![<<row.provider, row.account, clock[3]>>] =
                             FiledTrades(outcomes', row.provider, row.account, clock[3])]
      BY Zenon, CloseBooks
    <2> QED
      BY <2>1, <2>2 DEF TypeInv, TypeOK
  <1>8. today' \in Days /\ signals' = signals
    BY CloseBooks, ClockType DEF TypeInv
  <1> QED
    BY <1>3, <1>4, <1>5, <1>6, <1>7, <1>8 DEF TypeInv, TypeOK

LEMMA SnapshotTypes ==
    ASSUME TypeInv, NEW late \in SUBSET Accounts, NEW d \in Days, Snapshot(late, d)
    PROVE  TypeInv'
  <1>1. accounts' \in [Accounts -> AccountRow]
    <2>1. \A a \in Accounts :
             Refreshed(accounts[a], a, outcomes, IF a \in late THEN d ELSE today) \in AccountRow
      BY RefreshedType DEF TypeInv, TypeOK
    <2> QED
      BY <2>1 DEF Snapshot
  <1> QED
    BY <1>1 DEF Snapshot, TypeInv, TypeOK

LEMMA ReviewTypes ==
    ASSUME TypeInv, Review
    PROVE  TypeInv'
  <1>1. ASSUME NEW p \in Providers, ReviewProvider(p) PROVE TypeInv'
    BY <1>1 DEF ReviewProvider, TypeInv, TypeOK, ProviderRow
  <1>2. ASSUME NEW a \in Accounts, ReviewAccount(a) PROVE TypeInv'
    <2> DEFINE acct == Refreshed(accounts[a], a, outcomes, today)
    <2>1. acct \in AccountRow
      BY RefreshedType DEF TypeInv, TypeOK
    <2>2. /\ accounts' = [accounts EXCEPT ![a] = [acct EXCEPT !.status = "ACTIVE"]]
          /\ UNCHANGED <<today, providers, signals, positions, outcomes, performance>>
      BY <1>2 DEF ReviewAccount
    <2> HIDE DEF acct
    <2> QED
      BY <2>1, <2>2 DEF TypeInv, TypeOK, AccountRow
  <1> QED
    BY <1>1, <1>2 DEF Review

LEMMA ResearchTypes ==
    ASSUME TypeInv, Research
    PROVE  TypeInv'
  BY PolicyNumbers DEF Research, ResearchProvider, ResearchedRow, TypeInv, TypeOK, ProviderRow

LEMMA TickTypes ==
    ASSUME TypeInv, Tick
    PROVE  TypeInv'
  BY DEF Tick, TypeInv, TypeOK

LEMMA NextTypes == TypeInv /\ [Next]_vars => TypeInv'
  <1> SUFFICES ASSUME TypeInv, [Next]_vars PROVE TypeInv'
    OBVIOUS
  <1>1. CASE Evaluate
    <2>1. PICK r \in Requests : \E id \in StoredIds(r.signal), clock \in Readings :
             \/ Approve(accounts, providers, r, id, clock)
             \/ Refuse(accounts, providers, r, id, clock)
      BY <1>1 DEF Evaluate
    <2>2. PICK id \in StoredIds(r.signal), clock \in Readings :
             \/ Approve(accounts, providers, r, id, clock)
             \/ Refuse(accounts, providers, r, id, clock)
      BY <2>1
    <2>3. id \in Ids
      BY StoredIdsType DEF Requests
    <2> QED
      BY <2>2, <2>3, ReadingsAreDays, ApproveTypes, RefuseTypes
  <1>2. CASE EvaluateUnknownAccount
    BY <1>2, StoredIdsType, RefuseUnknownAccountTypes DEF EvaluateUnknownAccount
  <1>3. CASE ClosePosition
    BY <1>3, CloseTypes DEF ClosePosition
  <1>4. CASE \E late \in SUBSET Accounts, d \in Days : Snapshot(late, d)
    BY <1>4, SnapshotTypes
  <1>5. CASE Review
    BY <1>5, ReviewTypes
  <1>6. CASE Research
    BY <1>6, ResearchTypes
  <1>7. CASE Tick
    BY <1>7, TickTypes
  <1>8. CASE UNCHANGED vars
    BY <1>8 DEF vars, TypeInv, TypeOK
  <1> QED
    BY <1>1, <1>2, <1>3, <1>4, <1>5, <1>6, <1>7, <1>8 DEF Next

(***************************************************************************)
(* Every table of the ledger keeps its type under every operation.         *)
(***************************************************************************)
THEOREM LedgerTypes == Spec => []TypeOK
  <1>1. TypeInv => TypeOK
    BY DEF TypeInv
  <1> QED
    BY <1>1, InitTypes, NextTypes, PTL DEF Spec

(***************************************************************************)
(* Whatever the history of an account, the budget that is left of it buys  *)
(* the largest volume on the broker's grid that it affords: the columns    *)
(* refresh hands to PositionSizer are those that SizeIsLargest assumes.    *)
(***************************************************************************)
THEOREM LedgerSizesAreLargest == Spec => []SizeIsLargestAffordable
  <1>1. TypeInv => SizeIsLargestAffordable
    <2> SUFFICES ASSUME TypeInv, NEW a \in Accounts, NEW p \in Providers,
                        NEW o \in Offers \cup SizedOffers,
                        Budget(View(accounts[a], a, p, today)) >= 0
                 PROVE  LET budget == Budget(View(accounts[a], a, p, today))
                        IN  IsLargestAffordable(PositionSize(o, budget), o, budget)
      BY DEF SizeIsLargestAffordable
    <2> DEFINE v == View(accounts[a], a, p, today)
    <2>1. IsOffer(o)
      BY LedgerAssumption
    <2>2. IsView(v)
      BY ViewType DEF TypeInv, TypeOK
    <2>3. Budget(v) \in Nat
      <3> HIDE DEF v
      <3>1. Budget(v) \in Int
        BY <2>2, BudgetIsLeast
      <3> QED
        BY <3>1 DEF v
    <2> QED
      BY <2>1, <2>3, SizeIsLargest
  <1> QED
    BY <1>1, InitTypes, NextTypes, PTL DEF Spec

-----------------------------------------------------------------------------
\* The steps that neither open nor close a position.
Quiet ==
    \/ \E r \in Requests : \E id \in StoredIds(r.signal), clock \in Readings :
          Refuse(accounts, providers, r, id, clock)
    \/ EvaluateUnknownAccount
    \/ \E late \in SUBSET Accounts, d \in Days : Snapshot(late, d)
    \/ Review
    \/ Research
    \/ Tick
    \/ UNCHANGED vars

Approval ==
    \E r \in Requests : \E id \in StoredIds(r.signal), clock \in Readings :
        Approve(accounts, providers, r, id, clock)

LEMMA StepKinds ==
    ASSUME [Next]_vars
    PROVE  Approval \/ ClosePosition \/ Quiet
  BY Zenon DEF Next, Evaluate, Approval, Quiet

LEMMA QuietLeavesPositions ==
    ASSUME Quiet
    PROVE  positions' = positions /\ outcomes' = outcomes
  BY DEF Quiet, Refuse, EvaluateUnknownAccount, RefuseUnknownAccount, Snapshot,
         Review, ReviewProvider, ReviewAccount, Research, ResearchProvider, Tick, vars

\* An approved request with the facts its approval rests on.
LEMMA ApprovalStep ==
    ASSUME TypeInv, Approval
    PROVE  \E r \in Requests, id \in Ids, clock \in Readings, lots \in Nat :
              /\ id \in StoredIds(r.signal)
              /\ Approve(accounts, providers, r, id, clock)
              /\ lots = PositionSize(r.offer, Budget(ViewSeen(accounts, r, clock)))
              /\ Opening(r, id, lots)
  <1>1. PICK r \in Requests : \E id \in StoredIds(r.signal), clock \in Readings :
              Approve(accounts, providers, r, id, clock)
    BY DEF Approval
  <1>2. PICK id \in StoredIds(r.signal), clock \in Readings :
              Approve(accounts, providers, r, id, clock)
    BY <1>1
  <1>3. id \in Ids
    BY StoredIdsType DEF Requests
  <1>4. clock[1] \in Days /\ accounts \in [Accounts -> AccountRow]
    BY ReadingsAreDays DEF SeenOnDays
  <1>5. PICK lots \in Nat :
           /\ lots = PositionSize(r.offer, Budget(ViewSeen(accounts, r, clock)))
           /\ Opening(r, id, lots)
    BY <1>2, <1>3, <1>4, ApproveOpens
  <1> QED
    BY <1>2, <1>3, <1>5

-----------------------------------------------------------------------------
\* One open position per account.

LEMMA OpeningStaysOne ==
    ASSUME OneOpenPosition, NEW r, NEW id, NEW lots, Opening(r, id, lots)
    PROVE  OneOpenPosition'
  <1> DEFINE new == Opened(r, id, lots)
  <1>1. \A row \in positions : row.account = r.account => row.status # "OPEN"
    BY DEF Opening, OpenPositions
  <1>2. new.account = r.account
    BY DEF Opened
  <1>3. positions' = positions \cup {new}
    BY DEF Opening
  <1> HIDE DEF new
  <1> QED
    BY <1>1, <1>2, <1>3 DEF OneOpenPosition

LEMMA NextOneOpen ==
    ASSUME TypeInv, OneOpenPosition, [Next]_vars
    PROVE  OneOpenPosition'
  <1>1. CASE Approval
    BY <1>1, ApprovalStep, OpeningStaysOne
  <1>2. CASE ClosePosition
    <2>1. PICK row \in positions, exit \in Exits, clock \in Readings : Close(row, exit, clock)
      BY <1>2 DEF ClosePosition
    <2>2. positions' = (positions \ {row}) \cup {ClosedRow(row)}
      BY <2>1 DEF Close
    <2>3. ClosedRow(row).status = "CLOSED"
      BY <2>1 DEF ClosedRow, TypeInv, TypeOK, PositionRow
    <2> QED
      BY <2>2, <2>3 DEF OneOpenPosition
  <1>3. CASE Quiet
    BY <1>3, QuietLeavesPositions DEF OneOpenPosition
  <1> QED
    BY <1>1, <1>2, <1>3, StepKinds

(***************************************************************************)
(* An account never holds two open positions: the veto, applied to the     *)
(* positions recounted inside the transaction, is enough.                  *)
(***************************************************************************)
THEOREM LedgerOpensOne == Spec => []OneOpenPosition
  <1>1. Init => TypeInv /\ OneOpenPosition
    BY InitTypes DEF Init, OneOpenPosition
  <1>2. TypeInv /\ OneOpenPosition /\ [Next]_vars => TypeInv' /\ OneOpenPosition'
    BY NextTypes, NextOneOpen
  <1> QED
    BY <1>1, <1>2, PTL DEF Spec

-----------------------------------------------------------------------------
\* The consecutive-loss breaker.

LEMMA AfterOutcomeBreaks ==
    ASSUME NEW prov \in ProviderRow, NEW net
    PROVE  LET after == AfterOutcome(prov, net)
           IN  after.consecutive_losses >= Policy.provider_circuit_breaker_losses
                  => after.status # "ACTIVE"
  <1> DEFINE losses == IF net < 0 THEN prov.consecutive_losses + 1 ELSE 0
  <1>1. AfterOutcome(prov, net) =
          [prov EXCEPT !.consecutive_losses = losses,
                       !.status = IF BreakerTrips(losses) THEN "SUSPENDED" ELSE @]
    BY DEF AfterOutcome
  <1> HIDE DEF losses
  <1> QED
    BY <1>1 DEF BreakerTrips, ProviderRow

LEMMA NextBreaker ==
    ASSUME TypeInv, BreakerHolds, [Next]_vars
    PROVE  BreakerHolds'
  <1>1. ASSUME NEW r \in Requests, NEW id, NEW clock \in Readings,
               Refuse(accounts, providers, r, id, clock)
        PROVE  BreakerHolds'
    <2> DEFINE reasons == Reasons(accounts, providers, r, id, clock)
    <2>1. providers' = [providers EXCEPT ![r.provider].status =
              IF reasons \cap SuspendingReasons # {} /\ @ # "ABSENT" THEN "SUSPENDED" ELSE @]
      BY <1>1 DEF Refuse
    <2>2. r.provider \in Providers
      BY DEF Requests
    <2> HIDE DEF reasons
    <2> QED
      BY <2>1, <2>2 DEF BreakerHolds, TypeInv, TypeOK, ProviderRow
  <1>2. CASE ClosePosition
    <2>1. PICK row \in positions, exit \in Exits, clock \in Readings : Close(row, exit, clock)
      BY <1>2 DEF ClosePosition
    <2>2. row.provider \in Providers /\ providers[row.provider] \in ProviderRow
      BY <2>1 DEF TypeInv, TypeOK, PositionRow
    <2> DEFINE net == row.lots * row.offer.net[exit]
    <2>3. providers' = [providers EXCEPT ![row.provider] = AfterOutcome(@, net)]
      BY <2>1 DEF Close
    <2> HIDE DEF net
    <2>4. providers'[row.provider] = AfterOutcome(providers[row.provider], net)
      BY <2>2, <2>3 DEF TypeInv, TypeOK
    <2>5. \A p \in Providers \ {row.provider} : providers'[p] = providers[p]
      BY <2>3 DEF TypeInv, TypeOK
    <2> QED
      BY <2>2, <2>4, <2>5, AfterOutcomeBreaks DEF BreakerHolds
  <1>3. CASE Review
    <2>1. ASSUME NEW p \in Providers, ReviewProvider(p) PROVE BreakerHolds'
      <3>1. /\ providers'[p].consecutive_losses = 0
            /\ \A q \in Providers \ {p} : providers'[q] = providers[q]
        BY <2>1 DEF ReviewProvider, TypeInv, TypeOK, ProviderRow
      <3> QED
        BY <3>1, PolicyNumbers DEF BreakerHolds
    <2>2. ASSUME NEW a \in Accounts, ReviewAccount(a) PROVE BreakerHolds'
      <3>1. UNCHANGED providers
        BY <2>2 DEF ReviewAccount
      <3> QED
        BY <3>1 DEF BreakerHolds
    <2> QED
      BY <1>3, <2>1, <2>2 DEF Review
  <1>4. CASE Research
    BY <1>4 DEF Research, ResearchProvider, ResearchedRow, BreakerHolds, TypeInv, TypeOK
  <1>5. CASE UNCHANGED providers
    BY <1>5 DEF BreakerHolds
  <1>6. CASE Approval
    BY <1>5, <1>6 DEF Approval, Approve
  <1>7. CASE Quiet
    <2>1. CASE EvaluateUnknownAccount
      BY <1>5, <2>1 DEF EvaluateUnknownAccount, RefuseUnknownAccount
    <2>2. CASE (\E late \in SUBSET Accounts, d \in Days : Snapshot(late, d)) \/ Tick \/ UNCHANGED vars
      BY <1>5, <2>2 DEF Snapshot, Tick, vars
    <2> QED
      BY <1>1, <1>3, <1>4, <1>7, <2>1, <2>2, Zenon DEF Quiet
  <1> QED
    BY <1>2, <1>6, <1>7, StepKinds

(***************************************************************************)
(* A provider whose losses in a row reached the breaker is not active,     *)
(* whichever accounts they fell in.                                        *)
(***************************************************************************)
THEOREM LedgerBreakerHolds == Spec => []BreakerHolds
  <1>1. Init => TypeInv /\ BreakerHolds
    BY InitTypes, PolicyNumbers DEF Init, BreakerHolds, Fixture, ABSENT
  <1>2. TypeInv /\ BreakerHolds /\ [Next]_vars => TypeInv' /\ BreakerHolds'
    BY NextTypes, NextBreaker
  <1> QED
    BY <1>1, <1>2, PTL DEF Spec

-----------------------------------------------------------------------------
\* Signals, positions and outcomes agree.

ApprovedIds == {id \in Ids : signals[id] = "APPROVED_SIMULATED_TRADE"}

\* What a close books, with the fields of its row.
LEMMA CloseStep ==
    ASSUME TypeInv, ClosePosition
    PROVE  \E row \in positions, exit \in Exits, clock \in Readings :
              /\ Close(row, exit, clock)
              /\ row \in PositionRow /\ row.status = "OPEN"
              /\ positions' = (positions \ {row}) \cup {ClosedRow(row)}
              /\ outcomes' = outcomes \cup {Booked(row, exit, clock)}
              /\ Booked(row, exit, clock) \in OutcomeRow
  <1>1. PICK row \in positions, exit \in Exits, clock \in Readings : Close(row, exit, clock)
    BY DEF ClosePosition
  <1>2. row \in PositionRow /\ row.status = "OPEN"
    BY <1>1 DEF Close, TypeInv, TypeOK
  <1>3. outcomes' = outcomes \cup {Booked(row, exit, clock)}
    BY <1>1 DEF Close, Booked
  <1>4. positions' = (positions \ {row}) \cup {ClosedRow(row)}
    BY <1>1 DEF Close
  <1> QED
    BY <1>1, <1>2, <1>3, <1>4, BookedType

\* Closing a row changes its status only.
LEMMA ClosedRowFields ==
    ASSUME NEW row \in PositionRow
    PROVE  LET closed == ClosedRow(row)
           IN  /\ closed.status = "CLOSED"
               /\ closed.id = row.id /\ closed.signal = row.signal
               /\ closed.account = row.account /\ closed.provider = row.provider
               /\ closed.offer = row.offer /\ closed.lots = row.lots
  BY DEF ClosedRow, PositionRow

\* No close loses more than the position reserved.
LEMMA BookedWithinReserve ==
    ASSUME NEW row \in PositionRow, NEW exit \in Exits, NEW clock
    PROVE  -Booked(row, exit, clock).net <= row.lots * row.offer.unit_loss
  <1>1. /\ row.lots \in Nat /\ row.offer.net[exit] \in Int /\ row.offer.unit_loss \in Nat
        /\ -row.offer.unit_loss <= row.offer.net[exit]
    BY OfferRecord DEF PositionRow
  <1>2. (-row.offer.unit_loss) * row.lots <= row.offer.net[exit] * row.lots
    BY <1>1, ProductMonotone
  <1>3. -(row.lots * row.offer.net[exit]) <= row.lots * row.offer.unit_loss
    BY <1>1, <1>2
  <1> QED
    BY <1>3 DEF Booked

LEMMA OpeningSettles ==
    ASSUME TypeInv, OutcomesSettlePositions,
           NEW r, NEW id \in Ids, NEW lots, Opening(r, id, lots)
    PROVE  OutcomesSettlePositions'
  <1> DEFINE new == Opened(r, id, lots)
  <1>1. /\ signals[id] = "NONE"
        /\ positions' = positions \cup {new}
        /\ signals' = [signals EXCEPT ![id] = "APPROVED_SIMULATED_TRADE"]
        /\ outcomes' = outcomes
    BY DEF Opening
  <1>2. new.id = id /\ new.status = "OPEN"
    BY DEF Opened
  <1> HIDE DEF new
  <1>3. \A row \in positions : row.id # id
    BY <1>1 DEF OutcomesSettlePositions
  <1>4. \A o \in outcomes : o.id # id
    BY <1>3 DEF OutcomesSettlePositions
  <1>5. ApprovedIds' = {row.id : row \in positions'}
    <2>1. ApprovedIds' = ApprovedIds \cup {id}
      BY <1>1 DEF ApprovedIds, TypeInv, TypeOK
    <2>2. {row.id : row \in positions'} = {row.id : row \in positions} \cup {id}
      BY <1>1, <1>2
    <2> QED
      BY <2>1, <2>2 DEF OutcomesSettlePositions, ApprovedIds
  <1>6. \A row1, row2 \in positions' : row1.id = row2.id => row1 = row2
    BY <1>1, <1>2, <1>3 DEF OutcomesSettlePositions
  <1>7. \A row \in positions' : row.status = "CLOSED" <=> \E o \in outcomes' : o.id = row.id
    BY <1>1, <1>2, <1>4 DEF OutcomesSettlePositions
  <1>8. positions \subseteq positions'
    BY <1>1
  <1> QED
    BY <1>1, <1>5, <1>6, <1>7, <1>8 DEF OutcomesSettlePositions, ApprovedIds

LEMMA ApprovalSettles ==
    ASSUME TypeInv, OutcomesSettlePositions, Approval
    PROVE  OutcomesSettlePositions'
  BY ApprovalStep, OpeningSettles

LEMMA CloseSettles ==
    ASSUME TypeInv, OutcomesSettlePositions, ClosePosition
    PROVE  OutcomesSettlePositions'
  <1>1. PICK row \in positions, exit \in Exits, clock \in Readings :
           /\ Close(row, exit, clock)
           /\ row \in PositionRow /\ row.status = "OPEN"
           /\ positions' = (positions \ {row}) \cup {ClosedRow(row)}
           /\ outcomes' = outcomes \cup {Booked(row, exit, clock)}
    BY CloseStep
  <1> DEFINE closed == ClosedRow(row)
             booked == Booked(row, exit, clock)
  <1>2. /\ closed.status = "CLOSED" /\ closed.id = row.id
        /\ closed.account = row.account /\ closed.provider = row.provider
        /\ closed.offer = row.offer /\ closed.lots = row.lots
    BY <1>1, ClosedRowFields
  <1>3. /\ booked.id = row.id /\ booked.account = row.account
        /\ booked.provider = row.provider
    BY DEF Booked
  <1>4. -booked.net <= closed.lots * closed.offer.unit_loss
    BY <1>1, <1>2, BookedWithinReserve
  <1>5. positions' = (positions \ {row}) \cup {closed} /\ outcomes' = outcomes \cup {booked}
    BY <1>1
  <1>6. signals' = signals
    BY <1>1 DEF Close
  <1> HIDE DEF closed, booked
  <1>7. \A o \in outcomes : o.id # row.id
    BY <1>1 DEF OutcomesSettlePositions
  <1>8. \A other \in positions \ {row} : other.id # row.id
    BY DEF OutcomesSettlePositions
  <1>9. {other.id : other \in positions'} = {other.id : other \in positions}
    <2>1. {other.id : other \in positions'} \subseteq {other.id : other \in positions}
      BY <1>2, <1>5
    <2>2. {other.id : other \in positions} \subseteq {other.id : other \in positions'}
      <3>1. ASSUME NEW other \in positions PROVE \E x \in positions' : x.id = other.id
        <4>1. CASE other = row
          BY <4>1, <1>2, <1>5
        <4>2. CASE other # row
          BY <4>2, <1>5
        <4> QED
          BY <4>1, <4>2
      <3> QED
        BY <3>1
    <2> QED
      BY <2>1, <2>2
  <1>10. \A row1, row2 \in positions' : row1.id = row2.id => row1 = row2
    BY <1>2, <1>5, <1>8 DEF OutcomesSettlePositions
  <1>11. \A o1, o2 \in outcomes' : o1.id = o2.id => o1 = o2
    BY <1>3, <1>5, <1>7 DEF OutcomesSettlePositions
  <1>12. \A x \in positions' : x.status = "CLOSED" <=> \E o \in outcomes' : o.id = x.id
    <2>1. ASSUME NEW x \in positions \ {row}
          PROVE  x.status = "CLOSED" <=> \E o \in outcomes' : o.id = x.id
      BY <1>3, <1>5, <1>8 DEF OutcomesSettlePositions
    <2>2. closed.status = "CLOSED" /\ \E o \in outcomes' : o.id = closed.id
      BY <1>2, <1>3, <1>5
    <2> QED
      BY <1>5, <2>1, <2>2
  <1>13. \A o \in outcomes' : \E x \in positions' :
            /\ x.id = o.id
            /\ x.account = o.account /\ x.provider = o.provider
            /\ -o.net <= x.lots * x.offer.unit_loss
    <2>1. ASSUME NEW o \in outcomes PROVE \E x \in positions \ {row} :
            /\ x.id = o.id
            /\ x.account = o.account /\ x.provider = o.provider
            /\ -o.net <= x.lots * x.offer.unit_loss
      BY <1>7 DEF OutcomesSettlePositions
    <2>2. \A o \in outcomes : \E x \in positions' :
            /\ x.id = o.id
            /\ x.account = o.account /\ x.provider = o.provider
            /\ -o.net <= x.lots * x.offer.unit_loss
      BY <2>1, <1>5
    <2> QED
      BY <2>2, <1>2, <1>3, <1>4, <1>5
  <1> QED
    BY <1>6, <1>9, <1>10, <1>11, <1>12, <1>13 DEF OutcomesSettlePositions

\* A refusal never marks a signal approved and never unmarks one.
LEMMA RefuseSettles ==
    ASSUME TypeInv, NEW accts, NEW provs, NEW r, NEW id \in Ids, NEW clock,
           Refuse(accts, provs, r, id, clock)
    PROVE  ApprovedIds' = ApprovedIds
  <1> DEFINE reasons == Reasons(accts, provs, r, id, clock)
  <1>1. signals' = [signals EXCEPT ![id] =
            IF @ # "NONE" THEN @
            ELSE IF reasons = {"INSUFFICIENT_EVIDENCE"} THEN "WATCHLIST" ELSE "NO_TRADE"]
    BY DEF Refuse
  <1> HIDE DEF reasons
  <1> QED
    BY <1>1 DEF ApprovedIds, TypeInv, TypeOK

LEMMA StaysSettled ==
    ASSUME OutcomesSettlePositions, ApprovedIds' = ApprovedIds,
           positions' = positions, outcomes' = outcomes
    PROVE  OutcomesSettlePositions'
  BY DEF OutcomesSettlePositions, ApprovedIds

LEMMA QuietSettles ==
    ASSUME TypeInv, OutcomesSettlePositions, Quiet
    PROVE  OutcomesSettlePositions'
  <1>1. SUFFICES ApprovedIds' = ApprovedIds
    BY QuietLeavesPositions, StaysSettled
  <1>3. CASE EvaluateUnknownAccount
    <2>1. PICK id \in Ids : RefuseUnknownAccount(id)
      BY <1>3, StoredIdsType DEF EvaluateUnknownAccount
    <2> QED
      BY <2>1 DEF RefuseUnknownAccount, ApprovedIds, TypeInv, TypeOK
  <1>4. CASE UNCHANGED signals
    BY <1>4 DEF ApprovedIds
  <1>5. CASE \E r \in Requests : \E id \in StoredIds(r.signal), clock \in Readings :
                Refuse(accounts, providers, r, id, clock)
    BY <1>5, RefuseSettles, StoredIdsType DEF Requests
  <1> QED
    BY <1>3, <1>4, <1>5
       DEF Quiet, Snapshot, Review, ReviewProvider, ReviewAccount, Research,
           ResearchProvider, Tick, vars

LEMMA NextSettles ==
    ASSUME TypeInv, OutcomesSettlePositions, [Next]_vars
    PROVE  OutcomesSettlePositions'
  BY ApprovalSettles, CloseSettles, QuietSettles, StepKinds

(***************************************************************************)
(* Approved signals, positions and outcomes agree: one position for every  *)
(* approved signal, one outcome for every closed position, and no outcome  *)
(* lost more than its position reserved.                                   *)
(***************************************************************************)
THEOREM LedgerTablesAgree == Spec => []OutcomesSettlePositions
  <1>1. Init => TypeInv /\ OutcomesSettlePositions
    BY InitTypes DEF Init, OutcomesSettlePositions
  <1>2. TypeInv /\ OutcomesSettlePositions /\ [Next]_vars
           => TypeInv' /\ OutcomesSettlePositions'
    BY NextTypes, NextSettles
  <1> QED
    BY <1>1, <1>2, PTL DEF Spec

-----------------------------------------------------------------------------
\* A submitted id that is stored as it is opens one position.

IdsKept == \A row \in positions : row.signal \notin LongIds => row.id = row.signal

LEMMA NextIdsKept ==
    ASSUME TypeInv, IdsKept, [Next]_vars
    PROVE  IdsKept'
  <1>1. CASE Approval
    <2>1. PICK r \in Requests, id \in Ids, clock \in Readings, lots \in Nat :
             /\ id \in StoredIds(r.signal)
             /\ positions' = positions \cup {Opened(r, id, lots)}
      BY <1>1, ApprovalStep DEF Opening
    <2> DEFINE new == Opened(r, id, lots)
    <2>2. new.signal = r.signal /\ new.id = id
      BY DEF Opened
    <2> HIDE DEF new
    <2>3. r.signal \notin LongIds => id = r.signal
      BY <2>1 DEF StoredIds
    <2> QED
      BY <2>1, <2>2, <2>3 DEF IdsKept, new
  <1>2. CASE ClosePosition
    <2>1. PICK row \in positions, exit \in Exits, clock \in Readings :
             /\ row \in PositionRow
             /\ positions' = (positions \ {row}) \cup {ClosedRow(row)}
      BY <1>2, CloseStep
    <2>2. ClosedRow(row).id = row.id /\ ClosedRow(row).signal = row.signal
      BY <2>1, ClosedRowFields
    <2> QED
      BY <2>1, <2>2 DEF IdsKept
  <1>3. CASE Quiet
    BY <1>3, QuietLeavesPositions DEF IdsKept
  <1> QED
    BY <1>1, <1>2, <1>3, StepKinds

(***************************************************************************)
(* While no submitted id is longer than 200 characters, a signal opens at  *)
(* most one position.  The hypothesis is needed: the run ledger_long_ids   *)
(* violates the property without it.                                       *)
(***************************************************************************)
THEOREM ShortSignalsOpenOnce ==
    ASSUME LongIds = {}
    PROVE  Spec => []SignalOpensOnce
  <1> DEFINE Inv == TypeInv /\ OutcomesSettlePositions /\ IdsKept
  <1>1. Init => Inv
    BY InitTypes DEF Init, OutcomesSettlePositions, IdsKept
  <1>2. Inv /\ [Next]_vars => Inv'
    BY NextTypes, NextSettles, NextIdsKept
  <1>3. Inv => SignalOpensOnce
    BY DEF OutcomesSettlePositions, IdsKept, SignalOpensOnce
  <1> QED
    BY <1>1, <1>2, <1>3, PTL DEF Spec

-----------------------------------------------------------------------------
\* Equity and the booked results.

BookedNet(a) == SumFunction([o \in BookedIn(a) |-> o.net])

LEMMA BookedNetType ==
    ASSUME TypeInv, NEW a
    PROVE  /\ IsFiniteSet(BookedIn(a))
           /\ [o \in BookedIn(a) |-> o.net] \in [BookedIn(a) -> Int]
  <1>1. IsFiniteSet(BookedIn(a)) /\ BookedIn(a) \subseteq OutcomeRow
    BY FS_Subset DEF BookedIn, TypeInv, TypeOK
  <1> QED
    BY <1>1 DEF OutcomeRow

\* What an operation that books nothing does to the stored equity: nothing.
LEMMA QuietKeepsEquity ==
    ASSUME TypeInv, Quiet, NEW a \in Accounts
    PROVE  /\ accounts'[a].equity = accounts[a].equity
           /\ accounts'[a].starting_equity = accounts[a].starting_equity
  <1> DEFINE Kept == /\ accounts'[a].equity = accounts[a].equity
                     /\ accounts'[a].starting_equity = accounts[a].starting_equity
  <1> SUFFICES Kept
    OBVIOUS
  <1>1. ASSUME NEW b \in Accounts, NEW acct \in AccountRow,
               accounts' = [accounts EXCEPT ![b] = acct],
               acct.equity = accounts[b].equity,
               acct.starting_equity = accounts[b].starting_equity
        PROVE  Kept
    BY <1>1 DEF TypeInv, TypeOK
  <1>2. \A b \in Accounts, d \in Days :
           LET seen == Refreshed(accounts[b], b, outcomes, d)
           IN  /\ seen \in AccountRow
               /\ seen.equity = accounts[b].equity
               /\ seen.starting_equity = accounts[b].starting_equity
    BY RefreshedType DEF TypeInv, TypeOK
  <1>3. today \in Days
    BY DEF TypeInv, TypeOK
  <1>4. ASSUME NEW r \in Requests, NEW id, NEW clock \in Readings,
               Refuse(accounts, providers, r, id, clock)
        PROVE  Kept
    <2> DEFINE seen == AccountSeen(accounts, r, clock)
    <2>1. r.account \in Accounts /\ clock[1] \in Days
      BY ClockType DEF Requests, TypeInv
    <2>2. accounts' = [accounts EXCEPT ![r.account] = seen]
      BY <1>4 DEF Refuse
    <2>3. /\ seen \in AccountRow
          /\ seen.equity = accounts[r.account].equity
          /\ seen.starting_equity = accounts[r.account].starting_equity
      BY <1>2, <2>1 DEF AccountSeen
    <2> HIDE DEF seen, Kept
    <2> QED
      BY <1>1, <2>1, <2>2, <2>3
  <1>5. ASSUME NEW b \in Accounts, ReviewAccount(b) PROVE Kept
    <2> DEFINE seen == Refreshed(accounts[b], b, outcomes, today)
               acct == [seen EXCEPT !.status = "ACTIVE"]
    <2>1. /\ seen \in AccountRow
          /\ seen.equity = accounts[b].equity
          /\ seen.starting_equity = accounts[b].starting_equity
      BY <1>2, <1>3
    <2>2. accounts' = [accounts EXCEPT ![b] = acct]
      BY <1>5 DEF ReviewAccount
    <2> HIDE DEF seen
    <2>3. /\ acct \in AccountRow
          /\ acct.equity = accounts[b].equity
          /\ acct.starting_equity = accounts[b].starting_equity
      BY <2>1 DEF AccountRow
    <2> HIDE DEF acct, Kept
    <2> QED
      BY <1>1, <2>2, <2>3
  <1>6. ASSUME NEW late \in SUBSET Accounts, NEW d \in Days, Snapshot(late, d) PROVE Kept
    <2>1. accounts'[a] = Refreshed(accounts[a], a, outcomes, IF a \in late THEN d ELSE today)
      BY <1>6 DEF Snapshot
    <2> QED
      BY <1>2, <1>3, <2>1
  <1>7. CASE UNCHANGED accounts
    BY <1>7
  <1> HIDE DEF Kept
  <1>8. CASE EvaluateUnknownAccount \/ Research \/ Tick \/ UNCHANGED vars
    BY <1>7, <1>8 DEF EvaluateUnknownAccount, RefuseUnknownAccount, Research,
                      ResearchProvider, Tick, vars
  <1>9. CASE Review
    BY <1>5, <1>7, <1>9 DEF Review, ReviewProvider
  <1> QED
    BY <1>4, <1>6, <1>8, <1>9, Zenon DEF Quiet

\* An approval refreshes its account and keeps every equity.
LEMMA ApprovalKeepsEquity ==
    ASSUME TypeInv, Approval, NEW a \in Accounts
    PROVE  /\ accounts'[a].equity = accounts[a].equity
           /\ accounts'[a].starting_equity = accounts[a].starting_equity
  <1>1. PICK r \in Requests, id \in Ids, clock \in Readings :
           Approve(accounts, providers, r, id, clock)
    BY ApprovalStep
  <1> DEFINE seen == AccountSeen(accounts, r, clock)
             again == Refreshed(seen, r.account, outcomes, clock[3])
  <1>2. r.account \in Accounts /\ clock[1] \in Days /\ clock[3] \in Days
    BY ClockType DEF Requests, TypeInv
  <1>3. /\ seen \in AccountRow
        /\ seen.equity = accounts[r.account].equity
        /\ seen.starting_equity = accounts[r.account].starting_equity
    BY <1>2, RefreshedType DEF AccountSeen, TypeInv, TypeOK
  <1>4. again.equity = seen.equity /\ again.starting_equity = seen.starting_equity
    BY <1>2, <1>3, RefreshedType
  <1>5. accounts' = [accounts EXCEPT ![r.account] = again]
    BY <1>1 DEF Approve
  <1> HIDE DEF seen, again
  <1> QED
    BY <1>2, <1>3, <1>4, <1>5 DEF TypeInv, TypeOK

\* A close pays its result out to its account and to no other.
LEMMA CloseKeepsEquity ==
    ASSUME TypeInv, NEW row \in positions, NEW exit \in Exits, NEW clock \in Readings,
           Close(row, exit, clock), NEW a \in Accounts
    PROVE  /\ accounts'[a].starting_equity = accounts[a].starting_equity
           /\ accounts'[a].equity =
                 IF a = row.account
                 THEN accounts[a].equity + Booked(row, exit, clock).net
                 ELSE accounts[a].equity
  <1> DEFINE net == Booked(row, exit, clock).net
             paid == [accounts[row.account] EXCEPT !.equity = @ + net]
             after == Refreshed(paid, row.account, outcomes', clock[2])
  <1>1. row.account \in Accounts /\ clock[2] \in Days
    BY ClockType DEF TypeInv, TypeOK, PositionRow
  <1>2. net \in Int
    BY BookedType DEF OutcomeRow
  <1>3. accounts' = [accounts EXCEPT ![row.account] = after]
    BY DEF Close, AfterClose, Booked
  <1> HIDE DEF net
  <1>4. /\ paid \in AccountRow
        /\ paid.equity = accounts[row.account].equity + net
        /\ paid.starting_equity = accounts[row.account].starting_equity
    <2> DEFINE acct == accounts[row.account]
    <2>1. acct \in AccountRow
      BY <1>1 DEF TypeInv, TypeOK
    <2>2. paid = [acct EXCEPT !.equity = acct.equity + net]
      OBVIOUS
    <2> HIDE DEF acct, paid
    <2>3. /\ paid \in AccountRow
          /\ paid.equity = acct.equity + net
          /\ paid.starting_equity = acct.starting_equity
      BY <1>2, <2>1, <2>2 DEF AccountRow
    <2> QED
      BY <2>3 DEF acct
  <1> HIDE DEF paid
  <1>5. after.equity = paid.equity /\ after.starting_equity = paid.starting_equity
    BY <1>1, <1>4, RefreshedType
  <1> HIDE DEF after
  <1> QED
    BY <1>1, <1>3, <1>4, <1>5 DEF TypeInv, TypeOK, net

LEMMA NextReconciles ==
    ASSUME TypeInv, OutcomesSettlePositions, EquityReconciles, [Next]_vars
    PROVE  EquityReconciles'
  <1> SUFFICES ASSUME NEW a \in Accounts
               PROVE  accounts'[a].equity = accounts'[a].starting_equity + BookedNet(a)'
    BY DEF EquityReconciles, BookedNet
  <1>1. accounts[a].equity = accounts[a].starting_equity + BookedNet(a)
    BY Zenon DEF EquityReconciles, BookedNet
  <1>2. ASSUME outcomes' = outcomes PROVE BookedNet(a)' = BookedNet(a)
    <2>1. BookedIn(a)' = BookedIn(a)
      BY <1>2 DEF BookedIn
    <2> QED
      BY <2>1 DEF BookedNet
  <1>3. CASE Approval
    <2>1. outcomes' = outcomes
      BY <1>3 DEF Approval, Approve
    <2> QED
      BY <1>1, <1>2, <1>3, <2>1, ApprovalKeepsEquity
  <1>4. CASE Quiet
    BY <1>1, <1>2, <1>4, QuietLeavesPositions, QuietKeepsEquity
  <1>5. CASE ClosePosition
    <2>1. PICK row \in positions, exit \in Exits, clock \in Readings :
             /\ Close(row, exit, clock)
             /\ row.status = "OPEN"
             /\ outcomes' = outcomes \cup {Booked(row, exit, clock)}
             /\ Booked(row, exit, clock) \in OutcomeRow
      BY <1>5, CloseStep
    <2> DEFINE booked == Booked(row, exit, clock)
    <2>2. booked.account = row.account /\ booked.id = row.id
      BY DEF Booked
    <2>3. /\ accounts'[a].starting_equity = accounts[a].starting_equity
          /\ accounts'[a].equity = IF a = row.account THEN accounts[a].equity + booked.net
                                                      ELSE accounts[a].equity
      BY <2>1, CloseKeepsEquity
    <2>4. booked \in OutcomeRow /\ outcomes' = outcomes \cup {booked}
      BY <2>1
    <2> HIDE DEF booked
    <2>5. CASE a # row.account
      <3>1. BookedIn(a)' = BookedIn(a)
        BY <2>2, <2>4, <2>5 DEF BookedIn
      <3>2. BookedNet(a)' = BookedNet(a)
        BY <3>1 DEF BookedNet
      <3> QED
        BY <1>1, <2>3, <2>5, <3>2
    <2>6. CASE a = row.account
      <3>1. BookedIn(a)' = BookedIn(a) \cup {booked}
        BY <2>2, <2>4, <2>6 DEF BookedIn
      <3>2. booked \notin BookedIn(a)
        BY <2>1, <2>2 DEF OutcomesSettlePositions, BookedIn
      <3> DEFINE f == [o \in BookedIn(a) \cup {booked} |-> o.net]
                 g == [o \in BookedIn(a) |-> o.net]
      <3>3. IsFiniteSet(BookedIn(a)) /\ g \in [BookedIn(a) -> Int]
        BY BookedNetType
      <3>4. /\ \A o \in BookedIn(a) : f[o] = g[o]
            /\ f[booked] = booked.net
        OBVIOUS
      <3>5. f \in [BookedIn(a) \cup {booked} -> Int]
        <4>1. BookedIn(a) \subseteq OutcomeRow
          BY DEF BookedIn, TypeInv, TypeOK
        <4> QED
          BY <4>1, <2>4 DEF OutcomeRow
      <3>6. BookedNet(a)' = SumFunction(f)
        BY <3>1 DEF BookedNet
      <3>7. BookedNet(a) = SumFunction(g)
        BY DEF BookedNet
      <3> HIDE DEF f, g
      <3>8. SumFunction(f) = f[booked] + SumFunction(g)
        BY <3>2, <3>3, <3>4, <3>5, WholeSumAdd
      <3>9. booked.net \in Int /\ SumFunction(g) \in Int
        BY <2>4, <3>3, SumType DEF OutcomeRow, SumFunction
      <3>10. accounts[a].equity \in Int /\ accounts[a].starting_equity \in Int
        BY DEF TypeInv, TypeOK, AccountRow
      <3> QED
        BY <1>1, <2>3, <2>6, <3>4, <3>6, <3>7, <3>8, <3>9, <3>10
    <2> QED
      BY <2>5, <2>6
  <1> QED
    BY <1>3, <1>4, <1>5, StepKinds

LEMMA InitReconciles == Init => EquityReconciles
  <1> SUFFICES ASSUME Init PROVE EquityReconciles
    OBVIOUS
  <1>1. ASSUME NEW a \in Accounts PROVE SumFunction([o \in BookedIn(a) |-> o.net]) = 0
    <2>1. BookedIn(a) = {}
      BY DEF Init, BookedIn
    <2> QED
      BY <2>1, WholeSumEmpty
  <1> QED
    BY <1>1, LedgerAssumption DEF Init, EquityReconciles

(***************************************************************************)
(* Equity is the starting equity plus every booked result: no operation    *)
(* writes an older row back over a payout.                                 *)
(***************************************************************************)
THEOREM LedgerReconciles == Spec => []EquityReconciles
  <1> DEFINE Inv == TypeInv /\ OutcomesSettlePositions /\ EquityReconciles
  <1>1. Init => Inv
    BY InitTypes, InitReconciles DEF Init, OutcomesSettlePositions
  <1>2. Inv /\ [Next]_vars => Inv'
    BY NextTypes, NextSettles, NextReconciles
  <1> QED
    BY <1>1, <1>2, PTL DEF Spec

-----------------------------------------------------------------------------
\* What an approval has established about its account and its position.

Started == \A a \in Accounts : accounts[a].starting_equity = Profiles[a]

LEMMA NextStarted ==
    ASSUME TypeInv, Started, [Next]_vars
    PROVE  Started'
  <1>1. CASE ClosePosition
    BY <1>1, CloseStep, CloseKeepsEquity DEF Started
  <1> QED
    BY <1>1, ApprovalKeepsEquity, QuietKeepsEquity, StepKinds DEF Started

\* The budget and the volume of an approved request, in the terms of the ledger.
LEMMA ApprovedSize ==
    ASSUME TypeInv, Started, NEW r \in Requests, NEW id \in Ids, NEW clock \in Readings,
           Approve(accounts, providers, r, id, clock),
           NEW lots \in Nat,
           lots = PositionSize(r.offer, Budget(ViewSeen(accounts, r, clock)))
    PROVE  LET acct == accounts[r.account]
               v == ViewSeen(accounts, r, clock)
               loss == lots * r.offer.unit_loss
               margin == lots * r.offer.margin
           IN  /\ IsView(v)
               /\ Budget(v) > 0
               /\ Baseline(v) = StopBaseline(acct)
               /\ loss * Scale <= Budget(v)
               /\ margin * Scale <= acct.equity * Policy.max_margin_fraction
               /\ margin * Scale <= acct.equity * Policy.provider_allocation_fraction
               /\ margin # 0 => margin * Policy.min_margin_level <= (acct.equity - loss) * 100
               /\ ProviderReasons(providers[r.provider]) = {}
  <1> DEFINE acct == accounts[r.account]
             v == ViewSeen(accounts, r, clock)
             loss == lots * r.offer.unit_loss
             margin == lots * r.offer.margin
  <1>1. r.account \in Accounts /\ r.offer \in Offers
    BY DEF Requests
  <1>2. Reasons(accounts, providers, r, id, clock) = {}
    BY DEF Approve
  <1>3. /\ OpenPositions(r.account) = {}
        /\ IsView(v) /\ IsOffer(r.offer)
        /\ EngineReasons(v, providers[r.provider], r.offer, r.fault) = {}
    BY <1>2, ApprovalFacts, ReadingsAreDays DEF SeenOnDays
  <1>4. acct \in AccountRow /\ clock[1] \in Days
    BY <1>1, ClockType DEF TypeInv, TypeOK
  <1>5. v.equity = acct.equity /\ v.profile = acct.starting_equity
    <2>1. v.equity = AccountSeen(accounts, r, clock).equity /\ v.profile = Profiles[r.account]
      BY DEF ViewSeen, View
    <2> QED
      BY <1>1, <1>4, <2>1, RefreshedType DEF AccountSeen, Started
  <1>6. v.used_margin = 0 /\ v.reserved_risk = 0
    <2>1. v.used_margin = UsedMargin(r.account) /\ v.reserved_risk = ReservedRisk(r.account)
      BY DEF ViewSeen, View
    <2> QED
      BY <1>3, <2>1, WholeSumEmpty DEF UsedMargin, ReservedRisk
  <1>7. Baseline(v) = StopBaseline(acct)
    BY <1>5 DEF Baseline, StopBaseline
  <1>8. /\ Budget(v) > 0
        /\ ScaledLoss(r.offer, lots) <= Budget(v)
        /\ (v.used_margin + margin) * Scale <= v.equity * Policy.max_margin_fraction
        /\ margin * Scale <= v.equity * Policy.provider_allocation_fraction
        /\ v.used_margin + margin # 0 =>
              (v.used_margin + margin) * Policy.min_margin_level
                <= (v.equity - lots * r.offer.unit_loss - v.reserved_risk) * 100
        /\ ProviderReasons(providers[r.provider]) = {}
    BY <1>3, ApprovalFitsEveryBudget
  <1>9. margin \in Nat /\ loss \in Nat /\ acct.equity \in Int
    BY <1>1, <1>4, OfferRecord DEF AccountRow
  <1>10. loss * Scale = ScaledLoss(r.offer, lots)
    BY DEF ScaledLoss
  <1>11. v.used_margin + margin = margin
    BY <1>6, <1>9
  <1>12. v.equity - lots * r.offer.unit_loss - v.reserved_risk = acct.equity - loss
    BY <1>5, <1>6, <1>9
  <1>13. margin * Scale <= acct.equity * Policy.max_margin_fraction
    BY <1>5, <1>8, <1>11
  <1>14. margin # 0 => margin * Policy.min_margin_level <= (acct.equity - loss) * 100
    BY <1>8, <1>11, <1>12
  <1> HIDE DEF acct, v, loss, margin
  <1>15. /\ IsView(v) /\ Budget(v) > 0
         /\ Baseline(v) = StopBaseline(acct)
         /\ loss * Scale <= Budget(v)
         /\ margin * Scale <= acct.equity * Policy.max_margin_fraction
         /\ margin * Scale <= acct.equity * Policy.provider_allocation_fraction
         /\ margin # 0 => margin * Policy.min_margin_level <= (acct.equity - loss) * 100
         /\ ProviderReasons(providers[r.provider]) = {}
    BY <1>3, <1>5, <1>7, <1>8, <1>10, <1>13, <1>14
  <1> QED
    BY <1>15 DEF acct, v, loss, margin

-----------------------------------------------------------------------------
\* The risk and the margin of an open position.

\* The risk of one trade is at most a two-hundredth of the equity, so it leaves some.
LEMMA RiskIsSmall ==
    ASSUME NEW loss \in Nat, NEW base \in Int,
           loss * Scale <= base * Policy.risk_fraction
    PROVE  base >= 0 /\ 200 * loss <= base
  <1> DEFINE f == Policy.risk_fraction
  <1>1. Scale \in Nat \ {0} /\ f \in Nat \ {0} /\ 1000 * f <= 5 * Scale
    BY PolicyNumbers
  <1> HIDE DEF f
  <1>2. base >= 0
    <2>1. loss * Scale \in Nat
      BY <1>1
    <2>2. 0 * f <= base * f
      BY <1>1, <2>1 DEF f
    <2> QED
      BY <1>1, <2>2, ProductStrict
  <1>3. (1000 * f) * base <= (5 * Scale) * base
    BY <1>1, <1>2, ProductMonotone
  <1>4. (1000 * loss) * Scale <= (5 * base) * Scale
    <2>1. 1000 * (loss * Scale) <= 1000 * (base * f)
      BY <1>1 DEF f
    <2>2. 1000 * (loss * Scale) = (1000 * loss) * Scale
      BY <1>1
    <2>3. 1000 * (base * f) = (1000 * f) * base
      BY <1>1
    <2>4. (5 * Scale) * base = (5 * base) * Scale
      BY <1>1
    <2>5. (1000 * loss) * Scale \in Int /\ (1000 * f) * base \in Int /\ (5 * base) * Scale \in Int
      BY <1>1
    <2> QED
      BY <1>3, <2>1, <2>2, <2>3, <2>4, <2>5
  <1>5. 1000 * loss <= 5 * base
    BY <1>1, <1>4, ProductStrict
  <1> QED
    BY <1>2, <1>5

LEMMA ApprovedFits ==
    ASSUME TypeInv, Started, NEW r \in Requests, NEW id \in Ids, NEW clock \in Readings,
           Approve(accounts, providers, r, id, clock),
           NEW lots \in Nat,
           lots = PositionSize(r.offer, Budget(ViewSeen(accounts, r, clock)))
    PROVE  RiskFits(Opened(r, id, lots), accounts[r.account])
  <1> DEFINE acct == accounts[r.account]
             v == ViewSeen(accounts, r, clock)
             loss == lots * r.offer.unit_loss
             margin == lots * r.offer.margin
  <1>1. /\ IsView(v) /\ Baseline(v) = StopBaseline(acct)
        /\ loss * Scale <= Budget(v)
        /\ margin * Scale <= acct.equity * Policy.max_margin_fraction
        /\ margin * Scale <= acct.equity * Policy.provider_allocation_fraction
        /\ margin # 0 => margin * Policy.min_margin_level <= (acct.equity - loss) * 100
    BY ApprovedSize
  <1>2. r.account \in Accounts /\ r.offer \in Offers
    BY DEF Requests
  <1>3. loss \in Nat /\ margin \in Nat /\ acct \in AccountRow
    BY <1>2, OfferRecord DEF TypeInv, TypeOK
  <1>4. /\ Opened(r, id, lots).lots * Opened(r, id, lots).offer.unit_loss = loss
        /\ Opened(r, id, lots).lots * Opened(r, id, lots).offer.margin = margin
    BY DEF Opened
  <1> HIDE DEF loss, margin, acct
  <1>5. acct.equity \in Int /\ StopBaseline(acct) \in Int /\ StopBaseline(acct) <= acct.equity
    BY <1>3 DEF AccountRow, StopBaseline, Lesser
  <1>6. loss * Scale <= StopBaseline(acct) * Policy.risk_fraction
    <2>1. Budget(v) \in Int /\ Budget(v) <= StopBaseline(acct) * Policy.risk_fraction
      BY <1>1, BudgetIsLeast
    <2>2. loss * Scale \in Int /\ StopBaseline(acct) * Policy.risk_fraction \in Int
      BY <1>3, <1>5, PolicyNumbers
    <2> HIDE DEF v
    <2> QED
      BY <1>1, <2>1, <2>2
  <1>7. margin * Policy.min_margin_level <= 100 * (acct.equity - loss)
    <2>1. CASE margin = 0
      <3>1. acct.equity - loss >= 0
        BY <1>3, <1>5, <1>6, RiskIsSmall
      <3> QED
        BY <1>3, <1>5, <2>1, <3>1, PolicyNumbers
    <2>2. CASE margin # 0
      BY <1>1, <1>3, <1>5, <2>2
    <2> QED
      BY <2>1, <2>2
  <1> QED
    BY <1>1, <1>4, <1>6, <1>7 DEF RiskFits, acct

\* What is measured of the account is its equity and its starting equity only.
LEMMA FitsByEquity ==
    ASSUME NEW row, NEW acct, NEW other, RiskFits(row, acct),
           other.equity = acct.equity, other.starting_equity = acct.starting_equity
    PROVE  RiskFits(row, other)
  BY DEF RiskFits, StopBaseline

LEMMA NextFits ==
    ASSUME TypeInv, Started, OneOpenPosition, OpenRiskBounded, [Next]_vars
    PROVE  OpenRiskBounded'
  <1> SUFFICES ASSUME NEW row \in positions', row.status = "OPEN"
               PROVE  RiskFits(row, accounts'[row.account])
    BY DEF OpenRiskBounded, RiskFits, StopBaseline
  <1>1. ASSUME row \in positions,
               accounts'[row.account].equity = accounts[row.account].equity,
               accounts'[row.account].starting_equity = accounts[row.account].starting_equity
        PROVE  RiskFits(row, accounts'[row.account])
    BY <1>1, FitsByEquity DEF OpenRiskBounded
  <1>2. \A other \in positions : other.account \in Accounts
    BY DEF TypeInv, TypeOK, PositionRow
  <1>3. CASE Approval
    <2>1. PICK r \in Requests, id \in Ids, clock \in Readings, lots \in Nat :
             /\ Approve(accounts, providers, r, id, clock)
             /\ lots = PositionSize(r.offer, Budget(ViewSeen(accounts, r, clock)))
             /\ positions' = positions \cup {Opened(r, id, lots)}
      BY <1>3, ApprovalStep DEF Opening
    <2>2. CASE row \in positions
      BY <1>1, <1>2, <1>3, <2>2, ApprovalKeepsEquity
    <2>3. CASE row = Opened(r, id, lots)
      <3>1. row.account = r.account /\ r.account \in Accounts
        BY <2>3 DEF Opened, Requests
      <3>2. RiskFits(row, accounts[r.account])
        BY <2>1, <2>3, ApprovedFits
      <3> QED
        BY <1>3, <3>1, <3>2, ApprovalKeepsEquity, FitsByEquity
    <2> QED
      BY <2>1, <2>2, <2>3
  <1>4. CASE ClosePosition
    <2>1. PICK closing \in positions, exit \in Exits, clock \in Readings :
             /\ Close(closing, exit, clock)
             /\ closing \in PositionRow /\ closing.status = "OPEN"
             /\ positions' = (positions \ {closing}) \cup {ClosedRow(closing)}
      BY <1>4, CloseStep
    <2>2. row \in positions /\ row # closing
      BY <2>1, ClosedRowFields
    <2>3. row.account # closing.account
      BY <2>1, <2>2 DEF OneOpenPosition
    <2> QED
      BY <1>1, <1>2, <2>1, <2>2, <2>3, CloseKeepsEquity
  <1>5. CASE Quiet
    BY <1>1, <1>2, <1>5, QuietLeavesPositions, QuietKeepsEquity
  <1> QED
    BY <1>3, <1>4, <1>5, StepKinds

LEMMA InitStarted == Init => Started /\ OneOpenPosition /\ OpenRiskBounded
  BY DEF Init, Started, OneOpenPosition, OpenRiskBounded

(***************************************************************************)
(* While a position is open its assumed loss and its margin stay within    *)
(* the limits of its account, measured against the equity of the moment.   *)
(* One open position per account is what makes this inductive: no other    *)
(* close can lower the equity under it.                                    *)
(***************************************************************************)
THEOREM LedgerRiskBounded == Spec => []OpenRiskBounded
  <1> DEFINE Inv == TypeInv /\ Started /\ OneOpenPosition /\ OpenRiskBounded
  <1>1. Init => Inv
    BY InitTypes, InitStarted
  <1>2. Inv /\ [Next]_vars => Inv'
    BY NextTypes, NextStarted, NextOneOpen, NextFits
  <1> QED
    BY <1>1, <1>2, PTL DEF Spec

-----------------------------------------------------------------------------
\* The caps at the opening of a position.

LEMMA RemainderLeaves ==
    ASSUME NEW v, IsView(v), NEW f \in Nat, NEW loss \in Nat, NEW budget \in Int,
           budget > 0, budget <= Remainder(v, f, loss)
    PROVE  Scale * loss < Baseline(v) * f
  <1>1. Baseline(v) * f \in Int /\ Scale * loss \in Nat /\ Scale * v.reserved_risk \in Nat
    BY RemaindersAreIntegers, ScaleAssumption DEF IsView
  <1>2. Scale * (loss + v.reserved_risk) = Scale * loss + Scale * v.reserved_risk
    BY ScaleAssumption DEF IsView
  <1>3. budget <= Baseline(v) * f - Scale * (loss + v.reserved_risk)
    BY DEF Remainder
  <1> QED
    BY <1>1, <1>2, <1>3

LEMMA ApprovedBelowCaps ==
    ASSUME TypeInv, Started, NEW r \in Requests, NEW id \in Ids, NEW clock \in Readings,
           Approve(accounts, providers, r, id, clock),
           NEW lots \in Nat,
           lots = PositionSize(r.offer, Budget(ViewSeen(accounts, r, clock)))
    PROVE  BelowCaps(Opened(r, id, lots))
  <1> DEFINE v == ViewSeen(accounts, r, clock)
             a == r.account
             p == r.provider
             base == StopBaseline(accounts[a])
             provided == {o \in outcomes : o.provider = p}
  <1>1. IsView(v) /\ Budget(v) > 0 /\ Baseline(v) = base /\ ProviderReasons(providers[p]) = {}
    BY ApprovedSize
  <1>2. clock[1] = today
    BY ClockType DEF TypeInv
  <1>3. /\ v.daily_loss = DailyLoss(outcomes, a, today)
        /\ v.weekly_loss = WeeklyLoss(outcomes, a, today)
        /\ v.provider_daily_loss = DailyLoss(provided, a, today)
        /\ v.provider_weekly_loss = WeeklyLoss(provided, a, today)
    BY <1>2 DEF ViewSeen, View
  <1>4. /\ Budget(v) \in Int
        /\ Budget(v) <= Remainder(v, Policy.daily_fraction, v.daily_loss)
        /\ Budget(v) <= Remainder(v, Policy.weekly_fraction, v.weekly_loss)
        /\ Budget(v) <= Remainder(v, Policy.provider_daily_fraction, v.provider_daily_loss)
        /\ Budget(v) <= Remainder(v, Policy.provider_weekly_fraction, v.provider_weekly_loss)
    BY <1>1, BudgetIsLeast DEF DailyRemainder, WeeklyRemainder
  <1>5. /\ Scale * v.daily_loss < Baseline(v) * Policy.daily_fraction
        /\ Scale * v.weekly_loss < Baseline(v) * Policy.weekly_fraction
        /\ Scale * v.provider_daily_loss < Baseline(v) * Policy.provider_daily_fraction
        /\ Scale * v.provider_weekly_loss < Baseline(v) * Policy.provider_weekly_fraction
    <2>1. /\ v.daily_loss \in Nat /\ v.weekly_loss \in Nat
          /\ v.provider_daily_loss \in Nat /\ v.provider_weekly_loss \in Nat
      BY <1>1 DEF IsView
    <2>2. /\ Policy.daily_fraction \in Nat /\ Policy.weekly_fraction \in Nat
          /\ Policy.provider_daily_fraction \in Nat /\ Policy.provider_weekly_fraction \in Nat
      BY PolicyNumbers
    <2> HIDE DEF v
    <2> QED
      BY <1>1, <1>4, <2>1, <2>2, RemainderLeaves
  <1>6. providers[p].status = "ACTIVE" /\ providers[p].verified
    <2>1. When(providers[p].status # "ACTIVE" \/ ~providers[p].verified,
               "PROVIDER_UNAVAILABLE_OR_SUSPENDED") = {}
      BY <1>1, Zenon DEF ProviderReasons
    <2>2. providers[p].verified \in BOOLEAN
      BY DEF Requests, TypeInv, TypeOK, ProviderRow
    <2>3. ~ (providers[p].status # "ACTIVE" \/ ~providers[p].verified)
      BY <2>1, <2>2, WhenRaises, Zenon
    <2> QED
      BY <2>3
  <1>7. Cardinality(ActiveProviders(providers)) <= Policy.max_active_providers
    <2>1. SafetyReasons(AccountSeen(accounts, r, clock), providers, r, id, clock[2]) = {}
      BY Zenon DEF Approve, Reasons
    <2>2. When(TooManyProviders(providers), "ACTIVE_PROVIDER_LIMIT") = {}
      BY <2>1, Zenon DEF SafetyReasons
    <2>3. ~ TooManyProviders(providers)
      BY <2>2, WhenRaises DEF TooManyProviders
    <2>4. Cardinality(ActiveProviders(providers)) \in Nat
      <3>1. IsFiniteSet(ActiveProviders(providers))
        BY LedgerAssumption, FS_Subset DEF ActiveProviders
      <3> QED
        BY <3>1, FS_CardinalityType
    <2> QED
      BY <2>3, <2>4, PolicyNumbers DEF TooManyProviders
  <1>8. Opened(r, id, lots).account = a /\ Opened(r, id, lots).provider = p
    BY DEF Opened
  <1> HIDE DEF v
  <1> QED
    BY <1>1, <1>3, <1>5, <1>6, <1>7, <1>8 DEF BelowCaps

(***************************************************************************)
(* A position is opened only below the four caps, by an active, verified   *)
(* provider and with no more active providers than the policy allows.      *)
(***************************************************************************)
THEOREM LedgerOpensBelowCaps == Spec => OpensBelowCaps
  <1> DEFINE Inv == TypeInv /\ Started
  <1>1. Init => Inv
    BY InitTypes, InitStarted
  <1>2. Inv /\ [Next]_vars => Inv'
    BY NextTypes, NextStarted
  <1>3. Inv /\ [Next]_vars
           => [\A row \in positions' \ positions : row.status = "OPEN" => BelowCaps(row)]_vars
    <2> SUFFICES ASSUME TypeInv, Started, [Next]_vars,
                        NEW row \in positions' \ positions, row.status = "OPEN"
                 PROVE  BelowCaps(row)
      OBVIOUS
    <2>1. CASE Approval
      <3>1. PICK r \in Requests, id \in Ids, clock \in Readings, lots \in Nat :
               /\ Approve(accounts, providers, r, id, clock)
               /\ lots = PositionSize(r.offer, Budget(ViewSeen(accounts, r, clock)))
               /\ positions' = positions \cup {Opened(r, id, lots)}
        BY <2>1, ApprovalStep DEF Opening
      <3>2. BelowCaps(Opened(r, id, lots))
        BY <3>1, ApprovedBelowCaps
      <3> QED
        BY <3>1, <3>2
    <2>2. CASE ClosePosition
      BY <2>2, CloseStep, ClosedRowFields
    <2>3. CASE Quiet
      BY <2>3, QuietLeavesPositions
    <2> QED
      BY <2>1, <2>2, <2>3, StepKinds
  <1> QED
    BY <1>1, <1>2, <1>3, PTL DEF Spec, OpensBelowCaps

-----------------------------------------------------------------------------
\* Equity stays positive, and no outcome lies in the future.

Solvent == \A a \in Accounts : accounts[a].equity > 0 /\ accounts[a].starting_equity > 0

OutcomesPast == \A o \in outcomes : o.day <= today

\* What an open position may lose leaves something of the equity of its account.
Covered ==
    \A row \in positions : row.status = "OPEN" =>
        row.lots * row.offer.unit_loss < accounts[row.account].equity

LEMMA BoundedIsCovered ==
    ASSUME TypeInv, OpenRiskBounded, Solvent
    PROVE  Covered
  <1> SUFFICES ASSUME NEW row \in positions, row.status = "OPEN"
               PROVE  row.lots * row.offer.unit_loss < accounts[row.account].equity
    BY DEF Covered
  <1> DEFINE loss == row.lots * row.offer.unit_loss
             acct == accounts[row.account]
  <1>1. row \in PositionRow /\ row.account \in Accounts /\ acct \in AccountRow
    BY DEF TypeInv, TypeOK, PositionRow
  <1>2. loss \in Nat
    BY <1>1, OfferRecord DEF PositionRow
  <1>3. loss * Scale <= StopBaseline(acct) * Policy.risk_fraction
    BY DEF OpenRiskBounded, RiskFits
  <1>4. /\ acct.equity \in Int /\ acct.equity > 0
        /\ StopBaseline(acct) \in Int /\ StopBaseline(acct) <= acct.equity
    BY <1>1 DEF AccountRow, StopBaseline, Lesser, Solvent
  <1> HIDE DEF loss, acct
  <1>5. 200 * loss <= StopBaseline(acct)
    BY <1>2, <1>3, <1>4, RiskIsSmall
  <1>6. loss < acct.equity
    BY <1>2, <1>4, <1>5
  <1> QED
    BY <1>6 DEF loss, acct

LEMMA NextSolvent ==
    ASSUME TypeInv, Covered, Solvent, [Next]_vars
    PROVE  Solvent'
  <1> SUFFICES ASSUME NEW a \in Accounts
               PROVE  accounts'[a].equity > 0 /\ accounts'[a].starting_equity > 0
    BY DEF Solvent
  <1>1. CASE ClosePosition
    <2>1. PICK row \in positions, exit \in Exits, clock \in Readings :
             /\ Close(row, exit, clock)
             /\ row \in PositionRow /\ row.status = "OPEN"
             /\ Booked(row, exit, clock) \in OutcomeRow
      BY <1>1, CloseStep
    <2> DEFINE net == Booked(row, exit, clock).net
               loss == row.lots * row.offer.unit_loss
               acct == accounts[row.account]
    <2>2. row.account \in Accounts /\ acct \in AccountRow /\ net \in Int
      BY <2>1 DEF TypeInv, TypeOK, PositionRow, OutcomeRow
    <2>3. loss \in Nat
      BY <2>1, OfferRecord DEF PositionRow
    <2>4. -net <= loss
      BY <2>1, BookedWithinReserve
    <2>5. loss < acct.equity
      BY <2>1 DEF Covered
    <2>6. accounts'[a].starting_equity = accounts[a].starting_equity
          /\ accounts'[a].equity = IF a = row.account THEN accounts[a].equity + net
                                                      ELSE accounts[a].equity
      BY <2>1, CloseKeepsEquity
    <2>7. acct.equity \in Int
      BY <2>2 DEF AccountRow
    <2> HIDE DEF net, loss, acct
    <2>8. acct.equity + net > 0
      BY <2>2, <2>3, <2>4, <2>5, <2>7
    <2> QED
      BY <2>6, <2>8 DEF Solvent, acct
  <1> QED
    BY <1>1, ApprovalKeepsEquity, QuietKeepsEquity, StepKinds DEF Solvent

\* The day never goes back.
LEMMA DayMovesOn ==
    ASSUME TypeInv, [Next]_vars
    PROVE  today' >= today
  <1>1. today \in Nat
    BY LedgerAssumption DEF TypeInv, TypeOK
  <1>2. ASSUME NEW clock \in Readings, today' = clock[3] PROVE today' >= today
    <2>1. today <= clock[2] /\ clock[2] <= clock[3]
          /\ clock[2] \in Nat /\ clock[3] \in Nat
      BY ClockType, LedgerAssumption DEF TypeInv
    <2> QED
      BY <1>1, <1>2, <2>1
  <1>3. CASE Approval
    BY <1>2, <1>3 DEF Approval, Approve
  <1>4. CASE ClosePosition
    BY <1>2, <1>4, CloseStep DEF Close
  <1>5. CASE \E r \in Requests : \E id \in StoredIds(r.signal), clock \in Readings :
                Refuse(accounts, providers, r, id, clock)
    BY <1>2, <1>5 DEF Refuse
  <1>6. CASE UNCHANGED today
    BY <1>1, <1>6
  <1>7. CASE EvaluateUnknownAccount \/ Review \/ Research \/ UNCHANGED vars
    BY <1>6, <1>7 DEF EvaluateUnknownAccount, RefuseUnknownAccount, Review, ReviewProvider,
                      ReviewAccount, Research, ResearchProvider, vars
  <1>8. CASE (\E late \in SUBSET Accounts, d \in Days : Snapshot(late, d)) \/ Tick
    BY <1>1, <1>8, LedgerAssumption DEF Snapshot, Tick
  <1> QED
    BY <1>3, <1>4, <1>5, <1>7, <1>8, StepKinds, Zenon DEF Quiet

LEMMA NextPast ==
    ASSUME TypeInv, OutcomesPast, [Next]_vars
    PROVE  OutcomesPast'
  <1>1. today \in Nat /\ today' \in Nat /\ today' >= today
    <2>1. TypeInv'
      BY NextTypes
    <2> QED
      BY <2>1, DayMovesOn, LedgerAssumption DEF TypeInv, TypeOK
  <1>2. \A o \in outcomes : o.day \in Nat
    BY LedgerAssumption DEF TypeInv, TypeOK, OutcomeRow
  <1>3. CASE outcomes' = outcomes
    BY <1>1, <1>2, <1>3 DEF OutcomesPast
  <1>4. CASE ClosePosition
    <2>1. PICK row \in positions, exit \in Exits, clock \in Readings :
             outcomes' = outcomes \cup {Booked(row, exit, clock)}
      BY <1>4, CloseStep
    <2>2. Booked(row, exit, clock).day = today
      BY ClockType DEF Booked, TypeInv
    <2> QED
      BY <1>1, <1>2, <2>1, <2>2 DEF OutcomesPast
  <1> QED
    BY <1>3, <1>4, StepKinds, QuietLeavesPositions DEF Approval, Approve

-----------------------------------------------------------------------------
\* The stops.

WeekHit(acct, a, rows, d) ==
    Scale * WeeklyLoss(rows, a, d) >= StopBaseline(acct) * Policy.weekly_fraction

DayHit(acct, a, rows, d) ==
    Scale * DailyLoss(rows, a, d) >= StopBaseline(acct) * Policy.daily_fraction

\* The row carries the stops that a refresh on day d would set.
InForce(acct, a, rows, d) ==
    /\ WeekHit(acct, a, rows, d) => acct.status = "SUSPENDED"
    /\ DayHit(acct, a, rows, d) => acct.daily_stop_date = d

LEMMA InForceIsFixed ==
    ASSUME NEW acct \in AccountRow, NEW a, NEW rows, NEW d \in Days
    PROVE  InForce(acct, a, rows, d) <=> Refreshed(acct, a, rows, d) = acct
  BY DEF InForce, WeekHit, DayHit, Refreshed, AccountRow

\* A refresh is idempotent: it moves neither the losses nor what they are measured by.
LEMMA RefreshEnforces ==
    ASSUME NEW acct \in AccountRow, NEW a, NEW rows, NEW d \in Days
    PROVE  InForce(Refreshed(acct, a, rows, d), a, rows, d)
  <1> DEFINE seen == Refreshed(acct, a, rows, d)
  <1>1. StopBaseline(seen) = StopBaseline(acct)
    BY RefreshedType DEF StopBaseline
  <1>2. /\ WeekHit(acct, a, rows, d) => seen.status = "SUSPENDED"
        /\ DayHit(acct, a, rows, d) => seen.daily_stop_date = d
    BY DEF Refreshed, WeekHit, DayHit, AccountRow
  <1> HIDE DEF seen
  <1> QED
    BY <1>1, <1>2 DEF InForce, WeekHit, DayHit, seen

\* Between two days of one week no Monday lies.
LEMMA MondayMoves ==
    ASSUME NEW d \in Nat, NEW e \in Nat, d <= e
    PROVE  Monday(e) = Monday(d) \/ Monday(e) > d
  BY DEF Monday

\* Losses of the past bring no new stop when the day changes.
LEMMA DayChangeEnforces ==
    ASSUME NEW acct \in AccountRow, acct.equity > 0, acct.starting_equity > 0,
           NEW a, NEW rows \in SUBSET OutcomeRow,
           NEW d \in Days, NEW e \in Days, d <= e,
           \A o \in rows : o.day <= d,
           InForce(acct, a, rows, d)
    PROVE  InForce(acct, a, rows, e)
  <1>1. d \in Nat /\ e \in Nat /\ \A o \in rows : o.day \in Nat
    BY LedgerAssumption DEF OutcomeRow
  <1>2. StopBaseline(acct) \in Nat \ {0}
    BY DEF AccountRow, StopBaseline, Lesser
  <1>3. /\ ~ (Scale * 0 >= StopBaseline(acct) * Policy.daily_fraction)
        /\ ~ (Scale * 0 >= StopBaseline(acct) * Policy.weekly_fraction)
    <2>1. /\ StopBaseline(acct) * Policy.daily_fraction \in Nat \ {0}
          /\ StopBaseline(acct) * Policy.weekly_fraction \in Nat \ {0}
      BY <1>2, PolicyNumbers, ProductOfPositives
    <2>2. Scale * 0 = 0
      BY ScaleAssumption
    <2> QED
      BY <2>1, <2>2
  <1>4. TotalLoss({}) = 0
    BY WholeSumEmpty DEF TotalLoss
  <1>5. WeekHit(acct, a, rows, e) => acct.status = "SUSPENDED"
    <2>1. CASE Monday(e) = Monday(d)
      <3>1. WeeklyLoss(rows, a, e) = WeeklyLoss(rows, a, d)
        BY <2>1 DEF WeeklyLoss
      <3> QED
        BY <3>1 DEF InForce, WeekHit
    <2>2. CASE Monday(e) > d
      <3>1. {o \in rows : o.account = a /\ o.day >= Monday(e)} = {}
        BY <1>1, <2>2 DEF Monday
      <3>2. WeeklyLoss(rows, a, e) = 0
        BY <1>4, <3>1 DEF WeeklyLoss
      <3> QED
        BY <1>3, <3>2 DEF WeekHit
    <2> QED
      BY <1>1, <2>1, <2>2, MondayMoves
  <1>6. DayHit(acct, a, rows, e) => acct.daily_stop_date = e
    <2>1. CASE e = d
      BY <2>1 DEF InForce
    <2>2. CASE e > d
      <3>1. {o \in rows : o.account = a /\ o.day = e} = {}
        BY <1>1, <2>2
      <3>2. DailyLoss(rows, a, e) = 0
        BY <1>4, <3>1 DEF DailyLoss
      <3> QED
        BY <1>3, <3>2 DEF DayHit
    <2> QED
      BY <1>1, <2>1, <2>2
  <1> QED
    BY <1>5, <1>6 DEF InForce

\* An outcome of another account changes neither sum.
LEMMA OthersLosses ==
    ASSUME NEW rows, NEW o, NEW a, o.account # a, NEW d, NEW acct,
           InForce(acct, a, rows, d)
    PROVE  InForce(acct, a, rows \cup {o}, d)
  <1>1. {x \in rows \cup {o} : x.account = a /\ x.day = d}
          = {x \in rows : x.account = a /\ x.day = d}
    OBVIOUS
  <1>2. {x \in rows \cup {o} : x.account = a /\ x.day >= Monday(d)}
          = {x \in rows : x.account = a /\ x.day >= Monday(d)}
    OBVIOUS
  <1>3. DailyLoss(rows \cup {o}, a, d) = DailyLoss(rows, a, d)
    BY <1>1 DEF DailyLoss
  <1>4. WeeklyLoss(rows \cup {o}, a, d) = WeeklyLoss(rows, a, d)
    BY <1>2 DEF WeeklyLoss
  <1> QED
    BY <1>3, <1>4 DEF InForce, WeekHit, DayHit

\* A review lifts the suspension only while the week's losses are below the cap.
LEMMA ReviewEnforces ==
    ASSUME NEW acct \in AccountRow, NEW a, NEW rows \in SUBSET OutcomeRow, IsFiniteSet(rows),
           NEW d \in Days, InForce(acct, a, rows, d),
           Scale * WeeklyLoss(rows, a, d) < StopBaseline(acct) * Policy.weekly_fraction
    PROVE  InForce([acct EXCEPT !.status = "ACTIVE"], a, rows, d)
  <1> DEFINE lifted == [acct EXCEPT !.status = "ACTIVE"]
  <1>1. /\ lifted.equity = acct.equity /\ lifted.starting_equity = acct.starting_equity
        /\ lifted.daily_stop_date = acct.daily_stop_date
    BY DEF AccountRow
  <1> HIDE DEF lifted
  <1>2. StopBaseline(lifted) = StopBaseline(acct)
    BY <1>1 DEF StopBaseline
  <1>3. StopBaseline(acct) \in Int
    BY DEF AccountRow, StopBaseline, Lesser
  <1>4. ~ WeekHit(lifted, a, rows, d)
    <2>1. /\ Scale * WeeklyLoss(rows, a, d) \in Int
          /\ StopBaseline(acct) * Policy.weekly_fraction \in Int
      BY <1>3, LossesType, PolicyNumbers
    <2> QED
      BY <1>2, <2>1 DEF WeekHit
  <1>5. DayHit(lifted, a, rows, d) => lifted.daily_stop_date = d
    BY <1>1, <1>2 DEF InForce, DayHit
  <1> QED
    BY <1>4, <1>5 DEF InForce, lifted

\* In force on the day a transaction begins, in force when it ends.
LEMMA UntouchedEnforced ==
    ASSUME TypeInv, Solvent, OutcomesPast, NEW a \in Accounts, NEW e \in Days, today <= e,
           InForce(accounts[a], a, outcomes, today)
    PROVE  InForce(accounts[a], a, outcomes, e)
  <1>1. accounts[a] \in AccountRow /\ today \in Days /\ outcomes \in SUBSET OutcomeRow
    BY DEF TypeInv, TypeOK
  <1>2. accounts[a].equity > 0 /\ accounts[a].starting_equity > 0
    BY DEF Solvent
  <1>3. \A o \in outcomes : o.day <= today
    BY DEF OutcomesPast
  <1> QED
    BY <1>1, <1>2, <1>3, DayChangeEnforces

AllEnforced == \A a \in Accounts : InForce(accounts[a], a, outcomes, today)

LEMMA AllEnforcedIsStopsInForce ==
    ASSUME TypeOK
    PROVE  AllEnforced <=> StopsInForce
  BY InForceIsFixed DEF TypeOK, AllEnforced, StopsInForce

LEMMA CloseEnforces ==
    ASSUME TypeInv, Solvent, OutcomesPast, AllEnforced, Solvent', OutcomesPast', TypeInv',
           NEW row \in positions, NEW exit \in Exits, NEW clock \in Readings,
           Close(row, exit, clock), NEW a \in Accounts
    PROVE  InForce(accounts'[a], a, outcomes', today')
  <1> DEFINE booked == Booked(row, exit, clock)
             paid == [accounts[row.account] EXCEPT !.equity = @ + booked.net]
             after == Refreshed(paid, row.account, outcomes', clock[2])
  <1>1. /\ clock[1] = today /\ clock[2] \in Days /\ clock[3] \in Days /\ today \in Days
        /\ today <= clock[2] /\ clock[2] <= clock[3]
        /\ today' = clock[3]
    BY ClockType DEF Close, TypeInv, TypeOK
  <1>2. row.account \in Accounts /\ accounts[row.account] \in AccountRow
    BY DEF TypeInv, TypeOK, PositionRow
  <1>3. booked \in OutcomeRow /\ booked.account = row.account /\ booked.day = today
    BY <1>1, BookedType DEF Booked
  <1>4. outcomes' = outcomes \cup {booked}
    BY DEF Close, Booked
  <1>5. accounts' = [accounts EXCEPT ![row.account] = after]
    BY DEF Close, AfterClose, Booked
  <1>6. paid \in AccountRow
    BY <1>2, <1>3 DEF AccountRow, OutcomeRow
  <1>7. /\ outcomes' \in SUBSET OutcomeRow
        /\ accounts'[a].equity > 0 /\ accounts'[a].starting_equity > 0
        /\ accounts'[a] \in AccountRow
    BY DEF TypeInv, TypeOK, Solvent
  <1>8. today \in Nat /\ clock[2] \in Nat /\ clock[3] \in Nat
    BY <1>1, LedgerAssumption
  <1>9. \A o \in outcomes' : o.day \in Nat /\ o.day <= today
    <2>1. \A o \in outcomes' : o.day \in Nat
      BY <1>7, LedgerAssumption DEF OutcomeRow
    <2>2. \A o \in outcomes : o.day <= today
      BY DEF OutcomesPast
    <2> HIDE DEF booked
    <2> QED
      BY <1>3, <1>4, <1>8, <2>1, <2>2
  <1> HIDE DEF booked, paid
  <1>10. CASE a = row.account
    <2>1. accounts'[a] = after
      BY <1>2, <1>5, <1>10 DEF TypeInv, TypeOK
    <2>2. InForce(after, a, outcomes', clock[2])
      BY <1>1, <1>6, <1>10, RefreshEnforces
    <2>3. \A o \in outcomes' : o.day <= clock[2]
      BY <1>1, <1>8, <1>9
    <2> HIDE DEF after
    <2> QED
      BY <1>1, <1>7, <2>1, <2>2, <2>3, DayChangeEnforces
  <1>11. CASE a # row.account
    <2>1. accounts'[a] = accounts[a]
      BY <1>5, <1>11 DEF TypeInv, TypeOK
    <2>2. InForce(accounts[a], a, outcomes', today)
      BY <1>3, <1>4, <1>11, OthersLosses DEF AllEnforced
    <2>3. today <= clock[3]
      BY <1>1, <1>8
    <2> QED
      BY <1>1, <1>7, <1>9, <2>1, <2>2, <2>3, DayChangeEnforces
  <1> QED
    BY <1>10, <1>11

LEMMA NextEnforces ==
    ASSUME TypeInv, Solvent, OutcomesPast, AllEnforced, Solvent', OutcomesPast', TypeInv',
           [Next]_vars
    PROVE  AllEnforced'
  <1> SUFFICES ASSUME NEW a \in Accounts
               PROVE  InForce(accounts'[a], a, outcomes', today')
    BY DEF AllEnforced, InForce, WeekHit, DayHit
  <1>1. today \in Nat /\ today' \in Days /\ today' \in Nat /\ today' >= today /\ today \in Days
    BY DayMovesOn, LedgerAssumption DEF TypeInv, TypeOK
  <1>2. /\ InForce(accounts[a], a, outcomes, today)
        /\ accounts[a] \in AccountRow
        /\ \A d \in Days : d >= today => InForce(accounts[a], a, outcomes, d)
    BY <1>1, UntouchedEnforced, LedgerAssumption DEF AllEnforced, TypeInv, TypeOK
  <1>3. CASE accounts'[a] = accounts[a] /\ outcomes' = outcomes
    BY <1>1, <1>2, <1>3
  <1>4. Refreshed(accounts[a], a, outcomes, today) = accounts[a]
    BY <1>1, <1>2, InForceIsFixed
  <1>5. \A d \in Days : d >= today => Refreshed(accounts[a], a, outcomes, d) = accounts[a]
    BY <1>2, InForceIsFixed
  <1>6. ASSUME NEW r \in Requests, NEW id, NEW clock \in Readings,
               \/ Approve(accounts, providers, r, id, clock)
               \/ Refuse(accounts, providers, r, id, clock)
        PROVE  InForce(accounts'[a], a, outcomes', today')
    <2>1. clock[1] = today /\ clock[3] \in Days /\ clock[3] >= today /\ today' = clock[3]
      BY <1>6, <1>1, ClockType DEF Approve, Refuse, TypeInv
    <2>2. outcomes' = outcomes
      BY <1>6 DEF Approve, Refuse
    <2>3. a = r.account => AccountSeen(accounts, r, clock) = accounts[a]
      BY <1>4, <2>1 DEF AccountSeen
    <2>4. accounts'[a] = accounts[a]
      <3>1. CASE a # r.account
        BY <1>6, <3>1 DEF Approve, Refuse, TypeInv, TypeOK
      <3>2. CASE a = r.account
        <4>1. Refreshed(AccountSeen(accounts, r, clock), r.account, outcomes, clock[3]) = accounts[a]
          BY <1>5, <2>1, <2>3, <3>2
        <4> QED
          BY <1>6, <2>3, <3>2, <4>1 DEF Approve, Refuse, TypeInv, TypeOK
      <3> QED
        BY <3>1, <3>2
    <2> QED
      BY <1>3, <2>2, <2>4
  <1>7. CASE ClosePosition
    BY <1>7, CloseStep, CloseEnforces
  <1>8. ASSUME NEW late \in SUBSET Accounts, NEW d \in Days, Snapshot(late, d)
        PROVE  InForce(accounts'[a], a, outcomes', today')
    <2>1. /\ accounts'[a] = Refreshed(accounts[a], a, outcomes, IF a \in late THEN d ELSE today)
          /\ outcomes' = outcomes /\ today' = d
      BY <1>8 DEF Snapshot
    <2> QED
      BY <1>1, <1>3, <1>4, <1>5, <2>1
  <1>9. CASE Review
    <2>1. ASSUME NEW b \in Accounts, ReviewAccount(b)
          PROVE  InForce(accounts'[a], a, outcomes', today')
      <3>1. CASE a # b
        BY <1>3, <2>1, <3>1 DEF ReviewAccount, TypeInv, TypeOK
      <3>2. CASE a = b
        <4>1. /\ accounts'[a] = [accounts[a] EXCEPT !.status = "ACTIVE"]
              /\ Scale * WeeklyLoss(outcomes, a, today)
                   < StopBaseline(accounts[a]) * Policy.weekly_fraction
              /\ outcomes' = outcomes /\ today' = today
          BY <1>4, <2>1, <3>2 DEF ReviewAccount, TypeInv, TypeOK
        <4>2. outcomes \in SUBSET OutcomeRow /\ IsFiniteSet(outcomes)
          BY DEF TypeInv, TypeOK
        <4> QED
          BY <1>1, <1>2, <4>1, <4>2, ReviewEnforces
      <3> QED
        BY <3>1, <3>2
    <2>2. ASSUME NEW p \in Providers, ReviewProvider(p)
          PROVE  InForce(accounts'[a], a, outcomes', today')
      BY <1>3, <2>2 DEF ReviewProvider
    <2> QED
      BY <1>9, <2>1, <2>2 DEF Review
  <1>10. CASE EvaluateUnknownAccount \/ Research \/ Tick \/ UNCHANGED vars
    BY <1>3, <1>10 DEF EvaluateUnknownAccount, RefuseUnknownAccount, Research,
                       ResearchProvider, Tick, vars
  <1>11. CASE Approval
    BY <1>6, <1>11 DEF Approval
  <1>12. CASE Quiet
    BY <1>6, <1>8, <1>9, <1>10, <1>12, Zenon DEF Quiet
  <1> QED
    BY <1>7, <1>11, <1>12, StepKinds

\* What the stops need: positive equity, or a cap of nothing is reached by no loss at all.
StopsInv ==
    /\ TypeInv
    /\ Started /\ OneOpenPosition /\ OpenRiskBounded
    /\ Solvent
    /\ OutcomesPast
    /\ AllEnforced

LEMMA InitStops == Init => StopsInv
  <1> SUFFICES ASSUME Init PROVE StopsInv
    OBVIOUS
  <1>1. TypeInv /\ Started /\ OneOpenPosition /\ OpenRiskBounded
    BY InitTypes, InitStarted
  <1>2. Solvent /\ OutcomesPast
    BY <1>1, LedgerAssumption DEF Init, Solvent, OutcomesPast
  <1>3. ASSUME NEW a \in Accounts PROVE InForce(accounts[a], a, outcomes, today)
    <2>1. outcomes = {} /\ today \in Days /\ today \in Nat /\ accounts[a].status = "ACTIVE"
      BY <1>1, LedgerAssumption DEF Init
    <2>2. {o \in outcomes : o.account = a /\ o.day = today} = {}
          /\ {o \in outcomes : o.account = a /\ o.day >= Monday(today)} = {}
      BY <2>1
    <2>3. DailyLoss(outcomes, a, today) = 0 /\ WeeklyLoss(outcomes, a, today) = 0
      BY <2>2, WholeSumEmpty DEF DailyLoss, WeeklyLoss, TotalLoss
    <2>4. StopBaseline(accounts[a]) \in Nat \ {0}
      BY <1>1, <1>2 DEF TypeInv, TypeOK, AccountRow, StopBaseline, Lesser, Solvent
    <2>5. /\ StopBaseline(accounts[a]) * Policy.daily_fraction \in Nat \ {0}
          /\ StopBaseline(accounts[a]) * Policy.weekly_fraction \in Nat \ {0}
      BY <2>4, PolicyNumbers, ProductOfPositives
    <2>6. Scale * 0 = 0
      BY ScaleAssumption
    <2>7. ~ WeekHit(accounts[a], a, outcomes, today) /\ ~ DayHit(accounts[a], a, outcomes, today)
      BY <2>3, <2>5, <2>6 DEF WeekHit, DayHit
    <2> QED
      BY <2>7 DEF InForce
  <1> QED
    BY <1>1, <1>2, <1>3 DEF AllEnforced, StopsInv

LEMMA NextStops == StopsInv /\ [Next]_vars => StopsInv'
  <1> SUFFICES ASSUME StopsInv, [Next]_vars PROVE StopsInv'
    OBVIOUS
  <1>1. TypeInv' /\ (Started /\ OneOpenPosition /\ OpenRiskBounded)' /\ Solvent' /\ OutcomesPast'
    BY NextTypes, NextStarted, NextOneOpen, NextFits, BoundedIsCovered, NextSolvent, NextPast
       DEF StopsInv
  <1> QED
    BY <1>1, NextEnforces DEF StopsInv

(***************************************************************************)
(* The daily stop and the weekly suspension are in force whenever no       *)
(* transaction is running, on whatever day it is.  Positive equity is      *)
(* needed, or a cap of nothing would be reached by no loss at all, and it  *)
(* follows from the bound on the risk of the open position.                *)
(***************************************************************************)
THEOREM LedgerStopsInForce == Spec => []StopsInForce
  <1>1. StopsInv => StopsInForce
    BY AllEnforcedIsStopsInForce DEF StopsInv, TypeInv
  <1> QED
    BY <1>1, InitStops, NextStops, PTL DEF Spec

\* A week's losses, while it lasts, are the losses since its Monday.
LEMMA WeekSoFar ==
    ASSUME NEW a, NEW rows \in SUBSET OutcomeRow, NEW d \in Days, \A o \in rows : o.day <= d
    PROVE  WeekLoss(rows, a, d \div 7) = WeeklyLoss(rows, a, d)
  <1>1. d \in Nat /\ \A o \in rows : o.day \in Nat
    BY LedgerAssumption DEF OutcomeRow
  <1>2. \A o \in rows : o.day \div 7 = d \div 7 <=> o.day >= Monday(d)
    BY <1>1 DEF Monday
  <1>3. {o \in rows : o.account = a /\ o.day \div 7 = d \div 7}
          = {o \in rows : o.account = a /\ o.day >= Monday(d)}
    BY <1>2
  <1> QED
    BY <1>3, Zenon DEF WeekLoss, WeeklyLoss

(***************************************************************************)
(* What WeeklyCapSuspends misses: a step that brings the losses of a week  *)
(* to the cap leaves the account suspended whenever it ends in that week.  *)
(* The code departs from "suspend trading until review" only where the     *)
(* week ends between the two readings of the clock inside a close.         *)
(***************************************************************************)
THEOREM WeeklyCapSuspendsInTheWeek ==
    Spec => [][today' \div 7 = today \div 7 => CapSuspends]_vars
  <1>1. ASSUME StopsInv, StopsInv', today' \div 7 = today \div 7
        PROVE  CapSuspends
    <2> SUFFICES ASSUME NEW a \in Accounts,
                        Scale * WeekLoss(outcomes', a, today \div 7)
                           >= StopBaseline(accounts'[a]) * Policy.weekly_fraction
                 PROVE  accounts'[a].status = "SUSPENDED"
      BY DEF CapSuspends
    <2>1. /\ outcomes' \in SUBSET OutcomeRow /\ today' \in Days
          /\ \A o \in outcomes' : o.day <= today'
      BY <1>1 DEF StopsInv, TypeInv, TypeOK, OutcomesPast
    <2>2. WeekLoss(outcomes', a, today \div 7) = WeeklyLoss(outcomes', a, today')
      BY <1>1, <2>1, WeekSoFar
    <2>3. WeekHit(accounts'[a], a, outcomes', today')
      BY <2>2 DEF WeekHit
    <2>4. InForce(accounts'[a], a, outcomes', today')
      BY <1>1 DEF StopsInv, AllEnforced, InForce, WeekHit, DayHit
    <2> QED
      BY <2>3, <2>4 DEF InForce
  <1>2. StopsInv /\ [Next]_vars
           => StopsInv' /\ [today' \div 7 = today \div 7 => CapSuspends]_vars
    BY <1>1, NextStops
  <1> QED
    BY <1>2, InitStops, PTL DEF Spec

\* A refresh never lifts a suspension.
LEMMA RefreshKeepsSuspension ==
    ASSUME NEW acct \in AccountRow, acct.status = "SUSPENDED", NEW a, NEW rows, NEW d \in Days
    PROVE  /\ Refreshed(acct, a, rows, d) \in AccountRow
           /\ Refreshed(acct, a, rows, d).status = "SUSPENDED"
  <1>1. Refreshed(acct, a, rows, d) \in AccountRow
    BY RefreshedType
  <1>2. Refreshed(acct, a, rows, d).status = "SUSPENDED"
    BY DEF Refreshed, AccountRow
  <1> QED
    BY <1>1, <1>2

\* Account a stays suspended and no position is opened in it.
StaysSuspended(a) ==
    /\ accounts'[a].status = "SUSPENDED"
    /\ \A row \in positions' \ positions : row.account = a => row.status # "OPEN"

SuspendedUntilReview ==
    [][\A a \in Accounts : accounts[a].status = "SUSPENDED"
          => ReviewAccount(a) \/ StaysSuspended(a)]_vars

\* An evaluation of a request in a suspended account ends in a refusal.
LEMMA SuspendedIsRefused ==
    ASSUME TypeInv, NEW accts \in [Accounts -> AccountRow], NEW provs, NEW r \in Requests,
           NEW id \in Ids, NEW clock, clock[1] \in Days,
           accts[r.account].status = "SUSPENDED"
    PROVE  ~ Approve(accts, provs, r, id, clock)
  <1>1. r.account \in Accounts
    BY DEF Requests
  <1>2. AccountSeen(accts, r, clock).status = "SUSPENDED"
    BY <1>1, RefreshKeepsSuspension DEF AccountSeen
  <1>3. ViewSeen(accts, r, clock).status = "SUSPENDED"
    BY <1>2 DEF ViewSeen, View
  <1>4. ASSUME Approve(accts, provs, r, id, clock) PROVE FALSE
    <2>1. Reasons(accts, provs, r, id, clock) = {}
      BY <1>4 DEF Approve
    <2>2. ViewSeen(accts, r, clock).status = "ACTIVE"
      <3> DEFINE v == ViewSeen(accts, r, clock)
                 prov == provs[r.provider]
                 offer == r.offer
                 fault == r.fault
      <3>1. IsView(v) /\ IsOffer(offer) /\ EngineReasons(v, prov, offer, fault) = {}
        BY <2>1, ApprovalFacts
      <3> HIDE DEF v, prov, offer, fault
      <3>2. v.status = "ACTIVE"
        BY <3>1, ApprovalFitsEveryBudget
      <3> QED
        BY <3>2 DEF v
    <2> QED
      BY <1>3, <2>2
  <1> QED
    BY <1>4

LEMMA SuspensionStands ==
    ASSUME TypeInv, [Next]_vars, NEW a \in Accounts, accounts[a].status = "SUSPENDED",
           ~ ReviewAccount(a)
    PROVE  StaysSuspended(a)
  <1>1. accounts \in [Accounts -> AccountRow] /\ accounts[a] \in AccountRow /\ today \in Days
    BY DEF TypeInv, TypeOK
  <1>2. CASE accounts'[a] = accounts[a] /\ positions' = positions
    BY <1>2 DEF StaysSuspended
  <1>3. CASE Approval
    <2>1. PICK r \in Requests, id \in Ids, clock \in Readings, lots \in Nat :
             /\ Approve(accounts, providers, r, id, clock)
             /\ Opening(r, id, lots)
      BY <1>3, ApprovalStep
    <2>2. a # r.account
      BY <1>1, <2>1, ReadingsAreDays, SuspendedIsRefused DEF SeenOnDays
    <2>3. accounts'[a] = accounts[a]
      BY <1>1, <2>1, <2>2 DEF Approve
    <2>4. Opened(r, id, lots).account # a
      BY <2>2 DEF Opened
    <2> QED
      BY <2>1, <2>3, <2>4 DEF StaysSuspended, Opening
  <1>4. CASE ClosePosition
    <2>1. PICK row \in positions, exit \in Exits, clock \in Readings :
             /\ Close(row, exit, clock)
             /\ row \in PositionRow
             /\ positions' = (positions \ {row}) \cup {ClosedRow(row)}
             /\ Booked(row, exit, clock) \in OutcomeRow
      BY <1>4, CloseStep
    <2>2. ClosedRow(row).status = "CLOSED"
      BY <2>1, ClosedRowFields
    <2>3. CASE a # row.account
      BY <1>1, <2>1, <2>2, <2>3 DEF Close, StaysSuspended
    <2>4. CASE a = row.account
      <3> DEFINE paid == [accounts[a] EXCEPT !.equity = @ + Booked(row, exit, clock).net]
      <3>1. paid \in AccountRow /\ paid.status = "SUSPENDED"
        BY <1>1, <2>1 DEF AccountRow, OutcomeRow
      <3>2. accounts'[a] = Refreshed(paid, a, outcomes', clock[2])
        BY <1>1, <2>1, <2>4 DEF Close, AfterClose, Booked
      <3>3. clock[2] \in Days
        BY ClockType DEF TypeInv
      <3> HIDE DEF paid
      <3>4. accounts'[a].status = "SUSPENDED"
        BY <3>1, <3>2, <3>3, RefreshKeepsSuspension
      <3> QED
        BY <2>1, <2>2, <3>4 DEF StaysSuspended
    <2> QED
      BY <2>3, <2>4
  <1>5. CASE Quiet
    <2>1. positions' = positions
      BY <1>5, QuietLeavesPositions
    <2>2. ASSUME NEW r \in Requests, NEW id, NEW clock \in Readings,
                 Refuse(accounts, providers, r, id, clock)
          PROVE  accounts'[a].status = "SUSPENDED"
      <3>1. clock[1] \in Days
        BY ReadingsAreDays DEF SeenOnDays
      <3>2. a = r.account => AccountSeen(accounts, r, clock).status = "SUSPENDED"
        BY <1>1, <3>1, RefreshKeepsSuspension DEF AccountSeen
      <3> QED
        BY <1>1, <2>2, <3>2 DEF Refuse
    <2>3. ASSUME NEW late \in SUBSET Accounts, NEW d \in Days, Snapshot(late, d)
          PROVE  accounts'[a].status = "SUSPENDED"
      <3>1. accounts'[a] = Refreshed(accounts[a], a, outcomes, IF a \in late THEN d ELSE today)
        BY <2>3 DEF Snapshot
      <3> QED
        BY <1>1, <3>1, RefreshKeepsSuspension
    <2>4. ASSUME NEW b \in Accounts, ReviewAccount(b)
          PROVE  accounts'[a].status = "SUSPENDED"
      <3>1. a # b
        BY <2>4
      <3> QED
        BY <1>1, <2>4, <3>1 DEF ReviewAccount
    <2>5. ASSUME \/ EvaluateUnknownAccount \/ Research \/ Tick \/ UNCHANGED vars
                 \/ \E p \in Providers : ReviewProvider(p)
          PROVE  accounts'[a].status = "SUSPENDED"
      BY <2>5 DEF EvaluateUnknownAccount, RefuseUnknownAccount, Research, ResearchProvider,
                  Tick, ReviewProvider, vars
    <2>6. accounts'[a].status = "SUSPENDED"
      BY <1>5, <2>2, <2>3, <2>4, <2>5, Zenon DEF Quiet, Review
    <2> QED
      BY <2>1, <2>6 DEF StaysSuspended
  <1> QED
    BY <1>3, <1>4, <1>5, StepKinds

(***************************************************************************)
(* The other half of "suspend trading until review": only the review of a  *)
(* suspended account, which the week's losses must allow, ends the         *)
(* suspension, and until then no position is opened in it, whatever        *)
(* refreshes, closes, evaluations and midnights come between.              *)
(***************************************************************************)
THEOREM LedgerSuspendedUntilReview == Spec => SuspendedUntilReview
  <1>1. TypeInv /\ [Next]_vars
           => [\A a \in Accounts : accounts[a].status = "SUSPENDED"
                  => ReviewAccount(a) \/ StaysSuspended(a)]_vars
    BY SuspensionStands
  <1> QED
    BY <1>1, InitTypes, NextTypes, PTL DEF Spec, SuspendedUntilReview

-----------------------------------------------------------------------------
\* The performance rows.

LEMMA OnlyCloseFiles ==
    ASSUME Approval \/ Quiet
    PROVE  performance' = performance /\ outcomes' = outcomes
  BY DEF Approval, Approve, Quiet, Refuse, EvaluateUnknownAccount, RefuseUnknownAccount,
         Snapshot, Review, ReviewProvider, ReviewAccount, Research, ResearchProvider, Tick, vars

LEMMA NextPerformance ==
    ASSUME TypeInv, PerformanceExact, [Next]_vars
    PROVE  PerformanceExact'
  <1> SUFFICES ASSUME NEW p \in Providers, NEW a \in Accounts, NEW d \in Days
               PROVE  LET filed == performance'[<<p, a, d>>]
                          closed == FiledTrades(outcomes', p, a, d)
                      IN  /\ filed \subseteq closed
                          /\ d + 1 \notin Days => filed = closed
    BY DEF PerformanceExact
  <1>1. /\ performance[<<p, a, d>>] \subseteq FiledTrades(outcomes, p, a, d)
        /\ d + 1 \notin Days => performance[<<p, a, d>>] = FiledTrades(outcomes, p, a, d)
    BY DEF PerformanceExact
  <1>2. CASE performance' = performance /\ outcomes' = outcomes
    BY <1>1, <1>2
  <1>3. CASE ClosePosition
    <2>1. PICK row \in positions, exit \in Exits, clock \in Readings :
             /\ Close(row, exit, clock)
             /\ row \in PositionRow
             /\ outcomes' = outcomes \cup {Booked(row, exit, clock)}
      BY <1>3, CloseStep
    <2> DEFINE o == Booked(row, exit, clock)
    <2>2. o.provider = row.provider /\ o.account = row.account /\ o.day = today
      BY ClockType DEF Booked, TypeInv
    <2>3. clock[3] \in Days /\ (clock[3] = today \/ today + 1 \in Days)
      BY DEF Readings, TypeInv, TypeOK
    <2>4. performance' = [performance EXCEPT ![<<row.provider, row.account, clock[3]>>] =
                             FiledTrades(outcomes', row.provider, row.account, clock[3])]
      BY <2>1, CloseBooks
    <2> HIDE DEF o
    <2>5. CASE <<p, a, d>> = <<row.provider, row.account, clock[3]>>
      <3>1. performance'[<<p, a, d>>] = FiledTrades(outcomes', p, a, d)
        BY <2>4, <2>5 DEF TypeInv, TypeOK
      <3> QED
        BY <3>1
    <2>6. CASE <<p, a, d>> # <<row.provider, row.account, clock[3]>>
      <3>1. performance'[<<p, a, d>>] = performance[<<p, a, d>>]
        BY <2>4, <2>6 DEF TypeInv, TypeOK
      <3>2. FiledTrades(outcomes, p, a, d) \subseteq FiledTrades(outcomes', p, a, d)
        BY <2>1 DEF FiledTrades
      <3>3. ASSUME d + 1 \notin Days
            PROVE  FiledTrades(outcomes', p, a, d) = FiledTrades(outcomes, p, a, d)
        <4>1. ~ (o.provider = p /\ o.account = a /\ o.day = d)
          BY <2>2, <2>3, <2>6, <3>3
        <4> QED
          BY <2>1, <4>1 DEF FiledTrades, o
      <3> QED
        BY <1>1, <3>1, <3>2, <3>3
    <2> QED
      BY <2>5, <2>6
  <1> QED
    BY <1>2, <1>3, OnlyCloseFiles, StepKinds

(***************************************************************************)
(* A performance row never sums up a trade of another day, account or      *)
(* provider, and lacks none of its day unless midnight may have passed     *)
(* inside of a close.                                                      *)
(***************************************************************************)
THEOREM LedgerPerformanceExact == Spec => []PerformanceExact
  <1>1. Init => TypeInv /\ PerformanceExact
    BY InitTypes DEF Init, PerformanceExact, FiledTrades
  <1>2. TypeInv /\ PerformanceExact /\ [Next]_vars => TypeInv' /\ PerformanceExact'
    BY NextTypes, NextPerformance
  <1> QED
    BY <1>1, <1>2, PTL DEF Spec

-----------------------------------------------------------------------------
\* Every position has a volume that its broker accepts.
OnBrokersGrid == \A row \in positions : row.lots \in LotGrid(row.offer)

BudgetInv ==
    /\ TypeInv
    /\ OneOpenPosition
    /\ OutcomesSettlePositions
    /\ OutcomesPast
    /\ OnBrokersGrid

LEMMA OpeningOnGrid ==
    ASSUME OnBrokersGrid, NEW r, NEW id, NEW lots, Opening(r, id, lots)
    PROVE  OnBrokersGrid'
  <1>1. Opened(r, id, lots).lots = lots /\ Opened(r, id, lots).offer = r.offer
    BY DEF Opened
  <1> QED
    BY <1>1 DEF OnBrokersGrid, Opening

LEMMA NextOnGrid ==
    ASSUME TypeInv, OnBrokersGrid, [Next]_vars
    PROVE  OnBrokersGrid'
  <1>1. CASE Approval
    BY <1>1, ApprovalStep, OpeningOnGrid
  <1>2. CASE ClosePosition
    <2>1. PICK row \in positions, exit \in Exits, clock \in Readings :
             /\ row \in PositionRow
             /\ positions' = (positions \ {row}) \cup {ClosedRow(row)}
      BY <1>2, CloseStep
    <2>2. ClosedRow(row).lots = row.lots /\ ClosedRow(row).offer = row.offer
      BY <2>1, ClosedRowFields
    <2> QED
      BY <2>1, <2>2 DEF OnBrokersGrid
  <1>3. CASE Quiet
    BY <1>3, QuietLeavesPositions DEF OnBrokersGrid
  <1> QED
    BY <1>1, <1>2, <1>3, StepKinds

LEMMA InitBudgetInv == Init => BudgetInv
  <1> SUFFICES ASSUME Init PROVE BudgetInv
    OBVIOUS
  <1>1. positions = {} /\ outcomes = {} /\ \A id \in Ids : signals[id] = "NONE"
    BY DEF Init
  <1>2. OutcomesSettlePositions
    BY <1>1 DEF OutcomesSettlePositions
  <1> QED
    BY <1>1, <1>2, InitTypes, InitStarted DEF BudgetInv, OutcomesPast, OnBrokersGrid

LEMMA NextBudgetInv == BudgetInv /\ [Next]_vars => BudgetInv'
  BY NextTypes, NextOneOpen, NextSettles, NextPast, NextOnGrid DEF BudgetInv

-----------------------------------------------------------------------------
\* What the refinement mapping shows of the tables.

\* The outcomes that the budget <<a, s, h, t>> counts.
Counted(a, s, h, t) ==
    {o \in outcomes : o.account = a /\ InScope(o, s) /\ InPeriod(o, h, t)}

LEMMA BookedIsType ==
    ASSUME TypeInv, NEW a, NEW s, NEW h, NEW t
    PROVE  /\ IsFiniteSet(Counted(a, s, h, t)) /\ Counted(a, s, h, t) \in SUBSET OutcomeRow
           /\ BookedAgainst(a, s, h, t) = Scale * TotalLoss(Counted(a, s, h, t))
           /\ BookedAgainst(a, s, h, t) \in Nat
  <1>1. IsFiniteSet(Counted(a, s, h, t)) /\ Counted(a, s, h, t) \in SUBSET OutcomeRow
    BY FS_Subset DEF Counted, TypeInv, TypeOK
  <1>2. BookedAgainst(a, s, h, t) = Scale * TotalLoss(Counted(a, s, h, t))
    BY DEF BookedAgainst, Counted
  <1>3. TotalLoss(Counted(a, s, h, t)) \in Nat
    BY <1>1, TotalLossType
  <1> QED
    BY <1>1, <1>2, <1>3, ScaleAssumption

\* A flat account reserves nothing, any other the assumed loss of its open position.
LEMMA FlatReservation ==
    ASSUME NEW a, OpenPositions(a) = {}
    PROVE  Reservation(a) = [provider |-> Nobody, amount |-> 0]
  BY DEF Reservation

LEMMA OpenReservation ==
    ASSUME NEW a, NEW row, OpenPositions(a) = {row}
    PROVE  Reservation(a) = [provider |-> row.provider, amount |-> ScaledLoss(row.offer, row.lots)]
  <1>1. (CHOOSE x \in OpenPositions(a) : TRUE) = row
    OBVIOUS
  <1> QED
    BY <1>1 DEF Reservation

\* Of the week that today is in, the outcomes since Monday are all there are.
LEMMA SinceMonday ==
    ASSUME NEW d \in Nat, NEW e \in Nat, d <= e
    PROVE  d \div 7 = e \div 7 <=> d >= Monday(e)
  BY SMT DEF Monday

\* The current budgets count what refresh sums up for the account and for the provider.
LEMMA BookedNow ==
    ASSUME TypeInv, OutcomesPast, NEW a, NEW p \in Providers
    PROVE  LET provided == {o \in outcomes : o.provider = p}
           IN  /\ BookedAgainst(a, Everyone, "day", today) = Scale * DailyLoss(outcomes, a, today)
               /\ BookedAgainst(a, Everyone, "week", WeekOf(today))
                     = Scale * WeeklyLoss(outcomes, a, today)
               /\ BookedAgainst(a, p, "day", today) = Scale * DailyLoss(provided, a, today)
               /\ BookedAgainst(a, p, "week", WeekOf(today))
                     = Scale * WeeklyLoss(provided, a, today)
  <1> DEFINE provided == {o \in outcomes : o.provider = p}
  <1>1. today \in Nat /\ \A o \in outcomes : o.day \in Nat /\ o.day <= today
    BY LedgerAssumption DEF TypeInv, TypeOK, OutcomeRow, OutcomesPast
  <1>2. \A o \in outcomes : WeekOf(o.day) = WeekOf(today) <=> o.day >= Monday(today)
    BY <1>1, SinceMonday DEF WeekOf
  <1>3. \A o : InScope(o, Everyone) /\ (InScope(o, p) <=> o.provider = p)
    BY BudgetAssumption DEF InScope
  <1>4. Counted(a, Everyone, "day", today) = {o \in outcomes : o.account = a /\ o.day = today}
    BY <1>3 DEF Counted, InPeriod
  <1>5. Counted(a, Everyone, "week", WeekOf(today))
          = {o \in outcomes : o.account = a /\ o.day >= Monday(today)}
    BY <1>2, <1>3 DEF Counted, InPeriod
  <1>6. Counted(a, p, "day", today) = {o \in provided : o.account = a /\ o.day = today}
    BY <1>3 DEF Counted, InPeriod
  <1>7. Counted(a, p, "week", WeekOf(today))
          = {o \in provided : o.account = a /\ o.day >= Monday(today)}
    BY <1>2, <1>3 DEF Counted, InPeriod
  <1>8. \A s, h, t : BookedAgainst(a, s, h, t) = Scale * TotalLoss(Counted(a, s, h, t))
    BY BookedIsType
  <1> HIDE DEF provided
  <1>9. /\ TotalLoss(Counted(a, Everyone, "day", today)) = DailyLoss(outcomes, a, today)
        /\ TotalLoss(Counted(a, Everyone, "week", WeekOf(today))) = WeeklyLoss(outcomes, a, today)
        /\ TotalLoss(Counted(a, p, "day", today)) = DailyLoss(provided, a, today)
        /\ TotalLoss(Counted(a, p, "week", WeekOf(today))) = WeeklyLoss(provided, a, today)
    BY <1>4, <1>5, <1>6, <1>7, Zenon DEF DailyLoss, WeeklyLoss
  <1> QED
    BY <1>8, <1>9, Zenon DEF provided

-----------------------------------------------------------------------------
\* An approval reserves.

\* What is left of a cap covers the budget, also for the cap of the whole profile.
LEMMA RemainderCovers ==
    ASSUME NEW v, IsView(v), v.reserved_risk = 0, NEW f \in Nat, NEW loss \in Nat,
           NEW x \in Int, x <= Remainder(v, f, loss)
    PROVE  Scale * loss + x <= v.profile * f
  <1>1. Baseline(v) \in Int /\ Baseline(v) <= v.profile /\ v.profile \in Int
    BY DEF IsView, Baseline, Lesser
  <1>2. Baseline(v) * f <= v.profile * f
    BY <1>1, ProductMonotone
  <1>3. Baseline(v) * f \in Int /\ v.profile * f \in Int /\ Scale * loss \in Int
    BY <1>1, ScaleAssumption
  <1>4. loss + v.reserved_risk = loss
    OBVIOUS
  <1> QED
    BY <1>2, <1>3, <1>4 DEF Remainder

\* A position that may lose x fits what is left of the caps of the whole profile.
FitsBudgets(a, p, x) ==
    /\ x \in Nat
    /\ x <= Profiles[a] * Policy.risk_fraction
    /\ BookedAgainst(a, Everyone, "day", today) + x <= Profiles[a] * Policy.daily_fraction
    /\ BookedAgainst(a, Everyone, "week", WeekOf(today)) + x
          <= Profiles[a] * Policy.weekly_fraction
    /\ BookedAgainst(a, p, "day", today) + x <= Profiles[a] * Policy.provider_daily_fraction
    /\ BookedAgainst(a, p, "week", WeekOf(today)) + x
          <= Profiles[a] * Policy.provider_weekly_fraction

\* The volume that the engine approves on the losses of today fits every budget.
LEMMA ApprovalFitsBudgets ==
    ASSUME TypeInv, OutcomesPast,
           NEW accts \in [Accounts -> AccountRow], NEW prov,
           NEW r \in Requests, NEW clock, clock[1] = today,
           EngineReasons(ViewSeen(accts, r, clock), prov, r.offer, r.fault) = {},
           OpenPositions(r.account) = {},
           NEW lots \in Nat,
           lots = PositionSize(r.offer, Budget(ViewSeen(accts, r, clock)))
    PROVE  FitsBudgets(r.account, r.provider, ScaledLoss(r.offer, lots))
  <1> DEFINE a == r.account
             p == r.provider
             v == ViewSeen(accts, r, clock)
             x == ScaledLoss(r.offer, lots)
             provided == {o \in outcomes : o.provider = p}
  <1>1. /\ a \in Accounts /\ p \in Providers /\ r.offer \in Offers
        /\ Profiles[a] \in Nat /\ clock[1] \in Days
    BY LedgerAssumption DEF Requests, TypeInv, TypeOK
  <1>2. IsView(v) /\ x <= Budget(v)
    <2>1. IsView(v)
      BY <1>1, ViewSeenType
    <2>2. IsOffer(r.offer)
      BY <1>1, OffersAreOffers
    <2> QED
      BY <2>1, <2>2, ApprovalFitsEveryBudget
  <1>3. x \in Nat
    <2>1. r.offer.unit_loss \in Nat
      BY <1>1, OfferRecord
    <2> QED
      BY <2>1, ScaleAssumption DEF ScaledLoss
  <1>4. /\ v.profile = Profiles[a]
        /\ v.reserved_risk = ReservedRisk(a)
        /\ v.daily_loss = DailyLoss(outcomes, a, clock[1])
        /\ v.weekly_loss = WeeklyLoss(outcomes, a, clock[1])
        /\ v.provider_daily_loss = DailyLoss(provided, a, clock[1])
        /\ v.provider_weekly_loss = WeeklyLoss(provided, a, clock[1])
    BY DEF ViewSeen, View
  <1>5. v.reserved_risk = 0
    BY <1>4, WholeSumEmpty DEF ReservedRisk
  <1>6. /\ Budget(v) \in Int
        /\ Budget(v) <= Baseline(v) * Policy.risk_fraction
        /\ Budget(v) <= Remainder(v, Policy.daily_fraction, v.daily_loss)
        /\ Budget(v) <= Remainder(v, Policy.weekly_fraction, v.weekly_loss)
        /\ Budget(v) <= Remainder(v, Policy.provider_daily_fraction, v.provider_daily_loss)
        /\ Budget(v) <= Remainder(v, Policy.provider_weekly_fraction, v.provider_weekly_loss)
    BY <1>2, BudgetIsLeast DEF DailyRemainder, WeeklyRemainder
  <1>7. /\ BookedAgainst(a, Everyone, "day", today) = Scale * v.daily_loss
        /\ BookedAgainst(a, Everyone, "week", WeekOf(today)) = Scale * v.weekly_loss
        /\ BookedAgainst(a, p, "day", today) = Scale * v.provider_daily_loss
        /\ BookedAgainst(a, p, "week", WeekOf(today)) = Scale * v.provider_weekly_loss
    BY <1>1, <1>4, BookedNow
  <1> HIDE DEF v, x, a, p
  <1>8. /\ v.daily_loss \in Nat /\ v.weekly_loss \in Nat
        /\ v.provider_daily_loss \in Nat /\ v.provider_weekly_loss \in Nat
    BY <1>2 DEF IsView
  <1>9. \A f \in Nat, loss \in Nat :
            Budget(v) <= Remainder(v, f, loss) => Scale * loss + x <= Profiles[a] * f
    <2> SUFFICES ASSUME NEW f \in Nat, NEW loss \in Nat, Budget(v) <= Remainder(v, f, loss)
                 PROVE  Scale * loss + x <= Profiles[a] * f
      OBVIOUS
    <2>1. Scale * loss + Budget(v) <= v.profile * f
      BY <1>2, <1>5, <1>6, RemainderCovers
    <2>2. Scale * loss \in Int /\ v.profile * f \in Int
      BY <1>1, <1>4, ScaleAssumption DEF a
    <2> QED
      BY <1>2, <1>3, <1>4, <1>6, <2>1, <2>2 DEF a
  <1>10. x <= Profiles[a] * Policy.risk_fraction
    <2>1. Baseline(v) \in Int /\ Baseline(v) <= v.profile /\ v.profile \in Int
      BY <1>2 DEF IsView, Baseline, Lesser
    <2>2. Baseline(v) * Policy.risk_fraction <= v.profile * Policy.risk_fraction
      BY <2>1, PolicyNumbers, ProductMonotone
    <2>3. Baseline(v) * Policy.risk_fraction \in Int /\ v.profile * Policy.risk_fraction \in Int
      BY <2>1, PolicyNumbers
    <2> QED
      BY <1>2, <1>3, <1>4, <1>6, <2>2, <2>3 DEF a
  <1>11. /\ BookedAgainst(a, Everyone, "day", today) + x <= Profiles[a] * Policy.daily_fraction
         /\ BookedAgainst(a, Everyone, "week", WeekOf(today)) + x
               <= Profiles[a] * Policy.weekly_fraction
         /\ BookedAgainst(a, p, "day", today) + x <= Profiles[a] * Policy.provider_daily_fraction
         /\ BookedAgainst(a, p, "week", WeekOf(today)) + x
               <= Profiles[a] * Policy.provider_weekly_fraction
    BY <1>6, <1>7, <1>8, <1>9, PolicyNumbers
  <1> QED
    BY <1>3, <1>10, <1>11 DEF FitsBudgets, x, a, p

LEMMA OpeningReserves ==
    ASSUME TypeInv, NEW r \in Requests, NEW id \in Ids, NEW lots \in Nat,
           Opening(r, id, lots),
           FitsBudgets(r.account, r.provider, ScaledLoss(r.offer, lots)),
           today' \in Days, today' >= today
    PROVE  \E a \in Accounts, p \in Providers, x \in TradeLosses : LossBudget!Reserve(a, p, x)
  <1> DEFINE a == r.account
             p == r.provider
             x == ScaledLoss(r.offer, lots)
             new == Opened(r, id, lots)
             reservation == [b \in Accounts |-> Reservation(b)]
             booked == [key \in BudgetKeys |-> BookedAgainst(key[1], key[2], key[3], key[4])]
  <1>1. /\ lots \in LotGrid(r.offer)
        /\ OpenPositions(a) = {}
        /\ positions' = positions \cup {new}
        /\ outcomes' = outcomes
    BY DEF Opening
  <1>2. /\ a \in Accounts /\ p \in Providers /\ r.offer \in Offers
        /\ Profiles[a] \in Nat
        /\ today \in Days
    BY LedgerAssumption DEF Requests, TypeInv, TypeOK
  <1>3. /\ x <= Profiles[a] * Policy.risk_fraction
        /\ BookedAgainst(a, Everyone, "day", today) + x <= Profiles[a] * Policy.daily_fraction
        /\ BookedAgainst(a, Everyone, "week", WeekOf(today)) + x
              <= Profiles[a] * Policy.weekly_fraction
        /\ BookedAgainst(a, p, "day", today) + x <= Profiles[a] * Policy.provider_daily_fraction
        /\ BookedAgainst(a, p, "week", WeekOf(today)) + x
              <= Profiles[a] * Policy.provider_weekly_fraction
    BY DEF FitsBudgets
  <1>4. x \in TradeLosses
    <2>1. r.offer.unit_loss \in LossesPerLot(r.offer)
      BY DEF LossesPerLot
    <2>2. x = Scale * lots * r.offer.unit_loss
      BY <1>2, OfferRecord, ScaleAssumption DEF ScaledLoss
    <2> QED
      BY <1>1, <1>2, <2>1, <2>2 DEF TradeLosses
  <1>5. /\ new.account = a /\ new.provider = p /\ new.status = "OPEN"
        /\ new.offer = r.offer /\ new.lots = lots
    BY DEF Opened
  <1> HIDE DEF new
  <1>6. reservation' = [reservation EXCEPT ![a] = [provider |-> p, amount |-> x]]
    <2>1. OpenPositions(a)' = {new}
      BY <1>1, <1>5 DEF OpenPositions
    <2>2. Reservation(a)' = [provider |-> p, amount |-> x]
      BY <1>5, <2>1, OpenReservation DEF Reservation
    <2>3. ASSUME NEW b \in Accounts, b # a PROVE Reservation(b)' = Reservation(b)
      <3>1. OpenPositions(b)' = OpenPositions(b)
        BY <1>1, <1>5, <2>3 DEF OpenPositions
      <3> QED
        BY <3>1 DEF Reservation
    <2> QED
      BY <1>2, <2>2, <2>3
  <1>7. reservation[a] = [provider |-> Nobody, amount |-> 0]
    BY <1>1, <1>2, FlatReservation
  <1>8. booked' = booked
    BY <1>1 DEF BookedAgainst
  <1>9. /\ booked[<<a, Everyone, "day", today>>] + x <= LossBudget!Cap(a, Everyone, "day")
        /\ booked[<<a, Everyone, "week", WeekOf(today)>>] + x <= LossBudget!Cap(a, Everyone, "week")
        /\ booked[<<a, p, "day", today>>] + x <= LossBudget!Cap(a, p, "day")
        /\ booked[<<a, p, "week", WeekOf(today)>>] + x <= LossBudget!Cap(a, p, "week")
    <2>1. /\ <<a, Everyone, "day", today>> \in BudgetKeys
          /\ <<a, Everyone, "week", WeekOf(today)>> \in BudgetKeys
          /\ <<a, p, "day", today>> \in BudgetKeys
          /\ <<a, p, "week", WeekOf(today)>> \in BudgetKeys
      BY <1>2 DEF BudgetKeys, Periods
    <2>2. /\ booked[<<a, Everyone, "day", today>>] = BookedAgainst(a, Everyone, "day", today)
          /\ booked[<<a, Everyone, "week", WeekOf(today)>>]
                = BookedAgainst(a, Everyone, "week", WeekOf(today))
          /\ booked[<<a, p, "day", today>>] = BookedAgainst(a, p, "day", today)
          /\ booked[<<a, p, "week", WeekOf(today)>>] = BookedAgainst(a, p, "week", WeekOf(today))
      BY <2>1
    <2>3. /\ LossBudget!Cap(a, Everyone, "day") = Profiles[a] * Policy.daily_fraction
          /\ LossBudget!Cap(a, Everyone, "week") = Profiles[a] * Policy.weekly_fraction
          /\ LossBudget!Cap(a, p, "day") = Profiles[a] * Policy.provider_daily_fraction
          /\ LossBudget!Cap(a, p, "week") = Profiles[a] * Policy.provider_weekly_fraction
      BY <1>2, BudgetAssumption DEF LossBudget!Cap, FractionOfProfile
    <2> HIDE DEF booked, x, a, p
    <2> QED
      BY <1>3, <2>2, <2>3
  <1> HIDE DEF x, a, p
  <1>10. LossBudget!Fits(a, p, x)
    BY <1>9 DEF LossBudget!Fits, LossBudget!ScopesOf, LossBudget!Horizons, LossBudget!Period,
                LossBudget!WeekOf, WeekOf
  <1>11. x <= FractionOfProfile(Policy.risk_fraction)[a]
    BY <1>2, <1>3 DEF FractionOfProfile
  <1>12. LossBudget!Reserve(a, p, x)
    BY <1>6, <1>7, <1>8, <1>10, <1>11
       DEF LossBudget!Reserve, LossBudget!Flat, LossBudget!ClockAdvances
  <1> QED
    BY <1>2, <1>4, <1>12

LEMMA ApprovalReserves ==
    ASSUME BudgetInv, Approval, today' \in Days, today' >= today
    PROVE  \E a \in Accounts, p \in Providers, x \in TradeLosses : LossBudget!Reserve(a, p, x)
  <1>1. PICK r \in Requests, id \in Ids, clock \in Readings, lots \in Nat :
           /\ Approve(accounts, providers, r, id, clock)
           /\ lots = PositionSize(r.offer, Budget(ViewSeen(accounts, r, clock)))
           /\ Opening(r, id, lots)
    BY ApprovalStep DEF BudgetInv
  <1>2. /\ accounts \in [Accounts -> AccountRow]
        /\ clock[1] = today /\ clock[1] \in Days
    BY ReadingsAreDays DEF BudgetInv, SeenOnDays
  <1>3. /\ EngineReasons(ViewSeen(accounts, r, clock), providers[r.provider],
                         r.offer, r.fault) = {}
        /\ OpenPositions(r.account) = {}
    <2>1. Reasons(accounts, providers, r, id, clock) = {}
      BY <1>1 DEF Approve
    <2> QED
      BY <1>2, <2>1, ApprovalFacts DEF BudgetInv
  <1>4. FitsBudgets(r.account, r.provider, ScaledLoss(r.offer, lots))
    BY <1>1, <1>2, <1>3, ApprovalFitsBudgets DEF BudgetInv
  <1> QED
    BY <1>1, <1>4, OpeningReserves DEF BudgetInv

-----------------------------------------------------------------------------
\* A close settles.

\* A loss that a position can make, in the terms of the loss budget.
LEMMA LossOfLots ==
    ASSUME NEW lots \in Nat, NEW net \in Int
    PROVE  (IF lots * net < 0 THEN -(lots * net) ELSE 0)
              = lots * (IF net < 0 THEN -net ELSE 0)
  <1>1. CASE net >= 0
    <2>1. lots * net >= 0
      BY <1>1, SMT
    <2> QED
      BY <1>1, <2>1
  <1>2. CASE net < 0
    <2>1. CASE lots = 0
      BY <1>2, <2>1
    <2>2. CASE lots > 0
      <3>1. lots * net < 0 /\ -(lots * net) = lots * (-net)
        BY <1>2, <2>2, SMT
      <3> QED
        BY <1>2, <3>1
    <2> QED
      BY <2>1, <2>2
  <1> QED
    BY <1>1, <1>2

\* A new outcome adds its loss to the budgets that count it, and to no other.
LEMMA BookedAdds ==
    ASSUME TypeInv, NEW o \in OutcomeRow, o \notin outcomes, outcomes' = outcomes \cup {o},
           NEW a, NEW s, NEW h, NEW t
    PROVE  BookedAgainst(a, s, h, t)' =
              BookedAgainst(a, s, h, t)
                + (IF o.account = a /\ InScope(o, s) /\ InPeriod(o, h, t)
                   THEN Scale * Loss(o) ELSE 0)
  <1> DEFINE before == Counted(a, s, h, t)
             after == Counted(a, s, h, t)'
  <1>1. /\ IsFiniteSet(before) /\ before \in SUBSET OutcomeRow
        /\ BookedAgainst(a, s, h, t) = Scale * TotalLoss(before)
        /\ BookedAgainst(a, s, h, t) \in Nat
        /\ TotalLoss(before) \in Nat
    BY BookedIsType, TotalLossType
  <1>2. BookedAgainst(a, s, h, t)' = Scale * TotalLoss(after)
    BY DEF BookedAgainst, Counted
  <1>3. CASE o.account = a /\ InScope(o, s) /\ InPeriod(o, h, t)
    <2>1. after = before \cup {o} /\ o \notin before
      BY <1>3 DEF Counted
    <2> HIDE DEF before, after
    <2> DEFINE f == [x \in before \cup {o} |-> Loss(x)]
               g == [x \in before |-> Loss(x)]
    <2>2. /\ f \in [before \cup {o} -> Int] /\ g \in [before -> Int]
          /\ \A x \in before : f[x] = g[x]
          /\ f[o] = Loss(o)
      BY <1>1, LossType
    <2>3. TotalLoss(after) = Loss(o) + TotalLoss(before)
      <3>1. TotalLoss(after) = SumFunction(f) /\ TotalLoss(before) = SumFunction(g)
        BY <2>1 DEF TotalLoss
      <3> HIDE DEF f, g
      <3>2. SumFunction(f) = f[o] + SumFunction(g)
        BY <1>1, <2>1, <2>2, WholeSumAdd
      <3> QED
        BY <2>2, <3>1, <3>2
    <2>4. Loss(o) \in Nat
      BY LossType
    <2> QED
      BY <1>1, <1>2, <1>3, <2>3, <2>4, ScaleAssumption
  <1>4. CASE ~ (o.account = a /\ InScope(o, s) /\ InPeriod(o, h, t))
    <2>1. after = before
      BY <1>4 DEF Counted
    <2> QED
      BY <1>1, <1>2, <1>4, <2>1
  <1> QED
    BY <1>3, <1>4

LEMMA CloseSettlesBudget ==
    ASSUME BudgetInv, ClosePosition, today' \in Days, today' >= today
    PROVE  \E a \in Accounts, x \in TradeLosses : LossBudget!Settle(a, x)
  <1>1. PICK row \in positions, exit \in Exits, clock \in Readings :
           /\ row \in PositionRow /\ row.status = "OPEN"
           /\ positions' = (positions \ {row}) \cup {ClosedRow(row)}
           /\ outcomes' = outcomes \cup {Booked(row, exit, clock)}
           /\ Booked(row, exit, clock) \in OutcomeRow
    BY CloseStep DEF BudgetInv
  <1> DEFINE a == row.account
             p == row.provider
             o == Booked(row, exit, clock)
             x == Scale * Loss(o)
             reservation == [b \in Accounts |-> Reservation(b)]
             booked == [key \in BudgetKeys |-> BookedAgainst(key[1], key[2], key[3], key[4])]
  <1>2. /\ a \in Accounts /\ p \in Providers /\ row.offer \in Offers /\ row.lots \in Nat
        /\ today \in Days
    BY <1>1 DEF PositionRow, BudgetInv, TypeInv, TypeOK
  <1>3. /\ o.id = row.id /\ o.account = a /\ o.provider = p /\ o.day = today
        /\ o.net = row.lots * row.offer.net[exit]
    BY ClockType DEF Booked, BudgetInv, TypeInv
  <1>4. o \notin outcomes
    BY <1>1, <1>3 DEF BudgetInv, OutcomesSettlePositions
  <1>5. /\ row.offer.unit_loss \in Nat /\ row.offer.net[exit] \in Int
        /\ -o.net <= row.lots * row.offer.unit_loss
    BY <1>1, <1>2, OfferRecord, BookedWithinReserve
  <1>6. x <= ScaledLoss(row.offer, row.lots)
    <2>1. Loss(o) \in Nat
      BY <1>1, LossType
    <2>2. Loss(o) <= row.lots * row.offer.unit_loss
      BY <1>2, <1>3, <1>5 DEF Loss
    <2>3. Loss(o) * Scale <= row.lots * row.offer.unit_loss * Scale
      BY <1>2, <1>5, <2>1, <2>2, ScaleAssumption, ProductMonotone
    <2>4. x = Loss(o) * Scale
      BY <2>1, ScaleAssumption
    <2> QED
      BY <2>3, <2>4 DEF ScaledLoss
  <1>7. x \in TradeLosses
    <2> DEFINE perLot == IF row.offer.net[exit] < 0 THEN -row.offer.net[exit] ELSE 0
    <2>1. perLot \in LossesPerLot(row.offer)
      BY DEF LossesPerLot
    <2>2. Loss(o) = row.lots * perLot
      BY <1>2, <1>3, <1>5, LossOfLots DEF Loss
    <2>3. perLot \in Int
      BY <1>5
    <2>4. row.lots \in LotGrid(row.offer)
      BY DEF BudgetInv, OnBrokersGrid
    <2> HIDE DEF perLot, o
    <2>5. x = Scale * row.lots * perLot
      BY <1>2, <2>2, <2>3, ScaleAssumption
    <2> QED
      BY <1>2, <2>1, <2>4, <2>5 DEF TradeLosses
  <1>8. ClosedRow(row).status = "CLOSED" /\ ClosedRow(row).account = a
    BY <1>1, ClosedRowFields
  <1>9. reservation[a] = [provider |-> p, amount |-> ScaledLoss(row.offer, row.lots)]
    <2>1. OpenPositions(a) = {row}
      BY <1>1 DEF OpenPositions, BudgetInv, OneOpenPosition
    <2> QED
      BY <1>2, <2>1, OpenReservation
  <1>10. reservation' = [reservation EXCEPT ![a] = [provider |-> Nobody, amount |-> 0]]
    <2>1. OpenPositions(a)' = {}
      BY <1>1, <1>8 DEF OpenPositions, BudgetInv, OneOpenPosition
    <2>2. Reservation(a)' = [provider |-> Nobody, amount |-> 0]
      BY <2>1 DEF Reservation
    <2>3. ASSUME NEW b \in Accounts, b # a PROVE Reservation(b)' = Reservation(b)
      <3>1. OpenPositions(b)' = OpenPositions(b)
        BY <1>1, <1>8, <2>3 DEF OpenPositions
      <3> QED
        BY <3>1 DEF Reservation
    <2> QED
      BY <1>2, <2>2, <2>3
  <1> HIDE DEF o
  <1>11. \A b, s, h, t : BookedAgainst(b, s, h, t)' =
            BookedAgainst(b, s, h, t)
              + (IF a = b /\ InScope(o, s) /\ InPeriod(o, h, t) THEN x ELSE 0)
    BY <1>1, <1>3, <1>4, BookedAdds DEF BudgetInv, o
  <1>12. ASSUME NEW key \in BudgetKeys
         PROVE  key \in LossBudget!BooksOn(a, p, today)
                   <=> a = key[1] /\ InScope(o, key[2]) /\ InPeriod(o, key[3], key[4])
    BY <1>2, <1>3 DEF LossBudget!BooksOn, LossBudget!ScopesOf, LossBudget!Horizons,
       LossBudget!Period, LossBudget!WeekOf, WeekOf, InScope, InPeriod, BudgetKeys
  <1>13. booked' = [key \in DOMAIN booked |->
                       LossBudget!Booked(key, LossBudget!BooksOn(a, p, today), x)]
    <2>1. ASSUME NEW key \in BudgetKeys
          PROVE  BookedAgainst(key[1], key[2], key[3], key[4])' =
                    LossBudget!Booked(key, LossBudget!BooksOn(a, p, today), x)
      BY <1>11, <1>12, <2>1 DEF LossBudget!Booked
    <2> QED
      BY <2>1
  <1> HIDE DEF x, a, p
  <1>14. LossBudget!Settle(a, x)
    <2>1. reservation[a] # LossBudget!Flat
      BY <1>2, <1>9, BudgetAssumption DEF LossBudget!Flat, p
    <2>2. x <= reservation[a].amount
      BY <1>6, <1>9
    <2>3. reservation' = LossBudget!Settled(a)
      BY <1>10 DEF LossBudget!Settled, LossBudget!Flat
    <2>4. reservation[a].provider = p
      BY <1>9
    <2> QED
      BY <1>13, <2>1, <2>2, <2>3, <2>4 DEF LossBudget!Settle, LossBudget!ClockAdvances
  <1> QED
    BY <1>2, <1>7, <1>14 DEF a

-----------------------------------------------------------------------------
\* A step that neither opens nor closes lets time pass, as far as the budgets go.
LEMMA KeepingLetsTimePass ==
    ASSUME positions' = positions, outcomes' = outcomes, today' \in Days, today' >= today
    PROVE  LossBudget!Tick
  <1>1. \A a : Reservation(a)' = Reservation(a)
    BY DEF Reservation, OpenPositions
  <1>2. \A a, s, h, t : BookedAgainst(a, s, h, t)' = BookedAgainst(a, s, h, t)
    BY DEF BookedAgainst
  <1> QED
    BY <1>1, <1>2 DEF LossBudget!Tick, LossBudget!ClockAdvances

LEMMA InitBudgets ==
    ASSUME Init
    PROVE  LossBudget!Init
  <1>1. today = 0 /\ positions = {} /\ outcomes = {}
    BY DEF Init
  <1>2. \A a : Reservation(a) = [provider |-> Nobody, amount |-> 0]
    BY <1>1, FlatReservation DEF OpenPositions
  <1>3. \A a, s, h, t : BookedAgainst(a, s, h, t) = 0
    <2> SUFFICES ASSUME NEW a, NEW s, NEW h, NEW t PROVE BookedAgainst(a, s, h, t) = 0
      OBVIOUS
    <2>1. BookedAgainst(a, s, h, t) = Scale * TotalLoss({})
      BY <1>1 DEF BookedAgainst
    <2>2. TotalLoss({}) = 0
      BY WholeSumEmpty DEF TotalLoss
    <2> QED
      BY <2>1, <2>2, ScaleAssumption
  <1> QED
    BY <1>1, <1>2, <1>3 DEF LossBudget!Init, LossBudget!Flat, LossBudget!Scopes,
       LossBudget!Horizons, LossBudget!Periods, LossBudget!WeekOf, BudgetKeys, Periods, WeekOf

LEMMA StepKeepsPromise ==
    BudgetInv /\ [Next]_vars => LossBudget!Next
  <1> SUFFICES ASSUME BudgetInv, [Next]_vars PROVE LossBudget!Next
    OBVIOUS
  <1>1. today' \in Days /\ today' >= today
    BY NextTypes, DayMovesOn DEF BudgetInv, TypeInv, TypeOK
  <1>2. CASE Approval
    BY <1>1, <1>2, ApprovalReserves DEF LossBudget!Next
  <1>3. CASE ClosePosition
    BY <1>1, <1>3, CloseSettlesBudget DEF LossBudget!Next
  <1>4. CASE Quiet
    BY <1>1, <1>4, QuietLeavesPositions, KeepingLetsTimePass DEF LossBudget!Next
  <1> QED
    BY <1>2, <1>3, <1>4, StepKinds

(***************************************************************************)
(* Every run of the ledger is a run of the loss budget: what refresh sums  *)
(* up, Budget divides and PositionSize rounds adds up to a reservation     *)
(* that fits every budget of the starting equity, and no close books more  *)
(* than was reserved, whatever midnights pass inside of the transactions.  *)
(***************************************************************************)
THEOREM LedgerImplementsLossBudget == Spec => ImplementsLossBudget
  <1>1. Init => LossBudget!Init
    BY InitBudgets
  <1>2. BudgetInv /\ [Next]_vars => [LossBudget!Next]_(LossBudget!vars)
    BY StepKeepsPromise
  <1> QED
    BY <1>1, <1>2, InitBudgetInv, NextBudgetInv, PTL
       DEF Spec, ImplementsLossBudget, LossBudget!Spec

-----------------------------------------------------------------------------
(***************************************************************************)
(* What the refinement gives back to the ledger.  Promised is the loss     *)
(* budget under the same mapping, with the lemmas proved of it: its        *)
(* inductive invariant, read as a predicate of the tables, is invariant    *)
(* because every step of the ledger is a step of the loss budget.          *)
(***************************************************************************)
Promised ==
    INSTANCE LossBudgetProofs WITH
        Amounts <- TradeLosses,
        TradeCap <- FractionOfProfile(Policy.risk_fraction),
        DayCap <- [account |-> FractionOfProfile(Policy.daily_fraction),
                   provider |-> FractionOfProfile(Policy.provider_daily_fraction)],
        WeekCap <- [account |-> FractionOfProfile(Policy.weekly_fraction),
                    provider |-> FractionOfProfile(Policy.provider_weekly_fraction)],
        lost <- [key \in BudgetKeys |-> BookedAgainst(key[1], key[2], key[3], key[4])],
        reserved <- [a \in Accounts |-> Reservation(a)]

LEMMA TradeLossType == TradeLosses \subseteq Nat
  <1> SUFFICES ASSUME NEW o \in Offers, NEW lots \in LotGrid(o), NEW x \in LossesPerLot(o)
               PROVE  Scale * lots * x \in Nat
    BY DEF TradeLosses
  <1>1. lots \in Nat
    BY OffersAreOffers, GridType
  <1>2. x \in Nat
    BY OfferRecord DEF LossesPerLot
  <1> QED
    BY <1>1, <1>2, ScaleAssumption

LEMMA FractionType ==
    ASSUME NEW f \in Nat
    PROVE  FractionOfProfile(f) \in [Accounts -> Nat]
  BY LedgerAssumption DEF FractionOfProfile

\* The ledger's caps and losses are ones that the loss budget admits.
LEMMA LedgerBudgetsAdmitted == Promised!LossBudgetAssumption
  <1>1. /\ FractionOfProfile(Policy.risk_fraction) \in [Accounts -> Nat]
        /\ FractionOfProfile(Policy.daily_fraction) \in [Accounts -> Nat]
        /\ FractionOfProfile(Policy.weekly_fraction) \in [Accounts -> Nat]
        /\ FractionOfProfile(Policy.provider_daily_fraction) \in [Accounts -> Nat]
        /\ FractionOfProfile(Policy.provider_weekly_fraction) \in [Accounts -> Nat]
    BY FractionType, PolicyNumbers
  <1> QED
    BY <1>1, TradeLossType, BudgetAssumption, LedgerAssumption
       DEF Promised!LossBudgetAssumption, Promised!Scopes, Promised!ScopeKinds

LEMMA PromisedInit == LossBudget!Init => Promised!IInv
  <1>1. LossBudget!Init => Promised!Init
    BY DEF LossBudget!Init, LossBudget!Flat, LossBudget!Scopes,
       LossBudget!Horizons, LossBudget!Periods, LossBudget!WeekOf,
     Promised!Init, Promised!Flat, Promised!Scopes,
       Promised!Horizons, Promised!Periods, Promised!WeekOf
  <1> QED
    BY <1>1, LedgerBudgetsAdmitted, Promised!InitInvariant

LEMMA PromisedNext == Promised!IInv /\ [LossBudget!Next]_(LossBudget!vars) => Promised!IInv'
  <1>1. ASSUME NEW a \in Accounts, NEW p \in Providers, NEW x \in TradeLosses, LossBudget!Reserve(a, p, x)
        PROVE  Promised!Next
    BY <1>1 DEF LossBudget!Reserve, LossBudget!Flat, LossBudget!Fits, LossBudget!ScopesOf, LossBudget!Horizons, LossBudget!Period, LossBudget!WeekOf, LossBudget!Cap, LossBudget!ClockAdvances,
     Promised!Reserve, Promised!Flat, Promised!Fits, Promised!ScopesOf, Promised!Horizons, Promised!Period, Promised!WeekOf, Promised!Cap, Promised!ClockAdvances, Promised!Next
  <1>2. ASSUME NEW a \in Accounts, NEW x \in TradeLosses, LossBudget!Settle(a, x)
        PROVE  Promised!Next
    <2>1. Promised!Flat = LossBudget!Flat /\ Promised!Settled(a) = LossBudget!Settled(a)
      BY DEF LossBudget!Flat, Promised!Flat, LossBudget!Settled, Promised!Settled
    <2>2. \A p : Promised!BooksOn(a, p, today) = LossBudget!BooksOn(a, p, today)
      BY DEF Promised!BooksOn, Promised!ScopesOf, Promised!Horizons, Promised!Period,
             Promised!WeekOf, LossBudget!BooksOn, LossBudget!ScopesOf, LossBudget!Horizons,
             LossBudget!Period, LossBudget!WeekOf
    <2>3. \A key, books : Promised!Booked(key, books, x) = LossBudget!Booked(key, books, x)
      BY DEF Promised!Booked, LossBudget!Booked
    <2>4. Promised!ClockAdvances
      BY <1>2 DEF LossBudget!Settle, LossBudget!ClockAdvances, Promised!ClockAdvances
    <2>5. Promised!Settle(a, x)
      BY <1>2, <2>1, <2>2, <2>3, <2>4 DEF Promised!Settle, LossBudget!Settle
    <2> QED
      BY <2>5 DEF Promised!Next
  <1>3. LossBudget!Tick => Promised!Next
    BY DEF LossBudget!Tick, Promised!Tick, LossBudget!ClockAdvances, Promised!ClockAdvances, Promised!Next
  <1>4. UNCHANGED LossBudget!vars => UNCHANGED Promised!vars
    BY DEF LossBudget!vars, Promised!vars
  <1>5. Promised!IInv /\ [Promised!Next]_(Promised!vars) => Promised!IInv'
    BY LedgerBudgetsAdmitted, Promised!NextInvariant
  <1> QED
    BY <1>1, <1>2, <1>3, <1>4, <1>5 DEF LossBudget!Next

\* The losses of a day and of a week, in the terms of the budgets that count them.
LEMMA BookedOn ==
    ASSUME TypeInv, NEW a, NEW p \in Providers, NEW d
    PROVE  LET provided == {o \in outcomes : o.provider = p}
           IN  /\ BookedAgainst(a, Everyone, "day", d) = Scale * DailyLoss(outcomes, a, d)
               /\ BookedAgainst(a, Everyone, "week", WeekOf(d))
                     = Scale * WeekLoss(outcomes, a, WeekOf(d))
               /\ BookedAgainst(a, p, "day", d) = Scale * DailyLoss(provided, a, d)
               /\ BookedAgainst(a, p, "week", WeekOf(d))
                     = Scale * WeekLoss(provided, a, WeekOf(d))
  <1> DEFINE provided == {o \in outcomes : o.provider = p}
  <1>1. \A o : InScope(o, Everyone) /\ (InScope(o, p) <=> o.provider = p)
    BY BudgetAssumption DEF InScope
  <1>2. Counted(a, Everyone, "day", d) = {o \in outcomes : o.account = a /\ o.day = d}
    BY <1>1 DEF Counted, InPeriod
  <1>3. Counted(a, Everyone, "week", WeekOf(d))
          = {o \in outcomes : o.account = a /\ o.day \div 7 = WeekOf(d)}
    BY <1>1 DEF Counted, InPeriod, WeekOf
  <1>4. Counted(a, p, "day", d) = {o \in provided : o.account = a /\ o.day = d}
    BY <1>1 DEF Counted, InPeriod
  <1>5. Counted(a, p, "week", WeekOf(d))
          = {o \in provided : o.account = a /\ o.day \div 7 = WeekOf(d)}
    BY <1>1 DEF Counted, InPeriod, WeekOf
  <1>6. \A s, h, t : BookedAgainst(a, s, h, t) = Scale * TotalLoss(Counted(a, s, h, t))
    BY BookedIsType
  <1> HIDE DEF provided
  <1>7. /\ TotalLoss(Counted(a, Everyone, "day", d)) = DailyLoss(outcomes, a, d)
        /\ TotalLoss(Counted(a, Everyone, "week", WeekOf(d))) = WeekLoss(outcomes, a, WeekOf(d))
        /\ TotalLoss(Counted(a, p, "day", d)) = DailyLoss(provided, a, d)
        /\ TotalLoss(Counted(a, p, "week", WeekOf(d))) = WeekLoss(provided, a, WeekOf(d))
    BY <1>2, <1>3, <1>4, <1>5, Zenon DEF DailyLoss, WeekLoss
  <1> QED
    BY <1>6, <1>7, Zenon DEF provided

\* The caps that the rules set on the losses of account a and of provider p in it.
CapsHold(a, p, d) ==
    LET provided == {o \in outcomes : o.provider = p}
    IN  /\ Scale * DailyLoss(outcomes, a, d) <= Profiles[a] * Policy.daily_fraction
        /\ Scale * WeekLoss(outcomes, a, WeekOf(d)) <= Profiles[a] * Policy.weekly_fraction
        /\ Scale * DailyLoss(provided, a, d) <= Profiles[a] * Policy.provider_daily_fraction
        /\ Scale * WeekLoss(provided, a, WeekOf(d))
              <= Profiles[a] * Policy.provider_weekly_fraction

LossesWithinCaps == \A a \in Accounts, p \in Providers, d \in Days : CapsHold(a, p, d)

\* The open risk is covered: were the position to lose all it may lose today, the
\* caps of today and of this week would still hold.
OpenRiskWithinCaps ==
    \A row \in positions : row.status = "OPEN" =>
        LET a == row.account
            provided == {o \in outcomes : o.provider = row.provider}
            risk == ScaledLoss(row.offer, row.lots)
        IN  /\ Scale * DailyLoss(outcomes, a, today) + risk <= Profiles[a] * Policy.daily_fraction
            /\ Scale * WeeklyLoss(outcomes, a, today) + risk
                  <= Profiles[a] * Policy.weekly_fraction
            /\ Scale * DailyLoss(provided, a, today) + risk
                  <= Profiles[a] * Policy.provider_daily_fraction
            /\ Scale * WeeklyLoss(provided, a, today) + risk
                  <= Profiles[a] * Policy.provider_weekly_fraction

\* The four caps of the loss budget are those of the policy.
LEMMA PromisedCaps ==
    ASSUME NEW a \in Accounts, NEW p \in Providers
    PROVE  /\ Promised!Cap(a, Everyone, "day") = Profiles[a] * Policy.daily_fraction
           /\ Promised!Cap(a, Everyone, "week") = Profiles[a] * Policy.weekly_fraction
           /\ Promised!Cap(a, p, "day") = Profiles[a] * Policy.provider_daily_fraction
           /\ Promised!Cap(a, p, "week") = Profiles[a] * Policy.provider_weekly_fraction
  BY BudgetAssumption DEF Promised!Cap, FractionOfProfile

LEMMA PromisedWithinCaps ==
    ASSUME TypeInv, Promised!WithinBudget
    PROVE  LossesWithinCaps
  <1> SUFFICES ASSUME NEW a \in Accounts, NEW p \in Providers, NEW d \in Days
               PROVE  CapsHold(a, p, d)
    BY DEF LossesWithinCaps
  <1> DEFINE booked == [key \in BudgetKeys |-> BookedAgainst(key[1], key[2], key[3], key[4])]
  <1>1. /\ booked[<<a, Everyone, "day", d>>] <= Promised!Cap(a, Everyone, "day")
        /\ booked[<<a, Everyone, "week", WeekOf(d)>>] <= Promised!Cap(a, Everyone, "week")
        /\ booked[<<a, p, "day", d>>] <= Promised!Cap(a, p, "day")
        /\ booked[<<a, p, "week", WeekOf(d)>>] <= Promised!Cap(a, p, "week")
    BY DEF Promised!WithinBudget, Promised!Scopes, Promised!Horizons, Promised!Periods,
           Promised!WeekOf, WeekOf
  <1>2. /\ booked[<<a, Everyone, "day", d>>] = BookedAgainst(a, Everyone, "day", d)
        /\ booked[<<a, Everyone, "week", WeekOf(d)>>]
              = BookedAgainst(a, Everyone, "week", WeekOf(d))
        /\ booked[<<a, p, "day", d>>] = BookedAgainst(a, p, "day", d)
        /\ booked[<<a, p, "week", WeekOf(d)>>] = BookedAgainst(a, p, "week", WeekOf(d))
    BY DEF BudgetKeys, Periods
  <1> HIDE DEF booked
  <1> QED
    BY <1>1, <1>2, PromisedCaps, BookedOn DEF CapsHold

LEMMA PromisedCoversRisk ==
    ASSUME BudgetInv, Promised!ReservationsCovered
    PROVE  OpenRiskWithinCaps
  <1> SUFFICES ASSUME NEW row \in positions, row.status = "OPEN"
               PROVE  LET a == row.account
                          provided == {o \in outcomes : o.provider = row.provider}
                          risk == ScaledLoss(row.offer, row.lots)
                      IN  /\ Scale * DailyLoss(outcomes, a, today) + risk
                                <= Profiles[a] * Policy.daily_fraction
                          /\ Scale * WeeklyLoss(outcomes, a, today) + risk
                                <= Profiles[a] * Policy.weekly_fraction
                          /\ Scale * DailyLoss(provided, a, today) + risk
                                <= Profiles[a] * Policy.provider_daily_fraction
                          /\ Scale * WeeklyLoss(provided, a, today) + risk
                                <= Profiles[a] * Policy.provider_weekly_fraction
    BY DEF OpenRiskWithinCaps
  <1> DEFINE a == row.account
             p == row.provider
             risk == ScaledLoss(row.offer, row.lots)
             booked == [key \in BudgetKeys |-> BookedAgainst(key[1], key[2], key[3], key[4])]
             reservation == [b \in Accounts |-> Reservation(b)]
  <1>1. a \in Accounts /\ p \in Providers /\ today \in Days
    BY DEF BudgetInv, TypeInv, TypeOK, PositionRow
  <1>2. reservation[a] = [provider |-> p, amount |-> risk]
    <2>1. OpenPositions(a) = {row}
      BY DEF OpenPositions, BudgetInv, OneOpenPosition
    <2> QED
      BY <1>1, <2>1, OpenReservation
  <1>3. Promised!Claim(a, Everyone) = risk /\ Promised!Claim(a, p) = risk
    BY <1>1, <1>2, BudgetAssumption DEF Promised!Claim, Promised!Flat, Promised!ScopesOf
  <1>4. /\ booked[<<a, Everyone, "day", today>>] + risk <= Promised!Cap(a, Everyone, "day")
        /\ booked[<<a, Everyone, "week", WeekOf(today)>>] + risk
              <= Promised!Cap(a, Everyone, "week")
        /\ booked[<<a, p, "day", today>>] + risk <= Promised!Cap(a, p, "day")
        /\ booked[<<a, p, "week", WeekOf(today)>>] + risk <= Promised!Cap(a, p, "week")
    <2> HIDE DEF a, p, risk, booked, reservation
    <2>1. \A s \in Providers \cup {Everyone}, h \in {"day", "week"} :
             booked[<<a, s, h, IF h = "day" THEN today ELSE WeekOf(today)>>]
               + Promised!Claim(a, s) <= Promised!Cap(a, s, h)
      BY <1>1 DEF Promised!ReservationsCovered, Promised!Scopes, Promised!Horizons,
                  Promised!Period, Promised!WeekOf, WeekOf, booked
    <2> QED
      BY <1>1, <1>3, <2>1
  <1>5. /\ booked[<<a, Everyone, "day", today>>] = BookedAgainst(a, Everyone, "day", today)
        /\ booked[<<a, Everyone, "week", WeekOf(today)>>]
              = BookedAgainst(a, Everyone, "week", WeekOf(today))
        /\ booked[<<a, p, "day", today>>] = BookedAgainst(a, p, "day", today)
        /\ booked[<<a, p, "week", WeekOf(today)>>] = BookedAgainst(a, p, "week", WeekOf(today))
    BY <1>1 DEF BudgetKeys, Periods
  <1> HIDE DEF booked, reservation, risk, a, p
  <1> QED
    BY <1>1, <1>4, <1>5, PromisedCaps, BookedNow DEF BudgetInv, risk, a, p

(***************************************************************************)
(* No sequence of trades, reviews and days loses more than the caps of an  *)
(* account's profile in any day or week, in the account as a whole or on   *)
(* one provider's signals: what BudgetsHold says of the abstract budgets,  *)
(* read back through the refinement into the tables of the ledger.         *)
(***************************************************************************)
THEOREM LedgerLossesWithinCaps == Spec => []LossesWithinCaps
  <1> DEFINE Inv == BudgetInv /\ Promised!IInv
  <1>1. Init => Inv
    BY InitBudgetInv, InitBudgets, PromisedInit
  <1>2. Inv /\ [Next]_vars => Inv'
    BY NextBudgetInv, StepKeepsPromise, PromisedNext DEF vars
  <1>3. Inv => LossesWithinCaps
    BY PromisedWithinCaps DEF BudgetInv, Promised!IInv
  <1> QED
    BY <1>1, <1>2, <1>3, PTL DEF Spec

(***************************************************************************)
(* "Open risk is reserved immediately": whatever a position that is open   *)
(* may still lose, the caps of the day and of the week have room for it.   *)
(***************************************************************************)
THEOREM LedgerOpenRiskWithinCaps == Spec => []OpenRiskWithinCaps
  <1> DEFINE Inv == BudgetInv /\ Promised!IInv
  <1>1. Init => Inv
    BY InitBudgetInv, InitBudgets, PromisedInit
  <1>2. Inv /\ [Next]_vars => Inv'
    BY NextBudgetInv, StepKeepsPromise, PromisedNext
  <1>3. Inv => OpenRiskWithinCaps
    BY PromisedCoversRisk DEF Promised!IInv
  <1> QED
    BY <1>1, <1>2, <1>3, PTL DEF Spec
=============================================================================
