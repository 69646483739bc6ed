----------------------------- MODULE BridgeProofs -----------------------------
(***************************************************************************)
(* The invariants of the alert bridge beside the ledger, for every set of  *)
(* deployments, headers, alerts and reported equities, and with every      *)
(* operation of the ledger between two deliveries; and what the ledger     *)
(* keeps of its own invariants when deliveries run beside it, from all     *)
(* that a delivery may write (AlertEffect).                                *)
(***************************************************************************)
EXTENDS Bridge, LedgerProofs

BridgeInv == BridgeTypeOK /\ TypeInv

-----------------------------------------------------------------------------
\* The operations of the ledger run beside the bridge as they run without it.

LEMMA LedgerSteps ==
    ASSUME LedgerNext
    PROVE  Next /\ UNCHANGED bridgeVars
  <1>1. CASE ManualEvaluate
    <2>1. Evaluate
      BY <1>1, Zenon DEF ManualEvaluate, Evaluate
    <2> QED
      BY <2>1, Zenon DEF Next, LedgerNext
  <1> QED
    BY <1>1, Zenon DEF LedgerNext, Next

\* What a delivery is made of.
LEMMA AlertRequestType ==
    ASSUME NEW d \in Deliveries, NEW offer \in Offers, NEW fault \in Faults
    PROVE  LET r == AlertRequest(d, offer, fault)
           IN  /\ r \in Requests
               /\ r.account = DefaultProfile /\ r.provider = TradingView
               /\ r.signal = d.alert /\ r.offer = offer /\ r.fault = fault
  <1>1. DefaultProfile \in Accounts /\ TradingView \in Providers
    BY BridgeAssumption
  <1> QED
    BY <1>1 DEF AlertRequest, Deliveries, Requests

LEMMA IdsType ==
    ASSUME NEW d \in Deliveries, NEW id \in SignalIds(d.alert), NEW evaluated \in EvaluatedIds(id)
    PROVE  id \in Ids /\ evaluated \in Ids
  <1>1. FreshIds \subseteq Ids
    BY DEF FreshIds, Ids
  <1>2. id \in Ids
    BY <1>1 DEF SignalIds, Deliveries, Ids
  <1> QED
    BY <1>1, <1>2 DEF EvaluatedIds

LEMMA KeyType ==
    ASSUME NEW d \in Deliveries
    PROVE  IdempotencyKey(d) \in Keys
  <1>1. d.alert \in Signals /\ (d.header # NoHeader => d.header \in Headers)
    BY DEF Deliveries
  <1> QED
    BY <1>1 DEF IdempotencyKey, Keys

LEMMA EquityImported ==
    ASSUME NEW row \in AccountRow, NEW equity \in Nat, NEW start \in Nat
    PROVE  [row EXCEPT !.equity = equity, !.starting_equity = start] \in AccountRow
  <1> DEFINE paid == [row EXCEPT !.equity = equity]
  <1>1. paid \in AccountRow
    BY DEF AccountRow
  <1>2. [paid EXCEPT !.starting_equity = start] \in AccountRow
    BY <1>1 DEF AccountRow
  <1>3. [row EXCEPT !.equity = equity, !.starting_equity = start]
           = [paid EXCEPT !.starting_equity = start]
    OBVIOUS
  <1> QED
    BY <1>2, <1>3

LEMMA ImportedType ==
    ASSUME TypeInv, NEW equity \in Equities, mt5_initialized \in BOOLEAN
    PROVE  Imported(equity) \in [Accounts -> AccountRow]
  <1>1. DefaultProfile \in Accounts /\ equity \in Nat
    BY BridgeAssumption
  <1> DEFINE row == accounts[DefaultProfile]
             start == IF mt5_initialized THEN row.starting_equity ELSE equity
             imported == [row EXCEPT !.equity = equity, !.starting_equity = start]
  <1>2. row \in AccountRow
    BY <1>1 DEF TypeInv, TypeOK
  <1>3. start \in Nat
    BY <1>1, <1>2 DEF AccountRow
  <1>4. Imported(equity) = [accounts EXCEPT ![DefaultProfile] = imported]
    BY DEF Imported
  <1> HIDE DEF row, start
  <1>5. imported \in AccountRow
    BY <1>1, <1>2, <1>3, EquityImported
  <1> HIDE DEF imported
  <1> QED
    BY <1>1, <1>4, <1>5 DEF TypeInv, TypeOK

LEMMA WithProviderType ==
    ASSUME TypeInv
    PROVE  WithProvider \in [Providers -> ProviderRow]
  <1>1. Fixture \in ProviderRow
    BY DEF Fixture, ProviderRow, Qualities
  <1> QED
    BY <1>1 DEF WithProvider, TypeInv, TypeOK

LEMMA PreviewedType ==
    ASSUME TypeInv, NEW accts \in [Accounts -> AccountRow], NEW r \in Requests, NEW day \in Days
    PROVE  Previewed(accts, r, day) \in [Accounts -> AccountRow]
  <1>1. <<day>>[1] \in Days
    OBVIOUS
  <1>2. AccountSeen(accts, r, <<day>>) \in AccountRow
    BY <1>1, ViewSeenType
  <1> QED
    BY <1>2 DEF Previewed

\* The readings of a delivery begin with the day the transaction begins on.
LEMMA DeliveryDays ==
    ASSUME TypeInv, NEW day \in BridgeReadings
    PROVE  /\ day[1] \in Days /\ day[2] \in Days /\ day[3] \in Days /\ day[4] \in Days
           /\ day[1] = today /\ day[4] >= today
           /\ SeenOnDays(<<day[2], day[3], day[4]>>)
  <1>1. PICK k \in {j \in 1 .. 4 : j < 4 => today + 1 \in Days} :
           day = [i \in 1 .. 4 |-> IF i <= k THEN today ELSE today + 1]
    BY DEF BridgeReadings
  <1>2. today \in Days /\ today \in Nat
    BY LedgerAssumption DEF TypeInv, TypeOK
  <1>3. \A i \in 1 .. 4 : day[i] = IF i <= k THEN today ELSE today + 1
    BY <1>1
  <1>4. k \in 1 .. 4 /\ (k < 4 => today + 1 \in Days)
    BY <1>1
  <1>5. day[1] \in Days /\ day[2] \in Days /\ day[3] \in Days /\ day[4] \in Days
    BY <1>2, <1>3, <1>4
  <1>6. day[1] = today /\ day[4] >= today
    BY <1>2, <1>3, <1>4
  <1> QED
    BY <1>5, <1>6 DEF SeenOnDays

\* A volume that the preview finds is the one the engine approves on the rows it sees.
LEMMA PreviewFinds ==
    ASSUME TypeInv, NEW accts \in [Accounts -> AccountRow], NEW r \in Requests, NEW day \in Days
    PROVE  LET v == ViewSeen(accts, r, <<day>>)
               volume == PreviewVolume(accts, r, day)
           IN  /\ volume \in Nat
               /\ volume # 0 =>
                     /\ EngineReasons(v, WithProvider[r.provider], r.offer, r.fault) = {}
                     /\ volume = PositionSize(r.offer, Budget(v))
  <1> DEFINE v == ViewSeen(accts, r, <<day>>)
             volume == PreviewVolume(accts, r, day)
  <1>1. IsView(v)
    <2>1. <<day>>[1] \in Days
      OBVIOUS
    <2> QED
      BY <2>1, ViewSeenType
  <1>2. r.offer \in Offers /\ IsOffer(r.offer)
    BY OffersAreOffers DEF Requests
  <1>3. volume = IF EngineReasons(v, WithProvider[r.provider], r.offer, r.fault) = {}
                 THEN PositionSize(r.offer, Budget(v)) ELSE 0
    BY DEF PreviewVolume
  <1> HIDE DEF v, volume
  <1>4. CASE EngineReasons(v, WithProvider[r.provider], r.offer, r.fault) = {}
    <2>1. PositionSize(r.offer, Budget(v)) \in LotGrid(r.offer)
      BY <1>1, <1>2, <1>4, ApprovalFitsEveryBudget
    <2>2. PositionSize(r.offer, Budget(v)) \in Nat
      BY <1>2, <2>1, GridType
    <2> QED
      BY <1>3, <1>4, <2>2 DEF v, volume
  <1>5. CASE EngineReasons(v, WithProvider[r.provider], r.offer, r.fault) # {}
    BY <1>3, <1>5 DEF v, volume
  <1> QED
    BY <1>4, <1>5

-----------------------------------------------------------------------------
(***************************************************************************)
(* The three ends of an evaluation: approved with the checked volume,      *)
(* refused, or refused because its volume is another than the checked one. *)
(* Rows, readings and volume are named once for the lemmas that follow.    *)
(***************************************************************************)
RowsSeen(d, offer, fault, equity, day) ==
    Previewed(Imported(equity), AlertRequest(d, offer, fault), day[1])

VolumeSeen(d, offer, fault, equity, day) ==
    PreviewVolume(Imported(equity), AlertRequest(d, offer, fault), day[1])

ClockSeen(day) == <<day[2], day[3], day[4]>>

Normalized(d, id, status, checked) ==
    normalized_signals' = normalized_signals \cup
        {[id |-> id, alert |-> d.alert, status |-> status, checked |-> checked]}

Approved(d, id, evaluated, offer, fault, equity, day) ==
    LET r == AlertRequest(d, offer, fault)
        accts == RowsSeen(d, offer, fault, equity, day)
        volume == VolumeSeen(d, offer, fault, equity, day)
    IN  /\ VolumeChecked(volume, accts, r, ClockSeen(day))
        /\ Approve(accts, WithProvider, r, evaluated, ClockSeen(day))
        /\ Normalized(d, id, "APPROVED_SIMULATED_TRADE", volume)

Refused(d, id, evaluated, offer, fault, equity, day) ==
    LET r == AlertRequest(d, offer, fault)
        accts == RowsSeen(d, offer, fault, equity, day)
        volume == VolumeSeen(d, offer, fault, equity, day)
    IN  /\ \/ Refuse(accts, WithProvider, r, evaluated, ClockSeen(day))
           \/ RefuseUnchecked(accts, r, evaluated, ClockSeen(day))
        /\ \E status \in {"WATCHLIST", "NO_TRADE"} : Normalized(d, id, status, volume)

LEMMA DecideEnds ==
    ASSUME NEW d, NEW id, NEW evaluated, NEW offer, NEW fault, NEW equity, NEW day,
           Decide(d, id, evaluated, offer, fault, equity, day)
    PROVE  /\ Evidence(d, id)
           /\ Answered(d, "processed")
           /\ \/ Approved(d, id, evaluated, offer, fault, equity, day)
              \/ Refused(d, id, evaluated, offer, fault, equity, day)
  <1> DEFINE r == AlertRequest(d, offer, fault)
             accts == RowsSeen(d, offer, fault, equity, day)
             volume == VolumeSeen(d, offer, fault, equity, day)
             clock == ClockSeen(day)
             status == IF Reasons(accts, WithProvider, r, evaluated, clock)
                            = {"INSUFFICIENT_EVIDENCE"} THEN "WATCHLIST" ELSE "NO_TRADE"
  <1>1. /\ Evidence(d, id)
        /\ Answered(d, "processed")
        /\ \/ /\ VolumeChecked(volume, accts, r, clock)
              /\ Approve(accts, WithProvider, r, evaluated, clock)
              /\ Normalized(d, id, "APPROVED_SIMULATED_TRADE", volume)
           \/ /\ Refuse(accts, WithProvider, r, evaluated, clock)
              /\ Normalized(d, id, status, volume)
           \/ /\ ~VolumeChecked(volume, accts, r, clock)
              /\ RefuseUnchecked(accts, r, evaluated, clock)
              /\ Normalized(d, id, "NO_TRADE", volume)
    BY Zenon DEF Decide, RowsSeen, VolumeSeen, ClockSeen, Normalized
  <1>2. status \in {"WATCHLIST", "NO_TRADE"}
    OBVIOUS
  <1> HIDE DEF r, accts, volume, clock, status
  <1>3. \/ /\ VolumeChecked(volume, accts, r, clock)
           /\ Approve(accts, WithProvider, r, evaluated, clock)
           /\ Normalized(d, id, "APPROVED_SIMULATED_TRADE", volume)
        \/ /\ \/ Refuse(accts, WithProvider, r, evaluated, clock)
              \/ RefuseUnchecked(accts, r, evaluated, clock)
           /\ \E x \in {"WATCHLIST", "NO_TRADE"} : Normalized(d, id, x, volume)
    BY <1>1, <1>2
  <1> QED
    BY <1>1, <1>3, Zenon DEF Approved, Refused, r, accts, volume, clock

\* The rows, the readings and the volume of a delivery have their types.
LEMMA SeenTypes ==
    ASSUME BridgeInv, NEW d \in Deliveries, NEW offer \in Offers, NEW fault \in Faults,
           NEW equity \in Equities, NEW day \in BridgeReadings
    PROVE  /\ AlertRequest(d, offer, fault) \in Requests
           /\ Imported(equity) \in [Accounts -> AccountRow]
           /\ RowsSeen(d, offer, fault, equity, day) \in [Accounts -> AccountRow]
           /\ VolumeSeen(d, offer, fault, equity, day) \in Nat
           /\ SeenOnDays(ClockSeen(day)) /\ ClockSeen(day)[1] \in Days
           /\ ClockSeen(day)[3] = day[4]
  <1>1. AlertRequest(d, offer, fault) \in Requests
    BY AlertRequestType
  <1>2. Imported(equity) \in [Accounts -> AccountRow]
    BY ImportedType DEF BridgeInv, BridgeTypeOK
  <1>3. day[1] \in Days /\ day[2] \in Days /\ SeenOnDays(ClockSeen(day))
    BY DeliveryDays DEF BridgeInv, ClockSeen
  <1>4. RowsSeen(d, offer, fault, equity, day) \in [Accounts -> AccountRow]
    BY <1>1, <1>2, <1>3, PreviewedType DEF BridgeInv, RowsSeen
  <1>5. VolumeSeen(d, offer, fault, equity, day) \in Nat
    BY <1>1, <1>2, <1>3, PreviewFinds DEF BridgeInv, VolumeSeen
  <1> QED
    BY <1>1, <1>2, <1>3, <1>4, <1>5 DEF ClockSeen

-----------------------------------------------------------------------------
\* Type correctness.

\* The tables of the bridge after a delivery that got as far as the evidence.
LEMMA EvidenceTypes ==
    ASSUME BridgeInv, TypeInv', NEW d \in Deliveries, NEW id \in Ids, Evidence(d, id),
           NEW answer \in {"blocked", "processed"}, Answered(d, answer),
           NEW status \in Verdicts, NEW checked \in Nat, Normalized(d, id, status, checked)
    PROVE  BridgeInv'
  <1>1. deployment' \in Deployments /\ mt5_initialized' \in BOOLEAN
    BY DEF BridgeInv, BridgeTypeOK, Evidence
  <1>2. raw_webhooks' \in [Keys -> RawStatus]
    BY KeyType DEF BridgeInv, BridgeTypeOK, Answered, RawStatus
  <1>3. normalized_signals' \subseteq NormalizedRow
    BY DEF BridgeInv, BridgeTypeOK, Normalized, NormalizedRow, Deliveries
  <1> QED
    BY <1>1, <1>2, <1>3 DEF BridgeInv, BridgeTypeOK, TypeInv

LEMMA FailCheckTypes ==
    ASSUME BridgeInv, NEW d \in Deliveries, NEW offer \in Offers, NEW equity \in Equities,
           NEW day \in BridgeReadings, NEW id \in SignalIds(d.alert),
           FailCheck(d, id, offer, equity, day)
    PROVE  BridgeInv'
  <1> DEFINE r == AlertRequest(d, offer, "none")
  <1>1. /\ Evidence(d, id) /\ Answered(d, "blocked")
        /\ Normalized(d, id, "NO_TRADE", 0)
        /\ accounts' = RowsSeen(d, offer, "none", equity, day)
        /\ providers' = WithProvider
        /\ today' = day[4]
        /\ UNCHANGED <<signals, positions, outcomes, performance>>
    BY DEF FailCheck, Normalized, RowsSeen
  <1>2. id \in Ids
    <2>1. FreshIds \subseteq Ids
      BY DEF FreshIds, Ids
    <2> QED
      BY <2>1 DEF SignalIds, Deliveries, Ids
  <1>3. accounts' \in [Accounts -> AccountRow]
    <2>1. "none" \in Faults
      BY DEF Faults
    <2> QED
      BY <1>1, <2>1, SeenTypes
  <1>4. today' \in Days
    BY <1>1, DeliveryDays DEF BridgeInv
  <1>5. providers' \in [Providers -> ProviderRow]
    BY <1>1, WithProviderType DEF BridgeInv
  <1>6. TypeInv'
    BY <1>1, <1>3, <1>4, <1>5 DEF BridgeInv, TypeInv, TypeOK
  <1> QED
    BY <1>1, <1>2, <1>6, EvidenceTypes DEF Verdicts

LEMMA RefuseUncheckedTypes ==
    ASSUME TypeInv, NEW accts \in [Accounts -> AccountRow], NEW r \in Requests, NEW id \in Ids,
           NEW clock, SeenOnDays(clock), RefuseUnchecked(accts, r, id, clock)
    PROVE  TypeInv'
  <1>1. r.account \in Accounts
    BY DEF Requests
  <1>2. AccountSeen(accts, r, clock) \in AccountRow
    BY ViewSeenType DEF SeenOnDays
  <1>3. accounts' \in [Accounts -> AccountRow]
    BY <1>1, <1>2 DEF RefuseUnchecked
  <1>4. providers' \in [Providers -> ProviderRow]
    BY WithProviderType DEF RefuseUnchecked
  <1>5. signals' \in [Ids -> Verdicts \cup {"NONE"}]
    BY DEF RefuseUnchecked, TypeInv, TypeOK, Verdicts
  <1> QED
    BY <1>3, <1>4, <1>5 DEF RefuseUnchecked, SeenOnDays, TypeInv, TypeOK

LEMMA DecideTypes ==
    ASSUME BridgeInv, NEW d \in Deliveries, NEW offer \in Offers, NEW fault \in Faults,
           NEW equity \in Equities, NEW day \in BridgeReadings,
           NEW id \in SignalIds(d.alert), NEW evaluated \in EvaluatedIds(id),
           Decide(d, id, evaluated, offer, fault, equity, day)
    PROVE  BridgeInv'
  <1> DEFINE r == AlertRequest(d, offer, fault)
             accts == RowsSeen(d, offer, fault, equity, day)
             volume == VolumeSeen(d, offer, fault, equity, day)
             clock == ClockSeen(day)
  <1>1. /\ r \in Requests /\ accts \in [Accounts -> AccountRow] /\ volume \in Nat
        /\ SeenOnDays(clock)
        /\ WithProvider \in [Providers -> ProviderRow]
        /\ id \in Ids /\ evaluated \in Ids
    BY SeenTypes, WithProviderType, IdsType DEF BridgeInv
  <1>2. /\ Evidence(d, id) /\ Answered(d, "processed")
        /\ \/ Approved(d, id, evaluated, offer, fault, equity, day)
           \/ Refused(d, id, evaluated, offer, fault, equity, day)
    BY DecideEnds
  <1>3. TypeInv' /\ \E status \in Verdicts : Normalized(d, id, status, volume)
    <2>1. CASE Approved(d, id, evaluated, offer, fault, equity, day)
      <3>1. /\ Approve(accts, WithProvider, r, evaluated, clock)
            /\ Normalized(d, id, "APPROVED_SIMULATED_TRADE", volume)
        BY <2>1, Zenon DEF Approved
      <3> HIDE DEF r, accts, volume, clock
      <3> QED
        BY <1>1, <3>1, ApproveTypes DEF BridgeInv, Verdicts
    <2>2. CASE Refused(d, id, evaluated, offer, fault, equity, day)
      <3>1. /\ \/ Refuse(accts, WithProvider, r, evaluated, clock)
               \/ RefuseUnchecked(accts, r, evaluated, clock)
            /\ \E status \in {"WATCHLIST", "NO_TRADE"} : Normalized(d, id, status, volume)
        BY <2>2, Zenon DEF Refused
      <3> HIDE DEF r, accts, volume, clock
      <3> QED
        BY <1>1, <3>1, RefuseTypes, RefuseUncheckedTypes DEF BridgeInv, Verdicts
    <2> QED
      BY <1>2, <2>1, <2>2
  <1> HIDE DEF r, accts, volume, clock
  <1> QED
    BY <1>1, <1>2, <1>3, EvidenceTypes

LEMMA BridgeInitTypes == BridgeInit => BridgeInv
  <1> SUFFICES ASSUME BridgeInit PROVE BridgeInv
    OBVIOUS
  <1>1. TypeInv
    BY InitTypes DEF BridgeInit
  <1>2. raw_webhooks \in [Keys -> RawStatus]
    BY DEF BridgeInit, RawStatus
  <1> QED
    BY <1>1, <1>2 DEF BridgeInv, BridgeTypeOK, BridgeInit, TypeInv

\* Turning a delivery away leaves the ledger as it is.
LEMMA TurnAwayStutters ==
    ASSUME NEW d, NEW status, TurnAway(d, status)
    PROVE  [Next]_vars /\ positions' = positions
  BY DEF TurnAway, vars

LEMMA BridgeNextTypes == BridgeInv /\ [BridgeNext]_bridgedVars => BridgeInv'
  <1> SUFFICES ASSUME BridgeInv, [BridgeNext]_bridgedVars PROVE BridgeInv'
    OBVIOUS
  <1>1. CASE IngestTurnedAway
    <2>1. PICK d \in Deliveries, status \in {"rejected", "blocked"} : TurnAway(d, status)
      BY <1>1 DEF IngestTurnedAway
    <2>2. TypeInv'
      BY <2>1, TurnAwayStutters, NextTypes DEF BridgeInv
    <2>3. raw_webhooks' \in [Keys -> RawStatus]
      BY <2>1, KeyType DEF TurnAway, Answered, BridgeInv, BridgeTypeOK, RawStatus
    <2> QED
      BY <2>1, <2>2, <2>3 DEF TurnAway, BridgeInv, BridgeTypeOK, TypeInv
  <1>2. CASE IngestUnchecked
    BY <1>2, FailCheckTypes DEF IngestUnchecked
  <1>3. CASE IngestDecided
    BY <1>3, DecideTypes DEF IngestDecided
  <1>4. CASE LedgerNext \/ UNCHANGED bridgedVars
    <2>1. [Next]_vars /\ UNCHANGED bridgeVars
      BY <1>4, LedgerSteps DEF bridgedVars
    <2>2. TypeInv'
      BY <2>1, NextTypes DEF BridgeInv
    <2> QED
      BY <2>1, <2>2 DEF bridgeVars, BridgeInv, BridgeTypeOK, TypeInv
  <1> QED
    BY <1>1, <1>2, <1>3, <1>4 DEF BridgeNext

(***************************************************************************)
(* Every table of the bridge and of the ledger below it keeps its type.    *)
(***************************************************************************)
THEOREM BridgeTypes == BridgeSpec => []BridgeTypeOK
  <1>1. BridgeInv => BridgeTypeOK
    BY DEF BridgeInv
  <1> QED
    BY <1>1, BridgeInitTypes, BridgeNextTypes, PTL DEF BridgeSpec

-----------------------------------------------------------------------------
(***************************************************************************)
(* A step of the bridge turns a delivery away, adds a row with the         *)
(* evidence of its alert, or is one of the ledger.                         *)
(***************************************************************************)
Recorded(d, id) ==
    /\ Evidence(d, id)
    /\ \E answer : Answered(d, answer)
    /\ \E status, checked : Normalized(d, id, status, checked)

LEMMA BridgeSteps ==
    ASSUME [BridgeNext]_bridgedVars
    PROVE  \/ \E d \in Deliveries, status \in {"rejected", "blocked"} : TurnAway(d, status)
           \/ \E d \in Deliveries : \E id \in SignalIds(d.alert) : Recorded(d, id)
           \/ [Next]_vars /\ UNCHANGED bridgeVars
  <1>1. CASE IngestUnchecked
    <2>1. PICK d \in Deliveries, offer \in Offers, equity \in Equities, day \in BridgeReadings :
             \E id \in SignalIds(d.alert) : FailCheck(d, id, offer, equity, day)
      BY <1>1 DEF IngestUnchecked
    <2>2. PICK id \in SignalIds(d.alert) : FailCheck(d, id, offer, equity, day)
      BY <2>1
    <2>3. Evidence(d, id) /\ Answered(d, "blocked") /\ Normalized(d, id, "NO_TRADE", 0)
      BY <2>2 DEF FailCheck, Normalized
    <2> QED
      BY <2>3 DEF Recorded
  <1>2. CASE IngestDecided
    <2>1. PICK d \in Deliveries, offer \in Offers, fault \in Faults, equity \in Equities,
               day \in BridgeReadings :
             \E id \in SignalIds(d.alert) : \E evaluated \in EvaluatedIds(id) :
                Decide(d, id, evaluated, offer, fault, equity, day)
      BY <1>2 DEF IngestDecided
    <2>2. PICK id \in SignalIds(d.alert) : \E evaluated \in EvaluatedIds(id) :
                Decide(d, id, evaluated, offer, fault, equity, day)
      BY <2>1
    <2>3. PICK evaluated \in EvaluatedIds(id) :
                Decide(d, id, evaluated, offer, fault, equity, day)
      BY <2>2
    <2>4. /\ Evidence(d, id) /\ Answered(d, "processed")
          /\ \/ Approved(d, id, evaluated, offer, fault, equity, day)
             \/ Refused(d, id, evaluated, offer, fault, equity, day)
      BY <2>3, DecideEnds
    <2>5. \E status, checked : Normalized(d, id, status, checked)
      BY <2>4, Zenon DEF Approved, Refused
    <2> QED
      BY <2>4, <2>5 DEF Recorded
  <1>3. CASE LedgerNext \/ UNCHANGED bridgedVars
    BY <1>3, LedgerSteps DEF bridgedVars
  <1> QED
    BY <1>1, <1>2, <1>3 DEF BridgeNext, IngestTurnedAway

-----------------------------------------------------------------------------
\* An alert is evaluated once.

\* The rows of normalized_signals have distinct ids, which are those of the alerts.
RowsById ==
    /\ \A n1, n2 \in normalized_signals : n1.id = n2.id => n1 = n2
    /\ \A n \in normalized_signals : n.alert \in TextIds \cup NumberIds => n.id = n.alert

LEMMA RecordedKeepsIds ==
    ASSUME RowsById, NEW d, NEW id \in SignalIds(d.alert), Recorded(d, id)
    PROVE  RowsById'
  <1>1. PICK status, checked : Normalized(d, id, status, checked)
    BY DEF Recorded
  <1> DEFINE new == [id |-> id, alert |-> d.alert, status |-> status, checked |-> checked]
  <1>2. new.id = id /\ new.alert = d.alert
    OBVIOUS
  <1>3. normalized_signals' = normalized_signals \cup {new}
    BY <1>1 DEF Normalized
  <1>4. \A n \in normalized_signals : n.id # id
    BY DEF Recorded, Evidence
  <1>5. d.alert \in TextIds \cup NumberIds => id = d.alert
    BY DEF SignalIds
  <1> HIDE DEF new
  <1> QED
    BY <1>2, <1>3, <1>4, <1>5 DEF RowsById

LEMMA NextKeepsIds ==
    RowsById /\ [BridgeNext]_bridgedVars => RowsById'
  <1> SUFFICES ASSUME RowsById, [BridgeNext]_bridgedVars PROVE RowsById'
    OBVIOUS
  <1>1. CASE normalized_signals' = normalized_signals
    BY <1>1 DEF RowsById
  <1> QED
    BY <1>1, BridgeSteps, RecordedKeepsIds DEF TurnAway, bridgeVars

(***************************************************************************)
(* However often an alert with an alert_id is delivered, and under         *)
(* whatever headers, it is evaluated at most once.                         *)
(***************************************************************************)
THEOREM AlertsEvaluatedOnce == BridgeSpec => []AlertEvaluatedOnce
  <1>1. BridgeInit => RowsById
    BY DEF BridgeInit, RowsById
  <1>2. RowsById => AlertEvaluatedOnce
    BY DEF RowsById, AlertEvaluatedOnce
  <1> QED
    BY <1>1, <1>2, NextKeepsIds, PTL DEF BridgeSpec

-----------------------------------------------------------------------------
\* The first answer to an alert with a string id is final.

\* All deliveries of such an alert share the key that its first answer took.
LEMMA KnownAlertsKey ==
    ASSUME NEW alert \in TextIds
    PROVE  /\ \A d \in Deliveries : d.alert = alert => IdempotencyKey(d) = <<"alert", Stem[alert]>>
           /\ KnownAlert(alert) => raw_webhooks[<<"alert", Stem[alert]>>] # "NONE"
  BY DEF IdempotencyKey, KnownAlert

LEMMA AnswerIsFinal ==
    ASSUME BridgeInv, NEW alert \in TextIds, KnownAlert(alert),
           NEW d \in Deliveries, ~DuplicateDelivery(d), NEW answer, Answered(d, answer)
    PROVE  /\ d.alert # alert
           /\ \A e \in Deliveries : e.alert = alert =>
                 raw_webhooks'[IdempotencyKey(e)] = raw_webhooks[IdempotencyKey(e)]
  <1>1. d.alert # alert
    BY KnownAlertsKey DEF DuplicateDelivery
  <1>2. ASSUME NEW e \in Deliveries, e.alert = alert
        PROVE  raw_webhooks'[IdempotencyKey(e)] = raw_webhooks[IdempotencyKey(e)]
    <2>1. IdempotencyKey(e) # IdempotencyKey(d)
      BY <1>2, KnownAlertsKey DEF DuplicateDelivery
    <2>2. IdempotencyKey(e) \in Keys /\ IdempotencyKey(d) \in Keys
      BY KeyType
    <2>3. raw_webhooks \in [Keys -> RawStatus]
      BY DEF BridgeInv, BridgeTypeOK
    <2> QED
      BY <2>1, <2>2, <2>3 DEF Answered
  <1> QED
    BY <1>1, <1>2

FinalAnswer(alert) ==
    /\ {n \in normalized_signals' : n.alert = alert} = {n \in normalized_signals : n.alert = alert}
    /\ \A d \in Deliveries : d.alert = alert =>
          raw_webhooks'[IdempotencyKey(d)] = raw_webhooks[IdempotencyKey(d)]

LEMMA NormalizedOfOthers ==
    ASSUME NEW d, NEW id, NEW status, NEW checked, Normalized(d, id, status, checked),
           NEW alert, d.alert # alert
    PROVE  {n \in normalized_signals' : n.alert = alert}
              = {n \in normalized_signals : n.alert = alert}
  <1> DEFINE new == [id |-> id, alert |-> d.alert, status |-> status, checked |-> checked]
  <1>1. new.alert = d.alert /\ normalized_signals' = normalized_signals \cup {new}
    BY DEF Normalized
  <1> HIDE DEF new
  <1> QED
    BY <1>1

LEMMA StepKeepsAnswer ==
    ASSUME BridgeInv, [BridgeNext]_bridgedVars, NEW alert \in TextIds, KnownAlert(alert)
    PROVE  FinalAnswer(alert)
  <1>1. ASSUME NEW d \in Deliveries, NEW id, Recorded(d, id) PROVE FinalAnswer(alert)
    <2>1. ~DuplicateDelivery(d)
      BY <1>1 DEF Recorded, Evidence
    <2> QED
      BY <1>1, <2>1, AnswerIsFinal, NormalizedOfOthers DEF FinalAnswer, Recorded
  <1>2. ASSUME NEW d \in Deliveries, NEW status, TurnAway(d, status) PROVE FinalAnswer(alert)
    <2>1. ~DuplicateDelivery(d) /\ Answered(d, status) /\ normalized_signals' = normalized_signals
      BY <1>2 DEF TurnAway
    <2> QED
      BY <2>1, AnswerIsFinal DEF FinalAnswer
  <1>3. CASE UNCHANGED bridgeVars
    BY <1>3 DEF FinalAnswer, bridgeVars
  <1> QED
    BY <1>1, <1>2, <1>3, BridgeSteps

(***************************************************************************)
(* Once a string id has been answered, in whatever way, no delivery of its *)
(* alert is evaluated or recorded again: alert ids take precedence over    *)
(* the delivery's header.                                                  *)
(***************************************************************************)
THEOREM FirstAnswersAreFinal == BridgeSpec => FirstAnswerIsFinal
  <1>1. BridgeInv /\ [BridgeNext]_bridgedVars
           => [\A alert \in TextIds : KnownAlert(alert) =>
                 /\ {n \in normalized_signals' : n.alert = alert}
                       = {n \in normalized_signals : n.alert = alert}
                 /\ \A d \in Deliveries : d.alert = alert =>
                       raw_webhooks'[IdempotencyKey(d)] = raw_webhooks[IdempotencyKey(d)]
              ]_bridgedVars
    BY StepKeepsAnswer, Zenon DEF FinalAnswer
  <1> QED
    BY <1>1, BridgeInitTypes, BridgeNextTypes, PTL DEF BridgeSpec, FirstAnswerIsFinal

-----------------------------------------------------------------------------
(***************************************************************************)
(* What a delivery does to the ledger.  The evaluation may read the day    *)
(* after today, but its volume is also the one that the preview found on   *)
(* the losses of today, so it fits the budgets of today.                   *)
(***************************************************************************)
AlertOpens(d) ==
    \E r \in Requests, evaluated \in Ids, lots \in Nat :
        /\ r.account = DefaultProfile /\ r.provider = TradingView /\ r.signal = d.alert
        /\ lots > 0
        /\ Opening(r, evaluated, lots)
        /\ OutcomesPast => FitsBudgets(r.account, r.provider, ScaledLoss(r.offer, lots))
        /\ \E id : Normalized(d, id, "APPROVED_SIMULATED_TRADE", lots)

AlertKeeps(d) ==
    /\ positions' = positions /\ outcomes' = outcomes /\ ApprovedIds' = ApprovedIds
    /\ \E id, checked : \E status \in {"WATCHLIST", "NO_TRADE"} : Normalized(d, id, status, checked)

LEMMA ApprovedOpens ==
    ASSUME BridgeInv, NEW d \in Deliveries, NEW offer \in Offers, NEW fault \in Faults,
           NEW equity \in Equities, NEW day \in BridgeReadings,
           NEW id \in SignalIds(d.alert), NEW evaluated \in EvaluatedIds(id),
           Approved(d, id, evaluated, offer, fault, equity, day)
    PROVE  AlertOpens(d) /\ today' = day[4]
  <1> DEFINE r == AlertRequest(d, offer, fault)
             imported == Imported(equity)
             accts == RowsSeen(d, offer, fault, equity, day)
             volume == VolumeSeen(d, offer, fault, equity, day)
             clock == ClockSeen(day)
  <1>1. /\ r \in Requests /\ accts \in [Accounts -> AccountRow] /\ volume \in Nat
        /\ imported \in [Accounts -> AccountRow]
        /\ clock[1] \in Days /\ clock[3] = day[4]
        /\ evaluated \in Ids
    BY SeenTypes, IdsType
  <1>2. /\ r.account = DefaultProfile /\ r.provider = TradingView
        /\ r.signal = d.alert /\ r.offer \in Offers
    BY AlertRequestType
  <1>3. /\ volume = PositionSize(r.offer, Budget(ViewSeen(accts, r, clock)))
        /\ Approve(accts, WithProvider, r, evaluated, clock)
        /\ Normalized(d, id, "APPROVED_SIMULATED_TRADE", volume)
    BY Zenon DEF Approved, VolumeChecked
  <1>4. day[1] \in Days /\ day[1] = today
    BY DeliveryDays DEF BridgeInv
  <1>5. volume # 0 =>
           /\ EngineReasons(ViewSeen(imported, r, <<day[1]>>), WithProvider[r.provider],
                            r.offer, r.fault) = {}
           /\ volume = PositionSize(r.offer, Budget(ViewSeen(imported, r, <<day[1]>>)))
    BY <1>1, <1>4, PreviewFinds DEF BridgeInv, VolumeSeen
  <1> HIDE DEF r, imported, accts, volume, clock
  <1>6. Opening(r, evaluated, volume)
    BY <1>1, <1>3, ApproveOpens DEF BridgeInv
  <1>7. volume > 0
    <2>1. Reasons(accts, WithProvider, r, evaluated, clock) = {}
      BY <1>3 DEF Approve
    <2>2. /\ IsView(ViewSeen(accts, r, clock)) /\ IsOffer(r.offer)
          /\ EngineReasons(ViewSeen(accts, r, clock), WithProvider[r.provider],
                           r.offer, r.fault) = {}
      BY <1>1, <2>1, ApprovalFacts DEF BridgeInv
    <2>3. volume >= r.offer.minimum
      BY <1>3, <2>2, ApprovalFitsEveryBudget
    <2> QED
      BY <1>1, <2>2, <2>3, OfferNumbers
  <1>8. ASSUME OutcomesPast
        PROVE  FitsBudgets(r.account, r.provider, ScaledLoss(r.offer, volume))
    <2> DEFINE first == <<day[1]>>
    <2>1. first[1] = today
      BY <1>4
    <2>2. /\ EngineReasons(ViewSeen(imported, r, first), WithProvider[r.provider],
                           r.offer, r.fault) = {}
          /\ volume = PositionSize(r.offer, Budget(ViewSeen(imported, r, first)))
      BY <1>5, <1>7
    <2>3. OpenPositions(r.account) = {}
      BY <1>6 DEF Opening
    <2> HIDE DEF first
    <2> QED
      BY <1>1, <1>8, <2>1, <2>2, <2>3, ApprovalFitsBudgets DEF BridgeInv
  <1>9. today' = day[4]
    BY <1>1, <1>3 DEF Approve
  <1> QED
    BY <1>1, <1>2, <1>3, <1>6, <1>7, <1>8, <1>9 DEF AlertOpens

LEMMA RefusedKeeps ==
    ASSUME BridgeInv, NEW d \in Deliveries, NEW offer \in Offers, NEW fault \in Faults,
           NEW equity \in Equities, NEW day \in BridgeReadings,
           NEW id \in SignalIds(d.alert), NEW evaluated \in EvaluatedIds(id),
           Refused(d, id, evaluated, offer, fault, equity, day)
    PROVE  AlertKeeps(d) /\ today' = day[4]
  <1> DEFINE r == AlertRequest(d, offer, fault)
             accts == RowsSeen(d, offer, fault, equity, day)
             volume == VolumeSeen(d, offer, fault, equity, day)
             clock == ClockSeen(day)
  <1>1. /\ r \in Requests /\ accts \in [Accounts -> AccountRow]
        /\ clock[1] \in Days /\ clock[3] = day[4]
        /\ evaluated \in Ids
    BY SeenTypes, IdsType
  <1>2. /\ \/ Refuse(accts, WithProvider, r, evaluated, clock)
           \/ RefuseUnchecked(accts, r, evaluated, clock)
        /\ \E status \in {"WATCHLIST", "NO_TRADE"} : Normalized(d, id, status, volume)
    BY Zenon DEF Refused
  <1> HIDE DEF r, accts, volume, clock
  <1>3. CASE Refuse(accts, WithProvider, r, evaluated, clock)
    <2>1. ApprovedIds' = ApprovedIds
      BY <1>1, <1>3, RefuseSettles DEF BridgeInv
    <2> QED
      BY <1>1, <1>2, <1>3, <2>1 DEF Refuse, AlertKeeps
  <1>4. CASE RefuseUnchecked(accts, r, evaluated, clock)
    <2>1. signals[evaluated] = "NONE"
      <3>1. Reasons(accts, WithProvider, r, evaluated, clock) = {}
        BY <1>4 DEF RefuseUnchecked
      <3> QED
        BY <1>1, <3>1, ApprovalFacts DEF BridgeInv
    <2>2. ApprovedIds' = ApprovedIds
      BY <1>4, <2>1 DEF RefuseUnchecked, ApprovedIds, BridgeInv, TypeInv, TypeOK
    <2> QED
      BY <1>1, <1>2, <1>4, <2>2 DEF RefuseUnchecked, AlertKeeps
  <1> QED
    BY <1>2, <1>3, <1>4

\* A step of the bridge is one of the ledger, opens one position, or opens none.
LEMMA AlertSteps ==
    ASSUME BridgeInv, [BridgeNext]_bridgedVars
    PROVE  /\ deployment' = deployment
           /\ \/ [Next]_vars /\ normalized_signals' = normalized_signals
              \/ /\ SyntheticEvidence
                 /\ today' \in Days /\ today' >= today
                 /\ \E d \in Deliveries : AlertOpens(d) \/ AlertKeeps(d)
  <1>1. CASE IngestUnchecked
    <2>1. PICK d \in Deliveries, offer \in Offers, equity \in Equities, day \in BridgeReadings :
             \E id \in SignalIds(d.alert) : FailCheck(d, id, offer, equity, day)
      BY <1>1 DEF IngestUnchecked
    <2>2. PICK id \in SignalIds(d.alert) : FailCheck(d, id, offer, equity, day)
      BY <2>1
    <2>3. /\ Evidence(d, id) /\ Normalized(d, id, "NO_TRADE", 0)
          /\ today' = day[4]
          /\ UNCHANGED <<signals, positions, outcomes>>
      BY <2>2 DEF FailCheck, Normalized
    <2>4. AlertKeeps(d)
      BY <2>3 DEF AlertKeeps, ApprovedIds
    <2> QED
      BY <2>3, <2>4, DeliveryDays DEF Evidence, BridgeInv
  <1>2. CASE IngestDecided
    <2>1. PICK d \in Deliveries, offer \in Offers, fault \in Faults, equity \in Equities,
               day \in BridgeReadings :
             \E id \in SignalIds(d.alert) : \E evaluated \in EvaluatedIds(id) :
                Decide(d, id, evaluated, offer, fault, equity, day)
      BY <1>2 DEF IngestDecided
    <2>2. PICK id \in SignalIds(d.alert) : \E evaluated \in EvaluatedIds(id) :
                Decide(d, id, evaluated, offer, fault, equity, day)
      BY <2>1
    <2>3. PICK evaluated \in EvaluatedIds(id) :
                Decide(d, id, evaluated, offer, fault, equity, day)
      BY <2>2
    <2>4. Evidence(d, id) /\ (AlertOpens(d) \/ AlertKeeps(d)) /\ today' = day[4]
      BY <2>3, DecideEnds, ApprovedOpens, RefusedKeeps
    <2> QED
      BY <2>4, DeliveryDays DEF Evidence, BridgeInv
  <1>3. CASE IngestTurnedAway
    BY <1>3, TurnAwayStutters DEF IngestTurnedAway, TurnAway
  <1>4. CASE LedgerNext \/ UNCHANGED bridgedVars
    BY <1>4, LedgerSteps DEF bridgedVars, bridgeVars
  <1> QED
    BY <1>1, <1>2, <1>3, <1>4 DEF BridgeNext

-----------------------------------------------------------------------------
\* A position has the volume that order_check confirmed.

LEMMA OpensChecked ==
    ASSUME OpensWhatWasChecked, NEW d, AlertOpens(d)
    PROVE  OpensWhatWasChecked'
  <1>0. PICK r \in Requests, evaluated \in Ids, lots \in Nat :
           /\ r.account = DefaultProfile /\ r.provider = TradingView /\ r.signal = d.alert
           /\ lots > 0
           /\ Opening(r, evaluated, lots)
           /\ \E id : Normalized(d, id, "APPROVED_SIMULATED_TRADE", lots)
    BY DEF AlertOpens
  <1>1. PICK id : Normalized(d, id, "APPROVED_SIMULATED_TRADE", lots)
    BY <1>0
  <1> DEFINE new == [id |-> id, alert |-> d.alert, status |-> "APPROVED_SIMULATED_TRADE",
                     checked |-> lots]
             row == Opened(r, evaluated, lots)
  <1>2. /\ row.signal = d.alert /\ row.account = DefaultProfile /\ row.provider = TradingView
        /\ row.lots = lots /\ lots > 0
    BY <1>0 DEF Opened
  <1>3. positions' = positions \cup {row}
    BY <1>0 DEF Opening
  <1>4. normalized_signals' = normalized_signals \cup {new} /\ new.alert = d.alert
        /\ new.checked = lots
    BY <1>1 DEF Normalized
  <1> HIDE DEF new, row
  <1> QED
    BY <1>2, <1>3, <1>4 DEF OpensWhatWasChecked

LEMMA KeepsChecked ==
    ASSUME OpensWhatWasChecked, NEW d, AlertKeeps(d)
    PROVE  OpensWhatWasChecked'
  <1>0. PICK id, checked :
           \E status \in {"WATCHLIST", "NO_TRADE"} : Normalized(d, id, status, checked)
    BY DEF AlertKeeps
  <1>1. PICK status \in {"WATCHLIST", "NO_TRADE"} : Normalized(d, id, status, checked)
    BY <1>0
  <1> DEFINE new == [id |-> id, alert |-> d.alert, status |-> status, checked |-> checked]
  <1>2. new.status # "APPROVED_SIMULATED_TRADE"
    OBVIOUS
  <1>3. normalized_signals' = normalized_signals \cup {new}
    BY <1>1 DEF Normalized
  <1> HIDE DEF new
  <1> QED
    BY <1>2, <1>3 DEF AlertKeeps, OpensWhatWasChecked

\* The ledger removes no position, and closing one leaves its volume as it is.
LEMMA LedgerKeepsChecked ==
    ASSUME TypeInv, OpensWhatWasChecked, [Next]_vars, normalized_signals' = normalized_signals
    PROVE  OpensWhatWasChecked'
  <1> SUFFICES \A row \in positions : \E after \in positions' :
                  /\ after.signal = row.signal /\ after.account = row.account
                  /\ after.provider = row.provider /\ after.lots = row.lots
    BY DEF OpensWhatWasChecked
  <1>1. CASE positions \subseteq positions'
    BY <1>1
  <1>2. CASE ClosePosition
    <2>1. PICK closing \in positions, exit \in Exits, clock \in Readings :
             /\ closing \in PositionRow
             /\ positions' = (positions \ {closing}) \cup {ClosedRow(closing)}
      BY <1>2, CloseStep
    <2>2. /\ ClosedRow(closing).signal = closing.signal
          /\ ClosedRow(closing).account = closing.account
          /\ ClosedRow(closing).provider = closing.provider
          /\ ClosedRow(closing).lots = closing.lots
      BY <2>1, ClosedRowFields
    <2> QED
      BY <2>1, <2>2
  <1>3. CASE Approval
    BY <1>1, <1>3, ApprovalStep DEF Opening
  <1> QED
    BY <1>1, <1>2, <1>3, QuietLeavesPositions, StepKinds

(***************************************************************************)
(* Whatever changed between preview and evaluation, an approved alert has  *)
(* its position, of exactly the volume that order_check confirmed.         *)
(***************************************************************************)
THEOREM BridgeOpensWhatWasChecked == BridgeSpec => []OpensWhatWasChecked
  <1>1. BridgeInit => OpensWhatWasChecked
    BY DEF BridgeInit, OpensWhatWasChecked
  <1>2. BridgeInv /\ OpensWhatWasChecked /\ [BridgeNext]_bridgedVars => OpensWhatWasChecked'
    BY AlertSteps, OpensChecked, KeepsChecked, LedgerKeepsChecked DEF BridgeInv
  <1> QED
    BY <1>1, <1>2, BridgeInitTypes, BridgeNextTypes, PTL DEF BridgeSpec

-----------------------------------------------------------------------------
\* A real terminal's equity stays out of the ledger.

Real == deployment.adapter = "terminal" \/ deployment.settings.mode # "SIMULATION"

\* No operation of the ledger makes evidence of a provider synthetic.
LEMMA LedgerKeepsLive ==
    ASSUME TypeInv, [Next]_vars, NEW p \in Providers, providers[p].live = "UNKNOWN"
    PROVE  providers'[p].live = "UNKNOWN"
  <1>1. providers \in [Providers -> ProviderRow]
    BY DEF TypeInv, TypeOK
  <1>2. CASE UNCHANGED providers
    BY <1>2
  <1>3. CASE Approval
    BY <1>2, <1>3 DEF Approval, Approve
  <1>4. CASE ClosePosition
    <2>1. PICK row \in positions, exit \in Exits, clock \in Readings : Close(row, exit, clock)
      BY <1>4 DEF ClosePosition
    <2> DEFINE net == row.lots * row.offer.net[exit]
    <2>2. providers' = [providers EXCEPT ![row.provider] = AfterOutcome(@, net)]
      BY <2>1 DEF Close
    <2> HIDE DEF net
    <2>3. AfterOutcome(providers[p], net).live = providers[p].live
      BY <1>1 DEF AfterOutcome, ProviderRow
    <2> QED
      BY <1>1, <2>2, <2>3
  <1>5. ASSUME NEW r \in Requests, NEW id, NEW clock, Refuse(accounts, providers, r, id, clock)
        PROVE  providers'[p].live = "UNKNOWN"
    <2> DEFINE reasons == Reasons(accounts, providers, r, id, clock)
    <2>1. providers' = [providers EXCEPT ![r.provider].status =
              IF reasons \cap SuspendingReasons # {} /\ @ # "ABSENT" THEN "SUSPENDED" ELSE @]
      BY <1>5 DEF Refuse
    <2> HIDE DEF reasons
    <2> QED
      BY <1>1, <2>1 DEF ProviderRow
  <1>6. CASE Review
    <2>1. ASSUME NEW q \in Providers, ReviewProvider(q) PROVE providers'[p].live = "UNKNOWN"
      BY <1>1, <2>1 DEF ReviewProvider, ProviderRow
    <2> QED
      BY <1>2, <1>6, <2>1 DEF Review, ReviewAccount
  <1>7. CASE Research
    BY <1>1, <1>7 DEF Research, ResearchProvider, ResearchedRow
  <1>8. CASE EvaluateUnknownAccount \/ Tick \/ UNCHANGED vars
             \/ \E late \in SUBSET Accounts, day \in Days : Snapshot(late, day)
    BY <1>2, <1>8 DEF EvaluateUnknownAccount, RefuseUnknownAccount, Tick, Snapshot, vars
  <1> QED
    BY <1>3, <1>4, <1>5, <1>6, <1>7, <1>8, StepKinds, Zenon DEF Quiet

\* A provider without synthetic evidence gets no position.
LEMMA LedgerOpensOnSynthetic ==
    ASSUME TypeInv, [Next]_vars, NEW p \in Providers, providers[p].live = "UNKNOWN",
           \A row \in positions : row.provider # p
    PROVE  \A row \in positions' : row.provider # p
  <1>1. CASE Approval
    <2>1. PICK r \in Requests, id \in Ids, clock \in Readings, lots \in Nat :
             /\ Approve(accounts, providers, r, id, clock)
             /\ positions' = positions \cup {Opened(r, id, lots)}
      BY <1>1, ApprovalStep DEF Opening
    <2>2. Reasons(accounts, providers, r, id, clock) = {}
      BY <2>1 DEF Approve
    <2>3. SafetyReasons(AccountSeen(accounts, r, clock), providers, r, id, clock[2]) = {}
      BY <2>2, Zenon DEF Reasons
    <2>4. When(providers[r.provider].live # "SYNTHETIC", "REAL_DATA_ADAPTER_NOT_CONFIGURED") = {}
      BY <2>3, Zenon DEF SafetyReasons
    <2>5. providers[r.provider].live = "SYNTHETIC"
      BY <2>4, WhenRaises
    <2>6. Opened(r, id, lots).provider = r.provider
      BY DEF Opened
    <2> QED
      BY <2>1, <2>5, <2>6
  <1>2. CASE ClosePosition
    <2>1. PICK row \in positions, exit \in Exits, clock \in Readings :
             /\ row \in PositionRow
             /\ positions' = (positions \ {row}) \cup {ClosedRow(row)}
      BY <1>2, CloseStep
    <2>2. ClosedRow(row).provider = row.provider
      BY <2>1, ClosedRowFields
    <2> QED
      BY <2>1, <2>2
  <1>3. CASE Quiet
    BY <1>3, QuietLeavesPositions
  <1> QED
    BY <1>1, <1>2, <1>3, StepKinds

\* Besides the invariant: the bridge's provider has no synthetic evidence.
RealLedger ==
    Real => /\ OutcomesSettlePositions
            /\ EquityReconciles
            /\ providers[TradingView].live = "UNKNOWN"
            /\ \A row \in positions : row.provider # TradingView

LEMMA InitReal == BridgeInit => RealLedger
  <1> SUFFICES ASSUME BridgeInit PROVE RealLedger
    OBVIOUS
  <1>1. Init
    BY DEF BridgeInit
  <1>2. providers[TradingView].live = "UNKNOWN"
    BY <1>1, BridgeAssumption DEF Init, ABSENT
  <1>3. OutcomesSettlePositions /\ positions = {}
    BY <1>1 DEF Init, OutcomesSettlePositions
  <1> QED
    BY <1>1, <1>2, <1>3, InitReconciles DEF RealLedger

LEMMA NextReal == BridgeInv /\ RealLedger /\ [BridgeNext]_bridgedVars => RealLedger'
  <1> SUFFICES ASSUME BridgeInv, RealLedger, [BridgeNext]_bridgedVars, Real'
               PROVE  RealLedger'
    BY DEF RealLedger
  <1>1. Real
    BY AlertSteps DEF Real
  <1>2. [Next]_vars
    BY <1>1, AlertSteps DEF Real, SyntheticEvidence
  <1>3. TradingView \in Providers
    BY BridgeAssumption
  <1>4. OutcomesSettlePositions' /\ EquityReconciles'
    BY <1>1, <1>2, NextSettles, NextReconciles DEF BridgeInv, RealLedger
  <1>5. providers'[TradingView].live = "UNKNOWN" /\ \A row \in positions' : row.provider # TradingView
    BY <1>1, <1>2, <1>3, LedgerKeepsLive, LedgerOpensOnSynthetic DEF BridgeInv, RealLedger
  <1> QED
    BY <1>4, <1>5 DEF RealLedger

(***************************************************************************)
(* With a real terminal, or in any other mode than SIMULATION, no alert    *)
(* imports an equity or opens a position, not even by way of a manual      *)
(* request that names the bridge's provider.                               *)
(***************************************************************************)
THEOREM BridgeKeepsRealEquityOut == BridgeSpec => []RealEquityStaysOut
  <1>1. RealLedger => RealEquityStaysOut
    BY DEF RealLedger, Real, RealEquityStaysOut
  <1> QED
    BY <1>1, InitReal, NextReal, BridgeInitTypes, BridgeNextTypes, PTL DEF BridgeSpec

-----------------------------------------------------------------------------
\* The bridge keeps the promise of the ledger.

\* No outcome is recorded ahead of the day it is read on.
LEMMA AlertKeepsPast ==
    ASSUME TypeInv, TypeInv', OutcomesPast, today' >= today, outcomes' = outcomes
    PROVE  OutcomesPast'
  <1>1. today \in Nat /\ today' \in Nat
    BY LedgerAssumption DEF TypeInv, TypeOK
  <1>2. \A o \in outcomes : o.day \in Nat
    BY LedgerAssumption DEF TypeInv, TypeOK, OutcomeRow
  <1> QED
    BY <1>1, <1>2 DEF OutcomesPast

LEMMA AlertKeepsBudgetInv ==
    ASSUME BudgetInv, TypeInv', today' >= today, NEW d, AlertOpens(d) \/ AlertKeeps(d)
    PROVE  BudgetInv'
  <1>1. CASE AlertOpens(d)
    <2>1. PICK r \in Requests, evaluated \in Ids, lots \in Nat : Opening(r, evaluated, lots)
      BY <1>1 DEF AlertOpens
    <2>2. OneOpenPosition' /\ OutcomesSettlePositions' /\ OnBrokersGrid'
      BY <2>1, OpeningStaysOne, OpeningSettles, OpeningOnGrid DEF BudgetInv
    <2>3. outcomes' = outcomes
      BY <2>1 DEF Opening
    <2>4. OutcomesPast'
      BY <2>3, AlertKeepsPast DEF BudgetInv
    <2> QED
      BY <2>2, <2>4 DEF BudgetInv
  <1>2. CASE AlertKeeps(d)
    <2>1. positions' = positions /\ outcomes' = outcomes /\ ApprovedIds' = ApprovedIds
      BY <1>2 DEF AlertKeeps
    <2>2. OutcomesSettlePositions'
      BY <2>1, StaysSettled DEF BudgetInv
    <2>3. OneOpenPosition' /\ OnBrokersGrid'
      BY <2>1 DEF BudgetInv, OneOpenPosition, OnBrokersGrid
    <2>4. OutcomesPast'
      BY <2>1, AlertKeepsPast DEF BudgetInv
    <2> QED
      BY <2>2, <2>3, <2>4 DEF BudgetInv
  <1> QED
    BY <1>1, <1>2

LEMMA BridgeNextBudgetInv ==
    BridgeInv /\ BudgetInv /\ [BridgeNext]_bridgedVars => BudgetInv'
  <1> SUFFICES ASSUME BridgeInv, BudgetInv, [BridgeNext]_bridgedVars PROVE BudgetInv'
    OBVIOUS
  <1>1. TypeInv'
    BY BridgeNextTypes DEF BridgeInv
  <1> QED
    BY <1>1, AlertSteps, NextBudgetInv, AlertKeepsBudgetInv

LEMMA AlertKeepsPromise ==
    ASSUME BudgetInv, today' \in Days, today' >= today, NEW d, AlertOpens(d) \/ AlertKeeps(d)
    PROVE  LossBudget!Next
  <1>1. CASE AlertOpens(d)
    <2>1. PICK r \in Requests, evaluated \in Ids, lots \in Nat :
             /\ Opening(r, evaluated, lots)
             /\ FitsBudgets(r.account, r.provider, ScaledLoss(r.offer, lots))
      BY <1>1 DEF AlertOpens, BudgetInv
    <2> QED
      BY <2>1, OpeningReserves DEF BudgetInv, LossBudget!Next
  <1>2. CASE AlertKeeps(d)
    BY <1>2, KeepingLetsTimePass DEF AlertKeeps, LossBudget!Next
  <1> QED
    BY <1>1, <1>2

(***************************************************************************)
(* Every run of the bridge is a run of the loss budget: an alert that is   *)
(* previewed before midnight and evaluated after it overdraws no budget of *)
(* either day, although the equity it is sized with comes from outside.    *)
(***************************************************************************)
THEOREM BridgeImplementsLossBudget == BridgeSpec => ImplementsLossBudget
  <1> DEFINE Inv == BridgeInv /\ BudgetInv
  <1>1. BridgeInit => Inv /\ LossBudget!Init
    BY BridgeInitTypes, InitBudgetInv, InitBudgets DEF BridgeInit
  <1>2. Inv /\ [BridgeNext]_bridgedVars => Inv'
    BY BridgeNextTypes, BridgeNextBudgetInv
  <1>3. Inv /\ [BridgeNext]_bridgedVars => [LossBudget!Next]_(LossBudget!vars)
    BY AlertSteps, StepKeepsPromise, AlertKeepsPromise
  <1> QED
    BY <1>1, <1>2, <1>3, PTL DEF BridgeSpec, ImplementsLossBudget, LossBudget!Spec

(***************************************************************************)
(* Nor do alerts lose more than the caps of the rules in any day or week,  *)
(* with previews, evaluations and manual trades in any order and on both   *)
(* sides of any midnight.                                                  *)
(***************************************************************************)
THEOREM BridgeLossesWithinCaps == BridgeSpec => []LossesWithinCaps
  <1> DEFINE Inv == BridgeInv /\ BudgetInv /\ Promised!IInv
  <1>1. BridgeInit => Inv
    BY BridgeInitTypes, InitBudgetInv, InitBudgets, PromisedInit DEF BridgeInit
  <1>2. Inv /\ [BridgeNext]_bridgedVars => Inv'
    <2> SUFFICES ASSUME Inv, [BridgeNext]_bridgedVars PROVE Inv'
      OBVIOUS
    <2>1. BridgeInv' /\ BudgetInv'
      BY BridgeNextTypes, BridgeNextBudgetInv
    <2>2. [LossBudget!Next]_(LossBudget!vars)
      BY AlertSteps, StepKeepsPromise, AlertKeepsPromise
    <2> QED
      BY <2>1, <2>2, PromisedNext
  <1>3. Inv => LossesWithinCaps
    BY PromisedWithinCaps DEF BudgetInv, Promised!IInv
  <1> QED
    BY <1>1, <1>2, <1>3, PTL DEF BridgeSpec

(***************************************************************************)
(* The risk of a position that an alert opened is reserved as immediately  *)
(* as that of a manual trade: the caps have room for all it may lose.      *)
(***************************************************************************)
THEOREM BridgeOpenRiskWithinCaps == BridgeSpec => []OpenRiskWithinCaps
  <1> DEFINE Inv == BridgeInv /\ BudgetInv /\ Promised!IInv
  <1>1. BridgeInit => Inv
    BY BridgeInitTypes, InitBudgetInv, InitBudgets, PromisedInit DEF BridgeInit
  <1>2. Inv /\ [BridgeNext]_bridgedVars => Inv'
    <2> SUFFICES ASSUME Inv, [BridgeNext]_bridgedVars PROVE Inv'
      OBVIOUS
    <2>1. BridgeInv' /\ BudgetInv'
      BY BridgeNextTypes, BridgeNextBudgetInv
    <2>2. [LossBudget!Next]_(LossBudget!vars)
      BY AlertSteps, StepKeepsPromise, AlertKeepsPromise
    <2> QED
      BY <2>1, <2>2, PromisedNext
  <1>3. Inv => OpenRiskWithinCaps
    BY PromisedCoversRisk DEF Promised!IInv
  <1> QED
    BY <1>1, <1>2, <1>3, PTL DEF BridgeSpec

(***************************************************************************)
(* Alerts and manual trades together open one position per account at a    *)
(* time, and each position that is closed is settled by one outcome.       *)
(***************************************************************************)
THEOREM BridgeTradesOneByOne == BridgeSpec => [](OneOpenPosition /\ OutcomesSettlePositions)
  <1>1. BridgeInit => BridgeInv /\ BudgetInv
    BY BridgeInitTypes, InitBudgetInv DEF BridgeInit
  <1>2. BridgeInv /\ BudgetInv /\ [BridgeNext]_bridgedVars => (BridgeInv /\ BudgetInv)'
    BY BridgeNextTypes, BridgeNextBudgetInv
  <1>3. BudgetInv => OneOpenPosition /\ OutcomesSettlePositions
    BY DEF BudgetInv
  <1> QED
    BY <1>1, <1>2, <1>3, PTL DEF BridgeSpec

-----------------------------------------------------------------------------
(***************************************************************************)
(* What a delivery writes into the tables of the ledger.  The row of the   *)
(* default profile is refreshed up to three times, on whatever days, after *)
(* the equity of the adapter was imported; the row of the bridge's         *)
(* provider is created, and a refusal may suspend it.                      *)
(***************************************************************************)
FirstSeen(equity, day) ==
    Refreshed(Imported(equity)[DefaultProfile], DefaultProfile, outcomes, day[1])

AgainSeen(equity, day) == Refreshed(FirstSeen(equity, day), DefaultProfile, outcomes, day[2])

LastSeen(equity, day) == Refreshed(AgainSeen(equity, day), DefaultProfile, outcomes, day[4])

AlertWrites(equity, day) ==
    /\ \E row \in {FirstSeen(equity, day), AgainSeen(equity, day), LastSeen(equity, day)} :
          accounts' = [accounts EXCEPT ![DefaultProfile] = row]
    /\ \/ providers' = WithProvider
       \/ \E suspend \in BOOLEAN : providers' = [WithProvider EXCEPT ![TradingView].status =
              IF suspend /\ @ # "ABSENT" THEN "SUSPENDED" ELSE @]
    /\ today' = day[4]
    /\ outcomes' = outcomes /\ performance' = performance

\* The position that it opens, if any: in an account that is not suspended, and with
\* a risk that is small beside the profile and beside the equity just imported.
AlertPosition(equity) ==
    \E row \in PositionRow :
        /\ positions' = positions \cup {row}
        /\ row.account = DefaultProfile
        /\ accounts[DefaultProfile].status # "SUSPENDED"
        /\ 200 * (row.lots * row.offer.unit_loss) <= Profiles[DefaultProfile]
        /\ 200 * (row.lots * row.offer.unit_loss) <= equity

AlertEffect ==
    \E equity \in Equities, day \in BridgeReadings :
        /\ AlertWrites(equity, day)
        /\ positions' = positions \/ AlertPosition(equity)

\* An import changes what the default profile owns and nothing else.
LEMMA ImportedRow ==
    ASSUME BridgeInv, NEW equity \in Equities
    PROVE  LET row == Imported(equity)[DefaultProfile]
               before == accounts[DefaultProfile]
           IN  /\ row \in AccountRow
               /\ row.equity = equity /\ equity \in Nat \ {0}
               /\ row.starting_equity \in {equity, before.starting_equity}
               /\ row.status = before.status
               /\ row.daily_stop_date = before.daily_stop_date
  <1> DEFINE before == accounts[DefaultProfile]
             start == IF mt5_initialized THEN before.starting_equity ELSE equity
  <1>1. DefaultProfile \in Accounts /\ equity \in Nat \ {0}
    BY BridgeAssumption
  <1>2. Imported(equity) \in [Accounts -> AccountRow]
    BY ImportedType DEF BridgeInv, BridgeTypeOK
  <1>3. before \in AccountRow
    BY <1>1 DEF BridgeInv, BridgeTypeOK, TypeOK
  <1>4. Imported(equity)[DefaultProfile]
          = [before EXCEPT !.equity = equity, !.starting_equity = start]
    BY <1>1 DEF Imported, BridgeInv, BridgeTypeOK, TypeOK
  <1>5. start \in {equity, before.starting_equity}
    OBVIOUS
  <1> HIDE DEF start
  <1>6. /\ [before EXCEPT !.equity = equity, !.starting_equity = start].equity = equity
        /\ [before EXCEPT !.equity = equity, !.starting_equity = start].starting_equity = start
        /\ [before EXCEPT !.equity = equity, !.starting_equity = start].status = before.status
        /\ [before EXCEPT !.equity = equity, !.starting_equity = start].daily_stop_date
              = before.daily_stop_date
    BY <1>3 DEF AccountRow
  <1> HIDE DEF before
  <1> QED
    BY <1>1, <1>2, <1>4, <1>5, <1>6 DEF before

\* What the refreshes of a delivery leave of it.
LEMMA SeenRows ==
    ASSUME BridgeInv, NEW equity \in Equities, NEW day \in BridgeReadings,
           NEW row \in {FirstSeen(equity, day), AgainSeen(equity, day), LastSeen(equity, day)}
    PROVE  /\ row \in AccountRow
           /\ row.equity = equity
           /\ row.starting_equity \in {equity, accounts[DefaultProfile].starting_equity}
           /\ accounts[DefaultProfile].status = "SUSPENDED" => row.status = "SUSPENDED"
  <1>1. day[1] \in Days /\ day[2] \in Days /\ day[4] \in Days
    BY DeliveryDays DEF BridgeInv
  <1> DEFINE imported == Imported(equity)[DefaultProfile]
             Keeps(acct) == /\ acct \in AccountRow
                            /\ acct.equity = imported.equity
                            /\ acct.starting_equity = imported.starting_equity
                            /\ imported.status = "SUSPENDED" => acct.status = "SUSPENDED"
  <1>2. Keeps(imported)
    BY ImportedRow
  <1>3. ASSUME NEW acct, Keeps(acct), NEW d \in Days
        PROVE  Keeps(Refreshed(acct, DefaultProfile, outcomes, d))
    BY <1>3, RefreshedType, RefreshKeepsSuspension
  <1> HIDE DEF Keeps, imported
  <1>4. Keeps(FirstSeen(equity, day))
    BY <1>1, <1>2, <1>3 DEF FirstSeen, imported
  <1>5. Keeps(AgainSeen(equity, day))
    BY <1>1, <1>3, <1>4 DEF AgainSeen
  <1>6. Keeps(LastSeen(equity, day))
    BY <1>1, <1>3, <1>5 DEF LastSeen
  <1>7. Keeps(row)
    BY <1>4, <1>5, <1>6
  <1> QED
    BY <1>7, ImportedRow DEF Keeps, imported

\* The rows that an evaluation begins with, and those it writes.
LEMMA SeenAccounts ==
    ASSUME BridgeInv, NEW d \in Deliveries, NEW offer, NEW fault,
           NEW equity \in Equities, NEW day \in BridgeReadings
    PROVE  LET r == AlertRequest(d, offer, fault)
               accts == RowsSeen(d, offer, fault, equity, day)
           IN  /\ accts = [accounts EXCEPT ![DefaultProfile] = FirstSeen(equity, day)]
               /\ r.account = DefaultProfile /\ r.provider = TradingView
               /\ AccountSeen(accts, r, ClockSeen(day)) = AgainSeen(equity, day)
               /\ \A row : [accts EXCEPT ![DefaultProfile] = row]
                              = [accounts EXCEPT ![DefaultProfile] = row]
  <1> DEFINE r == AlertRequest(d, offer, fault)
             accts == RowsSeen(d, offer, fault, equity, day)
  <1>1. DefaultProfile \in Accounts /\ accounts \in [Accounts -> AccountRow]
    BY BridgeAssumption DEF BridgeInv, BridgeTypeOK, TypeOK
  <1>2. r.account = DefaultProfile /\ r.provider = TradingView
    BY DEF AlertRequest
  <1>3. AccountSeen(Imported(equity), r, <<day[1]>>) = FirstSeen(equity, day)
    BY <1>2 DEF AccountSeen, FirstSeen
  <1>4. accts = [Imported(equity) EXCEPT ![DefaultProfile] = FirstSeen(equity, day)]
    BY <1>2, <1>3 DEF RowsSeen, Previewed
  <1>5. \E row : Imported(equity) = [accounts EXCEPT ![DefaultProfile] = row]
    BY DEF Imported
  <1> HIDE DEF accts, r
  <1>6. accts = [accounts EXCEPT ![DefaultProfile] = FirstSeen(equity, day)]
    BY <1>1, <1>4, <1>5
  <1>7. accts[DefaultProfile] = FirstSeen(equity, day)
    BY <1>1, <1>6
  <1>8. AccountSeen(accts, r, ClockSeen(day)) = AgainSeen(equity, day)
    BY <1>2, <1>7 DEF AccountSeen, AgainSeen, ClockSeen
  <1>9. \A row : [accts EXCEPT ![DefaultProfile] = row]
                    = [accounts EXCEPT ![DefaultProfile] = row]
    BY <1>1, <1>6
  <1> QED
    BY <1>2, <1>6, <1>8, <1>9 DEF accts, r

\* An approved volume is small: its loss is a two-hundredth of profile and equity at most.
LEMMA ApprovedIsSmall ==
    ASSUME TypeInv, NEW accts \in [Accounts -> AccountRow], NEW provs,
           NEW r \in Requests, NEW id \in Ids, NEW clock, clock[1] \in Days,
           Reasons(accts, provs, r, id, clock) = {},
           NEW lots \in Nat,
           lots = PositionSize(r.offer, Budget(ViewSeen(accts, r, clock)))
    PROVE  LET loss == lots * r.offer.unit_loss
           IN  200 * loss <= Profiles[r.account] /\ 200 * loss <= accts[r.account].equity
  <1> DEFINE v == ViewSeen(accts, r, clock)
             prov == provs[r.provider]
             offer == r.offer
             fault == r.fault
             loss == lots * offer.unit_loss
             equity == accts[r.account].equity
  <1>1. IsView(v) /\ IsOffer(offer) /\ EngineReasons(v, prov, offer, fault) = {}
    BY ApprovalFacts
  <1>2. r.account \in Accounts /\ accts[r.account] \in AccountRow /\ offer \in Offers
    BY DEF Requests
  <1>3. v.equity = equity /\ v.profile = Profiles[r.account]
    <2>1. v.equity = AccountSeen(accts, r, clock).equity /\ v.profile = Profiles[r.account]
      BY DEF ViewSeen, View
    <2> QED
      BY <1>2, <2>1, RefreshedType DEF AccountSeen
  <1>4. loss \in Nat /\ equity \in Int /\ Profiles[r.account] \in Int
    BY <1>2, OfferRecord, LedgerAssumption DEF AccountRow
  <1>5. loss * Scale = ScaledLoss(offer, lots) /\ lots = PositionSize(offer, Budget(v))
    BY DEF ScaledLoss
  <1> HIDE DEF v, prov, offer, fault, equity
  <1>6. ScaledLoss(offer, lots) <= Budget(v)
    BY <1>1, <1>5, ApprovalFitsEveryBudget
  <1>7. Budget(v) \in Int /\ Budget(v) <= Baseline(v) * Policy.risk_fraction
    BY <1>1, BudgetIsLeast
  <1>8. Baseline(v) \in Int /\ Baseline(v) <= v.equity /\ Baseline(v) <= v.profile
    BY <1>3, <1>4 DEF Baseline, Lesser
  <1> HIDE DEF loss
  <1>9. loss * Scale \in Int /\ Baseline(v) * Policy.risk_fraction \in Int
    BY <1>4, <1>8, PolicyNumbers
  <1>10. loss * Scale <= Baseline(v) * Policy.risk_fraction
    BY <1>5, <1>6, <1>7, <1>9
  <1>11. 200 * loss <= Baseline(v)
    BY <1>4, <1>8, <1>10, RiskIsSmall
  <1>12. 200 * loss <= Profiles[r.account] /\ 200 * loss <= equity
    BY <1>3, <1>4, <1>8, <1>11
  <1> QED
    BY <1>12 DEF loss, offer, equity

LEMMA ApprovedEffect ==
    ASSUME BridgeInv, NEW d \in Deliveries, NEW offer \in Offers, NEW fault \in Faults,
           NEW equity \in Equities, NEW day \in BridgeReadings,
           NEW id \in SignalIds(d.alert), NEW evaluated \in EvaluatedIds(id),
           Approved(d, id, evaluated, offer, fault, equity, day)
    PROVE  AlertEffect
  <1> DEFINE r == AlertRequest(d, offer, fault)
             accts == RowsSeen(d, offer, fault, equity, day)
             clock == ClockSeen(day)
  <1>1. /\ r \in Requests /\ accts \in [Accounts -> AccountRow]
        /\ clock[1] \in Days /\ clock[3] = day[4] /\ evaluated \in Ids
        /\ r.account = DefaultProfile
    BY SeenTypes, IdsType, AlertRequestType
  <1>2. Approve(accts, WithProvider, r, evaluated, clock)
    BY Zenon DEF Approved
  <1>3. /\ accts = [accounts EXCEPT ![DefaultProfile] = FirstSeen(equity, day)]
        /\ AccountSeen(accts, r, clock) = AgainSeen(equity, day)
        /\ \A row : [accts EXCEPT ![DefaultProfile] = row]
                       = [accounts EXCEPT ![DefaultProfile] = row]
    BY SeenAccounts
  <1>4. DefaultProfile \in Accounts /\ accounts \in [Accounts -> AccountRow]
    BY BridgeAssumption DEF BridgeInv, BridgeTypeOK, TypeOK
  <1>5. accts[DefaultProfile] = FirstSeen(equity, day)
    BY <1>3, <1>4
  <1> HIDE DEF r, accts, clock
  <1>6. AlertWrites(equity, day)
    <2>1. /\ accounts' = [accts EXCEPT ![DefaultProfile] =
                             Refreshed(AgainSeen(equity, day), DefaultProfile, outcomes, day[4])]
          /\ providers' = WithProvider /\ today' = day[4]
          /\ outcomes' = outcomes /\ performance' = performance
      BY <1>1, <1>2, <1>3 DEF Approve
    <2>2. accounts' = [accounts EXCEPT ![DefaultProfile] = LastSeen(equity, day)]
      BY <1>3, <2>1 DEF LastSeen
    <2> QED
      BY <2>1, <2>2 DEF AlertWrites
  <1>7. PICK lots \in Nat : /\ lots = PositionSize(r.offer, Budget(ViewSeen(accts, r, clock)))
                            /\ Opening(r, evaluated, lots)
                            /\ Opened(r, evaluated, lots) \in PositionRow
    BY <1>1, <1>2, ApproveOpens DEF BridgeInv
  <1>8. AlertPosition(equity)
    <2> DEFINE row == Opened(r, evaluated, lots)
               loss == lots * r.offer.unit_loss
    <2>1. row.account = DefaultProfile /\ row.lots * row.offer.unit_loss = loss
      BY <1>1 DEF Opened
    <2>2. Reasons(accts, WithProvider, r, evaluated, clock) = {}
      BY <1>2 DEF Approve
    <2>3. 200 * loss <= Profiles[DefaultProfile] /\ 200 * loss <= accts[DefaultProfile].equity
      BY <1>1, <1>7, <2>2, ApprovedIsSmall DEF BridgeInv
    <2>4. accts[DefaultProfile].equity = equity
      BY <1>5, SeenRows
    <2>5. accounts[DefaultProfile].status # "SUSPENDED"
      <3>1. ASSUME accounts[DefaultProfile].status = "SUSPENDED" PROVE FALSE
        <4>1. accts[r.account].status = "SUSPENDED"
          BY <1>1, <1>5, <3>1, SeenRows
        <4> QED
          BY <1>1, <1>2, <4>1, SuspendedIsRefused DEF BridgeInv
      <3> QED
        BY <3>1
    <2>6. positions' = positions \cup {row} /\ row \in PositionRow
      BY <1>7 DEF Opening
    <2> HIDE DEF row, loss
    <2> QED
      BY <2>1, <2>3, <2>4, <2>5, <2>6 DEF AlertPosition
  <1> QED
    BY <1>6, <1>8 DEF AlertEffect

LEMMA RefusedEffect ==
    ASSUME BridgeInv, NEW d \in Deliveries, NEW offer \in Offers, NEW fault \in Faults,
           NEW equity \in Equities, NEW day \in BridgeReadings,
           NEW id \in SignalIds(d.alert), NEW evaluated \in EvaluatedIds(id),
           Refused(d, id, evaluated, offer, fault, equity, day)
    PROVE  AlertEffect
  <1> DEFINE r == AlertRequest(d, offer, fault)
             accts == RowsSeen(d, offer, fault, equity, day)
             clock == ClockSeen(day)
  <1>1. /\ r.account = DefaultProfile /\ r.provider = TradingView
        /\ AccountSeen(accts, r, clock) = AgainSeen(equity, day)
        /\ \A row : [accts EXCEPT ![DefaultProfile] = row]
                       = [accounts EXCEPT ![DefaultProfile] = row]
    BY SeenAccounts
  <1>2. clock[3] = day[4]
    BY DEF ClockSeen
  <1>3. \/ Refuse(accts, WithProvider, r, evaluated, clock)
        \/ RefuseUnchecked(accts, r, evaluated, clock)
    BY Zenon DEF Refused
  <1> HIDE DEF r, accts, clock
  <1>4. /\ accounts' = [accounts EXCEPT ![DefaultProfile] = AgainSeen(equity, day)]
        /\ today' = day[4]
        /\ positions' = positions /\ outcomes' = outcomes /\ performance' = performance
    <2>1. CASE Refuse(accts, WithProvider, r, evaluated, clock)
      BY <1>1, <1>2, <2>1 DEF Refuse
    <2>2. CASE RefuseUnchecked(accts, r, evaluated, clock)
      BY <1>1, <1>2, <2>2 DEF RefuseUnchecked
    <2> QED
      BY <1>3, <2>1, <2>2
  <1>5. \/ providers' = WithProvider
        \/ \E suspend \in BOOLEAN : providers' = [WithProvider EXCEPT ![TradingView].status =
              IF suspend /\ @ # "ABSENT" THEN "SUSPENDED" ELSE @]
    <2>1. CASE Refuse(accts, WithProvider, r, evaluated, clock)
      <3> DEFINE suspend == Reasons(accts, WithProvider, r, evaluated, clock)
                               \cap SuspendingReasons # {}
      <3>1. providers' = [WithProvider EXCEPT ![TradingView].status =
                IF suspend /\ @ # "ABSENT" THEN "SUSPENDED" ELSE @]
        BY <1>1, <2>1 DEF Refuse
      <3>2. suspend \in BOOLEAN
        OBVIOUS
      <3> HIDE DEF suspend
      <3> QED
        BY <3>1, <3>2
    <2>2. CASE RefuseUnchecked(accts, r, evaluated, clock)
      BY <2>2 DEF RefuseUnchecked
    <2> QED
      BY <1>3, <2>1, <2>2
  <1>6. AlertWrites(equity, day)
    BY <1>4, <1>5 DEF AlertWrites
  <1> QED
    BY <1>4, <1>6 DEF AlertEffect

\* A step of the bridge is one of the ledger or has the effect of a delivery.
LEMMA AlertEffects ==
    ASSUME BridgeInv, [BridgeNext]_bridgedVars
    PROVE  [Next]_vars \/ AlertEffect
  <1>1. CASE IngestUnchecked
    <2>1. PICK d \in Deliveries, offer \in Offers, equity \in Equities, day \in BridgeReadings :
             \E id \in SignalIds(d.alert) : FailCheck(d, id, offer, equity, day)
      BY <1>1 DEF IngestUnchecked
    <2>2. PICK id \in SignalIds(d.alert) : FailCheck(d, id, offer, equity, day)
      BY <2>1
    <2>3. /\ accounts' = RowsSeen(d, offer, "none", equity, day)
          /\ providers' = WithProvider /\ today' = day[4]
          /\ UNCHANGED <<signals, positions, outcomes, performance>>
      BY <2>2 DEF FailCheck, RowsSeen
    <2>4. accounts' = [accounts EXCEPT ![DefaultProfile] = FirstSeen(equity, day)]
      <3>1. \A fault : RowsSeen(d, offer, fault, equity, day)
                           = [accounts EXCEPT ![DefaultProfile] = FirstSeen(equity, day)]
        BY SeenAccounts
      <3> QED
        BY <2>3, <3>1, Zenon
    <2>5. AlertWrites(equity, day)
      BY <2>3, <2>4 DEF AlertWrites
    <2> QED
      BY <2>3, <2>5 DEF AlertEffect
  <1>2. CASE IngestDecided
    <2>1. PICK d \in Deliveries, offer \in Offers, fault \in Faults, equity \in Equities,
               day \in BridgeReadings :
             \E id \in SignalIds(d.alert) : \E evaluated \in EvaluatedIds(id) :
                Decide(d, id, evaluated, offer, fault, equity, day)
      BY <1>2 DEF IngestDecided
    <2>2. PICK id \in SignalIds(d.alert) : \E evaluated \in EvaluatedIds(id) :
                Decide(d, id, evaluated, offer, fault, equity, day)
      BY <2>1
    <2>3. PICK evaluated \in EvaluatedIds(id) :
                Decide(d, id, evaluated, offer, fault, equity, day)
      BY <2>2
    <2> QED
      BY <2>3, DecideEnds, ApprovedEffect, RefusedEffect
  <1>3. CASE IngestTurnedAway
    BY <1>3, TurnAwayStutters DEF IngestTurnedAway
  <1>4. CASE LedgerNext \/ UNCHANGED bridgedVars
    BY <1>4, LedgerSteps DEF bridgedVars
  <1> QED
    BY <1>1, <1>2, <1>3, <1>4 DEF BridgeNext

\* Creating the provider's row, and suspending it, trips no breaker and releases none.
LEMMA AlertBreaker ==
    ASSUME BridgeInv, BreakerHolds, AlertEffect
    PROVE  BreakerHolds'
  <1>1. PICK equity \in Equities, day \in BridgeReadings : AlertWrites(equity, day)
    BY DEF AlertEffect
  <1>2. providers \in [Providers -> ProviderRow] /\ TradingView \in Providers
    BY BridgeAssumption DEF BridgeInv, BridgeTypeOK, TypeOK
  <1>3. /\ WithProvider \in [Providers -> ProviderRow]
        /\ \A p \in Providers : WithProvider[p] = providers[p] \/ WithProvider[p] = Fixture
    <2>1. \A p \in Providers : WithProvider[p] = providers[p] \/ WithProvider[p] = Fixture
      BY <1>2 DEF WithProvider
    <2> QED
      BY <2>1, WithProviderType DEF BridgeInv
  <1>4. Fixture.consecutive_losses = 0 /\ Policy.provider_circuit_breaker_losses > 0
        /\ Policy.provider_circuit_breaker_losses \in Nat
    BY PolicyNumbers DEF Fixture
  <1>5. \A p \in Providers :
           WithProvider[p].consecutive_losses >= Policy.provider_circuit_breaker_losses
              => WithProvider[p].status # "ACTIVE"
    BY <1>3, <1>4 DEF BreakerHolds
  <1>6. CASE providers' = WithProvider
    BY <1>5, <1>6 DEF BreakerHolds
  <1>7. ASSUME NEW suspend \in BOOLEAN,
               providers' = [WithProvider EXCEPT ![TradingView].status =
                  IF suspend /\ @ # "ABSENT" THEN "SUSPENDED" ELSE @]
        PROVE  BreakerHolds'
    <2> DEFINE before == WithProvider
               status == IF suspend /\ before[TradingView].status # "ABSENT" THEN "SUSPENDED"
                         ELSE before[TradingView].status
    <2>1. providers' = [before EXCEPT ![TradingView].status = status]
      BY <1>7
    <2>2. status = "ACTIVE" => before[TradingView].status = "ACTIVE"
      OBVIOUS
    <2>3. before \in [Providers -> ProviderRow]
      BY <1>3
    <2> HIDE DEF before, status
    <2>4. \A p \in Providers : /\ providers'[p].consecutive_losses = before[p].consecutive_losses
                               /\ providers'[p].status = "ACTIVE" => before[p].status = "ACTIVE"
      BY <1>2, <2>1, <2>2, <2>3 DEF ProviderRow
    <2> QED
      BY <1>5, <2>4 DEF BreakerHolds, before
  <1> QED
    BY <1>1, <1>6, <1>7 DEF AlertWrites

(***************************************************************************)
(* Neither does an alert bring back a provider whose losses in a row have  *)
(* reached the breaker: its row is created once and never replaced.        *)
(***************************************************************************)
THEOREM BridgeBreakerHolds == BridgeSpec => []BreakerHolds
  <1>1. BridgeInit => BridgeInv /\ BreakerHolds
    <2>1. Init => BreakerHolds
      BY PolicyNumbers DEF Init, BreakerHolds, Fixture, ABSENT
    <2> QED
      BY <2>1, BridgeInitTypes DEF BridgeInit
  <1>2. BridgeInv /\ BreakerHolds /\ [BridgeNext]_bridgedVars => (BridgeInv /\ BreakerHolds)'
    BY BridgeNextTypes, AlertEffects, AlertBreaker, NextBreaker DEF BridgeInv
  <1> QED
    BY <1>1, <1>2, PTL DEF BridgeSpec

(***************************************************************************)
(* The performance rows stay as exact under the bridge: deliveries file    *)
(* none, and the trades of the bridge's provider are filed by their close. *)
(***************************************************************************)
THEOREM BridgePerformanceExact == BridgeSpec => []PerformanceExact
  <1>1. BridgeInit => BridgeInv /\ PerformanceExact
    BY BridgeInitTypes DEF BridgeInit, Init, PerformanceExact, FiledTrades
  <1>2. BridgeInv /\ PerformanceExact /\ AlertEffect => PerformanceExact'
    BY DEF AlertEffect, AlertWrites, PerformanceExact, FiledTrades
  <1>3. BridgeInv /\ PerformanceExact /\ [BridgeNext]_bridgedVars
           => (BridgeInv /\ PerformanceExact)'
    BY <1>2, BridgeNextTypes, AlertEffects, NextPerformance DEF BridgeInv
  <1> QED
    BY <1>1, <1>3, PTL DEF BridgeSpec

-----------------------------------------------------------------------------
\* Suspensions and stops beside the bridge.

LEMMA AlertLeavesSuspended ==
    ASSUME BridgeInv, AlertEffect, NEW a \in Accounts, accounts[a].status = "SUSPENDED"
    PROVE  StaysSuspended(a)
  <1>1. PICK equity \in Equities, day \in BridgeReadings :
           /\ AlertWrites(equity, day)
           /\ positions' = positions \/ AlertPosition(equity)
    BY DEF AlertEffect
  <1>2. PICK row \in {FirstSeen(equity, day), AgainSeen(equity, day), LastSeen(equity, day)} :
           accounts' = [accounts EXCEPT ![DefaultProfile] = row]
    BY <1>1 DEF AlertWrites
  <1>3. accounts \in [Accounts -> AccountRow]
    BY DEF BridgeInv, BridgeTypeOK, TypeOK
  <1>4. a = DefaultProfile => row.status = "SUSPENDED"
    BY SeenRows
  <1> HIDE DEF StaysSuspended
  <1>5. accounts'[a].status = "SUSPENDED"
    BY <1>2, <1>3, <1>4
  <1>6. \A new \in positions' \ positions : new.account # a
    BY <1>1 DEF AlertPosition
  <1> QED
    BY <1>5, <1>6 DEF StaysSuspended

(***************************************************************************)
(* A suspended account stays so under the bridge, too: importing a larger  *)
(* equity does not lift the suspension, and an approval by the preview     *)
(* does not outlive it.                                                    *)
(***************************************************************************)
THEOREM BridgeSuspendedUntilReview == BridgeSpec => SuspendedUntilReview
  <1>1. BridgeInv /\ [BridgeNext]_bridgedVars
           => [\A a \in Accounts : accounts[a].status = "SUSPENDED"
                  => ReviewAccount(a) \/ StaysSuspended(a)]_vars
    BY AlertEffects, SuspensionStands, AlertLeavesSuspended DEF BridgeInv
  <1> QED
    BY <1>1, BridgeInitTypes, BridgeNextTypes, PTL DEF BridgeSpec, SuspendedUntilReview

\* The risk of every position is small beside the profile of its account.
Modest ==
    \A row \in positions : 200 * (row.lots * row.offer.unit_loss) <= Profiles[row.account]

\* A position opens with what ApprovedIsSmall says of it, in the ledger as well.
LEMMA LedgerOpensSmall ==
    ASSUME TypeInv, Approval
    PROVE  \E row \in PositionRow :
              /\ positions' = positions \cup {row}
              /\ 200 * (row.lots * row.offer.unit_loss) <= Profiles[row.account]
              /\ 200 * (row.lots * row.offer.unit_loss) <= accounts[row.account].equity
  <1>1. PICK r \in Requests, id \in Ids, clock \in Readings, lots \in Nat :
           /\ Approve(accounts, providers, r, id, clock)
           /\ lots = PositionSize(r.offer, Budget(ViewSeen(accounts, r, clock)))
           /\ positions' = positions \cup {Opened(r, id, lots)}
           /\ Opened(r, id, lots) \in PositionRow
    <2>1. PICK r \in Requests, id \in Ids, clock \in Readings, lots \in Nat :
             /\ Approve(accounts, providers, r, id, clock)
             /\ lots = PositionSize(r.offer, Budget(ViewSeen(accounts, r, clock)))
             /\ Opening(r, id, lots)
      BY ApprovalStep
    <2> QED
      BY <2>1, OpenedType DEF Opening
  <1>2. Reasons(accounts, providers, r, id, clock) = {}
    BY <1>1 DEF Approve
  <1>3. LET loss == lots * r.offer.unit_loss
        IN  200 * loss <= Profiles[r.account] /\ 200 * loss <= accounts[r.account].equity
    BY <1>1, <1>2, ReadingsAreDays, ApprovedIsSmall DEF SeenOnDays
  <1> DEFINE row == Opened(r, id, lots)
  <1>4. row.account = r.account /\ row.lots * row.offer.unit_loss = lots * r.offer.unit_loss
    BY DEF Opened
  <1> HIDE DEF row
  <1> QED
    BY <1>1, <1>3, <1>4 DEF row

LEMMA NextModest ==
    ASSUME TypeInv, Modest, [Next]_vars
    PROVE  Modest'
  <1>1. CASE Approval
    BY <1>1, LedgerOpensSmall DEF Modest
  <1>2. CASE ClosePosition
    <2>1. PICK row \in positions, exit \in Exits, clock \in Readings :
             row \in PositionRow /\ positions' = (positions \ {row}) \cup {ClosedRow(row)}
      BY <1>2, CloseStep
    <2>2. /\ ClosedRow(row).account = row.account
          /\ ClosedRow(row).lots = row.lots /\ ClosedRow(row).offer = row.offer
      BY <2>1, ClosedRowFields
    <2> QED
      BY <2>1, <2>2 DEF Modest
  <1>3. CASE Quiet
    BY <1>3, QuietLeavesPositions DEF Modest
  <1> QED
    BY <1>1, <1>2, <1>3, StepKinds

LEMMA NextCovered ==
    ASSUME TypeInv, OneOpenPosition, Covered, Solvent, [Next]_vars
    PROVE  Covered'
  <1> SUFFICES ASSUME NEW row \in positions', row.status = "OPEN"
               PROVE  row.lots * row.offer.unit_loss < accounts'[row.account].equity
    BY DEF Covered
  <1>1. ASSUME row \in positions, accounts'[row.account].equity = accounts[row.account].equity
        PROVE  row.lots * row.offer.unit_loss < accounts'[row.account].equity
    BY <1>1 DEF Covered
  <1>2. \A other \in positions : other.account \in Accounts
    BY DEF TypeInv, TypeOK, PositionRow
  <1>3. CASE Approval
    <2>1. PICK new \in PositionRow :
             /\ positions' = positions \cup {new}
             /\ 200 * (new.lots * new.offer.unit_loss) <= accounts[new.account].equity
      BY <1>3, LedgerOpensSmall
    <2>2. CASE row \in positions
      BY <1>1, <1>2, <1>3, <2>2, ApprovalKeepsEquity
    <2>3. CASE row = new
      <3> DEFINE loss == row.lots * row.offer.unit_loss
                 equity == accounts[row.account].equity
      <3>1. row.account \in Accounts /\ loss \in Nat
        BY <2>3, OfferRecord DEF PositionRow
      <3>2. equity \in Int /\ equity > 0 /\ 200 * loss <= equity
        BY <2>1, <2>3, <3>1 DEF Solvent, TypeInv, TypeOK, AccountRow
      <3>3. accounts'[row.account].equity = equity
        BY <1>3, <3>1, ApprovalKeepsEquity
      <3> HIDE DEF loss, equity
      <3>4. loss < equity
        BY <3>1, <3>2
      <3> QED
        BY <3>3, <3>4 DEF loss
    <2> QED
      BY <2>1, <2>2, <2>3
  <1>4. CASE ClosePosition
    <2>1. PICK closing \in positions, exit \in Exits, clock \in Readings :
             /\ Close(closing, exit, clock)
             /\ closing \in PositionRow /\ closing.status = "OPEN"
             /\ positions' = (positions \ {closing}) \cup {ClosedRow(closing)}
      BY <1>4, CloseStep
    <2>2. row \in positions /\ row # closing
      BY <2>1, ClosedRowFields
    <2>3. row.account # closing.account
      BY <2>1, <2>2 DEF OneOpenPosition
    <2> QED
      BY <1>1, <1>2, <2>1, <2>2, <2>3, CloseKeepsEquity
  <1>5. CASE Quiet
    BY <1>1, <1>2, <1>5, QuietLeavesPositions, QuietKeepsEquity
  <1> QED
    BY <1>3, <1>4, <1>5, StepKinds

\* No reported equity is so small beside the profile that one trade could lose it.
EquitiesSuffice == \A equity \in Equities : 200 * equity > Profiles[DefaultProfile]

LEMMA AlertCovers ==
    ASSUME EquitiesSuffice, BridgeInv, Covered, Modest, Solvent, AlertEffect
    PROVE  Covered' /\ Modest' /\ Solvent'
  <1>1. PICK equity \in Equities, day \in BridgeReadings :
           /\ AlertWrites(equity, day)
           /\ positions' = positions \/ AlertPosition(equity)
    BY DEF AlertEffect
  <1>2. PICK seen \in {FirstSeen(equity, day), AgainSeen(equity, day), LastSeen(equity, day)} :
           accounts' = [accounts EXCEPT ![DefaultProfile] = seen]
    BY <1>1 DEF AlertWrites
  <1>3. /\ DefaultProfile \in Accounts /\ accounts \in [Accounts -> AccountRow]
        /\ positions \subseteq PositionRow
    BY BridgeAssumption DEF BridgeInv, BridgeTypeOK, TypeOK
  <1>4. equity \in Nat /\ equity > 0 /\ 200 * equity > Profiles[DefaultProfile]
        /\ Profiles[DefaultProfile] \in Int
    BY <1>3, BridgeAssumption, LedgerAssumption DEF EquitiesSuffice
  <1>5. seen.equity = equity
        /\ seen.starting_equity \in {equity, accounts[DefaultProfile].starting_equity}
    BY SeenRows
  <1>6. /\ accounts'[DefaultProfile] = seen
        /\ \A a \in Accounts \ {DefaultProfile} : accounts'[a] = accounts[a]
    BY <1>2, <1>3
  <1>7. Solvent'
    BY <1>3, <1>4, <1>5, <1>6 DEF Solvent
  <1>8. \A row \in positions' : row \in PositionRow /\
           200 * (row.lots * row.offer.unit_loss) <= Profiles[row.account]
    BY <1>1, <1>3 DEF Modest, AlertPosition
  <1>9. Modest'
    BY <1>8 DEF Modest
  <1>10. ASSUME NEW row \in positions', row.status = "OPEN"
         PROVE  row.lots * row.offer.unit_loss < accounts'[row.account].equity
    <2> DEFINE loss == row.lots * row.offer.unit_loss
    <2>1. row.account \in Accounts /\ loss \in Nat /\ 200 * loss <= Profiles[row.account]
      BY <1>8, OfferRecord DEF PositionRow
    <2>2. CASE row.account = DefaultProfile
      <3> HIDE DEF loss
      <3>1. loss < equity
        BY <1>4, <2>1, <2>2
      <3> QED
        BY <1>5, <1>6, <2>2, <3>1 DEF loss
    <2>3. CASE row.account # DefaultProfile
      <3>1. row \in positions
        BY <1>1, <2>3 DEF AlertPosition
      <3> QED
        BY <1>6, <1>10, <2>1, <2>3, <3>1 DEF Covered
    <2> QED
      BY <2>2, <2>3
  <1>11. Covered'
    BY <1>10 DEF Covered
  <1> QED
    BY <1>7, <1>9, <1>11

\* Midnight passes once at most between the readings of a delivery.
LEMMA DeliveryOrder ==
    ASSUME TypeInv, NEW day \in BridgeReadings
    PROVE  today <= day[2] /\ day[2] <= day[4]
  <1>1. PICK k \in {j \in 1 .. 4 : j < 4 => today + 1 \in Days} :
           day = [i \in 1 .. 4 |-> IF i <= k THEN today ELSE today + 1]
    BY DEF BridgeReadings
  <1>2. today \in Nat /\ k \in 1 .. 4
    BY <1>1, LedgerAssumption DEF TypeInv, TypeOK
  <1>3. \A i \in 1 .. 4 : day[i] = IF i <= k THEN today ELSE today + 1
    BY <1>1
  <1> QED
    BY <1>2, <1>3

\* The row of a delivery carries the stops of the day on which it was last refreshed,
\* and so those of the day on which the delivery ends.
LEMMA AlertEnforces ==
    ASSUME BridgeInv, Solvent, OutcomesPast, AllEnforced, Solvent', AlertEffect
    PROVE  AllEnforced'
  <1>1. PICK equity \in Equities, day \in BridgeReadings : AlertWrites(equity, day)
    BY DEF AlertEffect
  <1>2. PICK seen \in {FirstSeen(equity, day), AgainSeen(equity, day), LastSeen(equity, day)} :
           accounts' = [accounts EXCEPT ![DefaultProfile] = seen]
    BY <1>1 DEF AlertWrites
  <1>3. /\ DefaultProfile \in Accounts /\ accounts \in [Accounts -> AccountRow]
        /\ outcomes \in SUBSET OutcomeRow /\ today \in Days /\ TypeInv
    BY BridgeAssumption DEF BridgeInv, BridgeTypeOK, TypeOK
  <1>4. /\ day[1] \in Days /\ day[2] \in Days /\ day[4] \in Days
        /\ day[1] = today /\ today <= day[2] /\ day[2] <= day[4]
        /\ today' = day[4] /\ outcomes' = outcomes
    BY <1>1, <1>3, DeliveryDays, DeliveryOrder DEF AlertWrites
  <1>5. today \in Nat /\ day[2] \in Nat /\ day[4] \in Nat
        /\ \A o \in outcomes : o.day \in Nat /\ o.day <= today
    BY <1>3, <1>4, LedgerAssumption DEF OutcomesPast, OutcomeRow
  <1>6. seen \in AccountRow /\ seen.equity > 0 /\ seen.starting_equity > 0
    <2>1. accounts'[DefaultProfile] = seen
      BY <1>2, <1>3
    <2> QED
      BY <1>3, <2>1, SeenRows DEF Solvent
  <1>7. InForce(seen, DefaultProfile, outcomes, day[4])
    <2>1. /\ FirstSeen(equity, day) \in AccountRow /\ AgainSeen(equity, day) \in AccountRow
          /\ Imported(equity)[DefaultProfile] \in AccountRow
      BY SeenRows, ImportedRow
    <2>2. /\ InForce(FirstSeen(equity, day), DefaultProfile, outcomes, day[1])
          /\ InForce(AgainSeen(equity, day), DefaultProfile, outcomes, day[2])
          /\ InForce(LastSeen(equity, day), DefaultProfile, outcomes, day[4])
      BY <1>4, <2>1, RefreshEnforces DEF FirstSeen, AgainSeen, LastSeen
    <2>3. \E e \in {day[1], day[2], day[4]} : InForce(seen, DefaultProfile, outcomes, e)
      BY <2>2
    <2>4. PICK e \in {day[1], day[2], day[4]} : InForce(seen, DefaultProfile, outcomes, e)
      BY <2>3
    <2>5. e \in Days /\ today <= e /\ e <= day[4] /\ e \in Nat
      BY <1>4, <1>5
    <2>6. \A o \in outcomes : o.day <= e
      BY <1>5, <2>5
    <2> QED
      BY <1>3, <1>4, <1>6, <2>4, <2>5, <2>6, DayChangeEnforces
  <1>8. ASSUME NEW a \in Accounts PROVE InForce(accounts'[a], a, outcomes', today')
    <2>1. CASE a = DefaultProfile
      BY <1>2, <1>3, <1>4, <1>7, <2>1
    <2>2. CASE a # DefaultProfile
      <3>1. accounts'[a] = accounts[a] /\ InForce(accounts[a], a, outcomes, today)
        BY <1>2, <1>3, <2>2 DEF AllEnforced
      <3>2. today <= day[4]
        BY <1>4, <1>5
      <3> QED
        BY <1>3, <1>4, <3>1, <3>2, UntouchedEnforced
    <2> QED
      BY <2>1, <2>2
  <1> QED
    BY <1>8 DEF AllEnforced, InForce, WeekHit, DayHit

BridgeStopsInv ==
    /\ BridgeInv /\ BudgetInv
    /\ Covered /\ Modest /\ Solvent
    /\ AllEnforced

LEMMA InitBridgeStops == BridgeInit => BridgeStopsInv
  <1> SUFFICES ASSUME BridgeInit PROVE BridgeStopsInv
    OBVIOUS
  <1>1. Init /\ BridgeInv /\ BudgetInv
    BY BridgeInitTypes, InitBudgetInv DEF BridgeInit
  <1>2. Solvent /\ AllEnforced
    BY <1>1, InitStops DEF StopsInv
  <1>3. Covered /\ Modest
    BY <1>1 DEF Init, Covered, Modest
  <1> QED
    BY <1>1, <1>2, <1>3 DEF BridgeStopsInv

LEMMA NextBridgeStops ==
    ASSUME EquitiesSuffice
    PROVE  BridgeStopsInv /\ [BridgeNext]_bridgedVars => BridgeStopsInv'
  <1> SUFFICES ASSUME BridgeStopsInv, [BridgeNext]_bridgedVars PROVE BridgeStopsInv'
    OBVIOUS
  <1>1. /\ BridgeInv /\ TypeInv /\ BudgetInv /\ OneOpenPosition /\ OutcomesPast
        /\ Covered /\ Modest /\ Solvent /\ AllEnforced
    BY DEF BridgeStopsInv, BridgeInv, BudgetInv
  <1>2. BridgeInv' /\ BudgetInv' /\ TypeInv' /\ OutcomesPast'
    BY <1>1, BridgeNextTypes, BridgeNextBudgetInv DEF BridgeInv, BudgetInv
  <1>3. CASE [Next]_vars
    <2>1. Covered' /\ Modest' /\ Solvent'
      BY <1>1, <1>3, NextCovered, NextModest, NextSolvent
    <2>2. AllEnforced'
      BY <1>1, <1>2, <1>3, <2>1, NextEnforces
    <2> QED
      BY <1>2, <2>1, <2>2 DEF BridgeStopsInv
  <1>4. CASE AlertEffect
    <2>1. Covered' /\ Modest' /\ Solvent'
      BY <1>1, <1>4, AlertCovers
    <2>2. AllEnforced'
      BY <1>1, <1>4, <2>1, AlertEnforces
    <2> QED
      BY <1>2, <2>1, <2>2 DEF BridgeStopsInv
  <1> QED
    BY <1>1, <1>3, <1>4, AlertEffects

(***************************************************************************)
(* The stops are in force beside the bridge, on whatever days a delivery   *)
(* refreshes its account, as long as no reported equity is less than the   *)
(* two-hundredth of the profile that one trade may risk.  The hypothesis   *)
(* is needed: a smaller equity, imported under an open position, could     *)
(* turn negative by its loss.                                              *)
(***************************************************************************)
THEOREM BridgeStopsInForce ==
    ASSUME EquitiesSuffice
    PROVE  BridgeSpec => []StopsInForce
  <1>1. BridgeStopsInv => StopsInForce
    BY AllEnforcedIsStopsInForce DEF BridgeStopsInv, BridgeInv, BridgeTypeOK
  <1>2. BridgeStopsInv /\ [BridgeNext]_bridgedVars => BridgeStopsInv'
    BY NextBridgeStops
  <1> QED
    BY <1>1, <1>2, InitBridgeStops, PTL DEF BridgeSpec
=============================================================================
