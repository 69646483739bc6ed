-------------------------------- MODULE Bridge --------------------------------
(***************************************************************************)
(* TradingView alerts: engine/webhook.py, engine/bridge.py and the modes   *)
(* of engine/config.py, on top of the ledger they share with manual        *)
(* requests.  TradingBridge.ingest runs in one transaction, so that a      *)
(* delivery is one action; but it asks MT5 and reads the clock several     *)
(* times, and midnight may pass inside it.                                 *)
(*                                                                         *)
(* An alert may be delivered again, under the same idempotency header or   *)
(* another.  Three deliveries leave no trace that a later one meets and    *)
(* are stuttering steps: one with a wrong secret (its row has a key of its *)
(* own), a duplicate (an audit entry), and one that fails and is rolled    *)
(* back as a whole, with HTTP 503.                                         *)
(*                                                                         *)
(* Keys of different kinds never coincide here: a header that reads like   *)
(* the key of an alert, or like a digest, is left out.  The mode           *)
(* DISCONNECTED stops an alert before evaluate, so that the refusal there  *)
(* matters to manual requests only.                                        *)
(***************************************************************************)
EXTENDS Ledger

CONSTANTS
    TradingView,    \* the id of the provider row the bridge creates
    DefaultProfile, \* settings.default_account_profile
    TextIds,        \* the alerts whose alert_id is a nonblank string
    NumberIds,      \* those whose alert_id is anything else that counts as true
    Stem,           \* Stem[s]: the first 194 characters of a string id
    Headers,        \* the Idempotency-Key headers in use
    NoHeader,
    Equities,       \* the equity an adapter may report
    Deployments     \* settings together with the adapter the bridge is given

Modes == {"DISCONNECTED", "SIMULATION", "PAPER_TRADING", "LIVE_DISABLED", "LIVE_GATED"}

Adapters == {"terminal", "fixture"}   \* MT5Service, MockMT5Service

SettingsRow == [mode : Modes, mt5_enabled : BOOLEAN, live_execution_enabled : BOOLEAN,
                webhook_allowed_hosts : BOOLEAN, webhook_secret : BOOLEAN]

\* Settings.validate: what a server starts with.
Validated(s) ==
    /\ s.webhook_allowed_hosts => s.webhook_secret
    /\ ~s.live_execution_enabled
    /\ s.mode # "LIVE_GATED"
    /\ s.mode \in {"PAPER_TRADING", "LIVE_DISABLED"} => s.mt5_enabled

ASSUME BridgeAssumption ==
    /\ TradingView \in Providers \ SeedProviders
    /\ DefaultProfile \in Accounts
    /\ TextIds \subseteq Signals
    /\ NumberIds \subseteq Signals \ TextIds
    /\ LongIds \subseteq TextIds \cup NumberIds
    /\ NoHeader \notin Headers
    /\ Equities \subseteq Nat \ {0}
    /\ \A d \in Deployments :
          /\ d \in [settings : SettingsRow, adapter : Adapters]
          /\ Validated(d.settings)

VARIABLES
    deployment,
    raw_webhooks,       \* table raw_webhooks: the final status of a key
    normalized_signals, \* table normalized_signals, with its row of risk_checks
    mt5_initialized     \* that column of the default profile's accounts row

bridgeVars == <<deployment, raw_webhooks, normalized_signals, mt5_initialized>>

bridgedVars == <<vars, bridgeVars>>

Deliveries == [alert : Signals, header : Headers \cup {NoHeader}]

\* A variant in which the header takes precedence.
HeaderBeforeAlertId(d) ==
    IF d.header # NoHeader THEN <<"header", d.header>>
    ELSE IF d.alert \in TextIds THEN <<"alert", Stem[d.alert]>>
    ELSE <<"digest", d.alert>>

(***************************************************************************)
(* TradingViewWebhookService.idempotency_key.  An alert without a string   *)
(* id is told apart by the delivery's header, and without one by a digest  *)
(* of the fields that make it this alert.                                  *)
(***************************************************************************)
IdempotencyKey(d) ==
    IF d.alert \in TextIds THEN <<"alert", Stem[d.alert]>>
    ELSE IF d.header # NoHeader THEN <<"header", d.header>>
    ELSE <<"digest", d.alert>>

Keys == {"alert", "header", "digest"}
            \X (Headers \cup Signals \cup {Stem[s] : s \in TextIds})

RawStatus == {"NONE", "rejected", "blocked", "processed"}

\* checked is the volume that order_check confirmed, 0 when it was not run.
NormalizedRow == [id : Ids, alert : Signals, status : Verdicts, checked : Nat]

BridgeTypeOK ==
    /\ TypeOK
    /\ deployment \in Deployments
    /\ raw_webhooks \in [Keys -> RawStatus]
    /\ normalized_signals \subseteq NormalizedRow
    /\ mt5_initialized \in BOOLEAN

BridgeInit ==
    /\ Init
    /\ deployment \in Deployments
    /\ raw_webhooks = [k \in Keys |-> "NONE"]
    /\ normalized_signals = {}
    /\ mt5_initialized = FALSE

-----------------------------------------------------------------------------
DuplicateDelivery(d) == raw_webhooks[IdempotencyKey(d)] # "NONE"

Answered(d, status) == raw_webhooks' = [raw_webhooks EXCEPT ![IdempotencyKey(d)] = status]

(***************************************************************************)
(* A delivery that ends before the ledger is touched: "rejected" because   *)
(* it is malformed, stale or not mapped to one symbol; "blocked" because   *)
(* the mode is DISCONNECTED, MT5 is not connected, a read fails, external  *)
(* exposure is found or cannot be excluded, the symbol or account is not   *)
(* tradable, or the evidence a real terminal cannot give is missing.       *)
(***************************************************************************)
TurnAway(d, status) ==
    /\ ~DuplicateDelivery(d)
    /\ status \in {"rejected", "blocked"}
    /\ Answered(d, status)
    /\ UNCHANGED <<vars, deployment, normalized_signals, mt5_initialized>>

\* A variant of the gate that asks for the mode only.
SimulationMode == deployment.settings.mode = "SIMULATION"

\* The gate that only the in-process fixture passes, in SIMULATION.
SyntheticEvidence ==
    /\ deployment.adapter = "fixture"
    /\ deployment.settings.mode = "SIMULATION"

(***************************************************************************)
(* The evidence transaction: the accounts row takes the adapter's equity,  *)
(* and as its starting equity too the first time; the provider row is      *)
(* created, never replaced.                                                *)
(***************************************************************************)
Imported(equity) ==
    LET row == accounts[DefaultProfile]
        start == IF mt5_initialized THEN row.starting_equity ELSE equity
    IN  [accounts EXCEPT ![DefaultProfile] =
            [row EXCEPT !.equity = equity, !.starting_equity = start]]

WithProvider ==
    [providers EXCEPT ![TradingView] = IF @.status = "ABSENT" THEN Fixture ELSE @]

FreshIds == {u \in UUIDs : signals[u] = "NONE" /\ \A n \in normalized_signals : n.id # u}

\* validate: str(alert_id), or a fresh UUID.
SignalIds(alert) == IF alert \in TextIds \cup NumberIds THEN {alert} ELSE FreshIds

\* evaluate: the signal id, or a fresh UUID in place of an overlong one.
EvaluatedIds(id) == IF id \in LongIds THEN FreshIds ELSE {id}

\* The clock at the preview and at the three readings of the evaluation.
BridgeReadings ==
    {[i \in 1 .. 4 |-> IF i <= k THEN today ELSE today + 1] :
        k \in {j \in 1 .. 4 : j < 4 => today + 1 \in Days}}

AlertRequest(d, offer, fault) ==
    [account |-> DefaultProfile, provider |-> TradingView, signal |-> d.alert,
     offer |-> offer, fault |-> fault]

(***************************************************************************)
(* Application.preview: its refresh is written, and the volume it finds is *)
(* 0 unless the engine has no objection.                                   *)
(***************************************************************************)
PreviewVolume(accts, r, day) ==
    LET v == ViewSeen(accts, r, <<day>>)
    IN  IF EngineReasons(v, WithProvider[r.provider], r.offer, r.fault) = {}
        THEN PositionSize(r.offer, Budget(v))
        ELSE 0

Previewed(accts, r, day) == [accts EXCEPT ![r.account] = AccountSeen(accts, r, <<day>>)]

\* A variant without the primary key of normalized_signals.
EvidenceAnew(d, id) ==
    /\ ~DuplicateDelivery(d)
    /\ SyntheticEvidence
    /\ mt5_initialized' = TRUE
    /\ UNCHANGED deployment

\* The evidence transaction goes through: its signal id is a new one.
Evidence(d, id) ==
    /\ ~DuplicateDelivery(d)
    /\ SyntheticEvidence
    /\ \A n \in normalized_signals : n.id # id
    /\ mt5_initialized' = TRUE
    /\ UNCHANGED deployment

\* order_check fails: blocked, and what was written so far is kept.
FailCheck(d, id, offer, equity, day) ==
    LET r == AlertRequest(d, offer, "none")
        accts == Imported(equity)
    IN  /\ Evidence(d, id)
        /\ PreviewVolume(accts, r, day[1]) > 0
        /\ Answered(d, "blocked")
        /\ normalized_signals' = normalized_signals \cup
              {[id |-> id, alert |-> d.alert, status |-> "NO_TRADE", checked |-> 0]}
        /\ accounts' = Previewed(accts, r, day[1])
        /\ providers' = WithProvider
        /\ today' = day[4]
        /\ UNCHANGED <<signals, positions, outcomes, performance>>

\* A variant that trusts the volume of the second computation.
AnyVolumeChecked(volume, accts, r, clock) == TRUE

\* The volume that evaluate computes is the one that order_check confirmed.
VolumeChecked(volume, accts, r, clock) ==
    volume = PositionSize(r.offer, Budget(ViewSeen(accts, r, clock)))

\* The evaluation has no objection of its own, but the volume was not checked.
RefuseUnchecked(accts, r, id, clock) ==
    /\ Reasons(accts, WithProvider, r, id, clock) = {}
    /\ signals' = [signals EXCEPT ![id] = "NO_TRADE"]
    /\ accounts' = [accts EXCEPT ![r.account] = AccountSeen(accts, r, clock)]
    /\ providers' = WithProvider
    /\ today' = clock[3]
    /\ UNCHANGED <<positions, outcomes, performance>>

(***************************************************************************)
(* A delivery that is evaluated.  order_check runs when the preview finds  *)
(* a volume, here with success; the evaluation repeats every check and     *)
(* compares its own volume with the checked one.                           *)
(***************************************************************************)
Decide(d, id, evaluated, offer, fault, equity, day) ==
    LET r == AlertRequest(d, offer, fault)
        volume == PreviewVolume(Imported(equity), r, day[1])
        accts == Previewed(Imported(equity), r, day[1])
        clock == <<day[2], day[3], day[4]>>
        reasons == Reasons(accts, WithProvider, r, evaluated, clock)
        Verdict(status) == normalized_signals' = normalized_signals \cup
              {[id |-> id, alert |-> d.alert, status |-> status, checked |-> volume]}
    IN  /\ Evidence(d, id)
        /\ Answered(d, "processed")
        /\ \/ /\ VolumeChecked(volume, accts, r, clock)
              /\ Approve(accts, WithProvider, r, evaluated, clock)
              /\ Verdict("APPROVED_SIMULATED_TRADE")
           \/ /\ Refuse(accts, WithProvider, r, evaluated, clock)
              /\ Verdict(IF reasons = {"INSUFFICIENT_EVIDENCE"}
                         THEN "WATCHLIST" ELSE "NO_TRADE")
           \/ /\ ~VolumeChecked(volume, accts, r, clock)
              /\ RefuseUnchecked(accts, r, evaluated, clock)
              /\ Verdict("NO_TRADE")

-----------------------------------------------------------------------------
IngestTurnedAway ==
    \E d \in Deliveries, status \in {"rejected", "blocked"} : TurnAway(d, status)

IngestUnchecked ==
    \E d \in Deliveries, offer \in Offers, equity \in Equities, day \in BridgeReadings :
        \E id \in SignalIds(d.alert) : FailCheck(d, id, offer, equity, day)

IngestDecided ==
    \E d \in Deliveries, offer \in Offers, fault \in Faults, equity \in Equities,
       day \in BridgeReadings :
           \E id \in SignalIds(d.alert) :
               \E evaluated \in EvaluatedIds(id) :
                   Decide(d, id, evaluated, offer, fault, equity, day)

\* Manual requests: in mode DISCONNECTED the safety controls refuse every one.
ManualEvaluate ==
    \E r \in {r \in Requests : deployment.settings.mode = "DISCONNECTED" => r.fault = "gated"} :
        \E id \in StoredIds(r.signal), clock \in Readings :
            \/ Approve(accounts, providers, r, id, clock)
            \/ Refuse(accounts, providers, r, id, clock)

LedgerNext ==
    /\ \/ ManualEvaluate
       \/ EvaluateUnknownAccount
       \/ ClosePosition
       \/ \E late \in SUBSET Accounts, d \in Days : Snapshot(late, d)
       \/ Review
       \/ Research
       \/ Tick
    /\ UNCHANGED bridgeVars

BridgeNext ==
    \/ IngestTurnedAway
    \/ IngestUnchecked
    \/ IngestDecided
    \/ LedgerNext

BridgeSpec == BridgeInit /\ [][BridgeNext]_bridgedVars

-----------------------------------------------------------------------------
(***************************************************************************)
(* "Exact-size workflow" (README.md, line 25): a position that the bridge  *)
(* opened has the volume that order_check confirmed, although account,     *)
(* provider and day may have changed since the preview; and an approved    *)
(* alert always has its position.                                          *)
(***************************************************************************)
OpensWhatWasChecked ==
    \A n \in normalized_signals : n.status = "APPROVED_SIMULATED_TRADE" =>
        \E row \in positions :
            /\ row.signal = n.alert
            /\ row.account = DefaultProfile /\ row.provider = TradingView
            /\ row.lots = n.checked /\ n.checked > 0

(***************************************************************************)
(* An alert with an alert_id of any kind is evaluated at most once, under  *)
(* whatever headers it is delivered again: by its key if the id is a       *)
(* string, by the primary key of normalized_signals otherwise.             *)
(***************************************************************************)
AlertEvaluatedOnce ==
    \A n1, n2 \in normalized_signals :
        n1.alert = n2.alert /\ n1.alert \in TextIds \cup NumberIds => n1 = n2

KnownAlert(alert) ==
    \E d \in Deliveries : d.alert = alert /\ raw_webhooks[IdempotencyKey(d)] # "NONE"

(***************************************************************************)
(* "Alert IDs take precedence over delivery headers" (README.md, line 8):  *)
(* the first answer to an alert with a string id is final.  However it was *)
(* turned away, no later delivery is evaluated or recorded.                *)
(***************************************************************************)
FirstAnswerIsFinal ==
    [][\A alert \in TextIds : KnownAlert(alert) =>
          /\ {n \in normalized_signals' : n.alert = alert}
                = {n \in normalized_signals : n.alert = alert}
          /\ \A d \in Deliveries : d.alert = alert =>
                raw_webhooks'[IdempotencyKey(d)] = raw_webhooks[IdempotencyKey(d)]
      ]_bridgedVars

(***************************************************************************)
(* "real account equity is not imported into the simulated ledger"         *)
(* (README.md, line 7): with a real terminal, or in any other mode than    *)
(* SIMULATION, the equity of every account is what its trades made of it,  *)
(* and no alert has opened a position.                                     *)
(***************************************************************************)
RealEquityStaysOut ==
    deployment.adapter = "terminal" \/ deployment.settings.mode # "SIMULATION" =>
        /\ EquityReconciles
        /\ \A row \in positions : row.provider # TradingView
=============================================================================
