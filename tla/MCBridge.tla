------------------------------- MODULE MCBridge -------------------------------
(***************************************************************************)
(* Small instances of Bridge, with the offers and policies of MCLedger.    *)
(***************************************************************************)
EXTENDS Bridge, MCLedger

CONSTANTS tv, h1, h2

SettingsOf(mode, enabled) ==
    [mode |-> mode, mt5_enabled |-> enabled, live_execution_enabled |-> FALSE,
     webhook_allowed_hosts |-> FALSE, webhook_secret |-> TRUE]

\* Every mode that validates, with either adapter.
AllDeployments ==
    {[settings |-> SettingsOf(mode, TRUE), adapter |-> adapter] :
        mode \in {m \in Modes : Validated(SettingsOf(m, TRUE))}, adapter \in Adapters}

MCStem == [s \in TextIds |-> s]

\* Five lots for the configured profile, four when its provider has lost before.
AlertOffers == {Wide}

\* The provider's caps bind, and the bridge's provider is active beside the fixture.
BridgePolicy == [ProviderPolicy EXCEPT !.max_active_providers = 2]

(***************************************************************************)
(* Alerts, manual requests, closes and days alone: research edits, reviews *)
(* and snapshots, which the runs of MCLedger have, would multiply the      *)
(* states of a history of deliveries.                                      *)
(***************************************************************************)
AlertsNext ==
    \/ IngestTurnedAway
    \/ IngestUnchecked
    \/ IngestDecided
    \/ (ManualEvaluate \/ ClosePosition \/ Tick) /\ UNCHANGED bridgeVars

AlertsSpec == BridgeInit /\ [][AlertsNext]_bridgedVars
=============================================================================
