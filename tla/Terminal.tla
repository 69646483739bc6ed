------------------------------- MODULE Terminal -------------------------------
(***************************************************************************)
(* MT5Service of engine/mt5.py with the terminal behind it, and the reads  *)
(* TradingBridge._ingest makes through it before it trusts an alert.  The  *)
(* alert's transaction keeps other requests out, but not the broker: the   *)
(* link may drop between any two calls, orders are placed, filled and      *)
(* closed by hand, and the server may be interrupted, which shuts the      *)
(* package down under a delivery that is still running.                    *)
(***************************************************************************)
EXTENDS Naturals, Sequences

CONSTANT Items      \* the orders and positions that others may open

VARIABLES
    server,         \* "down", "up", or "stopping" after an interrupt
    enabled,        \* settings.mt5_enabled
    connected,      \* MT5Service._connected
    session,        \* the package is initialized in this process
    link,           \* the terminal is connected to the broker
    account,        \* where each item is, at the broker
    view,           \* the same, as the terminal knows it
    op,             \* the operation the delivery is at, 0 without a delivery
    checked,        \* and whether its status check has passed
    failure,        \* the code of the first read that failed
    exposure,       \* what positions_get and orders_get showed
    answer,         \* the reason of the last delivery that was answered
    kept,           \* the items that have not moved since the delivery began
    reached,        \* the terminal was reachable during this operation
    missed          \* and during an earlier one never was

adapterVars == <<server, enabled, connected, session>>
brokerVars == <<link, account, view>>
deliveryVars == <<op, checked, failure, exposure, answer>>
historyVars == <<kept, reached, missed>>

vars == <<adapterVars, brokerVars, deliveryVars, historyVars>>

Operations == <<"status", "symbol_info", "symbol_info_tick", "account_info",
                "positions_get", "orders_get">>

Places == {"none", "orders_get", "positions_get"}

StatusCodes == {"MT5_DISABLED", "MT5_NOT_CONNECTED", "MT5_DISCONNECTED"}

ReadCodes == {"MT5_LOOKUP_FAILED", "MT5_OPERATION_FAILED", "MT5_CALL_ERROR"}

Exposures == {"MT5_EXPOSURE_UNKNOWN", "MT5_EXTERNAL_EXPOSURE"}

EvidenceGate == "REQUIRED_EXTERNAL_EVIDENCE_UNVERIFIED"

TypeOK ==
    /\ server \in {"down", "up", "stopping"}
    /\ {enabled, connected, session, link, checked, reached, missed} \subseteq BOOLEAN
    /\ account \in [Items -> Places] /\ view \in [Items -> Places]
    /\ op \in 0 .. Len(Operations) + 1
    /\ checked => op \in 2 .. Len(Operations)
    /\ failure \in StatusCodes \cup ReadCodes \cup {"NONE"}
    /\ exposure \in Exposures \cup {"NONE"}
    /\ answer \in StatusCodes \cup ReadCodes \cup Exposures \cup {EvidenceGate, "NONE"}
    /\ kept \subseteq Items

Init ==
    /\ server = "down" /\ enabled \in BOOLEAN
    /\ connected = FALSE /\ session = FALSE
    /\ link \in BOOLEAN
    /\ account \in [Items -> Places] /\ view = account
    /\ op = 0 /\ checked = FALSE
    /\ failure = "NONE" /\ exposure = "NONE" /\ answer = "NONE"
    /\ kept = {} /\ reached = FALSE /\ missed = FALSE

Reachable == link /\ session

-----------------------------------------------------------------------------
\* The server starts: an enabled adapter tries once to initialize the package.
Start(success) ==
    /\ server = "down"
    /\ server' = "up"
    /\ success => enabled
    /\ connected' = success /\ session' = success
    /\ UNCHANGED <<enabled, brokerVars, deliveryVars, historyVars>>

\* An interrupt: the deliveries run on, in threads that nobody waits for.
ShutPackage ==
    /\ server = "up"
    /\ server' = "stopping"
    /\ session' = FALSE
    /\ UNCHANGED <<enabled, connected, brokerVars, deliveryVars, historyVars>>

ClearConnected ==
    /\ server = "stopping" /\ connected
    /\ connected' = FALSE
    /\ UNCHANGED <<server, enabled, session, brokerVars, deliveryVars, historyVars>>

\* The process ends, with its deliveries; a crash ends it at any time.
Exit ==
    /\ server # "down"
    /\ server' = "down" /\ connected' = FALSE /\ session' = FALSE
    /\ op' = 0 /\ checked' = FALSE
    /\ UNCHANGED <<enabled, failure, exposure, answer, brokerVars, historyVars>>

-----------------------------------------------------------------------------
DropLink ==
    /\ link
    /\ link' = FALSE
    /\ UNCHANGED <<adapterVars, account, view, deliveryVars, historyVars>>

RestoreLink ==
    /\ ~link
    /\ link' = TRUE
    /\ view' = account
    /\ reached' = (reached \/ session)
    /\ UNCHANGED <<adapterVars, account, deliveryVars, kept, missed>>

\* Someone else places an order, has it filled, cancels it or closes a position.
Trade(i, place) ==
    /\ account[i] # place
    /\ account[i] = "positions_get" => place = "none"
    /\ account' = [account EXCEPT ![i] = place]
    /\ view' = IF link THEN account' ELSE view
    /\ kept' = kept \ {i}
    /\ UNCHANGED <<adapterVars, link, deliveryVars, reached, missed>>

-----------------------------------------------------------------------------
\* A variant that asks the terminal once, when the server starts.
StatusOfStart ==
    IF ~enabled THEN "MT5_DISABLED"
    ELSE IF ~connected THEN "MT5_NOT_CONNECTED"
    ELSE "MT5_CONNECTED"

\* MT5Service.status: a package that is shut down has no terminal_info to give.
Status ==
    IF ~enabled THEN "MT5_DISABLED"
    ELSE IF ~connected THEN "MT5_NOT_CONNECTED"
    ELSE IF ~Reachable THEN "MT5_DISCONNECTED"
    ELSE "MT5_CONNECTED"

\* A variant that takes an unreachable terminal for a closed connection.
ConnectedUntilLost == connected /\ Status # "MT5_DISCONNECTED"

\* _connected is what initialize and shutdown made it; status leaves it alone.
ConnectedAfterStatus == connected

First(code, next) == IF code = "NONE" THEN next ELSE code

Begin ==
    /\ server = "up" /\ op = 0
    /\ op' = 1 /\ checked' = FALSE
    /\ failure' = "NONE" /\ exposure' = "NONE" /\ answer' = "NONE"
    /\ kept' = {i \in Items : account[i] # "none"}
    /\ reached' = Reachable /\ missed' = FALSE
    /\ UNCHANGED <<adapterVars, brokerVars>>

\* An operation is over, and the next one begins.
NextOperation ==
    /\ op' = op + 1 /\ checked' = FALSE
    /\ reached' = Reachable
    /\ missed' = (missed \/ ~reached)

\* The check of status that opens every operation, and is the first of them.
Check ==
    /\ op \in 1 .. Len(Operations) /\ ~checked
    /\ connected' = ConnectedAfterStatus
    /\ \/ /\ Status = "MT5_CONNECTED" /\ op > 1
          /\ checked' = TRUE
          /\ UNCHANGED <<op, failure, answer, reached, missed>>
       \/ /\ Status = "MT5_CONNECTED" /\ op = 1
          /\ NextOperation
          /\ UNCHANGED <<failure, answer>>
       \/ /\ Status # "MT5_CONNECTED" /\ op > 1
          /\ failure' = First(failure, Status)
          /\ NextOperation
          /\ UNCHANGED answer
       \/ /\ Status # "MT5_CONNECTED" /\ op = 1
          /\ answer' = Status
          /\ op' = 0
          /\ UNCHANGED <<checked, failure, reached, missed>>
    /\ UNCHANGED <<server, enabled, session, exposure, brokerVars, kept>>

\* The read itself fails: nothing, False, or an exception.
ReadFails(code) ==
    /\ checked
    /\ failure' = First(failure, code)
    /\ NextOperation
    /\ UNCHANGED <<exposure, answer, adapterVars, brokerVars, kept>>

\* A variant that looks at positions only.
ShownPositions(name) == {i \in Items : view[i] = "positions_get" /\ view[i] = name}

Shown(name) == {i \in Items : view[i] = name}

\* It succeeds, with what the terminal knows at that moment, current or not.
ReadSucceeds ==
    /\ checked /\ session
    /\ exposure' = IF Shown(Operations[op]) # {}
                   THEN First(exposure, "MT5_EXTERNAL_EXPOSURE") ELSE exposure
    /\ NextOperation
    /\ UNCHANGED <<failure, answer, adapterVars, brokerVars, kept>>

\* positions_get or orders_get returns something that is not a list.
ReadIsNoList ==
    /\ checked /\ session
    /\ Operations[op] \in Places
    /\ exposure' = First(exposure, "MT5_EXPOSURE_UNKNOWN")
    /\ NextOperation
    /\ UNCHANGED <<failure, answer, adapterVars, brokerVars, kept>>

\* All five reads are made, and judged in their order.
Conclude ==
    /\ op = Len(Operations) + 1
    /\ op' = 0
    /\ answer' = First(First(failure, exposure), EvidenceGate)
    /\ UNCHANGED <<checked, failure, exposure, adapterVars, brokerVars, historyVars>>

Next ==
    \/ \E success \in BOOLEAN : Start(success)
    \/ ShutPackage \/ ClearConnected \/ Exit
    \/ DropLink \/ RestoreLink
    \/ \E i \in Items, place \in Places : Trade(i, place)
    \/ Begin \/ Check
    \/ \E code \in ReadCodes : ReadFails(code)
    \/ ReadSucceeds \/ ReadIsNoList \/ Conclude

Spec == Init /\ [][Next]_vars

-----------------------------------------------------------------------------
Trusted == answer = EvidenceGate

(***************************************************************************)
(* "Account-wide external positions and pending orders block candidates"   *)
(* (README.md, line 11): whatever the link does, an order or position that *)
(* stays as it is during a delivery keeps it from the evidence gate.  One  *)
(* that moves need not: an order filled between positions_get and          *)
(* orders_get is in neither answer.                                        *)
(***************************************************************************)
StillExposureBlocks == Trusted /\ op = 0 => kept = {}

(***************************************************************************)
(* "Terminal connection is rechecked on each real adapter operation"       *)
(* (README.md, line 10): a delivery gets past the reads only if the        *)
(* terminal was reachable at some time during every one of them.  A link   *)
(* that drops after the check goes unnoticed until the next one.           *)
(***************************************************************************)
OutagesNoticed == Trusted => ~missed

(***************************************************************************)
(* A connection that was lost is not lost for good: once the terminal      *)
(* stays reachable, deliveries stop being answered as disconnected, though *)
(* initialize is never called again (status, mt5.py, lines 64 to 75).      *)
(***************************************************************************)
OutagesEnd ==
    <>[]Reachable =>
        <>[][answer' # answer => answer' \notin StatusCodes]_vars
=============================================================================
