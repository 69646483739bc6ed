---------------------------- MODULE AtomicStore ----------------------------
(***************************************************************************)
(* What the store promises its callers: the effects of a request reach the *)
(* database in one step, all of them in the order in which the request     *)
(* made them, or not at all.  A request that was refused leaves one entry  *)
(* in the audit log, every start of the program another; nothing else is   *)
(* ever written, and nothing written is ever changed or lost.              *)
(***************************************************************************)
EXTENDS Sequences

CONSTANTS
    Requests,   \* the requests that clients send
    Bridge      \* those of them that are TradingView alerts

VARIABLES
    rows,       \* the sections whose rows are in the application's tables
    log         \* the audit log: <<request, section>>, or a start-up entry

vars == <<rows, log>>

(***************************************************************************)
(* The sections a request may consist of.  An alert is refused at intake,  *)
(* blocked by the terminal before or after the evidence was filed, or      *)
(* decided and journalled; every other request changes the tables once.    *)
(***************************************************************************)
Histories(r) ==
    IF r \in Bridge
    THEN { <<"intake">>,
           <<"intake", "blocked">>,
           <<"intake", "evidence", "blocked">>,
           <<"intake", "evidence", "verdict", "journal">> }
    ELSE { <<"change">> }

Entries(r, history) == [i \in DOMAIN history |-> <<r, history[i]>>]

Started == <<"seed", "boot">>

Handled(r) == \E i \in DOMAIN log : log[i][1] = r

Init ==
    /\ rows = {}
    /\ log = << Started, Started >>

Serve(r) ==
    /\ ~Handled(r)
    /\ \E history \in Histories(r) :
         /\ rows' = rows \cup {<<r, history[i]>> : i \in DOMAIN history}
         /\ log' = log \o Entries(r, history)

Refuse(r) ==
    /\ ~Handled(r)
    /\ log' = Append(log, <<r, "refusal">>)
    /\ UNCHANGED rows

Start ==
    /\ log' = Append(log, Started)
    /\ UNCHANGED rows

Next == Start \/ \E r \in Requests : Serve(r) \/ Refuse(r)

Spec == Init /\ [][Next]_vars
=============================================================================
