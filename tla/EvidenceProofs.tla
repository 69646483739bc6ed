--------------------------- MODULE EvidenceProofs ---------------------------
(***************************************************************************)
(* What an alert may be judged by: the reads of the terminal, for any      *)
(* number of orders and positions, and the evidence of its candidate, for  *)
(* any policies and any ladders.                                           *)
(*                                                                         *)
(* The reads.  Neither property is inductive.  What a read shows is        *)
(* current only for items that have not moved since the status check       *)
(* before it (Informed), and an item that stays can be missed only while   *)
(* its table has not been read yet, or because a read failed (Watched).  A *)
(* connection found at a status check was there during that operation      *)
(* (Noticed).  While the terminal is reachable a refused delivery can only *)
(* be answered, and no other one is refused (ReachableStep).               *)
(*                                                                         *)
(* The evidence.  A step makes every field as bad as it was or worse       *)
(* (NoBetter), and a stamp of the past ages; so what is sound after it was *)
(* sound before, and then all numbers are known and the score falls, one   *)
(* summand at a time.  What is missing is refused by the whole engine, and *)
(* a policy that tightens every limit accepts no more than the defaults.   *)
(***************************************************************************)
EXTENDS Terminal, Evidence, RiskEngineProofs


\* The two halves of TypeOK: what is true or false, and what has more values.
Flags ==
    /\ enabled \in BOOLEAN /\ connected \in BOOLEAN /\ session \in BOOLEAN
    /\ link \in BOOLEAN /\ checked \in BOOLEAN /\ reached \in BOOLEAN /\ missed \in BOOLEAN

Values ==
    /\ server \in {"down", "up", "stopping"}
    /\ account \in [Items -> Places] /\ view \in [Items -> Places]
    /\ op \in 0 .. 7
    /\ checked = TRUE => op \in 2 .. 6
    /\ failure \in StatusCodes \cup ReadCodes \cup {"NONE"}
    /\ exposure \in Exposures \cup {"NONE"}
    /\ answer \in StatusCodes \cup ReadCodes \cup Exposures \cup {EvidenceGate, "NONE"}
    /\ kept \subseteq Items

\* Without a process there is no session, and without a delivery no answer is due.
Idle ==
    /\ server = "down" => op = 0 /\ session = FALSE
    /\ op # 0 => answer = "NONE"

\* An operation that passed its check has reached the terminal.
Noticed ==
    /\ op # 0 /\ Reachable => reached = TRUE
    /\ checked => reached = TRUE
    /\ op # 0 /\ failure = "NONE" => missed = FALSE
    /\ op = 0 /\ Trusted => missed = FALSE

\* After the check the terminal knows every item that stays.
Informed ==
    /\ link => view = account
    /\ checked => \A i \in kept : view[i] = account[i]

\* What stays and was not noticed is still to be read.
Watched ==
    /\ op # 0 /\ failure = "NONE" /\ exposure = "NONE" =>
          \A i \in kept : \/ account[i] = "positions_get" /\ op <= 5
                          \/ account[i] = "orders_get" /\ op <= 6
    /\ op = 0 /\ Trusted => kept = {}

TerminalInv == TypeOK /\ Idle /\ Noticed /\ Informed /\ Watched

-----------------------------------------------------------------------------
\* The codes and the tables, spelled out: src/engine/bridge.py:57-70.
LEMMA OperationNames ==
    /\ Len(Operations) = 6
    /\ Operations[5] = "positions_get" /\ Operations[6] = "orders_get"
    /\ \A k \in 2 .. 4 : Operations[k] \notin {"positions_get", "orders_get", "none"}
BY DEF Operations

\* A status is one of the codes, and it is good only with the link up.
LEMMA StatusKinds ==
    /\ Status \in StatusCodes \cup {"MT5_CONNECTED"}
    /\ Status = "MT5_CONNECTED" => Reachable
BY DEF Status, StatusCodes

LEMMA TypeParts == TypeOK <=> Flags /\ Values
  <1>1. {enabled, connected, session, link, checked, reached, missed} \subseteq BOOLEAN
            <=> Flags
    BY Zenon DEF Flags
  <1>2. Len(Operations) + 1 = 7
    BY OperationNames
  <1>3. ASSUME Flags
        PROVE  (checked => op \in 2 .. Len(Operations)) <=> (checked = TRUE => op \in 2 .. 6)
    BY <1>3, OperationNames DEF Flags
  <1>. QED
    BY <1>1, <1>2, <1>3, Zenon DEF TypeOK, Values

LEMMA InitTerminalInv ==
    ASSUME Init
    PROVE  TerminalInv
  <1>1. Flags
    BY DEF Init, Flags
  <1>2. Values
    BY DEF Init, Values
  <1>3. Idle /\ Noticed /\ Informed /\ Watched
    BY DEF Init, Idle, Noticed, Informed, Watched, Trusted, EvidenceGate
  <1>. QED
    BY <1>1, <1>2, <1>3, TypeParts DEF TerminalInv

\* What is true or false stays so.
LEMMA FlagsStep ==
    ASSUME Flags, [Next]_vars
    PROVE  Flags'
  <1>. USE DEF Flags, adapterVars, brokerVars, deliveryVars, historyVars
  <1>1. ASSUME NEW success \in BOOLEAN, Start(success)
        PROVE  Flags'
    BY <1>1 DEF Start
  <1>2. CASE ShutPackage \/ ClearConnected \/ Exit
    BY <1>2 DEF ShutPackage, ClearConnected, Exit
  <1>3. CASE DropLink \/ RestoreLink
    BY <1>3 DEF DropLink, RestoreLink
  <1>4. ASSUME NEW i \in Items, NEW place \in Places, Trade(i, place)
        PROVE  Flags'
    BY <1>4 DEF Trade
  <1>5. CASE Begin \/ Conclude
    BY <1>5 DEF Begin, Conclude, Reachable
  <1>6. CASE Check
    BY <1>6 DEF Check, NextOperation, ConnectedAfterStatus, Reachable
  <1>7. ASSUME NEW code \in ReadCodes, ReadFails(code)
        PROVE  Flags'
    BY <1>7 DEF ReadFails, NextOperation, Reachable
  <1>8. CASE ReadSucceeds \/ ReadIsNoList
    BY <1>8 DEF ReadSucceeds, ReadIsNoList, NextOperation, Reachable
  <1>9. CASE UNCHANGED vars
    BY <1>9 DEF vars
  <1>. QED
    BY <1>1, <1>2, <1>3, <1>4, <1>5, <1>6, <1>7, <1>8, <1>9 DEF Next

\* So do operations, codes and tables.
LEMMA ValuesStep ==
    ASSUME Flags, Values, [Next]_vars
    PROVE  Values'
  <1>. USE OperationNames DEF Flags, Values, adapterVars, brokerVars,
         deliveryVars, historyVars
  <1>1. ASSUME NEW success \in BOOLEAN, Start(success)
        PROVE  Values'
    BY <1>1 DEF Start
  <1>2. CASE ShutPackage \/ ClearConnected
    BY <1>2 DEF ShutPackage, ClearConnected
  <1>3. CASE Exit
    BY <1>3 DEF Exit
  <1>4. CASE DropLink \/ RestoreLink
    BY <1>4 DEF DropLink, RestoreLink
  <1>5. ASSUME NEW i \in Items, NEW place \in Places, Trade(i, place)
        PROVE  Values'
    BY <1>5 DEF Trade
  <1>6. CASE Begin
    BY <1>6 DEF Begin
  <1>7. CASE Check
    BY <1>7, StatusKinds DEF Check, NextOperation, First
  <1>8. ASSUME NEW code \in ReadCodes, ReadFails(code)
        PROVE  Values'
    BY <1>8 DEF ReadFails, NextOperation, First
  <1>9. CASE ReadSucceeds
    BY <1>9 DEF ReadSucceeds, NextOperation, First, Exposures
  <1>10. CASE ReadIsNoList
    BY <1>10 DEF ReadIsNoList, NextOperation, First, Exposures
  <1>11. CASE Conclude
    BY <1>11 DEF Conclude, First
  <1>12. CASE UNCHANGED vars
    BY <1>12 DEF vars
  <1>. QED
    BY <1>1, <1>2, <1>3, <1>4, <1>5, <1>6, <1>7, <1>8, <1>9, <1>10, <1>11, <1>12 DEF Next

-----------------------------------------------------------------------------
\* Start, Exit and Begin keep server, session and delivery apart.
LEMMA IdleStep ==
    ASSUME Flags, Values, Idle, [Next]_vars
    PROVE  Idle'
  <1>. USE DEF Flags, Values, Idle, adapterVars, brokerVars, deliveryVars, historyVars
  <1>1. ASSUME NEW success \in BOOLEAN, Start(success)
        PROVE  Idle'
    BY <1>1 DEF Start
  <1>2. CASE ShutPackage \/ ClearConnected
    BY <1>2 DEF ShutPackage, ClearConnected
  <1>3. CASE Exit
    BY <1>3 DEF Exit
  <1>4. CASE DropLink \/ RestoreLink
    BY <1>4 DEF DropLink, RestoreLink
  <1>5. ASSUME NEW i \in Items, NEW place \in Places, Trade(i, place)
        PROVE  Idle'
    BY <1>5 DEF Trade
  <1>6. CASE Begin
    BY <1>6 DEF Begin
  <1>7. CASE Check
    BY <1>7 DEF Check, NextOperation
  <1>8. ASSUME NEW code \in ReadCodes, ReadFails(code)
        PROVE  Idle'
    BY <1>8 DEF ReadFails, NextOperation, First, Reachable, ReadCodes
  <1>9. CASE ReadSucceeds \/ ReadIsNoList
    BY <1>9 DEF ReadSucceeds, ReadIsNoList, NextOperation
  <1>10. CASE Conclude
    BY <1>10 DEF Conclude
  <1>11. CASE UNCHANGED vars
    BY <1>11 DEF vars
  <1>. QED
    BY <1>1, <1>2, <1>3, <1>4, <1>5, <1>6, <1>7, <1>8, <1>9, <1>10, <1>11 DEF Next

\* Only an operation whose check or read fails may end without the terminal.
LEMMA NoticedStep ==
    ASSUME Flags, Values, Idle, Noticed, [Next]_vars
    PROVE  Noticed'
  <1>. USE DEF Flags, Values, Idle, Noticed, Reachable, Trusted, adapterVars,
         brokerVars, deliveryVars, historyVars
  <1>1. ASSUME NEW success \in BOOLEAN, Start(success)
        PROVE  Noticed'
    BY <1>1 DEF Start
  <1>2. CASE ShutPackage \/ ClearConnected
    BY <1>2 DEF ShutPackage, ClearConnected
  <1>3. CASE Exit
    BY <1>3 DEF Exit, EvidenceGate
  <1>4. CASE DropLink \/ RestoreLink
    BY <1>4 DEF DropLink, RestoreLink
  <1>5. ASSUME NEW i \in Items, NEW place \in Places, Trade(i, place)
        PROVE  Noticed'
    BY <1>5 DEF Trade
  <1>6. CASE Begin
    BY <1>6 DEF Begin
  <1>7. CASE Check
    BY <1>7, StatusKinds DEF Check, NextOperation, First, StatusCodes, EvidenceGate
  <1>8. ASSUME NEW code \in ReadCodes, ReadFails(code)
        PROVE  Noticed'
    BY <1>8 DEF ReadFails, NextOperation, First, Reachable, ReadCodes
  <1>9. CASE ReadSucceeds \/ ReadIsNoList
    BY <1>9 DEF ReadSucceeds, ReadIsNoList, NextOperation
  <1>10. CASE Conclude
    BY <1>10 DEF Conclude, First, EvidenceGate, StatusCodes, ReadCodes, Exposures
  <1>11. CASE UNCHANGED vars
    BY <1>11 DEF vars
  <1>. QED
    BY <1>1, <1>2, <1>3, <1>4, <1>5, <1>6, <1>7, <1>8, <1>9, <1>10, <1>11 DEF Next

\* The link brings the terminal up to date, and nothing else changes what it knows.
LEMMA InformedStep ==
    ASSUME Flags, Values, Informed, [Next]_vars
    PROVE  Informed'
  <1>. USE DEF Flags, Values, Informed, adapterVars, brokerVars, deliveryVars, historyVars
  <1>1. ASSUME NEW success \in BOOLEAN, Start(success)
        PROVE  Informed'
    BY <1>1 DEF Start
  <1>2. CASE ShutPackage \/ ClearConnected
    BY <1>2 DEF ShutPackage, ClearConnected
  <1>3. CASE Exit
    BY <1>3 DEF Exit
  <1>4. CASE DropLink \/ RestoreLink
    BY <1>4 DEF DropLink, RestoreLink
  <1>5. ASSUME NEW i \in Items, NEW place \in Places, Trade(i, place)
        PROVE  Informed'
    BY <1>5 DEF Trade
  <1>6. CASE Begin
    BY <1>6 DEF Begin
  <1>7. CASE Check
    BY <1>7, StatusKinds DEF Check, NextOperation, Reachable
  <1>8. ASSUME NEW code \in ReadCodes, ReadFails(code)
        PROVE  Informed'
    BY <1>8 DEF ReadFails, NextOperation, First, Reachable, ReadCodes
  <1>9. CASE ReadSucceeds \/ ReadIsNoList
    BY <1>9 DEF ReadSucceeds, ReadIsNoList, NextOperation
  <1>10. CASE Conclude
    BY <1>10 DEF Conclude
  <1>11. CASE UNCHANGED vars
    BY <1>11 DEF vars
  <1>. QED
    BY <1>1, <1>2, <1>3, <1>4, <1>5, <1>6, <1>7, <1>8, <1>9, <1>10, <1>11 DEF Next

\* A read that succeeds shows every item of its table that stays.
LEMMA WatchedStep ==
    ASSUME Flags, Values, Idle, Informed, Watched, [Next]_vars
    PROVE  Watched'
  <1>. USE OperationNames DEF Flags, Values, Idle, Informed, Watched, Trusted,
         adapterVars, brokerVars, deliveryVars, historyVars
  <1>1. ASSUME NEW success \in BOOLEAN, Start(success)
        PROVE  Watched'
    BY <1>1 DEF Start
  <1>2. CASE ShutPackage \/ ClearConnected
    BY <1>2 DEF ShutPackage, ClearConnected
  <1>3. CASE Exit
    BY <1>3 DEF Exit, EvidenceGate
  <1>4. CASE DropLink \/ RestoreLink
    BY <1>4 DEF DropLink, RestoreLink
  <1>5. ASSUME NEW i \in Items, NEW place \in Places, Trade(i, place)
        PROVE  Watched'
    BY <1>5 DEF Trade
  <1>6. CASE Begin
    BY <1>6 DEF Begin, Places
  <1>7. CASE Check
    BY <1>7, StatusKinds DEF Check, NextOperation, First, StatusCodes, EvidenceGate
  <1>8. ASSUME NEW code \in ReadCodes, ReadFails(code)
        PROVE  Watched'
    BY <1>8 DEF ReadFails, NextOperation, First, Reachable, ReadCodes
  <1>9. CASE ReadSucceeds
    BY <1>9 DEF ReadSucceeds, NextOperation, First, Shown
  <1>10. CASE ReadIsNoList
    BY <1>10 DEF ReadIsNoList, NextOperation, First
  <1>11. CASE Conclude
    BY <1>11 DEF Conclude, First, EvidenceGate, StatusCodes, ReadCodes, Exposures
  <1>12. CASE UNCHANGED vars
    BY <1>12 DEF vars
  <1>. QED
    BY <1>1, <1>2, <1>3, <1>4, <1>5, <1>6, <1>7, <1>8, <1>9, <1>10, <1>11, <1>12 DEF Next

-----------------------------------------------------------------------------
\* TerminalInv is inductive.
LEMMA TerminalInvHolds == Spec => []TerminalInv
  <1>1. Init => TerminalInv
    BY InitTerminalInv
  <1>2. TerminalInv /\ [Next]_vars => TerminalInv'
    <2>. SUFFICES ASSUME TerminalInv, [Next]_vars
                  PROVE  TerminalInv'
      OBVIOUS
    <2>1. Flags /\ Values /\ Idle /\ Noticed /\ Informed /\ Watched
      BY TypeParts DEF TerminalInv
    <2>2. Flags' /\ Values'
      BY <2>1, FlagsStep, ValuesStep
    <2>3. TypeOK'
      BY <2>2, TypeParts, PTL
    <2>4. Idle' /\ Noticed' /\ Informed' /\ Watched'
      BY <2>1, IdleStep, NoticedStep, InformedStep, WatchedStep
    <2>. QED
      BY <2>3, <2>4 DEF TerminalInv
  <1>. QED
    BY <1>1, <1>2, PTL DEF Spec

(***************************************************************************)
(* The variables of the adapter, the broker and the delivery keep their    *)
(* types: MT5Service (src/engine/mt5.py) and the reads of _ingest          *)
(* (src/engine/bridge.py:57-88).                                           *)
(***************************************************************************)
THEOREM TerminalTypes == Spec => []TypeOK
  <1>1. TerminalInv => TypeOK
    BY DEF TerminalInv
  <1>. QED
    BY <1>1, TerminalInvHolds, PTL

(***************************************************************************)
(* An alert passes the reads only if the terminal was reachable during     *)
(* every one of them: the recheck in MT5Service._call (mt5.py:87-90).      *)
(***************************************************************************)
THEOREM TerminalOutagesNoticed == Spec => []OutagesNoticed
  <1>1. TerminalInv => OutagesNoticed
    BY DEF TerminalInv, Idle, Noticed, OutagesNoticed, Trusted, EvidenceGate
  <1>. QED
    BY <1>1, TerminalInvHolds, PTL

(***************************************************************************)
(* However many orders and positions others have, one that stays as it is  *)
(* during a delivery keeps the alert from the evidence gate                *)
(* (bridge.py:66-74).                                                      *)
(***************************************************************************)
THEOREM TerminalExposureBlocks == Spec => []StillExposureBlocks
  <1>1. TerminalInv => StillExposureBlocks
    BY DEF TerminalInv, Watched, StillExposureBlocks
  <1>. QED
    BY <1>1, TerminalInvHolds, PTL

\* The package is initialized only in a process that runs, and only in one that
\* knows itself connected: start-up sets both, and nothing sets the one later.
Initialized ==
    /\ session = TRUE => enabled = TRUE /\ connected = TRUE
    /\ server # "up" => session = FALSE

\* The delivery has not been refused by a status check so far.
Unrefused == op # 0 => failure \notin StatusCodes

\* A step that does not answer a delivery with the refusal of a status check.
NoNewRefusal == answer' # answer => answer' \notin StatusCodes

LEMMA InitializedHolds == Spec => []Initialized
  <1>1. Init => Initialized
    BY DEF Init, Initialized
  <1>2. TypeOK /\ Initialized /\ [Next]_vars => Initialized'
    <2>. SUFFICES ASSUME TypeOK, Initialized, [Next]_vars
                  PROVE  Initialized'
      OBVIOUS
    <2>1. Flags /\ Values
      BY TypeParts
    <2>. USE <2>1 DEF Flags, Initialized, adapterVars, brokerVars, deliveryVars, historyVars
    <2>2. ASSUME NEW success \in BOOLEAN, Start(success)
          PROVE  Initialized'
      BY <2>2 DEF Start
    <2>3. CASE ShutPackage \/ ClearConnected \/ Exit
      BY <2>3 DEF ShutPackage, ClearConnected, Exit
    <2>4. CASE DropLink \/ RestoreLink
      BY <2>4 DEF DropLink, RestoreLink
    <2>5. ASSUME NEW i \in Items, NEW place \in Places, Trade(i, place)
          PROVE  Initialized'
      BY <2>5 DEF Trade
    <2>6. CASE Begin \/ Conclude
      BY <2>6 DEF Begin, Conclude
    <2>7. CASE Check
      BY <2>7 DEF Check, NextOperation, ConnectedAfterStatus
    <2>8. ASSUME NEW code \in ReadCodes, ReadFails(code)
          PROVE  Initialized'
      BY <2>8 DEF ReadFails, NextOperation
    <2>9. CASE ReadSucceeds \/ ReadIsNoList
      BY <2>9 DEF ReadSucceeds, ReadIsNoList, NextOperation
    <2>10. CASE UNCHANGED vars
      BY <2>10 DEF vars
    <2>. QED
      BY <2>2, <2>3, <2>4, <2>5, <2>6, <2>7, <2>8, <2>9, <2>10 DEF Next
  <1>. QED
    BY <1>1, <1>2, TerminalTypes, PTL DEF Spec

\* With the terminal reachable every status is good.
LEMMA ReachableIsConnected ==
    ASSUME Initialized, Reachable, Flags
    PROVE  Status = "MT5_CONNECTED"
BY DEF Initialized, Reachable, Flags, Status

\* While the terminal is reachable, a delivery that was not refused is not going
\* to be; one that was remains so until it is answered, and none comes after it.
LEMMA ReachableStep ==
    ASSUME TypeOK, Initialized, Reachable, [Next]_vars
    PROVE  /\ Unrefused => Unrefused' /\ NoNewRefusal
           /\ ~Unrefused /\ ~Unrefused' => NoNewRefusal
  <1>1. Flags /\ Values
    BY TypeParts
  <1>2. Status = "MT5_CONNECTED"
    BY <1>1, ReachableIsConnected
  <1>. DEFINE Good == /\ Unrefused => Unrefused' /\ NoNewRefusal
                      /\ ~Unrefused /\ ~Unrefused' => NoNewRefusal
  <1>. USE <1>1 DEF Flags, Values, Unrefused, NoNewRefusal,
         adapterVars, brokerVars, deliveryVars, historyVars
  <1>3. ASSUME NEW success \in BOOLEAN, Start(success)
        PROVE  Good
    BY <1>3 DEF Start
  <1>4. CASE ShutPackage \/ ClearConnected \/ Exit
    BY <1>4 DEF ShutPackage, ClearConnected, Exit
  <1>5. CASE DropLink \/ RestoreLink
    BY <1>5 DEF DropLink, RestoreLink
  <1>6. ASSUME NEW i \in Items, NEW place \in Places, Trade(i, place)
        PROVE  Good
    BY <1>6 DEF Trade
  <1>7. CASE Begin
    BY <1>7 DEF Begin, StatusCodes
  <1>8. CASE Check
    <2>1. op # 0 /\ failure' = failure /\ answer' = answer
      BY <1>2, <1>8, OperationNames DEF Check
    <2>. QED
      BY <2>1
  <1>9. ASSUME NEW code \in ReadCodes, ReadFails(code)
        PROVE  Good
    BY <1>9 DEF ReadFails, NextOperation, First, ReadCodes, StatusCodes
  <1>10. CASE ReadSucceeds \/ ReadIsNoList
    <2>1. checked /\ failure' = failure /\ answer' = answer
      BY <1>10, Zenon DEF ReadSucceeds, ReadIsNoList
    <2>2. op # 0
      BY <2>1
    <2>. QED
      BY <2>1, <2>2
  <1>11. CASE Conclude
    BY <1>11, OperationNames
       DEF Conclude, First, EvidenceGate, StatusCodes, ReadCodes, Exposures
  <1>12. CASE UNCHANGED vars
    BY <1>12 DEF vars
  <1>. QED
    BY <1>3, <1>4, <1>5, <1>6, <1>7, <1>8, <1>9, <1>10, <1>11, <1>12 DEF Next

(***************************************************************************)
(* A terminal that stays reachable ends the refusals, though initialize is *)
(* not called again: status asks the terminal every time (mt5.py:64-75).   *)
(* At most the delivery under way may still be refused.  No fairness is    *)
(* needed: if that delivery is never answered, nobody else is refused.     *)
(***************************************************************************)
THEOREM TerminalOutagesEnd == Spec => OutagesEnd
  <1>1. TypeOK /\ Initialized /\ Reachable /\ Unrefused /\ [Next]_vars => Unrefused'
    BY ReachableStep
  <1>2. TypeOK /\ Initialized /\ Reachable /\ Unrefused /\ [Next]_vars
            => [NoNewRefusal]_vars
    BY ReachableStep
  <1>3. TypeOK /\ Initialized /\ Reachable /\ ~Unrefused /\ ~Unrefused' /\ [Next]_vars
            => [NoNewRefusal]_vars
    BY ReachableStep
  <1>4. OutagesEnd <=> (<>[]Reachable => <>[][NoNewRefusal]_vars)
    BY DEF OutagesEnd, NoNewRefusal
  <1>. QED
    BY <1>1, <1>2, <1>3, <1>4, TerminalTypes, InitializedHolds, PTL DEF Spec


-----------------------------------------------------------------------------
(***************************************************************************)
(* The evidence.  Every value is a rung of its ladder, for ladders and     *)
(* policies of any kind.                                                   *)
(***************************************************************************)
RungsInv ==
    /\ policy \in Policies
    /\ rung \in [Fields -> Nat] /\ \A f \in Fields : rung[f] \in 1 .. Len(Ladder[f])
    /\ stamp \in [StampNames -> Nat \cup {UNKNOWN}]
    /\ now \in Nat

LEMMA LadderTypes ==
    ASSUME NEW f \in Fields
    PROVE  /\ Len(Ladder[f]) \in Nat \ {0}
           /\ \A i \in 1 .. Len(Ladder[f]) :
                 /\ f \in Weighted => Ladder[f][i] \in Percent \cup {UNKNOWN}
                 /\ f \in Conditions => Ladder[f][i] \in {"right", "fixture", "wrong", UNKNOWN}
  <1>1. /\ Ladder[f] # <<>>
        /\ f \in Weighted => Ladder[f] \in Seq(Percent \cup {UNKNOWN})
        /\ f \in Conditions => Ladder[f] \in Seq({"right", "fixture", "wrong", UNKNOWN})
        /\ f \in Weighted \/ f \in Conditions
    BY EvidenceAssumption DEF Fields, Weighted
  <1> DEFINE T == IF f \in Weighted THEN Percent \cup {UNKNOWN}
                  ELSE {"right", "fixture", "wrong", UNKNOWN}
             s == Ladder[f]
  <1>2. s \in Seq(T) /\ s # <<>>
    BY <1>1
  <1>3. f \in Weighted => ~(f \in Conditions)
    BY DEF Weighted, Penalties, Merits, Conditions
  <1>4. (f \in Weighted => T = Percent \cup {UNKNOWN})
        /\ (f \in Conditions => T = {"right", "fixture", "wrong", UNKNOWN})
    BY <1>3
  <1> HIDE DEF T, s
  <1>5. Len(s) \in Nat \ {0} /\ \A i \in 1 .. Len(s) : s[i] \in T
    BY <1>2
  <1> QED
    BY <1>4, <1>5 DEF s

LEMMA ValueTypes ==
    ASSUME RungsInv, NEW f \in Fields
    PROVE  /\ f \in Weighted => Value(f) \in Percent \cup {UNKNOWN}
           /\ f \in Conditions => Value(f) \in {"right", "fixture", "wrong", UNKNOWN}
  BY LadderTypes DEF RungsInv, Value

LEMMA UnknownApart == UNKNOWN \notin Int /\ UNKNOWN # "right" /\ UNKNOWN # "fixture"
  BY EvidenceAssumption

LEMMA PolicyTypes ==
    ASSUME NEW p \in Policies
    PROVE  /\ p.limit \in [Limits -> Percent] /\ p.weight \in [Weighted -> Percent]
           /\ p.min_score \in Int
           /\ p.max_signal_age \in Nat /\ p.max_market_age \in Nat
  <1>1. Validates(p)
    BY EvidenceAssumption
  <1>2. /\ p.limit \in [Limits -> Percent] /\ p.weight \in [Weighted -> Percent]
        /\ p.min_score \in 1 .. 100
        /\ p.max_signal_age \in Nat \ {0} /\ p.max_market_age \in Nat \ {0}
    BY <1>1, Zenon DEF Validates
  <1> QED
    BY <1>2

LEMMA RungsInit == EvidenceInit => RungsInv
  <1> SUFFICES ASSUME EvidenceInit PROVE RungsInv
    OBVIOUS
  <1>1. \A f \in Fields : Len(Ladder[f]) \in Nat \ {0}
    BY LadderTypes
  <1>2. stamp \in [StampNames -> Nat \cup {UNKNOWN}]
    BY EvidenceAssumption DEF EvidenceInit
  <1> QED
    BY <1>1, <1>2 DEF EvidenceInit, RungsInv

LEMMA RungsNext == RungsInv /\ [EvidenceNext]_evidenceVars => RungsInv'
  <1> SUFFICES ASSUME RungsInv, [EvidenceNext]_evidenceVars PROVE RungsInv'
    OBVIOUS
  <1>1. ASSUME NEW f \in Fields, Worsen(f) PROVE RungsInv'
    <2>1. Len(Ladder[f]) \in Nat
      BY LadderTypes
    <2>2. rung' = [rung EXCEPT ![f] = @ + 1] /\ rung[f] < Len(Ladder[f])
          /\ UNCHANGED <<policy, stamp, now>>
      BY <1>1 DEF Worsen
    <2>3. rung' \in [Fields -> Nat]
      BY <2>2 DEF RungsInv
    <2>4. ASSUME NEW g \in Fields PROVE rung'[g] \in 1 .. Len(Ladder[g])
      <3>1. CASE g = f
        BY <2>1, <2>2, <3>1 DEF RungsInv
      <3>2. CASE g # f
        BY <2>2, <3>2 DEF RungsInv
      <3> QED
        BY <3>1, <3>2
    <2> QED
      BY <2>2, <2>3, <2>4 DEF RungsInv
  <1>2. CASE Tick
    BY <1>2 DEF Tick, RungsInv
  <1>3. CASE UNCHANGED evidenceVars
    BY <1>3 DEF evidenceVars, RungsInv
  <1> QED
    BY <1>1, <1>2, <1>3 DEF EvidenceNext

-----------------------------------------------------------------------------
\* The verdict that the validators have on a candidate with something missing.
LEMMA MissingFails == FailClosed
  <1>1. ASSUME NEW f \in Conditions, Value(f) = UNKNOWN PROVE Fault(policy) = "unsound"
    <2>1. f \in {"texts", "symbol", "prices"} => ~SignalSound(policy)
      BY <1>1, UnknownApart DEF SignalSound
    <2>2. f \in {"broker_evidence", "broker_numbers"} => ~BrokerSound
      BY <1>1, UnknownApart DEF BrokerSound
    <2>3. f \in {"costs", "quote_symbol", "session_open", "liquid", "edge_validated", "quote",
                 "conflicting_signals"} => ~MarketSound(policy)
      BY <1>1, UnknownApart DEF MarketSound, ConditionsMet
    <2> QED
      BY <2>1, <2>2, <2>3 DEF Fault, Conditions
  <1>2. ASSUME NEW f \in Weighted, Value(f) = UNKNOWN PROVE Fault(policy) = "unsound"
    <2>1. f = "reward_risk" => ~SignalSound(policy)
      BY <1>2 DEF SignalSound
    <2>2. f = "data_quality" => ~ProviderReliable
      BY <1>2 DEF ProviderReliable
    <2>3. f \in {"technical_score", "regime_score", "macro_score"} => ~MarketSound(policy)
      BY <1>2 DEF MarketSound
    <2>4. f = "execution_quality" \/ f \in Penalties => ~MarketSound(policy)
      BY <1>2 DEF MarketSound, WithinLimits
    <2> QED
      BY <2>1, <2>2, <2>3, <2>4 DEF Fault, Weighted, Merits
  <1>3. ASSUME NEW name \in StampNames, stamp[name] = UNKNOWN PROVE Fault(policy) = "unsound"
    <2>1. name \in {"timestamp", "expires_at"} => ~SignalSound(policy)
      BY <1>3 DEF SignalSound, Fresh
    <2>2. name \in {"market", "context"} => ~MarketSound(policy)
      BY <1>3 DEF MarketSound, Fresh
    <2> QED
      BY <2>1, <2>2 DEF Fault, StampNames
  <1> QED
    BY <1>1, <1>2, <1>3 DEF FailClosed, Fields, Weighted

(***************************************************************************)
(* Whatever is missing of a candidate, in whatever policy, it is unsound.  *)
(***************************************************************************)
THEOREM MissingIsUnsound == EvidenceSpec => []FailClosed
  BY MissingFails, PTL

Missing ==
    \/ \E f \in Fields : Value(f) = UNKNOWN
    \/ \E name \in StampNames : stamp[name] = UNKNOWN

(***************************************************************************)
(* And so it is never traded: the risk engine refuses it with every        *)
(* account, provider and offer there may be, however rich the account and  *)
(* however clean the provider's record.                                    *)
(***************************************************************************)
THEOREM MissingNeverTrades ==
    EvidenceSpec => [](Missing => \A v, p, o : EngineReasons(v, p, o, Fault(policy)) # {})
  <1>1. ASSUME Missing, NEW v, NEW p, NEW o, EngineReasons(v, p, o, Fault(policy)) = {}
        PROVE  FALSE
    <2>1. Fault(policy) = "unsound"
      BY <1>1, MissingFails DEF Missing, FailClosed
    <2>2. Fault(policy) # "unsound"
      BY <1>1, FaultIsRefused
    <2> QED
      BY <2>1, <2>2
  <1>2. Missing => \A v, p, o : EngineReasons(v, p, o, Fault(policy)) # {}
    BY <1>1
  <1> QED
    BY <1>2, PTL

-----------------------------------------------------------------------------
\* Field f is no better after the step than before it.
NoBetter(f) ==
    IF f \in Conditions
    THEN /\ Value(f)' = "right" => Value(f) = "right"
         /\ Value(f)' = "fixture" => Value(f) \in {"right", "fixture"}
    ELSE Value(f)' # UNKNOWN =>
            Value(f) # UNKNOWN
            /\ IF f \in Penalties THEN Value(f) <= Value(f)' ELSE Value(f) >= Value(f)'

LEMMA FieldsWorsen ==
    ASSUME RungsInv, [EvidenceNext]_evidenceVars
    PROVE  /\ \A f \in Fields : NoBetter(f)
           /\ policy' = policy /\ stamp' = stamp /\ now' \in {now, now + 1}
  <1>1. ASSUME NEW f \in Fields, Value(f)' = Value(f) PROVE NoBetter(f)
    <2>1. CASE f \in Conditions
      BY <1>1, <2>1 DEF NoBetter
    <2>2. CASE f \notin Conditions
      <3>1. Value(f) \in Percent \cup {UNKNOWN}
        BY <2>2, ValueTypes DEF Fields, Weighted
      <3> HIDE DEF Value
      <3> QED
        BY <1>1, <2>2, <3>1 DEF NoBetter, Percent
    <2> QED
      BY <2>1, <2>2
  <1>2. ASSUME rung' = rung PROVE \A f \in Fields : NoBetter(f)
    BY <1>1, <1>2 DEF Value
  <1>3. ASSUME NEW g \in Fields, Worsen(g), NEW f \in Fields PROVE NoBetter(f)
    <2>1. rung' = [rung EXCEPT ![g] = @ + 1] /\ rung[g] < Len(Ladder[g])
      BY <1>3 DEF Worsen
    <2>2. CASE f # g
      BY <1>1, <2>1, <2>2 DEF Value, RungsInv
    <2>3. CASE f = g
      <3> DEFINE i == rung[f]
      <3>1. i \in 1 .. Len(Ladder[f]) - 1
        BY <2>1, <2>3, LadderTypes DEF RungsInv
      <3>2. Value(f) = Ladder[f][i] /\ Value(f)' = Ladder[f][i + 1]
        BY <2>1, <2>3 DEF Value, RungsInv
      <3>3. Descends(f)
        BY EvidenceAssumption
      <3> HIDE DEF i
      <3>4. IF f \in Conditions
            THEN /\ Ladder[f][i + 1] = "right" => Ladder[f][i] = "right"
                 /\ Ladder[f][i + 1] = "fixture" => Ladder[f][i] \in {"right", "fixture"}
            ELSE Ladder[f][i + 1] # UNKNOWN =>
                    Ladder[f][i] # UNKNOWN
                    /\ IF f \in Penalties THEN Ladder[f][i] <= Ladder[f][i + 1]
                       ELSE Ladder[f][i] >= Ladder[f][i + 1]
        BY <3>1, <3>3 DEF Descends
      <3> QED
        BY <3>2, <3>4, Zenon DEF NoBetter
    <2> QED
      BY <2>2, <2>3
  <1>4. CASE \E g \in Fields : Worsen(g)
    BY <1>3, <1>4 DEF Worsen
  <1>5. CASE Tick
    BY <1>2, <1>5 DEF Tick
  <1>6. CASE UNCHANGED evidenceVars
    BY <1>2, <1>6 DEF evidenceVars
  <1> QED
    BY <1>4, <1>5, <1>6 DEF EvidenceNext

-----------------------------------------------------------------------------
\* A step, as far as verdicts are concerned.
Ages ==
    /\ RungsInv /\ RungsInv'
    /\ \A f \in Fields : NoBetter(f)
    /\ policy' = policy /\ stamp' = stamp /\ now' \in {now, now + 1}
    /\ NoFuture

LEMMA AgesParts ==
    ASSUME Ages
    PROVE  /\ policy \in Policies /\ policy' = policy
           /\ \A f \in Conditions : Value(f)' = "right" => Value(f) = "right"
           /\ \A f \in Conditions : Value(f)' = "fixture" => Value(f) \in {"right", "fixture"}
           /\ \A f \in Penalties : Value(f)' # UNKNOWN =>
                 /\ Value(f) # UNKNOWN /\ Value(f) \in Percent /\ Value(f)' \in Percent
                 /\ Value(f) <= Value(f)'
           /\ \A f \in Merits : Value(f)' # UNKNOWN =>
                 /\ Value(f) # UNKNOWN /\ Value(f) \in Percent /\ Value(f)' \in Percent
                 /\ Value(f) >= Value(f)'
  <1>1. \A f \in Fields : NoBetter(f)
    BY DEF Ages
  <1>2. /\ \A f \in Conditions : f \in Fields
        /\ \A f \in Penalties : f \in Fields /\ f \notin Conditions /\ f \in Weighted
        /\ \A f \in Merits : f \in Fields /\ f \notin Conditions /\ f \notin Penalties
                             /\ f \in Weighted
    BY DEF Fields, Penalties, Merits, Conditions, Weighted
  <1>3. RungsInv /\ RungsInv'
    BY DEF Ages
  <1>4. \A f \in Fields : f \in Weighted => Value(f) \in Percent \cup {UNKNOWN}
    BY <1>3, ValueTypes
  <1>5. \A f \in Fields : f \in Weighted => Value(f)' \in Percent \cup {UNKNOWN}
    <2> SUFFICES ASSUME NEW f \in Fields, f \in Weighted
                 PROVE  Value(f)' \in Percent \cup {UNKNOWN}
      OBVIOUS
    <2>1. rung'[f] \in 1 .. Len(Ladder[f])
      BY <1>3 DEF RungsInv
    <2> QED
      BY <2>1, LadderTypes DEF Value
  <1>6. policy \in Policies /\ policy' = policy
    BY <1>3 DEF Ages, RungsInv
  <1>7. \A f \in Conditions : /\ Value(f)' = "right" => Value(f) = "right"
                              /\ Value(f)' = "fixture" => Value(f) \in {"right", "fixture"}
    BY <1>1, <1>2 DEF NoBetter
  <1>8. \A f \in Penalties : Value(f)' # UNKNOWN => Value(f) # UNKNOWN /\ Value(f) <= Value(f)'
    BY <1>1, <1>2 DEF NoBetter
  <1>9. \A f \in Merits : Value(f)' # UNKNOWN => Value(f) # UNKNOWN /\ Value(f) >= Value(f)'
    BY <1>1, <1>2 DEF NoBetter
  <1> QED
    BY <1>2, <1>4, <1>5, <1>6, <1>7, <1>8, <1>9

LEMMA FreshAged ==
    ASSUME Ages, NEW name \in StampNames \ {"expires_at"}, NEW seconds \in Nat,
           Fresh(name, seconds)'
    PROVE  Fresh(name, seconds)
  <1>1. /\ stamp'[name] # UNKNOWN /\ now' - stamp'[name] \in 0 .. seconds
        /\ stamp' = stamp /\ now' \in {now, now + 1}
    BY DEF Ages, Fresh
  <1>2. stamp[name] \in Nat \cup {UNKNOWN} /\ now \in Nat
    BY DEF Ages, RungsInv
  <1>3. stamp[name] # UNKNOWN => stamp[name] <= now
    BY DEF Ages, NoFuture
  <1>4. stamp[name] \in Nat /\ stamp[name] <= now
    BY <1>1, <1>2, <1>3
  <1>5. now - stamp[name] \in 0 .. seconds
    BY <1>1, <1>2, <1>4
  <1> QED
    BY <1>1, <1>5 DEF Fresh

LEMMA SoundBefore ==
    ASSUME Ages
    PROVE  /\ SignalSound(policy)' => SignalSound(policy)
           /\ BrokerSound' => BrokerSound
           /\ ProviderReliable' => ProviderReliable
           /\ MarketSound(policy)' => MarketSound(policy)
  <1>1. /\ policy.limit \in [Limits -> Percent] /\ policy.max_signal_age \in Nat
        /\ policy.max_market_age \in Nat /\ policy' = policy
    BY AgesParts, PolicyTypes
  <1>2. /\ "reward_risk" \in Merits /\ "execution_quality" \in Merits /\ "data_quality" \in Merits
        /\ "technical_score" \in Merits /\ "regime_score" \in Merits /\ "macro_score" \in Merits
        /\ \A f \in Penalties \cup {"reward_risk", "execution_quality"} : f \in Limits
    BY DEF Merits, Penalties, Limits
  <1>3. /\ stamp' = stamp /\ now \in Nat /\ now' \in {now, now + 1}
        /\ \A name \in StampNames : stamp[name] \in Nat \cup {UNKNOWN}
    BY DEF Ages, RungsInv
  <1>4. ASSUME SignalSound(policy)' PROVE SignalSound(policy)
    <2>1. /\ Value("texts")' = "right" /\ Value("symbol")' = "right" /\ Value("prices")' = "right"
          /\ Fresh("timestamp", policy.max_signal_age)'
          /\ stamp["expires_at"] # UNKNOWN
          /\ stamp["expires_at"] > now' /\ stamp["expires_at"] > stamp["timestamp"]
          /\ Value("reward_risk")' # UNKNOWN
          /\ Value("reward_risk")' >= policy.limit["reward_risk"]
      BY <1>1, <1>3, <1>4 DEF SignalSound
    <2>2. "texts" \in Conditions /\ "symbol" \in Conditions /\ "prices" \in Conditions
      BY DEF Conditions
    <2>3. Value("texts") = "right" /\ Value("symbol") = "right" /\ Value("prices") = "right"
      BY <2>1, <2>2, AgesParts
    <2>4. Fresh("timestamp", policy.max_signal_age)
      <3>1. "timestamp" \in StampNames \ {"expires_at"}
        BY DEF StampNames
      <3> QED
        BY <1>1, <2>1, <3>1, FreshAged
    <2>5. stamp["expires_at"] > now
      <3>1. "expires_at" \in StampNames
        BY DEF StampNames
      <3> QED
        BY <1>3, <2>1, <3>1
    <2>6. /\ Value("reward_risk") # UNKNOWN /\ Value("reward_risk") \in Percent
          /\ Value("reward_risk")' \in Percent /\ Value("reward_risk") >= Value("reward_risk")'
      BY <1>2, <2>1, AgesParts
    <2>7. policy.limit["reward_risk"] \in Percent
      BY <1>1, <1>2
    <2>8. Value("reward_risk") >= policy.limit["reward_risk"]
      BY <2>1, <2>6, <2>7 DEF Percent
    <2> QED
      BY <2>1, <2>3, <2>4, <2>5, <2>6, <2>8 DEF SignalSound
  <1>5. BrokerSound' => BrokerSound
    <2>1. "broker_evidence" \in Conditions /\ "broker_numbers" \in Conditions
      BY DEF Conditions
    <2> QED
      BY <2>1, AgesParts DEF BrokerSound
  <1>6. ProviderReliable' => ProviderReliable
    <2>1. ASSUME ProviderReliable' PROVE ProviderReliable
      <3>1. Value("data_quality")' # UNKNOWN /\ Value("data_quality")' >= 70
        BY <2>1 DEF ProviderReliable
      <3>2. /\ Value("data_quality") # UNKNOWN /\ Value("data_quality") \in Percent
            /\ Value("data_quality")' \in Percent
            /\ Value("data_quality") >= Value("data_quality")'
        BY <1>2, <3>1, AgesParts
      <3> QED
        BY <3>1, <3>2 DEF ProviderReliable, Percent
    <2> QED
      BY <2>1
  <1>7. ASSUME MarketSound(policy)' PROVE MarketSound(policy)
    <2>1. /\ Fresh("market", policy.max_market_age)' /\ Fresh("context", policy.max_signal_age)'
          /\ \A f \in {"technical_score", "regime_score", "macro_score"} : Value(f)' # UNKNOWN
          /\ ConditionsMet' /\ WithinLimits(policy)'
      BY <1>7 DEF MarketSound
    <2>2. Fresh("market", policy.max_market_age) /\ Fresh("context", policy.max_signal_age)
      <3>1. /\ "market" \in StampNames \ {"expires_at"}
            /\ "context" \in StampNames \ {"expires_at"}
        BY DEF StampNames
      <3> QED
        BY <1>1, <2>1, <3>1, FreshAged
    <2>3. \A f \in {"technical_score", "regime_score", "macro_score"} : Value(f) # UNKNOWN
      BY <1>2, <2>1, AgesParts
    <2>4. ConditionsMet
      <3>1. {"costs", "quote_symbol", "session_open", "liquid", "edge_validated", "quote",
             "conflicting_signals"} \subseteq Conditions
        BY DEF Conditions
      <3> QED
        BY <2>1, <3>1, AgesParts DEF ConditionsMet
    <2>5. \A f \in Penalties : Value(f) # UNKNOWN /\ Value(f) <= policy.limit[f]
      <3> SUFFICES ASSUME NEW f \in Penalties
                   PROVE  Value(f) # UNKNOWN /\ Value(f) <= policy.limit[f]
        OBVIOUS
      <3>1. Value(f)' # UNKNOWN /\ Value(f)' <= policy.limit[f]
        BY <1>1, <2>1 DEF WithinLimits
      <3>2. /\ Value(f) # UNKNOWN /\ Value(f) \in Percent /\ Value(f)' \in Percent
            /\ Value(f) <= Value(f)'
        BY <3>1, AgesParts
      <3>3. policy.limit[f] \in Percent
        BY <1>1, <1>2
      <3> DEFINE before == Value(f)
                 after == Value(f)'
                 limit == policy.limit[f]
      <3>4. before \in Int /\ after \in Int /\ limit \in Int /\ before <= after /\ after <= limit
        BY <3>1, <3>2, <3>3 DEF Percent
      <3> HIDE DEF before, after, limit
      <3>5. before <= limit
        BY <3>4
      <3> QED
        BY <3>2, <3>5 DEF before, limit
    <2>6. Value("execution_quality") # UNKNOWN
          /\ Value("execution_quality") >= policy.limit["execution_quality"]
      <3>1. Value("execution_quality")' # UNKNOWN
            /\ Value("execution_quality")' >= policy.limit["execution_quality"]
        BY <1>1, <2>1 DEF WithinLimits
      <3>2. /\ Value("execution_quality") # UNKNOWN /\ Value("execution_quality") \in Percent
            /\ Value("execution_quality")' \in Percent
            /\ Value("execution_quality") >= Value("execution_quality")'
        BY <1>2, <3>1, AgesParts
      <3>3. policy.limit["execution_quality"] \in Percent
        BY <1>1, <1>2
      <3> DEFINE before == Value("execution_quality")
                 after == Value("execution_quality")'
                 limit == policy.limit["execution_quality"]
      <3>4. before \in Int /\ after \in Int /\ limit \in Int /\ before >= after /\ after >= limit
        BY <3>1, <3>2, <3>3 DEF Percent
      <3> HIDE DEF before, after, limit
      <3>5. before >= limit
        BY <3>4
      <3> QED
        BY <3>2, <3>5 DEF before, limit
    <2> QED
      BY <2>2, <2>3, <2>4, <2>5, <2>6 DEF MarketSound, WithinLimits
  <1> QED
    BY <1>4, <1>5, <1>6, <1>7

\* The numbers of a candidate that is sound after the step are known then.
LEMMA SoundIsKnown ==
    ASSUME SignalSound(policy)', ProviderReliable', MarketSound(policy)', NEW f \in Weighted
    PROVE  Value(f)' # UNKNOWN
  <1>1. /\ Value("reward_risk")' # UNKNOWN /\ Value("data_quality")' # UNKNOWN
        /\ \A g \in {"technical_score", "regime_score", "macro_score"} : Value(g)' # UNKNOWN
        /\ Value("execution_quality")' # UNKNOWN
        /\ \A g \in Penalties : Value(g)' # UNKNOWN
    BY DEF SignalSound, ProviderReliable, MarketSound, WithinLimits
  <1> QED
    BY <1>1 DEF Weighted, Merits

LEMMA WeightedFinite == IsFiniteSet(Penalties) /\ IsFiniteSet(Merits)
  <1>1. \A S, x : IsFiniteSet(S) => IsFiniteSet(S \cup {x})
    BY FS_AddElement
  <1>2. IsFiniteSet({})
    BY FS_EmptySet
  <1>3. IsFiniteSet((({} \cup {"news_risk"}) \cup {"correlation"}) \cup {"volatility"})
    BY <1>1, <1>2, Zenon
  <1>4. IsFiniteSet((({} \cup {"technical_score"}) \cup {"regime_score"}) \cup {"macro_score"})
    BY <1>1, <1>2, Zenon
  <1> DEFINE P == (({} \cup {"news_risk"}) \cup {"correlation"}) \cup {"volatility"}
             M == (({} \cup {"technical_score"}) \cup {"regime_score"}) \cup {"macro_score"}
  <1>5. /\ Penalties = P \cup {"spread_pips"}
        /\ Merits = ((M \cup {"execution_quality"}) \cup {"data_quality"}) \cup {"reward_risk"}
    BY DEF Penalties, Merits
  <1> HIDE DEF P, M
  <1>6. /\ IsFiniteSet(P \cup {"spread_pips"})
        /\ IsFiniteSet(((M \cup {"execution_quality"}) \cup {"data_quality"}) \cup {"reward_risk"})
    BY <1>1, <1>3, <1>4, Zenon DEF P, M
  <1> QED
    BY <1>5, <1>6

\* What the sums of two candidates compare, one value at a time.
LEMMA SumsCompare ==
    ASSUME NEW S, IsFiniteSet(S), NEW w, NEW x, NEW y,
           \A f \in S : w[f] \in Percent /\ x[f] \in Percent /\ y[f] \in Percent /\ x[f] <= y[f]
    PROVE  /\ SumFunction([f \in S |-> w[f] * x[f]]) <= SumFunction([f \in S |-> w[f] * y[f]])
           /\ SumFunction([f \in S |-> w[f] * x[f]]) \in Int
           /\ SumFunction([f \in S |-> w[f] * y[f]]) \in Int
  <1> DEFINE a == [f \in S |-> w[f] * x[f]]
             b == [f \in S |-> w[f] * y[f]]
  <1>1. ASSUME NEW f \in S PROVE a[f] \in Int /\ b[f] \in Int /\ a[f] <= b[f]
    <2>1. w[f] \in Nat /\ x[f] \in Nat /\ y[f] \in Nat /\ x[f] <= y[f]
      BY DEF Percent
    <2> DEFINE u == w[f]  v == x[f]  z == y[f]
    <2>2. a[f] = u * v /\ b[f] = u * z
      OBVIOUS
    <2> HIDE DEF u, v, z, a, b
    <2>3. v * u <= z * u /\ u * v = v * u /\ u * z = z * u /\ u * v \in Int /\ u * z \in Int
      BY <2>1, ProductMonotone DEF u, v, z
    <2> QED
      BY <2>2, <2>3
  <1>2. a \in [S -> Int] /\ b \in [S -> Int]
    <2>1. a = [f \in S |-> a[f]] /\ b = [f \in S |-> b[f]]
      OBVIOUS
    <2> HIDE DEF a, b
    <2> QED
      BY <1>1, <2>1
  <1> HIDE DEF a, b
  <1>3. SumFunction(a) <= SumFunction(b) /\ SumFunction(a) \in Int /\ SumFunction(b) \in Int
    BY <1>1, <1>2, WholeSumMonotone
  <1> QED
    BY <1>3 DEF a, b

LEMMA ScoreFalls ==
    ASSUME Ages, \A f \in Weighted : Value(f)' # UNKNOWN
    PROVE  /\ Score(policy)' <= Score(policy)
           /\ Score(policy)' \in Int /\ Score(policy) \in Int
  <1> DEFINE w == policy.weight
             x == [f \in Weighted |-> Value(f)]
             y == [f \in Weighted |-> Value(f)']
  <1>1. w \in [Weighted -> Percent] /\ policy' = policy
    BY AgesParts, PolicyTypes
  <1>2. /\ \A f \in Penalties : f \in Weighted /\ x[f] = Value(f) /\ y[f] = Value(f)'
        /\ \A f \in Merits : f \in Weighted /\ x[f] = Value(f) /\ y[f] = Value(f)'
    BY DEF Weighted
  <1>3. /\ \A f \in Penalties : x[f] \in Percent /\ y[f] \in Percent /\ x[f] <= y[f]
        /\ \A f \in Merits : x[f] \in Percent /\ y[f] \in Percent /\ y[f] <= x[f]
    <2>1. /\ \A f \in Penalties :
                Value(f) \in Percent /\ Value(f)' \in Percent /\ Value(f) <= Value(f)'
          /\ \A f \in Merits :
                Value(f) \in Percent /\ Value(f)' \in Percent /\ Value(f)' <= Value(f)
      BY <1>2, AgesParts DEF Percent
    <2> QED
      BY <1>2, <2>1
  <1>4. /\ WeightedSum(policy, Merits) = SumFunction([f \in Merits |-> w[f] * x[f]])
        /\ WeightedSum(policy, Penalties) = SumFunction([f \in Penalties |-> w[f] * x[f]])
    BY <1>2 DEF WeightedSum
  <1>5. /\ WeightedSum(policy, Merits)' = SumFunction([f \in Merits |-> w[f] * y[f]])
        /\ WeightedSum(policy, Penalties)' = SumFunction([f \in Penalties |-> w[f] * y[f]])
    BY <1>1, <1>2 DEF WeightedSum
  <1>6. \A f \in Weighted : w[f] \in Percent
    BY <1>1
  <1> HIDE DEF w, x, y
  <1>7. /\ SumFunction([f \in Merits |-> w[f] * y[f]]) <= SumFunction([f \in Merits |-> w[f] * x[f]])
        /\ SumFunction([f \in Merits |-> w[f] * x[f]]) \in Int
        /\ SumFunction([f \in Merits |-> w[f] * y[f]]) \in Int
    BY <1>2, <1>3, <1>6, WeightedFinite, SumsCompare
  <1>8. /\ SumFunction([f \in Penalties |-> w[f] * x[f]])
              <= SumFunction([f \in Penalties |-> w[f] * y[f]])
        /\ SumFunction([f \in Penalties |-> w[f] * x[f]]) \in Int
        /\ SumFunction([f \in Penalties |-> w[f] * y[f]]) \in Int
    BY <1>2, <1>3, <1>6, WeightedFinite, SumsCompare
  <1> QED
    BY <1>4, <1>5, <1>7, <1>8 DEF Score

(***************************************************************************)
(* A candidate that loses evidence, or grows older, is judged no better,   *)
(* under every policy and on all ladders that go down: a refusal at the    *)
(* preview is never turned into an approval by what gets worse until the   *)
(* evaluation.                                                             *)
(***************************************************************************)
THEOREM WorseIsNeverBetter == EvidenceSpec => NeverImproves
  <1>1. ASSUME Ages PROVE Rank(Fault(policy)') <= Rank(Fault(policy))
    <2> DEFINE Sound == SignalSound(policy) /\ BrokerSound /\ ProviderReliable
                        /\ MarketSound(policy)
               least == 100 * policy.min_score
    <2>1. Sound' => Sound
      BY <1>1, SoundBefore
    <2>2. /\ Fault(policy) = IF ~Sound THEN "unsound"
                             ELSE IF Score(policy) < least THEN "weak" ELSE "none"
          /\ Fault(policy)' = IF ~Sound' THEN "unsound"
                              ELSE IF Score(policy)' < least' THEN "weak" ELSE "none"
      BY DEF Fault
    <2>3. least \in Int /\ least' = least
      BY <1>1, AgesParts, PolicyTypes
    <2>4. ASSUME Sound'
          PROVE  /\ Score(policy)' <= Score(policy)
                 /\ Score(policy)' \in Int /\ Score(policy) \in Int
      <3>1. \A f \in Weighted : Value(f)' # UNKNOWN
        BY <2>4, SoundIsKnown
      <3> QED
        BY <1>1, <3>1, ScoreFalls
    <2>5. Rank("none") = 2 /\ Rank("weak") = 1 /\ Rank("unsound") = 0
      BY DEF Rank
    <2> HIDE DEF Sound, least
    <2>6. CASE ~Sound'
      <3>1. Fault(policy)' = "unsound" /\ Fault(policy) \in {"unsound", "weak", "none"}
        BY <2>2, <2>6
      <3> QED
        BY <2>5, <3>1
    <2>7. CASE Sound'
      BY <2>1, <2>2, <2>3, <2>4, <2>5, <2>7
    <2> QED
      BY <2>6, <2>7
  <1>2. RungsInv /\ RungsInv' /\ [EvidenceNext]_evidenceVars
          => [NoFuture => Rank(Fault(policy)') <= Rank(Fault(policy))]_evidenceVars
    BY <1>1, FieldsWorsen DEF Ages
  <1> QED
    BY <1>2, RungsInit, RungsNext, PTL DEF EvidenceSpec, NeverImproves

-----------------------------------------------------------------------------
(***************************************************************************)
(* What Policy.validate would have to compare with the shipped limits for  *)
(* the promise of domain.py, line 99, to hold: every limit, either age and *)
(* the least score.  The weights of the merits sum to one in every policy, *)
(* so that a tighter policy has the shipped ones; those of the penalties   *)
(* may grow.                                                               *)
(***************************************************************************)
Tightens(p) ==
    /\ \A f \in Penalties : p.limit[f] <= Shipped.limit[f]
    /\ \A f \in Limits \ Penalties : p.limit[f] >= Shipped.limit[f]
    /\ p.max_signal_age <= Shipped.max_signal_age
    /\ p.max_market_age <= Shipped.max_market_age
    /\ p.min_score >= Shipped.min_score
    /\ \A f \in Merits : p.weight[f] = Shipped.weight[f]
    /\ \A f \in Penalties : p.weight[f] >= Shipped.weight[f]

\* A longer age admits what a shorter one does.
LEMMA FreshForLonger ==
    ASSUME RungsInv, NEW name \in StampNames, NEW short \in Nat, NEW long \in Nat,
           short <= long, Fresh(name, short)
    PROVE  Fresh(name, long)
  <1> DEFINE age == now - stamp[name]
  <1>1. stamp[name] # UNKNOWN /\ age \in 0 .. short
    BY DEF Fresh
  <1> HIDE DEF age
  <1>2. age \in 0 .. long
    BY <1>1
  <1> QED
    BY <1>1, <1>2 DEF Fresh, age

\* What the validators accept under tighter limits they accept under the shipped ones.
LEMMA SoundUnderShipped ==
    ASSUME RungsInv, Tightens(policy)
    PROVE  /\ SignalSound(policy) => SignalSound(Shipped)
           /\ MarketSound(policy) => MarketSound(Shipped)
  <1>1. /\ policy.limit \in [Limits -> Percent] /\ Shipped.limit \in [Limits -> Percent]
        /\ policy.max_signal_age \in Nat /\ policy.max_market_age \in Nat
        /\ Shipped.max_signal_age \in Nat /\ Shipped.max_market_age \in Nat
    BY PolicyTypes, EvidenceAssumption DEF RungsInv
  <1>2. /\ policy.max_signal_age <= Shipped.max_signal_age
        /\ policy.max_market_age <= Shipped.max_market_age
        /\ \A f \in Penalties : f \in Limits /\ policy.limit[f] <= Shipped.limit[f]
        /\ \A f \in {"execution_quality", "reward_risk"} :
              f \in Limits /\ policy.limit[f] >= Shipped.limit[f]
    BY DEF Tightens, Limits, Penalties
  <1>3. \A f \in Weighted : Value(f) # UNKNOWN => Value(f) \in Percent
    BY ValueTypes DEF Fields, Weighted
  <1>4. /\ \A f \in Penalties : f \in Weighted
        /\ "execution_quality" \in Weighted /\ "reward_risk" \in Weighted
        /\ "timestamp" \in StampNames /\ "market" \in StampNames /\ "context" \in StampNames
    BY DEF Weighted, Merits, StampNames
  <1>5. ASSUME NEW f \in {"execution_quality", "reward_risk"},
               Value(f) # UNKNOWN, Value(f) >= policy.limit[f]
        PROVE  Value(f) >= Shipped.limit[f]
    <2> DEFINE value == Value(f)
               tight == policy.limit[f]
               loose == Shipped.limit[f]
    <2>1. value \in Int /\ tight \in Int /\ loose \in Int
      BY <1>1, <1>2, <1>3, <1>4, <1>5 DEF Percent
    <2>2. value >= tight /\ tight >= loose
      BY <1>2, <1>5
    <2> HIDE DEF value, tight, loose
    <2>3. value >= loose
      BY <2>1, <2>2
    <2> QED
      BY <2>3 DEF value, loose
  <1>6. ASSUME NEW f \in Penalties, Value(f) # UNKNOWN, Value(f) <= policy.limit[f]
        PROVE  Value(f) <= Shipped.limit[f]
    <2> DEFINE value == Value(f)
               tight == policy.limit[f]
               loose == Shipped.limit[f]
    <2>1. value \in Int /\ tight \in Int /\ loose \in Int
      BY <1>1, <1>2, <1>3, <1>4, <1>6 DEF Percent
    <2>2. value <= tight /\ tight <= loose
      BY <1>2, <1>6
    <2> HIDE DEF value, tight, loose
    <2>3. value <= loose
      BY <2>1, <2>2
    <2> QED
      BY <2>3 DEF value, loose
  <1>7. ASSUME SignalSound(policy) PROVE SignalSound(Shipped)
    <2>1. Fresh("timestamp", policy.max_signal_age) /\ Value("reward_risk") # UNKNOWN
          /\ Value("reward_risk") >= policy.limit["reward_risk"]
      BY <1>7 DEF SignalSound
    <2>2. Fresh("timestamp", Shipped.max_signal_age)
      BY <1>1, <1>2, <1>4, <2>1, FreshForLonger
    <2>3. Value("reward_risk") >= Shipped.limit["reward_risk"]
      BY <1>5, <2>1
    <2> QED
      BY <1>7, <2>2, <2>3, Zenon DEF SignalSound
  <1>8. ASSUME MarketSound(policy) PROVE MarketSound(Shipped)
    <2>1. Fresh("market", policy.max_market_age) /\ Fresh("context", policy.max_signal_age)
          /\ WithinLimits(policy)
      BY <1>8 DEF MarketSound
    <2>2. Fresh("market", Shipped.max_market_age) /\ Fresh("context", Shipped.max_signal_age)
      BY <1>1, <1>2, <1>4, <2>1, FreshForLonger
    <2>3. WithinLimits(Shipped)
      BY <1>5, <1>6, <2>1 DEF WithinLimits
    <2> QED
      BY <1>8, <2>2, <2>3, Zenon DEF MarketSound
  <1> QED
    BY <1>7, <1>8

\* Heavier penalties take more from the score of a candidate of which all is known.
LEMMA ScoreUnderShipped ==
    ASSUME RungsInv, Tightens(policy), \A f \in Weighted : Value(f) # UNKNOWN
    PROVE  /\ Score(policy) <= Score(Shipped)
           /\ Score(policy) \in Int /\ Score(Shipped) \in Int
  <1> DEFINE v == [f \in Weighted |-> Value(f)]
             light == Shipped.weight
             heavy == policy.weight
  <1>1. light \in [Weighted -> Percent] /\ heavy \in [Weighted -> Percent]
    BY PolicyTypes, EvidenceAssumption DEF RungsInv
  <1>2. /\ \A f \in Merits : f \in Weighted /\ light[f] = heavy[f]
        /\ \A f \in Penalties : f \in Weighted /\ light[f] <= heavy[f]
    <2>1. /\ \A f \in Merits : f \in Weighted /\ light[f] = heavy[f]
          /\ \A f \in Penalties : f \in Weighted /\ heavy[f] >= light[f]
      BY DEF Tightens, Weighted
    <2>2. \A f \in Penalties : light[f] \in Int /\ heavy[f] \in Int
      BY <1>1, <2>1 DEF Percent
    <2> HIDE DEF light, heavy
    <2> QED
      BY <2>1, <2>2
  <1>3. \A f \in Weighted : v[f] = Value(f) /\ v[f] \in Percent
    BY ValueTypes DEF Fields, Weighted
  <1>4. /\ WeightedSum(policy, Merits) = SumFunction([f \in Merits |-> heavy[f] * v[f]])
        /\ WeightedSum(policy, Penalties) = SumFunction([f \in Penalties |-> heavy[f] * v[f]])
        /\ WeightedSum(Shipped, Merits) = SumFunction([f \in Merits |-> light[f] * v[f]])
        /\ WeightedSum(Shipped, Penalties) = SumFunction([f \in Penalties |-> light[f] * v[f]])
    BY <1>2, <1>3 DEF WeightedSum
  <1> HIDE DEF v, light, heavy
  <1>5. /\ \A f \in Weighted : v[f] \in Int /\ light[f] \in Int /\ heavy[f] \in Int
        /\ \A f \in Merits : v[f] <= v[f]
    BY <1>1, <1>2, <1>3 DEF Percent
  <1>6. /\ [f \in Penalties |-> heavy[f] * v[f]] = [f \in Penalties |-> v[f] * heavy[f]]
        /\ [f \in Penalties |-> light[f] * v[f]] = [f \in Penalties |-> v[f] * light[f]]
    BY <1>2, <1>5
  <1>7. /\ SumFunction([f \in Penalties |-> v[f] * light[f]])
              <= SumFunction([f \in Penalties |-> v[f] * heavy[f]])
        /\ SumFunction([f \in Penalties |-> v[f] * light[f]]) \in Int
        /\ SumFunction([f \in Penalties |-> v[f] * heavy[f]]) \in Int
    <2>1. \A f \in Penalties : /\ v[f] \in Percent /\ light[f] \in Percent
                               /\ heavy[f] \in Percent /\ light[f] <= heavy[f]
      BY <1>1, <1>2, <1>3
    <2> QED
      BY <2>1, WeightedFinite, SumsCompare
  <1>8. SumFunction([f \in Merits |-> light[f] * v[f]]) \in Int
    BY <1>1, <1>2, <1>3, <1>5, WeightedFinite, SumsCompare
  <1>9. [f \in Merits |-> heavy[f] * v[f]] = [f \in Merits |-> light[f] * v[f]]
    BY <1>2
  <1> QED
    BY <1>4, <1>6, <1>7, <1>8, <1>9 DEF Score

(***************************************************************************)
(* A policy that tightens every limit does keep the promise of domain.py,  *)
(* line 99: what it accepts, the defaults accept.  So the run that refutes *)
(* ConfigurationOnlyTightens shows missing comparisons in Policy.validate, *)
(* and no limit that points the wrong way.                                 *)
(***************************************************************************)
THEOREM TighterAcceptsNoMore ==
    EvidenceSpec => [](Tightens(policy) => ConfigurationOnlyTightens)
  <1>1. ASSUME RungsInv, Tightens(policy), Fault(policy) = "none"
        PROVE  Fault(Shipped) = "none"
    <2>1. SignalSound(policy) /\ BrokerSound /\ ProviderReliable /\ MarketSound(policy)
      BY <1>1 DEF Fault
    <2>2. ~ (Score(policy) < 100 * policy.min_score)
      BY <1>1, <2>1 DEF Fault
    <2>3. SignalSound(Shipped) /\ MarketSound(Shipped)
      BY <1>1, <2>1, SoundUnderShipped
    <2>4. \A f \in Weighted : Value(f) # UNKNOWN
      BY <2>1 DEF SignalSound, ProviderReliable, MarketSound, WithinLimits, Weighted, Merits
    <2>5. /\ Score(policy) <= Score(Shipped)
          /\ Score(policy) \in Int /\ Score(Shipped) \in Int
      BY <1>1, <2>4, ScoreUnderShipped
    <2>6. policy.min_score \in Int /\ Shipped.min_score \in Int
          /\ policy.min_score >= Shipped.min_score
      BY <1>1, PolicyTypes, EvidenceAssumption DEF RungsInv, Tightens
    <2>7. ~ (Score(Shipped) < 100 * Shipped.min_score)
      BY <2>2, <2>5, <2>6
    <2> QED
      BY <2>1, <2>3, <2>7 DEF Fault
  <1>2. RungsInv => (Tightens(policy) => ConfigurationOnlyTightens)
    BY <1>1 DEF ConfigurationOnlyTightens
  <1> QED
    BY <1>2, RungsInit, RungsNext, PTL DEF EvidenceSpec
=============================================================================
