---------------------------- MODULE StoreProofs ----------------------------
(***************************************************************************)
(* Type correctness of the store, the linearity of its audit chain, the    *)
(* truth of its answers and the refinement of AtomicStore, for any number  *)
(* of requests and crashes.                                                *)
(*                                                                         *)
(* AuditVerifies is not inductive: what is committed comes from the view   *)
(* of a transaction.  The strengthening says that every view verifies, and *)
(* that a thread about to insert an entry still holds the last hash of its *)
(* own view.  It needs no lock: the lock decides whose view is committed,  *)
(* the chain holds in all of them.                                         *)
(*                                                                         *)
(* Atomicity does need the lock.  Its invariant says that whoever is       *)
(* inside of a transaction holds it, and that the holder's view is what is *)
(* committed *now*, followed by the sections that lie behind the thread:   *)
(* so a commit adds one whole history to what is there.                    *)
(***************************************************************************)
EXTENDS Store, SequenceTheorems, TLAPS

\* A thread that is about to enter a transaction is inside of at most one,
\* and one that has not started is inside of none.
Levels ==
    \A r \in Requests :
        /\ stage[r] = "idle" => depth[r] = 0
        /\ stage[r] \in {"entering", "calling"} => depth[r] \in {0, 1}

\* Every copy of the audit log verifies, and no hash read is stale.
Chains ==
    /\ Verifies(database.audit)
    /\ \A r \in Requests :
         /\ Verifies(view[r].audit)
         /\ stage[r] = "appending" => tip[r] = Tip(view[r].audit)

StoreInv == TypeOK /\ Levels /\ Chains

----------------------------------------------------------------------------
(* The chain *)

\* A hash read from a log is a hash: src/engine/storage.py:69-70.
LEMMA TipIsHash ==
    ASSUME NEW audit \in Seq(AuditRows)
    PROVE  Tip(audit) \in Seq(AuditEntries)
  <1>1. CASE audit = << >>
    BY <1>1 DEF Tip, GENESIS
  <1>2. CASE audit # << >>
    <2>1. audit[Len(audit)] \in AuditRows
      BY <1>2
    <2>2. audit[Len(audit)].hash \in Seq(AuditEntries)
      BY <2>1 DEF AuditRows
    <2> QED BY <1>2, <2>2 DEF Tip
  <1> QED BY <1>1, <1>2

\* Linking gives a row of the log: src/engine/storage.py:71-72.
LEMMA LinkedIsRow ==
    ASSUME NEW previous \in Seq(AuditEntries), NEW entry \in AuditEntries
    PROVE  Linked(previous, entry) \in AuditRows
  <1>1. Append(previous, entry) \in Seq(AuditEntries)
    OBVIOUS
  <1> QED BY <1>1 DEF Linked, Digest, AuditRows

\* An entry linked to the last hash keeps a verifying log verifying.
LEMMA LinkVerifies ==
    ASSUME NEW audit \in Seq(AuditRows), NEW entry \in AuditEntries,
           Verifies(audit)
    PROVE  /\ Append(audit, Linked(Tip(audit), entry)) \in Seq(AuditRows)
           /\ Verifies(Append(audit, Linked(Tip(audit), entry)))
  <1> DEFINE row == Linked(Tip(audit), entry)
             longer == Append(audit, row)
  <1>1. row \in AuditRows
    BY TipIsHash, LinkedIsRow
  <1>2. row.previous = Tip(audit) /\ row.entry = entry
        /\ row.hash = Digest(row.previous, row.entry)
    BY DEF Linked
  <1> HIDE DEF row
  <1>3. longer \in Seq(AuditRows) /\ Len(longer) = Len(audit) + 1
    BY <1>1
  <1>4. /\ \A i \in 1..Len(audit) : longer[i] = audit[i]
        /\ longer[Len(audit) + 1] = row
    BY <1>1
  <1>5. DOMAIN longer = 1..(Len(audit) + 1) /\ DOMAIN audit = 1..Len(audit)
    BY <1>1
  <1> HIDE DEF longer
  <1>6. ASSUME NEW i \in DOMAIN longer
        PROVE  /\ longer[i].previous = (IF i = 1 THEN GENESIS
                                                 ELSE longer[i - 1].hash)
               /\ longer[i].hash = Digest(longer[i].previous, longer[i].entry)
    <2>1. CASE i \in 1..Len(audit)
      <3>1. longer[i] = audit[i] /\ (i # 1 => longer[i - 1] = audit[i - 1])
        BY <2>1, <1>4
      <3> QED BY <2>1, <3>1, <1>5 DEF Verifies
    <2>2. CASE i = Len(audit) + 1
      <3>1. longer[i] = row
        BY <2>2, <1>4
      <3>2. CASE audit = << >>
        BY <2>2, <3>1, <3>2, <1>2 DEF Tip
      <3>3. CASE audit # << >>
        <4>1. Len(audit) \in Nat \ {0}
          BY <3>3
        <4>2. i # 1 /\ i - 1 = Len(audit) /\ longer[i - 1] = audit[Len(audit)]
          BY <4>1, <2>2, <1>4
        <4> QED BY <4>2, <3>1, <3>3, <1>2 DEF Tip
      <3> QED BY <3>2, <3>3
    <2> QED BY <2>1, <2>2, <1>5
  <1>7. Verifies(longer)
    BY <1>6 DEF Verifies
  <1> QED BY <1>3, <1>7 DEF longer, row

\* Audited is such an append, on a whole database.
LEMMA AuditedVerifies ==
    ASSUME NEW db \in Databases, NEW entry \in AuditEntries,
           Verifies(db.audit)
    PROVE  Audited(db, entry) \in Databases /\ Verifies(Audited(db, entry).audit)
  <1>1. db.audit \in Seq(AuditRows)
    BY DEF Databases
  <1> DEFINE longer == Append(db.audit, Linked(Tip(db.audit), entry))
  <1>2. longer \in Seq(AuditRows) /\ Verifies(longer)
    BY <1>1, LinkVerifies
  <1>3. Audited(db, entry) = [db EXCEPT !.audit = longer]
    BY DEF Audited
  <1> HIDE DEF longer
  <1>4. /\ [db EXCEPT !.audit = longer] \in Databases
        /\ [db EXCEPT !.audit = longer].audit = longer
    BY <1>2 DEF Databases
  <1> QED BY <1>2, <1>3, <1>4

\* The empty database, which stands for no transaction.
LEMMA EmptyVerifies == Empty \in Databases /\ Verifies(Empty.audit)
  <1>1. << >> \in Seq(AuditRows) /\ DOMAIN << >> = {}
    OBVIOUS
  <1> QED BY <1>1 DEF Empty, Databases, Verifies

\* A start-up entry is an entry.
LEMMA StartedIsEntry == Started \in AuditEntries
  BY DEF AuditEntries

----------------------------------------------------------------------------
(* Initial states *)

\* The first start satisfies the invariant.
LEMMA InitInv == Init => StoreInv
  <1> SUFFICES ASSUME Init PROVE StoreInv
    OBVIOUS
  <1>1. Audited(Empty, Started) \in Databases
        /\ Verifies(Audited(Empty, Started).audit)
    BY EmptyVerifies, StartedIsEntry, AuditedVerifies
  <1>2. database \in Databases /\ Verifies(database.audit)
    BY <1>1, StartedIsEntry, AuditedVerifies DEF Init
  <1>3. GENESIS \in Seq(AuditEntries)
    BY DEF GENESIS
  <1>4. TypeOK
    BY <1>2, <1>3, EmptyVerifies, StoreAssumption
       DEF Init, TypeOK, Stages, Sections
  <1>5. Levels
    BY DEF Init, Levels
  <1>6. Chains
    BY <1>2, EmptyVerifies DEF Init, Chains
  <1> QED BY <1>4, <1>5, <1>6 DEF StoreInv

----------------------------------------------------------------------------
(* Steps *)

\* Arriving touches neither the database nor a view.
LEMMA ArriveInv ==
    ASSUME StoreInv, NEW r \in Requests, Arrive(r) \/ ArriveMalformed(r)
    PROVE  StoreInv'
  <1>1. TypeOK'
    <2>1. PICK s \in Sections : section' = [section EXCEPT ![r] = s]
      <3>1. CASE Arrive(r)
        BY <3>1, Zenon DEF Arrive, Sections
      <3>2. CASE ArriveMalformed(r)
        BY <3>2, Zenon DEF ArriveMalformed, Sections
      <3> QED BY <3>1, <3>2
    <2>2. section' \in [Requests -> Sections]
      BY <2>1 DEF StoreInv, TypeOK
    <2>3. stage' = [stage EXCEPT ![r] = "entering"]
      BY DEF Arrive, ArriveMalformed
    <2>4. stage' \in [Requests -> Stages]
      BY <2>3 DEF StoreInv, TypeOK, Stages
    <2> QED BY <2>2, <2>4 DEF StoreInv, TypeOK, Arrive, ArriveMalformed
  <1>2. Levels'
    BY DEF StoreInv, TypeOK, Levels, Arrive, ArriveMalformed
  <1>3. Chains'
    BY DEF StoreInv, TypeOK, Chains, Arrive, ArriveMalformed
  <1> QED BY <1>1, <1>2, <1>3 DEF StoreInv

\* A transaction begins on what is committed.
LEMMA BeginInv ==
    ASSUME StoreInv, NEW r \in Requests, Begin(r)
    PROVE  StoreInv'
  <1>1. TypeOK'
    <2>1. StageAfterBegin(r) \in Stages
      BY DEF StageAfterBegin, Stages
    <2>2. stage' \in [Requests -> Stages]
      BY <2>1 DEF StoreInv, TypeOK, Begin
    <2>3. view' \in [Requests -> Databases]
      BY DEF StoreInv, TypeOK, Begin
    <2>4. depth' \in [Requests -> 0..2] /\ holder' \in Requests
      BY DEF StoreInv, TypeOK, Begin
    <2> QED BY <2>2, <2>3, <2>4 DEF StoreInv, TypeOK, Begin
  <1>2. Levels'
    BY DEF StoreInv, TypeOK, Levels, Begin, StageAfterBegin
  <1>3. \A q \in Requests : view'[q] = IF q = r THEN database ELSE view[q]
    BY DEF StoreInv, TypeOK, Begin
  <1>4. \A q \in Requests : stage'[q] = "appending" => stage[q] = "appending"
    BY DEF StoreInv, TypeOK, Begin, StageAfterBegin
  <1>5. \A q \in Requests : stage[q] = "appending" => q # r
    BY DEF Begin
  <1>6. UNCHANGED <<database, tip>>
    BY DEF Begin
  <1>7. Chains'
    BY <1>3, <1>4, <1>5, <1>6 DEF StoreInv, Chains
  <1> QED BY <1>1, <1>2, <1>7 DEF StoreInv

\* Entering an inner transaction, leaving it, waiting in vain, the terminal
\* and the answer touch neither the database nor a view.
LEMMA PassiveInv ==
    ASSUME StoreInv, NEW r \in Requests,
           \/ Nest(r) \/ TimeOut(r) \/ LeaveInner(r)
           \/ TerminalReturns(r) \/ Reply(r)
    PROVE  StoreInv'
  <1>1. UNCHANGED <<database, view, tip, holder, up, crashes>>
    BY DEF Nest, TimeOut, LeaveInner, TerminalReturns, Reply
  <1>2. \A q \in Requests : stage'[q] = "appending" => stage[q] = "appending"
    BY DEF StoreInv, TypeOK, Nest, TimeOut, LeaveInner, TerminalReturns, Reply,
           StagesBefore
  <1>3. Chains'
    BY <1>1, <1>2 DEF StoreInv, Chains
  <1>4. TypeOK' /\ Levels'
    <2>1. CASE Nest(r)
      <3>1. depth[r] = 1
        BY <2>1 DEF StoreInv, TypeOK, Levels, Nest
      <3>2. depth' = [depth EXCEPT ![r] = 2]
        BY <2>1, <3>1 DEF Nest
      <3>3. depth' \in [Requests -> 0..2]
        BY <3>2 DEF StoreInv, TypeOK
      <3>4. stage' \in [Requests -> Stages]
        BY <2>1 DEF StoreInv, TypeOK, Nest, Stages
      <3>5. UNCHANGED <<section, answer>>
        BY <2>1 DEF Nest
      <3>6. TypeOK'
        BY <1>1, <3>3, <3>4, <3>5 DEF StoreInv, TypeOK
      <3>7. Levels'
        BY <2>1, <3>2 DEF StoreInv, TypeOK, Levels, Nest
      <3> QED BY <3>6, <3>7
    <2>2. CASE TimeOut(r)
      <3>1. answer' \in [Requests -> {0, 200, 400, 503}]
        BY <2>2 DEF StoreInv, TypeOK, TimeOut
      <3>2. stage' \in [Requests -> Stages]
        BY <2>2 DEF StoreInv, TypeOK, TimeOut, Stages
      <3>3. UNCHANGED <<depth, section>>
        BY <2>2 DEF TimeOut
      <3>4. TypeOK'
        BY <1>1, <3>1, <3>2, <3>3 DEF StoreInv, TypeOK
      <3>5. Levels'
        BY <2>2 DEF StoreInv, TypeOK, Levels, TimeOut
      <3> QED BY <3>4, <3>5
    <2>3. CASE LeaveInner(r)
      <3>1. PICK next \in Follows(section[r]) :
              /\ section' = [section EXCEPT ![r] = next]
              /\ \E then \in StagesBefore(section[r], next) :
                   stage' = [stage EXCEPT ![r] = then]
        BY <2>3 DEF LeaveInner
      <3>2. next \in Sections
        BY DEF Follows, Sections
      <3>3. PICK then \in StagesBefore(section[r], next) :
              stage' = [stage EXCEPT ![r] = then]
        BY <3>1
      <3>4. then \in {"leaving", "entering", "calling"}
        BY DEF StagesBefore
      <3>5. depth[r] = 2 /\ depth' = [depth EXCEPT ![r] = 1]
        <4>1. depth[r] \in 0..2 /\ depth[r] > 1
          BY <2>3 DEF LeaveInner, StoreInv, TypeOK
        <4>2. depth[r] = 2 /\ depth[r] - 1 = 1
          BY <4>1
        <4>3. depth' = [depth EXCEPT ![r] = depth[r] - 1]
          BY <2>3 DEF LeaveInner
        <4> QED BY <4>2, <4>3
      <3>6. answer' = answer
        BY <2>3 DEF LeaveInner
      <3>7. TypeOK'
        <4>1. stage' \in [Requests -> Stages]
          BY <3>3, <3>4 DEF StoreInv, TypeOK, Stages
        <4>2. section' \in [Requests -> Sections]
          BY <3>1, <3>2 DEF StoreInv, TypeOK
        <4>3. depth' \in [Requests -> 0..2]
          BY <3>5 DEF StoreInv, TypeOK
        <4> QED BY <1>1, <3>6, <4>1, <4>2, <4>3 DEF StoreInv, TypeOK
      <3>8. Levels'
        BY <3>3, <3>4, <3>5 DEF StoreInv, TypeOK, Levels
      <3> QED BY <3>7, <3>8
    <2>4. CASE TerminalReturns(r)
      BY <2>4 DEF StoreInv, TypeOK, Levels, TerminalReturns, Stages
    <2>5. CASE Reply(r)
      BY <2>5 DEF StoreInv, TypeOK, Levels, Reply, Stages
    <2> QED BY <2>1, <2>2, <2>3, <2>4, <2>5
  <1> QED BY <1>3, <1>4 DEF StoreInv

\* A write changes the rows of its own view, not the log.
LEMMA WriteInv ==
    ASSUME StoreInv, NEW r \in Requests, Write(r)
    PROVE  StoreInv'
  <1> DEFINE written == [view[r] EXCEPT !.rows = @ \cup {<<r, section[r]>>}]
  <1>1. view[r] \in Databases /\ section[r] \in Sections
    BY DEF StoreInv, TypeOK
  <1>2. written \in Databases /\ written.audit = view[r].audit
    BY <1>1 DEF Databases
  <1>3. view' = [view EXCEPT ![r] = written]
    BY DEF Write
  <1> HIDE DEF written
  <1>4. TypeOK'
    <2>1. view' \in [Requests -> Databases]
      BY <1>2, <1>3 DEF StoreInv, TypeOK
    <2>2. stage' \in [Requests -> Stages]
      BY DEF StoreInv, TypeOK, Write, Stages
    <2> QED BY <2>1, <2>2 DEF StoreInv, TypeOK, Write
  <1>5. Levels'
    BY DEF StoreInv, TypeOK, Levels, Write
  <1>6. \A q \in Requests : view'[q].audit = view[q].audit
    BY <1>2, <1>3 DEF StoreInv, TypeOK
  <1>7. \A q \in Requests : stage'[q] = "appending" => stage[q] = "appending"
    BY DEF StoreInv, TypeOK, Write
  <1>8. UNCHANGED <<database, tip>>
    BY DEF Write
  <1>9. Chains'
    BY <1>6, <1>7, <1>8 DEF StoreInv, Chains
  <1> QED BY <1>4, <1>5, <1>9 DEF StoreInv

\* The hash read is the last one of the thread's own view.
LEMMA ReadTipInv ==
    ASSUME StoreInv, NEW r \in Requests, ReadTip(r)
    PROVE  StoreInv'
  <1>1. view[r].audit \in Seq(AuditRows)
    BY DEF StoreInv, TypeOK, Databases
  <1>2. TipSeen(r) \in Seq(AuditEntries)
    BY <1>1, TipIsHash DEF TipSeen
  <1>3. TypeOK'
    BY <1>2 DEF StoreInv, TypeOK, ReadTip, Stages
  <1>4. Levels'
    BY DEF StoreInv, TypeOK, Levels, ReadTip
  <1>5. UNCHANGED <<database, view>>
    BY DEF ReadTip
  <1>6. \A q \in Requests : tip'[q] = IF q = r THEN Tip(view[r].audit) ELSE tip[q]
    BY DEF StoreInv, TypeOK, ReadTip, TipSeen
  <1>7. \A q \in Requests \ {r} : stage'[q] = stage[q]
    BY DEF StoreInv, TypeOK, ReadTip
  <1>8. Chains'
    BY <1>5, <1>6, <1>7 DEF StoreInv, Chains
  <1> QED BY <1>3, <1>4, <1>8 DEF StoreInv

\* The entry inserted is linked to the last hash of the view it is inserted
\* into: nothing came between the two statements.
LEMMA AppendEntryInv ==
    ASSUME StoreInv, NEW r \in Requests, AppendEntry(r)
    PROVE  StoreInv'
  <1> DEFINE entry == <<r, section[r]>>
             longer == Append(view[r].audit, Linked(tip[r], entry))
             appended == [view[r] EXCEPT !.audit = longer]
  <1>1. view[r] \in Databases /\ view[r].audit \in Seq(AuditRows)
    BY DEF StoreInv, TypeOK, Databases
  <1>2. entry \in AuditEntries
    BY DEF StoreInv, TypeOK, AuditEntries
  <1>3. tip[r] = Tip(view[r].audit) /\ Verifies(view[r].audit)
    BY DEF StoreInv, Chains, AppendEntry
  <1>4. longer \in Seq(AuditRows) /\ Verifies(longer)
    <2> HIDE DEF entry
    <2> QED BY <1>1, <1>2, <1>3, LinkVerifies
  <1>5. view' = [view EXCEPT ![r] = appended]
    BY DEF AppendEntry
  <1> HIDE DEF longer
  <1>6. appended \in Databases /\ appended.audit = longer
    BY <1>1, <1>4 DEF Databases
  <1> HIDE DEF appended
  <1>7. TypeOK'
    <2>1. view' \in [Requests -> Databases]
      BY <1>5, <1>6 DEF StoreInv, TypeOK
    <2>2. stage' \in [Requests -> Stages]
      BY DEF StoreInv, TypeOK, AppendEntry, Stages
    <2> QED BY <2>1, <2>2 DEF StoreInv, TypeOK, AppendEntry
  <1>8. Levels'
    BY DEF StoreInv, TypeOK, Levels, AppendEntry
  <1>9. \A q \in Requests : view'[q] = IF q = r THEN appended ELSE view[q]
    BY <1>5 DEF StoreInv, TypeOK
  <1>10. \A q \in Requests : stage'[q] = "appending" => q # r /\ stage[q] = "appending"
    BY DEF StoreInv, TypeOK, AppendEntry
  <1>11. UNCHANGED <<database, tip>>
    BY DEF AppendEntry
  <1>12. Chains'
    BY <1>4, <1>6, <1>9, <1>10, <1>11 DEF StoreInv, Chains
  <1> QED BY <1>7, <1>8, <1>12 DEF StoreInv

\* finally empties the view, forgets the hash and leaves every level.
LEMMA ClosedFacts ==
    ASSUME StoreInv, NEW r \in Requests, Closed(r)
    PROVE  /\ view' \in [Requests -> Databases]
           /\ holder' \in Requests \cup {Nobody}
           /\ depth' \in [Requests -> 0..2]
           /\ tip' \in [Requests -> Seq(AuditEntries)]
           /\ \A q \in Requests : Verifies(view'[q].audit)
           /\ \A q \in Requests \ {r} : /\ view'[q] = view[q]
                                        /\ tip'[q] = tip[q]
                                        /\ depth'[q] = depth[q]
           /\ depth'[r] = 0
  <1>1. GENESIS \in Seq(AuditEntries)
    BY DEF GENESIS
  <1>2. view' \in [Requests -> Databases]
    BY EmptyVerifies DEF StoreInv, TypeOK, Closed
  <1>3. tip' \in [Requests -> Seq(AuditEntries)]
    BY <1>1 DEF StoreInv, TypeOK, Closed
  <1>4. depth' \in [Requests -> 0..2] /\ holder' = Nobody
    BY DEF StoreInv, TypeOK, Closed
  <1>5. \A q \in Requests : view'[q] = IF q = r THEN Empty ELSE view[q]
    BY DEF StoreInv, TypeOK, Closed
  <1>6. \A q \in Requests : Verifies(view'[q].audit)
    BY <1>5, EmptyVerifies DEF StoreInv, Chains
  <1>7. \A q \in Requests \ {r} : tip'[q] = tip[q] /\ depth'[q] = depth[q]
    BY DEF StoreInv, TypeOK, Closed
  <1>8. depth'[r] = 0
    BY DEF StoreInv, TypeOK, Closed
  <1> QED BY <1>2, <1>3, <1>4, <1>5, <1>6, <1>7, <1>8

\* What is committed is a view, and every view verifies.
LEMMA CommitInv ==
    ASSUME StoreInv, NEW r \in Requests, Commit(r)
    PROVE  StoreInv'
  <1>1. Closed(r)
    BY DEF Commit
  <1>2. database' \in Databases /\ Verifies(database'.audit)
    BY DEF StoreInv, TypeOK, Chains, Commit
  <1>3. answer' \in [Requests -> {0, 200, 400, 503}]
    BY DEF StoreInv, TypeOK, Commit
  <1>4. stage' \in [Requests -> Stages] /\ stage' = [stage EXCEPT ![r] = "replying"]
    BY DEF StoreInv, TypeOK, Commit, Stages
  <1>5. UNCHANGED <<section, up, crashes>>
    BY DEF Commit
  <1>6. TypeOK'
    BY <1>1, <1>2, <1>3, <1>4, <1>5, ClosedFacts DEF StoreInv, TypeOK
  <1>7. Levels'
    BY <1>1, <1>4, ClosedFacts DEF StoreInv, TypeOK, Levels
  <1>8. Chains'
    BY <1>1, <1>2, <1>4, ClosedFacts DEF StoreInv, TypeOK, Chains
  <1> QED BY <1>6, <1>7, <1>8 DEF StoreInv

\* A rollback drops the view.
LEMMA RaiseInv ==
    ASSUME StoreInv, NEW r \in Requests, Raise(r)
    PROVE  StoreInv'
  <1>1. Closed(r) /\ UNCHANGED <<database, up, crashes>>
    BY DEF Raise, RollBackRefused, RollBackFailed
  <1>2. PICK then \in {"entering", "replying"} : stage' = [stage EXCEPT ![r] = then]
    BY DEF Raise, RollBackRefused, RollBackFailed
  <1>3. section' \in [Requests -> Sections]
    <2>1. CASE RollBackRefused(r)
      BY <2>1 DEF StoreInv, TypeOK, RollBackRefused, Sections
    <2>2. CASE RollBackFailed(r)
      BY <2>2 DEF StoreInv, TypeOK, RollBackFailed
    <2> QED BY <2>1, <2>2 DEF Raise
  <1>4. answer' \in [Requests -> {0, 200, 400, 503}]
    <2>1. CASE RollBackRefused(r)
      BY <2>1 DEF StoreInv, TypeOK, RollBackRefused
    <2>2. CASE RollBackFailed(r)
      BY <2>2 DEF StoreInv, TypeOK, RollBackFailed
    <2> QED BY <2>1, <2>2 DEF Raise
  <1>5. stage' \in [Requests -> Stages]
    BY <1>2 DEF StoreInv, TypeOK, Stages
  <1>6. TypeOK'
    BY <1>1, <1>3, <1>4, <1>5, ClosedFacts DEF StoreInv, TypeOK
  <1>7. Levels'
    BY <1>1, <1>2, ClosedFacts DEF StoreInv, TypeOK, Levels
  <1>8. Chains'
    BY <1>1, <1>2, ClosedFacts DEF StoreInv, TypeOK, Chains
  <1> QED BY <1>6, <1>7, <1>8 DEF StoreInv

\* A crash leaves what is committed and drops every view.
LEMMA CrashInv ==
    ASSUME StoreInv, Crash
    PROVE  StoreInv'
  <1>1. GENESIS \in Seq(AuditEntries)
    BY DEF GENESIS
  <1>2. view' = [q \in Requests |-> Empty] /\ tip' = [q \in Requests |-> GENESIS]
    BY DEF Crash
  <1>3. stage' \in [Requests -> Stages]
    BY DEF StoreInv, TypeOK, Crash, Stages
  <1>4. depth' \in [Requests -> 0..2] /\ \A q \in Requests : depth'[q] = 0
    BY DEF Crash
  <1>5. up' \in BOOLEAN /\ crashes' \in 0..MaxCrashes
    <2>1. crashes \in 0..MaxCrashes /\ crashes < MaxCrashes /\ crashes' = crashes + 1
      BY DEF StoreInv, TypeOK, Crash
    <2>2. crashes' \in 0..MaxCrashes
      BY <2>1, StoreAssumption
    <2>3. up' = FALSE
      BY DEF Crash
    <2> QED BY <2>2, <2>3
  <1>6. holder' = Nobody /\ UNCHANGED <<database, section, answer>>
    BY DEF Crash
  <1>7. TypeOK'
    BY <1>1, <1>2, <1>3, <1>4, <1>5, <1>6, EmptyVerifies DEF StoreInv, TypeOK
  <1>8. Levels'
    BY <1>4 DEF Levels
  <1>9. \A q \in Requests : stage'[q] # "appending"
    BY DEF Crash
  <1>10. Chains'
    BY <1>2, <1>6, <1>9, EmptyVerifies DEF StoreInv, Chains
  <1> QED BY <1>7, <1>8, <1>10 DEF StoreInv

\* A restart appends to the chain it finds.
LEMMA RestartInv ==
    ASSUME StoreInv, Restart
    PROVE  StoreInv'
  <1>1. database' = Audited(database, Started)
    BY DEF Restart
  <1>2. database' \in Databases /\ Verifies(database'.audit)
    BY <1>1, StartedIsEntry, AuditedVerifies DEF StoreInv, TypeOK, Chains
  <1>3. UNCHANGED <<view, holder, depth, stage, section, tip, answer, crashes>>
        /\ up' = TRUE
    BY DEF Restart
  <1>4. TypeOK'
    BY <1>2, <1>3 DEF StoreInv, TypeOK
  <1>5. Levels'
    BY <1>3 DEF StoreInv, Levels
  <1>6. Chains'
    BY <1>2, <1>3 DEF StoreInv, Chains
  <1> QED BY <1>4, <1>5, <1>6 DEF StoreInv

\* A stuttering step changes nothing.
LEMMA StutterInv ==
    ASSUME StoreInv, UNCHANGED vars
    PROVE  StoreInv'
  <1>1. TypeOK' /\ Levels'
    BY DEF StoreInv, TypeOK, Levels, vars
  <1>2. Chains'
    BY DEF StoreInv, Chains, vars
  <1> QED BY <1>1, <1>2 DEF StoreInv

\* Every step preserves the invariant.
LEMMA StepInv == StoreInv /\ [Next]_vars => StoreInv'
  <1> SUFFICES ASSUME StoreInv, [Next]_vars PROVE StoreInv'
    OBVIOUS
  <1>1. ASSUME NEW r \in Requests, Arrive(r) \/ ArriveMalformed(r) PROVE StoreInv'
    BY <1>1, ArriveInv
  <1>2. ASSUME NEW r \in Requests, AwaitLock(r) PROVE StoreInv'
    BY <1>2, BeginInv, PassiveInv DEF AwaitLock
  <1>3. ASSUME NEW r \in Requests, Proceed(r) PROVE StoreInv'
    BY <1>3, PassiveInv, WriteInv, ReadTipInv, AppendEntryInv, CommitInv
       DEF Proceed
  <1>4. ASSUME NEW r \in Requests, TerminalReturns(r) PROVE StoreInv'
    BY <1>4, PassiveInv
  <1>5. ASSUME NEW r \in Requests, Raise(r) PROVE StoreInv'
    BY <1>5, RaiseInv
  <1>6. CASE Crash
    BY <1>6, CrashInv
  <1>7. CASE Restart
    BY <1>7, RestartInv
  <1>8. CASE UNCHANGED vars
    BY <1>8, StutterInv
  <1> QED BY <1>1, <1>2, <1>3, <1>4, <1>5, <1>6, <1>7, <1>8 DEF Next

----------------------------------------------------------------------------
(* Theorems *)

\* The strengthened invariant holds in every reachable state.
LEMMA StoreInvHolds == Spec => []StoreInv
  BY InitInv, StepInv, PTL DEF Spec

\* Every variable of the store keeps its type; in particular no thread is
\* ever inside of more than two transactions.
THEOREM StoreTypes == Spec => []TypeOK
  <1>1. StoreInv => TypeOK
    BY DEF StoreInv
  <1> QED BY <1>1, StoreInvHolds, PTL

\* The committed audit log always passes verify_audit, for any number of
\* requests, alerts and crashes.
THEOREM StoreChainVerifies == Spec => []AuditVerifies
  <1>1. StoreInv => AuditVerifies
    BY DEF StoreInv, Chains, AuditVerifies
  <1> QED BY <1>1, StoreInvHolds, PTL

----------------------------------------------------------------------------
(* The lock, and what it protects *)

\* Whoever is inside of a transaction holds the write lock, and nobody else:
\* src/engine/storage.py:24-36.
Exclusive == \A r \in Requests : depth[r] > 0 <=> holder = r

\* The sections of one transaction and of nested ones; the stages of a thread
\* outside and inside of a transaction.
Local == {"change", "refusal"}

Inner == {"intake", "evidence", "verdict", "journal", "blocked"}

Outside == {"idle", "entering", "replying", "answered", "lost"}

Inside == {"writing", "reading", "appending", "leaving"}

\* Where a thread is, by how many transactions it is inside of.
Place(r) ==
    \/ /\ depth[r] = 0 /\ stage[r] \in Outside
       /\ stage[r] = "entering" => section[r] \in Local \cup {"intake"}
    \/ depth[r] = 1 /\ stage[r] \in {"entering", "calling"} /\ section[r] \in Inner
    \/ depth[r] = 1 /\ stage[r] \in Inside /\ section[r] \in Local
    \/ depth[r] = 1 /\ stage[r] = "leaving" /\ section[r] = "done"
    \/ depth[r] = 2 /\ stage[r] \in Inside /\ section[r] \in Inner

\* Alerts and other requests have sections of their own, a refusal writes no
\* rows, nothing is answered before it is decided, and a dead process has no
\* thread.
Kind(r) ==
    /\ stage[r] = "writing" => section[r] # "refusal"
    /\ stage[r] \in Inside \cup {"idle", "entering", "calling"} => answer[r] = 0
    /\ section[r] = "change" => r \notin Bridge
    /\ section[r] \in Inner => r \in Bridge
    /\ depth[r] > 0 /\ section[r] = "done" => r \in Bridge
    /\ ~up => stage[r] \in {"idle", "answered", "lost"}

\* The sections that may be behind a thread that has come to one.
Pasts(s) ==
    CASE s = "evidence" -> { <<"intake">> }
      [] s = "verdict"  -> { <<"intake", "evidence">> }
      [] s = "journal"  -> { <<"intake", "evidence", "verdict">> }
      [] s = "blocked"  -> { <<"intake">>, <<"intake", "evidence">> }
      [] s = "done"     -> { <<"intake">>, <<"intake", "blocked">>,
                             <<"intake", "evidence", "blocked">>,
                             <<"intake", "evidence", "verdict", "journal">> }
      [] OTHER          -> { << >> }

\* The entries of a log, as a sequence and as a set; those of a request.
Log(audit) == [i \in DOMAIN audit |-> audit[i].entry]

Known(log) == {log[i] : i \in DOMAIN log}

Filed(r, past) == [i \in DOMAIN past |-> <<r, past[i]>>]

\* What a thread has inserted into the log, and what into the tables.
Logged(r, past) ==
    IF stage[r] = "leaving" /\ section[r] # "done" THEN Append(past, section[r])
                                                  ELSE past

Written(r, past) ==
    IF section[r] = "refusal" THEN << >>
    ELSE IF stage[r] \in {"reading", "appending"} THEN Append(past, section[r])
    ELSE Logged(r, past)

\* The view of the lock's holder is what is committed and its own sections.
Content(r) ==
    depth[r] > 0 =>
        \E past \in Pasts(section[r]) :
            /\ Log(view[r].audit)
                  = Log(database.audit) \o Filed(r, Logged(r, past))
            /\ view[r].rows
                  = database.rows \cup Known(Filed(r, Written(r, past)))

\* What makes AnswersTrue and the refinement inductive.
AtomicInv ==
    /\ StoreInv /\ Exclusive /\ AnswersTrue
    /\ \A r \in Requests : Place(r) /\ Kind(r) /\ Content(r)

----------------------------------------------------------------------------
(* Logs *)

\* The entries of a log form a sequence as long as the log.
LEMMA LogIsSeq ==
    ASSUME NEW audit \in Seq(AuditRows)
    PROVE  /\ Log(audit) \in Seq(AuditEntries)
           /\ Len(Log(audit)) = Len(audit)
           /\ \A i \in 1..Len(audit) : Log(audit)[i] = audit[i].entry
  <1>1. ASSUME NEW i \in 1..Len(audit) PROVE audit[i].entry \in AuditEntries
    <2>1. audit[i] \in AuditRows
      OBVIOUS
    <2> QED BY <2>1 DEF AuditRows
  <1>2. Log(audit) \in [1..Len(audit) -> AuditEntries]
    BY <1>1 DEF Log
  <1>3. Log(audit) \in Seq(AuditEntries)
    BY <1>2, SeqDef
  <1>4. Len(Log(audit)) = Len(audit)
    BY <1>2, <1>3
  <1>5. \A i \in 1..Len(audit) : Log(audit)[i] = audit[i].entry
    BY DEF Log
  <1> QED BY <1>3, <1>4, <1>5

\* A row appended to the log appends its entry.
LEMMA LogAppended ==
    ASSUME NEW audit \in Seq(AuditRows), NEW row \in AuditRows
    PROVE  Log(Append(audit, row)) = Append(Log(audit), row.entry)
  <1> DEFINE longer == Append(audit, row)
             left == Log(longer)
             right == Append(Log(audit), row.entry)
  <1>1. /\ longer \in Seq(AuditRows) /\ Len(longer) = Len(audit) + 1
        /\ \A i \in 1..Len(audit) : longer[i] = audit[i]
        /\ longer[Len(audit) + 1] = row
    OBVIOUS
  <1>2. row.entry \in AuditEntries
    BY DEF AuditRows
  <1>3. /\ right \in Seq(AuditEntries) /\ Len(right) = Len(audit) + 1
        /\ \A i \in 1..Len(audit) : right[i] = audit[i].entry
        /\ right[Len(audit) + 1] = row.entry
    BY <1>2, LogIsSeq
  <1> HIDE DEF longer, right
  <1>4. /\ left \in Seq(AuditEntries) /\ Len(left) = Len(audit) + 1
        /\ \A i \in 1..(Len(audit) + 1) : left[i] = longer[i].entry
    BY <1>1, LogIsSeq
  <1> HIDE DEF left
  <1>5. \A i \in 1..Len(left) : left[i] = right[i]
    BY <1>1, <1>3, <1>4
  <1>6. left = right
    BY <1>3, <1>4, <1>5, SeqEqual
  <1> QED BY <1>6 DEF left, right, longer

\* The entries of one more section are one more entry.
LEMMA FiledAppended ==
    ASSUME NEW r \in Requests, NEW past \in Seq(Sections), NEW s \in Sections
    PROVE  /\ Filed(r, past) \in Seq(AuditEntries)
           /\ Filed(r, Append(past, s)) = Append(Filed(r, past), <<r, s>>)
           /\ Known(Filed(r, Append(past, s))) = Known(Filed(r, past)) \cup {<<r, s>>}
  <1>1. ASSUME NEW p \in Seq(Sections)
        PROVE  /\ Filed(r, p) \in Seq(AuditEntries)
               /\ Len(Filed(r, p)) = Len(p)
               /\ \A i \in 1..Len(p) : Filed(r, p)[i] = <<r, p[i]>>
    <2>1. \A i \in 1..Len(p) : <<r, p[i]>> \in AuditEntries
      BY DEF AuditEntries
    <2>2. Filed(r, p) \in [1..Len(p) -> AuditEntries]
      BY <2>1 DEF Filed
    <2>3. Filed(r, p) \in Seq(AuditEntries)
      BY <2>2, SeqDef
    <2>4. Len(Filed(r, p)) = Len(p)
      BY <2>2, <2>3
    <2> QED BY <2>3, <2>4 DEF Filed
  <1> DEFINE longer == Append(past, s)
             left == Filed(r, longer)
             right == Append(Filed(r, past), <<r, s>>)
  <1>2. /\ longer \in Seq(Sections) /\ Len(longer) = Len(past) + 1
        /\ \A i \in 1..Len(past) : longer[i] = past[i]
        /\ longer[Len(past) + 1] = s
    OBVIOUS
  <1>3. <<r, s>> \in AuditEntries
    BY DEF AuditEntries
  <1>4. /\ right \in Seq(AuditEntries) /\ Len(right) = Len(past) + 1
        /\ \A i \in 1..Len(past) : right[i] = <<r, past[i]>>
        /\ right[Len(past) + 1] = <<r, s>>
    BY <1>1, <1>3
  <1> HIDE DEF longer, right
  <1>5. /\ left \in Seq(AuditEntries) /\ Len(left) = Len(past) + 1
        /\ \A i \in 1..(Len(past) + 1) : left[i] = <<r, longer[i]>>
    BY <1>1, <1>2
  <1>6. left = right
    <2> HIDE DEF left
    <2>1. Len(past) \in Nat /\ Len(left) = Len(past) + 1
      BY <1>5
    <2>2. ASSUME NEW i \in 1..Len(past) PROVE left[i] = right[i]
      <3>1. i \in 1..(Len(past) + 1)
        BY <2>1
      <3>2. left[i] = <<r, longer[i]>>
        BY <1>5, <3>1
      <3> QED BY <3>2, <1>2, <1>4
    <2>3. left[Len(past) + 1] = right[Len(past) + 1]
      BY <1>2, <1>4, <1>5, <2>1
    <2>4. \A i \in 1..Len(left) : left[i] = right[i]
      BY <2>1, <2>2, <2>3
    <2> QED BY <1>4, <1>5, <2>4, SeqEqual
  <1>7. Known(left) = Known(Filed(r, past)) \cup {<<r, s>>}
    <2>1. DOMAIN left = 1..Len(past) \cup {Len(past) + 1}
      BY <1>5
    <2>2. DOMAIN Filed(r, past) = 1..Len(past)
      BY DEF Filed
    <2>3. \A i \in 1..Len(past) : left[i] = Filed(r, past)[i]
      BY <1>1, <1>4, <1>6
    <2>4. left[Len(past) + 1] = <<r, s>>
      BY <1>4, <1>6
    <2> HIDE DEF left
    <2> QED BY <2>1, <2>2, <2>3, <2>4 DEF Known
  <1> QED BY <1>1, <1>6, <1>7 DEF left, right, longer

\* What joined logs know.
LEMMA KnownJoined ==
    ASSUME NEW S, NEW first \in Seq(S), NEW second \in Seq(S)
    PROVE  Known(first \o second) = Known(first) \cup Known(second)
  <1> DEFINE joined == first \o second
  <1>1. /\ joined \in Seq(S) /\ Len(joined) = Len(first) + Len(second)
        /\ \A i \in 1..Len(first) : joined[i] = first[i]
        /\ \A i \in 1..Len(second) : joined[Len(first) + i] = second[i]
    BY ConcatProperties
  <1> HIDE DEF joined
  <1>2. Known(first) \cup Known(second) \subseteq Known(joined)
    <2>1. ASSUME NEW i \in 1..Len(first)
          PROVE  i \in DOMAIN joined /\ joined[i] = first[i]
      BY <1>1
    <2>2. ASSUME NEW i \in 1..Len(second)
          PROVE  Len(first) + i \in DOMAIN joined /\ joined[Len(first) + i] = second[i]
      BY <1>1
    <2>3. DOMAIN first = 1..Len(first) /\ DOMAIN second = 1..Len(second)
      OBVIOUS
    <2> QED BY <2>1, <2>2, <2>3 DEF Known
  <1>3. ASSUME NEW i \in DOMAIN joined
        PROVE  joined[i] \in Known(first) \cup Known(second)
    <2>1. CASE i <= Len(first)
      BY <1>1, <2>1 DEF Known
    <2>2. CASE ~ i <= Len(first)
      <3>1. i - Len(first) \in 1..Len(second) /\ i = Len(first) + (i - Len(first))
        BY <1>1, <2>2
      <3>2. joined[i] = second[i - Len(first)]
        BY <1>1, <3>1
      <3> QED BY <3>1, <3>2 DEF Known
    <2> QED BY <2>1, <2>2
  <1>4. Known(joined) \subseteq Known(first) \cup Known(second)
    BY <1>3 DEF Known
  <1>5. Known(joined) = Known(first) \cup Known(second)
    BY <1>2, <1>4
  <1> QED BY <1>5 DEF joined

\* No section, no entry.
LEMMA NothingFiled ==
    ASSUME NEW r \in Requests
    PROVE  Filed(r, << >>) = << >> /\ Known(Filed(r, << >>)) = {}
  <1>1. DOMAIN Filed(r, << >>) = {}
    BY DEF Filed
  <1>2. Known(Filed(r, << >>)) = {}
    BY <1>1 DEF Known
  <1>3. << >> \in Seq(Sections)
    OBVIOUS
  <1>4. Filed(r, << >>) \in [1..0 -> AuditEntries]
    BY DEF Filed
  <1>5. Filed(r, << >>) = << >>
    BY <1>4, SeqDef, EmptySeq
  <1> QED BY <1>2, <1>5

\* Appending to a tuple of one.
LEMMA AppendToOne ==
    ASSUME NEW S, NEW a \in S, NEW b \in S
    PROVE  Append(<<a>>, b) = <<a, b>>
  <1>1. <<a, b>> \in Seq(S) /\ Append(<<a>>, b) \in Seq(S)
    OBVIOUS
  <1>2. Len(<<a, b>>) = 2 /\ Len(Append(<<a>>, b)) = 2
    OBVIOUS
  <1>3. \A i \in 1..2 : Append(<<a>>, b)[i] = <<a, b>>[i]
    OBVIOUS
  <1> QED BY <1>1, <1>2, <1>3, SeqEqual

\* To a tuple of two.
LEMMA AppendToTwo ==
    ASSUME NEW S, NEW a \in S, NEW b \in S, NEW c \in S
    PROVE  Append(<<a, b>>, c) = <<a, b, c>>
  <1>1. <<a, b, c>> \in Seq(S) /\ Append(<<a, b>>, c) \in Seq(S)
    OBVIOUS
  <1>2. Len(<<a, b, c>>) = 3 /\ Len(Append(<<a, b>>, c)) = 3
    OBVIOUS
  <1>3. \A i \in 1..3 : Append(<<a, b>>, c)[i] = <<a, b, c>>[i]
    OBVIOUS
  <1> QED BY <1>1, <1>2, <1>3, SeqEqual

\* To a tuple of three.
LEMMA AppendToThree ==
    ASSUME NEW S, NEW a \in S, NEW b \in S, NEW c \in S, NEW d \in S
    PROVE  Append(<<a, b, c>>, d) = <<a, b, c, d>>
  <1>1. <<a, b, c, d>> \in Seq(S) /\ Append(<<a, b, c>>, d) \in Seq(S)
    OBVIOUS
  <1>2. Len(<<a, b, c, d>>) = 4 /\ Len(Append(<<a, b, c>>, d)) = 4
    OBVIOUS
  <1>3. \A i \in 1..4 : Append(<<a, b, c>>, d)[i] = <<a, b, c, d>>[i]
    OBVIOUS
  <1> QED BY <1>1, <1>2, <1>3, SeqEqual

\* Every past is made of sections, and what leads from one section to the
\* next leads from its past to the next one's: src/engine/bridge.py:57-160.
LEMMA PastsGrow ==
    /\ \A s \in Sections : Pasts(s) \subseteq Seq(Sections)
    /\ \A s \in Inner : \A next \in Follows(s) : \A past \in Pasts(s) :
          Append(past, s) \in Pasts(next)
  <1>1. /\ \A s \in {"change", "refusal", "intake"} : Pasts(s) = { << >> }
        /\ Pasts("evidence") = { <<"intake">> }
        /\ Pasts("verdict") = { <<"intake", "evidence">> }
        /\ Pasts("journal") = { <<"intake", "evidence", "verdict">> }
        /\ Pasts("blocked") = { <<"intake">>, <<"intake", "evidence">> }
        /\ Pasts("done") = { <<"intake">>, <<"intake", "blocked">>,
                             <<"intake", "evidence", "blocked">>,
                             <<"intake", "evidence", "verdict", "journal">> }
    BY DEF Pasts
  <1>2. \A s \in Sections : Pasts(s) \subseteq Seq(Sections)
    <2>1. /\ << >> \in Seq(Sections)
          /\ <<"intake">> \in Seq(Sections)
          /\ <<"intake", "evidence">> \in Seq(Sections)
          /\ <<"intake", "blocked">> \in Seq(Sections)
          /\ <<"intake", "evidence", "verdict">> \in Seq(Sections)
          /\ <<"intake", "evidence", "blocked">> \in Seq(Sections)
          /\ <<"intake", "evidence", "verdict", "journal">> \in Seq(Sections)
      BY DEF Sections
    <2> QED BY <1>1, <2>1 DEF Sections
  <1>3. /\ Follows("intake") = {"evidence", "blocked", "done"}
        /\ Follows("evidence") = {"verdict", "blocked"}
        /\ Follows("verdict") = {"journal"}
        /\ Follows("journal") = {"done"}
        /\ Follows("blocked") = {"done"}
    BY DEF Follows
  <1>4. /\ Append(<< >>, "intake") = <<"intake">>
        /\ Append(<<"intake">>, "evidence") = <<"intake", "evidence">>
        /\ Append(<<"intake">>, "blocked") = <<"intake", "blocked">>
        /\ Append(<<"intake", "evidence">>, "verdict")
              = <<"intake", "evidence", "verdict">>
        /\ Append(<<"intake", "evidence">>, "blocked")
              = <<"intake", "evidence", "blocked">>
        /\ Append(<<"intake", "evidence", "verdict">>, "journal")
              = <<"intake", "evidence", "verdict", "journal">>
    <2>1. Append(<< >>, "intake") = <<"intake">>
      OBVIOUS
    <2>2. /\ "intake" \in Sections /\ "evidence" \in Sections
          /\ "verdict" \in Sections /\ "journal" \in Sections
          /\ "blocked" \in Sections
      BY DEF Sections
    <2>3. /\ Append(<<"intake">>, "evidence") = <<"intake", "evidence">>
          /\ Append(<<"intake">>, "blocked") = <<"intake", "blocked">>
      BY <2>2, AppendToOne
    <2>4. /\ Append(<<"intake", "evidence">>, "verdict")
                = <<"intake", "evidence", "verdict">>
          /\ Append(<<"intake", "evidence">>, "blocked")
                = <<"intake", "evidence", "blocked">>
      BY <2>2, AppendToTwo
    <2>5. Append(<<"intake", "evidence", "verdict">>, "journal")
             = <<"intake", "evidence", "verdict", "journal">>
      BY <2>2, AppendToThree
    <2> QED BY <2>1, <2>3, <2>4, <2>5
  <1> QED BY <1>1, <1>2, <1>3, <1>4, Zenon DEF Inner

\* Appending to joined sequences appends to the second.
LEMMA AppendToJoined ==
    ASSUME NEW S, NEW first \in Seq(S), NEW second \in Seq(S), NEW e \in S
    PROVE  Append(first \o second, e) = first \o Append(second, e)
  <1> DEFINE left == Append(first \o second, e)
             right == first \o Append(second, e)
             n == Len(first) + Len(second) + 1
  <1>1. left \in Seq(S) /\ Len(left) = n
    OBVIOUS
  <1>2. right \in Seq(S) /\ Len(right) = n
    OBVIOUS
  <1>3. \A i \in 1..n : left[i] = right[i]
    OBVIOUS
  <1> QED BY <1>1, <1>2, <1>3, SeqEqual

\* A row inserted into a log appends its entry to what was logged.
LEMMA LogExtended ==
    ASSUME NEW audit \in Seq(AuditRows), NEW row \in AuditRows,
           NEW log \in Seq(AuditEntries), NEW r \in Requests,
           NEW past \in Seq(Sections), NEW s \in Sections,
           row.entry = <<r, s>>,
           Log(audit) = log \o Filed(r, past)
    PROVE  Log(Append(audit, row)) = log \o Filed(r, Append(past, s))
  <1> DEFINE e == <<r, s>>
  <1>1. e \in AuditEntries
    BY DEF AuditEntries
  <1>2. Filed(r, past) \in Seq(AuditEntries)
        /\ Filed(r, Append(past, s)) = Append(Filed(r, past), e)
    BY FiledAppended
  <1> HIDE DEF e
  <1>3. Log(Append(audit, row)) = Append(log \o Filed(r, past), e)
    BY LogAppended DEF e
  <1>4. Append(log \o Filed(r, past), e) = log \o Append(Filed(r, past), e)
    BY <1>1, <1>2, AppendToJoined
  <1> QED BY <1>2, <1>3, <1>4

----------------------------------------------------------------------------
(* Steps *)

\* What a request was told, by cases.
Told(r) ==
    /\ answer[r] = 200 => RowsOf(r) # {} /\ EntriesOf(r) = RowsOf(r)
    /\ answer[r] = 400 => RowsOf(r) = {} /\ EntriesOf(r) = {<<r, "refusal">>}
    /\ answer[r] \notin {200, 400} => RowsOf(r) = {} /\ EntriesOf(r) = {}

\* AnswersTrue says of every request that it was told the truth.
LEMMA ToldTrue == AnswersTrue <=> \A r \in Requests : Told(r)
  BY DEF AnswersTrue, Told

\* The steps of one thread disturb no other, as long as what is committed
\* stays as it is.
LEMMA OthersKeep ==
    ASSUME AtomicInv, NEW r \in Requests, NEW q \in Requests \ {r},
           UNCHANGED <<database, up>>,
           /\ depth'[q] = depth[q] /\ stage'[q] = stage[q]
           /\ section'[q] = section[q] /\ view'[q] = view[q]
           /\ answer'[q] = answer[q]
    PROVE  (Place(q) /\ Kind(q) /\ Content(q) /\ Told(q))'
  <1>1. Place(q) /\ Kind(q) /\ Content(q) /\ Told(q)
    BY ToldTrue DEF AtomicInv
  <1>2. Place(q)' /\ Kind(q)'
    BY <1>1 DEF Place, Kind
  <1>3. Content(q)'
    BY <1>1 DEF Content, Logged, Written
  <1>4. Told(q)'
    BY <1>1 DEF Told, RowsOf, EntriesOf
  <1> QED BY <1>2, <1>3, <1>4

\* What one thread has to show for its own step.
LEMMA OwnStep ==
    ASSUME AtomicInv, StoreInv', NEW r \in Requests,
           UNCHANGED <<database, up>>, Exclusive',
           \A q \in Requests \ {r} :
               /\ depth'[q] = depth[q] /\ stage'[q] = stage[q]
               /\ section'[q] = section[q] /\ view'[q] = view[q]
               /\ answer'[q] = answer[q],
           Place(r)', Kind(r)', Content(r)',
           \/ answer'[r] = answer[r]
           \/ answer[r] = 0 /\ answer'[r] = 503
    PROVE  AtomicInv'
  <1>1. \A q \in Requests \ {r} : (Place(q) /\ Kind(q) /\ Content(q) /\ Told(q))'
    BY OthersKeep
  <1>2. Told(r)'
    <2>1. Told(r)
      BY ToldTrue DEF AtomicInv
    <2> QED BY <2>1 DEF Told, RowsOf, EntriesOf
  <1>3. AnswersTrue'
    BY <1>1, <1>2 DEF AnswersTrue, Told
  <1> QED BY <1>1, <1>3 DEF AtomicInv

\* A request that arrives is inside of nothing.
LEMMA ArriveAtomic ==
    ASSUME AtomicInv, StoreInv', NEW r \in Requests,
           Arrive(r) \/ ArriveMalformed(r)
    PROVE  AtomicInv'
  <1>. USE DEF StoreInv, TypeOK
  <1>1. /\ stage[r] = "idle" /\ depth[r] = 0 /\ up
        /\ answer[r] = 0
    BY DEF AtomicInv, Place, Kind, Arrive, ArriveMalformed, Inside
  <1>2. UNCHANGED <<database, view, holder, depth, answer, up>>
    BY DEF Arrive, ArriveMalformed
  <1>3. /\ stage'[r] = "entering"
        /\ section'[r] \in {"change", "intake", "refusal"}
        /\ section'[r] = "intake" => r \in Bridge
        /\ section'[r] = "change" => r \notin Bridge
        /\ \A q \in Requests \ {r} : stage'[q] = stage[q] /\ section'[q] = section[q]
    BY DEF AtomicInv, Arrive, ArriveMalformed
  <1>4. Place(r)' /\ Kind(r)' /\ Content(r)'
    BY <1>1, <1>2, <1>3
       DEF Place, Kind, Content, Outside, Local, Inner, Inside
  <1>5. Exclusive'
    BY <1>2 DEF AtomicInv, Exclusive
  <1>. QED
    BY <1>2, <1>3, <1>4, <1>5, OwnStep

\* Whoever gets the lock sees what is committed.
LEMMA BeginAtomic ==
    ASSUME AtomicInv, StoreInv', NEW r \in Requests, Begin(r)
    PROVE  AtomicInv'
  <1>1. /\ depth \in [Requests -> 0..2] /\ stage \in [Requests -> Stages]
        /\ view \in [Requests -> Databases] /\ section[r] \in Sections
    BY DEF AtomicInv, StoreInv, TypeOK
  <1>2. /\ stage[r] = "entering" /\ depth[r] = 0 /\ holder = Nobody
        /\ Place(r) /\ Kind(r)
    BY DEF AtomicInv, Begin, LockFree
  <1>3. section[r] \in {"change", "refusal", "intake"}
    BY <1>2 DEF Place, Local
  <1>4. /\ depth'[r] = 1 /\ holder' = r /\ view'[r] = database
        /\ stage'[r] = StageAfterBegin(r)
        /\ \A q \in Requests \ {r} : /\ depth'[q] = depth[q]
                                     /\ view'[q] = view[q]
                                     /\ stage'[q] = stage[q]
        /\ UNCHANGED <<database, section, answer, up>>
    BY <1>1 DEF Begin
  <1>5. /\ section[r] = "refusal" => stage'[r] = "reading"
        /\ section[r] = "intake" => stage'[r] = "entering"
        /\ section[r] = "change" => stage'[r] = "writing"
    BY <1>4 DEF StageAfterBegin
  <1>6. Place(r)' /\ Kind(r)'
    BY <1>2, <1>3, <1>4, <1>5 DEF Place, Kind, Local, Inner, Inside, Outside
  <1>7. Content(r)'
    <2>1. << >> \in Pasts(section[r])
      BY <1>3 DEF Pasts
    <2>2. Logged(r, << >>)' = << >> /\ Written(r, << >>)' = << >>
      BY <1>3, <1>4, <1>5 DEF Logged, Written
    <2>3. Log(database.audit) \in Seq(AuditEntries)
      BY LogIsSeq DEF AtomicInv, StoreInv, TypeOK, Databases
    <2>4. Log(database.audit) \o << >> = Log(database.audit)
      BY <2>3, ConcatEmptySeq
    <2>5. /\ Log(view'[r].audit)
               = Log(database'.audit) \o Filed(r, Logged(r, << >>)')
          /\ view'[r].rows
               = database'.rows \cup Known(Filed(r, Written(r, << >>)'))
      BY <1>4, <2>2, <2>4, NothingFiled
    <2>. QED BY <1>4, <2>1, <2>5 DEF Content
  <1>8. Exclusive'
    <2>1. \A q \in Requests : depth[q] = 0
      <3>1. \A q \in Requests : ~ depth[q] > 0
        BY <1>2, StoreAssumption DEF AtomicInv, Exclusive
      <3>. QED BY <1>1, <3>1
    <2>. QED BY <1>4, <2>1 DEF Exclusive
  <1>. QED
    BY <1>4, <1>6, <1>7, <1>8, OwnStep

\* Entering an inner transaction keeps the lock and the view.
LEMMA NestAtomic ==
    ASSUME AtomicInv, StoreInv', NEW r \in Requests, Nest(r)
    PROVE  AtomicInv'
  <1>1. /\ depth \in [Requests -> 0..2] /\ stage \in [Requests -> Stages]
    BY DEF AtomicInv, StoreInv, TypeOK
  <1>2. /\ stage[r] = "entering" /\ depth[r] > 0
        /\ Place(r) /\ Kind(r) /\ Content(r)
    BY DEF AtomicInv, Nest
  <1>3. depth[r] = 1 /\ section[r] \in Inner
    BY <1>2 DEF Place, Inside
  <1>4. /\ depth'[r] = 2 /\ stage'[r] = "writing"
        /\ \A q \in Requests \ {r} : depth'[q] = depth[q] /\ stage'[q] = stage[q]
        /\ UNCHANGED <<database, view, holder, section, answer, up>>
    BY <1>1, <1>3 DEF Nest
  <1>5. Place(r)' /\ Kind(r)'
    BY <1>2, <1>3, <1>4 DEF Place, Kind, Local, Inner, Inside, Outside
  <1>6. Content(r)'
    BY <1>2, <1>4 DEF Content, Logged, Written
  <1>7. Exclusive'
    BY <1>2, <1>4 DEF AtomicInv, Exclusive
  <1>. QED
    BY <1>4, <1>5, <1>6, <1>7, OwnStep

\* An inner transaction that is left commits nothing; its section is behind
\* the thread when it goes on.
LEMMA LeaveInnerAtomic ==
    ASSUME AtomicInv, StoreInv', NEW r \in Requests, LeaveInner(r)
    PROVE  AtomicInv'
  <1>1. /\ depth \in [Requests -> 0..2] /\ stage \in [Requests -> Stages]
        /\ section \in [Requests -> Sections]
    BY DEF AtomicInv, StoreInv, TypeOK
  <1>2. /\ stage[r] = "leaving" /\ depth[r] > 1
        /\ Place(r) /\ Kind(r) /\ Content(r)
    BY DEF AtomicInv, LeaveInner
  <1>3. depth[r] = 2 /\ section[r] \in Inner
    BY <1>2 DEF Place
  <1>. PICK next \in Follows(section[r]) :
         /\ section' = [section EXCEPT ![r] = next]
         /\ \E then \in StagesBefore(section[r], next) :
              stage' = [stage EXCEPT ![r] = then]
    BY DEF LeaveInner
  <1>4. PICK then \in StagesBefore(section[r], next) :
          /\ section' = [section EXCEPT ![r] = next]
          /\ stage' = [stage EXCEPT ![r] = then]
    OBVIOUS
  <1>5. /\ depth'[r] = 1 /\ section'[r] = next /\ stage'[r] = then
        /\ \A q \in Requests \ {r} : /\ depth'[q] = depth[q]
                                     /\ stage'[q] = stage[q]
                                     /\ section'[q] = section[q]
        /\ UNCHANGED <<database, view, holder, answer, up>>
    BY <1>1, <1>3, <1>4 DEF LeaveInner
  <1>6. next \in Inner \cup {"done"}
    BY <1>3, Zenon DEF Follows, Inner
  <1>7. /\ next = "done" => then = "leaving"
        /\ next # "done" => then \in {"entering", "calling"}
    BY DEF StagesBefore
  <1>8. Place(r)' /\ Kind(r)'
    BY <1>2, <1>3, <1>5, <1>6, <1>7 DEF Place, Kind, Local, Inner, Inside, Outside
  <1>9. Content(r)'
    <2>1. PICK past \in Pasts(section[r]) :
            /\ Log(view[r].audit)
                  = Log(database.audit) \o Filed(r, Logged(r, past))
            /\ view[r].rows
                  = database.rows \cup Known(Filed(r, Written(r, past)))
      BY <1>2, <1>3 DEF Content
    <2>. PICK more : more = Append(past, section[r])
      OBVIOUS
    <2>2. more \in Pasts(next)
      BY <1>3, PastsGrow
    <2>3. Logged(r, past) = more /\ Written(r, past) = more
      BY <1>2, <1>3 DEF Logged, Written, Inner
    <2>4. Logged(r, more)' = more /\ Written(r, more)' = more
      BY <1>5, <1>6, <1>7 DEF Logged, Written, Inner
    <2>. QED BY <1>5, <2>1, <2>2, <2>3, <2>4 DEF Content
  <1>10. Exclusive'
    BY <1>3, <1>5 DEF AtomicInv, Exclusive
  <1>. QED
    BY <1>5, <1>8, <1>9, <1>10, OwnStep

\* A section writes its rows into its own view.
LEMMA WriteAtomic ==
    ASSUME AtomicInv, StoreInv', NEW r \in Requests, Write(r)
    PROVE  AtomicInv'
  <1>1. /\ depth \in [Requests -> 0..2] /\ stage \in [Requests -> Stages]
        /\ view \in [Requests -> Databases] /\ section[r] \in Sections
    BY DEF AtomicInv, StoreInv, TypeOK
  <1>2. /\ stage[r] = "writing" /\ Place(r) /\ Kind(r) /\ Content(r)
    BY DEF AtomicInv, Write
  <1>3. depth[r] \in {1, 2} /\ section[r] \in Local \cup Inner
        /\ section[r] # "refusal"
    BY <1>2 DEF Place, Kind, Outside
  <1>4. /\ stage'[r] = "reading"
        /\ view'[r].rows = view[r].rows \cup {<<r, section[r]>>}
        /\ view'[r].audit = view[r].audit
        /\ \A q \in Requests \ {r} : view'[q] = view[q] /\ stage'[q] = stage[q]
        /\ UNCHANGED <<database, depth, holder, section, answer, up>>
    BY <1>1 DEF Write, Databases
  <1>5. Place(r)' /\ Kind(r)'
    BY <1>2, <1>3, <1>4 DEF Place, Kind, Local, Inner, Inside, Outside
  <1>6. Content(r)'
    <2>1. PICK past \in Pasts(section[r]) :
            /\ Log(view[r].audit)
                  = Log(database.audit) \o Filed(r, Logged(r, past))
            /\ view[r].rows
                  = database.rows \cup Known(Filed(r, Written(r, past)))
      BY <1>2, <1>3 DEF Content
    <2>2. past \in Seq(Sections)
      BY <1>1, PastsGrow
    <2>3. Logged(r, past) = past /\ Written(r, past) = past
          /\ Logged(r, past)' = past /\ Written(r, past)' = Append(past, section[r])
      BY <1>2, <1>3, <1>4 DEF Logged, Written
    <2>4. Known(Filed(r, Append(past, section[r])))
             = Known(Filed(r, past)) \cup {<<r, section[r]>>}
      BY <1>1, <2>2, FiledAppended
    <2>5. view'[r].rows = database'.rows \cup Known(Filed(r, Written(r, past)'))
      BY <1>4, <2>1, <2>3, <2>4
    <2>6. Log(view'[r].audit) = Log(database'.audit) \o Filed(r, Logged(r, past)')
      BY <1>4, <2>1, <2>3
    <2>. QED BY <1>4, <2>1, <2>5, <2>6 DEF Content
  <1>7. Exclusive'
    BY <1>4 DEF AtomicInv, Exclusive
  <1>. QED
    BY <1>4, <1>5, <1>6, <1>7, OwnStep

\* Reading the last hash changes nothing that counts.
LEMMA ReadTipAtomic ==
    ASSUME AtomicInv, StoreInv', NEW r \in Requests, ReadTip(r)
    PROVE  AtomicInv'
  <1>1. stage \in [Requests -> Stages]
    BY DEF AtomicInv, StoreInv, TypeOK
  <1>2. /\ stage[r] = "reading" /\ Place(r) /\ Kind(r) /\ Content(r)
    BY DEF AtomicInv, ReadTip
  <1>3. /\ stage'[r] = "appending"
        /\ \A q \in Requests \ {r} : stage'[q] = stage[q]
        /\ UNCHANGED <<database, view, depth, holder, section, answer, up>>
    BY <1>1 DEF ReadTip
  <1>4. Place(r)' /\ Kind(r)'
    BY <1>2, <1>3 DEF Place, Kind, Local, Inner, Inside, Outside
  <1>5. Content(r)'
    BY <1>2, <1>3 DEF Content, Logged, Written
  <1>6. Exclusive'
    BY <1>3 DEF AtomicInv, Exclusive
  <1>. QED
    BY <1>3, <1>4, <1>5, <1>6, OwnStep

\* The entry follows the rows of its section, except for a refusal, which
\* has none.
LEMMA AppendEntryAtomic ==
    ASSUME AtomicInv, StoreInv', NEW r \in Requests, AppendEntry(r)
    PROVE  AtomicInv'
  <1>1. /\ depth \in [Requests -> 0..2] /\ stage \in [Requests -> Stages]
        /\ view \in [Requests -> Databases] /\ section[r] \in Sections
        /\ tip[r] \in Seq(AuditEntries) /\ database \in Databases
    BY DEF AtomicInv, StoreInv, TypeOK
  <1>2. /\ stage[r] = "appending" /\ Place(r) /\ Kind(r) /\ Content(r)
    BY DEF AtomicInv, AppendEntry
  <1>3. depth[r] \in {1, 2} /\ section[r] \in Local \cup Inner
    BY <1>2 DEF Place, Outside
  <1>. PICK row : row = Linked(tip[r], <<r, section[r]>>)
    OBVIOUS
  <1>4. row \in AuditRows /\ row.entry = <<r, section[r]>>
    <2>1. <<r, section[r]>> \in AuditEntries
      BY <1>1 DEF AuditEntries
    <2>2. row \in AuditRows
      BY <1>1, <2>1, LinkedIsRow
    <2>. QED BY <2>2 DEF Linked
  <1>5. /\ stage'[r] = "leaving"
        /\ view'[r].rows = view[r].rows
        /\ view'[r].audit = Append(view[r].audit, row)
        /\ \A q \in Requests \ {r} : view'[q] = view[q] /\ stage'[q] = stage[q]
        /\ UNCHANGED <<database, depth, holder, section, answer, up>>
    BY <1>1 DEF AppendEntry, Databases
  <1>6. Place(r)' /\ Kind(r)'
    BY <1>2, <1>3, <1>5 DEF Place, Kind, Local, Inner, Inside, Outside
  <1>7. Content(r)'
    <2>1. PICK past \in Pasts(section[r]) :
            /\ Log(view[r].audit)
                  = Log(database.audit) \o Filed(r, Logged(r, past))
            /\ view[r].rows
                  = database.rows \cup Known(Filed(r, Written(r, past)))
      BY <1>2, <1>3 DEF Content
    <2>2. past \in Seq(Sections)
      BY <1>1, PastsGrow
    <2>3. /\ Logged(r, past) = past
          /\ Logged(r, past)' = Append(past, section[r])
          /\ Written(r, past)' = Written(r, past)
      BY <1>2, <1>3, <1>5 DEF Logged, Written, Local, Inner
    <2>4. view[r].audit \in Seq(AuditRows) /\ Log(database.audit) \in Seq(AuditEntries)
      BY <1>1, LogIsSeq DEF Databases
    <2>5. Log(view'[r].audit) = Log(database'.audit) \o Filed(r, Logged(r, past)')
      <3>1. Log(view[r].audit) = Log(database.audit) \o Filed(r, past)
        BY <2>1, <2>3
      <3>2. Log(Append(view[r].audit, row))
               = Log(database.audit) \o Filed(r, Append(past, section[r]))
        BY <1>1, <1>4, <2>2, <2>4, <3>1, LogExtended
      <3>. QED BY <1>5, <2>3, <3>2
    <2>6. view'[r].rows = database'.rows \cup Known(Filed(r, Written(r, past)'))
      BY <1>5, <2>1, <2>3
    <2>. QED BY <1>5, <2>1, <2>5, <2>6 DEF Content
  <1>8. Exclusive'
    BY <1>5 DEF AtomicInv, Exclusive
  <1>. QED
    BY <1>5, <1>6, <1>7, <1>8, OwnStep

\* A wait that ends in vain, an answer of the terminal and a reply.
LEMMA WaitAtomic ==
    ASSUME AtomicInv, StoreInv', NEW r \in Requests,
           TimeOut(r) \/ TerminalReturns(r) \/ Reply(r)
    PROVE  AtomicInv'
  <1>1. stage \in [Requests -> Stages] /\ answer \in [Requests -> {0, 200, 400, 503}]
    BY DEF AtomicInv, StoreInv, TypeOK
  <1>2. Place(r) /\ Kind(r) /\ Content(r) /\ Exclusive
    BY DEF AtomicInv
  <1>3. UNCHANGED <<database, view, depth, holder, section, up>>
    BY DEF TimeOut, TerminalReturns, Reply
  <1>4. \A q \in Requests \ {r} : stage'[q] = stage[q] /\ answer'[q] = answer[q]
    BY <1>1 DEF TimeOut, TerminalReturns, Reply
  <1>5. \/ /\ stage[r] = "entering" /\ depth[r] = 0 /\ stage'[r] = "replying"
           /\ answer'[r] = 503
        \/ /\ stage[r] = "calling" /\ stage'[r] = "entering"
           /\ answer'[r] = answer[r]
        \/ /\ stage[r] = "replying" /\ stage'[r] = "answered"
           /\ answer'[r] = answer[r]
    BY <1>1 DEF TimeOut, TerminalReturns, Reply
  <1>6. Place(r)' /\ Kind(r)'
    BY <1>2, <1>3, <1>5 DEF Place, Kind, Local, Inner, Inside, Outside
  <1>7. Content(r)'
    BY <1>2, <1>3, <1>5 DEF Content, Place, Inside, Logged, Written
  <1>8. answer'[r] = answer[r] \/ (answer[r] = 0 /\ answer'[r] = 503)
    BY <1>2, <1>5 DEF Kind
  <1>9. Exclusive'
    BY <1>2, <1>3 DEF Exclusive
  <1>. QED
    BY <1>3, <1>4, <1>6, <1>7, <1>8, <1>9, OwnStep

\* A rollback frees the lock and leaves what is committed.
LEMMA RaiseAtomic ==
    ASSUME AtomicInv, StoreInv', NEW r \in Requests, Raise(r)
    PROVE  AtomicInv'
  <1>1. /\ depth \in [Requests -> 0..2] /\ stage \in [Requests -> Stages]
        /\ view \in [Requests -> Databases] /\ section \in [Requests -> Sections]
        /\ answer \in [Requests -> {0, 200, 400, 503}]
    BY DEF AtomicInv, StoreInv, TypeOK
  <1>2. /\ Place(r) /\ Kind(r) /\ depth[r] > 0 /\ stage[r] # "calling"
        /\ Exclusive
    BY DEF AtomicInv, Raise, RollBackRefused, RollBackFailed, MayRaise
  <1>3. holder = r /\ answer[r] = 0 /\ up
    BY <1>1, <1>2 DEF Exclusive, Place, Kind, Inside
  <1>4. /\ holder' = Nobody /\ depth'[r] = 0
        /\ \A q \in Requests \ {r} : depth'[q] = depth[q] /\ view'[q] = view[q]
        /\ UNCHANGED <<database, up>>
    BY <1>1 DEF Raise, RollBackRefused, RollBackFailed, Closed
  <1>5. \A q \in Requests \ {r} : /\ stage'[q] = stage[q]
                                 /\ section'[q] = section[q]
                                 /\ answer'[q] = answer[q]
    BY <1>1 DEF Raise, RollBackRefused, RollBackFailed
  <1>6. \/ stage'[r] = "entering" /\ section'[r] = "refusal" /\ answer'[r] = answer[r]
        \/ stage'[r] = "replying" /\ section'[r] = section[r] /\ answer'[r] = 503
    BY <1>1 DEF Raise, RollBackRefused, RollBackFailed
  <1>7. Place(r)' /\ Kind(r)' /\ Content(r)'
    BY <1>2, <1>3, <1>4, <1>6
       DEF Place, Kind, Content, Local, Inner, Inside, Outside
  <1>8. Exclusive'
    BY <1>1, <1>2, <1>3, <1>4, StoreAssumption DEF Exclusive
  <1>. QED
    BY <1>3, <1>4, <1>5, <1>6, <1>7, <1>8, OwnStep

\* What is committed: the history of the whole request, or its refusal.
LEMMA CommitFiles ==
    ASSUME AtomicInv, NEW r \in Requests, Commit(r)
    PROVE  /\ answer[r] = 0 /\ holder = r
           /\ \/ /\ section[r] = "refusal" /\ database'.rows = database.rows
                 /\ Log(database'.audit)
                       = Append(Log(database.audit), <<r, "refusal">>)
              \/ \E history \in Promise!Histories(r) :
                    /\ section[r] # "refusal" /\ history # << >>
                    /\ history \in Seq(Sections)
                    /\ Log(database'.audit)
                          = Log(database.audit) \o Filed(r, history)
                    /\ database'.rows
                          = database.rows \cup Known(Filed(r, history))
  <1>1. /\ stage[r] = "leaving" /\ depth[r] = 1 /\ database' = view[r]
        /\ Place(r) /\ Kind(r) /\ Content(r) /\ Exclusive
    BY DEF AtomicInv, Commit
  <1>2. answer[r] = 0 /\ holder = r
    BY <1>1 DEF Kind, Inside, Exclusive
  <1>3. section[r] \in {"change", "refusal", "done"}
    BY <1>1 DEF Place, Local, Outside
  <1>4. section[r] \in Sections /\ Log(database.audit) \in Seq(AuditEntries)
    BY LogIsSeq DEF AtomicInv, StoreInv, TypeOK, Databases
  <1>5. PICK past \in Pasts(section[r]) :
          /\ Log(view[r].audit)
                = Log(database.audit) \o Filed(r, Logged(r, past))
          /\ view[r].rows
                = database.rows \cup Known(Filed(r, Written(r, past)))
    BY <1>1 DEF Content
  <1>6. past \in Seq(Sections)
    BY <1>4, PastsGrow
  <1>7. CASE section[r] = "refusal"
    <2>1. past = << >>
      BY <1>5, <1>7, Zenon DEF Pasts
    <2>2. Logged(r, past) = Append(past, "refusal") /\ Written(r, past) = << >>
      BY <1>1, <1>7 DEF Logged, Written
    <2>3. Filed(r, Append(past, "refusal")) = Append(<< >>, <<r, "refusal">>)
      BY <1>4, <1>6, <1>7, <2>1, FiledAppended, NothingFiled
    <2>4. Log(view[r].audit)
             = Log(database.audit) \o Append(<< >>, <<r, "refusal">>)
      BY <1>5, <2>2, <2>3
    <2>5. <<r, "refusal">> \in AuditEntries
      BY <1>4, <1>7 DEF AuditEntries
    <2>6. Log(view[r].audit) = Append(Log(database.audit) \o << >>, <<r, "refusal">>)
      BY <1>4, <2>4, <2>5, AppendToJoined, EmptySeq
    <2>7. Log(database.audit) \o << >> = Log(database.audit)
      BY <1>4, ConcatEmptySeq
    <2>8. view[r].rows = database.rows
      BY <1>5, <2>2, NothingFiled
    <2>. QED BY <1>1, <1>2, <1>7, <2>6, <2>7, <2>8
  <1>8. CASE section[r] = "change"
    <2>1. past = << >> /\ r \notin Bridge
      BY <1>1, <1>5, <1>8, Zenon DEF Pasts, Kind
    <2>2. Logged(r, past) = Append(past, "change") /\ Written(r, past) = Append(past, "change")
      BY <1>1, <1>8 DEF Logged, Written
    <2>3. Append(past, "change") = <<"change">>
      BY <2>1
    <2>4. <<"change">> \in Promise!Histories(r) /\ <<"change">> # << >>
          /\ <<"change">> \in Seq(Sections)
      BY <2>1, <1>4, <1>8 DEF Promise!Histories
    <2>. QED BY <1>1, <1>2, <1>5, <1>8, <2>2, <2>3, <2>4
  <1>9. CASE section[r] = "done"
    <2>1. r \in Bridge
      BY <1>1, <1>9 DEF Kind
    <2>2. past \in Promise!Histories(r) /\ past # << >>
      <3>1. past \in { <<"intake">>, <<"intake", "blocked">>,
                       <<"intake", "evidence", "blocked">>,
                       <<"intake", "evidence", "verdict", "journal">> }
        BY <1>5, <1>9, Zenon DEF Pasts
      <3>. QED BY <2>1, <3>1 DEF Promise!Histories
    <2>3. Logged(r, past) = past /\ Written(r, past) = past
      BY <1>1, <1>9 DEF Logged, Written
    <2>. QED BY <1>1, <1>2, <1>5, <1>6, <1>9, <2>2, <2>3
  <1>. QED BY <1>3, <1>7, <1>8, <1>9

\* What a log knows of its entries.
LEMMA LogKnows ==
    ASSUME NEW audit
    PROVE  {audit[i].entry : i \in DOMAIN audit} = Known(Log(audit))
  BY DEF Known, Log

\* An entry appended is one entry more to know.
LEMMA KnownAppended ==
    ASSUME NEW S, NEW log \in Seq(S), NEW e \in S
    PROVE  Known(Append(log, e)) = Known(log) \cup {e}
  <1>1. /\ Append(log, e) = log \o <<e>> /\ <<e>> \in Seq(S)
    <2>1. Append(log, e) \in Seq(S) /\ log \o <<e>> \in Seq(S)
      OBVIOUS
    <2>2. Len(Append(log, e)) = Len(log) + 1 /\ Len(log \o <<e>>) = Len(log) + 1
      OBVIOUS
    <2>3. \A i \in 1..(Len(log) + 1) : Append(log, e)[i] = (log \o <<e>>)[i]
      OBVIOUS
    <2>. QED BY <2>1, <2>2, <2>3, SeqEqual
  <1>2. Known(<<e>>) = {e}
    BY DEF Known
  <1>3. Known(log \o <<e>>) = Known(log) \cup Known(<<e>>)
    BY <1>1, KnownJoined
  <1>. QED BY <1>1, <1>2, <1>3

\* A commit puts the whole of one request into the database, of which it
\* held nothing, and tells so.
LEMMA CommitAtomic ==
    ASSUME AtomicInv, StoreInv', NEW r \in Requests, Commit(r)
    PROVE  AtomicInv'
  <1>1. /\ depth \in [Requests -> 0..2] /\ stage \in [Requests -> Stages]
        /\ section[r] \in Sections /\ answer \in [Requests -> {0, 200, 400, 503}]
        /\ Log(database.audit) \in Seq(AuditEntries)
    BY LogIsSeq DEF AtomicInv, StoreInv, TypeOK, Databases
  <1>2. /\ stage[r] = "leaving" /\ depth[r] = 1
        /\ Place(r) /\ Kind(r) /\ Exclusive /\ Told(r)
    BY ToldTrue DEF AtomicInv, Commit
  <1>3. answer[r] = 0 /\ holder = r
    BY CommitFiles
  <1>4. /\ holder' = Nobody /\ depth'[r] = 0 /\ stage'[r] = "replying"
        /\ answer'[r] = IF section[r] = "refusal" THEN 400 ELSE 200
        /\ \A q \in Requests \ {r} : /\ depth'[q] = depth[q]
                                     /\ stage'[q] = stage[q]
                                     /\ answer'[q] = answer[q]
        /\ UNCHANGED <<section, up>>
    BY <1>1 DEF Commit, Closed
  <1>5. \A q \in Requests : depth'[q] = 0
    BY <1>1, <1>2, <1>3, <1>4 DEF Exclusive
  <1>6. \A q \in Requests : (Place(q) /\ Kind(q) /\ Content(q))'
    <2>1. Place(r)' /\ Kind(r)'
      BY <1>2, <1>4 DEF Place, Kind, Local, Inner, Inside, Outside
    <2>2. ASSUME NEW q \in Requests \ {r} PROVE Place(q)' /\ Kind(q)'
      <3>1. Place(q) /\ Kind(q)
        BY DEF AtomicInv
      <3>. QED BY <1>4, <3>1 DEF Place, Kind
    <2>3. \A q \in Requests : Content(q)'
      BY <1>5 DEF Content
    <2>. QED BY <2>1, <2>2, <2>3
  <1>7. Exclusive'
    BY <1>4, <1>5, StoreAssumption DEF Exclusive
  <1>8. /\ \A q \in Requests :
               EntriesOf(q) = {e \in Known(Log(database.audit)) : e[1] = q}
        /\ \A q \in Requests :
               EntriesOf(q)' = {e \in Known(Log(database'.audit)) : e[1] = q}
    BY LogKnows DEF EntriesOf
  <1>9. RowsOf(r) = {} /\ EntriesOf(r) = {}
    BY <1>2, <1>3 DEF Told
  <1>10. ASSUME NEW new, Known(Log(database'.audit)) = Known(Log(database.audit)) \cup new,
                \A e \in new : e[1] = r
         PROVE  /\ EntriesOf(r)' = new
                /\ \A q \in Requests \ {r} : EntriesOf(q)' = EntriesOf(q)
    <2>1. /\ EntriesOf(r) = {e \in Known(Log(database.audit)) : e[1] = r}
          /\ EntriesOf(r)' = {e \in Known(Log(database'.audit)) : e[1] = r}
      BY <1>8
    <2>2. EntriesOf(r)' = EntriesOf(r) \cup new
      BY <1>10, <2>1
    <2>3. ASSUME NEW q \in Requests \ {r} PROVE EntriesOf(q)' = EntriesOf(q)
      <3>1. /\ EntriesOf(q) = {e \in Known(Log(database.audit)) : e[1] = q}
            /\ EntriesOf(q)' = {e \in Known(Log(database'.audit)) : e[1] = q}
        BY <1>8
      <3>2. \A e \in new : e[1] # q
        BY <1>10
      <3>. QED BY <1>10, <3>1, <3>2
    <2>. QED BY <1>9, <2>2, <2>3
  <1>11. ASSUME NEW new, database'.rows = database.rows \cup new,
                \A row \in new : row[1] = r
         PROVE  /\ RowsOf(r)' = new
                /\ \A q \in Requests \ {r} : RowsOf(q)' = RowsOf(q)
    BY <1>9, <1>11 DEF RowsOf
  <1>12. /\ Told(r)'
         /\ \A q \in Requests \ {r} : /\ RowsOf(q)' = RowsOf(q)
                                      /\ EntriesOf(q)' = EntriesOf(q)
    <2>1. CASE /\ section[r] = "refusal" /\ database'.rows = database.rows
               /\ Log(database'.audit)
                     = Append(Log(database.audit), <<r, "refusal">>)
      <3>1. <<r, "refusal">> \in AuditEntries
        BY <1>1, <2>1 DEF AuditEntries
      <3>2. Known(Log(database'.audit)) = Known(Log(database.audit)) \cup {<<r, "refusal">>}
        BY <1>1, <2>1, <3>1, KnownAppended
      <3>3. /\ EntriesOf(r)' = {<<r, "refusal">>}
            /\ \A q \in Requests \ {r} : EntriesOf(q)' = EntriesOf(q)
        <4>. PICK new : new = {<<r, "refusal">>}
          OBVIOUS
        <4>1. \A e \in new : e[1] = r
          OBVIOUS
        <4>2. Known(Log(database'.audit)) = Known(Log(database.audit)) \cup new
          BY <3>2
        <4>3. /\ EntriesOf(r)' = new
              /\ \A q \in Requests \ {r} : EntriesOf(q)' = EntriesOf(q)
          BY <1>10, <4>1, <4>2
        <4>. QED BY <4>3
      <3>4. \A q \in Requests : RowsOf(q)' = RowsOf(q)
        BY <2>1 DEF RowsOf
      <3>. QED BY <1>4, <1>9, <2>1, <3>3, <3>4 DEF Told
    <2>2. ASSUME NEW history \in Promise!Histories(r),
                 section[r] # "refusal", history # << >>,
                 history \in Seq(Sections),
                 Log(database'.audit) = Log(database.audit) \o Filed(r, history),
                 database'.rows = database.rows \cup Known(Filed(r, history))
          PROVE  /\ Told(r)'
                 /\ \A q \in Requests \ {r} : /\ RowsOf(q)' = RowsOf(q)
                                              /\ EntriesOf(q)' = EntriesOf(q)
      <3>. DEFINE new == Known(Filed(r, history))
      <3>1. Known(Log(database'.audit)) = Known(Log(database.audit)) \cup new
        BY <1>1, <2>2, FiledAppended, KnownJoined
      <3>2. \A e \in new : e[1] = r
        BY DEF Known, Filed
      <3>3. new # {}
        <4>1. 1 \in DOMAIN history
          BY <2>2
        <4>. QED BY <4>1 DEF Known, Filed
      <3>4. database'.rows = database.rows \cup new
        BY <2>2
      <3>. HIDE DEF new
      <3>5. /\ EntriesOf(r)' = new
            /\ \A q \in Requests \ {r} : EntriesOf(q)' = EntriesOf(q)
        BY <1>10, <3>1, <3>2
      <3>6. /\ RowsOf(r)' = new
            /\ \A q \in Requests \ {r} : RowsOf(q)' = RowsOf(q)
        BY <1>11, <3>2, <3>4
      <3>7. answer'[r] = 200
        BY <1>4, <2>2
      <3>. QED BY <3>3, <3>5, <3>6, <3>7 DEF Told
    <2>. QED BY <2>1, <2>2, CommitFiles
  <1>13. \A q \in Requests \ {r} : Told(q)'
    BY <1>4, <1>12, ToldTrue DEF AtomicInv, Told
  <1>14. AnswersTrue'
    BY <1>12, <1>13 DEF AnswersTrue, Told
  <1>. QED BY <1>6, <1>7, <1>14 DEF AtomicInv

\* A crash takes every thread and the lock, and nothing that was committed.
LEMMA CrashAtomic ==
    ASSUME AtomicInv, StoreInv', Crash
    PROVE  AtomicInv'
  <1>1. /\ \A q \in Requests : depth'[q] = 0
        /\ \A q \in Requests :
              stage'[q] = IF stage[q] \in {"idle", "answered"} THEN stage[q]
                                                              ELSE "lost"
        /\ holder' = Nobody /\ up' = FALSE
        /\ UNCHANGED <<database, section, answer>>
    BY DEF Crash
  <1>2. ASSUME NEW q \in Requests
        PROVE  (Place(q) /\ Kind(q) /\ Content(q))'
    <2>1. Kind(q)
      BY DEF AtomicInv
    <2>2. stage'[q] \in {"idle", "answered", "lost"}
      BY <1>1
    <2>3. Place(q)' /\ Content(q)'
      BY <1>1, <2>2 DEF Place, Content, Outside
    <2>4. Kind(q)'
      BY <1>1, <2>1, <2>2 DEF Kind, Inside
    <2>. QED BY <2>3, <2>4
  <1>3. Exclusive'
    BY <1>1, StoreAssumption DEF Exclusive
  <1>4. AnswersTrue'
    BY <1>1 DEF AtomicInv, AnswersTrue, RowsOf, EntriesOf
  <1>. QED BY <1>2, <1>3, <1>4 DEF AtomicInv

\* A restart files an entry that is nobody's, while there is no thread.
LEMMA RestartFiles ==
    ASSUME StoreInv, Restart
    PROVE  /\ database'.rows = database.rows
           /\ Log(database'.audit) = Append(Log(database.audit), Started)
  <1>1. database \in Databases /\ database.audit \in Seq(AuditRows)
    BY DEF StoreInv, TypeOK, Databases
  <1>. PICK row : row = Linked(Tip(database.audit), Started)
    OBVIOUS
  <1>2. row \in AuditRows /\ row.entry = Started
    <2>1. row \in AuditRows
      BY <1>1, TipIsHash, StartedIsEntry, LinkedIsRow
    <2>. QED BY <2>1 DEF Linked
  <1>3. /\ database'.rows = database.rows
        /\ database'.audit = Append(database.audit, row)
    BY <1>1 DEF Restart, Audited, Databases
  <1>. QED BY <1>1, <1>2, <1>3, LogAppended

\* So a restart tells no request anything false.
LEMMA RestartAtomic ==
    ASSUME AtomicInv, StoreInv', Restart
    PROVE  AtomicInv'
  <1>1. /\ ~up /\ up' = TRUE
        /\ UNCHANGED <<view, holder, depth, stage, section, tip, answer>>
    BY DEF Restart
  <1>2. \A q \in Requests : Place(q) /\ Kind(q)
    BY DEF AtomicInv
  <1>3. \A q \in Requests : depth[q] = 0
    BY <1>1, <1>2 DEF Place, Kind, Inside
  <1>4. \A q \in Requests : (Place(q) /\ Kind(q) /\ Content(q))'
    BY <1>1, <1>2, <1>3 DEF Place, Kind, Content
  <1>5. Exclusive'
    BY <1>1 DEF AtomicInv, Exclusive
  <1>6. \A q \in Requests : RowsOf(q)' = RowsOf(q) /\ EntriesOf(q)' = EntriesOf(q)
    <2>1. /\ \A q \in Requests :
                EntriesOf(q) = {e \in Known(Log(database.audit)) : e[1] = q}
          /\ \A q \in Requests :
                EntriesOf(q)' = {e \in Known(Log(database'.audit)) : e[1] = q}
      BY LogKnows DEF EntriesOf
    <2>2. Log(database.audit) \in Seq(AuditEntries)
      BY LogIsSeq DEF AtomicInv, StoreInv, TypeOK, Databases
    <2>3. Known(Log(database'.audit)) = Known(Log(database.audit)) \cup {Started}
      <3>1. Log(database'.audit) = Append(Log(database.audit), Started)
        BY RestartFiles DEF AtomicInv
      <3>2. Known(Append(Log(database.audit), Started))
               = Known(Log(database.audit)) \cup {Started}
        BY <2>2, StartedIsEntry, KnownAppended
      <3>. QED BY <3>1, <3>2
    <2>4. \A q \in Requests : Started[1] # q
      BY StoreAssumption DEF Started
    <2>5. \A q \in Requests : RowsOf(q)' = RowsOf(q)
      BY RestartFiles DEF AtomicInv, RowsOf
    <2>6. \A q \in Requests : EntriesOf(q)' = EntriesOf(q)
      BY <2>1, <2>3, <2>4
    <2>. QED BY <2>5, <2>6
  <1>7. AnswersTrue'
    BY <1>1, <1>6, ToldTrue DEF AtomicInv, AnswersTrue, Told
  <1>. QED BY <1>4, <1>5, <1>7 DEF AtomicInv

\* A stuttering step changes nothing.
LEMMA StutterAtomic ==
    ASSUME AtomicInv, StoreInv', UNCHANGED vars
    PROVE  AtomicInv'
  <1>1. (\A r \in Requests : Place(r) /\ Kind(r))'
    BY DEF AtomicInv, Place, Kind, vars
  <1>2. (\A r \in Requests : Content(r))'
    BY DEF AtomicInv, Content, Logged, Written, vars
  <1>3. Exclusive' /\ AnswersTrue'
    BY DEF AtomicInv, Exclusive, AnswersTrue, RowsOf, EntriesOf, vars
  <1>. QED BY <1>1, <1>2, <1>3 DEF AtomicInv

\* Appending an entry to a database appends it to its log.
LEMMA AuditedLogs ==
    ASSUME NEW db \in Databases, NEW entry \in AuditEntries
    PROVE  /\ Audited(db, entry).rows = db.rows
           /\ Log(Audited(db, entry).audit) = Append(Log(db.audit), entry)
  <1>1. db.audit \in Seq(AuditRows)
    BY DEF Databases
  <1>. PICK row : row = Linked(Tip(db.audit), entry)
    OBVIOUS
  <1>2. row \in AuditRows /\ row.entry = entry
    <2>1. row \in AuditRows
      BY <1>1, TipIsHash, LinkedIsRow
    <2>. QED BY <2>1 DEF Linked
  <1>3. /\ Audited(db, entry).rows = db.rows
        /\ Audited(db, entry).audit = Append(db.audit, row)
    BY DEF Audited, Databases
  <1>. QED BY <1>1, <1>2, <1>3, LogAppended

\* The first start files two entries and no rows.
LEMMA InitFiles ==
    ASSUME Init
    PROVE  database.rows = {} /\ Log(database.audit) = << Started, Started >>
  <1>. PICK first : first = Audited(Empty, Started)
    OBVIOUS
  <1>1. first \in Databases
    BY EmptyVerifies, StartedIsEntry, AuditedVerifies
  <1>2. Empty.rows = {} /\ Log(Empty.audit) = << >>
    <2>1. Empty.audit = << >> /\ Empty.rows = {}
      BY DEF Empty
    <2>2. Log(<< >>) \in [1..0 -> AuditEntries]
      BY DEF Log
    <2>3. Log(<< >>) = << >>
      BY <2>2, SeqDef, EmptySeq
    <2>. QED BY <2>1, <2>3
  <1>3. first.rows = {} /\ Log(first.audit) = Append(<< >>, Started)
    BY <1>2, EmptyVerifies, StartedIsEntry, AuditedLogs
  <1>4. database = Audited(first, Started)
    BY DEF Init
  <1>5. /\ database.rows = {}
        /\ Log(database.audit) = Append(Append(<< >>, Started), Started)
    BY <1>1, <1>3, <1>4, StartedIsEntry, AuditedLogs
  <1>6. Append(<< >>, Started) = << Started >>
    OBVIOUS
  <1>7. Append(<< Started >>, Started) = << Started, Started >>
    BY StartedIsEntry, AppendToOne
  <1>. QED BY <1>5, <1>6, <1>7

\* The first start: no thread, and nothing of any request.
LEMMA InitAtomic == Init => AtomicInv
  <1>. SUFFICES ASSUME Init PROVE AtomicInv
    OBVIOUS
  <1>1. StoreInv
    BY InitInv
  <1>2. ASSUME NEW r \in Requests PROVE Place(r) /\ Kind(r) /\ Content(r)
    BY DEF Init, Place, Kind, Content, Outside, Inside, Inner, Local
  <1>3. Exclusive
    <2>1. ASSUME NEW r \in Requests PROVE ~ depth[r] > 0 /\ holder # r
      <3>1. depth[r] = 0 /\ holder = Nobody
        BY DEF Init
      <3>. QED BY <3>1, StoreAssumption
    <2>. QED BY <2>1, Zenon DEF Exclusive
  <1>4. AnswersTrue
    <2>1. ASSUME NEW r \in Requests PROVE RowsOf(r) = {} /\ EntriesOf(r) = {}
      <3>1. RowsOf(r) = {}
        BY InitFiles DEF RowsOf
      <3>2. EntriesOf(r) = {e \in Known(<< Started, Started >>) : e[1] = r}
        BY InitFiles, LogKnows DEF EntriesOf
      <3>3. Known(<< Started, Started >>) = {Started}
        BY DEF Known
      <3>4. Started[1] # r
        BY StoreAssumption DEF Started
      <3>. QED BY <3>1, <3>2, <3>3, <3>4
    <2>2. \A r \in Requests : answer[r] = 0
      BY DEF Init
    <2>3. ASSUME NEW r \in Requests PROVE Told(r)
      <3>1. answer[r] = 0 /\ RowsOf(r) = {} /\ EntriesOf(r) = {}
        BY <2>1, <2>2
      <3>. QED BY <3>1 DEF Told
    <2>. QED BY <2>3, ToldTrue
  <1>. QED BY <1>1, <1>2, <1>3, <1>4 DEF AtomicInv

\* Every step preserves the invariant.
LEMMA StepAtomic == AtomicInv /\ [Next]_vars => AtomicInv'
  <1>. SUFFICES ASSUME AtomicInv, [Next]_vars PROVE AtomicInv'
    OBVIOUS
  <1>0. StoreInv'
    BY StepInv DEF AtomicInv
  <1>1. ASSUME NEW r \in Requests, Arrive(r) \/ ArriveMalformed(r) PROVE AtomicInv'
    BY <1>0, <1>1, ArriveAtomic
  <1>2. ASSUME NEW r \in Requests, AwaitLock(r) PROVE AtomicInv'
    BY <1>0, <1>2, BeginAtomic, WaitAtomic DEF AwaitLock
  <1>3. ASSUME NEW r \in Requests, Proceed(r) PROVE AtomicInv'
    BY <1>0, <1>3, NestAtomic, WriteAtomic, ReadTipAtomic, AppendEntryAtomic,
       LeaveInnerAtomic, CommitAtomic, WaitAtomic DEF Proceed
  <1>4. ASSUME NEW r \in Requests, TerminalReturns(r) PROVE AtomicInv'
    BY <1>0, <1>4, WaitAtomic
  <1>5. ASSUME NEW r \in Requests, Raise(r) PROVE AtomicInv'
    BY <1>0, <1>5, RaiseAtomic
  <1>6. CASE Crash
    BY <1>0, <1>6, CrashAtomic
  <1>7. CASE Restart
    BY <1>0, <1>7, RestartAtomic
  <1>8. CASE UNCHANGED vars
    BY <1>0, <1>8, StutterAtomic
  <1>. QED BY <1>1, <1>2, <1>3, <1>4, <1>5, <1>6, <1>7, <1>8 DEF Next

----------------------------------------------------------------------------
(* The refinement *)

\* A commit is one step of the promise.
LEMMA CommitServes ==
    ASSUME AtomicInv, NEW r \in Requests, Commit(r)
    PROVE  Promise!Next
  <1>1. answer[r] = 0 /\ EntriesOf(r) = {}
    BY CommitFiles, ToldTrue DEF AtomicInv, Told
  <1>2. ~Promise!Handled(r)
    BY <1>1 DEF EntriesOf, Promise!Handled
  <1>3. CASE /\ section[r] = "refusal" /\ database'.rows = database.rows
             /\ Log(database'.audit)
                   = Append(Log(database.audit), <<r, "refusal">>)
    <2>1. Promise!Refuse(r)
      BY <1>2, <1>3 DEF Promise!Refuse, Log
    <2>. QED BY <2>1 DEF Promise!Next
  <1>4. ASSUME NEW history \in Promise!Histories(r),
               Log(database'.audit) = Log(database.audit) \o Filed(r, history),
               database'.rows = database.rows \cup Known(Filed(r, history))
        PROVE  Promise!Next
    <2>1. Filed(r, history) = Promise!Entries(r, history)
      BY DEF Filed, Promise!Entries
    <2>2. Known(Filed(r, history)) = {<<r, history[i]>> : i \in DOMAIN history}
      BY DEF Known, Filed
    <2>3. Promise!Serve(r)
      BY <1>2, <1>4, <2>1, <2>2 DEF Promise!Serve, Log
    <2>. QED BY <2>3 DEF Promise!Next
  <1>. QED BY <1>3, <1>4, CommitFiles

\* A restart is a start of the promise.
LEMMA RestartStarts ==
    ASSUME AtomicInv, Restart
    PROVE  Promise!Next
  <1>1. Promise!Start
    BY RestartFiles DEF AtomicInv, Promise!Start, Promise!Started, Started, Log
  <1>. QED BY <1>1 DEF Promise!Next

\* Every step of the store is a step of the promise or none.
LEMMA StepPromises ==
    ASSUME AtomicInv, [Next]_vars
    PROVE  [Promise!Next]_Promise!vars
  <1>1. ASSUME NEW r \in Requests, Commit(r) PROVE Promise!Next
    BY <1>1, CommitServes
  <1>2. CASE Restart
    BY <1>2, RestartStarts
  <1>3. ASSUME UNCHANGED database PROVE UNCHANGED Promise!vars
    BY <1>3 DEF Promise!vars
  <1>4. ASSUME NEW r \in Requests,
               \/ Arrive(r) \/ ArriveMalformed(r) \/ AwaitLock(r) \/ Nest(r)
               \/ Write(r) \/ ReadTip(r) \/ AppendEntry(r) \/ LeaveInner(r)
               \/ Reply(r) \/ TerminalReturns(r) \/ Raise(r)
        PROVE  UNCHANGED database
    BY <1>4 DEF Arrive, ArriveMalformed, AwaitLock, Begin, TimeOut, Nest, Write,
       ReadTip, AppendEntry, LeaveInner, Reply, TerminalReturns, Raise,
       RollBackRefused, RollBackFailed
  <1>5. CASE Crash \/ UNCHANGED vars
    BY <1>3, <1>5 DEF Crash, vars
  <1>. QED BY <1>1, <1>2, <1>3, <1>4, <1>5 DEF Next, Proceed

----------------------------------------------------------------------------
(* Theorems about what is committed *)

\* The invariant of the lock holds in every reachable state.
LEMMA AtomicInvHolds == Spec => []AtomicInv
  BY InitAtomic, StepAtomic, PTL DEF Spec

\* An answer is true for any number of requests and crashes: 200 means that
\* all of the request's rows and entries are committed, 400 that only the
\* note of the refusal is, 503 that nothing is.
THEOREM StoreAnswersTrue == Spec => []AnswersTrue
  <1>1. AtomicInv => AnswersTrue
    BY DEF AtomicInv
  <1>. QED BY <1>1, AtomicInvHolds, PTL

\* The store under threads, nesting, rollbacks, timeouts and crashes
\* implements the atomic store.
THEOREM StoreIsAtomic == Spec => ImplementsAtomicStore
  <1>1. Init => Promise!Init
    BY InitFiles DEF Promise!Init, Promise!Started, Started, Log
  <1>2. AtomicInv /\ [Next]_vars => [Promise!Next]_Promise!vars
    BY StepPromises
  <1>. QED
    BY <1>1, <1>2, AtomicInvHolds, PTL DEF Spec, ImplementsAtomicStore, Promise!Spec
=============================================================================
