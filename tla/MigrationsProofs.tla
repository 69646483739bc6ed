--------------------------- MODULE MigrationsProofs ---------------------------
(***************************************************************************)
(* Proofs about Migrations, for any processes, versions and scripts.       *)
(*                                                                         *)
(* The schema only grows, so what a process has read as applied stays so.  *)
(* That is why a stale reading does no harm: the script it makes a process *)
(* run again fails on its first statement, and a script that does run to   *)
(* its end is the smallest missing one, added as a whole.                  *)
(***************************************************************************)
EXTENDS Migrations, WellFoundedInduction, TLAPS

\* A process in the first script has what its earlier statements created.
FirstPart ==
    \A p \in Processes : pc[p] = "first" =>
        /\ step[p] \in 1 .. Statements[1]
        /\ \A i \in 1 .. Statements[1] : i < step[p] => <<1, i>> \in schema

Transactions == {"inside", "seeding", "loading", "busy"}

\* Who is in a transaction is who holds the lock.
LockHeld == \A p \in Processes : pc[p] \in Transactions <=> lock = p

\* The draft is the script of the process inside, up to its step.
Inside ==
    /\ (\A p \in Processes : pc[p] # "inside") => draft = {}
    /\ \A p \in Processes : pc[p] = "inside" =>
          /\ Pending(p) # {}
          /\ step[p] \in 1 .. Statements[NextVersion(p)] + 1
          /\ draft = {<<NextVersion(p), i>> : i \in 1 .. (step[p] - 1)}

AppliedRecorded == \A p \in Processes : applied[p] \subseteq Recorded

SeededTogether == accounts # {} => fixtures

\* A process seeds when it has nothing to migrate, and what it leaves is whole.
Prepared ==
    \A p \in Processes :
        /\ pc[p] = "seeding" => Pending(p) = {}
        /\ pc[p] \in {"seeded", "loading"} =>
              schema = Objects /\ accounts = Profiles /\ fixtures

MInv ==
    /\ TypeOK
    /\ FirstPart
    /\ LockHeld
    /\ Inside
    /\ AppliedRecorded
    /\ SeededTogether
    /\ Prepared
    /\ WholeOrAbsent
    /\ ServesWhole

\* What a script and a record are made of.
LEMMA ScriptMembers ==
    ASSUME NEW v \in Versions
    PROVE  /\ \A x : x \in Script(v) <=> \E i \in 1 .. Statements[v] : x = <<v, i>>
           /\ Record(v) \in Script(v)
           /\ Script(v) \subseteq Objects
           /\ Statements[v] \in Nat /\ Statements[v] > 1
BY MigrationsAssumption DEF Script, Record, Objects, Versions

\* Scripts have no statement in common.
LEMMA ScriptsDisjoint ==
    ASSUME NEW v \in Versions, NEW w \in Versions, NEW x, x \in Script(v), x \in Script(w)
    PROVE  v = w
BY DEF Script

\* A schema that loses nothing loses no record.
LEMMA RecordedGrows ==
    ASSUME schema \subseteq schema'
    PROVE  Recorded \subseteq Recorded'
BY DEF Recorded

\* The next version is the smallest of the pending ones.
LEMMA NextIsSmallest ==
    ASSUME NEW p \in Processes, Pending(p) # {}
    PROVE  /\ NextVersion(p) \in Pending(p)
           /\ NextVersion(p) \in Versions
           /\ \A w \in Versions : w < NextVersion(p) => w \in applied[p]
  <1>1. Pending(p) \subseteq Nat /\ Pending(p) \subseteq Versions
    BY MigrationsAssumption DEF Pending, Versions
  <1>2. PICK v \in Pending(p) : \A w \in Pending(p) : <<w, v>> \notin OpToRel(<, Nat)
    BY <1>1, WFMin, NatLessThanWellFounded, Zenon
  <1>3. \A w \in Pending(p) : ~(w < v)
    BY <1>1, <1>2, Zenon DEF OpToRel
  <1>4. \A w \in Pending(p) : v <= w
    BY <1>1, <1>3
  <1>5. NextVersion(p) \in Pending(p) /\ \A w \in Pending(p) : NextVersion(p) <= w
    BY <1>4 DEF NextVersion
  <1>6. ASSUME NEW w \in Versions, w < NextVersion(p)
        PROVE  w \in applied[p]
    <2>1. w \notin Pending(p)
      BY <1>1, <1>5, <1>6
    <2>. QED
      BY <2>1 DEF Pending
  <1>. QED
    BY <1>1, <1>5, <1>6

-----------------------------------------------------------------------------
LEMMA InitMInv ==
    ASSUME Init
    PROVE  MInv
  <1>1. PICK release \in 0 .. Latest :
            /\ schema = UNION {Script(v) : v \in 1 .. release}
            /\ accounts \in IF release = 0 THEN {{}} ELSE {OldProfiles, Profiles}
    BY DEF Init
  <1>2. release \in Nat /\ Latest \in Nat /\ 1 .. release \subseteq Versions
    BY MigrationsAssumption DEF Versions
  <1>3. ASSUME NEW v \in Versions
        PROVE  IF v <= release THEN Script(v) \subseteq schema
               ELSE Script(v) \cap schema = {}
    BY <1>1, <1>2, <1>3, ScriptsDisjoint DEF Versions
  <1>4. \A v \in Versions : v \in Recorded <=> v <= release
    BY <1>2, <1>3, ScriptMembers DEF Recorded, Versions
  <1>5. WholeOrAbsent
    <2>1. \A v \in Versions : \A w \in 1 .. v : w \in Versions /\ w <= v
      BY <1>2 DEF Versions
    <2>. QED
      BY <1>2, <1>3, <1>4, <2>1 DEF WholeOrAbsent, Versions
  <1>6. schema \subseteq Objects
    BY <1>1, <1>2 DEF Objects
  <1>7. accounts \subseteq Profiles
    BY <1>1, MigrationsAssumption
  <1>8. TypeOK
    BY <1>6, <1>7 DEF Init, TypeOK, Stages
  <1>9. FirstPart /\ AppliedRecorded /\ SeededTogether /\ Prepared /\ ServesWhole
    BY DEF Init, FirstPart, AppliedRecorded, SeededTogether, Prepared, ServesWhole, Serving
  <1>10. LockHeld /\ Inside
    BY MigrationsAssumption DEF Init, LockHeld, Transactions, Inside
  <1>. QED
    BY <1>5, <1>8, <1>9, <1>10 DEF MInv

\* Steps that leave the database alone and stay outside of transactions.
LEMMA QuietStep ==
    ASSUME MInv, NEW p \in Processes, pc[p] \notin Transactions,
           NEW stage \in {"check", "read", "migrate", "failed", "down"}, Goto(p, stage),
           UNCHANGED <<schema, draft, lock, accounts, fixtures>>,
           step' = step \/ step' = [step EXCEPT ![p] = 1],
           applied' = applied \/ applied' = [applied EXCEPT ![p] = Recorded]
    PROVE  MInv'
  <1>1. TypeOK'
    BY DEF MInv, TypeOK, Goto, Recorded, Stages, Starting
  <1>2. FirstPart'
    BY DEF MInv, TypeOK, FirstPart, Goto
  <1>3. LockHeld'
    BY DEF MInv, TypeOK, LockHeld, Transactions, Goto
  <1>4. ASSUME NEW q \in Processes, pc[q] \in Transactions
        PROVE  /\ q # p /\ step'[q] = step[q]
               /\ Pending(q)' = Pending(q) /\ NextVersion(q)' = NextVersion(q)
    BY <1>4 DEF MInv, TypeOK, Pending, NextVersion
  <1>5. Inside'
    BY <1>4 DEF MInv, TypeOK, Inside, Transactions, Goto
  <1>6. AppliedRecorded'
    BY DEF MInv, TypeOK, AppliedRecorded, Recorded
  <1>7. SeededTogether' /\ WholeOrAbsent'
    BY DEF MInv, SeededTogether, WholeOrAbsent, Recorded
  <1>8. Prepared'
    BY <1>4 DEF MInv, TypeOK, Prepared, Transactions, Goto
  <1>9. ServesWhole'
    BY DEF MInv, TypeOK, ServesWhole, Serving, Goto
  <1>. QED
    BY <1>1, <1>2, <1>3, <1>5, <1>6, <1>7, <1>8, <1>9 DEF MInv

\* Entering or leaving a transaction that runs no script, of a process of which is
\* known in its new stage what Prepared and ServesWhole ask for.
LEMMA TransactionStep ==
    ASSUME MInv, NEW p \in Processes, pc[p] \notin {"inside", "first"},
           NEW stage \in {"seeding", "loading", "busy", "serving", "down"}, Goto(p, stage),
           UNCHANGED <<schema, draft, accounts, fixtures, step, applied>>,
           \/ lock = Nobody /\ lock' = p /\ stage \in Transactions
           \/ lock = p /\ lock' = Nobody /\ stage \notin Transactions,
           stage = "seeding" => Pending(p) = {},
           stage \in {"loading", "busy", "serving"}
              => schema = Objects /\ accounts = Profiles /\ fixtures
    PROVE  MInv'
  <1>1. TypeOK'
    BY DEF MInv, TypeOK, Goto, Stages, Starting, Serving
  <1>2. FirstPart'
    BY DEF MInv, TypeOK, FirstPart, Goto
  <1>3. LockHeld'
    BY MigrationsAssumption DEF MInv, TypeOK, LockHeld, Transactions, Goto
  <1>4. \A q \in Processes : Pending(q)' = Pending(q) /\ NextVersion(q)' = NextVersion(q)
    BY DEF Pending, NextVersion
  <1>5. Inside'
    BY <1>4 DEF MInv, TypeOK, Inside, Goto
  <1>6. AppliedRecorded' /\ SeededTogether' /\ WholeOrAbsent'
    BY DEF MInv, AppliedRecorded, SeededTogether, WholeOrAbsent, Recorded
  <1>7. Prepared'
    BY <1>4 DEF MInv, TypeOK, Prepared, Goto
  <1>8. ServesWhole'
    BY DEF MInv, TypeOK, ServesWhole, Serving, Goto
  <1>. QED
    BY <1>1, <1>2, <1>3, <1>5, <1>6, <1>7, <1>8 DEF MInv

\* The facts about a schema that grows by part of one script, up to its record.
LEMMA SchemaStep ==
    ASSUME MInv, NEW new \in SUBSET Objects, schema' = schema \cup new
    PROVE  /\ Recorded \subseteq Recorded'
           /\ schema' \subseteq Objects
           /\ schema = Objects => schema' = Objects
  <1>1. Recorded \subseteq Recorded'
    BY RecordedGrows
  <1>. QED
    BY <1>1 DEF MInv, TypeOK

LEMMA FirstStep ==
    ASSUME MInv, NEW p \in Processes, FirstStatement(p)
    PROVE  MInv'
  <1>. DEFINE new == {<<1, step[p]>>}
  <1>1. /\ 1 \in Versions
        /\ step[p] \in 1 .. Statements[1]
        /\ \A i \in 1 .. Statements[1] : i < step[p] => <<1, i>> \in schema
    BY MigrationsAssumption DEF MInv, FirstPart, FirstStatement, Versions
  <1>2. new \subseteq Script(1) /\ new \in SUBSET Objects
    BY <1>1, ScriptMembers
  <1>3. schema' = schema \cup new
    BY DEF FirstStatement
  <1>4. /\ Recorded \subseteq Recorded'
        /\ schema' \subseteq Objects
        /\ schema = Objects => schema' = Objects
    BY <1>2, <1>3, SchemaStep
  <1>5. Statements[1] \in Nat /\ Statements[1] > 1
    BY <1>1, ScriptMembers
  <1>6. TypeOK'
    BY <1>4, <1>1, <1>5 DEF MInv, TypeOK, FirstStatement, Goto, Stages, Starting
  <1>7. FirstPart'
    <2>1. ASSUME NEW q \in Processes, pc'[q] = "first"
          PROVE  /\ step'[q] \in 1 .. Statements[1]
                 /\ \A i \in 1 .. Statements[1] : i < step'[q] => <<1, i>> \in schema'
      <3>1. CASE q = p
        <4>1. step'[p] = step[p] + 1 /\ step[p] # Statements[1]
          BY <2>1, <3>1 DEF MInv, TypeOK, FirstStatement, Goto
        <4>. QED
          BY <1>1, <1>3, <1>5, <3>1, <4>1
      <3>2. CASE q # p
        BY <1>3, <2>1, <3>2 DEF MInv, TypeOK, FirstPart, FirstStatement, Goto
      <3>. QED
        BY <3>1, <3>2
    <2>. QED
      BY <2>1 DEF FirstPart
  <1>8. Inside' /\ LockHeld'
    <2>1. \A q \in Processes : pc[q] \notin Transactions
      BY MigrationsAssumption DEF MInv, LockHeld, FirstStatement
    <2>2. \A q \in Processes : pc'[q] \notin Transactions
      BY <2>1 DEF MInv, TypeOK, FirstStatement, Goto, Transactions
    <2>3. lock' = Nobody /\ draft' = {}
      BY <2>1 DEF MInv, Inside, FirstStatement, Transactions
    <2>. QED
      BY <2>2, <2>3, MigrationsAssumption DEF Inside, LockHeld, Transactions
  <1>9. AppliedRecorded'
    BY <1>4 DEF MInv, AppliedRecorded, FirstStatement
  <1>10. WholeOrAbsent'
    <2>1. ASSUME NEW v \in Versions, v # 1
          PROVE  Script(v) \cap new = {}
      BY <1>1, <1>2, <2>1, ScriptsDisjoint
    <2>2. ASSUME NEW v \in Versions, v # 1
          PROVE  v \in Recorded' <=> v \in Recorded
      BY <1>3, <2>1, <2>2, ScriptMembers DEF Recorded
    <2>3. 1 \in Recorded' => Script(1) \subseteq schema'
      <3>1. CASE 1 \in Recorded
        BY <1>1, <1>3, <3>1 DEF MInv, WholeOrAbsent
      <3>2. CASE 1 \notin Recorded /\ 1 \in Recorded'
        <4>1. Record(1) = <<1, step[p]>>
          BY <1>3, <3>2 DEF Recorded
        <4>2. step[p] = Statements[1]
          BY <4>1 DEF Record
        <4>3. \A i \in 1 .. Statements[1] : i < Statements[1] \/ i = Statements[1]
          BY <1>5
        <4>. QED
          BY <1>1, <1>3, <4>2, <4>3 DEF Script
      <3>. QED
        BY <3>1, <3>2
    <2>4. ASSUME NEW v \in Versions, v \in Recorded'
          PROVE  \A w \in 1 .. v : w \in Recorded'
      <3>1. CASE v = 1
        BY <2>4, <3>1
      <3>2. CASE v # 1
        BY <1>4, <2>2, <2>4, <3>2 DEF MInv, WholeOrAbsent
      <3>. QED
        BY <3>1, <3>2
    <2>. QED
      BY <1>3, <2>1, <2>2, <2>3, <2>4 DEF MInv, WholeOrAbsent
  <1>11. SeededTogether' /\ Prepared' /\ ServesWhole'
    BY <1>4 DEF MInv, TypeOK, SeededTogether, Prepared, Pending, ServesWhole, Serving,
                FirstStatement, Goto
  <1>. QED
    BY <1>6, <1>7, <1>8, <1>9, <1>10, <1>11 DEF MInv

LEMMA BeginStep ==
    ASSUME MInv, NEW p \in Processes, Begin(p)
    PROVE  MInv'
  <1>1. TypeOK'
    BY DEF MInv, TypeOK, Begin, Enter, Goto, Stages, Starting
  <1>2. FirstPart'
    BY DEF MInv, TypeOK, FirstPart, Begin, Enter, Goto
  <1>3. LockHeld'
    BY MigrationsAssumption DEF MInv, TypeOK, LockHeld, Transactions, Begin, Enter, Goto
  <1>4. Inside'
    <2>1. \A q \in Processes : pc[q] # "inside"
      BY MigrationsAssumption DEF MInv, LockHeld, Transactions, Begin, Enter
    <2>2. Pending(p)' = Pending(p) /\ NextVersion(p)' = NextVersion(p)
      BY DEF Begin, Enter, Pending, NextVersion
    <2>3. Statements[NextVersion(p)] \in Nat
      BY NextIsSmallest, ScriptMembers DEF Begin
    <2>4. draft' = {} /\ step'[p] = 1 /\ pc' = [pc EXCEPT ![p] = "inside"]
      BY <2>1 DEF MInv, TypeOK, Inside, Begin, Enter, Goto
    <2>5. {<<NextVersion(p), i>> : i \in 1 .. (1 - 1)} = {}
      OBVIOUS
    <2>. QED
      BY <2>1, <2>2, <2>3, <2>4, <2>5 DEF MInv, TypeOK, Inside, Begin
  <1>5. AppliedRecorded' /\ SeededTogether' /\ WholeOrAbsent'
    BY DEF MInv, AppliedRecorded, SeededTogether, WholeOrAbsent, Recorded, Begin, Enter
  <1>6. Prepared' /\ ServesWhole'
    BY DEF MInv, TypeOK, Prepared, Pending, ServesWhole, Serving, Begin, Enter, Goto
  <1>. QED
    BY <1>1, <1>2, <1>3, <1>4, <1>5, <1>6 DEF MInv

LEMMA StatementStep ==
    ASSUME MInv, NEW p \in Processes, Statement(p)
    PROVE  MInv'
  <1>. DEFINE v == NextVersion(p)
  <1>1. /\ lock = p /\ Pending(p) # {}
        /\ step[p] \in 1 .. Statements[v]
        /\ draft = {<<v, i>> : i \in 1 .. (step[p] - 1)}
    BY DEF MInv, TypeOK, LockHeld, Transactions, Inside, Statement, Unfinished
  <1>2. v \in Versions /\ Statements[v] \in Nat
    BY <1>1, NextIsSmallest, ScriptMembers
  <1>3. draft' = draft \cup {<<v, step[p]>>} /\ schema' = schema
    BY DEF Statement, Executed
  <1>4. <<v, step[p]>> \in Objects
    BY <1>1, <1>2, ScriptMembers
  <1>5. TypeOK'
    BY <1>3, <1>4 DEF MInv, TypeOK, Statement
  <1>6. FirstPart'
    BY <1>3 DEF MInv, TypeOK, FirstPart, Statement
  <1>7. Inside'
    <2>1. Pending(p)' = Pending(p) /\ NextVersion(p)' = v
      BY DEF Statement, Pending, NextVersion
    <2>2. step'[p] = step[p] + 1 /\ pc' = pc
      BY DEF MInv, TypeOK, Statement
    <2>3. draft' = {<<v, i>> : i \in 1 .. (step'[p] - 1)}
      BY <1>1, <1>2, <1>3, <2>2
    <2>4. pc[p] = "inside" /\ \A q \in Processes : pc[q] = "inside" => q = p
      BY <1>1 DEF MInv, LockHeld, Transactions, Statement
    <2>. QED
      BY <1>1, <1>2, <2>1, <2>2, <2>3, <2>4 DEF Inside
  <1>8. LockHeld' /\ Prepared'
    BY <1>3 DEF MInv, LockHeld, Prepared, Pending, Statement
  <1>9. AppliedRecorded' /\ SeededTogether' /\ WholeOrAbsent' /\ ServesWhole'
    BY <1>3 DEF MInv, AppliedRecorded, SeededTogether, WholeOrAbsent, ServesWhole, Recorded,
                Statement
  <1>. QED
    BY <1>5, <1>6, <1>7, <1>8, <1>9 DEF MInv

\* Rolling the open transaction back, by a failed statement or a crash.
LEMMA RollBackStep ==
    ASSUME MInv, NEW p \in Processes, pc[p] = "inside",
           NEW stage \in {"failed", "down"}, Goto(p, stage),
           draft' = {}, lock' = Nobody,
           UNCHANGED <<schema, accounts, fixtures, step, applied>>
    PROVE  MInv'
  <1>1. TypeOK'
    BY DEF MInv, TypeOK, Goto, Stages
  <1>2. FirstPart'
    BY DEF MInv, TypeOK, FirstPart, Goto
  <1>3. lock = p
    BY DEF MInv, LockHeld, Transactions
  <1>4. LockHeld'
    BY <1>3, MigrationsAssumption DEF MInv, TypeOK, LockHeld, Transactions, Goto
  <1>5. Inside'
    <2>1. \A q \in Processes : pc[q] = "inside" => q = p
      BY <1>3 DEF MInv, LockHeld, Transactions
    <2>. QED
      BY <2>1 DEF MInv, TypeOK, Inside, Goto
  <1>6. AppliedRecorded' /\ SeededTogether' /\ WholeOrAbsent'
    BY DEF MInv, AppliedRecorded, SeededTogether, WholeOrAbsent, Recorded
  <1>7. Prepared' /\ ServesWhole'
    BY DEF MInv, TypeOK, Prepared, Pending, ServesWhole, Serving, Goto
  <1>. QED
    BY <1>1, <1>2, <1>4, <1>5, <1>6, <1>7 DEF MInv

LEMMA CommitStep ==
    ASSUME MInv, NEW p \in Processes, Commit(p)
    PROVE  MInv'
  <1>. DEFINE v == NextVersion(p)
  <1>1. /\ lock = p /\ Pending(p) # {}
        /\ step[p] = Statements[v] + 1
        /\ draft = {<<v, i>> : i \in 1 .. (step[p] - 1)}
        /\ v \in Versions /\ v \in Pending(p) /\ Statements[v] \in Nat
        /\ \A w \in Versions : w < v => w \in applied[p]
    <2>1. /\ lock = p /\ Pending(p) # {}
          /\ step[p] \in 1 .. Statements[v] + 1 /\ ~Unfinished(p)
          /\ draft = {<<v, i>> : i \in 1 .. (step[p] - 1)}
      BY DEF MInv, LockHeld, Transactions, Inside, Commit
    <2>2. /\ v \in Versions /\ v \in Pending(p) /\ Statements[v] \in Nat
          /\ \A w \in Versions : w < v => w \in applied[p]
      BY <2>1, NextIsSmallest, ScriptMembers
    <2>. QED
      BY <2>1, <2>2 DEF Unfinished
  <1>2. draft = Script(v)
    BY <1>1 DEF Script
  <1>3. schema' = schema \cup Script(v)
    BY <1>2 DEF Commit
  <1>4. /\ Recorded \subseteq Recorded'
        /\ schema' \subseteq Objects
        /\ schema = Objects => schema' = Objects
    BY <1>1, <1>3, ScriptMembers, SchemaStep
  <1>5. v \in Recorded'
    BY <1>1, <1>3, ScriptMembers DEF Recorded
  <1>6. TypeOK'
    BY <1>1, <1>4 DEF MInv, TypeOK, Commit, Goto, Stages, Starting
  <1>7. FirstPart'
    BY <1>3 DEF MInv, TypeOK, FirstPart, Commit, Goto
  <1>8. LockHeld' /\ Inside'
    <2>1. \A q \in Processes : pc[q] \in Transactions => q = p
      BY <1>1 DEF MInv, LockHeld
    <2>. QED
      BY <2>1, MigrationsAssumption
         DEF MInv, TypeOK, LockHeld, Transactions, Inside, Commit, Goto
  <1>9. AppliedRecorded'
    BY <1>4, <1>5 DEF MInv, TypeOK, AppliedRecorded, Commit
  <1>10. WholeOrAbsent'
    <2>1. ASSUME NEW w \in Versions, w # v
          PROVE  Script(w) \cap Script(v) = {}
      BY <1>1, <2>1, ScriptsDisjoint
    <2>2. ASSUME NEW w \in Versions, w # v
          PROVE  w \in Recorded' <=> w \in Recorded
      BY <1>3, <2>1, <2>2, ScriptMembers DEF Recorded
    <2>3. \A w \in 1 .. v : w \in Recorded'
      <3>1. \A w \in 1 .. v : w \in Versions /\ (w < v \/ w = v)
        BY <1>1, MigrationsAssumption DEF Versions
      <3>2. applied[p] \subseteq Recorded
        BY DEF MInv, AppliedRecorded
      <3>. QED
        BY <1>1, <1>4, <1>5, <3>1, <3>2
    <2>4. ASSUME NEW w \in Versions, w # v
          PROVE  IF w \in Recorded'
                 THEN /\ Script(w) \subseteq schema'
                      /\ \A x \in 1 .. w : x \in Recorded'
                 ELSE w # 1 => Script(w) \cap schema' = {}
      BY <1>3, <1>4, <2>1, <2>2, <2>4 DEF MInv, WholeOrAbsent
    <2>. QED
      BY <1>3, <1>5, <2>3, <2>4 DEF WholeOrAbsent
  <1>11. SeededTogether' /\ ServesWhole'
    BY <1>4 DEF MInv, TypeOK, SeededTogether, ServesWhole, Serving, Commit, Goto
  <1>12. Prepared'
    <2>1. ASSUME NEW q \in Processes, pc'[q] = "seeding"
          PROVE  FALSE
      BY <1>1, <2>1 DEF MInv, TypeOK, LockHeld, Transactions, Commit, Goto
    <2>. QED
      BY <1>4, <2>1 DEF MInv, TypeOK, Prepared, Commit, Goto
  <1>. QED
    BY <1>6, <1>7, <1>8, <1>9, <1>10, <1>11, <1>12 DEF MInv

LEMMA SeedStep ==
    ASSUME MInv, NEW p \in Processes, Seed(p)
    PROVE  MInv'
  <1>1. TypeOK'
    BY DEF MInv, TypeOK, Seed, Seeded, Goto, Stages, Starting
  <1>2. FirstPart'
    BY DEF MInv, TypeOK, FirstPart, Seed, Goto
  <1>3. LockHeld' /\ Inside'
    <2>1. \A q \in Processes : pc[q] \in Transactions => q = p
      BY DEF MInv, LockHeld, Transactions, Seed
    <2>2. \A q \in Processes : pc'[q] \notin Transactions
      BY <2>1 DEF MInv, TypeOK, Seed, Goto, Transactions
    <2>3. lock' = Nobody /\ draft' = {}
      BY <2>1 DEF MInv, Inside, Transactions, Seed
    <2>. QED
      BY <2>2, <2>3, MigrationsAssumption DEF LockHeld, Inside, Transactions
  <1>4. AppliedRecorded' /\ WholeOrAbsent'
    BY DEF MInv, AppliedRecorded, WholeOrAbsent, Recorded, Seed
  <1>5. fixtures' /\ accounts' = Profiles
    BY DEF MInv, TypeOK, SeededTogether, Seed, Seeded
  <1>6. Versions \subseteq Recorded
    BY DEF MInv, AppliedRecorded, Prepared, Seed, Pending
  <1>7. schema = Objects
    BY <1>6 DEF MInv, TypeOK, WholeOrAbsent, Objects
  <1>8. Prepared' /\ ServesWhole'
    BY <1>5, <1>7 DEF MInv, TypeOK, Prepared, Pending, ServesWhole, Serving, Seed, Goto
  <1>. QED
    BY <1>1, <1>2, <1>3, <1>4, <1>5, <1>8 DEF MInv, SeededTogether

\* The transactions of seed(), of POLICY_LOADED and of the requests of a server.
LEMMA EnterStep ==
    ASSUME MInv, NEW p \in Processes, BeginSeed(p) \/ BeginLoad(p) \/ BeginRequest(p)
    PROVE  MInv'
  <1>1. CASE BeginSeed(p)
    BY <1>1, TransactionStep DEF BeginSeed, Enter, Transactions
  <1>2. CASE BeginLoad(p)
    BY <1>2, TransactionStep DEF BeginLoad, Enter, Transactions, MInv, Prepared
  <1>3. CASE BeginRequest(p)
    BY <1>3, TransactionStep DEF BeginRequest, Enter, Transactions, MInv, ServesWhole, Serving
  <1>. QED
    BY <1>1, <1>2, <1>3

LEMMA LeaveStep ==
    ASSUME MInv, NEW p \in Processes, Load(p) \/ EndRequest(p)
    PROVE  MInv'
  <1>1. lock = p
    BY DEF MInv, LockHeld, Transactions, Load, EndRequest, Leave
  <1>2. CASE Load(p)
    BY <1>1, <1>2, TransactionStep DEF Load, Leave, Transactions, MInv, Prepared
  <1>3. CASE EndRequest(p)
    BY <1>1, <1>3, TransactionStep DEF EndRequest, Leave, Transactions, MInv, ServesWhole, Serving
  <1>. QED
    BY <1>1, <1>2, <1>3

\* From the check to the first script.
LEMMA CheckStep ==
    ASSUME MInv, NEW p \in Processes, Check(p)
    PROVE  MInv'
  <1>1. CASE <<1, 1>> \in schema
    <2>1. Goto(p, "read") /\ pc[p] \notin Transactions
      BY <1>1 DEF Check, Transactions
    <2>. QED
      BY <2>1, QuietStep DEF Check
  <1>2. CASE <<1, 1>> \notin schema
    <2>1. pc' = [pc EXCEPT ![p] = "first"] /\ pc[p] = "check"
      BY <1>2 DEF Check, Goto
    <2>2. step' = [step EXCEPT ![p] = 1]
      BY DEF Check
    <2>3. UNCHANGED <<schema, draft, lock, accounts, fixtures, applied>>
      BY DEF Check
    <2>4. TypeOK'
      BY <2>1, <2>2, <2>3 DEF MInv, TypeOK, Stages, Starting
    <2>5. FirstPart'
      <3>1. Statements[1] \in Nat /\ Statements[1] > 1
        BY MigrationsAssumption, ScriptMembers DEF Versions
      <3>. QED
        BY <2>1, <2>2, <2>3, <3>1 DEF MInv, TypeOK, FirstPart
    <2>6. ASSUME NEW q \in Processes
          PROVE  Pending(q)' = Pending(q) /\ NextVersion(q)' = NextVersion(q)
      BY <2>3 DEF Pending, NextVersion
    <2>7. LockHeld' /\ Inside'
      BY <2>1, <2>2, <2>3, <2>6 DEF MInv, TypeOK, LockHeld, Transactions, Inside
    <2>8. AppliedRecorded' /\ SeededTogether' /\ WholeOrAbsent'
      BY <2>3 DEF MInv, AppliedRecorded, SeededTogether, WholeOrAbsent, Recorded
    <2>9. Prepared' /\ ServesWhole'
      BY <2>1, <2>3, <2>6 DEF MInv, TypeOK, Prepared, ServesWhole, Serving
    <2>. QED
      BY <2>4, <2>5, <2>7, <2>8, <2>9 DEF MInv
  <1>. QED
    BY <1>1, <1>2

LEMMA CrashStep ==
    ASSUME MInv, NEW p \in Processes, Crash(p)
    PROVE  MInv'
  <1>1. CASE pc[p] = "inside"
    <2>1. lock = p
      BY <1>1 DEF MInv, LockHeld, Transactions
    <2>. QED
      BY <1>1, <2>1, RollBackStep DEF Crash
  <1>2. CASE pc[p] \in Transactions \ {"inside"}
    <2>1. lock = p
      BY <1>2 DEF MInv, LockHeld
    <2>2. draft = {}
      BY <1>2, <2>1 DEF MInv, LockHeld, Inside, Transactions
    <2>3. /\ Goto(p, "down") /\ lock' = Nobody /\ draft' = draft
          /\ UNCHANGED <<schema, accounts, fixtures, step, applied>>
      BY <2>1, <2>2 DEF Crash
    <2>. QED
      BY <1>2, <2>1, <2>3, TransactionStep DEF Transactions
  <1>3. CASE pc[p] \notin Transactions
    <2>1. lock # p
      BY <1>3 DEF MInv, LockHeld
    <2>2. Goto(p, "down") /\ UNCHANGED <<schema, draft, lock, accounts, fixtures, step, applied>>
      BY <2>1 DEF Crash
    <2>. QED
      BY <1>3, <2>2, QuietStep
  <1>. QED
    BY <1>1, <1>2, <1>3

LEMMA NextMInv ==
    ASSUME MInv, [Next]_vars
    PROVE  MInv'
  <1>1. CASE UNCHANGED vars
    BY <1>1 DEF vars, MInv, TypeOK, FirstPart, LockHeld, Inside, AppliedRecorded,
                SeededTogether, Prepared, WholeOrAbsent, ServesWhole, Recorded, Pending,
                NextVersion
  <1>2. ASSUME NEW p \in Processes, Start(p)
        PROVE  MInv'
    BY <1>2, QuietStep DEF Start, Transactions
  <1>3. ASSUME NEW p \in Processes, FirstFails(p)
        PROVE  MInv'
    BY <1>3, QuietStep DEF FirstFails, Transactions
  <1>4. ASSUME NEW p \in Processes, Read(p)
        PROVE  MInv'
    BY <1>4, QuietStep DEF Read, Transactions
  <1>5. ASSUME NEW p \in Processes, StatementFails(p)
        PROVE  MInv'
    BY <1>5, RollBackStep DEF StatementFails
  <1>6. ASSUME NEW p \in Processes, TimeOut(p)
        PROVE  MInv'
    BY <1>6, QuietStep DEF TimeOut, Transactions
  <1>. QED
    BY <1>1, <1>2, <1>3, <1>4, <1>5, <1>6, CheckStep, FirstStep, BeginStep, StatementStep,
       CommitStep, SeedStep, EnterStep, LeaveStep, CrashStep DEF Next, Proceed

LEMMA SpecMInv == Spec => []MInv
  <1>1. Init => MInv
    BY InitMInv
  <1>2. MInv /\ [Next]_vars => MInv'
    BY NextMInv
  <1>. QED
    BY <1>1, <1>2, PTL DEF Spec

(***************************************************************************)
(* The type invariant of the migrations.                                   *)
(***************************************************************************)
THEOREM MigrationTypes == Spec => []TypeOK
  <1>1. MInv => TypeOK
    BY DEF MInv
  <1>. QED
    BY <1>1, SpecMInv, PTL

(***************************************************************************)
(* Scripts are applied whole and in order, or not at all, the first apart, *)
(* whoever starts at the same time and wherever a process dies.            *)
(***************************************************************************)
THEOREM MigrationsWhole == Spec => []WholeOrAbsent
  <1>1. MInv => WholeOrAbsent
    BY DEF MInv
  <1>. QED
    BY <1>1, SpecMInv, PTL

(***************************************************************************)
(* Nobody serves a database that is not fully migrated and seeded.         *)
(***************************************************************************)
THEOREM ServersFindAll == Spec => []ServesWhole
  <1>1. MInv => ServesWhole
    BY DEF MInv
  <1>. QED
    BY <1>1, SpecMInv, PTL
=============================================================================
