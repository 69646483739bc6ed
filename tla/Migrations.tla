------------------------------ MODULE Migrations ------------------------------
(***************************************************************************)
(* How a process brings the database up to date before it serves: the      *)
(* constructor of Store (engine/storage.py), the scripts of migrations/    *)
(* and seed().  The first script runs outside a transaction, statement by  *)
(* statement; each later one in a transaction of its own.  Processes       *)
(* (server.py, manage.py) may start at the same time on one file, beside   *)
(* servers whose requests take the same write lock, and any of them may    *)
(* die at any point.                                                       *)
(*                                                                         *)
(* A statement fails when what it creates exists already.  Statement i of  *)
(* script v is <<v, i>>, and so is what it leaves in the database:         *)
(* <<1, 1>> is the table schema_migrations, and the last statement of a    *)
(* script inserts its version there.                                       *)
(***************************************************************************)
EXTENDS Naturals

CONSTANTS
    Processes,
    Latest,         \* the newest version; the scripts are 1 .. Latest
    Statements,     \* how many statements a script has
    Profiles,       \* PROFILES
    OldProfiles,    \* those of an earlier release
    Nobody

Versions == 1 .. Latest

ASSUME MigrationsAssumption ==
    /\ Latest \in Nat \ {0}
    /\ Statements \in [Versions -> Nat \ {0, 1}]
    /\ OldProfiles \subseteq Profiles
    /\ OldProfiles # {}
    /\ Nobody \notin Processes

VARIABLES
    schema,     \* what the committed statements left
    draft,      \* what the open transaction adds to it
    lock,       \* who holds SQLite's write lock across statements
    accounts,   \* the ids in table accounts
    fixtures,   \* whether seed() stored brokers, provider and strategies
    pc,         \* where a process is
    step,       \* the statement it runs next
    applied     \* the versions it takes for applied

vars == <<schema, draft, lock, accounts, fixtures, pc, step, applied>>

\* From the constructor of Store to the end of the constructor of Application.
Starting == {"check", "first", "read", "migrate", "inside", "seeding", "seeded", "loading"}

\* A process that has its Application: between the transactions of its requests, and
\* inside of one of them.
Serving == {"serving", "busy"}

Stages == Starting \cup Serving \cup {"down", "failed"}

Script(v) == {<<v, i>> : i \in 1 .. Statements[v]}

Record(v) == <<v, Statements[v]>>

Objects == UNION {Script(v) : v \in Versions}

Recorded == {v \in Versions : Record(v) \in schema}

TypeOK ==
    /\ schema \subseteq Objects
    /\ draft \subseteq Objects
    /\ lock \in Processes \cup {Nobody}
    /\ accounts \subseteq Profiles
    /\ fixtures \in BOOLEAN
    /\ pc \in [Processes -> Stages]
    /\ step \in [Processes -> Nat \ {0}]
    /\ applied \in [Processes -> SUBSET Versions]

\* No database yet, or the one that an earlier release has migrated and seeded.
Init ==
    /\ \E release \in 0 .. Latest :
          /\ schema = UNION {Script(v) : v \in 1 .. release}
          /\ accounts \in IF release = 0 THEN {{}} ELSE {OldProfiles, Profiles}
    /\ fixtures = (accounts # {})
    /\ draft = {}
    /\ lock = Nobody
    /\ pc = [p \in Processes |-> "down"]
    /\ step = [p \in Processes |-> 1]
    /\ applied = [p \in Processes |-> {}]

-----------------------------------------------------------------------------
Goto(p, stage) == pc' = [pc EXCEPT ![p] = stage]

Start(p) ==
    /\ pc[p] \in {"down", "failed"}
    /\ Goto(p, "check")
    /\ UNCHANGED <<schema, draft, lock, accounts, fixtures, step, applied>>

\* Is there a table schema_migrations?
Check(p) ==
    /\ pc[p] = "check"
    /\ Goto(p, IF <<1, 1>> \in schema THEN "read" ELSE "first")
    /\ step' = [step EXCEPT ![p] = 1]
    /\ UNCHANGED <<schema, draft, lock, accounts, fixtures, applied>>

\* executescript in autocommit mode: every statement is committed by itself.
FirstStatement(p) ==
    /\ pc[p] = "first"
    /\ lock = Nobody
    /\ <<1, step[p]>> \notin schema
    /\ schema' = schema \cup {<<1, step[p]>>}
    /\ step' = [step EXCEPT ![p] = @ + 1]
    /\ Goto(p, IF step[p] = Statements[1] THEN "read" ELSE "first")
    /\ UNCHANGED <<draft, lock, accounts, fixtures, applied>>

FirstFails(p) ==
    /\ pc[p] = "first"
    /\ lock = Nobody
    /\ <<1, step[p]>> \in schema
    /\ Goto(p, "failed")
    /\ UNCHANGED <<schema, draft, lock, accounts, fixtures, step, applied>>

Read(p) ==
    /\ pc[p] = "read"
    /\ applied' = [applied EXCEPT ![p] = Recorded]
    /\ Goto(p, "migrate")
    /\ UNCHANGED <<schema, draft, lock, accounts, fixtures, step>>

\* BEGIN IMMEDIATE takes the write lock and keeps it until the transaction is left.
Enter(p, from, to) ==
    /\ pc[p] = from
    /\ lock = Nobody
    /\ lock' = p
    /\ Goto(p, to)
    /\ UNCHANGED <<schema, draft, accounts, fixtures, applied>>

\* A transaction that leaves what is modelled here as it was.
Leave(p, from, to) ==
    /\ pc[p] = from
    /\ lock' = Nobody
    /\ Goto(p, to)
    /\ UNCHANGED <<schema, draft, accounts, fixtures, step, applied>>

Pending(p) == Versions \ applied[p]

NextVersion(p) == CHOOSE v \in Pending(p) : \A w \in Pending(p) : v <= w

\* BEGIN IMMEDIATE at the head of the script of the next version.
Begin(p) ==
    /\ Pending(p) # {}
    /\ Enter(p, "migrate", "inside")
    /\ step' = [step EXCEPT ![p] = 1]

\* A variant that runs past the end of a script.
UnfinishedOffByOne(p) == step[p] <= Statements[NextVersion(p)] + 1

Unfinished(p) == step[p] <= Statements[NextVersion(p)]

\* A variant without BEGIN IMMEDIATE.
ExecutedAtOnce(object) == schema' = schema \cup {object} /\ UNCHANGED draft

Executed(object) == draft' = draft \cup {object} /\ UNCHANGED schema

Statement(p) ==
    LET object == <<NextVersion(p), step[p]>>
    IN  /\ pc[p] = "inside"
        /\ Unfinished(p)
        /\ object \notin schema
        /\ Executed(object)
        /\ step' = [step EXCEPT ![p] = @ + 1]
        /\ UNCHANGED <<lock, accounts, fixtures, pc, applied>>

\* The script raises, and leaving the connection rolls its transaction back.
StatementFails(p) ==
    /\ pc[p] = "inside"
    /\ Unfinished(p)
    /\ <<NextVersion(p), step[p]>> \in schema
    /\ draft' = {}
    /\ lock' = Nobody
    /\ Goto(p, "failed")
    /\ UNCHANGED <<schema, accounts, fixtures, step, applied>>

Commit(p) ==
    /\ pc[p] = "inside"
    /\ ~Unfinished(p)
    /\ schema' = schema \cup draft
    /\ draft' = {}
    /\ lock' = Nobody
    /\ applied' = [applied EXCEPT ![p] = @ \cup {NextVersion(p)}]
    /\ Goto(p, "migrate")
    /\ UNCHANGED <<accounts, fixtures, step>>

\* A variant that asks whether accounts is empty after it filled it.
SeededAfterProfiles(rows, stored) == stored

\* seed: what an empty database gets beside its accounts, and no other one does.
Seeded(rows, stored) == stored \/ rows = {}

BeginSeed(p) ==
    /\ Pending(p) = {}
    /\ Enter(p, "migrate", "seeding")
    /\ UNCHANGED step

Seed(p) ==
    /\ pc[p] = "seeding"
    /\ accounts' = Profiles
    /\ fixtures' = Seeded(accounts, fixtures)
    /\ lock' = Nobody
    /\ Goto(p, "seeded")
    /\ UNCHANGED <<schema, draft, step, applied>>

\* The audit entry POLICY_LOADED, in a transaction of its own.
BeginLoad(p) == Enter(p, "seeded", "loading") /\ UNCHANGED step

Load(p) == Leave(p, "loading", "serving")

\* A request of a process that serves: no account, fixture or table comes or goes.
\* It may be an alert, which waits for the terminal with the lock held.
BeginRequest(p) == Enter(p, "serving", "busy") /\ UNCHANGED step

EndRequest(p) == Leave(p, "busy", "serving")

\* A variant that waits for the lock as long as it takes.
WaitsForEver(p) == FALSE

WaitEnds(p) == lock \notin {p, Nobody}

\* The write lock was not to be had within 15 seconds.  A request that meets this
\* is answered by the server, which goes on.
TimeOut(p) ==
    /\ pc[p] \in {"first", "migrate", "seeded"}
    /\ WaitEnds(p)
    /\ Goto(p, "failed")
    /\ UNCHANGED <<schema, draft, lock, accounts, fixtures, step, applied>>

\* A process that dies, or one that served and is stopped.
Crash(p) ==
    /\ pc[p] \notin {"down", "failed"}
    /\ Goto(p, "down")
    /\ lock' = IF lock = p THEN Nobody ELSE lock
    /\ draft' = IF lock = p THEN {} ELSE draft
    /\ UNCHANGED <<schema, accounts, fixtures, step, applied>>

Proceed(p) ==
    \/ Check(p)
    \/ FirstStatement(p)
    \/ FirstFails(p)
    \/ Read(p)
    \/ Begin(p)
    \/ Statement(p)
    \/ StatementFails(p)
    \/ Commit(p)
    \/ BeginSeed(p)
    \/ Seed(p)
    \/ BeginLoad(p)
    \/ Load(p)

Next == \E p \in Processes :
    \/ Start(p)
    \/ Proceed(p)
    \/ TimeOut(p)
    \/ BeginRequest(p)
    \/ EndRequest(p)
    \/ Crash(p)

\* A process that is starting goes on or gives up waiting; none has to be started, to
\* die, to serve a request or to end one.
Spec == Init /\ [][Next]_vars /\ \A p \in Processes : WF_vars(Proceed(p) \/ TimeOut(p))

-----------------------------------------------------------------------------
(***************************************************************************)
(* "SQLite persistence with ordered migrations" (README.md, line 26): a    *)
(* recorded version is whole and so are all before it, and of an           *)
(* unrecorded one, the first apart, nothing is in the database.            *)
(***************************************************************************)
WholeOrAbsent ==
    \A v \in Versions :
        IF v \in Recorded
        THEN /\ Script(v) \subseteq schema
             /\ \A w \in 1 .. v : w \in Recorded
        ELSE v # 1 => Script(v) \cap schema = {}

(***************************************************************************)
(* A process serves only a database that has every version, every profile  *)
(* and the fixtures, whoever else was starting, serving, failing or dying  *)
(* on the same file meanwhile.                                             *)
(***************************************************************************)
ServesWhole ==
    \A p \in Processes : pc[p] \in Serving =>
        schema = Objects /\ accounts = Profiles /\ fixtures

\* Nobody else is starting; others may serve, with the lock taken now and then.
Unrivalled(p) == \A q \in Processes \ {p} : pc[q] \notin Starting

(***************************************************************************)
(* However earlier starts ended, a start with no other start beside it     *)
(* ends, unless the process dies: it serves, or a server kept the lock for *)
(* longer than connect() waits (storage.py, line 28), which may be for     *)
(* ever.  Nothing else can make it fail, provided that the first script    *)
(* was once completed.                                                     *)
(***************************************************************************)
RestartServes ==
    \A p \in Processes :
        pc[p] = "check" /\ Unrivalled(p) /\ 1 \in Recorded
            ~> \/ pc[p] \in {"serving", "down"}
               \/ pc[p] = "failed" /\ \E q \in Processes : pc[q] = "busy"
               \/ ~Unrivalled(p)
=============================================================================
