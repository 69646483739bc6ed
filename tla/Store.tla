------------------------------- MODULE Store -------------------------------
(***************************************************************************)
(* The store under the server's threads (src/engine/storage.py with the    *)
(* transactions that src/server.py, service.py and bridge.py open).        *)
(*                                                                         *)
(* ThreadingHTTPServer gives every request a thread of its own.  A request *)
(* works inside Store.transaction(): BEGIN IMMEDIATE takes the one write   *)
(* lock of the database or gives up after 15 seconds; a transaction opened *)
(* inside another on the same thread joins it; only the outermost commits; *)
(* an exception leaves all of them and rolls everything back.  An alert of *)
(* the bridge is several sections inside one transaction and waits for the *)
(* terminal between them, with the lock held.  A request refused with      *)
(* InvalidData is noted in a second transaction of its own.                *)
(*                                                                         *)
(* A section stands for the rows one inner transaction writes and for the  *)
(* audit entry that goes with them.  Audit entries are chained: each one   *)
(* reads the hash of the last and is inserted by another statement.        *)
(***************************************************************************)
EXTENDS Integers, Sequences

CONSTANTS
    Requests,     \* the requests that clients send
    Bridge,       \* those of them that are TradingView alerts
    Nobody,       \* the write lock is free
    MaxCrashes    \* bound: how often the process dies

ASSUME StoreAssumption ==
    /\ Bridge \subseteq Requests
    /\ Nobody \notin Requests
    /\ "seed" \notin Requests    \* which stands for the start of the process
    /\ MaxCrashes \in Nat

VARIABLES
    database,     \* what is committed: rows and the audit log
    view,         \* per request: the database as its transaction sees it
    holder,       \* who holds the write lock
    depth,        \* per request: how many transaction() it is inside of
    stage,        \* per request: what its thread does next
    section,      \* per request: which section that belongs to
    tip,          \* per request: the last hash read by audit()
    answer,       \* per request: the HTTP status it will get or got
    up,           \* whether the process runs
    crashes

vars == <<database, view, holder, depth, stage, section, tip, answer, up,
          crashes>>

Sections == {"change", "intake", "evidence", "verdict", "journal", "blocked",
             "refusal", "done"}

Stages == {"idle", "entering", "writing", "reading", "appending", "leaving",
           "calling", "replying", "answered", "lost"}

----------------------------------------------------------------------------
(* The audit chain *)

GENESIS == << >>

Started == <<"seed", "boot">>

AuditEntries == (Requests \X Sections) \cup {Started}

\* SHA-256 of the previous hash and the entry, taken to be free of
\* collisions: two digests agree only if the whole history does.
Digest(previous, entry) == Append(previous, entry)

Tip(audit) == IF audit = << >> THEN GENESIS ELSE audit[Len(audit)].hash

Linked(previous, entry) ==
    [entry |-> entry, previous |-> previous, hash |-> Digest(previous, entry)]

Audited(db, entry) ==
    [db EXCEPT !.audit = Append(@, Linked(Tip(@), entry))]

\* verify_audit: every row names the hash before it and hashes to its own.
Verifies(audit) ==
    \A i \in DOMAIN audit :
        /\ audit[i].previous = (IF i = 1 THEN GENESIS ELSE audit[i - 1].hash)
        /\ audit[i].hash = Digest(audit[i].previous, audit[i].entry)

----------------------------------------------------------------------------
(* Start *)

Empty == [rows |-> {}, audit |-> << >>]

\* The first start: seed() files INITIALIZED, Application POLICY_LOADED.
Init ==
    /\ database = Audited(Audited(Empty, Started), Started)
    /\ view = [r \in Requests |-> Empty]
    /\ holder = Nobody
    /\ depth = [r \in Requests |-> 0]
    /\ stage = [r \in Requests |-> "idle"]
    /\ section = [r \in Requests |-> "done"]
    /\ tip = [r \in Requests |-> GENESIS]
    /\ answer = [r \in Requests |-> 0]
    /\ up = TRUE
    /\ crashes = 0

----------------------------------------------------------------------------
(* A request arrives and enters its transactions *)

\* A request that is malformed or refused before any transaction goes
\* straight to the transaction that notes it.
Arrive(r) ==
    /\ up
    /\ stage[r] = "idle"
    /\ stage' = [stage EXCEPT ![r] = "entering"]
    /\ section' = [section EXCEPT ![r] = IF r \in Bridge THEN "intake"
                                                         ELSE "change"]
    /\ UNCHANGED <<database, view, holder, depth, tip, answer, up, crashes>>

ArriveMalformed(r) ==
    /\ up
    /\ stage[r] = "idle"
    /\ stage' = [stage EXCEPT ![r] = "entering"]
    /\ section' = [section EXCEPT ![r] = "refusal"]
    /\ UNCHANGED <<database, view, holder, depth, tip, answer, up, crashes>>

\* A variant with BEGIN instead of BEGIN IMMEDIATE.
LockShared == TRUE

LockFree == holder = Nobody

\* What follows BEGIN: ingest() goes on to its first inner transaction, a
\* refusal is only audited, every other request writes its rows.
StageAfterBegin(r) ==
    CASE section[r] = "refusal" -> "reading"
      [] section[r] = "intake"  -> "entering"
      [] OTHER                  -> "writing"

\* transaction(), outermost: the thread has no connection yet.
Begin(r) ==
    /\ stage[r] = "entering" /\ depth[r] = 0
    /\ LockFree
    /\ holder' = r
    /\ view' = [view EXCEPT ![r] = database]
    /\ depth' = [depth EXCEPT ![r] = 1]
    /\ stage' = [stage EXCEPT ![r] = StageAfterBegin(r)]
    /\ UNCHANGED <<database, section, tip, answer, up, crashes>>

\* transaction() inside transaction(): the active connection is yielded.
Nest(r) ==
    /\ stage[r] = "entering" /\ depth[r] > 0
    /\ depth' = [depth EXCEPT ![r] = @ + 1]
    /\ stage' = [stage EXCEPT ![r] = "writing"]
    /\ UNCHANGED <<database, view, holder, section, tip, answer, up, crashes>>

\* A variant that waits for the lock without a timeout.
LockWaitForEver(r) == FALSE

LockWaitEnds(r) == holder # Nobody

\* "database is locked": BEGIN IMMEDIATE gives up after 15 seconds, on the
\* request's own transaction as well as on the one that notes a refusal.
TimeOut(r) ==
    /\ stage[r] = "entering" /\ depth[r] = 0
    /\ LockWaitEnds(r)
    /\ answer' = [answer EXCEPT ![r] = 503]
    /\ stage' = [stage EXCEPT ![r] = "replying"]
    /\ UNCHANGED <<database, view, holder, depth, section, tip, up, crashes>>

----------------------------------------------------------------------------
(* The statements of a section *)

Write(r) ==
    /\ stage[r] = "writing"
    /\ view' = [view EXCEPT ![r].rows = @ \cup {<<r, section[r]>>}]
    /\ stage' = [stage EXCEPT ![r] = "reading"]
    /\ UNCHANGED <<database, holder, depth, section, tip, answer, up, crashes>>

\* A variant in which audit() reads over a connection of its own.
CommittedTip(r) == Tip(database.audit)

TipSeen(r) == Tip(view[r].audit)

\* audit(): SELECT hash ... LIMIT 1.
ReadTip(r) ==
    /\ stage[r] = "reading"
    /\ tip' = [tip EXCEPT ![r] = TipSeen(r)]
    /\ stage' = [stage EXCEPT ![r] = "appending"]
    /\ UNCHANGED <<database, view, holder, depth, section, answer, up, crashes>>

\* audit(): INSERT INTO audit_logs.
AppendEntry(r) ==
    /\ stage[r] = "appending"
    /\ view' = [view EXCEPT ![r].audit =
                   Append(@, Linked(tip[r], <<r, section[r]>>))]
    /\ stage' = [stage EXCEPT ![r] = "leaving"]
    /\ UNCHANGED <<database, holder, depth, section, tip, answer, up, crashes>>

----------------------------------------------------------------------------
(* Leaving a transaction *)

\* What may follow a section of ingest(): it returns or blocks early.
Follows(s) ==
    CASE s = "intake"   -> {"evidence", "blocked", "done"}
      [] s = "evidence" -> {"verdict", "blocked"}
      [] s = "verdict"  -> {"journal"}
      [] OTHER          -> {"done"}

\* Between intake, evidence and verdict ingest() may ask the terminal.
StagesBefore(s, next) ==
    IF next = "done" THEN {"leaving"}
    ELSE IF s = "verdict" THEN {"entering"} ELSE {"entering", "calling"}

\* A variant in which an inner transaction commits when it is left.
LeaveInnerCommitting(r) ==
    /\ stage[r] = "leaving" /\ depth[r] > 1
    /\ depth' = [depth EXCEPT ![r] = @ - 1]
    /\ database' = view[r]
    /\ \E next \in Follows(section[r]) :
         /\ section' = [section EXCEPT ![r] = next]
         /\ \E then \in StagesBefore(section[r], next) :
              stage' = [stage EXCEPT ![r] = then]
    /\ UNCHANGED <<view, holder, tip, answer, up, crashes>>

\* The inner context manager returns and neither commits nor closes.
LeaveInner(r) ==
    /\ stage[r] = "leaving" /\ depth[r] > 1
    /\ depth' = [depth EXCEPT ![r] = @ - 1]
    /\ \E next \in Follows(section[r]) :
         /\ section' = [section EXCEPT ![r] = next]
         /\ \E then \in StagesBefore(section[r], next) :
              stage' = [stage EXCEPT ![r] = then]
    /\ UNCHANGED <<database, view, holder, tip, answer, up, crashes>>

\* The terminal answers, however late; the lock was held all the while.
TerminalReturns(r) ==
    /\ stage[r] = "calling"
    /\ stage' = [stage EXCEPT ![r] = "entering"]
    /\ UNCHANGED <<database, view, holder, depth, section, tip, answer, up,
                   crashes>>

\* A variant in which a thread keeps the connection it closed.
ClosedButKept(r) ==
    /\ holder' = Nobody
    /\ depth' = depth
    /\ view' = [view EXCEPT ![r] = Empty]
    /\ tip' = [tip EXCEPT ![r] = GENESIS]

\* finally: the thread forgets its connection and closes it.
Closed(r) ==
    /\ holder' = Nobody
    /\ depth' = [depth EXCEPT ![r] = 0]
    /\ view' = [view EXCEPT ![r] = Empty]
    /\ tip' = [tip EXCEPT ![r] = GENESIS]

Commit(r) ==
    /\ stage[r] = "leaving" /\ depth[r] = 1
    /\ database' = view[r]
    /\ Closed(r)
    /\ answer' = [answer EXCEPT ![r] =
                     IF section[r] = "refusal" THEN 400 ELSE 200]
    /\ stage' = [stage EXCEPT ![r] = "replying"]
    /\ UNCHANGED <<section, up, crashes>>

\* Where Python code or SQLite may raise inside a transaction; the adapter
\* turns its own exceptions into results.
MayRaise(r) == depth[r] > 0 /\ stage[r] # "calling"

\* InvalidData, or another error the server takes for bad input: rolled back,
\* then noted in a second transaction.  COMMIT itself raises none of these.
RollBackRefused(r) ==
    /\ MayRaise(r)
    /\ section[r] # "refusal"
    /\ stage[r] # "leaving"
    /\ Closed(r)
    /\ section' = [section EXCEPT ![r] = "refusal"]
    /\ stage' = [stage EXCEPT ![r] = "entering"]
    /\ UNCHANGED <<database, answer, up, crashes>>

\* Any other exception, or any at all while a refusal is noted.
RollBackFailed(r) ==
    /\ MayRaise(r)
    /\ Closed(r)
    /\ answer' = [answer EXCEPT ![r] = 503]
    /\ stage' = [stage EXCEPT ![r] = "replying"]
    /\ UNCHANGED <<database, section, up, crashes>>

Reply(r) ==
    /\ stage[r] = "replying"
    /\ stage' = [stage EXCEPT ![r] = "answered"]
    /\ UNCHANGED <<database, view, holder, depth, section, tip, answer, up,
                   crashes>>

----------------------------------------------------------------------------
(* The process *)

\* The process dies: SQLite drops what was not committed and the lock, and
\* whoever was not answered never will be.
Crash ==
    /\ up /\ crashes < MaxCrashes
    /\ up' = FALSE
    /\ crashes' = crashes + 1
    /\ holder' = Nobody
    /\ depth' = [r \in Requests |-> 0]
    /\ view' = [r \in Requests |-> Empty]
    /\ tip' = [r \in Requests |-> GENESIS]
    /\ stage' = [r \in Requests |->
                    IF stage[r] \in {"idle", "answered"} THEN stage[r]
                                                         ELSE "lost"]
    /\ UNCHANGED <<database, section, answer>>

\* A later start finds the tables seeded and files POLICY_LOADED, before
\* the server accepts a request.
Restart ==
    /\ ~up
    /\ up' = TRUE
    /\ database' = Audited(database, Started)
    /\ UNCHANGED <<view, holder, depth, stage, section, tip, answer, crashes>>

----------------------------------------------------------------------------

\* What the thread of a request does by itself, once it has a connection.
Proceed(r) ==
    \/ Nest(r) \/ Write(r) \/ ReadTip(r) \/ AppendEntry(r)
    \/ LeaveInner(r) \/ Commit(r) \/ Reply(r)

AwaitLock(r) == Begin(r) \/ TimeOut(r)

Raise(r) == RollBackRefused(r) \/ RollBackFailed(r)

Next ==
    \/ \E r \in Requests :
         \/ Arrive(r) \/ ArriveMalformed(r)
         \/ AwaitLock(r) \/ Proceed(r) \/ TerminalReturns(r) \/ Raise(r)
    \/ Crash
    \/ Restart

(***************************************************************************)
(* A thread that can run does, and a wait for the lock ends one way or the *)
(* other.  No fairness for the terminal: the bridge has no timeout for it. *)
(***************************************************************************)
Fairness ==
    \A r \in Requests : WF_vars(Proceed(r)) /\ WF_vars(AwaitLock(r))

Spec == Init /\ [][Next]_vars /\ Fairness

----------------------------------------------------------------------------
(* Properties *)

AuditRows == [entry : AuditEntries, previous : Seq(AuditEntries),
              hash : Seq(AuditEntries)]

Databases == [rows : SUBSET (Requests \X Sections), audit : Seq(AuditRows)]

\* The type of every variable.
TypeOK ==
    /\ database \in Databases
    /\ view \in [Requests -> Databases]
    /\ holder \in Requests \cup {Nobody}
    /\ depth \in [Requests -> 0..2]
    /\ stage \in [Requests -> Stages]
    /\ section \in [Requests -> Sections]
    /\ tip \in [Requests -> Seq(AuditEntries)]
    /\ answer \in [Requests -> {0, 200, 400, 503}]
    /\ up \in BOOLEAN
    /\ crashes \in 0..MaxCrashes

\* The committed audit log passes verify_audit at every moment, whoever reads
\* it: entries of several sections and threads, rolled back, crashed or
\* appended after a restart, never fork or break the chain.
AuditVerifies == Verifies(database.audit)

EntriesOf(r) == {entry \in {database.audit[i].entry :
                              i \in DOMAIN database.audit} : entry[1] = r}

RowsOf(r) == {row \in database.rows : row[1] = r}

\* An answer tells the client what happened: with 200 the request's rows are
\* committed, each with its audit entry; with 400 nothing but the note of the
\* refusal is ("NO_TRADE"); with 503 nothing is ("Operation failed and was
\* rolled back").  Until it is decided, a request shows nothing to others.
AnswersTrue ==
    \A r \in Requests :
        CASE answer[r] = 200 -> RowsOf(r) # {} /\ EntriesOf(r) = RowsOf(r)
          [] answer[r] = 400 -> RowsOf(r) = {} /\ EntriesOf(r) = {<<r, "refusal">>}
          [] OTHER           -> RowsOf(r) = {} /\ EntriesOf(r) = {}

Promise == INSTANCE AtomicStore WITH
    rows <- database.rows,
    log <- [i \in DOMAIN database.audit |-> database.audit[i].entry]

\* Threads, nesting, rollbacks, timeouts and crashes implement the atomic
\* store: a request's sections are committed together, in order and complete,
\* or not at all, and nothing committed is overwritten by another thread.
ImplementsAtomicStore == Promise!Spec

\* A request that does not ask the terminal is answered, or dies with the
\* process, even while an alert holds the write lock and waits for a terminal
\* that never answers: the wait for the lock is bounded (storage.py:28).
LocalRequestsAnswered ==
    \A r \in Requests \ Bridge :
        (stage[r] = "entering") ~> (stage[r] \in {"answered", "lost"})
=============================================================================
