------------------------------- MODULE Storage -------------------------------
(***************************************************************************)
(* SQLiteMeasurementSink of storage.py: two connections to one database,   *)
(* that of the acquisition and that of the reports, over any number of     *)
(* lives of the processes that hold them.  The commands acquire and        *)
(* report-schedule each have a process; the station has both connections   *)
(* in one, which is a case of this.                                        *)
(*                                                                         *)
(* The connection of the acquisition is used by two threads: the writer of *)
(* the asynchronous sink stores sweeps, and the worker records incidents.  *)
(* A transaction belongs to the connection and not to the thread, so       *)
(* whoever rolls back takes with it what any other thread has pending.     *)
(* SQLite commits each statement of a script by itself, lets one           *)
(* connection write at a time and loses nothing that was committed.        *)
(***************************************************************************)
EXTENDS Naturals, Sequences, FiniteSets

CONSTANTS
    Retention,     \* incident_retention
    MaxSweeps,     \* bound: how many sweeps there are to store
    MaxIncidents   \* bound: how many incidents there are, numbered by timestamp

ASSUME StorageAssumption ==
    /\ Retention \in Nat \ {0} /\ MaxSweeps \in Nat /\ MaxIncidents \in Nat

VARIABLES
    first,      \* history: the version of the database before all
    version,    \* user_version
    tables,     \* the tables there are
    rows,       \* their committed rows
    conn,       \* each connection: where it is, and the script it has to run
    pending,    \* each connection: the changes of its open transaction
    writing,    \* the connection that holds SQLite's write lock
    owner,      \* each connection: who holds _db_lock
    call,       \* each thread: where it is in its call, and with which row
    error,      \* each connection: storage_error
    stopped,    \* the sink stores no more: the writer had an error
    taken,      \* history: the rows that were to be written
    answered,   \* history: the rows whose caller was told that they are stored
    refused,    \* history: the rows whose caller was told that they are not
    kept        \* history: the incidents that were ever committed

schemaVars  == <<version, tables>>
historyVars == <<taken, answered, refused, kept>>
vars == <<first, schemaVars, rows, conn, pending, writing, owner, call, error, stopped,
          historyVars>>

Conns   == {"acquisition", "report"}
Threads == {"writer", "worker", "scheduler"}
Tables  == {"sweeps", "incidents"}

ConnOf(t)  == IF t = "scheduler" THEN "report" ELSE "acquisition"
TableOf(t) == IF t = "writer" THEN "sweeps" ELSE "incidents"
ThreadsOf(c) == {t \in Threads : ConnOf(t) = c}

Ids(table) == IF table = "sweeps" THEN 1 .. MaxSweeps ELSE 1 .. MaxIncidents

Down == [state |-> "down", todo |-> <<>>]
Idle == [at |-> "idle", id |-> 0, ok |-> FALSE]

NoRows    == [table \in Tables |-> {}]
NoChanges == [added |-> NoRows, removed |-> {}]

TablesOf(v) == IF v = 0 THEN {} ELSE IF v = 1 THEN {"sweeps"} ELSE Tables

\* No database, one of the first version, or one of the second.
Init ==
    /\ first \in 0 .. 2 /\ version = first /\ tables = TablesOf(first)
    /\ rows = NoRows
    /\ conn = [c \in Conns |-> Down]
    /\ pending = [c \in Conns |-> NoChanges]
    /\ writing = "none"
    /\ owner = [c \in Conns |-> "none"]
    /\ call = [t \in Threads |-> Idle]
    /\ error = [c \in Conns |-> "none"]
    /\ stopped = FALSE
    /\ taken = NoRows /\ answered = NoRows /\ refused = NoRows /\ kept = {}

-----------------------------------------------------------------------------
(* Opening, closing and the end of a process.                              *)

\* Slip: the version is set before the table it stands for is there.
ScriptNumberFirst(v) ==
    CASE v = 0 -> <<"sweeps", "version", "incidents">>
      [] v = 1 -> <<"version", "incidents">>
      [] v = 2 -> <<>>

\* _initialize: what is left to run for a database of this version.  An index is
\* made with its table, as nothing depends on it.
Script(v) ==
    CASE v = 0 -> <<"sweeps", "version", "incidents">>
      [] v = 1 -> <<"incidents", "version">>
      [] v = 2 -> <<>>

Connect(c) ==
    /\ conn[c] = Down
    /\ conn' = [conn EXCEPT ![c] = [state |-> "opening", todo |-> Script(version)]]
    /\ UNCHANGED <<first, schemaVars, rows, pending, writing, owner, call, error, stopped,
                   historyVars>>

\* Each statement of the script is committed by itself, tables IF NOT EXISTS.
RunStatement(c) ==
    /\ conn[c].state = "opening" /\ conn[c].todo # <<>> /\ writing = "none"
    /\ IF Head(conn[c].todo) = "version"
       THEN version' = 2 /\ UNCHANGED tables
       ELSE tables' = tables \union {Head(conn[c].todo)} /\ UNCHANGED version
    /\ conn' = [conn EXCEPT ![c].todo = Tail(@)]
    /\ UNCHANGED <<first, rows, pending, writing, owner, call, error, stopped, historyVars>>

Opened(c) ==
    /\ conn[c].state = "opening" /\ conn[c].todo = <<>>
    /\ conn' = [conn EXCEPT ![c].state = "open"]
    /\ UNCHANGED <<first, schemaVars, rows, pending, writing, owner, call, error, stopped,
                   historyVars>>

\* close waits for _db_lock; what is called later fails.
Close(c) ==
    /\ conn[c].state = "open" /\ owner[c] = "none"
    /\ conn' = [conn EXCEPT ![c].state = "closed"]
    /\ UNCHANGED <<first, schemaVars, rows, pending, writing, owner, call, error, stopped,
                   historyVars>>

\* The process that holds the connection ends, in the middle of anything, also of
\* opening it, which may have failed.
ProcessEnds(c) ==
    /\ conn[c] # Down
    /\ conn' = [conn EXCEPT ![c] = Down]
    /\ pending' = [pending EXCEPT ![c] = NoChanges]
    /\ writing' = IF writing = c THEN "none" ELSE writing
    /\ owner' = [owner EXCEPT ![c] = "none"]
    /\ call' = [t \in Threads |-> IF t \in ThreadsOf(c) THEN Idle ELSE call[t]]
    /\ error' = [error EXCEPT ![c] = "none"]
    /\ stopped' = IF c = "acquisition" THEN FALSE ELSE stopped
    /\ UNCHANGED <<first, schemaVars, rows, historyVars>>

-----------------------------------------------------------------------------
(* store_sweep and record_incident.                                        *)

Goes(t, from, to) == call[t].at = from /\ call' = [call EXCEPT ![t].at = to]

\* The call takes its row, and an incident its timestamp, before it has the lock.
Call(t, id) ==
    /\ call[t] = Idle /\ conn[ConnOf(t)].state \in {"open", "closed"}
    /\ t = "writer" => ~stopped
    /\ id \in Ids(TableOf(t)) \ taken[TableOf(t)]
    /\ call' = [call EXCEPT ![t] = [at |-> "lock", id |-> id, ok |-> FALSE]]
    /\ taken' = [taken EXCEPT ![TableOf(t)] = @ \union {id}]
    /\ UNCHANGED <<first, schemaVars, rows, conn, pending, writing, owner, error, stopped,
                   answered, refused, kept>>

\* Slip: the connection is used without _db_lock.
LockAnyway(t) ==
    /\ Goes(t, "lock", "insert")
    /\ owner' = [owner EXCEPT ![ConnOf(t)] = t]
    /\ UNCHANGED <<first, schemaVars, rows, conn, pending, writing, error, stopped, historyVars>>

Lock(t) ==
    /\ Goes(t, "lock", "insert")
    /\ owner[ConnOf(t)] = "none"
    /\ owner' = [owner EXCEPT ![ConnOf(t)] = t]
    /\ UNCHANGED <<first, schemaVars, rows, conn, pending, writing, error, stopped, historyVars>>

\* The first change of a transaction takes SQLite's write lock.
Insert(t) ==
    LET c == ConnOf(t)
    IN  /\ Goes(t, "insert", IF t = "writer" THEN "commit" ELSE "prune")
        /\ conn[c].state = "open" /\ TableOf(t) \in tables
        /\ writing \in {"none", c} /\ writing' = c
        /\ pending' = [pending EXCEPT ![c].added[TableOf(t)] = @ \union {call[t].id}]
        /\ UNCHANGED <<first, schemaVars, rows, conn, owner, error, stopped, historyVars>>

\* Slip: one incident more than the retention stays.
BeyondAndOne(incidents) == {i \in incidents : Cardinality({j \in incidents : j > i}) > Retention}

\* What is not among the newest.
Beyond(incidents) == {i \in incidents : Cardinality({j \in incidents : j > i}) >= Retention}

Prune(t) ==
    LET c == ConnOf(t)
    IN  /\ Goes(t, "prune", "commit")
        /\ pending' = [pending EXCEPT ![c].removed =
                          Beyond(rows["incidents"] \union pending[c].added["incidents"])]
        /\ UNCHANGED <<first, schemaVars, rows, conn, writing, owner, error, stopped, historyVars>>

Leave(t, ok) ==
    LET c == ConnOf(t)
    IN  /\ call' = [call EXCEPT ![t].at = "tell", ![t].ok = ok]
        /\ pending' = [pending EXCEPT ![c] = NoChanges]
        /\ writing' = IF writing = c THEN "none" ELSE writing
        /\ owner' = [owner EXCEPT ![c] = "none"]

\* The end of the with block: the whole transaction of the connection.
Commit(t) ==
    LET done == pending[ConnOf(t)]
    IN  /\ call[t].at = "commit"
        /\ Leave(t, TRUE)
        /\ rows' = [rows EXCEPT !["sweeps"] = @ \union done.added["sweeps"],
                                !["incidents"] = (@ \union done.added["incidents"]) \ done.removed]
        /\ kept' = kept \union done.added["incidents"]
        /\ UNCHANGED <<first, schemaVars, conn, error, stopped, taken, answered, refused>>

\* A statement or the commit raises: a full disk, the write lock not had within
\* busy_timeout, a missing table, a closed connection.  All is rolled back.
Fail(t) ==
    /\ call[t].at \in {"insert", "prune", "commit"}
    /\ Leave(t, FALSE)
    /\ UNCHANGED <<first, schemaVars, rows, conn, error, stopped, historyVars>>

\* Slip: whatever is written clears the error.
NoteAndClear(t) == IF call[t].ok THEN "none" ELSE TableOf(t)

\* A sweep that is stored clears the error, also that of an incident; an incident
\* that is recorded clears none.
Note(t) ==
    IF ~call[t].ok THEN TableOf(t)
    ELSE IF t = "writer" THEN "none" ELSE error[ConnOf(t)]

\* The telemetry has a lock of its own, taken after the other one was left.  An
\* error ends the storing of sweeps (_write_loop of the asynchronous sink).
Tell(t) ==
    /\ call[t].at = "tell"
    /\ call' = [call EXCEPT ![t] = Idle]
    /\ error' = [error EXCEPT ![ConnOf(t)] = Note(t)]
    /\ stopped' = (stopped \/ (t = "writer" /\ ~call[t].ok))
    /\ IF call[t].ok
       THEN /\ answered' = [answered EXCEPT ![TableOf(t)] = @ \union {call[t].id}]
            /\ UNCHANGED refused
       ELSE /\ refused' = [refused EXCEPT ![TableOf(t)] = @ \union {call[t].id}]
            /\ UNCHANGED answered
    /\ UNCHANGED <<first, schemaVars, rows, conn, pending, writing, owner, taken, kept>>

-----------------------------------------------------------------------------
Next ==
    \/ \E c \in Conns : Connect(c) \/ RunStatement(c) \/ Opened(c) \/ Close(c) \/ ProcessEnds(c)
    \/ \E t \in Threads :
          \/ \E id \in Ids(TableOf(t)) : Call(t, id)
          \/ Lock(t) \/ Insert(t) \/ Prune(t) \/ Commit(t) \/ Fail(t) \/ Tell(t)

Spec == Init /\ [][Next]_vars

-----------------------------------------------------------------------------
(* Properties.                                                             *)

RowSets == [sweeps : SUBSET Nat, incidents : SUBSET Nat]

TypeOK ==
    /\ first \in 0 .. 2 /\ version \in 0 .. 2 /\ tables \subseteq Tables
    /\ rows \in RowSets
    /\ conn \in [Conns -> [state : {"down", "opening", "open", "closed"},
                           todo : Seq({"sweeps", "incidents", "version"})]]
    /\ pending \in [Conns -> [added : RowSets, removed : SUBSET Nat]]
    /\ writing \in Conns \union {"none"}
    /\ owner \in [Conns -> Threads \union {"none"}]
    /\ call \in [Threads -> [at : {"idle", "lock", "insert", "prune", "commit", "tell"},
                             id : Nat, ok : BOOLEAN]]
    /\ error \in [Conns -> Tables \union {"none"}]
    /\ stopped \in BOOLEAN
    /\ taken \in RowSets /\ answered \in RowSets /\ refused \in RowSets /\ kept \subseteq Nat

\* What a caller was told is true in the file, whatever the other threads of the
\* connection did meanwhile, and after any end of a process: a stored row is
\* there, a refused one is not (_db_lock around every transaction).
AnswersTrue ==
    /\ answered["sweeps"] \subseteq rows["sweeps"]
    /\ refused["sweeps"] \intersect rows["sweeps"] = {}
    /\ answered["incidents"] \subseteq kept
    /\ refused["incidents"] \intersect kept = {}

\* The incidents in the file are the newest of all that were ever recorded, over
\* both connections and in whatever order they were committed (record_incident).
NewestKept ==
    rows["incidents"] = {i \in kept : Cardinality({j \in kept : j > i}) < Retention}

\* A connection that is open has the tables it needs.  Of a database that was
\* first made by this version only the sweeps are sure: a process that ends after
\* its version is set and before its incidents are made leaves it without them,
\* and no later start adds them (_initialize).
SchemaUsable ==
    \A c \in Conns : conn[c].state = "open" =>
        "sweeps" \in tables /\ (first # 0 => "incidents" \in tables)

\* A sweep that could not be stored shows in the telemetry until the process ends,
\* whatever is recorded after it: the summary counts on it (store_sweep).
FailuresShow == stopped => error["acquisition"] # "none"
=============================================================================
