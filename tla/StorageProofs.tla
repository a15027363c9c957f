---------------------------- MODULE StorageProofs ----------------------------
(***************************************************************************)
(* What the callers of the store are told is true, a sweep that was lost   *)
(* shows, an open database has its tables, and the incidents in the file   *)
(* are the newest: for any retention and any numbers of sweeps and         *)
(* incidents, through any ends of a process.                               *)
(*                                                                         *)
(* The argument for the answers: who is in a transaction owns _db_lock of  *)
(* the connection, so what the connection has pending is that row alone,   *)
(* and neither a commit nor a rollback can reach another thread's.  For    *)
(* the incidents: what a call removes it has found while it held SQLite's  *)
(* write lock, so the rows are still those, and to prune after each leaves *)
(* the same as to prune once after all.                                    *)
(***************************************************************************)
EXTENDS Storage, FiniteSetTheorems, WellFoundedInduction, TLAPS

USE StorageAssumption DEF StorageAssumption

States == {"idle", "lock", "insert", "prune", "commit", "tell"}

\* What is in the file for good: incidents may be pruned, which is not a loss.
Stored(table) == IF table = "sweeps" THEN rows["sweeps"] ELSE kept

Busy(t)   == call[t].at # "idle"
Before(t) == call[t].at \in {"lock", "insert", "prune", "commit"}
Inside(t) == call[t].at \in {"insert", "prune", "commit"}

OnlyRow(t) == [NoRows EXCEPT ![TableOf(t)] = {call[t].id}]

-----------------------------------------------------------------------------
(* Types.                                                                  *)

\* The calls, the locks and the notes keep their types.
CallType ==
    /\ owner \in [Conns -> Threads \union {"none"}]
    /\ call \in [Threads -> [at : States, id : Nat, ok : BOOLEAN]]
    /\ error \in [Conns -> Tables \union {"none"}]
    /\ stopped \in BOOLEAN
    /\ taken \in RowSets /\ answered \in RowSets /\ refused \in RowSets

\* The file and what is pending keep their types.
FileType ==
    /\ rows \in RowSets /\ kept \subseteq Nat
    /\ pending \in [Conns -> [added : RowSets, removed : SUBSET Nat]]
    /\ writing \in Conns \union {"none"}

\* Each todo is what is left of a script.
Todos == {<<>>, <<"incidents">>, <<"version">>, <<"incidents", "version">>,
          <<"version", "incidents">>, <<"sweeps", "version", "incidents">>}

SchemaType ==
    /\ first \in 0 .. 2 /\ version \in 0 .. 2 /\ tables \subseteq Tables
    /\ conn \in [Conns -> [state : {"down", "opening", "open", "closed"}, todo : Todos]]

\* The three parts make up the type invariant.
LEMMA TypesSuffice == CallType /\ FileType /\ SchemaType => TypeOK
<1> SUFFICES ASSUME CallType, FileType, SchemaType PROVE TypeOK
  OBVIOUS
<1>1. Todos \subseteq Seq({"sweeps", "incidents", "version"})
  BY DEF Todos
<1>2. conn \in [Conns -> [state : {"down", "opening", "open", "closed"},
                          todo : Seq({"sweeps", "incidents", "version"})]]
  BY <1>1 DEF SchemaType
<1> QED BY <1>2 DEF CallType, FileType, SchemaType, TypeOK, States

\* The calls keep their types.
LEMMA CallTypeStep == CallType /\ [Next]_vars => CallType'
<1> SUFFICES ASSUME CallType, [Next]_vars PROVE CallType'
  OBVIOUS
<1> USE DEF CallType, historyVars, schemaVars
<1>1. CASE UNCHANGED vars
  BY <1>1 DEF vars
<1>2. ASSUME NEW c \in Conns, Connect(c) \/ RunStatement(c) \/ Opened(c) \/ Close(c) PROVE CallType'
  BY <1>2 DEF Connect, RunStatement, Opened, Close
<1>3. ASSUME NEW c \in Conns, ProcessEnds(c) PROVE CallType'
  <2>1. Idle \in [at : States, id : Nat, ok : BOOLEAN]
    BY DEF Idle, States
  <2>2. call' \in [Threads -> [at : States, id : Nat, ok : BOOLEAN]]
    BY <1>3, <2>1 DEF ProcessEnds
  <2>3. stopped' \in BOOLEAN
    BY <1>3 DEF ProcessEnds
  <2> QED BY <1>3, <2>2, <2>3 DEF ProcessEnds
<1>4. ASSUME NEW t \in Threads, NEW id \in Ids(TableOf(t)), Call(t, id) PROVE CallType'
  <2>1. id \in Nat /\ TableOf(t) \in Tables
    BY DEF Ids, TableOf, Tables
  <2>2. taken' \in RowSets
    BY <1>4, <2>1 DEF Call, RowSets, Tables
  <2>3. [at |-> "lock", id |-> id, ok |-> FALSE] \in [at : States, id : Nat, ok : BOOLEAN]
    BY <2>1 DEF States
  <2> QED BY <1>4, <2>2, <2>3 DEF Call
<1>5. ASSUME NEW t \in Threads, Lock(t) \/ Insert(t) \/ Prune(t) PROVE CallType'
  <2>1. call' \in [Threads -> [at : States, id : Nat, ok : BOOLEAN]]
    BY <1>5 DEF Lock, Insert, Prune, Goes, States
  <2>2. owner' \in [Conns -> Threads \union {"none"}]
    BY <1>5 DEF Lock, Insert, Prune
  <2> QED BY <1>5, <2>1, <2>2 DEF Lock, Insert, Prune
<1>6. ASSUME NEW t \in Threads, Commit(t) \/ Fail(t) PROVE CallType'
  <2>1. PICK ok \in BOOLEAN : Leave(t, ok)
    BY <1>6 DEF Commit, Fail
  <2>2. call' \in [Threads -> [at : States, id : Nat, ok : BOOLEAN]]
    BY <2>1 DEF Leave, States
  <2>3. owner' \in [Conns -> Threads \union {"none"}]
    BY <2>1 DEF Leave
  <2> QED BY <1>6, <2>2, <2>3 DEF Commit, Fail
<1>7. ASSUME NEW t \in Threads, Tell(t) PROVE CallType'
  <2>1. TableOf(t) \in Tables /\ ConnOf(t) \in Conns /\ call[t].id \in Nat
    BY DEF TableOf, ConnOf, Tables, Conns
  <2>2. call' \in [Threads -> [at : States, id : Nat, ok : BOOLEAN]]
    BY <1>7 DEF Tell, Idle, States
  <2>3. error' \in [Conns -> Tables \union {"none"}]
    BY <1>7, <2>1 DEF Tell, Note
  <2>4. answered' \in RowSets /\ refused' \in RowSets
    BY <1>7, <2>1 DEF Tell, RowSets, Tables
  <2>5. stopped' \in BOOLEAN
    BY <1>7 DEF Tell
  <2> QED BY <1>7, <2>2, <2>3, <2>4, <2>5 DEF Tell
<1> QED BY <1>1, <1>2, <1>3, <1>4, <1>5, <1>6, <1>7 DEF Next

\* The file keeps its types.
LEMMA FileTypeStep == CallType /\ FileType /\ [Next]_vars => FileType'
<1> SUFFICES ASSUME CallType, FileType, [Next]_vars PROVE FileType'
  OBVIOUS
<1> USE DEF FileType, historyVars, schemaVars
<1>0. NoChanges \in [added : RowSets, removed : SUBSET Nat]
  BY DEF NoChanges, NoRows, RowSets, Tables
<1>1. CASE UNCHANGED vars
  BY <1>1 DEF vars
<1>2. ASSUME NEW c \in Conns, Connect(c) \/ RunStatement(c) \/ Opened(c) \/ Close(c) PROVE FileType'
  BY <1>2 DEF Connect, RunStatement, Opened, Close
<1>3. ASSUME NEW c \in Conns, ProcessEnds(c) PROVE FileType'
  BY <1>0, <1>3 DEF ProcessEnds
<1>4. ASSUME NEW t \in Threads, NEW id \in Ids(TableOf(t)), Call(t, id) PROVE FileType'
  BY <1>4 DEF Call
<1>5. ASSUME NEW t \in Threads, Lock(t) \/ Tell(t) PROVE FileType'
  BY <1>5 DEF Lock, Tell
<1>6. ASSUME NEW t \in Threads, Insert(t) PROVE FileType'
  <2>1. ConnOf(t) \in Conns /\ TableOf(t) \in Tables /\ call[t].id \in Nat
    BY DEF ConnOf, Conns, TableOf, Tables, CallType
  <2> DEFINE new == [pending[ConnOf(t)].added EXCEPT ![TableOf(t)] = @ \union {call[t].id}]
  <2>2. new \in RowSets
    BY <2>1 DEF RowSets, Tables
  <2>3. pending' \in [Conns -> [added : RowSets, removed : SUBSET Nat]]
    BY <1>6, <2>1, <2>2 DEF Insert
  <2> QED BY <1>6, <2>1, <2>3 DEF Insert
<1>7. ASSUME NEW t \in Threads, Prune(t) PROVE FileType'
  <2>1. ConnOf(t) \in Conns
    BY DEF ConnOf, Conns
  <2>2. Beyond(rows["incidents"] \union pending[ConnOf(t)].added["incidents"]) \in SUBSET Nat
    BY <2>1 DEF Beyond, RowSets
  <2>3. pending' \in [Conns -> [added : RowSets, removed : SUBSET Nat]]
    BY <1>7, <2>1, <2>2 DEF Prune
  <2> QED BY <1>7, <2>3 DEF Prune
<1>8. ASSUME NEW t \in Threads, Commit(t) \/ Fail(t) PROVE FileType'
  <2>1. PICK ok \in BOOLEAN : Leave(t, ok)
    BY <1>8 DEF Commit, Fail
  <2>2. /\ pending' \in [Conns -> [added : RowSets, removed : SUBSET Nat]]
        /\ writing' \in Conns \union {"none"}
    BY <1>0, <2>1 DEF Leave
  <2>3. CASE Fail(t)
    BY <2>2, <2>3 DEF Fail
  <2>4. CASE Commit(t)
    <3>1. ConnOf(t) \in Conns
      BY DEF ConnOf, Conns
    <3>2. rows' \in RowSets /\ kept' \subseteq Nat
      BY <2>4, <3>1 DEF Commit, RowSets
    <3> QED BY <2>2, <3>2
  <2> QED BY <1>8, <2>3, <2>4
<1> QED BY <1>1, <1>2, <1>3, <1>4, <1>5, <1>6, <1>7, <1>8 DEF Next

-----------------------------------------------------------------------------
(* The lock and what is pending.                                           *)

\* Who is in a transaction owns the lock of its connection.
Owned == \A t \in Threads : Inside(t) => owner[ConnOf(t)] = t

\* The transaction of a connection has the owner's row, once it is inserted.
OwnPending ==
    \A t \in Threads :
        /\ call[t].at = "insert" => pending[ConnOf(t)].added = NoRows
        /\ call[t].at \in {"prune", "commit"} => pending[ConnOf(t)].added = OnlyRow(t)

\* Nothing is pending while the lock is free.
FreeIsEmpty == \A c \in Conns : owner[c] = "none" => pending[c] = NoChanges

LockInv == Owned /\ OwnPending /\ FreeIsEmpty

\* Only one thread of a connection is in a transaction.
LEMMA OneInside ==
    ASSUME Owned, NEW t \in Threads, NEW u \in Threads, Inside(t), Inside(u),
           ConnOf(t) = ConnOf(u)
    PROVE  t = u
BY DEF Owned

\* What a thread leaves behind is a free and empty connection.
LEMMA LeaveLock ==
    ASSUME CallType, FileType, LockInv, NEW t \in Threads, Inside(t), NEW ok \in BOOLEAN,
           Leave(t, ok)
    PROVE  LockInv'
<1>1. ConnOf(t) \in Conns
  BY DEF ConnOf, Conns
<1>2. /\ call' = [call EXCEPT ![t].at = "tell", ![t].ok = ok]
      /\ pending' = [pending EXCEPT ![ConnOf(t)] = NoChanges]
      /\ owner' = [owner EXCEPT ![ConnOf(t)] = "none"]
  BY DEF Leave
<1>3. ASSUME NEW u \in Threads, Inside(u)' PROVE u # t /\ Inside(u) /\ ConnOf(u) # ConnOf(t)
  <2>1. call'[t].at = "tell" /\ (u # t => call'[u] = call[u])
    BY <1>2 DEF CallType
  <2>2. u # t /\ Inside(u)
    BY <1>3, <2>1 DEF Inside
  <2> QED BY <2>2, OneInside DEF LockInv
<1>4. Owned'
  <2> SUFFICES ASSUME NEW u \in Threads, Inside(u)' PROVE owner'[ConnOf(u)] = u
    BY DEF Owned
  <2>1. owner[ConnOf(u)] = u /\ ConnOf(u) # ConnOf(t) /\ ConnOf(u) \in Conns
    BY <1>3 DEF LockInv, Owned, ConnOf, Conns
  <2> QED BY <1>1, <1>2, <2>1 DEF CallType
<1>5. OwnPending'
  <2> SUFFICES ASSUME NEW u \in Threads, Inside(u)'
               PROVE  /\ call'[u].at = "insert" => pending'[ConnOf(u)].added = NoRows
                      /\ call'[u].at \in {"prune", "commit"} =>
                             pending'[ConnOf(u)].added = OnlyRow(u)'
    BY DEF OwnPending, Inside
  <2>1. u # t /\ ConnOf(u) # ConnOf(t) /\ ConnOf(u) \in Conns
    BY <1>3 DEF ConnOf, Conns
  <2>2. call'[u] = call[u] /\ pending'[ConnOf(u)] = pending[ConnOf(u)]
    BY <1>1, <1>2, <2>1 DEF CallType, FileType
  <2> QED BY <2>2 DEF LockInv, OwnPending, OnlyRow
<1>6. FreeIsEmpty'
  BY <1>1, <1>2 DEF LockInv, FreeIsEmpty, CallType, FileType
<1> QED BY <1>4, <1>5, <1>6 DEF LockInv

\* A step that changes no connection and brings nobody into a transaction.
LEMMA FrameLock ==
    ASSUME LockInv, UNCHANGED <<owner, pending>>,
           \A u \in Threads : Inside(u)' => call'[u] = call[u]
    PROVE  LockInv'
BY DEF LockInv, Owned, OwnPending, FreeIsEmpty, Inside, OnlyRow

\* Every step keeps who owns what.
LEMMA LockStep == CallType /\ FileType /\ LockInv /\ [Next]_vars => LockInv'
<1> SUFFICES ASSUME CallType, FileType, LockInv, [Next]_vars PROVE LockInv'
  OBVIOUS
<1> USE DEF historyVars, schemaVars
<1>0. \A t \in Threads : ConnOf(t) \in Conns /\ TableOf(t) \in Tables
  BY DEF ConnOf, Conns, TableOf, Tables
<1>1. CASE UNCHANGED vars
  BY <1>1, FrameLock DEF vars
<1>2. ASSUME NEW c \in Conns, Connect(c) \/ RunStatement(c) \/ Opened(c) \/ Close(c) PROVE LockInv'
  BY <1>2, FrameLock DEF Connect, RunStatement, Opened, Close
<1>3. ASSUME NEW c \in Conns, ProcessEnds(c) PROVE LockInv'
  <2>1. \A u \in Threads : IF ConnOf(u) = c THEN call'[u] = Idle ELSE call'[u] = call[u]
    BY <1>3 DEF ProcessEnds, ThreadsOf
  <2>2. \A u \in Threads : Inside(u)' => Inside(u) /\ ConnOf(u) # c /\ call'[u] = call[u]
    BY <2>1 DEF Inside, Idle
  <2>3. /\ pending' = [pending EXCEPT ![c] = NoChanges]
        /\ owner' = [owner EXCEPT ![c] = "none"]
    BY <1>3 DEF ProcessEnds
  <2>4. Owned'
    BY <1>0, <2>2, <2>3 DEF LockInv, Owned, CallType
  <2>5. OwnPending'
    <3> SUFFICES ASSUME NEW u \in Threads, Inside(u)'
                 PROVE  /\ call'[u].at = "insert" => pending'[ConnOf(u)].added = NoRows
                        /\ call'[u].at \in {"prune", "commit"} =>
                               pending'[ConnOf(u)].added = OnlyRow(u)'
      BY DEF OwnPending, Inside
    <3>1. call'[u] = call[u] /\ pending'[ConnOf(u)] = pending[ConnOf(u)]
      BY <1>0, <2>2, <2>3 DEF FileType
    <3> QED BY <3>1 DEF LockInv, OwnPending, OnlyRow
  <2>6. FreeIsEmpty'
    BY <2>3 DEF LockInv, FreeIsEmpty, CallType, FileType
  <2> QED BY <2>4, <2>5, <2>6 DEF LockInv
<1>4. ASSUME NEW t \in Threads, NEW id \in Ids(TableOf(t)), Call(t, id) PROVE LockInv'
  <2>1. call' = [call EXCEPT ![t] = [at |-> "lock", id |-> id, ok |-> FALSE]]
    BY <1>4 DEF Call
  <2>2. \A u \in Threads : Inside(u)' => call'[u] = call[u]
    BY <2>1 DEF CallType, Inside
  <2> QED BY <1>4, <2>2, FrameLock DEF Call
<1>5. ASSUME NEW t \in Threads, Lock(t) PROVE LockInv'
  <2>1. /\ call' = [call EXCEPT ![t].at = "insert"] /\ owner[ConnOf(t)] = "none"
        /\ owner' = [owner EXCEPT ![ConnOf(t)] = t] /\ pending' = pending
    BY <1>5 DEF Lock, Goes
  <2>2. call'[t].at = "insert" /\ \A u \in Threads : u # t => call'[u] = call[u]
    BY <2>1 DEF CallType
  <2>3. ASSUME NEW u \in Threads, u # t, Inside(u)' PROVE Inside(u) /\ ConnOf(u) # ConnOf(t)
    <3>1. Inside(u)
      BY <2>2, <2>3 DEF Inside
    <3>2. owner[ConnOf(u)] = u
      BY <3>1 DEF LockInv, Owned
    <3>3. u # "none"
      BY DEF Threads
    <3> QED BY <2>1, <3>1, <3>2, <3>3
  <2>4. Owned'
    <3> SUFFICES ASSUME NEW u \in Threads, Inside(u)' PROVE owner'[ConnOf(u)] = u
      BY DEF Owned
    <3>1. CASE u = t
      BY <1>0, <2>1, <3>1 DEF CallType
    <3>2. CASE u # t
      BY <1>0, <2>1, <2>3, <3>2 DEF CallType, LockInv, Owned
    <3> QED BY <3>1, <3>2
  <2>5. OwnPending'
    <3> SUFFICES ASSUME NEW u \in Threads
                 PROVE  /\ call'[u].at = "insert" => pending[ConnOf(u)].added = NoRows
                        /\ call'[u].at \in {"prune", "commit"} =>
                               pending[ConnOf(u)].added = OnlyRow(u)'
      BY <2>1 DEF OwnPending
    <3>1. CASE u = t
      BY <1>0, <2>1, <2>2, <3>1 DEF LockInv, FreeIsEmpty, NoChanges
    <3>2. CASE u # t
      BY <2>2, <3>2 DEF LockInv, OwnPending, OnlyRow
    <3> QED BY <3>1, <3>2
  <2>6. FreeIsEmpty'
    <3>1. t # "none"
      BY DEF Threads
    <3> QED BY <1>0, <2>1, <3>1 DEF LockInv, FreeIsEmpty, CallType
  <2> QED BY <2>4, <2>5, <2>6 DEF LockInv
<1>6. ASSUME NEW t \in Threads, Insert(t) \/ Prune(t) PROVE LockInv'
  <2> DEFINE c == ConnOf(t)
  <2>1. PICK to \in {"prune", "commit"} : call' = [call EXCEPT ![t].at = to]
    BY <1>6 DEF Insert, Prune, Goes
  <2>2. Inside(t) /\ owner[c] = t /\ owner' = owner
    BY <1>6 DEF Insert, Prune, Goes, Inside, LockInv, Owned
  <2>3. /\ call'[t].at = to /\ call'[t].id = call[t].id
        /\ \A u \in Threads : u # t => call'[u] = call[u]
    BY <2>1 DEF CallType
  <2>4. Owned'
    BY <2>2, <2>3 DEF LockInv, Owned, Inside
  <2>5. /\ pending'[c].added = OnlyRow(t)
        /\ \A d \in Conns : d # c => pending'[d] = pending[d]
    <3>1. CASE Insert(t)
      <4>1. pending[c].added = NoRows
        BY <3>1 DEF Insert, Goes, LockInv, OwnPending
      <4>2. pending' = [pending EXCEPT ![c].added[TableOf(t)] = @ \union {call[t].id}]
        BY <3>1 DEF Insert
      <4>3. pending'[c].added = [NoRows EXCEPT ![TableOf(t)] = NoRows[TableOf(t)] \union {call[t].id}]
        BY <1>0, <4>1, <4>2 DEF FileType
      <4>4. NoRows[TableOf(t)] = {}
        BY <1>0 DEF NoRows
      <4> QED BY <1>0, <4>2, <4>3, <4>4 DEF OnlyRow, FileType
    <3>2. CASE Prune(t)
      <4>1. pending[c].added = OnlyRow(t)
        BY <3>2 DEF Prune, Goes, LockInv, OwnPending
      <4>2. PICK gone : pending' = [pending EXCEPT ![c].removed = gone]
        BY <3>2 DEF Prune
      <4> QED BY <1>0, <4>1, <4>2 DEF FileType
    <3> QED BY <1>6, <3>1, <3>2
  <2>6. OwnPending'
    <3> SUFFICES ASSUME NEW u \in Threads, Inside(u)'
                 PROVE  /\ call'[u].at = "insert" => pending'[ConnOf(u)].added = NoRows
                        /\ call'[u].at \in {"prune", "commit"} =>
                               pending'[ConnOf(u)].added = OnlyRow(u)'
      BY DEF OwnPending, Inside
    <3>1. CASE u = t
      BY <2>1, <2>3, <2>5, <3>1 DEF OnlyRow
    <3>2. CASE u # t
      <4>1. Inside(u) /\ call'[u] = call[u]
        BY <2>3, <3>2 DEF Inside
      <4>2. ConnOf(u) # c
        BY <2>2, <3>2, <4>1, OneInside DEF LockInv
      <4> QED BY <1>0, <2>5, <4>1, <4>2 DEF LockInv, OwnPending, OnlyRow
    <3> QED BY <3>1, <3>2
  <2>7. FreeIsEmpty'
    <3>1. t # "none"
      BY DEF Threads
    <3> QED BY <2>2, <2>5, <3>1 DEF LockInv, FreeIsEmpty
  <2> QED BY <2>4, <2>6, <2>7 DEF LockInv
<1>7. ASSUME NEW t \in Threads, Commit(t) \/ Fail(t) PROVE LockInv'
  <2>1. PICK ok \in BOOLEAN : Leave(t, ok)
    BY <1>7 DEF Commit, Fail
  <2>2. Inside(t)
    BY <1>7 DEF Commit, Fail, Inside
  <2> QED BY <2>1, <2>2, LeaveLock
<1>8. ASSUME NEW t \in Threads, Tell(t) PROVE LockInv'
  <2>1. call' = [call EXCEPT ![t] = Idle]
    BY <1>8 DEF Tell
  <2>2. \A u \in Threads : Inside(u)' => call'[u] = call[u]
    BY <2>1 DEF CallType, Inside, Idle
  <2> QED BY <1>8, <2>2, FrameLock DEF Tell
<1> QED BY <1>1, <1>2, <1>3, <1>4, <1>5, <1>6, <1>7, <1>8 DEF Next

-----------------------------------------------------------------------------
(* The rows and the answers.                                               *)

\* A call has a row of its own, which nobody was told of yet.
RowsTaken ==
    \A t \in Threads : Busy(t) =>
        /\ call[t].id \in taken[TableOf(t)]
        /\ call[t].id \notin answered[TableOf(t)] \union refused[TableOf(t)]

RowsDistinct ==
    \A t, u \in Threads :
        Busy(t) /\ Busy(u) /\ TableOf(t) = TableOf(u) /\ t # u => call[t].id # call[u].id

\* Until the call has left the lock its row is not stored; then it is if it says so.
RowsOf ==
    \A t \in Threads :
        /\ Before(t) => call[t].id \notin Stored(TableOf(t))
        /\ call[t].at = "tell" => (call[t].ok <=> call[t].id \in Stored(TableOf(t)))

OnlyTaken ==
    \A table \in Tables :
        Stored(table) \union answered[table] \union refused[table] \subseteq taken[table]

Told ==
    \A table \in Tables :
        answered[table] \subseteq Stored(table) /\ refused[table] \intersect Stored(table) = {}

RowInv == RowsTaken /\ RowsDistinct /\ RowsOf /\ OnlyTaken /\ Told

\* Told is what the run checks.
LEMMA ToldIsTrue == Told => AnswersTrue
BY DEF Told, Tables, Stored, AnswersTrue

\* A step that writes no row and no history, and leaves calls as they are, ends them,
\* or moves them on within the transaction.
Continues(u) ==
    /\ Busy(u) /\ call'[u].id = call[u].id /\ call'[u].ok = call[u].ok
    /\ Before(u)' => Before(u)
    /\ call'[u].at = "tell" => call[u].at = "tell"

LEMMA FrameRows ==
    ASSUME RowInv, UNCHANGED <<rows, kept, taken, answered, refused>>,
           \A u \in Threads : call'[u].at = "idle" \/ Continues(u)
    PROVE  RowInv'
<1>0. \A table : Stored(table)' = Stored(table)
  BY DEF Stored
<1>1. \A u \in Threads : Busy(u)' => Continues(u)
  BY DEF Busy
<1>2. RowsTaken' /\ RowsDistinct'
  BY <1>1 DEF RowInv, RowsTaken, RowsDistinct, Continues
<1>3. RowsOf'
  <2> SUFFICES ASSUME NEW u \in Threads, Busy(u)'
               PROVE  /\ Before(u)' => call'[u].id \notin Stored(TableOf(u))
                      /\ call'[u].at = "tell" => (call'[u].ok <=> call'[u].id \in Stored(TableOf(u)))
    BY <1>0 DEF RowsOf, Before, Busy
  <2> QED BY <1>1 DEF RowInv, RowsOf, Continues
<1>4. OnlyTaken' /\ Told'
  BY <1>0 DEF RowInv, OnlyTaken, Told
<1> QED BY <1>2, <1>3, <1>4 DEF RowInv

\* A thread that commits its row, and nothing else of its connection's.
LEMMA CommitRows ==
    ASSUME CallType, FileType, LockInv, RowInv, NEW t \in Threads, Commit(t)
    PROVE  RowInv'
<1>0. /\ ConnOf(t) \in Conns /\ TableOf(t) \in Tables
      /\ call[t].at = "commit" /\ call[t].id \in Nat
  BY DEF ConnOf, Conns, TableOf, Tables, Commit, CallType
<1>1. pending[ConnOf(t)].added = OnlyRow(t)
  BY <1>0 DEF LockInv, OwnPending
<1>2. /\ call'[t].at = "tell" /\ call'[t].ok = TRUE /\ call'[t].id = call[t].id
      /\ \A u \in Threads : u # t => call'[u] = call[u]
  BY <1>0 DEF Commit, Leave, CallType
<1>3. \A table \in Tables :
        Stored(table)' = Stored(table) \union (IF table = TableOf(t) THEN {call[t].id} ELSE {})
  <2>1. /\ pending[ConnOf(t)].added["sweeps"] = IF TableOf(t) = "sweeps" THEN {call[t].id} ELSE {}
        /\ pending[ConnOf(t)].added["incidents"] = IF TableOf(t) = "incidents" THEN {call[t].id} ELSE {}
    BY <1>0, <1>1 DEF OnlyRow, NoRows, Tables
  <2>2. /\ rows'["sweeps"] = rows["sweeps"] \union pending[ConnOf(t)].added["sweeps"]
        /\ kept' = kept \union pending[ConnOf(t)].added["incidents"]
    BY DEF Commit, FileType, RowSets
  <2> QED BY <1>0, <2>1, <2>2 DEF Stored, Tables
<1>4. UNCHANGED <<taken, answered, refused>>
  BY DEF Commit
<1>5. Busy(t) /\ Before(t)
  BY <1>0 DEF Busy, Before
<1>6. RowsTaken'
  BY <1>2, <1>4, <1>5 DEF RowInv, RowsTaken, Busy
<1>7. RowsDistinct'
  BY <1>2, <1>5 DEF RowInv, RowsDistinct, Busy
<1>8. RowsOf'
  <2> SUFFICES ASSUME NEW u \in Threads
               PROVE  /\ Before(u)' => call'[u].id \notin Stored(TableOf(u))'
                      /\ call'[u].at = "tell" =>
                             (call'[u].ok <=> call'[u].id \in Stored(TableOf(u))')
    BY DEF RowsOf
  <2>1. CASE u = t
    BY <1>0, <1>2, <1>3, <2>1 DEF Before
  <2>2. CASE u # t
    <3>1. TableOf(u) \in Tables
      BY DEF TableOf, Tables
    <3>2. Busy(u) => (call[u].id \in Stored(TableOf(u))' <=> call[u].id \in Stored(TableOf(u)))
      BY <1>3, <1>5, <2>2, <3>1 DEF RowInv, RowsDistinct
    <3> QED BY <1>2, <2>2, <3>2 DEF RowInv, RowsOf, Before, Busy
  <2> QED BY <2>1, <2>2
<1>9. OnlyTaken'
  BY <1>0, <1>3, <1>4, <1>5 DEF RowInv, OnlyTaken, RowsTaken
<1>10. Told'
  BY <1>0, <1>3, <1>4, <1>5 DEF RowInv, Told, RowsTaken
<1> QED BY <1>6, <1>7, <1>8, <1>9, <1>10 DEF RowInv

\* A thread that tells what became of its row.
LEMMA TellRows ==
    ASSUME CallType, FileType, RowInv, NEW t \in Threads, Tell(t)
    PROVE  RowInv'
<1>0. /\ TableOf(t) \in Tables /\ call[t].at = "tell" /\ Busy(t)
      /\ call[t].ok \in BOOLEAN
  BY DEF TableOf, Tables, Tell, CallType, Busy
<1>1. /\ call'[t].at = "idle"
      /\ \A u \in Threads : u # t => call'[u] = call[u]
  BY DEF Tell, CallType, Idle
<1>2. taken' = taken /\ \A table : Stored(table)' = Stored(table)
  BY DEF Tell, Stored
<1>3. \A table \in Tables :
        /\ answered'[table] = answered[table] \union
               (IF table = TableOf(t) /\ call[t].ok THEN {call[t].id} ELSE {})
        /\ refused'[table] = refused[table] \union
               (IF table = TableOf(t) /\ ~call[t].ok THEN {call[t].id} ELSE {})
  <2>1. CASE call[t].ok
    BY <1>0, <2>1 DEF Tell, CallType, RowSets, Tables
  <2>2. CASE ~call[t].ok
    BY <1>0, <2>2 DEF Tell, CallType, RowSets, Tables
  <2> QED BY <2>1, <2>2
<1>4. RowsTaken'
  <2> SUFFICES ASSUME NEW u \in Threads, Busy(u)'
               PROVE  /\ call'[u].id \in taken'[TableOf(u)]
                      /\ call'[u].id \notin answered'[TableOf(u)] \union refused'[TableOf(u)]
    BY DEF RowsTaken
  <2>1. u # t /\ call'[u] = call[u] /\ Busy(u) /\ TableOf(u) \in Tables
    BY <1>1 DEF Busy, TableOf, Tables
  <2>2. TableOf(u) = TableOf(t) => call[u].id # call[t].id
    BY <1>0, <2>1 DEF RowInv, RowsDistinct
  <2> QED BY <1>2, <1>3, <2>1, <2>2 DEF RowInv, RowsTaken
<1>5. RowsDistinct'
  BY <1>1 DEF RowInv, RowsDistinct, Busy
<1>6. RowsOf'
  BY <1>1, <1>2 DEF RowInv, RowsOf, Before
<1>7. OnlyTaken'
  BY <1>0, <1>2, <1>3 DEF RowInv, OnlyTaken, RowsTaken
<1>8. Told'
  BY <1>0, <1>2, <1>3 DEF RowInv, Told, RowsOf
<1> QED BY <1>4, <1>5, <1>6, <1>7, <1>8 DEF RowInv

\* A call takes a row that nobody has taken.
LEMMA CallRows ==
    ASSUME CallType, FileType, RowInv, NEW t \in Threads, NEW id \in Ids(TableOf(t)), Call(t, id)
    PROVE  RowInv'
<1>0. TableOf(t) \in Tables /\ id \notin taken[TableOf(t)]
  BY DEF TableOf, Tables, Call
<1>1. /\ call'[t] = [at |-> "lock", id |-> id, ok |-> FALSE]
      /\ \A u \in Threads : u # t => call'[u] = call[u]
  BY DEF Call, CallType
<1>2. /\ UNCHANGED <<answered, refused>>
      /\ \A table : Stored(table)' = Stored(table)
  BY DEF Call, Stored
<1>3. \A table \in Tables :
        taken'[table] = taken[table] \union (IF table = TableOf(t) THEN {id} ELSE {})
  BY <1>0 DEF Call, CallType, RowSets, Tables
<1>4. \A u \in Threads : TableOf(u) \in Tables
  BY DEF TableOf, Tables
<1>5. id \notin Stored(TableOf(t)) \union answered[TableOf(t)] \union refused[TableOf(t)]
  BY <1>0 DEF RowInv, OnlyTaken
<1>6. RowsTaken'
  BY <1>1, <1>2, <1>3, <1>4, <1>5 DEF RowInv, RowsTaken, Busy
<1>7. RowsDistinct'
  <2>1. \A u \in Threads : u # t /\ Busy(u) /\ TableOf(u) = TableOf(t) => call[u].id # id
    BY <1>0 DEF RowInv, RowsTaken
  <2> QED BY <1>1, <2>1 DEF RowInv, RowsDistinct, Busy
<1>8. RowsOf'
  BY <1>1, <1>2, <1>5 DEF RowInv, RowsOf, Before
<1>9. OnlyTaken' /\ Told'
  BY <1>2, <1>3 DEF RowInv, OnlyTaken, Told
<1> QED BY <1>6, <1>7, <1>8, <1>9 DEF RowInv

\* Every step keeps the answers true.
LEMMA RowStep == CallType /\ FileType /\ LockInv /\ RowInv /\ [Next]_vars => RowInv'
<1> SUFFICES ASSUME CallType, FileType, LockInv, RowInv, [Next]_vars PROVE RowInv'
  OBVIOUS
<1> USE DEF historyVars, schemaVars
<1>0. \A u \in Threads : call'[u] = call[u] => call'[u].at = "idle" \/ Continues(u)
  BY DEF Continues, Busy, Before
<1>1. CASE UNCHANGED vars
  BY <1>0, <1>1, FrameRows DEF vars
<1>2. ASSUME NEW c \in Conns, Connect(c) \/ RunStatement(c) \/ Opened(c) \/ Close(c) PROVE RowInv'
  BY <1>0, <1>2, FrameRows DEF Connect, RunStatement, Opened, Close
<1>3. ASSUME NEW c \in Conns, ProcessEnds(c) PROVE RowInv'
  <2>1. \A u \in Threads : call'[u] = Idle \/ call'[u] = call[u]
    BY <1>3 DEF ProcessEnds
  <2> QED BY <1>0, <1>3, <2>1, FrameRows DEF ProcessEnds, Idle
<1>4. ASSUME NEW t \in Threads, NEW id \in Ids(TableOf(t)), Call(t, id) PROVE RowInv'
  BY <1>4, CallRows
<1>5. ASSUME NEW t \in Threads, Lock(t) \/ Insert(t) \/ Prune(t) PROVE RowInv'
  <2>1. PICK to \in {"insert", "prune", "commit"} :
          call[t].at \in {"lock", "insert", "prune"} /\ call' = [call EXCEPT ![t].at = to]
    BY <1>5 DEF Lock, Insert, Prune, Goes
  <2>2. Continues(t)
    BY <2>1 DEF Continues, Busy, Before, CallType
  <2>3. \A u \in Threads : u # t => call'[u] = call[u]
    BY <2>1 DEF CallType
  <2>4. UNCHANGED <<rows, kept, taken, answered, refused>>
    BY <1>5 DEF Lock, Insert, Prune
  <2> QED BY <1>0, <2>2, <2>3, <2>4, FrameRows
<1>6. ASSUME NEW t \in Threads, Commit(t) PROVE RowInv'
  BY <1>6, CommitRows
<1>7. ASSUME NEW t \in Threads, Fail(t) PROVE RowInv'
  <2>1. /\ call'[t].at = "tell" /\ call'[t].ok = FALSE /\ call'[t].id = call[t].id
        /\ \A u \in Threads : u # t => call'[u] = call[u]
    BY <1>7 DEF Fail, Leave, CallType
  <2>2. Busy(t) /\ Before(t) /\ TableOf(t) \in Tables
    BY <1>7 DEF Fail, Busy, Before, TableOf, Tables
  <2>3. UNCHANGED <<taken, answered, refused>> /\ \A table : Stored(table)' = Stored(table)
    BY <1>7 DEF Fail, Stored
  <2>4. RowsTaken' /\ RowsDistinct'
    BY <2>1, <2>2, <2>3 DEF RowInv, RowsTaken, RowsDistinct, Busy
  <2>5. RowsOf'
    BY <2>1, <2>2, <2>3 DEF RowInv, RowsOf, Before
  <2>6. OnlyTaken' /\ Told'
    BY <2>3 DEF RowInv, OnlyTaken, Told
  <2> QED BY <2>4, <2>5, <2>6 DEF RowInv
<1>8. ASSUME NEW t \in Threads, Tell(t) PROVE RowInv'
  BY <1>8, TellRows
<1> QED BY <1>1, <1>2, <1>3, <1>4, <1>5, <1>6, <1>7, <1>8 DEF Next

-----------------------------------------------------------------------------
(* A lost sweep shows.                                                     *)

\* A writer that has stopped is in no call, so nothing clears its error.
StopInv == FailuresShow /\ (stopped => call["writer"].at = "idle")

\* Every step keeps the error of a writer that has stopped.
LEMMA StopStep == CallType /\ StopInv /\ [Next]_vars => StopInv'
<1> SUFFICES ASSUME CallType, StopInv, [Next]_vars PROVE StopInv'
  OBVIOUS
<1> USE DEF StopInv, FailuresShow, historyVars, schemaVars
<1>0. "writer" \in Threads /\ "acquisition" \in Conns /\ ConnOf("writer") = "acquisition"
  BY DEF Threads, Conns, ConnOf
<1>1. CASE UNCHANGED vars
  BY <1>1 DEF vars
<1>2. ASSUME NEW c \in Conns, Connect(c) \/ RunStatement(c) \/ Opened(c) \/ Close(c) PROVE StopInv'
  BY <1>2 DEF Connect, RunStatement, Opened, Close
<1>3. ASSUME NEW c \in Conns, ProcessEnds(c) PROVE StopInv'
  <2>1. CASE c = "acquisition"
    BY <1>3, <2>1 DEF ProcessEnds
  <2>2. CASE c # "acquisition"
    <3>1. call'["writer"] = call["writer"]
      BY <1>0, <1>3, <2>2 DEF ProcessEnds, ThreadsOf
    <3> QED BY <1>0, <1>3, <2>2, <3>1 DEF ProcessEnds, CallType
  <2> QED BY <2>1, <2>2
<1>4. ASSUME NEW t \in Threads, NEW id \in Ids(TableOf(t)), Call(t, id) PROVE StopInv'
  BY <1>0, <1>4 DEF Call, CallType
<1>5. ASSUME NEW t \in Threads, Lock(t) \/ Insert(t) \/ Prune(t) PROVE StopInv'
  <2>1. PICK to : call[t].at # "idle" /\ call' = [call EXCEPT ![t].at = to]
    BY <1>5 DEF Lock, Insert, Prune, Goes
  <2>2. UNCHANGED <<stopped, error>>
    BY <1>5 DEF Lock, Insert, Prune
  <2> QED BY <1>0, <2>1, <2>2 DEF CallType
<1>6. ASSUME NEW t \in Threads, Commit(t) \/ Fail(t) PROVE StopInv'
  <2>1. PICK ok \in BOOLEAN : Leave(t, ok)
    BY <1>6 DEF Commit, Fail
  <2>2. UNCHANGED <<stopped, error>> /\ call[t].at # "idle"
    BY <1>6 DEF Commit, Fail
  <2> QED BY <1>0, <2>1, <2>2 DEF Leave, CallType
<1>7. ASSUME NEW t \in Threads, Tell(t) PROVE StopInv'
  <2>1. /\ call[t].at = "tell" /\ call' = [call EXCEPT ![t] = Idle]
        /\ error' = [error EXCEPT ![ConnOf(t)] = Note(t)]
        /\ stopped' = (stopped \/ (t = "writer" /\ ~call[t].ok))
    BY <1>7 DEF Tell
  <2>2. CASE t = "writer"
    <3>1. ~stopped
      BY <2>1, <2>2
    <3>2. ~call[t].ok => error'["acquisition"] = "sweeps"
      BY <1>0, <2>1, <2>2 DEF Note, TableOf, CallType
    <3> QED BY <1>0, <2>1, <2>2, <3>1, <3>2 DEF Idle, CallType
  <2>3. CASE t # "writer"
    <3>1. Note(t) # "none" \/ Note(t) = error[ConnOf(t)]
      BY <2>3 DEF Note, TableOf
    <3>2. error'["acquisition"] = error["acquisition"] \/ error'["acquisition"] # "none"
      BY <1>0, <2>1, <3>1 DEF CallType
    <3> QED BY <1>0, <2>1, <2>3, <3>2 DEF CallType
  <2> QED BY <2>2, <2>3
<1> QED BY <1>1, <1>2, <1>3, <1>4, <1>5, <1>6, <1>7 DEF Next

-----------------------------------------------------------------------------
(* An open database has its tables.                                        *)

\* The version never says more than the tables, but for the incidents of a database
\* that was empty at first.
VersionBacked ==
    /\ version = 0 => first = 0
    /\ version # 0 => "sweeps" \in tables
    /\ version = 2 /\ first # 0 => "incidents" \in tables

\* What is not there yet is still to be run.
ScriptBacked ==
    \A c \in Conns : conn[c].state \in {"opening", "open"} =>
        /\ "sweeps" \in tables \/ conn[c].todo = <<"sweeps", "version", "incidents">>
        /\ first # 0 => \/ "incidents" \in tables /\ conn[c].todo \in {<<>>, <<"version">>}
                       \/ conn[c].todo = <<"incidents", "version">>

OpenedWhole == \A c \in Conns : conn[c].state = "open" => conn[c].todo = <<>>

SchemaInv == SchemaType /\ VersionBacked /\ ScriptBacked /\ OpenedWhole

\* A connection that is open has no statement left to run.
LEMMA SchemaSuffices == SchemaInv => SchemaUsable
<1> SUFFICES ASSUME SchemaInv, NEW c \in Conns, conn[c].state = "open"
             PROVE  "sweeps" \in tables /\ (first # 0 => "incidents" \in tables)
  BY DEF SchemaUsable
<1>1. conn[c].todo = <<>>
  BY DEF SchemaInv, OpenedWhole
<1>2. <<>> # <<"sweeps", "version", "incidents">> /\ <<>> # <<"incidents", "version">>
  OBVIOUS
<1> QED BY <1>1, <1>2 DEF SchemaInv, ScriptBacked

\* What is left of a script after its first statement.
LEMMA TodoStep ==
    ASSUME NEW todo \in Todos, todo # <<>>
    PROVE  /\ Tail(todo) \in Todos
           /\ Head(todo) \in {"sweeps", "incidents", "version"}
           /\ todo = <<"sweeps", "version", "incidents">> => Head(todo) = "sweeps"
           /\ todo = <<"incidents", "version">> =>
                  Head(todo) = "incidents" /\ Tail(todo) = <<"version">>
           /\ todo = <<"version">> => Head(todo) = "version" /\ Tail(todo) = <<>>
<1>1. CASE todo = <<"incidents">>
  <2>1. Head(todo) = "incidents" /\ Tail(todo) = <<>> /\ Len(todo) = 1
    BY <1>1
  <2> QED BY <1>1, <2>1 DEF Todos
<1>2. CASE todo = <<"version">>
  <2>1. Head(todo) = "version" /\ Tail(todo) = <<>> /\ Len(todo) = 1
    BY <1>2
  <2> QED BY <1>2, <2>1 DEF Todos
<1>3. CASE todo = <<"incidents", "version">>
  <2>1. Head(todo) = "incidents" /\ Tail(todo) = <<"version">> /\ Len(todo) = 2
    BY <1>3
  <2> QED BY <1>3, <2>1 DEF Todos
<1>4. CASE todo = <<"version", "incidents">>
  <2>1. Head(todo) = "version" /\ Tail(todo) = <<"incidents">> /\ Len(todo) = 2
    BY <1>4
  <2> QED BY <1>4, <2>1 DEF Todos
<1>5. CASE todo = <<"sweeps", "version", "incidents">>
  <2>1. Head(todo) = "sweeps" /\ Tail(todo) = <<"version", "incidents">> /\ Len(todo) = 3
    BY <1>5
  <2> QED BY <1>5, <2>1 DEF Todos
<1> QED BY <1>1, <1>2, <1>3, <1>4, <1>5 DEF Todos

\* A connection that leaves the schema alone.
LEMMA FrameSchema ==
    ASSUME SchemaInv, UNCHANGED <<first, version, tables>>,
           conn' \in [Conns -> [state : {"down", "opening", "open", "closed"}, todo : Todos]],
           \A c \in Conns : \/ conn'[c] = conn[c] \/ conn'[c].state \in {"down", "closed"}
    PROVE  SchemaInv'
BY DEF SchemaInv, SchemaType, VersionBacked, ScriptBacked, OpenedWhole

\* Every step keeps what is still to be run of each script.
LEMMA SchemaStep == SchemaInv /\ [Next]_vars => SchemaInv'
<1> SUFFICES ASSUME SchemaInv, [Next]_vars PROVE SchemaInv'
  OBVIOUS
<1> USE DEF historyVars, schemaVars
<1> DEFINE ConnSet == [state : {"down", "opening", "open", "closed"}, todo : Todos]
<1>0. conn \in [Conns -> ConnSet]
  BY DEF SchemaInv, SchemaType
<1>1. CASE UNCHANGED <<first, version, tables, conn>>
  BY <1>0, <1>1, FrameSchema
<1>2. ASSUME NEW c \in Conns, Connect(c) PROVE SchemaInv'
  <2>1. /\ conn' = [conn EXCEPT ![c] = [state |-> "opening", todo |-> Script(version)]]
        /\ UNCHANGED <<first, version, tables>>
    BY <1>2 DEF Connect
  <2>2. /\ Script(version) \in Todos
        /\ version = 0 => Script(version) = <<"sweeps", "version", "incidents">>
        /\ version = 1 => Script(version) = <<"incidents", "version">>
        /\ version = 2 => Script(version) = <<>>
    BY DEF SchemaInv, SchemaType, Script, Todos
  <2>3. /\ conn'[c] = [state |-> "opening", todo |-> Script(version)]
        /\ \A d \in Conns : d # c => conn'[d] = conn[d]
    BY <1>0, <2>1
  <2>4. SchemaType'
    BY <2>1, <2>2 DEF SchemaInv, SchemaType
  <2>5. ScriptBacked'
    <3> SUFFICES ASSUME NEW d \in Conns, conn'[d].state \in {"opening", "open"}
                 PROVE  /\ "sweeps" \in tables \/ conn'[d].todo = <<"sweeps", "version", "incidents">>
                        /\ first # 0 => \/ "incidents" \in tables /\ conn'[d].todo \in {<<>>, <<"version">>}
                                       \/ conn'[d].todo = <<"incidents", "version">>
      BY <2>1 DEF ScriptBacked
    <3>1. CASE d = c
      <4>1. conn'[d].todo = Script(version) /\ version \in 0 .. 2
        BY <2>3, <3>1 DEF SchemaInv, SchemaType
      <4> QED BY <2>2, <4>1 DEF SchemaInv, VersionBacked
    <3>2. CASE d # c
      BY <2>3, <3>2 DEF SchemaInv, ScriptBacked
    <3> QED BY <3>1, <3>2
  <2>6. VersionBacked' /\ OpenedWhole'
    BY <2>1, <2>3 DEF SchemaInv, VersionBacked, OpenedWhole
  <2> QED BY <2>4, <2>5, <2>6 DEF SchemaInv
<1>3. ASSUME NEW c \in Conns, RunStatement(c) PROVE SchemaInv'
  <2> DEFINE todo == conn[c].todo
  <2>1. /\ conn[c].state = "opening" /\ todo # <<>> /\ first' = first
        /\ conn' = [conn EXCEPT ![c].todo = Tail(todo)]
    BY <1>3 DEF RunStatement
  <2>2. IF Head(todo) = "version" THEN version' = 2 /\ tables' = tables
        ELSE tables' = tables \union {Head(todo)} /\ version' = version
    BY <1>3 DEF RunStatement
  <2>3. todo \in Todos
    BY <1>0
  <2>4. Tail(todo) \in Todos /\ Head(todo) \in {"sweeps", "incidents", "version"}
    BY <2>1, <2>3, TodoStep
  <2>5. /\ conn'[c].state = "opening" /\ conn'[c].todo = Tail(todo)
        /\ \A d \in Conns : d # c => conn'[d] = conn[d]
    BY <1>0, <2>1
  <2>6. SchemaType'
    <3>1. conn' \in [Conns -> ConnSet]
      BY <1>0, <2>1, <2>4
    <3>2. version' \in 0 .. 2 /\ tables' \subseteq Tables
      <4>1. Head(todo) = "version" \/ Head(todo) \in Tables
        BY <2>4 DEF Tables
      <4>2. version \in 0 .. 2 /\ tables \subseteq Tables
        BY DEF SchemaInv, SchemaType
      <4>3. version' = 2 \/ version' = version
        BY <2>2
      <4>4. tables' \subseteq tables \union Tables
        BY <2>2, <4>1
      <4> QED BY <4>2, <4>3, <4>4
    <3> QED BY <2>1, <3>1, <3>2 DEF SchemaInv, SchemaType
  <2>7. Head(todo) # "sweeps" => "sweeps" \in tables
    BY <2>1, <2>3, TodoStep DEF SchemaInv, ScriptBacked
  <2>8. first # 0 =>
          \/ Head(todo) = "version" /\ Tail(todo) = <<>> /\ "incidents" \in tables
          \/ Head(todo) = "incidents" /\ Tail(todo) = <<"version">>
    BY <2>1, <2>3, TodoStep DEF SchemaInv, ScriptBacked
  <2>9. "sweeps" \in tables' /\ tables \subseteq tables'
    BY <2>2, <2>7
  <2>10. VersionBacked'
    BY <2>1, <2>2, <2>8, <2>9 DEF SchemaInv, VersionBacked
  <2>11. ScriptBacked'
    <3> SUFFICES ASSUME NEW d \in Conns, conn'[d].state \in {"opening", "open"}, first # 0
                 PROVE  \/ "incidents" \in tables' /\ conn'[d].todo \in {<<>>, <<"version">>}
                        \/ conn'[d].todo = <<"incidents", "version">>
      BY <2>1, <2>9 DEF ScriptBacked
    <3>1. CASE d = c
      BY <2>2, <2>5, <2>8, <2>9, <3>1
    <3>2. CASE d # c
      BY <2>5, <2>9, <3>2 DEF SchemaInv, ScriptBacked
    <3> QED BY <3>1, <3>2
  <2>12. OpenedWhole'
    BY <2>5 DEF SchemaInv, OpenedWhole
  <2> QED BY <2>6, <2>10, <2>11, <2>12 DEF SchemaInv
<1>4. ASSUME NEW c \in Conns, Opened(c) PROVE SchemaInv'
  <2>1. /\ conn[c].state = "opening" /\ conn[c].todo = <<>> /\ UNCHANGED <<first, version, tables>>
        /\ conn' = [conn EXCEPT ![c].state = "open"]
    BY <1>4 DEF Opened
  <2>2. /\ conn'[c].state = "open" /\ conn'[c].todo = conn[c].todo
        /\ \A d \in Conns : d # c => conn'[d] = conn[d]
    BY <1>0, <2>1
  <2>3. SchemaType'
    BY <1>0, <2>1 DEF SchemaInv, SchemaType
  <2>4. ScriptBacked' /\ OpenedWhole' /\ VersionBacked'
    BY <2>1, <2>2 DEF SchemaInv, ScriptBacked, OpenedWhole, VersionBacked
  <2> QED BY <2>3, <2>4 DEF SchemaInv
<1>5. ASSUME NEW c \in Conns, Close(c) PROVE SchemaInv'
  BY <1>0, <1>5, FrameSchema DEF Close
<1>6. ASSUME NEW c \in Conns, ProcessEnds(c) PROVE SchemaInv'
  <2>1. Down \in ConnSet /\ Down.state = "down"
    BY DEF Down, Todos
  <2> QED BY <1>0, <1>6, <2>1, FrameSchema DEF ProcessEnds
<1>7. ASSUME NEW t \in Threads, NEW id \in Ids(TableOf(t)), Call(t, id) PROVE SchemaInv'
  BY <1>1, <1>7 DEF Call
<1>8. ASSUME NEW t \in Threads, Lock(t) \/ Insert(t) \/ Prune(t) \/ Commit(t) \/ Fail(t) \/ Tell(t)
      PROVE  SchemaInv'
  BY <1>1, <1>8 DEF Lock, Insert, Prune, Commit, Fail, Tell
<1> QED BY <1>1, <1>2, <1>3, <1>4, <1>5, <1>6, <1>7, <1>8 DEF Next, vars

-----------------------------------------------------------------------------
(* The newest incidents.                                                   *)

Above(incidents, i) == {j \in incidents : j > i}

\* As many of the newest as the retention lets.
Newest(incidents) == {i \in incidents : Cardinality(Above(incidents, i)) < Retention}

\* A subset of a finite set of incidents has no more members than it.
LEMMA Counted ==
    ASSUME NEW S \in SUBSET (1 .. MaxIncidents), NEW T \in SUBSET S
    PROVE  /\ Cardinality(S) \in Nat /\ Cardinality(T) \in Nat
           /\ Cardinality(T) <= Cardinality(S)
<1>1. IsFiniteSet(1 .. MaxIncidents)
  BY FS_Interval
<1>2. IsFiniteSet(S)
  BY <1>1, FS_Subset
<1>3. IsFiniteSet(T) /\ Cardinality(T) <= Cardinality(S)
  BY <1>2, FS_Subset
<1>4. Cardinality(S) \in Nat /\ Cardinality(T) \in Nat
  BY <1>2, <1>3, FS_CardinalityType
<1> QED BY <1>3, <1>4

\* What is not removed are the newest.
LEMMA NewestStay ==
    ASSUME NEW S \in SUBSET (1 .. MaxIncidents)
    PROVE  S \ Beyond(S) = Newest(S)
<1>1. ASSUME NEW i \in S PROVE Cardinality(Above(S, i)) \in Nat
  <2>1. Above(S, i) \in SUBSET S
    BY DEF Above
  <2> QED BY <2>1, Counted
<1>2. Beyond(S) = {i \in S : Cardinality(Above(S, i)) >= Retention}
  BY DEF Beyond, Above
<1>3. \A i \in S : ~(Cardinality(Above(S, i)) >= Retention) <=> Cardinality(Above(S, i)) < Retention
  BY <1>1
<1> QED BY <1>2, <1>3 DEF Newest

\* A set of incidents that is not empty has a newest one.
LEMMA Greatest ==
    ASSUME NEW T \in SUBSET (1 .. MaxIncidents), T # {}
    PROVE  \E m \in T : \A k \in T : k <= m
<1> DEFINE R == OpToRel(<, Nat)
           U == {MaxIncidents - k : k \in T}
<1>1. U \in SUBSET Nat /\ U # {}
  <2>1. \A k \in T : MaxIncidents - k \in Nat
    OBVIOUS
  <2> QED BY <2>1
<1>2. PICK n \in U : \A k \in U : ~(<<k, n>> \in R)
  BY <1>1, NatLessThanWellFounded, WFMin
<1>3. \A k \in U : k < n => <<k, n>> \in R
  BY <1>1 DEF OpToRel
<1>4. \A k \in U : ~(k < n)
  BY <1>2, <1>3
<1>5. PICK m \in T : n = MaxIncidents - m
  BY <1>2
<1>6. ASSUME NEW k \in T PROVE k <= m
  <2>1. MaxIncidents - k \in U
    OBVIOUS
  <2>2. ~(MaxIncidents - k < MaxIncidents - m)
    BY <1>4, <1>5, <2>1
  <2> QED BY <2>2
<1> QED BY <1>6

\* To prune after each incident leaves the same as to prune once, after all: the
\* newest of the newest and one more are the newest of all and that one.
LEMMA NewestOfNewest ==
    ASSUME NEW S \in SUBSET (1 .. MaxIncidents), NEW x \in 1 .. MaxIncidents
    PROVE  Newest(Newest(S) \union {x}) = Newest(S \union {x})
<1> DEFINE T == Newest(S) \union {x}
           U == S \union {x}
<1>1. T \subseteq U /\ U \subseteq 1 .. MaxIncidents
  BY DEF Newest
<1>2. ASSUME NEW V \in SUBSET U, NEW W \in SUBSET V, NEW i \in U
      PROVE  /\ Cardinality(Above(V, i)) \in Nat /\ Cardinality(Above(W, i)) \in Nat
             /\ Cardinality(Above(W, i)) <= Cardinality(Above(V, i))
  <2>1. Above(V, i) \in SUBSET (1 .. MaxIncidents) /\ Above(W, i) \in SUBSET Above(V, i)
    BY <1>1 DEF Above
  <2> QED BY <2>1, Counted
<1>3. ASSUME NEW i \in Newest(U) PROVE i \in Newest(T)
  <2>1. i \in U /\ Cardinality(Above(U, i)) < Retention
    BY <1>3 DEF Newest
  <2>2. i \in T
    <3>1. CASE i # x
      <4>1. i \in S /\ S \in SUBSET U
        BY <2>1, <3>1
      <4>2. Cardinality(Above(S, i)) < Retention
        BY <1>2, <2>1, <4>1
      <4> QED BY <4>1, <4>2 DEF Newest
    <3> QED BY <3>1
  <2>3. Cardinality(Above(T, i)) < Retention
    BY <1>1, <1>2, <2>1
  <2> HIDE DEF T, U
  <2> QED BY <2>2, <2>3 DEF Newest
<1>4. ASSUME NEW i \in Newest(T) PROVE i \in Newest(U)
  <2>1. i \in T /\ i \in U /\ Cardinality(Above(T, i)) < Retention
    BY <1>1, <1>4 DEF Newest
  <2> DEFINE missing == Above(U, i) \ T
  <2>2. missing = {}
    <3> SUFFICES ASSUME missing # {} PROVE FALSE
      OBVIOUS
    <3>1. missing \in SUBSET (1 .. MaxIncidents)
      BY <1>1 DEF Above
    <3>2. PICK k \in missing : \A l \in missing : l <= k
      <4> HIDE DEF missing
      <4> QED BY <3>1, Greatest
    <3>3. k \in S /\ k \notin Newest(S) /\ k > i /\ k \in Nat
      BY <1>1, <3>2 DEF Above
    <3>4. Cardinality(Above(S, k)) \in Nat /\ S \in SUBSET U
      BY <1>2, <3>3
    <3>5. Cardinality(Above(S, k)) >= Retention
      BY <3>3, <3>4 DEF Newest
    <3>6. Above(S, k) \subseteq Above(T, i)
      <4> SUFFICES ASSUME NEW l \in S, l > k PROVE l \in T /\ l > i
        BY DEF Above
      <4>1. l \in Nat /\ i \in Nat /\ l > i
        BY <1>1, <2>1, <3>3
      <4>2. l \in T
        <5> SUFFICES ASSUME l \notin T PROVE FALSE
          OBVIOUS
        <5>1. l \in missing
          BY <4>1 DEF Above
        <5> QED BY <3>2, <3>3, <4>1, <5>1
      <4> QED BY <4>1, <4>2
    <3>7. Above(T, i) \in SUBSET (1 .. MaxIncidents)
      BY <1>1 DEF Above
    <3>8. Cardinality(Above(S, k)) <= Cardinality(Above(T, i)) /\ Cardinality(Above(T, i)) \in Nat
      BY <3>6, <3>7, Counted
    <3> QED BY <2>1, <3>4, <3>5, <3>8
  <2>3. Above(U, i) = Above(T, i)
    BY <1>1, <2>2 DEF Above
  <2> HIDE DEF T, U
  <2> QED BY <2>1, <2>3 DEF Newest
<1> QED BY <1>3, <1>4

\* An open transaction that has inserted holds SQLite's write lock.
Held == \A t \in Threads : call[t].at \in {"prune", "commit"} => writing = ConnOf(t)

\* What is to be removed was found for the rows that are still there.
PrunedFor ==
    \A t \in Threads : Inside(t) =>
        pending[ConnOf(t)].removed =
            IF call[t].at = "commit" /\ TableOf(t) = "incidents"
            THEN Beyond(rows["incidents"] \union {call[t].id}) ELSE {}

NewestInv ==
    /\ taken["incidents"] \subseteq 1 .. MaxIncidents
    /\ call["writer"].at # "prune"
    /\ Held /\ PrunedFor /\ NewestKept

\* A step that leaves the file and the transactions that are open.
LEMMA FrameNewest ==
    ASSUME NewestInv, UNCHANGED <<rows, kept, pending, writing>>,
           taken'["incidents"] \subseteq 1 .. MaxIncidents,
           call'["writer"].at # "prune",
           \A u \in Threads : Inside(u)' => call'[u] = call[u]
    PROVE  NewestInv'
<1>1. NewestKept'
  BY DEF NewestInv, NewestKept
<1>2. Held' /\ PrunedFor'
  BY DEF NewestInv, Held, PrunedFor, Inside
<1> QED BY <1>1, <1>2 DEF NewestInv

\* The transactions that are open on the other connection when one ends.
LEMMA LeaveNewest ==
    ASSUME CallType, FileType, LockInv, NewestInv, NEW t \in Threads, Inside(t),
           NEW ok \in BOOLEAN, Leave(t, ok),
           rows' = rows \/ call[t].at = "commit", taken' = taken
    PROVE  /\ taken'["incidents"] \subseteq 1 .. MaxIncidents
           /\ call'["writer"].at # "prune"
           /\ Held' /\ PrunedFor'
<1>0. \A u \in Threads : ConnOf(u) \in Conns /\ TableOf(u) \in Tables
  BY DEF ConnOf, Conns, TableOf, Tables
<1>1. /\ call' = [call EXCEPT ![t].at = "tell", ![t].ok = ok]
      /\ pending' = [pending EXCEPT ![ConnOf(t)] = NoChanges]
      /\ writing' = IF writing = ConnOf(t) THEN "none" ELSE writing
  BY DEF Leave
<1>2. call'[t].at = "tell" /\ \A u \in Threads : u # t => call'[u] = call[u]
  BY <1>1 DEF CallType
<1>3. ASSUME NEW u \in Threads, Inside(u)'
      PROVE  Inside(u) /\ ConnOf(u) # ConnOf(t) /\ call'[u] = call[u]
  <2>1. u # t /\ Inside(u) /\ call'[u] = call[u]
    BY <1>2, <1>3 DEF Inside
  <2> QED BY <2>1, OneInside DEF LockInv
<1>4. Held'
  <2> SUFFICES ASSUME NEW u \in Threads, call'[u].at \in {"prune", "commit"}
               PROVE  writing' = ConnOf(u)
    BY DEF Held
  <2>1. ConnOf(u) # ConnOf(t) /\ call'[u] = call[u]
    BY <1>3 DEF Inside
  <2>2. writing = ConnOf(u)
    BY <2>1 DEF NewestInv, Held
  <2> QED BY <1>1, <2>1, <2>2
<1>5. PrunedFor'
  <2> SUFFICES ASSUME NEW u \in Threads, Inside(u)'
               PROVE  pending'[ConnOf(u)].removed =
                          IF call'[u].at = "commit" /\ TableOf(u) = "incidents"
                          THEN Beyond(rows'["incidents"] \union {call'[u].id}) ELSE {}
    BY DEF PrunedFor, Beyond
  <2>1. Inside(u) /\ ConnOf(u) # ConnOf(t) /\ call'[u] = call[u]
    BY <1>3
  <2>2. pending'[ConnOf(u)] = pending[ConnOf(u)]
    BY <1>0, <1>1, <2>1 DEF FileType
  <2>3. rows' = rows \/ call[u].at # "commit"
    BY <2>1 DEF NewestInv, Held
  <2> QED BY <2>1, <2>2, <2>3 DEF NewestInv, PrunedFor
<1>6. call'["writer"].at # "prune"
  BY <1>2 DEF NewestInv, Threads
<1> QED BY <1>4, <1>5, <1>6 DEF NewestInv

\* Every step keeps the newest: only a commit changes what is in the file, and what
\* it removes was found after the write lock was had.
LEMMA NewestStep ==
    CallType /\ FileType /\ LockInv /\ RowInv /\ NewestInv /\ [Next]_vars => NewestInv'
<1> SUFFICES ASSUME CallType, FileType, LockInv, RowInv, NewestInv, [Next]_vars PROVE NewestInv'
  OBVIOUS
<1> USE DEF historyVars, schemaVars
<1>0. /\ \A t \in Threads : ConnOf(t) \in Conns /\ TableOf(t) \in Tables
      /\ "writer" \in Threads /\ "incidents" \in Tables /\ "sweeps" \in Tables
      /\ \A t \in Threads : IF t = "writer" THEN TableOf(t) = "sweeps"
                                            ELSE TableOf(t) = "incidents"
  BY DEF ConnOf, Conns, TableOf, Tables, Threads
<1>00. taken["incidents"] \subseteq 1 .. MaxIncidents /\ call["writer"].at # "prune"
  BY DEF NewestInv
<1>1. CASE UNCHANGED vars
  BY <1>00, <1>1, FrameNewest DEF vars
<1>2. ASSUME NEW c \in Conns, Connect(c) \/ RunStatement(c) \/ Opened(c) \/ Close(c)
      PROVE  NewestInv'
  BY <1>00, <1>2, FrameNewest DEF Connect, RunStatement, Opened, Close
<1>3. ASSUME NEW c \in Conns, ProcessEnds(c) PROVE NewestInv'
  <2>1. \A u \in Threads : IF ConnOf(u) = c THEN call'[u] = Idle ELSE call'[u] = call[u]
    BY <1>3 DEF ProcessEnds, ThreadsOf
  <2>2. \A u \in Threads : Inside(u)' => Inside(u) /\ ConnOf(u) # c /\ call'[u] = call[u]
    BY <2>1 DEF Inside, Idle
  <2>3. /\ pending' = [pending EXCEPT ![c] = NoChanges]
        /\ writing' = IF writing = c THEN "none" ELSE writing
        /\ UNCHANGED <<rows, kept, taken>>
    BY <1>3 DEF ProcessEnds
  <2>4. Held'
    BY <2>2, <2>3 DEF NewestInv, Held, Inside
  <2>5. PrunedFor'
    <3> SUFFICES ASSUME NEW u \in Threads, Inside(u)'
                 PROVE  pending'[ConnOf(u)].removed =
                            IF call'[u].at = "commit" /\ TableOf(u) = "incidents"
                            THEN Beyond(rows["incidents"] \union {call'[u].id}) ELSE {}
      BY <2>3 DEF PrunedFor
    <3>1. call'[u] = call[u] /\ pending'[ConnOf(u)] = pending[ConnOf(u)] /\ Inside(u)
      BY <1>0, <2>2, <2>3 DEF FileType
    <3> QED BY <3>1 DEF NewestInv, PrunedFor
  <2>6. call'["writer"].at # "prune"
    BY <1>0, <1>00, <2>1 DEF Idle
  <2>7. NewestKept'
    BY <2>3 DEF NewestInv, NewestKept
  <2> QED BY <1>00, <2>3, <2>4, <2>5, <2>6, <2>7 DEF NewestInv
<1>4. ASSUME NEW t \in Threads, NEW id \in Ids(TableOf(t)), Call(t, id) PROVE NewestInv'
  <2>1. /\ call' = [call EXCEPT ![t] = [at |-> "lock", id |-> id, ok |-> FALSE]]
        /\ taken' = [taken EXCEPT ![TableOf(t)] = @ \union {id}]
        /\ UNCHANGED <<rows, kept, pending, writing>>
    BY <1>4 DEF Call
  <2>2. call'[t].at = "lock" /\ \A u \in Threads : u # t => call'[u] = call[u]
    BY <2>1 DEF CallType
  <2>3. \A u \in Threads : Inside(u)' => call'[u] = call[u]
    BY <2>2 DEF Inside
  <2>4. call'["writer"].at # "prune"
    BY <1>0, <1>00, <2>2
  <2>5. taken'["incidents"] \subseteq 1 .. MaxIncidents
    <3>1. CASE TableOf(t) = "incidents"
      <4>1. id \in 1 .. MaxIncidents
        BY <3>1 DEF Ids
      <4>2. taken'["incidents"] = taken["incidents"] \union {id}
        BY <2>1, <3>1 DEF CallType, RowSets
      <4> QED BY <1>00, <4>1, <4>2
    <3>2. CASE TableOf(t) # "incidents"
      BY <1>00, <2>1, <3>2 DEF CallType, RowSets
    <3> QED BY <3>1, <3>2
  <2> QED BY <2>1, <2>3, <2>4, <2>5, FrameNewest
<1>5. ASSUME NEW t \in Threads, Lock(t) PROVE NewestInv'
  <2>1. /\ call' = [call EXCEPT ![t].at = "insert"] /\ owner[ConnOf(t)] = "none"
        /\ UNCHANGED <<rows, kept, pending, writing, taken>>
    BY <1>5 DEF Lock, Goes
  <2>2. call'[t].at = "insert" /\ \A u \in Threads : u # t => call'[u] = call[u]
    BY <2>1 DEF CallType
  <2>3. Held'
    BY <2>1, <2>2 DEF NewestInv, Held
  <2>4. pending[ConnOf(t)].removed = {}
    BY <1>0, <2>1 DEF LockInv, FreeIsEmpty, NoChanges
  <2>5. PrunedFor'
    BY <2>1, <2>2, <2>4 DEF NewestInv, PrunedFor, Inside
  <2>6. NewestKept' /\ call'["writer"].at # "prune"
    BY <1>0, <1>00, <2>1, <2>2 DEF NewestInv, NewestKept
  <2> QED BY <1>00, <2>1, <2>3, <2>5, <2>6 DEF NewestInv
<1>6. ASSUME NEW t \in Threads, Insert(t) PROVE NewestInv'
  <2> DEFINE c == ConnOf(t)
             to == IF t = "writer" THEN "commit" ELSE "prune"
  <2>1. /\ call[t].at = "insert" /\ call' = [call EXCEPT ![t].at = to]
        /\ writing \in {"none", c} /\ writing' = c
        /\ pending' = [pending EXCEPT ![c].added[TableOf(t)] = @ \union {call[t].id}]
        /\ UNCHANGED <<rows, kept, taken>>
    BY <1>6 DEF Insert, Goes
  <2>2. call'[t].at = to /\ \A u \in Threads : u # t => call'[u] = call[u]
    BY <2>1 DEF CallType
  <2>3. \A d \in Conns : pending'[d].removed = pending[d].removed
    BY <2>1 DEF FileType
  <2>4. Held'
    <3> SUFFICES ASSUME NEW u \in Threads, u # t, call'[u].at \in {"prune", "commit"} PROVE FALSE
      BY <2>1 DEF Held
    <3>1. call[u].at \in {"prune", "commit"} /\ writing = ConnOf(u)
      BY <2>2 DEF NewestInv, Held
    <3>2. ConnOf(u) = c
      BY <1>0, <2>1, <3>1 DEF Conns
    <3> QED BY <2>1, <3>1, <3>2, OneInside DEF LockInv, Inside
  <2>5. pending[c].removed = {}
    BY <2>1 DEF NewestInv, PrunedFor, Inside
  <2>6. PrunedFor'
    <3> SUFFICES ASSUME NEW u \in Threads, Inside(u)'
                 PROVE  pending'[ConnOf(u)].removed =
                            IF call'[u].at = "commit" /\ TableOf(u) = "incidents"
                            THEN Beyond(rows["incidents"] \union {call'[u].id}) ELSE {}
      BY <2>1 DEF PrunedFor
    <3>1. CASE u = t
      BY <1>0, <2>2, <2>3, <2>5, <3>1
    <3>2. CASE u # t
      BY <1>0, <2>2, <2>3, <3>2 DEF NewestInv, PrunedFor, Inside
    <3> QED BY <3>1, <3>2
  <2>7. NewestKept' /\ call'["writer"].at # "prune"
    BY <1>0, <1>00, <2>1, <2>2 DEF NewestInv, NewestKept
  <2> QED BY <1>00, <2>1, <2>4, <2>6, <2>7 DEF NewestInv
<1>7. ASSUME NEW t \in Threads, Prune(t) PROVE NewestInv'
  <2> DEFINE c == ConnOf(t)
             gone == Beyond(rows["incidents"] \union pending[c].added["incidents"])
  <2>1. /\ call[t].at = "prune" /\ call' = [call EXCEPT ![t].at = "commit"]
        /\ pending' = [pending EXCEPT ![c].removed = gone]
        /\ UNCHANGED <<rows, kept, taken, writing>>
    BY <1>7 DEF Prune, Goes
  <2>2. /\ call'[t].at = "commit" /\ call'[t].id = call[t].id
        /\ \A u \in Threads : u # t => call'[u] = call[u]
    BY <2>1 DEF CallType
  <2>3. TableOf(t) = "incidents"
    BY <1>0, <1>00, <2>1
  <2>4. pending[c].added["incidents"] = {call[t].id}
    BY <1>0, <2>1, <2>3 DEF LockInv, OwnPending, OnlyRow, NoRows
  <2>5. gone = Beyond(rows["incidents"] \union {call[t].id})
    BY <2>4
  <2> HIDE DEF gone
  <2>6. pending'[c].removed = gone /\ \A d \in Conns : d # c => pending'[d] = pending[d]
    BY <1>0, <2>1 DEF FileType
  <2>7. PrunedFor'
    <3> SUFFICES ASSUME NEW u \in Threads, Inside(u)'
                 PROVE  pending'[ConnOf(u)].removed =
                            IF call'[u].at = "commit" /\ TableOf(u) = "incidents"
                            THEN Beyond(rows["incidents"] \union {call'[u].id}) ELSE {}
      BY <2>1 DEF PrunedFor
    <3>1. CASE u = t
      BY <2>2, <2>3, <2>5, <2>6, <3>1
    <3>2. CASE u # t
      <4>1. Inside(u) /\ call'[u] = call[u]
        BY <2>2, <3>2 DEF Inside
      <4>2. ConnOf(u) # c
        BY <2>1, <3>2, <4>1, OneInside DEF LockInv, Inside
      <4> QED BY <1>0, <2>6, <4>1, <4>2 DEF NewestInv, PrunedFor
    <3> QED BY <3>1, <3>2
  <2>8. Held'
    BY <2>1, <2>2 DEF NewestInv, Held
  <2>9. NewestKept' /\ call'["writer"].at # "prune"
    BY <1>0, <1>00, <2>1, <2>2 DEF NewestInv, NewestKept
  <2> QED BY <1>00, <2>1, <2>7, <2>8, <2>9 DEF NewestInv
<1>8. ASSUME NEW t \in Threads, Fail(t) PROVE NewestInv'
  <2>1. Leave(t, FALSE) /\ Inside(t) /\ UNCHANGED <<rows, taken, kept>>
    BY <1>8 DEF Fail, Inside
  <2>2. /\ taken'["incidents"] \subseteq 1 .. MaxIncidents /\ call'["writer"].at # "prune"
        /\ Held' /\ PrunedFor'
    BY <2>1, LeaveNewest
  <2>3. NewestKept'
    BY <2>1 DEF NewestInv, NewestKept
  <2> QED BY <2>2, <2>3 DEF NewestInv
<1>9. ASSUME NEW t \in Threads, Commit(t) PROVE NewestInv'
  <2> DEFINE done == pending[ConnOf(t)]
             id == call[t].id
             old == rows["incidents"]
  <2>1. /\ call[t].at = "commit" /\ Leave(t, TRUE) /\ Inside(t) /\ taken' = taken
        /\ rows' = [rows EXCEPT !["sweeps"] = @ \union done.added["sweeps"],
                                !["incidents"] = (@ \union done.added["incidents"]) \ done.removed]
        /\ kept' = kept \union done.added["incidents"]
    BY <1>9 DEF Commit, Inside
  <2>2. /\ taken'["incidents"] \subseteq 1 .. MaxIncidents /\ call'["writer"].at # "prune"
        /\ Held' /\ PrunedFor'
    BY <2>1, LeaveNewest
  <2>3. rows'["incidents"] = (old \union done.added["incidents"]) \ done.removed
    BY <2>1 DEF FileType, RowSets
  <2>4. done.added["incidents"] = IF TableOf(t) = "incidents" THEN {id} ELSE {}
    BY <1>0, <2>1 DEF LockInv, OwnPending, OnlyRow, NoRows
  <2>5. done.removed = IF TableOf(t) = "incidents" THEN Beyond(old \union {id}) ELSE {}
    BY <2>1 DEF NewestInv, PrunedFor
  <2>6. old = Newest(kept)
    BY DEF NewestInv, NewestKept, Newest, Above
  <2>7. rows'["incidents"] = Newest(kept')
    <3>1. CASE TableOf(t) = "incidents"
      <4>1. id \in taken["incidents"]
        BY <2>1, <3>1 DEF RowInv, RowsTaken, Busy
      <4>2. kept \subseteq taken["incidents"]
        BY <1>0 DEF RowInv, OnlyTaken, Stored
      <4>3. id \in 1 .. MaxIncidents /\ kept \in SUBSET (1 .. MaxIncidents)
        BY <1>00, <4>1, <4>2
      <4>4. old \union {id} \in SUBSET (1 .. MaxIncidents)
        BY <2>6, <4>3 DEF Newest
      <4>5. rows'["incidents"] = Newest(old \union {id})
        BY <2>3, <2>4, <2>5, <3>1, <4>4, NewestStay
      <4>6. kept' = kept \union {id}
        BY <2>1, <2>4, <3>1
      <4> QED BY <2>6, <4>3, <4>5, <4>6, NewestOfNewest
    <3>2. CASE TableOf(t) # "incidents"
      BY <2>1, <2>3, <2>4, <2>5, <2>6, <3>2
    <3> QED BY <3>1, <3>2
  <2>8. NewestKept'
    BY <2>7 DEF NewestKept, Newest, Above
  <2> QED BY <2>2, <2>8 DEF NewestInv
<1>10. ASSUME NEW t \in Threads, Tell(t) PROVE NewestInv'
  <2>1. call' = [call EXCEPT ![t] = Idle] /\ UNCHANGED <<rows, kept, pending, writing, taken>>
    BY <1>10 DEF Tell
  <2>2. \A u \in Threads : call'[u] = call[u] \/ call'[u] = Idle
    BY <2>1 DEF CallType
  <2>3. \A u \in Threads : Inside(u)' => call'[u] = call[u]
    BY <2>2 DEF Inside, Idle
  <2>4. call'["writer"].at # "prune"
    BY <1>0, <1>00, <2>2 DEF Idle
  <2> QED BY <1>00, <2>1, <2>3, <2>4, FrameNewest
<1> QED
  BY <1>1, <1>2, <1>3, <1>4, <1>5, <1>6, <1>7, <1>8, <1>9, <1>10 DEF Next

-----------------------------------------------------------------------------
(* The theorems.                                                           *)

IInv == CallType /\ FileType /\ LockInv /\ RowInv /\ StopInv /\ SchemaInv

\* The invariant holds at first.
LEMMA InitIInv == Init => IInv
<1> SUFFICES ASSUME Init PROVE IInv
  OBVIOUS
<1>1. NoRows \in RowSets /\ NoChanges \in [added : RowSets, removed : SUBSET Nat]
  BY DEF NoRows, NoChanges, RowSets, Tables
<1>2. Idle \in [at : States, id : Nat, ok : BOOLEAN] /\ Idle.at = "idle"
  BY DEF Idle, States
<1>3. CallType /\ FileType
  BY <1>1, <1>2 DEF Init, CallType, FileType
<1>4. LockInv
  BY <1>2 DEF Init, LockInv, Owned, OwnPending, FreeIsEmpty, Inside
<1>5. RowInv
  BY <1>2 DEF Init, RowInv, RowsTaken, RowsDistinct, RowsOf, OnlyTaken, Told, Busy, Before, Stored,
     NoRows, Tables
<1>6. StopInv
  BY DEF Init, StopInv, FailuresShow
<1>7. SchemaInv
  <2>1. Down \in [state : {"down", "opening", "open", "closed"}, todo : Todos] /\ Down.state = "down"
    BY DEF Down, Todos
  <2>2. SchemaType
    BY <2>1 DEF Init, SchemaType, TablesOf, Tables
  <2>3. VersionBacked
    BY DEF Init, VersionBacked, TablesOf, Tables
  <2>4. ScriptBacked /\ OpenedWhole
    BY <2>1 DEF Init, ScriptBacked, OpenedWhole
  <2> QED BY <2>2, <2>3, <2>4 DEF SchemaInv
<1> QED BY <1>3, <1>4, <1>5, <1>6, <1>7 DEF IInv

\* Every step keeps the invariant.
LEMMA NextIInv == IInv /\ [Next]_vars => IInv'
BY CallTypeStep, FileTypeStep, LockStep, RowStep, StopStep, SchemaStep DEF IInv

\* In every state the owner of a connection's lock has that connection's
\* transaction to itself, and the file, the calls and the answers agree.
THEOREM StorageInvariant == Spec => []IInv
BY InitIInv, NextIInv, PTL DEF Spec

\* Every variable of the store and of its file keeps its type.
THEOREM StorageTypeCorrect == Spec => []TypeOK
<1>1. IInv => TypeOK
  BY TypesSuffice DEF IInv, SchemaInv
<1> QED BY <1>1, StorageInvariant, PTL

\* What a caller was told of its row is true, whatever the other threads of the
\* connection do and wherever a process ends (_db_lock around each transaction).
THEOREM StorageAnswersTrue == Spec => []AnswersTrue
<1>1. IInv => AnswersTrue
  BY ToldIsTrue DEF IInv, RowInv
<1> QED BY <1>1, StorageInvariant, PTL

\* A sweep that could not be stored shows until the process ends (store_sweep).
THEOREM StorageFailuresShow == Spec => []FailuresShow
<1>1. IInv => FailuresShow
  BY DEF IInv, StopInv
<1> QED BY <1>1, StorageInvariant, PTL

\* A connection that is open has the tables it needs (_initialize).
THEOREM StorageSchemaUsable == Spec => []SchemaUsable
<1>1. IInv => SchemaUsable
  BY SchemaSuffices DEF IInv
<1> QED BY <1>1, StorageInvariant, PTL

\* It holds at first.
LEMMA InitNewest == Init => NewestInv
<1> SUFFICES ASSUME Init PROVE NewestInv
  OBVIOUS
<1>1. call["writer"].at = "idle" /\ \A t \in Threads : call[t].at = "idle"
  BY DEF Init, Idle, Threads
<1>2. rows["incidents"] = {} /\ kept = {} /\ taken["incidents"] = {}
  BY DEF Init, NoRows, Tables
<1> QED BY <1>1, <1>2 DEF NewestInv, Held, PrunedFor, Inside, NewestKept

\* The file has the newest of all incidents ever recorded, however the two
\* connections take turns and whenever a process ends: each call prunes in the
\* transaction that inserts, after the write lock was had (record_incident).
THEOREM StorageNewestKept == Spec => []NewestKept
<1>1. IInv /\ NewestInv /\ [Next]_vars => NewestInv'
  BY NewestStep DEF IInv
<1>2. NewestInv => NewestKept
  BY DEF NewestInv
<1> QED BY <1>1, <1>2, InitNewest, StorageInvariant, PTL DEF Spec
=============================================================================
