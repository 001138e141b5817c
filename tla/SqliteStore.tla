------------------------------ MODULE SqliteStore ------------------------------
(***************************************************************************)
(* The stores of one database file in one process (storage/sqlite_storage  *)
(* and storage/wiring.py): one lock and one counted connection for the     *)
(* file, a store for each table built on first use, statements in          *)
(* autocommit mode, and the context manager's explicit transactions.       *)
(*                                                                         *)
(* An action is what a thread does between two points where another one    *)
(* may run: a look at a module dictionary, taking the lock, opening the    *)
(* connection, a method's statements, leaving.  A table is reduced to one  *)
(* cell: a row, no row, or a row that cannot be decoded.                   *)
(***************************************************************************)
EXTENDS Naturals, FiniteSets

CONSTANTS
    Threads,
    Builders,   \* the threads that may be the first to use a table
    Tables,
    Stores,     \* bound: SqliteStorage objects
    Locks,      \* bound: RLock objects
    Rows,       \* decodable rows
    NoRow, Broken, NoStore, NoLock, NoThread

ASSUME SqliteAssumption ==
    /\ Builders \subseteq Threads
    /\ IsFiniteSet(Stores)
    /\ NoStore \notin Stores /\ NoLock \notin Locks /\ NoThread \notin Threads
    /\ {NoRow, Broken} \intersect Rows = {} /\ NoRow # Broken
    /\ Tables # {} /\ Rows # {}

VARIABLES
    lockEntry,  \* _LOCKS[file]
    made,       \* RLock objects created
    owner,      \* the thread that holds each lock
    depth,      \* how often it holds it
    backend,    \* _DB_BACKENDS: the store of each table
    tableOf,    \* the table of each store that was built
    lockOf,     \* its _lock
    connected,  \* stores whose _conn is not None
    refs,       \* the count in _CONNECTIONS[file]; 0 without an entry
    txn,        \* the thread whose BEGIN is open on the shared connection
    disk,       \* the committed rows
    draft,      \* the rows as the connection sees them
    call,       \* what each thread is calling
    block       \* the store of the with-block it is in

fileVars == <<connected, refs, txn, disk, draft>>
lockVars == <<owner, depth>>
builtVars == <<lockEntry, made, backend, tableOf, lockOf>>
vars == <<fileVars, lockVars, builtVars, call, block>>

Cells == Rows \union {NoRow, Broken}
Kinds == {"statement", "persist", "close", "enter"}
CallSteps == {"idle", "find", "make", "keep", "register",
              "acquire", "open", "ensure", "run", "leave"}
SomeTable == CHOOSE t \in Tables : TRUE
Empty == CHOOSE r \in Rows : TRUE
Idle == [step |-> "idle", kind |-> "statement", store |-> NoStore,
         table |-> SomeTable, lock |-> NoLock]
Built == {s \in Stores : lockOf[s] # NoLock}

Init ==
    /\ lockEntry = NoLock /\ made = {}
    /\ owner = [l \in Locks |-> NoThread]
    /\ depth = [l \in Locks |-> 0]
    /\ backend = [t \in Tables |-> NoStore]
    /\ tableOf = [s \in Stores |-> SomeTable]
    /\ lockOf = [s \in Stores |-> NoLock]
    /\ connected = {} /\ refs = 0 /\ txn = NoThread
    /\ disk \in [Tables -> Cells]
    /\ draft = disk
    /\ call = [p \in Threads |-> Idle]
    /\ block = [p \in Threads |-> NoStore]

Goto(p, step) == call' = [call EXCEPT ![p].step = step]
Leaving(p) == call' = [call EXCEPT ![p].step = "leave", ![p].kind = "statement"]

-----------------------------------------------------------------------------
(* _sqlite_backend and the constructor: check, create, remember.           *)

\* No store for the table yet.
Build(p, t) ==
    /\ call[p].step = "idle"
    /\ block[p] = NoStore
    /\ p \in Builders
    /\ backend[t] = NoStore
    /\ call' = [call EXCEPT ![p] = [Idle EXCEPT !.step = "find", !.table = t]]
    /\ UNCHANGED <<fileVars, lockVars, builtVars, block>>

\* _lock_for looks for the file's lock.
FindLock(p) ==
    /\ call[p].step = "find"
    /\ call' = [call EXCEPT ![p].lock = lockEntry,
                            ![p].step = IF lockEntry = NoLock THEN "make" ELSE "register"]
    /\ UNCHANGED <<fileVars, lockVars, builtVars, block>>

MakeLock(p) ==
    /\ call[p].step = "make"
    /\ \E l \in Locks \ made :
         /\ made' = made \union {l}
         /\ call' = [call EXCEPT ![p].lock = l, ![p].step = "keep"]
    /\ UNCHANGED <<fileVars, lockVars, lockEntry, backend, tableOf, lockOf, block>>

KeepLock(p) ==
    /\ call[p].step = "keep"
    /\ lockEntry' = call[p].lock
    /\ Goto(p, "register")
    /\ UNCHANGED <<fileVars, lockVars, made, backend, tableOf, lockOf, block>>

\* (Which of the unused names the new store gets does not matter.)
Register(p) ==
    LET s == CHOOSE s \in Stores : s \notin Built IN
    /\ call[p].step = "register"
    /\ Built # Stores
    /\ backend' = [backend EXCEPT ![call[p].table] = s]
    /\ tableOf' = [tableOf EXCEPT ![s] = call[p].table]
    /\ lockOf' = [lockOf EXCEPT ![s] = call[p].lock]
    /\ call' = [call EXCEPT ![p] = Idle]
    /\ UNCHANGED <<fileVars, lockVars, lockEntry, made, block>>

-----------------------------------------------------------------------------
(* A call: take the lock, connect on demand, run, give the lock back.      *)

\* Any store that was built: a repository keeps the one it was given.  A
\* block's body does not close a store.
Call(p, s, kind) ==
    /\ call[p].step = "idle"
    /\ s \in Built
    /\ kind = "close" => block[p] = NoStore
    /\ call' = [call EXCEPT ![p] = [Idle EXCEPT !.step = "acquire", !.kind = kind,
                                               !.store = s, !.lock = lockOf[s]]]
    /\ UNCHANGED <<fileVars, lockVars, builtVars, block>>

\* Re-entrant.
Acquire(p) ==
    LET l == call[p].lock IN
    /\ call[p].step = "acquire"
    /\ owner[l] \in {NoThread, p}
    /\ owner' = [owner EXCEPT ![l] = p]
    /\ depth' = [depth EXCEPT ![l] = @ + 1]
    /\ Goto(p, IF call[p].kind \in {"close", "persist"} THEN "run" ELSE "open")
    /\ UNCHANGED <<fileVars, builtVars, block>>

\* connect: a connected store is left alone; _shared_connection opens the
\* connection or counts one more store.
Open(p) ==
    LET s == call[p].store IN
    /\ call[p].step = "open"
    /\ IF s \in connected
       THEN Goto(p, "run") /\ UNCHANGED <<connected, refs>>
       ELSE /\ connected' = connected \union {s}
            /\ refs' = refs + 1
            /\ Goto(p, "ensure")
    /\ UNCHANGED <<txn, disk, draft, lockVars, builtVars, block>>

\* Store s gives its reference back; the last one closes the connection, and
\* with it goes a transaction nobody committed.
Release(s) ==
    /\ connected' = connected \ {s}
    /\ refs' = refs - 1

\* COMMIT of whatever transaction is open on the connection.
Commit == disk' = draft /\ draft' = draft /\ txn' = NoThread

\* Mutant: a failed set-up keeps its reference.
MutEnsureTable(p) ==
    LET s == call[p].store IN
    /\ call[p].step = "ensure"
    /\ \/ Commit /\ Goto(p, "run") /\ UNCHANGED <<connected, refs>>
       \/ /\ connected' = connected \ {s}
          /\ Leaving(p)
          /\ UNCHANGED <<refs, txn, disk, draft>>
    /\ UNCHANGED <<lockVars, builtVars, block>>

\* _ensure_table creates the table and commits - in a with-block of this
\* thread it commits the block's statements so far.  When it fails the store
\* is disconnected again and the call raises.
EnsureTable(p) ==
    /\ call[p].step = "ensure"
    /\ \/ Commit /\ Goto(p, "run") /\ UNCHANGED <<connected, refs>>
       \/ Release(call[p].store) /\ Leaving(p) /\ UNCHANGED <<txn, disk, draft>>
    /\ UNCHANGED <<lockVars, builtVars, block>>

(* What each method finds in a cell c and may leave behind.                *)

\* get: a row that cannot be decoded is reported as no row.
Got(c) == IF c = Broken THEN NoRow ELSE c

\* __contains__: but its key is there.
Contained(c) == c # NoRow

\* get_or_create: INSERT OR IGNORE when get found nothing.
OrCreated(c) == IF Got(c) # NoRow \/ Contained(c) THEN c ELSE Empty

\* put: INSERT ... ON CONFLICT DO UPDATE.
Put == Rows

\* add: KeyError for a key that is there, else put.
Added(c) == IF Contained(c) THEN {c} ELSE Put

\* upsert: get_or_create, merge, put; a merge that raises leaves what
\* get_or_create made.
Upserted(c) == {OrCreated(c)} \union Put

\* remove: no error when missing.
Removed == {NoRow}

After(c) ==
    {c, OrCreated(c)} \union Put \union Added(c) \union Upserted(c) \union Removed

\* One method's statements: outside a transaction each commits by itself.
RunStatements(p) ==
    LET t == tableOf[call[p].store] IN
    /\ call[p].step = "run"
    /\ call[p].kind = "statement"
    /\ \E c \in After(draft[t]) :
         /\ draft' = [draft EXCEPT ![t] = c]
         /\ disk' = IF txn = NoThread THEN draft' ELSE disk
    /\ Leaving(p)
    /\ UNCHANGED <<connected, refs, txn, lockVars, builtVars, block>>

\* persist, commit: they end a block's transaction early, and do nothing
\* without one.
RunPersist(p) ==
    /\ call[p].step = "run"
    /\ call[p].kind = "persist"
    /\ IF call[p].store \in connected THEN Commit ELSE UNCHANGED <<disk, draft, txn>>
    /\ Leaving(p)
    /\ UNCHANGED <<connected, refs, lockVars, builtVars, block>>

\* Mutant: a store that is not connected gives back a reference, too.
MutRunClose(p) ==
    /\ call[p].step = "run"
    /\ call[p].kind = "close"
    /\ Release(call[p].store)
    /\ Leaving(p)
    /\ UNCHANGED <<txn, disk, draft, lockVars, builtVars, block>>

RunClose(p) ==
    /\ call[p].step = "run"
    /\ call[p].kind = "close"
    /\ IF call[p].store \in connected THEN Release(call[p].store)
                                      ELSE UNCHANGED <<connected, refs>>
    /\ Leaving(p)
    /\ UNCHANGED <<txn, disk, draft, lockVars, builtVars, block>>

\* Mutant: a call that raised keeps the lock.
MutLeave(p) ==
    LET l == call[p].lock IN
    /\ call[p].step = "leave"
    /\ IF call[p].store \in connected
       THEN /\ depth' = [depth EXCEPT ![l] = @ - 1]
            /\ owner' = [owner EXCEPT ![l] = IF depth[l] = 1 THEN NoThread ELSE @]
       ELSE UNCHANGED lockVars
    /\ call' = [call EXCEPT ![p] = Idle]
    /\ UNCHANGED <<fileVars, builtVars, block>>

Unlock(l) ==
    /\ depth' = [depth EXCEPT ![l] = @ - 1]
    /\ owner' = [owner EXCEPT ![l] = IF depth[l] = 1 THEN NoThread ELSE @]

\* The call returns or raises: with-statement on the lock, either way.
Leave(p) ==
    /\ call[p].step = "leave"
    /\ Unlock(call[p].lock)
    /\ call' = [call EXCEPT ![p] = Idle]
    /\ UNCHANGED <<fileVars, builtVars, block>>

-----------------------------------------------------------------------------
(* with store: ...                                                         *)

\* Mutant: the lock covers BEGIN only.
MutBegin(p) ==
    /\ call[p].step = "run"
    /\ call[p].kind = "enter"
    /\ IF txn = NoThread
       THEN /\ txn' = p
            /\ block' = [block EXCEPT ![p] = call[p].store]
       ELSE UNCHANGED <<txn, block>>
    /\ Leaving(p)
    /\ UNCHANGED <<connected, refs, disk, draft, lockVars, builtVars>>

\* __enter__ holds the lock and issues BEGIN.  Inside a block of the same
\* thread that is an error: the lock is released once, the store stays
\* connected.
Begin(p) ==
    /\ call[p].step = "run"
    /\ call[p].kind = "enter"
    /\ IF txn = NoThread /\ block[p] = NoStore
       THEN /\ txn' = p
            /\ block' = [block EXCEPT ![p] = call[p].store]
            /\ call' = [call EXCEPT ![p] = Idle]
       ELSE Leaving(p) /\ UNCHANGED <<txn, block>>
    /\ UNCHANGED <<connected, refs, disk, draft, lockVars, builtVars>>

\* __exit__: COMMIT, or ROLLBACK when the body raised, if a transaction is
\* (still) open; close; release.
End(p) ==
    LET s == block[p] IN
    /\ call[p].step = "idle"
    /\ s # NoStore
    /\ disk' \in IF txn = NoThread THEN {disk} ELSE {disk, draft}
    /\ draft' = disk'
    /\ txn' = NoThread
    /\ IF s \in connected THEN Release(s) ELSE UNCHANGED <<connected, refs>>
    /\ Unlock(lockOf[s])
    /\ block' = [block EXCEPT ![p] = NoStore]
    /\ UNCHANGED <<builtVars, call>>

-----------------------------------------------------------------------------

CallStep(p) ==
    \/ Open(p) \/ EnsureTable(p) \/ RunStatements(p) \/ RunPersist(p)
    \/ RunClose(p) \/ Begin(p) \/ Leave(p)

BuildStep(p) ==
    \/ \E t \in Tables : Build(p, t)
    \/ FindLock(p) \/ MakeLock(p) \/ KeepLock(p)
    \/ Register(p)

ThreadStep(p) ==
    \/ BuildStep(p)
    \/ \E s \in Stores, kind \in Kinds : Call(p, s, kind)
    \/ Acquire(p) \/ CallStep(p) \/ End(p)

Next == \E p \in Threads : ThreadStep(p)

Spec == Init /\ [][Next]_vars

\* Threads run; one that keeps finding the lock free gets it some day, and the
\* bodies of with-blocks end.  Nobody has to begin a call.
FairSpec ==
    /\ Spec
    /\ \A p \in Threads : WF_vars(CallStep(p)) /\ SF_vars(Acquire(p)) /\ SF_vars(End(p))

-----------------------------------------------------------------------------
(* Properties.                                                             *)

\* The module dictionaries, the stores and the calls hold values of these
\* kinds.
TypeOK ==
    /\ lockEntry \in Locks \union {NoLock}
    /\ made \in SUBSET Locks
    /\ owner \in [Locks -> Threads \union {NoThread}]
    /\ depth \in [Locks -> Nat]
    /\ backend \in [Tables -> Stores \union {NoStore}]
    /\ tableOf \in [Stores -> Tables]
    /\ lockOf \in [Stores -> Locks \union {NoLock}]
    /\ connected \in SUBSET Stores
    /\ refs \in Nat
    /\ txn \in Threads \union {NoThread}
    /\ disk \in [Tables -> Cells]
    /\ draft \in [Tables -> Cells]
    /\ call \in [Threads -> [step : CallSteps, kind : Kinds, store : Stores \union {NoStore},
                             table : Tables, lock : Locks \union {NoLock}]]
    /\ block \in [Threads -> Stores \union {NoStore}]

\* Whoever runs statements on the shared connection runs them alone.
Executing(p) == call[p].step \in {"open", "ensure", "run"}

\* "no other thread's statement can slip into it": while a block's transaction
\* is open nobody but its thread works on the connection, so a ROLLBACK takes
\* back nothing of another thread, and no other thread reads rows that may
\* be taken back.
NoStatementSlipsIn ==
    \A p \in Threads : Executing(p) /\ txn # NoThread => txn = p

\* The count of the shared connection equals the stores that use it, whatever
\* set-ups, BEGINs and bodies failed: it is never closed under a store, and
\* never left open.
CountedConnections == refs = Cardinality(connected)

\* Nothing keeps the lock: every call returns, though blocks nest, set-ups
\* fail and a BEGIN inside a block raises.
CallsReturn ==
    \A p \in Threads : (call[p].step = "acquire") ~> (call[p].step = "idle")
=============================================================================
