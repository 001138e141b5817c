--------------------------- MODULE SqliteStoreProofs ---------------------------
(***************************************************************************)
(* Proofs about SqliteStore, for any number of threads, tables, stores and *)
(* locks.  The core is what a lock's owner and depth count: the call and   *)
(* the with-block of the owner that run under it, and nothing else.  It    *)
(* holds whatever locks the stores got; that a transaction is isolated     *)
(* follows where they got the same one.                                    *)
(***************************************************************************)
EXTENDS SqliteStore, FiniteSetTheorems, TLAPS

Holding == {"open", "ensure", "run", "leave"}
Calling == Holding \union {"acquire"}
Building == {"find", "make", "keep", "register"}

\* What a thread holds a lock for: the call it is in, the block it is in.
Holds(p, l) == call[p].step \in Holding /\ call[p].lock = l
Blocks(p, l) == block[p] # NoStore /\ lockOf[block[p]] = l
Holdings(p, l) == (IF Holds(p, l) THEN 1 ELSE 0) + (IF Blocks(p, l) THEN 1 ELSE 0)

\* Calls and blocks are of stores that were built, calls under their lock.
CallsBuilt ==
    \A p \in Threads : call[p].step \in Calling =>
        call[p].store \in Built /\ call[p].lock = lockOf[call[p].store]
BlocksBuilt == \A p \in Threads : block[p] # NoStore => block[p] \in Built

LockCounted ==
    \A l \in Locks :
        /\ owner[l] = NoThread => depth[l] = 0
        /\ \A p \in Threads : IF owner[l] = p
                              THEN depth[l] = Holdings(p, l) /\ depth[l] > 0
                              ELSE ~Holds(p, l) /\ ~Blocks(p, l)

\* A store being set up counts as connected, so a failure has something to give
\* back.
EnsuringConnected ==
    \A p \in Threads : call[p].step = "ensure" => call[p].store \in connected

\* BEGIN and the block come and go together; the transaction may end earlier.
OpenTxnInBlock == txn # NoThread => block[txn] # NoStore

Locked == CallsBuilt /\ BlocksBuilt /\ LockCounted
Working == EnsuringConnected /\ OpenTxnInBlock /\ CountedConnections
IInv == TypeOK /\ Locked /\ Working

-----------------------------------------------------------------------------

\* A new store is none of those built before: their locks and tables stay.
LEMMA NewStore ==
    ASSUME TypeOK, NEW p \in Threads, Register(p)
    PROVE  \E s \in Stores \ Built :
              /\ backend' = [backend EXCEPT ![call[p].table] = s]
              /\ tableOf' = [tableOf EXCEPT ![s] = call[p].table]
              /\ lockOf' = [lockOf EXCEPT ![s] = call[p].lock]
<1> DEFINE s == CHOOSE s \in Stores : s \notin Built
<1>1. \E x \in Stores : x \notin Built
  BY DEF Register, Built
<1>2. s \in Stores /\ s \notin Built
  BY <1>1
<1> QED BY <1>2 DEF Register

LEMMA BuiltStays ==
    ASSUME TypeOK, [Next]_vars
    PROVE  \A s \in Built : s \in Built' /\ lockOf'[s] = lockOf[s]
<1>1. CASE UNCHANGED lockOf
  BY <1>1 DEF Built
<1>2. ASSUME NEW p \in Threads, Register(p)
      PROVE  \A s \in Built : s \in Built' /\ lockOf'[s] = lockOf[s]
  <2>1. PICK s \in Stores \ Built : lockOf' = [lockOf EXCEPT ![s] = call[p].lock]
    BY <1>2, NewStore
  <2> QED BY <2>1 DEF TypeOK, Built
<1>3. (\E p \in Threads : Register(p)) \/ UNCHANGED lockOf
  <2>1. ASSUME NEW p \in Threads, ThreadStep(p)
        PROVE  Register(p) \/ UNCHANGED lockOf
    BY <2>1 DEF ThreadStep, BuildStep, CallStep, builtVars, Build, FindLock, MakeLock,
           KeepLock, Call, Acquire, Open, EnsureTable, RunStatements, RunPersist, RunClose,
           Begin, Leave, End
  <2> QED BY <2>1 DEF Next, vars, builtVars
<1> QED BY <1>1, <1>2, <1>3

\* A lock that is held has an owner whose count is positive, and the other way
\* round.
LEMMA HolderOwns ==
    ASSUME TypeOK, Locked, NEW p \in Threads, NEW l \in Locks, Holds(p, l) \/ Blocks(p, l)
    PROVE  owner[l] = p /\ depth[l] \in Nat \ {0}
BY DEF Locked, LockCounted, TypeOK

-----------------------------------------------------------------------------
(* Counting connections.                                                   *)

LEMMA RefsOfMember ==
    ASSUME TypeOK, CountedConnections, NEW s \in connected
    PROVE  Cardinality(connected \ {s}) = refs - 1 /\ refs - 1 \in Nat
<1>1. IsFiniteSet(connected)
  BY FS_Subset, SqliteAssumption DEF TypeOK
<1>2. Cardinality(connected \ {s}) = Cardinality(connected) - 1
  BY <1>1, FS_RemoveElement
<1>3. Cardinality(connected \ {s}) \in Nat
  BY <1>1, FS_RemoveElement, FS_CardinalityType
<1> QED BY <1>2, <1>3 DEF CountedConnections

LEMMA RefsOfNew ==
    ASSUME TypeOK, CountedConnections, NEW s, s \notin connected
    PROVE  Cardinality(connected \union {s}) = refs + 1
<1>1. IsFiniteSet(connected)
  BY FS_Subset, SqliteAssumption DEF TypeOK
<1> QED BY <1>1, FS_AddElement DEF CountedConnections

-----------------------------------------------------------------------------
(* Types.                                                                  *)

CallType == [step : CallSteps, kind : Kinds, store : Stores \union {NoStore},
             table : Tables, lock : Locks \union {NoLock}]
BuiltType ==
    /\ lockEntry \in Locks \union {NoLock}
    /\ made \in SUBSET Locks
    /\ backend \in [Tables -> Stores \union {NoStore}]
    /\ tableOf \in [Stores -> Tables]
    /\ lockOf \in [Stores -> Locks \union {NoLock}]
LockType ==
    /\ owner \in [Locks -> Threads \union {NoThread}]
    /\ depth \in [Locks -> Nat]
FileType ==
    /\ connected \in SUBSET Stores
    /\ refs \in Nat
    /\ txn \in Threads \union {NoThread}
    /\ disk \in [Tables -> Cells]
    /\ draft \in [Tables -> Cells]

LEMMA TypeParts ==
    TypeOK <=> /\ BuiltType /\ LockType /\ FileType
               /\ call \in [Threads -> CallType]
               /\ block \in [Threads -> Stores \union {NoStore}]
BY DEF TypeOK, BuiltType, LockType, FileType, CallType

LEMMA IdleType == Idle \in CallType
<1>1. SomeTable \in Tables
  BY SqliteAssumption DEF SomeTable
<1> QED BY <1>1 DEF Idle, CallType, CallSteps, Kinds

\* Whatever a method does to a cell, it is a cell.
LEMMA AfterType == \A c \in Cells : After(c) \subseteq Cells
<1>1. Empty \in Rows
  BY SqliteAssumption DEF Empty
<1> QED BY <1>1 DEF After, Got, Contained, OrCreated, Put, Added, Upserted, Removed, Cells

LEMMA InitInv == Init => IInv
<1> SUFFICES ASSUME Init PROVE IInv
  OBVIOUS
<1> USE DEF Init
<1>1. TypeOK
  <2>1. SomeTable \in Tables
    BY SqliteAssumption DEF SomeTable
  <2>2. call \in [Threads -> CallType]
    BY IdleType
  <2> QED BY <2>1, <2>2, TypeParts DEF BuiltType, LockType, FileType
<1>2. \A p \in Threads : call[p].step = "idle" /\ block[p] = NoStore
  BY DEF Idle
<1>3. Locked
  BY <1>2, SqliteAssumption
     DEF Locked, CallsBuilt, BlocksBuilt, LockCounted, Calling, Holding, Holds, Blocks
<1>4. Working
  BY <1>2, FS_EmptySet DEF Working, EnsuringConnected, OpenTxnInBlock, CountedConnections
<1> QED BY <1>1, <1>3, <1>4 DEF IInv

\* A release gives back what was counted.
LEMMA ReleaseType ==
    ASSUME TypeOK, CountedConnections, NEW s \in connected, Release(s)
    PROVE  connected' \in SUBSET Stores /\ refs' \in Nat
BY RefsOfMember DEF Release, TypeOK

\* So does a release of the lock.
LEMMA UnlockType ==
    ASSUME TypeOK, NEW l \in Locks, depth[l] \in Nat \ {0}, Unlock(l)
    PROVE  LockType'
BY DEF Unlock, TypeOK, LockType

LEMMA CallLock ==
    ASSUME TypeOK, Locked, NEW p \in Threads, call[p].step \in Calling
    PROVE  /\ call[p].store \in Stores
           /\ call[p].lock \in Locks /\ call[p].lock = lockOf[call[p].store]
BY DEF TypeOK, Locked, CallsBuilt, Built

LEMMA BlockLock ==
    ASSUME TypeOK, Locked, NEW p \in Threads, block[p] # NoStore
    PROVE  /\ block[p] \in Stores
           /\ lockOf[block[p]] \in Locks /\ Blocks(p, lockOf[block[p]])
BY DEF TypeOK, Locked, BlocksBuilt, Built, Blocks

-----------------------------------------------------------------------------

LEMMA TypeStep == IInv /\ [Next]_vars => TypeOK'
<1> SUFFICES ASSUME IInv, [Next]_vars PROVE TypeOK'
  OBVIOUS
<1> USE DEF IInv
<1> DEFINE CallOK == call' \in [Threads -> CallType]
           BlockOK == block' \in [Threads -> Stores \union {NoStore}]
<1>q. ASSUME BuiltType', LockType', FileType', CallOK, BlockOK
      PROVE  TypeOK'
  BY <1>q DEF TypeOK, BuiltType, LockType, FileType, CallType, Cells
<1>t. /\ BuiltType /\ LockType /\ FileType
      /\ call \in [Threads -> CallType]
      /\ block \in [Threads -> Stores \union {NoStore}]
  BY TypeParts
<1> HIDE DEF CallOK, BlockOK
\* What an action leaves alone keeps its type.
<1>b. UNCHANGED builtVars => BuiltType'
  BY <1>t DEF builtVars, BuiltType
<1>l. UNCHANGED lockVars => LockType'
  BY <1>t DEF lockVars, LockType
<1>f. UNCHANGED fileVars => FileType'
  BY <1>t DEF fileVars, FileType, Cells
<1>k. UNCHANGED block => BlockOK
  BY <1>t DEF BlockOK
<1>c. ASSUME NEW p \in Threads, NEW x \in CallType, call' = [call EXCEPT ![p] = x]
      PROVE  CallOK
  BY <1>c, <1>t DEF CallOK
<1>g. ASSUME NEW p \in Threads, NEW step \in CallSteps, Goto(p, step)
      PROVE  CallOK
  BY <1>g, <1>t DEF Goto, CallOK, CallType
<1>v. ASSUME NEW p \in Threads, Leaving(p)
      PROVE  CallOK
  <2>1. "leave" \in CallSteps /\ "statement" \in Kinds
    BY DEF CallSteps, Kinds
  <2> HIDE DEF CallSteps, Kinds
  <2> QED BY <1>v, <1>t, <2>1 DEF Leaving, CallOK, CallType
<1>m. Commit => disk' \in [Tables -> Cells] /\ draft' \in [Tables -> Cells]
                /\ txn' \in Threads \union {NoThread}
  BY <1>t DEF Commit, FileType
<1>r. ASSUME NEW s \in connected, Release(s)
      PROVE  connected' \in SUBSET Stores /\ refs' \in Nat
  BY <1>r, ReleaseType DEF Working
<1>1. ASSUME NEW p \in Threads, NEW t \in Tables, Build(p, t)
      PROVE  TypeOK'
  <2>1. [Idle EXCEPT !.step = "find", !.table = t] \in CallType
    BY IdleType DEF CallType, CallSteps
  <2>2. CallOK
    BY <1>1, <1>c, <2>1 DEF Build
  <2> QED BY <1>1, <1>q, <1>b, <1>l, <1>f, <1>k, <2>2 DEF Build
<1>2. ASSUME NEW p \in Threads, FindLock(p)
      PROVE  TypeOK'
  <2>1. CallOK
    <3>1. lockEntry \in Locks \union {NoLock}
      BY <1>t DEF BuiltType
    <3>2. {"make", "register"} \subseteq CallSteps
      BY DEF CallSteps
    <3>3. call' = [call EXCEPT ![p] = [call[p] EXCEPT !.lock = lockEntry,
                      !.step = IF lockEntry = NoLock THEN "make" ELSE "register"]]
      BY <1>2 DEF FindLock
    <3>4. [call[p] EXCEPT !.lock = lockEntry,
                          !.step = IF lockEntry = NoLock THEN "make" ELSE "register"] \in CallType
      <4> HIDE DEF CallSteps
      <4> QED BY <1>t, <3>1, <3>2 DEF CallType
    <3> QED BY <3>3, <3>4, <1>c
  <2> QED BY <1>2, <1>q, <1>b, <1>l, <1>f, <1>k, <2>1 DEF FindLock
<1>3. ASSUME NEW p \in Threads, MakeLock(p)
      PROVE  TypeOK'
  <2>1. PICK l \in Locks \ made : /\ made' = made \union {l}
                                  /\ call' = [call EXCEPT ![p].lock = l, ![p].step = "keep"]
    BY <1>3 DEF MakeLock
  <2>2. CallOK
    <3>1. [call[p] EXCEPT !.lock = l, !.step = "keep"] \in CallType
      BY <1>t DEF CallType, CallSteps
    <3>2. call' = [call EXCEPT ![p] = [call[p] EXCEPT !.lock = l, !.step = "keep"]]
      BY <2>1
    <3> QED BY <3>1, <3>2, <1>c
  <2>3. BuiltType'
    BY <1>3, <1>t, <2>1 DEF MakeLock, BuiltType
  <2> QED BY <1>3, <1>q, <1>l, <1>f, <1>k, <2>2, <2>3 DEF MakeLock
<1>4. ASSUME NEW p \in Threads, KeepLock(p)
      PROVE  TypeOK'
  <2>1. BuiltType'
    BY <1>4, <1>t DEF KeepLock, BuiltType, CallType
  <2>2. CallOK
    BY <1>4, <1>g DEF KeepLock, CallSteps
  <2> QED BY <1>4, <1>q, <1>l, <1>f, <1>k, <2>1, <2>2 DEF KeepLock
<1>5. ASSUME NEW p \in Threads, Register(p)
      PROVE  TypeOK'
  <2>1. BuiltType'
    <3>1. PICK s \in Stores \ Built :
              /\ backend' = [backend EXCEPT ![call[p].table] = s]
              /\ tableOf' = [tableOf EXCEPT ![s] = call[p].table]
              /\ lockOf' = [lockOf EXCEPT ![s] = call[p].lock]
      BY <1>5, NewStore
    <3> QED BY <1>5, <1>t, <3>1 DEF Register, BuiltType, CallType
  <2>2. CallOK
    BY <1>5, <1>c, IdleType DEF Register
  <2> QED BY <1>5, <1>q, <1>l, <1>f, <1>k, <2>1, <2>2 DEF Register
<1>6. ASSUME NEW p \in Threads, NEW s \in Stores, NEW kind \in Kinds, Call(p, s, kind)
      PROVE  TypeOK'
  <2>1. lockOf[s] \in Locks \union {NoLock}
    BY <1>t DEF BuiltType
  <2>2. [Idle EXCEPT !.step = "acquire", !.kind = kind, !.store = s,
                     !.lock = lockOf[s]] \in CallType
    BY IdleType, <2>1 DEF CallType, CallSteps
  <2>3. CallOK
    BY <1>6, <1>c, <2>2 DEF Call
  <2> QED BY <1>6, <1>q, <1>b, <1>l, <1>f, <1>k, <2>3 DEF Call
<1>7. ASSUME NEW p \in Threads, Acquire(p)
      PROVE  TypeOK'
  <2>0. call[p].lock \in Locks
    BY <1>7, CallLock DEF Acquire, Calling
  <2>1. LockType'
    BY <1>7, <1>t, <2>0 DEF Acquire, LockType
  <2>2. CallOK
    BY <1>7, <1>g DEF Acquire, CallSteps
  <2> QED BY <1>7, <1>q, <1>b, <1>f, <1>k, <2>1, <2>2 DEF Acquire
<1>8. ASSUME NEW p \in Threads, Open(p)
      PROVE  TypeOK'
  <2>1. call[p].store \in Stores
    BY <1>8, CallLock DEF Open, Calling, Holding
  <2>2. FileType'
    BY <1>8, <1>t, <2>1 DEF Open, FileType
  <2>3. CallOK
    BY <1>8, <1>g DEF Open, CallSteps
  <2> QED BY <1>8, <1>q, <1>b, <1>l, <1>k, <2>2, <2>3 DEF Open
<1>9. ASSUME NEW p \in Threads, EnsureTable(p)
      PROVE  TypeOK'
  <2>1. call[p].store \in connected
    BY <1>9 DEF EnsureTable, Working, EnsuringConnected
  <2>2. FileType'
    BY <1>9, <1>t, <1>m, <1>r, <2>1 DEF EnsureTable, FileType
  <2>3. CallOK
    BY <1>9, <1>g, <1>v DEF EnsureTable, CallSteps
  <2> QED BY <1>9, <1>q, <1>b, <1>l, <1>k, <2>2, <2>3 DEF EnsureTable
<1>10. ASSUME NEW p \in Threads, RunStatements(p)
       PROVE  TypeOK'
  <2>1. tableOf[call[p].store] \in Tables
    BY <1>10, <1>t, CallLock DEF RunStatements, BuiltType, Calling, Holding
  <2>2. PICK c \in After(draft[tableOf[call[p].store]]) :
             /\ draft' = [draft EXCEPT ![tableOf[call[p].store]] = c]
             /\ disk' = IF txn = NoThread THEN draft' ELSE disk
    BY <1>10 DEF RunStatements
  <2>3. c \in Cells
    BY <1>t, <2>1, <2>2, AfterType DEF FileType
  <2>4. FileType'
    BY <1>10, <1>t, <2>2, <2>3 DEF RunStatements, FileType
  <2> QED BY <1>10, <1>q, <1>b, <1>l, <1>k, <1>v, <2>4 DEF RunStatements
<1>11. ASSUME NEW p \in Threads, RunPersist(p)
       PROVE  TypeOK'
  <2>1. FileType'
    BY <1>11, <1>t, <1>m DEF RunPersist, FileType
  <2> QED BY <1>11, <1>q, <1>b, <1>l, <1>k, <1>v, <2>1 DEF RunPersist
<1>12. ASSUME NEW p \in Threads, RunClose(p)
       PROVE  TypeOK'
  <2>1. FileType'
    BY <1>12, <1>t, <1>r DEF RunClose, FileType
  <2> QED BY <1>12, <1>q, <1>b, <1>l, <1>k, <1>v, <2>1 DEF RunClose
<1>13. ASSUME NEW p \in Threads, Begin(p)
       PROVE  TypeOK'
  <2>1. call[p].store \in Stores
    BY <1>13, CallLock DEF Begin, Calling, Holding
  <2>2. FileType' /\ BlockOK
    BY <1>13, <1>t, <2>1 DEF Begin, FileType, BlockOK
  <2>3. CallOK
    BY <1>13, <1>c, <1>v, IdleType DEF Begin
  <2> QED BY <1>13, <1>q, <1>b, <1>l, <2>2, <2>3 DEF Begin
<1>14. ASSUME NEW p \in Threads, Leave(p)
       PROVE  TypeOK'
  <2>1. call[p].lock \in Locks
    BY <1>14, CallLock DEF Leave, Calling, Holding
  <2>2. Holds(p, call[p].lock)
    BY <1>14 DEF Leave, Holds, Holding
  <2>3. LockType'
    BY <1>14, <2>1, <2>2, HolderOwns, UnlockType DEF Leave
  <2>4. CallOK
    BY <1>14, <1>c, IdleType DEF Leave
  <2> QED BY <1>14, <1>q, <1>b, <1>f, <1>k, <2>3, <2>4 DEF Leave
<1>15. ASSUME NEW p \in Threads, End(p)
       PROVE  TypeOK'
  <2>1. lockOf[block[p]] \in Locks /\ Blocks(p, lockOf[block[p]])
    BY <1>15, BlockLock DEF End
  <2>2. LockType'
    BY <1>15, <2>1, HolderOwns, UnlockType DEF End
  <2>3. FileType'
    BY <1>15, <1>t, <1>r DEF End, FileType
  <2>4. BlockOK /\ CallOK
    BY <1>15, <1>t DEF End, BlockOK, CallOK
  <2> QED BY <1>15, <1>q, <1>b, <2>2, <2>3, <2>4 DEF End
<1>16. CASE UNCHANGED vars
  BY <1>16, <1>t, <1>q, <1>b, <1>l, <1>f, <1>k DEF vars, CallOK
<1> QED
  BY <1>1, <1>2, <1>3, <1>4, <1>5, <1>6, <1>7, <1>8, <1>9, <1>10, <1>11, <1>12, <1>13,
     <1>14, <1>15, <1>16 DEF Next, ThreadStep, BuildStep, CallStep

-----------------------------------------------------------------------------
(* The connection: set-ups, transactions and the count.                    *)

\* Nobody but p is set up under the lock p holds.
LEMMA Alone ==
    ASSUME TypeOK, Locked, NEW p \in Threads, NEW l \in Locks, Holds(p, l) \/ Blocks(p, l),
           NEW q \in Threads, q # p
    PROVE  ~Holds(q, l) /\ ~Blocks(q, l)
BY DEF Locked, LockCounted

\* A store that another thread is setting up is not the one p works on.
LEMMA NotSetUp ==
    ASSUME TypeOK, Locked, NEW p \in Threads, NEW s \in Stores, lockOf[s] \in Locks,
           Holds(p, lockOf[s]) \/ Blocks(p, lockOf[s]),
           NEW q \in Threads, q # p, call[q].step = "ensure"
    PROVE  call[q].store # s
<1>1. call[q].lock = lockOf[call[q].store]
  BY DEF Locked, CallsBuilt, Calling, Holding
<1> QED BY <1>1, Alone DEF Holds, Holding

\* The steps that touch none of this.
LEMMA FrameStep ==
    ASSUME Working, UNCHANGED <<connected, refs, txn, block>>,
           \A p \in Threads : call'[p].step = "ensure" => call'[p] = call[p]
    PROVE  Working'
BY DEF Working, EnsuringConnected, OpenTxnInBlock, CountedConnections

LEMMA WorkStep == IInv /\ [Next]_vars => Working'
<1> SUFFICES ASSUME IInv, [Next]_vars PROVE Working'
  OBVIOUS
<1> USE DEF IInv
<1>t. /\ call \in [Threads -> CallType]
      /\ block \in [Threads -> Stores \union {NoStore}]
      /\ FileType
  BY TypeParts
\* A store given back under its lock, by a thread that is not set up afterwards.
<1>r. ASSUME NEW p \in Threads, NEW s \in connected, Release(s),
             lockOf[s] \in Locks, Holds(p, lockOf[s]) \/ Blocks(p, lockOf[s]),
             call'[p].step # "ensure",
             \A q \in Threads : q # p => call'[q] = call[q]
      PROVE  EnsuringConnected' /\ CountedConnections'
  <2>1. CountedConnections'
    BY <1>r, RefsOfMember DEF Release, Working, CountedConnections
  <2>2. s \in Stores
    BY <1>t DEF FileType
  <2>3. ASSUME NEW q \in Threads, call'[q].step = "ensure"
        PROVE  call'[q].store \in connected'
    <3>1. q # p /\ call'[q] = call[q]
      BY <1>r, <2>3
    <3>2. call[q].store # s
      BY <1>r, <2>2, <2>3, <3>1, NotSetUp
    <3> QED BY <1>r, <2>3, <3>1, <3>2 DEF Release, Working, EnsuringConnected
  <2> QED BY <2>1, <2>3 DEF EnsuringConnected
<1>v. ASSUME NEW p \in Threads, Leaving(p)
      PROVE  /\ call'[p].step # "ensure"
             /\ \A q \in Threads : q # p => call'[q] = call[q]
  BY <1>v, <1>t DEF Leaving, CallType
<1>1. ASSUME NEW p \in Threads, BuildStep(p)
      PROVE  Working'
  <2>1. UNCHANGED <<connected, refs, txn, block>>
    BY <1>1 DEF BuildStep, fileVars, Build, FindLock, MakeLock, KeepLock, Register
  <2>2. \A q \in Threads : call'[q].step = "ensure" => call'[q] = call[q]
    <3>1. ASSUME NEW t \in Tables, Build(p, t)
          PROVE  call'[p].step = "find" /\ \A q \in Threads : q # p => call'[q] = call[q]
      BY <3>1, <1>t DEF Build, Idle
    <3>2. FindLock(p) => /\ call'[p].step \in {"make", "register"}
                         /\ \A q \in Threads : q # p => call'[q] = call[q]
      BY <1>t DEF FindLock, CallType
    <3>3. ASSUME MakeLock(p)
          PROVE  call'[p].step = "keep" /\ \A q \in Threads : q # p => call'[q] = call[q]
      BY <3>3, <1>t DEF MakeLock, CallType
    <3>4. KeepLock(p) \/ Register(p) =>
              /\ call'[p].step \in {"register", "idle"}
              /\ \A q \in Threads : q # p => call'[q] = call[q]
      BY <1>t DEF KeepLock, Register, Goto, CallType, Idle
    <3> QED BY <1>1, <3>1, <3>2, <3>3, <3>4 DEF BuildStep
  <2> QED BY <2>1, <2>2, FrameStep
<1>2. ASSUME NEW p \in Threads, NEW s \in Stores, NEW kind \in Kinds, Call(p, s, kind)
      PROVE  Working'
  <2>1. \A q \in Threads : call'[q].step = "ensure" => call'[q] = call[q]
    BY <1>2, <1>t DEF Call, Idle
  <2> QED BY <1>2, <2>1, FrameStep DEF Call, fileVars
<1>3. ASSUME NEW p \in Threads, Acquire(p)
      PROVE  Working'
  <2>1. \A q \in Threads : call'[q].step = "ensure" => call'[q] = call[q]
    BY <1>3, <1>t DEF Acquire, Goto, CallType
  <2> QED BY <1>3, <2>1, FrameStep DEF Acquire, fileVars
<1>4. ASSUME NEW p \in Threads, Open(p)
      PROVE  Working'
  <2> DEFINE s == call[p].store
  <2>1. CASE s \in connected
    <3>1. \A q \in Threads : call'[q].step = "ensure" => call'[q] = call[q]
      BY <1>4, <1>t, <2>1 DEF Open, Goto, CallType
    <3> QED BY <1>4, <2>1, <3>1, FrameStep DEF Open
  <2>2. CASE s \notin connected
    <3>1. CountedConnections'
      BY <1>4, <2>2, RefsOfNew DEF Open, Working, CountedConnections
    <3>2. EnsuringConnected'
      BY <1>4, <1>t, <2>2 DEF Open, Goto, CallType, Working, EnsuringConnected
    <3>3. OpenTxnInBlock'
      BY <1>4 DEF Open, Working, OpenTxnInBlock
    <3> QED BY <3>1, <3>2, <3>3 DEF Working
  <2> QED BY <2>1, <2>2
<1>5. ASSUME NEW p \in Threads, EnsureTable(p)
      PROVE  Working'
  <2>1. CASE Commit /\ Goto(p, "run") /\ UNCHANGED <<connected, refs>>
    <3>1. \A q \in Threads : call'[q].step = "ensure" => call'[q] = call[q]
      BY <1>t, <2>1 DEF Goto, CallType
    <3> QED BY <2>1, <3>1 DEF Commit, Working, EnsuringConnected, OpenTxnInBlock,
           CountedConnections
  <2>2. CASE Release(call[p].store) /\ Leaving(p) /\ UNCHANGED <<txn, disk, draft>>
    <3>1. /\ call[p].store \in connected
          /\ lockOf[call[p].store] \in Locks /\ Holds(p, lockOf[call[p].store])
      BY <1>5, CallLock DEF EnsureTable, Working, EnsuringConnected, Holds, Holding, Calling
    <3>2. EnsuringConnected' /\ CountedConnections'
      BY <2>2, <3>1, <1>r, <1>v
    <3> QED BY <1>5, <2>2, <3>2 DEF EnsureTable, Working, OpenTxnInBlock
  <2> QED BY <1>5, <2>1, <2>2 DEF EnsureTable
<1>6. ASSUME NEW p \in Threads, RunStatements(p) \/ RunPersist(p)
      PROVE  Working'
  <2>1. \A q \in Threads : call'[q].step = "ensure" => call'[q] = call[q]
    BY <1>6, <1>v DEF RunStatements, RunPersist
  <2>2. UNCHANGED <<connected, refs, block>> /\ txn' \in {txn, NoThread}
    BY <1>6 DEF RunStatements, RunPersist, Commit
  <2> QED BY <2>1, <2>2 DEF Working, EnsuringConnected, OpenTxnInBlock, CountedConnections
<1>7. ASSUME NEW p \in Threads, RunClose(p)
      PROVE  Working'
  <2>1. CASE call[p].store \in connected
    <3>1. lockOf[call[p].store] \in Locks /\ Holds(p, lockOf[call[p].store])
      BY <1>7, CallLock DEF RunClose, Holds, Holding, Calling
    <3>2. EnsuringConnected' /\ CountedConnections'
      BY <1>7, <2>1, <3>1, <1>r, <1>v DEF RunClose
    <3> QED BY <1>7, <3>2 DEF RunClose, Working, OpenTxnInBlock
  <2>2. CASE call[p].store \notin connected
    <3>1. \A q \in Threads : call'[q].step = "ensure" => call'[q] = call[q]
      BY <1>7, <1>v DEF RunClose
    <3> QED BY <1>7, <2>2, <3>1, FrameStep DEF RunClose
  <2> QED BY <2>1, <2>2
<1>8. ASSUME NEW p \in Threads, Begin(p)
      PROVE  Working'
  <2>1. \A q \in Threads : call'[q].step = "ensure" => call'[q] = call[q]
    BY <1>8, <1>v, <1>t DEF Begin, Idle
  <2>2. CASE txn = NoThread /\ block[p] = NoStore
    <3>1. call[p].store \in Stores
      BY <1>8, CallLock DEF Begin, Calling, Holding
    <3>2. OpenTxnInBlock'
      BY <1>8, <2>2, <1>t, <3>1, SqliteAssumption DEF Begin, OpenTxnInBlock
    <3> QED BY <1>8, <2>1, <3>2 DEF Begin, Working, EnsuringConnected, CountedConnections
  <2>3. CASE ~(txn = NoThread /\ block[p] = NoStore)
    BY <1>8, <2>1, <2>3, FrameStep DEF Begin
  <2> QED BY <2>2, <2>3
<1>9. ASSUME NEW p \in Threads, Leave(p)
      PROVE  Working'
  <2>1. \A q \in Threads : call'[q].step = "ensure" => call'[q] = call[q]
    BY <1>9, <1>t DEF Leave, Idle
  <2> QED BY <1>9, <2>1, FrameStep DEF Leave, fileVars
<1>10. ASSUME NEW p \in Threads, End(p)
       PROVE  Working'
  <2>1. OpenTxnInBlock'
    BY <1>10 DEF End, OpenTxnInBlock
  <2>2. CASE block[p] \in connected
    <3>1. EnsuringConnected' /\ CountedConnections'
      BY <1>10, <2>2, <1>r, BlockLock DEF End
    <3> QED BY <2>1, <3>1 DEF Working
  <2>3. CASE block[p] \notin connected
    BY <1>10, <2>1, <2>3 DEF End, Working, EnsuringConnected, CountedConnections
  <2> QED BY <2>2, <2>3
<1>11. CASE UNCHANGED vars
  BY <1>11, FrameStep DEF vars, fileVars
<1> QED
  BY <1>1, <1>2, <1>3, <1>4, <1>5, <1>6, <1>7, <1>8, <1>9, <1>10, <1>11
     DEF Next, ThreadStep, CallStep

-----------------------------------------------------------------------------
(* The lock.                                                               *)

\* A thread that does not move keeps what it holds, whatever is built meanwhile.
LEMMA Bystander ==
    ASSUME TypeOK, Locked, [Next]_vars,
           NEW q \in Threads, call'[q] = call[q], block'[q] = block[q]
    PROVE  /\ call'[q].step \in Calling =>
                call'[q].store \in Built' /\ call'[q].lock = lockOf'[call'[q].store]
           /\ block'[q] # NoStore => block'[q] \in Built'
           /\ \A l \in Locks : (Holds(q, l)' <=> Holds(q, l)) /\ (Blocks(q, l)' <=> Blocks(q, l))
BY BuiltStays DEF Locked, CallsBuilt, BlocksBuilt, Holds, Blocks

\* The lock is not touched, and p holds what it held.
LEMMA QuietStep ==
    ASSUME TypeOK, Locked, [Next]_vars, UNCHANGED lockVars, NEW p \in Threads,
           \A q \in Threads : q # p => call'[q] = call[q],
           UNCHANGED block,
           call'[p].step \in Calling =>
               call'[p].store \in Built /\ call'[p].lock = lockOf[call'[p].store],
           call'[p].step \in Holding <=> call[p].step \in Holding,
           call'[p].step \in Holding => call'[p].lock = call[p].lock
    PROVE  Locked'
<1>1. CallsBuilt' /\ BlocksBuilt'
  BY Bystander, BuiltStays DEF Locked, CallsBuilt, BlocksBuilt
<1>2. \A q \in Threads, l \in Locks : Holds(q, l)' <=> Holds(q, l)
  BY Bystander DEF Holds
<1>3. \A q \in Threads, l \in Locks : Blocks(q, l)' <=> Blocks(q, l)
  BY BuiltStays DEF Locked, BlocksBuilt, Blocks
<1>4. LockCounted'
  BY <1>2, <1>3 DEF Locked, LockCounted, Holdings, lockVars
<1> QED BY <1>1, <1>4 DEF Locked

\* A thread moves on within its call.
LEMMA CallGoesOn ==
    ASSUME TypeOK, Locked, [Next]_vars, UNCHANGED <<lockVars, builtVars, block>>,
           NEW p \in Threads, call[p].step \in Holding,
           (\E step \in Holding : Goto(p, step)) \/ Leaving(p)
    PROVE  Locked'
<1>0. call \in [Threads -> CallType]
  BY TypeParts
<1>1. /\ \A q \in Threads : q # p => call'[q] = call[q]
      /\ call'[p].step \in Holding
      /\ call'[p].store = call[p].store /\ call'[p].lock = call[p].lock
  <2>1. ASSUME NEW step \in Holding, Goto(p, step)
        PROVE  /\ \A q \in Threads : q # p => call'[q] = call[q]
               /\ call'[p].step \in Holding
               /\ call'[p].store = call[p].store /\ call'[p].lock = call[p].lock
    BY <1>0, <2>1 DEF Goto, CallType
  <2>2. CASE Leaving(p)
    BY <1>0, <2>2 DEF Leaving, CallType, Holding
  <2> QED BY <2>1, <2>2
<1>2. call[p].store \in Built /\ call[p].lock = lockOf[call[p].store]
  BY DEF Locked, CallsBuilt, Calling
<1> QED BY <1>1, <1>2, QuietStep

\* One thread takes or gives back one lock, or holds it for something else.
LEMMA LockChange ==
    ASSUME Locked, NEW p \in Threads, NEW l \in Locks, owner[l] \in {NoThread, p},
           \A q \in Threads, k \in Locks :
               q # p \/ k # l => (Holds(q, k)' <=> Holds(q, k)) /\ (Blocks(q, k)' <=> Blocks(q, k)),
           \A k \in Locks : k # l => owner'[k] = owner[k] /\ depth'[k] = depth[k],
           \/ owner'[l] = p /\ depth'[l] = Holdings(p, l)' /\ depth'[l] > 0
           \/ owner'[l] = NoThread /\ depth'[l] = 0 /\ ~Holds(p, l)' /\ ~Blocks(p, l)'
    PROVE  LockCounted'
<1>1. ASSUME NEW k \in Locks, k # l
      PROVE  /\ owner'[k] = NoThread => depth'[k] = 0
             /\ \A q \in Threads : IF owner'[k] = q
                                   THEN depth'[k] = Holdings(q, k)' /\ depth'[k] > 0
                                   ELSE ~Holds(q, k)' /\ ~Blocks(q, k)'
  BY <1>1 DEF Locked, LockCounted, Holdings
<1>2. ASSUME NEW q \in Threads, q # p
      PROVE  ~Holds(q, l)' /\ ~Blocks(q, l)' /\ owner'[l] # q
  BY <1>2, SqliteAssumption DEF Locked, LockCounted
<1>3. owner'[l] = NoThread => depth'[l] = 0
  BY SqliteAssumption
<1>4. IF owner'[l] = p THEN depth'[l] = Holdings(p, l)' /\ depth'[l] > 0
      ELSE ~Holds(p, l)' /\ ~Blocks(p, l)'
  BY SqliteAssumption
<1>5. \A q \in Threads : IF owner'[l] = q
                         THEN depth'[l] = Holdings(q, l)' /\ depth'[l] > 0
                         ELSE ~Holds(q, l)' /\ ~Blocks(q, l)'
  BY <1>2, <1>4
<1> QED BY <1>1, <1>3, <1>5 DEF LockCounted

\* A lock is released once: it becomes free with the last thing it was held for.
LEMMA Unlocked ==
    ASSUME Locked, TypeOK, NEW p \in Threads, NEW l \in Locks, Unlock(l),
           owner[l] = p, depth[l] = Holdings(p, l), depth[l] \in Nat \ {0},
           \A q \in Threads, k \in Locks :
               q # p \/ k # l => (Holds(q, k)' <=> Holds(q, k)) /\ (Blocks(q, k)' <=> Blocks(q, k)),
           \/ Holds(p, l) /\ ~Holds(p, l)' /\ (Blocks(p, l)' <=> Blocks(p, l))
           \/ Blocks(p, l) /\ ~Blocks(p, l)' /\ (Holds(p, l)' <=> Holds(p, l))
    PROVE  LockCounted'
<1>1. Holdings(p, l)' = Holdings(p, l) - 1
  BY DEF Holdings
<1>2. /\ \A k \in Locks : k # l => owner'[k] = owner[k] /\ depth'[k] = depth[k]
      /\ depth'[l] = Holdings(p, l)'
      /\ owner'[l] = IF Holdings(p, l) = 1 THEN NoThread ELSE p
  BY <1>1 DEF Unlock, TypeOK
<1>3. CASE Holdings(p, l) = 1
  <2>1. ~Holds(p, l)' /\ ~Blocks(p, l)'
    BY <1>3 DEF Holdings
  <2> QED BY <1>1, <1>2, <1>3, <2>1, LockChange
<1>4. CASE Holdings(p, l) # 1
  <2>1. Holdings(p, l)' > 0
    BY <1>1, <1>4 DEF Holdings
  <2> QED BY <1>2, <1>4, <2>1, LockChange
<1> QED BY <1>3, <1>4

LEMMA LockStep == IInv /\ [Next]_vars => Locked'
<1> SUFFICES ASSUME IInv, [Next]_vars PROVE Locked'
  OBVIOUS
<1> USE DEF IInv
<1>t. /\ call \in [Threads -> CallType]
      /\ block \in [Threads -> Stores \union {NoStore}]
      /\ LockType /\ BuiltType
  BY TypeParts
<1>1. ASSUME NEW p \in Threads, BuildStep(p)
      PROVE  Locked'
  <2>1. UNCHANGED <<lockVars, block>>
    BY <1>1 DEF BuildStep, Build, FindLock, MakeLock, KeepLock, Register
  <2> DEFINE Moves == /\ \A q \in Threads : q # p => call'[q] = call[q]
                      /\ call[p].step \in Building \union {"idle"}
                      /\ call'[p].step \in Building \union {"idle"}
  <2>2. Moves
    <3>1. ASSUME NEW t \in Tables, Build(p, t)
          PROVE  Moves
      BY <3>1, <1>t DEF Build, Idle, Building
    <3>2. FindLock(p) => Moves
      BY <1>t DEF FindLock, CallType, Building
    <3>3. ASSUME MakeLock(p)
          PROVE  Moves
      BY <3>3, <1>t DEF MakeLock, CallType, Building
    <3>4. KeepLock(p) \/ Register(p) => Moves
      BY <1>t DEF KeepLock, Register, Goto, CallType, Idle, Building
    <3> QED BY <1>1, <3>1, <3>2, <3>3, <3>4 DEF BuildStep
  <2>3. call[p].step \notin Calling /\ call'[p].step \notin Calling
    BY <2>2 DEF Building, Calling, Holding
  <2> QED BY <2>1, <2>2, <2>3, QuietStep DEF Calling
<1>2. ASSUME NEW p \in Threads, NEW s \in Stores, NEW kind \in Kinds, Call(p, s, kind)
      PROVE  Locked'
  <2>1. /\ call'[p].step = "acquire" /\ call[p].step = "idle"
        /\ call'[p].store = s /\ call'[p].lock = lockOf[s] /\ s \in Built
        /\ \A q \in Threads : q # p => call'[q] = call[q]
    BY <1>2, <1>t DEF Call, Idle
  <2> QED BY <1>2, <2>1, QuietStep DEF Call, Calling, Holding
<1>3. ASSUME NEW p \in Threads, Acquire(p)
      PROVE  Locked'
  <2>1. call[p].lock \in Locks /\ call[p].store \in Built /\ call[p].lock = lockOf[call[p].store]
    BY <1>3, CallLock DEF Acquire, Calling, Locked, CallsBuilt
  <2>2. PICK l \in Locks : l = call[p].lock
    BY <2>1
  <2>3. /\ call'[p].step \in Holding /\ call'[p].lock = l /\ call'[p].store = call[p].store
        /\ \A q \in Threads : q # p => call'[q] = call[q]
    BY <1>3, <1>t, <2>2 DEF Acquire, Goto, CallType, Holding
  <2>4. UNCHANGED <<builtVars, block>>
    BY <1>3 DEF Acquire
  <2>5. CallsBuilt' /\ BlocksBuilt'
    BY <2>1, <2>2, <2>3, <2>4, BuiltStays
       DEF builtVars, Built, Locked, CallsBuilt, BlocksBuilt
  <2>6. \A q \in Threads, k \in Locks : Blocks(q, k)' <=> Blocks(q, k)
    BY <2>4 DEF builtVars, Blocks
  <2>7. \A q \in Threads, k \in Locks : q # p => (Holds(q, k)' <=> Holds(q, k))
    BY <2>3 DEF Holds
  <2>8. \A k \in Locks : ~Holds(p, k) /\ (Holds(p, k)' <=> k = l)
    BY <1>3, <2>3 DEF Acquire, Holds, Holding
  <2>9. /\ \A k \in Locks : k # l => owner'[k] = owner[k] /\ depth'[k] = depth[k]
        /\ owner'[l] = p /\ depth'[l] = depth[l] + 1
        /\ depth[l] \in Nat /\ owner[l] \in {NoThread, p}
    BY <1>3, <1>t, <2>2 DEF Acquire, LockType
  <2>10. depth[l] = Holdings(p, l)
    <3>1. CASE owner[l] = p
      BY <3>1 DEF Locked, LockCounted
    <3>2. CASE owner[l] = NoThread
      BY <3>2, SqliteAssumption DEF Locked, LockCounted, Holdings
    <3> QED BY <2>9, <3>1, <3>2
  <2>11. depth'[l] = Holdings(p, l)' /\ depth'[l] > 0
    BY <2>6, <2>8, <2>9, <2>10 DEF Holdings
  <2>12. LockCounted'
    BY <2>6, <2>7, <2>8, <2>9, <2>11, LockChange
  <2> QED BY <2>5, <2>12 DEF Locked
<1>4. ASSUME NEW p \in Threads,
             Open(p) \/ EnsureTable(p) \/ RunStatements(p) \/ RunPersist(p) \/ RunClose(p)
      PROVE  Locked'
  <2>1. /\ call[p].step \in Holding
        /\ (\E step \in Holding : Goto(p, step)) \/ Leaving(p)
        /\ UNCHANGED <<lockVars, builtVars, block>>
    BY <1>4 DEF Open, EnsureTable, RunStatements, RunPersist, RunClose, Holding
  <2> QED BY <2>1, CallGoesOn
<1>5. ASSUME NEW p \in Threads, Begin(p)
      PROVE  Locked'
  <2>1. CASE ~(txn = NoThread /\ block[p] = NoStore)
    <3>1. /\ call[p].step \in Holding /\ Leaving(p)
          /\ UNCHANGED <<lockVars, builtVars, block>>
      BY <1>5, <2>1 DEF Begin, Holding
    <3> QED BY <3>1, CallGoesOn
  <2>2. CASE txn = NoThread /\ block[p] = NoStore
    <3>1. call[p].lock \in Locks /\ call[p].store \in Built /\ call[p].lock = lockOf[call[p].store]
      BY <1>5, CallLock DEF Begin, Calling, Holding, Locked, CallsBuilt
    <3>2. PICK l \in Locks : l = call[p].lock
      BY <3>1
    <3>3. /\ call'[p].step = "idle" /\ block'[p] = call[p].store
          /\ \A q \in Threads : q # p => call'[q] = call[q] /\ block'[q] = block[q]
          /\ UNCHANGED <<lockVars, builtVars>>
      BY <1>5, <1>t, <2>2 DEF Begin, Idle
    <3>4. CallsBuilt' /\ BlocksBuilt'
      BY <3>1, <3>3 DEF builtVars, Built, Locked, CallsBuilt, BlocksBuilt, Calling, Holding
    <3>5. \A q \in Threads, k \in Locks : q # p =>
              (Holds(q, k)' <=> Holds(q, k)) /\ (Blocks(q, k)' <=> Blocks(q, k))
      BY <3>3 DEF Holds, Blocks, builtVars
    <3>6. \A k \in Locks : /\ ~Holds(p, k)' /\ (Blocks(p, k)' <=> k = l)
                           /\ ~Blocks(p, k) /\ (Holds(p, k) <=> k = l)
      <4>1. block'[p] # NoStore /\ block[p] = NoStore
        BY <2>2, <3>1, <3>3, SqliteAssumption DEF Built
      <4> QED BY <1>5, <3>1, <3>2, <3>3, <4>1 DEF Begin, Holds, Blocks, Holding, builtVars
    <3>7. owner[l] = p /\ depth[l] = Holdings(p, l) /\ depth[l] > 0
      BY <3>6 DEF Locked, LockCounted
    <3>8. owner'[l] = p /\ depth'[l] = Holdings(p, l)' /\ depth'[l] > 0
      BY <3>3, <3>6, <3>7 DEF lockVars, Holdings
    <3>9. LockCounted'
      BY <3>3, <3>5, <3>6, <3>7, <3>8, LockChange DEF lockVars
    <3> QED BY <3>4, <3>9 DEF Locked
  <2> QED BY <2>1, <2>2
<1>6. ASSUME NEW p \in Threads, Leave(p)
      PROVE  Locked'
  <2>1. PICK l \in Locks : l = call[p].lock
    BY <1>6, CallLock DEF Leave, Calling, Holding
  <2>2. /\ call'[p].step = "idle" /\ call[p].step = "leave"
        /\ \A q \in Threads : q # p => call'[q] = call[q]
        /\ UNCHANGED <<builtVars, block>>
    BY <1>6, <1>t DEF Leave, Idle
  <2>3. CallsBuilt' /\ BlocksBuilt'
    BY <2>2 DEF builtVars, Built, Locked, CallsBuilt, BlocksBuilt, Calling, Holding
  <2>4. \A q \in Threads, k \in Locks :
            (q # p => (Holds(q, k)' <=> Holds(q, k))) /\ (Blocks(q, k)' <=> Blocks(q, k))
    BY <2>2 DEF Holds, Blocks, builtVars
  <2>5. \A k \in Locks : ~Holds(p, k)' /\ (Holds(p, k) <=> k = l)
    BY <2>1, <2>2 DEF Holds, Holding
  <2>6. owner[l] = p /\ depth[l] = Holdings(p, l) /\ depth[l] \in Nat \ {0}
    BY <2>5, HolderOwns DEF Locked, LockCounted
  <2>7. Unlock(l)
    BY <1>6, <2>1 DEF Leave
  <2>8. LockCounted'
    BY <2>4, <2>5, <2>6, <2>7, Unlocked
  <2> QED BY <2>3, <2>8 DEF Locked
<1>7. ASSUME NEW p \in Threads, End(p)
      PROVE  Locked'
  <2>1. PICK l \in Locks : l = lockOf[block[p]] /\ Blocks(p, l)
    BY <1>7, BlockLock DEF End
  <2>2. /\ block'[p] = NoStore
        /\ \A q \in Threads : q # p => block'[q] = block[q]
        /\ UNCHANGED <<builtVars, call>>
        /\ call[p].step = "idle"
    BY <1>7, <1>t DEF End
  <2>3. CallsBuilt' /\ BlocksBuilt'
    BY <2>2 DEF builtVars, Built, Locked, CallsBuilt, BlocksBuilt
  <2>4. \A q \in Threads, k \in Locks :
            (q # p => (Blocks(q, k)' <=> Blocks(q, k))) /\ (Holds(q, k)' <=> Holds(q, k))
    BY <2>2 DEF Holds, Blocks, builtVars
  <2>5. \A k \in Locks : /\ ~Blocks(p, k)' /\ (Blocks(p, k) <=> k = l)
                         /\ ~Holds(p, k) /\ ~Holds(p, k)'
    BY <2>1, <2>2 DEF Blocks, Holds, Holding
  <2>6. owner[l] = p /\ depth[l] = Holdings(p, l) /\ depth[l] \in Nat \ {0}
    BY <2>5, HolderOwns DEF Locked, LockCounted
  <2>7. Unlock(l)
    BY <1>7, <2>1 DEF End
  <2>8. LockCounted'
    BY <2>4, <2>5, <2>6, <2>7, Unlocked
  <2> QED BY <2>3, <2>8 DEF Locked
<1>8. CASE UNCHANGED vars
  BY <1>8 DEF vars, fileVars, lockVars, builtVars, Locked, CallsBuilt, BlocksBuilt,
     LockCounted, Holdings, Holds, Blocks, Built
<1> QED
  BY <1>1, <1>2, <1>3, <1>4, <1>5, <1>6, <1>7, <1>8 DEF Next, ThreadStep, CallStep

-----------------------------------------------------------------------------
(* Theorems.                                                               *)

LEMMA Invariance == Spec => []IInv
<1>1. IInv /\ [Next]_vars => IInv'
  BY TypeStep, LockStep, WorkStep DEF IInv
<1> QED BY <1>1, InitInv, PTL DEF Spec

\* _LOCKS, _CONNECTIONS, the stores and the calls hold values of their kinds;
\* in particular no lock is released more often than it was taken, and no
\* reference given back that was not counted.
THEOREM TypeCorrect == Spec => []TypeOK
BY Invariance, PTL DEF IInv

\* The shared connection is counted right, whatever set-ups, BEGINs and blocks
\* failed, however many threads build and use stores at the same time.
THEOREM ConnectionsCounted == Spec => []CountedConnections
BY Invariance, PTL DEF IInv, Working

\* The stores of the file share one lock (_LOCKS).
OneLock == \A s, t \in Built : lockOf[s] = lockOf[t]

LEMMA OneLockIsolates ==
    ASSUME IInv, OneLock
    PROVE  NoStatementSlipsIn
<1> USE DEF IInv
<1> SUFFICES ASSUME NEW p \in Threads, Executing(p), txn # NoThread
             PROVE  txn = p
  BY DEF NoStatementSlipsIn
<1>1. txn \in Threads /\ block[txn] # NoStore
  BY DEF TypeOK, Working, OpenTxnInBlock
<1>2. call[p].store \in Built /\ block[txn] \in Built
  BY <1>1 DEF Locked, CallsBuilt, BlocksBuilt, Executing, Calling, Holding
<1>3. PICK l \in Locks : l = lockOf[block[txn]] /\ Blocks(txn, l)
  BY <1>1, BlockLock
<1>4. call[p].lock = l
  BY <1>2, <1>3, CallLock DEF OneLock, Executing, Calling, Holding
<1>5. Holds(p, l)
  BY <1>4 DEF Holds, Executing, Holding
<1> QED BY <1>1, <1>3, <1>5, Alone

\* "no other thread's statement can slip into it", as far as the stores have
\* got the same lock: an open transaction and a statement of another thread
\* never meet on the connection.
THEOREM SharedLockIsolates == Spec => [](OneLock => NoStatementSlipsIn)
<1>1. IInv => (OneLock => NoStatementSlipsIn)
  BY OneLockIsolates
<1> QED BY <1>1, Invariance, PTL

-----------------------------------------------------------------------------
(* One thread builds the stores: then there is one lock.                   *)

OneBuilder == \A p, q \in Builders : p = q

\* The entry is set once, before there is a store, and every store gets it.
LockKept ==
    /\ \A s \in Built : lockOf[s] = lockEntry
    /\ \A p \in Threads :
         /\ call[p].step \in Building => p \in Builders
         /\ call[p].step \in {"make", "keep"} => lockEntry = NoLock
         /\ call[p].step = "register" => call[p].lock = lockEntry

LEMMA LockKeptStep ==
    ASSUME OneBuilder, TypeOK, LockKept, [Next]_vars
    PROVE  LockKept'
<1>t. call \in [Threads -> CallType] /\ BuiltType
  BY TypeParts
\* A step that leaves the registries alone and takes up no building.
<1>q. ASSUME UNCHANGED builtVars,
             \A p \in Threads : call'[p] = call[p] \/ call'[p].step \notin Building
      PROVE  LockKept'
  BY <1>q DEF LockKept, builtVars, Built, Building
<1>0. ASSUME NEW p \in Threads, NEW q \in Threads, q # p,
             call[p].step \in Building, call[q].step \in Building
      PROVE  FALSE
  BY <1>0 DEF LockKept, OneBuilder
<1>1. ASSUME NEW p \in Threads, NEW t \in Tables, Build(p, t)
      PROVE  LockKept'
  <2>1. call'[p].step = "find" /\ \A q \in Threads : q # p => call'[q] = call[q]
    BY <1>1, <1>t DEF Build, Idle
  <2> QED BY <1>1, <2>1 DEF Build, builtVars, LockKept, Built, Building
<1>2. ASSUME NEW p \in Threads, FindLock(p)
      PROVE  LockKept'
  <2>1. /\ call[p].step = "find" /\ call'[p].lock = lockEntry
        /\ call'[p].step = IF lockEntry = NoLock THEN "make" ELSE "register"
        /\ \A q \in Threads : q # p => call'[q] = call[q]
    BY <1>2, <1>t DEF FindLock, CallType
  <2>2. p \in Builders
    BY <2>1 DEF LockKept, Building
  <2>3. UNCHANGED <<lockEntry, lockOf>> /\ Built' = Built
    BY <1>2 DEF FindLock, builtVars, Built
  <2>4. CASE lockEntry = NoLock
    BY <2>1, <2>2, <2>3, <2>4 DEF LockKept
  <2>5. CASE lockEntry # NoLock
    BY <2>1, <2>2, <2>3, <2>5 DEF LockKept
  <2> QED BY <2>4, <2>5
<1>3. ASSUME NEW p \in Threads, MakeLock(p)
      PROVE  LockKept'
  <2>1. /\ call[p].step = "make" /\ call'[p].step = "keep"
        /\ \A q \in Threads : q # p => call'[q] = call[q]
    BY <1>3, <1>t DEF MakeLock, CallType
  <2> QED BY <1>3, <2>1 DEF MakeLock, LockKept, Built, Building
<1>4. ASSUME NEW p \in Threads, KeepLock(p)
      PROVE  LockKept'
  <2>1. /\ call[p].step = "keep" /\ call'[p].step = "register"
        /\ call'[p].lock = call[p].lock /\ lockEntry' = call[p].lock
        /\ \A q \in Threads : q # p => call'[q] = call[q]
        /\ UNCHANGED lockOf
    BY <1>4, <1>t DEF KeepLock, Goto, CallType
  <2>2. Built = {} /\ Built' = {}
    BY <2>1 DEF LockKept, Built
  <2>3. \A q \in Threads : q # p => call'[q].step \notin Building
    BY <1>0, <2>1 DEF Building
  <2> QED BY <2>1, <2>2, <2>3 DEF LockKept, Building
<1>5. ASSUME NEW p \in Threads, Register(p)
      PROVE  LockKept'
  <2>1. PICK s \in Stores \ Built : lockOf' = [lockOf EXCEPT ![s] = call[p].lock]
    BY <1>5, NewStore
  <2>2. /\ call[p].lock = lockEntry /\ UNCHANGED lockEntry
        /\ call'[p].step = "idle" /\ \A q \in Threads : q # p => call'[q] = call[q]
    BY <1>5, <1>t DEF Register, LockKept, Idle
  <2>3. \A x \in Built' : lockOf'[x] = lockEntry'
    BY <1>t, <2>1, <2>2 DEF LockKept, Built, BuiltType
  <2> QED BY <2>2, <2>3 DEF LockKept, Building
<1>6. ASSUME NEW p \in Threads, NEW s \in Stores, NEW kind \in Kinds, Call(p, s, kind)
      PROVE  LockKept'
  BY <1>6, <1>t, <1>q DEF Call, Idle, Building
<1>7. ASSUME NEW p \in Threads, Acquire(p)
      PROVE  LockKept'
  BY <1>7, <1>t, <1>q DEF Acquire, Goto, CallType, Building
<1>8. ASSUME NEW p \in Threads, CallStep(p) \/ End(p)
      PROVE  LockKept'
  <2>1. UNCHANGED builtVars
    BY <1>8 DEF CallStep, Open, EnsureTable, RunStatements, RunPersist, RunClose, Begin,
       Leave, End
  <2>2. \/ \E step \in {"run", "ensure"} : Goto(p, step)
        \/ Leaving(p) \/ call' = [call EXCEPT ![p] = Idle] \/ UNCHANGED call
    BY <1>8 DEF CallStep, Open, EnsureTable, RunStatements, RunPersist, RunClose, Begin,
       Leave, End
  <2> DEFINE Elsewhere == \A q \in Threads : call'[q] = call[q] \/ call'[q].step \notin Building
  <2>3. Elsewhere
    <3>1. ASSUME NEW step \in {"run", "ensure"}, Goto(p, step)
          PROVE  Elsewhere
      <4>1. call'[p].step = step /\ \A q \in Threads : q # p => call'[q] = call[q]
        BY <3>1, <1>t DEF Goto, CallType
      <4> QED BY <4>1 DEF Building
    <3>2. Leaving(p) => Elsewhere
      BY <1>t DEF Leaving, CallType, Building
    <3>3. call' = [call EXCEPT ![p] = Idle] => Elsewhere
      BY <1>t DEF Idle, Building
    <3> QED BY <2>2, <3>1, <3>2, <3>3
  <2> QED BY <2>1, <2>3, <1>q
<1>9. CASE UNCHANGED vars
  BY <1>9, <1>q DEF vars
<1> QED
  BY <1>1, <1>2, <1>3, <1>4, <1>5, <1>6, <1>7, <1>8, <1>9 DEF Next, ThreadStep, BuildStep

\* Where one thread opens the stores, transactions are isolated from the others.
THEOREM OneBuilderIsolates ==
    ASSUME OneBuilder
    PROVE  Spec => []NoStatementSlipsIn
<1>1. Init => LockKept
  <2> SUFFICES ASSUME Init PROVE LockKept
    OBVIOUS
  <2>1. Built = {} /\ \A p \in Threads : call[p].step = "idle"
    BY DEF Init, Built, Idle
  <2> QED BY <2>1 DEF LockKept, Building
<1>2. TypeOK /\ LockKept /\ [Next]_vars => LockKept'
  BY LockKeptStep
<1>3. IInv /\ LockKept => NoStatementSlipsIn
  BY OneLockIsolates DEF LockKept, OneLock
<1> QED BY <1>1, <1>2, <1>3, Invariance, TypeCorrect, PTL DEF Spec

================================================================================
