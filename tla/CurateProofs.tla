---------------------------- MODULE CurateProofs ----------------------------
(***************************************************************************)
(* Safety of the curation run (Curate), for all sets of ISINs and files    *)
(* and any number of runs.                                                 *)
(***************************************************************************)
EXTENDS Curate, TLAPS

Running == pc # "idle"

\* What the memory of a run calls examined is stored.
MemoryIsHonest == Running => \A i \in examined : outcome[at][i] = "stored"

\* The run file knows no selected ISIN the run does not know.
FileBehindMemory ==
  Running /\ Readable(at) => file[at].examined \intersect selected \subseteq examined

\* Pending ISINs are not examined, nor is the one in hand until it is added.
PendingIsOpen == Running => pending \intersect examined = {}

HandIsOpen ==
  /\ pc \in InHandStates => hand \notin pending
  /\ pc \in {"fetch", "flush", "add"} => hand \notin examined
  /\ pc = "add" => outcome[at][hand] = "stored"
  /\ pc = "discard" => hand \in examined

\* Every selected ISIN is waiting, in hand, or recorded with its fate.
Accounted ==
  /\ pc \in Guarded \union {"create"} =>
       \A i \in selected :
         \/ i \in pending \union examined \union failed
         \/ pc \in InHandStates /\ i = hand
  /\ pc = "done" => pending = {} /\ failed = {}

\* A run has no exit code; its file was created and is not blank any more.
RunStates ==
  /\ Running => exit = "none"
  /\ pc = "create" => /\ examined = {}
                      /\ \A i \in Isins : outcome[at][i] = "untried"
  /\ pc \in Guarded \union {"handler"} => file[at].kind # "blank"

IInv ==
  /\ TypeOK
  /\ RunFileIsHonest
  /\ MemoryIsHonest
  /\ FileBehindMemory
  /\ PendingIsOpen
  /\ HandIsOpen
  /\ Accounted
  /\ RunStates
  /\ UnreadableIsUnstarted
  /\ SuccessIsComplete
  /\ StoppedRunIsResumable

-----------------------------------------------------------------------------
USE DEF Running, RunFile, Absent, Blank, Guarded, InHandStates, Readable, frame

\* No file, no run: the invariant holds at the start.
LEMMA InitInv == Init => IInv
  BY RunsBounded
  DEF Init, IInv, TypeOK, RunFileIsHonest, MemoryIsHonest, FileBehindMemory,
      PendingIsOpen, HandIsOpen, Accounted, RunStates, UnreadableIsUnstarted,
      SuccessIsComplete, StoppedRunIsResumable

\* Every step of a run or of its environment keeps the types.
LEMMA TypeStep == TypeOK /\ [Next]_vars => TypeOK'
<1> SUFFICES ASSUME TypeOK, [Next]_vars
             PROVE  TypeOK'
  OBVIOUS
<1> USE DEF TypeOK
<1>1. ASSUME NEW f \in Files, StartNew(f)
      PROVE  TypeOK'
  BY <1>1, RunsBounded DEF StartNew, Begin
<1>2. ASSUME NEW f \in Files, Resume(f)
      PROVE  TypeOK'
  BY <1>2, RunsBounded DEF Resume, Begin
<1>3. CASE WriteNew
  BY <1>3 DEF WriteNew, Record
<1>4. ASSUME NEW i \in Isins, Take(i)
      PROVE  TypeOK'
  BY <1>4 DEF Take
<1>5. CASE FetchFails
  BY <1>5 DEF FetchFails
<1>6. CASE FetchAndStage
  BY <1>6 DEF FetchAndStage
<1>7. CASE FlushStores
  BY <1>7 DEF FlushStores
<1>8. CASE AddExamined
  BY <1>8 DEF AddExamined
<1>9. CASE DiscardFailed
  BY <1>9 DEF DiscardFailed
<1>10. CASE WriteRunFile
  BY <1>10 DEF WriteRunFile, Record
<1>11. CASE FinishIncomplete
  BY <1>11 DEF FinishIncomplete, Record, Exit
<1>12. CASE RemoveRunFile
  BY <1>12 DEF RemoveRunFile
<1>13. CASE FinishComplete
  BY <1>13 DEF FinishComplete, Exit
<1>14. CASE Interrupt
  BY <1>14 DEF Interrupt
<1>15. CASE HandleInterrupt
  BY <1>15 DEF HandleInterrupt, Record, Exit
<1>16. CASE CreateFails
  BY <1>16 DEF CreateFails, Exit
<1>17. CASE Abort
  BY <1>17 DEF Abort, Exit
<1>18. CASE UNCHANGED vars
  BY <1>18 DEF vars
<1>19. QED
  BY <1>1, <1>2, <1>3, <1>4, <1>5, <1>6, <1>7, <1>8, <1>9, <1>10, <1>11, <1>12, <1>13, <1>14, <1>15, <1>16, <1>17, <1>18 DEF Next, Step

\* ... and the rest of the invariant.
LEMMA InvStep == IInv /\ [Next]_vars => IInv'
<1> SUFFICES ASSUME IInv, [Next]_vars
             PROVE  IInv'
  OBVIOUS
<1> DEFINE Rest == /\ RunFileIsHonest
                   /\ MemoryIsHonest
                   /\ FileBehindMemory
                   /\ PendingIsOpen
                   /\ HandIsOpen
                   /\ Accounted
                   /\ RunStates
                   /\ UnreadableIsUnstarted
                   /\ SuccessIsComplete
                   /\ StoppedRunIsResumable
<1>a. TypeOK /\ TypeOK'
  BY TypeStep DEF IInv
<1>b. SUFFICES Rest'
  BY <1>a DEF IInv
<1> USE <1>a DEF IInv, TypeOK, RunFileIsHonest, MemoryIsHonest, FileBehindMemory,
        PendingIsOpen, HandIsOpen, Accounted, RunStates, UnreadableIsUnstarted,
        SuccessIsComplete, StoppedRunIsResumable
<1>1. ASSUME NEW f \in Files, StartNew(f)
      PROVE  Rest'
  <2>1. /\ file'[f].kind = "blank"
        /\ \A g \in Files \ {f} : file'[g] = file[g] /\ outcome'[g] = outcome[g]
        /\ \A i \in Isins : outcome'[f][i] = "untried"
    BY <1>1 DEF StartNew
  <2>2. /\ at' = f /\ pc' = "create" /\ exit' = "none"
        /\ examined' = {} /\ pending' = selected'
    BY <1>1 DEF StartNew, Begin
  <2>a. RunFileIsHonest'
    <3> SUFFICES ASSUME NEW g \in Files, Readable(g)'
                 PROVE  \A i \in file'[g].examined : outcome'[g][i] = "stored"
      OBVIOUS
    <3>1. CASE g = f
      BY <3>1, <2>1
    <3>2. CASE g # f
      BY <3>2, <2>1
    <3>3. QED
      BY <3>1, <3>2
  <2>b. FileBehindMemory'
    BY <2>1, <2>2
  <2>c. UnreadableIsUnstarted'
    <3> SUFFICES ASSUME NEW g \in Files, file'[g].kind = "blank"
                 PROVE  \A i \in Isins : outcome'[g][i] = "untried"
      OBVIOUS
    <3>1. CASE g = f
      BY <3>1, <2>1
    <3>2. CASE g # f
      BY <3>2, <2>1
    <3>3. QED
      BY <3>1, <3>2
  <2>3. RunFileIsHonest' /\ FileBehindMemory' /\ UnreadableIsUnstarted'
    BY <2>a, <2>b, <2>c
  <2>4. /\ MemoryIsHonest' /\ PendingIsOpen' /\ HandIsOpen' /\ Accounted'
        /\ RunStates' /\ SuccessIsComplete' /\ StoppedRunIsResumable'
    BY <2>1, <2>2
  <2>5. QED
    BY <2>3, <2>4
<1>2. ASSUME NEW f \in Files, Resume(f)
      PROVE  Rest'
  BY <1>2 DEF Resume, Begin
<1>3. CASE WriteNew
  BY <1>3 DEF WriteNew, Record
<1>4. ASSUME NEW i \in Isins, Take(i)
      PROVE  Rest'
  BY <1>4 DEF Take
<1>5. CASE FetchFails
  BY <1>5 DEF FetchFails
<1>6. CASE FetchAndStage
  BY <1>6 DEF FetchAndStage
<1>7. CASE FlushStores
  BY <1>7 DEF FlushStores
<1>8. CASE AddExamined
  BY <1>8 DEF AddExamined
<1>9. CASE DiscardFailed
  BY <1>9 DEF DiscardFailed
<1>10. CASE WriteRunFile
  BY <1>10 DEF WriteRunFile, Record
<1>11. CASE FinishIncomplete
  BY <1>11 DEF FinishIncomplete, Record, Exit
<1>12. CASE RemoveRunFile
  <2>1. /\ file'[at].kind = "absent"
        /\ \A g \in Files \ {at} : file'[g] = file[g]
    BY <1>12 DEF RemoveRunFile
  <2>2. /\ pc = "loop" /\ pc' = "done" /\ pending = {} /\ failed = {}
        /\ UNCHANGED <<at, selected, exit, pending, hand, examined, failed, outcome>>
    BY <1>12 DEF RemoveRunFile
  <2>a. RunFileIsHonest'
    <3> SUFFICES ASSUME NEW g \in Files, Readable(g)'
                 PROVE  \A i \in file'[g].examined : outcome'[g][i] = "stored"
      OBVIOUS
    <3>1. CASE g = at
      BY <3>1, <2>1, <2>2
    <3>2. CASE g # at
      BY <3>2, <2>1, <2>2
    <3>3. QED
      BY <3>1, <3>2
  <2>b. FileBehindMemory'
    BY <2>1, <2>2
  <2>c. UnreadableIsUnstarted'
    <3> SUFFICES ASSUME NEW g \in Files, file'[g].kind = "blank"
                 PROVE  \A i \in Isins : outcome'[g][i] = "untried"
      OBVIOUS
    <3>1. CASE g = at
      BY <3>1, <2>1, <2>2
    <3>2. CASE g # at
      BY <3>2, <2>1, <2>2
    <3>3. QED
      BY <3>1, <3>2
  <2>3. RunFileIsHonest' /\ FileBehindMemory' /\ UnreadableIsUnstarted'
    BY <2>a, <2>b, <2>c
  <2>4. /\ MemoryIsHonest' /\ PendingIsOpen' /\ HandIsOpen' /\ Accounted'
        /\ RunStates' /\ SuccessIsComplete' /\ StoppedRunIsResumable'
    BY <2>1, <2>2
  <2>5. QED
    BY <2>3, <2>4
<1>13. CASE FinishComplete
  BY <1>13 DEF FinishComplete, Exit
<1>14. CASE Interrupt
  BY <1>14 DEF Interrupt
<1>15. CASE HandleInterrupt
  BY <1>15 DEF HandleInterrupt, Record, Exit
<1>16. CASE CreateFails
  <2>1. /\ file'[at].kind = "absent"
        /\ \A g \in Files \ {at} : file'[g] = file[g]
    BY <1>16 DEF CreateFails
  <2>2. /\ pc' = "idle" /\ exit' = "error"
        /\ UNCHANGED <<at, selected, outcome>>
    BY <1>16 DEF CreateFails, Exit
  <2>3. QED
    BY <2>1, <2>2
<1>17. CASE Abort
  BY <1>17 DEF Abort, Exit
<1>18. CASE UNCHANGED vars
  BY <1>18 DEF vars
<1>19. QED
  BY <1>1, <1>2, <1>3, <1>4, <1>5, <1>6, <1>7, <1>8, <1>9, <1>10, <1>11, <1>12, <1>13, <1>14, <1>15, <1>16, <1>17, <1>18 DEF Next, Step

LEMMA Invariance == Spec => []IInv
  BY InitInv, InvStep, PTL DEF Spec

\* The type invariant.
THEOREM TypeCorrect == Spec => []TypeOK
<1>1. IInv => TypeOK
  BY DEF IInv
<1>2. QED
  BY <1>1, Invariance, PTL

\* A run file calls examined only what was stored under it, whatever
\* interrupted or killed the runs that wrote it: resuming skips no ISIN
\* that was not curated.
THEOREM HonestRunFile == Spec => []RunFileIsHonest
<1>1. IInv => RunFileIsHonest
  BY DEF IInv
<1>2. QED
  BY <1>1, Invariance, PTL

\* Exit code 0 means that every selected ISIN was stored.
THEOREM CompleteSuccess == Spec => []SuccessIsComplete
<1>1. IInv => SuccessIsComplete
  BY DEF IInv
<1>2. QED
  BY <1>1, Invariance, PTL

\* Exit codes 1 and 130 leave a run file with all the run knew, and a
\* file that cannot be read holds no progress.
THEOREM Resumable == Spec => [](StoppedRunIsResumable /\ UnreadableIsUnstarted)
<1>1. IInv => StoppedRunIsResumable /\ UnreadableIsUnstarted
  BY DEF IInv
<1>2. QED
  BY <1>1, Invariance, PTL

\* No step takes a selected ISIN off the examined ones of a run file.
THEOREM KeepsProgress == Spec => ProgressIsKept
<1> DEFINE Kept == \A f \in Files : Readable(f) /\ Readable(f)' =>
                     file[f].examined \intersect selected' \subseteq file'[f].examined
<1>1. IInv /\ [Next]_vars => [Kept]_vars
  <2> SUFFICES ASSUME IInv, Next PROVE Kept
    OBVIOUS
  <2>1. CASE UNCHANGED file
    BY <2>1
  <2>2. ASSUME NEW f \in Files, StartNew(f)
        PROVE  Kept
    BY <2>2 DEF StartNew, IInv, TypeOK
  <2>3. CASE WriteNew \/ WriteRunFile \/ FinishIncomplete \/ HandleInterrupt
    <3>1. /\ Record /\ Running /\ UNCHANGED <<at, selected>>
      BY <2>3 DEF WriteNew, WriteRunFile, FinishIncomplete, HandleInterrupt, Exit
    <3>2. QED
      BY <3>1 DEF Record, IInv, TypeOK, FileBehindMemory
  <2>4. CASE RemoveRunFile \/ CreateFails
    BY <2>4 DEF RemoveRunFile, CreateFails, IInv, TypeOK
  <2>5. QED
    BY <2>1, <2>2, <2>3, <2>4
    DEF Next, Step, Resume, Take, FetchFails, FetchAndStage, FlushStores, AddExamined,
        DiscardFailed, FinishComplete, Interrupt, Abort
<1>2. QED
  BY <1>1, Invariance, PTL DEF Spec, ProgressIsKept

=============================================================================
