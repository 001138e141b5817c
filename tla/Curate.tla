------------------------------- MODULE Curate -------------------------------
(***************************************************************************)
(* `asalloc curate` (src/cli/curate.py): every selected ISIN is fetched,   *)
(* its splits are stored, and a run file beside the database records how   *)
(* far the run has come.  A run may be interrupted (Ctrl-C), killed, or    *)
(* fail while it writes; `--run` resumes from the file it left.            *)
(*                                                                         *)
(* One curation runs at a time.  The ISINs of a run are taken in any       *)
(* order; the code's is alphabetical.  `last_isin` is left out: it is      *)
(* stored and loaded but never looked at.  Refusals (a missing or          *)
(* unreadable file, another user or database) change nothing and are no    *)
(* actions.                                                                *)
(***************************************************************************)
EXTENDS Naturals

CONSTANTS
  Isins,      \* ISINs of the registry
  Files,      \* names `mkstemp` may give a run file
  MaxRuns     \* bound: curations started

ASSUME RunsBounded == MaxRuns \in Nat

VARIABLES
  file,       \* run files on disk
  pc,         \* where the curation is, "idle" when none runs
  at,         \* its run file: `path`
  selected,   \* `selected`: the registry's ISINs, or those of one portfolio
  pending,    \* what is left of `pending`
  hand,       \* `isin` of the loop
  examined,   \* `examined` and
  failed,     \* `failed`, in memory
  exit,       \* how the last curation ended
  runs,       \* curations started (bound)
  outcome     \* history: how the last try of an ISIN under a file ended

vars == <<file, pc, at, selected, pending, hand, examined, failed, exit, runs, outcome>>

\* What no step between the start and the end of a run touches.
frame == <<at, selected, exit, runs>>

\* A run file: absent, blank (as `mkstemp` leaves it until the first payload
\* is in), or readable.
RunFile(kind, done, bad) == [kind |-> kind, examined |-> done, failed |-> bad]
Absent == RunFile("absent", {}, {})
Blank == RunFile("blank", {}, {})

\* The body of the `try`, where a KeyboardInterrupt reaches the handler.
InHandStates == {"fetch", "flush", "add", "discard"}
Guarded == {"loop", "write", "done"} \union InHandStates

TypeOK ==
  /\ file \in [Files -> [kind : {"absent", "blank", "readable"},
                      examined : SUBSET Isins, failed : SUBSET Isins]]
  /\ pc \in Guarded \union {"idle", "create", "handler"}
  /\ at \in Files
  /\ selected \subseteq Isins
  /\ pending \subseteq selected
  /\ hand \in Isins
  /\ pc \in InHandStates => hand \in selected
  /\ examined \subseteq selected
  /\ failed \subseteq selected
  /\ exit \in {"none", "ok", "failures", "interrupted", "error"}
  /\ runs \in 0..MaxRuns
  /\ outcome \in [Files -> [Isins -> {"untried", "stored", "failed"}]]

Readable(f) == file[f].kind = "readable"

Init ==
  /\ file = [f \in Files |-> Absent]
  /\ pc = "idle"
  /\ at \in Files
  /\ selected = {}
  /\ pending = {}
  /\ hand \in Isins
  /\ examined = {}
  /\ failed = {}
  /\ exit = "none"
  /\ runs = 0
  /\ outcome = [f \in Files |-> [i \in Isins |-> "untried"]]

-----------------------------------------------------------------------------
(* Start and resume. *)

\* `_selected_isins`: registry and portfolios change between runs.
Begin(f) ==
  /\ pc = "idle"
  /\ runs < MaxRuns
  /\ runs' = runs + 1
  /\ at' = f
  /\ selected' \in SUBSET Isins
  /\ exit' = "none"

\* `_new_run_file`: `mkstemp` makes an empty file of a name nobody uses.
StartNew(f) ==
  /\ Begin(f)
  /\ file[f] = Absent
  /\ file' = [file EXCEPT ![f] = Blank]
  /\ outcome' = [outcome EXCEPT ![f] = [i \in Isins |-> "untried"]]
  /\ examined' = {}
  /\ failed' = {}
  /\ pending' = selected'
  /\ pc' = "create"
  /\ UNCHANGED hand

\* Mutant: the ISINs of the file are not narrowed to the selected ones.
MutResumeStale(f) ==
  /\ Begin(f)
  /\ Readable(f)
  /\ examined' = file[f].examined
  /\ failed' = file[f].failed
  /\ pending' = selected' \ examined'
  /\ pc' = "loop"
  /\ UNCHANGED <<file, hand, outcome>>

\* Mutant: the examined ISINs of the file are only skipped, not carried over.
MutResumeBlank(f) ==
  /\ Begin(f)
  /\ Readable(f)
  /\ examined' = {}
  /\ failed' = file[f].failed \intersect selected'
  /\ pending' = selected' \ file[f].examined
  /\ pc' = "loop"
  /\ UNCHANGED <<file, hand, outcome>>

\* `_load_run_file` and the rest of `_prepare_run_file`: ISINs that are not
\* selected any more are dropped, examined ones are not tried again.
Resume(f) ==
  /\ Begin(f)
  /\ Readable(f)
  /\ examined' = file[f].examined \intersect selected'
  /\ failed' = file[f].failed \intersect selected'
  /\ pending' = selected' \ examined'
  /\ pc' = "loop"
  /\ UNCHANGED <<file, hand, outcome>>

\* `_write_run_file`: the payload goes to a temporary file that replaces
\* the run file, so the run file has the old payload or the new one.
Record == file' = [file EXCEPT ![at] = RunFile("readable", examined, failed)]

WriteNew ==
  /\ pc = "create"
  /\ Record
  /\ pc' = "loop"
  /\ UNCHANGED <<frame, pending, hand, examined, failed, outcome>>

-----------------------------------------------------------------------------
(* One ISIN. *)

Take(i) ==
  /\ pc = "loop"
  /\ i \in pending
  /\ hand' = i
  /\ pending' = pending \ {i}
  /\ pc' = "fetch"
  /\ UNCHANGED <<file, frame, examined, failed, outcome>>

\* Mutant: a failure is logged and not recorded.
MutFetchFailsSilently ==
  /\ pc = "fetch"
  /\ outcome' = [outcome EXCEPT ![at][hand] = "failed"]
  /\ pc' = "write"
  /\ UNCHANGED <<file, frame, pending, hand, examined, failed>>

\* `factory` or a split raises: recorded, and the loop goes on.  That the
\* ISIN is discarded from `examined` has no effect, as it was pending.
FetchFails ==
  /\ pc = "fetch"
  /\ failed' = failed \union {hand}
  /\ examined' = examined \ {hand}
  /\ outcome' = [outcome EXCEPT ![at][hand] = "failed"]
  /\ pc' = "write"
  /\ UNCHANGED <<file, frame, pending, hand>>

\* Mutant: the ISIN counts as examined once it is staged.
MutStageExamined ==
  /\ pc = "fetch"
  /\ examined' = examined \union {hand}
  /\ pc' = "flush"
  /\ UNCHANGED <<file, frame, pending, hand, failed, outcome>>

\* The splits are fetched and staged; empty or invalid ones are skipped.
FetchAndStage ==
  /\ pc = "fetch"
  /\ pc' = "flush"
  /\ UNCHANGED <<file, frame, pending, hand, examined, failed, outcome>>

\* `cache_repo.persist` and `flush_isin_registry`.
FlushStores ==
  /\ pc = "flush"
  /\ outcome' = [outcome EXCEPT ![at][hand] = "stored"]
  /\ pc' = "add"
  /\ UNCHANGED <<file, frame, pending, hand, examined, failed>>

AddExamined ==
  /\ pc = "add"
  /\ examined' = examined \union {hand}
  /\ pc' = "discard"
  /\ UNCHANGED <<file, frame, pending, hand, failed, outcome>>

DiscardFailed ==
  /\ pc = "discard"
  /\ failed' = failed \ {hand}
  /\ pc' = "write"
  /\ UNCHANGED <<file, frame, pending, hand, examined, outcome>>

WriteRunFile ==
  /\ pc = "write"
  /\ Record
  /\ pc' = "loop"
  /\ UNCHANGED <<frame, pending, hand, examined, failed, outcome>>

-----------------------------------------------------------------------------
(* The end of a run. *)

Exit(code) ==
  /\ exit' = code
  /\ pc' = "idle"
  /\ UNCHANGED <<at, selected, pending, hand, examined, failed, runs, outcome>>

\* Every pending ISIN was tried and some failed: return 1.
FinishIncomplete ==
  /\ pc = "loop"
  /\ pending = {}
  /\ failed # {}
  /\ Record
  /\ Exit("failures")

\* None failed: the run file goes, then return 0.
RemoveRunFile ==
  /\ pc = "loop"
  /\ pending = {}
  /\ failed = {}
  /\ file' = [file EXCEPT ![at] = Absent]
  /\ pc' = "done"
  /\ UNCHANGED <<frame, pending, hand, examined, failed, outcome>>

FinishComplete ==
  /\ pc = "done"
  /\ Exit("ok")
  /\ UNCHANGED file

\* Ctrl-C anywhere in the `try` ...
Interrupt ==
  /\ pc \in Guarded
  /\ pc' = "handler"
  /\ UNCHANGED <<file, frame, pending, hand, examined, failed, outcome>>

\* Mutant: the handler returns without writing.
MutHandleUnwritten ==
  /\ pc = "handler"
  /\ Exit("interrupted")
  /\ UNCHANGED file

\* ... writes the run file and returns 130.
HandleInterrupt ==
  /\ pc = "handler"
  /\ Record
  /\ Exit("interrupted")

\* The first payload cannot be written, or Ctrl-C comes before it is: the
\* new file is removed.
CreateFails ==
  /\ pc = "create"
  /\ file' = [file EXCEPT ![at] = Absent]
  /\ Exit("error")

\* A store or the run file cannot be written, a second Ctrl-C hits the
\* handler, or the process is killed: nothing is written any more.
Abort ==
  /\ pc # "idle"
  /\ Exit("error")
  /\ UNCHANGED file

Step ==
  \/ WriteNew
  \/ \E i \in Isins : Take(i)
  \/ FetchFails
  \/ FetchAndStage
  \/ FlushStores
  \/ AddExamined
  \/ DiscardFailed
  \/ WriteRunFile
  \/ FinishIncomplete
  \/ RemoveRunFile
  \/ FinishComplete
  \/ HandleInterrupt

Next ==
  \/ \E f \in Files : StartNew(f) \/ Resume(f)
  \/ Step
  \/ Interrupt
  \/ CreateFails
  \/ Abort

Spec == Init /\ [][Next]_vars

-----------------------------------------------------------------------------
(* Properties. *)

\* What a run file calls examined was fetched and stored under that file,
\* and was not tried again in vain since: a resumed run, which skips these
\* ISINs, skips none that was not curated.  A run may have been killed
\* between any two steps of an ISIN.
RunFileIsHonest ==
  \A f \in Files : Readable(f) =>
    \A i \in file[f].examined : outcome[f][i] = "stored"

\* `curated N ISIN(s)`, exit code 0: every selected ISIN was stored by some
\* run on this file, however many of them were interrupted or killed.
SuccessIsComplete ==
  exit = "ok" => \A i \in selected : outcome[at][i] = "stored"

\* Exit codes 1 and 130 tell the user to resume with the run file: it is
\* there, and holds all this run knew.
StoppedRunIsResumable ==
  exit \in {"failures", "interrupted"} =>
    file[at] = RunFile("readable", examined, failed)

\* A file that cannot be resumed from (the run died before its first
\* payload was in place) has no progress to lose.
UnreadableIsUnstarted ==
  \A f \in Files : file[f].kind = "blank" => \A i \in Isins : outcome[f][i] = "untried"

\* A run file never loses an examined ISIN that is still selected, except
\* by being removed: no run, resumed or interrupted, undoes recorded work.
ProgressIsKept ==
  [][\A f \in Files : Readable(f) /\ Readable(f)' =>
       file[f].examined \intersect selected' \subseteq file'[f].examined]_vars

=============================================================================
