------------------------------- MODULE UpdateSlot -------------------------------
(***************************************************************************)
(* What the update endpoint promises, without threads, workers or units:   *)
(* one slot, granted to numbered updates one after the other, and at most  *)
(* one verdict for each grant, given while the slot is held.               *)
(***************************************************************************)
EXTENDS Naturals

CONSTANTS MaxGrants, Verdicts, NoVerdict

VARIABLES
    slot,    \* the update that holds the slot; 0 when it is free
    granted, \* how many updates were granted the slot
    judged,  \* the holder's verdict was given
    verdict  \* the latest verdict

slotVars == <<slot, granted, judged, verdict>>

SlotInit == slot = 0 /\ granted = 0 /\ judged = FALSE /\ verdict = NoVerdict

Grant ==
    /\ slot = 0
    /\ granted < MaxGrants
    /\ granted' = granted + 1
    /\ slot' = granted + 1
    /\ UNCHANGED <<judged, verdict>>

Judge ==
    /\ slot # 0
    /\ ~judged
    /\ judged' = TRUE
    /\ verdict' \in Verdicts
    /\ UNCHANGED <<slot, granted>>

\* The holder is done, or gave up before a verdict.
Release ==
    /\ slot # 0
    /\ slot' = 0
    /\ judged' = FALSE
    /\ UNCHANGED <<granted, verdict>>

\* A new server process knows nothing of the old one's update.
Forget ==
    /\ slot' = 0
    /\ judged' = FALSE
    /\ verdict' = NoVerdict
    /\ UNCHANGED granted

SlotNext == Grant \/ Judge \/ Release \/ Forget

SlotSpec == SlotInit /\ [][SlotNext]_slotVars
=============================================================================
