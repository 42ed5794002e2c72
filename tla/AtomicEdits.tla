---------------------------- MODULE AtomicEdits -----------------------------
(***************************************************************************)
(* What the draft editing operations of internal/core promise their        *)
(* callers, with no mutex and no intermediate step in sight: each patch    *)
(* splices one node into or out of the text the draft holds at that        *)
(* moment, each whole-file write replaces the text, either leaves it       *)
(* formatted, and what a pull request carries is a text the draft held when the proposal was made.    *)
(*                                                                         *)
(* DraftEdits is shown to implement this specification.                    *)
(***************************************************************************)
EXTENDS ModelText

CONSTANTS
    Proposers,  \* the clients that propose the draft
    Nothing     \* no text: no snapshot taken, no pull request opened

VARIABLES
    status,    \* whether the draft exists: "unborn", "live" or "gone"
    file,      \* the text of the draft's model file
    proposed,  \* per proposer, the text it is about to propose, or Nothing
    pr,        \* the text the latest pull request carries, or Nothing
    gated,     \* history: whether every write so far passed the strict gate
    whole      \* history: whether the latest write was of the whole file

history == <<gated, whole>>
vars == <<status, file, proposed, pr, history>>

TypeOK ==
    /\ status \in {"unborn", "live", "gone"}
    /\ file \in Texts
    /\ proposed \in [Proposers -> Texts \cup {Nothing}]
    /\ pr \in Texts \cup {Nothing}
    /\ gated \in BOOLEAN /\ whole \in BOOLEAN

Init ==
    /\ status = "unborn"
    /\ file = BaseText
    /\ proposed = [q \in Proposers |-> Nothing]
    /\ pr = Nothing
    /\ gated = TRUE /\ whole = FALSE

Create ==
    /\ status = "unborn"
    /\ status' = "live"
    /\ UNCHANGED <<file, proposed, pr, history>>

Lose ==
    /\ status = "live"
    /\ status' = "gone"
    /\ UNCHANGED <<file, proposed, pr, history>>

\* No error in what is judged, unless it is forced or not judged at all.
Judged(t) ==
    \E force \in BOOLEAN :
        /\ force \/ Clean(t)
        /\ gated' = (gated /\ ~force)

\* One node more or one node less than the text of this moment.
Patch ==
    /\ status = "live"
    /\ ~file.broken
    /\ file' \in Texts
    /\ \E n \in Names :
        /\ file' \in Formatted(Spliced(file, n))
        /\ Judged(JudgedOf(Spliced(file, n), file'))
    /\ whole' = FALSE
    /\ UNCHANGED <<status, proposed, pr>>

\* What is judged is the text that was sent, what is held the formatted one.
Overwrite ==
    /\ status = "live"
    /\ file' \in Texts
    /\ \E new \in Texts : file' \in Formatted(new) /\ Judged(new)
    /\ whole' = TRUE
    /\ UNCHANGED <<status, proposed, pr>>

Snapshot(q) ==
    /\ status = "live"
    /\ proposed[q] = Nothing
    /\ proposed' = [proposed EXCEPT ![q] = file]
    /\ UNCHANGED <<status, file, pr, history>>

Publish(q) ==
    /\ proposed[q] # Nothing
    /\ Clean(proposed[q])
    /\ pr' = proposed[q]
    /\ proposed' = [proposed EXCEPT ![q] = Nothing]
    /\ UNCHANGED <<status, file, history>>

Withdraw(q) ==
    /\ proposed[q] # Nothing
    /\ proposed' = [proposed EXCEPT ![q] = Nothing]
    /\ UNCHANGED <<status, file, pr, history>>

Next ==
    \/ Create
    \/ Lose
    \/ Patch
    \/ Overwrite
    \/ \E q \in Proposers : Snapshot(q) \/ Publish(q) \/ Withdraw(q)

Spec == Init /\ [][Next]_vars
=============================================================================
