---------------------------- MODULE DraftEditor -----------------------------
(***************************************************************************)
(* The web editor's state: the Pinia store of ui/app/stores/draft.ts in    *)
(* one browser, and the drafts of the server it talks to.                  *)
(*                                                                         *)
(* JavaScript runs one callback at a time: what an action does up to its   *)
(* await is one step, and what it does when the promise settles another.   *)
(* In between the request is in flight: the server serves it at some       *)
(* moment, and the answer arrives at a later one.  Requests overtake each  *)
(* other.  Nothing but the controls' own `disabled` keeps the user from    *)
(* starting another action meanwhile; `mishaps` remembers whether that, or *)
(* the failure of a request, has happened.  A request whose failure the    *)
(* editor has seen may still reach the server later.                       *)
(*                                                                         *)
(* A removal offers its undoing in a toast, which saves the whole model as *)
(* it was before the removal, into whatever is selected by then.  Every    *)
(* edit of the model makes the offer: one that is no removal is one whose  *)
(* offer nobody takes, and so is one whose toast has expired.              *)
(*                                                                         *)
(* A text is the file it was first made for and the edits added since, so  *)
(* that a file that is given another file's text, or that loses an edit,   *)
(* can be told.  The editor's views (YAML, diagram, diff, diagnostics) and *)
(* the flag `loading`, which no control looks at, are left out.  Init is   *)
(* the state a successful bootstrap of pages/[[draftId]].vue leaves.       *)
(***************************************************************************)
EXTENDS Naturals

CONSTANTS
    Drafts,    \* draft ids the server may issue
    Files,     \* the model files of every draft
    Landing,   \* files[0]: the file a draft is opened at
    First,     \* the draft the editor starts with
    MaxEdits,  \* bound on the number of edits, for TLC
    MaxCalls,  \* bound on the requests in flight, for TLC
    MaxMishaps,\* bound on the number of mishaps, for TLC
    Failing,   \* the kinds of request that may fail
    Nothing    \* not a text

ASSUME LandingAssumption == Landing \in Files /\ First \in Drafts
ASSUME FailingAssumption == Failing \subseteq {"load", "put", "create", "propose"}
ASSUME BoundAssumption == MaxEdits \in Nat /\ MaxCalls \in Nat /\ MaxMishaps \in Nat

VARIABLES
    born,      \* server: the drafts it has issued
    stored,    \* server: Draft.Files of each draft
    proposed,  \* server: the files the pull request of each draft carries
    draftId, file, model, saving, frozen,  \* the store's refs of these names
    undos,     \* the offers of the toasts on show
    calls,     \* the requests in flight, by number
    stray,     \* the requests given up before the server saw them
    made,      \* history: the number of edits the user has made
    owed,      \* history: the edits each file has been acknowledged, less
               \* those the user has undone since
    undone,    \* history: the edits the user has undone
    mishaps,   \* history: what has gone otherwise than one hopes
    spent      \* history: how often

server == <<born, stored, proposed>>
store == <<draftId, file, model, saving, frozen, undos>>
network == <<calls, stray>>
ledger == <<made, owed, undone>>
mishapVars == <<mishaps, spent>>
history == <<ledger, mishapVars>>
vars == <<server, store, network, history>>

Edits == 1..MaxEdits

\* The user did not wait for an answer, or edited while an edit was being
\* saved; undid an edit with another file or draft selected, or after another
\* edit of the file; a request of some kind failed; one that had failed was
\* served all the same.
Mishaps == {"haste", "overlap", "astray", "late", "load", "put", "propose", "stray"}

TextsOf == [of : Drafts \X Files, edits : SUBSET Edits]
Fresh(d, f) == [of |-> <<d, f>>, edits |-> {}]

\* What the toast of an edit holds: the model before it.
Offer(t, n) == [text |-> t, edit |-> n]
Offers == [text : TextsOf, edit : Edits]

\* What is in flight.  A load waits for the text it got; a put and a propose
\* remember whether the server has done its part.  A save takes along what it
\* will offer when it has ended.
Load(d, f, after, offer) ==
    [kind |-> "load", draft |-> d, file |-> f, text |-> Nothing, after |-> after, offer |-> offer]
Put(d, f, t, offer) ==
    [kind |-> "put", draft |-> d, file |-> f, text |-> t, done |-> FALSE, offer |-> offer]
Proposal(d) == [kind |-> "propose", draft |-> d, done |-> FALSE]
Creation == [kind |-> "create"]

Loads == [kind : {"load"}, draft : Drafts, file : Files,
          text : TextsOf \cup {Nothing}, after : {"switch", "save"},
          offer : Offers \cup {Nothing}]
Puts == [kind : {"put"}, draft : Drafts, file : Files, text : TextsOf, done : BOOLEAN,
         offer : Offers \cup {Nothing}]
Proposals == [kind : {"propose"}, draft : Drafts, done : BOOLEAN]
Requests == Loads \cup Puts \cup Proposals \cup {Creation}

TypeOK ==
    /\ born \subseteq Drafts
    /\ stored \in [Drafts -> [Files -> TextsOf]]
    /\ proposed \in [Drafts -> [Files -> TextsOf] \cup {Nothing}]
    /\ draftId \in born /\ file \in Files
    /\ model \in TextsOf
    /\ saving \in BOOLEAN /\ frozen \in BOOLEAN
    /\ undos \subseteq Offers
    /\ stray \subseteq Puts \cup Proposals
    /\ DOMAIN calls \subseteq 1..MaxCalls
    /\ \A i \in DOMAIN calls : calls[i] \in Requests
    /\ made \in 0..MaxEdits
    /\ owed \in [Drafts \X Files -> SUBSET Edits] /\ undone \subseteq Edits
    /\ mishaps \subseteq Mishaps
    /\ spent \in 0..MaxMishaps

Init ==
    /\ born = {First}
    /\ stored = [d \in Drafts |-> [f \in Files |-> Fresh(d, f)]]
    /\ proposed = [d \in Drafts |-> Nothing]
    /\ draftId = First /\ file = Landing
    /\ model = Fresh(First, Landing)
    /\ saving = FALSE /\ frozen = FALSE
    /\ undos = {}
    /\ calls = [i \in {} |-> Nothing] /\ stray = {}
    /\ made = 0
    /\ owed = [df \in Drafts \X Files |-> {}] /\ undone = {}
    /\ mishaps = {}
    /\ spent = 0

-----------------------------------------------------------------------------

Pending == DOMAIN calls # {}

\* Send a request; drop one that is settled; let one be followed by another;
\* give one up, which the server may not have seen yet.
Send(r) ==
    \E i \in 1..MaxCalls :
        /\ i \notin DOMAIN calls /\ 1..(i - 1) \subseteq DOMAIN calls
        /\ calls' = [j \in DOMAIN calls \cup {i} |-> IF j = i THEN r ELSE calls[j]]
    /\ UNCHANGED stray

Dropped(i) == [j \in DOMAIN calls \ {i} |-> calls[j]]
Drop(i) == calls' = Dropped(i) /\ UNCHANGED stray

Follow(i, r) == calls' = [calls EXCEPT ![i] = r] /\ UNCHANGED stray

GiveUp(i) ==
    /\ calls' = Dropped(i)
    /\ stray' = IF calls[i].done THEN stray ELSE stray \cup {calls[i]}

Is(i, kind) == i \in DOMAIN calls /\ calls[i].kind = kind

Mishap(kinds) ==
    /\ spent < MaxMishaps
    /\ mishaps' = mishaps \cup kinds
    /\ spent' = spent + 1

\* The kinds of mishap that something is.
When(met, kind) == IF met THEN {kind} ELSE {}
Meets(kinds) == IF kinds = {} THEN UNCHANGED mishapVars ELSE Mishap(kinds)

\* The user acts, maybe while a request is pending.
Acts == Meets(When(Pending, "haste"))

MayFail(i, kind) == kind \in Failing /\ Is(i, kind)

-----------------------------------------------------------------------------
(* loadModel, and setFile which calls it.                                  *)

\* Mutants: the file is switched and nothing is loaded; it is switched, and
\* the file there was is loaded again.
SetFileOnly(f) ==
    /\ f # file
    /\ file' = f
    /\ Acts
    /\ UNCHANGED <<server, draftId, model, saving, frozen, undos, network, ledger>>

SetFileReload(f) ==
    /\ f # file
    /\ file' = f
    /\ Acts
    /\ Send(Load(draftId, file, "switch", Nothing))
    /\ UNCHANGED <<server, draftId, model, saving, frozen, undos, ledger>>

\* The file changes at once; the model follows when it arrives.  The file
\* selector is never disabled.
SetFile(f) ==
    /\ f # file
    /\ file' = f
    /\ Acts
    /\ Send(Load(draftId, f, "switch", Nothing))
    /\ UNCHANGED <<server, draftId, model, saving, frozen, undos, ledger>>

ServeLoad(i) ==
    /\ Is(i, "load") /\ calls[i].text = Nothing
    /\ Follow(i, [calls[i] EXCEPT !.text = stored[calls[i].draft][calls[i].file]])
    /\ UNCHANGED <<server, store, history>>

\* The end of a load is the end of the save it belongs to, if any: the
\* `finally` of saveModel.
SavingAfter(i) == IF calls[i].after = "save" THEN FALSE ELSE saving

\* The `then` of a removal shows its toast once saveModel has returned, which
\* it does when that load has failed, too.
UndosAfter(i) == undos \cup ({calls[i].offer} \ {Nothing})

\* model.value = res.model, whatever the selected file is by now.
LoadAnswered(i) ==
    /\ Is(i, "load") /\ calls[i].text # Nothing
    /\ model' = calls[i].text
    /\ saving' = SavingAfter(i) /\ undos' = UndosAfter(i)
    /\ Drop(i)
    /\ UNCHANGED <<server, draftId, file, frozen, history>>

\* Mutant: no `finally`: a load that fails leaves `saving` set.
LoadFailsSaving(i) ==
    /\ MayFail(i, "load")
    /\ Mishap({"load"})
    /\ undos' = UndosAfter(i)
    /\ Drop(i)
    /\ UNCHANGED <<server, draftId, file, model, saving, frozen, ledger>>

\* loadModel sets `error`, keeps the model and does not throw.
LoadFails(i) ==
    /\ MayFail(i, "load")
    /\ Mishap({"load"})
    /\ saving' = SavingAfter(i) /\ undos' = UndosAfter(i)
    /\ Drop(i)
    /\ UNCHANGED <<server, draftId, file, model, frozen, ledger>>

-----------------------------------------------------------------------------
(* saveModel, the edits which call it with a changed clone of model, and   *)
(* the toasts which call it with an old one.                               *)

\* t with the edit n.
Edited(t, n) == [t EXCEPT !.edits = @ \cup {n}]

\* What a save of t by the user does at once.
Save(t, offer) ==
    /\ ~frozen
    /\ saving' = TRUE
    /\ Send(Put(draftId, file, t, offer))
    /\ UNCHANGED <<server, draftId, file, model, frozen>>

SavingMishaps == When(Pending, "haste") \cup When(saving, "overlap")

\* Mutant: the copy for the toast is taken after the removal.
EditSnapshotLate ==
    /\ made < MaxEdits
    /\ made' = made + 1
    /\ Meets(SavingMishaps)
    /\ Save(Edited(model, made + 1), Offer(Edited(model, made + 1), made + 1))
    /\ UNCHANGED <<undos, owed, undone>>

\* Controls are disabled while frozen or saving; "Add instance..." and its
\* dialog, which does the same, only while frozen.
Edit ==
    /\ made < MaxEdits
    /\ made' = made + 1
    /\ Meets(SavingMishaps)
    /\ Save(Edited(model, made + 1), Offer(model, made + 1))
    /\ UNCHANGED <<undos, owed, undone>>

\* A click on Undo, which closes the toast.  It is possible at any time; while
\* the draft is frozen, saveModel throws and nothing else happens.
Undo(u) ==
    /\ u \in undos
    /\ undos' = undos \ {u}
    /\ Meets(SavingMishaps
             \cup When(u.text.of # <<draftId, file>>, "astray")
             \cup When(model # Edited(u.text, u.edit), "late"))
    /\ Save(u.text, Nothing)
    /\ owed' = [df \in Drafts \X Files |-> owed[df] \ {u.edit}]
    /\ undone' = undone \cup {u.edit}
    /\ UNCHANGED made

\* UpdateDraft.
ServePut(i) ==
    /\ Is(i, "put") /\ ~calls[i].done
    /\ stored' = [stored EXCEPT ![calls[i].draft][calls[i].file] = calls[i].text]
    /\ Follow(i, [calls[i] EXCEPT !.done = TRUE])
    /\ UNCHANGED <<born, proposed, store, history>>

\* The server has the edits of the text, and the client knows.
Acknowledge(i) ==
    owed' = [owed EXCEPT ![<<calls[i].draft, calls[i].file>>] = @ \cup calls[i].text.edits]

\* Mutant: the local model is not re-fetched after a save.
PutAnsweredDone(i) ==
    /\ Is(i, "put") /\ calls[i].done
    /\ Acknowledge(i)
    /\ saving' = FALSE /\ undos' = UndosAfter(i)
    /\ Drop(i)
    /\ UNCHANGED <<server, draftId, file, model, frozen, made, undone, mishapVars>>

\* The server has acknowledged the edits of the text, among them the new one;
\* loadModel re-fetches whatever is selected by now.
PutAnswered(i) ==
    /\ Is(i, "put") /\ calls[i].done
    /\ Acknowledge(i)
    /\ Follow(i, Load(draftId, file, "save", calls[i].offer))
    /\ UNCHANGED <<server, store, made, undone, mishapVars>>

\* saveModel throws, and nothing is offered; the draft may have changed all the
\* same, or may change later.
PutFails(i) ==
    /\ MayFail(i, "put")
    /\ Mishap({"put"})
    /\ saving' = FALSE
    /\ GiveUp(i)
    /\ UNCHANGED <<server, draftId, file, model, frozen, undos, ledger>>

-----------------------------------------------------------------------------
(* switchBranch, which is createDraft with another base.                   *)

SwitchBranch ==
    /\ born # Drafts
    /\ Acts
    /\ Send(Creation)
    /\ UNCHANGED <<server, store, ledger>>

\* Mutant: the new draft is filed under an id that is not on record.
CreateUnrecorded(i) ==
    /\ Is(i, "create")
    /\ \E d \in Drafts \ born :
        /\ draftId' = d /\ file' = Landing
        /\ Follow(i, Load(d, Landing, "switch", Nothing))
    /\ UNCHANGED <<server, model, saving, frozen, undos, history>>

\* `frozen` stays as it is.
CreateAnswered(i) ==
    /\ Is(i, "create")
    /\ \E d \in Drafts \ born :
        /\ born' = born \cup {d}
        /\ draftId' = d /\ file' = Landing
        /\ Follow(i, Load(d, Landing, "switch", Nothing))
    /\ UNCHANGED <<stored, proposed, model, saving, frozen, undos, history>>

\* No such branch (or, for TLC, no more draft ids): the current draft stays.
CreateFails(i) ==
    /\ MayFail(i, "create") \/ (Is(i, "create") /\ born = Drafts)
    /\ Drop(i)
    /\ UNCHANGED <<server, store, history>>

-----------------------------------------------------------------------------
(* propose.                                                                *)

Propose ==
    /\ ~frozen
    /\ Acts
    /\ Send(Proposal(draftId))
    /\ UNCHANGED <<server, store, ledger>>

ServePropose(i) ==
    /\ Is(i, "propose") /\ ~calls[i].done
    /\ proposed' = [proposed EXCEPT ![calls[i].draft] = stored[calls[i].draft]]
    /\ Follow(i, [calls[i] EXCEPT !.done = TRUE])
    /\ UNCHANGED <<born, stored, store, history>>

\* Mutant: a proposed draft is not frozen.
ProposeAnsweredOpen(i) ==
    /\ Is(i, "propose") /\ calls[i].done
    /\ Drop(i)
    /\ UNCHANGED <<server, store, history>>

ProposeAnswered(i) ==
    /\ Is(i, "propose") /\ calls[i].done
    /\ frozen' = TRUE
    /\ Drop(i)
    /\ UNCHANGED <<server, draftId, file, model, saving, undos, history>>

\* A blocking diagnostic, a host failure, a lost answer.
ProposeFails(i) ==
    /\ MayFail(i, "propose")
    /\ Mishap({"propose"})
    /\ GiveUp(i)
    /\ UNCHANGED <<server, store, ledger>>

-----------------------------------------------------------------------------
(* A request that was given up reaches the server all the same.            *)

ServeStray(r) ==
    /\ r \in stray
    /\ stray' = stray \ {r}
    /\ IF r.kind = "put"
       THEN /\ stored' = [stored EXCEPT ![r.draft][r.file] = r.text]
            /\ UNCHANGED proposed
       ELSE /\ proposed' = [proposed EXCEPT ![r.draft] = stored[r.draft]]
            /\ UNCHANGED stored
    /\ mishaps' = mishaps \cup {"stray"}
    /\ UNCHANGED <<born, store, calls, ledger, spent>>

-----------------------------------------------------------------------------

Serve(i) == ServeLoad(i) \/ ServePut(i) \/ ServePropose(i)

Answer(i) ==
    \/ LoadAnswered(i) \/ LoadFails(i)
    \/ PutAnswered(i) \/ PutFails(i)
    \/ CreateAnswered(i) \/ CreateFails(i)
    \/ ProposeAnswered(i) \/ ProposeFails(i)

Next ==
    \/ \E f \in Files : SetFile(f)
    \/ Edit
    \/ \E u \in undos : Undo(u)
    \/ SwitchBranch
    \/ Propose
    \/ \E i \in 1..MaxCalls : Serve(i) \/ Answer(i)
    \/ \E r \in stray : ServeStray(r)

Spec == Init /\ [][Next]_vars

-----------------------------------------------------------------------------
(* Properties.                                                             *)

\* setFile: "Switch the active model file and refresh every view derived from
\* it".  Once every answer is in, the editor shows what the server holds of
\* the selected file.
ShownIsStored == ~Pending => model = stored[draftId][file]

Without(kinds) == mishaps \cap kinds = {}

\* It does for a user who waits for the answers, as long as no save and no
\* load fails.
PatientSeesStored == Without({"haste", "load", "put"}) => ShownIsStored

\* No save of a patient user ever stores one file's text, or one draft's, as
\* another's, whichever saves and proposals fail, and whenever those that
\* failed are served, unless an edit is undone with another file or draft
\* selected.
OwnText ==
    Without({"haste", "load", "astray"}) =>
        \A d \in Drafts, f \in Files : stored[d][f].of = <<d, f>>

\* An edit the server has acknowledged is never lost to a later one of the
\* same user, whichever saves and proposals fail, until the user undoes it,
\* undoes one that came before it, or a save that failed is served late.
OwnEditsKept ==
    Without({"haste", "load", "astray", "late", "stray"}) =>
        \A d \in Drafts, f \in Files : owed[<<d, f>>] \subseteq stored[d][f].edits

\* memberstable.nuxt.test.ts: "removing a member shows an Undo toast that
\* restores it".  Once every answer is in, no file has an edit that a patient
\* user has undone, as long as no save and no load fails.
UndoRestores ==
    ~Pending /\ Without({"haste", "load", "put"}) =>
        \A d \in Drafts, f \in Files : stored[d][f].edits \cap undone = {}

\* It is so for a user who undoes an edit in its own file and before the next.
TimelyUndoRestores == Without({"astray", "late"}) => UndoRestores

\* What has been proposed is not edited any more, so the pull request shows
\* all of the draft, whichever loads and saves fail, unless a save that failed
\* is served late.
ProposedIsFinal ==
    Without({"haste", "propose", "stray"}) =>
        \A d \in Drafts : proposed[d] \in {Nothing, stored[d]}

\* A save is under way: its PUT, or the load that follows it.
InSave(i) == Is(i, "put") \/ (Is(i, "load") /\ calls[i].after = "save")

\* `saving`: "True while a saveModel round-trip is in flight": no failure leaves
\* the controls disabled for ever, and, as long as no two saves overlap, no
\* switch of file or branch in the middle of one enables them too soon,
\* however hasty the user.
SavingIsTrue ==
    /\ saving => \E i \in DOMAIN calls : InSave(i)
    /\ Without({"overlap"}) => \A i \in DOMAIN calls : InSave(i) => saving
=============================================================================
