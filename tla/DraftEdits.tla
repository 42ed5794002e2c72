----------------------------- MODULE DraftEdits -----------------------------
(***************************************************************************)
(* Several clients editing one file of one draft: internal/core/patch.go,  *)
(* UpdateDraft and Propose of internal/core/service.go, and the strict     *)
(* gate of update_draft in internal/mcp/tools_draft.go.                    *)
(*                                                                         *)
(* The store's mutex is explicit.  A patch (an add or remove tool) acquires *)
(* it, reads the draft's text, splices a node, validates, writes and       *)
(* releases it, each in a step of its own.  A whole-file client (the web   *)
(* editor's PUT, an agent's update_draft) reads the text in one critical   *)
(* section and writes a text derived from it in a later one.  A proposer   *)
(* works on the copy Get returned.                                         *)
(*                                                                         *)
(* A call that is refused before it locks (unknown draft, bad arguments)   *)
(* changes nothing and is left out.                                        *)
(***************************************************************************)
EXTENDS ModelText

CONSTANTS
    Creator,     \* the client that creates the draft
    Patchers,    \* clients of the add and remove tools
    Agents,      \* clients of update_draft: whole files
    Editors,     \* web editors: PUT /files, never refused
    Proposers,   \* clients that propose the draft
    Nobody,      \* not a client: the mutex is free
    Nothing      \* not a text

Clients == {Creator} \cup Patchers \cup Agents \cup Editors \cup Proposers

ASSUME NobodyAssumption == Nobody \notin Clients
ASSUME NothingAssumption == Nothing \notin Texts

VARIABLES
    status,  \* "unborn" until Create, "gone" once swept, evicted or discarded
    file,    \* Draft.Files[path]: the text in the store
    mu,      \* Store.mu: the client that holds it, or Nobody
    pc,      \* where each client is
    text,    \* each client's own copy: the spliced model, the text it read, or
             \* the snapshot it proposes; Nothing when it has none
    pr,      \* the text of the latest pull request, or Nothing
    seen,    \* history: the text a patch in progress started from, or Nothing
    owed,    \* history: the nodes of the last whole-file write, plus and
             \* minus those of the patches acknowledged since
    frail,   \* history: the Bare and Misquoted nodes Format was given since
             \* the last whole-file write, that one included
    gated,   \* history: whether every write so far passed the strict gate
    whole    \* history: whether the latest write was of the whole file

history == <<owed, frail, gated, whole>>
vars == <<status, file, mu, pc, text, seen, pr, history>>

Stages == {"idle", "reporting", "locked", "spliced", "holding", "linting"}

TypeOK ==
    /\ status \in {"unborn", "live", "gone"}
    /\ file \in Texts
    /\ mu \in Clients \cup {Nobody}
    /\ pc \in [Clients -> Stages]
    /\ text \in [Clients -> Texts \cup {Nothing}]
    /\ seen \in [Clients -> Texts \cup {Nothing}]
    /\ owed \subseteq Names
    /\ frail \subseteq Bare \cup Misquoted
    /\ pr \in Texts \cup {Nothing}
    /\ gated \in BOOLEAN /\ whole \in BOOLEAN

Init ==
    /\ status = "unborn"
    /\ file = BaseText
    /\ mu = Nobody
    /\ pc = [c \in Clients |-> "idle"]
    /\ text = [c \in Clients |-> Nothing]
    /\ seen = [c \in Clients |-> Nothing]
    /\ owed = Base
    /\ frail = {}
    /\ pr = Nothing
    /\ gated = TRUE /\ whole = FALSE

-----------------------------------------------------------------------------

At(c, stage) == pc[c] = stage

\* c moves to stage with t as its own copy.
Go(c, stage, t) ==
    /\ pc' = [pc EXCEPT ![c] = stage]
    /\ text' = [text EXCEPT ![c] = t]

\* A critical section that is over in one step: lock, look the draft up, copy
\* or write, unlock.
Free == mu = Nobody /\ status = "live"

\* The strict gate on a write of t: no error in it, unless the client says
\* force:true.
Judged(t) ==
    \E force \in BOOLEAN :
        /\ force \/ Clean(t)
        /\ gated' = (gated /\ ~force)

\* The nodes of t that Format may not give back.
Frail(t) == IF t.broken THEN {} ELSE t.nodes \cap (Bare \cup Misquoted)

\* What is owed once a patch from before to after has been acknowledged.
OwedAfter(before, after) ==
    (owed \cup (after.nodes \ before.nodes)) \ (before.nodes \ after.nodes)

-----------------------------------------------------------------------------
(* Creating and losing the draft.                                          *)

\* Store.Create publishes the draft and hands its creator the live pointer.
Create(c) ==
    /\ status = "unborn" /\ mu = Nobody
    /\ status' = "live"
    /\ pc' = [pc EXCEPT ![c] = "reporting"]
    /\ UNCHANGED <<file, mu, text, seen, pr, history>>

\* CreateDraft lists d.Files through that pointer, after Create unlocked.
Report(c) ==
    /\ At(c, "reporting")
    /\ pc' = [pc EXCEPT ![c] = "idle"]
    /\ UNCHANGED <<status, file, mu, text, seen, pr, history>>

\* Sweep, an eviction or another client's discard_draft.
Lose ==
    /\ Free
    /\ status' = "gone"
    /\ UNCHANGED <<file, mu, pc, text, seen, pr, history>>

-----------------------------------------------------------------------------
(* A patch: mutateDraftFile, inside Store.Mutate.                          *)

\* Mutant: the edit does not take the mutex, only a note of its own.
LockAnyway(c) ==
    /\ At(c, "idle") /\ status = "live"
    /\ mu' = c
    /\ pc' = [pc EXCEPT ![c] = "locked"]
    /\ UNCHANGED <<status, file, text, seen, pr, history>>

Lock(c) ==
    /\ At(c, "idle") /\ Free
    /\ mu' = c
    /\ pc' = [pc EXCEPT ![c] = "locked"]
    /\ UNCHANGED <<status, file, text, seen, pr, history>>

\* Parse the stored bytes, add a node that is absent or remove one that is
\* present, and re-emit.
Splice(c) ==
    /\ At(c, "locked") /\ ~file.broken
    /\ \E n \in Names : Go(c, "spliced", Spliced(file, n))
    /\ seen' = [seen EXCEPT ![c] = file]
    /\ UNCHANGED <<status, file, mu, pr, history>>

\* The deferred s.mu.Unlock(), and the answer to the client.
Unlock(c) ==
    /\ Go(c, "idle", Nothing)
    /\ seen' = [seen EXCEPT ![c] = Nothing]
    /\ mu' = Nobody

\* The stored text does not parse, the node is there already or is not there,
\* or the body of the new node does not parse.
Abort(c) ==
    /\ At(c, "locked")
    /\ Unlock(c)
    /\ UNCHANGED <<status, file, pr, history>>

\* The spliced model is formatted and judged, and the result of Format stored.
Save(c) ==
    /\ \E out \in Formatted(text[c]) :
        /\ Judged(JudgedOf(text[c], out))
        /\ file' = out
    /\ owed' = OwedAfter(seen[c], text[c])
    /\ frail' = frail \cup Frail(text[c])
    /\ whole' = FALSE

\* Mutant: the mutex is not released, nor the answer sent.
StoreAndStay(c) ==
    /\ At(c, "spliced")
    /\ Save(c)
    /\ pc' = [pc EXCEPT ![c] = "stored"]
    /\ UNCHANGED <<status, mu, text, seen, pr>>

\* The strict gate, and the write.
Store(c) ==
    /\ At(c, "spliced")
    /\ Save(c)
    /\ Unlock(c)
    /\ UNCHANGED <<status, pr>>

\* A dry run, or a result with an error that is not forced.
Refuse(c) ==
    /\ At(c, "spliced")
    /\ Unlock(c)
    /\ UNCHANGED <<status, file, pr, history>>

-----------------------------------------------------------------------------
(* A whole-file edit: read the text, change the copy, write it back.       *)

Read(c) ==
    /\ At(c, "idle") /\ Free
    /\ Go(c, "holding", file)
    /\ UNCHANGED <<status, file, mu, seen, pr, history>>

\* Service.UpdateDraft with new as the file's whole text: canonicalize formats
\* what parses.
Write(c, new) ==
    /\ At(c, "holding") /\ Free
    /\ file' \in Formatted(new)
    /\ owed' = new.nodes /\ frail' = Frail(new) /\ whole' = TRUE
    /\ Go(c, "idle", Nothing)
    /\ UNCHANGED <<status, mu, seen, pr>>

\* The web editor emits the model it built from a parsed one with a copy of
\* Format (emitYaml.ts), and the server formats and stores what it gets,
\* whatever the validator says of it.
Put(c) ==
    /\ At(c, "holding") /\ ~text[c].broken
    /\ \E n \in Names : \E sent \in Formatted(Spliced(text[c], n)) : Write(c, sent)
    /\ gated' = FALSE

\* Mutant: the gate judges the draft as it is, not as it is about to be.
UpdateDraftUnjudged(c) ==
    /\ At(c, "holding")
    /\ \E new \in Texts :
        /\ Write(c, new)
        /\ Judged(text[c])

\* update_draft takes any text.  It parses and validates the text it was sent
\* first, without the mutex: what is stored is that text formatted.
UpdateDraft(c) ==
    /\ At(c, "holding")
    /\ \E new \in Texts :
        /\ Write(c, new)
        /\ Judged(new)

\* The client loses interest, or learns that the draft is gone.
GiveUp(c) ==
    /\ At(c, "holding")
    /\ Go(c, "idle", Nothing)
    /\ UNCHANGED <<status, file, mu, seen, pr, history>>

-----------------------------------------------------------------------------
(* Propose: Get a deep copy, lint the copy, hand the copy to OpenPR.       *)

Snapshot(c) ==
    /\ At(c, "idle") /\ Free
    /\ Go(c, "linting", file)
    /\ UNCHANGED <<status, file, mu, seen, pr, history>>

\* Mutant: commit the draft as it is by now, not the copy that was linted.
OpenPRLive(c) ==
    /\ At(c, "linting")
    /\ Clean(text[c])
    /\ pr' = file
    /\ Go(c, "idle", Nothing)
    /\ UNCHANGED <<status, file, mu, seen, history>>

OpenPR(c) ==
    /\ At(c, "linting")
    /\ Clean(text[c])
    /\ pr' = text[c]
    /\ Go(c, "idle", Nothing)
    /\ UNCHANGED <<status, file, mu, seen, history>>

\* The copy has a blocking diagnostic, or the host failed.
NotProposed(c) ==
    /\ At(c, "linting")
    /\ Go(c, "idle", Nothing)
    /\ UNCHANGED <<status, file, mu, seen, pr, history>>

-----------------------------------------------------------------------------

Patching(c) == Lock(c) \/ Splice(c) \/ Abort(c) \/ Store(c) \/ Refuse(c)

Next ==
    \/ Create(Creator) \/ Report(Creator)
    \/ Lose
    \/ \E c \in Patchers : Patching(c)
    \/ \E c \in Agents : Read(c) \/ UpdateDraft(c) \/ GiveUp(c)
    \/ \E c \in Editors : Read(c) \/ Put(c) \/ GiveUp(c)
    \/ \E c \in Proposers : Snapshot(c) \/ OpenPR(c) \/ NotProposed(c)

Spec == Init /\ [][Next]_vars

-----------------------------------------------------------------------------
(* Properties.                                                             *)

\* The strengthening behind the refinement: nobody is anywhere before the
\* draft exists; a client inside a patch holds the mutex of a live draft; a
\* spliced model is one splice away from what is STILL the stored text; and a
\* client with a copy has a text.
SectionInv ==
    \A c \in Clients :
        /\ status = "unborn" => At(c, "idle")
        /\ At(c, "locked") \/ At(c, "spliced") => mu = c /\ status = "live"
        /\ At(c, "spliced") =>
              /\ ~file.broken
              /\ seen[c] = file
              /\ \E n \in Names : text[c] = Spliced(file, n)
        /\ At(c, "holding") \/ At(c, "linting") => text[c] \in Texts

\* The mutex makes a patch atomic, whole-file writers, proposals and losses
\* of the draft notwithstanding: seen from outside, Store is the only step of
\* a patch and it splices one node of the text of that very moment.
Atomic == INSTANCE AtomicEdits WITH
    proposed <- [q \in Proposers |-> IF At(q, "linting") THEN text[q] ELSE Nothing]

ImplementsAtomicEdits == Atomic!Spec

\* README, "Write semantics": as long as nobody forces a write and nobody uses
\* the web editor, no interleaving of strict writes leaves an error in the
\* file (one client adds an instance of a type, another removes the type),
\* provided that Format can write down every node it was given.
StrictStaysClean == gated /\ frail = {} /\ Clean(BaseText) => Clean(file)

\* README, "Write semantics", without that provision: "a write that would
\* leave a file with an error-severity validation diagnostic [...] is refused
\* and stores nothing".
GateHolds == gated /\ Clean(BaseText) => Clean(file)

\* mutateDraftFile: "two concurrent add_* calls can no longer both read the
\* same base and blindly overwrite each other".  The text is always what the
\* patches acknowledged since the last whole-file write add up to, unless Format
\* was given a string it does not quote.  (What a whole-file write puts in the
\* place of a patch it never saw is lost.)
PatchesKept == frail \cap Misquoted = {} => file.nodes = owed

\* Propose never opens a pull request with an error in it, whatever is
\* written to the draft, forced or not, between its lint and its commit.
ProposedClean == pr # Nothing => Clean(pr)

\* Store: "a mutex-guarded, in-memory draft store".  No client goes through a
\* draft's maps without the mutex while another is about to write them.
MutexGuarded ==
    \A c \in Clients : At(c, "reporting") =>
        ~ \E other \in Clients : At(other, "spliced")
=============================================================================
