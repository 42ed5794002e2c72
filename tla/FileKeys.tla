------------------------------ MODULE FileKeys -------------------------------
(***************************************************************************)
(* Which file of a draft a file name means: resolvePath, resolveWriteKey   *)
(* and selectFile of internal/core/files.go, and their use by UpdateDraft  *)
(* and DraftDiff of internal/core/service.go.                              *)
(*                                                                         *)
(* UpdateDraft writes the files of one request in Go's map order, that is  *)
(* in any order, and resolves each name against the keys there are by      *)
(* then.  Each write is a step here; the mutex keeps everybody else out    *)
(* until the last of them (DraftEdits is about the mutex).                 *)
(*                                                                         *)
(* The content of a file is the name it was sent under, so that it can be  *)
(* told whose content a key holds.  Canonicalization does not depend on    *)
(* the key.  Requests without a name, which mean the first key, write only *)
(* to a key that is there (mutateDraftFile), and are left out.             *)
(***************************************************************************)
CONSTANTS
    Paths,     \* the names requests use and the repository has
    Base,      \* Base[p] is filepath.Base(p); p is a bare name if Base[p] = p
    Committed  \* the content of a file as it is in the repository

ASSUME BaseAssumption == Base \in [Paths -> Paths] /\ \A p \in Paths : Base[Base[p]] = Base[p]
ASSUME CommittedAssumption == Committed \notin Paths

VARIABLES
    baseFiles,  \* Draft.BaseFiles
    files,      \* Draft.Files
    update,     \* the names of the latest request to UpdateDraft
    pending,    \* those of them that are not written yet
    before      \* history: Draft.Files when that request took the mutex

vars == <<baseFiles, files, update, pending, before>>

IsFileMap(m) == DOMAIN m \subseteq Paths /\ m \in [DOMAIN m -> Paths \cup {Committed}]

TypeOK ==
    /\ IsFileMap(baseFiles) /\ IsFileMap(files) /\ IsFileMap(before)
    /\ update \subseteq Paths
    /\ pending \subseteq update

\* CreateDraft: both maps are the model files of the base branch.
Init ==
    /\ \E D \in SUBSET Paths : baseFiles = [p \in D |-> Committed]
    /\ files = baseFiles
    /\ before = baseFiles
    /\ update = {} /\ pending = {}

-----------------------------------------------------------------------------

\* The keys with the basename n.
Namesakes(m, n) == {k \in DOMAIN m : Base[k] = n}

\* Mutant: no uniqueness.
AnyNamesake(m, n) == IF n \in DOMAIN m THEN {n} ELSE Namesakes(m, n)

\* The key n means, or no key: the exact path, else a unique basename.
resolvePath(m, n) ==
    IF n \in DOMAIN m THEN {n}
    ELSE {k \in Namesakes(m, n) : Namesakes(m, n) = {k}}

\* A name that means no key is the key of a new file.
resolveWriteKey(m, n) ==
    IF resolvePath(m, n) = {} THEN n ELSE CHOOSE k \in resolvePath(m, n) : TRUE

\* m after m[k] = content.
Stored(m, k, content) ==
    [j \in DOMAIN m \cup {k} |-> IF j = k THEN content ELSE m[j]]

\* Mutant: a request is counted as written before it is.
UpdateDraftLate(names) ==
    /\ pending = {}
    /\ pending' = names
    /\ update' = {} /\ before' = files
    /\ UNCHANGED <<baseFiles, files>>

\* A request with the files of names; with none it is refused.
UpdateDraft(names) ==
    /\ pending = {} /\ names # {}
    /\ pending' = names
    /\ update' = names /\ before' = files
    /\ UNCHANGED <<baseFiles, files>>

\* Mutant: the name is looked up in the base files.
WriteStale(n) ==
    /\ n \in pending
    /\ files' = Stored(files, resolveWriteKey(baseFiles, n), n)
    /\ pending' = pending \ {n}
    /\ UNCHANGED <<baseFiles, update, before>>

\* One iteration of UpdateDraft's loop.
Write(n) ==
    /\ n \in pending
    /\ files' = Stored(files, resolveWriteKey(files, n), n)
    /\ pending' = pending \ {n}
    /\ UNCHANGED <<baseFiles, update, before>>

Next ==
    \/ \E names \in SUBSET Paths : UpdateDraft(names)
    \/ \E n \in Paths : Write(n)

Spec == Init /\ [][Next]_vars

\* Mutant: the base side is looked up by basename.
DiffBaseByName(p) == resolvePath(baseFiles, Base[p])

\* DraftDiff: the file of the base side that a file of the draft is compared
\* with, if any.
DiffBase(p) == resolvePath(baseFiles, p)

-----------------------------------------------------------------------------
(* Properties.                                                             *)

\* A request that has both a bare name and a path that ends in it.
Entangled == \E m, n \in update : m # n /\ Base[m] = n

\* What a request should come to: each of its names means what it meant when
\* the request came in.
Target(n) == resolveWriteKey(before, n)

After(names) ==
    [k \in DOMAIN before \cup {Target(n) : n \in names} |->
        IF \E n \in names : Target(n) = k
        THEN CHOOSE n \in names : Target(n) = k
        ELSE before[k]]

\* UpdateDraft comes to the same files in whatever order it writes them, unless
\* the request is entangled.
Simultaneous == ~Entangled => files = After(update \ pending)

\* resolvePath: "an exact match first, else a unique basename match".  Whatever
\* else a request writes, and in whatever order, a file that was there before
\* it is only changed under its own path, or under its basename if there was no
\* file of that path and no other of that basename.
NamedOnly ==
    \A k \in DOMAIN before : files[k] # before[k] =>
        \/ k \in update
        \/ /\ Base[k] \in update \ DOMAIN before
           /\ Namesakes(before, Base[k]) = {k}

\* DraftDiff: "the same file's baseRef snapshot.  A file added in the draft has
\* no base counterpart".  That is so unless the draft has had a second file of
\* that basename added, next to the one of the base.
OwnBase ==
    \A p \in DOMAIN files :
        \/ DiffBase(p) = {p} \cap DOMAIN baseFiles
        \/ \E k \in DOMAIN files \ DOMAIN baseFiles : k # p /\ Base[k] = p
=============================================================================
