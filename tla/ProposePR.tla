----------------------------- MODULE ProposePR ------------------------------
(***************************************************************************)
(* From a draft to a pull request: Service.Propose and DescribeProposeError*)
(* of internal/core/service.go, OpenPR and createPR of                     *)
(* internal/core/github.go, and the tool propose_pr of                     *)
(* internal/mcp/tools_draft.go, which also drafts inline files.            *)
(*                                                                         *)
(* OpenPR talks to the remote three times: it clones the base branch,      *)
(* pushes a branch of its own and POSTs the pull request.  Each exchange   *)
(* is a step, each may fail, and a push or a POST may take effect and fail *)
(* all the same.  In between, other calls propose, other people commit to  *)
(* the base branch, and pull requests are merged.                          *)
(*                                                                         *)
(* A commit is a number and a branch head the set of its commit and all    *)
(* ancestors of it, so one head is an ancestor of another exactly when its *)
(* set is included.  The model files of a commit or a draft are one text.  *)
(*                                                                         *)
(* External: the remote (git and the REST API) and the people who use it   *)
(* (Upstream, Merge, DeleteMerged).  They are assumed not to push to the   *)
(* branches the service pushes to.                                         *)
(***************************************************************************)
EXTENDS Naturals

CONSTANTS
    Drafters,    \* calls with a draftId, over REST or MCP
    Inliners,    \* calls of propose_pr with baseRef and files
    Texts,       \* what the model files may say
    Red,         \* the texts lintFileset finds a blocking diagnostic in
    Base,        \* the base branch of every draft
    Branches,    \* the branch names calls may ask for, Base among them
    Existing,    \* the branches the remote has at the start
    Shared,      \* the draft the Drafters propose
    MayBeEmpty,  \* whether an Inliner may pass an empty set of files
    MaxCommits   \* bound on the number of commits, for TLC

Calls == Drafters \cup Inliners

ASSUME TextsAssumption == Red \subseteq Texts /\ Texts \ Red # {}
ASSUME BranchAssumption == Base \in Existing /\ Existing \subseteq Branches
ASSUME CallsAssumption == Drafters \cap Inliners = {} /\ Shared \notin Calls
ASSUME MayBeEmptyAssumption == MayBeEmpty \in BOOLEAN
ASSUME MaxCommitsAssumption == MaxCommits \in Nat

VARIABLES
    heads,   \* the remote's branches: name -> [commits, text]
    open,    \* the branches with an open pull request
    made,    \* the number of commits made so far
    drafts,  \* Store.m: draft id -> text; an Inliner's draft has its name
    pc,      \* where each call is
    branch,  \* the branch each call asked for
    text,    \* the copy of the draft each call works on
    onto,    \* the commits of each call's local branch
    pushed,  \* history: whether the remote took a push of the call
    answer   \* what the call's last answer said

remote == <<heads, open, made>>
local == <<branch, text, onto>>
vars == <<heads, open, made, drafts, pc, branch, text, onto, pushed, answer>>

Stages == {"idle", "creating", "updating", "proposing", "cloning", "pushing", "posting"}

\* What an answer says: the URL of a pull request; GitHub's refusal to open
\* one ("The branch and commit were created"); that "pushing to the remote
\* failed"; or that the call was refused before the host was asked.
Answers == {"none", "url", "notOpened", "pushFailed", "refused"}

Commits == 0..MaxCommits

TypeOK ==
    /\ DOMAIN heads \subseteq Branches
    /\ Base \in DOMAIN heads
    /\ \A b \in DOMAIN heads : heads[b] \in [commits : SUBSET Commits, text : Texts]
    /\ open \subseteq DOMAIN heads
    /\ made \in Commits
    /\ DOMAIN drafts \subseteq {Shared} \cup Inliners
    /\ drafts \in [DOMAIN drafts -> Texts]
    /\ pc \in [Calls -> Stages]
    /\ branch \in [Calls -> Branches]
    /\ text \in [Calls -> Texts]
    /\ onto \in [Calls -> SUBSET Commits]
    /\ pushed \in [Calls -> BOOLEAN]
    /\ answer \in [Calls -> Answers]

\* A text for the places that hold none.
AnyText == CHOOSE t \in Texts : TRUE

Init ==
    /\ \E t \in Texts \ Red : heads = [b \in Existing |-> [commits |-> {0}, text |-> t]]
    /\ open = {}
    /\ made = 0
    /\ drafts \in [{Shared} -> Texts]
    /\ pc = [c \in Calls |-> "idle"]
    /\ branch = [c \in Calls |-> Base]
    /\ text = [c \in Calls |-> AnyText]
    /\ onto = [c \in Calls |-> {}]
    /\ pushed = [c \in Calls |-> FALSE]
    /\ answer = [c \in Calls |-> "none"]

-----------------------------------------------------------------------------

At(c, stage) == pc[c] = stage

Go(c, stage) == pc' = [pc EXCEPT ![c] = stage]

\* The draft a call proposes.
DraftOf(c) == IF c \in Inliners THEN c ELSE Shared

\* f after m[k] = v, and after delete(m, k).
With(f, k, v) == [i \in DOMAIN f \cup {k} |-> IF i = k THEN v ELSE f[i]]
Less(f, k) == [i \in DOMAIN f \ {k} |-> f[i]]

\* The call returns, its local clone gone.
Finish(c, said) ==
    /\ Go(c, "idle")
    /\ answer' = [answer EXCEPT ![c] = said]
    /\ branch' = [branch EXCEPT ![c] = Base]
    /\ text' = [text EXCEPT ![c] = AnyText]
    /\ onto' = [onto EXCEPT ![c] = {}]

\* Mutant: discard the inline draft after a success only.
ReturnKeeping(c, said) ==
    /\ Finish(c, said)
    /\ drafts' = IF c \in Inliners /\ said = "url" THEN Less(drafts, c) ELSE drafts

\* The call returns after the defer that discards an inline draft was set up.
Return(c, said) ==
    /\ Finish(c, said)
    /\ drafts' = IF c \in Inliners THEN Less(drafts, c) ELSE drafts

-----------------------------------------------------------------------------
(* propose_pr before it calls Propose, and POST /api/drafts/{id}/propose.  *)

Call(c, b) ==
    /\ At(c, "idle")
    /\ Go(c, IF c \in Inliners THEN "creating" ELSE "proposing")
    /\ branch' = [branch EXCEPT ![c] = b]
    /\ pushed' = [pushed EXCEPT ![c] = FALSE]
    /\ answer' = [answer EXCEPT ![c] = "none"]
    /\ UNCHANGED <<remote, drafts, text, onto>>

\* Mutant: the draft is filed under the branch's name.
CreateDraftMisfiled(c) ==
    /\ At(c, "creating")
    /\ drafts' = With(drafts, branch[c], heads[Base].text)
    /\ Go(c, "updating")
    /\ UNCHANGED <<remote, local, pushed, answer>>

\* CreateDraft: ReadTree of the base, then Store.Create.
CreateDraft(c) ==
    /\ At(c, "creating")
    /\ drafts' = With(drafts, c, heads[Base].text)
    /\ Go(c, "updating")
    /\ UNCHANGED <<remote, local, pushed, answer>>

\* No such base branch, or the host cannot be read.
CreateFails(c) ==
    /\ At(c, "creating")
    /\ Finish(c, "refused")
    /\ UNCHANGED <<remote, drafts, pushed>>

\* UpdateDraft with the inline files.
UpdateDraft(c) ==
    /\ At(c, "updating") /\ c \in DOMAIN drafts
    /\ \E t \in Texts : drafts' = [drafts EXCEPT ![c] = t]
    /\ Go(c, "proposing")
    /\ UNCHANGED <<remote, local, pushed, answer>>

\* No files were passed, or the draft is gone already.  The discard is not
\* deferred yet.
UpdateFails(c) ==
    /\ At(c, "updating")
    /\ MayBeEmpty \/ c \notin DOMAIN drafts
    /\ Finish(c, "refused")
    /\ UNCHANGED <<remote, drafts, pushed>>

-----------------------------------------------------------------------------
(* Service.Propose.                                                        *)

\* Mutant: the base branch is not refused.
AnyBranch(b) == b \in Branches

\* validateBranchName, as far as the choice of a branch goes.
ValidBranch(b) == b # Base

\* Get a copy; check the branch; lint the copy.  From here on the call works
\* on the copy.
Lint(c) ==
    /\ At(c, "proposing") /\ DraftOf(c) \in DOMAIN drafts
    /\ ValidBranch(branch[c])
    /\ drafts[DraftOf(c)] \notin Red
    /\ text' = [text EXCEPT ![c] = drafts[DraftOf(c)]]
    /\ Go(c, "cloning")
    /\ UNCHANGED <<remote, drafts, branch, onto, pushed, answer>>

\* Draft not found, invalid branch or title, or a blocking diagnostic.
Refuse(c) ==
    /\ At(c, "proposing")
    /\ Return(c, "refused")
    /\ UNCHANGED <<remote, pushed>>

-----------------------------------------------------------------------------
(* GitHubHost.OpenPR.                                                      *)

Clone(c) ==
    /\ At(c, "cloning")
    /\ onto' = [onto EXCEPT ![c] = heads[Base].commits]
    /\ Go(c, "pushing")
    /\ UNCHANGED <<remote, drafts, branch, text, pushed, answer>>

\* Mutant: the refspec has a "+".
Forced(c) == c \in Calls

\* The refspec has no "+": the remote takes the branch if it has none of that
\* name, or one the local branch descends from.
FastForward(c) ==
    branch[c] \in DOMAIN heads => heads[branch[c]].commits \subseteq onto[c]

\* Mutant: commit the draft as it is by now, not the copy that was linted.
PushLive(c) ==
    /\ At(c, "pushing") /\ made < MaxCommits
    /\ FastForward(c) /\ DraftOf(c) \in DOMAIN drafts
    /\ made' = made + 1
    /\ heads' = With(heads, branch[c],
                     [commits |-> onto[c] \cup {made + 1}, text |-> drafts[DraftOf(c)]])
    /\ pushed' = [pushed EXCEPT ![c] = TRUE]
    /\ UNCHANGED open

\* The commit and the push.
PushTo(c) ==
    /\ At(c, "pushing") /\ made < MaxCommits
    /\ FastForward(c)
    /\ made' = made + 1
    /\ heads' = With(heads, branch[c],
                     [commits |-> onto[c] \cup {made + 1}, text |-> text[c]])
    /\ pushed' = [pushed EXCEPT ![c] = TRUE]
    /\ UNCHANGED open

Push(c) ==
    /\ PushTo(c)
    /\ onto' = [onto EXCEPT ![c] = @ \cup {made + 1}]
    /\ Go(c, "posting")
    /\ UNCHANGED <<drafts, branch, text, answer>>

\* The push landed and its report was lost.
PushUnheard(c) == PushTo(c) /\ Return(c, "pushFailed")

\* Mutant: every failure of OpenPR is a PRError.
AnyFailureIsPRError(c) ==
    /\ At(c, "cloning") \/ At(c, "pushing")
    /\ Return(c, "notOpened")
    /\ UNCHANGED <<remote, pushed>>

\* The clone, the commit (of nothing new, say) or the push failed.
CloneOrPushFails(c) ==
    /\ At(c, "cloning") \/ At(c, "pushing")
    /\ Return(c, "pushFailed")
    /\ UNCHANGED <<remote, pushed>>

\* GitHub opens a pull request for a branch that has something the base has
\* not, unless it has one open already.
Openable(b) ==
    /\ b \in DOMAIN heads \ open
    /\ ~(heads[b].commits \subseteq heads[Base].commits)

\* createPR: 201 and a body with the URL, or an answer that is lost or cannot
\* be read.
Post(c) ==
    /\ At(c, "posting") /\ Openable(branch[c])
    /\ open' = open \cup {branch[c]}
    /\ Return(c, "url") \/ Return(c, "pushFailed")
    /\ UNCHANGED <<heads, made, pushed>>

\* Any other status is a PRError; a request that is not sent is not one.
PostFails(c) ==
    /\ At(c, "posting")
    /\ Return(c, "notOpened") \/ Return(c, "pushFailed")
    /\ UNCHANGED <<remote, pushed>>

-----------------------------------------------------------------------------
(* Everybody else.                                                         *)

\* Another client edits a draft, forced or not.
Edit(d) ==
    /\ d \in DOMAIN drafts
    /\ \E t \in Texts : drafts' = [drafts EXCEPT ![d] = t]
    /\ UNCHANGED <<remote, pc, local, pushed, answer>>

\* Sweep, an eviction, or another client's discard_draft.
Lose(d) ==
    /\ d \in DOMAIN drafts
    /\ drafts' = Less(drafts, d)
    /\ UNCHANGED <<remote, pc, local, pushed, answer>>

\* Somebody commits to the base branch.
Upstream ==
    /\ made < MaxCommits
    /\ made' = made + 1
    /\ \E t \in Texts \ Red :
         heads' = [heads EXCEPT ![Base] =
                      [commits |-> @.commits \cup {made + 1}, text |-> t]]
    /\ UNCHANGED <<open, drafts, pc, local, pushed, answer>>

\* A pull request is merged with a merge commit.
Merge(b) ==
    /\ b \in open /\ made < MaxCommits
    /\ made' = made + 1
    /\ heads' = [heads EXCEPT ![Base] =
                    [commits |-> @.commits \cup heads[b].commits \cup {made + 1},
                     text |-> heads[b].text]]
    /\ open' = open \ {b}
    /\ UNCHANGED <<drafts, pc, local, pushed, answer>>

\* The branch of a merged pull request is deleted.
DeleteMerged(b) ==
    /\ b \in DOMAIN heads \ (open \cup {Base})
    /\ heads[b].commits \subseteq heads[Base].commits
    /\ heads' = Less(heads, b)
    /\ UNCHANGED <<open, made, drafts, pc, local, pushed, answer>>

-----------------------------------------------------------------------------

Proposing(c) ==
    \/ Lint(c) \/ Refuse(c)
    \/ Clone(c) \/ Push(c) \/ PushUnheard(c) \/ CloneOrPushFails(c)
    \/ Post(c) \/ PostFails(c)

Next ==
    \/ \E c \in Calls : (\E b \in Branches : Call(c, b)) \/ Proposing(c)
    \/ \E c \in Inliners :
         CreateDraft(c) \/ CreateFails(c) \/ UpdateDraft(c) \/ UpdateFails(c)
    \/ \E d \in {Shared} \cup Inliners : Edit(d) \/ Lose(d)
    \/ Upstream
    \/ \E b \in Branches : Merge(b) \/ DeleteMerged(b)

Spec == Init /\ [][Next]_vars

-----------------------------------------------------------------------------
(* Properties.                                                             *)

\* OpenPR never takes a commit off a branch, whatever the branch it is told to
\* use and whoever else pushes meanwhile: a branch only ever gains commits.
NoRewrite ==
    \A b \in DOMAIN heads \cap DOMAIN heads' :
        heads[b].commits \subseteq heads'[b].commits

\* No proposal moves the branch it is based on: only merging does.
BaseUnmoved == pushed' # pushed => heads'[Base] = heads[Base]

\* Pushing is safe for everybody else who uses the repository.
SafePushes == [][NoRewrite /\ BaseUnmoved]_vars

\* Between its push and its POST a call's branch holds what the call linted,
\* on top of the base, even if other calls propose the same branch name.  So
\* that is what its pull request shows.
BranchHeld ==
    \A c \in Calls : At(c, "posting") =>
        /\ branch[c] \in DOMAIN heads \ open
        /\ heads[branch[c]] = [commits |-> onto[c], text |-> text[c]]

\* No open pull request shows a model with an error in it.
OpenIsClean == \A b \in open : heads[b].text \notin Red

\* A URL, or "The branch and commit were created, but the PR could not be
\* opened" (DescribeProposeError), is only answered when they were created; and
\* a call that is refused has left nothing on the remote.  Nothing is said of
\* the answer that pushing failed: it is also given when the answer to a push or
\* a POST that took effect is lost (service.go:583).
AnswersAreTrue ==
    \A c \in Calls :
        /\ answer[c] \in {"url", "notOpened"} => pushed[c]
        /\ answer[c] = "refused" => ~pushed[c]

\* propose_pr: "discard it on the way out so a loop of (failing or succeeding)
\* inline proposes doesn't pile up orphaned drafts in the store".
InlineDiscarded == \A c \in Inliners : At(c, "idle") => c \notin DOMAIN drafts
=============================================================================
