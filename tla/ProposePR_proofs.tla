-------------------------- MODULE ProposePR_proofs ---------------------------
(***************************************************************************)
(* Proofs about ProposePR, for all sets of calls, branches and texts.      *)
(*                                                                         *)
(* The argument is about commits that a branch has to itself.  A push of a *)
(* proposal puts a new commit on its branch, and nothing but the merge of  *)
(* the branch's own pull request takes that commit to another branch.  A   *)
(* later push to the same branch comes from a clone of the base, so it is  *)
(* no fast-forward as long as the base has not got the commit: what is     *)
(* pushed stays as it is until its pull request is merged.                 *)
(***************************************************************************)
EXTENDS ProposePR, TLAPS

USE DEF Calls

-----------------------------------------------------------------------------
(* The helpers.                                                            *)

\* m[k] = v.
LEMMA WithDef ==
    ASSUME NEW f, NEW k, NEW v
    PROVE  /\ DOMAIN With(f, k, v) = DOMAIN f \cup {k}
           /\ With(f, k, v)[k] = v
           /\ \A i \in DOMAIN f \ {k} : With(f, k, v)[i] = f[i]
BY DEF With

\* delete(m, k).
LEMMA LessDef ==
    ASSUME NEW f, NEW k
    PROVE  /\ DOMAIN Less(f, k) = DOMAIN f \ {k}
           /\ \A i \in DOMAIN f \ {k} : Less(f, k)[i] = f[i]
BY DEF Less

\* Both keep a map of texts one.
LEMMA MapKept ==
    ASSUME NEW f, NEW k, NEW v \in Texts, f \in [DOMAIN f -> Texts]
    PROVE  /\ With(f, k, v) \in [DOMAIN With(f, k, v) -> Texts]
           /\ Less(f, k) \in [DOMAIN Less(f, k) -> Texts]
BY DEF With, Less

\* There is a text.
LEMMA SomeText == AnyText \in Texts
BY TextsAssumption DEF AnyText

-----------------------------------------------------------------------------
(* Types.                                                                  *)

RemoteOK ==
    /\ DOMAIN heads \subseteq Branches /\ Base \in DOMAIN heads
    /\ \A b \in DOMAIN heads : heads[b] \in [commits : SUBSET Commits, text : Texts]
    /\ open \subseteq DOMAIN heads
    /\ made \in Commits
DraftsOK ==
    /\ DOMAIN drafts \subseteq {Shared} \cup Inliners
    /\ drafts \in [DOMAIN drafts -> Texts]
CallsOK ==
    /\ pc \in [Calls -> Stages]
    /\ branch \in [Calls -> Branches]
    /\ text \in [Calls -> Texts]
    /\ onto \in [Calls -> SUBSET Commits]
    /\ pushed \in [Calls -> BOOLEAN]
    /\ answer \in [Calls -> Answers]

\* The three parts of the type invariant.
LEMMA TypeParts == TypeOK <=> RemoteOK /\ DraftsOK /\ CallsOK
BY DEF TypeOK, RemoteOK, DraftsOK, CallsOK

\* A call that returns leaves nothing odd behind.
LEMMA Finished ==
    ASSUME CallsOK, NEW c \in Calls, NEW said \in Answers, Finish(c, said),
           pushed' \in [Calls -> BOOLEAN]
    PROVE  CallsOK'
<1>1. Base \in Branches
    BY BranchAssumption
<1>2. "idle" \in Stages
    BY DEF Stages
<1>3. pc' \in [Calls -> Stages] /\ branch' \in [Calls -> Branches]
    BY <1>1, <1>2 DEF CallsOK, Finish, Go
<1>4. text' \in [Calls -> Texts] /\ onto' \in [Calls -> SUBSET Commits]
    BY SomeText DEF CallsOK, Finish
<1>5. answer' \in [Calls -> Answers]
    BY DEF CallsOK, Finish
<1> QED BY <1>3, <1>4, <1>5 DEF CallsOK

\* ... nor does one that discards its draft.
LEMMA Returned ==
    ASSUME DraftsOK, CallsOK, NEW c \in Calls, NEW said \in Answers, Return(c, said),
           pushed' \in [Calls -> BOOLEAN]
    PROVE  DraftsOK' /\ CallsOK'
<1>1. CallsOK'
    BY Finished DEF Return
<1>2. drafts' = drafts \/ drafts' = Less(drafts, c)
    BY DEF Return
<1>3. DraftsOK'
    <2>1. CASE drafts' = drafts
        BY <2>1 DEF DraftsOK
    <2>2. CASE drafts' = Less(drafts, c)
        BY <2>2, LessDef, MapKept, SomeText DEF DraftsOK
    <2> QED BY <1>2, <2>1, <2>2
<1> QED BY <1>1, <1>3

\* A push that the remote takes.
LEMMA PushedOK ==
    ASSUME TypeOK, NEW c \in Calls, PushTo(c)
    PROVE  RemoteOK' /\ pushed' \in [Calls -> BOOLEAN] /\ made + 1 \in Commits
<1>1. RemoteOK /\ CallsOK
    BY TypeParts
<1>2. made + 1 \in Commits
    BY <1>1, MaxCommitsAssumption DEF PushTo, RemoteOK, Commits
<1>3. pushed' \in [Calls -> BOOLEAN]
    BY <1>1 DEF PushTo, CallsOK
<1>4. RemoteOK'
    <2> DEFINE h == [commits |-> onto[c] \cup {made + 1}, text |-> text[c]]
    <2>1. h \in [commits : SUBSET Commits, text : Texts] /\ branch[c] \in Branches
        BY <1>1, <1>2 DEF CallsOK
    <2>2. heads' = With(heads, branch[c], h) /\ open' = open /\ made' = made + 1
        BY DEF PushTo
    <2> HIDE DEF h
    <2>3. DOMAIN heads' = DOMAIN heads \cup {branch[c]}
        BY <2>2 DEF With
    <2>4. \A b \in DOMAIN heads' : heads'[b] \in [commits : SUBSET Commits, text : Texts]
        BY <1>1, <2>1, <2>2, <2>3 DEF RemoteOK, With
    <2> QED BY <1>1, <1>2, <2>1, <2>2, <2>3, <2>4 DEF RemoteOK
<1> QED BY <1>2, <1>3, <1>4

\* The steps of a proposal keep the types.
LEMMA ProposingTypeKept ==
    ASSUME TypeOK, NEW c \in Calls, Proposing(c)
    PROVE  TypeOK'
<1>0. RemoteOK /\ DraftsOK /\ CallsOK
    BY TypeParts
<1> SUFFICES RemoteOK' /\ DraftsOK' /\ CallsOK'
    BY TypeParts, PTL
<1>1. {"cloning", "pushing", "posting"} \subseteq Stages
    BY DEF Stages
<1>2. {"url", "notOpened", "pushFailed", "refused"} \subseteq Answers
    BY DEF Answers
<1>3. CASE Lint(c)
    <2>1. drafts[DraftOf(c)] \in Texts
        BY <1>0, <1>3 DEF Lint, DraftsOK
    <2>2. RemoteOK' /\ DraftsOK'
        BY <1>0, <1>3 DEF Lint, remote, RemoteOK, DraftsOK
    <2>3. CallsOK'
        BY <1>0, <1>1, <1>3, <2>1 DEF Lint, CallsOK, Go
    <2> QED BY <2>2, <2>3
<1>4. CASE Refuse(c)
    <2>1. RemoteOK' /\ pushed' \in [Calls -> BOOLEAN]
        BY <1>0, <1>4 DEF Refuse, remote, RemoteOK, CallsOK
    <2> QED BY <1>0, <1>2, <1>4, <2>1, Returned DEF Refuse
<1>5. CASE Clone(c)
    <2>1. heads[Base].commits \in SUBSET Commits
        BY <1>0 DEF RemoteOK
    <2>2. RemoteOK' /\ DraftsOK'
        BY <1>0, <1>5 DEF Clone, remote, RemoteOK, DraftsOK
    <2>3. CallsOK'
        BY <1>0, <1>1, <1>5, <2>1 DEF Clone, CallsOK, Go
    <2> QED BY <2>2, <2>3
<1>6. CASE Push(c)
    <2>1. RemoteOK' /\ pushed' \in [Calls -> BOOLEAN] /\ made + 1 \in Commits
        BY <1>6, PushedOK DEF Push
    <2>2. DraftsOK'
        BY <1>0, <1>6 DEF Push, DraftsOK
    <2>3. onto' \in [Calls -> SUBSET Commits]
        BY <1>0, <1>6, <2>1 DEF Push, CallsOK
    <2>4. pc' \in [Calls -> Stages]
        BY <1>0, <1>1, <1>6 DEF Push, CallsOK, Go
    <2>5. UNCHANGED <<branch, text, answer>>
        BY <1>6 DEF Push
    <2> QED BY <1>0, <2>1, <2>2, <2>3, <2>4, <2>5 DEF CallsOK
<1>7. CASE PushUnheard(c)
    <2>1. RemoteOK' /\ pushed' \in [Calls -> BOOLEAN]
        BY <1>7, PushedOK DEF PushUnheard
    <2> QED BY <1>0, <1>2, <1>7, <2>1, Returned DEF PushUnheard
<1>8. CASE CloneOrPushFails(c)
    <2>1. RemoteOK' /\ pushed' \in [Calls -> BOOLEAN]
        BY <1>0, <1>8 DEF CloneOrPushFails, remote, RemoteOK, CallsOK
    <2> QED BY <1>0, <1>2, <1>8, <2>1, Returned DEF CloneOrPushFails
<1>9. CASE Post(c)
    <2>1. RemoteOK' /\ pushed' \in [Calls -> BOOLEAN]
        BY <1>0, <1>9 DEF Post, Openable, RemoteOK, CallsOK
    <2>2. Return(c, "url") \/ Return(c, "pushFailed")
        BY <1>9 DEF Post
    <2> QED BY <1>0, <1>2, <2>1, <2>2, Returned
<1>10. CASE PostFails(c)
    <2>1. RemoteOK' /\ pushed' \in [Calls -> BOOLEAN]
        BY <1>0, <1>10 DEF PostFails, remote, RemoteOK, CallsOK
    <2>2. Return(c, "notOpened") \/ Return(c, "pushFailed")
        BY <1>10 DEF PostFails
    <2> QED BY <1>0, <1>2, <2>1, <2>2, Returned
<1> QED BY <1>3, <1>4, <1>5, <1>6, <1>7, <1>8, <1>9, <1>10 DEF Proposing

\* So do the steps before it.
LEMMA CallingTypeKept ==
    ASSUME TypeOK, NEW c \in Calls,
           \/ \E b \in Branches : Call(c, b)
           \/ c \in Inliners /\ (CreateDraft(c) \/ CreateFails(c) \/ UpdateDraft(c) \/ UpdateFails(c))
    PROVE  TypeOK'
<1>0. RemoteOK /\ DraftsOK /\ CallsOK
    BY TypeParts
<1> SUFFICES RemoteOK' /\ DraftsOK' /\ CallsOK'
    BY TypeParts, PTL
<1>1. {"creating", "updating", "proposing"} \subseteq Stages /\ {"none", "refused"} \subseteq Answers
    BY DEF Stages, Answers
<1>2. ASSUME NEW b \in Branches, Call(c, b) PROVE RemoteOK' /\ DraftsOK' /\ CallsOK'
    <2>1. RemoteOK' /\ DraftsOK'
        BY <1>0, <1>2 DEF Call, remote, RemoteOK, DraftsOK
    <2>2. CallsOK'
        BY <1>0, <1>1, <1>2 DEF Call, CallsOK, Go
    <2> QED BY <2>1, <2>2
<1>3. CASE c \in Inliners /\ CreateDraft(c)
    <2>1. heads[Base].text \in Texts
        BY <1>0 DEF RemoteOK
    <2>2. RemoteOK'
        BY <1>0, <1>3 DEF CreateDraft, remote, RemoteOK
    <2>3. DraftsOK'
        <3>1. drafts' = With(drafts, c, heads[Base].text)
            BY <1>3 DEF CreateDraft
        <3> QED BY <1>0, <1>3, <2>1, <3>1 DEF DraftsOK, With
    <2>4. CallsOK'
        BY <1>0, <1>1, <1>3 DEF CreateDraft, local, CallsOK, Go
    <2> QED BY <2>2, <2>3, <2>4
<1>4. CASE CreateFails(c)
    <2>1. RemoteOK' /\ DraftsOK' /\ pushed' \in [Calls -> BOOLEAN]
        BY <1>0, <1>4 DEF CreateFails, remote, RemoteOK, DraftsOK, CallsOK
    <2> QED BY <1>0, <1>1, <1>4, <2>1, Finished DEF CreateFails
<1>5. CASE UpdateDraft(c)
    <2>1. RemoteOK' /\ DraftsOK'
        BY <1>0, <1>5 DEF UpdateDraft, remote, RemoteOK, DraftsOK
    <2>2. CallsOK'
        BY <1>0, <1>1, <1>5 DEF UpdateDraft, local, CallsOK, Go
    <2> QED BY <2>1, <2>2
<1>6. CASE UpdateFails(c)
    <2>1. RemoteOK' /\ DraftsOK' /\ pushed' \in [Calls -> BOOLEAN]
        BY <1>0, <1>6 DEF UpdateFails, remote, RemoteOK, DraftsOK, CallsOK
    <2> QED BY <1>0, <1>1, <1>6, <2>1, Finished DEF UpdateFails
<1> QED BY <1>2, <1>3, <1>4, <1>5, <1>6

\* And so do the others.
LEMMA TypeKept ==
    ASSUME TypeOK, [Next]_vars
    PROVE  TypeOK'
<1>0. RemoteOK /\ DraftsOK /\ CallsOK
    BY TypeParts
<1> SUFFICES ASSUME RemoteOK' /\ DraftsOK' /\ CallsOK' => TypeOK'
             PROVE  TypeOK'
    BY TypeParts, PTL
<1>1. CASE UNCHANGED vars
    BY <1>0, <1>1 DEF vars, remote, local, RemoteOK, DraftsOK, CallsOK
<1>2. ASSUME NEW d \in {Shared} \cup Inliners, Edit(d) PROVE TypeOK'
    BY <1>0, <1>2 DEF Edit, remote, local, RemoteOK, DraftsOK, CallsOK
<1>3. ASSUME NEW d \in {Shared} \cup Inliners, Lose(d) PROVE TypeOK'
    <2>1. DraftsOK'
        BY <1>0, <1>3 DEF Lose, DraftsOK, Less
    <2> QED BY <1>0, <1>3, <2>1 DEF Lose, remote, local, RemoteOK, CallsOK
<1>4. CASE Upstream
    <2>1. DraftsOK' /\ CallsOK'
        BY <1>0, <1>4 DEF Upstream, local, DraftsOK, CallsOK
    <2>2. made' \in Commits
        BY <1>0, <1>4, MaxCommitsAssumption DEF Upstream, RemoteOK, Commits
    <2>3. RemoteOK'
        BY <1>0, <1>4, <2>2 DEF Upstream, RemoteOK
    <2> QED BY <2>1, <2>3
<1>5. ASSUME NEW b \in Branches, Merge(b) PROVE TypeOK'
    <2>1. DraftsOK' /\ CallsOK'
        BY <1>0, <1>5 DEF Merge, local, DraftsOK, CallsOK
    <2>2. made' \in Commits
        BY <1>0, <1>5, MaxCommitsAssumption DEF Merge, RemoteOK, Commits
    <2>3. RemoteOK'
        BY <1>0, <1>5, <2>2 DEF Merge, RemoteOK
    <2> QED BY <2>1, <2>3
<1>6. ASSUME NEW b \in Branches, DeleteMerged(b) PROVE TypeOK'
    <2>1. DraftsOK' /\ CallsOK'
        BY <1>0, <1>6 DEF DeleteMerged, local, DraftsOK, CallsOK
    <2>2. RemoteOK'
        BY <1>0, <1>6 DEF DeleteMerged, RemoteOK, Less
    <2> QED BY <2>1, <2>2
<1> QED BY <1>1, <1>2, <1>3, <1>4, <1>5, <1>6, ProposingTypeKept, CallingTypeKept DEF Next

\* The first state.
LEMMA TypeInit == Init => TypeOK
<1> SUFFICES ASSUME Init PROVE TypeOK
    OBVIOUS
<1>1. RemoteOK
    BY BranchAssumption, MaxCommitsAssumption DEF Init, RemoteOK, Commits
<1>2. DraftsOK
    BY DEF Init, DraftsOK
<1>3. CallsOK
    BY SomeText, BranchAssumption DEF Init, CallsOK, Stages, Answers
<1> QED BY <1>1, <1>2, <1>3, TypeParts

\* Every map, set and stage is what its name says.
THEOREM TypeCorrect == Spec => []TypeOK
<1>1. TypeOK /\ [Next]_vars => TypeOK'
    BY TypeKept
<1> QED BY TypeInit, <1>1, PTL DEF Spec

-----------------------------------------------------------------------------
(* What a call has been told, and what it has got.                         *)

Told(c) ==
    /\ pc[c] # "idle" => answer[c] = "none"
    /\ pc[c] \in {"creating", "updating", "proposing", "cloning", "pushing"} => ~pushed[c]
    /\ pc[c] = "posting" => pushed[c]
    /\ answer[c] \in {"url", "notOpened"} => pushed[c]
    /\ answer[c] = "refused" => ~pushed[c]

\* A call's answers follow from its own steps.
LEMMA ToldByOwnSteps ==
    ASSUME CallsOK, NEW c \in Calls, Told(c),
           \/ \E b \in Branches : Call(c, b)
           \/ c \in Inliners /\ (CreateDraft(c) \/ CreateFails(c) \/ UpdateDraft(c) \/ UpdateFails(c))
           \/ Proposing(c)
    PROVE  Told(c)'
<1>1. ASSUME NEW b \in Branches, Call(c, b) PROVE Told(c)'
    BY <1>1 DEF Call, Go, At, Told, CallsOK
<1>2. CASE CreateDraft(c) \/ UpdateDraft(c)
    BY <1>2 DEF CreateDraft, UpdateDraft, Go, At, Told, CallsOK
<1>3. CASE CreateFails(c) \/ UpdateFails(c)
    BY <1>3 DEF CreateFails, UpdateFails, Finish, Go, At, Told, CallsOK
<1>4. CASE Lint(c) \/ Clone(c)
    BY <1>4 DEF Lint, Clone, Go, At, Told, CallsOK
<1>5. CASE Refuse(c) \/ CloneOrPushFails(c) \/ PostFails(c)
    BY <1>5 DEF Refuse, CloneOrPushFails, PostFails, Return, Finish, Go, At, Told, CallsOK
<1>6. CASE Push(c)
    BY <1>6 DEF Push, PushTo, Go, At, Told, CallsOK
<1>7. CASE PushUnheard(c)
    BY <1>7 DEF PushUnheard, PushTo, Return, Finish, Go, At, Told, CallsOK
<1>8. CASE Post(c)
    BY <1>8 DEF Post, Return, Finish, Go, At, Told, CallsOK
<1> QED BY <1>1, <1>2, <1>3, <1>4, <1>5, <1>6, <1>7, <1>8 DEF Proposing

\* What a call reads and writes of itself.
Mine(c) == <<pc[c], branch[c], text[c], onto[c], pushed[c], answer[c]>>

\* A step of one call leaves the others where they are.
LEMMA OthersUnmoved ==
    ASSUME CallsOK, NEW c \in Calls, NEW d \in Calls, c # d,
           \/ \E b \in Branches : Call(c, b)
           \/ c \in Inliners /\ (CreateDraft(c) \/ CreateFails(c) \/ UpdateDraft(c) \/ UpdateFails(c))
           \/ Proposing(c)
    PROVE  Mine(d)' = Mine(d)
<1>1. ASSUME NEW b \in Branches, Call(c, b) PROVE Mine(d)' = Mine(d)
    BY <1>1 DEF Call, Go, Mine, CallsOK
<1>2. CASE CreateDraft(c) \/ UpdateDraft(c)
    BY <1>2 DEF CreateDraft, UpdateDraft, local, Go, Mine, CallsOK
<1>3. CASE CreateFails(c) \/ UpdateFails(c)
    BY <1>3 DEF CreateFails, UpdateFails, Finish, Go, Mine, CallsOK
<1>4. CASE Lint(c) \/ Clone(c)
    BY <1>4 DEF Lint, Clone, Go, Mine, CallsOK
<1>5. CASE Refuse(c) \/ CloneOrPushFails(c) \/ PostFails(c)
    BY <1>5 DEF Refuse, CloneOrPushFails, PostFails, Return, Finish, Go, Mine, CallsOK
<1>6. CASE Push(c)
    BY <1>6 DEF Push, PushTo, Go, Mine, CallsOK
<1>7. CASE PushUnheard(c)
    BY <1>7 DEF PushUnheard, PushTo, Return, Finish, Go, Mine, CallsOK
<1>8. CASE Post(c)
    BY <1>8 DEF Post, Return, Finish, Go, Mine, CallsOK
<1> QED BY <1>1, <1>2, <1>3, <1>4, <1>5, <1>6, <1>7, <1>8 DEF Proposing

\* The steps of nobody's call, and those of a call c.
OthersStep ==
    \/ UNCHANGED vars
    \/ \E d \in {Shared} \cup Inliners : Edit(d) \/ Lose(d)
    \/ Upstream
    \/ \E b \in Branches : Merge(b) \/ DeleteMerged(b)
CallStep(c) ==
    \/ \E b \in Branches : Call(c, b)
    \/ c \in Inliners /\ (CreateDraft(c) \/ CreateFails(c) \/ UpdateDraft(c) \/ UpdateFails(c))
    \/ Proposing(c)

\* There are no others.
LEMMA Steps == ASSUME [Next]_vars PROVE OthersStep \/ \E c \in Calls : CallStep(c)
BY DEF Next, OthersStep, CallStep

\* Nobody else touches a call.
LEMMA CallsUnmoved ==
    ASSUME OthersStep
    PROVE  UNCHANGED <<pc, branch, text, onto, pushed, answer>>
BY DEF OthersStep, Edit, Lose, Upstream, Merge, DeleteMerged, vars, local, remote

\* Answers are true.
LEMMA ToldKept ==
    ASSUME TypeOK, \A c \in Calls : Told(c), [Next]_vars
    PROVE  \A c \in Calls : Told(c)'
<1>0. CallsOK
    BY TypeParts
<1>1. CASE OthersStep
    BY <1>1, CallsUnmoved DEF Told
<1>2. ASSUME NEW c \in Calls, CallStep(c) PROVE \A d \in Calls : Told(d)'
    <2>1. Told(c)'
        BY <1>0, <1>2, ToldByOwnSteps DEF CallStep
    <2>2. ASSUME NEW d \in Calls, c # d PROVE Told(d)'
        <3>1. Mine(d)' = Mine(d)
            BY <1>0, <1>2, <2>2, OthersUnmoved DEF CallStep
        <3> QED BY <3>1 DEF Mine, Told
    <2> QED BY <2>1, <2>2
<1> QED BY <1>1, <1>2, Steps

\* A call that is given a URL or told that its branch and commit were created
\* has pushed, and one that is refused has not.
THEOREM TruthfulAnswers == Spec => []AnswersAreTrue
<1> DEFINE J == TypeOK /\ \A c \in Calls : Told(c)
<1>1. Init => J
    <2> SUFFICES ASSUME Init PROVE J
        OBVIOUS
    <2>1. \A c \in Calls : Told(c)
        BY DEF Init, Told
    <2> QED BY <2>1, TypeInit
<1>2. J /\ [Next]_vars => J'
    BY TypeKept, ToldKept
<1>3. J => AnswersAreTrue
    BY DEF Told, AnswersAreTrue
<1> QED BY <1>1, <1>2, <1>3, PTL DEF Spec

-----------------------------------------------------------------------------
(* The commits a branch has to itself.                                     *)

Within ==
    /\ \A b \in DOMAIN heads : heads[b].commits \subseteq 0..made
    /\ \A c \in Calls : onto[c] \subseteq 0..made

\* A call works on a clone of the base, for another branch, with a text that
\* passed the linter.
Cloned(c) ==
    /\ pc[c] \in {"cloning", "pushing", "posting"} => branch[c] # Base /\ text[c] \notin Red
    /\ pc[c] = "pushing" => onto[c] \subseteq heads[Base].commits

\* With the heads h, b has a commit that no other branch has.
Own(h, b) ==
    \E k \in h[b].commits : \A b2 \in DOMAIN h \ {b} : k \notin h[b2].commits

Pushed(c) == [commits |-> onto[c], text |-> text[c]]

Held ==
    /\ \A c \in Calls : At(c, "posting") =>
        /\ branch[c] \in DOMAIN heads \ open
        /\ heads[branch[c]] = Pushed(c)
        /\ Own(heads, branch[c])
    /\ \A c, d \in Calls :
        At(c, "posting") /\ At(d, "posting") /\ branch[c] = branch[d] => c = d
    /\ \A b \in open : b # Base /\ Own(heads, b) /\ heads[b].text \notin Red

IInv == TypeOK /\ Within /\ (\A c \in Calls : Cloned(c)) /\ Held

\* A branch with a commit of its own does not take a push of what was cloned
\* from the base.
LEMMA NoPushOnOwn ==
    ASSUME TypeOK, NEW c \in Calls, Cloned(c), At(c, "pushing"), FastForward(c),
           NEW b \in DOMAIN heads, b # Base, Own(heads, b)
    PROVE  b # branch[c]
<1>1. PICK k \in heads[b].commits : \A b2 \in DOMAIN heads \ {b} : k \notin heads[b2].commits
    BY DEF Own
<1>2. k \notin heads[Base].commits
    BY <1>1, TypeParts DEF RemoteOK
<1>3. onto[c] \subseteq heads[Base].commits
    BY DEF Cloned, At
<1> QED BY <1>1, <1>2, <1>3 DEF FastForward

\* A branch keeps its own commit while other branches only gain a new commit
\* and what other branches had.
LEMMA OwnKept ==
    ASSUME TypeOK, Within, NEW b \in DOMAIN heads, Own(heads, b),
           b \in DOMAIN heads', heads'[b] = heads[b],
           \A b2 \in DOMAIN heads' \ {b} : \A k \in heads'[b2].commits :
               \/ k = made + 1
               \/ \E b3 \in DOMAIN heads \ {b} : k \in heads[b3].commits
    PROVE  Own(heads', b)
<1>1. PICK k \in heads[b].commits : \A b2 \in DOMAIN heads \ {b} : k \notin heads[b2].commits
    BY DEF Own
<1>2. k \in 0..made /\ made \in Nat
    BY MaxCommitsAssumption, TypeParts DEF Within, RemoteOK, Commits
<1>3. k # made + 1
    BY <1>2
<1>4. \A b2 \in DOMAIN heads' \ {b} : k \notin heads'[b2].commits
    BY <1>1, <1>3
<1> QED BY <1>1, <1>4 DEF Own

\* What the remote has after a push.
LEMMA AfterPush ==
    ASSUME TypeOK, NEW c \in Calls, PushTo(c)
    PROVE  /\ DOMAIN heads' = DOMAIN heads \cup {branch[c]}
           /\ heads'[branch[c]] = [commits |-> onto[c] \cup {made + 1}, text |-> text[c]]
           /\ \A b \in DOMAIN heads \ {branch[c]} : heads'[b] = heads[b]
           /\ open' = open /\ made' = made + 1
           /\ pc[c] = "pushing" /\ FastForward(c)
BY DEF PushTo, With, At

\* A push takes no other branch's own commit.
LEMMA OwnAfterPush ==
    ASSUME IInv, NEW c \in Calls, PushTo(c), NEW b \in DOMAIN heads, b # Base, Own(heads, b)
    PROVE  b # branch[c] /\ Own(heads', b) /\ heads'[b] = heads[b]
<1>1. TypeOK /\ Within /\ Cloned(c)
    BY DEF IInv
<1>2. b # branch[c]
    BY <1>1, AfterPush, NoPushOnOwn DEF At
<1>3. b \in DOMAIN heads' /\ heads'[b] = heads[b]
    BY <1>1, <1>2, AfterPush
<1>4. ASSUME NEW b2 \in DOMAIN heads' \ {b}, NEW k \in heads'[b2].commits
      PROVE  k = made + 1 \/ \E b3 \in DOMAIN heads \ {b} : k \in heads[b3].commits
    <2>1. CASE b2 = branch[c]
        <3>1. heads'[branch[c]] = [commits |-> onto[c] \cup {made + 1}, text |-> text[c]]
            BY <1>1, AfterPush
        <3>2. heads'[branch[c]].commits = onto[c] \cup {made + 1}
            BY <3>1
        <3>3. k \in onto[c] \cup {made + 1}
            BY <1>4, <2>1, <3>2
        <3>4. onto[c] \subseteq heads[Base].commits /\ Base \in DOMAIN heads \ {b}
            BY <1>1, AfterPush, TypeParts DEF Cloned, RemoteOK
        <3> QED BY <3>3, <3>4
    <2>2. CASE b2 # branch[c]
        <3>1. DOMAIN heads' = DOMAIN heads \cup {branch[c]}
            BY <1>1, AfterPush
        <3>2. b2 \in DOMAIN heads \ {branch[c]}
            BY <1>4, <2>2, <3>1
        <3>3. heads'[b2] = heads[b2]
            BY <1>1, <3>2, AfterPush
        <3> QED BY <1>4, <3>2, <3>3
    <2> QED BY <2>1, <2>2
<1>5. Own(heads', b)
    BY <1>1, <1>3, <1>4, OwnKept
<1> QED BY <1>2, <1>3, <1>5

-----------------------------------------------------------------------------

\* A call that does not push or post.
QuietStep(c) ==
    \/ \E b \in Branches : Call(c, b)
    \/ c \in Inliners /\ (CreateDraft(c) \/ CreateFails(c) \/ UpdateDraft(c) \/ UpdateFails(c))
    \/ Lint(c) \/ Refuse(c) \/ Clone(c) \/ CloneOrPushFails(c) \/ PostFails(c)

\* It leaves the remote as it is.
LEMMA QuietRemote ==
    ASSUME NEW c \in Calls, QuietStep(c)
    PROVE  UNCHANGED <<heads, open, made>>
BY DEF QuietStep, Call, CreateDraft, CreateFails, UpdateDraft, UpdateFails, Lint, Refuse, Clone,
       CloneOrPushFails, PostFails, remote

\* It does not get to "posting", and clones the base.
LEMMA QuietCall ==
    ASSUME TypeOK, NEW c \in Calls, QuietStep(c), Cloned(c)
    PROVE  Cloned(c)' /\ pc'[c] # "posting" /\ onto'[c] \in {onto[c], {}, heads[Base].commits}
<1>0. CallsOK /\ UNCHANGED heads
    BY TypeParts, QuietRemote
<1>1. ASSUME NEW b \in Branches, Call(c, b) PROVE Cloned(c)' /\ pc'[c] # "posting" /\ onto'[c] = onto[c]
    BY <1>0, <1>1 DEF Call, Go, At, Cloned, CallsOK
<1>2. CASE CreateDraft(c) \/ UpdateDraft(c)
    BY <1>0, <1>2 DEF CreateDraft, UpdateDraft, local, Go, At, Cloned, CallsOK
<1>3. CASE CreateFails(c) \/ UpdateFails(c)
    BY <1>0, <1>3 DEF CreateFails, UpdateFails, Finish, Go, At, Cloned, CallsOK
<1>4. CASE Lint(c)
    BY <1>0, <1>4 DEF Lint, ValidBranch, Go, At, Cloned, CallsOK
<1>5. CASE Clone(c)
    BY <1>0, <1>5 DEF Clone, Go, At, Cloned, CallsOK
<1>6. CASE Refuse(c) \/ CloneOrPushFails(c) \/ PostFails(c)
    BY <1>0, <1>6 DEF Refuse, CloneOrPushFails, PostFails, Return, Finish, Go, At, Cloned, CallsOK
<1> QED BY <1>1, <1>2, <1>3, <1>4, <1>5, <1>6 DEF QuietStep

\* The other calls are where they were.
LEMMA QuietOthers ==
    ASSUME TypeOK, NEW c \in Calls, QuietStep(c), NEW d \in Calls, d # c
    PROVE  Mine(d)' = Mine(d)
BY TypeParts, OthersUnmoved DEF QuietStep, Proposing

\* So it keeps the invariant.
LEMMA QuietKeeps ==
    ASSUME IInv, NEW c \in Calls, QuietStep(c)
    PROVE  Within' /\ (\A d \in Calls : Cloned(d)') /\ Held'
<1>0. TypeOK /\ RemoteOK /\ Within /\ Held /\ Cloned(c) /\ UNCHANGED <<heads, open, made>>
    BY QuietRemote, TypeParts DEF IInv
<1>1. Cloned(c)' /\ pc'[c] # "posting" /\ onto'[c] \in {onto[c], {}, heads[Base].commits}
    BY <1>0, QuietCall
<1>2. \A d \in Calls \ {c} : Mine(d)' = Mine(d)
    BY <1>0, QuietOthers
<1>3. \A d \in Calls \ {c} : /\ pc'[d] = pc[d] /\ branch'[d] = branch[d]
                             /\ text'[d] = text[d] /\ onto'[d] = onto[d]
    BY <1>2 DEF Mine
<1>4. Within'
    <2>1. \A d \in Calls : onto'[d] \subseteq 0..made
        BY <1>0, <1>1, <1>3 DEF Within, RemoteOK
    <2> QED BY <1>0, <2>1 DEF Within
<1>5. ASSUME NEW d \in Calls, d # c PROVE Cloned(d)'
    BY <1>0, <1>3, <1>5 DEF IInv, Cloned
<1>6. \A b \in DOMAIN heads : Own(heads', b) <=> Own(heads, b)
    BY <1>0 DEF Own
<1>7. Held'
    <2>1. ASSUME NEW d \in Calls, At(d, "posting")'
          PROVE  d # c /\ At(d, "posting") /\ branch'[d] = branch[d] /\ Pushed(d)' = Pushed(d)
        BY <1>1, <1>3, <2>1 DEF At, Pushed
    <2>2. ASSUME NEW d \in Calls, At(d, "posting")'
          PROVE  /\ branch'[d] \in DOMAIN heads' \ open'
                 /\ heads'[branch'[d]] = Pushed(d)' /\ Own(heads', branch'[d])
        BY <1>0, <1>6, <2>1, <2>2 DEF Held
    <2>3. ASSUME NEW d \in Calls, NEW e \in Calls, At(d, "posting")', At(e, "posting")',
                 branch'[d] = branch'[e]
          PROVE  d = e
        BY <1>0, <2>1, <2>3 DEF Held
    <2>4. ASSUME NEW b \in open' PROVE b # Base /\ Own(heads', b) /\ heads'[b].text \notin Red
        BY <1>0, <1>6, <2>4 DEF Held, RemoteOK
    <2> QED BY <2>2, <2>3, <2>4 DEF Held
<1> QED BY <1>1, <1>4, <1>5, <1>7

-----------------------------------------------------------------------------

\* Between two states, the invariant is kept as far as the calls but c and the
\* branches but c's go.
KeptBut(c) ==
    /\ \A b \in DOMAIN heads' : heads'[b].commits \subseteq 0..made'
    /\ \A d \in Calls \ {c} : onto'[d] \subseteq 0..made' /\ Cloned(d)'
    /\ \A d \in Calls \ {c} : At(d, "posting")' =>
         /\ At(d, "posting") /\ branch'[d] = branch[d] /\ branch'[d] # branch[c]
         /\ branch'[d] \in DOMAIN heads' \ open'
         /\ heads'[branch'[d]] = Pushed(d)' /\ Own(heads', branch'[d])
    /\ \A b \in open' :
         b # Base /\ b # branch[c] /\ Own(heads', b) /\ heads'[b].text \notin Red

\* What any push leaves: every open branch is as it was, and every call but
\* the one that pushes finds its branch as it was.
LEMMA PushKeeps ==
    ASSUME IInv, NEW c \in Calls, PushTo(c),
           \A d \in Calls \ {c} : Mine(d)' = Mine(d)
    PROVE  KeptBut(c)
<1>0. TypeOK /\ RemoteOK /\ CallsOK /\ Within /\ Held /\ \A d \in Calls : Cloned(d)
    BY TypeParts DEF IInv
<1>1. /\ DOMAIN heads' = DOMAIN heads \cup {branch[c]}
      /\ heads'[branch[c]] = [commits |-> onto[c] \cup {made + 1}, text |-> text[c]]
      /\ \A b \in DOMAIN heads \ {branch[c]} : heads'[b] = heads[b]
      /\ open' = open /\ made' = made + 1 /\ pc[c] = "pushing"
    BY <1>0, AfterPush
<1>2. made \in Nat /\ 0..made \subseteq 0..made' /\ made' \in 0..made'
    BY <1>0, <1>1, MaxCommitsAssumption DEF RemoteOK, Commits
<1>3. \A d \in Calls \ {c} : /\ pc'[d] = pc[d] /\ branch'[d] = branch[d]
                             /\ text'[d] = text[d] /\ onto'[d] = onto[d]
    BY DEF Mine
<1>4. branch[c] # Base /\ heads'[Base] = heads[Base]
    BY <1>0, <1>1 DEF Cloned, RemoteOK
<1>5. ASSUME NEW b \in DOMAIN heads' PROVE heads'[b].commits \subseteq 0..made'
    <2>1. CASE b = branch[c]
        <3>1. heads'[b].commits = onto[c] \cup {made + 1}
            BY <1>1, <2>1
        <3> QED BY <1>0, <1>1, <1>2, <3>1 DEF Within
    <2>2. CASE b # branch[c]
        <3>1. b \in DOMAIN heads /\ heads'[b] = heads[b]
            BY <1>1, <1>5, <2>2
        <3> QED BY <1>0, <1>2, <3>1 DEF Within
    <2> QED BY <2>1, <2>2
<1>6. ASSUME NEW d \in Calls \ {c} PROVE onto'[d] \subseteq 0..made' /\ Cloned(d)'
    <2>1. onto'[d] \subseteq 0..made'
        BY <1>0, <1>2, <1>3 DEF Within
    <2>2. Cloned(d)'
        BY <1>0, <1>3, <1>4 DEF Cloned
    <2> QED BY <2>1, <2>2
<1>7. ASSUME NEW d \in Calls \ {c}, At(d, "posting")'
      PROVE  /\ At(d, "posting") /\ branch'[d] = branch[d] /\ branch'[d] # branch[c]
             /\ branch'[d] \in DOMAIN heads' \ open'
             /\ heads'[branch'[d]] = Pushed(d)' /\ Own(heads', branch'[d])
    <2>1. At(d, "posting") /\ branch'[d] = branch[d] /\ Pushed(d)' = Pushed(d)
        BY <1>3, <1>7 DEF At, Pushed
    <2>2. /\ branch[d] \in DOMAIN heads \ open /\ heads[branch[d]] = Pushed(d)
          /\ Own(heads, branch[d])
        BY <1>0, <2>1 DEF Held
    <2>3. branch[d] # Base
        BY <1>0, <2>1 DEF Cloned, At
    <2>4. branch[d] # branch[c] /\ Own(heads', branch[d]) /\ heads'[branch[d]] = heads[branch[d]]
        BY <2>2, <2>3, OwnAfterPush
    <2> QED BY <1>1, <2>1, <2>2, <2>4
<1>8. ASSUME NEW b \in open'
      PROVE  b # Base /\ b # branch[c] /\ Own(heads', b) /\ heads'[b].text \notin Red
    <2>1. b \in DOMAIN heads /\ b # Base /\ Own(heads, b) /\ heads[b].text \notin Red
        BY <1>0, <1>1, <1>8 DEF Held, RemoteOK
    <2>2. b # branch[c] /\ Own(heads', b) /\ heads'[b] = heads[b]
        BY <2>1, OwnAfterPush
    <2> QED BY <2>1, <2>2
<1> QED BY <1>5, <1>6, <1>7, <1>8 DEF KeptBut

\* A push that is heard gives the branch a commit of its own.
LEMMA NewIsOwn ==
    ASSUME IInv, NEW c \in Calls, PushTo(c)
    PROVE  Own(heads', branch[c])
<1>0. TypeOK /\ RemoteOK /\ Within
    BY TypeParts DEF IInv
<1>1. heads'[branch[c]] = [commits |-> onto[c] \cup {made + 1}, text |-> text[c]]
    BY <1>0, AfterPush
<1>2. made + 1 \in heads'[branch[c]].commits
    BY <1>1
<1>3. ASSUME NEW b \in DOMAIN heads' \ {branch[c]} PROVE made + 1 \notin heads'[b].commits
    <2>1. DOMAIN heads' = DOMAIN heads \cup {branch[c]}
        BY <1>0, AfterPush
    <2>2. b \in DOMAIN heads \ {branch[c]}
        BY <1>3, <2>1
    <2>3. heads'[b] = heads[b]
        BY <1>0, <2>2, AfterPush
    <2>4. made \in Nat
        BY <1>0, MaxCommitsAssumption DEF RemoteOK, Commits
    <2> QED BY <1>0, <2>2, <2>3, <2>4 DEF Within
<1> QED BY <1>2, <1>3 DEF Own

\* The push of a call that goes on to its POST keeps the invariant.
LEMMA PushHeardKeeps ==
    ASSUME IInv, NEW c \in Calls, Push(c)
    PROVE  Within' /\ (\A d \in Calls : Cloned(d)') /\ Held'
<1>0. TypeOK /\ RemoteOK /\ CallsOK /\ Within /\ Held /\ Cloned(c) /\ PushTo(c)
    BY TypeParts DEF IInv, Push
<1>1. \A d \in Calls \ {c} : Mine(d)' = Mine(d)
    BY <1>0, OthersUnmoved DEF Proposing
<1>2. /\ pc'[c] = "posting" /\ branch'[c] = branch[c] /\ text'[c] = text[c]
      /\ onto'[c] = onto[c] \cup {made + 1} /\ pc[c] = "pushing"
    BY <1>0 DEF Push, PushTo, Go, At, CallsOK
<1>3. /\ heads'[branch[c]] = [commits |-> onto[c] \cup {made + 1}, text |-> text[c]]
      /\ branch[c] \in DOMAIN heads' /\ open' = open /\ made' = made + 1
    BY <1>0, AfterPush
<1>4. KeptBut(c)
    BY <1>0, <1>1, PushKeeps
<1>5. Within'
    <2>1. made \in Nat /\ onto[c] \subseteq 0..made
        BY <1>0, MaxCommitsAssumption DEF Within, RemoteOK, Commits
    <2>2. onto'[c] \subseteq 0..made'
        BY <1>2, <1>3, <2>1
    <2> QED BY <1>4, <2>2 DEF Within, KeptBut
<1>6. Cloned(c)'
    BY <1>0, <1>2 DEF Cloned
<1>7. /\ branch'[c] \in DOMAIN heads' \ open' /\ heads'[branch'[c]] = Pushed(c)'
      /\ Own(heads', branch'[c])
    <2>1. branch[c] \notin open'
        BY <1>4 DEF KeptBut
    <2>2. Own(heads', branch[c])
        BY <1>0, NewIsOwn
    <2> QED BY <1>2, <1>3, <2>1, <2>2 DEF Pushed
<1>8. ASSUME NEW d \in Calls, NEW e \in Calls, At(d, "posting")', At(e, "posting")',
             branch'[d] = branch'[e]
      PROVE  d = e
    <2>1. CASE d # c /\ e # c
        BY <1>0, <1>4, <1>8, <2>1 DEF Held, KeptBut
    <2>2. CASE d = c \/ e = c
        BY <1>2, <1>4, <1>8, <2>2 DEF KeptBut
    <2> QED BY <2>1, <2>2
<1>9. Held'
    BY <1>4, <1>7, <1>8 DEF Held, KeptBut
<1> QED BY <1>4, <1>5, <1>6, <1>9 DEF KeptBut

\* So does one whose report is lost.
LEMMA PushUnheardKeeps ==
    ASSUME IInv, NEW c \in Calls, PushUnheard(c)
    PROVE  Within' /\ (\A d \in Calls : Cloned(d)') /\ Held'
<1>0. TypeOK /\ RemoteOK /\ CallsOK /\ Within /\ Held /\ PushTo(c)
    BY TypeParts DEF IInv, PushUnheard
<1>1. \A d \in Calls \ {c} : Mine(d)' = Mine(d)
    BY <1>0, OthersUnmoved DEF Proposing
<1>2. pc'[c] = "idle" /\ onto'[c] = {}
    BY <1>0 DEF PushUnheard, Return, Finish, Go, CallsOK
<1>4. KeptBut(c)
    BY <1>0, <1>1, PushKeeps
<1>5. Within'
    <2>1. \A d \in Calls : onto'[d] \subseteq 0..made'
        BY <1>2, <1>4 DEF KeptBut
    <2> QED BY <1>4, <2>1 DEF Within, KeptBut
<1>6. Cloned(c)'
    BY <1>2 DEF Cloned
<1>7. ~At(c, "posting")'
    BY <1>2 DEF At
<1>8. ASSUME NEW d \in Calls, NEW e \in Calls, At(d, "posting")', At(e, "posting")',
             branch'[d] = branch'[e]
      PROVE  d = e
    BY <1>0, <1>4, <1>7, <1>8 DEF Held, KeptBut
<1>9. Held'
    BY <1>4, <1>7, <1>8 DEF Held, KeptBut
<1> QED BY <1>4, <1>5, <1>6, <1>9 DEF KeptBut

\* A pull request is opened for a branch that holds what was linted.
LEMMA PostKeeps ==
    ASSUME IInv, NEW c \in Calls, Post(c)
    PROVE  Within' /\ (\A d \in Calls : Cloned(d)') /\ Held'
<1>0. TypeOK /\ RemoteOK /\ CallsOK /\ Within /\ Held /\ \A d \in Calls : Cloned(d)
    BY TypeParts DEF IInv
<1>1. \A d \in Calls \ {c} : Mine(d)' = Mine(d)
    BY <1>0, OthersUnmoved DEF Proposing
<1>2. \A d \in Calls \ {c} : /\ pc'[d] = pc[d] /\ branch'[d] = branch[d]
                             /\ text'[d] = text[d] /\ onto'[d] = onto[d]
    BY <1>1 DEF Mine
<1>3. /\ pc[c] = "posting" /\ pc'[c] = "idle" /\ onto'[c] = {}
      /\ heads' = heads /\ made' = made /\ open' = open \cup {branch[c]}
    BY <1>0 DEF Post, Return, Finish, Go, At, CallsOK
<1>4. Within'
    <2>1. \A d \in Calls : onto'[d] \subseteq 0..made'
        BY <1>0, <1>2, <1>3 DEF Within
    <2> QED BY <1>0, <1>3, <2>1 DEF Within
<1>5. ASSUME NEW d \in Calls PROVE Cloned(d)'
    BY <1>0, <1>2, <1>3 DEF Cloned
<1>6. ASSUME NEW d \in Calls, At(d, "posting")'
      PROVE  d # c /\ At(d, "posting") /\ branch'[d] = branch[d] /\ Pushed(d)' = Pushed(d)
    BY <1>2, <1>3, <1>6 DEF At, Pushed
<1>7. ASSUME NEW d \in Calls, At(d, "posting")'
      PROVE  /\ branch'[d] \in DOMAIN heads' \ open'
             /\ heads'[branch'[d]] = Pushed(d)' /\ Own(heads', branch'[d])
    <2>1. branch[d] # branch[c]
        BY <1>0, <1>3, <1>6, <1>7 DEF Held, At
    <2> QED BY <1>0, <1>3, <1>6, <1>7, <2>1 DEF Held
<1>8. ASSUME NEW d \in Calls, NEW e \in Calls, At(d, "posting")', At(e, "posting")',
             branch'[d] = branch'[e]
      PROVE  d = e
    BY <1>0, <1>6, <1>8 DEF Held
<1>9. ASSUME NEW b \in open' PROVE b # Base /\ Own(heads', b) /\ heads'[b].text \notin Red
    <2>1. CASE b \in open
        BY <1>0, <1>3, <2>1 DEF Held
    <2>2. CASE b = branch[c]
        <3>1. heads[b] = [commits |-> onto[c], text |-> text[c]] /\ Own(heads, b)
            BY <1>0, <1>3, <2>2 DEF Held, Pushed, At
        <3>2. heads[b].text = text[c]
            BY <3>1
        <3> QED BY <1>0, <1>3, <2>2, <3>1, <3>2 DEF Cloned
    <2> QED BY <1>3, <1>9, <2>1, <2>2
<1> QED BY <1>4, <1>5, <1>7, <1>8, <1>9 DEF Held

-----------------------------------------------------------------------------

\* Commits that reach the base, from a merge or from somebody else, leave
\* every branch but the merged one its own commit.
LEMMA BaseGains ==
    ASSUME IInv, NEW m \in DOMAIN heads,
           \/ m = Base
           \/ m \in open,
           DOMAIN heads' = DOMAIN heads,
           \A b \in DOMAIN heads \ {Base} : heads'[b] = heads[b],
           heads'[Base].commits = heads[Base].commits \cup heads[m].commits \cup {made + 1},
           made' = made + 1, open' = open \ {m},
           UNCHANGED <<pc, branch, text, onto>>
    PROVE  Within' /\ (\A d \in Calls : Cloned(d)') /\ Held'
<1>0. TypeOK /\ RemoteOK /\ Within /\ Held /\ \A d \in Calls : Cloned(d)
    BY TypeParts DEF IInv
<1>1. made \in Nat /\ 0..made \subseteq 0..made' /\ made' \in 0..made'
    BY <1>0, MaxCommitsAssumption DEF RemoteOK, Commits
<1>2. Within'
    <2>1. heads'[Base].commits \subseteq 0..made'
        BY <1>0, <1>1 DEF Within, RemoteOK
    <2>2. \A b \in DOMAIN heads' : heads'[b].commits \subseteq 0..made'
        BY <1>0, <1>1, <2>1 DEF Within
    <2> QED BY <1>0, <1>1, <2>2 DEF Within
<1>3. ASSUME NEW d \in Calls PROVE Cloned(d)'
    BY <1>0 DEF Cloned
<1>4. ASSUME NEW b \in DOMAIN heads \ {Base, m}, Own(heads, b) PROVE Own(heads', b)
    <2>1. ASSUME NEW b2 \in DOMAIN heads' \ {b}, NEW k \in heads'[b2].commits
          PROVE  k = made + 1 \/ \E b3 \in DOMAIN heads \ {b} : k \in heads[b3].commits
        <3>1. CASE b2 = Base
            <4>1. k = made + 1 \/ k \in heads[Base].commits \/ k \in heads[m].commits
                BY <2>1, <3>1
            <4>2. Base \in DOMAIN heads \ {b} /\ m \in DOMAIN heads \ {b}
                BY <1>0, <1>4 DEF RemoteOK
            <4> QED BY <4>1, <4>2
        <3>2. CASE b2 # Base
            BY <2>1, <3>2
        <3> QED BY <3>1, <3>2
    <2>2. b \in DOMAIN heads' /\ heads'[b] = heads[b]
        BY <1>4
    <2> QED BY <1>0, <1>4, <2>1, <2>2, OwnKept
<1>5. ASSUME NEW d \in Calls, At(d, "posting")'
      PROVE  /\ At(d, "posting") /\ branch'[d] = branch[d]
             /\ branch'[d] \in DOMAIN heads' \ open'
             /\ heads'[branch'[d]] = Pushed(d)' /\ Own(heads', branch'[d])
    <2>1. At(d, "posting") /\ branch'[d] = branch[d] /\ Pushed(d)' = Pushed(d)
        BY <1>5 DEF At, Pushed
    <2>2. branch[d] \in DOMAIN heads \ open /\ heads[branch[d]] = Pushed(d) /\ Own(heads, branch[d])
        BY <1>0, <2>1 DEF Held
    <2>3. branch[d] # Base
        BY <1>0, <2>1 DEF Cloned, At
    <2>4. branch[d] # m
        BY <2>2, <2>3
    <2> QED BY <1>4, <2>1, <2>2, <2>3, <2>4
<1>6. ASSUME NEW d \in Calls, NEW e \in Calls, At(d, "posting")', At(e, "posting")',
             branch'[d] = branch'[e]
      PROVE  d = e
    BY <1>0, <1>5, <1>6 DEF Held
<1>7. ASSUME NEW b \in open' PROVE b # Base /\ Own(heads', b) /\ heads'[b].text \notin Red
    <2>1. b \in open /\ b # m /\ b \in DOMAIN heads
        BY <1>0, <1>7 DEF RemoteOK
    <2>2. b # Base /\ Own(heads, b) /\ heads[b].text \notin Red
        BY <1>0, <2>1 DEF Held
    <2> QED BY <1>4, <2>1, <2>2
<1> QED BY <1>2, <1>3, <1>5, <1>6, <1>7 DEF Held

\* A branch that is deleted has no commit of its own.
LEMMA DeleteKeeps ==
    ASSUME IInv, NEW m \in Branches, DeleteMerged(m)
    PROVE  Within' /\ (\A d \in Calls : Cloned(d)') /\ Held'
<1>0. TypeOK /\ RemoteOK /\ Within /\ Held /\ \A d \in Calls : Cloned(d)
    BY TypeParts DEF IInv
<1>1. /\ m \in DOMAIN heads \ (open \cup {Base})
      /\ heads[m].commits \subseteq heads[Base].commits
      /\ DOMAIN heads' = DOMAIN heads \ {m}
      /\ \A b \in DOMAIN heads' : heads'[b] = heads[b]
      /\ UNCHANGED <<open, made, pc, branch, text, onto>>
    BY DEF DeleteMerged, Less, local
<1>2. ~Own(heads, m)
    BY <1>0, <1>1 DEF Own, RemoteOK
<1>3. Within'
    BY <1>0, <1>1 DEF Within
<1>4. ASSUME NEW d \in Calls PROVE Cloned(d)'
    BY <1>0, <1>1 DEF Cloned, RemoteOK
<1>5. ASSUME NEW b \in DOMAIN heads', Own(heads, b) PROVE Own(heads', b)
    BY <1>1, <1>5 DEF Own
<1>6. ASSUME NEW d \in Calls, At(d, "posting")'
      PROVE  /\ At(d, "posting") /\ branch'[d] = branch[d]
             /\ branch'[d] \in DOMAIN heads' \ open'
             /\ heads'[branch'[d]] = Pushed(d)' /\ Own(heads', branch'[d])
    <2>1. At(d, "posting") /\ branch'[d] = branch[d] /\ Pushed(d)' = Pushed(d)
        BY <1>1, <1>6 DEF At, Pushed
    <2>2. branch[d] \in DOMAIN heads \ open /\ heads[branch[d]] = Pushed(d) /\ Own(heads, branch[d])
        BY <1>0, <2>1 DEF Held
    <2>3. branch[d] \in DOMAIN heads'
        BY <1>1, <1>2, <2>2
    <2> QED BY <1>1, <1>5, <2>1, <2>2, <2>3
<1>7. ASSUME NEW d \in Calls, NEW e \in Calls, At(d, "posting")', At(e, "posting")',
             branch'[d] = branch'[e]
      PROVE  d = e
    BY <1>0, <1>6, <1>7 DEF Held
<1>8. ASSUME NEW b \in open' PROVE b # Base /\ Own(heads', b) /\ heads'[b].text \notin Red
    BY <1>0, <1>1, <1>5, <1>8 DEF Held, RemoteOK
<1> QED BY <1>3, <1>4, <1>6, <1>7, <1>8 DEF Held

\* What everybody else does keeps the invariant.
LEMMA OthersKeep ==
    ASSUME IInv, OthersStep
    PROVE  Within' /\ (\A d \in Calls : Cloned(d)') /\ Held'
<1>0. TypeOK /\ RemoteOK /\ Within /\ Held /\ \A d \in Calls : Cloned(d)
    BY TypeParts DEF IInv
<1>1. ASSUME UNCHANGED <<heads, open, made>>
      PROVE  Within' /\ (\A d \in Calls : Cloned(d)') /\ Held'
    <2>1. UNCHANGED <<pc, branch, text, onto>>
        BY CallsUnmoved
    <2>2. Within' /\ \A d \in Calls : Cloned(d)'
        BY <1>0, <1>1, <2>1 DEF Within, Cloned
    <2>3. Held'
        BY <1>0, <1>1, <2>1 DEF Held, At, Pushed
    <2> QED BY <2>2, <2>3
<1>2. CASE UNCHANGED vars
    BY <1>1, <1>2 DEF vars, remote
<1>3. ASSUME NEW d \in {Shared} \cup Inliners, Edit(d) \/ Lose(d)
      PROVE  Within' /\ (\A e \in Calls : Cloned(e)') /\ Held'
    BY <1>1, <1>3 DEF Edit, Lose, remote
<1>4. CASE Upstream
    <2>1. PICK t \in Texts \ Red :
            heads' = [heads EXCEPT ![Base] =
                         [commits |-> @.commits \cup {made + 1}, text |-> t]]
        BY <1>4 DEF Upstream
    <2>2. /\ DOMAIN heads' = DOMAIN heads /\ Base \in DOMAIN heads
          /\ \A b \in DOMAIN heads \ {Base} : heads'[b] = heads[b]
          /\ heads'[Base] = [commits |-> heads[Base].commits \cup {made + 1}, text |-> t]
        BY <1>0, <2>1 DEF RemoteOK
    <2>3. heads'[Base].commits = heads[Base].commits \cup heads[Base].commits \cup {made + 1}
        BY <2>2
    <2>4. made' = made + 1 /\ open' = open \ {Base} /\ UNCHANGED <<pc, branch, text, onto>>
        BY <1>0, <1>4 DEF Upstream, local, Held
    <2> QED BY <2>2, <2>3, <2>4, BaseGains
<1>5. ASSUME NEW m \in Branches, Merge(m)
      PROVE  Within' /\ (\A d \in Calls : Cloned(d)') /\ Held'
    <2>1. /\ heads' = [heads EXCEPT ![Base] =
                         [commits |-> @.commits \cup heads[m].commits \cup {made + 1},
                          text |-> heads[m].text]]
          /\ m \in open /\ m \in DOMAIN heads
        BY <1>0, <1>5 DEF Merge, RemoteOK
    <2>2. /\ DOMAIN heads' = DOMAIN heads /\ Base \in DOMAIN heads
          /\ \A b \in DOMAIN heads \ {Base} : heads'[b] = heads[b]
          /\ heads'[Base] = [commits |-> heads[Base].commits \cup heads[m].commits \cup {made + 1},
                             text |-> heads[m].text]
        BY <1>0, <2>1 DEF RemoteOK
    <2>3. heads'[Base].commits = heads[Base].commits \cup heads[m].commits \cup {made + 1}
        BY <2>2
    <2>4. made' = made + 1 /\ open' = open \ {m} /\ UNCHANGED <<pc, branch, text, onto>>
        BY <1>5 DEF Merge, local
    <2> QED BY <2>1, <2>2, <2>3, <2>4, BaseGains
<1>6. ASSUME NEW m \in Branches, DeleteMerged(m)
      PROVE  Within' /\ (\A d \in Calls : Cloned(d)') /\ Held'
    BY <1>6, DeleteKeeps
<1> QED BY <1>2, <1>3, <1>4, <1>5, <1>6 DEF OthersStep

-----------------------------------------------------------------------------

\* The strengthening is inductive.
LEMMA IInvKept == IInv /\ [Next]_vars => IInv'
<1> SUFFICES ASSUME IInv, [Next]_vars PROVE IInv'
    OBVIOUS
<1>1. TypeOK'
    BY TypeKept DEF IInv
<1>2. Within' /\ (\A d \in Calls : Cloned(d)') /\ Held'
    <2>1. CASE OthersStep
        BY <2>1, OthersKeep
    <2>2. ASSUME NEW c \in Calls, CallStep(c)
          PROVE  Within' /\ (\A d \in Calls : Cloned(d)') /\ Held'
        <3>1. QuietStep(c) \/ Push(c) \/ PushUnheard(c) \/ Post(c)
            BY <2>2 DEF CallStep, QuietStep, Proposing
        <3> QED BY <3>1, QuietKeeps, PushHeardKeeps, PushUnheardKeeps, PostKeeps
    <2> QED BY <2>1, <2>2, Steps
<1> QED BY <1>1, <1>2 DEF IInv

\* It holds at first.
LEMMA IInvInit == Init => IInv
<1> SUFFICES ASSUME Init PROVE IInv
    OBVIOUS
<1>1. TypeOK
    BY TypeInit
<1>2. Within
    BY DEF Init, Within
<1>3. \A c \in Calls : Cloned(c)
    BY DEF Init, Cloned
<1>4. Held
    BY DEF Init, Held, At
<1> QED BY <1>1, <1>2, <1>3, <1>4 DEF IInv

\* And so it holds throughout.
LEMMA Invariance == Spec => []IInv
BY IInvInit, IInvKept, PTL DEF Spec

\* Until its POST a call's branch is what the call pushed.
THEOREM BranchIsHeld == Spec => []BranchHeld
<1>1. IInv => BranchHeld
    BY DEF IInv, Held, Pushed, BranchHeld
<1> QED BY <1>1, Invariance, PTL

\* No open pull request shows a model with an error in it.
THEOREM OpenStaysClean == Spec => []OpenIsClean
<1>1. IInv => OpenIsClean
    BY DEF IInv, Held, OpenIsClean
<1> QED BY <1>1, Invariance, PTL

\* What a push leaves alone: the base, and what the branch had before.
LEMMA PushIsSafe ==
    ASSUME TypeOK, NEW c \in Calls, Cloned(c), PushTo(c)
    PROVE  NoRewrite /\ heads'[Base] = heads[Base]
<1>1. /\ heads'[branch[c]] = [commits |-> onto[c] \cup {made + 1}, text |-> text[c]]
      /\ \A b \in DOMAIN heads \ {branch[c]} : heads'[b] = heads[b]
      /\ pc[c] = "pushing" /\ FastForward(c)
    BY AfterPush
<1>2. heads'[branch[c]].commits = onto[c] \cup {made + 1}
    BY <1>1
<1>3. branch[c] # Base
    BY <1>1 DEF Cloned
<1>4. ASSUME NEW b \in DOMAIN heads PROVE heads[b].commits \subseteq heads'[b].commits
    <2>1. CASE b = branch[c]
        BY <1>1, <1>2, <2>1 DEF FastForward
    <2>2. CASE b # branch[c]
        BY <1>1, <2>2
    <2> QED BY <2>1, <2>2
<1>5. heads'[Base] = heads[Base]
    BY <1>1, <1>3, TypeParts DEF RemoteOK
<1> QED BY <1>4, <1>5 DEF NoRewrite

\* A branch only gains commits, and proposing does not move the base.
THEOREM SafePushing == Spec => SafePushes
<1>1. IInv /\ [Next]_vars => [NoRewrite /\ BaseUnmoved]_vars
    <2> SUFFICES ASSUME IInv, [Next]_vars PROVE NoRewrite /\ BaseUnmoved
        OBVIOUS
    <2>0. TypeOK /\ RemoteOK /\ \A c \in Calls : Cloned(c)
        BY TypeParts DEF IInv
    <2>1. CASE UNCHANGED heads
        BY <2>1 DEF NoRewrite, BaseUnmoved
    <2>2. CASE OthersStep
        <3>1. pushed' = pushed
            BY <2>2, CallsUnmoved
        <3>2. CASE UNCHANGED vars
            BY <2>1, <3>2 DEF vars, remote
        <3>3. ASSUME NEW d \in {Shared} \cup Inliners, Edit(d) \/ Lose(d) PROVE UNCHANGED heads
            BY <3>3 DEF Edit, Lose, remote
        <3>4. CASE Upstream
            BY <2>0, <3>1, <3>4 DEF Upstream, RemoteOK, NoRewrite, BaseUnmoved
        <3>5. ASSUME NEW b \in Branches, Merge(b) PROVE NoRewrite /\ BaseUnmoved
            BY <2>0, <3>1, <3>5 DEF Merge, RemoteOK, NoRewrite, BaseUnmoved
        <3>6. ASSUME NEW b \in Branches, DeleteMerged(b) PROVE NoRewrite /\ BaseUnmoved
            BY <3>1, <3>6 DEF DeleteMerged, Less, NoRewrite, BaseUnmoved
        <3> QED BY <2>1, <2>2, <3>2, <3>3, <3>4, <3>5, <3>6 DEF OthersStep
    <2>3. ASSUME NEW c \in Calls, CallStep(c) PROVE NoRewrite /\ BaseUnmoved
        <3>1. QuietStep(c) \/ Push(c) \/ PushUnheard(c) \/ Post(c)
            BY <2>3 DEF CallStep, QuietStep, Proposing
        <3>2. CASE QuietStep(c)
            BY <2>1, <3>2, QuietRemote
        <3>3. CASE Push(c) \/ PushUnheard(c)
            BY <2>0, <3>3, PushIsSafe DEF Push, PushUnheard, BaseUnmoved
        <3>4. CASE Post(c)
            BY <2>1, <3>4 DEF Post
        <3> QED BY <3>1, <3>2, <3>3, <3>4
    <2> QED BY <2>2, <2>3, Steps
<1> QED BY <1>1, Invariance, PTL DEF Spec, SafePushes

-----------------------------------------------------------------------------
(* The drafts of inline files.                                             *)

\* A call that has not drafted its files has no draft.
NoDraft == \A c \in Inliners : pc[c] \in {"idle", "creating"} => c \notin DOMAIN drafts

\* If files are always passed, no draft of inline files outlives its call.
THEOREM InlineIsDiscarded ==
    ASSUME MayBeEmpty = FALSE
    PROVE  Spec => []InlineDiscarded
<1>1. Init => NoDraft
    BY CallsAssumption DEF Init, NoDraft
<1>2. TypeOK /\ NoDraft /\ [Next]_vars => NoDraft'
    <2> SUFFICES ASSUME TypeOK, NoDraft, [Next]_vars PROVE NoDraft'
        OBVIOUS
    <2>0. CallsOK
        BY TypeParts
    <2>1. CASE OthersStep
        <3>1. pc' = pc
            BY <2>1, CallsUnmoved
        <3>2. DOMAIN drafts' \subseteq DOMAIN drafts
            BY <2>1 DEF OthersStep, Edit, Lose, Upstream, Merge, DeleteMerged, vars, Less
        <3> QED BY <3>1, <3>2 DEF NoDraft
    <2>2. ASSUME NEW c \in Calls, CallStep(c) PROVE NoDraft'
        <3>1. \A d \in Calls \ {c} : pc'[d] = pc[d]
            BY <2>0, <2>2, OthersUnmoved DEF CallStep, Mine
        <3>2. CASE \E b \in Branches : Call(c, b)
            BY <2>0, <3>1, <3>2 DEF Call, Go, At, NoDraft, CallsOK
        <3>3. CASE c \in Inliners /\ CreateDraft(c)
            <4>1. DOMAIN drafts' = DOMAIN drafts \cup {c} /\ pc'[c] = "updating"
                BY <2>0, <3>3 DEF CreateDraft, With, Go, CallsOK
            <4> QED BY <3>1, <4>1 DEF NoDraft
        <3>4. CASE CreateFails(c)
            BY <2>0, <3>1, <3>4 DEF CreateFails, Finish, Go, At, NoDraft, CallsOK
        <3>5. CASE UpdateDraft(c)
            BY <2>0, <3>1, <3>5 DEF UpdateDraft, Go, NoDraft, CallsOK
        <3>6. CASE c \in Inliners /\ UpdateFails(c)
            BY <2>0, <3>1, <3>6 DEF UpdateFails, Finish, Go, NoDraft, CallsOK
        <3>7. CASE Lint(c) \/ Clone(c) \/ Push(c)
            BY <2>0, <3>1, <3>7 DEF Lint, Clone, Push, Go, NoDraft, CallsOK
        <3>8. ASSUME NEW said \in Answers, Return(c, said) PROVE NoDraft'
            <4>1. \/ c \in Inliners /\ DOMAIN drafts' = DOMAIN drafts \ {c}
                  \/ c \notin Inliners /\ drafts' = drafts
                BY <3>8 DEF Return, Less
            <4> QED BY <3>1, <4>1 DEF NoDraft
        <3>9. {"url", "notOpened", "pushFailed", "refused"} \subseteq Answers
            BY DEF Answers
        <3>10. CASE Refuse(c) \/ PushUnheard(c) \/ CloneOrPushFails(c) \/ Post(c) \/ PostFails(c)
            BY <3>8, <3>9, <3>10 DEF Refuse, PushUnheard, CloneOrPushFails, Post, PostFails
        <3> QED BY <2>2, <3>2, <3>3, <3>4, <3>5, <3>6, <3>7, <3>10 DEF CallStep, Proposing
    <2> QED BY <2>1, <2>2, Steps
<1>3. NoDraft => InlineDiscarded
    BY DEF NoDraft, InlineDiscarded, At
<1> QED BY <1>1, <1>2, <1>3, TypeCorrect, PTL DEF Spec
=============================================================================
