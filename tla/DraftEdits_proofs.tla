------------------------- MODULE DraftEdits_proofs --------------------------
(***************************************************************************)
(* Proofs about DraftEdits, for every set of clients of each kind, every   *)
(* set of nodes and every reference relation between them.                 *)
(***************************************************************************)
EXTENDS DraftEdits, TLAPS

\* Splicing a node of a text gives a text.
LEMMA SplicedType ==
    ASSUME NEW t \in Texts, NEW n \in Names
    PROVE  /\ Spliced(t, n) \in Texts
           /\ Spliced(t, n).broken = t.broken
BY DEF Spliced, Text, Texts

\* Formatting a text leaves a text.
LEMMA FormattedType ==
    ASSUME NEW t \in Texts, NEW out \in Formatted(t)
    PROVE  out \in Texts
<1>1. Text(t.nodes, TRUE) \in Texts
  BY DEF Text, Texts
<1>2. out \in {t} \/ out \in Texts \/ out \in {Text(t.nodes, TRUE)}
  BY DEF Formatted
<1>3. QED
  BY <1>1, <1>2

\* What Format was given is what it gives back, when it has no bare and no
\* misquoted node; it is also what a patch judges then.
LEMMA FormattedSame ==
    ASSUME NEW t, NEW out \in Formatted(t), Frail(t) = {}
    PROVE  out = t /\ JudgedOf(t, out) = t
BY DEF Formatted, Frail, JudgedOf

\* The nodes, at least, when nothing is misquoted.
LEMMA FormattedNodes ==
    ASSUME NEW t, NEW out \in Formatted(t), Frail(t) \cap Misquoted = {}
    PROVE  out.nodes = t.nodes
<1>1. t.broken \/ t.nodes \cap Misquoted = {}
  BY DEF Frail
<1>2. QED
  BY <1>1 DEF Formatted, Text

\* What a client's move does to the places and the copies of all clients.
LEMMA GoEffect ==
    ASSUME TypeOK, NEW c \in Clients, NEW stage \in Stages,
           NEW t \in Texts \cup {Nothing}, Go(c, stage, t)
    PROVE  /\ pc' \in [Clients -> Stages]
           /\ text' \in [Clients -> Texts \cup {Nothing}]
           /\ pc'[c] = stage /\ text'[c] = t
           /\ \A d \in Clients \ {c} : pc'[d] = pc[d] /\ text'[d] = text[d]
BY DEF Go, TypeOK

\* A write that counts as gated is of a text without an error.
LEMMA JudgedEffect ==
    ASSUME NEW t, Judged(t)
    PROVE  gated' \in BOOLEAN /\ (gated' => gated /\ Clean(t))
BY DEF Judged

\* A draft starts from a text.
LEMMA BaseTextType == BaseText \in Texts
BY BaseAssumption DEF BaseText, Text, Texts

-----------------------------------------------------------------------------
(* Types, and what holds inside the critical sections.                     *)

IInv == TypeOK /\ SectionInv

\* Nobody is anywhere in the initial state.
LEMMA InitInv == Init => IInv
BY BaseTextType, BaseAssumption DEF Init, IInv, TypeOK, SectionInv, At, Stages

\* Every step keeps the types and what holds inside the critical sections.
\* Facts <1>6 and <1>10 are about any client leaving a patch and about any
\* client moving with a copy; the actions are instances of them.
LEMMA NextInv == IInv /\ [Next]_vars => IInv'
<1> SUFFICES ASSUME IInv, [Next]_vars PROVE IInv'
  OBVIOUS
<1> USE DEF IInv
<1>1. CASE Create(Creator)
  <2>1. Creator \in Clients /\ pc' \in [Clients -> Stages]
    BY <1>1 DEF Create, TypeOK, Clients, Stages
  <2>2. \A d \in Clients : At(d, "idle") /\ pc'[d] \in {"idle", "reporting"}
    BY <1>1 DEF Create, TypeOK, SectionInv, At
  <2>3. QED
    BY <1>1, <2>1, <2>2 DEF Create, history, TypeOK, SectionInv, At
<1>2. CASE Report(Creator)
  <2>1. Creator \in Clients /\ pc' \in [Clients -> Stages]
    BY <1>2 DEF Report, TypeOK, Clients, Stages
  <2>2. \A d \in Clients : pc'[d] = pc[d] \/ pc'[d] = "idle"
    BY <1>2, <2>1 DEF Report, TypeOK
  <2>3. QED
    BY <1>2, <2>1, <2>2 DEF Report, history, TypeOK, SectionInv, At
<1>3. CASE Lose
  <2>1. \A d \in Clients : ~At(d, "locked") /\ ~At(d, "spliced")
    BY <1>3, NobodyAssumption DEF Lose, Free, SectionInv
  <2>2. QED
    BY <1>3, <2>1 DEF Lose, Free, history, TypeOK, SectionInv, At
<1>4. ASSUME NEW c \in Patchers, Lock(c) PROVE IInv'
  <2>1. c \in Clients /\ pc' \in [Clients -> Stages]
    BY <1>4 DEF Lock, TypeOK, Clients, Stages
  <2>2. \A d \in Clients : IF d = c THEN pc'[d] = "locked" ELSE pc'[d] = pc[d]
    BY <1>4, <2>1 DEF Lock, TypeOK
  <2>3. \A d \in Clients : ~At(d, "locked") /\ ~At(d, "spliced")
    BY <1>4, NobodyAssumption DEF Lock, Free, SectionInv
  <2>4. TypeOK'
    BY <1>4, <2>1 DEF Lock, history, TypeOK
  <2>5. SectionInv'
    BY <1>4, <2>1, <2>2, <2>3 DEF Lock, Free, SectionInv, At
  <2>6. QED
    BY <2>4, <2>5
<1>5. ASSUME NEW c \in Patchers, Splice(c) PROVE IInv'
  <2>1. c \in Clients /\ "spliced" \in Stages
    BY DEF Clients, Stages
  <2>2. PICK n \in Names : Go(c, "spliced", Spliced(file, n))
    BY <1>5 DEF Splice
  <2>3. Spliced(file, n) \in Texts
    BY SplicedType DEF TypeOK
  <2>4. /\ pc' \in [Clients -> Stages]
        /\ text' \in [Clients -> Texts \cup {Nothing}]
        /\ pc'[c] = "spliced" /\ text'[c] = Spliced(file, n)
        /\ \A d \in Clients \ {c} : pc'[d] = pc[d] /\ text'[d] = text[d]
    BY <2>1, <2>2, <2>3, GoEffect
  <2>5. /\ seen' \in [Clients -> Texts \cup {Nothing}]
        /\ seen'[c] = file
        /\ \A d \in Clients \ {c} : seen'[d] = seen[d]
    BY <1>5, <2>1 DEF Splice, TypeOK
  <2>6. mu = c /\ status = "live" /\ ~file.broken
    BY <1>5, <2>1 DEF Splice, SectionInv
  <2>7. TypeOK'
    BY <1>5, <2>4, <2>5 DEF Splice, history, TypeOK
  <2>8. SectionInv'
    <3> SUFFICES ASSUME NEW d \in Clients PROVE SectionInv!(d)'
      BY DEF SectionInv
    <3>1. CASE d = c
      BY <1>5, <2>4, <2>5, <2>6, <3>1 DEF Splice, At
    <3>2. CASE d # c
      BY <1>5, <2>4, <2>5, <3>2 DEF Splice, SectionInv, At
    <3>3. QED
      BY <3>1, <3>2
  <2>9. QED
    BY <2>7, <2>8
<1>6. ASSUME NEW c \in Patchers, Unlock(c), At(c, "locked") \/ At(c, "spliced"),
             file' \in Texts, owed' \subseteq Names,
             frail' \subseteq Bare \cup Misquoted, gated' \in BOOLEAN,
             whole' \in BOOLEAN, UNCHANGED <<status, pr>>
      PROVE  IInv'
  <2>1. c \in Clients /\ "idle" \in Stages
    BY DEF Clients, Stages
  <2>2. /\ pc' \in [Clients -> Stages]
        /\ text' \in [Clients -> Texts \cup {Nothing}]
        /\ pc'[c] = "idle"
        /\ \A d \in Clients \ {c} : pc'[d] = pc[d] /\ text'[d] = text[d]
    BY <1>6, <2>1, GoEffect DEF Unlock
  <2>3. seen' \in [Clients -> Texts \cup {Nothing}]
    BY <1>6, <2>1 DEF Unlock, TypeOK
  <2>4. mu = c /\ status = "live" /\ mu' = Nobody
    BY <1>6, <2>1 DEF Unlock, SectionInv
  <2>5. \A d \in Clients \ {c} : ~At(d, "locked") /\ ~At(d, "spliced")
    BY <2>4 DEF SectionInv
  <2>6. TypeOK'
    BY <1>6, <2>2, <2>3, <2>4 DEF TypeOK
  <2>7. SectionInv'
    BY <1>6, <2>2, <2>4, <2>5 DEF SectionInv, At
  <2>8. QED
    BY <2>6, <2>7
<1>7. ASSUME NEW c \in Patchers, Abort(c) PROVE IInv'
  BY <1>6, <1>7 DEF Abort, TypeOK, history
<1>8. ASSUME NEW c \in Patchers, Store(c) PROVE IInv'
  <2>1. c \in Clients
    BY DEF Clients
  <2>2. text[c] \in Texts /\ seen[c] \in Texts
    BY <1>8, <2>1, SplicedType DEF Store, SectionInv, TypeOK
  <2>3. OwedAfter(seen[c], text[c]) \subseteq Names
    BY <2>2 DEF OwedAfter, TypeOK, Texts
  <2>4. PICK out \in Formatted(text[c]) : Judged(JudgedOf(text[c], out)) /\ file' = out
    BY <1>8 DEF Store, Save
  <2>5. file' \in Texts /\ gated' \in BOOLEAN
    BY <2>2, <2>4, FormattedType, JudgedEffect
  <2>6. frail' \subseteq Bare \cup Misquoted
    BY <1>8 DEF Store, Save, Frail, TypeOK
  <2>7. QED
    BY <1>6, <1>8, <2>3, <2>5, <2>6 DEF Store, Save
<1>9. ASSUME NEW c \in Patchers, Refuse(c) PROVE IInv'
  BY <1>6, <1>9 DEF Refuse, TypeOK, history
<1>10. ASSUME NEW c \in Clients, NEW stage \in {"idle", "holding", "linting"},
              NEW t \in Texts \cup {Nothing}, Go(c, stage, t),
              stage # "idle" => t \in Texts,
              status # "unborn", mu = Nobody \/ file' = file, file' \in Texts,
              ~At(c, "locked") /\ ~At(c, "spliced"),
              owed' \subseteq Names, frail' \subseteq Bare \cup Misquoted,
              pr' \in Texts \cup {Nothing},
              gated' \in BOOLEAN, whole' \in BOOLEAN,
              UNCHANGED <<status, mu, seen>>
       PROVE  IInv'
  <2>1. stage \in Stages
    BY DEF Stages
  <2>2. /\ pc' \in [Clients -> Stages]
        /\ text' \in [Clients -> Texts \cup {Nothing}]
        /\ pc'[c] = stage /\ text'[c] = t
        /\ \A d \in Clients \ {c} : pc'[d] = pc[d] /\ text'[d] = text[d]
    BY <1>10, <2>1, GoEffect
  <2>3. TypeOK'
    BY <1>10, <2>2 DEF TypeOK
  <2>4. SectionInv'
    <3> SUFFICES ASSUME NEW d \in Clients PROVE SectionInv!(d)'
      BY DEF SectionInv
    <3>1. CASE d = c
      BY <1>10, <2>2, <3>1 DEF At
    <3>2. CASE d # c
      <4>1. mu = Nobody => ~At(d, "locked") /\ ~At(d, "spliced")
        BY NobodyAssumption DEF SectionInv
      <4>2. QED
        BY <1>10, <2>2, <3>2, <4>1 DEF SectionInv, At
    <3>3. QED
      BY <3>1, <3>2
  <2>5. QED
    BY <2>3, <2>4
<1>11. ASSUME NEW c \in Clients, Read(c) \/ Snapshot(c) PROVE IInv'
  BY <1>10, <1>11 DEF Read, Snapshot, Free, At, TypeOK, history
<1>12. ASSUME NEW c \in Clients, GiveUp(c) \/ NotProposed(c) \/ OpenPR(c) PROVE IInv'
  <2>1. status # "unborn" /\ text[c] \in Texts
    BY <1>12 DEF GiveUp, NotProposed, OpenPR, SectionInv, At
  <2>2. QED
    BY <1>10, <1>12, <2>1 DEF GiveUp, NotProposed, OpenPR, At, TypeOK, history
<1>13. ASSUME NEW c \in Clients, NEW new \in Texts, Write(c, new), gated' \in BOOLEAN
       PROVE  IInv'
  <2>1. text[c] \in Texts
    BY <1>13 DEF Write, SectionInv
  <2>2. new.nodes \subseteq Names /\ Frail(new) \subseteq Bare \cup Misquoted
    BY DEF Texts, Frail
  <2>3. file' \in Texts
    BY <1>13, FormattedType DEF Write
  <2>4. QED
    BY <1>10, <1>13, <2>2, <2>3 DEF Write, Free, At, TypeOK
<1>14. ASSUME NEW c \in Agents, UpdateDraft(c) PROVE IInv'
  <2>1. PICK new \in Texts : Write(c, new) /\ Judged(new)
    BY <1>14 DEF UpdateDraft
  <2>2. QED
    BY <1>13, <2>1, JudgedEffect DEF Clients
<1>15. ASSUME NEW c \in Editors, Put(c) PROVE IInv'
  <2>1. c \in Clients /\ text[c] \in Texts
    BY <1>15 DEF Put, SectionInv, Clients
  <2>2. PICK n \in Names : \E sent \in Formatted(Spliced(text[c], n)) : Write(c, sent)
    BY <1>15 DEF Put
  <2>3. PICK sent \in Formatted(Spliced(text[c], n)) : Write(c, sent)
    BY <2>2
  <2>4. sent \in Texts
    BY <2>1, SplicedType, FormattedType
  <2>5. QED
    BY <1>13, <1>15, <2>1, <2>3, <2>4 DEF Put
<1>16. CASE UNCHANGED vars
  BY <1>16 DEF vars, history, TypeOK, SectionInv, At
<1>17. Agents \subseteq Clients /\ Editors \subseteq Clients /\ Proposers \subseteq Clients
  BY DEF Clients
<1>18. QED
  BY <1>1, <1>2, <1>3, <1>4, <1>5, <1>7, <1>8, <1>9, <1>11, <1>12, <1>14, <1>15,
     <1>16, <1>17 DEF Next, Patching

\* The store, the mutex, the clients' copies and the pull request only ever
\* hold values of their kinds.
THEOREM TypeCorrect == Spec => []TypeOK
<1>1. IInv => TypeOK
  BY DEF IInv
<1>2. QED
  BY <1>1, InitInv, NextInv, PTL DEF Spec

\* The mutex excludes: whoever is inside a patch holds it, and the model it
\* has spliced is one splice away from what is still the stored text.
THEOREM Sections == Spec => []SectionInv
<1>1. IInv => SectionInv
  BY DEF IInv
<1>2. QED
  BY <1>1, InitInv, NextInv, PTL DEF Spec

-----------------------------------------------------------------------------
(* The strict gate.                                                        *)

\* A step that writes counts as gated only if what it judges has no error, and
\* what it judges is what it stores unless Format had a node it cannot write.
LEMMA NextClean ==
    ASSUME [Next]_vars
    PROVE  UNCHANGED <<file, frail, gated>> \/ (gated' /\ frail' = {} => Clean(file'))
<1>1. CASE \E c \in Patchers : Patching(c)
  <2>1. ASSUME NEW c, Store(c), gated', frail' = {} PROVE Clean(file')
    <3>1. PICK out \in Formatted(text[c]) : Judged(JudgedOf(text[c], out)) /\ file' = out
      BY <2>1 DEF Store, Save
    <3>2. Frail(text[c]) = {}
      BY <2>1 DEF Store, Save
    <3>3. QED
      BY <2>1, <3>1, <3>2, FormattedSame, JudgedEffect
  <2>2. ASSUME NEW c, Lock(c) \/ Splice(c) \/ Abort(c) \/ Refuse(c)
        PROVE  UNCHANGED <<file, frail, gated>>
    BY <2>2 DEF Lock, Splice, Abort, Refuse, history
  <2>3. QED
    BY <1>1, <2>1, <2>2 DEF Patching
<1>2. ASSUME NEW c, UpdateDraft(c), gated', frail' = {} PROVE Clean(file')
  <2>1. PICK new \in Texts : Write(c, new) /\ Judged(new)
    BY <1>2 DEF UpdateDraft
  <2>2. file' \in Formatted(new) /\ Frail(new) = {}
    BY <1>2, <2>1 DEF Write
  <2>3. QED
    BY <1>2, <2>1, <2>2, FormattedSame, JudgedEffect
<1>3. ASSUME NEW c, Put(c) PROVE ~gated'
  BY <1>3 DEF Put
<1>4. ASSUME NEW c, \/ Read(c) \/ GiveUp(c)
                    \/ Snapshot(c) \/ OpenPR(c) \/ NotProposed(c)
      PROVE  UNCHANGED <<file, frail, gated>>
  BY <1>4 DEF Read, GiveUp, Snapshot, OpenPR, NotProposed, history
<1>5. CASE Create(Creator) \/ Report(Creator) \/ Lose \/ UNCHANGED vars
  BY <1>5 DEF Create, Report, Lose, vars, history
<1>6. QED
  BY <1>1, <1>2, <1>3, <1>4, <1>5 DEF Next

\* As long as every write passes the strict gate and Format is given no bare
\* and no misquoted node, no interleaving of the writes leaves an error in the
\* draft: what the gates of mutateDraftFile and update_draft judge is then the
\* text that is stored.
THEOREM StrictWritesStayClean == Spec => []StrictStaysClean
<1>1. Init => StrictStaysClean
  BY DEF Init, StrictStaysClean
<1>2. StrictStaysClean /\ [Next]_vars => StrictStaysClean'
  <2> SUFFICES ASSUME StrictStaysClean, [Next]_vars PROVE StrictStaysClean'
    OBVIOUS
  <2>1. CASE UNCHANGED <<file, frail, gated>>
    BY <2>1 DEF StrictStaysClean, BaseText, Text, Clean
  <2>2. CASE gated' /\ frail' = {} => Clean(file')
    BY <2>2 DEF StrictStaysClean, Clean
  <2>3. QED
    BY <2>1, <2>2, NextClean
<1>3. QED
  BY <1>1, <1>2, PTL DEF Spec

-----------------------------------------------------------------------------
(* No patch is lost.                                                       *)

\* A patch is applied to the very text it started from, so what is stored is
\* what was stored, plus or minus the acknowledged node.
LEMMA NextKept == IInv /\ PatchesKept /\ [Next]_vars => PatchesKept'
<1> SUFFICES ASSUME IInv, PatchesKept, [Next]_vars PROVE PatchesKept'
  OBVIOUS
<1>0. CASE UNCHANGED <<file, owed, frail>>
  BY <1>0 DEF PatchesKept
<1>1. ASSUME NEW c \in Patchers, Patching(c) PROVE PatchesKept'
  <2>1. CASE Store(c)
    <3>1. c \in Clients /\ At(c, "spliced")
      BY <2>1 DEF Store, Clients
    <3>2. seen[c] = file
      BY <3>1 DEF IInv, SectionInv
    <3>3. text[c] \in Texts
      BY <3>1, SplicedType DEF IInv, SectionInv, TypeOK
    <3>4. SUFFICES ASSUME frail' \cap Misquoted = {} PROVE file'.nodes = owed'
      BY DEF PatchesKept
    <3>5. file.nodes = owed /\ Frail(text[c]) \cap Misquoted = {}
      BY <2>1, <3>4 DEF Store, Save, PatchesKept
    <3>6. file'.nodes = text[c].nodes /\ owed' = OwedAfter(file, text[c])
      BY <2>1, <3>2, <3>5, FormattedNodes DEF Store, Save
    <3>7. OwedAfter(file, text[c]) = text[c].nodes
      BY <3>3, <3>5 DEF OwedAfter, IInv, TypeOK, Texts
    <3>8. QED
      BY <3>6, <3>7
  <2>2. CASE Lock(c) \/ Splice(c) \/ Abort(c) \/ Refuse(c)
    BY <1>0, <2>2 DEF Lock, Splice, Abort, Refuse, history
  <2>3. QED
    BY <1>1, <2>1, <2>2 DEF Patching
<1>2. CASE \E c \in Proposers : Snapshot(c) \/ OpenPR(c) \/ NotProposed(c)
  BY <1>0, <1>2 DEF Snapshot, OpenPR, NotProposed, history
<1>3. CASE Create(Creator) \/ Report(Creator) \/ Lose \/ UNCHANGED vars
  BY <1>0, <1>3 DEF Create, Report, Lose, vars, history
<1>4. ASSUME NEW c, NEW new, Write(c, new) PROVE PatchesKept'
  BY <1>4, FormattedNodes DEF Write, PatchesKept
<1>5. ASSUME NEW c, Read(c) \/ UpdateDraft(c) \/ Put(c) \/ GiveUp(c)
      PROVE  PatchesKept'
  BY <1>0, <1>4, <1>5 DEF Read, UpdateDraft, Put, GiveUp, history
<1>6. QED
  BY <1>1, <1>2, <1>3, <1>5 DEF Next

\* No acknowledged patch is ever lost to another one, as long as Format is given
\* no string it misquotes: mutateDraftFile holds the
\* mutex from the text it parses to the text it stores.
THEOREM NoPatchLost == Spec => []PatchesKept
<1>1. Init => PatchesKept
  BY DEF Init, PatchesKept, BaseText, Text
<1>2. QED
  BY <1>1, InitInv, NextInv, NextKept, PTL DEF Spec

-----------------------------------------------------------------------------
(* What is proposed.                                                       *)

\* OpenPR alone sets pr, to the copy that was linted.
THEOREM NothingBrokenProposed == Spec => []ProposedClean
<1>1. Init => ProposedClean
  BY DEF Init, ProposedClean
<1>2. ProposedClean /\ [Next]_vars => ProposedClean'
  <2> SUFFICES ASSUME ProposedClean, [Next]_vars PROVE ProposedClean'
    OBVIOUS
  <2>1. CASE UNCHANGED pr
    BY <2>1 DEF ProposedClean, Clean
  <2>2. ASSUME NEW c \in Proposers, OpenPR(c) PROVE ProposedClean'
    BY <2>2 DEF OpenPR, ProposedClean, Clean
  <2>3. CASE UNCHANGED vars
    BY <2>1, <2>3 DEF vars
  <2>4. ASSUME NEW c, Patching(c) PROVE UNCHANGED pr
    BY <2>4 DEF Patching, Lock, Splice, Abort, Store, Refuse
  <2>5. ASSUME NEW c, \/ Read(c) \/ UpdateDraft(c) \/ GiveUp(c) \/ Put(c)
                      \/ Snapshot(c) \/ NotProposed(c)
        PROVE  UNCHANGED pr
    BY <2>5 DEF Read, UpdateDraft, Put, Write, GiveUp, Snapshot, NotProposed
  <2>6. CASE Create(Creator) \/ Report(Creator) \/ Lose
    BY <2>1, <2>6 DEF Create, Report, Lose
  <2>7. QED
    BY <2>1, <2>2, <2>3, <2>4, <2>5, <2>6 DEF Next
<1>3. QED
  BY <1>1, <1>2, PTL DEF Spec

-----------------------------------------------------------------------------
(* DraftEdits implements AtomicEdits.                                      *)

\* The refinement mapping of the proposers' snapshots.
Proposed == [q \in Proposers |-> IF At(q, "linting") THEN text[q] ELSE Nothing]

\* A client that neither is nor becomes a proposer with a snapshot leaves the
\* snapshots alone.
LEMMA OthersKeepProposed ==
    ASSUME TypeOK, NEW c \in Clients, NEW stage \in Stages \ {"linting"},
           ~At(c, "linting"), pc' = [pc EXCEPT ![c] = stage],
           \A d \in Clients \ {c} : text'[d] = text[d]
    PROVE  Proposed' = Proposed
<1>1. \A q \in Proposers : q \in Clients
  BY DEF Clients
<1>2. \A q \in Proposers : /\ At(q, "linting")' <=> At(q, "linting")
                           /\ At(q, "linting") => text'[q] = text[q]
  BY <1>1 DEF At, TypeOK
<1>3. QED
  BY <1>2 DEF Proposed

\* A proposer that takes a snapshot, or is done with one.
LEMMA ProposerMoves ==
    ASSUME TypeOK, NEW q \in Proposers, NEW stage \in {"idle", "linting"},
           NEW t \in Texts \cup {Nothing}, Go(q, stage, t),
           stage = "idle" => t = Nothing
    PROVE  Proposed' = [Proposed EXCEPT ![q] = t]
<1>1. q \in Clients /\ stage \in Stages
  BY DEF Clients, Stages
<1>2. /\ pc'[q] = stage /\ text'[q] = t
      /\ \A d \in Clients \ {q} : pc'[d] = pc[d] /\ text'[d] = text[d]
  BY <1>1, GoEffect
<1>3. \A p \in Proposers : p \in Clients
  BY DEF Clients
<1>4. QED
  BY <1>2, <1>3 DEF Proposed, At

\* Texts, formatting and judging are the same for both specifications.
LEMMA SameTexts ==
    /\ Atomic!Texts = Texts
    /\ \A t, n : Atomic!Spliced(t, n) = Spliced(t, n)
    /\ \A t : Atomic!Formatted(t) = Formatted(t)
    /\ \A t, out : Atomic!JudgedOf(t, out) = JudgedOf(t, out)
    /\ \A t : Atomic!Judged(t) <=> Judged(t)
BY DEF Atomic!Texts, Texts, Atomic!Spliced, Spliced, Atomic!Text, Text, Formatted,
   Atomic!Formatted, Atomic!JudgedOf, JudgedOf, Atomic!Judged, Judged, Atomic!Clean,
   Clean

\* The drafts start in a state of the abstract specification.
LEMMA InitRefines == Init => Atomic!Init
<1>1. Init => Proposed = [q \in Proposers |-> Nothing]
  BY DEF Init, Proposed, At, Clients
<1>2. QED
  BY <1>1 DEF Init, Atomic!Init, Proposed, BaseText, Text, Atomic!BaseText, Atomic!Text

\* Every step of DraftEdits is a step of AtomicEdits or changes nothing there.
LEMMA StepRefines == IInv /\ [Next]_vars => [Atomic!Next]_(Atomic!vars)
<1> SUFFICES ASSUME IInv, [Next]_vars PROVE [Atomic!Next]_(Atomic!vars)
  OBVIOUS
<1> USE DEF IInv
<1>0. TypeOK
  OBVIOUS
<1>1. ASSUME UNCHANGED <<status, file, pr, gated, whole>>, Proposed' = Proposed
      PROVE  UNCHANGED Atomic!vars
  BY <1>1 DEF Atomic!vars, Atomic!history, Proposed
<1>2. CASE Create(Creator)
  <2>1. Creator \in Clients /\ ~At(Creator, "linting")
    BY <1>2 DEF Create, SectionInv, Clients, At
  <2>2. Proposed' = Proposed
    BY <1>0, <1>2, <2>1, OthersKeepProposed DEF Create, Stages
  <2>3. Atomic!Create
    BY <1>2, <2>2 DEF Create, Atomic!Create, Proposed, history, Atomic!history
  <2>4. QED
    BY <2>3 DEF Atomic!Next
<1>3. CASE Report(Creator)
  <2>1. Creator \in Clients /\ ~At(Creator, "linting")
    BY <1>3 DEF Report, Clients, At
  <2>2. Proposed' = Proposed
    BY <1>0, <1>3, <2>1, OthersKeepProposed DEF Report, Stages
  <2>3. QED
    BY <1>1, <1>3, <2>2 DEF Report, history
<1>4. CASE Lose
  <2>1. Atomic!Lose
    BY <1>4 DEF Lose, Free, Atomic!Lose, At, history, Atomic!history
  <2>2. QED
    BY <2>1 DEF Atomic!Next
<1>5. ASSUME NEW c \in Patchers, Lock(c) \/ Splice(c) \/ Abort(c) \/ Refuse(c)
      PROVE  UNCHANGED Atomic!vars
  <2>1. c \in Clients /\ ~At(c, "linting")
    BY <1>5 DEF Lock, Splice, Abort, Refuse, Clients, At
  <2>2. ASSUME NEW stage \in Stages \ {"linting"}, NEW t \in Texts \cup {Nothing},
               Go(c, stage, t)
        PROVE  Proposed' = Proposed
    <3>1. \A d \in Clients \ {c} : text'[d] = text[d]
      BY <1>0, <2>1, <2>2, GoEffect
    <3>2. QED
      BY <1>0, <2>1, <2>2, <3>1, OthersKeepProposed DEF Go
  <2>3. CASE Lock(c)
    <3>1. Proposed' = Proposed
      BY <1>0, <2>1, <2>3, OthersKeepProposed DEF Lock, Stages
    <3>2. QED
      BY <1>1, <2>3, <3>1 DEF Lock, history
  <2>4. CASE Splice(c)
    <3>1. PICK n \in Names : Go(c, "spliced", Spliced(file, n))
      BY <2>4 DEF Splice
    <3>2. Spliced(file, n) \in Texts
      BY SplicedType DEF TypeOK
    <3>3. QED
      BY <1>1, <2>2, <2>4, <3>1, <3>2 DEF Splice, Stages, history
  <2>5. CASE Abort(c) \/ Refuse(c)
    BY <1>1, <2>2, <2>5 DEF Abort, Refuse, Unlock, Stages, history
  <2>6. QED
    BY <1>5, <2>3, <2>4, <2>5
<1>6. ASSUME NEW c \in Patchers, Store(c) PROVE Atomic!Patch
  <2>1. c \in Clients /\ At(c, "spliced") /\ ~At(c, "linting")
    BY <1>6 DEF Store, Clients, At
  <2>2. /\ status = "live" /\ ~file.broken
        /\ \E n \in Names : text[c] = Spliced(file, n)
    BY <2>1 DEF SectionInv
  <2>3. PICK n \in Names : text[c] = Spliced(file, n)
    BY <2>2
  <2>4. PICK out \in Formatted(text[c]) : Judged(JudgedOf(text[c], out)) /\ file' = out
    BY <1>6 DEF Store, Save
  <2>5. file' \in Atomic!Texts
    BY <2>3, <2>4, SplicedType, FormattedType, SameTexts DEF TypeOK
  <2>6. /\ file' \in Atomic!Formatted(Atomic!Spliced(file, n))
        /\ Atomic!Judged(Atomic!JudgedOf(Atomic!Spliced(file, n), file'))
    BY <2>3, <2>4, SameTexts
  <2>7. \A d \in Clients \ {c} : text'[d] = text[d]
    BY <1>6 DEF Store, Unlock, Go, TypeOK
  <2>8. Proposed' = Proposed
    BY <1>0, <1>6, <2>1, <2>7, OthersKeepProposed DEF Store, Unlock, Go, Stages
  <2>9. QED
    BY <1>6, <2>2, <2>8, <2>5, <2>6 DEF Store, Save, Proposed, Atomic!Patch
<1>7. ASSUME NEW c \in Agents \cup Editors, Read(c) \/ GiveUp(c)
      PROVE  UNCHANGED Atomic!vars
  <2>1. c \in Clients /\ ~At(c, "linting")
    BY <1>7 DEF Read, GiveUp, Clients, At
  <2>2. \A d \in Clients \ {c} : text'[d] = text[d]
    BY <1>7 DEF Read, GiveUp, Go, TypeOK
  <2>3. Proposed' = Proposed
    BY <1>0, <1>7, <2>1, <2>2, OthersKeepProposed DEF Read, GiveUp, Go, Stages
  <2>4. QED
    BY <1>1, <1>7, <2>3 DEF Read, GiveUp, history
<1>8. ASSUME NEW c \in Agents \cup Editors, NEW new \in Texts, Write(c, new),
             Judged(new)
      PROVE  Atomic!Overwrite
  <2>1. c \in Clients /\ ~At(c, "linting")
    BY <1>8 DEF Write, Clients, At
  <2>2. \A d \in Clients \ {c} : text'[d] = text[d]
    BY <1>8 DEF Write, Go, TypeOK
  <2>3. Proposed' = Proposed
    BY <1>0, <1>8, <2>1, <2>2, OthersKeepProposed DEF Write, Go, Stages
  <2>4. file' \in Atomic!Texts
    BY <1>8, FormattedType, SameTexts DEF Write
  <2>5. file' \in Atomic!Formatted(new) /\ Atomic!Judged(new) /\ new \in Atomic!Texts
    BY <1>8, SameTexts DEF Write
  <2>6. QED
    BY <1>8, <2>3, <2>4, <2>5 DEF Write, Free, Proposed, Atomic!Overwrite
<1>9. ASSUME NEW c \in Agents, UpdateDraft(c) PROVE Atomic!Overwrite
  <2>1. PICK new \in Texts : Write(c, new) /\ Judged(new)
    BY <1>9 DEF UpdateDraft
  <2>2. QED
    BY <1>8, <2>1
<1>10. ASSUME NEW c \in Editors, Put(c) PROVE Atomic!Overwrite
  <2>1. text[c] \in Texts
    BY <1>10 DEF Put, SectionInv, Clients
  <2>2. PICK n \in Names : \E sent \in Formatted(Spliced(text[c], n)) : Write(c, sent)
    BY <1>10 DEF Put
  <2>3. PICK sent \in Formatted(Spliced(text[c], n)) : Write(c, sent)
    BY <2>2
  <2>4. sent \in Texts
    BY <2>1, SplicedType, FormattedType
  <2>5. Judged(sent)
    BY <1>10 DEF Put, Judged
  <2>6. QED
    BY <1>8, <2>3, <2>4, <2>5
<1>11. ASSUME NEW q \in Proposers, Snapshot(q) PROVE Atomic!Snapshot(q)
  <2>1. Proposed' = [Proposed EXCEPT ![q] = file]
    BY <1>0, <1>11, ProposerMoves DEF Snapshot, TypeOK
  <2>2. Proposed[q] = Nothing
    BY <1>11 DEF Snapshot, Proposed, At
  <2>3. QED
    BY <1>11, <2>1, <2>2 DEF Snapshot, Free, Proposed, history, Atomic!Snapshot,
       Atomic!history
<1>12. ASSUME NEW q \in Proposers, OpenPR(q) \/ NotProposed(q)
       PROVE  Atomic!Publish(q) \/ Atomic!Withdraw(q)
  <2>1. Proposed' = [Proposed EXCEPT ![q] = Nothing]
    BY <1>0, <1>12, ProposerMoves DEF OpenPR, NotProposed
  <2>2. Proposed[q] = text[q] /\ text[q] # Nothing
    BY <1>12, NothingAssumption
       DEF OpenPR, NotProposed, Proposed, At, SectionInv, Clients
  <2>3. QED
    BY <1>12, <2>1, <2>2 DEF OpenPR, NotProposed, Proposed, Clean, history,
       Atomic!Publish, Atomic!Withdraw, Atomic!Clean, Atomic!history
<1>13. CASE UNCHANGED vars
  BY <1>1, <1>13 DEF vars, history, Proposed, At
<1>14. QED
  BY <1>2, <1>3, <1>4, <1>5, <1>6, <1>7, <1>9, <1>10, <1>11, <1>12, <1>13
     DEF Next, Patching, Atomic!Next

\* DraftEdits, with its mutex and its critical sections, implements the
\* atomic specification of the editing operations.
THEOREM Refinement == Spec => ImplementsAtomicEdits
BY InitRefines, InitInv, NextInv, StepRefines, PTL
   DEF Spec, ImplementsAtomicEdits, Atomic!Spec
=============================================================================
