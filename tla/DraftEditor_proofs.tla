------------------------- MODULE DraftEditor_proofs --------------------------
(***************************************************************************)
(* Proofs about DraftEditor, for all sets of drafts, files and failures.   *)
(*                                                                         *)
(* `saving` is a matter of one save at a time: it is on from the start of  *)
(* a save to its end, and only a second save that starts meanwhile can end *)
(* it too soon.  The rest is a matter of one request at a time: a user who *)
(* waits has at most one in flight, so each answer finds the store as the  *)
(* request left it.                                                        *)
(***************************************************************************)
EXTENDS DraftEditor, TLAPS

-----------------------------------------------------------------------------
(* What is in flight.                                                      *)

LEMMA Sent ==
    ASSUME NEW r, Send(r)
    PROVE  \E i \in 1..MaxCalls :
              /\ i \notin DOMAIN calls
              /\ DOMAIN calls' = DOMAIN calls \cup {i} /\ calls'[i] = r
              /\ \A j \in DOMAIN calls : calls'[j] = calls[j]
              /\ stray' = stray
BY DEF Send

LEMMA DropLeaves ==
    ASSUME NEW i, Drop(i)
    PROVE  /\ DOMAIN calls' = DOMAIN calls \ {i}
           /\ \A j \in DOMAIN calls \ {i} : calls'[j] = calls[j]
           /\ stray' = stray
BY DEF Drop, Dropped

LEMMA GiveUpLeaves ==
    ASSUME NEW i, GiveUp(i)
    PROVE  /\ DOMAIN calls' = DOMAIN calls \ {i}
           /\ \A j \in DOMAIN calls \ {i} : calls'[j] = calls[j]
           /\ stray' \subseteq stray \cup {calls[i]}
BY DEF GiveUp, Dropped

LEMMA Followed ==
    ASSUME NEW i \in DOMAIN calls, NEW r, Follow(i, r)
    PROVE  /\ DOMAIN calls' = DOMAIN calls /\ calls'[i] = r
           /\ \A j \in DOMAIN calls \ {i} : calls'[j] = calls[j]
           /\ stray' = stray
BY DEF Follow

-----------------------------------------------------------------------------
(* Types.                                                                  *)

ServerOK ==
    /\ born \subseteq Drafts
    /\ stored \in [Drafts -> [Files -> TextsOf]]
    /\ proposed \in [Drafts -> [Files -> TextsOf] \cup {Nothing}]
StoreOK ==
    /\ draftId \in born /\ file \in Files
    /\ model \in TextsOf
    /\ saving \in BOOLEAN /\ frozen \in BOOLEAN
    /\ undos \subseteq Offers
CallsOK ==
    /\ DOMAIN calls \subseteq 1..MaxCalls
    /\ \A i \in DOMAIN calls : calls[i] \in Requests
    /\ stray \subseteq Puts \cup Proposals
HistoryOK ==
    /\ made \in 0..MaxEdits
    /\ owed \in [Drafts \X Files -> SUBSET Edits] /\ undone \subseteq Edits
    /\ mishaps \subseteq Mishaps
    /\ spent \in 0..MaxMishaps

\* The four parts of the type invariant.
LEMMA TypeParts == TypeOK <=> ServerOK /\ StoreOK /\ CallsOK /\ HistoryOK
BY DEF TypeOK, ServerOK, StoreOK, CallsOK, HistoryOK

\* What the fields of a request are, by its kind.
LEMMA Kinds ==
    ASSUME NEW r \in Requests
    PROVE  /\ r.kind \in {"load", "put", "propose", "create"}
           /\ r.kind = "load" => r \in Loads
           /\ r.kind = "put" => r \in Puts
           /\ r.kind = "propose" => r \in Proposals
           /\ r.kind = "create" => r = Creation
BY DEF Requests, Loads, Puts, Proposals, Creation

\* The requests that are made.
LEMMA MadeRequests ==
    ASSUME NEW d \in Drafts, NEW f \in Files, NEW t \in TextsOf,
           NEW o \in Offers \cup {Nothing}
    PROVE  /\ Load(d, f, "switch", Nothing) \in Requests /\ Load(d, f, "save", o) \in Requests
           /\ Put(d, f, t, o) \in Requests
           /\ Proposal(d) \in Requests
           /\ Creation \in Requests
<1>1. Load(d, f, "switch", Nothing) \in Loads /\ Load(d, f, "save", o) \in Loads
    BY DEF Load, Loads
<1>2. Put(d, f, t, o) \in Puts
    BY DEF Put, Puts
<1>3. Proposal(d) \in Proposals
    BY DEF Proposal, Proposals
<1> QED BY <1>1, <1>2, <1>3 DEF Requests

\* The requests in flight stay requests.
LEMMA CallsKept ==
    ASSUME CallsOK, NEW r, r \in Requests \/ r = Nothing
    PROVE  /\ r \in Requests /\ Send(r) => CallsOK'
           /\ \A i \in DOMAIN calls : r \in Requests /\ Follow(i, r) => CallsOK'
           /\ \A i \in DOMAIN calls : Drop(i) => CallsOK'
           /\ \A i \in DOMAIN calls :
                calls[i] \in Puts \cup Proposals /\ GiveUp(i) => CallsOK'
<1>1. ASSUME r \in Requests, Send(r) PROVE CallsOK'
    BY <1>1, Sent DEF CallsOK
<1>2. ASSUME NEW i \in DOMAIN calls, r \in Requests, Follow(i, r) PROVE CallsOK'
    <2>1. /\ DOMAIN calls' = DOMAIN calls /\ calls'[i] = r
          /\ \A j \in DOMAIN calls \ {i} : calls'[j] = calls[j]
          /\ stray' = stray
        BY <1>2, Followed
    <2>2. ASSUME NEW j \in DOMAIN calls' PROVE calls'[j] \in Requests
        BY <1>2, <2>1 DEF CallsOK
    <2> QED BY <2>1, <2>2 DEF CallsOK
<1>3. ASSUME NEW i \in DOMAIN calls, Drop(i) PROVE CallsOK'
    BY <1>3, DropLeaves DEF CallsOK
<1>4. ASSUME NEW i \in DOMAIN calls, calls[i] \in Puts \cup Proposals, GiveUp(i) PROVE CallsOK'
    BY <1>4, GiveUpLeaves DEF CallsOK
<1> QED BY <1>1, <1>2, <1>3, <1>4

\* What goes wrong is recorded.
LEMMA MishapOK ==
    ASSUME HistoryOK, NEW kinds \in SUBSET Mishaps,
           Mishap(kinds) \/ Meets(kinds) \/ UNCHANGED mishapVars
    PROVE  mishaps' \subseteq Mishaps /\ spent' \in 0..MaxMishaps
BY BoundAssumption DEF HistoryOK, Mishap, Meets, mishapVars

\* The kinds are those there are, and not forgotten.
LEMMA MeetsKinds ==
    /\ When(Pending, "haste") \in SUBSET Mishaps
    /\ SavingMishaps \in SUBSET Mishaps
    /\ \A u : SavingMishaps \cup When(u.text.of # <<draftId, file>>, "astray")
               \cup When(model # Edited(u.text, u.edit), "late") \in SUBSET Mishaps
    /\ \A kinds : Meets(kinds) => mishaps' = mishaps \cup kinds
BY DEF When, SavingMishaps, Mishaps, Meets, Mishap, mishapVars

\* What a save of the user's meets with.
LEMMA SavingMeets ==
    ASSUME Edit \/ \E u \in undos : Undo(u)
    PROVE  SavingMishaps \subseteq mishaps'
<1>1. CASE Edit
    BY <1>1, MeetsKinds DEF Edit
<1>2. ASSUME NEW u \in undos, Undo(u) PROVE SavingMishaps \subseteq mishaps'
    BY <1>2, MeetsKinds DEF Undo
<1> QED BY <1>1, <1>2

\* The user's own steps.
LEMMA ActingTypeKept ==
    ASSUME TypeOK, \/ (\E f \in Files : SetFile(f)) \/ Edit \/ (\E u \in undos : Undo(u))
                   \/ SwitchBranch \/ Propose
    PROVE  TypeOK'
<1>0. ServerOK /\ StoreOK /\ CallsOK /\ HistoryOK /\ draftId \in Drafts
    BY TypeParts DEF StoreOK, ServerOK
<1> SUFFICES ServerOK' /\ StoreOK' /\ CallsOK' /\ HistoryOK'
    BY TypeParts, PTL
<1>1. ASSUME Acts PROVE mishaps' \subseteq Mishaps /\ spent' \in 0..MaxMishaps
    BY <1>0, <1>1, MishapOK, MeetsKinds DEF Acts
<1>2. ASSUME NEW f \in Files, SetFile(f) PROVE ServerOK' /\ StoreOK' /\ CallsOK' /\ HistoryOK'
    <2>1. CallsOK'
        BY <1>0, <1>2, MadeRequests, CallsKept DEF SetFile, StoreOK
    <2> QED BY <1>0, <1>1, <1>2, <2>1 DEF SetFile, server, ledger, ServerOK, StoreOK, HistoryOK
<1>3. CASE Edit
    <2>1. made + 1 \in Edits /\ made' \in 0..MaxEdits
        BY <1>0, <1>3, BoundAssumption DEF Edit, HistoryOK, Edits
    <2>2. Edited(model, made + 1) \in TextsOf /\ Offer(model, made + 1) \in Offers
        BY <1>0, <2>1 DEF StoreOK, TextsOf, Edited, Offer, Offers
    <2>3. CallsOK'
        BY <1>0, <1>3, <2>2, MadeRequests, CallsKept DEF Edit, Save, StoreOK
    <2>4. mishaps' \subseteq Mishaps /\ spent' \in 0..MaxMishaps
        BY <1>0, <1>3, MishapOK, MeetsKinds DEF Edit
    <2> QED BY <1>0, <1>3, <2>1, <2>3, <2>4 DEF Edit, Save, server, ServerOK, StoreOK, HistoryOK
<1>6. ASSUME NEW u \in undos, Undo(u) PROVE ServerOK' /\ StoreOK' /\ CallsOK' /\ HistoryOK'
    <2>1. u.text \in TextsOf /\ u.edit \in Edits
        BY <1>0 DEF StoreOK, Offers
    <2>2. CallsOK'
        BY <1>0, <1>6, <2>1, MadeRequests, CallsKept DEF Undo, Save, StoreOK
    <2>3. mishaps' \subseteq Mishaps /\ spent' \in 0..MaxMishaps
        BY <1>0, <1>6, MishapOK, MeetsKinds DEF Undo
    <2>4. owed' \in [Drafts \X Files -> SUBSET Edits] /\ undone' \subseteq Edits
        BY <1>0, <1>6, <2>1 DEF Undo, HistoryOK
    <2> QED BY <1>0, <1>6, <2>2, <2>3, <2>4 DEF Undo, Save, server, ServerOK, StoreOK, HistoryOK
<1>4. CASE SwitchBranch
    <2>1. CallsOK'
        BY <1>0, <1>4, CallsKept DEF SwitchBranch, Requests
    <2> QED BY <1>0, <1>1, <1>4, <2>1 DEF SwitchBranch, server, store, ledger, ServerOK, StoreOK, HistoryOK
<1>5. CASE Propose
    <2>1. Proposal(draftId) \in Requests
        BY <1>0 DEF Proposal, Proposals, Requests
    <2>2. CallsOK'
        BY <1>0, <1>5, <2>1, CallsKept DEF Propose
    <2> QED BY <1>0, <1>1, <1>5, <2>2 DEF Propose, server, store, ledger, ServerOK, StoreOK, HistoryOK
<1> QED BY <1>2, <1>3, <1>4, <1>5, <1>6

\* The server's.
LEMMA ServingTypeKept ==
    ASSUME TypeOK, NEW i, Serve(i)
    PROVE  TypeOK'
<1>0. ServerOK /\ StoreOK /\ CallsOK /\ HistoryOK
    BY TypeParts
<1> SUFFICES ServerOK' /\ StoreOK' /\ CallsOK' /\ HistoryOK'
    BY TypeParts, PTL
<1>1. i \in DOMAIN calls /\ calls[i] \in Requests
    BY <1>0 DEF Serve, ServeLoad, ServePut, ServePropose, Is, CallsOK
<1>2. CASE ServeLoad(i)
    <2>1. calls[i] \in Loads
        BY <1>1, <1>2, Kinds DEF ServeLoad, Is
    <2>2. stored[calls[i].draft][calls[i].file] \in TextsOf
        BY <1>0, <2>1 DEF Loads, ServerOK
    <2>3. [calls[i] EXCEPT !.text = stored[calls[i].draft][calls[i].file]] \in Loads
        BY <2>1, <2>2 DEF Loads
    <2>4. CallsOK'
        BY <1>0, <1>1, <1>2, <2>3, CallsKept DEF ServeLoad, Requests
    <2> QED BY <1>0, <1>2, <2>4 DEF ServeLoad, server, store, history, ledger, mishapVars,
                                   ServerOK, StoreOK, HistoryOK
<1>3. CASE ServePut(i)
    <2>1. calls[i] \in Puts
        BY <1>1, <1>3, Kinds DEF ServePut, Is
    <2>2. [calls[i] EXCEPT !.done = TRUE] \in Puts
        BY <2>1 DEF Puts
    <2>3. CallsOK'
        BY <1>0, <1>1, <1>3, <2>2, CallsKept DEF ServePut, Requests
    <2>4. stored' \in [Drafts -> [Files -> TextsOf]]
        BY <1>0, <1>3, <2>1 DEF ServePut, ServerOK, Puts
    <2> QED BY <1>0, <1>3, <2>3, <2>4 DEF ServePut, store, history, ledger, mishapVars,
                                         ServerOK, StoreOK, HistoryOK
<1>4. CASE ServePropose(i)
    <2>1. calls[i] \in Proposals
        BY <1>1, <1>4, Kinds DEF ServePropose, Is
    <2>2. [calls[i] EXCEPT !.done = TRUE] \in Proposals
        BY <2>1 DEF Proposals
    <2>3. CallsOK'
        BY <1>0, <1>1, <1>4, <2>2, CallsKept DEF ServePropose, Requests
    <2>4. proposed' \in [Drafts -> [Files -> TextsOf] \cup {Nothing}]
        BY <1>0, <1>4, <2>1 DEF ServePropose, ServerOK, Proposals
    <2> QED BY <1>0, <1>4, <2>3, <2>4 DEF ServePropose, store, history, ledger, mishapVars,
                                         ServerOK, StoreOK, HistoryOK
<1> QED BY <1>2, <1>3, <1>4 DEF Serve

\* Also for a request that had been given up.
LEMMA StrayTypeKept ==
    ASSUME TypeOK, NEW r \in stray, ServeStray(r)
    PROVE  TypeOK'
<1>0. ServerOK /\ StoreOK /\ CallsOK /\ HistoryOK
    BY TypeParts
<1> SUFFICES ServerOK' /\ StoreOK' /\ CallsOK' /\ HistoryOK'
    BY TypeParts, PTL
<1>1. r \in Requests /\ (r \in Puts \/ r \in Proposals)
    BY <1>0 DEF CallsOK, Requests
<1>2. CASE r.kind = "put"
    <2>1. r \in Puts
        BY <1>1, <1>2, Kinds
    <2>2. stored' \in [Drafts -> [Files -> TextsOf]]
        BY <1>0, <1>2, <2>1 DEF ServeStray, ServerOK, Puts
    <2> QED BY <1>0, <1>2, <2>2 DEF ServeStray, store, ledger, Mishaps,
                                   ServerOK, StoreOK, CallsOK, HistoryOK
<1>3. CASE r.kind # "put"
    <2>1. r \in Proposals
        BY <1>1, <1>3 DEF Puts
    <2>2. proposed' \in [Drafts -> [Files -> TextsOf] \cup {Nothing}]
        BY <1>0, <1>3, <2>1 DEF ServeStray, ServerOK, Proposals
    <2> QED BY <1>0, <1>3, <2>2 DEF ServeStray, store, ledger, Mishaps,
                                   ServerOK, StoreOK, CallsOK, HistoryOK
<1> QED BY <1>2, <1>3

\* And the editor's, when an answer arrives.
LEMMA AnsweringTypeKept ==
    ASSUME TypeOK, NEW i, Answer(i)
    PROVE  TypeOK'
<1>0. ServerOK /\ StoreOK /\ CallsOK /\ HistoryOK /\ draftId \in Drafts
    BY TypeParts DEF StoreOK, ServerOK
<1> SUFFICES ServerOK' /\ StoreOK' /\ CallsOK' /\ HistoryOK'
    BY TypeParts, PTL
<1>1. i \in DOMAIN calls /\ calls[i] \in Requests
    BY <1>0 DEF Answer, LoadAnswered, LoadFails, PutAnswered, PutFails, CreateAnswered, CreateFails,
                ProposeAnswered, ProposeFails, MayFail, Is, CallsOK
<1>2. Drop(i) => CallsOK'
    BY <1>0, <1>1, CallsKept
<1>3. /\ SavingAfter(i) \in BOOLEAN
      /\ calls[i].kind = "load" => UndosAfter(i) \subseteq Offers
    BY <1>0, <1>1, Kinds DEF SavingAfter, UndosAfter, StoreOK, Loads
<1>4. CASE LoadAnswered(i)
    <2>1. calls[i].text \in TextsOf
        BY <1>1, <1>4, Kinds DEF LoadAnswered, Is, Loads
    <2> QED BY <1>0, <1>2, <1>3, <1>4, <2>1 DEF LoadAnswered, Is, server, history, ledger,
                                               mishapVars, ServerOK, StoreOK, HistoryOK
<1>5. CASE LoadFails(i)
    <2>1. mishaps' \subseteq Mishaps /\ spent' \in 0..MaxMishaps
        BY <1>0, <1>5, MishapOK DEF LoadFails, Mishaps
    <2> QED BY <1>0, <1>2, <1>3, <1>5, <2>1 DEF LoadFails, MayFail, Is, server, ledger,
                                               ServerOK, StoreOK, HistoryOK
<1>6. CASE PutAnswered(i)
    <2>1. calls[i] \in Puts
        BY <1>1, <1>6, Kinds DEF PutAnswered, Is
    <2>2. calls[i].text.edits \in SUBSET Edits /\ <<calls[i].draft, calls[i].file>> \in Drafts \X Files
        BY <2>1 DEF Puts, TextsOf
    <2>3. owed' \in [Drafts \X Files -> SUBSET Edits]
        BY <1>0, <1>6, <2>2 DEF PutAnswered, Acknowledge, HistoryOK
    <2>4. Load(draftId, file, "save", calls[i].offer) \in Requests
        BY <1>0, <2>1 DEF Load, Loads, Puts, Requests, StoreOK
    <2>5. CallsOK'
        BY <1>0, <1>1, <1>6, <2>4, CallsKept DEF PutAnswered
    <2> QED BY <1>0, <1>6, <2>3, <2>5 DEF PutAnswered, server, store, mishapVars,
                                         ServerOK, StoreOK, HistoryOK
<1>7. CASE PutFails(i)
    <2>1. mishaps' \subseteq Mishaps /\ spent' \in 0..MaxMishaps
        BY <1>0, <1>7, MishapOK DEF PutFails, Mishaps
    <2>2. CallsOK'
        BY <1>0, <1>1, <1>7, Kinds, CallsKept DEF PutFails, MayFail, Is
    <2> QED BY <1>0, <1>7, <2>1, <2>2 DEF PutFails, server, ledger, ServerOK, StoreOK, HistoryOK
<1>8. CASE CreateAnswered(i)
    <2>1. PICK d \in Drafts \ born :
            /\ born' = born \cup {d} /\ draftId' = d /\ file' = Landing
            /\ Follow(i, Load(d, Landing, "switch", Nothing))
        BY <1>8 DEF CreateAnswered
    <2>2. Load(d, Landing, "switch", Nothing) \in Requests
        BY LandingAssumption DEF Load, Loads, Requests
    <2>3. CallsOK'
        BY <1>0, <1>1, <2>1, <2>2, CallsKept
    <2> QED BY <1>0, <1>8, <2>1, <2>3, LandingAssumption
            DEF CreateAnswered, history, ledger, mishapVars, ServerOK, StoreOK, HistoryOK
<1>9. CASE CreateFails(i)
    BY <1>0, <1>2, <1>9 DEF CreateFails, server, store, history, ledger, mishapVars,
                            ServerOK, StoreOK, HistoryOK
<1>10. CASE ProposeAnswered(i)
    BY <1>0, <1>2, <1>10 DEF ProposeAnswered, server, history, ledger, mishapVars,
                             ServerOK, StoreOK, HistoryOK
<1>11. CASE ProposeFails(i)
    <2>1. mishaps' \subseteq Mishaps /\ spent' \in 0..MaxMishaps
        BY <1>0, <1>11, MishapOK DEF ProposeFails, Mishaps
    <2>2. CallsOK'
        BY <1>0, <1>1, <1>11, Kinds, CallsKept DEF ProposeFails, MayFail, Is
    <2> QED BY <1>0, <1>11, <2>1, <2>2 DEF ProposeFails, server, store, ledger,
                                          ServerOK, StoreOK, HistoryOK
<1> QED BY <1>4, <1>5, <1>6, <1>7, <1>8, <1>9, <1>10, <1>11 DEF Answer

\* All steps.
LEMMA TypeKept == TypeOK /\ [Next]_vars => TypeOK'
<1>1. ASSUME TypeOK, UNCHANGED vars PROVE TypeOK'
    BY <1>1 DEF vars, server, store, network, history, ledger, mishapVars, TypeOK
<1> QED BY <1>1, ActingTypeKept, ServingTypeKept, AnsweringTypeKept, StrayTypeKept DEF Next

\* The first state.
LEMMA TypeInit == Init => TypeOK
<1> SUFFICES ASSUME Init PROVE TypeOK
    OBVIOUS
<1>1. \A d \in Drafts, f \in Files : Fresh(d, f) \in TextsOf
    BY DEF Fresh, TextsOf
<1>2. ServerOK
    BY <1>1, LandingAssumption DEF Init, ServerOK
<1>3. StoreOK
    BY <1>1, LandingAssumption DEF Init, StoreOK
<1>4. CallsOK
    BY DEF Init, CallsOK
<1>5. HistoryOK
    BY BoundAssumption DEF Init, HistoryOK
<1> QED BY <1>2, <1>3, <1>4, <1>5, TypeParts

\* The server, the store and the requests in flight are what their names say.
THEOREM TypeCorrect == Spec => []TypeOK
BY TypeInit, TypeKept, PTL DEF Spec

-----------------------------------------------------------------------------
(* Saving.                                                                 *)

\* The save under way is the only one, unless two overlapped.
Saves ==
    /\ saving => \E i \in DOMAIN calls : InSave(i)
    /\ Without({"overlap"}) =>
        /\ \A i \in DOMAIN calls : InSave(i) => saving
        /\ \A i, j \in DOMAIN calls : InSave(i) /\ InSave(j) => i = j

\* A request that is no save and leaves `saving` alone keeps this, whether it
\* is sent, followed by another or dropped.
LEMMA NoSave ==
    ASSUME Saves, mishaps \subseteq mishaps', saving' = saving,
           \A j \in DOMAIN calls : InSave(j) => j \in DOMAIN calls' /\ InSave(j)',
           \A j \in DOMAIN calls' : InSave(j)' => j \in DOMAIN calls /\ InSave(j)
    PROVE  Saves'
BY DEF Saves, Without

\* The end of a save.
LEMMA SaveEnds ==
    ASSUME Saves, mishaps \subseteq mishaps', NEW i \in DOMAIN calls, InSave(i),
           Drop(i) \/ GiveUp(i), saving' = FALSE
    PROVE  Saves'
<1>1. /\ DOMAIN calls' = DOMAIN calls \ {i}
      /\ \A j \in DOMAIN calls \ {i} : calls'[j] = calls[j]
    BY DropLeaves, GiveUpLeaves
<1>2. \A j \in DOMAIN calls' : InSave(j)' => InSave(j) /\ j # i
    BY <1>1 DEF InSave, Is
<1>3. ASSUME Without({"overlap"})' PROVE \A j \in DOMAIN calls' : ~InSave(j)'
    <2>1. Without({"overlap"})
        BY <1>3 DEF Without
    <2> QED BY <1>1, <1>2, <2>1 DEF Saves
<1> QED BY <1>3 DEF Saves

\* What is said of a request by its kind is not changed by serving it.
LEMMA SameSave ==
    ASSUME NEW i \in DOMAIN calls, NEW r, Follow(i, r), NEW j,
           r.kind = calls[i].kind, r.kind = "load" => r.after = calls[i].after
    PROVE  (j \in DOMAIN calls' <=> j \in DOMAIN calls) /\ (InSave(j)' <=> InSave(j))
<1>1. /\ DOMAIN calls' = DOMAIN calls /\ calls'[i] = r
      /\ \A k \in DOMAIN calls \ {i} : calls'[k] = calls[k]
    BY Followed
<1> QED BY <1>1 DEF InSave, Is

\* The mishaps there have been are not forgotten.
LEMMA MishapsKept == ASSUME [Next]_vars PROVE mishaps \subseteq mishaps'
<1>1. (Acts \/ \E kinds \in SUBSET Mishaps : Mishap(kinds) \/ Meets(kinds))
        => mishaps \subseteq mishaps'
    BY MeetsKinds DEF Acts, Mishap, mishapVars
<1>2. CASE UNCHANGED vars
    BY <1>2 DEF vars, history, mishapVars
<1>3. CASE (\E f \in Files : SetFile(f)) \/ SwitchBranch \/ Propose
    BY <1>1, <1>3 DEF SetFile, SwitchBranch, Propose
<1>4. CASE Edit \/ (\E u \in undos : Undo(u)) \/ (\E r \in stray : ServeStray(r))
    BY <1>4, MeetsKinds DEF Edit, Undo, ServeStray
<1>5. ASSUME NEW i, Serve(i) PROVE mishaps \subseteq mishaps'
    BY <1>5 DEF Serve, ServeLoad, ServePut, ServePropose, history, mishapVars
<1>6. ASSUME NEW i, Answer(i) PROVE mishaps \subseteq mishaps'
    BY <1>6 DEF Answer, LoadAnswered, LoadFails, PutAnswered, PutFails, CreateAnswered, CreateFails,
                ProposeAnswered, ProposeFails, Mishap, history, mishapVars
<1> QED BY <1>2, <1>3, <1>4, <1>5, <1>6 DEF Next

\* Every step keeps it.
LEMMA SavesKept == ASSUME TypeOK, Saves, [Next]_vars PROVE Saves'
<1>0. CallsOK /\ mishaps \subseteq mishaps'
    BY TypeParts, MishapsKept
<1>1. CASE UNCHANGED vars
    BY <1>1 DEF vars, store, network, history, mishapVars, Saves, InSave, Is, Without
<1>2. ASSUME NEW r, Send(r), r.kind # "put", r.kind = "load" => r.after = "switch", saving' = saving
      PROVE  Saves'
    <2>1. PICK i \in 1..MaxCalls :
            /\ i \notin DOMAIN calls
            /\ DOMAIN calls' = DOMAIN calls \cup {i} /\ calls'[i] = r
            /\ \A j \in DOMAIN calls : calls'[j] = calls[j]
        BY <1>2, Sent
    <2>2. \A j \in DOMAIN calls' : InSave(j)' => j \in DOMAIN calls /\ InSave(j)
        BY <1>2, <2>1 DEF InSave, Is
    <2>3. \A j \in DOMAIN calls : InSave(j) => j \in DOMAIN calls' /\ InSave(j)'
        BY <2>1 DEF InSave, Is
    <2> QED BY <1>0, <1>2, <2>2, <2>3, NoSave
<1>3. ASSUME NEW i \in DOMAIN calls, Drop(i) \/ GiveUp(i), ~InSave(i), saving' = saving
      PROVE  Saves'
    <2>1. /\ DOMAIN calls' = DOMAIN calls \ {i}
          /\ \A j \in DOMAIN calls \ {i} : calls'[j] = calls[j]
        BY <1>3, DropLeaves, GiveUpLeaves
    <2>2. \A j \in DOMAIN calls' : InSave(j)' => j \in DOMAIN calls /\ InSave(j)
        BY <2>1 DEF InSave, Is
    <2>3. \A j \in DOMAIN calls : InSave(j) => j \in DOMAIN calls' /\ InSave(j)'
        BY <1>3, <2>1 DEF InSave, Is
    <2> QED BY <1>0, <1>3, <2>2, <2>3, NoSave
<1>4. ASSUME NEW f \in Files, SetFile(f) PROVE Saves'
    BY <1>2, <1>4 DEF SetFile, Load
<1>5. CASE SwitchBranch \/ Propose
    BY <1>2, <1>5 DEF SwitchBranch, Propose, Creation, Proposal, store
<1>6. CASE Edit \/ \E u \in undos : Undo(u)
    <2>0. PICK r : Send(r) /\ r.kind = "put" /\ saving'
        BY <1>6 DEF Edit, Undo, Save, Put
    <2>1. PICK i \in 1..MaxCalls :
            /\ i \notin DOMAIN calls
            /\ DOMAIN calls' = DOMAIN calls \cup {i} /\ calls'[i] = r
            /\ \A j \in DOMAIN calls : calls'[j] = calls[j]
        BY <2>0, Sent
    <2>2. \A j \in DOMAIN calls' : InSave(j)' => j = i \/ (j \in DOMAIN calls /\ InSave(j))
        BY <2>1 DEF InSave, Is
    <2>3. InSave(i)' /\ saving'
        BY <2>0, <2>1 DEF InSave, Is
    <2>4. ASSUME Without({"overlap"})' PROVE \A j \in DOMAIN calls' : InSave(j)' => j = i
        <3>1. SavingMishaps \subseteq mishaps'
            BY <1>6, SavingMeets
        <3>2. ~saving /\ Without({"overlap"})
            BY <1>0, <2>4, <3>1 DEF SavingMishaps, When, Without
        <3> QED BY <2>2, <3>2 DEF Saves
    <2> QED BY <2>1, <2>3, <2>4 DEF Saves
<1>7. ASSUME NEW i, Serve(i) PROVE Saves'
    <2>1. PICK r : /\ i \in DOMAIN calls /\ Follow(i, r)
                   /\ r.kind = calls[i].kind /\ (r.kind = "load" => r.after = calls[i].after)
        <3>1. i \in DOMAIN calls /\ calls[i] \in Requests
            BY <1>0, <1>7 DEF Serve, ServeLoad, ServePut, ServePropose, Is, CallsOK
        <3>2. CASE ServeLoad(i)
            BY <3>1, <3>2, Kinds DEF ServeLoad, Is, Loads
        <3>3. CASE ServePut(i)
            BY <3>1, <3>3, Kinds DEF ServePut, Is, Puts
        <3>4. CASE ServePropose(i)
            BY <3>1, <3>4, Kinds DEF ServePropose, Is, Proposals
        <3> QED BY <1>7, <3>2, <3>3, <3>4 DEF Serve
    <2>2. saving' = saving
        BY <1>7 DEF Serve, ServeLoad, ServePut, ServePropose, store
    <2> QED BY <1>0, <2>1, <2>2, SameSave, NoSave
<1>8. ASSUME NEW i, Answer(i) PROVE Saves'
    <2>1. i \in DOMAIN calls
        BY <1>8 DEF Answer, LoadAnswered, LoadFails, PutAnswered, PutFails, CreateAnswered, CreateFails,
                    ProposeAnswered, ProposeFails, MayFail, Is
    <2>2. CASE LoadAnswered(i) \/ LoadFails(i)
        <3>1. Is(i, "load") /\ Drop(i) /\ saving' = SavingAfter(i)
            BY <2>2 DEF LoadAnswered, LoadFails, MayFail
        <3>2. CASE calls[i].after = "save"
            BY <1>0, <2>1, <3>1, <3>2, SaveEnds DEF SavingAfter, InSave
        <3>3. CASE calls[i].after # "save"
            BY <1>3, <2>1, <3>1, <3>3 DEF SavingAfter, InSave, Is
        <3> QED BY <3>2, <3>3
    <2>3. CASE PutAnswered(i)
        <3>1. /\ DOMAIN calls' = DOMAIN calls /\ calls'[i] = Load(draftId, file, "save", calls[i].offer)
              /\ \A j \in DOMAIN calls \ {i} : calls'[j] = calls[j]
              /\ calls[i].kind = "put" /\ saving' = saving
            BY <2>1, <2>3, Followed DEF PutAnswered, Is, store
        <3>2. InSave(i) /\ InSave(i)'
            BY <2>1, <3>1 DEF InSave, Is, Load
        <3>3. \A j \in DOMAIN calls \ {i} : InSave(j)' <=> InSave(j)
            BY <3>1 DEF InSave, Is
        <3> QED BY <1>0, <3>1, <3>2, <3>3, NoSave
    <2>4. CASE PutFails(i)
        BY <1>0, <2>1, <2>4, SaveEnds DEF PutFails, MayFail, InSave
    <2>5. CASE CreateAnswered(i)
        <3>1. PICK d : Follow(i, Load(d, Landing, "switch", Nothing))
            BY <2>5 DEF CreateAnswered
        <3>2. /\ DOMAIN calls' = DOMAIN calls /\ calls'[i] = Load(d, Landing, "switch", Nothing)
              /\ \A j \in DOMAIN calls \ {i} : calls'[j] = calls[j]
              /\ calls[i].kind = "create" /\ saving' = saving
            BY <2>1, <2>5, <3>1, Followed DEF CreateAnswered, Is
        <3>3. ~InSave(i) /\ ~InSave(i)'
            BY <3>2 DEF InSave, Is, Load
        <3>4. \A j \in DOMAIN calls \ {i} : InSave(j)' <=> InSave(j)
            BY <3>2 DEF InSave, Is
        <3> QED BY <1>0, <3>2, <3>3, <3>4, NoSave
    <2>6. CASE CreateFails(i) \/ ProposeAnswered(i) \/ ProposeFails(i)
        <3>1. /\ Drop(i) \/ GiveUp(i)
              /\ saving' = saving /\ calls[i].kind \in {"create", "propose"}
            BY <2>6 DEF CreateFails, ProposeAnswered, ProposeFails, MayFail, Is, store
        <3> QED BY <1>3, <2>1, <3>1 DEF InSave, Is
    <2> QED BY <1>8, <2>2, <2>3, <2>4, <2>5, <2>6 DEF Answer
<1>9. ASSUME NEW r \in stray, ServeStray(r) PROVE Saves'
    BY <1>0, <1>9, NoSave DEF ServeStray, store, InSave, Is
<1> QED BY <1>1, <1>4, <1>5, <1>6, <1>7, <1>8, <1>9 DEF Next

\* `saving` says that a save is under way, whatever fails and however hasty
\* the user is.
THEOREM SavingHolds == Spec => []SavingIsTrue
<1>1. Init => TypeOK /\ Saves
    BY TypeInit DEF Init, Saves
<1>2. TypeOK /\ Saves /\ [Next]_vars => TypeOK' /\ Saves'
    BY TypeKept, SavesKept
<1>3. Saves => SavingIsTrue
    BY DEF Saves, SavingIsTrue
<1> QED BY <1>1, <1>2, <1>3, PTL DEF Spec

-----------------------------------------------------------------------------
(* A user who waits.                                                       *)

\* At most one request is in flight.
Alone == Without({"haste"}) => \A i, j \in DOMAIN calls : i = j

\* The steps of the user, and what follows the answers.
LEMMA Waits ==
    ASSUME Without({"haste"})',
           \/ (\E f \in Files : SetFile(f)) \/ Edit \/ (\E u \in undos : Undo(u))
           \/ SwitchBranch \/ Propose
    PROVE  ~Pending
<1>1. CASE Edit \/ \E u \in undos : Undo(u)
    BY <1>1, SavingMeets DEF SavingMishaps, When, Without
<1>2. CASE (\E f \in Files : SetFile(f)) \/ SwitchBranch \/ Propose
    BY <1>2, MeetsKinds DEF SetFile, SwitchBranch, Propose, Acts, When, Without
<1> QED BY <1>1, <1>2

\* The first request of nothing.
LEMMA SentAlone ==
    ASSUME ~Pending, NEW r, Send(r)
    PROVE  \E i : DOMAIN calls' = {i} /\ calls'[i] = r /\ stray' = stray
BY Sent DEF Pending

\* No others come in between.
LEMMA AloneKept == ASSUME Alone, [Next]_vars PROVE Alone'
<1> SUFFICES ASSUME Without({"haste"})' PROVE \A i, j \in DOMAIN calls' : i = j
    BY DEF Alone
<1>0. \A i, j \in DOMAIN calls : i = j
    BY MishapsKept DEF Alone, Without
<1>1. CASE UNCHANGED vars
    BY <1>0, <1>1 DEF vars, network
<1>2. CASE \/ (\E f \in Files : SetFile(f)) \/ Edit \/ (\E u \in undos : Undo(u))
           \/ SwitchBranch \/ Propose
    <2>1. PICK r : Send(r)
        BY <1>2 DEF SetFile, Edit, Undo, Save, SwitchBranch, Propose
    <2> QED BY <1>2, <2>1, Waits, SentAlone
<1>3. ASSUME NEW i, Serve(i) \/ Answer(i) PROVE DOMAIN calls' \subseteq DOMAIN calls
    <2>1. Drop(i) \/ GiveUp(i) \/ \E r : Follow(i, r)
        BY <1>3 DEF Serve, ServeLoad, ServePut, ServePropose,
                    Answer, LoadAnswered, LoadFails, PutAnswered, PutFails, CreateAnswered, CreateFails,
                    ProposeAnswered, ProposeFails
    <2> QED BY <2>1 DEF Drop, GiveUp, Dropped, Follow
<1>4. CASE \E r \in stray : ServeStray(r)
    BY <1>0, <1>4 DEF ServeStray
<1> QED BY <1>0, <1>1, <1>2, <1>3, <1>4 DEF Next

\* What an answer, or the server, makes of the only request.
LEMMA Only ==
    ASSUME Alone, Without({"haste"}), NEW i \in DOMAIN calls
    PROVE  /\ DOMAIN calls = {i}
           /\ Drop(i) \/ GiveUp(i) => DOMAIN calls' = {}
           /\ \A r : Follow(i, r) => DOMAIN calls' = {i} /\ calls'[i] = r
BY Followed DEF Alone, Drop, GiveUp, Dropped, Follow

\* Which request a step is about.
LEMMA Settles ==
    ASSUME NEW i, Serve(i) \/ Answer(i)
    PROVE  i \in DOMAIN calls
BY DEF Serve, ServeLoad, ServePut, ServePropose, MayFail, Is,
       Answer, LoadAnswered, LoadFails, PutAnswered, PutFails, CreateAnswered, CreateFails,
       ProposeAnswered, ProposeFails

\* What has been given up had failed.
Strays == \A r \in stray : r.kind \in mishaps

LEMMA StraysKept == ASSUME TypeOK, Strays, [Next]_vars PROVE Strays'
<1>0. mishaps \subseteq mishaps'
    BY MishapsKept
<1>1. CASE stray' \subseteq stray
    BY <1>0, <1>1 DEF Strays
<1>2. ASSUME NEW i, PutFails(i) \/ ProposeFails(i) PROVE Strays'
    <2>1. stray' \subseteq stray \cup {calls[i]} /\ calls[i].kind \in mishaps'
        BY <1>2, GiveUpLeaves DEF PutFails, ProposeFails, MayFail, Is, Mishap
    <2> QED BY <1>0, <2>1 DEF Strays
<1>3. ASSUME NEW r, Send(r) PROVE stray' = stray
    BY <1>3 DEF Send
<1>4. ASSUME NEW i, Drop(i) \/ \E r : Follow(i, r) PROVE stray' = stray
    BY <1>4 DEF Drop, Follow
<1>5. CASE \/ (\E f \in Files : SetFile(f)) \/ Edit \/ (\E u \in undos : Undo(u))
           \/ SwitchBranch \/ Propose
    BY <1>1, <1>3, <1>5 DEF SetFile, Edit, Undo, Save, SwitchBranch, Propose
<1>6. ASSUME NEW i, Serve(i) PROVE Strays'
    BY <1>1, <1>4, <1>6 DEF Serve, ServeLoad, ServePut, ServePropose
<1>7. ASSUME NEW i, Answer(i) PROVE Strays'
    BY <1>1, <1>2, <1>4, <1>7
       DEF Answer, LoadAnswered, LoadFails, PutAnswered, CreateAnswered, CreateFails,
           ProposeAnswered
<1>8. CASE (\E r \in stray : ServeStray(r)) \/ UNCHANGED vars
    BY <1>1, <1>8 DEF ServeStray, vars, network
<1> QED BY <1>5, <1>6, <1>7, <1>8 DEF Next

\* What is shown, or about to be, is what is stored.
Shows ==
    /\ (\A i \in DOMAIN calls : calls[i].kind \notin {"load", "put"})
          => model = stored[draftId][file]
    /\ \A i \in DOMAIN calls : calls[i].kind = "load" =>
          /\ calls[i].draft = draftId /\ calls[i].file = file
          /\ calls[i].text \in {Nothing, stored[draftId][file]}

LEMMA ShowsKept ==
    ASSUME TypeOK, Alone, Strays, Without({"haste", "load", "put"}) => Shows, [Next]_vars,
           Without({"haste", "load", "put"})'
    PROVE  Shows'
<1>0. CallsOK /\ Without({"haste"})' /\ Without({"haste"}) /\ Shows
    BY TypeParts, MishapsKept DEF Without
<1>1. CASE UNCHANGED vars
    BY <1>0, <1>1 DEF vars, server, store, network, Shows
<1>2. ASSUME NEW f \in Files, SetFile(f) PROVE Shows'
    <2>1. PICK i : DOMAIN calls' = {i} /\ calls'[i] = Load(draftId, f, "switch", Nothing)
        BY <1>0, <1>2, Waits, SentAlone DEF SetFile
    <2> QED BY <1>2, <2>1 DEF SetFile, Load, Shows
<1>3. CASE Edit \/ \E u \in undos : Undo(u)
    <2>1. PICK r : Send(r) /\ r.kind = "put" /\ ~Pending
        BY <1>0, <1>3, Waits DEF Edit, Undo, Save, Put
    <2>2. PICK i : DOMAIN calls' = {i} /\ calls'[i] = r
        BY <2>1, SentAlone
    <2> QED BY <2>1, <2>2 DEF Shows
<1>4. CASE SwitchBranch \/ Propose
    <2>1. ~Pending /\ UNCHANGED <<server, store>>
        BY <1>0, <1>4, Waits DEF SwitchBranch, Propose
    <2>2. PICK i : DOMAIN calls' = {i} /\ calls'[i] \in {Creation, Proposal(draftId)}
        BY <1>4, <2>1, SentAlone DEF SwitchBranch, Propose
    <2>3. calls'[i].kind \in {"create", "propose"}
        BY <2>2 DEF Creation, Proposal
    <2> QED BY <1>0, <2>1, <2>2, <2>3 DEF Pending, server, store, Shows
<1>5. ASSUME NEW i, Serve(i) PROVE Shows'
    <2>1. /\ i \in DOMAIN calls /\ calls[i] \in Requests /\ UNCHANGED store
          /\ DOMAIN calls = {i} /\ \A r : Follow(i, r) => DOMAIN calls' = {i} /\ calls'[i] = r
        BY <1>0, <1>5, Settles, Only DEF CallsOK, Serve, ServeLoad, ServePut, ServePropose
    <2>2. CASE ServeLoad(i)
        <3>1. calls[i] \in Loads /\ calls[i].kind = "load" /\ UNCHANGED server
            BY <2>1, <2>2, Kinds DEF ServeLoad, Is
        <3>2. calls'[i] = [calls[i] EXCEPT !.text = stored[draftId][file]]
            BY <1>0, <2>1, <2>2, <3>1 DEF ServeLoad, Shows
        <3>3. /\ calls'[i].kind = "load" /\ calls'[i].draft = draftId /\ calls'[i].file = file
              /\ calls'[i].text = stored[draftId][file]
            BY <1>0, <2>1, <3>1, <3>2 DEF Loads, Shows
        <3> QED BY <2>1, <2>2, <3>1, <3>3 DEF ServeLoad, server, store, Shows
    <2>3. CASE ServePut(i)
        <3>1. calls[i] \in Puts /\ calls'[i] = [calls[i] EXCEPT !.done = TRUE]
            BY <2>1, <2>3, Kinds DEF ServePut, Is
        <3>2. calls'[i].kind = "put"
            BY <3>1 DEF Puts
        <3> QED BY <2>1, <2>3, <3>2 DEF ServePut, Shows
    <2>4. CASE ServePropose(i)
        <3>1. calls[i] \in Proposals /\ calls'[i] = [calls[i] EXCEPT !.done = TRUE]
            BY <2>1, <2>4, Kinds DEF ServePropose, Is
        <3>2. calls'[i].kind = "propose" /\ calls[i].kind = "propose"
            BY <3>1 DEF Proposals
        <3> QED BY <1>0, <2>1, <2>4, <3>2 DEF ServePropose, store, Shows
    <2> QED BY <1>5, <2>2, <2>3, <2>4 DEF Serve
<1>6. ASSUME NEW i, Answer(i) PROVE Shows'
    <2>1. /\ i \in DOMAIN calls /\ DOMAIN calls = {i}
          /\ Drop(i) \/ GiveUp(i) => DOMAIN calls' = {}
          /\ \A r : Follow(i, r) => DOMAIN calls' = {i} /\ calls'[i] = r
        BY <1>0, <1>6, Settles, Only
    <2>2. CASE LoadAnswered(i)
        BY <1>0, <2>1, <2>2 DEF LoadAnswered, Is, server, Shows
    <2>3. CASE LoadFails(i) \/ PutFails(i)
        BY <2>3 DEF LoadFails, PutFails, Mishap, Without
    <2>4. CASE PutAnswered(i)
        BY <2>1, <2>4 DEF PutAnswered, Load, store, Shows
    <2>5. CASE CreateAnswered(i)
        <3>1. PICK d : /\ draftId' = d /\ file' = Landing
                       /\ Follow(i, Load(d, Landing, "switch", Nothing))
            BY <2>5 DEF CreateAnswered
        <3> QED BY <2>1, <3>1 DEF Load, Shows
    <2>6. CASE CreateFails(i) \/ ProposeAnswered(i) \/ ProposeFails(i)
        BY <1>0, <2>1, <2>6 DEF CreateFails, ProposeAnswered, ProposeFails, MayFail, Is, server, store, Shows
    <2> QED BY <1>6, <2>2, <2>3, <2>4, <2>5, <2>6 DEF Answer
<1>7. ASSUME NEW r \in stray, ServeStray(r) PROVE Shows'
    <2>1. r.kind # "put"
        BY MishapsKept DEF Strays, Without
    <2> QED BY <1>0, <1>7, <2>1 DEF ServeStray, store, Shows
<1> QED BY <1>1, <1>2, <1>3, <1>4, <1>5, <1>6, <1>7 DEF Next

\* A patient user sees what is stored.
THEOREM PatientSees == Spec => []PatientSeesStored
<1> DEFINE J == TypeOK /\ Alone /\ Strays /\ (Without({"haste", "load", "put"}) => Shows)
<1>1. Init => J
    <2> SUFFICES ASSUME Init PROVE TypeOK /\ Alone /\ Strays /\ Shows
        OBVIOUS
    <2>1. TypeOK
        BY TypeInit
    <2>2. DOMAIN calls = {} /\ stray = {} /\ model = stored[draftId][file]
        BY LandingAssumption DEF Init
    <2> QED BY <2>1, <2>2 DEF Alone, Strays, Shows
<1>2. J /\ [Next]_vars => J'
    <2>1. ASSUME J, [Next]_vars PROVE TypeOK' /\ Alone' /\ Strays'
        BY <2>1, TypeKept, AloneKept, StraysKept
    <2>2. ASSUME J, [Next]_vars, Without({"haste", "load", "put"})' PROVE Shows'
        BY <2>2, ShowsKept
    <2> QED BY <2>1, <2>2
<1>3. J => PatientSeesStored
    BY DEF PatientSeesStored, ShownIsStored, Shows, Pending
<1> QED BY <1>1, <1>2, <1>3, PTL DEF Spec

-----------------------------------------------------------------------------
(* Own texts and own edits.                                                *)

\* Nothing was undone after a later edit, and nothing given up was served.
Tidy == Without({"late", "stray"})

\* A text of the file, with all edits the file has been acknowledged.
Good(t, d, f) ==
    /\ t.of = <<d, f>>
    /\ Tidy => owed[<<d, f>>] \subseteq t.edits

\* Good texts are stored, shown, and in flight; what has been given up was at
\* least a text of its file.
Owns ==
    /\ \A d \in Drafts, f \in Files : Good(stored[d][f], d, f)
    /\ (\A i \in DOMAIN calls : calls[i].kind # "load") => Good(model, draftId, file)
    /\ \A i \in DOMAIN calls : calls[i].kind = "load" =>
          /\ calls[i].draft = draftId /\ calls[i].file = file
          /\ calls[i].text # Nothing => Good(calls[i].text, draftId, file)
    /\ \A i \in DOMAIN calls : calls[i].kind = "put" =>
          /\ calls[i].draft = draftId /\ calls[i].file = file
          /\ Good(calls[i].text, draftId, file)
          /\ Tidy /\ calls[i].done => stored[draftId][file] = calls[i].text
    /\ \A r \in stray : r.kind = "put" => r.text.of = <<r.draft, r.file>>

\* The mishaps that make no difference to whose a text is.
Steady == Without({"haste", "load", "astray"})

\* A good text remains good when there is no more to have.
LEMMA GoodKept ==
    ASSUME [Next]_vars, NEW t, NEW d \in Drafts, NEW f \in Files, Good(t, d, f),
           owed'[<<d, f>>] \subseteq owed[<<d, f>>]
    PROVE  /\ t.of = <<d, f>>
           /\ Tidy' => owed'[<<d, f>>] \subseteq t.edits
BY MishapsKept DEF Good, Tidy, Without

LEMMA OwnsKept ==
    ASSUME TypeOK, Alone, Steady => Owns, [Next]_vars, Steady'
    PROVE  Owns'
<1> DEFINE Fine(t, d, f) == /\ t.of = <<d, f>>
                            /\ Tidy' => owed'[<<d, f>>] \subseteq t.edits
<1>0. /\ ServerOK /\ StoreOK /\ CallsOK /\ HistoryOK /\ draftId \in Drafts /\ file \in Files
      /\ Without({"haste"})' /\ Without({"haste"}) /\ Owns /\ (Tidy' => Tidy)
    BY TypeParts, MishapsKept DEF Without, Steady, Tidy, StoreOK, ServerOK
<1>a. ASSUME /\ \A d \in Drafts, f \in Files : Fine(stored'[d][f], d, f)
             /\ (\A i \in DOMAIN calls' : calls'[i].kind # "load") => Fine(model', draftId', file')
             /\ \A i \in DOMAIN calls' : calls'[i].kind = "load" =>
                   /\ calls'[i].draft = draftId' /\ calls'[i].file = file'
                   /\ calls'[i].text # Nothing => Fine(calls'[i].text, draftId', file')
             /\ \A i \in DOMAIN calls' : calls'[i].kind = "put" =>
                   /\ calls'[i].draft = draftId' /\ calls'[i].file = file'
                   /\ Fine(calls'[i].text, draftId', file')
                   /\ Tidy' /\ calls'[i].done => stored'[draftId'][file'] = calls'[i].text
             /\ \A r \in stray' : r.kind = "put" => r.text.of = <<r.draft, r.file>>
      PROVE  Owns'
    BY <1>a DEF Owns, Good
<1>b. ASSUME owed' = owed \/ \E n : owed' = [df \in Drafts \X Files |-> owed[df] \ {n}]
      PROVE  \A d \in Drafts, f \in Files : \A t : Good(t, d, f) => Fine(t, d, f)
    <2>1. \A d \in Drafts, f \in Files : owed'[<<d, f>>] \subseteq owed[<<d, f>>]
        BY <1>b
    <2> QED BY <2>1, GoodKept
<1>c. ASSUME owed' = owed PROVE \A d \in Drafts, f \in Files : \A t : Good(t, d, f) => Fine(t, d, f)
    BY <1>b, <1>c
<1> HIDE DEF Fine
<1>1. CASE UNCHANGED vars
    <2>1. UNCHANGED <<stored, model, draftId, file, calls, stray, owed>>
        BY <1>1 DEF vars, server, store, network, history, ledger
    <2> QED BY <1>0, <1>a, <1>c, <2>1 DEF Owns
<1>2. ASSUME NEW f \in Files, SetFile(f) PROVE Owns'
    <2>1. PICK i : DOMAIN calls' = {i} /\ calls'[i] = Load(draftId, f, "switch", Nothing) /\ stray' = stray
        BY <1>0, <1>2, Waits, SentAlone DEF SetFile
    <2>2. UNCHANGED <<stored, draftId, owed>> /\ file' = f
        BY <1>2 DEF SetFile, server, ledger
    <2>3. /\ calls'[i].kind = "load" /\ calls'[i].draft = draftId /\ calls'[i].file = f
          /\ calls'[i].text = Nothing
        BY <2>1 DEF Load
    <2> QED BY <1>0, <1>a, <1>c, <2>1, <2>2, <2>3 DEF Owns
<1>3. ASSUME NEW t, NEW o, Save(t, o), ~Pending, Fine(t, draftId, file), Fine(model, draftId, file),
             \A d \in Drafts, f \in Files : Fine(stored[d][f], d, f)
      PROVE  Owns'
    <2>1. Send(Put(draftId, file, t, o)) /\ UNCHANGED <<stored, draftId, file, model>>
        BY <1>3 DEF Save, server
    <2>2. PICK i : DOMAIN calls' = {i} /\ calls'[i] = Put(draftId, file, t, o) /\ stray' = stray
        BY <1>3, <2>1, SentAlone
    <2>3. /\ calls'[i].kind = "put" /\ calls'[i].draft = draftId /\ calls'[i].file = file
          /\ calls'[i].text = t /\ ~calls'[i].done
        BY <2>2 DEF Put
    <2> QED BY <1>0, <1>3, <1>a, <2>1, <2>2, <2>3 DEF Owns
<1>4. CASE Edit
    <2> DEFINE t == Edited(model, made + 1)
    <2>1. ~Pending /\ owed' = owed /\ \E o : Save(t, o)
        BY <1>0, <1>4, Waits DEF Edit
    <2>2. Good(model, draftId, file)
        BY <1>0, <2>1 DEF Pending, Owns
    <2>3. Good(t, draftId, file)
        BY <1>0, <2>2 DEF Good, StoreOK, TextsOf, Edited
    <2> HIDE DEF t
    <2>4. \A d \in Drafts, f \in Files : Fine(stored[d][f], d, f)
        BY <1>0, <1>c, <2>1 DEF Owns
    <2> QED BY <1>0, <1>3, <1>c, <2>1, <2>2, <2>3, <2>4
<1>5. ASSUME NEW u \in undos, Undo(u) PROVE Owns'
    <2>1. ~Pending /\ Save(u.text, Nothing)
        BY <1>0, <1>5, Waits DEF Undo
    <2>2. owed' = [df \in Drafts \X Files |-> owed[df] \ {u.edit}]
        BY <1>5 DEF Undo
    <2>3. /\ When(u.text.of # <<draftId, file>>, "astray") \subseteq mishaps'
          /\ When(model # Edited(u.text, u.edit), "late") \subseteq mishaps'
        BY <1>5, MeetsKinds DEF Undo
    <2>4. u.text.of = <<draftId, file>> /\ (Tidy' => model = Edited(u.text, u.edit))
        BY <2>3 DEF Steady, Tidy, Without, When
    <2>5. Good(model, draftId, file)
        BY <1>0, <2>1 DEF Pending, Owns
    <2>6. u.text \in TextsOf
        BY <1>0 DEF StoreOK, Offers
    <2>7. ASSUME Tidy' PROVE owed'[<<draftId, file>>] \subseteq u.text.edits
        <3>1. model.edits = u.text.edits \cup {u.edit}
            BY <2>4, <2>6, <2>7 DEF Edited, TextsOf
        <3>2. owed[<<draftId, file>>] \subseteq model.edits
            BY <1>0, <2>5, <2>7 DEF Good
        <3>3. owed'[<<draftId, file>>] = owed[<<draftId, file>>] \ {u.edit}
            BY <1>0, <2>2
        <3> QED BY <3>1, <3>2, <3>3
    <2>8. Fine(u.text, draftId, file)
        BY <2>4, <2>7 DEF Fine
    <2>9. /\ Fine(model, draftId, file)
          /\ \A d \in Drafts, f \in Files : Fine(stored[d][f], d, f)
        BY <1>0, <1>b, <2>2, <2>5 DEF Owns
    <2> QED BY <1>3, <2>1, <2>8, <2>9
<1>6. CASE SwitchBranch \/ Propose
    <2>1. ~Pending /\ UNCHANGED <<stored, draftId, file, model, owed>>
        BY <1>0, <1>6, Waits DEF SwitchBranch, Propose, server, store, ledger
    <2>2. PICK i : DOMAIN calls' = {i} /\ calls'[i] \in {Creation, Proposal(draftId)} /\ stray' = stray
        BY <1>6, <2>1, SentAlone DEF SwitchBranch, Propose
    <2>3. calls'[i].kind \in {"create", "propose"}
        BY <2>2 DEF Creation, Proposal
    <2> QED BY <1>0, <1>a, <1>c, <2>1, <2>2, <2>3 DEF Pending, Owns
<1>7. ASSUME NEW i, Serve(i) PROVE Owns'
    <2>1. /\ i \in DOMAIN calls /\ calls[i] \in Requests /\ UNCHANGED <<draftId, file, model, owed, stray>>
          /\ DOMAIN calls = {i} /\ \A r : Follow(i, r) => DOMAIN calls' = {i} /\ calls'[i] = r
        BY <1>0, <1>7, Settles, Only
           DEF CallsOK, Serve, ServeLoad, ServePut, ServePropose, Follow, store, history, ledger
    <2>2. CASE ServeLoad(i)
        <3>1. calls[i] \in Loads /\ calls[i].kind = "load" /\ stored' = stored
            BY <2>1, <2>2, Kinds DEF ServeLoad, Is, server
        <3>2. DOMAIN calls' = {i} /\ calls'[i] = [calls[i] EXCEPT !.text = stored[draftId][file]]
            BY <1>0, <2>1, <2>2, <3>1 DEF ServeLoad, Owns
        <3>3. /\ calls'[i].kind = "load" /\ calls'[i].draft = draftId /\ calls'[i].file = file
              /\ calls'[i].text = stored[draftId][file]
            BY <1>0, <2>1, <3>1, <3>2 DEF Loads, Owns
        <3> QED BY <1>0, <1>a, <1>c, <2>1, <3>1, <3>2, <3>3 DEF Owns
    <2>3. CASE ServePut(i)
        <3>1. calls[i] \in Puts /\ calls[i].kind = "put"
            BY <2>1, <2>3, Kinds DEF ServePut, Is
        <3>2. DOMAIN calls' = {i} /\ calls'[i] = [calls[i] EXCEPT !.done = TRUE]
            BY <2>1, <2>3 DEF ServePut
        <3>3. /\ calls'[i].kind = "put" /\ calls'[i].draft = draftId /\ calls'[i].file = file
              /\ calls'[i].text = calls[i].text
            BY <1>0, <2>1, <3>1, <3>2 DEF Puts, Owns
        <3>4. Good(calls[i].text, draftId, file) /\ calls[i].draft = draftId /\ calls[i].file = file
            BY <1>0, <2>1, <3>1 DEF Owns
        <3>5. stored' = [stored EXCEPT ![draftId][file] = calls[i].text]
            BY <2>3, <3>4 DEF ServePut
        <3>6. stored'[draftId][file] = calls[i].text
            BY <1>0, <3>5 DEF ServerOK
        <3>7. \A d \in Drafts, f \in Files : Good(stored'[d][f], d, f)
            BY <1>0, <3>4, <3>5 DEF ServerOK, Owns
        <3>8. Good(model, draftId, file)
            BY <1>0, <2>1, <3>1 DEF Owns
        <3> QED BY <1>0, <1>a, <1>c, <2>1, <3>2, <3>3, <3>4, <3>6, <3>7, <3>8 DEF Owns
    <2>4. CASE ServePropose(i)
        <3>1. calls[i] \in Proposals /\ calls'[i] = [calls[i] EXCEPT !.done = TRUE] /\ stored' = stored
            BY <2>1, <2>4, Kinds DEF ServePropose, Is
        <3>2. calls'[i].kind = "propose" /\ calls[i].kind = "propose" /\ DOMAIN calls' = {i}
            BY <2>1, <2>4, <3>1 DEF Proposals, ServePropose, Is
        <3> QED BY <1>0, <1>a, <1>c, <2>1, <3>1, <3>2 DEF Owns
    <2> QED BY <1>7, <2>2, <2>3, <2>4 DEF Serve
<1>8. ASSUME NEW i, Answer(i) PROVE Owns'
    <2>1. /\ i \in DOMAIN calls /\ DOMAIN calls = {i} /\ calls[i] \in Requests
          /\ Drop(i) \/ GiveUp(i) => DOMAIN calls' = {}
          /\ \A r : Follow(i, r) => DOMAIN calls' = {i} /\ calls'[i] = r
          /\ Drop(i) \/ (\E r : Follow(i, r)) => stray' = stray
        BY <1>0, <1>8, Settles, Only DEF CallsOK, Drop, Follow
    <2>2. CASE LoadAnswered(i)
        <3>1. /\ calls[i].kind = "load" /\ model' = calls[i].text /\ calls[i].text # Nothing
              /\ UNCHANGED <<stored, draftId, file, owed, stray>> /\ DOMAIN calls' = {}
            BY <2>1, <2>2 DEF LoadAnswered, Is, server, history, ledger
        <3> QED BY <1>0, <1>a, <1>c, <2>1, <3>1 DEF Owns
    <2>3. CASE LoadFails(i)
        BY <2>3 DEF LoadFails, Mishap, Steady, Without
    <2>4. CASE PutAnswered(i)
        <3>1. calls[i] \in Puts /\ calls[i].kind = "put" /\ calls[i].done
            BY <2>1, <2>4, Kinds DEF PutAnswered, Is
        <3>2. /\ calls[i].draft = draftId /\ calls[i].file = file
              /\ Tidy => stored[draftId][file] = calls[i].text
            BY <1>0, <2>1, <3>1 DEF Owns
        <3>3. owed' = [owed EXCEPT ![<<draftId, file>>] = @ \cup calls[i].text.edits]
            BY <2>4, <3>2 DEF PutAnswered, Acknowledge
        <3>4. UNCHANGED <<stored, draftId, file, model>>
            BY <2>4 DEF PutAnswered, server, store
        <3>5. /\ DOMAIN calls' = {i} /\ calls'[i] = Load(draftId, file, "save", calls[i].offer)
              /\ stray' = stray
            BY <2>1, <2>4 DEF PutAnswered
        <3>6. ASSUME NEW d \in Drafts, NEW f \in Files PROVE Fine(stored[d][f], d, f)
            <4>1. Good(stored[d][f], d, f)
                BY <1>0 DEF Owns
            <4>2. CASE d = draftId /\ f = file
                <5>1. owed'[<<d, f>>] = owed[<<d, f>>] \cup calls[i].text.edits
                    BY <1>0, <3>3, <4>2 DEF HistoryOK
                <5> QED BY <1>0, <3>2, <4>1, <4>2, <5>1 DEF Good, Fine
            <4>3. CASE ~(d = draftId /\ f = file)
                <5>1. owed'[<<d, f>>] = owed[<<d, f>>]
                    BY <1>0, <3>3, <4>3 DEF HistoryOK
                <5> QED BY <1>0, <4>1, <5>1 DEF Good, Fine
            <4> QED BY <4>2, <4>3
        <3>7. /\ calls'[i].kind = "load" /\ calls'[i].draft = draftId /\ calls'[i].file = file
              /\ calls'[i].text = Nothing
            BY <3>5 DEF Load
        <3> QED BY <1>0, <1>a, <3>4, <3>5, <3>6, <3>7 DEF Owns
    <2>5. CASE PutFails(i)
        <3>1. calls[i] \in Puts /\ calls[i].kind = "put" /\ DOMAIN calls' = {}
            BY <2>1, <2>5, Kinds DEF PutFails, MayFail, Is
        <3>2. stray' \subseteq stray \cup {calls[i]} /\ UNCHANGED <<stored, draftId, file, model, owed>>
            BY <2>5, GiveUpLeaves DEF PutFails, server, ledger
        <3>3. calls[i].text.of = <<calls[i].draft, calls[i].file>>
            BY <1>0, <2>1, <3>1 DEF Owns, Good
        <3> QED BY <1>0, <1>a, <1>c, <2>1, <3>1, <3>2, <3>3 DEF Owns
    <2>6. CASE CreateAnswered(i)
        <3>1. PICK d \in Drafts : /\ draftId' = d /\ file' = Landing
                       /\ Follow(i, Load(d, Landing, "switch", Nothing))
            BY <2>6 DEF CreateAnswered
        <3>2. UNCHANGED <<stored, owed>>
            BY <2>6 DEF CreateAnswered, history, ledger
        <3>3. /\ DOMAIN calls' = {i} /\ calls'[i] = Load(d, Landing, "switch", Nothing)
              /\ stray' = stray
            BY <2>1, <3>1
        <3>4. /\ calls'[i].kind = "load" /\ calls'[i].draft = d /\ calls'[i].file = Landing
              /\ calls'[i].text = Nothing
            BY <3>3 DEF Load
        <3> QED BY <1>0, <1>a, <1>c, <3>1, <3>2, <3>3, <3>4 DEF Owns
    <2>7. CASE CreateFails(i) \/ ProposeAnswered(i) \/ ProposeFails(i)
        <3>1. UNCHANGED <<stored, draftId, file, model, owed>> /\ DOMAIN calls' = {}
            BY <2>1, <2>7 DEF CreateFails, ProposeAnswered, ProposeFails, server, store, history, ledger
        <3>2. calls[i].kind # "load" /\ calls[i].kind # "put"
            BY <2>7 DEF CreateFails, ProposeAnswered, ProposeFails, MayFail, Is
        <3>3. stray' \subseteq stray \cup {calls[i]}
            BY <2>1, <2>7, GiveUpLeaves DEF CreateFails, ProposeAnswered, ProposeFails
        <3> QED BY <1>0, <1>a, <1>c, <2>1, <3>1, <3>2, <3>3 DEF Owns
    <2> QED BY <1>8, <2>2, <2>3, <2>4, <2>5, <2>6, <2>7 DEF Answer
<1>9. ASSUME NEW r \in stray, ServeStray(r) PROVE Owns'
    <2>1. ~Tidy' /\ UNCHANGED <<draftId, file, model, calls, owed>> /\ stray' \subseteq stray
        BY <1>9 DEF ServeStray, store, ledger, Tidy, Without
    <2>2. \A d \in Drafts, f \in Files : stored'[d][f].of = <<d, f>>
        <3>1. \A d \in Drafts, f \in Files : stored[d][f].of = <<d, f>>
            BY <1>0 DEF Owns, Good
        <3>2. CASE r.kind = "put"
            <4>1. r.text.of = <<r.draft, r.file>>
                BY <1>0, <3>2 DEF Owns
            <4>2. stored' = [stored EXCEPT ![r.draft][r.file] = r.text]
                BY <1>9, <3>2 DEF ServeStray
            <4> QED BY <1>0, <3>1, <4>1, <4>2 DEF ServerOK
        <3>3. CASE r.kind # "put"
            BY <1>9, <3>1, <3>3 DEF ServeStray
        <3> QED BY <3>2, <3>3
    <2>3. \A d \in Drafts, f \in Files : Fine(stored'[d][f], d, f)
        BY <2>1, <2>2 DEF Fine
    <2> QED BY <1>0, <1>a, <1>c, <2>1, <2>3 DEF Owns
<1> QED BY <1>1, <1>2, <1>4, <1>5, <1>6, <1>7, <1>8, <1>9 DEF Next

\* Undone in its own file at the latest, the edits of a patient user leave all
\* files their own texts, and, undone at once, all acknowledged edits.
LEMMA OwnsHolds == Spec => [](Steady => Owns)
<1> DEFINE J == TypeOK /\ Alone /\ (Steady => Owns)
<1>1. Init => J
    <2> SUFFICES ASSUME Init PROVE TypeOK /\ Alone /\ Owns
        OBVIOUS
    <2>1. TypeOK
        BY TypeInit
    <2>2. DOMAIN calls = {} /\ stray = {} /\ model = Fresh(draftId, file)
        BY DEF Init
    <2>3. \A d \in Drafts, f \in Files : stored[d][f] = Fresh(d, f) /\ owed[<<d, f>>] = {}
        BY DEF Init
    <2>4. draftId \in Drafts /\ file \in Files
        BY LandingAssumption DEF Init
    <2>5. \A d \in Drafts, f \in Files : Good(Fresh(d, f), d, f)
        BY <2>3 DEF Good, Fresh
    <2> QED BY <2>1, <2>2, <2>3, <2>4, <2>5 DEF Alone, Owns
<1>2. J /\ [Next]_vars => J'
    <2>1. ASSUME J, [Next]_vars PROVE TypeOK' /\ Alone'
        BY <2>1, TypeKept, AloneKept
    <2>2. ASSUME J, [Next]_vars, Steady' PROVE Owns'
        BY <2>2, OwnsKept
    <2> QED BY <2>1, <2>2
<1> QED BY <1>1, <1>2, PTL DEF Spec

\* No save stores one file's text as another's, unless an edit is undone with
\* another file or draft selected.
THEOREM TextsAreOwn == Spec => []OwnText
<1>1. (Steady => Owns) => OwnText
    BY DEF Owns, Good, Steady, OwnText
<1> QED BY <1>1, OwnsHolds, PTL

\* No acknowledged edit is lost until it is undone, unless an earlier one is, or
\* a save that failed is served late.
THEOREM EditsAreKept == Spec => []OwnEditsKept
<1>1. (Steady => Owns) => OwnEditsKept
    BY DEF Owns, Good, Steady, Tidy, Without, OwnEditsKept
<1> QED BY <1>1, OwnsHolds, PTL

-----------------------------------------------------------------------------
(* Proposals.                                                              *)

\* What has been proposed is stored, and not open to edits.
Finals ==
    /\ \A d \in Drafts : proposed[d] # Nothing =>
          /\ d \in born /\ proposed[d] = stored[d]
          /\ d = draftId => frozen \/ \E i \in DOMAIN calls : calls[i].kind = "propose"
    /\ \A i \in DOMAIN calls : calls[i].kind = "put" =>
          calls[i].draft = draftId /\ proposed[draftId] = Nothing
    /\ \A i \in DOMAIN calls : calls[i].kind = "propose" =>
          calls[i].draft = draftId /\ ~frozen

LEMMA FinalsKept ==
    ASSUME TypeOK, Alone, Without({"haste", "propose", "stray"}) => Finals, [Next]_vars,
           Without({"haste", "propose", "stray"})'
    PROVE  Finals'
<1>0. /\ ServerOK /\ StoreOK /\ CallsOK /\ draftId \in Drafts
      /\ Without({"haste"})' /\ Without({"haste"}) /\ Finals
    BY TypeParts, MishapsKept DEF Without, StoreOK, ServerOK
<1>1. CASE UNCHANGED vars
    BY <1>0, <1>1 DEF vars, server, store, network, Finals
<1>2. ASSUME NEW f \in Files, SetFile(f) PROVE Finals'
    <2>1. PICK i : DOMAIN calls' = {i} /\ calls'[i] = Load(draftId, f, "switch", Nothing)
        BY <1>0, <1>2, Waits, SentAlone DEF SetFile
    <2>2. ~Pending /\ UNCHANGED <<server, draftId, frozen>>
        BY <1>0, <1>2, Waits DEF SetFile
    <2> QED BY <1>0, <2>1, <2>2 DEF Load, Pending, server, Finals
<1>3. CASE Edit \/ \E u \in undos : Undo(u)
    <2>1. PICK r : /\ Send(r) /\ r.kind = "put" /\ r.draft = draftId
                   /\ ~Pending /\ ~frozen /\ UNCHANGED <<server, draftId, frozen>>
        BY <1>0, <1>3, Waits DEF Edit, Undo, Save, Put
    <2>2. PICK i : DOMAIN calls' = {i} /\ calls'[i] = r
        BY <2>1, SentAlone
    <2>3. proposed[draftId] = Nothing
        BY <1>0, <2>1 DEF Pending, Finals
    <2> QED BY <1>0, <2>1, <2>2, <2>3 DEF Pending, server, Finals
<1>4. CASE SwitchBranch
    <2>1. ~Pending /\ UNCHANGED <<server, draftId, frozen>>
        BY <1>0, <1>4, Waits DEF SwitchBranch, store
    <2>2. PICK i : DOMAIN calls' = {i} /\ calls'[i] = Creation
        BY <1>4, <2>1, SentAlone DEF SwitchBranch
    <2> QED BY <1>0, <2>1, <2>2 DEF Creation, Pending, server, Finals
<1>5. CASE Propose
    <2>1. ~Pending /\ ~frozen /\ UNCHANGED <<server, draftId, frozen>>
        BY <1>0, <1>5, Waits DEF Propose, store
    <2>2. PICK i : DOMAIN calls' = {i} /\ calls'[i] = Proposal(draftId)
        BY <1>5, <2>1, SentAlone DEF Propose
    <2> QED BY <1>0, <2>1, <2>2 DEF Proposal, Pending, server, Finals
<1>6. ASSUME NEW i, Serve(i) PROVE Finals'
    <2>1. /\ i \in DOMAIN calls /\ calls[i] \in Requests /\ UNCHANGED <<draftId, frozen, born>>
          /\ DOMAIN calls = {i} /\ \A r : Follow(i, r) => DOMAIN calls' = {i} /\ calls'[i] = r
        BY <1>0, <1>6, Settles, Only
           DEF CallsOK, Serve, ServeLoad, ServePut, ServePropose, store, server
    <2>2. CASE ServeLoad(i)
        <3>1. calls[i] \in Loads /\ UNCHANGED server
            BY <2>1, <2>2, Kinds DEF ServeLoad, Is
        <3>2. DOMAIN calls' = {i} /\ calls'[i].kind = "load" /\ calls[i].kind = "load"
            BY <2>1, <2>2, <3>1 DEF ServeLoad, Loads
        <3> QED BY <1>0, <2>1, <3>1, <3>2 DEF server, Finals
    <2>3. CASE ServePut(i)
        <3>1. calls[i] \in Puts /\ calls[i].kind = "put"
            BY <2>1, <2>3, Kinds DEF ServePut, Is
        <3>2. calls'[i] = [calls[i] EXCEPT !.done = TRUE] /\ DOMAIN calls' = {i}
            BY <2>1, <2>3 DEF ServePut
        <3>3. calls'[i].kind = "put" /\ calls'[i].draft = calls[i].draft
            BY <3>1, <3>2 DEF Puts
        <3>4. calls[i].draft = draftId /\ proposed[draftId] = Nothing
            BY <1>0, <2>1, <3>1 DEF Finals
        <3>5. proposed' = proposed /\ \A d \in Drafts : d # draftId => stored'[d] = stored[d]
            BY <1>0, <2>3, <3>4 DEF ServePut, ServerOK
        <3> QED BY <1>0, <2>1, <3>2, <3>3, <3>4, <3>5 DEF Finals
    <2>4. CASE ServePropose(i)
        <3>1. calls[i] \in Proposals /\ calls[i].kind = "propose"
            BY <2>1, <2>4, Kinds DEF ServePropose, Is
        <3>2. calls'[i] = [calls[i] EXCEPT !.done = TRUE] /\ DOMAIN calls' = {i}
            BY <2>1, <2>4 DEF ServePropose
        <3>3. calls'[i].kind = "propose" /\ calls'[i].draft = calls[i].draft
            BY <3>1, <3>2 DEF Proposals
        <3>4. calls[i].draft = draftId /\ ~frozen
            BY <1>0, <2>1, <3>1 DEF Finals
        <3>5. stored' = stored /\ proposed' = [proposed EXCEPT ![draftId] = stored[draftId]]
            BY <2>4, <3>4 DEF ServePropose
        <3> QED BY <1>0, <2>1, <3>2, <3>3, <3>4, <3>5 DEF Finals, ServerOK, StoreOK
    <2> QED BY <1>6, <2>2, <2>3, <2>4 DEF Serve
<1>7. ASSUME NEW i, Answer(i) PROVE Finals'
    <2>1. /\ i \in DOMAIN calls /\ DOMAIN calls = {i}
          /\ Drop(i) \/ GiveUp(i) => DOMAIN calls' = {}
          /\ \A r : Follow(i, r) => DOMAIN calls' = {i} /\ calls'[i] = r
        BY <1>0, <1>7, Settles, Only
    <2>2. CASE LoadAnswered(i) \/ LoadFails(i) \/ PutFails(i) \/ CreateFails(i)
        <3>1. /\ DOMAIN calls' = {} /\ UNCHANGED <<server, draftId, frozen>>
              /\ calls[i].kind # "propose"
            BY <2>1, <2>2 DEF LoadAnswered, LoadFails, PutFails, CreateFails, MayFail, Is, store
        <3> QED BY <1>0, <2>1, <3>1 DEF server, Finals
    <2>3. CASE PutAnswered(i)
        <3>1. UNCHANGED <<server, draftId, frozen>> /\ calls[i].kind = "put"
            BY <2>3 DEF PutAnswered, Is, store
        <3>2. DOMAIN calls' = {i} /\ calls'[i] = Load(draftId, file, "save", calls[i].offer)
            BY <2>1, <2>3 DEF PutAnswered
        <3>3. calls'[i].kind = "load"
            BY <3>2 DEF Load
        <3> QED BY <1>0, <2>1, <3>1, <3>2, <3>3 DEF server, Finals
    <2>4. CASE CreateAnswered(i)
        <3>1. PICK d \in Drafts \ born : /\ born' = born \cup {d} /\ draftId' = d
                                         /\ Follow(i, Load(d, Landing, "switch", Nothing))
            BY <2>4 DEF CreateAnswered
        <3>2. UNCHANGED <<stored, proposed, frozen>>
            BY <2>4 DEF CreateAnswered
        <3>3. DOMAIN calls' = {i} /\ calls'[i] = Load(d, Landing, "switch", Nothing)
            BY <2>1, <3>1
        <3>4. DOMAIN calls' = {i} /\ calls'[i].kind = "load"
            BY <3>3 DEF Load
        <3> QED BY <1>0, <3>1, <3>2, <3>4 DEF Finals
    <2>5. CASE ProposeAnswered(i)
        <3>1. UNCHANGED <<server, draftId>> /\ frozen' /\ DOMAIN calls' = {}
            BY <2>1, <2>5 DEF ProposeAnswered
        <3> QED BY <1>0, <3>1 DEF server, Finals
    <2>6. CASE ProposeFails(i)
        BY <2>6 DEF ProposeFails, Mishap, Without
    <2> QED BY <1>7, <2>2, <2>3, <2>4, <2>5, <2>6 DEF Answer
<1>8. ASSUME NEW r \in stray, ServeStray(r) PROVE Finals'
    BY <1>8 DEF ServeStray, Without
<1> QED BY <1>1, <1>2, <1>3, <1>4, <1>5, <1>6, <1>7, <1>8 DEF Next

\* A pull request shows all of its draft.
THEOREM ProposalsAreFinal == Spec => []ProposedIsFinal
<1> DEFINE J == TypeOK /\ Alone /\ (Without({"haste", "propose", "stray"}) => Finals)
<1>1. Init => J
    <2> SUFFICES ASSUME Init PROVE TypeOK /\ Alone /\ Finals
        OBVIOUS
    <2>1. TypeOK
        BY TypeInit
    <2>2. DOMAIN calls = {} /\ \A d \in Drafts : proposed[d] = Nothing
        BY DEF Init
    <2> QED BY <2>1, <2>2 DEF Alone, Finals
<1>2. J /\ [Next]_vars => J'
    <2>1. ASSUME J, [Next]_vars PROVE TypeOK' /\ Alone'
        BY <2>1, TypeKept, AloneKept
    <2>2. ASSUME J, [Next]_vars, Without({"haste", "propose", "stray"})' PROVE Finals'
        BY <2>2, FinalsKept
    <2> QED BY <2>1, <2>2
<1>3. J => ProposedIsFinal
    BY DEF Finals, ProposedIsFinal
<1> QED BY <1>1, <1>2, <1>3, PTL DEF Spec
=============================================================================
