------------------------------- MODULE Registry -------------------------------
(* The bundled companion specifications (nodeset/registry.go) and the two     *)
(* closures taken over them: LoadForImports, a work list, whose result the    *)
(* validator resolves names in; and Dependencies, a depth-first visit, whose  *)
(* result the ModelCompiler is given.  A spec stands for its namespace URI.   *)
EXTENDS Naturals, Sequences, Functions

CONSTANTS
    Specs,      \* the bundled specs
    Uris,       \* what a model may import: Specs, ns0, and specs not bundled
    Requires,   \* the RequiredModels of each spec, in the order of its file
    Depth,      \* how deep the requirements of each spec go
    Lists,      \* what a model may import, in the order of its file
    Nobody      \* no spec

ASSUME RequiresAssumption ==
    /\ Specs \subseteq Uris /\ Nobody \notin Specs
    /\ Requires \in [Specs -> Seq(Uris)]
    /\ Lists \subseteq Seq(Uris)

(* The bundled specs do not require each other in a circle.                   *)
ASSUME AcyclicAssumption ==
    /\ Depth \in [Specs -> Nat]
    /\ \A s \in Specs : \A i \in DOMAIN Requires[s] :
           Requires[s][i] \in Specs => Depth[Requires[s][i]] < Depth[s]

VARIABLES
    imports,    \* the URIs asked for
    want,       \* LoadForImports: what was ever queued
    sets,       \*   and of these, the parsed ones
    stack,      \* Dependencies: a frame for each open call of visit, outermost
                \*   first, with the RequiredModels it has still to look at
    seen,       \*   what visit was entered for
    out         \*   the result so far

loadVars == <<want, sets>>
visitVars == <<stack, seen, out>>
registryVars == <<imports, want, sets, stack, seen, out>>

Needs(s) == Range(Requires[s]) \cap Specs

(* The frame of Dependencies itself, whose loop is over the imports.          *)
Frame(s, uris) == [spec |-> s, todo |-> uris]
Top == stack[Len(stack)]
Advanced == [stack EXCEPT ![Len(stack)] = Frame(@.spec, Tail(@.todo))]

TypeOKRegistry ==
    /\ imports \in Lists
    /\ want \subseteq Specs /\ sets \subseteq want
    /\ stack \in Seq([spec : Specs \cup {Nobody}, todo : Seq(Uris)])
    /\ seen \subseteq Specs
    /\ out \in Seq(Specs)

-------------------------------------------------------------------------------
InitRegistry ==
    /\ imports \in Lists
    /\ want = Range(imports) \cap Specs /\ sets = {}
    /\ stack = <<Frame(Nobody, imports)>> /\ seen = {} /\ out = <<>>

(* Mutant: nothing that s requires is queued.                                 *)
LoadImported(s) ==
    /\ s \in want \ sets
    /\ sets' = sets \cup {s}
    /\ UNCHANGED want

(* One turn of LoadForImports's loop: parse a queued spec and queue what it   *)
(* requires and is bundled and was not queued before.  The order of the queue *)
(* shows in no result.                                                        *)
Load(s) ==
    /\ s \in want \ sets
    /\ sets' = sets \cup {s}
    /\ want' = want \cup Needs(s)

Loaded == want = sets

(* visit returns at once for ns0, for what is not bundled and for what it was *)
(* entered for before ...                                                     *)
Skip ==
    /\ stack # <<>> /\ Top.todo # <<>>
    /\ Head(Top.todo) \notin Specs \ seen
    /\ stack' = Advanced
    /\ UNCHANGED <<seen, out>>

(* ... otherwise it marks the spec, and goes over its RequiredModels first    *)
Enter ==
    /\ stack # <<>> /\ Top.todo # <<>>
    /\ LET s == Head(Top.todo)
       IN  /\ s \in Specs \ seen
           /\ stack' = Append(Advanced, Frame(s, Requires[s]))
           /\ seen' = seen \cup {s}
    /\ UNCHANGED out

(* Mutant: the spec goes before what the result has.                          *)
LeaveInFront ==
    /\ stack # <<>> /\ Top.todo = <<>>
    /\ stack' = SubSeq(stack, 1, Len(stack) - 1)
    /\ out' = IF Top.spec = Nobody THEN out ELSE <<Top.spec>> \o out
    /\ UNCHANGED seen

(* and adds the spec to the result last.                                      *)
Leave ==
    /\ stack # <<>> /\ Top.todo = <<>>
    /\ stack' = SubSeq(stack, 1, Len(stack) - 1)
    /\ out' = IF Top.spec = Nobody THEN out ELSE Append(out, Top.spec)
    /\ UNCHANGED seen

Visit == Skip \/ Enter \/ Leave
Visited == stack = <<>>

NextRegistry ==
    \/ \E s \in Specs : Load(s) /\ UNCHANGED <<imports, visitVars>>
    \/ Visit /\ UNCHANGED <<imports, loadVars>>

SpecRegistry == InitRegistry /\ [][NextRegistry]_registryVars

-------------------------------------------------------------------------------
(* The sets of specs that have all they require.  (TLC enumerates a filter of *)
(* a SUBSET anew each time, one of a set that is mapped once.)                *)
ClosedSets == {C \in {D : D \in SUBSET Specs} : \A s \in C : Needs(s) \subseteq C}

(* Neither closure ever takes a spec that the imports do not need: it stays   *)
(* inside every closed set.                                                   *)
NothingExtra ==
    \A C \in ClosedSets :
        Range(imports) \cap Specs \subseteq C => want \subseteq C /\ seen \subseteq C

(* Each spec comes once, after all it requires, at every moment: the          *)
(* ModelCompiler reads its -d2 arguments in order.                            *)
DependenciesFirst ==
    /\ \A i, j \in DOMAIN out : out[i] = out[j] => i = j
    /\ \A i \in DOMAIN out :
           \A r \in Needs(out[i]) : \E j \in 1 .. (i - 1) : out[j] = r

(* The two closures agree when both are done: what the validator resolved     *)
(* names in is what the compiler is given.                                    *)
LoadedIsGiven == Loaded /\ Visited => Range(out) = sets
===============================================================================
