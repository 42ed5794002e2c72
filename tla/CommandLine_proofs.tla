-------------------------- MODULE CommandLine_proofs --------------------------
(* Proofs about Registry and CommandLine.  First the two closures over the    *)
(* companion specifications, for any registry without circles and any         *)
(* imports; then the commands, which take the closures step by step, so that  *)
(* the invariant of Registry holds all along: with it, what is emitted and    *)
(* what the ModelCompiler is given is right.                                  *)
EXTENDS CommandLine, TLAPS

-------------------------------------------------------------------------------
(* Sequences.                                                                 *)

(* A sequence has the elements of its head and of its tail.                   *)
LEMMA HeadTail ==
    ASSUME NEW S, NEW s \in Seq(S), s # <<>>
    PROVE  /\ Head(s) \in S /\ Tail(s) \in Seq(S)
           /\ Range(s) = {Head(s)} \cup Range(Tail(s))
<1>1. Head(s) \in S /\ Tail(s) \in Seq(S) /\ Len(s) > 0
    OBVIOUS
<1>2. ASSUME NEW i \in DOMAIN s
      PROVE  s[i] \in {Head(s)} \cup Range(Tail(s))
    <2>1. CASE i = 1
        BY <2>1
    <2>2. CASE i # 1
        <3>1. i - 1 \in DOMAIN Tail(s) /\ Tail(s)[i - 1] = s[i]
            BY <1>2, <2>2
        <3> QED BY <3>1 DEF Range
    <2> QED BY <2>1, <2>2
<1>3. Head(s) \in Range(s)
    BY <1>1 DEF Range
<1>4. ASSUME NEW i \in DOMAIN Tail(s)
      PROVE  Tail(s)[i] \in Range(s)
    <2>1. i + 1 \in DOMAIN s /\ s[i + 1] = Tail(s)[i]
        BY <1>1, <1>4
    <2> QED BY <2>1 DEF Range
<1> QED BY <1>1, <1>2, <1>3, <1>4 DEF Range

(* Appending adds one element.                                                *)
LEMMA AppendElement ==
    ASSUME NEW S, NEW s \in Seq(S), NEW x \in S
    PROVE  /\ Append(s, x) \in Seq(S)
           /\ Range(Append(s, x)) = Range(s) \cup {x}
<1>1. /\ Append(s, x) \in Seq(S) /\ Len(Append(s, x)) = Len(s) + 1
      /\ Append(s, x)[Len(s) + 1] = x
      /\ \A i \in 1 .. Len(s) : Append(s, x)[i] = s[i]
    OBVIOUS
<1>2. DOMAIN s = 1 .. Len(s) /\ DOMAIN Append(s, x) = 1 .. (Len(s) + 1)
    BY <1>1
<1> QED BY <1>1, <1>2 DEF Range

(* Dropping the last element leaves the others.                               *)
LEMMA DropLast ==
    ASSUME NEW S, NEW s \in Seq(S), NEW n \in Nat \ {0}, n = Len(s)
    PROVE  /\ SubSeq(s, 1, n - 1) \in Seq(S)
           /\ Len(SubSeq(s, 1, n - 1)) = n - 1
           /\ \A i \in 1 .. (n - 1) : SubSeq(s, 1, n - 1)[i] = s[i]
    OBVIOUS

-------------------------------------------------------------------------------
(* The invariant.                                                             *)

Frames == [spec : Specs \cup {Nobody}, todo : Seq(Uris)]

(* What the loop of a frame goes over.                                        *)
Asked(f) == IF f.spec = Nobody THEN Range(imports) ELSE Range(Requires[f.spec])

OnStack == {stack[i].spec : i \in 2 .. Len(stack)}

(* The outermost frame is that of Dependencies.  Each frame still has to look *)
(* at a part of what it goes over, and visit was entered for the rest.        *)
FramesInv ==
    \A i \in DOMAIN stack :
        /\ stack[i].spec = Nobody <=> i = 1
        /\ Range(stack[i].todo) \subseteq Asked(stack[i])
        /\ Asked(stack[i]) \cap Specs \subseteq seen \cup Range(stack[i].todo)

(* Each frame was opened by a requirement of the one below it.                *)
DescentInv ==
    \A i, j \in 2 .. Len(stack) :
        i < j => Depth[stack[j].spec] < Depth[stack[i].spec]

(* visit was entered for what is in the result and for what is on the stack,  *)
(* and nothing is in both.                                                    *)
SeenInv ==
    /\ seen = Range(out) \cup OnStack
    /\ Range(out) \cap OnStack = {}

(* Once the loop over the imports is over all of them have been seen to.      *)
ImportsInv ==
    /\ stack = <<>> => Range(imports) \cap Specs \subseteq seen
    /\ Range(imports) \cap Specs \subseteq want
    /\ \A s \in sets : Needs(s) \subseteq want

IInv ==
    /\ TypeOKRegistry /\ FramesInv /\ DescentInv /\ SeenInv /\ ImportsInv
    /\ NothingExtra /\ DependenciesFirst

-------------------------------------------------------------------------------
(* What a turn of a frame's loop does to the stack.                           *)
LEMMA Turn ==
    ASSUME TypeOKRegistry, stack # <<>>, Top.todo # <<>>
    PROVE  /\ Advanced \in Seq(Frames) /\ Len(Advanced) = Len(stack)
           /\ Len(stack) \in Nat \ {0}
           /\ \A i \in 1 .. Len(stack) : Advanced[i].spec = stack[i].spec
           /\ \A i \in 1 .. (Len(stack) - 1) : Advanced[i] = stack[i]
           /\ Head(Top.todo) \in Uris
           /\ Range(Top.todo) = {Head(Top.todo)} \cup Range(Advanced[Len(stack)].todo)
<1>1. stack \in Seq(Frames) /\ Len(stack) \in Nat \ {0}
    BY DEF TypeOKRegistry, Frames
<1>2. Top \in Frames /\ Top.todo \in Seq(Uris)
    <2>1. Top \in Frames
        BY <1>1 DEF Top
    <2> QED BY <2>1 DEF Frames
<1>3. /\ Head(Top.todo) \in Uris /\ Tail(Top.todo) \in Seq(Uris)
      /\ Range(Top.todo) = {Head(Top.todo)} \cup Range(Tail(Top.todo))
    BY <1>2, HeadTail
<1>4. Advanced = [stack EXCEPT ![Len(stack)] = Frame(Top.spec, Tail(Top.todo))]
    BY DEF Advanced, Top
<1>5. Frame(Top.spec, Tail(Top.todo)) \in Frames
    BY <1>2, <1>3 DEF Frame, Frames
<1>6. Advanced \in Seq(Frames) /\ Len(Advanced) = Len(stack)
    BY <1>1, <1>4, <1>5
<1>7. /\ Advanced[Len(stack)] = Frame(Top.spec, Tail(Top.todo))
      /\ \A i \in 1 .. (Len(stack) - 1) : Advanced[i] = stack[i]
    BY <1>1, <1>4
<1>8. \A i \in 1 .. Len(stack) : Advanced[i].spec = stack[i].spec
    BY <1>1, <1>7 DEF Frame, Top
<1> QED BY <1>1, <1>3, <1>6, <1>7, <1>8 DEF Frame

(* Types, and two consequences of the assumptions on the registry.            *)
LEMMA Registered ==
    ASSUME NEW s \in Specs
    PROVE  /\ Requires[s] \in Seq(Uris) /\ s # Nobody /\ s \in Uris
           /\ Depth[s] \in Nat /\ Needs(s) \subseteq Specs
           /\ \A r \in Needs(s) : Depth[r] \in Nat /\ Depth[r] < Depth[s]
<1>1. \A r \in Needs(s) : r \in Specs /\ Depth[r] < Depth[s]
    BY AcyclicAssumption DEF Needs, Range
<1> QED BY <1>1, RequiresAssumption, AcyclicAssumption DEF Needs

LEMMA Initially == InitRegistry => IInv
<1> SUFFICES ASSUME InitRegistry PROVE IInv
    OBVIOUS
<1> USE DEF InitRegistry
<1>1. /\ imports \in Seq(Uris) /\ stack = <<Frame(Nobody, imports)>>
      /\ Len(stack) = 1 /\ stack[1] = Frame(Nobody, imports) /\ DOMAIN stack = {1}
    BY RequiresAssumption
<1>2. TypeOKRegistry
    BY <1>1 DEF TypeOKRegistry, Frame
<1>3. FramesInv
    BY <1>1 DEF FramesInv, Frame, Asked
<1>4. DescentInv
    BY <1>1 DEF DescentInv
<1>5. SeenInv
    <2>1. OnStack = {} /\ Range(out) = {}
        BY <1>1 DEF OnStack, Range
    <2> QED BY <2>1 DEF SeenInv
<1>6. ImportsInv
    BY <1>1 DEF ImportsInv
<1>7. NothingExtra
    BY DEF NothingExtra, ClosedSets
<1>8. DependenciesFirst
    BY DEF DependenciesFirst
<1> QED BY <1>2, <1>3, <1>4, <1>5, <1>6, <1>7, <1>8 DEF IInv

LEMMA LoadKeeps ==
    ASSUME IInv, NEW s \in Specs, Load(s), UNCHANGED <<imports, visitVars>>
    PROVE  IInv'
<1> USE DEF IInv, Load, visitVars
<1>1. Needs(s) \subseteq Specs
    BY Registered
<1>2. TypeOKRegistry'
    BY <1>1 DEF TypeOKRegistry
<1>3. FramesInv' /\ DescentInv' /\ SeenInv' /\ DependenciesFirst'
    <2>1. FramesInv' /\ DescentInv'
        BY DEF FramesInv, Asked, DescentInv
    <2>2. SeenInv' /\ DependenciesFirst'
        BY DEF SeenInv, OnStack, DependenciesFirst
    <2> QED BY <2>1, <2>2
<1>4. ImportsInv'
    BY DEF ImportsInv
<1>5. NothingExtra'
    BY DEF NothingExtra, ClosedSets
<1> QED BY <1>2, <1>3, <1>4, <1>5

LEMMA SkipKeeps ==
    ASSUME IInv, Skip, UNCHANGED <<imports, loadVars>>
    PROVE  IInv'
<1> USE DEF IInv, loadVars
<1> DEFINE n == Len(stack)
<1>1. /\ stack' = Advanced /\ UNCHANGED <<seen, out>>
      /\ stack # <<>> /\ Top.todo # <<>> /\ Head(Top.todo) \notin Specs \ seen
    BY DEF Skip
<1>2. /\ stack' \in Seq(Frames) /\ Len(stack') = n /\ n \in Nat \ {0}
      /\ \A i \in 1 .. n : stack'[i].spec = stack[i].spec
      /\ \A i \in 1 .. (n - 1) : stack'[i] = stack[i]
      /\ Range(stack[n].todo) = {Head(Top.todo)} \cup Range(stack'[n].todo)
    BY <1>1, Turn DEF Top
<1>3. /\ DOMAIN stack = 1 .. n /\ DOMAIN stack' = 1 .. n
    BY <1>2 DEF TypeOKRegistry
<1> HIDE DEF n
<1>4. TypeOKRegistry'
    BY <1>1, <1>2 DEF TypeOKRegistry, Frames
<1>5. FramesInv'
    <2> SUFFICES ASSUME NEW i \in 1 .. n
                 PROVE  /\ stack'[i].spec = Nobody <=> i = 1
                        /\ Range(stack'[i].todo) \subseteq Asked(stack[i])'
                        /\ Asked(stack[i])' \cap Specs
                              \subseteq seen' \cup Range(stack'[i].todo)
        BY <1>3 DEF FramesInv
    <2>1. stack'[i].spec = stack[i].spec /\ Asked(stack[i])' = Asked(stack[i])
        BY <1>2 DEF Asked
    <2>2. /\ stack[i].spec = Nobody <=> i = 1
          /\ Range(stack[i].todo) \subseteq Asked(stack[i])
          /\ Asked(stack[i]) \cap Specs \subseteq seen \cup Range(stack[i].todo)
        BY <1>3 DEF FramesInv
    <2>3. CASE i = n
        BY <1>1, <1>2, <2>1, <2>2, <2>3
    <2>4. CASE i # n
        <3>1. stack'[i] = stack[i]
            BY <1>2, <2>4
        <3> QED BY <1>1, <2>1, <2>2, <3>1
    <2> QED BY <2>3, <2>4
<1>6. DescentInv'
    BY <1>2 DEF DescentInv, n
<1>7. SeenInv'
    <2>1. OnStack' = OnStack
        BY <1>2 DEF OnStack, n
    <2> QED BY <1>1, <2>1 DEF SeenInv
<1>8. ImportsInv' /\ NothingExtra' /\ DependenciesFirst'
    <2>1. stack' # <<>>
        BY <1>2
    <2> QED BY <1>1, <2>1 DEF ImportsInv, NothingExtra, ClosedSets, DependenciesFirst
<1> QED BY <1>4, <1>5, <1>6, <1>7, <1>8

(* Every frame but the outermost is that of a spec.                           *)
LEMMA Framed ==
    ASSUME TypeOKRegistry, FramesInv
    PROVE  /\ Len(stack) \in Nat /\ DOMAIN stack = 1 .. Len(stack)
           /\ \A i \in 1 .. Len(stack) : stack[i].todo \in Seq(Uris)
           /\ \A i \in 2 .. Len(stack) :
                  /\ stack[i].spec \in Specs
                  /\ Asked(stack[i]) = Range(Requires[stack[i].spec])
<1>1. stack \in Seq(Frames)
    BY DEF TypeOKRegistry, Frames
<1>2. Len(stack) \in Nat /\ DOMAIN stack = 1 .. Len(stack)
    BY <1>1
<1>3. ASSUME NEW i \in 1 .. Len(stack)
      PROVE  stack[i].spec \in Specs \cup {Nobody} /\ stack[i].todo \in Seq(Uris)
    <2>1. stack[i] \in Frames
        BY <1>1
    <2> QED BY <2>1 DEF Frames
<1>4. ASSUME NEW i \in 2 .. Len(stack)
      PROVE  stack[i].spec # Nobody
    BY <1>2 DEF FramesInv
<1> QED BY <1>2, <1>3, <1>4 DEF Asked

LEMMA EnterKeeps ==
    ASSUME IInv, Enter, UNCHANGED <<imports, loadVars>>
    PROVE  IInv'
<1> USE DEF IInv, loadVars
<1> DEFINE n == Len(stack)
           s == Head(Top.todo)
<1>1. /\ stack' = Append(Advanced, Frame(s, Requires[s]))
      /\ seen' = seen \cup {s} /\ out' = out
      /\ stack # <<>> /\ Top.todo # <<>> /\ s \in Specs /\ s \notin seen
    BY DEF Enter
<1>2. /\ Advanced \in Seq(Frames) /\ Len(Advanced) = n /\ n \in Nat \ {0}
      /\ \A i \in 1 .. n : Advanced[i].spec = stack[i].spec
      /\ \A i \in 1 .. (n - 1) : Advanced[i] = stack[i]
      /\ Range(stack[n].todo) = {s} \cup Range(Advanced[n].todo)
    BY <1>1, Turn DEF Top
<1> HIDE DEF n, s
<1>3. Frame(s, Requires[s]) \in Frames
    BY <1>1, Registered DEF Frame, Frames
<1>4. /\ stack' \in Seq(Frames) /\ Len(stack') = n + 1
      /\ DOMAIN stack = 1 .. n /\ DOMAIN stack' = 1 .. (n + 1)
      /\ \A i \in 1 .. n : stack'[i] = Advanced[i]
      /\ stack'[n + 1] = Frame(s, Requires[s])
    BY <1>1, <1>2, <1>3, Framed DEF n
<1>5. stack'[n + 1].spec = s /\ stack'[n + 1].todo = Requires[s]
    BY <1>4 DEF Frame
<1>6. /\ \A i \in 1 .. n : stack'[i].spec = stack[i].spec
      /\ \A i \in 1 .. (n - 1) : stack'[i] = stack[i]
      /\ Range(stack[n].todo) = {s} \cup Range(stack'[n].todo)
    BY <1>2, <1>4
<1>7. \A i \in 2 .. n : /\ stack[i].spec \in Specs
                         /\ Asked(stack[i]) = Range(Requires[stack[i].spec])
    BY Framed DEF n
<1>8. s \in Asked(stack[n])
    BY <1>2, <1>4, <1>6 DEF FramesInv
<1>9. n > 1 => s \in Needs(stack[n].spec)
    BY <1>1, <1>2, <1>7, <1>8 DEF Needs
<1>10. TypeOKRegistry'
    BY <1>1, <1>4 DEF TypeOKRegistry, Frames
<1>11. FramesInv'
    <2> SUFFICES ASSUME NEW i \in 1 .. (n + 1)
                 PROVE  /\ stack'[i].spec = Nobody <=> i = 1
                        /\ Range(stack'[i].todo) \subseteq Asked(stack[i])'
                        /\ Asked(stack[i])' \cap Specs
                              \subseteq seen' \cup Range(stack'[i].todo)
        BY <1>4 DEF FramesInv
    <2>1. CASE i = n + 1
        <3>1. Asked(stack[i])' = Range(Requires[s]) /\ s # Nobody /\ i # 1
            BY <1>1, <1>2, <1>5, <2>1, Registered DEF Asked
        <3> QED BY <1>5, <2>1, <3>1
    <2>2. CASE i \in 1 .. n
        <3>1. stack'[i].spec = stack[i].spec /\ Asked(stack[i])' = Asked(stack[i])
            BY <1>6, <2>2 DEF Asked
        <3>2. /\ stack[i].spec = Nobody <=> i = 1
              /\ Range(stack[i].todo) \subseteq Asked(stack[i])
              /\ Asked(stack[i]) \cap Specs \subseteq seen \cup Range(stack[i].todo)
            BY <1>4, <2>2 DEF FramesInv
        <3>3. CASE i = n
            BY <1>1, <1>6, <3>1, <3>2, <3>3
        <3>4. CASE i # n
            <4>1. stack'[i] = stack[i]
                BY <1>2, <1>6, <2>2, <3>4
            <4> QED BY <1>1, <3>1, <3>2, <4>1
        <3> QED BY <3>3, <3>4
    <2> QED BY <1>2, <2>1, <2>2
<1>12. DescentInv'
    <2> SUFFICES ASSUME NEW i \in 2 .. (n + 1), NEW j \in 2 .. (n + 1), i < j
                 PROVE  Depth[stack'[j].spec] < Depth[stack'[i].spec]
        BY <1>4 DEF DescentInv
    <2>1. stack'[i].spec = stack[i].spec /\ i \in 2 .. n /\ n > 1
        BY <1>2, <1>6
    <2>2. CASE j \in 2 .. n
        BY <1>6, <2>1, <2>2 DEF DescentInv, n
    <2>3. CASE j = n + 1
        <3>1. Depth[s] < Depth[stack[n].spec] /\ Depth[s] \in Nat
            <4>1. stack[n].spec \in Specs /\ s \in Needs(stack[n].spec)
                BY <1>2, <1>7, <1>9, <2>1
            <4> QED BY <4>1, Registered
        <3>2. i # n => Depth[stack[n].spec] < Depth[stack[i].spec]
            BY <1>2, <2>1 DEF DescentInv, n
        <3>3. Depth[stack[n].spec] \in Nat /\ Depth[stack[i].spec] \in Nat
            BY <1>2, <1>7, <2>1, Registered
        <3> QED BY <1>5, <2>1, <2>3, <3>1, <3>2, <3>3
    <2> QED BY <1>2, <2>2, <2>3
<1>13. SeenInv'
    <2>1. OnStack' = OnStack \cup {s}
        <3>1. 2 .. (n + 1) = (2 .. n) \cup {n + 1}
            BY <1>2
        <3> QED BY <1>4, <1>5, <1>6, <3>1 DEF OnStack, n
    <2> QED BY <1>1, <2>1 DEF SeenInv
<1>14. ImportsInv'
    <2>1. stack' # <<>>
        BY <1>4, <1>2
    <2> QED BY <1>1, <2>1 DEF ImportsInv
<1>15. NothingExtra'
    <2> SUFFICES ASSUME NEW C \in ClosedSets, Range(imports) \cap Specs \subseteq C
                 PROVE  s \in C
        BY <1>1 DEF NothingExtra
    <2>1. CASE n = 1
        <3>1. s \in Range(imports)
            BY <1>4, <1>8, <2>1 DEF Asked, FramesInv
        <3> QED BY <1>1, <3>1
    <2>2. CASE n > 1
        <3>1. stack[n].spec \in C
            BY <1>2, <2>2 DEF NothingExtra, SeenInv, OnStack, n
        <3> QED BY <1>9, <2>2, <3>1 DEF ClosedSets
    <2> QED BY <1>2, <2>1, <2>2
<1>16. DependenciesFirst'
    BY <1>1 DEF DependenciesFirst
<1> QED BY <1>10, <1>11, <1>12, <1>13, <1>14, <1>15, <1>16

LEMMA LeaveKeeps ==
    ASSUME IInv, Leave, UNCHANGED <<imports, loadVars>>
    PROVE  IInv'
<1> USE DEF IInv, loadVars
<1> DEFINE n == Len(stack)
           u == Top.spec
<1>1. /\ stack' = SubSeq(stack, 1, n - 1) /\ seen' = seen
      /\ out' = IF u = Nobody THEN out ELSE Append(out, u)
      /\ stack # <<>> /\ stack[n].todo = <<>> /\ u = stack[n].spec
    BY DEF Leave, Top
<1>2. /\ stack \in Seq(Frames) /\ n \in Nat \ {0} /\ DOMAIN stack = 1 .. n
      /\ \A i \in 2 .. n : /\ stack[i].spec \in Specs
                            /\ Asked(stack[i]) = Range(Requires[stack[i].spec])
    BY <1>1, Framed DEF TypeOKRegistry, Frames
<1> HIDE DEF n, u
<1>3. /\ stack' \in Seq(Frames) /\ Len(stack') = n - 1 /\ DOMAIN stack' = 1 .. (n - 1)
      /\ \A i \in 1 .. (n - 1) : stack'[i] = stack[i]
    <2>1. n = Len(stack)
        BY DEF n
    <2>2. /\ stack' \in Seq(Frames) /\ Len(stack') = n - 1
          /\ \A i \in 1 .. (n - 1) : stack'[i] = stack[i]
        BY <1>1, <1>2, <2>1, DropLast
    <2> QED BY <2>2
<1>4. Range(stack[n].todo) = {}
    BY <1>1 DEF Range
<1>5. Asked(stack[n]) \cap Specs \subseteq seen
    BY <1>2, <1>4 DEF FramesInv
<1>6. u = Nobody <=> n = 1
    BY <1>1, <1>2 DEF FramesInv
<1>7. FramesInv'
    <2> SUFFICES ASSUME NEW i \in 1 .. (n - 1)
                 PROVE  /\ stack'[i].spec = Nobody <=> i = 1
                        /\ Range(stack'[i].todo) \subseteq Asked(stack[i])'
                        /\ Asked(stack[i])' \cap Specs
                              \subseteq seen' \cup Range(stack'[i].todo)
        BY <1>3 DEF FramesInv
    <2>1. stack'[i] = stack[i] /\ Asked(stack[i])' = Asked(stack[i]) /\ i \in 1 .. n
        BY <1>2, <1>3 DEF Asked
    <2> QED BY <1>1, <1>2, <2>1 DEF FramesInv
<1>8. DescentInv'
    BY <1>2, <1>3 DEF DescentInv, n
<1>9. NothingExtra'
    BY <1>1 DEF NothingExtra, ClosedSets
<1>10. CASE n = 1
    <2>1. stack' = <<>> /\ out' = out
        BY <1>1, <1>3, <1>6, <1>10
    <2>2. OnStack = {} /\ OnStack' = {}
        BY <1>3, <1>10 DEF OnStack, n
    <2>3. Range(imports) \cap Specs \subseteq seen
        BY <1>1, <1>5, <1>6, <1>10 DEF Asked
    <2>4. TypeOKRegistry'
        BY <1>1, <1>3, <2>1 DEF TypeOKRegistry, Frames
    <2>5. SeenInv' /\ ImportsInv' /\ DependenciesFirst'
        BY <1>1, <2>1, <2>2, <2>3 DEF SeenInv, ImportsInv, DependenciesFirst
    <2> QED BY <1>7, <1>8, <1>9, <2>4, <2>5
<1>11. CASE n > 1
    <2>1. u \in Specs /\ out \in Seq(Specs) /\ out' = Append(out, u)
        BY <1>1, <1>2, <1>6, <1>11 DEF TypeOKRegistry
    <2>2. out' \in Seq(Specs) /\ Range(out') = Range(out) \cup {u}
        BY <2>1, AppendElement
    <2>3. /\ Len(out) \in Nat /\ Len(out') = Len(out) + 1
          /\ DOMAIN out = 1 .. Len(out) /\ DOMAIN out' = 1 .. (Len(out) + 1)
          /\ out'[Len(out) + 1] = u
          /\ \A i \in 1 .. Len(out) : out'[i] = out[i]
        BY <2>1
    <2>4. ASSUME NEW i \in 2 .. (n - 1)
          PROVE  stack[i].spec # u
        <3>1. Depth[u] < Depth[stack[i].spec]
            BY <1>1, <1>2, <1>11 DEF DescentInv, n
        <3>2. Depth[u] \in Nat
            BY <2>1, Registered
        <3> QED BY <3>1, <3>2
    <2>5. u \notin OnStack' /\ OnStack = OnStack' \cup {u}
        <3>1. OnStack' = {stack[i].spec : i \in 2 .. (n - 1)}
            BY <1>2, <1>3 DEF OnStack
        <3>2. 2 .. n = (2 .. (n - 1)) \cup {n}
            BY <1>2, <1>11
        <3>3. OnStack = {stack[i].spec : i \in (2 .. (n - 1)) \cup {n}}
            BY <3>2 DEF OnStack, n
        <3> QED BY <1>1, <2>4, <3>1, <3>3
    <2>6. u \notin Range(out)
        BY <2>5 DEF SeenInv
    <2>7. SeenInv'
        BY <1>1, <2>2, <2>5, <2>6 DEF SeenInv
    <2>8. Needs(u) \subseteq Range(out)
        <3> SUFFICES ASSUME NEW r \in Needs(u), r \in OnStack
                     PROVE  FALSE
            <4>1. Needs(u) \subseteq seen
                BY <1>1, <1>2, <1>5, <1>11 DEF Needs
            <4> QED BY <4>1 DEF SeenInv
        <3>1. Depth[r] < Depth[u] /\ Depth[r] \in Nat /\ Depth[u] \in Nat
            BY <2>1, Registered
        <3>2. PICK i \in 2 .. n : stack[i].spec = r
            BY DEF OnStack, n
        <3>3. i # n => Depth[u] < Depth[r]
            <4>1. ASSUME i # n
                  PROVE  Depth[stack[n].spec] < Depth[stack[i].spec]
                <5>1. n \in Nat /\ i \in 2 .. n /\ n \in 2 .. n /\ i < n
                    <6>1. n \in Nat
                        BY <1>2
                    <6> QED BY <6>1, <1>11, <3>2, <4>1
                <5>2. Len(stack) = n
                    BY DEF n
                <5> QED BY <5>1, <5>2 DEF DescentInv
            <4> QED BY <1>1, <3>2, <4>1
        <3> QED BY <1>1, <3>1, <3>2, <3>3
    <2>9. DependenciesFirst'
        <3>1. ASSUME NEW i \in DOMAIN out', NEW j \in DOMAIN out', out'[i] = out'[j]
              PROVE  i = j
            BY <2>3, <2>6, <3>1 DEF DependenciesFirst, Range
        <3>2. ASSUME NEW i \in DOMAIN out', NEW r \in Needs(out'[i])
              PROVE  \E j \in 1 .. (i - 1) : out'[j] = r
            <4>1. CASE i = Len(out) + 1
                <5>1. PICK j \in 1 .. Len(out) : out[j] = r
                    BY <2>3, <2>8, <4>1 DEF Range
                <5> QED BY <2>3, <4>1, <5>1
            <4>2. CASE i \in 1 .. Len(out)
                <5>1. PICK j \in 1 .. (i - 1) : out[j] = r
                    BY <2>3, <4>2 DEF DependenciesFirst
                <5> QED BY <2>3, <4>2, <5>1
            <4> QED BY <2>3, <4>1, <4>2
        <3> QED BY <3>1, <3>2 DEF DependenciesFirst
    <2>10. TypeOKRegistry'
        BY <1>1, <1>3, <2>2 DEF TypeOKRegistry, Frames
    <2>11. ImportsInv'
        <3>1. stack' # <<>>
            <4>1. Len(stack') # 0
                BY <1>2, <1>3, <1>11
            <4> QED BY <4>1
        <3> QED BY <1>1, <3>1 DEF ImportsInv
    <2> QED BY <1>7, <1>8, <1>9, <2>7, <2>9, <2>10, <2>11
<1>12. n = 1 \/ n > 1
    BY <1>2
<1> QED BY <1>10, <1>11, <1>12

-------------------------------------------------------------------------------
(* A step of either closure keeps the invariant.                              *)
LEMMA StepKeeps ==
    ASSUME IInv, [NextRegistry]_registryVars
    PROVE  IInv'
<1>1. ASSUME NEW s \in Specs, Load(s), UNCHANGED <<imports, visitVars>>
      PROVE  IInv'
    BY <1>1, LoadKeeps
<1>2. CASE Visit /\ UNCHANGED <<imports, loadVars>>
    BY <1>2, SkipKeeps, EnterKeeps, LeaveKeeps DEF Visit
<1>3. CASE UNCHANGED registryVars
    <2> USE <1>3 DEF IInv, registryVars
    <2>1. TypeOKRegistry' /\ DependenciesFirst'
        BY DEF TypeOKRegistry, DependenciesFirst
    <2>2. FramesInv' /\ DescentInv'
        BY DEF FramesInv, Asked, DescentInv
    <2>3. SeenInv' /\ ImportsInv'
        BY DEF SeenInv, OnStack, ImportsInv
    <2>4. NothingExtra'
        BY DEF NothingExtra, ClosedSets
    <2> QED BY <2>1, <2>2, <2>3, <2>4
<1> QED BY <1>1, <1>2, <1>3 DEF NextRegistry

(* The invariant holds whatever the imports are ...                           *)
THEOREM Invariant == SpecRegistry => []IInv
<1> QED BY Initially, StepKeeps, PTL DEF SpecRegistry

(* ... so the state is well formed,                                           *)
THEOREM WellFormed == SpecRegistry => []TypeOKRegistry
<1>1. IInv => TypeOKRegistry
    BY DEF IInv
<1> QED BY Invariant, <1>1, PTL

(* neither closure takes a spec the imports do not need,                       *)
THEOREM NoExtraSpec == SpecRegistry => []NothingExtra
<1>1. IInv => NothingExtra
    BY DEF IInv
<1> QED BY Invariant, <1>1, PTL

(* each spec is given once and after all it requires,                         *)
THEOREM InOrder == SpecRegistry => []DependenciesFirst
<1>1. IInv => DependenciesFirst
    BY DEF IInv
<1> QED BY Invariant, <1>1, PTL

(* When both are done, they agree.                                            *)
LEMMA Agreement == IInv => LoadedIsGiven
<1> SUFFICES ASSUME IInv, Loaded, Visited
             PROVE  Range(out) = sets
    BY DEF LoadedIsGiven
<1> USE DEF IInv, Loaded, Visited
<1>1. OnStack = {}
    BY DEF OnStack
<1>2. seen = Range(out) /\ want = sets /\ seen \subseteq Specs /\ sets \subseteq Specs
    BY <1>1 DEF SeenInv, TypeOKRegistry
<1>3. seen \in ClosedSets /\ Range(imports) \cap Specs \subseteq seen
    <2>1. ASSUME NEW s \in seen, NEW r \in Needs(s)
          PROVE  r \in seen
        <3>1. PICK i \in DOMAIN out : out[i] = s
            BY <1>2 DEF Range
        <3>2. PICK j \in 1 .. (i - 1) : out[j] = r
            BY <3>1 DEF DependenciesFirst
        <3>3. j \in DOMAIN out
            BY <3>1, <3>2 DEF TypeOKRegistry
        <3> QED BY <1>2, <3>2, <3>3 DEF Range
    <2> QED BY <1>2, <2>1 DEF ClosedSets, ImportsInv
<1>4. sets \in ClosedSets /\ Range(imports) \cap Specs \subseteq sets
    BY <1>2 DEF ClosedSets, ImportsInv
<1> QED BY <1>2, <1>3, <1>4 DEF NothingExtra

(* So what is given to the ModelCompiler is what was loaded.                  *)
THEOREM SameClosure == SpecRegistry => []LoadedIsGiven
<1> QED BY Invariant, Agreement, PTL

-------------------------------------------------------------------------------
(* The commands.                                                              *)

(* What a stage says of the queue and of the models.                          *)
QueueInv ==
    /\ queue # <<>> => pc \in {"writing", "rewriting", "materializing"}
    /\ open => queue # <<>>
    /\ pc = "writing" => \A i \in DOMAIN queue :
          /\ queue[i].path \in Names \cup Range(Documents)
          /\ queue[i].content \in Buildable
    /\ pc = "rewriting" => Len(queue) <= 1 /\ \A i \in DOMAIN queue : queue[i].path \in Files
    /\ pc = "materializing" => \A i \in DOMAIN queue :
          queue[i].path \in Specs /\ queue[i].content = queue[i].path

StageInv ==
    /\ pc \in {"loading", "writing"} => cmd \in Judging
    /\ pc = "writing" => cmd # "lint"
    /\ pc = "rewriting" => cmd = "fmt -w"
    /\ pc \in {"visiting", "materializing", "compiling"} => cmd = "compile"
    /\ pc = "loading" => model \in Models /\ imports = Imported[model]
    /\ answer # "none" => pc = "idle"
    /\ \A i \in DOMAIN built : built[i] \in Buildable

(* The outputs are as they were until a command writes, which lint and fmt do *)
(* not, and the others only with no error met.                                *)
OutputsInv ==
    \/ pc \in {"writing", "visiting", "materializing", "compiling"}
    \/ pc = "idle" /\ answer \in {"ok", "failed", "killed"} /\ cmd \notin {"lint"} \cup Formatting
    \/ \A p \in Outputs : disk[p] = before[p]

(* Materialize: the specs written so far are whole, the others are to come.   *)
WrittenInv ==
    LET k == Len(out) - Len(queue)
    IN  /\ Len(queue) <= Len(out)
        /\ \A i \in DOMAIN queue : queue[i] = Entry(out[k + i], out[k + i])
        /\ \A i \in 1 .. k : disk[out[i]] = out[i]

(* compile has one model, which is clean, and all of its catalog.             *)
CleanInv ==
    /\ built = <<model>> /\ model \in Models
    /\ Loaded /\ Uses[model] \subseteq sets

CompileInv ==
    /\ pc = "idle" => ~failed
    /\ cmd = "compile" =>
            /\ pc = "reading" => \/ Len(todo) = 1 /\ ~failed /\ built = <<>>
                                 \/ todo = <<>> /\ failed
                                 \/ todo = <<>> /\ CleanInv
            /\ pc = "loading" => todo = <<>> /\ built = <<>>
            /\ pc \in {"writing", "visiting", "materializing", "compiling"} => CleanInv
            /\ pc = "writing" => \/ queue = <<Entry(Name[model], model)>>
                                 \/ queue = <<>> /\ disk[Name[model]] = model
            /\ pc \in {"visiting", "materializing", "compiling"} => disk[Name[model]] = model
            /\ pc \in {"materializing", "compiling"} => Visited /\ WrittenInv
            /\ pc = "compiling" => queue = <<>>

(* What fmt -w is about to write says what the user left, unless Format does  *)
(* not keep it.                                                               *)
RewriteInv ==
    \A i \in DOMAIN queue :
        queue[i].path \in Files \ garbled /\ kept[queue[i].path] # Torn
            => SameModel(kept[queue[i].path], queue[i].content)

FilesInv == RewriteInv /\ InputsKept

(* What an answer of "ok" needs: how far the files have been read ...         *)
ProgressInv ==
    /\ pc = "idle" => todo = <<>>
    /\ Len(todo) <= Len(listed)
    /\ \A i \in DOMAIN todo : todo[i] = listed[(Len(listed) - Len(todo)) + i]
    /\ cmd \in Judging =>
        /\ pc = "reading" /\ ~failed => Len(built) + Len(todo) = Len(listed)
        /\ pc = "loading" /\ ~failed => Len(built) + Len(todo) + 1 = Len(listed)
        /\ \/ pc \in {"writing", "visiting", "materializing", "compiling"}
           \/ pc = "idle" /\ answer = "ok" /\ cmd # "lint"
           => Len(built) = Len(listed)

(* ... formatted ...                                                          *)
Canonical(t) == t \in Readable /\ t.canonical
Settled(f) == f \in saved \cup garbled \/ disk[f] = Torn \/ Canonical(disk[f])
SettledInv ==
    /\ pc = "rewriting" => \A i \in DOMAIN queue :
          queue[i].path \in garbled \/ Canonical(queue[i].content)
    /\ cmd \in Formatting /\ (pc # "idle" \/ answer = "ok") /\ ~failed =>
        \A i \in 1 .. (Len(listed) - Len(todo)) :
            \/ Settled(listed[i])
            \/ pc = "rewriting" /\ queue # <<>> /\ Head(queue).path = listed[i]

(* ... and written: of the entries of a name, a later one is there whole, or  *)
(* is the one being written.                                                  *)
Reached == (Len(Emitted) - Len(queue)) + (IF open THEN 1 ELSE 0)
There(j) == disk[Emitted[j].path] = Emitted[j].content
EmittedInv ==
    /\ Len(queue) <= Len(Emitted)
    /\ \A i \in DOMAIN queue : queue[i] = Emitted[(Len(Emitted) - Len(queue)) + i]
    /\ \A i \in 1 .. Reached : \E j \in i .. Reached :
        /\ Emitted[j].path = Emitted[i].path
        /\ There(j) \/ (open /\ j = Reached)
AllThere ==
    \A i \in DOMAIN Emitted : \E j \in i .. Len(Emitted) :
        Emitted[j].path = Emitted[i].path /\ There(j)
WholeInv ==
    /\ pc = "writing" => EmittedInv
    /\ \/ pc \in {"visiting", "materializing", "compiling"}
       \/ pc = "idle" /\ answer = "ok" /\ cmd \in {"build", "export", "compile"}
       => AllThere

Inv ==
    /\ IInv /\ TypeOK /\ StageInv /\ QueueInv
    /\ OnlyBuildable /\ OutputsInv /\ FilesInv /\ CompileInv
    /\ ProgressInv /\ SettledInv /\ WholeInv

-------------------------------------------------------------------------------
LEMMA Sequences ==
    ASSUME NEW S, NEW s \in Seq(S)
    PROVE  /\ Len(s) \in Nat /\ DOMAIN s = 1 .. Len(s)
           /\ \A i \in DOMAIN s : s[i] \in S
           /\ s # <<>> => /\ Head(s) = s[1] /\ Head(s) \in S /\ Tail(s) \in Seq(S)
                          /\ Len(s) >= 1 /\ Len(Tail(s)) = Len(s) - 1
                          /\ \A i \in DOMAIN Tail(s) : i + 1 \in DOMAIN s /\ Tail(s)[i] = s[i + 1]
           /\ s = <<>> <=> Len(s) = 0
    OBVIOUS

LEMMA Appended ==
    ASSUME NEW S, NEW T, NEW s \in Seq(S), NEW x \in S, x \in T,
           \A i \in DOMAIN s : s[i] \in T
    PROVE  \A i \in DOMAIN Append(s, x) : Append(s, x)[i] \in T
    OBVIOUS

(* What can be read in a file, and is a model.                                *)
LEMMA ReadTexts ==
    ASSUME TypeOK, todo # <<>>
    PROVE  /\ Head(todo) \in Files
           /\ \A t \in ReadIn(Head(todo)) \ {Unparsable, Absent} :
                 t \in Readable /\ t.model \in Models /\ t.canonical \in BOOLEAN
<1>1. Head(todo) \in Files
    BY Sequences DEF TypeOK
<1>2. disk[Head(todo)] \in Texts \cup {Torn, Absent}
    BY <1>1 DEF TypeOK, Content
<1> QED BY <1>1, <1>2 DEF ReadIn, Texts, Readable

(* What cmdFmt is to write: the same model in canonical form, or Format does  *)
(* not keep the model, which is recorded.                                     *)
LEMMA Rewritten ==
    ASSUME TypeOK, FmtRewrites
    PROVE  \E t \in ReadIn(Head(todo)) \ {Unparsable, Absent}, u \in Texts :
              /\ queue' = <<Entry(Head(todo), u)>>
              /\ garbled \subseteq garbled' /\ garbled' \subseteq garbled \cup {Head(todo)}
              /\ Head(todo) \notin garbled' => SameModel(t, u) /\ Canonical(u)
<1>1. PICK t \in ReadIn(Head(todo)) \ {Unparsable, Absent} :
        (\E u \in Formatted(t) : queue' = <<Entry(Head(todo), u)>>) /\ Garbling(Head(todo), t)
    BY DEF FmtRewrites
<1>2. PICK u \in Formatted(t) : queue' = <<Entry(Head(todo), u)>>
    BY <1>1
<1>3. t \in Readable /\ t.model \in Models
    BY ReadTexts DEF FmtRewrites
<1>4. garbled' = IF t.model \in Frail THEN garbled \cup {Head(todo)} ELSE garbled
    BY <1>1 DEF Garbling
<1>5. CASE t.model \in Frail
    <2>1. u \in Texts
        BY <1>2, <1>3, <1>5 DEF Formatted, Frail, Texts
    <2> QED BY <1>2, <1>4, <1>5, <2>1
<1>6. CASE t.model \notin Frail
    <2>1. u = [t EXCEPT !.canonical = TRUE]
        BY <1>2, <1>6 DEF Formatted, Frail
    <2>2. u \in Readable /\ u.model = t.model /\ u.canonical
        BY <1>3, <1>6, <2>1 DEF Readable
    <2> QED BY <1>2, <1>3, <1>4, <1>6, <2>2 DEF SameModel, Canonical, Texts
<1> QED BY <1>5, <1>6

(* A judgement: what is to be emitted is not blocked.                         *)
LEMMA Judged ==
    ASSUME TypeOK, Judge
    PROVE  /\ failed' \in BOOLEAN
           /\ Blocked => built' = built
           /\ ~Blocked => built' = built \/ built' = Append(built, model)
           /\ ~failed' => ~failed /\ ~Blocked /\ built' = Append(built, model)
<1>1. PICK ok \in Outcomes : /\ failed' = (failed \/ ~ok)
                            /\ built' = IF ok THEN Append(built, model) ELSE built
    BY DEF Judge
<1>2. ok \in BOOLEAN /\ (ok => ~Blocked)
    BY Zenon DEF Outcomes
<1>3. CASE ok
    <2>1. built' = Append(built, model) /\ failed' = failed /\ ~Blocked
        BY <1>1, <1>2, <1>3, Zenon DEF TypeOK
    <2> QED BY <2>1, Zenon DEF TypeOK
<1>4. CASE ~ok
    <2>1. built' = built /\ failed' = TRUE
        BY <1>1, <1>4, Zenon
    <2> QED BY <2>1, Zenon
<1> QED BY <1>3, <1>4, Zenon

(* A command starts the closures anew, takes a step of one, or lets them be.  *)
LEMMA Closures ==
    ASSUME TypeOK, Next
    PROVE  [NextRegistry]_registryVars \/ InitRegistry'
<1>1. ASSUME NEW list \in Lists, Ask(list) PROVE InitRegistry'
    BY <1>1 DEF Ask, InitRegistry, Frame
<1>2. ASSUME NEW how, Exit(how) PROVE InitRegistry'
    BY <1>1, <1>2, InputsAssumption DEF Exit
<1>3. CASE Step
    <2>1. CASE Read
        <3>1. PICK t \in ReadIn(Head(todo)) \ {Unparsable, Absent} : Ask(Imported[t.model])
            BY <2>1 DEF Read
        <3>2. t.model \in Models
            BY <2>1, ReadTexts DEF Read
        <3> QED BY <1>1, <3>1, <3>2, ModelsAssumption
    <2>2. CASE LoadForImports
        BY <2>2 DEF LoadForImports, NextRegistry
    <2>3. CASE Dependencies
        BY <2>3 DEF Dependencies, NextRegistry
    <2>4. CASE Verdict \/ WriteFails \/ Written \/ Compile \/ FmtStops
        BY <1>2, <2>4 DEF Verdict, WriteFails, Written, Compile, FmtStops
    <2>5. CASE Unreadable \/ Judge \/ Emit \/ Truncate \/ Fill \/ Resolve
               \/ Materialize \/ Assemble \/ FmtPasses \/ FmtRewrites \/ FmtGoesOn
        BY <2>5 DEF Unreadable, Judge, Emit, Truncate, Fill, Resolve, Materialize,
                    Assemble, FmtPasses, FmtRewrites, FmtGoesOn, registryVars
    <2> QED BY <1>3, <2>1, <2>2, <2>3, <2>4, <2>5 DEF Step
<1>4. CASE Kill
    BY <1>2, <1>4 DEF Kill
<1> QED BY <1>3, <1>4 DEF Next, Start, Save, registryVars


-------------------------------------------------------------------------------
(* Types.                                                                     *)
LEMMA ListingFiles == \A s \in Listings : s \in Seq(Files)
    BY PathsAssumption DEF Listings

LEMMA EmptySequence == ASSUME NEW S PROVE <<>> \in Seq(S)
    OBVIOUS

LEMMA EmptyDomain == DOMAIN <<>> = {}
    OBVIOUS

LEMMA Texted ==
    /\ \A p \in Files : Content(p) = Texts \cup {Torn, Absent}
    /\ \A p \in Files \cup Outputs : Torn \in Content(p) /\ Absent \in Content(p)
    /\ \A p \in Specs : p \in Outputs /\ Content(p) = {p, Torn, Absent}
    /\ \A p \in Names \cup Range(Documents) :
          p \in Outputs /\ Content(p) = Models \cup {Torn, Absent}
    /\ \A p \in Outputs : p \notin Files /\ Content(p) \subseteq Models \cup Specs \cup {Torn, Absent}
    BY PathsAssumption DEF Content, Outputs

LEMMA NaturalProduct == ASSUME NEW k \in Nat, NEW d \in Nat PROVE k * d \in Nat
    OBVIOUS

(* An element of the product of two numbers has a place in both.              *)
LEMMA Places ==
    ASSUME NEW k \in Nat \ {0}, NEW n \in Nat, NEW a \in Nat, a < n * k
    PROVE  a % k \in 0 .. (k - 1) /\ a \div k \in 0 .. (n - 1)
<1> DEFINE q == a \div k
<1>1. q \in Int /\ a % k \in 0 .. (k - 1) /\ a = (k * q) + (a % k)
    OBVIOUS
<1> HIDE DEF q
<1>2. q < n
    <2> SUFFICES ASSUME n <= q PROVE FALSE
        BY <1>1
    <2>1. PICK d \in Nat : q = n + d
        <3>1. q - n \in Nat /\ q = n + (q - n)
            BY <1>1
        <3> QED BY <3>1
    <2>2. k * q = n * k + k * d
        BY <2>1
    <2>3. k * d \in Nat
        BY NaturalProduct
    <2> QED BY <1>1, <2>2, <2>3
<1>3. q >= 0
    <2> SUFFICES ASSUME q < 0 PROVE FALSE
        BY <1>1
    <2>1. PICK d \in Nat : q = -1 - d
        <3>1. -1 - q \in Nat /\ q = -1 - (-1 - q)
            BY <1>1
        <3> QED BY <3>1
    <2>2. k * q = -k - k * d
        BY <2>1
    <2>3. k * d \in Nat
        BY NaturalProduct
    <2> QED BY <1>1, <2>2, <2>3
<1> QED BY <1>1, <1>2, <1>3 DEF q

LEMMA EmittedTyped ==
    ASSUME TypeOK
    PROVE  /\ Emitted \in Seq(Entries)
           /\ \A i \in DOMAIN Emitted :
                 /\ Emitted[i].path \in Names \cup Range(Documents)
                 /\ \E j \in DOMAIN built : Emitted[i].content = built[j]
<1>1. ASSUME NEW p \in Names \cup Range(Documents), NEW m \in Models
      PROVE  Entry(p, m) \in Entries
    BY Texted DEF Entry, Entries
<1>2. built \in Seq(Models) /\ Len(built) \in Nat /\ DOMAIN built = 1 .. Len(built)
    BY DEF TypeOK
<1>3. CASE cmd # "export"
    <2>1. Emitted = [i \in 1 .. Len(built) |-> Entry(Name[built[i]], built[i])]
        BY <1>2, <1>3 DEF Emitted
    <2>2. \A i \in 1 .. Len(built) : built[i] \in Models /\ Name[built[i]] \in Names
        BY <1>2, ModelsAssumption
    <2> QED BY <1>1, <1>2, <2>1, <2>2 DEF Entry
<1>4. CASE cmd = "export"
    <2> DEFINE k == Len(Documents)
               n == Len(built) * k
    <2>1. k \in Nat /\ n \in Nat
        BY <1>2, PathsAssumption, NaturalProduct
    <2>2. Emitted = [i \in 1 .. n |->
                Entry(Documents[1 + ((i - 1) % k)], built[1 + ((i - 1) \div k)])]
        BY <1>4 DEF Emitted
    <2>3. ASSUME NEW i \in 1 .. n
          PROVE  1 + ((i - 1) % k) \in 1 .. k /\ 1 + ((i - 1) \div k) \in 1 .. Len(built)
        <3>1. i - 1 \in Nat /\ i - 1 < Len(built) * k
            BY <2>1, <2>3
        <3> HIDE DEF k
        <3>2. k # 0
            BY <1>2, <2>1, <3>1
        <3>3. (i - 1) % k \in 0 .. (k - 1) /\ (i - 1) \div k \in 0 .. (Len(built) - 1)
            BY <1>2, <2>1, <3>1, <3>2, Places
        <3> QED BY <1>2, <2>1, <3>3
    <2>4. ASSUME NEW i \in 1 .. n
          PROVE  /\ Documents[1 + ((i - 1) % k)] \in Range(Documents)
                 /\ 1 + ((i - 1) \div k) \in DOMAIN built
                 /\ built[1 + ((i - 1) \div k)] \in Models
        <3>1. DOMAIN Documents = 1 .. k
            BY PathsAssumption
        <3>2. \A j \in DOMAIN Documents : Documents[j] \in Range(Documents)
            BY DEF Range
        <3> HIDE DEF k, n
        <3> QED BY <1>2, <2>3, <3>1, <3>2
    <2> DEFINE doc(i) == Documents[1 + ((i - 1) % k)]
               mod(i) == built[1 + ((i - 1) \div k)]
    <2>5. \A i \in 1 .. n :
            /\ Entry(doc(i), mod(i)) \in Entries
            /\ Entry(doc(i), mod(i)).path \in Names \cup Range(Documents)
            /\ \E j \in DOMAIN built : Entry(doc(i), mod(i)).content = built[j]
        <3> HIDE DEF k, n
        <3> QED BY <1>1, <2>4 DEF Entry
    <2> HIDE DEF k, n, doc, mod
    <2>6. Emitted = [i \in 1 .. n |-> Entry(doc(i), mod(i))]
        BY <2>2 DEF doc, mod
    <2> QED BY <2>1, <2>5, <2>6
<1> QED BY <1>3, <1>4

LEMMA ExitTyped ==
    ASSUME TypeOK, NEW how \in Answers, Exit(how), TypeOKRegistry'
    PROVE  TypeOK'
<1>1. kept' \in [Files -> Texts \cup {Torn, Absent}]
    BY DEF TypeOK, Exit, Lost
<1>2. todo' \in Seq(Files) /\ queue' \in Seq(Entries)
    BY EmptySequence DEF Exit
<1> QED BY <1>1, <1>2 DEF TypeOK, Exit, Stages

LEMMA TypeKept ==
    ASSUME TypeOK, StageInv, Next, TypeOKRegistry'
    PROVE  TypeOK'
<1> USE DEF TypeOK
<1>1. ASSUME NEW c \in Judging \cup Formatting, Start(c)
      PROVE  TypeOK'
    <2>1. before' \in [Outputs -> Models \cup Specs \cup {Torn, Absent}]
        BY <1>1, Texted DEF Start
    <2>2. left' \in [commands : Nat, saves : Nat]
        <3>1. left.commands \in Nat /\ left.commands - 1 \in Nat /\ left.saves \in Nat
            BY <1>1 DEF Start
        <3> QED BY <1>1, <3>1 DEF Start
    <2>3. todo' \in Seq(Files) /\ built' \in Seq(Models) /\ listed' \in Seq(Files)
        BY <1>1, ListingFiles, EmptySequence DEF Start
    <2> QED BY <1>1, <2>1, <2>2, <2>3 DEF Start, Stages, Answers
<1>2. CASE Unreadable \/ FmtPasses
    <2>1. todo' = Tail(todo) /\ todo # <<>> /\ failed' \in BOOLEAN
        BY <1>2 DEF Unreadable, FmtPasses, Advance
    <2>2. todo' \in Seq(Files)
        BY <2>1, Sequences
    <2> QED BY <1>2, <2>1, <2>2 DEF Unreadable, FmtPasses, history
<1>3. CASE Read
    <2>1. todo' \in Seq(Files)
        BY <1>3, Sequences DEF Read, Advance
    <2>2. model' \in Models
        BY <1>3, ReadTexts DEF Read
    <2> QED BY <1>3, <2>1, <2>2 DEF Read, history, Stages
<1>4. CASE LoadForImports \/ Dependencies
    BY <1>4 DEF LoadForImports, Dependencies, command, history
<1>5. CASE Judge
    <2>1. built' \in Seq(Models) /\ failed' \in BOOLEAN
        BY <1>5, Judged DEF Judge, StageInv
    <2> QED BY <1>5, <2>1 DEF Judge, history, Stages
<1>6. CASE Emit
    BY <1>6, EmittedTyped DEF Emit, history, Stages
<1>7. CASE Truncate
    <2>1. Head(queue).path \in Files \cup Outputs
        BY <1>7, Sequences DEF Truncate, Writing, Entries
    <2>2. DOMAIN disk' = Files \cup Outputs /\ \A p \in DOMAIN disk' : disk'[p] \in Content(p)
        BY <1>7, <2>1, Texted DEF Truncate
    <2> QED BY <1>7, <2>2 DEF Truncate, history
<1>8. CASE Fill
    <2>1. Head(queue) \in Entries /\ queue' \in Seq(Entries)
        BY <1>8, Sequences DEF Fill, Writing
    <2>2. DOMAIN disk' = Files \cup Outputs /\ \A p \in DOMAIN disk' : disk'[p] \in Content(p)
        BY <1>8, <2>1 DEF Fill, Entries
    <2> QED BY <1>8, <2>1, <2>2 DEF Fill, history
<1>9. CASE Resolve \/ Assemble \/ FmtGoesOn
    BY <1>9 DEF Resolve, Assemble, FmtGoesOn, history, Stages
<1>10. CASE Materialize
    <2>1. out \in Seq(Specs)
        BY DEF TypeOKRegistry
    <2>2. \A s \in Specs : Entry(s, s) \in Entries
        BY Texted DEF Entry, Entries
    <2>3. Len(out) \in Nat /\ DOMAIN out = 1 .. Len(out) /\ \A i \in DOMAIN out : out[i] \in Specs
        BY <2>1
    <2>4. queue' = [i \in 1 .. Len(out) |-> Entry(out[i], out[i])]
        BY <1>10, <2>3 DEF Materialize
    <2>5. queue' \in Seq(Entries)
        BY <2>2, <2>3, <2>4
    <2> QED BY <1>10, <2>5 DEF Materialize, history, Stages
<1>11. CASE FmtRewrites
    <2>1. todo' \in Seq(Files)
        BY <1>11, Sequences DEF FmtRewrites, Advance
    <2>2. PICK u \in Texts : /\ queue' = <<Entry(Head(todo), u)>>
                             /\ garbled' \subseteq garbled \cup {Head(todo)}
        BY <1>11, Rewritten
    <2>3. Head(todo) \in Files
        BY <1>11, ReadTexts DEF FmtRewrites
    <2>4. queue' \in Seq(Entries) /\ garbled' \subseteq Files
        BY <2>2, <2>3, Texted DEF Entry, Entries
    <2> QED BY <1>11, <2>1, <2>4 DEF FmtRewrites, Stages
<1>12. CASE Verdict \/ WriteFails \/ Written \/ Compile \/ FmtStops \/ Kill
    <2>1. \E how \in Answers : Exit(how)
        BY <1>12 DEF Verdict, WriteFails, Written, Compile, FmtStops, Kill, Answers
    <2> QED BY <2>1, ExitTyped
<1>13. ASSUME NEW f \in Files, NEW t \in Saved, Save(f, t)
       PROVE  TypeOK'
    <2>1. DOMAIN disk' = Files \cup Outputs /\ \A p \in DOMAIN disk' : disk'[p] \in Content(p)
        BY <1>13, Texted, InputsAssumption DEF Save
    <2>2. kept' \in [Files -> Texts \cup {Torn, Absent}]
        BY <1>13, InputsAssumption DEF Save, Lost
    <2>3. left' \in [commands : Nat, saves : Nat]
        <3>1. left.saves \in Nat /\ left.saves - 1 \in Nat /\ left.commands \in Nat
            BY <1>13 DEF Save
        <3> QED BY <1>13, <3>1 DEF Save
    <2>4. garbled' \subseteq Files
        BY <1>13 DEF Save
    <2> QED BY <1>13, <2>1, <2>2, <2>3, <2>4 DEF Save, command
<1> QED BY <1>1, <1>2, <1>3, <1>4, <1>5, <1>6, <1>7, <1>8, <1>9, <1>10, <1>11, <1>12,
           <1>13 DEF Next, Step

-------------------------------------------------------------------------------
(* The stages.                                                                *)
Ends == Verdict \/ WriteFails \/ Written \/ Compile \/ FmtStops \/ Kill

LEMMA Ended ==
    ASSUME Ends
    PROVE  \E how \in {"ok", "errors", "failed", "killed"} :
              /\ Exit(how)
              /\ how \in {"ok", "failed"} => pc # "reading" \/ cmd \in {"lint"} \cup Formatting
              /\ how = "errors" => pc = "reading"
    BY DEF Ends, Verdict, WriteFails, Written, Compile, FmtStops, Kill, Writing

LEMMA Moves ==
    ASSUME Next
    PROVE  \/ \E c \in Judging \cup Formatting : Start(c)
           \/ \E f \in Files, t \in Saved : Save(f, t)
           \/ Unreadable \/ Read \/ LoadForImports \/ Judge \/ Emit \/ Truncate \/ Fill
           \/ Resolve \/ Dependencies \/ Materialize \/ Assemble
           \/ FmtPasses \/ FmtRewrites \/ FmtGoesOn \/ Ends
    BY DEF Next, Step, Ends

(* A model that was judged clean builds: what was loaded is in every closed   *)
(* set that has its imports.                                                  *)
LEMMA CleanBuilds ==
    ASSUME TypeOK, IInv, model \in Models, imports = Imported[model], Loaded, ~Blocked
    PROVE  model \in Buildable
<1>1. NothingExtra
    BY DEF IInv
<1>2. ASSUME NEW C \in ClosedSets, Range(Imported[model]) \cap Specs \subseteq C
      PROVE  Uses[model] \subseteq C
    BY <1>1, <1>2 DEF NothingExtra, Blocked, Loaded
<1> QED BY <1>2 DEF Buildable, Blocked

LEMMA StageKept ==
    ASSUME TypeOK, IInv, StageInv, Next
    PROVE  StageInv'
<1> USE DEF StageInv
<1>1. ASSUME NEW c \in Judging \cup Formatting, Start(c) PROVE StageInv'
    <2>1. /\ built' = <<>>
          /\ \/ pc' = "idle"
             \/ pc' = "reading" /\ answer' = "none"
        BY <1>1 DEF Start
    <2>2. \A i \in DOMAIN built' : built'[i] \in Buildable
        BY <2>1, EmptyDomain
    <2>3. /\ pc' \notin {"loading", "writing", "rewriting", "visiting", "materializing", "compiling"}
          /\ answer' # "none" => pc' = "idle"
        BY <2>1
    <2>4. pc' # "loading" /\ pc' # "writing" /\ pc' # "rewriting"
        BY <2>3
    <2> QED BY <2>2, <2>3, <2>4
<1>2. ASSUME NEW f \in Files, NEW t \in Saved, Save(f, t) PROVE StageInv'
    BY <1>2 DEF Save, command, registryVars
<1>3. CASE Unreadable \/ Emit \/ Truncate \/ Fill \/ Resolve \/ Materialize \/ Assemble
    BY <1>3 DEF Unreadable, Emit, Truncate, Fill, Resolve, Materialize, Assemble, Writing,
                Judging
<1>4. CASE Read
    <2>1. \E t \in ReadIn(Head(todo)) \ {Unparsable, Absent} :
              t.model \in Models /\ model' = t.model /\ imports' = Imported[t.model]
        BY <1>4, ReadTexts DEF Read, Ask
    <2> QED BY <1>4, <2>1 DEF Read
<1>5. CASE LoadForImports \/ Dependencies
    BY <1>5 DEF LoadForImports, Dependencies, command
<1>6. CASE Judge
    <2>1. Blocked \/ model \in Buildable
        BY <1>6, CleanBuilds DEF Judge
    <2>2. built \in Seq(Models) /\ model \in Models
        BY <1>6 DEF TypeOK, Judge
    <2>3. CASE Blocked
        BY <1>6, <2>3, Judged DEF Judge
    <2>4. CASE ~Blocked
        <3>1. \/ built' = built
              \/ built' = Append(built, model)
            BY <1>6, <2>4, Judged, Zenon
        <3>2. model \in Buildable
            BY <2>1, <2>4, Zenon
        <3>3. \A i \in DOMAIN built' : built'[i] \in Buildable
            <4>1. CASE built' = built
                BY <4>1
            <4>2. \A i \in DOMAIN Append(built, model) : Append(built, model)[i] \in Buildable
                BY <2>2, <3>2, Appended
            <4> QED BY <3>1, <4>1, <4>2, Zenon
        <3> QED BY <1>6, <3>3 DEF Judge
    <2> QED BY <2>3, <2>4, Zenon
<1>7. CASE FmtPasses \/ FmtRewrites \/ FmtGoesOn
    BY <1>7 DEF FmtPasses, FmtRewrites, FmtGoesOn
<1>8. CASE Ends
    BY <1>8, Ended DEF Exit
<1> QED BY <1>1, <1>2, <1>3, <1>4, <1>5, <1>6, <1>7, <1>8, Moves

LEMMA QueueKept ==
    ASSUME TypeOK, StageInv, QueueInv, Next
    PROVE  QueueInv'
<1> USE DEF QueueInv
<1>1. ASSUME NEW c \in Judging \cup Formatting, Start(c) PROVE QueueInv'
    BY <1>1 DEF Start
<1>2. ASSUME NEW f \in Files, NEW t \in Saved, Save(f, t) PROVE QueueInv'
    BY <1>2 DEF Save, command
<1>3. CASE Unreadable \/ Read \/ Judge \/ Resolve \/ Assemble \/ FmtPasses \/ FmtGoesOn
    BY <1>3 DEF Unreadable, Read, Judge, Resolve, Assemble, FmtPasses, FmtGoesOn
<1>4. CASE LoadForImports \/ Dependencies
    BY <1>4 DEF LoadForImports, Dependencies, command
<1>5. CASE Emit
    <2>1. \A i \in DOMAIN queue' :
            /\ queue'[i].path \in Names \cup Range(Documents)
            /\ queue'[i].content \in Buildable
        BY <1>5, EmittedTyped DEF Emit, StageInv
    <2> QED BY <1>5, <2>1 DEF Emit
<1>6. CASE Truncate
    BY <1>6 DEF Truncate, Writing
<1>7. CASE Fill
    <2>1. queue \in Seq(Entries) /\ queue # <<>> /\ queue' = Tail(queue)
        BY <1>7 DEF Fill, Writing, TypeOK
    <2>2. \A i \in DOMAIN queue' : \E j \in DOMAIN queue : queue'[i] = queue[j]
        BY <2>1, Sequences
    <2>3. Len(queue) \in Nat /\ Len(queue') = Len(queue) - 1
        BY <2>1, Sequences
    <2> QED BY <1>7, <2>2, <2>3 DEF Fill, Writing
<1>8. CASE Materialize
    <2>1. DOMAIN queue' = DOMAIN out /\ \A i \in DOMAIN out : queue'[i] = Entry(out[i], out[i])
        BY <1>8 DEF Materialize
    <2>2. \A i \in DOMAIN out : out[i] \in Specs
        BY DEF TypeOK, TypeOKRegistry
    <2> QED BY <1>8, <2>1, <2>2 DEF Materialize, Entry
<1>9. CASE FmtRewrites
    <2>1. Head(todo) \in Files /\ \E u \in Texts : queue' = <<Entry(Head(todo), u)>>
        BY <1>9, ReadTexts, Rewritten DEF FmtRewrites
    <2>2. Len(queue') = 1 /\ queue'[1].path \in Files /\ DOMAIN queue' = {1}
        BY <2>1 DEF Entry
    <2>3. pc' = "rewriting" /\ ~open' /\ queue' # <<>>
        <3>1. pc = "reading" /\ pc' = "rewriting" /\ open' = open
            BY <1>9 DEF FmtRewrites
        <3>2. ~open
            BY <3>1
        <3> QED BY <2>1, <3>1, <3>2
    <2> QED BY <2>2, <2>3
<1>10. CASE Ends
    BY <1>10, Ended DEF Exit
<1> QED BY <1>1, <1>2, <1>3, <1>4, <1>5, <1>6, <1>7, <1>8, <1>9, <1>10, Moves

(* What is written in the output directory.                                   *)
LEMMA BuildableKept ==
    ASSUME TypeOK, QueueInv, OnlyBuildable, Next
    PROVE  OnlyBuildable'
<1> USE DEF OnlyBuildable
<1>1. CASE Truncate
    BY <1>1, ContentsAssumption DEF Truncate, TypeOK
<1>2. CASE Fill
    <2>1. Head(queue) = queue[1] /\ 1 \in DOMAIN queue
        BY <1>2, Sequences DEF Fill, Writing, TypeOK
    <2>2. Head(queue).path \in Files
          \/ Head(queue).content \in Buildable
          \/ Head(queue).content \in Specs
        BY <1>2, <2>1 DEF Fill, Writing, QueueInv
    <2>3. ASSUME NEW p \in Outputs, disk'[p] \in Models PROVE disk'[p] \in Buildable
        <3>1. CASE p # Head(queue).path
            BY <1>2, <2>3, <3>1 DEF Fill, TypeOK
        <3>2. CASE p = Head(queue).path
            BY <1>2, <2>2, <2>3, <3>2, Texted, ContentsAssumption DEF Fill, TypeOK
        <3> QED BY <3>1, <3>2
    <2> QED BY <2>3 DEF Buildable
<1>3. ASSUME NEW f \in Files, NEW t \in Saved, Save(f, t) PROVE OnlyBuildable'
    BY <1>3, Texted DEF Save, TypeOK
<1>4. CASE UNCHANGED disk
    BY <1>4
<1>5. \/ Truncate \/ Fill \/ UNCHANGED disk \/ \E f \in Files, t \in Saved : Save(f, t)
    <2>1. Ends => UNCHANGED disk
        BY Ended DEF Exit
    <2> QED BY <2>1, Moves DEF Start, Unreadable, Read, LoadForImports, Judge, Emit, Resolve,
                Dependencies, Materialize, Assemble, FmtPasses, FmtRewrites, FmtGoesOn
<1> QED BY <1>1, <1>2, <1>3, <1>4, <1>5

(* What was there before, in the output directory ...                         *)
LEMMA OutputsKept ==
    ASSUME TypeOK, StageInv, QueueInv, OutputsInv, Next
    PROVE  OutputsInv'
<1> USE DEF OutputsInv
<1>1. ASSUME NEW c \in Judging \cup Formatting, Start(c) PROVE OutputsInv'
    BY <1>1 DEF Start
<1>2. ASSUME NEW f \in Files, NEW t \in Saved, Save(f, t) PROVE OutputsInv'
    BY <1>2, Texted DEF Save, command, TypeOK
<1>3. CASE Unreadable \/ Read \/ Judge \/ FmtPasses \/ FmtRewrites \/ FmtGoesOn
    BY <1>3 DEF Unreadable, Read, Judge, FmtPasses, FmtRewrites, FmtGoesOn, history
<1>4. CASE LoadForImports \/ Dependencies
    BY <1>4 DEF LoadForImports, Dependencies, command, history
<1>5. CASE Emit \/ Resolve \/ Materialize \/ Assemble
    BY <1>5 DEF Emit, Resolve, Materialize, Assemble
<1>6. CASE Truncate \/ Fill
    <2>1. pc' = pc /\ UNCHANGED before /\ pc \in {"writing", "rewriting", "materializing"}
        BY <1>6 DEF Truncate, Fill, Writing, history
    <2>2. CASE pc = "rewriting"
        <3>1. Head(queue) = queue[1] /\ 1 \in DOMAIN queue
            BY <1>6, Sequences DEF Truncate, Fill, Writing, TypeOK
        <3>2. Head(queue).path \in Files
            BY <2>2, <3>1 DEF QueueInv
        <3> QED BY <1>6, <2>1, <2>2, <3>2, Texted DEF Truncate, Fill, TypeOK
    <2> QED BY <2>1, <2>2
<1>7. CASE Ends
    <2>1. PICK how \in {"ok", "errors", "failed", "killed"} :
              /\ Exit(how)
              /\ how \in {"ok", "failed"} => pc # "reading" \/ cmd \in {"lint"} \cup Formatting
              /\ how = "errors" => pc = "reading"
        BY <1>7, Ended
    <2>2. UNCHANGED <<disk, before, cmd>> /\ pc' = "idle" /\ answer' = how
        BY <2>1 DEF Exit
    <2>3. CASE pc \in {"writing", "visiting", "materializing", "compiling"}
        <3>1. how # "errors" /\ cmd \notin {"lint"} \cup Formatting
            BY <2>1, <2>3 DEF StageInv, Judging, Formatting
        <3> QED BY <2>1, <2>2, <3>1
    <2>4. CASE pc = "idle"
        BY <1>7, <2>4 DEF Ends, Verdict, WriteFails, Written, Compile, FmtStops, Kill, Writing
    <2> QED BY <2>2, <2>3, <2>4
<1> QED BY <1>1, <1>2, <1>3, <1>4, <1>5, <1>6, <1>7, Moves

LEMMA Refused == ASSUME StageInv, OutputsInv PROVE RefusedLeaves
    BY DEF StageInv, OutputsInv, RefusedLeaves, Judging, Formatting

(* ... and in the input directory.                                            *)
LEMMA FilesKept ==
    ASSUME TypeOK, StageInv, QueueInv, FilesInv, Next
    PROVE  FilesInv'
<1> USE DEF FilesInv, RewriteInv, InputsKept, Empties
<1>1. ASSUME NEW c \in Judging \cup Formatting, Start(c) PROVE FilesInv'
    BY <1>1 DEF Start
<1>2. ASSUME NEW f \in Files, NEW t \in Saved, Save(f, t) PROVE FilesInv'
    <2>1. UNCHANGED <<queue, open, pc>> /\ disk' = [disk EXCEPT ![f] = t]
        BY <1>2 DEF Save, command
    <2>2. CASE Writing /\ Head(queue).path = f
        <3>1. kept' = [kept EXCEPT ![f] = Torn] /\ garbled' = garbled
            BY <1>2, <2>2 DEF Save, Lost
        <3> QED BY <2>1, <3>1 DEF TypeOK
    <2>3. CASE ~(Writing /\ Head(queue).path = f)
        <3>1. kept' = [kept EXCEPT ![f] = t] /\ garbled' = garbled \ {f}
            BY <1>2, <2>3 DEF Save
        <3>2. \A i \in DOMAIN queue : queue[i].path # f
            <4> SUFFICES ASSUME NEW i \in DOMAIN queue, queue[i].path = f PROVE FALSE
                OBVIOUS
            <4>1. queue # <<>> /\ Writing
                BY EmptyDomain DEF QueueInv, Writing
            <4>2. pc = "rewriting"
                BY <4>1, Texted DEF QueueInv, Writing
            <4>3. i = 1 /\ Head(queue) = queue[1]
                BY <4>1, <4>2, Sequences DEF QueueInv, TypeOK
            <4> QED BY <2>3, <4>1, <4>3
        <3>3. open => Writing
            BY DEF QueueInv, Writing
        <3> QED BY <2>1, <2>3, <3>1, <3>2, <3>3 DEF TypeOK, SameModel
    <2> QED BY <2>2, <2>3
<1>3. CASE Unreadable \/ Read \/ Judge \/ Resolve \/ Assemble \/ FmtPasses \/ FmtGoesOn
    BY <1>3 DEF Unreadable, Read, Judge, Resolve, Assemble, FmtPasses, FmtGoesOn, history
<1>4. CASE LoadForImports \/ Dependencies
    BY <1>4 DEF LoadForImports, Dependencies, command, history
<1>5. CASE Emit \/ Materialize
    <2>1. UNCHANGED <<disk, kept, garbled, open>> /\ ~open
        BY <1>5 DEF Emit, Materialize, history, QueueInv
    <2>2. \A i \in DOMAIN queue' : queue'[i].path \notin Files
        <3>1. CASE Emit
            BY <3>1, EmittedTyped, Texted DEF Emit
        <3>2. CASE Materialize
            <4>1. DOMAIN queue' = DOMAIN out /\ \A i \in DOMAIN out : queue'[i].path = out[i]
                BY <3>2 DEF Materialize, Entry
            <4> QED BY <4>1, Texted DEF TypeOK, TypeOKRegistry
        <3> QED BY <1>5, <3>1, <3>2
    <2> QED BY <2>1, <2>2
<1>6. CASE Truncate
    <2>1. Head(queue) = queue[1] /\ 1 \in DOMAIN queue
        BY <1>6, Sequences DEF Truncate, Writing, TypeOK
    <2>2. UNCHANGED <<queue, kept, garbled>> /\ ~open /\ open'
          /\ disk' = [disk EXCEPT ![Head(queue).path] = Torn]
        BY <1>6 DEF Truncate, history
    <2> QED BY <2>1, <2>2 DEF TypeOK
<1>7. CASE Fill
    <2>1. queue \in Seq(Entries) /\ queue # <<>> /\ queue' = Tail(queue)
          /\ UNCHANGED <<kept, garbled>>
        BY <1>7 DEF Fill, Writing, TypeOK, history
    <2>2. \A i \in DOMAIN queue' : \E j \in DOMAIN queue : queue'[i] = queue[j]
        BY <2>1, Sequences
    <2>3. open /\ ~open' /\ disk' = [disk EXCEPT ![Head(queue).path] = Head(queue).content]
        BY <1>7 DEF Fill
    <2> QED BY <2>1, <2>2, <2>3 DEF TypeOK
<1>8. CASE FmtRewrites
    <2>1. PICK t \in ReadIn(Head(todo)) \ {Unparsable, Absent}, u \in Texts :
              /\ queue' = <<Entry(Head(todo), u)>> /\ garbled \subseteq garbled'
              /\ Head(todo) \notin garbled' => SameModel(t, u)
        BY <1>8, Rewritten
    <2>2. /\ UNCHANGED <<disk, kept, open>> /\ ~open /\ Head(todo) \in Files
          /\ t \in Readable
        BY <1>8, ReadTexts DEF FmtRewrites, QueueInv
    <2>3. ASSUME kept[Head(todo)] # Torn, Head(todo) \notin garbled'
          PROVE  SameModel(kept[Head(todo)], u)
        <3>1. SameModel(kept[Head(todo)], disk[Head(todo)])
            BY <2>1, <2>2, <2>3
        <3>2. disk[Head(todo)] # Torn
            BY <2>3, <3>1, ContentsAssumption DEF SameModel, Texts
        <3>3. t = disk[Head(todo)]
            BY <3>2 DEF ReadIn
        <3> QED BY <2>1, <2>3, <3>1, <3>3 DEF SameModel
    <2>4. DOMAIN queue' = {1} /\ queue'[1] = Entry(Head(todo), u)
        BY <2>1
    <2> QED BY <2>1, <2>2, <2>3, <2>4 DEF Entry
<1>9. CASE Ends
    <2>1. /\ UNCHANGED <<disk, garbled>> /\ open' = FALSE /\ queue' = <<>>
          /\ kept' = IF open THEN Lost(Head(queue).path) ELSE kept
        BY <1>9, Ended DEF Exit
    <2>2. ASSUME NEW f \in Files, kept'[f] # Torn
          PROVE  kept'[f] = kept[f] /\ ~(open /\ Head(queue).path = f)
        BY <2>1, <2>2 DEF Lost, TypeOK
    <2> QED BY <2>1, <2>2, EmptyDomain
<1> QED BY <1>1, <1>2, <1>3, <1>4, <1>5, <1>6, <1>7, <1>8, <1>9, Moves

-------------------------------------------------------------------------------
(* compile.                                                                   *)
LEMMA OneFile ==
    ASSUME NEW S, NEW s \in Seq(S), Len(s) = 1
    PROVE  s # <<>> /\ Tail(s) = <<>>
<1>1. s # <<>>
    <2>1. Len(<<>>) = 0
        OBVIOUS
    <2> QED BY <2>1
<1>2. Tail(s) \in Seq(S) /\ Len(Tail(s)) = 0
    BY <1>1, Sequences
<1> QED BY <1>1, <1>2, Sequences

LEMMA EmitsOne ==
    ASSUME built = <<model>>, cmd = "compile"
    PROVE  Emitted = <<Entry(Name[model], model)>>
<1>1. DOMAIN built = {1} /\ built[1] = model
    OBVIOUS
<1>2. Emitted = [i \in {1} |-> Entry(Name[model], model)]
    BY <1>1 DEF Emitted
<1> QED BY <1>2

(* A spec is written after another.                                           *)
LEMMA WritingSpecs ==
    ASSUME TypeOK, IInv, WrittenInv, pc = "materializing", CompileInv, CleanInv,
           disk[Name[model]] = model, Truncate \/ Fill
    PROVE  WrittenInv' /\ disk'[Name[model]] = model
<1> DEFINE k == Len(out) - Len(queue)
<1>1. /\ queue \in Seq(Entries) /\ queue # <<>> /\ Len(queue) \in Nat /\ Len(queue) >= 1
      /\ Head(queue) = queue[1] /\ DOMAIN queue = 1 .. Len(queue)
    BY Sequences DEF Truncate, Fill, Writing, TypeOK
<1>2. out \in Seq(Specs) /\ Len(out) \in Nat /\ DOMAIN out = 1 .. Len(out)
      /\ \A i \in DOMAIN out : out[i] \in Specs
    BY DEF TypeOK, TypeOKRegistry
<1>3. /\ Len(queue) <= Len(out)
      /\ \A i \in DOMAIN queue : queue[i] = Entry(out[k + i], out[k + i])
      /\ \A i \in 1 .. k : disk[out[i]] = out[i]
    BY DEF WrittenInv
<1>4. k \in Nat /\ k + 1 \in DOMAIN out /\ Head(queue) = Entry(out[k + 1], out[k + 1])
    BY <1>1, <1>2, <1>3
<1>5. out[k + 1] \in Specs /\ Name[model] \in Names /\ Name[model] # out[k + 1]
    BY <1>2, <1>4, ModelsAssumption, PathsAssumption DEF CleanInv
<1>6. \A i \in 1 .. k : out[i] # out[k + 1] /\ i \in DOMAIN out
    BY <1>1, <1>2, <1>4 DEF IInv, DependenciesFirst
<1>7. Specs \cup Names \subseteq DOMAIN disk
    BY DEF TypeOK, Outputs
<1>8. UNCHANGED <<out, model>>
    BY DEF Truncate, Fill, registryVars
<1> HIDE DEF k
<1>9. CASE Truncate
    <2>1. disk' = [disk EXCEPT ![out[k + 1]] = Torn] /\ queue' = queue
        <3>1. Head(queue).path = out[k + 1]
            BY <1>4 DEF Entry
        <3> QED BY <1>9, <3>1 DEF Truncate
    <2>2. \A i \in 1 .. k : disk'[out[i]] = out[i]
        BY <1>2, <1>3, <1>6, <1>7, <2>1
    <2>3. disk'[Name[model]] = model
        BY <1>5, <1>7, <2>1
    <2> QED BY <1>3, <1>8, <2>1, <2>2, <2>3 DEF WrittenInv, k
<1>10. CASE Fill
    <2>1. disk' = [disk EXCEPT ![out[k + 1]] = out[k + 1]] /\ queue' = Tail(queue)
        <3>1. Head(queue).path = out[k + 1] /\ Head(queue).content = out[k + 1]
            BY <1>4 DEF Entry
        <3> QED BY <1>10, <3>1 DEF Fill
    <2>2. /\ Len(queue') = Len(queue) - 1
          /\ \A i \in DOMAIN queue' : i + 1 \in DOMAIN queue /\ queue'[i] = queue[i + 1]
        BY <1>1, <2>1, Sequences
    <2>3. \A i \in 1 .. (k + 1) : disk'[out[i]] = out[i]
        <3>1. \A i \in 1 .. (k + 1) : i \in 1 .. k \/ i = k + 1
            BY <1>4
        <3> QED BY <1>2, <1>3, <1>5, <1>6, <1>7, <2>1, <3>1
    <2>4. disk'[Name[model]] = model
        BY <1>5, <1>7, <2>1
    <2>5. Len(out') - Len(queue') = k + 1 /\ Len(queue') <= Len(out')
        BY <1>1, <1>2, <1>3, <1>8, <2>2 DEF k
    <2>6. ASSUME NEW i \in DOMAIN queue'
          PROVE  queue'[i] = Entry(out[(k + 1) + i], out[(k + 1) + i])
        <3>1. i + 1 \in DOMAIN queue /\ queue'[i] = queue[i + 1]
            BY <2>2
        <3>2. i \in Nat
            BY <1>1, <3>1, <2>1, Sequences
        <3>3. k + (i + 1) = (k + 1) + i
            BY <1>4, <3>2
        <3> QED BY <1>3, <3>1, <3>3
    <2> QED BY <1>8, <2>3, <2>4, <2>5, <2>6 DEF WrittenInv
<1> QED BY <1>9, <1>10

LEMMA CompileKept ==
    ASSUME TypeOK, IInv, StageInv, QueueInv, CompileInv, Next
    PROVE  CompileInv'
<1>1. ASSUME NEW c \in Judging \cup Formatting, Start(c) PROVE CompileInv'
    <2>1. /\ ~failed' /\ built' = <<>> /\ pc' \in {"idle", "reading"}
          /\ cmd' = "compile" /\ pc' = "reading" => Len(todo') = 1
        BY <1>1 DEF Start, Misused, Judging, CompileInv
    <2> QED BY <2>1 DEF CompileInv
<1>2. ASSUME NEW f \in Files, NEW t \in Saved, Save(f, t) PROVE CompileInv'
    <2>1. UNCHANGED <<command, registryVars>> /\ disk' = [disk EXCEPT ![f] = t]
        BY <1>2 DEF Save
    <2>2. \A p \in Outputs : disk'[p] = disk[p]
        BY <2>1, Texted DEF TypeOK
    <2>3. model \in Models => Name[model] \in Outputs
        BY ModelsAssumption DEF Outputs
    <2>4. out \in Seq(Specs) /\ \A i \in DOMAIN out : out[i] \in Outputs
        BY Texted DEF TypeOK, TypeOKRegistry
    <2>5. CleanInv' = CleanInv
        BY <2>1 DEF CleanInv, command, registryVars, Loaded
    <2>6. WrittenInv => WrittenInv'
        <3>1. Len(out) \in Nat /\ Len(queue) \in Nat /\ DOMAIN out = 1 .. Len(out)
            BY DEF TypeOK, TypeOKRegistry
        <3> QED BY <2>1, <2>2, <2>4, <3>1 DEF WrittenInv, command, registryVars
    <2>7. UNCHANGED <<pc, cmd, todo, failed, built, queue, model>> /\ Visited' = Visited
        BY <2>1 DEF command, registryVars, Visited
    <2>8. CleanInv => disk'[Name[model]] = disk[Name[model]]
        BY <2>2, <2>3 DEF CleanInv
    <2> QED BY <2>5, <2>6, <2>7, <2>8 DEF CompileInv
<1>3. CASE Unreadable \/ Read
    <2>1. todo' = Tail(todo) /\ todo # <<>> /\ pc = "reading" /\ UNCHANGED <<cmd, built>>
        BY <1>3 DEF Unreadable, Read, Advance
    <2>2. cmd = "compile" => todo' = <<>> /\ built = <<>>
        BY <2>1, OneFile DEF CompileInv, TypeOK
    <2>3. pc' = "loading" \/ (pc' = "reading" /\ failed')
        BY <1>3 DEF Unreadable, Read
    <2> QED BY <2>1, <2>2, <2>3 DEF CompileInv
<1>4. CASE LoadForImports
    BY <1>4 DEF LoadForImports, command, CompileInv
<1>5. CASE Judge
    <2>1. /\ pc = "loading" /\ pc' = "reading" /\ UNCHANGED <<cmd, todo, model>>
          /\ UNCHANGED <<imports, want, sets>> /\ Loaded
        BY <1>5 DEF Judge, registryVars
    <2>2. ~failed' => ~Blocked /\ built' = Append(built, model)
        BY <1>5, Judged, Zenon
    <2>3. ASSUME cmd = "compile", ~failed' PROVE CleanInv'
        <3>1. built' = <<model>> /\ model \in Models
            BY <2>1, <2>2, <2>3 DEF CompileInv, StageInv
        <3> QED BY <2>1, <2>2, <2>3, <3>1 DEF CleanInv, Loaded, Blocked
    <2> QED BY <2>1, <2>3 DEF CompileInv
<1>6. CASE Emit
    <2>1. /\ pc = "reading" /\ pc' = "writing" /\ ~failed /\ queue' = Emitted
          /\ UNCHANGED <<cmd, model, built, registryVars>> /\ todo = <<>>
        BY <1>6 DEF Emit
    <2>2. cmd = "compile" => CleanInv /\ queue' = <<Entry(Name[model], model)>>
        BY <2>1, EmitsOne DEF CompileInv, CleanInv
    <2> QED BY <2>1, <2>2 DEF CompileInv, CleanInv, Loaded, registryVars
<1>7. CASE Truncate \/ Fill
    <2>1. /\ pc' = pc /\ UNCHANGED <<cmd, todo, failed, model, built, registryVars>>
          /\ pc \in {"writing", "rewriting", "materializing"} /\ queue # <<>>
        BY <1>7 DEF Truncate, Fill, Writing
    <2>2. CleanInv' = CleanInv /\ Visited' = Visited
        BY <2>1 DEF CleanInv, Loaded, Visited, registryVars
    <2>3. CASE cmd = "compile" /\ pc = "writing"
        <3>1. queue = <<Entry(Name[model], model)>> /\ CleanInv
            BY <2>1, <2>3 DEF CompileInv
        <3>2. /\ Head(queue).path = Name[model] /\ Head(queue).content = model
              /\ Tail(queue) = <<>>
            BY <3>1 DEF Entry
        <3>3. Name[model] \in DOMAIN disk
            BY <3>1, ModelsAssumption DEF CleanInv, TypeOK, Outputs
        <3>4. \/ queue' = queue
              \/ queue' = <<>> /\ disk'[Name[model]] = model
            <4>1. CASE Truncate
                BY <4>1 DEF Truncate
            <4>2. CASE Fill
                <5>1. disk' = [disk EXCEPT ![Name[model]] = model] /\ queue' = <<>>
                    BY <3>2, <4>2 DEF Fill
                <5> QED BY <3>3, <5>1
            <4> QED BY <1>7, <4>1, <4>2
        <3> QED BY <2>1, <2>2, <2>3, <3>1, <3>4 DEF CompileInv
    <2>4. CASE cmd = "compile" /\ pc = "materializing"
        <3>1. Visited /\ WrittenInv /\ CleanInv /\ disk[Name[model]] = model
            BY <2>4 DEF CompileInv
        <3>2. WrittenInv' /\ disk'[Name[model]] = model
            BY <1>7, <2>4, <3>1, WritingSpecs
        <3> QED BY <2>1, <2>2, <2>4, <3>1, <3>2 DEF CompileInv
    <2>5. CASE cmd # "compile"
        BY <2>1, <2>5 DEF CompileInv
    <2>6. pc = "rewriting" => cmd # "compile"
        BY DEF StageInv
    <2> QED BY <2>1, <2>3, <2>4, <2>5, <2>6
<1>8. CASE Resolve
    <2>1. CleanInv' = CleanInv
        BY <1>8 DEF Resolve, CleanInv, Loaded, registryVars
    <2>2. queue # <<Entry(Name[model], model)>>
        BY <1>8 DEF Resolve
    <2> QED BY <1>8, <2>1, <2>2 DEF Resolve, CompileInv
<1>9. CASE Dependencies
    <2>1. CleanInv' = CleanInv
        BY <1>9 DEF Dependencies, CleanInv, Loaded, loadVars, command
    <2> QED BY <1>9, <2>1 DEF Dependencies, CompileInv, command
<1>10. CASE Materialize
    <2>1. CleanInv' = CleanInv /\ Visited' = Visited /\ Visited /\ out' = out
        BY <1>10 DEF Materialize, CleanInv, Loaded, Visited, registryVars
    <2>2. WrittenInv'
        <3>1. Len(out) \in Nat /\ DOMAIN out = 1 .. Len(out)
            BY DEF TypeOK, TypeOKRegistry
        <3>2. queue' = [i \in 1 .. Len(out) |-> Entry(out[i], out[i])]
            BY <1>10, <3>1 DEF Materialize
        <3>3. Len(queue') = Len(out) /\ DOMAIN queue' = 1 .. Len(out)
            BY <3>1, <3>2
        <3> QED BY <2>1, <3>1, <3>2, <3>3 DEF WrittenInv
    <2> QED BY <1>10, <2>1, <2>2 DEF Materialize, CompileInv
<1>11. CASE Assemble
    <2>1. CleanInv' = CleanInv /\ Visited' = Visited /\ (WrittenInv' <=> WrittenInv)
        BY <1>11 DEF Assemble, CleanInv, WrittenInv, Loaded, Visited, registryVars
    <2> QED BY <1>11, <2>1 DEF Assemble, CompileInv
<1>12. CASE FmtPasses \/ FmtRewrites \/ FmtGoesOn
    <2>1. cmd \in Formatting /\ cmd' = cmd /\ pc' \in {"reading", "rewriting"}
        BY <1>12 DEF FmtPasses, FmtRewrites, FmtGoesOn, StageInv, Formatting
    <2> QED BY <2>1 DEF CompileInv, Formatting
<1>13. CASE Ends
    BY <1>13, Ended DEF Exit, CompileInv
<1> QED BY <1>1, <1>2, <1>3, <1>4, <1>5, <1>6, <1>7, <1>8, <1>9, <1>10, <1>11, <1>12, <1>13,
           Moves

LEMMA Fed == ASSUME TypeOK, IInv, StageInv, CompileInv PROVE CompilerFed
<1> SUFFICES ASSUME pc = "compiling"
             PROVE  /\ disk[Name[model]] = model
                    /\ \A i \in DOMAIN out : disk[out[i]] = out[i]
                    /\ Range(out) = sets /\ Uses[model] \subseteq Range(out)
    BY DEF CompilerFed
<1>1. CleanInv /\ disk[Name[model]] = model /\ Visited /\ WrittenInv /\ queue = <<>>
    BY DEF StageInv, CompileInv
<1>2. Range(out) = sets
    BY <1>1, Agreement DEF LoadedIsGiven, CleanInv
<1>3. out \in Seq(Specs) /\ Len(out) \in Nat /\ Len(queue) = 0 /\ DOMAIN out = 1 .. Len(out)
    BY <1>1 DEF TypeOK, TypeOKRegistry
<1> QED BY <1>1, <1>2, <1>3 DEF WrittenInv, CleanInv

-------------------------------------------------------------------------------
(* A command that ends well.                                                  *)
(* All but the first of a sequence that ends another.                         *)
LEMMA Suffix ==
    ASSUME NEW S, NEW s \in Seq(S), NEW R, NEW t \in Seq(R), s # <<>>, Len(s) <= Len(t),
           \A i \in DOMAIN s : s[i] = t[(Len(t) - Len(s)) + i]
    PROVE  /\ Len(Tail(s)) = Len(s) - 1 /\ Len(Tail(s)) <= Len(t)
           /\ \A i \in DOMAIN Tail(s) : Tail(s)[i] = t[(Len(t) - Len(Tail(s))) + i]
           /\ Head(s) = t[(Len(t) - Len(s)) + 1]
<1>1. /\ Len(s) \in Nat /\ Len(s) >= 1 /\ Len(t) \in Nat /\ Len(Tail(s)) = Len(s) - 1
      /\ Head(s) = s[1] /\ DOMAIN s = 1 .. Len(s) /\ DOMAIN Tail(s) = 1 .. (Len(s) - 1)
      /\ \A i \in DOMAIN Tail(s) : i + 1 \in DOMAIN s /\ Tail(s)[i] = s[i + 1]
    OBVIOUS
<1>2. ASSUME NEW i \in DOMAIN Tail(s)
      PROVE  Tail(s)[i] = t[(Len(t) - Len(Tail(s))) + i]
    <2>1. (Len(t) - Len(s)) + (i + 1) = (Len(t) - Len(Tail(s))) + i
        BY <1>1
    <2>2. Tail(s)[i] = t[(Len(t) - Len(s)) + (i + 1)]
        BY <1>1
    <2> QED BY <2>1, <2>2
<1> QED BY <1>1, <1>2

LEMMA ProgressKept ==
    ASSUME TypeOK, StageInv, ProgressInv, Next
    PROVE  ProgressInv'
<1> USE DEF ProgressInv
<1>0. /\ todo \in Seq(Files) /\ listed \in Seq(Files) /\ built \in Seq(Models)
      /\ Len(todo) \in Nat /\ Len(listed) \in Nat /\ Len(built) \in Nat
    BY DEF TypeOK
<1>1. ASSUME NEW c \in Judging \cup Formatting, Start(c) PROVE ProgressInv'
    <2>1. PICK s \in Listings :
            /\ listed' = s
            /\ \/ pc' = "idle" /\ answer' = "misuse" /\ todo' = <<>>
               \/ pc' = "reading" /\ answer' = "none" /\ todo' = s
        BY <1>1 DEF Start
    <2>2. s \in Seq(Files) /\ Len(s) \in Nat /\ Len(<<>>) = 0 /\ DOMAIN <<>> = {}
        BY ListingFiles
    <2>3. built' = <<>> 
        BY <1>1 DEF Start
    <2>4. CASE pc' = "idle" /\ answer' = "misuse" /\ todo' = <<>>
        BY <2>1, <2>2, <2>3, <2>4
    <2>5. CASE pc' = "reading" /\ answer' = "none" /\ todo' = s
        BY <2>1, <2>2, <2>3, <2>5
    <2> QED BY <2>1, <2>4, <2>5
<1>2. ASSUME NEW f \in Files, NEW t \in Saved, Save(f, t) PROVE ProgressInv'
    <2>1. UNCHANGED <<cmd, pc, todo, failed, built, answer, listed>>
        BY <1>2 DEF Save, command
    <2> QED BY <2>1
<1>3. CASE Unreadable \/ Read \/ FmtPasses \/ FmtRewrites
    <2>1. /\ todo # <<>> /\ todo' = Tail(todo) /\ pc = "reading" /\ UNCHANGED <<cmd, listed, built, answer>>
        BY <1>3 DEF Unreadable, Read, FmtPasses, FmtRewrites, Advance, history
    <2>2. /\ Len(todo') = Len(todo) - 1 /\ Len(todo') <= Len(listed)
          /\ \A i \in DOMAIN todo' : todo'[i] = listed[(Len(listed) - Len(todo')) + i]
        BY <1>0, <2>1, Suffix
    <2>3. \/ pc' = "reading" /\ failed'
          \/ pc' = "loading" /\ failed' = failed
          \/ cmd \in Formatting /\ pc' \in {"reading", "rewriting"} /\ cmd \notin Judging
        BY <1>3 DEF Unreadable, Read, FmtPasses, FmtRewrites, Formatting, Judging
    <2>4. cmd' = cmd /\ listed' = listed /\ built' = built
        BY <2>1
    <2>5. pc' = "loading" /\ ~failed' /\ cmd \in Judging =>
                Len(built') + Len(todo') + 1 = Len(listed')
        BY <1>0, <2>1, <2>2, <2>3, <2>4
    <2>7. pc' = "reading" /\ ~failed' /\ cmd' \in Judging =>
                Len(built') + Len(todo') = Len(listed')
        BY <2>3, <2>4
    <2>6. pc' \notin {"idle", "writing", "visiting", "materializing", "compiling"}
        BY <2>1, <2>3
    <2> QED BY <2>2, <2>4, <2>5, <2>6, <2>7
<1>4. CASE LoadForImports \/ Dependencies
    <2>1. UNCHANGED <<cmd, pc, todo, failed, built, answer, listed>>
        BY <1>4 DEF LoadForImports, Dependencies, command, history
    <2> QED BY <2>1
<1>5. CASE Judge
    <2>1. /\ pc = "loading" /\ pc' = "reading" /\ UNCHANGED <<cmd, todo, listed, answer>>
        BY <1>5 DEF Judge, history
    <2>2. ~failed' => ~failed /\ built' = Append(built, model)
        BY <1>5, Judged, Zenon
    <2>3. ASSUME ~failed' PROVE Len(built') + Len(todo') = Len(listed')
        <3>1. ~failed /\ built' = Append(built, model)
            BY <2>2, <2>3, Zenon
        <3>2. Len(built') = Len(built) + 1
            BY <1>0, <3>1
        <3> QED BY <1>0, <2>1, <3>1, <3>2 DEF StageInv
    <2> QED BY <2>1, <2>3
<1>6. CASE Emit \/ Truncate \/ Fill \/ Resolve \/ Materialize \/ Assemble \/ FmtGoesOn
    <2>1. UNCHANGED <<cmd, todo, listed, answer, built, failed>>
        BY <1>6 DEF Emit, Truncate, Fill, Resolve, Materialize, Assemble, FmtGoesOn, history
    <2>2. CASE Emit
        <3>1. todo = <<>> /\ ~failed /\ pc = "reading" /\ pc' = "writing" /\ cmd \in Judging
            BY <2>2 DEF Emit, Judging
        <3>2. Len(todo) = 0
            BY <3>1
        <3> QED BY <1>0, <2>1, <3>1, <3>2
    <2>3. CASE Truncate \/ Fill
        BY <2>1, <2>3 DEF Truncate, Fill
    <2>4. CASE FmtGoesOn
        BY <2>1, <2>4 DEF FmtGoesOn, StageInv, Judging
    <2>5. CASE Resolve \/ Materialize \/ Assemble
        BY <2>1, <2>5 DEF Resolve, Materialize, Assemble
    <2> QED BY <1>6, <2>2, <2>3, <2>4, <2>5
<1>7. CASE Ends
    <2>1. PICK how \in {"ok", "errors", "failed", "killed"} :
              /\ Exit(how)
              /\ how \in {"ok", "failed"} => pc # "reading" \/ cmd \in {"lint"} \cup Formatting
        BY <1>7, Ended
    <2>2. /\ todo' = <<>> /\ Len(todo') = 0 /\ DOMAIN todo' = {} /\ pc' = "idle" /\ answer' = how
          /\ UNCHANGED <<cmd, listed, built>>
        BY <2>1, EmptyDomain DEF Exit
    <2>3. how = "ok" => pc \in {"writing", "compiling"} \/ cmd \in {"lint"} \cup Formatting
        BY <1>7, <2>1, <2>2 DEF Ends, Verdict, WriteFails, Written, Compile, FmtStops, Kill, Exit
    <2>4. Len(todo') <= Len(listed')
        BY <1>0, <2>2
    <2> QED BY <2>2, <2>3, <2>4 DEF Judging, Formatting
<1> QED BY <1>1, <1>2, <1>3, <1>4, <1>5, <1>6, <1>7, Moves

LEMMA SettledKept ==
    ASSUME TypeOK, StageInv, QueueInv, ProgressInv, SettledInv, Next
    PROVE  SettledInv'
<1> USE DEF SettledInv
<1>0. /\ todo \in Seq(Files) /\ listed \in Seq(Files) /\ queue \in Seq(Entries)
      /\ Len(todo) \in Nat /\ Len(listed) \in Nat /\ Len(todo) <= Len(listed)
    BY DEF TypeOK, ProgressInv
<1>1. ASSUME NEW c \in Judging \cup Formatting, Start(c) PROVE SettledInv'
    <2>1. PICK s \in Listings :
            /\ listed' = s
            /\ \/ pc' = "idle" /\ answer' = "misuse"
               \/ pc' = "reading" /\ answer' = "none" /\ todo' = s
        BY <1>1 DEF Start
    <2>2. s \in Seq(Files) /\ 1 .. (Len(s) - Len(s)) = {}
        BY ListingFiles
    <2> QED BY <2>1, <2>2
<1>2. ASSUME NEW f \in Files, NEW t \in Saved, Save(f, t) PROVE SettledInv'
    <2>1. /\ UNCHANGED <<cmd, pc, answer, failed, listed, todo, queue>>
          /\ saved' = saved \cup {f} /\ disk' = [disk EXCEPT ![f] = t]
          /\ garbled' = IF Writing /\ Head(queue).path = f THEN garbled ELSE garbled \ {f}
        BY <1>2 DEF Save, command
    <2>2. \A g \in Files : Settled(g) => Settled(g)'
        BY <2>1 DEF Settled, TypeOK
    <2>3. \A i \in 1 .. (Len(listed) - Len(todo)) : listed[i] \in Files
        BY <1>0
    <2>4. pc = "rewriting" => \A i \in DOMAIN queue : queue[i].path \in garbled
                                                     => queue[i].path \in garbled'
        <3> SUFFICES ASSUME pc = "rewriting", NEW i \in DOMAIN queue
                     PROVE  queue[i].path \in garbled => queue[i].path \in garbled'
            OBVIOUS
        <3>1. queue # <<>> /\ i = 1 /\ Head(queue) = queue[1]
            BY <1>0, EmptyDomain, Sequences DEF QueueInv
        <3> QED BY <2>1, <3>1 DEF Writing
    <2> QED BY <2>1, <2>2, <2>3, <2>4
<1>3. CASE FmtPasses \/ FmtRewrites
    <2> DEFINE n == Len(listed) - Len(todo)
    <2>1. /\ todo # <<>> /\ todo' = Tail(todo) /\ pc = "reading" /\ cmd \in Formatting
          /\ UNCHANGED <<cmd, listed, answer, disk, saved>>
        BY <1>3 DEF FmtPasses, FmtRewrites, Advance, history, Formatting
    <2>2. Len(todo') = Len(todo) - 1 /\ Head(todo) = listed[n + 1] /\ n \in Nat
        BY <1>0, <2>1, Suffix DEF ProgressInv
    <2>4. garbled \subseteq garbled'
        BY <1>3, Rewritten DEF FmtPasses, history
    <2>5. Len(todo') = Len(todo) - 1 /\ listed' = listed
        BY <2>1, <2>2
    <2>3. ~failed => \A i \in 1 .. n : Settled(listed[i])'
        BY <2>1, <2>4 DEF Settled
    <2>6. \A i \in 1 .. (Len(listed') - Len(todo')) : i \in 1 .. n \/ i = n + 1
        BY <1>0, <2>5
    <2> HIDE DEF n
    <2>7. CASE FmtPasses
        <3>0. PICK t \in ReadIn(Head(todo)) \ {Unparsable, Absent} :
                failed' = (failed \/ ~t.canonical)
            BY <2>7 DEF FmtPasses
        <3>1. pc' = "reading" /\ t \in Readable /\ t.canonical \in BOOLEAN
            BY <2>1, <2>7, ReadTexts DEF FmtPasses
        <3>2. t.canonical => \A g \in {listed[n + 1]} : Settled(g)'
            <4>1. t = disk[Head(todo)] \/ disk[Head(todo)] = Torn
                BY DEF ReadIn
            <4>2. t.canonical => Canonical(t)
                BY <3>1 DEF Canonical
            <4> QED BY <2>1, <2>2, <4>1, <4>2 DEF Settled
        <3>3. ~failed' => \A i \in 1 .. (Len(listed') - Len(todo')) : Settled(listed[i])'
            <4> SUFFICES ASSUME ~failed', NEW i \in 1 .. (Len(listed') - Len(todo'))
                         PROVE  Settled(listed[i])'
                OBVIOUS
            <4>1. ~failed /\ t.canonical
                BY <3>0, <3>1
            <4>2. CASE i \in 1 .. n
                BY <2>3, <4>1, <4>2
            <4>3. CASE i = n + 1
                <5>1. listed'[i] = listed[n + 1]
                    BY <2>1, <4>3
                <5> QED BY <3>2, <4>1, <5>1 DEF Settled
            <4> QED BY <2>6, <4>2, <4>3
        <3> QED BY <3>1, <3>3
    <2>8. CASE FmtRewrites
        <3>1. PICK u \in Texts : /\ queue' = <<Entry(Head(todo), u)>>
                                 /\ Head(todo) \notin garbled' => Canonical(u)
            BY <2>8, Rewritten
        <3>2. /\ DOMAIN queue' = {1} /\ queue' # <<>> /\ Head(queue') = queue'[1]
              /\ queue'[1].path = listed[n + 1] /\ queue'[1].content = u
            BY <2>2, <3>1 DEF Entry
        <3>3. pc' = "rewriting" /\ failed' = failed
            BY <2>8 DEF FmtRewrites
        <3>4. ASSUME NEW i \in DOMAIN queue'
              PROVE  (queue[i].path \in garbled \/ Canonical(queue[i].content))'
            <4>1. queue'[i].path = Head(todo) /\ queue'[i].content = u
                BY <2>2, <3>2
            <4>2. CASE Head(todo) \in garbled'
                BY <4>1, <4>2
            <4>3. CASE Canonical(u)
                BY <4>1, <4>3 DEF Canonical
            <4> QED BY <3>1, <4>2, <4>3, Zenon
        <3>5. ASSUME ~failed', NEW i \in 1 .. (Len(listed') - Len(todo'))
              PROVE  \/ Settled(listed[i])'
                     \/ pc' = "rewriting" /\ queue' # <<>> /\ Head(queue').path = listed'[i]
            <4>1. CASE i \in 1 .. n
                BY <2>3, <3>3, <3>5, <4>1
            <4>2. CASE i = n + 1
                BY <2>1, <3>2, <3>3, <4>2
            <4> QED BY <2>6, <4>1, <4>2
        <3> QED BY <3>4, <3>5
    <2> QED BY <1>3, <2>7, <2>8
<1>4. CASE FmtGoesOn
    <2>1. pc = "rewriting" /\ queue = <<>> /\ pc' = "reading"
          /\ UNCHANGED <<cmd, listed, answer, disk, saved, garbled, todo, failed>>
        BY <1>4 DEF FmtGoesOn, history
    <2> QED BY <2>1 DEF Settled
<1>5. CASE Truncate \/ Fill
    <2>1. /\ UNCHANGED <<cmd, pc, listed, answer, saved, garbled, todo, failed>>
          /\ queue # <<>> /\ Head(queue) = queue[1] /\ 1 \in DOMAIN queue
        BY <1>0, <1>5, Sequences DEF Truncate, Fill, Writing, history
    <2>2. CASE cmd \in Formatting
        <3>1. pc = "rewriting"
            BY <1>5, <2>2 DEF Truncate, Fill, Writing, StageInv, Judging, Formatting
        <3>2. /\ Head(queue).path \in Files
              /\ Head(queue).path \in garbled \/ Canonical(Head(queue).content)
            BY <2>1, <3>1 DEF QueueInv
        <3>3. Head(queue).path \in DOMAIN disk
            BY <3>2 DEF TypeOK
        <3>4. \A g \in Files : Settled(g) => Settled(g)'
            <4>1. \/ disk' = [disk EXCEPT ![Head(queue).path] = Torn]
                  \/ disk' = [disk EXCEPT ![Head(queue).path] = Head(queue).content]
                BY <1>5 DEF Truncate, Fill
            <4>2. ASSUME NEW g \in Files
                  PROVE  \/ disk'[g] = disk[g] \/ disk'[g] = Torn
                         \/ g = Head(queue).path /\ disk'[g] = Head(queue).content
                BY <4>1, <3>3 DEF TypeOK
            <4> QED BY <2>1, <3>2, <4>2 DEF Settled
        <3>5. Fill => \A g \in {Head(queue).path} : Settled(g)'
            <4>1. Fill => disk'[Head(queue).path] = Head(queue).content
                BY <3>3 DEF Fill
            <4>2. CASE Head(queue).path \in garbled
                BY <2>1, <4>2 DEF Settled
            <4>3. CASE Canonical(Head(queue).content)
                BY <4>1, <4>3 DEF Settled, Canonical
            <4> QED BY <3>2, <4>2, <4>3, Zenon
        <3>6. \A i \in 1 .. (Len(listed) - Len(todo)) : listed[i] \in Files
            BY <1>0
        <3>7. CASE Truncate
            <4>1. queue' = queue
                BY <3>7 DEF Truncate
            <4> QED BY <2>1, <3>1, <3>4, <3>6, <4>1
        <3>8. CASE Fill
            <4>1. queue' = Tail(queue) /\ DOMAIN queue' = {}
                <5>1. queue' = Tail(queue) /\ Len(queue) <= 1
                    BY <3>1, <3>8 DEF Fill, QueueInv
                <5> QED BY <1>0, <2>1, <5>1
            <4> QED BY <2>1, <3>1, <3>4, <3>5, <3>6, <3>8, <4>1
        <3> QED BY <1>5, <3>7, <3>8
    <2>3. CASE cmd \notin Formatting
        <3>1. pc # "rewriting"
            BY <2>3 DEF StageInv, Formatting
        <3>2. pc' # "rewriting" /\ cmd' \notin Formatting
            BY <2>1, <2>3, <3>1
        <3> QED BY <3>2
    <2> QED BY <2>2, <2>3
<1>6. CASE Unreadable \/ Read \/ Judge \/ Emit \/ Resolve \/ Materialize \/ Assemble
           \/ LoadForImports \/ Dependencies
    <2>1. cmd \notin Formatting
        BY <1>6 DEF Unreadable, Read, Judge, Emit, Resolve, Materialize, Assemble, LoadForImports,
                    Dependencies, StageInv, Judging, Formatting
    <2>2. cmd' = cmd /\ pc' # "rewriting"
        BY <1>6, <2>1 DEF Unreadable, Read, Judge, Emit, Resolve, Materialize, Assemble,
                   LoadForImports, Dependencies, command
    <2> QED BY <2>1, <2>2
<1>7. CASE Ends
    <2>1. PICK how \in {"ok", "errors", "failed", "killed"} : Exit(how)
        BY <1>7, Ended
    <2>2. /\ todo' = <<>> /\ Len(todo') = 0 /\ pc' = "idle" /\ answer' = how
          /\ UNCHANGED <<cmd, listed, disk, saved, garbled>>
        BY <2>1 DEF Exit
    <2>3. how = "ok" /\ cmd \in Formatting => Verdict
        BY <1>7, <2>1, <2>2 DEF Ends, Verdict, WriteFails, Written, Compile, FmtStops, Kill, Exit,
                                StageInv, Judging, Formatting
    <2>4. Verdict /\ how = "ok" => ~failed /\ todo = <<>> /\ pc = "reading"
        BY <2>2 DEF Verdict, Exit
    <2>5. how = "ok" /\ cmd \in Formatting =>
            \A i \in 1 .. (Len(listed') - Len(todo')) : Settled(listed[i])'
        <3> SUFFICES ASSUME how = "ok", cmd \in Formatting
                     PROVE  \A i \in 1 .. (Len(listed') - Len(todo')) : Settled(listed[i])'
            OBVIOUS
        <3>1. Len(todo) = 0 /\ ~failed /\ pc = "reading"
            BY <2>3, <2>4
        <3> QED BY <1>0, <2>2, <3>1 DEF Settled
    <2> QED BY <2>2, <2>5
<1> QED BY <1>1, <1>2, <1>3, <1>4, <1>5, <1>6, <1>7, Moves

(* What stands for the entries emitted stays, and so does what is written of  *)
(* them, while other files are.                                               *)
LEMMA EmittedSame ==
    ASSUME UNCHANGED <<cmd, built>>
    PROVE  Emitted' = Emitted
    BY DEF Emitted

LEMMA ElsewhereKeeps ==
    ASSUME TypeOK, QueueInv, NEW p \in Files \cup Specs, NEW c, disk' = [disk EXCEPT ![p] = c],
           UNCHANGED <<cmd, built>>
    PROVE  /\ AllThere => AllThere'
           /\ UNCHANGED <<queue, open>> /\ EmittedInv => EmittedInv'
<1>1. Emitted' = Emitted
    BY EmittedSame
<1>2. ASSUME NEW i \in DOMAIN Emitted PROVE Emitted[i].path \in Outputs /\ Emitted[i].path # p
    <2>1. Emitted[i].path \in Names \cup Range(Documents)
        BY EmittedTyped
    <2> QED BY <2>1, PathsAssumption DEF Outputs
<1>3. \A i \in DOMAIN Emitted : There(i) => There(i)'
    BY <1>1, <1>2 DEF There, TypeOK
<1>4. Len(Emitted) \in Nat /\ DOMAIN Emitted = 1 .. Len(Emitted)
    BY EmittedTyped
<1>5. AllThere => AllThere'
    BY <1>1, <1>3, <1>4 DEF AllThere
<1>6. ASSUME UNCHANGED <<queue, open>>, EmittedInv PROVE EmittedInv'
    <2>1. queue \in Seq(Entries) /\ Len(queue) \in Nat
        BY DEF TypeOK
    <2>2. Reached' = Reached
        BY <1>1, <1>6 DEF Reached
    <2>3. Reached \in Int /\ Reached <= Len(Emitted)
        <3>1. open => Len(queue) >= 1
            BY <2>1, Sequences DEF QueueInv, TypeOK
        <3> QED BY <1>4, <1>6, <2>1, <3>1 DEF Reached, EmittedInv
    <2>4. \A i \in 1 .. Reached : \E j \in i .. Reached :
            Emitted'[j].path = Emitted'[i].path /\ (There(j)' \/ (open' /\ j = Reached'))
        <3>1. ASSUME NEW i \in 1 .. Reached, NEW j \in i .. Reached
              PROVE  j \in DOMAIN Emitted
            BY <1>4, <2>3
        <3> QED BY <1>1, <1>3, <1>6, <2>2, <3>1 DEF EmittedInv
    <2> QED BY <1>1, <1>6, <2>2, <2>4 DEF EmittedInv
<1> QED BY <1>5, <1>6

(* An entry is begun, or ended.                                               *)
LEMMA EntryKeeps ==
    ASSUME TypeOK, QueueInv, EmittedInv, pc = "writing", Truncate \/ Fill
    PROVE  EmittedInv'
<1> DEFINE k == Len(Emitted) - Len(queue)
           e == Emitted[k + 1]
<1>1. /\ queue \in Seq(Entries) /\ queue # <<>> /\ Len(queue) \in Nat /\ Len(queue) >= 1
      /\ Head(queue) = queue[1] /\ DOMAIN queue = 1 .. Len(queue)
    BY Sequences DEF Truncate, Fill, Writing, TypeOK
<1>2. /\ Emitted \in Seq(Entries) /\ Len(Emitted) \in Nat /\ DOMAIN Emitted = 1 .. Len(Emitted)
      /\ \A i \in DOMAIN Emitted : Emitted[i].path \in DOMAIN disk
    <2>1. Names \cup Range(Documents) \subseteq DOMAIN disk
        BY DEF TypeOK, Outputs
    <2> QED BY <2>1, EmittedTyped
<1>3. Emitted' = Emitted
    BY EmittedSame DEF Truncate, Fill
<1>4. k \in Nat /\ k + 1 <= Len(Emitted) /\ Head(queue) = e
    BY <1>1, <1>2 DEF EmittedInv
<1>5. k + 1 \in DOMAIN Emitted /\ e.path \in DOMAIN disk
    BY <1>2, <1>4
<1> HIDE DEF e
<1>6. CASE Truncate
    <2>1. disk' = [disk EXCEPT ![e.path] = Torn] /\ ~open /\ open' /\ queue' = queue
        BY <1>4, <1>6 DEF Truncate
    <2>2. Reached = k /\ Reached' = k + 1
        BY <1>1, <1>2, <1>3, <2>1 DEF Reached
    <2>3. ASSUME NEW i \in 1 .. (k + 1)
          PROVE  \E j \in i .. (k + 1) : Emitted[j].path = Emitted[i].path
                                        /\ (There(j)' \/ j = k + 1)
        <3>1. CASE Emitted[i].path = e.path
            BY <1>4, <3>1 DEF e
        <3>2. CASE Emitted[i].path # e.path
            <4>1. i \in 1 .. k
                BY <1>4, <3>2 DEF e
            <4>2. PICK j \in i .. k : Emitted[j].path = Emitted[i].path /\ There(j)
                BY <2>1, <2>2, <4>1 DEF EmittedInv
            <4>3. There(j)' /\ j \in i .. (k + 1)
                BY <1>2, <1>3, <1>4, <2>1, <3>2, <4>1, <4>2 DEF There
            <4> QED BY <4>2, <4>3
        <3> QED BY <3>1, <3>2
    <2> QED BY <1>3, <2>1, <2>2, <2>3 DEF EmittedInv
<1>7. CASE Fill
    <2>1. disk' = [disk EXCEPT ![e.path] = e.content] /\ open /\ ~open' /\ queue' = Tail(queue)
        BY <1>4, <1>7 DEF Fill
    <2>2. /\ Len(queue') = Len(queue) - 1 /\ Len(queue') <= Len(Emitted)
          /\ \A i \in DOMAIN queue' : queue'[i] = Emitted[(Len(Emitted) - Len(queue')) + i]
        BY <1>1, <1>2, <2>1, Suffix DEF EmittedInv
    <2>3. Reached = k + 1 /\ Reached' = k + 1
        BY <1>1, <1>2, <1>3, <2>1, <2>2 DEF Reached
    <2>4. \A j \in {k + 1} : There(j)'
        BY <1>3, <1>5, <2>1 DEF There, e
    <2>5. ASSUME NEW i \in 1 .. (k + 1)
          PROVE  \E j \in i .. (k + 1) : Emitted[j].path = Emitted[i].path /\ There(j)'
        <3>1. CASE Emitted[i].path = e.path
            <4>1. k + 1 \in i .. (k + 1)
                BY <1>4
            <4> QED BY <2>4, <3>1, <4>1 DEF e
        <3>2. CASE Emitted[i].path # e.path
            <4>1. PICK j \in i .. (k + 1) : /\ Emitted[j].path = Emitted[i].path
                                            /\ There(j) \/ j = k + 1
                BY <2>3 DEF EmittedInv
            <4>2. j \in 1 .. (k + 1) /\ j # k + 1 /\ There(j)
                BY <1>4, <3>2, <4>1 DEF e
            <4>3. There(j)'
                BY <1>2, <1>3, <1>4, <2>1, <3>2, <4>1, <4>2 DEF There
            <4> QED BY <4>1, <4>3
        <3> QED BY <3>1, <3>2
    <2> QED BY <1>3, <2>2, <2>3, <2>5 DEF EmittedInv
<1> QED BY <1>6, <1>7

LEMMA WholeKept ==
    ASSUME TypeOK, StageInv, QueueInv, WholeInv, Next
    PROVE  WholeInv'
<1> USE DEF WholeInv
<1>0. Emitted \in Seq(Entries) /\ Len(Emitted) \in Nat /\ DOMAIN Emitted = 1 .. Len(Emitted)
    BY EmittedTyped
<1>1. ASSUME NEW c \in Judging \cup Formatting, Start(c) PROVE WholeInv'
    BY <1>1 DEF Start
<1>2. ASSUME NEW f \in Files, NEW t \in Saved, Save(f, t) PROVE WholeInv'
    <2>1. UNCHANGED <<cmd, pc, queue, open, built, answer>> /\ disk' = [disk EXCEPT ![f] = t]
        BY <1>2 DEF Save, command
    <2>2. (AllThere => AllThere') /\ (EmittedInv => EmittedInv')
        BY <2>1, ElsewhereKeeps
    <2> QED BY <2>1, <2>2
<1>3. CASE Unreadable \/ Read \/ LoadForImports \/ Judge \/ FmtPasses \/ FmtRewrites \/ FmtGoesOn
    <2>1. pc' \in {"reading", "loading", "rewriting"}
        BY <1>3 DEF Unreadable, Read, LoadForImports, Judge, FmtPasses, FmtRewrites, FmtGoesOn, command
    <2> QED BY <2>1
<1>4. CASE Emit
    <2>1. queue' = Emitted /\ pc' = "writing" /\ UNCHANGED <<open, cmd, built>> /\ ~open
        BY <1>4 DEF Emit, QueueInv
    <2>2. Emitted' = Emitted
        BY <2>1, EmittedSame
    <2>3. Reached' = 0
        BY <1>0, <2>1, <2>2 DEF Reached
    <2>4. EmittedInv'
        BY <1>0, <2>1, <2>2, <2>3 DEF EmittedInv
    <2> QED BY <2>1, <2>4
<1>5. CASE Truncate \/ Fill
    <2>1. /\ UNCHANGED <<cmd, pc, built, answer>> /\ queue # <<>>
          /\ pc \in {"writing", "rewriting", "materializing"}
          /\ Head(queue) = queue[1] /\ 1 \in DOMAIN queue
        BY <1>5, Sequences DEF Truncate, Fill, Writing, TypeOK
    <2>2. CASE pc = "writing"
        BY <1>5, <2>1, <2>2, EntryKeeps
    <2>3. CASE pc = "rewriting"
        BY <2>1, <2>3
    <2>4. CASE pc = "materializing"
        <3>1. Head(queue).path \in Files \cup Specs
            BY <2>1, <2>4 DEF QueueInv
        <3>2. \E c : disk' = [disk EXCEPT ![Head(queue).path] = c]
            BY <1>5 DEF Truncate, Fill
        <3>3. AllThere => AllThere'
            BY <2>1, <3>1, <3>2, ElsewhereKeeps
        <3> QED BY <2>1, <2>4, <3>3
    <2> QED BY <2>1, <2>2, <2>3, <2>4
<1>6. ASSUME pc = "writing", queue = <<>>
      PROVE  AllThere
    <2>1. Len(queue) = 0 /\ ~open
        BY <1>6 DEF QueueInv
    <2>2. Reached = Len(Emitted)
        BY <1>0, <2>1 DEF Reached
    <2> QED BY <1>0, <1>6, <2>1, <2>2 DEF EmittedInv, AllThere
<1>7. ASSUME UNCHANGED <<disk, cmd, built>>, AllThere PROVE AllThere'
    BY <1>7, EmittedSame DEF AllThere, There
<1>8. CASE Resolve \/ Dependencies \/ Materialize \/ Assemble
    <2>1. UNCHANGED <<disk, cmd, built>> /\ pc' \in {"visiting", "materializing", "compiling"}
        BY <1>8 DEF Resolve, Dependencies, Materialize, Assemble, command
    <2>2. AllThere
        BY <1>6, <1>8 DEF Resolve, Dependencies, Materialize, Assemble
    <2> QED BY <1>7, <2>1, <2>2
<1>9. CASE Ends
    <2>1. PICK how \in {"ok", "errors", "failed", "killed"} :
              /\ Exit(how)
              /\ how \in {"ok", "failed"} => pc # "reading" \/ cmd \in {"lint"} \cup Formatting
        BY <1>9, Ended
    <2>2. pc' = "idle" /\ answer' = how /\ UNCHANGED <<disk, cmd, built>>
        BY <2>1 DEF Exit
    <2>3. how = "ok" /\ cmd \in {"build", "export", "compile"} =>
            (pc = "writing" /\ queue = <<>>) \/ pc = "compiling"
        BY <1>9, <2>1, <2>2 DEF Ends, Verdict, WriteFails, Written, Compile, FmtStops, Kill, Exit,
                                Formatting
    <2> QED BY <1>6, <1>7, <2>2, <2>3
<1> QED BY <1>1, <1>2, <1>3, <1>4, <1>5, <1>8, <1>9, Moves

(* Of the documents of n models, k of each, which one is where.               *)
LEMMA Block ==
    ASSUME NEW k \in Nat \ {0}, NEW q \in Nat, NEW r \in 0 .. (k - 1)
    PROVE  (k * q + r) % k = r /\ (k * q + r) \div k = q
    OBVIOUS

LEMMA LastBlock ==
    ASSUME NEW k \in Nat \ {0}, NEW n \in Nat \ {0}, NEW a \in (n - 1) * k .. (n * k - 1)
    PROVE  a \div k = n - 1
<1> DEFINE q == a \div k
<1>1. q \in Int /\ a % k \in 0 .. (k - 1) /\ a = (k * q) + (a % k)
    OBVIOUS
<1>2. (n - 1) * k \in Nat /\ a \in Nat /\ a < n * k /\ n * k = (n - 1) * k + k
    <2>1. (n - 1) * k \in Nat
        BY NaturalProduct
    <2> QED BY <2>1
<1>3. q \in 0 .. (n - 1)
    BY <1>2, Places
<1> HIDE DEF q
<1>4. ~(q < n - 1)
    <2> SUFFICES ASSUME q < n - 1 PROVE FALSE
        OBVIOUS
    <2>1. PICK d \in Nat : n - 1 = q + 1 + d
        <3>1. n - 1 - q - 1 \in Nat /\ n - 1 = q + 1 + (n - 1 - q - 1)
            BY <1>3
        <3> QED BY <3>1
    <2>2. (n - 1) * k = k * q + k + k * d
        BY <1>3, <2>1
    <2>3. k * d \in Nat
        BY NaturalProduct
    <2> QED BY <1>1, <1>2, <2>2, <2>3
<1> QED BY <1>3, <1>4 DEF q

LEMMA Done == ASSUME TypeOK, StageInv, CompileInv, ProgressInv, SettledInv, WholeInv PROVE DoneIsWhole
<1> SUFFICES ASSUME answer = "ok" PROVE DoneIsWhole
    BY DEF DoneIsWhole
<1>1. pc = "idle"
    BY DEF StageInv
<1>2. /\ built \in Seq(Models) /\ listed \in Seq(Files) /\ Len(built) \in Nat
      /\ Len(listed) \in Nat /\ DOMAIN built = 1 .. Len(built)
      /\ DOMAIN listed = 1 .. Len(listed) /\ Len(todo) \in Nat
    BY DEF TypeOK
<1>3. todo = <<>> /\ Len(todo) = 0 /\ ~failed
    BY <1>1, <1>2 DEF ProgressInv, CompileInv
<1>4. ASSUME cmd \in Formatting, NEW i \in DOMAIN listed
      PROVE  \/ listed[i] \in saved \cup garbled \/ disk[listed[i]] = Torn
             \/ disk[listed[i]] \in Readable /\ disk[listed[i]].canonical
    <2>1. i \in 1 .. (Len(listed) - Len(todo))
        BY <1>2, <1>3
    <2>2. Settled(listed[i])
        BY <1>1, <1>3, <1>4, <2>1 DEF SettledInv
    <2> QED BY <2>2 DEF Settled, Canonical
<1>5. ASSUME cmd \in {"build", "compile", "export"}
      PROVE  /\ Len(built) = Len(listed)
             /\ \A i \in DOMAIN built :
                   IF cmd = "export"
                   THEN i = Len(built) => \A p \in Range(Documents) : disk[p] = built[i]
                   ELSE (\A j \in (i + 1) .. Len(built) : Name[built[j]] # Name[built[i]])
                            => disk[Name[built[i]]] = built[i]
    <2>1. Len(built) = Len(listed) /\ AllThere
        BY <1>1, <1>5 DEF ProgressInv, WholeInv, Judging
    <2>2. ASSUME cmd # "export", NEW i \in DOMAIN built,
                 \A j \in (i + 1) .. Len(built) : Name[built[j]] # Name[built[i]]
          PROVE  disk[Name[built[i]]] = built[i]
        <3>1. Emitted = [l \in 1 .. Len(built) |-> Entry(Name[built[l]], built[l])]
            BY <1>2, <2>2 DEF Emitted
        <3>2. Len(Emitted) = Len(built) /\ DOMAIN Emitted = 1 .. Len(built)
            BY <1>2, <3>1
        <3>3. PICK j \in i .. Len(built) : Emitted[j].path = Emitted[i].path /\ There(j)
            BY <1>2, <2>1, <3>2 DEF AllThere
        <3>4. \A l \in 1 .. Len(built) : Emitted[l].path = Name[built[l]] /\ Emitted[l].content = built[l]
            BY <3>1 DEF Entry
        <3>5. j = i
            BY <1>2, <2>2, <3>3, <3>4
        <3> QED BY <1>2, <3>3, <3>4, <3>5 DEF There
    <2>3. ASSUME cmd = "export", Len(built) \in DOMAIN built, NEW p \in Range(Documents)
          PROVE  disk[p] = built[Len(built)]
        <3> DEFINE n == Len(built)
                   k == Len(Documents)
        <3>1. PICK d \in 1 .. k : Documents[d] = p
            BY PathsAssumption DEF Range
        <3>2. n \in Nat \ {0} /\ k \in Nat \ {0}
            BY <1>2, <2>3, <3>1, PathsAssumption
        <3>3. Emitted = [i \in 1 .. n * k |->
                Entry(Documents[1 + ((i - 1) % k)], built[1 + ((i - 1) \div k)])]
            BY <2>3 DEF Emitted
        <3> DEFINE b == (n - 1) * k
        <3>4. b \in Nat /\ n * k = b + k /\ b = k * (n - 1) /\ n * k \in Nat
            BY <3>2, NaturalProduct
        <3>5. Len(Emitted) = n * k /\ DOMAIN Emitted = 1 .. n * k
            <4> HIDE DEF n, k
            <4> QED BY <3>3, <3>4
        <3> HIDE DEF n, k, b
        <3> DEFINE i == b + d
        <3>6. i \in DOMAIN Emitted /\ i - 1 = k * (n - 1) + (d - 1) /\ n - 1 \in Nat
              /\ d - 1 \in 0 .. (k - 1)
            BY <3>2, <3>4, <3>5
        <3>7. (i - 1) % k = d - 1
            BY <3>2, <3>6, Block
        <3>8. Emitted[i].path = p
            <4>1. 1 + ((i - 1) % k) = d
                BY <3>6, <3>7, <3>2
            <4> HIDE DEF i
            <4>2. Emitted[i].path = Documents[1 + ((i - 1) % k)]
                BY <3>3, <3>5, <3>6 DEF Entry
            <4> QED BY <3>1, <4>1, <4>2
        <3>9. PICK j \in i .. (n * k) : Emitted[j].path = p /\ There(j)
            BY <2>1, <3>5, <3>6, <3>8 DEF AllThere
        <3>10. j - 1 \in (n - 1) * k .. (n * k - 1) /\ j \in DOMAIN Emitted
            BY <3>4, <3>5, <3>9 DEF b
        <3>11. 1 + ((j - 1) \div k) = n
            <4>1. (j - 1) \div k = n - 1
                BY <3>2, <3>10, LastBlock
            <4> QED BY <3>2, <4>1
        <3>12. Emitted[j].content = built[n]
            <4>1. Emitted[j].content = built[1 + ((j - 1) \div k)]
                BY <3>3, <3>5, <3>10 DEF Entry
            <4> QED BY <3>11, <4>1
        <3> QED BY <3>9, <3>12 DEF There, n
    <2> QED BY <2>1, <2>2, <2>3
<1> QED BY <1>4, <1>5 DEF DoneIsWhole

-------------------------------------------------------------------------------
LEMMA Initial == Init => Inv
<1> SUFFICES ASSUME Init PROVE Inv
    OBVIOUS
<1> USE DEF Init
<1>1. IInv
    BY Initially
<1>2. PICK c \in Cases :
          /\ disk = [p \in Files \cup Outputs |-> IF p \in Files THEN c.dir[p] ELSE Absent]
          /\ kept = c.dir
          /\ left = [commands |-> c.commands, saves |-> c.saves]
    OBVIOUS
<1>3. c.dir \in [Files -> Texts \cup {Absent}] /\ c.commands \in Nat /\ c.saves \in Nat
    BY InputsAssumption
<1>4. /\ DOMAIN disk = Files \cup Outputs
      /\ \A p \in Files : disk[p] = kept[p] /\ disk[p] \in Texts \cup {Absent}
      /\ \A p \in Outputs : disk[p] = Absent
    BY <1>2, <1>3, Texted
<1>5. TypeOK
    <2>1. \A p \in DOMAIN disk : disk[p] \in Content(p)
        BY <1>4, Texted
    <2>2. /\ todo \in Seq(Files) /\ queue \in Seq(Entries)
          /\ built \in Seq(Models) /\ listed \in Seq(Files)
        BY EmptySequence
    <2>3. /\ left \in [commands : Nat, saves : Nat]
          /\ kept \in [Files -> Texts \cup {Torn, Absent}]
          /\ before \in [Outputs -> Models \cup Specs \cup {Torn, Absent}]
        BY <1>2, <1>3
    <2> QED BY <1>1, <1>4, <2>1, <2>2, <2>3
            DEF TypeOK, IInv, Judging, Formatting, Stages, Answers
<1>6. StageInv /\ QueueInv /\ CompileInv
    BY EmptyDomain DEF StageInv, QueueInv, CompileInv
<1>7. OutputsInv
    BY <1>4 DEF OutputsInv
<1>8. OnlyBuildable
    BY <1>4, ContentsAssumption DEF OnlyBuildable
<1>9. FilesInv
    BY <1>4, EmptyDomain DEF FilesInv, RewriteInv, InputsKept, Empties, SameModel
<1>10. ProgressInv /\ SettledInv /\ WholeInv
    <2>1. Len(<<>>) = 0
        OBVIOUS
    <2> QED BY <2>1, EmptyDomain DEF ProgressInv, SettledInv, WholeInv
<1> QED BY <1>1, <1>5, <1>6, <1>7, <1>8, <1>9, <1>10 DEF Inv

(* IInv in the next state: a step of Registry's, or a start anew.             *)
LEMMA Anew == InitRegistry' => IInv'
    BY Initially, PTL

LEMMA Inductive ==
    ASSUME Inv, [Next]_vars
    PROVE  Inv'
<1> USE DEF Inv
<1>1. CASE UNCHANGED vars
    <2>1. UNCHANGED <<disk, cmd, pc, todo, model, failed, queue, open, built, answer, listed,
                      before, saved, kept, garbled, left, registryVars>>
        BY <1>1 DEF vars, command, history
    <2>2. IInv'
        BY <2>1, StepKeeps
    <2>3. TypeOK'
        BY <2>1, <2>2 DEF TypeOK, IInv
    <2>4. StageInv' /\ QueueInv' /\ OnlyBuildable' /\ OutputsInv' /\ FilesInv'
        BY <2>1 DEF StageInv, QueueInv, OnlyBuildable, OutputsInv, FilesInv, RewriteInv,
                    InputsKept, Empties, registryVars
    <2>5. CompileInv'
        BY <2>1 DEF CompileInv, CleanInv, WrittenInv, Loaded, Visited, registryVars
    <2>6. ProgressInv' /\ SettledInv'
        BY <2>1 DEF ProgressInv, SettledInv, Settled
    <2>7. WholeInv'
        <3>1. Emitted' = Emitted
            BY <2>1, EmittedSame
        <3> QED BY <2>1, <3>1 DEF WholeInv, EmittedInv, AllThere, Reached, There
    <2> QED BY <2>2, <2>3, <2>4, <2>5, <2>6, <2>7
<1>2. CASE Next
    <2>1. IInv'
        BY <1>2, Closures, StepKeeps, Anew
    <2>2. TypeOK'
        BY <1>2, <2>1, TypeKept DEF IInv
    <2> QED BY <1>2, <2>1, <2>2, StageKept, QueueKept, BuildableKept, OutputsKept, FilesKept,
               CompileKept, ProgressKept, SettledKept, WholeKept
<1> QED BY <1>1, <1>2

(* The strengthened invariant holds of every command, at every step.          *)
THEOREM CommandsInvariant == Spec => []Inv
<1> QED BY Initial, Inductive, PTL DEF Spec

(* Every state of the commands is well formed.                                *)
THEOREM CommandsTyped == Spec => []TypeOK
<1>1. Inv => TypeOK
    BY DEF Inv
<1> QED BY CommandsInvariant, <1>1, PTL

(* LoadForImports and Dependencies take no spec the imports do not need,      *)
(* whatever commands run and however they end ...                             *)
THEOREM CommandsNoExtra == Spec => []NothingExtra
<1>1. Inv => NothingExtra
    BY DEF Inv, IInv
<1> QED BY CommandsInvariant, <1>1, PTL

(* ... and the ModelCompiler gets each spec once and after all it requires.   *)
THEOREM CommandsInOrder == Spec => []DependenciesFirst
<1>1. Inv => DependenciesFirst
    BY DEF Inv, IInv
<1> QED BY CommandsInvariant, <1>1, PTL

(* Only what builds is ever in the output directory.                          *)
THEOREM EmitsOnlyBuildable == Spec => []OnlyBuildable
<1>1. Inv => OnlyBuildable
    BY DEF Inv
<1> QED BY CommandsInvariant, <1>1, PTL

(* A command that reports errors has written nothing.                         *)
THEOREM AllOrNothing == Spec => []RefusedLeaves
<1>1. Inv => RefusedLeaves
    BY Refused DEF Inv
<1> QED BY CommandsInvariant, <1>1, PTL

(* Formatting keeps what the user wrote, of every file whose model is not     *)
(* frail.                                                                     *)
THEOREM FormattingKeeps == Spec => []InputsKept
<1>1. Inv => InputsKept
    BY DEF Inv, FilesInv
<1> QED BY CommandsInvariant, <1>1, PTL

(* The ModelCompiler is given the model that was judged, with the very specs  *)
(* it was judged with, all whole.                                             *)
THEOREM CompilerGetsAll == Spec => []CompilerFed
<1>1. Inv => CompilerFed
    BY Fed DEF Inv
<1> QED BY CommandsInvariant, <1>1, PTL

(* A command that answers "ok" has read and emitted all it listed, or brought *)
(* it into canonical form, except the files whose models are frail.           *)
THEOREM OkMeansWhole == Spec => []DoneIsWhole
<1>1. Inv => DoneIsWhole
    BY Done DEF Inv
<1> QED BY CommandsInvariant, <1>1, PTL
===============================================================================
