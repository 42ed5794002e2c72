-------------------------- MODULE FileKeys_proofs ---------------------------
(***************************************************************************)
(* Proofs about FileKeys, for every set of names and directories.          *)
(***************************************************************************)
EXTENDS FileKeys, TLAPS

\* The key a name is written to: the name itself, or the one namesake there is
\* when there is no file of that very path.
LEMMA KeyOfName ==
    ASSUME NEW m, DOMAIN m \subseteq Paths, NEW n \in Paths,
           NEW k, k = resolveWriteKey(m, n)
    PROVE  /\ k \in Paths
           /\ k # n => /\ n \notin DOMAIN m
                       /\ k \in DOMAIN m /\ Base[k] = n
                       /\ Namesakes(m, n) = {k}
<1>1. CASE resolvePath(m, n) = {}
  BY <1>1 DEF resolveWriteKey
<1>2. CASE resolvePath(m, n) # {}
  <2>1. k \in resolvePath(m, n)
    BY <1>2 DEF resolveWriteKey
  <2>2. CASE n \in DOMAIN m
    BY <2>1, <2>2 DEF resolvePath
  <2>3. CASE n \notin DOMAIN m
    BY <2>1, <2>3 DEF resolvePath, Namesakes
  <2>4. QED
    BY <2>2, <2>3
<1>3. QED
  BY <1>1, <1>2

\* A name is written to a key that is new only if it means no key.
LEMMA NewKey ==
    ASSUME NEW m, DOMAIN m \subseteq Paths, NEW n \in Paths,
           resolveWriteKey(m, n) \notin DOMAIN m
    PROVE  /\ resolveWriteKey(m, n) = n
           /\ \A k \in DOMAIN m : Namesakes(m, n) # {k}
<1>1. resolveWriteKey(m, n) = n
  BY KeyOfName
<1>2. ASSUME NEW k \in DOMAIN m, Namesakes(m, n) = {k} PROVE FALSE
  <2>1. resolvePath(m, n) = {k}
    BY <1>1, <1>2 DEF resolvePath
  <2>2. QED
    BY <2>1 DEF resolveWriteKey
<1>3. QED
  BY <1>1, <1>2

\* The key of a name depends on that path and on its namesakes only.
LEMMA SameKey ==
    ASSUME NEW a, NEW b, NEW n, n \in DOMAIN a <=> n \in DOMAIN b,
           Namesakes(a, n) = Namesakes(b, n)
    PROVE  resolveWriteKey(a, n) = resolveWriteKey(b, n)
<1>1. resolvePath(a, n) = resolvePath(b, n)
  BY DEF resolvePath
<1>2. QED
  BY <1>1 DEF resolveWriteKey

-----------------------------------------------------------------------------

\* Drafts lose no file: not those of the base branch, and none in an update.
IInv ==
    /\ TypeOK
    /\ DOMAIN baseFiles \subseteq DOMAIN files
    /\ DOMAIN before \subseteq DOMAIN files

\* Storing a content under a path gives a file map with that path.
LEMMA StoredType ==
    ASSUME NEW m, IsFileMap(m), NEW k \in Paths, NEW n \in Paths
    PROVE  /\ IsFileMap(Stored(m, k, n))
           /\ DOMAIN Stored(m, k, n) = DOMAIN m \cup {k}
           /\ Stored(m, k, n)[k] = n
           /\ \A j \in DOMAIN m : j # k => Stored(m, k, n)[j] = m[j]
BY DEF Stored, IsFileMap

\* What a write does to the draft's files.
LEMMA WriteEffect ==
    ASSUME TypeOK, NEW n \in Paths, Write(n),
           NEW k, k = resolveWriteKey(files, n)
    PROVE  /\ k \in Paths /\ IsFileMap(files')
           /\ DOMAIN files' = DOMAIN files \cup {k}
           /\ \A j \in DOMAIN files : j # k => files'[j] = files[j]
<1>1. IsFileMap(files) /\ DOMAIN files \subseteq Paths
  BY DEF TypeOK, IsFileMap
<1>2. k \in Paths
  BY <1>1, KeyOfName
<1>3. QED
  BY <1>1, <1>2, StoredType DEF Write

\* A draft starts as a copy of the base branch.
LEMMA InitInv == Init => IInv
BY DEF Init, IInv, TypeOK, IsFileMap

\* Every step keeps the types and every file.
LEMMA NextInv == IInv /\ [Next]_vars => IInv'
<1> SUFFICES ASSUME IInv, [Next]_vars PROVE IInv'
  OBVIOUS
<1> USE DEF IInv
<1>1. ASSUME NEW names \in SUBSET Paths, UpdateDraft(names) PROVE IInv'
  BY <1>1 DEF UpdateDraft, TypeOK, IsFileMap
<1>2. ASSUME NEW n \in Paths, Write(n) PROVE IInv'
  <2>1. IsFileMap(files') /\ DOMAIN files \subseteq DOMAIN files'
    BY <1>2, WriteEffect
  <2>2. QED
    BY <1>2, <2>1 DEF Write, TypeOK, IsFileMap
<1>3. CASE UNCHANGED vars
  BY <1>3 DEF vars, TypeOK, IsFileMap
<1>4. QED
  BY <1>1, <1>2, <1>3 DEF Next

\* The draft's files, its base and the pending request are what their names say.
THEOREM TypeCorrect == Spec => []TypeOK
<1>1. IInv => TypeOK
  BY DEF IInv
<1>2. QED
  BY <1>1, InitInv, NextInv, PTL DEF Spec

-----------------------------------------------------------------------------
(* No file is changed under a name that is not its own.                    *)

\* UpdateDraft never touches a file on behalf of a name that is another file's,
\* or that several files could claim.
THEOREM OnlyNamedChange == Spec => []NamedOnly
<1>1. Init => NamedOnly
  BY DEF Init, NamedOnly
<1>2. IInv /\ NamedOnly /\ [Next]_vars => NamedOnly'
  <2> SUFFICES ASSUME IInv, NamedOnly, [Next]_vars PROVE NamedOnly'
    OBVIOUS
  <2>1. ASSUME NEW names \in SUBSET Paths, UpdateDraft(names) PROVE NamedOnly'
    BY <2>1 DEF UpdateDraft, NamedOnly
  <2>2. ASSUME NEW n \in Paths, Write(n) PROVE NamedOnly'
    <3>1. TypeOK /\ DOMAIN before \subseteq DOMAIN files /\ DOMAIN files \subseteq Paths
      BY DEF IInv, TypeOK, IsFileMap
    <3>2. n \in update /\ before' = before /\ update' = update
      BY <2>2, <3>1 DEF Write, TypeOK
    <3>3. PICK key : key = resolveWriteKey(files, n)
      OBVIOUS
    <3>4. \A j \in DOMAIN files : j # key => files'[j] = files[j]
      BY <2>2, <3>1, <3>3, WriteEffect
    <3>5. key # n => /\ n \notin DOMAIN files
                     /\ Base[key] = n
                     /\ Namesakes(files, n) = {key}
      BY <3>1, <3>3, KeyOfName
    <3>6. ASSUME key \in DOMAIN before, key # n
          PROVE  n \notin DOMAIN before /\ Namesakes(before, n) = {key}
      BY <3>1, <3>5, <3>6 DEF Namesakes
    <3>7. QED
      BY <3>1, <3>2, <3>4, <3>5, <3>6 DEF NamedOnly, Namesakes
  <2>3. CASE UNCHANGED vars
    BY <2>3 DEF vars, NamedOnly, Namesakes
  <2>4. QED
    BY <2>1, <2>2, <2>3 DEF Next
<1>3. QED
  BY <1>1, <1>2, InitInv, NextInv, PTL DEF Spec

-----------------------------------------------------------------------------
(* What a file is compared with.                                           *)

\* DraftDiff compares a file with another one of the base only where a second
\* file of that basename was added to the draft.
THEOREM DiffOfOwnBase == Spec => []OwnBase
<1>1. Init => OwnBase
  BY DEF Init, OwnBase, DiffBase, resolvePath
<1>2. IInv /\ OwnBase /\ [Next]_vars => OwnBase'
  <2> SUFFICES ASSUME IInv, OwnBase, [Next]_vars PROVE OwnBase'
    OBVIOUS
  <2>1. CASE UNCHANGED <<baseFiles, files>>
    BY <2>1 DEF OwnBase, DiffBase, resolvePath, Namesakes
  <2>2. ASSUME NEW n \in Paths, Write(n) PROVE OwnBase'
    <3>1. /\ TypeOK /\ DOMAIN files \subseteq Paths
          /\ DOMAIN baseFiles \subseteq DOMAIN files
          /\ baseFiles' = baseFiles
      BY <2>2 DEF IInv, TypeOK, IsFileMap, Write
    <3>2. PICK key : key = resolveWriteKey(files, n)
      OBVIOUS
    <3>3. DOMAIN files' = DOMAIN files \cup {key}
      BY <2>2, <3>1, <3>2, WriteEffect
    <3>4. ASSUME NEW p \in DOMAIN files PROVE OwnBase!(p)'
      BY <3>1, <3>3, <3>4 DEF OwnBase, DiffBase, resolvePath, Namesakes
    <3>5. ASSUME key \notin DOMAIN files PROVE OwnBase!(key)'
      <4>1. key = n /\ \A k \in DOMAIN files : Namesakes(files, n) # {k}
        BY <3>1, <3>2, <3>5, NewKey
      <4>2. n \notin DOMAIN files /\ n \notin DOMAIN baseFiles
        BY <3>1, <3>5, <4>1
      <4>3. CASE \A k \in DOMAIN baseFiles : Namesakes(baseFiles, n) # {k}
        <5>1. DiffBase(n) = {}
          BY <4>2, <4>3 DEF DiffBase, resolvePath, Namesakes
        <5>2. DiffBase(n)' = {}
          BY <3>1, <5>1 DEF DiffBase, resolvePath, Namesakes
        <5>3. QED
          BY <3>1, <4>1, <4>2, <5>2
      <4>4. ASSUME NEW k \in DOMAIN baseFiles, Namesakes(baseFiles, n) = {k}
            PROVE  OwnBase!(key)'
        <5>1. k \in Namesakes(files, n)
          BY <3>1, <4>4 DEF Namesakes
        <5>2. PICK j \in Namesakes(files, n) : j # k
          BY <3>1, <4>1, <5>1
        <5>3. j \in DOMAIN files /\ Base[j] = n /\ j \notin DOMAIN baseFiles
          BY <4>4, <5>2 DEF Namesakes
        <5>4. QED
          BY <3>1, <3>3, <4>1, <4>2, <5>3
      <4>5. QED
        BY <4>3, <4>4
    <3>6. QED
      BY <3>3, <3>4, <3>5 DEF OwnBase
  <2>3. QED
    BY <2>1, <2>2 DEF Next, UpdateDraft, vars
<1>3. QED
  BY <1>1, <1>2, InitInv, NextInv, PTL DEF Spec

-----------------------------------------------------------------------------
(* The order of writes.                                                    *)

\* Two names of a request that is not entangled never mean the same key.
LEMMA TargetsDiffer ==
    ASSUME TypeOK, ~Entangled, NEW m \in update, NEW n \in update, m # n
    PROVE  Target(m) # Target(n)
<1>1. DOMAIN before \subseteq Paths /\ m \in Paths /\ n \in Paths
  BY DEF TypeOK, IsFileMap
<1>2. /\ Target(m) # m => Base[Target(m)] = m
      /\ Target(n) # n => Base[Target(n)] = n
  BY <1>1, KeyOfName DEF Target
<1>3. QED
  BY <1>2 DEF Entangled

\* The earlier writes of such a request do not change what a name means.
LEMMA MeaningKept ==
    ASSUME TypeOK, ~Entangled, files = After(update \ pending), NEW n \in pending
    PROVE  resolveWriteKey(files, n) = Target(n)
<1>1. DOMAIN before \subseteq Paths /\ update \subseteq Paths /\ n \in update
  BY DEF TypeOK, IsFileMap
<1>2. DOMAIN files = DOMAIN before \cup {Target(m) : m \in update \ pending}
  BY DEF After
<1>3. ASSUME NEW m \in update \ pending, Target(m) \notin DOMAIN before
      PROVE  Target(m) # n /\ Base[Target(m)] # n
  <2>1. Target(m) = m
    BY <1>1, <1>3, KeyOfName DEF Target
  <2>2. m # n /\ Base[m] # n
    BY <1>1 DEF Entangled
  <2>3. QED
    BY <2>1, <2>2
<1>4. n \in DOMAIN files <=> n \in DOMAIN before
  BY <1>2, <1>3
<1>5. Namesakes(files, n) = Namesakes(before, n)
  BY <1>2, <1>3 DEF Namesakes
<1>6. QED
  BY <1>4, <1>5, SameKey DEF Target

\* UpdateDraft comes to the same files in every order, for every request that
\* does not have both a bare name and a path that ends in it.
THEOREM OrderIrrelevant == Spec => []Simultaneous
<1>1. Init => Simultaneous
  BY DEF Init, Simultaneous, After
<1>2. IInv /\ Simultaneous /\ [Next]_vars => Simultaneous'
  <2> SUFFICES ASSUME IInv, Simultaneous, [Next]_vars PROVE Simultaneous'
    OBVIOUS
  <2>1. ASSUME NEW names \in SUBSET Paths, UpdateDraft(names) PROVE Simultaneous'
    <3>1. update' \ pending' = {} /\ before' = files /\ files' = files
      BY <2>1 DEF UpdateDraft
    <3>2. files = [k \in DOMAIN files |-> files[k]]
      BY DEF IInv, TypeOK, IsFileMap
    <3>3. QED
      BY <3>1, <3>2 DEF Simultaneous, After
  <2>2. ASSUME NEW n \in Paths, Write(n) PROVE Simultaneous'
    <3> SUFFICES ASSUME ~Entangled PROVE files' = After(update \ pending)'
      BY <2>2 DEF Simultaneous, Entangled, Write
    <3> DEFINE done == update \ pending
    <3>1. TypeOK /\ n \in pending /\ n \in update /\ files = After(done)
      BY <2>2 DEF IInv, TypeOK, Simultaneous, Write
    <3>2. resolveWriteKey(files, n) = Target(n)
      BY <3>1, MeaningKept
    <3>3. files' = Stored(After(done), Target(n), n)
      BY <2>2, <3>1, <3>2 DEF Write
    <3>4. update' \ pending' = done \cup {n} /\ before' = before
      BY <2>2, <3>1 DEF Write
    <3>5. \A m \in done : Target(m) # Target(n)
      BY <3>1, TargetsDiffer
    <3>6. Stored(After(done), Target(n), n) = After(done \cup {n})
      <4>1. DOMAIN After(done) = DOMAIN before \cup {Target(m) : m \in done}
        BY DEF After
      <4>2. DOMAIN After(done \cup {n}) = DOMAIN After(done) \cup {Target(n)}
        BY <4>1 DEF After
      <4>3. (CHOOSE m \in done \cup {n} : Target(m) = Target(n)) = n
        BY <3>5
      <4>4. ASSUME NEW k \in DOMAIN After(done) \cup {Target(n)}
            PROVE  After(done \cup {n})[k] = IF k = Target(n) THEN n ELSE After(done)[k]
        <5>1. CASE k = Target(n)
          BY <4>2, <4>3, <5>1 DEF After
        <5>2. CASE k # Target(n)
          <6>1. \A m : m \in done \cup {n} /\ Target(m) = k <=> m \in done /\ Target(m) = k
            BY <5>2
          <6>2. (CHOOSE m \in done \cup {n} : Target(m) = k) = (CHOOSE m \in done : Target(m) = k)
            BY <6>1
          <6>3. QED
            BY <4>1, <4>2, <4>4, <5>2, <6>1, <6>2 DEF After
        <5>3. QED
          BY <5>1, <5>2
      <4>5. QED
        BY <4>2, <4>4 DEF Stored, After
    <3>7. After(update \ pending)' = After(done \cup {n})
      BY <3>4 DEF After, Target
    <3>8. QED
      BY <3>3, <3>6, <3>7
  <2>3. CASE UNCHANGED vars
    BY <2>3 DEF vars, Simultaneous, Entangled, After, Target
  <2>4. QED
    BY <2>1, <2>2, <2>3 DEF Next
<1>3. QED
  BY <1>1, <1>2, InitInv, NextInv, PTL DEF Spec
=============================================================================
