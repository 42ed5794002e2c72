------------------------- MODULE DraftStore_proofs --------------------------
(***************************************************************************)
(* Proofs about DraftStore, for every set of ids, TTL, sweeping interval   *)
(* and capacity.                                                           *)
(***************************************************************************)
EXTENDS DraftStore, FiniteSetTheorems, TLAPS

-----------------------------------------------------------------------------
(* What the map's primitive writes do to its domain and its values.        *)

\* delete(m, id) takes ids out and leaves the other entries as they were.
LEMMA WithoutDomain ==
    ASSUME NEW gone
    PROVE  /\ DOMAIN Without(gone) = live \ gone
           /\ \A id \in live \ gone : Without(gone)[id] = idle[id]
BY DEF Without

\* m[id] = d makes id the only entry with a new age, 0.
LEMMA StampedDomain ==
    ASSUME NEW f, NEW id
    PROVE  /\ DOMAIN Stamped(f, id) = DOMAIN f \cup {id}
           /\ Stamped(f, id)[id] = 0
           /\ \A i \in DOMAIN f \ {id} : Stamped(f, id)[i] = f[i]
BY DEF Stamped

-----------------------------------------------------------------------------
(* Every entry stays within its TTL plus the time since the last sweep.    *)

\* What has expired has been expired for at most the time that passed since
\* the last sweep.
IdleSinceSweep == \A id \in live : idle[id] <= TTL + sinceSweep

IInv == TypeOK /\ IdleSinceSweep

\* The initial store is empty.
LEMMA InitInv == Init => IInv
BY IntervalAssumption DEF Init, IInv, TypeOK, IdleSinceSweep, live

\* Inserting or refreshing one entry of a well-formed map keeps it so: the
\* new entry has age 0 and every other entry keeps an age it had.
LEMMA StampKeeps ==
    ASSUME IInv, NEW S \in SUBSET live, NEW id \in DraftIds,
           NEW f, DOMAIN f = S, \A i \in S : f[i] = idle[i],
           idle' = Stamped(f, id), sinceSweep' = sinceSweep
    PROVE  IInv'
<1>1. live' = S \cup {id} /\ idle' \in [live' -> Nat]
  BY StampedDomain DEF live, Stamped, IInv, TypeOK
<1>2. \A i \in live' : idle'[i] <= TTL + sinceSweep
  <2> SUFFICES ASSUME NEW i \in live' PROVE idle'[i] <= TTL + sinceSweep
    OBVIOUS
  <2>1. CASE i = id
    <3>1. idle'[i] = 0
      BY <2>1, StampedDomain
    <3>2. QED
      BY <3>1, TTLAssumption, IntervalAssumption DEF IInv, TypeOK
  <2>2. CASE i # id
    <3>1. i \in S
      BY <1>1, <2>2
    <3>2. idle'[i] = f[i]
      BY <2>2, <3>1 DEF Stamped
    <3>3. QED
      BY <3>1, <3>2 DEF IInv, IdleSinceSweep
  <2>3. QED
    BY <2>1, <2>2
<1>3. QED
  BY <1>1, <1>2 DEF IInv, TypeOK, IdleSinceSweep

\* Removing entries keeps the map well-formed.
LEMMA RemoveKeeps ==
    ASSUME IInv, NEW gone, idle' = Without(gone), sinceSweep' = sinceSweep
    PROVE  IInv'
<1>1. live' = live \ gone /\ \A i \in live' : idle'[i] = idle[i]
  BY WithoutDomain DEF live
<1>2. idle' \in [live' -> Nat]
  BY <1>1 DEF Without, IInv, TypeOK, live
<1>3. QED
  BY <1>1, <1>2 DEF IInv, TypeOK, IdleSinceSweep

\* Every step keeps the map well-formed and its ages bounded.
LEMMA NextInv == IInv /\ [Next]_vars => IInv'
<1> SUFFICES ASSUME IInv, [Next]_vars PROVE IInv'
  OBVIOUS
<1>1. ASSUME NEW id \in DraftIds, Create(id) PROVE IInv'
  <2>1. CASE CreateIn(id, idle)
    BY <1>1, <2>1, StampKeeps DEF CreateIn, Create, live
  <2>2. ASSUME NEW victim \in Oldest, CreateIn(id, Without({victim})) PROVE IInv'
    <3>1. DOMAIN Without({victim}) \in SUBSET live
      BY WithoutDomain
    <3>2. \A i \in DOMAIN Without({victim}) : Without({victim})[i] = idle[i]
      BY WithoutDomain
    <3>3. QED
      BY <1>1, <2>2, <3>1, <3>2, StampKeeps DEF CreateIn, Create
  <2>3. QED
    BY <1>1, <2>1, <2>2 DEF Create
<1>2. ASSUME NEW id \in DraftIds, Update(id) PROVE IInv'
  BY <1>2, StampKeeps DEF Update, live
<1>3. ASSUME NEW id \in DraftIds, NEW bump \in BOOLEAN, Mutate(id, bump) PROVE IInv'
  <2>1. CASE bump
    BY <1>3, <2>1, StampKeeps DEF Mutate, live
  <2>2. CASE ~bump
    BY <1>3, <2>2 DEF Mutate, IInv, TypeOK, IdleSinceSweep, live
  <2>3. QED
    BY <2>1, <2>2
<1>4. ASSUME NEW id \in DraftIds, Discard(id) PROVE IInv'
  BY <1>4, RemoveKeeps DEF Discard
<1>5. CASE Sweep
  <2>1. live' = live \ Expired /\ \A i \in live' : idle'[i] = idle[i]
    BY <1>5, WithoutDomain DEF Sweep, live
  <2>2. idle' \in [live' -> Nat]
    BY <1>5, <2>1 DEF Sweep, Without, IInv, TypeOK, live
  <2>3. \A i \in live' : idle'[i] <= TTL + 0
    BY <2>1, TTLAssumption DEF Expired, IInv, TypeOK, live
  <2>4. QED
    BY <1>5, <2>1, <2>2, <2>3, IntervalAssumption
    DEF Sweep, IInv, TypeOK, IdleSinceSweep
<1>6. CASE Tick
  <2>1. live' = live /\ \A i \in live : idle'[i] = idle[i] + 1
    BY <1>6 DEF Tick, live
  <2>2. idle' \in [live' -> Nat]
    BY <1>6, <2>1 DEF Tick, IInv, TypeOK, live
  <2>3. sinceSweep' = sinceSweep + 1 /\ sinceSweep' \in 0..Interval
    BY <1>6, IntervalAssumption DEF Tick, IInv, TypeOK
  <2>4. \A i \in live : idle[i] + 1 <= TTL + (sinceSweep + 1)
    BY TTLAssumption, IntervalAssumption DEF IInv, TypeOK, IdleSinceSweep
  <2>5. QED
    BY <2>1, <2>2, <2>3, <2>4 DEF IInv, TypeOK, IdleSinceSweep
<1>7. CASE Restart
  BY <1>7, IntervalAssumption DEF Restart, IInv, TypeOK, IdleSinceSweep, live
<1>8. CASE UNCHANGED vars
  BY <1>8 DEF vars, IInv, TypeOK, IdleSinceSweep, live
<1>9. QED
  BY <1>1, <1>2, <1>3, <1>4, <1>5, <1>6, <1>7, <1>8 DEF Next

\* The map only ever holds drafts the store issued, each with a real age.
THEOREM TypeCorrect == Spec => []TypeOK
<1>1. IInv => TypeOK
  BY DEF IInv
<1>2. QED
  BY InitInv, NextInv, <1>1, PTL DEF Spec

\* No draft outlives its TTL by more than one sweeping interval.
THEOREM IdleBound == Spec => []IdleBounded
<1>1. IInv => IdleBounded
  BY TTLAssumption, IntervalAssumption DEF IInv, TypeOK, IdleSinceSweep, IdleBounded
<1>2. QED
  BY InitInv, NextInv, <1>1, PTL DEF Spec

-----------------------------------------------------------------------------
(* The number of drafts.                                                   *)

CapInv == IsFiniteSet(live) /\ Bounded

\* A step that adds no draft keeps the store within its capacity.
LEMMA FewerKeeps ==
    ASSUME CapInv, live' \subseteq live
    PROVE  CapInv'
<1>1. IsFiniteSet(live') /\ Cardinality(live') <= Cardinality(live)
  BY FS_Subset DEF CapInv
<1>2. Cardinality(live) \in Nat /\ Cardinality(live') \in Nat
  BY <1>1, FS_CardinalityType DEF CapInv
<1>3. QED
  BY <1>1, <1>2, MaxDraftsAssumption DEF CapInv, Bounded

\* Create makes room before it inserts: the store grows only while it is
\* below its capacity.
LEMMA CreateKeeps ==
    ASSUME CapInv, NEW id, Create(id)
    PROVE  CapInv'
<1>1. Cardinality(live) \in Nat
  BY FS_CardinalityType DEF CapInv
<1>2. CASE ~AtCapacity /\ CreateIn(id, idle)
  <2>1. live' = live \cup {id} /\ id \notin live
    BY <1>2, StampedDomain DEF CreateIn, Create, live
  <2>2. IsFiniteSet(live') /\ Cardinality(live') = Cardinality(live) + 1
    BY <2>1, FS_AddElement DEF CapInv
  <2>3. QED
    BY <1>1, <1>2, <2>2, MaxDraftsAssumption DEF CapInv, Bounded, AtCapacity
<1>3. ASSUME NEW victim \in Oldest, CreateIn(id, Without({victim})) PROVE CapInv'
  <2>1. victim \in live
    BY DEF Oldest
  <2>2. live' = (live \ {victim}) \cup {id} /\ id \notin live \ {victim}
    BY <1>3, StampedDomain, WithoutDomain DEF CreateIn, Create, live
  <2>3. /\ IsFiniteSet(live \ {victim})
        /\ Cardinality(live \ {victim}) = Cardinality(live) - 1
    BY <2>1, FS_RemoveElement DEF CapInv
  <2>4. /\ IsFiniteSet(live')
        /\ Cardinality(live') = Cardinality(live \ {victim}) + 1
    BY <2>2, <2>3, FS_AddElement
  <2>5. Cardinality(live') = Cardinality(live)
    BY <1>1, <2>3, <2>4
  <2>6. QED
    BY <2>4, <2>5 DEF CapInv, Bounded
<1>4. QED
  BY <1>2, <1>3 DEF Create

\* Every step keeps the store within its capacity.
LEMMA NextCap == CapInv /\ [Next]_vars => CapInv'
<1> SUFFICES ASSUME CapInv, [Next]_vars PROVE CapInv'
  OBVIOUS
<1>1. ASSUME NEW id \in DraftIds, Create(id) PROVE CapInv'
  BY <1>1, CreateKeeps
<1>2. ASSUME NEW id \in DraftIds, Update(id) PROVE CapInv'
  BY <1>2, StampedDomain, FewerKeeps DEF Update, live
<1>3. ASSUME NEW id \in DraftIds, NEW bump \in BOOLEAN, Mutate(id, bump) PROVE CapInv'
  BY <1>3, StampedDomain, FewerKeeps DEF Mutate, live
<1>4. ASSUME NEW id \in DraftIds, Discard(id) PROVE CapInv'
  BY <1>4, WithoutDomain, FewerKeeps DEF Discard, live
<1>5. CASE Sweep
  BY <1>5, WithoutDomain, FewerKeeps DEF Sweep, live
<1>6. CASE Tick
  BY <1>6, FewerKeeps DEF Tick, live
<1>7. CASE Restart
  BY <1>7, FewerKeeps DEF Restart, live
<1>8. CASE UNCHANGED vars
  BY <1>8, FewerKeeps DEF vars, live
<1>9. QED
  BY <1>1, <1>2, <1>3, <1>4, <1>5, <1>6, <1>7, <1>8 DEF Next

\* The store never holds more than MaxDrafts drafts.
THEOREM Capacity == Spec => []Bounded
<1>1. Init => CapInv
  BY FS_EmptySet, MaxDraftsAssumption DEF Init, CapInv, Bounded, live
<1>2. CapInv => Bounded
  BY DEF CapInv
<1>3. QED
  BY <1>1, NextCap, <1>2, PTL DEF Spec

-----------------------------------------------------------------------------
(* Why a draft may disappear.                                              *)

\* Update, Mutate and Tick keep every draft; Create keeps every one but the
\* oldest of a full store, Sweep every one within its TTL.
THEOREM OnlyJustifiedLoss == Spec => LossJustified
<1>1. ASSUME [Next]_vars, NEW id \in live, id \notin DOMAIN idle'
      PROVE  MayBeLost(id)
  <2>1. ASSUME NEW new \in DraftIds, Create(new) PROVE MayBeLost(id)
    <3>1. ~CreateIn(new, idle)
      <4> SUFFICES ASSUME idle' = Stamped(idle, new) PROVE FALSE
        BY DEF CreateIn
      <4>1. DOMAIN idle' = live \cup {new}
        BY DEF Stamped, live
      <4>2. QED
        BY <1>1, <4>1
    <3>2. PICK victim \in Oldest : AtCapacity /\ CreateIn(new, Without({victim}))
      BY <2>1, <3>1 DEF Create
    <3>3. id = victim
      <4>1. DOMAIN idle' = (live \ {victim}) \cup {new}
        BY <3>2 DEF CreateIn, Stamped, Without
      <4>2. QED
        BY <1>1, <4>1
    <3>4. new \in DraftIds \ live
      BY <2>1 DEF Create
    <3>5. QED
      BY <2>1, <3>2, <3>3, <3>4 DEF MayBeLost
  <2>2. ASSUME NEW other \in DraftIds, Update(other) PROVE FALSE
    BY <1>1, <2>2, StampedDomain DEF Update, live
  <2>3. ASSUME NEW other \in DraftIds, NEW bump \in BOOLEAN, Mutate(other, bump)
        PROVE  FALSE
    BY <1>1, <2>3, StampedDomain DEF Mutate, live
  <2>4. ASSUME NEW other \in DraftIds, Discard(other) PROVE MayBeLost(id)
    <3>1. id = other
      BY <1>1, <2>4, WithoutDomain DEF Discard, live
    <3>2. QED
      BY <2>4, <3>1 DEF MayBeLost
  <2>5. CASE Sweep
    <3>1. id \in Expired
      BY <1>1, <2>5, WithoutDomain DEF Sweep, live
    <3>2. QED
      BY <2>5, <3>1 DEF Sweep, Expired, MayBeLost
  <2>6. CASE Tick
    BY <1>1, <2>6 DEF Tick, live
  <2>7. CASE Restart
    BY <2>7 DEF MayBeLost
  <2>8. CASE UNCHANGED vars
    BY <1>1, <2>8 DEF vars, live
  <2>9. QED
    BY <1>1, <2>1, <2>2, <2>3, <2>4, <2>5, <2>6, <2>7, <2>8 DEF Next
<1>2. [Next]_vars => [\A id \in live : id \notin DOMAIN idle' => MayBeLost(id)]_vars
  BY <1>1
<1>3. QED
  BY <1>2, PTL DEF Spec, LossJustified
\* A full store displaces one draft for the one it admits, and one that has
\* expired if there is any (Create and evictOldestLocked): the oldest has been
\* idle for at least as long as any other.
THEOREM ExpiredAreFirst == Spec => ExpiredGoFirst
<1> DEFINE Displaced(id) ==
             /\ Cardinality(DOMAIN idle') = Cardinality(live)
             /\ Expired # {} => id \in Expired
           Lost(id) == id \notin DOMAIN idle' /\ sinceSweep < Interval /\ ~Discard(id) /\ ~Restart
<1>1. ASSUME TypeOK, CapInv, [Next]_vars, NEW id \in live, Lost(id)
      PROVE  Displaced(id)
  <2>1. ASSUME NEW new \in DraftIds, Create(new) PROVE Displaced(id)
    <3>1. ~CreateIn(new, idle)
      <4> SUFFICES ASSUME idle' = Stamped(idle, new) PROVE FALSE
        BY DEF CreateIn
      <4>1. DOMAIN idle' = live \cup {new}
        BY DEF Stamped, live
      <4>2. QED
        BY <1>1, <4>1
    <3>2. PICK victim \in Oldest : CreateIn(new, Without({victim}))
      BY <2>1, <3>1 DEF Create
    <3>3. victim \in live /\ new \notin live
      BY <2>1 DEF Oldest, Create
    <3>4. DOMAIN idle' = (live \ {victim}) \cup {new}
      BY <3>2 DEF CreateIn, Stamped, Without
    <3>5. id = victim
      BY <1>1, <3>4
    <3>6. Cardinality(DOMAIN idle') = Cardinality(live)
      <4>1. /\ IsFiniteSet(live \ {victim}) /\ Cardinality(live) \in Nat
            /\ Cardinality(live \ {victim}) = Cardinality(live) - 1
        BY <1>1, <3>3, FS_RemoveElement, FS_CardinalityType DEF CapInv
      <4>2. Cardinality((live \ {victim}) \cup {new}) = Cardinality(live \ {victim}) + 1
        BY <3>3, <4>1, FS_AddElement
      <4>3. QED
        BY <3>4, <4>1, <4>2
    <3>7. ASSUME NEW other \in Expired PROVE id \in Expired
      <4>1. other \in live /\ idle[other] > TTL /\ idle[other] <= idle[id]
        BY <3>5 DEF Expired, Oldest
      <4>2. idle[other] \in Nat /\ idle[id] \in Nat
        BY <1>1, <4>1 DEF TypeOK
      <4>3. QED
        BY <1>1, <4>1, <4>2, TTLAssumption DEF Expired
    <3>8. QED
      BY <3>6, <3>7
  <2>2. ASSUME NEW other \in DraftIds, Update(other) PROVE FALSE
    BY <1>1, <2>2, StampedDomain DEF Update, live
  <2>3. ASSUME NEW other \in DraftIds, NEW bump \in BOOLEAN, Mutate(other, bump)
        PROVE  FALSE
    BY <1>1, <2>3, StampedDomain DEF Mutate, live
  <2>4. ASSUME NEW other \in DraftIds, Discard(other) PROVE FALSE
    <3>1. id = other
      BY <1>1, <2>4, WithoutDomain DEF Discard, live
    <3>2. QED
      BY <1>1, <2>4, <3>1
  <2>5. CASE Sweep
    <3>1. sinceSweep = Interval /\ sinceSweep < Interval
      BY <1>1, <2>5 DEF Sweep
    <3>2. QED
      BY <3>1, IntervalAssumption
  <2>6. CASE Tick
    BY <1>1, <2>6 DEF Tick, live
  <2>7. CASE Restart
    BY <1>1, <2>7
  <2>8. CASE UNCHANGED vars
    BY <1>1, <2>8 DEF vars, live
  <2>9. QED
    BY <1>1, <2>1, <2>2, <2>3, <2>4, <2>5, <2>6, <2>7, <2>8 DEF Next
<1>2. TypeOK /\ CapInv /\ [Next]_vars => [\A id \in live : Lost(id) => Displaced(id)]_vars
  BY <1>1
<1>3. Init => CapInv
  BY FS_EmptySet, MaxDraftsAssumption DEF Init, CapInv, Bounded, live
<1>4. QED
  BY <1>2, <1>3, NextCap, TypeCorrect, PTL DEF Spec, ExpiredGoFirst
=============================================================================
